---------------------------- MODULE Transactions ----------------------------
(***************************************************************************)
(* The transaction objects of one ODBC connection (src/src/tnx.cpp) and    *)
(* what they do to the work executed on it.                                *)
(*                                                                         *)
(* nanodbc counts the transaction objects of a connection: the first one   *)
(* turns autocommit off, the commit that brings the count to zero is sent  *)
(* to the driver, and the last destructor rolls back if any of them was    *)
(* rolled back and turns autocommit on, without looking at the result of   *)
(* either call.  A statement belongs to the connection, not to one of its  *)
(* transactions.  ODBC commits the pending work when autocommit is turned  *)
(* on, and refuses to disconnect while there is any.                       *)
(***************************************************************************)
EXTENDS Naturals, FiniteSets

CONSTANTS
    Tnx,       \* transaction objects
    Work,      \* executions of statements; each happens once
    Refuses,   \* the calls the driver may refuse
    Reconnects \* the caller connects again, or begins before it has connected

ASSUME TransactionsAssumption ==
    /\ Tnx \cap Work = {}
    /\ IsFiniteSet(Tnx)
    /\ Refuses \subseteq {"connect", "commit", "rollback", "autocommit"}
    /\ Reconnects \in BOOLEAN

VARIABLES
    connected, \* connected_
    db,        \* the connection: count, rollback flag, autocommit and its work
    live,      \* the transaction objects
    committed, \* those with committed_
    told,      \* history: what the last call on each transaction answered
    under,     \* history: the transactions open when each work was executed
    odd        \* history: transactions that met another one, a refusal or a new link

vars == <<connected, db, live, committed, told, under, odd>>

Database ==
    [count : Nat, flag : BOOLEAN, auto : BOOLEAN, pending : SUBSET Work,
     durable : SUBSET Work, lost : SUBSET Work, spared : SUBSET Work, manual : BOOLEAN]

TypeOK ==
    /\ connected \in BOOLEAN
    /\ db \in Database
    /\ live \subseteq Tnx
    /\ committed \subseteq live
    /\ told \in [Tnx -> {"none", "open", "committed", "refused", "rolled back", "released"}]
    /\ under \in [Work -> SUBSET Tnx]
    /\ odd \in [overlap : SUBSET Tnx, refused : SUBSET Tnx, unmanaged : SUBSET Tnx]

Done == db.pending \cup db.durable \cup db.lost

-----------------------------------------------------------------------------

\* A new link to the database, with nothing of the old one.
Fresh(d) == [d EXCEPT !.auto = TRUE, !.manual = FALSE]

\* SQLEndTran with SQL_ROLLBACK, whose refusal nobody reads: the work is spared.
RolledBack(d) ==
    {[d EXCEPT !.pending = {}, !.lost = @ \cup d.pending, !.flag = FALSE]} \cup
    {[d EXCEPT !.spared = @ \cup d.pending, !.flag = FALSE] : x \in Refuses \cap {"rollback"}}

\* Autocommit is turned on, which commits; a refusal is not read.
TurnedOn(d) ==
    {[Fresh(d) EXCEPT !.pending = {}, !.durable = @ \cup d.pending]} \cup
    {[d EXCEPT !.manual = TRUE] : x \in Refuses \cap {"autocommit"}}

Unreferenced(d) == [d EXCEPT !.count = IF @ > 0 THEN @ - 1 ELSE 0]

\* Mutant of Settled: autocommit is not turned on again.
SettledManual(d) ==
    IF d.count # 0 \/ ~connected \/ ~d.flag THEN {d} ELSE RolledBack(d)

\* The last transaction of the connection goes away.
Settled(d) ==
    IF d.count # 0 \/ ~connected THEN {d}
    ELSE UNION {TurnedOn(e) : e \in IF d.flag THEN RolledBack(d) ELSE {d}}

\* Mutant of Destroyed: the count keeps an abandoned transaction.
DestroyedKeepsCount(d, done) ==
    Settled(IF done THEN d ELSE [d EXCEPT !.flag = TRUE])

\* ~transaction_impl of a transaction, done when it has committed_.
Destroyed(d, done) ==
    Settled(IF done THEN d ELSE [Unreferenced(d) EXCEPT !.flag = TRUE])

\* transaction_impl: the first one turns autocommit off.
Referenced(d) ==
    [d EXCEPT !.auto = IF d.count = 0 /\ connected THEN FALSE ELSE @, !.count = @ + 1]

\* The statement's work, on a connection that commits it at once or does not.
Worked(d, w) ==
    IF d.auto THEN [d EXCEPT !.durable = @ \cup {w}] ELSE [d EXCEPT !.pending = @ \cup {w}]

\* commit has to ask the driver.
Asks(d) == d.count <= 1 /\ connected

\* Mutant of Committed: the driver is asked by the wrong count, never.
CommittedNever(d) == Unreferenced(d)

\* commit, when the driver agrees or is not asked.
Committed(d) ==
    IF Asks(d)
    THEN [Unreferenced(d) EXCEPT !.pending = {}, !.durable = @ \cup d.pending]
    ELSE Unreferenced(d)

\* commit refused: the server may have thrown the work away.
CommitRefused(d) ==
    {Unreferenced(d), [Unreferenced(d) EXCEPT !.pending = {}, !.lost = @ \cup d.pending]}

-----------------------------------------------------------------------------

NoneOdd == [overlap |-> {}, refused |-> {}, unmanaged |-> {}]

Init ==
    /\ connected = TRUE
    /\ db = [count |-> 0, flag |-> FALSE, auto |-> TRUE, pending |-> {}, durable |-> {},
             lost |-> {}, spared |-> {}, manual |-> FALSE]
    /\ live = {} /\ committed = {}
    /\ told = [t \in Tnx |-> "none"]
    /\ under = [w \in Work |-> {}]
    /\ odd = NoneOdd

\* nano$conn.connect: disconnect, a new handle, and a link if the server agrees.
Connect ==
    /\ Reconnects
    /\ connected => db.pending = {}
    /\ connected' \in {TRUE} \cup {FALSE : x \in Refuses \cap {"connect"}}
    /\ db' = Fresh(db)
    /\ odd' = [odd EXCEPT !.unmanaged = @ \cup live]
    /\ UNCHANGED <<live, committed, told, under>>

\* nano$conn.disconnect.
Disconnect ==
    /\ Reconnects /\ connected /\ db.pending = {}
    /\ connected' = FALSE
    /\ UNCHANGED <<db, live, committed, told, under, odd>>

\* Mutant of Begin: the first transaction leaves autocommit alone.
BeginWithAutocommit(t) ==
    /\ told[t] = "none"
    /\ db' = [db EXCEPT !.count = @ + 1]
    /\ live' = live \cup {t}
    /\ told' = [told EXCEPT ![t] = "open"]
    /\ UNCHANGED <<connected, committed, under, odd>>

\* nano$tnx.transaction_.  If autocommit cannot be turned off there is no object.
Begin(t) ==
    /\ told[t] = "none"
    /\ db' = Referenced(db)
    /\ live' = live \cup {t}
    /\ told' = [told EXCEPT ![t] = "open"]
    /\ odd' = [odd EXCEPT
            !.overlap = IF live = {} THEN @ ELSE @ \cup live \cup {t},
            !.unmanaged = IF connected /\ live \cap @ = {} THEN @ ELSE @ \cup {t}]
    /\ UNCHANGED <<connected, committed, under>>

\* t is deleted: what is left of the connection is in ends.
Delete(t, ends, answer) ==
    /\ db' \in ends
    /\ live' = live \ {t}
    /\ committed' = committed \ {t}
    /\ told' = [told EXCEPT ![t] = answer]
    /\ UNCHANGED <<connected, under, odd>>

\* nano$tnx.commit_.
Commit(t) ==
    /\ t \in live
    /\ Delete(t, Destroyed(IF t \in committed THEN db ELSE Committed(db), TRUE), "committed")

\* nano$tnx.commit_ of a transaction the driver does not commit: it is kept, and
\* is committed_.
FailCommit(t) ==
    /\ "commit" \in Refuses
    /\ t \in live \ committed
    /\ Asks(db)
    /\ db' \in CommitRefused(db)
    /\ committed' = committed \cup {t}
    /\ told' = [told EXCEPT ![t] = "refused"]
    /\ odd' = [odd EXCEPT !.refused = @ \cup {t}]
    /\ UNCHANGED <<connected, live, under>>

\* nano$tnx.rollback_.
Rollback(t) ==
    /\ t \in live
    /\ Delete(t, Destroyed(IF t \in committed THEN db ELSE [db EXCEPT !.flag = TRUE],
                           t \in committed), "rolled back")

\* nano$tnx.release_.
Release(t) ==
    /\ t \in live
    /\ Delete(t, Destroyed(db, t \in committed), "released")

\* nano$conn.expunge of a connection with one transaction.
ExpungeConnection ==
    \E t \in live : live = {t} /\ Release(t)

\* nano$conn.release_ of a connection with at most one transaction, and a new
\* connection in its place.
ReleaseConnection ==
    /\ Reconnects
    /\ Cardinality(live) <= 1
    /\ \E d \in IF live = {} THEN {db} ELSE Destroyed(db, live = committed) :
            db' = [Fresh(d) EXCEPT !.count = 0, !.flag = FALSE, !.pending = {},
                                   !.lost = @ \cup d.pending]
    /\ connected' = TRUE
    /\ live' = {} /\ committed' = {}
    /\ told' = [t \in Tnx |-> IF t \in live THEN "released" ELSE told[t]]
    /\ UNCHANGED <<under, odd>>

\* A statement of the connection is executed.
Execute(w) ==
    /\ connected /\ w \notin Done
    /\ db' = Worked(db, w)
    /\ under' = [under EXCEPT ![w] = live]
    /\ UNCHANGED <<connected, live, committed, told, odd>>

\* A transaction that ends in the call it began in.
Local(w, ends) ==
    /\ connected /\ w \notin Done
    /\ db' \in ends
    /\ under' = [under EXCEPT ![w] = live]
    /\ odd' = [odd EXCEPT !.overlap = @ \cup live]
    /\ UNCHANGED <<connected, live, committed, told>>

\* nano$func.transact_stmt and just_transact_stmt.
Transact(w) ==
    Local(w, Destroyed(Committed(Worked(Referenced(db), w)), TRUE))

\* The statement is not executed, and the transaction is abandoned.
FailTransactExecute(w) ==
    Local(w, Destroyed(Referenced(db), FALSE))

\* The transaction is not committed, and is abandoned.
FailTransactCommit(w) ==
    /\ "commit" \in Refuses /\ Asks(Referenced(db))
    /\ Local(w, UNION {Destroyed(d, TRUE) : d \in CommitRefused(Worked(Referenced(db), w))})

Next ==
    \/ Connect \/ Disconnect
    \/ ExpungeConnection \/ ReleaseConnection
    \/ \E t \in Tnx : Begin(t) \/ Commit(t) \/ FailCommit(t) \/ Rollback(t) \/ Release(t)
    \/ \E w \in Work :
        Execute(w) \/ Transact(w) \/ FailTransactExecute(w) \/ FailTransactCommit(w)

Spec == Init /\ [][Next]_vars

-----------------------------------------------------------------------------

\* nanodbc's count, nano$conn.transactions, is the number of transactions that are
\* still to commit or roll back, whatever failed before.
CountIsOpen == db.count = Cardinality(live \ committed)

\* A connection without transactions commits each statement and has no work
\* waiting, unless the driver last refused to, which nobody reads.
AtRest ==
    connected /\ live = {} /\ ~db.manual => db.auto /\ db.pending = {}

\* Work is only lost under a transaction that said it committed if another one was
\* open with it or its first commit was refused.
CommittedIsKept ==
    \A w \in db.lost : \A t \in under[w] :
        told[t] = "committed" => t \in odd.overlap \cup odd.refused

\* Work is only kept under a transaction that said it rolled back if another one
\* was open with it, its commit was refused, the link was not the one it began on,
\* or the driver refused to roll it back, which nobody reads.
RolledBackIsGone ==
    \A w \in db.durable : \A t \in under[w] :
        told[t] = "rolled back" =>
            w \in db.spared \/ t \in odd.overlap \cup odd.refused \cup odd.unmanaged

\* sql/tnx.sql: rollback_ "will call release_ after rollback".
RollbackRollsBack ==
    \A w \in db.durable : \A t \in under[w] : told[t] # "rolled back"

=============================================================================
