-------------------------------- MODULE Pump --------------------------------
(***************************************************************************)
(* nano$rslt.pump: copy what is left of an ODBC result into a Firebird     *)
(* table (src/src/rslt.cpp), in the caller's transaction or, given a pack  *)
(* size, in a transaction of its own that is committed, retaining, after   *)
(* every pack of rows.                                                     *)
(*                                                                         *)
(* The transaction is a member of the function's instance: a call that     *)
(* fails leaves it there, open, until the next call puts another one in    *)
(* its place.  BLOB columns are made in the transaction of the attachment's*)
(* snapshot (src/src/rsrs.cpp), which pump sets to its own and which every *)
(* call of the library, and every BLOB, clears; then in the transaction of *)
(* the call whose status and context the snapshot holds.  An insert may    *)
(* fire a trigger that calls the library: its status and context replace   *)
(* those of pump, and are still there when the trigger has ended.  Such a  *)
(* trigger is taken to use other results than the one that is pumped.      *)
(***************************************************************************)
EXTENDS Naturals, FiniteSets

CONSTANTS
    MaxRow,    \* rows of the result
    Packs,     \* the transaction_pack arguments used; 0 is the common transaction
    MaxCalls,  \* bound: calls of pump
    Txn,       \* the transactions pump can start
    Caller,    \* the transaction pump is called in
    None,      \* a null transaction
    Stray      \* whatever a context leads to after its call has ended

Row == 1 .. MaxRow

ASSUME PumpAssumption ==
    /\ MaxRow \in Nat /\ MaxCalls \in Nat
    /\ Packs \subseteq Nat
    /\ Caller \notin Txn /\ None \notin Txn \cup {Caller}
    /\ Stray \notin Txn \cup {Caller, None}

VARIABLES
    at,       \* the rows the result has handed out
    calls,    \* the calls of pump so far
    pump,     \* the running call, or how the last one ended
    tra,      \* the transaction the function's instance holds
    open,     \* the transactions of pump that are neither committed nor rolled back
    work,     \* the rows written and not yet committed, by transaction
    durable,  \* the rows committed
    snap,     \* snapshot.transaction
    context,  \* the call whose status and context the snapshot holds
    blobs     \* the transactions the BLOBs of the last step were made in

vars == <<at, calls, pump, tra, open, work, durable, snap, context, blobs>>

Call ==
    [state : {"never", "running", "ok", "failed"}, pack : Packs \cup {0}, index : 0 .. MaxRow,
     count : 0 .. MaxRow, first : 0 .. MaxRow]

TypeOK ==
    /\ at \in 0 .. MaxRow
    /\ calls \in 0 .. MaxCalls
    /\ pump \in Call
    /\ tra \in Txn \cup {Caller, None}
    /\ open \subseteq Txn
    /\ work \in [Txn \cup {Caller} -> SUBSET Row]
    /\ durable \subseteq Row
    /\ snap \in Txn \cup {Caller, None}
    /\ context \in {"none", "pump", "trigger", "other"}
    /\ blobs \subseteq Txn \cup {Caller, Stray}

Running == pump.state = "running"
Packed == pump.pack > 0

\* current_transaction(): the snapshot's, or the one its context leads to.
CurrentTransaction(s, ofContext) == IF s = None THEN ofContext ELSE s

\* Where the context leads while pump runs: a trigger that set it has ended.
ContextTransaction == IF context = "pump" THEN Caller ELSE Stray

\* Mutant of Cleared: the snapshot keeps its transaction.
ClearedKept(s) == s

\* current_snapshot(): what it leaves of the snapshot's transaction.
Cleared(s) == None

-----------------------------------------------------------------------------

\* Mutant of Replace: the old transaction is forgotten, not released.
ReplaceWithoutRelease(t) ==
    /\ tra' = t
    /\ open' = open \cup ({t} \cap Txn)
    /\ UNCHANGED work

\* The transaction the instance held is released, which rolls it back if it is
\* one of pump's, and t takes its place.
Replace(t) ==
    /\ tra' = t
    /\ open' = (open \ {tra}) \cup ({t} \cap Txn)
    /\ work' = [x \in Txn \cup {Caller} |-> IF x = tra /\ x \in Txn THEN {} ELSE work[x]]

\* What a call does before the destination's statement is prepared.  Its status and
\* context are the snapshot's from its first line.
Begin(p) ==
    /\ ~Running /\ calls < MaxCalls
    /\ calls' = calls + 1
    /\ \E t \in (IF p > 0 THEN Txn \ open ELSE {Caller}) : Replace(t) /\ snap' = t
    /\ context' = "pump"
    /\ blobs' = {}
    /\ UNCHANGED <<at, durable>>

StartPump(p) ==
    /\ Begin(p)
    /\ pump' = [state |-> "running", pack |-> p, index |-> 0, count |-> 0, first |-> at]

\* The statement does not prepare, or has another number of columns.
FailPrepare(p) ==
    /\ Begin(p)
    /\ pump' = [state |-> "failed", pack |-> p, index |-> 0, count |-> 0, first |-> at]

\* The query is null or empty, or Firebird gives or starts no transaction.
FailStart(p) ==
    /\ ~Running /\ calls < MaxCalls
    /\ calls' = calls + 1
    /\ snap' = None
    /\ context' = "pump"
    /\ blobs' = {}
    /\ pump' = [state |-> "failed", pack |-> p, index |-> 0, count |-> 0, first |-> at]
    /\ UNCHANGED <<at, tra, open, work, durable>>

\* The BLOBs of a row, if it has any: write_blob asks for the current snapshot,
\* which forgets pump's transaction, and then for the current transaction.  They are
\* made before the insert; a trigger it fires may then call the library, which
\* clears the snapshot and leaves the trigger's status and context in it, and makes
\* the trigger's own BLOBs in the transaction of the insert.
MakeBlobs ==
    \E made \in {{}, {CurrentTransaction(Cleared(snap), ContextTransaction)}} :
        \/ /\ blobs' = made
           /\ snap' = IF made = {} THEN snap ELSE Cleared(snap)
           /\ UNCHANGED context
        \/ /\ blobs' \in {made, made \cup {CurrentTransaction(Cleared(snap), tra)}}
           /\ snap' = Cleared(snap)
           /\ context' = "trigger"

\* Mutant of PumpRow: a pack is written again after it was committed.
PumpRowKeepsPack ==
    /\ Running /\ at < MaxRow
    /\ at' = at + 1
    /\ LET full == Packed /\ pump.index + 1 = pump.pack
           written == work[tra] \cup {at + 1} IN
        /\ pump' = [pump EXCEPT !.index = IF full THEN 0 ELSE @ + 1, !.count = @ + 1]
        /\ durable' = IF full THEN durable \cup written ELSE durable
        /\ work' = [work EXCEPT ![tra] = written]
    /\ MakeBlobs
    /\ UNCHANGED <<calls, tra, open>>

\* One turn of the loop: fetch, convert, insert, and commit a full pack.
PumpRow ==
    /\ Running /\ at < MaxRow
    /\ at' = at + 1
    /\ LET full == Packed /\ pump.index + 1 = pump.pack
           written == work[tra] \cup {at + 1} IN
        /\ pump' = [pump EXCEPT !.index = IF full THEN 0 ELSE @ + 1, !.count = @ + 1]
        /\ durable' = IF full THEN durable \cup written ELSE durable
        /\ work' = [work EXCEPT ![tra] = IF full THEN {} ELSE written]
    /\ MakeBlobs
    /\ UNCHANGED <<calls, tra, open>>

\* The exception of a failed call: Firebird may undo what the call wrote in the
\* caller's transaction, nothing undoes what it wrote in its own.
Throw(rows) ==
    /\ pump' = [pump EXCEPT !.state = "failed"]
    /\ \/ work' = [work EXCEPT ![tra] = @ \cup rows]
       \/ /\ tra = Caller
          /\ work' = [work EXCEPT ![tra] = @ \ (pump.first + 1 .. MaxRow)]
    /\ UNCHANGED <<calls, tra, open, durable>>

\* The driver fails to fetch the next row.
FailFetch ==
    /\ Running
    /\ Throw({})
    /\ blobs' = {}
    /\ UNCHANGED <<at, snap, context>>

\* A fetched row does not convert, or Firebird refuses it.
FailRow ==
    /\ Running /\ at < MaxRow
    /\ at' = at + 1
    /\ Throw({})
    /\ MakeBlobs

\* Mutant of FailCommit: what could not be committed is reported as pumped.
FailCommitUnseen ==
    /\ Running /\ Packed /\ at < MaxRow /\ pump.index + 1 = pump.pack
    /\ at' = at + 1
    /\ pump' = [pump EXCEPT !.index = 0, !.count = @ + 1]
    /\ work' = [work EXCEPT ![tra] = {}]
    /\ blobs' = {}
    /\ UNCHANGED <<calls, tra, open, durable, snap, context>>

\* A full pack is written and does not commit.
FailCommit ==
    /\ Running /\ Packed /\ at < MaxRow /\ pump.index + 1 = pump.pack
    /\ at' = at + 1
    /\ Throw({at + 1})
    /\ MakeBlobs

\* Mutant of FinishPump: the last, incomplete pack is not committed.
FinishPumpWithoutCommit ==
    /\ Running /\ at = MaxRow
    /\ pump' = [pump EXCEPT !.state = "ok"]
    /\ blobs' = {}
    /\ UNCHANGED <<at, calls, tra, open, work, durable, snap, context>>

\* The result has no more rows: commit what is left of the last pack.  The call
\* that should clear the snapshot's transaction passes a null pointer, which
\* leaves it as it is (and, where it is null already, asks the snapshot's context for
\* one that nobody uses).
FinishPump ==
    /\ Running /\ at = MaxRow
    /\ pump' = [pump EXCEPT !.state = "ok"]
    /\ IF Packed
       THEN /\ durable' = durable \cup work[tra]
            /\ work' = [work EXCEPT ![tra] = {}]
            /\ open' = open \ {tra}
            /\ tra' = None
       ELSE UNCHANGED <<durable, work, open, tra>>
    /\ blobs' = {}
    /\ UNCHANGED <<at, calls, snap, context>>

\* The statement does not close, or the last rows do not commit.
FailFinish ==
    /\ Running /\ at = MaxRow
    /\ Throw({})
    /\ blobs' = {}
    /\ UNCHANGED <<at, snap, context>>

-----------------------------------------------------------------------------

\* Another call of the library, which may read or write a BLOB: it clears the
\* snapshot's transaction first.
OtherCall ==
    /\ ~Running
    /\ snap' = Cleared(snap)
    /\ context' = "other"
    /\ blobs' = {CurrentTransaction(Cleared(snap), Caller)}
    /\ UNCHANGED <<at, calls, pump, tra, open, work, durable>>

\* Firebird drops the function's instance, and with it the transaction it holds.
FreeInstance ==
    /\ ~Running
    /\ Replace(None)
    /\ blobs' = {}
    /\ UNCHANGED <<at, calls, pump, durable, snap, context>>

\* The caller ends its transaction.
EndCaller ==
    /\ ~Running
    /\ durable' \in {durable, durable \cup work[Caller]}
    /\ work' = [work EXCEPT ![Caller] = {}]
    /\ blobs' = {}
    /\ UNCHANGED <<at, calls, pump, tra, open, snap, context>>

Init ==
    /\ at = 0
    /\ calls = 0
    /\ pump = [state |-> "never", pack |-> 0, index |-> 0, count |-> 0, first |-> 0]
    /\ tra = None
    /\ open = {}
    /\ work = [t \in Txn \cup {Caller} |-> {}]
    /\ durable = {}
    /\ snap = None
    /\ context = "none"
    /\ blobs = {}

Next ==
    \/ \E p \in Packs : StartPump(p) \/ FailPrepare(p) \/ FailStart(p)
    \/ PumpRow \/ FailFetch \/ FailRow \/ FailCommit \/ FinishPump \/ FailFinish
    \/ OtherCall \/ FreeInstance \/ EndCaller

Spec == Init /\ [][Next]_vars

-----------------------------------------------------------------------------
(* Properties.                                                              *)

\* A call that reports success has written every row that was left in the result
\* and counted them: they are committed, or in the caller's transaction.
SuccessIsComplete ==
    [][Running /\ pump'.state = "ok" =>
        /\ pump.first + 1 .. MaxRow \subseteq durable' \cup work'[Caller]
        /\ pump'.count = MaxRow - pump.first]_vars

\* A packed call that fails loses at most one pack of the rows it fetched: what is
\* not committed then is rolled back with the transaction it left open.
FailureLosesOnePack ==
    [][Running /\ Packed /\ pump'.state = "failed" =>
        Cardinality((pump.first + 1 .. at') \ durable') <= pump.pack]_vars

\* Over any number of failed calls and retries no row is written twice: it is
\* committed, or uncommitted in one transaction.
NoRowTwice ==
    /\ \A t \in Txn \cup {Caller} : work[t] \cap durable = {}
    /\ \A t, u \in Txn \cup {Caller} : t # u => work[t] \cap work[u] = {}

\* Between calls pump holds a transaction open only when the last call to start
\* one failed, and never more than one, however many calls have failed.
HeldIsOne == Cardinality(open) <= 1 /\ (open # {} => open = {tra})

\* BLOBs are made in a transaction that is still open, and the pointer pump leaves in
\* the snapshot when it ends is never used, as long as no trigger of the destination
\* calls the library: after one that did, the rest of the same pump, and nothing
\* else, makes its BLOBs through a context whose call has ended.
BlobInLiveTransaction ==
    /\ blobs \subseteq open \cup {Caller, Stray}
    /\ Stray \in blobs => context = "trigger"

\* The comment where pump sets the snapshot's transaction calls it the "BLOB context
\* of operation": the BLOBs of a row are made in the transaction that inserts it.  It
\* does not hold of a packed call, as write_blob clears that transaction first.
BlobInPumpTransaction == Running => blobs \subseteq {tra}

=============================================================================
