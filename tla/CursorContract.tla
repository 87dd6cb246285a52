--------------------------- MODULE CursorContract ---------------------------
(***************************************************************************)
(* What a selectable procedure of the catalog package promises (src/sql/   *)
(* ctlg.sql): a cursor returns the rows of its own call, each once and in  *)
(* order, then says that there are no more.  It may be closed early, and   *)
(* opening it or any fetch may fail.                                       *)
(***************************************************************************)
EXTENDS Naturals, Sequences

CONSTANTS
    Cursor,  \* cursors: each is opened once
    MaxRow   \* the most rows a call finds

VARIABLES
    state,  \* what became of each cursor
    rows,   \* the number of rows its call found
    got     \* the rows it returned: pairs of the cursor they belong to and an index

contractVars == <<state, rows, got>>

ContractInit ==
    /\ state = [c \in Cursor |-> "new"]
    /\ rows = [c \in Cursor |-> 0]
    /\ got = [c \in Cursor |-> <<>>]

Open(c) ==
    /\ state[c] = "new"
    /\ state' = [state EXCEPT ![c] = "open"]
    /\ \E n \in 0 .. MaxRow : rows' = [rows EXCEPT ![c] = n]
    /\ UNCHANGED got

Refuse(c) ==
    /\ state[c] = "new"
    /\ state' = [state EXCEPT ![c] = "refused"]
    /\ UNCHANGED <<rows, got>>

Row(c) ==
    /\ state[c] = "open"
    /\ Len(got[c]) < rows[c]
    /\ got' = [got EXCEPT ![c] = Append(@, <<c, Len(@) + 1>>)]
    /\ UNCHANGED <<state, rows>>

End(c) ==
    /\ state[c] = "open"
    /\ Len(got[c]) = rows[c]
    /\ state' = [state EXCEPT ![c] = "ended"]
    /\ UNCHANGED <<rows, got>>

Stop(c) ==
    /\ state[c] = "open"
    /\ state' \in {[state EXCEPT ![c] = "closed"], [state EXCEPT ![c] = "failed"]}
    /\ UNCHANGED <<rows, got>>

ContractFetch(c) == Row(c) \/ End(c) \/ Stop(c)

ContractNext == \E c \in Cursor : Open(c) \/ Refuse(c) \/ ContractFetch(c)

\* A cursor that is fetched from until it ends.
ContractSpec ==
    /\ ContractInit /\ [][ContractNext]_contractVars
    /\ \A c \in Cursor : WF_contractVars(ContractFetch(c))

=============================================================================
