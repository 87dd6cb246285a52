--------------------------- MODULE ScrollContract ---------------------------
(***************************************************************************)
(* What a result of the package nano$rslt promises (src/sql/rslt.sql and   *)
(* the comments of src/nanodbc/include/nanodbc.h): a cursor over the rows  *)
(* of one query, moved by first_, last_, next_, prior_, move_ and skip_,   *)
(* each of which says whether it came to a row, and read by get.           *)
(***************************************************************************)
EXTENDS Integers

CONSTANT Span  \* the numbers given to move_ and skip_

VARIABLES
    row,   \* where the cursor is: 0 before the rows, last + 1 after them
    last,  \* the number of rows
    call   \* the last call that was not a reading one: its function, the number given to it,
           \*   0 if it takes none, and what it answered

contractVars == <<row, last, call>>

Said(op, k, answer) == call' = [op |-> op, by |-> k, answer |-> answer]

ContractInit == row = 0 /\ last = 0 /\ call = [op |-> "other", by |-> 0, answer |-> "done"]

\* The place nearest to k that the cursor can be at.
Place(k) == IF k < 0 THEN 0 ELSE IF k > last THEN last + 1 ELSE k

Go(op, k, to) ==
    /\ row' = Place(to)
    /\ Said(op, k, IF row' \in 1 .. last THEN "yes" ELSE "no")
    /\ UNCHANGED last

First == Go("first", 0, 1)
Last == Go("last", 0, IF last = 0 THEN 1 ELSE last)
NextRow == Go("next", 0, row + 1)
Prior == Go("prior", 0, row - 1)
Move(k) == Go("move", k, IF k < 0 THEN last + 1 + k ELSE k)
Skip(k) == Go("skip", k, row + k)

\* A cursor that cannot scroll refuses to, and stays where it is.
RefuseScroll ==
    /\ \/ \E op \in {"first", "last", "prior"} : Said(op, 0, "error")
       \/ \E op \in {"move", "skip"}, k \in Span : Said(op, k, "error")
    /\ UNCHANGED <<row, last>>

Unbind == Said("unbind", 0, "done") /\ UNCHANGED <<row, last>>

\* The rows of another query, or the next ones of a query that makes several sets.
NewRows ==
    /\ row' = 0 /\ last' \in Nat
    /\ \/ Said("execute", 0, "done")
       \/ Said("next_result", 0, "yes")

\* No rows are left: the query has no other set, or the statement was used otherwise.
NoRows ==
    /\ row' = 0 /\ last' = 0
    /\ \/ Said("next_result", 0, "no")
       \/ Said("other", 0, "done")

\* Another result of the statement is released.
Other == Said("other", 0, "done") /\ UNCHANGED <<row, last>>

ContractNext ==
    \/ First \/ Last \/ NextRow \/ Prior \/ RefuseScroll
    \/ \E k \in Span : Move(k) \/ Skip(k)
    \/ Unbind \/ NewRows \/ NoRows \/ Other

-----------------------------------------------------------------------------
(* What the reading functions may answer.                                    *)

\* The value of the row the cursor is at; there is none before and after the rows.
Get(answer) == answer = IF row \in 1 .. last THEN <<"row", row>> ELSE <<"no row">>

Position(answer) == row \in 1 .. last => answer = row

\* A loop that runs until at_end has a row in every turn.
AtEnd(answer) == ~answer => row \in 1 .. last

=============================================================================
