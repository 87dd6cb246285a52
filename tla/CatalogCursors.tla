--------------------------- MODULE CatalogCursors ---------------------------
(***************************************************************************)
(* The find_... procedures of the catalog package (src/src/ctlg.cpp).      *)
(*                                                                         *)
(* Firebird keeps one instance of a procedure and makes a ResultSet object *)
(* for every cursor opened on it.  The rows are not in that object: every  *)
(* open puts a heap allocated nanodbc result in a pointer of the instance, *)
(* every fetch reads through that pointer, and the fetch that finds no     *)
(* more rows deletes the result and leaves the pointer as it is.           *)
(*                                                                         *)
(* Of the program only what follows a use of freed memory is left out: the *)
(* model stops there.                                                      *)
(***************************************************************************)
EXTENDS Naturals, Sequences, FiniteSets

CONSTANTS
    Cursor,     \* cursors: ResultSet objects, numbered in the order they are opened
    Procedure,  \* find_tables, find_columns, ...
    Object,     \* addresses of nanodbc results
    None,       \* no address, no object
    MaxRow      \* the most rows a call finds

ASSUME CursorsAssumption ==
    /\ MaxRow \in Nat /\ Cursor \subseteq Nat /\ Object \subseteq Nat
    /\ None \notin Object

VARIABLES
    cursor,      \* each cursor: its state, its procedure, the rows it found and returned
    result_set,  \* the pointer of each procedure's instance
    heap,        \* the nanodbc results that exist, by address
    alive,       \* the catalog object the calls name was not released
    overlapped,  \* history: the procedures two cursors of which were open at once
    fault        \* freed memory was used

vars == <<cursor, result_set, heap, alive, overlapped, fault>>

Result == [of : Procedure, owner : Cursor, rows : 0 .. MaxRow, at : 0 .. MaxRow]

ASSUME NoneAssumption == None \notin Result

TypeOK ==
    /\ cursor \in [Cursor -> [state : {"new", "open", "ended", "closed", "failed", "refused"},
                              of : Procedure \cup {None}, rows : 0 .. MaxRow,
                              got : Seq(Cursor \X (1 .. MaxRow))]]
    /\ result_set \in [Procedure -> Object \cup {None}]
    /\ heap \in [Object -> Result \cup {None}]
    /\ alive \in BOOLEAN /\ overlapped \subseteq Procedure /\ fault \in BOOLEAN

Live == {o \in Object : heap[o] # None}

\* The addresses a new result may get: any free one a pointer still leads to, and of
\* the others, which nobody can tell apart, the lowest.
Free == {o \in Object \ Live :
    \/ \E p \in Procedure : result_set[p] = o
    \/ \A q \in Object \ Live : q < o => \E p \in Procedure : result_set[p] = q}

OpenOn(p) == {c \in Cursor : cursor[c].state = "open" /\ cursor[c].of = p}

\* The next cursor to be opened.
IsNext(c) == cursor[c].state = "new" /\ \A d \in Cursor : d < c => cursor[d].state # "new"

\* The instance's pointer leads to a result of the procedure that still exists.
Sound(p) == result_set[p] \in Live /\ heap[result_set[p]].of = p

\* The result cursor c reads.
Reads(c) == heap[result_set[cursor[c].of]]

Init ==
    /\ cursor = [c \in Cursor |-> [state |-> "new", of |-> None, rows |-> 0, got |-> <<>>]]
    /\ result_set = [p \in Procedure |-> None]
    /\ heap = [o \in Object |-> None]
    /\ alive = TRUE
    /\ overlapped = {}
    /\ fault = FALSE

-----------------------------------------------------------------------------

\* Mutant of Open: the catalog is asked once and its result kept.
OpenReused(c, p) ==
    /\ ~fault /\ alive
    /\ IsNext(c)
    /\ overlapped' = IF OpenOn(p) = {} THEN overlapped ELSE overlapped \cup {p}
    /\ \E o \in Free, n \in 0 .. MaxRow :
        /\ cursor' = [cursor EXCEPT ![c].state = "open", ![c].of = p, ![c].rows = n]
        /\ IF Sound(p)
           THEN UNCHANGED <<heap, result_set>>
           ELSE /\ heap' = [heap EXCEPT ![o] = [of |-> p, owner |-> c, rows |-> n, at |-> 0]]
                /\ result_set' = [result_set EXCEPT ![p] = o]
    /\ UNCHANGED <<alive, fault>>

\* Open a cursor: what the pointer led to before is forgotten.
Open(c, p) ==
    /\ ~fault /\ alive
    /\ IsNext(c)
    /\ overlapped' = IF OpenOn(p) = {} THEN overlapped ELSE overlapped \cup {p}
    /\ \E o \in Free, n \in 0 .. MaxRow :
        /\ cursor' = [cursor EXCEPT ![c].state = "open", ![c].of = p, ![c].rows = n]
        /\ heap' = [heap EXCEPT ![o] = [of |-> p, owner |-> c, rows |-> n, at |-> 0]]
        /\ result_set' = [result_set EXCEPT ![p] = o]
    /\ UNCHANGED <<alive, fault>>

\* The catalog is only checked for NULL: one that was released is used.
OpenReleased(c, p) ==
    /\ ~fault /\ ~alive
    /\ IsNext(c)
    /\ cursor' = [cursor EXCEPT ![c].state = "refused", ![c].of = p]
    /\ fault' = TRUE
    /\ UNCHANGED <<result_set, heap, alive, overlapped>>

\* Mutant of FailOpen: the error is not reported.
FailOpenUnreported(c, p) ==
    /\ ~fault
    /\ IsNext(c)
    /\ cursor' = [cursor EXCEPT ![c].state = "open", ![c].of = p]
    /\ UNCHANGED <<result_set, heap, alive, overlapped, fault>>

\* The catalog is NULL, or ODBC reports an error.
FailOpen(c, p) ==
    /\ ~fault
    /\ IsNext(c)
    /\ cursor' = [cursor EXCEPT ![c].state = "refused", ![c].of = p]
    /\ UNCHANGED <<result_set, heap, alive, overlapped, fault>>

\* Mutant of FetchRow: the row is read without moving to the next.
FetchRowStays(c) ==
    /\ ~fault
    /\ cursor[c].state = "open"
    /\ Sound(cursor[c].of) /\ Reads(c).at < Reads(c).rows /\ Len(cursor[c].got) < MaxRow
    /\ cursor' = [cursor EXCEPT ![c].got = Append(@, <<Reads(c).owner, Reads(c).at + 1>>)]
    /\ UNCHANGED <<heap, result_set, alive, overlapped, fault>>

\* Mutant of FetchRow: the last row is followed by the first.
FetchRowRewinds(c) ==
    /\ ~fault
    /\ cursor[c].state = "open"
    /\ Sound(cursor[c].of) /\ Reads(c).at < Reads(c).rows
    /\ heap' = [heap EXCEPT ![result_set[cursor[c].of]].at = (@ + 1) % Reads(c).rows]
    /\ cursor' = [cursor EXCEPT ![c].got =
                     IF Len(@) < MaxRow THEN Append(@, <<Reads(c).owner, Reads(c).at + 1>>) ELSE <<>>]
    /\ UNCHANGED <<result_set, alive, overlapped, fault>>

\* A fetch that returns a row.
FetchRow(c) ==
    /\ ~fault
    /\ cursor[c].state = "open"
    /\ Sound(cursor[c].of) /\ Reads(c).at < Reads(c).rows
    /\ heap' = [heap EXCEPT ![result_set[cursor[c].of]].at = @ + 1]
    /\ cursor' = [cursor EXCEPT ![c].got = Append(@, <<Reads(c).owner, Reads(c).at + 1>>)]
    /\ UNCHANGED <<result_set, alive, overlapped, fault>>

\* Mutant of FetchEnd: the result is not deleted.
FetchEndLeaks(c) ==
    /\ ~fault
    /\ cursor[c].state = "open"
    /\ Sound(cursor[c].of) /\ Reads(c).at = Reads(c).rows
    /\ cursor' = [cursor EXCEPT ![c].state = "ended"]
    /\ UNCHANGED <<heap, result_set, alive, overlapped, fault>>

\* The fetch that finds no more rows deletes the result; the pointer stays.
FetchEnd(c) ==
    /\ ~fault
    /\ cursor[c].state = "open"
    /\ Sound(cursor[c].of) /\ Reads(c).at = Reads(c).rows
    /\ heap' = [heap EXCEPT ![result_set[cursor[c].of]] = None]
    /\ cursor' = [cursor EXCEPT ![c].state = "ended"]
    /\ UNCHANGED <<result_set, alive, overlapped, fault>>

\* A fetch through a pointer to a result another cursor deleted.
FetchFreed(c) ==
    /\ ~fault
    /\ cursor[c].state = "open" /\ ~Sound(cursor[c].of)
    /\ cursor' = [cursor EXCEPT ![c].state = "failed"]
    /\ fault' = TRUE
    /\ UNCHANGED <<result_set, heap, alive, overlapped>>

\* A column of the fetched row does not convert.
FailRow(c) ==
    /\ ~fault
    /\ cursor[c].state = "open"
    /\ Sound(cursor[c].of) /\ Reads(c).at < Reads(c).rows
    /\ heap' = [heap EXCEPT ![result_set[cursor[c].of]].at = @ + 1]
    /\ cursor' = [cursor EXCEPT ![c].state = "failed"]
    /\ UNCHANGED <<result_set, alive, overlapped, fault>>

\* The driver does not fetch: next() throws, past the handler of the fetch.
FailNext(c) ==
    /\ ~fault
    /\ cursor[c].state = "open" /\ Sound(cursor[c].of)
    /\ cursor' = [cursor EXCEPT ![c].state = "failed"]
    /\ UNCHANGED <<result_set, heap, alive, overlapped, fault>>

\* Firebird drops the ResultSet object of a cursor that is not read to its end.
Close(c) ==
    /\ ~fault
    /\ cursor[c].state = "open"
    /\ cursor' = [cursor EXCEPT ![c].state = "closed"]
    /\ UNCHANGED <<result_set, heap, alive, overlapped, fault>>

\* ctlg$release of the catalog the calls name; results are not its children.
ReleaseCatalog ==
    /\ ~fault /\ alive
    /\ alive' = FALSE
    /\ UNCHANGED <<cursor, result_set, heap, overlapped, fault>>

Fetch(c) == FetchRow(c) \/ FetchEnd(c) \/ FetchFreed(c) \/ FailRow(c) \/ FailNext(c)

Next ==
    \/ \E c \in Cursor, p \in Procedure : Open(c, p) \/ OpenReleased(c, p) \/ FailOpen(c, p)
    \/ \E c \in Cursor : Fetch(c) \/ Close(c)
    \/ ReleaseCatalog

\* A FOR SELECT fetches until its cursor ends or fails.
Spec == Init /\ [][Next]_vars /\ \A c \in Cursor : WF_vars(Fetch(c))

-----------------------------------------------------------------------------
(* Properties.                                                              *)

Contract == INSTANCE CursorContract WITH
    state <- [c \in Cursor |-> cursor[c].state],
    rows <- [c \in Cursor |-> cursor[c].rows],
    got <- [c \in Cursor |-> cursor[c].got]

\* As long as no two cursors of a procedure are open at once, every step of its
\* cursors is one the contract allows: a cursor returns its own rows, once and in
\* order, then ends; the shared pointer does not show, nor do the cursors of other
\* procedures, overlapping or not.
KeepsContract ==
    [][\/ Contract!ContractNext
       \/ \E c \in Cursor : cursor'[c] # cursor[c] /\ cursor'[c].of \in overlapped']_cursor

\* Whatever cursors overlap on its procedure, one that is fetched from does not stay
\* open for ever, unless freed memory was used.  (Cursors open once: that each stops
\* is that there is no end of times when all have.)
EveryCursorStops == []<>(fault \/ \A c \in Cursor : cursor[c].state # "open")

\* Freed memory is used only when two cursors of one procedure were open at once or
\* the catalog was released: nothing else makes the pointer dangle under a reader.
OnlyKnownFaults == fault => overlapped # {} \/ ~alive

\* Cursors that overlap take rows from each other, but no row is returned twice and
\* the rows of one call come in order, through whichever cursors.
RowsOnce ==
    \A c, d \in Cursor :
        \A i \in DOMAIN cursor[c].got, j \in DOMAIN cursor[d].got :
            cursor[c].got[i] = cursor[d].got[j] => c = d /\ i = j

\* Every cursor that was opened and not read to its end leaves its result behind, and
\* nothing else does: an end deletes exactly one result, its own or another's.
LeakAccount ==
    Cardinality(Live) =
        Cardinality({c \in Cursor : cursor[c].state \in {"open", "closed", "failed"}})

=============================================================================
