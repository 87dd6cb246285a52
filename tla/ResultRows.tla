----------------------------- MODULE ResultRows -----------------------------
(***************************************************************************)
(* The results of one statement (src/src/rslt.cpp, src/src/stmt.cpp) over  *)
(* nanodbc's result, which is outside src/src.                             *)
(*                                                                         *)
(* Every execute makes a result object with buffers of its own for a block *)
(* of rows, but all results of a statement share its one ODBC handle: the  *)
(* cursor, the size of a block, the buffers the driver writes to and the   *)
(* counter it writes the number of fetched rows to are those of the handle *)
(* and stay as the last one to set them has left them.                     *)
(*                                                                         *)
(* One column stands for all.  What a result reads is followed as long as  *)
(* the cursor is of its query; of a result of an earlier query only what   *)
(* its calls do to the handle is.  What follows a write to memory that is  *)
(* not a result's is left out: the model stops there.                      *)
(***************************************************************************)
EXTENDS Integers, Sequences

CONSTANTS
    Result,    \* results that may exist at once, numbers
    None,      \* no result
    RowCount,  \* the number of rows of each set a query makes
    Size,      \* the batch_operations given to execute_: the size of a block of rows
    Span,      \* the numbers given to move_ and skip_
    MaxBack    \* how far a position may be before the block

\* A size of a block is a C++ long: there is a greatest one.
ASSUME RowsAssumption ==
    /\ Result \subseteq Nat /\ None \notin Result
    /\ RowCount \in Seq(Nat) /\ Len(RowCount) >= 1
    /\ Size \subseteq Nat \ {0} /\ \E n \in Size : \A m \in Size : m <= n
    /\ Span \subseteq Int /\ MaxBack \in Nat

VARIABLES
    res,     \* the result objects: the size of their blocks, 0 if there is no object,
             \*   whether the cursor is theirs, the set they describe, the position in the
             \*   block, the number of its rows, whether no more data were found, the first
             \*   row in the buffers, whether the indicators were cleared, and whether the
             \*   column is unbound
    handle,  \* the statement has a handle
    cursor,  \* the handle's cursor: whether there is one, its set, where its block begins
    driver,  \* the handle's attributes: scrollable, the size of a block, whose buffers,
             \*   with the values or only the indicators, and whose counter it writes to
    call,    \* the last call: its function if it is execute_ or a function that moves the
             \*   result the cursor is of, and what it answered
    late,    \* history: a result was called that the cursor was not of
    fault    \* memory that is not a result's was written, and how

vars == <<res, handle, cursor, driver, call, late, fault>>

MaxSize == CHOOSE n \in Size : \A m \in Size : m <= n
MaxRow == LET all == {RowCount[s] : s \in DOMAIN RowCount}
          IN  CHOOSE n \in all : \A m \in all : m <= n

TypeOK ==
    /\ res \in [Result -> [
           size : {0} \cup Size, own : BOOLEAN, set : 1 .. Len(RowCount),
           pos : -MaxBack .. MaxSize, count : 0 .. MaxSize, ended : BOOLEAN,
           data : 0 .. MaxRow, blank : BOOLEAN, unbound : BOOLEAN]]
    /\ handle \in BOOLEAN
    /\ cursor \in [open : BOOLEAN, set : 1 .. Len(RowCount), start : 0 .. MaxRow + 1]
    /\ driver \in [scroll : BOOLEAN, array : {1} \cup Size, bound : Result \cup {None},
                   held : BOOLEAN, counted : Result \cup {None}]
    /\ call.answer \in {"yes", "no", "done", "error"} /\ late \in BOOLEAN
    /\ fault \in {"none", "freed", "overrun"}

\* rowset_size, rows_ and is_bound answer these.
RowsetSize(r) == res[r].size
BlockRows(r) == res[r].count
IsBound(r) == ~res[r].unbound

Live(r) == RowsetSize(r) > 0

\* The rows of the cursor's set.
Rows == RowCount[cursor.set]

\* A new result with buffers for n rows; none if n is 0.
NewResult(n) ==
    [size |-> n, own |-> n > 0, set |-> 1, pos |-> 0, count |-> 0, ended |-> FALSE,
     data |-> 0, blank |-> FALSE, unbound |-> FALSE]

\* The results once their cursor is closed.
Disowned ==
    [r \in Result |-> [res[r] EXCEPT
        !.own = FALSE, !.set = 1, !.ended = FALSE, !.data = 0, !.blank = FALSE]]

NoCursor == [open |-> FALSE, set |-> 1, start |-> 0]

\* The attributes of a handle just made.
NewHandle(scroll) ==
    [scroll |-> scroll, array |-> 1, bound |-> None, held |-> FALSE, counted |-> None]

Init ==
    /\ res = [r \in Result |-> NewResult(0)]
    /\ handle = FALSE
    /\ cursor = NoCursor
    /\ driver = NewHandle(FALSE)
    /\ call = [op |-> "other", by |-> 0, answer |-> "done"]
    /\ late = FALSE
    /\ fault = "none"

Say(op, k, answer) == call' = [op |-> op, by |-> k, answer |-> answer]

\* Result r, if the cursor is its, answers.
Answer(r, op, k, answer) ==
    IF res[r].own THEN Say(op, k, answer) ELSE Say("other", 0, "done")

-----------------------------------------------------------------------------
(* The driver: where SQLFetchScroll goes, and what it writes.                *)

\* k rows from a block that begins at row at: 0 before the rows, Rows + 1 after them.
\* A block that would begin a little before the first row begins there.
Relative(at, k) ==
    IF at = 0 /\ k <= 0 THEN 0
    ELSE IF at + k > Rows THEN Rows + 1
    ELSE IF at + k >= 1 THEN at + k
    ELSE IF at <= 1 \/ -k > driver.array THEN 0 ELSE 1

\* Where the block a fetch comes to begins.
Target(op, k) ==
    CASE op = "first" -> 1
      [] op = "last" -> IF driver.array <= Rows THEN Rows - driver.array + 1 ELSE 1
      [] op = "next" -> IF cursor.start = 0 THEN 1 ELSE Relative(cursor.start, driver.array)
      [] op = "prior" -> Relative(cursor.start, -driver.array)
      [] op = "move" -> Relative(IF k < 0 THEN Rows + 1 ELSE 0, k)
      [] op = "skip" -> Relative(cursor.start, k)

\* The driver writes the number of rows, and the rows if there are any, to whatever
\* the handle's attributes lead to.
Written(f, first, n) ==
    [x \in Result |-> [f[x] EXCEPT
        !.count = IF x = driver.counted THEN n ELSE @,
        !.blank = IF x = driver.bound /\ n > 0 THEN FALSE ELSE @,
        !.data = IF res[x].own /\ x = driver.bound /\ driver.held /\ n > 0
                 THEN first ELSE @]]

\* How writing n rows goes wrong.
WriteFault(n) ==
    IF \/ driver.counted # None /\ ~Live(driver.counted)
       \/ n > 0 /\ driver.bound # None /\ ~Live(driver.bound)
    THEN "freed"
    ELSE IF n > 0 /\ driver.bound # None /\ n > RowsetSize(driver.bound) THEN "overrun"
    ELSE "none"

\* nanodbc's fetch: it clears the result's own length indicators, then has the driver
\* fetch a block.  The answer is whether the block has a row.
Fetch(r, op, k) ==
    LET cleared == [res EXCEPT ![r].pos = 0, ![r].blank = res[r].own]
        to == Target(op, k)
        found == to \in 1 .. Rows
        n == IF ~found THEN 0
             ELSE IF to + driver.array - 1 <= Rows THEN driver.array ELSE Rows - to + 1
    IN  IF ~cursor.open \/ (~driver.scroll /\ op # "next")
        THEN /\ res' = cleared
             /\ Answer(r, op, k, "error")
             /\ UNCHANGED <<cursor, fault>>
        ELSE /\ fault' = WriteFault(n)
             /\ cursor' = [cursor EXCEPT !.start = to]
             /\ res' = [Written(cleared, to, n) EXCEPT
                            ![r].ended = res[r].own /\ (@ \/ ~found)]
             /\ Answer(r, op, k, IF found THEN "yes" ELSE "no")

\* The result moves in the block it has.
Within(r, op, k, p, yes) ==
    /\ res' = [res EXCEPT ![r].pos = p]
    /\ Answer(r, op, k, IF yes THEN "yes" ELSE "no")
    /\ UNCHANGED <<cursor, fault>>

Kept == UNCHANGED <<handle, driver>>

-----------------------------------------------------------------------------
(* The functions of the package that move a result.                          *)

First(r) == Fetch(r, "first", 0) /\ Kept

Last(r) == Fetch(r, "last", 0) /\ Kept

\* Mutant of Next_: the size of a block is not looked at.
Next_Unbounded(r) ==
    /\ LET p == res[r].pos + 1
       IN  IF BlockRows(r) > 0 THEN Within(r, "next", 0, p, p < BlockRows(r))
           ELSE Fetch(r, "next", 0)
    /\ Kept

\* Mutant of Next_: every call fetches.
Next_Fetches(r) == Fetch(r, "next", 0) /\ Kept

Next_(r) ==
    /\ LET p == res[r].pos + 1
       IN  IF BlockRows(r) > 0 /\ p < RowsetSize(r)
           THEN Within(r, "next", 0, p, p < BlockRows(r))
           ELSE Fetch(r, "next", 0)
    /\ Kept

Prior(r) ==
    /\ LET p == res[r].pos - 1
       IN  IF BlockRows(r) > 0 /\ p >= 0
           THEN Within(r, "prior", 0, p, TRUE)
           ELSE Fetch(r, "prior", 0)
    /\ Kept

Move(r, k) == Fetch(r, "move", k) /\ Kept

Skip(r, k) ==
    /\ LET p == res[r].pos + k
       IN  /\ p >= -MaxBack
           /\ IF BlockRows(r) > 0 /\ p < RowsetSize(r)
              THEN Within(r, "skip", k, p, p < BlockRows(r))
              ELSE Fetch(r, "skip", k)
    /\ Kept

-----------------------------------------------------------------------------
(* The functions that read it.                                               *)

\* The driver's number of the block's first row, 0 if there is none.
RowNumber == IF cursor.open /\ cursor.start \in 1 .. Rows THEN cursor.start ELSE 0

\* The value of a row: from the buffer, or from the driver's current row if the column
\* is not bound.
GetValue(r) ==
    IF ~IsBound(r) THEN IF RowNumber > 0 THEN <<"row", RowNumber>> ELSE <<"error">>
    ELSE IF res[r].data = 0 THEN <<"unfilled">>
    ELSE IF res[r].blank THEN <<"blank">>
    ELSE <<"row", res[r].data + res[r].pos>>

\* Mutant of OutOfRange: a row too many is let through.
OutOfRangeLate(r) == res[r].pos > BlockRows(r)

\* is_null looks up the indicator at the position, and before that whether there are so
\* many rows, but not whether the position is negative.
OutOfRange(r) == res[r].pos >= BlockRows(r)

\* get asks is_null first.
Get(r) ==
    IF OutOfRange(r) THEN <<"no row">>
    ELSE IF res[r].pos < 0 THEN <<"outside">> ELSE GetValue(r)

Position(r) == IF RowNumber = 0 THEN 0 ELSE RowNumber + res[r].pos

\* Unsigned arithmetic: with no row number the difference is the greatest number.
AtEnd(r) ==
    \/ res[r].ended \/ ~handle
    \/ RowNumber = 0 \/ RowNumber - 1 > BlockRows(r)

\* is_bound answers what unbind has left; get then asks the driver.
Unbind(r) ==
    /\ IF ~handle /\ ~res[r].unbound
       THEN Answer(r, "unbind", 0, "error") /\ UNCHANGED <<res, driver>>
       ELSE /\ Answer(r, "unbind", 0, "done")
            /\ res' = [res EXCEPT ![r].unbound = TRUE]
            /\ driver' = IF res[r].unbound THEN driver
                         ELSE [driver EXCEPT !.bound = r, !.held = FALSE]
    /\ UNCHANGED <<handle, cursor, fault>>

\* The driver's next set; the result makes new buffers for it and keeps its position.
\* After the last set the driver closes the cursor.
NextResult(r) ==
    /\ CASE ~handle ->
              Answer(r, "next_result", 0, "error") /\ UNCHANGED <<res, cursor, driver>>
         [] handle /\ (~cursor.open \/ cursor.set = Len(RowCount)) ->
              /\ Answer(r, "next_result", 0, "no")
              /\ cursor' = NoCursor
              /\ res' = Disowned
              /\ UNCHANGED driver
         [] handle /\ cursor.open /\ cursor.set < Len(RowCount) ->
              /\ Answer(r, "next_result", 0, "yes")
              /\ cursor' = [cursor EXCEPT !.set = @ + 1, !.start = 0]
              /\ driver' = [driver EXCEPT !.bound = r, !.held = TRUE]
              /\ res' = [res EXCEPT ![r].set = IF res[r].own THEN cursor.set + 1 ELSE 1,
                            ![r].data = 0, ![r].blank = FALSE, ![r].unbound = FALSE]
    /\ UNCHANGED <<handle, fault>>

-----------------------------------------------------------------------------
(* The statement: prepare_direct, execute_, just_execute_, close_, release_. *)

\* prepare_direct frees the handle and prepares the query on a new one.
Open(scroll) ==
    /\ handle' = TRUE
    /\ cursor' = NoCursor
    /\ driver' = NewHandle(scroll)
    /\ res' = Disowned
    /\ Say("other", 0, "done")
    /\ UNCHANGED <<late, fault>>

Close ==
    /\ handle
    /\ handle' = FALSE
    /\ cursor' = NoCursor
    /\ driver' = NewHandle(FALSE)
    /\ res' = Disowned
    /\ Say("other", 0, "done")
    /\ UNCHANGED <<late, fault>>

\* Mutant of Execute: a result leaves the attributes of the handle if they are set.
ExecuteBoundOnce(n) ==
    /\ handle
    /\ cursor' = [NoCursor EXCEPT !.open = TRUE]
    /\ \E r \in Result :
        /\ ~Live(r) /\ \A other \in Result : other < r => Live(other)
        /\ res' = [Disowned EXCEPT ![r] = NewResult(n)]
        /\ driver' = IF driver.bound # None THEN driver
                     ELSE [driver EXCEPT !.array = n, !.bound = r, !.held = TRUE, !.counted = r]
    /\ Say("execute", 0, "done")
    /\ UNCHANGED <<handle, late, fault>>

\* execute_ closes the cursor, executes, and makes a result, which sets the attributes
\* of the handle to its own.
Execute(n) ==
    /\ handle
    /\ cursor' = [NoCursor EXCEPT !.open = TRUE]
    /\ \E r \in Result :
        /\ ~Live(r) /\ \A other \in Result : other < r => Live(other)
        /\ res' = [Disowned EXCEPT ![r] = NewResult(n)]
        /\ driver' = [driver EXCEPT !.array = n, !.bound = r, !.held = TRUE, !.counted = r]
    /\ Say("execute", 0, "done")
    /\ UNCHANGED <<handle, late, fault>>

\* just_execute makes no result.  Either may fail once the cursor is closed.
ExecuteOnly(succeeds) ==
    /\ handle
    /\ cursor' = [NoCursor EXCEPT !.open = succeeds]
    /\ res' = Disowned
    /\ Say("other", 0, "done")
    /\ UNCHANGED <<handle, driver, late, fault>>

ExecuteFails == ExecuteOnly(FALSE)
JustExecute == ExecuteOnly(TRUE)

\* Releasing a result frees its buffers; the attributes of the handle stay.
Release(r) ==
    /\ Live(r)
    /\ res' = [res EXCEPT ![r] = NewResult(0)]
    /\ Say("other", 0, "done")
    /\ UNCHANGED <<handle, cursor, driver, late, fault>>

-----------------------------------------------------------------------------

Scroll(r) ==
    \/ First(r) \/ Last(r) \/ Prior(r)
    \/ \E k \in Span : Move(r, k) \/ Skip(r, k)

\* A call of a result that changes it; att_resources->results.valid has found it.
Call(r) ==
    /\ Live(r)
    /\ late' = (late \/ ~res[r].own)
    /\ Next_(r) \/ Scroll(r) \/ Unbind(r) \/ NextResult(r)

Next ==
    /\ fault = "none"
    /\ \/ \E r \in Result : Call(r) \/ Release(r)
       \/ \E n \in Size : Execute(n)
       \/ \E scroll \in BOOLEAN : Open(scroll)
       \/ ExecuteFails \/ JustExecute \/ Close

Spec == Init /\ [][Next]_vars

-----------------------------------------------------------------------------

\* The result whose rows the cursor has.
Current == {r \in Result : res[r].own}

Row ==
    IF Current = {} THEN 0
    ELSE LET r == CHOOSE x \in Current : TRUE
         IN  IF cursor.start \notin 1 .. Rows THEN cursor.start
             ELSE IF res[r].pos < BlockRows(r) THEN cursor.start + res[r].pos
             ELSE Rows + 1

Contract == INSTANCE ScrollContract WITH
    row <- Row, last <- IF Current = {} THEN 0 ELSE Rows

\* No other result has taken the handle, or a part of it.
Sole(r) == r \in Current /\ cursor.set = res[r].set /\ driver.bound = r

\* The rows of the block are of the set before: next_result keeps their number.
Carried(r) == cursor.start = 0 /\ BlockRows(r) > 0

\* The calls of the current result that the contract does not hold for.
Excepted(r) ==
    \/ ~Sole(r) \/ Carried(r) \/ res[r].pos < 0 \/ res'[r].pos < 0
    \/ RowsetSize(r) > 1 /\ (call'.op \in {"prior", "last", "skip"} \/ call'.answer = "error")
    \/ RowsetSize(r) > Rows /\ Rows > 0 /\ call'.op = "move" /\ Row' = 1

\* A result whose statement was not used otherwise is a cursor over the rows of its
\* query, as the package promises, in every sequence of calls; not so a negative
\* skip_ while there is a row, prior_, last_ and skip_ in blocks of more than one row,
\* a refused call there, a move_ to before the rows in a block that is larger than they
\* are many, which comes to the first one, and the calls before the first fetch from a
\* second set.
KeepsContract ==
    [][\/ \E r \in Current : Excepted(r)
       \/ late' /\ call'.op = "other"
       \/ Contract!ContractNext]_<<Row, call>>

\* What get, position and at_end answer then is what they promise; not so get after a
\* refused call, which has cleared the indicators, or of an unbound column in a block
\* of more than one row, and at_end there.
ReadsKeepContract ==
    \A r \in Result : Sole(r) /\ ~Carried(r) /\ res[r].pos >= 0 =>
        /\ \/ Contract!Get(Get(r))
           \/ res[r].blank
           \/ res[r].unbound /\ RowsetSize(r) > 1
        /\ Contract!Position(Position(r))
        /\ RowsetSize(r) > 1 \/ Contract!AtEnd(AtEnd(r))

\* The driver writes to memory that is not a result's only if a result was called
\* after the cursor had ceased to be its: the statement was executed again, prepared
\* anew or had no more sets (stmt.cpp:242, rslt.cpp:36).
WritesHaveCause == fault \in {"freed", "overrun"} => late

=============================================================================
