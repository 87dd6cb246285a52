-------------------------- MODULE ResultRowsProofs --------------------------
(***************************************************************************)
(* Proofs about ResultRows, for any number of results, any sets of rows,   *)
(* blocks of any size and moves of any distance: the types, what the       *)
(* reading functions answer, that the results of a statement keep the      *)
(* contract of a cursor, and that the driver writes to memory that is not  *)
(* a result's only after a result was called that the cursor was no longer *)
(* of.                                                                     *)
(***************************************************************************)
EXTENDS ResultRows, WellFoundedInduction, TLAPS

-----------------------------------------------------------------------------
(* Numbers.  The library's well-founded relations stand in for induction.   *)

\* A set of natural numbers that is not empty has a least element.
LEMMA Least ==
    ASSUME NEW S, S \subseteq Nat, S # {}
    PROVE  \E n \in S : \A m \in S : n <= m
<1> DEFINE R == OpToRel(<, Nat)
<1>1. IsWellFoundedOn(R, Nat) BY NatLessThanWellFounded
<1>2. \A x, y \in Nat : x < y => <<x, y>> \in R BY DEF OpToRel
<1> HIDE DEF R
<1>3. PICK n \in S : \A m \in S : ~(<<m, n>> \in R) BY <1>1, WFMin
<1>4. ASSUME NEW m \in S PROVE n <= m
  <2>1. n \in Nat /\ m \in Nat /\ ~(m < n) BY <1>2, <1>3
  <2>2. QED BY <2>1
<1>5. QED BY <1>4

\* If it is bounded it has a greatest one.
LEMMA Greatest ==
    ASSUME NEW S, S \subseteq Nat, S # {}, NEW b \in Nat, \A n \in S : n <= b
    PROVE  \E n \in S : \A m \in S : m <= n
<1> DEFINE U == {n \in Nat : \A m \in S : m <= n}
<1>1. PICK u \in U : \A n \in U : u <= n BY Least
<1>2. u \in S
  <2> SUFFICES ASSUME u \notin S PROVE FALSE OBVIOUS
  <2>1. \A m \in S : m < u BY <1>1
  <2>2. PICK m \in S : TRUE OBVIOUS
  <2>3. u - 1 \in Nat BY <1>1, <2>1, <2>2
  <2>4. u - 1 \in U BY <2>1, <2>3
  <2>5. QED BY <1>1, <2>4
<1>3. QED BY <1>1, <1>2

\* A sequence of natural numbers is bounded.
LEMMA Bounded ==
    ASSUME NEW s \in Seq(Nat)
    PROVE  \E b \in Nat : \A i \in DOMAIN s : s[i] <= b
<1> DEFINE Up(n) == \E b \in Nat : \A i \in 1 .. n : s[i] <= b
<1>1. Len(s) \in Nat /\ DOMAIN s = 1 .. Len(s) /\ \A i \in 1 .. Len(s) : s[i] \in Nat
  OBVIOUS
<1>2. Up(0)
  <2>1. 0 \in Nat /\ \A i \in 1 .. 0 : s[i] <= 0 OBVIOUS
  <2>2. QED BY <2>1
<1>3. ASSUME NEW n \in 1 .. Len(s), Up(n - 1) PROVE Up(n)
  <2>1. PICK b \in Nat : \A i \in 1 .. n - 1 : s[i] <= b BY <1>3
  <2>2. s[n] \in Nat BY <1>1
  <2>3. PICK c \in Nat : b <= c /\ s[n] <= c
    <3>1. CASE s[n] <= b BY <3>1
    <3>2. CASE ~(s[n] <= b) BY <2>2, <3>2
    <3>3. QED BY <3>1, <3>2
  <2>4. ASSUME NEW i \in 1 .. n PROVE s[i] <= c
    <3>1. CASE i = n BY <2>3, <3>1
    <3>2. CASE i # n
      <4>1. i \in 1 .. n - 1 /\ i \in 1 .. Len(s) BY <1>1, <3>2
      <4>2. s[i] \in Nat /\ s[i] <= b BY <1>1, <2>1, <4>1
      <4>3. QED BY <2>3, <4>2
    <3>3. QED BY <3>1, <3>2
  <2>5. QED BY <2>4
<1> HIDE DEF Up
<1> DEFINE Bad == {n \in 0 .. Len(s) : ~Up(n)}
<1>4. Bad = {}
  <2> SUFFICES ASSUME Bad # {} PROVE FALSE OBVIOUS
  <2>1. PICK n \in Bad : \A m \in Bad : n <= m
    <3>1. Bad \subseteq Nat BY <1>1
    <3> HIDE DEF Bad
    <3>2. QED BY <3>1, Least
  <2>2. n # 0 BY <1>2
  <2>3. n \in 1 .. Len(s) /\ n - 1 \in 0 .. Len(s) /\ n - 1 < n BY <1>1, <2>2
  <2>4. n - 1 \notin Bad BY <2>1, <2>3
  <2>5. Up(n - 1) BY <2>3, <2>4
  <2>6. QED BY <1>3, <2>3, <2>5
<1>5. Len(s) \in 0 .. Len(s) BY <1>1
<1>6. Up(Len(s)) BY <1>4, <1>5
<1>7. QED BY <1>1, <1>6 DEF Up

\* The greatest size of a block, and the greatest number of rows.
LEMMA Maxima ==
    /\ MaxSize \in Nat /\ MaxSize >= 1 /\ \A n \in Size : n \in 1 .. MaxSize
    /\ MaxRow \in Nat /\ \A s \in 1 .. Len(RowCount) : RowCount[s] \in 0 .. MaxRow
<1>1. MaxSize \in Size /\ \A m \in Size : m <= MaxSize BY RowsAssumption DEF MaxSize
<1>2. MaxSize \in Nat /\ MaxSize >= 1 /\ \A n \in Size : n \in 1 .. MaxSize
  BY <1>1, RowsAssumption
<1> DEFINE all == {RowCount[s] : s \in DOMAIN RowCount}
<1>3. /\ DOMAIN RowCount = 1 .. Len(RowCount) /\ Len(RowCount) \in Nat
      /\ \A s \in 1 .. Len(RowCount) : RowCount[s] \in Nat
  BY RowsAssumption
<1>4. all \subseteq Nat BY <1>3
<1>5. RowCount[1] \in all BY <1>3, RowsAssumption
<1>6. PICK b \in Nat : \A i \in DOMAIN RowCount : RowCount[i] <= b
  BY Bounded, RowsAssumption
<1>7. \A n \in all : n <= b BY <1>6
<1>8. \A s \in 1 .. Len(RowCount) : RowCount[s] \in all BY <1>3
<1>9. MaxRow = CHOOSE n \in all : \A m \in all : m <= n BY DEF MaxRow
<1> HIDE DEF all
<1>10. \E n \in all : \A m \in all : m <= n BY <1>4, <1>5, <1>7, Greatest
<1>11. MaxRow \in all /\ \A m \in all : m <= MaxRow BY <1>9, <1>10
<1>12. \A n \in all : n \in 0 .. MaxRow BY <1>4, <1>11
<1>13. MaxRow \in Nat BY <1>4, <1>11
<1>14. QED BY <1>2, <1>8, <1>12, <1>13

-----------------------------------------------------------------------------
(* The invariant.                                                           *)

ResultRec == [size : {0} \cup Size, own : BOOLEAN, set : 1 .. Len(RowCount),
              pos : -MaxBack .. MaxSize, count : 0 .. MaxSize, ended : BOOLEAN,
              data : 0 .. MaxRow, blank : BOOLEAN, unbound : BOOLEAN]

CursorRec == [open : BOOLEAN, set : 1 .. Len(RowCount), start : 0 .. MaxRow + 1]

DriverRec == [scroll : BOOLEAN, array : {1} \cup Size, bound : Result \cup {None},
              held : BOOLEAN, counted : Result \cup {None}]

\* The types; the cursor is not further than behind the rows, and a position not
\* further than in the last row of a block.
Shape ==
    /\ res \in [Result -> ResultRec] /\ handle \in BOOLEAN
    /\ cursor \in CursorRec /\ cursor.start <= Rows + 1
    /\ driver \in DriverRec
    /\ \A r \in Result : res[r].pos <= 0 \/ res[r].pos < res[r].size

\* The number of rows of a block that begins at row first.
InBlock(first) ==
    IF first \notin 1 .. Rows THEN 0
    ELSE IF first + driver.array - 1 <= Rows THEN driver.array ELSE Rows - first + 1

\* The handle is set up for the one result the cursor is of, but for the buffers: its
\* counter is that result's, and so is the size of a block.
Attached ==
    \A r \in Result : res[r].own =>
        /\ handle /\ cursor.open
        /\ Live(r) /\ driver.counted = r /\ driver.array = res[r].size
        /\ \A x \in Result : res[x].own => x = r

\* That result has counted the rows of the block, and if the buffers are its own too it
\* has the block's first row.
Filled ==
    \A r \in Result : res[r].own =>
        /\ cursor.start > 0 => res[r].count = InBlock(cursor.start)
        /\ driver.bound = r /\ IsBound(r) =>
              driver.held /\ (cursor.start \in 1 .. Rows => res[r].data = cursor.start)

\* As long as no other result was called, the buffers are its own.
Owned == ~late => \A r \in Result : res[r].own => driver.bound = r

Layout == Shape /\ Attached /\ Filled
Types == Layout /\ Owned

\* The inductive invariant.
IInv ==
    /\ Types /\ WritesHaveCause
    /\ call.answer \in {"yes", "no", "done", "error"} /\ late \in BOOLEAN
    /\ fault \in {"none", "freed", "overrun"}

-----------------------------------------------------------------------------
(* The records.                                                             *)

LEMMA Looked ==
    ASSUME Shape
    PROVE  /\ \A r \in Result : res[r] \in ResultRec
           /\ cursor.set \in 1 .. Len(RowCount) /\ Len(RowCount) \in Nat
           /\ Rows \in Nat /\ Rows <= MaxRow
           /\ cursor.start \in Nat /\ cursor.start <= Rows + 1
           /\ driver.array \in 1 .. MaxSize
<1>1. cursor.set \in 1 .. Len(RowCount) /\ cursor.start \in 0 .. MaxRow + 1
  BY DEF Shape, CursorRec
<1>2. RowCount[cursor.set] \in 0 .. MaxRow /\ MaxRow \in Nat BY <1>1, Maxima
<1>3. driver.array \in 1 .. MaxSize BY Maxima DEF Shape, DriverRec
<1>4. Len(RowCount) \in Nat BY RowsAssumption
<1>5. QED BY <1>1, <1>2, <1>3, <1>4 DEF Shape, Rows

\* The fields of a result.
LEMMA Fields ==
    ASSUME Shape, NEW r \in Result
    PROVE  /\ res[r].size \in 0 .. MaxSize /\ res[r].pos \in Int /\ res[r].pos >= -MaxBack
           /\ res[r].count \in Nat /\ res[r].data \in 0 .. MaxRow
           /\ res[r].pos <= 0 \/ res[r].pos < res[r].size
<1>1. res[r] \in ResultRec BY Looked
<1>2. /\ res[r].size \in {0} \cup Size /\ res[r].pos \in -MaxBack .. MaxSize
      /\ res[r].count \in 0 .. MaxSize /\ res[r].data \in 0 .. MaxRow
  BY <1>1 DEF ResultRec
<1>3. res[r].pos <= 0 \/ res[r].pos < res[r].size BY DEF Shape
<1>4. MaxSize \in Nat /\ MaxRow \in Nat /\ MaxBack \in Nat
  BY Maxima, RowsAssumption
<1>5. res[r].size \in 0 .. MaxSize
  <2>1. \A n \in Size : n \in 1 .. MaxSize BY Maxima
  <2>2. CASE res[r].size = 0 BY <1>4, <2>2
  <2>3. CASE res[r].size \in Size BY <1>4, <2>1, <2>3
  <2>4. QED BY <1>2, <2>2, <2>3
<1>6. res[r].pos \in Int /\ res[r].pos >= -MaxBack
  <2>1. ASSUME NEW p \in -MaxBack .. MaxSize PROVE p \in Int /\ p >= -MaxBack BY <1>4
  <2>2. QED BY <1>2, <2>1
<1>7. res[r].count \in Nat /\ res[r].data \in 0 .. MaxRow BY <1>2, <1>4
<1>8. QED BY <1>3, <1>5, <1>6, <1>7

LEMMA BlockTypes ==
    ASSUME Shape, NEW to \in Nat
    PROVE  /\ InBlock(to) \in 0 .. driver.array /\ InBlock(to) \in 0 .. MaxSize
           /\ InBlock(to) > 0 <=> to \in 1 .. Rows
BY Looked, Maxima DEF InBlock

\* No result owns the cursor.
Ownerless(f) ==
    /\ f \in [Result -> ResultRec]
    /\ \A r \in Result : ~f[r].own /\ f[r].size = res[r].size /\ f[r].pos = res[r].pos

LEMMA DisownedTypes == ASSUME Shape PROVE Ownerless(Disowned)
<1> DEFINE e(r) == [res[r] EXCEPT
                !.own = FALSE, !.set = 1, !.ended = FALSE, !.data = 0, !.blank = FALSE]
<1>1. ASSUME NEW r \in Result
      PROVE  e(r) \in ResultRec /\ ~e(r).own /\ e(r).size = res[r].size /\ e(r).pos = res[r].pos
  <2>1. res[r] \in ResultRec BY Looked
  <2>2. 1 \in 1 .. Len(RowCount) /\ 0 \in 0 .. MaxRow BY Maxima, RowsAssumption
  <2>3. QED BY <2>1, <2>2 DEF ResultRec
<1>2. Disowned = [r \in Result |-> e(r)] BY DEF Disowned
<1> HIDE DEF e
<1>3. QED BY <1>1, <1>2 DEF Ownerless

LEMMA NewTypes ==
    ASSUME NEW n \in {0} \cup Size
    PROVE  /\ NewResult(n) \in ResultRec /\ NewResult(n).size = n /\ NewResult(n).pos = 0
           /\ NewResult(n).count = 0 /\ ~NewResult(n).unbound /\ NewResult(n).set = 1
           /\ NewResult(n).own <=> n > 0
<1>1. n \in Nat /\ (n > 0) \in BOOLEAN BY RowsAssumption
<1> DEFINE b == n > 0
<1>2. NewResult(n) = [size |-> n, own |-> b, set |-> 1, pos |-> 0, count |-> 0,
                      ended |-> FALSE, data |-> 0, blank |-> FALSE, unbound |-> FALSE]
  BY DEF NewResult
<1> HIDE DEF b
<1>3. b \in BOOLEAN BY DEF b
<1>4. /\ 1 \in 1 .. Len(RowCount) /\ 0 \in 0 .. MaxRow /\ 0 \in 0 .. MaxSize
      /\ 0 \in -MaxBack .. MaxSize
  BY Maxima, RowsAssumption
<1>5. /\ NewResult(n) \in ResultRec /\ NewResult(n).size = n /\ NewResult(n).own = b
      /\ NewResult(n).pos = 0 /\ NewResult(n).count = 0 /\ ~NewResult(n).unbound
      /\ NewResult(n).set = 1
  BY <1>2, <1>3, <1>4 DEF ResultRec
<1>6. QED BY <1>5 DEF b

LEMMA CursorTypes ==
    ASSUME NEW b \in BOOLEAN
    PROVE  /\ NoCursor \in CursorRec /\ [NoCursor EXCEPT !.open = b] \in CursorRec
           /\ [NoCursor EXCEPT !.open = b].start = 0 /\ [NoCursor EXCEPT !.open = b].open = b
           /\ [NoCursor EXCEPT !.open = b].set = 1 /\ NoCursor.start = 0 /\ NoCursor.set = 1
<1>1. 1 \in 1 .. Len(RowCount) /\ 0 \in 0 .. MaxRow + 1 BY Maxima, RowsAssumption
<1>2. QED BY <1>1 DEF NoCursor, CursorRec

LEMMA HandleTypes == ASSUME NEW b \in BOOLEAN PROVE NewHandle(b) \in DriverRec
BY DEF NewHandle, DriverRec

-----------------------------------------------------------------------------
(* A fetch, field by field.                                                 *)

Ops == {"first", "last", "next", "prior", "move", "skip"}

LEMMA RelativeTypes ==
    ASSUME Shape, NEW at \in 0 .. Rows + 1, NEW k \in Int
    PROVE  Relative(at, k) \in 0 .. Rows + 1
BY Looked DEF Relative

LEMMA TargetTypes ==
    ASSUME Shape, NEW op \in Ops, NEW k \in Int
    PROVE  Target(op, k) \in 0 .. Rows + 1
<1>1. /\ Rows \in Nat /\ cursor.start \in 0 .. Rows + 1
      /\ driver.array \in Nat /\ driver.array > 0
  BY Looked, Maxima
<1>2. CASE op = "first" BY <1>1, <1>2 DEF Target
<1>3. CASE op = "last" BY <1>1, <1>3 DEF Target
<1>4. CASE op = "next"
  <2>1. driver.array \in Int BY <1>1
  <2>2. Relative(cursor.start, driver.array) \in 0 .. Rows + 1 BY <1>1, <2>1, RelativeTypes
  <2>3. QED BY <1>1, <1>4, <2>2 DEF Target
<1>5. CASE op = "prior"
  <2>1. -driver.array \in Int BY <1>1
  <2>2. Relative(cursor.start, -driver.array) \in 0 .. Rows + 1 BY <1>1, <2>1, RelativeTypes
  <2>3. QED BY <1>5, <2>2 DEF Target
<1>6. CASE op = "move"
  <2> DEFINE at == IF k < 0 THEN Rows + 1 ELSE 0
  <2>1. at \in 0 .. Rows + 1 BY <1>1
  <2>2. Relative(at, k) \in 0 .. Rows + 1 BY <2>1, RelativeTypes
  <2>3. QED BY <1>6, <2>2 DEF Target
<1>7. CASE op = "skip"
  <2>1. Relative(cursor.start, k) \in 0 .. Rows + 1 BY <1>1, RelativeTypes
  <2>2. QED BY <1>7, <2>1 DEF Target
<1>8. QED BY <1>2, <1>3, <1>4, <1>5, <1>6, <1>7 DEF Ops

\* The results are f: the same for the handle as before.
Alike(f) ==
    /\ f \in [Result -> ResultRec]
    /\ \A x \in Result : /\ f[x].size = res[x].size /\ f[x].own = res[x].own
                         /\ f[x].set = res[x].set /\ f[x].unbound = res[x].unbound

\* Result r is at position p, and nothing has been written.
Stayed(f, r, p) ==
    /\ Alike(f)
    /\ \A x \in Result : /\ f[x].pos = IF x = r THEN p ELSE res[x].pos
                         /\ f[x].count = res[x].count /\ f[x].data = res[x].data

\* Result r is at the first row of a block of n, from row first.
Fetched(f, r, first, n) ==
    /\ Alike(f)
    /\ \A x \in Result :
        /\ f[x].pos = IF x = r THEN 0 ELSE res[x].pos
        /\ f[x].count = IF x = driver.counted THEN n ELSE res[x].count
        /\ f[x].data = IF res[x].own /\ x = driver.bound /\ driver.held /\ n > 0
                       THEN first ELSE res[x].data

LEMMA PlacedTypes ==
    ASSUME Shape, NEW r \in Result, NEW p \in -MaxBack .. MaxSize, NEW b \in BOOLEAN,
           NEW f, f = [res EXCEPT ![r].pos = p, ![r].blank = b]
    PROVE  Stayed(f, r, p)
<1> DEFINE e == [res[r] EXCEPT !.pos = p, !.blank = b]
<1>1. res[r] \in ResultRec /\ res \in [Result -> ResultRec] BY Looked DEF Shape
<1>2. /\ e \in ResultRec /\ e.size = res[r].size /\ e.own = res[r].own /\ e.pos = p
      /\ e.set = res[r].set /\ e.unbound = res[r].unbound
      /\ e.count = res[r].count /\ e.data = res[r].data
  BY <1>1 DEF ResultRec
<1>3. f = [res EXCEPT ![r] = e] BY <1>1 DEF ResultRec
<1> HIDE DEF e
<1>4. QED BY <1>1, <1>2, <1>3 DEF Stayed, Alike

LEMMA WrittenTypes ==
    ASSUME Shape, NEW r \in Result, NEW f, Stayed(f, r, 0), NEW first \in Nat,
           NEW n \in 0 .. MaxSize, n > 0 => first \in 0 .. MaxRow
    PROVE  Fetched(Written(f, first, n), r, first, n)
<1> DEFINE c(x) == IF x = driver.counted THEN n ELSE f[x].count
           b(x) == IF x = driver.bound /\ n > 0 THEN FALSE ELSE f[x].blank
           d(x) == IF res[x].own /\ x = driver.bound /\ driver.held /\ n > 0
                   THEN first ELSE f[x].data
           e(x) == [f[x] EXCEPT !.count = c(x), !.blank = b(x), !.data = d(x)]
<1>1. ASSUME NEW x \in Result
      PROVE  /\ e(x) \in ResultRec /\ e(x).size = f[x].size /\ e(x).own = f[x].own
             /\ e(x).set = f[x].set /\ e(x).unbound = f[x].unbound /\ e(x).pos = f[x].pos
             /\ e(x).count = c(x) /\ e(x).data = d(x)
  <2>1. f[x] \in ResultRec BY DEF Stayed, Alike
  <2>2. c(x) \in 0 .. MaxSize /\ b(x) \in BOOLEAN /\ d(x) \in 0 .. MaxRow
    BY <2>1 DEF ResultRec
  <2> HIDE DEF c, b, d
  <2>3. QED BY <2>1, <2>2 DEF ResultRec
<1>2. Written(f, first, n) = [x \in Result |-> e(x)] BY Zenon DEF Written
<1>3. ASSUME NEW x \in Result
      PROVE  c(x) = (IF x = driver.counted THEN n ELSE res[x].count)
             /\ d(x) = IF res[x].own /\ x = driver.bound /\ driver.held /\ n > 0
                       THEN first ELSE res[x].data
  BY Zenon DEF Stayed
<1> HIDE DEF e, c, d
<1>4. Written(f, first, n) \in [Result -> ResultRec]
      /\ \A x \in Result : Written(f, first, n)[x] = e(x)
  BY <1>1, <1>2
<1>5. QED BY <1>1, <1>3, <1>4 DEF Fetched, Alike, Stayed

\* A fetch: refused, or the block that begins at the target.
LEMMA FetchDoes ==
    ASSUME Shape, NEW r \in Result, NEW op \in Ops, NEW k \in Int, Fetch(r, op, k)
    PROVE  \/ /\ ~cursor.open \/ (~driver.scroll /\ op # "next")
              /\ Stayed(res', r, 0) /\ UNCHANGED <<cursor, fault>> /\ Answer(r, op, k, "error")
           \/ /\ cursor.open /\ (driver.scroll \/ op = "next")
              /\ Fetched(res', r, Target(op, k), InBlock(Target(op, k)))
              /\ cursor' = [cursor EXCEPT !.start = Target(op, k)]
              /\ fault' = WriteFault(InBlock(Target(op, k)))
              /\ Answer(r, op, k, IF Target(op, k) \in 1 .. Rows THEN "yes" ELSE "no")
<1> DEFINE cleared == [res EXCEPT ![r].pos = 0, ![r].blank = res[r].own]
           to == Target(op, k)
           found == to \in 1 .. Rows
           n == IF ~found THEN 0
                ELSE IF to + driver.array - 1 <= Rows THEN driver.array ELSE Rows - to + 1
<1>1. Stayed(cleared, r, 0)
  <2>1. res[r] \in ResultRec /\ 0 \in -MaxBack .. MaxSize
    BY Looked, Maxima, RowsAssumption
  <2>2. res[r].own \in BOOLEAN BY <2>1 DEF ResultRec
  <2>3. QED BY <2>1, <2>2, PlacedTypes
<1>2. to \in 0 .. Rows + 1 BY TargetTypes
<1>3. n = InBlock(to) BY DEF InBlock
<1>4. CASE /\ ~cursor.open \/ (~driver.scroll /\ op # "next")
           /\ res' = cleared /\ Answer(r, op, k, "error") /\ UNCHANGED <<cursor, fault>>
  BY <1>1, <1>4
<1>5. CASE /\ ~(~cursor.open \/ (~driver.scroll /\ op # "next"))
           /\ fault' = WriteFault(n)
           /\ cursor' = [cursor EXCEPT !.start = to]
           /\ res' = [Written(cleared, to, n) EXCEPT
                          ![r].ended = res[r].own /\ (@ \/ ~found)]
           /\ Answer(r, op, k, IF found THEN "yes" ELSE "no")
  <2> DEFINE w == Written(cleared, to, n)
             b == res[r].own /\ (w[r].ended \/ ~found)
             e == [w[r] EXCEPT !.ended = b]
  <2>1. to \in Nat /\ n \in 0 .. MaxSize /\ (n > 0 => to \in 0 .. MaxRow)
    <3>1. to \in Nat /\ Rows \in Nat /\ Rows <= MaxRow /\ MaxRow \in Nat
      BY <1>2, Looked, Maxima
    <3> HIDE DEF to, n
    <3>2. QED BY <1>3, <3>1, BlockTypes
  <2>2. Fetched(w, r, to, n)
    <3> HIDE DEF to, n, cleared
    <3>1. QED BY <1>1, <2>1, WrittenTypes
  <2>3. res' = [w EXCEPT ![r] = e] BY <1>5, Zenon
  <2>4. b \in BOOLEAN BY Zenon
  <2> HIDE DEF w, b, n, to, found
  <2>5. w[r] \in ResultRec BY <2>2 DEF Fetched, Alike
  <2>6. /\ e \in ResultRec /\ e.size = w[r].size /\ e.own = w[r].own /\ e.pos = w[r].pos
        /\ e.set = w[r].set /\ e.unbound = w[r].unbound
        /\ e.count = w[r].count /\ e.data = w[r].data
    BY <2>4, <2>5 DEF ResultRec
  <2> HIDE DEF e
  <2>7. w \in [Result -> ResultRec] BY <2>2 DEF Fetched, Alike
  <2>8. /\ res' \in [Result -> ResultRec] /\ res'[r] = e
        /\ \A x \in Result : x # r => res'[x] = w[x]
    BY <2>3, <2>6, <2>7
  <2>9. ASSUME NEW x \in Result
        PROVE  /\ res'[x].size = w[x].size /\ res'[x].own = w[x].own /\ res'[x].pos = w[x].pos
               /\ res'[x].set = w[x].set /\ res'[x].unbound = w[x].unbound
               /\ res'[x].count = w[x].count /\ res'[x].data = w[x].data
    BY <2>6, <2>8
  <2> HIDE DEF cleared
  <2>10. Fetched(res', r, to, n) BY <2>2, <2>8, <2>9 DEF Fetched, Alike
  <2>11. cursor.open /\ (driver.scroll \/ op = "next") BY <1>5
  <2>12. QED BY <1>3, <1>5, <2>10, <2>11 DEF to, found
<1>6. QED BY <1>4, <1>5 DEF Fetch

LEMMA WithinDoes ==
    ASSUME Shape, NEW r \in Result, NEW op, NEW k, NEW p \in -MaxBack .. MaxSize, NEW yes,
           Within(r, op, k, p, yes)
    PROVE  Stayed(res', r, p) /\ UNCHANGED <<cursor, fault>>
<1> DEFINE e == [res[r] EXCEPT !.pos = p]
<1>1. res[r] \in ResultRec /\ res \in [Result -> ResultRec] BY Looked DEF Shape
<1>2. /\ e \in ResultRec /\ e.size = res[r].size /\ e.own = res[r].own /\ e.pos = p
      /\ e.set = res[r].set /\ e.unbound = res[r].unbound
      /\ e.count = res[r].count /\ e.data = res[r].data
  BY <1>1 DEF ResultRec
<1>3. res' = [res EXCEPT ![r] = e] /\ UNCHANGED <<cursor, fault>> BY Zenon DEF Within
<1> HIDE DEF e
<1>4. QED BY <1>1, <1>2, <1>3 DEF Stayed, Alike

-----------------------------------------------------------------------------
(* The calls of a result keep the invariant.                                *)

LEMMA StayedKeeps ==
    ASSUME Types, NEW r \in Result, NEW p \in Int, p <= 0 \/ p < res[r].size,
           Stayed(res', r, p), UNCHANGED <<handle, cursor, driver>>,
           late' = (late \/ ~res[r].own)
    PROVE  Types'
<1>1. Rows' = Rows BY DEF Rows
<1>2. /\ res' \in [Result -> ResultRec]
      /\ \A x \in Result : /\ res'[x].size = res[x].size /\ res'[x].own = res[x].own
                           /\ res'[x].unbound = res[x].unbound
                           /\ res'[x].pos = IF x = r THEN p ELSE res[x].pos
                           /\ res'[x].count = res[x].count /\ res'[x].data = res[x].data
  BY DEF Stayed, Alike
<1>3. Shape' BY <1>1, <1>2 DEF Types, Layout, Shape
<1>4. Attached' BY <1>2 DEF Types, Layout, Attached, Live, RowsetSize
<1>5. InBlock(cursor.start)' = InBlock(cursor.start) BY <1>1 DEF InBlock
<1>6. Filled' BY <1>1, <1>2, <1>5 DEF Types, Layout, Filled, IsBound
<1>7. ~late' => ~late BY Zenon
<1>8. Owned' BY <1>2, <1>7 DEF Types, Owned
<1>9. QED BY <1>3, <1>4, <1>6, <1>8 DEF Types, Layout

LEMMA FetchedKeeps ==
    ASSUME Types, NEW r \in Result, NEW to \in 0 .. Rows + 1,
           Fetched(res', r, to, InBlock(to)), UNCHANGED <<handle, driver>>,
           cursor' = [cursor EXCEPT !.start = to], late' = (late \/ ~res[r].own)
    PROVE  Types'
<1>1. /\ Rows \in Nat /\ Rows <= MaxRow /\ MaxRow \in Nat
      /\ to \in Nat /\ to <= Rows + 1 /\ to \in 0 .. MaxRow + 1
  BY Looked, Maxima DEF Types, Layout
<1>2. /\ cursor' \in CursorRec /\ cursor'.start = to /\ cursor'.open = cursor.open
      /\ cursor'.set = cursor.set
  BY <1>1 DEF Types, Layout, Shape, CursorRec
<1>3. Rows' = Rows BY <1>2 DEF Rows
<1>4. /\ res' \in [Result -> ResultRec]
      /\ \A x \in Result :
          /\ res'[x].size = res[x].size /\ res'[x].own = res[x].own
          /\ res'[x].unbound = res[x].unbound
          /\ res'[x].pos = IF x = r THEN 0 ELSE res[x].pos
          /\ res'[x].count = IF x = driver.counted THEN InBlock(to) ELSE res[x].count
          /\ res'[x].data =
                IF res[x].own /\ x = driver.bound /\ driver.held /\ InBlock(to) > 0
                THEN to ELSE res[x].data
  BY DEF Fetched, Alike
<1>5. Shape' BY <1>1, <1>2, <1>3, <1>4 DEF Types, Layout, Shape
<1>6. Attached' BY <1>2, <1>4 DEF Types, Layout, Attached, Live, RowsetSize
<1>7. InBlock(cursor.start)' = InBlock(to) BY <1>2, <1>3 DEF InBlock
<1>8. InBlock(to) > 0 <=> to \in 1 .. Rows BY <1>1, BlockTypes DEF Types, Layout
<1>9. Filled'
  <2> SUFFICES ASSUME NEW x \in Result, res'[x].own
               PROVE  /\ cursor'.start > 0 => res'[x].count = InBlock(cursor.start)'
                      /\ driver'.bound = x /\ ~res'[x].unbound =>
                            driver'.held /\ (cursor'.start \in 1 .. Rows' =>
                                             res'[x].data = cursor'.start)
    BY DEF Filled, IsBound
  <2>1. res[x].own /\ driver.counted = x BY <1>4 DEF Types, Layout, Attached
  <2>2. driver.bound = x /\ ~res[x].unbound => driver.held
    BY <2>1 DEF Types, Layout, Filled, IsBound
  <2>3. res'[x].count = InBlock(cursor.start)' BY <1>4, <1>7, <2>1
  <2>4. ASSUME driver.bound = x, ~res[x].unbound, to \in 1 .. Rows PROVE res'[x].data = to
    BY <1>4, <1>8, <2>1, <2>2, <2>4
  <2>5. QED BY <1>2, <1>3, <1>4, <2>2, <2>3, <2>4
<1>10. ~late' => ~late BY Zenon
<1>11. Owned' BY <1>4, <1>10 DEF Types, Owned
<1>12. QED BY <1>5, <1>6, <1>9, <1>11 DEF Types, Layout

\* A fetch faults only if r is not the result the cursor is of.
LEMMA FetchFault ==
    ASSUME Types, NEW r \in Result, NEW n \in 0 .. driver.array, fault' = WriteFault(n),
           late' = (late \/ ~res[r].own)
    PROVE  WritesHaveCause' /\ fault' \in {"none", "freed", "overrun"}
<1>1. fault' \in {"none", "freed", "overrun"} BY DEF WriteFault
<1>2. CASE late' BY <1>1, <1>2 DEF WritesHaveCause
<1>3. CASE ~late'
  <2>1. ~late /\ res[r].own BY <1>3, Zenon
  <2>2. driver.bound = r /\ driver.counted = r /\ driver.array = res[r].size /\ Live(r)
    BY <2>1 DEF Types, Layout, Owned, Attached
  <2>3. res[r].size \in Nat /\ n \in Nat /\ n <= res[r].size
    BY <2>2, Looked, Maxima DEF Types, Layout
  <2>4. WriteFault(n) = "none" BY <2>2, <2>3 DEF WriteFault, RowsetSize
  <2>5. QED BY <2>4 DEF WritesHaveCause
<1>4. QED BY <1>2, <1>3

\* What a call of r keeps.
Keeps ==
    /\ Types' /\ WritesHaveCause' /\ fault' \in {"none", "freed", "overrun"}
    /\ call'.answer \in {"yes", "no", "done", "error"}

LEMMA Answers ==
    ASSUME NEW r, NEW op, NEW k, NEW a \in {"yes", "no", "done", "error"},
           Answer(r, op, k, a)
    PROVE  call'.answer \in {"yes", "no", "done", "error"}
BY DEF Answer, Say

LEMMA FetchKeeps ==
    ASSUME Types, fault = "none", NEW r \in Result, Kept,
           NEW op \in Ops, NEW k \in Int,
           Fetch(r, op, k), late' = (late \/ ~res[r].own)
    PROVE  Keeps
<1> DEFINE to == Target(op, k)
           yes == IF to \in 1 .. Rows THEN "yes" ELSE "no"
<1>1. CASE Stayed(res', r, 0) /\ UNCHANGED <<cursor, fault>> /\ Answer(r, op, k, "error")
  <2>1. Types' BY <1>1, StayedKeeps DEF Kept
  <2>2. call'.answer \in {"yes", "no", "done", "error"} BY <1>1, Answers
  <2>3. QED BY <1>1, <2>1, <2>2 DEF WritesHaveCause, Keeps
<1>2. CASE /\ Fetched(res', r, to, InBlock(to)) /\ cursor' = [cursor EXCEPT !.start = to]
           /\ fault' = WriteFault(InBlock(to)) /\ Answer(r, op, k, yes)
  <2>1. to \in 0 .. Rows + 1 BY TargetTypes DEF Types, Layout
  <2>2. to \in Nat BY <2>1, Looked DEF Types, Layout
  <2>3. yes \in {"yes", "no", "done", "error"} OBVIOUS
  <2> HIDE DEF to, yes
  <2>4. Types' BY <1>2, <2>1, FetchedKeeps DEF Kept
  <2>5. InBlock(to) \in 0 .. driver.array BY <2>2, BlockTypes DEF Types, Layout
  <2>6. WritesHaveCause' /\ fault' \in {"none", "freed", "overrun"} BY <1>2, <2>5, FetchFault
  <2>7. call'.answer \in {"yes", "no", "done", "error"} BY <1>2, <2>3, Answers
  <2>8. QED BY <2>4, <2>6, <2>7 DEF Keeps
<1>3. QED BY <1>1, <1>2, FetchDoes DEF Types, Layout

LEMMA WithinKeeps ==
    ASSUME Types, fault = "none", NEW r \in Result, Kept, NEW op, NEW k, NEW p \in -MaxBack .. MaxSize,
           p < res[r].size, NEW yes \in BOOLEAN,
           Within(r, op, k, p, yes), late' = (late \/ ~res[r].own)
    PROVE  Keeps
<1>1. Stayed(res', r, p) /\ UNCHANGED <<cursor, fault>> BY WithinDoes DEF Types, Layout
<1>2. p \in Int BY Maxima, RowsAssumption
<1>3. Types' BY <1>1, <1>2, StayedKeeps DEF Kept
<1>4. call'.answer \in {"yes", "no", "done", "error"} BY Zenon, Answers DEF Within
<1>5. QED BY <1>1, <1>3, <1>4 DEF WritesHaveCause, Keeps

\* A position within the block.
LEMMA Inside ==
    ASSUME Shape, NEW r \in Result, NEW p \in Int, p >= -MaxBack, p < res[r].size
    PROVE  p \in -MaxBack .. MaxSize
BY Fields, Maxima, RowsAssumption

LEMMA ScrollKeeps ==
    ASSUME Types, fault = "none", NEW r \in Result, late' = (late \/ ~res[r].own),
           Next_(r) \/ Scroll(r)
    PROVE  Keeps
<1>1. /\ res[r].pos \in Int /\ res[r].pos >= -MaxBack /\ res[r].size \in Int
      /\ res[r].pos <= 0 \/ res[r].pos < res[r].size
      /\ MaxBack \in Nat /\ res[r].count \in Nat
  BY Fields, Maxima, RowsAssumption DEF Types, Layout
<1>2. Span \subseteq Int /\ 0 \in Int BY RowsAssumption
<1>3. \A op \in Ops, k \in Int : Fetch(r, op, k) /\ Kept => Keeps BY FetchKeeps
<1>4. CASE Next_(r)
  <2> DEFINE p == res[r].pos + 1
             yes == p < BlockRows(r)
  <2>1. \/ Fetch(r, "next", 0) /\ Kept
        \/ p < res[r].size /\ Within(r, "next", 0, p, yes) /\ Kept
    BY <1>4 DEF Next_, RowsetSize
  <2>2. CASE p < res[r].size /\ Within(r, "next", 0, p, yes) /\ Kept
    <3>1. p \in Int /\ p >= -MaxBack /\ yes \in BOOLEAN BY <1>1
    <3> HIDE DEF p, yes
    <3>2. p \in -MaxBack .. MaxSize BY <2>2, <3>1, Inside DEF Types, Layout
    <3>3. QED BY <2>2, <3>1, <3>2, WithinKeeps
  <2>3. QED BY <1>2, <1>3, <2>1, <2>2 DEF Ops
<1>5. CASE First(r) BY <1>2, <1>3, <1>5 DEF First, Ops
<1>6. CASE Last(r) BY <1>2, <1>3, <1>6 DEF Last, Ops
<1>7. CASE Prior(r)
  <2> DEFINE p == res[r].pos - 1
  <2>1. \/ Fetch(r, "prior", 0) /\ Kept
        \/ p >= 0 /\ Within(r, "prior", 0, p, TRUE) /\ Kept
    BY <1>7 DEF Prior
  <2>2. CASE p >= 0 /\ Within(r, "prior", 0, p, TRUE) /\ Kept
    <3>1. p \in Int /\ p >= -MaxBack /\ p < res[r].size BY <1>1, <2>2
    <3> HIDE DEF p
    <3>2. p \in -MaxBack .. MaxSize BY <3>1, Inside DEF Types, Layout
    <3>3. QED BY <2>2, <3>1, <3>2, WithinKeeps
  <2>3. QED BY <1>2, <1>3, <2>1, <2>2 DEF Ops
<1>8. ASSUME NEW k \in Span, Move(r, k) PROVE Keeps
  BY <1>2, <1>3, <1>8 DEF Move, Ops
<1>9. ASSUME NEW k \in Span, Skip(r, k) PROVE Keeps
  <2> DEFINE p == res[r].pos + k
             yes == p < BlockRows(r)
  <2>1. k \in Int BY <1>2
  <2>2. \/ Fetch(r, "skip", k) /\ Kept
        \/ p >= -MaxBack /\ p < res[r].size /\ Within(r, "skip", k, p, yes) /\ Kept
    BY <1>9 DEF Skip, RowsetSize
  <2>3. CASE p >= -MaxBack /\ p < res[r].size /\ Within(r, "skip", k, p, yes) /\ Kept
    <3>1. p \in Int /\ yes \in BOOLEAN BY <1>1, <2>1
    <3> HIDE DEF p, yes
    <3>2. p \in -MaxBack .. MaxSize BY <2>3, <3>1, Inside DEF Types, Layout
    <3>3. QED BY <2>3, <3>1, <3>2, WithinKeeps
  <2>4. QED BY <1>2, <1>3, <2>1, <2>2, <2>3 DEF Ops
<1>10. QED BY <1>4, <1>5, <1>6, <1>7, <1>8, <1>9 DEF Scroll

LEMMA UnbindKeeps ==
    ASSUME Types, fault = "none", NEW r \in Result, late' = (late \/ ~res[r].own), Unbind(r)
    PROVE  Keeps
<1>1. UNCHANGED <<handle, cursor, fault>> BY DEF Unbind
<1>2. CASE UNCHANGED <<res, driver>> /\ Answer(r, "unbind", 0, "error")
  <2>1. /\ Stayed(res', r, res[r].pos) /\ res[r].pos \in Int
        /\ res[r].pos <= 0 \/ res[r].pos < res[r].size
    BY <1>2, Fields DEF Stayed, Alike, Types, Layout, Shape
  <2>2. Types' BY <1>1, <1>2, <2>1, StayedKeeps
  <2>3. call'.answer \in {"yes", "no", "done", "error"} BY <1>2, Answers
  <2>4. QED BY <1>1, <2>2, <2>3 DEF WritesHaveCause, Keeps
<1>3. CASE /\ res' = [res EXCEPT ![r].unbound = TRUE] /\ Answer(r, "unbind", 0, "done")
           /\ driver' = IF res[r].unbound THEN driver
                        ELSE [driver EXCEPT !.bound = r, !.held = FALSE]
  <2> DEFINE e == [res[r] EXCEPT !.unbound = TRUE]
  <2>1. res[r] \in ResultRec /\ res \in [Result -> ResultRec]
    BY Looked DEF Types, Layout, Shape
  <2>2. /\ e \in ResultRec /\ e.size = res[r].size /\ e.own = res[r].own /\ e.pos = res[r].pos
        /\ e.count = res[r].count /\ e.data = res[r].data /\ e.unbound
    BY <2>1 DEF ResultRec
  <2>3. res' = [res EXCEPT ![r] = e] BY <1>3, Zenon
  <2> HIDE DEF e
  <2>4. /\ res' \in [Result -> ResultRec]
        /\ \A x \in Result : /\ res'[x].size = res[x].size /\ res'[x].own = res[x].own
                             /\ res'[x].pos = res[x].pos
                             /\ res'[x].count = res[x].count /\ res'[x].data = res[x].data
        /\ \A x \in Result : x # r => res'[x].unbound = res[x].unbound
        /\ res'[r].unbound
    BY <2>1, <2>2, <2>3
  <2>5. /\ driver' \in DriverRec /\ driver'.counted = driver.counted
        /\ driver'.array = driver.array
        /\ \/ driver'.bound = driver.bound /\ driver'.held = driver.held
           \/ driver'.bound = r
    BY <1>3 DEF Types, Layout, Shape, DriverRec
  <2>6. Rows' = Rows BY <1>1 DEF Rows
  <2>7. Shape' BY <1>1, <2>4, <2>5, <2>6 DEF Types, Layout, Shape
  <2>8. Attached' BY <1>1, <2>4, <2>5 DEF Types, Layout, Attached, Live, RowsetSize
  <2>9. InBlock(cursor.start)' = InBlock(cursor.start) BY <1>1, <2>5, <2>6 DEF InBlock
  <2>10. Filled'
    <3> SUFFICES ASSUME NEW x \in Result, res'[x].own
                 PROVE  /\ cursor'.start > 0 => res'[x].count = InBlock(cursor.start)'
                        /\ driver'.bound = x /\ ~res'[x].unbound =>
                              driver'.held /\ (cursor'.start \in 1 .. Rows' =>
                                               res'[x].data = cursor'.start)
      BY DEF Filled, IsBound
    <3>1. cursor'.start > 0 => res'[x].count = InBlock(cursor.start)'
      BY <1>1, <2>4, <2>9 DEF Types, Layout, Filled
    <3>2. ASSUME driver'.bound = x, ~res'[x].unbound
          PROVE  driver'.held /\ (cursor'.start \in 1 .. Rows' => res'[x].data = cursor'.start)
      <4>1. x # r BY <2>4, <3>2
      <4>2. driver.bound = x /\ ~res[x].unbound /\ driver'.held = driver.held
        BY <2>4, <2>5, <3>2, <4>1
      <4>3. QED BY <1>1, <2>4, <2>6, <4>2 DEF Types, Layout, Filled, IsBound
    <3>3. QED BY <3>1, <3>2
  <2>11. ~late' => ~late /\ res[r].own BY Zenon
  <2>12. Owned' BY <2>4, <2>5, <2>11 DEF Types, Layout, Owned, Attached
  <2>13. call'.answer \in {"yes", "no", "done", "error"} BY <1>3, Answers
  <2>14. QED
    BY <1>1, <2>7, <2>8, <2>10, <2>12, <2>13 DEF Types, Layout, WritesHaveCause, Keeps
<1>4. QED BY <1>2, <1>3 DEF Unbind

\* Once no result owns the cursor the handle may be set up in any way.
LEMMA OwnerlessKeeps ==
    ASSUME Shape, Ownerless(res'), handle' \in BOOLEAN,
           cursor' \in CursorRec, cursor'.start = 0, driver' \in DriverRec
    PROVE  Types'
<1>1. Rows' \in Nat
  <2>1. cursor'.set \in 1 .. Len(RowCount) BY DEF CursorRec
  <2>2. QED BY <2>1, RowsAssumption DEF Rows
<1>2. \A r \in Result : res'[r].pos <= 0 \/ res'[r].pos < res'[r].size
  BY Fields DEF Ownerless
<1>3. cursor'.start <= Rows' + 1
  <2>1. \A n \in Nat : 0 <= n + 1 OBVIOUS
  <2>2. 0 <= Rows' + 1 BY <1>1, <2>1, Zenon
  <2>3. QED BY <2>2, Zenon
<1>4. Shape' BY <1>2, <1>3 DEF Shape, Ownerless
<1>5. Attached' /\ Filled' /\ Owned' BY DEF Attached, Filled, Owned, Ownerless
<1>6. QED BY <1>4, <1>5 DEF Types, Layout

LEMMA Replaced ==
    ASSUME Shape, NEW r \in Result, NEW e \in ResultRec, res' = [res EXCEPT ![r] = e]
    PROVE  /\ res' \in [Result -> ResultRec] /\ res'[r] = e
           /\ \A x \in Result : x # r => res'[x] = res[x]
BY DEF Shape

\* The next set begins before its rows.
LEMMA NextSetKeeps ==
    ASSUME Types, NEW r \in Result, late' = (late \/ ~res[r].own),
           handle' = handle, cursor.set < Len(RowCount),
           cursor' = [cursor EXCEPT !.set = @ + 1, !.start = 0],
           driver' = [driver EXCEPT !.bound = r, !.held = TRUE],
           res' = [res EXCEPT ![r].set = IF res[r].own THEN cursor.set + 1 ELSE 1,
                              ![r].data = 0, ![r].blank = FALSE, ![r].unbound = FALSE]
    PROVE  Types'
<1> DEFINE s == IF res[r].own THEN cursor.set + 1 ELSE 1
           e == [res[r] EXCEPT !.set = s, !.data = 0, !.blank = FALSE, !.unbound = FALSE]
<1>1. res[r] \in ResultRec /\ res \in [Result -> ResultRec]
  BY Looked DEF Types, Layout, Shape
<1>2. cursor.set + 1 \in 1 .. Len(RowCount) /\ s \in 1 .. Len(RowCount) /\ 0 \in 0 .. MaxRow
  BY Looked, Maxima DEF Types, Layout
<1> HIDE DEF s
<1>3. /\ e \in ResultRec /\ e.size = res[r].size /\ e.own = res[r].own /\ e.pos = res[r].pos
      /\ e.count = res[r].count
  BY <1>1, <1>2 DEF ResultRec
<1>4. res' = [res EXCEPT ![r].set = s, ![r].data = 0, ![r].blank = FALSE, ![r].unbound = FALSE]
  BY DEF s
<1>5. res' = [res EXCEPT ![r] = e] BY <1>1, <1>4 DEF ResultRec
<1> HIDE DEF e
<1>6. /\ res' \in [Result -> ResultRec]
      /\ \A x \in Result : /\ res'[x].size = res[x].size /\ res'[x].own = res[x].own
                           /\ res'[x].pos = res[x].pos
  <2>1. /\ res' \in [Result -> ResultRec] /\ res'[r] = e
        /\ \A x \in Result : x # r => res'[x] = res[x]
    <3>1. Shape BY DEF Types, Layout
    <3>2. e \in ResultRec BY <1>3
    <3>3. QED BY <1>5, <3>1, <3>2, Replaced, Zenon
  <2>2. QED BY <1>3, <2>1
<1>7. /\ cursor' \in CursorRec /\ cursor'.start = 0 /\ cursor'.set = cursor.set + 1
      /\ cursor'.open = cursor.open
  <2>1. cursor \in CursorRec /\ 0 \in 0 .. MaxRow + 1 BY Maxima DEF Types, Layout, Shape
  <2>2. QED BY <1>2, <2>1 DEF CursorRec
<1>8. /\ driver' \in DriverRec /\ driver'.bound = r /\ driver'.held
      /\ driver'.counted = driver.counted /\ driver'.array = driver.array
  BY DEF Types, Layout, Shape, DriverRec
<1>9. Rows' \in Nat
  <2>1. RowCount[cursor'.set] \in Nat BY <1>2, <1>7, RowsAssumption
  <2>2. QED BY <2>1 DEF Rows
<1>10. Shape' BY <1>6, <1>7, <1>8, <1>9 DEF Types, Layout, Shape
<1>11. Attached' BY <1>6, <1>7, <1>8 DEF Types, Layout, Attached, Live, RowsetSize
<1>12. Filled' BY <1>7, <1>8 DEF Filled
<1>13. ~late' => ~late /\ res[r].own BY Zenon
<1>14. Owned' BY <1>6, <1>8, <1>13 DEF Types, Layout, Owned, Attached
<1>15. QED BY <1>10, <1>11, <1>12, <1>14 DEF Types, Layout

\* What next_result does.
LEMMA NextResultDoes ==
    ASSUME Shape, NEW r \in Result, NextResult(r)
    PROVE  /\ UNCHANGED <<handle, fault>>
           /\ \/ /\ ~handle
                 /\ Answer(r, "next_result", 0, "error") /\ UNCHANGED <<res, cursor, driver>>
              \/ /\ handle /\ (~cursor.open \/ cursor.set = Len(RowCount))
                 /\ Answer(r, "next_result", 0, "no")
                 /\ cursor' = NoCursor /\ res' = Disowned /\ UNCHANGED driver
              \/ /\ handle /\ cursor.open /\ cursor.set < Len(RowCount)
                 /\ Answer(r, "next_result", 0, "yes")
                 /\ cursor' = [cursor EXCEPT !.set = @ + 1, !.start = 0]
                 /\ driver' = [driver EXCEPT !.bound = r, !.held = TRUE]
                 /\ res' = [res EXCEPT
                        ![r].set = IF res[r].own THEN cursor.set + 1 ELSE 1,
                        ![r].data = 0, ![r].blank = FALSE, ![r].unbound = FALSE]
<1>1. UNCHANGED <<handle, fault>> BY DEF NextResult
<1>2. cursor.set = Len(RowCount) \/ cursor.set < Len(RowCount) BY Looked
<1>3. ~(cursor.set = Len(RowCount) /\ cursor.set < Len(RowCount)) BY Looked
<1>4. CASE ~handle BY <1>1, <1>4, Zenon DEF NextResult
<1>5. CASE handle /\ (~cursor.open \/ cursor.set = Len(RowCount))
  <2>1. ~(cursor.open /\ cursor.set < Len(RowCount)) BY <1>3, <1>5
  <2>2. /\ Answer(r, "next_result", 0, "no")
        /\ cursor' = NoCursor /\ res' = Disowned /\ UNCHANGED driver
    BY <1>5, <2>1, Zenon DEF NextResult
  <2>3. QED BY <1>1, <1>5, <2>2
<1>6. CASE handle /\ cursor.open /\ cursor.set < Len(RowCount)
  <2>1. cursor.set # Len(RowCount) BY <1>3, <1>6
  <2>2. /\ Answer(r, "next_result", 0, "yes")
        /\ cursor' = [cursor EXCEPT !.set = @ + 1, !.start = 0]
        /\ driver' = [driver EXCEPT !.bound = r, !.held = TRUE]
        /\ res' = [res EXCEPT ![r].set = IF res[r].own THEN cursor.set + 1 ELSE 1,
                         ![r].data = 0, ![r].blank = FALSE, ![r].unbound = FALSE]
    BY <1>6, <2>1, Zenon DEF NextResult
  <2>3. QED BY <1>1, <1>6, <2>2
<1>7. QED BY <1>2, <1>4, <1>5, <1>6

LEMMA NextResultKeeps ==
    ASSUME Types, fault = "none", NEW r \in Result, late' = (late \/ ~res[r].own), NextResult(r)
    PROVE  Keeps
<1>1. UNCHANGED <<handle, fault>> BY DEF NextResult
<1>2. CASE Answer(r, "next_result", 0, "error") /\ UNCHANGED <<res, cursor, driver>>
  <2>1. /\ Stayed(res', r, res[r].pos) /\ res[r].pos \in Int
        /\ res[r].pos <= 0 \/ res[r].pos < res[r].size
    BY <1>2, Fields DEF Stayed, Alike, Types, Layout, Shape
  <2>2. Types' BY <1>1, <1>2, <2>1, StayedKeeps
  <2>3. call'.answer \in {"yes", "no", "done", "error"} BY <1>2, Answers
  <2>4. QED BY <1>1, <2>2, <2>3 DEF WritesHaveCause, Keeps
<1>3. CASE /\ Answer(r, "next_result", 0, "no")
           /\ cursor' = NoCursor /\ res' = Disowned /\ UNCHANGED driver
  <2>1. Ownerless(res') BY <1>3, DisownedTypes DEF Types, Layout
  <2>2. Types'
    BY <1>1, <1>3, <2>1, CursorTypes, OwnerlessKeeps DEF Types, Layout, Shape
  <2>3. call'.answer \in {"yes", "no", "done", "error"} BY <1>3, Answers
  <2>4. QED BY <1>1, <2>2, <2>3 DEF WritesHaveCause, Keeps
<1>4. CASE /\ handle /\ cursor.open /\ cursor.set < Len(RowCount)
           /\ Answer(r, "next_result", 0, "yes")
           /\ cursor' = [cursor EXCEPT !.set = @ + 1, !.start = 0]
           /\ driver' = [driver EXCEPT !.bound = r, !.held = TRUE]
           /\ res' = [res EXCEPT ![r].set = IF res[r].own THEN cursor.set + 1 ELSE 1,
                            ![r].data = 0, ![r].blank = FALSE, ![r].unbound = FALSE]
  <2>1. Types' BY <1>1, <1>4, NextSetKeeps
  <2>2. call'.answer \in {"yes", "no", "done", "error"} BY <1>4, Answers
  <2>3. QED BY <1>1, <2>1, <2>2 DEF WritesHaveCause, Keeps
<1>5. QED BY <1>2, <1>3, <1>4, NextResultDoes DEF Types, Layout

-----------------------------------------------------------------------------
(* The statement.                                                           *)

\* What execute_ leaves.
LEMMA ExecuteDoes ==
    ASSUME Shape, NEW n \in Size, Execute(n)
    PROVE  \E r \in Result :
        /\ res' \in [Result -> ResultRec] /\ res'[r] = NewResult(n)
        /\ \A x \in Result : x # r => res'[x] = Disowned[x]
        /\ driver' \in DriverRec /\ driver'.bound = r /\ driver'.counted = r
        /\ driver'.array = n /\ driver'.held
        /\ cursor' = [NoCursor EXCEPT !.open = TRUE]
        /\ handle /\ UNCHANGED <<handle, late, fault>> /\ Say("execute", 0, "done")
<1>1. PICK r \in Result :
        /\ res' = [Disowned EXCEPT ![r] = NewResult(n)]
        /\ driver' = [driver EXCEPT !.array = n, !.bound = r, !.held = TRUE, !.counted = r]
  BY DEF Execute
<1> DEFINE e == NewResult(n)
<1>2. e \in ResultRec BY NewTypes
<1>3. Disowned \in [Result -> ResultRec] BY DisownedTypes DEF Ownerless
<1> HIDE DEF e
<1>4. res' \in [Result -> ResultRec] /\ res'[r] = e /\ \A x \in Result : x # r => res'[x] = Disowned[x]
  BY <1>1, <1>2, <1>3 DEF e
<1>5. driver' \in DriverRec /\ driver'.bound = r /\ driver'.counted = r
      /\ driver'.array = n /\ driver'.held
  <2>1. driver \in DriverRec BY DEF Shape
  <2>2. driver' = [driver EXCEPT !.array = n, !.bound = r, !.held = TRUE, !.counted = r]
    BY <1>1, Zenon
  <2>3. n \in Size /\ r \in Result OBVIOUS
  <2> HIDE DEF Execute
  <2>4. QED BY <2>1, <2>2, <2>3 DEF DriverRec
<1>6. /\ cursor' = [NoCursor EXCEPT !.open = TRUE]
      /\ handle /\ UNCHANGED <<handle, late, fault>> /\ Say("execute", 0, "done")
  BY DEF Execute
<1>7. QED BY <1>4, <1>5, <1>6 DEF e

LEMMA ExecuteKeeps ==
    ASSUME Types, NEW n \in Size, Execute(n)
    PROVE  Types'
<1>1. n \in Nat /\ n > 0 BY RowsAssumption
<1>2. PICK r \in Result :
        /\ res' \in [Result -> ResultRec] /\ res'[r] = NewResult(n)
        /\ \A x \in Result : x # r => res'[x] = Disowned[x]
        /\ driver' \in DriverRec /\ driver'.bound = r /\ driver'.counted = r
        /\ driver'.array = n /\ driver'.held
        /\ cursor' = [NoCursor EXCEPT !.open = TRUE]
        /\ handle /\ UNCHANGED <<handle, late, fault>>
  BY ExecuteDoes DEF Types, Layout
<1>3. /\ cursor' \in CursorRec /\ cursor'.start = 0 /\ cursor'.open /\ cursor'.set = 1
  BY <1>2, CursorTypes
<1>4. /\ res'[r] \in ResultRec /\ res'[r].size = n /\ res'[r].own /\ res'[r].pos = 0
  BY <1>1, <1>2, NewTypes
<1>5. \A x \in Result : x # r =>
        ~res'[x].own /\ res'[x].size = res[x].size /\ res'[x].pos = res[x].pos
  BY <1>2, DisownedTypes DEF Types, Layout, Ownerless
<1>6. Rows' \in Nat
  <2>1. 1 \in 1 .. Len(RowCount) BY RowsAssumption
  <2>2. QED BY <1>3, <2>1, RowsAssumption DEF Rows
<1>7. \A x \in Result : res'[x].pos <= 0 \/ res'[x].pos < res'[x].size
  BY <1>4, <1>5, Fields DEF Types, Layout
<1>8. cursor'.start <= Rows' + 1
  <2>1. \A m \in Nat : 0 <= m + 1 OBVIOUS
  <2>2. QED BY <1>3, <1>6, <2>1, Zenon
<1>9. Shape' BY <1>2, <1>3, <1>7, <1>8 DEF Types, Layout, Shape
<1>10. Attached'
  BY <1>1, <1>2, <1>3, <1>4, <1>5 DEF Attached, Live, RowsetSize
<1>11. Filled' BY <1>2, <1>3, <1>4, <1>5 DEF Filled
<1>12. Owned' BY <1>2, <1>5 DEF Owned
<1>13. QED BY <1>9, <1>10, <1>11, <1>12 DEF Types, Layout

LEMMA ReleaseKeeps ==
    ASSUME Types, NEW r \in Result, Release(r)
    PROVE  Types'
<1> DEFINE e == NewResult(0)
<1>1. res' = [res EXCEPT ![r] = e] /\ UNCHANGED <<handle, cursor, driver, late>>
  BY DEF Release
<1>2. e \in ResultRec /\ ~e.own /\ e.pos = 0 BY NewTypes
<1> HIDE DEF e
<1>3. /\ res' \in [Result -> ResultRec]
      /\ res'[r] = e /\ \A x \in Result : x # r => res'[x] = res[x]
  BY <1>1, <1>2, Replaced DEF Types, Layout
<1>4. Rows' = Rows BY <1>1 DEF Rows
<1>5. InBlock(cursor.start)' = InBlock(cursor.start) BY <1>1, <1>4 DEF InBlock
<1>6. Shape' BY <1>1, <1>2, <1>3, <1>4 DEF Types, Layout, Shape
<1>7. Attached' BY <1>1, <1>2, <1>3 DEF Types, Layout, Attached, Live, RowsetSize
<1>8. Filled' BY <1>1, <1>2, <1>3, <1>4, <1>5 DEF Types, Layout, Filled, IsBound
<1>9. Owned' BY <1>1, <1>2, <1>3 DEF Types, Owned
<1>10. QED BY <1>6, <1>7, <1>8, <1>9 DEF Types, Layout

\* What the other functions of the statement do: no result owns the cursor then.
LEMMA DisowningDoes ==
    ASSUME Shape,
           (\E scroll \in BOOLEAN : Open(scroll)) \/ ExecuteFails \/ JustExecute \/ Close
    PROVE  /\ Ownerless(res') /\ handle' \in BOOLEAN /\ cursor' \in CursorRec
           /\ cursor'.start = 0 /\ driver' \in DriverRec
           /\ UNCHANGED <<late, fault>> /\ Say("other", 0, "done")
<1>1. Ownerless(Disowned) BY DisownedTypes
<1>2. driver \in DriverRec /\ handle \in BOOLEAN BY DEF Shape
<1>3. ASSUME NEW scroll \in BOOLEAN, Open(scroll)
      PROVE  /\ Ownerless(res') /\ handle' \in BOOLEAN /\ cursor' \in CursorRec
             /\ cursor'.start = 0 /\ driver' \in DriverRec
             /\ UNCHANGED <<late, fault>> /\ Say("other", 0, "done")
  BY <1>1, <1>3, HandleTypes, CursorTypes DEF Open
<1>4. ASSUME NEW b \in BOOLEAN, ExecuteOnly(b)
      PROVE  /\ Ownerless(res') /\ handle' \in BOOLEAN /\ cursor' \in CursorRec
             /\ cursor'.start = 0 /\ driver' \in DriverRec
             /\ UNCHANGED <<late, fault>> /\ Say("other", 0, "done")
  <2>1. /\ cursor' = [NoCursor EXCEPT !.open = b] /\ res' = Disowned
        /\ UNCHANGED <<handle, driver, late, fault>> /\ Say("other", 0, "done")
    BY <1>4 DEF ExecuteOnly
  <2>2. cursor' \in CursorRec /\ cursor'.start = 0 BY <2>1, CursorTypes
  <2>3. QED BY <1>1, <1>2, <2>1, <2>2
<1>5. CASE Close BY <1>1, <1>5, HandleTypes, CursorTypes DEF Close
<1>6. QED BY <1>3, <1>4, <1>5 DEF ExecuteFails, JustExecute

-----------------------------------------------------------------------------
(* The inductive invariant.                                                 *)

LEMMA InitIInv == Init => IInv
<1> SUFFICES ASSUME Init PROVE IInv
  OBVIOUS
<1> DEFINE e == NewResult(0)
<1>1. e \in ResultRec /\ ~e.own /\ e.pos = 0 BY NewTypes
<1>2. res = [r \in Result |-> e] BY DEF Init
<1> HIDE DEF e
<1>3. /\ res \in [Result -> ResultRec]
      /\ \A r \in Result : ~res[r].own /\ res[r].pos <= 0
  BY <1>1, <1>2
<1>4. cursor \in CursorRec /\ cursor.start = 0 /\ cursor.set = 1
      /\ handle \in BOOLEAN /\ driver \in DriverRec
  BY HandleTypes, CursorTypes DEF Init
<1>5. Rows \in Nat
  <2>1. 1 \in 1 .. Len(RowCount) BY RowsAssumption
  <2>2. QED BY <1>4, <2>1, RowsAssumption DEF Rows
<1>6. cursor.start <= Rows + 1
  <2>1. \A m \in Nat : 0 <= m + 1 OBVIOUS
  <2>2. QED BY <1>4, <1>5, <2>1, Zenon
<1>7. Shape BY <1>3, <1>4, <1>6 DEF Shape
<1>8. Attached /\ Filled /\ Owned BY <1>3 DEF Attached, Filled, Owned
<1>9. QED BY <1>7, <1>8 DEF IInv, Types, Layout, Init, WritesHaveCause

LEMMA StepKeepsIInv == IInv /\ [Next]_vars => IInv'
<1>1. ASSUME IInv, Next PROVE IInv'
  <2>1. Types /\ fault = "none" /\ late \in BOOLEAN BY <1>1 DEF IInv, Next
  <2>2. ASSUME NEW r \in Result, Call(r) PROVE IInv'
    <3>1. late' = (late \/ ~res[r].own)
          /\ (Next_(r) \/ Scroll(r) \/ Unbind(r) \/ NextResult(r))
      BY <2>2 DEF Call
    <3>2. Keeps BY <2>1, <3>1, ScrollKeeps, UnbindKeeps, NextResultKeeps
    <3>3. late' \in BOOLEAN BY <3>1, Zenon
    <3>4. QED BY <3>2, <3>3 DEF Keeps, IInv
  <2>3. ASSUME NEW r \in Result, Release(r) PROVE IInv'
    <3>1. UNCHANGED <<late, fault>> /\ call'.answer = "done" BY <2>3 DEF Release, Say
    <3>2. QED BY <1>1, <2>1, <2>3, <3>1, ReleaseKeeps DEF IInv, WritesHaveCause
  <2>4. ASSUME NEW n \in Size, Execute(n) PROVE IInv'
    <3>1. UNCHANGED <<late, fault>> /\ call'.answer = "done" BY <2>4 DEF Execute, Say
    <3>2. QED BY <1>1, <2>1, <2>4, <3>1, ExecuteKeeps DEF IInv, WritesHaveCause
  <2>5. CASE (\E scroll \in BOOLEAN : Open(scroll)) \/ ExecuteFails \/ JustExecute \/ Close
    <3>1. Shape BY <2>1 DEF Types, Layout
    <3>2. /\ Ownerless(res') /\ handle' \in BOOLEAN /\ cursor' \in CursorRec
          /\ cursor'.start = 0 /\ driver' \in DriverRec
          /\ UNCHANGED <<late, fault>> /\ Say("other", 0, "done")
      BY <2>5, <3>1, DisowningDoes
    <3>3. Types' BY <3>1, <3>2, OwnerlessKeeps
    <3>4. QED BY <1>1, <3>2, <3>3 DEF IInv, WritesHaveCause, Say
  <2>6. QED BY <1>1, <2>2, <2>3, <2>4, <2>5 DEF Next
<1>2. ASSUME IInv, UNCHANGED vars PROVE IInv'
  BY <1>2 DEF IInv, Types, Layout, Shape, Attached, Filled, Owned, WritesHaveCause, Live,
              RowsetSize, IsBound, Rows, InBlock, vars
<1>3. QED BY <1>1, <1>2

\* The strengthening is an invariant of the results of a statement.
THEOREM Inductive == Spec => []IInv
BY InitIInv, StepKeepsIInv, PTL DEF Spec

\* Every result keeps its position, its rows and its set within the bounds of its
\* buffers and of the query, whatever is called.
THEOREM TypesHold == Spec => []TypeOK
<1>1. IInv => TypeOK
  BY DEF IInv, Types, Layout, Shape, TypeOK, ResultRec, CursorRec, DriverRec
<1>2. QED BY <1>1, Inductive, PTL

\* Rows are written past the buffers of a result, or to those of a released one, only
\* after a call of a result that the cursor was not of.
THEOREM WritesAreItsOwn == Spec => []WritesHaveCause
<1>1. IInv => WritesHaveCause BY DEF IInv
<1>2. QED BY <1>1, Inductive, PTL

-----------------------------------------------------------------------------
(* What the result that the cursor is of reads.                             *)

\* The number of rows as the contract has it.
RowsLeft == IF Current = {} THEN 0 ELSE Rows

\* The row a result is at.
RowOf(r) ==
    IF cursor.start \notin 1 .. Rows THEN cursor.start
    ELSE IF res[r].pos < res[r].count THEN cursor.start + res[r].pos
    ELSE Rows + 1

LEMMA RowIs ==
    ASSUME NEW r \in Result, Current = {r}
    PROVE  Row = RowOf(r) /\ RowsLeft = Rows
<1>1. (CHOOSE x \in Current : TRUE) = r OBVIOUS
<1>2. Current # {} OBVIOUS
<1>3. QED BY <1>1, <1>2 DEF Row, RowOf, BlockRows, RowsLeft

LEMMA CurrentIs ==
    ASSUME Attached, NEW r \in Result, res[r].own
    PROVE  Current = {r}
BY DEF Attached, Current

\* Where the result is in its block, and the block in its set.
LEMMA Lies ==
    ASSUME Layout, NEW r \in Result, res[r].own
    PROVE  /\ handle /\ cursor.open /\ driver.array = res[r].size /\ driver.counted = r
           /\ Rows \in Nat /\ cursor.start \in Nat /\ cursor.start <= Rows + 1
           /\ res[r].size \in Nat /\ res[r].size >= 1 /\ res[r].count \in Nat
           /\ res[r].pos \in Int /\ res[r].pos < res[r].size
           /\ cursor.start > 0 => res[r].count = InBlock(cursor.start)
<1>1. handle /\ cursor.open /\ driver.array = res[r].size /\ driver.counted = r /\ Live(r)
  BY DEF Layout, Attached
<1>2. Rows \in Nat /\ cursor.start \in Nat /\ cursor.start <= Rows + 1
  BY Looked DEF Layout
<1>3. /\ res[r].size \in Nat /\ res[r].count \in Nat /\ res[r].pos \in Int
      /\ res[r].pos <= 0 \/ res[r].pos < res[r].size
  BY Fields, Maxima DEF Layout
<1>4. res[r].size >= 1 /\ res[r].pos < res[r].size BY <1>1, <1>3 DEF Live, RowsetSize
<1>5. QED BY <1>1, <1>2, <1>3, <1>4 DEF Layout, Filled

\* Of a block that has been fetched from the set: the rows from its first one on, as many
\* as fit, none before and after the rows.
LEMMA BlockLies ==
    ASSUME Layout, NEW r \in Result, res[r].own, ~Carried(r)
    PROVE  /\ cursor.start \notin 1 .. Rows => res[r].count = 0
           /\ cursor.start \in 1 .. Rows =>
                /\ res[r].count >= 1 /\ res[r].count <= res[r].size
                /\ cursor.start + res[r].count <= Rows + 1
                /\ \/ res[r].count = res[r].size
                   \/ cursor.start + res[r].count = Rows + 1
<1>1. CASE cursor.start = 0 BY <1>1, Lies DEF Carried, BlockRows
<1>2. CASE cursor.start > 0
  <2>1. res[r].count = InBlock(cursor.start) BY <1>2, Lies
  <2>2. QED BY <1>2, <2>1, Lies DEF InBlock
<1>3. QED BY <1>1, <1>2, Lies

LEMMA ReadsHold == Layout => ReadsKeepContract
<1> SUFFICES ASSUME Layout, NEW r \in Result, Sole(r), ~Carried(r), res[r].pos >= 0
             PROVE  /\ \/ Contract!Get(Get(r))
                       \/ res[r].blank
                       \/ res[r].unbound /\ RowsetSize(r) > 1
                    /\ Contract!Position(Position(r))
                    /\ RowsetSize(r) > 1 \/ Contract!AtEnd(AtEnd(r))
  BY DEF ReadsKeepContract
<1>1. res[r].own /\ driver.bound = r BY DEF Sole, Current
<1>2. Current = {r} BY <1>1, CurrentIs DEF Layout
<1>3. Row = RowOf(r) /\ RowsLeft = Rows BY <1>2, RowIs
<1>4. /\ handle /\ cursor.open /\ Rows \in Nat /\ cursor.start \in Nat
      /\ res[r].size \in Nat /\ res[r].size >= 1 /\ res[r].count \in Nat
      /\ res[r].pos \in Int /\ res[r].pos < res[r].size
  BY <1>1, Lies
<1>5. /\ cursor.start \notin 1 .. Rows => res[r].count = 0
      /\ cursor.start \in 1 .. Rows =>
            /\ res[r].count >= 1 /\ res[r].count <= res[r].size
            /\ cursor.start + res[r].count <= Rows + 1
  BY <1>1, BlockLies
<1>6. ~res[r].unbound /\ cursor.start \in 1 .. Rows => res[r].data = cursor.start
  BY <1>1 DEF Layout, Filled, IsBound
<1>7. cursor.start \in 1 .. Rows => RowNumber = cursor.start BY <1>4 DEF RowNumber
<1>8. cursor.start \notin 1 .. Rows => RowNumber = 0 BY <1>4 DEF RowNumber
<1>9. CASE res[r].pos < res[r].count
  <2>1. cursor.start \in 1 .. Rows /\ RowNumber = cursor.start /\ cursor.start > 0
    BY <1>4, <1>5, <1>7, <1>9
  <2>2. Row = cursor.start + res[r].pos /\ Row \in 1 .. Rows
    BY <1>3, <1>4, <1>5, <1>9, <2>1 DEF RowOf
  <2>3. ASSUME ~res[r].blank, ~(res[r].unbound /\ RowsetSize(r) > 1)
        PROVE  Get(r) = <<"row", Row>>
    <3>1. Get(r) = GetValue(r)
      <4>1. ~OutOfRange(r) /\ ~(res[r].pos < 0) BY <1>4, <1>9 DEF OutOfRange, BlockRows
      <4>2. QED BY <4>1, Zenon DEF Get
    <3>2. CASE res[r].unbound
      <4>1. res[r].pos = 0 BY <1>4, <2>3, <3>2 DEF RowsetSize
      <4>2. GetValue(r) = <<"row", RowNumber>> BY <1>4, <2>1, <3>2 DEF GetValue, IsBound
      <4>3. QED BY <1>4, <2>1, <2>2, <3>1, <4>1, <4>2
    <3>3. CASE ~res[r].unbound
      <4>1. res[r].data = cursor.start /\ res[r].data # 0 BY <1>4, <1>6, <2>1, <3>3
      <4>2. GetValue(r) = <<"row", res[r].data + res[r].pos>>
        BY <2>3, <3>3, <4>1 DEF GetValue, IsBound
      <4>3. QED BY <2>2, <3>1, <4>1, <4>2
    <3>4. QED BY <3>2, <3>3
  <2>4. Position(r) = Row BY <1>4, <2>1, <2>2 DEF Position
  <2>5. QED
    BY <1>3, <2>2, <2>3, <2>4
       DEF Contract!Get, Contract!Position, Contract!AtEnd, RowsLeft
<1>10. CASE ~(res[r].pos < res[r].count)
  <2>1. Get(r) = <<"no row">>
    <3>1. OutOfRange(r) BY <1>4, <1>10 DEF OutOfRange, BlockRows
    <3>2. QED BY <3>1, Zenon DEF Get
  <2>2. Row \notin 1 .. Rows BY <1>3, <1>4, <1>10 DEF RowOf
  <2>3. ASSUME ~(RowsetSize(r) > 1) PROVE AtEnd(r)
    <3>1. res[r].size = 1 /\ res[r].pos = 0 /\ res[r].count = 0
      BY <1>4, <1>10, <2>3 DEF RowsetSize
    <3>2. RowNumber = 0 BY <1>5, <1>8, <3>1
    <3>3. QED BY <3>2 DEF AtEnd
  <2>4. QED
    BY <1>3, <2>1, <2>2, <2>3
       DEF Contract!Get, Contract!Position, Contract!AtEnd, RowsLeft
<1>11. QED BY <1>9, <1>10

\* A result that has the cursor and the buffers of its statement to itself answers with
\* the row it is at, its number and whether there is one, in blocks of any size.
THEOREM ReadsAreOfTheRow == Spec => []ReadsKeepContract
<1>1. IInv => ReadsKeepContract BY ReadsHold DEF IInv, Types
<1>2. QED BY <1>1, Inductive, PTL

-----------------------------------------------------------------------------
(* The contract of a cursor.                                                *)

LEMMA RowIsNext ==
    ASSUME NEW r \in Result, Current' = {r}
    PROVE  Row' = RowOf(r)' /\ RowsLeft' = Rows'
<1>1. (CHOOSE x \in Current' : TRUE) = r OBVIOUS
<1>2. Current' # {} OBVIOUS
<1>3. QED BY <1>1, <1>2 DEF Row, RowOf, BlockRows, RowsLeft

LEMMA PlaceIs ==
    ASSUME NEW k
    PROVE  Contract!Place(k) = IF k < 0 THEN 0 ELSE IF k > RowsLeft THEN RowsLeft + 1 ELSE k
BY DEF Contract!Place, RowsLeft

\* The block a fetch comes to begins where the contract has the cursor go.
LEMMA TargetIs ==
    ASSUME Layout, NEW r \in Result, res[r].own, ~Carried(r), res[r].pos >= 0
    PROVE  /\ Target("first", 0) = Contract!Place(1)
           /\ res[r].size = 1 =>
                 Target("last", 0) = Contract!Place(IF RowsLeft = 0 THEN 1 ELSE RowsLeft)
           /\ res[r].count = 0 \/ res[r].pos + 1 >= res[r].size =>
                 Target("next", 0) = Contract!Place(Row + 1)
           /\ res[r].size = 1 => Target("prior", 0) = Contract!Place(Row - 1)
           /\ \A k \in Int :
                 \/ Target("move", k) = Contract!Place(IF k < 0 THEN RowsLeft + 1 + k ELSE k)
                 \/ res[r].size > Rows /\ Rows > 0 /\ Target("move", k) = 1
           /\ res[r].size = 1 =>
                 \A k \in Int : Target("skip", k) = Contract!Place(Row + k)
<1>1. Row = RowOf(r) /\ RowsLeft = Rows BY CurrentIs, RowIs DEF Layout
<1> DEFINE place(k) == IF k < 0 THEN 0 ELSE IF k > Rows THEN Rows + 1 ELSE k
<1>2. \A k : Contract!Place(k) = place(k) BY <1>1, PlaceIs
<1>3. /\ driver.array = res[r].size /\ Rows \in Nat /\ cursor.start \in Nat
      /\ cursor.start <= Rows + 1 /\ res[r].size \in Nat /\ res[r].size >= 1
      /\ res[r].count \in Nat /\ res[r].pos \in Nat /\ res[r].pos < res[r].size
  BY Lies
<1>4. /\ cursor.start \notin 1 .. Rows => res[r].count = 0
      /\ cursor.start \in 1 .. Rows =>
            /\ res[r].count >= 1 /\ res[r].count <= res[r].size
            /\ cursor.start + res[r].count <= Rows + 1
            /\ \/ res[r].count = res[r].size
               \/ cursor.start + res[r].count = Rows + 1
  BY BlockLies
<1>5. Target("first", 0) = place(1) BY <1>3 DEF Target
<1>6. ASSUME res[r].size = 1 PROVE Target("last", 0) = place(IF Rows = 0 THEN 1 ELSE Rows)
  BY <1>3, <1>6 DEF Target
<1>7. ASSUME res[r].count = 0 \/ res[r].pos + 1 >= res[r].size
      PROVE  Target("next", 0) = place(RowOf(r) + 1)
  <2>1. Target("next", 0) = IF cursor.start = 0 THEN 1 ELSE Relative(cursor.start, res[r].size)
    BY <1>3 DEF Target
  <2>2. CASE cursor.start = 0 BY <1>3, <2>1, <2>2 DEF RowOf
  <2>3. CASE cursor.start = Rows + 1
    <3>1. RowOf(r) = Rows + 1 BY <1>3, <2>3 DEF RowOf
    <3>2. Target("next", 0) = Rows + 1 BY <1>3, <2>1, <2>3 DEF Relative
    <3>3. QED BY <1>3, <3>1, <3>2
  <2>4. CASE cursor.start \in 1 .. Rows
    <3>1. res[r].pos + 1 = res[r].size BY <1>3, <1>4, <1>7, <2>4
    <3>2. Target("next", 0) = IF cursor.start + res[r].size > Rows THEN Rows + 1
                              ELSE cursor.start + res[r].size
      BY <1>3, <2>1, <2>4 DEF Relative
    <3>3. CASE res[r].pos < res[r].count
      <4>1. RowOf(r) = cursor.start + res[r].pos BY <2>4, <3>3 DEF RowOf
      <4>2. QED BY <1>3, <3>1, <3>2, <4>1
    <3>4. CASE ~(res[r].pos < res[r].count)
      <4>1. RowOf(r) = Rows + 1 BY <2>4, <3>4 DEF RowOf
      <4>2. cursor.start + res[r].size > Rows BY <1>3, <1>4, <2>4, <3>1, <3>4
      <4>3. QED BY <1>3, <3>2, <4>1, <4>2
    <3>5. QED BY <3>3, <3>4
  <2>5. QED BY <1>3, <2>2, <2>3, <2>4
<1>8. ASSUME res[r].size = 1 PROVE RowOf(r) = cursor.start
  BY <1>3, <1>4, <1>8 DEF RowOf
<1>9. ASSUME res[r].size = 1 PROVE Target("prior", 0) = place(RowOf(r) - 1)
  <2>1. Target("prior", 0) = Relative(cursor.start, -1) BY <1>3, <1>9 DEF Target
  <2>2. QED BY <1>3, <1>8, <1>9, <2>1 DEF Relative
<1>10. ASSUME NEW k \in Int
       PROVE  \/ Target("move", k) = place(IF k < 0 THEN Rows + 1 + k ELSE k)
              \/ res[r].size > Rows /\ Rows > 0 /\ Target("move", k) = 1
  <2>1. Target("move", k) = Relative(IF k < 0 THEN Rows + 1 ELSE 0, k) BY DEF Target
  <2>2. CASE k < 0
    <3>1. Target("move", k) = Relative(Rows + 1, k) BY <2>1, <2>2
    <3>2. QED BY <1>3, <2>2, <3>1 DEF Relative
  <2>3. CASE ~(k < 0)
    <3>1. Target("move", k) = Relative(0, k) BY <2>1, <2>3
    <3>2. QED BY <1>3, <2>3, <3>1 DEF Relative
  <2>4. QED BY <2>2, <2>3
<1>11. ASSUME res[r].size = 1, NEW k \in Int PROVE Target("skip", k) = place(RowOf(r) + k)
  <2>1. Target("skip", k) = Relative(cursor.start, k) BY DEF Target
  <2>2. QED BY <1>3, <1>8, <1>11, <2>1 DEF Relative
<1> HIDE DEF place
<1>12. QED BY <1>1, <1>2, <1>5, <1>6, <1>7, <1>9, <1>10, <1>11

\* A step of the results is one that the property leaves out, or one of the contract.
Refines ==
    \/ \E r \in Current : Excepted(r)
    \/ late' /\ call'.op = "other"
    \/ Contract!ContractNext

\* The cursor goes to a row and says whether it is one.
Goes(op, k, to) ==
    /\ Row' = to /\ RowsLeft' = RowsLeft
    /\ call' = [op |-> op, by |-> k, answer |-> IF Row' \in 1 .. RowsLeft THEN "yes" ELSE "no"]

LEMMA GoesIs ==
    ASSUME NEW op, NEW k, NEW to, Goes(op, k, Contract!Place(to))
    PROVE  Contract!Go(op, k, to)
BY DEF Goes, Contract!Go, Contract!Said, RowsLeft

\* A fetch by the result that has the handle to itself.
LEMMA FetchGoes ==
    ASSUME Layout, NEW r \in Result, res[r].own, ~Carried(r), res[r].pos >= 0, Kept,
           NEW op \in Ops, NEW k \in Int, Fetch(r, op, k),
           op \in {"move", "skip"} => k \in Span, op \notin {"move", "skip"} => k = 0
    PROVE  \/ Excepted(r) \/ Goes(op, k, Target(op, k))
           \/ op # "next" /\ Contract!RefuseScroll
<1>1. Current = {r} /\ Row = RowOf(r) /\ RowsLeft = Rows BY CurrentIs, RowIs DEF Layout
<1>2. /\ cursor.open /\ driver.array = res[r].size /\ driver.counted = r
      /\ Rows \in Nat /\ cursor.start \in Nat
      /\ res[r].size \in Nat /\ res[r].size >= 1
      /\ res[r].pos \in Int /\ res[r].pos < res[r].size
  BY Lies
<1>3. Shape BY DEF Layout
<1>4. CASE /\ ~driver.scroll /\ op # "next"
           /\ Stayed(res', r, 0) /\ UNCHANGED <<cursor, fault>> /\ Answer(r, op, k, "error")
  <2>1. call' = [op |-> op, by |-> k, answer |-> "error"] BY <1>4 DEF Answer, Say
  <2>2. CASE RowsetSize(r) > 1 BY <2>1, <2>2 DEF Excepted
  <2>3. CASE ~(RowsetSize(r) > 1)
    <3>1. res[r].pos = 0 BY <1>2, <2>3 DEF RowsetSize
    <3>2. /\ \A x \in Result : res'[x].own = res[x].own
          /\ res'[r].pos = 0 /\ res'[r].count = res[r].count
      BY <1>4 DEF Stayed, Alike
    <3>3. Current' = {r} BY <1>1, <3>2 DEF Current
    <3>4. Rows' = Rows /\ cursor' = cursor BY <1>4 DEF Rows
    <3>5. RowOf(r)' = RowOf(r) BY <3>1, <3>2, <3>4 DEF RowOf
    <3>6. Row' = Row /\ RowsLeft' = RowsLeft BY <1>1, <3>3, <3>4, <3>5, RowIsNext
    <3>7. \/ op \in {"first", "last", "prior"} /\ k = 0
          \/ op \in {"move", "skip"} /\ k \in Span
      BY <1>4 DEF Ops
    <3>8. QED BY <1>4, <2>1, <3>6, <3>7 DEF Contract!RefuseScroll, Contract!Said, RowsLeft
  <2>4. QED BY <2>2, <2>3
<1>5. CASE /\ Fetched(res', r, Target(op, k), InBlock(Target(op, k)))
           /\ cursor' = [cursor EXCEPT !.start = Target(op, k)]
           /\ Answer(r, op, k, IF Target(op, k) \in 1 .. Rows THEN "yes" ELSE "no")
  <2> DEFINE to == Target(op, k)
  <2>1. to \in Nat BY <1>2, <1>3, TargetTypes
  <2>2. InBlock(to) \in Nat /\ (InBlock(to) > 0 <=> to \in 1 .. Rows)
    BY <1>3, <2>1, BlockTypes, Maxima
  <2>3. call' = [op |-> op, by |-> k, answer |-> IF to \in 1 .. Rows THEN "yes" ELSE "no"]
    BY <1>5, Zenon DEF Answer, Say
  <2>4. Fetched(res', r, to, InBlock(to)) /\ cursor' = [cursor EXCEPT !.start = to]
    BY <1>5
  <2> HIDE DEF to
  <2>5. /\ \A x \in Result : res'[x].own = res[x].own
        /\ res'[r].pos = 0 /\ res'[r].count = InBlock(to)
    BY <1>2, <2>4 DEF Fetched, Alike
  <2>6. Current' = {r} BY <1>1, <2>5 DEF Current
  <2>7. cursor'.start = to /\ cursor'.set = cursor.set
    BY <1>3, <2>4 DEF Shape, CursorRec
  <2>8. Rows' = Rows BY <2>7 DEF Rows
  <2>9. RowOf(r)' = to BY <1>2, <2>1, <2>2, <2>5, <2>7, <2>8 DEF RowOf
  <2>10. Row' = to /\ RowsLeft' = RowsLeft BY <1>1, <2>6, <2>8, <2>9, RowIsNext
  <2>11. QED BY <1>1, <2>3, <2>10 DEF Goes, to
<1>6. QED BY <1>2, <1>3, <1>4, <1>5, FetchDoes

\* A move in the block.
LEMMA WithinGoes ==
    ASSUME Layout, NEW r \in Result, res[r].own, NEW op, NEW k \in Int, NEW p \in -MaxBack .. MaxSize,
           NEW yes, Within(r, op, k, p, yes), Kept
    PROVE  /\ Current' = {r} /\ RowsLeft' = RowsLeft /\ res'[r].pos = p
           /\ Row' = IF cursor.start \notin 1 .. Rows THEN cursor.start
                     ELSE IF p < res[r].count THEN cursor.start + p ELSE Rows + 1
<1>1. Current = {r} /\ RowsLeft = Rows BY CurrentIs, RowIs DEF Layout
<1>2. Stayed(res', r, p) /\ UNCHANGED cursor BY WithinDoes DEF Layout
<1>3. /\ \A x \in Result : res'[x].own = res[x].own
      /\ res'[r].pos = p /\ res'[r].count = res[r].count
  BY <1>2 DEF Stayed, Alike
<1>4. Current' = {r} BY <1>1, <1>3 DEF Current
<1>5. Rows' = Rows /\ cursor'.start = cursor.start BY <1>2 DEF Rows
<1>6. Row' = RowOf(r)' /\ RowsLeft' = RowsLeft BY <1>1, <1>4, <1>5, RowIsNext
<1>7. QED BY <1>3, <1>4, <1>5, <1>6 DEF RowOf

LEMMA NextGoes ==
    ASSUME Layout, NEW r \in Result, res[r].own, ~Carried(r), res[r].pos >= 0, Next_(r)
    PROVE  Excepted(r) \/ Contract!ContractNext
<1> DEFINE p == res[r].pos + 1
           yes == p < BlockRows(r)
<1>1. /\ Rows \in Nat /\ cursor.start \in Nat /\ driver.array = res[r].size
      /\ res[r].size \in Nat /\ res[r].size >= 1 /\ res[r].count \in Nat
      /\ res[r].pos \in Int /\ res[r].pos < res[r].size
  BY Lies
<1>2. Row = RowOf(r) /\ RowsLeft = Rows BY CurrentIs, RowIs DEF Layout
<1>3. Kept /\ IF BlockRows(r) > 0 /\ p < RowsetSize(r) THEN Within(r, "next", 0, p, yes)
              ELSE Fetch(r, "next", 0)
  BY DEF Next_
<1>4. CASE res[r].count > 0 /\ p < res[r].size
  <2>1. p \in Int /\ p >= 0 BY <1>1
  <2>2. p \in -MaxBack .. MaxSize BY <1>4, <2>1, Inside, RowsAssumption DEF Layout
  <2>3. Within(r, "next", 0, p, yes) /\ Kept BY <1>3, <1>4 DEF BlockRows, RowsetSize
  <2>4. /\ cursor.start \in 1 .. Rows
        /\ res[r].count = res[r].size \/ cursor.start + res[r].count = Rows + 1
        /\ cursor.start + res[r].count <= Rows + 1
    BY <1>1, <1>4, BlockLies
  <2>5. /\ RowsLeft' = RowsLeft
        /\ call' = [op |-> "next", by |-> 0, answer |-> IF yes THEN "yes" ELSE "no"]
        /\ Row' = IF p < res[r].count THEN cursor.start + p ELSE Rows + 1
    <3> HIDE DEF p, yes
    <3>1. /\ RowsLeft' = RowsLeft
          /\ Row' = IF cursor.start \notin 1 .. Rows THEN cursor.start
                    ELSE IF p < res[r].count THEN cursor.start + p ELSE Rows + 1
      BY <2>2, <2>3, WithinGoes
    <3>2. call' = [op |-> "next", by |-> 0, answer |-> IF yes THEN "yes" ELSE "no"]
      BY <2>3, Zenon DEF Within, Answer, Say
    <3>3. QED BY <2>4, <3>1, <3>2
  <2>6. RowOf(r) = IF res[r].pos < res[r].count THEN cursor.start + res[r].pos ELSE Rows + 1
    BY <2>4 DEF RowOf
  <2>7. Row' = Contract!Place(Row + 1)
    <3>1. Row' = IF Row + 1 < 0 THEN 0 ELSE IF Row + 1 > Rows THEN Rows + 1 ELSE Row + 1
      BY <1>1, <1>2, <1>4, <2>4, <2>5, <2>6
    <3>2. QED BY <1>2, <3>1, PlaceIs
  <2>8. yes <=> Row' \in 1 .. RowsLeft
    BY <1>1, <1>2, <2>1, <2>4, <2>5 DEF BlockRows
  <2>9. call' = [op |-> "next", by |-> 0, answer |-> IF Row' \in 1 .. RowsLeft THEN "yes" ELSE "no"]
    BY <2>5, <2>8, Zenon
  <2>10. Goes("next", 0, Contract!Place(Row + 1)) BY <2>5, <2>7, <2>9 DEF Goes
  <2>11. QED BY <2>10, GoesIs DEF Contract!ContractNext, Contract!NextRow
<1>5. CASE ~(res[r].count > 0 /\ p < res[r].size)
  <2>1. Fetch(r, "next", 0) /\ Kept BY <1>3, <1>5 DEF BlockRows, RowsetSize
  <2>2. Target("next", 0) = Contract!Place(Row + 1) BY <1>1, <1>5, TargetIs
  <2>3. Excepted(r) \/ Goes("next", 0, Target("next", 0)) BY <2>1, FetchGoes DEF Ops
  <2>4. QED BY <2>2, <2>3, GoesIs DEF Contract!ContractNext, Contract!NextRow
<1>6. QED BY <1>4, <1>5

LEMMA ScrollGoes ==
    ASSUME Layout, NEW r \in Result, res[r].own, ~Carried(r), res[r].pos >= 0, Scroll(r)
    PROVE  Excepted(r) \/ Contract!ContractNext
<1>1. /\ Rows \in Nat /\ cursor.start \in Nat /\ driver.array = res[r].size
      /\ res[r].size \in Nat /\ res[r].size >= 1 /\ res[r].count \in Nat
      /\ res[r].pos \in Int /\ res[r].pos < res[r].size
  BY Lies
<1>2. Current = {r} /\ Row = RowOf(r) /\ RowsLeft = Rows BY CurrentIs, RowIs DEF Layout
<1>3. Span \subseteq Int /\ 0 \in Int BY RowsAssumption
<1>4. ASSUME NEW op, NEW k, NEW to, Goes(op, k, to), op \in {"prior", "last", "skip"}
      PROVE  Excepted(r) \/ res[r].size = 1
  <2>1. call'.op = op BY <1>4 DEF Goes
  <2>2. QED BY <1>1, <1>4, <2>1 DEF Excepted, RowsetSize
<1>5. CASE First(r)
  <2>1. Fetch(r, "first", 0) /\ Kept BY <1>5 DEF First
  <2>2. Excepted(r) \/ Goes("first", 0, Target("first", 0)) \/ Contract!RefuseScroll
    BY <1>3, <2>1, FetchGoes DEF Ops
  <2>3. Target("first", 0) = Contract!Place(1) BY TargetIs
  <2>4. QED BY <2>2, <2>3, GoesIs DEF Contract!ContractNext, Contract!First
<1>6. CASE Last(r)
  <2>1. Fetch(r, "last", 0) /\ Kept BY <1>6 DEF Last
  <2>2. Excepted(r) \/ Goes("last", 0, Target("last", 0)) \/ Contract!RefuseScroll
    BY <1>3, <2>1, FetchGoes DEF Ops
  <2>3. CASE Goes("last", 0, Target("last", 0)) /\ res[r].size = 1
    <3>1. Goes("last", 0, Contract!Place(IF RowsLeft = 0 THEN 1 ELSE RowsLeft))
      BY <2>3, TargetIs
    <3>2. Contract!Go("last", 0, IF RowsLeft = 0 THEN 1 ELSE RowsLeft) BY <3>1, GoesIs
    <3>3. QED BY <3>2 DEF Contract!ContractNext, Contract!Last, RowsLeft
  <2>4. QED BY <1>4, <2>2, <2>3 DEF Contract!ContractNext
<1>7. CASE Prior(r)
  <2> DEFINE p == res[r].pos - 1
  <2>1. Kept /\ IF BlockRows(r) > 0 /\ p >= 0 THEN Within(r, "prior", 0, p, TRUE)
                ELSE Fetch(r, "prior", 0)
    BY <1>7 DEF Prior
  <2>2. CASE BlockRows(r) > 0 /\ p >= 0
    <3>1. res[r].size > 1 BY <1>1, <2>2
    <3>2. call' = [op |-> "prior", by |-> 0, answer |-> "yes"] BY <2>1, <2>2 DEF Within, Answer, Say
    <3>3. QED BY <3>1, <3>2 DEF Excepted, RowsetSize
  <2>3. CASE ~(BlockRows(r) > 0 /\ p >= 0)
    <3>1. Fetch(r, "prior", 0) /\ Kept BY <2>1, <2>3
    <3>2. Excepted(r) \/ Goes("prior", 0, Target("prior", 0)) \/ Contract!RefuseScroll
      BY <1>3, <3>1, FetchGoes DEF Ops
    <3>3. CASE Goes("prior", 0, Target("prior", 0)) /\ res[r].size = 1
      <4>1. Goes("prior", 0, Contract!Place(Row - 1)) BY <3>3, TargetIs
      <4>2. QED BY <4>1, GoesIs DEF Contract!ContractNext, Contract!Prior
    <3>4. QED BY <1>4, <3>2, <3>3 DEF Contract!ContractNext
  <2>4. QED BY <2>2, <2>3
<1>8. ASSUME NEW k \in Span, Move(r, k) PROVE Excepted(r) \/ Contract!ContractNext
  <2>1. Fetch(r, "move", k) /\ Kept /\ k \in Int /\ k \in Span BY <1>3, <1>8 DEF Move
  <2>2. Excepted(r) \/ Goes("move", k, Target("move", k)) \/ Contract!RefuseScroll
    BY <2>1, FetchGoes DEF Ops
  <2>3. CASE Goes("move", k, Target("move", k))
    <3> DEFINE to == IF k < 0 THEN RowsLeft + 1 + k ELSE k
    <3>1. \/ Target("move", k) = Contract!Place(to)
          \/ res[r].size > Rows /\ Rows > 0 /\ Target("move", k) = 1
      BY <2>1, TargetIs
    <3>2. CASE Target("move", k) = Contract!Place(to)
      <4>1. Contract!Go("move", k, to) BY <2>3, <3>2, GoesIs
      <4>2. Contract!Move(k) BY <4>1 DEF Contract!Move, RowsLeft
      <4>3. QED BY <4>2 DEF Contract!ContractNext
    <3>3. CASE res[r].size > Rows /\ Rows > 0 /\ Target("move", k) = 1
      <4>1. call'.op = "move" /\ Row' = 1 BY <2>3, <3>3 DEF Goes
      <4>2. QED BY <3>3, <4>1 DEF Excepted, RowsetSize
    <3>4. QED BY <3>1, <3>2, <3>3
  <2>4. QED BY <2>2, <2>3 DEF Contract!ContractNext
<1>9. ASSUME NEW k \in Span, Skip(r, k) PROVE Excepted(r) \/ Contract!ContractNext
  <2> DEFINE p == res[r].pos + k
             yes == p < BlockRows(r)
  <2>1. k \in Int /\ k \in Span BY <1>3
  <2>2. /\ Kept /\ p >= -MaxBack
        /\ IF BlockRows(r) > 0 /\ p < RowsetSize(r) THEN Within(r, "skip", k, p, yes)
           ELSE Fetch(r, "skip", k)
    BY <1>9 DEF Skip
  <2>3. CASE BlockRows(r) > 0 /\ p < RowsetSize(r)
    <3>1. p \in Int BY <1>1, <2>1
    <3>2. p \in -MaxBack .. MaxSize
      <4> HIDE DEF p
      <4>1. QED BY <2>2, <2>3, <3>1, Inside DEF RowsetSize, Layout
    <3>3. /\ RowsLeft' = RowsLeft /\ res'[r].pos = p
          /\ call' = [op |-> "skip", by |-> k, answer |-> IF yes THEN "yes" ELSE "no"]
          /\ Row' = IF cursor.start \notin 1 .. Rows THEN cursor.start
                    ELSE IF p < res[r].count THEN cursor.start + p ELSE Rows + 1
      <4>1. Within(r, "skip", k, p, yes) /\ Kept BY <2>2, <2>3
      <4>2. call' = [op |-> "skip", by |-> k, answer |-> IF yes THEN "yes" ELSE "no"]
        BY <4>1, Zenon DEF Within, Answer, Say
      <4> HIDE DEF p, yes
      <4>3. /\ RowsLeft' = RowsLeft /\ res'[r].pos = p
            /\ Row' = IF cursor.start \notin 1 .. Rows THEN cursor.start
                      ELSE IF p < res[r].count THEN cursor.start + p ELSE Rows + 1
        BY <2>1, <3>2, <4>1, WithinGoes
      <4>4. QED BY <4>2, <4>3
    <3>4. CASE RowsetSize(r) > 1
      <4>1. call'.op = "skip" BY <3>3
      <4>2. QED BY <3>4, <4>1 DEF Excepted
    <3>5. CASE p < 0 BY <3>3, <3>5 DEF Excepted
    <3>6. CASE ~(RowsetSize(r) > 1) /\ ~(p < 0)
      <4>1. k = 0 /\ p = 0 /\ res[r].pos = 0 BY <1>1, <2>1, <2>3, <3>6 DEF RowsetSize
      <4>2. cursor.start \in 1 .. Rows /\ res[r].count > 0 /\ yes
        BY <1>1, <2>3, <4>1, BlockLies DEF BlockRows
      <4>3. Row = cursor.start /\ Row' = cursor.start
        BY <1>1, <1>2, <3>3, <4>1, <4>2 DEF RowOf
      <4>4. Row' = Contract!Place(Row + k)
        <5>1. Row' = IF Row + k < 0 THEN 0 ELSE IF Row + k > Rows THEN Rows + 1 ELSE Row + k
          BY <1>1, <4>1, <4>2, <4>3
        <5>2. QED BY <1>2, <5>1, PlaceIs
      <4>5. Row' \in 1 .. RowsLeft BY <1>2, <4>2, <4>3
      <4>6. call' = [op |-> "skip", by |-> k, answer |-> IF Row' \in 1 .. RowsLeft THEN "yes" ELSE "no"]
        BY <3>3, <4>2, <4>5, Zenon
      <4>7. Goes("skip", k, Contract!Place(Row + k)) BY <3>3, <4>4, <4>6 DEF Goes
      <4>8. Contract!Skip(k) BY <4>7, GoesIs DEF Contract!Skip
      <4>9. QED BY <4>8 DEF Contract!ContractNext
    <3>7. QED BY <3>4, <3>5, <3>6
  <2>4. CASE ~(BlockRows(r) > 0 /\ p < RowsetSize(r))
    <3>1. Fetch(r, "skip", k) /\ Kept BY <2>2, <2>4
    <3>2. Excepted(r) \/ Goes("skip", k, Target("skip", k)) \/ Contract!RefuseScroll
      BY <2>1, <3>1, FetchGoes DEF Ops
    <3>3. CASE Goes("skip", k, Target("skip", k)) /\ res[r].size = 1
      <4>1. Target("skip", k) = Contract!Place(Row + k) BY <2>1, <3>3, TargetIs
      <4>2. Contract!Skip(k) BY <3>3, <4>1, GoesIs DEF Contract!Skip
      <4>3. QED BY <4>2 DEF Contract!ContractNext
    <3>4. QED BY <1>4, <3>2, <3>3 DEF Contract!ContractNext
  <2>5. QED BY <2>3, <2>4
<1>10. QED BY <1>5, <1>6, <1>7, <1>8, <1>9 DEF Scroll

\* A step that leaves the rows and the position of the current result.
LEMMA StaysAt ==
    ASSUME Layout, Current' = Current, UNCHANGED cursor,
           \A x \in Current : res'[x].pos = res[x].pos /\ res'[x].count = res[x].count
    PROVE  Row' = Row /\ RowsLeft' = RowsLeft
<1>1. Rows' = Rows BY DEF Rows
<1>2. CASE Current = {} BY <1>1, <1>2 DEF Row, RowsLeft
<1>3. CASE Current # {}
  <2>1. PICK r \in Result : r \in Current /\ res[r].own BY <1>3 DEF Current
  <2>2. Current = {r} /\ Current' = {r} BY <2>1, CurrentIs DEF Layout
  <2>3. Row = RowOf(r) /\ RowsLeft = Rows BY <2>2, RowIs
  <2>4. Row' = RowOf(r)' /\ RowsLeft' = Rows' BY <2>2, RowIsNext
  <2>5. RowOf(r)' = RowOf(r) BY <1>1, <2>1 DEF RowOf
  <2>6. QED BY <1>1, <2>3, <2>4, <2>5
<1>4. QED BY <1>2, <1>3

\* A step after which no result has the cursor.
LEMMA NoneHas ==
    ASSUME Ownerless(res')
    PROVE  Row' = 0 /\ RowsLeft' = 0
<1>1. Current' = {} BY DEF Current, Ownerless
<1>2. QED BY <1>1 DEF Row, RowsLeft

\* A call of a result that the cursor is not of answers nothing of the contract.
LEMMA OthersSay ==
    ASSUME Shape, NEW r \in Result, ~res[r].own, Call(r)
    PROVE  late' /\ call'.op = "other"
<1>1. late' BY Zenon DEF Call
<1>2. \A op, k, a : Answer(r, op, k, a) => call'.op = "other" BY DEF Answer, Say
<1>3. \A op, k : Fetch(r, op, k) => call'.op = "other"
  <2> SUFFICES ASSUME NEW op, NEW k, Fetch(r, op, k) PROVE \E o, j, a : Answer(r, o, j, a)
    BY <1>2
  <2>1. QED BY Zenon DEF Fetch
<1>4. \A op, k, p, yes : Within(r, op, k, p, yes) => call'.op = "other" BY <1>2, Zenon DEF Within
<1>5. Unbind(r) => call'.op = "other" BY <1>2, Zenon DEF Unbind
<1>6. NextResult(r) => call'.op = "other" BY <1>2, Zenon, NextResultDoes
<1>7. Next_(r) => call'.op = "other" BY <1>3, <1>4, Zenon DEF Next_
<1>8. Scroll(r) => call'.op = "other"
  BY <1>3, <1>4, Zenon DEF Scroll, First, Last, Prior, Move, Skip
<1>9. QED BY <1>1, <1>5, <1>6, <1>7, <1>8 DEF Call

LEMMA UnbindGoes ==
    ASSUME Layout, NEW r \in Result, res[r].own, Unbind(r)
    PROVE  Contract!ContractNext
<1>1. handle /\ Current = {r} BY Lies, CurrentIs DEF Layout
<1>2. /\ res' = [res EXCEPT ![r].unbound = TRUE] /\ cursor' = cursor
      /\ call' = [op |-> "unbind", by |-> 0, answer |-> "done"]
  BY <1>1, Zenon DEF Unbind, Answer, Say
<1> DEFINE e == [res[r] EXCEPT !.unbound = TRUE]
<1>3. e \in ResultRec /\ e.own = res[r].own /\ e.pos = res[r].pos /\ e.count = res[r].count
  BY Looked DEF Layout, ResultRec
<1>4. res' = [res EXCEPT ![r] = e] BY <1>2, Zenon
<1> HIDE DEF e
<1>5. /\ \A x \in Result : x # r => res'[x] = res[x]
      /\ res'[r] = e
  BY <1>3, <1>4, Replaced DEF Layout
<1>6. Current' = Current BY <1>3, <1>5 DEF Current
<1>7. Row' = Row /\ RowsLeft' = RowsLeft BY <1>1, <1>2, <1>3, <1>5, <1>6, StaysAt
<1>8. QED
  BY <1>2, <1>7 DEF Contract!ContractNext, Contract!Unbind, Contract!Said, RowsLeft

LEMMA NextResultGoes ==
    ASSUME Layout, NEW r \in Result, res[r].own, NextResult(r)
    PROVE  Contract!ContractNext
<1>1. handle /\ cursor.open /\ Current = {r} BY Lies, CurrentIs DEF Layout
<1>2. Shape BY DEF Layout
<1>3. CASE Answer(r, "next_result", 0, "no") /\ res' = Disowned
  <2>1. Row' = 0 /\ RowsLeft' = 0 BY <1>2, <1>3, DisownedTypes, NoneHas
  <2>2. call' = [op |-> "next_result", by |-> 0, answer |-> "no"] BY <1>3 DEF Answer, Say
  <2>3. QED
    BY <2>1, <2>2 DEF Contract!ContractNext, Contract!NoRows, Contract!Said, RowsLeft
<1>4. CASE /\ cursor.set < Len(RowCount)
           /\ Answer(r, "next_result", 0, "yes")
           /\ cursor' = [cursor EXCEPT !.set = @ + 1, !.start = 0]
           /\ res' = [res EXCEPT ![r].set = IF res[r].own THEN cursor.set + 1 ELSE 1,
                            ![r].data = 0, ![r].blank = FALSE, ![r].unbound = FALSE]
  <2> DEFINE s == IF res[r].own THEN cursor.set + 1 ELSE 1
             e == [res[r] EXCEPT !.set = s, !.data = 0, !.blank = FALSE, !.unbound = FALSE]
  <2>1. res[r] \in ResultRec /\ res \in [Result -> ResultRec] BY <1>2, Looked DEF Shape
  <2>2. e.own = res[r].own BY <2>1 DEF ResultRec
  <2>3. res' = [res EXCEPT ![r].set = s, ![r].data = 0, ![r].blank = FALSE,
                           ![r].unbound = FALSE]
    BY <1>4
  <2> HIDE DEF s
  <2>4. res' = [res EXCEPT ![r] = e] BY <2>1, <2>3 DEF ResultRec
  <2> HIDE DEF e
  <2>5. \A x \in Result : res'[x].own = res[x].own BY <2>1, <2>2, <2>4
  <2>6. Current' = {r} BY <1>1, <2>5 DEF Current
  <2>7. cursor'.start = 0 /\ cursor'.set = cursor.set + 1 BY <1>2, <1>4 DEF Shape, CursorRec
  <2>8. Rows' \in Nat
    <3>1. cursor.set + 1 \in 1 .. Len(RowCount) BY <1>2, <1>4, Looked
    <3>2. RowCount[cursor'.set] \in Nat BY <2>7, <3>1, RowsAssumption
    <3>3. QED BY <3>2 DEF Rows
  <2>9. Row' = 0 /\ RowsLeft' = Rows'
    <3>1. 0 \notin 1 .. Rows' BY <2>8
    <3>2. QED BY <2>6, <2>7, <3>1, RowIsNext DEF RowOf
  <2>10. call' = [op |-> "next_result", by |-> 0, answer |-> "yes"] BY <1>4 DEF Answer, Say
  <2>11. QED
    BY <2>8, <2>9, <2>10 DEF Contract!ContractNext, Contract!NewRows, Contract!Said, RowsLeft
<1>5. QED BY <1>1, <1>2, <1>3, <1>4, NextResultDoes

LEMMA CallGoes ==
    ASSUME Layout, NEW r \in Result, Call(r)
    PROVE  Refines
<1>1. CASE ~res[r].own BY <1>1, OthersSay DEF Layout, Refines
<1>2. CASE res[r].own
  <2>1. Next_(r) \/ Scroll(r) \/ Unbind(r) \/ NextResult(r) BY DEF Call
  <2>2. Excepted(r) \/ Contract!ContractNext
    <3>1. CASE Carried(r) \/ res[r].pos < 0 BY <3>1 DEF Excepted
    <3>2. CASE ~Carried(r) /\ res[r].pos >= 0
      BY <1>2, <2>1, <3>2, NextGoes, ScrollGoes, UnbindGoes, NextResultGoes
    <3>3. res[r].pos \in Int BY Fields DEF Layout
    <3>4. QED BY <3>1, <3>2, <3>3
  <2>3. r \in Current BY <1>2 DEF Current
  <2>4. QED BY <2>2, <2>3 DEF Refines
<1>3. QED BY <1>1, <1>2

LEMMA ReleaseGoes ==
    ASSUME Layout, NEW r \in Result, Release(r)
    PROVE  Refines
<1> DEFINE e == NewResult(0)
<1>1. /\ res' = [res EXCEPT ![r] = e] /\ cursor' = cursor
      /\ call' = [op |-> "other", by |-> 0, answer |-> "done"]
  BY DEF Release, Say
<1>2. e \in ResultRec /\ ~e.own BY NewTypes
<1> HIDE DEF e
<1>3. /\ res' \in [Result -> ResultRec] /\ res'[r] = e
      /\ \A x \in Result : x # r => res'[x] = res[x]
  BY <1>1, <1>2, Replaced DEF Layout
<1>4. CASE res[r].own
  <2>1. Current = {r} BY <1>4, CurrentIs DEF Layout
  <2>2. Current' = {} BY <1>2, <1>3, <2>1 DEF Current
  <2>3. Row' = 0 /\ RowsLeft' = 0 BY <2>2 DEF Row, RowsLeft
  <2>4. QED
    BY <1>1, <2>3
       DEF Refines, Contract!ContractNext, Contract!NoRows, Contract!Said, RowsLeft
<1>5. CASE ~res[r].own
  <2>1. Current' = Current /\ r \notin Current BY <1>2, <1>3, <1>5 DEF Current
  <2>2. \A x \in Current : res'[x] = res[x] BY <1>3, <2>1 DEF Current
  <2>3. Row' = Row /\ RowsLeft' = RowsLeft BY <1>1, <2>1, <2>2, StaysAt
  <2>4. QED
    BY <1>1, <2>3
       DEF Refines, Contract!ContractNext, Contract!Other, Contract!Said, RowsLeft
<1>6. QED BY <1>4, <1>5

LEMMA ExecuteGoes ==
    ASSUME Layout, NEW n \in Size, Execute(n)
    PROVE  Refines
<1>1. n \in Nat /\ n > 0 BY RowsAssumption
<1>2. PICK r \in Result :
        /\ res' \in [Result -> ResultRec] /\ res'[r] = NewResult(n)
        /\ \A x \in Result : x # r => res'[x] = Disowned[x]
        /\ cursor' = [NoCursor EXCEPT !.open = TRUE] /\ Say("execute", 0, "done")
  BY ExecuteDoes DEF Layout
<1>3. res'[r].own BY <1>1, <1>2, NewTypes
<1>4. \A x \in Result : x # r => ~res'[x].own
  BY <1>2, DisownedTypes DEF Layout, Ownerless
<1>5. Current' = {r} BY <1>3, <1>4 DEF Current
<1>6. cursor'.start = 0 /\ cursor'.set = 1 BY <1>2, CursorTypes
<1>7. Rows' \in Nat
  <2>1. 1 \in 1 .. Len(RowCount) BY RowsAssumption
  <2>2. RowCount[cursor'.set] \in Nat BY <1>6, <2>1, RowsAssumption
  <2>3. QED BY <2>2 DEF Rows
<1>8. Row' = 0 /\ RowsLeft' = Rows'
  <2>1. 0 \notin 1 .. Rows' BY <1>7
  <2>2. QED BY <1>5, <1>6, <2>1, RowIsNext DEF RowOf
<1>9. QED
  BY <1>2, <1>7, <1>8
     DEF Refines, Contract!ContractNext, Contract!NewRows, Contract!Said, Say, RowsLeft

LEMMA StepRefines ==
    ASSUME Layout, [Next]_vars
    PROVE  Refines \/ UNCHANGED <<Row, call>>
<1>1. ASSUME NEW r \in Result, Call(r) PROVE Refines BY <1>1, CallGoes
<1>2. ASSUME NEW r \in Result, Release(r) PROVE Refines BY <1>2, ReleaseGoes
<1>3. ASSUME NEW n \in Size, Execute(n) PROVE Refines BY <1>3, ExecuteGoes
<1>4. CASE (\E scroll \in BOOLEAN : Open(scroll)) \/ ExecuteFails \/ JustExecute \/ Close
  <2>1. Ownerless(res') /\ Say("other", 0, "done") BY <1>4, DisowningDoes DEF Layout
  <2>2. Row' = 0 /\ RowsLeft' = 0 BY <2>1, NoneHas
  <2>3. QED
    BY <2>1, <2>2
       DEF Refines, Contract!ContractNext, Contract!NoRows, Contract!Said, Say, RowsLeft
<1>5. CASE UNCHANGED vars
  <2>1. Row' = Row /\ call' = call BY <1>5 DEF vars, Row, Current, Rows, BlockRows
  <2>2. QED BY <2>1
<1>6. QED BY <1>1, <1>2, <1>3, <1>4, <1>5 DEF Next

\* The results of a statement are the cursor the package promises, for any sets of rows,
\* sizes of blocks and moves, but in the steps the property names.
THEOREM ContractIsKept == Spec => KeepsContract
<1>1. IInv /\ [Next]_vars =>
        [ \/ \E r \in Current : Excepted(r)
          \/ late' /\ call'.op = "other"
          \/ Contract!ContractNext ]_<<Row, call>>
  <2> SUFFICES ASSUME IInv, [Next]_vars
               PROVE  \/ \E r \in Current : Excepted(r)
                      \/ late' /\ call'.op = "other"
                      \/ Contract!ContractNext
                      \/ UNCHANGED <<Row, call>>
    OBVIOUS
  <2>1. Layout BY DEF IInv, Types
  <2>2. QED BY <2>1, StepRefines DEF Refines
<1>2. QED BY <1>1, Inductive, PTL DEF Spec, KeepsContract

=============================================================================
