--------------------------- MODULE CatalogProofs ---------------------------
(***************************************************************************)
(* Proofs about CatalogCursors, for any number of cursors, procedures,     *)
(* addresses and rows: freed memory is used for two reasons only, cursors  *)
(* that share a result share out its rows, results are left behind one for *)
(* one, and a cursor that is alone on its procedure implements the         *)
(* contract of CursorContract; and about CatalogLists, for any number of   *)
(* cursors and names: schemas are returned once, and a cursor of catalogs  *)
(* that found a name does not end.                                         *)
(***************************************************************************)
EXTENDS CatalogCursors, CatalogLists, FiniteSetTheorems, TLAPS

State(c) == cursor[c].state
Got(c) == cursor[c].got

\* A cursor that has not been opened has returned nothing and owns nothing.
OwnersOpened == \A o \in Live : State(heap[o].owner) # "new"
ReadOpened == \A c \in Cursor : \A i \in DOMAIN Got(c) : State(Got(c)[i][1]) # "new"
NewIsEmpty == \A c \in Cursor : State(c) = "new" => Got(c) = <<>>

\* Every call has one result.
OwnersDiffer == \A o, p \in Live : heap[o].owner = heap[p].owner => o = p

\* The rows returned of a result are those it has passed.
ReadBehind ==
    \A c \in Cursor : \A i \in DOMAIN Got(c) : \A o \in Live :
        heap[o].owner = Got(c)[i][1] => Got(c)[i][2] <= heap[o].at

\* Two cursors that are open on one procedure overlap.
OverlapIsKnown ==
    \A c, d \in Cursor :
        State(c) = "open" /\ State(d) = "open" /\ cursor[c].of = cursor[d].of =>
            c = d \/ cursor[c].of \in overlapped

\* A cursor that does not overlap reads its own result and is where that is.
ReadsItsOwn ==
    \A c \in Cursor : State(c) = "open" =>
        /\ cursor[c].of \in Procedure
        /\ cursor[c].of \notin overlapped =>
            /\ Sound(cursor[c].of)
            /\ Reads(c).owner = c
            /\ Reads(c).rows = cursor[c].rows
            /\ Reads(c).at = Len(Got(c))

\* The cursors that account for a result.
Holders == {c \in Cursor : cursor[c].state \in {"open", "closed", "failed"}}
Finite == IsFiniteSet(Live) /\ IsFiniteSet(Holders)

\* The inductive invariant.
IInv ==
    /\ TypeOK /\ OwnersOpened /\ ReadOpened /\ NewIsEmpty /\ OwnersDiffer /\ ReadBehind
    /\ OverlapIsKnown /\ ReadsItsOwn /\ Finite
    /\ OnlyKnownFaults /\ RowsOnce /\ LeakAccount

-----------------------------------------------------------------------------
(* Parts of steps.                                                          *)

\* What every step uses of the state.
LEMMA Types ==
    ASSUME IInv
    PROVE  /\ \A c \in Cursor :
                 /\ State(c) \in {"new", "open", "ended", "closed", "failed", "refused"}
                 /\ cursor[c].of \in Procedure \cup {None} /\ cursor[c].rows \in 0 .. MaxRow
                 /\ Got(c) \in Seq(Cursor \X (1 .. MaxRow))
           /\ \A o \in Live : /\ o \in Object /\ heap[o] \in Result
                              /\ heap[o].of \in Procedure /\ heap[o].owner \in Cursor
                              /\ heap[o].rows \in 0 .. MaxRow /\ heap[o].at \in 0 .. MaxRow
           /\ MaxRow \in Nat /\ Live \subseteq Object
BY CursorsAssumption DEF IInv, TypeOK, Live, Result, State, Got

LEMMA GotTypes ==
    ASSUME IInv
    PROVE  \A c \in Cursor : \A i \in DOMAIN Got(c) :
              Got(c)[i][1] \in Cursor /\ Got(c)[i][2] \in Nat
BY Types

\* A step that changes only the state of one open cursor, to one that still accounts
\* for a result.
LEMMA StopKeepsIInv ==
    ASSUME IInv, NEW c \in Cursor, State(c) = "open", NEW s \in {"closed", "failed"},
           cursor' = [cursor EXCEPT ![c].state = s],
           UNCHANGED <<result_set, heap, alive, overlapped>>,
           fault' \in BOOLEAN, OnlyKnownFaults'
    PROVE  IInv'
<1>1. /\ \A d \in Cursor : /\ State(d)' = IF d = c THEN s ELSE State(d)
                           /\ Got(d)' = Got(d)
                           /\ cursor'[d].of = cursor[d].of
                           /\ cursor'[d].rows = cursor[d].rows
  BY DEF IInv, TypeOK, State, Got
<1>2. TypeOK' BY DEF IInv, TypeOK
<1>3. Live' = Live BY DEF Live
<1>4. Holders' = Holders BY <1>1 DEF Holders, State
<1>5. OwnersOpened' BY <1>1, <1>3, Types DEF IInv, OwnersOpened
<1>6. ReadOpened'
  <2>1. \A d \in Cursor : \A i \in DOMAIN Got(d) : Got(d)[i][1] \in Cursor BY GotTypes
  <2>2. QED BY <1>1, <2>1 DEF IInv, ReadOpened
<1>7. NewIsEmpty' BY <1>1 DEF IInv, NewIsEmpty
<1>8. OwnersDiffer' BY <1>3 DEF IInv, OwnersDiffer
<1>9. ReadBehind' BY <1>1, <1>3 DEF IInv, ReadBehind
<1>10. OverlapIsKnown' BY <1>1 DEF IInv, OverlapIsKnown
<1>11. ReadsItsOwn'
  <2>1. \A p : Sound(p)' = Sound(p) BY <1>3 DEF Sound
  <2>2. \A d \in Cursor : Reads(d)' = Reads(d) BY <1>1 DEF Reads
  <2>3. QED BY <1>1, <2>1, <2>2 DEF IInv, ReadsItsOwn
<1>12. Finite' /\ LeakAccount' BY <1>3, <1>4 DEF IInv, Finite, LeakAccount, Holders
<1>13. RowsOnce' BY <1>1 DEF IInv, RowsOnce, Got
<1>14. QED
  BY <1>2, <1>5, <1>6, <1>7, <1>8, <1>9, <1>10, <1>11, <1>12, <1>13 DEF IInv

\* A cursor that is refused.
LEMMA RefuseKeepsIInv ==
    ASSUME IInv, NEW c \in Cursor, NEW p \in Procedure, State(c) = "new",
           cursor' = [cursor EXCEPT ![c].state = "refused", ![c].of = p],
           UNCHANGED <<result_set, heap, alive, overlapped>>,
           fault' \in BOOLEAN, OnlyKnownFaults'
    PROVE  IInv'
<1> DEFINE k == [cursor EXCEPT ![c].state = "refused"]
<1>1. cursor' = [k EXCEPT ![c].of = p] BY Zenon DEF IInv, TypeOK
<1>2. /\ k \in [Cursor -> [state : {"new", "open", "ended", "closed", "failed", "refused"},
                           of : Procedure \cup {None}, rows : 0 .. MaxRow,
                           got : Seq(Cursor \X (1 .. MaxRow))]]
      /\ \A d \in Cursor : /\ k[d].state = IF d = c THEN "refused" ELSE State(d)
                           /\ k[d].got = Got(d) /\ k[d].of = cursor[d].of
                           /\ k[d].rows = cursor[d].rows
  BY DEF IInv, TypeOK, State, Got
<1> HIDE DEF k
<1>3. /\ cursor' \in [Cursor -> [state : {"new", "open", "ended", "closed", "failed", "refused"},
                           of : Procedure \cup {None}, rows : 0 .. MaxRow,
                           got : Seq(Cursor \X (1 .. MaxRow))]]
      /\ \A d \in Cursor : /\ State(d)' = IF d = c THEN "refused" ELSE State(d)
                           /\ Got(d)' = Got(d)
                           /\ cursor'[d].of = IF d = c THEN p ELSE cursor[d].of
                           /\ cursor'[d].rows = cursor[d].rows
  <2>1. cursor' \in [Cursor -> [state : {"new", "open", "ended", "closed", "failed", "refused"},
                           of : Procedure \cup {None}, rows : 0 .. MaxRow,
                           got : Seq(Cursor \X (1 .. MaxRow))]]
    <3> DEFINE A == Procedure \cup {None}
               G == Seq(Cursor \X (1 .. MaxRow))
               N == 0 .. MaxRow
    <3>1. p \in A OBVIOUS
    <3>2. k \in [Cursor -> [state : {"new", "open", "ended", "closed", "failed", "refused"},
                            of : A, rows : N, got : G]]
      BY <1>2
    <3> HIDE DEF A, G, N
    <3>3. cursor' \in [Cursor -> [state : {"new", "open", "ended", "closed", "failed", "refused"},
                                  of : A, rows : N, got : G]]
      BY <1>1, <3>1, <3>2
    <3>4. QED BY <3>3 DEF A, G, N
  <2>2. \A d \in Cursor \ {c} : cursor'[d] = k[d] BY <1>1, <1>2
  <2>3. /\ cursor'[c].state = k[c].state /\ cursor'[c].got = k[c].got
        /\ cursor'[c].of = p /\ cursor'[c].rows = k[c].rows
    BY <1>1, <1>2
  <2>4. QED BY <1>2, <2>1, <2>2, <2>3 DEF State, Got
<1>4. TypeOK' BY <1>3 DEF IInv, TypeOK
<1>5. Live' = Live BY DEF Live
<1>6. Holders' = Holders BY <1>3 DEF Holders, State
<1>7. OwnersOpened' BY <1>3, <1>5, Types DEF IInv, OwnersOpened
<1>8. ReadOpened'
  <2>1. \A d \in Cursor : \A i \in DOMAIN Got(d) : Got(d)[i][1] \in Cursor BY GotTypes
  <2>2. QED BY <1>3, <2>1 DEF IInv, ReadOpened
<1>9. NewIsEmpty' BY <1>3 DEF IInv, NewIsEmpty
<1>10. OwnersDiffer' BY <1>5 DEF IInv, OwnersDiffer
<1>11. ReadBehind' BY <1>3, <1>5 DEF IInv, ReadBehind
<1>12. OverlapIsKnown' BY <1>3 DEF IInv, OverlapIsKnown
<1>13. ReadsItsOwn'
  <2>1. \A q : Sound(q)' = Sound(q) BY <1>5 DEF Sound
  <2>2. \A d \in Cursor \ {c} : Reads(d)' = Reads(d) BY <1>3 DEF Reads
  <2>3. QED BY <1>3, <2>1, <2>2 DEF IInv, ReadsItsOwn
<1>14. Finite' /\ LeakAccount' BY <1>5, <1>6 DEF IInv, Finite, LeakAccount, Holders
<1>15. RowsOnce' BY <1>3 DEF IInv, RowsOnce, Got
<1>16. QED
  BY <1>4, <1>7, <1>8, <1>9, <1>10, <1>11, <1>12, <1>13, <1>14, <1>15 DEF IInv

\* The result at o moves to its next row.
LEMMA Advanced ==
    ASSUME IInv, NEW o \in Live, heap[o].at < heap[o].rows,
           heap' = [heap EXCEPT ![o].at = @ + 1]
    PROVE  /\ heap' \in [Object -> Result \cup {None}] /\ Live' = Live
           /\ \A x \in Live : /\ heap'[x].owner = heap[x].owner /\ heap'[x].of = heap[x].of
                              /\ heap'[x].rows = heap[x].rows
                              /\ heap'[x].at = IF x = o THEN heap[o].at + 1 ELSE heap[x].at
<1> DEFINE r == [heap[o] EXCEPT !.at = heap[o].at + 1]
<1>1. o \in Object /\ heap[o] \in Result /\ heap \in [Object -> Result \cup {None}]
  BY Types DEF IInv, TypeOK
<1>2. heap[o].at + 1 \in 0 .. MaxRow BY Types
<1>3. /\ r \in Result /\ r.owner = heap[o].owner /\ r.of = heap[o].of
      /\ r.rows = heap[o].rows /\ r.at = heap[o].at + 1
  BY <1>1, <1>2 DEF Result
<1>4. heap' = [heap EXCEPT ![o] = r] BY Zenon
<1> HIDE DEF r
<1>5. \A x \in Object : heap'[x] = IF x = o THEN r ELSE heap[x] BY <1>1, <1>4
<1>6. r # None BY <1>3, NoneAssumption
<1>7. heap' \in [Object -> Result \cup {None}] BY <1>1, <1>3, <1>4
<1>8. Live' = Live BY <1>1, <1>5, <1>6 DEF Live
<1>9. QED BY <1>3, <1>5, <1>7, <1>8, Types

\* Cursors that do not overlap read different results.
LEMMA ReadsApart ==
    ASSUME IInv, NEW c \in Cursor, NEW d \in Cursor, c # d,
           State(c) = "open", State(d) = "open",
           Sound(cursor[c].of), cursor[d].of \notin overlapped
    PROVE  Sound(cursor[d].of) /\ result_set[cursor[d].of] # result_set[cursor[c].of]
<1>1. Sound(cursor[d].of) BY DEF IInv, ReadsItsOwn
<1>2. cursor[c].of # cursor[d].of BY DEF IInv, OverlapIsKnown
<1>3. QED BY <1>1, <1>2 DEF Sound

\* A row that does not convert.
LEMMA FailRowKeepsIInv == ASSUME IInv, NEW c \in Cursor, FailRow(c) PROVE IInv'
<1> DEFINE o == result_set[cursor[c].of]
<1>1. /\ State(c) = "open" /\ Sound(cursor[c].of) /\ o \in Live /\ ~fault
      /\ heap[o].at < heap[o].rows /\ heap' = [heap EXCEPT ![o].at = @ + 1]
      /\ cursor' = [cursor EXCEPT ![c].state = "failed"]
      /\ UNCHANGED <<result_set, alive, overlapped, fault>>
  BY DEF FailRow, State, Sound, Reads
<1>2. /\ \A d \in Cursor : /\ State(d)' = IF d = c THEN "failed" ELSE State(d)
                           /\ Got(d)' = Got(d)
                           /\ cursor'[d].of = cursor[d].of
                           /\ cursor'[d].rows = cursor[d].rows
  BY <1>1 DEF IInv, TypeOK, State, Got
<1> HIDE DEF o
<1>3. /\ heap' \in [Object -> Result \cup {None}] /\ Live' = Live
      /\ \A x \in Live : /\ heap'[x].owner = heap[x].owner /\ heap'[x].of = heap[x].of
                         /\ heap'[x].rows = heap[x].rows
                         /\ heap'[x].at = IF x = o THEN heap[o].at + 1 ELSE heap[x].at
  BY <1>1, Advanced
<1>4. TypeOK'
  <2>1. cursor' \in [Cursor -> [state : {"new", "open", "ended", "closed", "failed", "refused"},
                                of : Procedure \cup {None}, rows : 0 .. MaxRow,
                                got : Seq(Cursor \X (1 .. MaxRow))]]
    BY <1>1 DEF IInv, TypeOK
  <2>2. QED BY <1>1, <1>3, <2>1 DEF IInv, TypeOK
<1>5. Holders' = Holders BY <1>1, <1>2 DEF Holders, State
<1>6. OwnersOpened' BY <1>2, <1>3, Types DEF IInv, OwnersOpened
<1>7. ReadOpened'
  <2>1. \A d \in Cursor : \A i \in DOMAIN Got(d) : Got(d)[i][1] \in Cursor BY GotTypes
  <2>2. QED BY <1>2, <2>1 DEF IInv, ReadOpened
<1>8. NewIsEmpty' BY <1>2 DEF IInv, NewIsEmpty
<1>9. OwnersDiffer' BY <1>3 DEF IInv, OwnersDiffer
<1>10. ReadBehind'
  <2>1. ASSUME NEW d \in Cursor, NEW i \in DOMAIN Got(d), NEW x \in Live,
               heap'[x].owner = Got(d)[i][1]
        PROVE  Got(d)[i][2] <= heap'[x].at
    <3>1. Got(d)[i][2] <= heap[x].at BY <1>3, <2>1 DEF IInv, ReadBehind
    <3>2. Got(d)[i][2] \in Nat BY GotTypes
    <3>3. heap[x].at \in Nat /\ heap[o].at \in Nat BY <1>1, Types
    <3>4. heap'[x].at \in Nat /\ heap[x].at <= heap'[x].at BY <1>3, <3>3
    <3>5. QED BY <3>1, <3>2, <3>3, <3>4
  <2>2. QED BY <1>2, <1>3, <2>1 DEF ReadBehind
<1>11. OverlapIsKnown' BY <1>1, <1>2 DEF IInv, OverlapIsKnown
<1>12. ReadsItsOwn'
  <2>1. ASSUME NEW d \in Cursor, State(d)' = "open"
        PROVE  /\ cursor'[d].of \in Procedure
               /\ cursor'[d].of \notin overlapped' =>
                   /\ Sound(cursor[d].of)' /\ Reads(d)'.owner = d
                   /\ Reads(d)'.rows = cursor'[d].rows /\ Reads(d)'.at = Len(Got(d)')
    <3>1. d # c /\ State(d) = "open" BY <1>2, <2>1
    <3>2. cursor[d].of \in Procedure BY <3>1 DEF IInv, ReadsItsOwn
    <3>3. ASSUME cursor[d].of \notin overlapped
          PROVE  /\ Sound(cursor[d].of)' /\ Reads(d)'.owner = d
                 /\ Reads(d)'.rows = cursor'[d].rows /\ Reads(d)'.at = Len(Got(d)')
      <4>1. result_set[cursor[d].of] \in Live \ {o} BY <1>1, <3>1, <3>3, ReadsApart DEF Sound, o
      <4>2. Sound(cursor[d].of)' BY <1>1, <1>2, <1>3, <3>1, <3>3, <4>1 DEF IInv, ReadsItsOwn, Sound
      <4>3. /\ Reads(d)'.owner = Reads(d).owner /\ Reads(d)'.rows = Reads(d).rows
            /\ Reads(d)'.at = Reads(d).at
        BY <1>1, <1>2, <1>3, <4>1 DEF Reads
      <4>4. QED BY <1>2, <3>1, <3>3, <4>2, <4>3 DEF IInv, ReadsItsOwn
    <3>4. QED BY <1>1, <1>2, <3>2, <3>3
  <2>2. QED BY <2>1 DEF ReadsItsOwn
<1>13. Finite' /\ LeakAccount'
  BY <1>3, <1>5 DEF IInv, Finite, LeakAccount, Holders
<1>14. RowsOnce' BY <1>2 DEF IInv, RowsOnce, Got
<1>15. OnlyKnownFaults' BY <1>1 DEF OnlyKnownFaults
<1>16. QED
  BY <1>4, <1>6, <1>7, <1>8, <1>9, <1>10, <1>11, <1>12, <1>13, <1>14, <1>15 DEF IInv

\* A row that is returned.
LEMMA FetchRowKeepsIInv == ASSUME IInv, NEW c \in Cursor, FetchRow(c) PROVE IInv'
<1> DEFINE o == result_set[cursor[c].of]
           x == <<heap[o].owner, heap[o].at + 1>>
           g == Got(c)
<1>1. /\ State(c) = "open" /\ Sound(cursor[c].of) /\ o \in Live /\ ~fault
      /\ heap[o].at < heap[o].rows /\ heap' = [heap EXCEPT ![o].at = @ + 1]
      /\ cursor' = [cursor EXCEPT ![c].got = Append(@, x)]
      /\ UNCHANGED <<result_set, alive, overlapped, fault>>
  BY DEF FetchRow, State, Sound, Reads
<1>2. /\ heap[o].owner \in Cursor /\ heap[o].at + 1 \in 1 .. MaxRow
      /\ x \in Cursor \X (1 .. MaxRow) /\ g \in Seq(Cursor \X (1 .. MaxRow))
  <2>1. heap[o].owner \in Cursor /\ g \in Seq(Cursor \X (1 .. MaxRow)) BY <1>1, Types
  <2>2. heap[o].at + 1 \in 1 .. MaxRow
    <3>1. /\ heap[o].at \in 0 .. MaxRow /\ heap[o].rows \in 0 .. MaxRow /\ MaxRow \in Nat
          /\ heap[o].at < heap[o].rows
      BY <1>1, Types
    <3>2. QED BY <3>1
  <2> HIDE DEF o, g
  <2>3. QED BY <2>1, <2>2
<1> HIDE DEF o
<1>3. /\ \A d \in Cursor : /\ State(d)' = State(d)
                           /\ cursor'[d].of = cursor[d].of
                           /\ cursor'[d].rows = cursor[d].rows
      /\ \A d \in Cursor \ {c} : Got(d)' = Got(d)
      /\ Got(c)' = Append(g, x)
  BY <1>1 DEF IInv, TypeOK, State, Got
<1>4. /\ heap' \in [Object -> Result \cup {None}] /\ Live' = Live
      /\ \A y \in Live : /\ heap'[y].owner = heap[y].owner /\ heap'[y].of = heap[y].of
                         /\ heap'[y].rows = heap[y].rows
                         /\ heap'[y].at = IF y = o THEN heap[o].at + 1 ELSE heap[y].at
  BY <1>1, Advanced
<1>5. x[1] = heap[o].owner /\ x[2] = heap[o].at + 1 OBVIOUS
<1> HIDE DEF x
<1>6. Append(g, x) \in Seq(Cursor \X (1 .. MaxRow)) BY <1>2
<1>7. /\ DOMAIN Append(g, x) = DOMAIN g \cup {Len(g) + 1} /\ Len(g) + 1 \notin DOMAIN g
      /\ \A i \in DOMAIN g : Append(g, x)[i] = g[i]
      /\ Append(g, x)[Len(g) + 1] = x /\ Len(Append(g, x)) = Len(g) + 1
  BY <1>2
<1> HIDE DEF g
<1>8. TypeOK'
  <2>1. cursor' \in [Cursor -> [state : {"new", "open", "ended", "closed", "failed", "refused"},
                                of : Procedure \cup {None}, rows : 0 .. MaxRow,
                                got : Seq(Cursor \X (1 .. MaxRow))]]
    <3> DEFINE A == Procedure \cup {None}
               G == Seq(Cursor \X (1 .. MaxRow))
               N == 0 .. MaxRow
    <3>1. cursor \in [Cursor -> [state : {"new", "open", "ended", "closed", "failed", "refused"},
                                 of : A, rows : N, got : G]]
      BY DEF IInv, TypeOK
    <3>2. Append(cursor[c].got, x) \in G BY <1>6 DEF g, Got
    <3> HIDE DEF A, G, N
    <3>3. cursor' \in [Cursor -> [state : {"new", "open", "ended", "closed", "failed", "refused"},
                                  of : A, rows : N, got : G]]
      BY <1>1, <3>1, <3>2
    <3>4. QED BY <3>3 DEF A, G, N
  <2>2. QED BY <1>1, <1>4, <2>1 DEF IInv, TypeOK
<1>9. Holders' = Holders BY <1>3 DEF Holders, State
<1>10. OwnersOpened' BY <1>3, <1>4, Types DEF IInv, OwnersOpened
<1>11. State(x[1]) # "new" /\ x[1] \in Cursor BY <1>1, <1>2, <1>5 DEF IInv, OwnersOpened
<1>12. ASSUME NEW d \in Cursor, NEW i \in DOMAIN Got(d)'
       PROVE  \/ i \in DOMAIN Got(d) /\ Got(d)'[i] = Got(d)[i]
              \/ d = c /\ i = Len(g) + 1 /\ Got(d)'[i] = x
  BY <1>3, <1>7 DEF g
<1>14. ReadOpened' BY <1>3, <1>11, <1>12, GotTypes DEF IInv, ReadOpened
<1>15. NewIsEmpty' BY <1>1, <1>3 DEF IInv, NewIsEmpty
<1>16. OwnersDiffer' BY <1>4 DEF IInv, OwnersDiffer
<1>17. ReadBehind'
  <2>1. ASSUME NEW d \in Cursor, NEW i \in DOMAIN Got(d)', NEW y \in Live,
               heap'[y].owner = Got(d)'[i][1]
        PROVE  Got(d)'[i][2] <= heap'[y].at
    <3>1. heap[y].at \in Nat /\ heap[o].at \in Nat BY <1>1, Types
    <3>2. CASE i \in DOMAIN Got(d) /\ Got(d)'[i] = Got(d)[i]
      <4>1. Got(d)[i][2] <= heap[y].at BY <1>4, <2>1, <3>2 DEF IInv, ReadBehind
      <4>2. Got(d)[i][2] \in Nat BY <3>2, GotTypes
      <4>3. heap'[y].at \in Nat /\ heap[y].at <= heap'[y].at BY <1>4, <3>1
      <4>4. QED BY <3>1, <3>2, <4>1, <4>2, <4>3
    <3>3. CASE d = c /\ i = Len(g) + 1 /\ Got(d)'[i] = x
      <4>1. y = o BY <1>1, <1>4, <1>5, <2>1, <3>3 DEF IInv, OwnersDiffer
      <4>2. heap'[y].at = heap[o].at + 1 BY <1>4, <4>1
      <4>3. QED BY <1>5, <3>1, <3>3, <4>2
    <3>4. QED BY <1>12, <3>2, <3>3
  <2>2. QED BY <1>4, <2>1 DEF ReadBehind
<1>18. OverlapIsKnown' BY <1>1, <1>3 DEF IInv, OverlapIsKnown
<1>19. ReadsItsOwn'
  <2>1. ASSUME NEW d \in Cursor, State(d)' = "open"
        PROVE  /\ cursor'[d].of \in Procedure
               /\ cursor'[d].of \notin overlapped' =>
                   /\ Sound(cursor[d].of)' /\ Reads(d)'.owner = d
                   /\ Reads(d)'.rows = cursor'[d].rows /\ Reads(d)'.at = Len(Got(d)')
    <3>1. State(d) = "open" BY <1>3, <2>1
    <3>2. cursor[d].of \in Procedure BY <3>1 DEF IInv, ReadsItsOwn
    <3>3. ASSUME cursor[d].of \notin overlapped
          PROVE  /\ Sound(cursor[d].of)' /\ Reads(d)'.owner = d
                 /\ Reads(d)'.rows = cursor'[d].rows /\ Reads(d)'.at = Len(Got(d)')
      <4>1. /\ Sound(cursor[d].of) /\ Reads(d).owner = d
            /\ Reads(d).rows = cursor[d].rows /\ Reads(d).at = Len(Got(d))
        BY <3>1, <3>3 DEF IInv, ReadsItsOwn
      <4>2. result_set[cursor[d].of] \in Live BY <4>1 DEF Sound
      <4>3. Sound(cursor[d].of)' BY <1>1, <1>3, <1>4, <4>1, <4>2 DEF Sound
      <4>4. Reads(d)'.owner = d /\ Reads(d)'.rows = cursor'[d].rows
        BY <1>1, <1>3, <1>4, <4>1, <4>2 DEF Reads
      <4>5. CASE d = c
        <5>1. Reads(d)'.at = Reads(d).at + 1
          BY <1>1, <1>3, <1>4, <4>2, <4>5 DEF Reads, o
        <5>2. Len(Got(d)') = Len(Got(d)) + 1 BY <1>3, <1>7, <4>5 DEF g
        <5>3. QED BY <4>1, <4>3, <4>4, <5>1, <5>2
      <4>6. CASE d # c
        <5>1. result_set[cursor[d].of] # o
          BY <1>1, <3>1, <3>3, <4>6, ReadsApart DEF o
        <5>2. Reads(d)'.at = Reads(d).at BY <1>1, <1>3, <1>4, <4>2, <5>1 DEF Reads
        <5>3. QED BY <1>3, <4>1, <4>3, <4>4, <4>6, <5>2
      <4>7. QED BY <4>5, <4>6
    <3>4. QED BY <1>1, <1>3, <3>2, <3>3
  <2>2. QED BY <2>1 DEF ReadsItsOwn
<1>20. Finite' /\ LeakAccount'
  BY <1>4, <1>9 DEF IInv, Finite, LeakAccount, Holders
<1>21. RowsOnce'
  <2>1. \A d \in Cursor : \A i \in DOMAIN Got(d) : Got(d)[i] # x
    <3>1. SUFFICES ASSUME NEW d \in Cursor, NEW i \in DOMAIN Got(d), Got(d)[i] = x
                   PROVE  FALSE
      OBVIOUS
    <3>2. x[2] <= heap[o].at BY <1>1, <1>5, <3>1 DEF IInv, ReadBehind
    <3>3. heap[o].at \in Nat BY <1>1, Types
    <3>4. QED BY <1>5, <3>2, <3>3
  <2>2. ASSUME NEW d \in Cursor, NEW e \in Cursor,
               NEW i \in DOMAIN Got(d)', NEW j \in DOMAIN Got(e)', Got(d)'[i] = Got(e)'[j]
        PROVE  d = e /\ i = j
    <3>1. CASE i \in DOMAIN Got(d) /\ Got(d)'[i] = Got(d)[i]
      <4>1. Got(e)'[j] # x BY <2>1, <2>2, <3>1
      <4>2. j \in DOMAIN Got(e) /\ Got(e)'[j] = Got(e)[j] BY <1>12, <4>1
      <4>3. Got(d)[i] = Got(e)[j] BY <2>2, <3>1, <4>2
      <4>4. QED BY <3>1, <4>2, <4>3 DEF IInv, RowsOnce, Got
    <3>2. CASE d = c /\ i = Len(g) + 1 /\ Got(d)'[i] = x
      <4>1. ~(j \in DOMAIN Got(e) /\ Got(e)'[j] = Got(e)[j]) BY <2>1, <2>2, <3>2
      <4>2. QED BY <1>12, <3>2, <4>1
    <3>3. QED BY <1>12, <3>1, <3>2
  <2>3. QED BY <2>2 DEF RowsOnce, Got
<1>22. OnlyKnownFaults' BY <1>1 DEF OnlyKnownFaults
<1>23. QED
  BY <1>8, <1>10, <1>14, <1>15, <1>16, <1>17, <1>18, <1>19, <1>20, <1>21, <1>22 DEF IInv

\* The end of a result.
LEMMA FetchEndKeepsIInv == ASSUME IInv, NEW c \in Cursor, FetchEnd(c) PROVE IInv'
<1> DEFINE o == result_set[cursor[c].of]
<1>1. /\ State(c) = "open" /\ Sound(cursor[c].of) /\ o \in Live /\ ~fault
      /\ heap' = [heap EXCEPT ![o] = None]
      /\ cursor' = [cursor EXCEPT ![c].state = "ended"]
      /\ UNCHANGED <<result_set, alive, overlapped, fault>>
  BY DEF FetchEnd, State, Sound, Reads
<1>2. /\ \A d \in Cursor : /\ State(d)' = IF d = c THEN "ended" ELSE State(d)
                           /\ Got(d)' = Got(d)
                           /\ cursor'[d].of = cursor[d].of
                           /\ cursor'[d].rows = cursor[d].rows
  BY <1>1 DEF IInv, TypeOK, State, Got
<1> HIDE DEF o
<1>3. /\ heap' \in [Object -> Result \cup {None}] /\ Live' = Live \ {o}
      /\ \A x \in Live' : heap'[x] = heap[x]
  <2>1. heap \in [Object -> Result \cup {None}] BY DEF IInv, TypeOK
  <2>2. QED BY <1>1, <2>1 DEF Live
<1>4. TypeOK'
  <2>1. cursor' \in [Cursor -> [state : {"new", "open", "ended", "closed", "failed", "refused"},
                                of : Procedure \cup {None}, rows : 0 .. MaxRow,
                                got : Seq(Cursor \X (1 .. MaxRow))]]
    BY <1>1 DEF IInv, TypeOK
  <2>2. QED BY <1>1, <1>3, <2>1 DEF IInv, TypeOK
<1>5. Holders' = Holders \ {c} /\ c \in Holders BY <1>1, <1>2 DEF Holders, State
<1>6. OwnersOpened' BY <1>2, <1>3, Types DEF IInv, OwnersOpened
<1>7. ReadOpened' BY <1>2, GotTypes DEF IInv, ReadOpened
<1>8. NewIsEmpty' BY <1>2 DEF IInv, NewIsEmpty
<1>9. OwnersDiffer' BY <1>3 DEF IInv, OwnersDiffer
<1>10. ReadBehind' BY <1>2, <1>3 DEF IInv, ReadBehind
<1>11. OverlapIsKnown' BY <1>1, <1>2 DEF IInv, OverlapIsKnown
<1>12. ReadsItsOwn'
  <2>1. ASSUME NEW d \in Cursor, State(d)' = "open"
        PROVE  /\ cursor'[d].of \in Procedure
               /\ cursor'[d].of \notin overlapped' =>
                   /\ Sound(cursor[d].of)' /\ Reads(d)'.owner = d
                   /\ Reads(d)'.rows = cursor'[d].rows /\ Reads(d)'.at = Len(Got(d)')
    <3>1. d # c /\ State(d) = "open" BY <1>2, <2>1
    <3>2. cursor[d].of \in Procedure BY <3>1 DEF IInv, ReadsItsOwn
    <3>3. ASSUME cursor[d].of \notin overlapped
          PROVE  /\ Sound(cursor[d].of)' /\ Reads(d)'.owner = d
                 /\ Reads(d)'.rows = cursor'[d].rows /\ Reads(d)'.at = Len(Got(d)')
      <4>1. result_set[cursor[d].of] \in Live'
        BY <1>1, <1>3, <3>1, <3>3, ReadsApart DEF Sound, o
      <4>2. Sound(cursor[d].of)'
        BY <1>1, <1>2, <1>3, <3>1, <3>3, <4>1 DEF IInv, ReadsItsOwn, Sound
      <4>3. Reads(d)' = Reads(d) BY <1>1, <1>2, <1>3, <4>1 DEF Reads
      <4>4. QED BY <1>2, <3>1, <3>3, <4>2, <4>3 DEF IInv, ReadsItsOwn
    <3>4. QED BY <1>1, <1>2, <3>2, <3>3
  <2>2. QED BY <2>1 DEF ReadsItsOwn
<1>13. Finite' /\ LeakAccount'
  <2>1. Finite /\ Cardinality(Live) = Cardinality(Holders)
    BY DEF IInv, LeakAccount, Holders
  <2>2. /\ IsFiniteSet(Live \ {o}) /\ IsFiniteSet(Holders \ {c})
        /\ Cardinality(Live \ {o}) = Cardinality(Live) - 1
        /\ Cardinality(Holders \ {c}) = Cardinality(Holders) - 1
    BY <1>1, <1>5, <2>1, FS_RemoveElement DEF Finite
  <2>3. QED BY <1>3, <1>5, <2>1, <2>2 DEF Finite, LeakAccount, Holders
<1>14. RowsOnce' BY <1>2 DEF IInv, RowsOnce, Got
<1>15. OnlyKnownFaults' BY <1>1 DEF OnlyKnownFaults
<1>16. QED
  BY <1>4, <1>6, <1>7, <1>8, <1>9, <1>10, <1>11, <1>12, <1>13, <1>14, <1>15 DEF IInv

\* What an open makes of its cursor.
LEMMA Opened ==
    ASSUME TypeOK, NEW c \in Cursor, NEW p \in Procedure, NEW n \in 0 .. MaxRow,
           cursor' = [cursor EXCEPT ![c].state = "open", ![c].of = p, ![c].rows = n]
    PROVE  /\ cursor' \in [Cursor ->
                  [state : {"new", "open", "ended", "closed", "failed", "refused"},
                   of : Procedure \cup {None}, rows : 0 .. MaxRow,
                   got : Seq(Cursor \X (1 .. MaxRow))]]
           /\ \A d \in Cursor \ {c} : cursor'[d] = cursor[d]
           /\ cursor'[c].state = "open" /\ cursor'[c].of = p
           /\ cursor'[c].rows = n /\ cursor'[c].got = cursor[c].got
<1> DEFINE A == Procedure \cup {None}
           G == Seq(Cursor \X (1 .. MaxRow))
           N == 0 .. MaxRow
           R == [state : {"new", "open", "ended", "closed", "failed", "refused"},
                 of : A, rows : N, got : G]
           k == [cursor EXCEPT ![c].state = "open"]
           l == [k EXCEPT ![c].of = p]
<1>1. cursor \in [Cursor -> R] BY DEF TypeOK
<1>2. p \in A /\ n \in N OBVIOUS
<1>3. cursor' = [l EXCEPT ![c].rows = n] BY Zenon
<1> HIDE DEF A, G, N
<1>4. /\ k \in [Cursor -> R] /\ \A d \in Cursor \ {c} : k[d] = cursor[d]
      /\ k[c].state = "open" /\ k[c].got = cursor[c].got
  BY <1>1
<1> HIDE DEF k
<1>5. /\ l \in [Cursor -> R] /\ \A d \in Cursor \ {c} : l[d] = k[d]
      /\ l[c].state = "open" /\ l[c].of = p /\ l[c].got = k[c].got
  BY <1>2, <1>4
<1> HIDE DEF l
<1>6. /\ cursor' \in [Cursor -> R] /\ \A d \in Cursor \ {c} : cursor'[d] = l[d]
      /\ cursor'[c].state = "open" /\ cursor'[c].of = p /\ cursor'[c].got = l[c].got
      /\ cursor'[c].rows = n
  <2> DEFINE e == [l[c] EXCEPT !.rows = n]
  <2>1. /\ e \in R /\ e.state = "open" /\ e.of = p /\ e.got = l[c].got /\ e.rows = n
    BY <1>2, <1>5
  <2>2. cursor' = [l EXCEPT ![c] = e] BY <1>3, Zenon
  <2> HIDE DEF e, R
  <2>3. QED BY <1>5, <2>1, <2>2
<1>7. cursor' \in [Cursor -> [state : {"new", "open", "ended", "closed", "failed", "refused"},
                              of : Procedure \cup {None}, rows : 0 .. MaxRow,
                              got : Seq(Cursor \X (1 .. MaxRow))]]
  BY <1>6 DEF A, G, N
<1>8. QED BY <1>4, <1>5, <1>6, <1>7

LEMMA OpenKeepsIInv ==
    ASSUME IInv, NEW c \in Cursor, NEW p \in Procedure, Open(c, p) PROVE IInv'
<1>1. /\ State(c) = "new" /\ ~fault
      /\ overlapped' = IF OpenOn(p) = {} THEN overlapped ELSE overlapped \cup {p}
      /\ UNCHANGED <<alive, fault>>
  BY DEF Open, IsNext, State
<1>2. PICK o \in Free, n \in 0 .. MaxRow :
        /\ cursor' = [cursor EXCEPT ![c].state = "open", ![c].of = p, ![c].rows = n]
        /\ heap' = [heap EXCEPT ![o] = [of |-> p, owner |-> c, rows |-> n, at |-> 0]]
        /\ result_set' = [result_set EXCEPT ![p] = o]
  BY DEF Open
<1>3. /\ cursor' \in [Cursor -> [state : {"new", "open", "ended", "closed", "failed", "refused"},
                                 of : Procedure \cup {None}, rows : 0 .. MaxRow,
                                 got : Seq(Cursor \X (1 .. MaxRow))]]
      /\ \A d \in Cursor \ {c} : cursor'[d] = cursor[d]
      /\ State(c)' = "open" /\ cursor'[c].of = p /\ cursor'[c].rows = n /\ Got(c)' = Got(c)
  <2>1. TypeOK BY DEF IInv
  <2>2. QED BY <1>2, <2>1, Opened DEF State, Got
<1>4. \A d \in Cursor : (d # c => State(d)' = State(d)) /\ Got(d)' = Got(d)
  BY <1>3 DEF State, Got
<1>5. Got(c) = <<>> BY <1>1 DEF IInv, NewIsEmpty
<1> DEFINE r == [of |-> p, owner |-> c, rows |-> n, at |-> 0]
<1>6. r \in Result /\ r # None
  <2>1. r \in Result BY Types DEF Result
  <2>2. QED BY <2>1, NoneAssumption
<1>7. o \in Object \ Live BY DEF Free
<1>8. r.of = p /\ r.owner = c /\ r.rows = n /\ r.at = 0 OBVIOUS
<1> HIDE DEF r
<1>9. /\ heap' \in [Object -> Result \cup {None}] /\ Live' = Live \cup {o}
      /\ heap'[o] = r /\ \A x \in Live : heap'[x] = heap[x]
  <2>1. heap \in [Object -> Result \cup {None}] BY DEF IInv, TypeOK
  <2>2. heap' = [heap EXCEPT ![o] = r] BY <1>2 DEF r
  <2>3. QED BY <1>6, <1>7, <2>1, <2>2 DEF Live
<1>10. /\ result_set' \in [Procedure -> Object \cup {None}]
       /\ result_set'[p] = o /\ \A q \in Procedure \ {p} : result_set'[q] = result_set[q]
  BY <1>2, <1>7 DEF IInv, TypeOK
<1>11. TypeOK'
  <2>1. overlapped' \subseteq Procedure BY <1>1 DEF IInv, TypeOK
  <2>2. QED BY <1>1, <1>3, <1>9, <1>10, <2>1 DEF IInv, TypeOK
<1>12. Holders' = Holders \cup {c} /\ c \notin Holders
  BY <1>1, <1>3, <1>4 DEF Holders, State
<1>13. OwnersOpened'
  <2>1. ASSUME NEW x \in Live' PROVE State(heap[x].owner)' # "new"
    <3>1. CASE x = o BY <1>3, <1>8, <1>9, <3>1
    <3>2. CASE x \in Live
      <4>1. heap'[x] = heap[x] /\ heap[x].owner \in Cursor BY <1>9, <3>2, Types
      <4>2. State(heap[x].owner) # "new" BY <3>2 DEF IInv, OwnersOpened
      <4>3. heap[x].owner # c BY <1>1, <4>2
      <4>4. State(heap[x].owner)' = State(heap[x].owner) BY <1>4, <4>1, <4>3
      <4>5. QED BY <4>1, <4>2, <4>4
    <3>3. QED BY <1>9, <3>1, <3>2
  <2>2. QED BY <2>1 DEF OwnersOpened
<1>14. ReadOpened' BY <1>3, <1>4, GotTypes DEF IInv, ReadOpened
<1>15. NewIsEmpty' BY <1>3, <1>4 DEF IInv, NewIsEmpty
<1>16. \A x \in Live : heap[x].owner # c BY <1>1 DEF IInv, OwnersOpened
<1>17. OwnersDiffer' BY <1>8, <1>9, <1>16 DEF IInv, OwnersDiffer
<1>18. ReadBehind'
  <2>1. ASSUME NEW d \in Cursor, NEW i \in DOMAIN Got(d), NEW x \in Live',
               heap'[x].owner = Got(d)[i][1]
        PROVE  Got(d)[i][2] <= heap'[x].at
    <3>1. Got(d)[i][1] # c BY <1>1 DEF IInv, ReadOpened
    <3>2. x \in Live BY <1>8, <1>9, <2>1, <3>1
    <3>3. QED BY <1>9, <2>1, <3>2 DEF IInv, ReadBehind
  <2>2. QED BY <1>4, <2>1 DEF ReadBehind
<1>19. overlapped \subseteq overlapped' BY <1>1
<1>20. ASSUME NEW d \in Cursor \ {c}, State(d) = "open", cursor[d].of = p
       PROVE  p \in overlapped'
  <2>1. d \in OpenOn(p) BY <1>20 DEF OpenOn, State
  <2>2. QED BY <1>1, <2>1
<1>21. OverlapIsKnown'
  <2>1. ASSUME NEW d \in Cursor, NEW e \in Cursor, State(d)' = "open", State(e)' = "open",
               cursor'[d].of = cursor'[e].of, d # e
        PROVE  cursor'[d].of \in overlapped'
    <3>1. CASE d # c /\ e # c
      BY <1>3, <1>4, <1>19, <2>1, <3>1 DEF IInv, OverlapIsKnown
    <3>2. CASE d = c
      <4>1. State(e) = "open" /\ cursor[e].of = p BY <1>3, <1>4, <2>1, <3>2
      <4>2. QED BY <1>3, <1>20, <2>1, <3>2, <4>1
    <3>3. CASE e = c
      <4>1. State(d) = "open" /\ cursor[d].of = p BY <1>3, <1>4, <2>1, <3>3
      <4>2. QED BY <1>3, <1>20, <2>1, <3>3, <4>1
    <3>4. QED BY <3>1, <3>2, <3>3
  <2>2. QED BY <2>1 DEF OverlapIsKnown
<1>22. ReadsItsOwn'
  <2>1. ASSUME NEW d \in Cursor, State(d)' = "open"
        PROVE  /\ cursor'[d].of \in Procedure
               /\ cursor'[d].of \notin overlapped' =>
                   /\ Sound(cursor[d].of)' /\ Reads(d)'.owner = d
                   /\ Reads(d)'.rows = cursor'[d].rows /\ Reads(d)'.at = Len(Got(d)')
    <3>1. CASE d = c
      <4>1. Reads(c)' = r BY <1>3, <1>9, <1>10 DEF Reads
      <4>2. Sound(cursor[c].of)' BY <1>3, <1>8, <1>9, <1>10 DEF Sound
      <4>3. Len(Got(c)') = 0 BY <1>3, <1>5
      <4>4. QED BY <1>3, <1>8, <3>1, <4>1, <4>2, <4>3
    <3>2. CASE d # c
      <4>1. State(d) = "open" /\ cursor'[d] = cursor[d] /\ Got(d)' = Got(d)
        BY <1>3, <1>4, <2>1, <3>2
      <4>2. cursor[d].of \in Procedure BY <4>1 DEF IInv, ReadsItsOwn
      <4>3. ASSUME cursor[d].of \notin overlapped'
            PROVE  /\ Sound(cursor[d].of)' /\ Reads(d)'.owner = d
                   /\ Reads(d)'.rows = cursor'[d].rows /\ Reads(d)'.at = Len(Got(d)')
        <5>1. cursor[d].of # p /\ cursor[d].of \notin overlapped
          BY <1>19, <1>20, <3>2, <4>1, <4>3
        <5>2. /\ Sound(cursor[d].of) /\ Reads(d).owner = d
              /\ Reads(d).rows = cursor[d].rows /\ Reads(d).at = Len(Got(d))
          BY <4>1, <5>1 DEF IInv, ReadsItsOwn
        <5>3. /\ result_set'[cursor[d].of] = result_set[cursor[d].of]
              /\ result_set[cursor[d].of] \in Live
          BY <1>10, <4>2, <5>1, <5>2 DEF Sound
        <5>4. Sound(cursor[d].of)' BY <1>9, <4>1, <5>2, <5>3 DEF Sound
        <5>5. Reads(d)' = Reads(d) BY <1>9, <4>1, <5>3 DEF Reads
        <5>6. QED BY <4>1, <5>2, <5>4, <5>5
      <4>4. QED BY <4>1, <4>2, <4>3
    <3>3. QED BY <3>1, <3>2
  <2>2. QED BY <2>1 DEF ReadsItsOwn
<1>23. Finite' /\ LeakAccount'
  <2>1. Finite /\ Cardinality(Live) = Cardinality(Holders)
    BY DEF IInv, LeakAccount, Holders
  <2>2. /\ IsFiniteSet(Live \cup {o}) /\ IsFiniteSet(Holders \cup {c})
        /\ Cardinality(Live \cup {o}) = Cardinality(Live) + 1
        /\ Cardinality(Holders \cup {c}) = Cardinality(Holders) + 1
    BY <1>7, <1>12, <2>1, FS_AddElement DEF Finite
  <2>3. QED BY <1>9, <1>12, <2>1, <2>2 DEF Finite, LeakAccount, Holders
<1>24. RowsOnce' BY <1>4 DEF IInv, RowsOnce, Got
<1>25. OnlyKnownFaults' BY <1>1 DEF OnlyKnownFaults
<1>26. QED
  BY <1>11, <1>13, <1>14, <1>15, <1>17, <1>18, <1>21, <1>22, <1>23, <1>24, <1>25 DEF IInv

-----------------------------------------------------------------------------
(* The theorems.                                                            *)

LEMMA InitIInv == Init => IInv
<1> SUFFICES ASSUME Init PROVE IInv
  OBVIOUS
<1>1. /\ cursor = [c \in Cursor |-> [state |-> "new", of |-> None, rows |-> 0, got |-> <<>>]]
      /\ result_set = [p \in Procedure |-> None] /\ heap = [o \in Object |-> None]
      /\ alive = TRUE /\ overlapped = {} /\ fault = FALSE
  BY DEF Init
<1>2. \A c \in Cursor : State(c) = "new" /\ Got(c) = <<>> BY <1>1 DEF State, Got
<1>3. Live = {} BY <1>1 DEF Live
<1>4. Holders = {} BY <1>2 DEF Holders, State
<1>5. TypeOK
  <2>1. 0 \in 0 .. MaxRow BY CursorsAssumption
  <2>2. <<>> \in Seq(Cursor \X (1 .. MaxRow)) OBVIOUS
  <2>3. cursor \in [Cursor -> [state : {"new", "open", "ended", "closed", "failed", "refused"},
                               of : Procedure \cup {None}, rows : 0 .. MaxRow,
                               got : Seq(Cursor \X (1 .. MaxRow))]]
    BY <1>1, <2>1, <2>2
  <2>4. QED BY <1>1, <2>3 DEF TypeOK
<1>6. OwnersOpened /\ OwnersDiffer /\ ReadBehind
  BY <1>3 DEF OwnersOpened, OwnersDiffer, ReadBehind
<1>7. ReadOpened /\ NewIsEmpty BY <1>2 DEF ReadOpened, NewIsEmpty
<1>8. OverlapIsKnown /\ ReadsItsOwn BY <1>2 DEF OverlapIsKnown, ReadsItsOwn
<1>9. Finite /\ LeakAccount BY <1>3, <1>4, FS_EmptySet DEF Finite, LeakAccount, Holders
<1>10. OnlyKnownFaults BY <1>1 DEF OnlyKnownFaults
<1>11. RowsOnce BY <1>2 DEF RowsOnce, Got
<1>12. QED BY <1>5, <1>6, <1>7, <1>8, <1>9, <1>10, <1>11 DEF IInv

LEMMA StepKeepsIInv == IInv /\ [Next]_vars => IInv'
<1> SUFFICES ASSUME IInv, [Next]_vars PROVE IInv'
  OBVIOUS
<1>1. CASE \E c \in Cursor, p \in Procedure : Open(c, p) \/ OpenReleased(c, p) \/ FailOpen(c, p)
  <2>1. PICK c \in Cursor, p \in Procedure : Open(c, p) \/ OpenReleased(c, p) \/ FailOpen(c, p)
    BY <1>1
  <2>2. CASE Open(c, p) BY <2>2, OpenKeepsIInv
  <2>3. CASE OpenReleased(c, p)
    <3>1. /\ State(c) = "new" /\ fault' = TRUE /\ ~alive'
          /\ cursor' = [cursor EXCEPT ![c].state = "refused", ![c].of = p]
          /\ UNCHANGED <<result_set, heap, alive, overlapped>>
      BY <2>3 DEF OpenReleased, IsNext, State
    <3>2. fault' \in BOOLEAN /\ OnlyKnownFaults' BY <3>1 DEF OnlyKnownFaults
    <3>3. QED BY <3>1, <3>2, RefuseKeepsIInv
  <2>4. CASE FailOpen(c, p)
    <3>1. /\ State(c) = "new" /\ fault' = fault /\ ~fault
          /\ cursor' = [cursor EXCEPT ![c].state = "refused", ![c].of = p]
          /\ UNCHANGED <<result_set, heap, alive, overlapped>>
      BY <2>4 DEF FailOpen, IsNext, State
    <3>2. fault' \in BOOLEAN /\ OnlyKnownFaults'
      BY <3>1 DEF IInv, TypeOK, OnlyKnownFaults
    <3>3. QED BY <3>1, <3>2, RefuseKeepsIInv
  <2>5. QED BY <2>1, <2>2, <2>3, <2>4
<1>2. CASE \E c \in Cursor : Fetch(c) \/ Close(c)
  <2>1. PICK c \in Cursor : Fetch(c) \/ Close(c) BY <1>2
  <2>2. CASE FetchRow(c) BY <2>2, FetchRowKeepsIInv
  <2>3. CASE FetchEnd(c) BY <2>3, FetchEndKeepsIInv
  <2>4. CASE FailRow(c) BY <2>4, FailRowKeepsIInv
  <2>5. CASE FetchFreed(c)
    <3>1. /\ State(c) = "open" /\ ~Sound(cursor[c].of) /\ fault' = TRUE
          /\ cursor' = [cursor EXCEPT ![c].state = "failed"]
          /\ UNCHANGED <<result_set, heap, alive, overlapped>>
      BY <2>5 DEF FetchFreed, State
    <3>2. cursor[c].of \in overlapped BY <3>1 DEF IInv, ReadsItsOwn
    <3>3. fault' \in BOOLEAN /\ OnlyKnownFaults' BY <3>1, <3>2 DEF OnlyKnownFaults
    <3>4. QED BY <3>1, <3>3, StopKeepsIInv
  <2>6. CASE FailNext(c) \/ Close(c)
    <3>1. PICK s \in {"closed", "failed"} : cursor' = [cursor EXCEPT ![c].state = s]
      BY <2>6 DEF FailNext, Close
    <3>2. /\ State(c) = "open" /\ fault' = fault /\ ~fault
          /\ UNCHANGED <<result_set, heap, alive, overlapped>>
      BY <2>6 DEF FailNext, Close, State
    <3>3. fault' \in BOOLEAN /\ OnlyKnownFaults'
      BY <3>2 DEF IInv, TypeOK, OnlyKnownFaults
    <3>4. QED BY <3>1, <3>2, <3>3, StopKeepsIInv
  <2>7. QED BY <2>1, <2>2, <2>3, <2>4, <2>5, <2>6 DEF Fetch
<1>3. CASE ReleaseCatalog \/ UNCHANGED vars
  <2>1. /\ alive' \in BOOLEAN /\ (alive' = alive \/ ~alive')
        /\ UNCHANGED <<cursor, result_set, heap, overlapped, fault>>
    BY <1>3 DEF ReleaseCatalog, vars, IInv, TypeOK
  <2>2. QED
    BY <2>1 DEF IInv, TypeOK, OwnersOpened, ReadOpened, NewIsEmpty, OwnersDiffer, ReadBehind,
                OverlapIsKnown, ReadsItsOwn, Finite, OnlyKnownFaults, RowsOnce, LeakAccount,
                Live, Holders, Sound, Reads, State, Got
<1>4. QED BY <1>1, <1>2, <1>3 DEF Next

\* The contract of the one cursor that a step is a step of.
LEMMA StepKeepsContract ==
    ASSUME IInv, Next
    PROVE  \/ Contract!ContractNext
           \/ \E c \in Cursor : cursor'[c] # cursor[c] /\ cursor'[c].of \in overlapped'
           \/ cursor' = cursor
<1> DEFINE state == [c \in Cursor |-> cursor[c].state]
           rows == [c \in Cursor |-> cursor[c].rows]
           got == [c \in Cursor |-> cursor[c].got]
<1>1. TypeOK BY DEF IInv
<1>2. ASSUME NEW c \in Cursor, NEW p \in Procedure, Open(c, p) PROVE Contract!ContractNext
  <2>1. PICK n \in 0 .. MaxRow :
            cursor' = [cursor EXCEPT ![c].state = "open", ![c].of = p, ![c].rows = n]
    BY <1>2 DEF Open
  <2>2. /\ \A d \in Cursor \ {c} : cursor'[d] = cursor[d]
        /\ cursor'[c].state = "open" /\ cursor'[c].rows = n /\ cursor'[c].got = cursor[c].got
    BY <1>1, <2>1, Opened
  <2>3. state' = [state EXCEPT ![c] = "open"] BY <2>2
  <2>4. rows' = [rows EXCEPT ![c] = n] BY <2>2
  <2>5. got' = got BY <2>2
  <2>6. state[c] = "new" BY <1>2 DEF Open, IsNext
  <2>7. Contract!Open(c) BY <2>3, <2>4, <2>5, <2>6 DEF Contract!Open
  <2>8. QED BY <2>7 DEF Contract!ContractNext
<1>3. ASSUME NEW c \in Cursor, NEW p \in Procedure, OpenReleased(c, p) \/ FailOpen(c, p)
      PROVE  Contract!ContractNext
  <2>1. cursor' = [cursor EXCEPT ![c].state = "refused", ![c].of = p]
    BY <1>3 DEF OpenReleased, FailOpen
  <2> DEFINE k == [cursor EXCEPT ![c].state = "refused"]
  <2>2. cursor' = [k EXCEPT ![c].of = p] BY <2>1, Zenon
  <2>3. /\ DOMAIN k = Cursor /\ \A d \in Cursor \ {c} : k[d] = cursor[d]
        /\ DOMAIN k[c] = {"state", "of", "rows", "got"}
        /\ k[c].state = "refused" /\ k[c].rows = cursor[c].rows /\ k[c].got = cursor[c].got
    BY <1>1 DEF TypeOK
  <2> HIDE DEF k
  <2>4. /\ \A d \in Cursor \ {c} : cursor'[d] = cursor[d]
        /\ cursor'[c].state = "refused" /\ cursor'[c].rows = cursor[c].rows
        /\ cursor'[c].got = cursor[c].got
    BY <2>2, <2>3
  <2>5. state' = [state EXCEPT ![c] = "refused"] BY <2>4
  <2>6. rows' = rows /\ got' = got
    <3>1. \A d \in Cursor : cursor'[d].rows = cursor[d].rows /\ cursor'[d].got = cursor[d].got
      BY <2>4
    <3>2. rows' = rows BY <3>1
    <3>3. got' = got BY <3>1
    <3>4. QED BY <3>2, <3>3
  <2>7. state[c] = "new" BY <1>3 DEF OpenReleased, FailOpen, IsNext
  <2>8. Contract!Refuse(c) BY <2>5, <2>6, <2>7 DEF Contract!Refuse
  <2>9. QED BY <2>8 DEF Contract!ContractNext
<1>4. ASSUME NEW c \in Cursor, FetchFreed(c) \/ FailRow(c) \/ FailNext(c) \/ Close(c)
      PROVE  Contract!ContractNext
  <2>1. /\ cursor' = [cursor EXCEPT ![c].state = "closed"]
           \/ cursor' = [cursor EXCEPT ![c].state = "failed"]
        /\ state[c] = "open"
    BY <1>4 DEF FetchFreed, FailRow, FailNext, Close
  <2>2. state' \in {[state EXCEPT ![c] = "closed"], [state EXCEPT ![c] = "failed"]}
    BY <1>1, <2>1 DEF TypeOK
  <2>3. rows' = rows /\ got' = got
    <3>1. PICK s \in {"closed", "failed"} : cursor' = [cursor EXCEPT ![c].state = s]
      BY <2>1
    <3>2. \A d \in Cursor : cursor'[d].rows = cursor[d].rows /\ cursor'[d].got = cursor[d].got
      BY <1>1, <3>1 DEF TypeOK
    <3>3. rows' = rows BY <3>2
    <3>4. got' = got BY <3>2
    <3>5. QED BY <3>3, <3>4
  <2>4. Contract!Stop(c) BY <2>1, <2>2, <2>3 DEF Contract!Stop
  <2>5. QED BY <2>4 DEF Contract!ContractNext, Contract!ContractFetch
<1>5. ASSUME NEW c \in Cursor, FetchRow(c), cursor[c].of \notin overlapped
      PROVE  Contract!ContractNext
  <2>1. /\ state[c] = "open" /\ Reads(c).at < Reads(c).rows
        /\ cursor' = [cursor EXCEPT ![c].got =
                         Append(@, <<Reads(c).owner, Reads(c).at + 1>>)]
    BY <1>5 DEF FetchRow
  <2>2. Reads(c).owner = c /\ Reads(c).rows = rows[c] /\ Reads(c).at = Len(got[c])
    BY <1>5, <2>1 DEF IInv, ReadsItsOwn, State, Got
  <2> DEFINE g == Append(got[c], <<c, Len(got[c]) + 1>>)
  <2>3. cursor' = [cursor EXCEPT ![c].got = g] BY <2>1, <2>2
  <2> HIDE DEF g
  <2>4. got' = [got EXCEPT ![c] = g] BY <1>1, <2>3 DEF TypeOK
  <2>5. state' = state /\ rows' = rows BY <1>1, <2>3 DEF TypeOK
  <2>6. Contract!Row(c) BY <2>1, <2>2, <2>4, <2>5 DEF Contract!Row, g
  <2>7. QED BY <2>6 DEF Contract!ContractNext, Contract!ContractFetch
<1>6. ASSUME NEW c \in Cursor, FetchEnd(c), cursor[c].of \notin overlapped
      PROVE  Contract!ContractNext
  <2>1. /\ state[c] = "open" /\ Reads(c).at = Reads(c).rows
        /\ cursor' = [cursor EXCEPT ![c].state = "ended"]
    BY <1>6 DEF FetchEnd
  <2>2. Len(got[c]) = rows[c] BY <1>6, <2>1 DEF IInv, ReadsItsOwn, State, Got
  <2>3. state' = [state EXCEPT ![c] = "ended"] BY <1>1, <2>1 DEF TypeOK
  <2>4. rows' = rows /\ got' = got BY <1>1, <2>1 DEF TypeOK
  <2>5. Contract!End(c) BY <2>1, <2>2, <2>3, <2>4 DEF Contract!End
  <2>6. QED BY <2>5 DEF Contract!ContractNext, Contract!ContractFetch
<1>7. ASSUME NEW c \in Cursor, FetchRow(c) \/ FetchEnd(c), cursor[c].of \in overlapped
      PROVE  \/ \E d \in Cursor : cursor'[d] # cursor[d] /\ cursor'[d].of \in overlapped'
             \/ cursor' = cursor
  <2>1. overlapped' = overlapped BY <1>7 DEF FetchRow, FetchEnd
  <2>2. cursor'[c].of = cursor[c].of /\ \A d \in Cursor \ {c} : cursor'[d] = cursor[d]
    BY <1>1, <1>7 DEF TypeOK, FetchRow, FetchEnd
  <2>3. CASE cursor'[c] # cursor[c] BY <1>7, <2>1, <2>2, <2>3
  <2>4. CASE cursor'[c] = cursor[c]
    <3>1. cursor = [d \in Cursor |-> cursor[d]] /\ cursor' = [d \in Cursor |-> cursor'[d]]
      BY <1>1, <1>7 DEF TypeOK, FetchRow, FetchEnd
    <3>2. \A d \in Cursor : cursor'[d] = cursor[d] BY <2>2, <2>4
    <3>3. QED BY <3>1, <3>2, Zenon
  <2>5. QED BY <2>3, <2>4
<1>8. CASE ReleaseCatalog BY <1>8 DEF ReleaseCatalog
<1>9. QED BY <1>2, <1>3, <1>4, <1>5, <1>6, <1>7, <1>8 DEF Next, Fetch

\* The invariant holds however the cursors interleave.
THEOREM Inductive == Spec => []IInv
<1>1. QED BY InitIInv, StepKeepsIInv, PTL DEF Spec

\* Every variable has its type: the rows a cursor returned are rows of calls.
THEOREM TypeCorrect == Spec => []TypeOK
<1>1. IInv => TypeOK BY DEF IInv
<1>2. QED BY <1>1, Inductive, PTL

\* Only cursors that overlap on a procedure, or a released catalog, make the fetch of
\* ctlg.cpp use freed memory.
THEOREM FaultsAreKnown == Spec => []OnlyKnownFaults
<1>1. IInv => OnlyKnownFaults BY DEF IInv
<1>2. QED BY <1>1, Inductive, PTL

\* No row of a call is returned twice, through whichever cursors.
THEOREM ReturnedOnce == Spec => []RowsOnce
<1>1. IInv => RowsOnce BY DEF IInv
<1>2. QED BY <1>1, Inductive, PTL

\* The results left behind are as many as the cursors that were not read to their end.
THEOREM LeaksAreCounted == Spec => []LeakAccount
<1>1. IInv => LeakAccount BY DEF IInv
<1>2. QED BY <1>1, Inductive, PTL

\* A step of a cursor that overlaps no other of its procedure is a step the contract of
\* CursorContract allows.
THEOREM ImplementsContract == Spec => KeepsContract
<1>1. IInv /\ [Next]_vars =>
        [\/ Contract!ContractNext
         \/ \E c \in Cursor : cursor'[c] # cursor[c] /\ cursor'[c].of \in overlapped']_cursor
  BY StepKeepsContract DEF vars
<1>2. QED BY <1>1, Inductive, PTL DEF Spec, KeepsContract


-----------------------------------------------------------------------------
(* CatalogLists.                                                            *)

Names(c) == listing[c].got

\* A cursor that was opened is of a procedure, one that was not has returned nothing.
ListsOpened ==
    \A c \in Listing :
        /\ listing[c].state = "new" => Names(c) = <<>>
        /\ listing[c].state # "new" => listing[c].of \in ListProc

\* The iterator is in its list or at its end; a list with names is of a cursor that was
\* opened.
IteratorInList ==
    \A p \in ListProc :
        /\ names_it[p] <= names[p].rows
        /\ names[p].rows > 0 => names[p].owner \in Listing /\ listing[names[p].owner].state # "new"

\* The names returned are of cursors that were opened.
NamesOpened ==
    \A c \in Listing : \A i \in DOMAIN Names(c) : listing[Names(c)[i][1]].state # "new"

\* The schemas returned of a list that is still there are before its iterator.
SchemasPassed ==
    Schemas \in ListProc =>
        \A c \in Listing : \A i \in DOMAIN Names(c) :
            (listing[c].of = Schemas /\ names[Schemas].rows > 0
                 /\ Names(c)[i][1] = names[Schemas].owner)
               => Names(c)[i][2] <= names_it[Schemas]

\* The iterator of list_catalogs stays at the first name.
CatalogsStay == Catalogs \in ListProc => names_it[Catalogs] = 0

\* Where one cursor of list_catalogs was opened and no other, a name it returned is still
\* in its list, which it has not ended.
CatalogsAlone ==
    \A c \in Listing :
        (/\ listing[c].of = Catalogs /\ listing[c].state \in {"open", "ended"}
         /\ Names(c) # <<>>
         /\ \A d \in Listing \ {c} : listing[d].state # "new" => listing[d].of # Catalogs)
           => listing[c].state = "open" /\ names[Catalogs].rows > 0

\* The inductive invariant.
ListIInv ==
    /\ ListTypeOK /\ ListsOpened /\ IteratorInList /\ NamesOpened
    /\ SchemasPassed /\ CatalogsStay /\ CatalogsAlone /\ SchemasOnce

LEMMA ListTypes ==
    ASSUME ListTypeOK
    PROVE  /\ DOMAIN listing = Listing
           /\ \A c \in Listing :
                /\ listing[c].state \in {"new", "open", "ended", "closed", "refused"}
                /\ listing[c].of \in ListProc \cup {NoList}
                /\ Names(c) \in Seq(Listing \X (1 .. MaxName))
                /\ listing[c] \in Reading
           /\ \A p \in ListProc :
                /\ names[p].owner \in Listing \cup {NoList} /\ names[p].rows \in 0 .. MaxName
                /\ names[p] \in [owner : Listing \cup {NoList}, rows : 0 .. MaxName]
                /\ names_it[p] \in 0 .. MaxName
           /\ MaxName \in Nat /\ Catalogs # Schemas /\ NoList \notin Listing
           /\ \A p \in ListProc : p \in {Catalogs, Schemas}
BY ListsAssumption DEF ListTypeOK, Reading, Names, Catalogs, Schemas

LEMMA ListInitIInv == ListInit => ListIInv
<1>1. SUFFICES ASSUME ListInit PROVE ListIInv OBVIOUS
<1>2. MaxName \in Nat BY ListsAssumption
<1>3. /\ \A c \in Listing : /\ listing[c].state = "new" /\ listing[c].of = NoList
                            /\ listing[c].got = <<>>
      /\ \A p \in ListProc : names[p].rows = 0 /\ names_it[p] = 0
  BY <1>1 DEF ListInit
<1>4. <<>> \in Seq(Listing \X (1 .. MaxName)) OBVIOUS
<1>5. ListTypeOK BY <1>1, <1>2, <1>4 DEF ListInit, ListTypeOK, Reading
<1>6. DOMAIN <<>> = {} OBVIOUS
<1>7. QED
  BY <1>3, <1>5, <1>6
  DEF ListIInv, ListsOpened, IteratorInList, NamesOpened, SchemasPassed, CatalogsStay,
      CatalogsAlone, SchemasOnce, Names

\* A cursor changes its state and returns nothing, the lists stay: an open that fails and
\* a close.
LEMMA StateKeepsListIInv ==
    ASSUME ListIInv, NEW c \in Listing, NEW s \in {"ended", "closed", "refused"},
           NEW p \in ListProc,
           listing' = [listing EXCEPT ![c].state = s, ![c].of = p],
           \/ s = "refused" /\ listing[c].state = "new"
           \/ s = "closed" /\ listing[c].state = "open" /\ listing[c].of = p,
           UNCHANGED <<names, names_it>>, catalog' \in {"alive", "released", "used"}
    PROVE  ListIInv'
<1>1. ListTypeOK BY DEF ListIInv
<1>2. /\ \A d \in Listing : /\ Names(d)' = Names(d)
                            /\ d # c => listing'[d] = listing[d]
      /\ listing'[c].state = s /\ listing'[c].of = p
      /\ \A d \in Listing : listing[d].state # "new" => listing'[d].of = listing[d].of
      /\ \A d \in Listing : listing[d].state # "new" => listing'[d].state # "new"
  BY <1>1, ListTypes DEF Names
<1>3. ListTypeOK'
  <2>1. PICK r : r = [listing[c] EXCEPT !.state = s, !.of = p] OBVIOUS
  <2>2. r \in Reading BY <1>1, <2>1 DEF ListTypeOK, Reading
  <2>3. listing' = [listing EXCEPT ![c] = r] BY <2>1
  <2>4. QED BY <1>1, <2>2, <2>3 DEF ListTypeOK
<1>4. ListsOpened' BY <1>2, ListTypes, <1>1 DEF ListIInv, ListsOpened
<1>5. IteratorInList' BY <1>2 DEF ListIInv, IteratorInList
<1>6. NamesOpened'
  <2>1. \A d \in Listing : \A i \in DOMAIN Names(d) : Names(d)[i][1] \in Listing
    BY <1>1, ListTypes
  <2>2. SUFFICES ASSUME NEW d \in Listing, NEW i \in DOMAIN Names(d)
                 PROVE  listing'[Names(d)[i][1]].state # "new"
    BY <1>2 DEF NamesOpened
  <2>3. listing[Names(d)[i][1]].state # "new" BY DEF ListIInv, NamesOpened
  <2>4. QED BY <1>2, <2>1, <2>3
<1>7. \A d \in Listing : \A i \in DOMAIN Names(d) : listing'[d].of = listing[d].of
  <2>1. \A d \in Listing : \A i \in DOMAIN Names(d) : listing[d].state # "new"
    BY DEF ListIInv, ListsOpened
  <2>2. QED BY <1>2, <2>1
<1>8. SchemasPassed' BY <1>2, <1>7 DEF ListIInv, SchemasPassed
<1>9. CatalogsStay' BY DEF ListIInv, CatalogsStay
<1>10. CatalogsAlone'
  <2>1. SUFFICES ASSUME NEW e \in Listing, listing'[e].of = Catalogs,
                        listing'[e].state \in {"open", "ended"}, Names(e)' # <<>>,
                        \A d \in Listing \ {e} :
                            listing'[d].state # "new" => listing'[d].of # Catalogs
                 PROVE  listing'[e].state = "open" /\ names'[Catalogs].rows > 0
    BY DEF CatalogsAlone
  <2>2. e # c BY <1>2, <2>1
  <2>3. \A d \in Listing \ {e} : listing[d].state # "new" => listing[d].of # Catalogs
    BY <1>2, <2>1
  <2>4. QED BY <1>2, <2>1, <2>2, <2>3 DEF ListIInv, CatalogsAlone
<1>11. SchemasOnce'
  <2>1. SUFFICES ASSUME NEW d \in Listing, NEW e \in Listing, listing'[d].of = Schemas,
                        listing'[e].of = Schemas
                 PROVE  \A i \in DOMAIN listing'[d].got, j \in DOMAIN listing'[e].got :
                            listing'[d].got[i] = listing'[e].got[j] => d = e /\ i = j
    BY DEF SchemasOnce
  <2>2. listing'[d].got = Names(d) /\ listing'[e].got = Names(e) BY <1>2 DEF Names
  <2>3. \A i \in DOMAIN Names(d), j \in DOMAIN Names(e) :
            listing[d].of = Schemas /\ listing[e].of = Schemas
    BY <1>7, <2>1
  <2>4. QED BY <2>2, <2>3 DEF ListIInv, SchemasOnce, Names
<1>12. QED BY <1>3, <1>4, <1>5, <1>6, <1>8, <1>9, <1>10, <1>11 DEF ListIInv

LEMMA OpenListKeepsListIInv ==
    ASSUME ListIInv, NEW c \in Listing, NEW p \in ListProc, OpenList(c, p)
    PROVE  ListIInv'
<1>1. ListTypeOK BY DEF ListIInv
<1>2. PICK n \in 0 .. MaxName :
        /\ listing[c].state = "new"
        /\ listing' = [listing EXCEPT ![c].state = "open", ![c].of = p, ![c].rows = n]
        /\ names' = [names EXCEPT ![p] = [owner |-> c, rows |-> n]]
        /\ names_it' = [names_it EXCEPT ![p] = 0]
        /\ catalog' = catalog
  BY DEF OpenList
<1>3. /\ \A d \in Listing : /\ Names(d)' = Names(d)
                            /\ d # c => listing'[d] = listing[d]
      /\ listing'[c].state = "open" /\ listing'[c].of = p
      /\ Names(c) = <<>>
  BY <1>1, <1>2, ListTypes DEF Names, ListIInv, ListsOpened
<1>4. /\ names'[p].owner = c /\ names'[p].rows = n /\ names_it'[p] = 0
      /\ \A q \in ListProc : q # p => names'[q] = names[q] /\ names_it'[q] = names_it[q]
  BY <1>1, <1>2 DEF ListTypeOK
<1>5. ListTypeOK'
  <2>1. PICK r : r = [listing[c] EXCEPT !.state = "open", !.of = p, !.rows = n] OBVIOUS
  <2>2. r \in Reading BY <1>1, <2>1 DEF ListTypeOK, Reading
  <2>3. listing' = [listing EXCEPT ![c] = r] BY <1>2, <2>1
  <2>4. listing' \in [Listing -> Reading] BY <1>1, <2>2, <2>3 DEF ListTypeOK
  <2>5. 0 \in 0 .. MaxName BY ListsAssumption
  <2>6. QED BY <1>1, <1>2, <2>4, <2>5 DEF ListTypeOK
<1>6. ListsOpened' BY <1>3 DEF ListIInv, ListsOpened
<1>7. IteratorInList'
  <2>1. SUFFICES ASSUME NEW q \in ListProc
                 PROVE  /\ names_it'[q] <= names'[q].rows
                        /\ names'[q].rows > 0 => /\ names'[q].owner \in Listing
                                                /\ listing'[names'[q].owner].state # "new"
    BY DEF IteratorInList
  <2>2. CASE q = p BY <1>3, <1>4, <2>2
  <2>3. CASE q # p
    <3>1. names'[q] = names[q] /\ names_it'[q] = names_it[q] BY <1>4, <2>3
    <3>2. /\ names_it[q] <= names[q].rows
          /\ names[q].rows > 0 =>
                names[q].owner \in Listing /\ listing[names[q].owner].state # "new"
      BY DEF ListIInv, IteratorInList
    <3>3. QED BY <1>2, <1>3, <3>1, <3>2
  <2>4. QED BY <2>2, <2>3
<1>8. \A d \in Listing : \A i \in DOMAIN Names(d) :
        /\ d # c /\ Names(d)[i][1] \in Listing /\ Names(d)[i][1] # c
  <2>1. SUFFICES ASSUME NEW d \in Listing, NEW i \in DOMAIN Names(d)
                 PROVE  d # c /\ Names(d)[i][1] \in Listing /\ Names(d)[i][1] # c
    OBVIOUS
  <2>2. d # c BY <1>3
  <2>3. Names(d) \in Seq(Listing \X (1 .. MaxName)) BY <1>1, ListTypes
  <2>4. Names(d)[i] \in Listing \X (1 .. MaxName) BY <2>3
  <2>5. listing[Names(d)[i][1]].state # "new" BY DEF ListIInv, NamesOpened
  <2>6. QED BY <1>2, <2>2, <2>4, <2>5
<1>9. NamesOpened' BY <1>3, <1>8 DEF ListIInv, NamesOpened
<1>10. SchemasPassed'
  <2>1. SUFFICES ASSUME Schemas \in ListProc, NEW d \in Listing, NEW i \in DOMAIN Names(d),
                        listing'[d].of = Schemas, names'[Schemas].rows > 0,
                        Names(d)[i][1] = names'[Schemas].owner
                 PROVE  Names(d)[i][2] <= names_it'[Schemas]
    BY <1>3 DEF SchemasPassed
  <2>2. p # Schemas BY <1>4, <1>8, <2>1
  <2>3. QED BY <1>3, <1>4, <1>8, <2>1, <2>2 DEF ListIInv, SchemasPassed
<1>11. CatalogsStay' BY <1>4 DEF ListIInv, CatalogsStay
<1>12. CatalogsAlone'
  <2>1. SUFFICES ASSUME NEW e \in Listing, listing'[e].of = Catalogs,
                        listing'[e].state \in {"open", "ended"}, Names(e)' # <<>>,
                        \A d \in Listing \ {e} :
                            listing'[d].state # "new" => listing'[d].of # Catalogs
                 PROVE  listing'[e].state = "open" /\ names'[Catalogs].rows > 0
    BY DEF CatalogsAlone
  <2>2. e # c BY <1>3, <2>1
  <2>3. p # Catalogs BY <1>3, <2>1, <2>2
  <2>4. \A d \in Listing \ {e} : listing[d].state # "new" => listing[d].of # Catalogs
    BY <1>2, <1>3, <2>1
  <2>5. Catalogs \in ListProc BY <1>3, <2>1, <2>2 DEF ListIInv, ListsOpened
  <2>6. QED BY <1>3, <1>4, <2>1, <2>2, <2>3, <2>4, <2>5 DEF ListIInv, CatalogsAlone
<1>13. SchemasOnce'
  BY <1>3, <1>8 DEF ListIInv, SchemasOnce, Names
<1>14. QED BY <1>5, <1>6, <1>7, <1>9, <1>10, <1>11, <1>12, <1>13 DEF ListIInv

\* What a fetch that returns a name does.
LEMMA ReturnsName ==
    ASSUME ListIInv, NEW c \in Listing, NEW p \in ListProc,
           listing[c].state = "open", listing[c].of = p, ~AtEnd(p),
           listing' = [listing EXCEPT ![c].got = Append(@, Name(p))]
    PROVE  /\ \A d \in Listing : /\ listing'[d].state = listing[d].state
                                 /\ listing'[d].of = listing[d].of
                                 /\ d # c => Names(d)' = Names(d)
           /\ Names(c)' = Append(Names(c), Name(p))
           /\ DOMAIN Names(c)' = 1 .. Len(Names(c)) + 1 /\ Len(Names(c)) \in Nat
           /\ DOMAIN Names(c) = 1 .. Len(Names(c))
           /\ \A i \in DOMAIN Names(c) : Names(c)'[i] = Names(c)[i]
           /\ Names(c)'[Len(Names(c)) + 1] = Name(p)
           /\ names[p].rows > 0 /\ names[p].owner \in Listing
           /\ names_it[p] + 1 <= names[p].rows
           /\ Name(p) \in Listing \X (1 .. MaxName)
           /\ listing' \in [Listing -> Reading]
<1>1. ListTypeOK BY DEF ListIInv
<1>2. names_it[p] \in 0 .. MaxName /\ names[p].rows \in 0 .. MaxName /\ MaxName \in Nat
  BY <1>1, ListTypes
<1>3. names_it[p] <= names[p].rows /\ names_it[p] # names[p].rows
  BY DEF ListIInv, IteratorInList, AtEnd
<1>4. names[p].rows > 0 /\ names_it[p] + 1 <= names[p].rows BY <1>2, <1>3
<1>5. names[p].owner \in Listing BY <1>4 DEF ListIInv, IteratorInList
<1>6. Name(p) \in Listing \X (1 .. MaxName) BY <1>2, <1>4, <1>5 DEF Name
<1>7. Names(c) \in Seq(Listing \X (1 .. MaxName)) BY <1>1, ListTypes
<1>8. PICK nm \in Listing \X (1 .. MaxName) : nm = Name(p) BY <1>6
<1>9. /\ \A d \in Listing : /\ listing'[d].state = listing[d].state
                            /\ listing'[d].of = listing[d].of
                            /\ d # c => Names(d)' = Names(d)
      /\ Names(c)' = Append(Names(c), nm)
  BY <1>1, <1>8, ListTypes DEF Names
<1>10. Append(Names(c), nm) \in Seq(Listing \X (1 .. MaxName)) BY <1>7
<1>11. listing' \in [Listing -> Reading]
  <2>1. PICK r : r = [listing[c] EXCEPT !.got = Append(Names(c), nm)] OBVIOUS
  <2>2. r \in Reading BY <1>1, <1>10, <2>1 DEF ListTypeOK, Reading
  <2>3. listing' = [listing EXCEPT ![c] = r] BY <1>8, <2>1 DEF Names
  <2>4. QED BY <1>1, <2>2, <2>3 DEF ListTypeOK
<1>12. /\ DOMAIN Append(Names(c), nm) = 1 .. Len(Names(c)) + 1 /\ Len(Names(c)) \in Nat
       /\ DOMAIN Names(c) = 1 .. Len(Names(c))
       /\ \A i \in DOMAIN Names(c) : Append(Names(c), nm)[i] = Names(c)[i]
       /\ Append(Names(c), nm)[Len(Names(c)) + 1] = nm
  BY <1>7
<1>13. QED BY <1>4, <1>5, <1>6, <1>8, <1>9, <1>11, <1>12

LEMMA FetchCatalogKeepsListIInv ==
    ASSUME ListIInv, NEW c \in Listing, FetchCatalog(c)
    PROVE  ListIInv'
<1>1. ListTypeOK BY DEF ListIInv
<1>2. PICK p : p = Catalogs OBVIOUS
<1>3. /\ listing[c].state = "open" /\ listing[c].of = p /\ ~AtEnd(p)
      /\ listing' = [listing EXCEPT ![c].got = Append(@, Name(p))]
      /\ UNCHANGED <<names, names_it, catalog>>
  BY <1>2 DEF FetchCatalog
<1>4. p \in ListProc BY <1>3 DEF ListIInv, ListsOpened
<1>5. /\ \A d \in Listing : /\ listing'[d].state = listing[d].state
                            /\ listing'[d].of = listing[d].of
                            /\ d # c => Names(d)' = Names(d)
      /\ DOMAIN Names(c)' = 1 .. Len(Names(c)) + 1 /\ Len(Names(c)) \in Nat
      /\ DOMAIN Names(c) = 1 .. Len(Names(c))
      /\ \A i \in DOMAIN Names(c) : Names(c)'[i] = Names(c)[i]
      /\ Names(c)'[Len(Names(c)) + 1] = Name(p)
      /\ names[p].rows > 0 /\ names[p].owner \in Listing /\ listing' \in [Listing -> Reading]
  BY <1>3, <1>4, ReturnsName
<1>6. ListTypeOK' BY <1>1, <1>3, <1>5 DEF ListTypeOK
<1>7. ListsOpened'
  <2>1. listing[c].state # "new" BY <1>3
  <2>2. QED BY <1>5, <2>1 DEF ListIInv, ListsOpened
<1>8. IteratorInList' BY <1>3, <1>5 DEF ListIInv, IteratorInList
<1>9. \A d \in Listing : \A i \in DOMAIN Names(d)' :
        \/ i \in DOMAIN Names(d) /\ Names(d)'[i] = Names(d)[i]
        \/ d = c /\ Names(d)'[i] = Name(p)
  BY <1>5
<1>10. NamesOpened'
  <2>1. SUFFICES ASSUME NEW d \in Listing, NEW i \in DOMAIN Names(d)'
                 PROVE  listing'[Names(d)'[i][1]].state # "new"
    BY DEF NamesOpened
  <2>2. CASE i \in DOMAIN Names(d) /\ Names(d)'[i] = Names(d)[i]
    <3>1. listing[Names(d)[i][1]].state # "new" BY <2>2 DEF ListIInv, NamesOpened
    <3>2. Names(d)[i] \in Listing \X (1 .. MaxName) BY <1>1, <2>2, ListTypes
    <3>3. QED BY <1>5, <2>2, <3>1, <3>2
  <2>3. CASE Names(d)'[i] = Name(p)
    <3>1. Name(p)[1] = names[p].owner BY DEF Name
    <3>2. listing[names[p].owner].state # "new" BY <1>4, <1>5 DEF ListIInv, IteratorInList
    <3>3. QED BY <1>5, <2>3, <3>1, <3>2
  <2>4. QED BY <1>9, <2>2, <2>3
<1>11. Schemas # Catalogs BY DEF Schemas, Catalogs
<1>12. \A d \in Listing : listing'[d].of = Schemas => d # c /\ Names(d)' = Names(d)
  BY <1>2, <1>3, <1>5, <1>11
<1>13. SchemasPassed' BY <1>3, <1>5, <1>12 DEF ListIInv, SchemasPassed
<1>14. CatalogsStay' BY <1>3 DEF ListIInv, CatalogsStay
<1>15. CatalogsAlone'
  <2>1. SUFFICES ASSUME NEW e \in Listing, listing'[e].of = Catalogs,
                        listing'[e].state \in {"open", "ended"},
                        \A d \in Listing \ {e} :
                            listing'[d].state # "new" => listing'[d].of # Catalogs
                 PROVE  listing'[e].state = "open" /\ names'[Catalogs].rows > 0
    BY DEF CatalogsAlone
  <2>2. e = c BY <1>2, <1>3, <1>5, <2>1
  <2>3. QED BY <1>2, <1>3, <1>5, <2>2
<1>16. SchemasOnce'
  <2>0. \A d \in Listing : listing'[d].of = Schemas =>
            listing'[d].got = Names(d) /\ listing[d].of = Schemas
    BY <1>5, <1>12 DEF Names
  <2>1. SUFFICES ASSUME NEW d \in Listing, NEW e \in Listing, NEW i \in DOMAIN Names(d),
                        NEW j \in DOMAIN Names(e), listing[d].of = Schemas,
                        listing[e].of = Schemas, Names(d)[i] = Names(e)[j]
                 PROVE  d = e /\ i = j
    BY <2>0 DEF SchemasOnce
  <2>2. QED BY <2>1 DEF ListIInv, SchemasOnce, Names
<1>17. QED BY <1>6, <1>7, <1>8, <1>10, <1>13, <1>14, <1>15, <1>16 DEF ListIInv

LEMMA FetchSchemaKeepsListIInv ==
    ASSUME ListIInv, NEW c \in Listing, FetchSchema(c)
    PROVE  ListIInv'
<1>1. ListTypeOK BY DEF ListIInv
<1>2. PICK p : p = Schemas OBVIOUS
<1>3. /\ listing[c].state = "open" /\ listing[c].of = p /\ ~AtEnd(p)
      /\ listing' = [listing EXCEPT ![c].got = Append(@, Name(p))]
      /\ names' = names /\ names_it' = [names_it EXCEPT ![p] = @ + 1] /\ catalog' = catalog
  BY <1>2 DEF FetchSchema
<1>4. p \in ListProc BY <1>3 DEF ListIInv, ListsOpened
<1>5. /\ \A d \in Listing : /\ listing'[d].state = listing[d].state
                            /\ listing'[d].of = listing[d].of
                            /\ d # c => Names(d)' = Names(d)
      /\ DOMAIN Names(c)' = 1 .. Len(Names(c)) + 1 /\ Len(Names(c)) \in Nat
      /\ DOMAIN Names(c) = 1 .. Len(Names(c))
      /\ \A i \in DOMAIN Names(c) : Names(c)'[i] = Names(c)[i]
      /\ Names(c)'[Len(Names(c)) + 1] = Name(p)
      /\ names[p].rows > 0 /\ names[p].owner \in Listing /\ listing' \in [Listing -> Reading]
      /\ names_it[p] + 1 <= names[p].rows
  BY <1>3, <1>4, ReturnsName
<1>6. /\ names_it'[p] = names_it[p] + 1
      /\ \A q \in ListProc : q # p => names_it'[q] = names_it[q]
      /\ names_it[p] \in 0 .. MaxName /\ names[p].rows \in 0 .. MaxName /\ MaxName \in Nat
  BY <1>1, <1>3, <1>4, ListTypes DEF ListTypeOK
<1>7. ListTypeOK'
  <2>1. names_it[p] + 1 \in 0 .. MaxName BY <1>5, <1>6
  <2>2. QED BY <1>1, <1>3, <1>5, <2>1 DEF ListTypeOK
<1>8. ListsOpened'
  <2>1. listing[c].state # "new" BY <1>3
  <2>2. QED BY <1>5, <2>1 DEF ListIInv, ListsOpened
<1>9. IteratorInList' BY <1>3, <1>5, <1>6 DEF ListIInv, IteratorInList
<1>10. \A d \in Listing : \A i \in DOMAIN Names(d)' :
        \/ i \in DOMAIN Names(d) /\ Names(d)'[i] = Names(d)[i]
        \/ d = c /\ i = Len(Names(c)) + 1 /\ Names(d)'[i] = Name(p)
  BY <1>5
<1>11. NamesOpened'
  <2>1. SUFFICES ASSUME NEW d \in Listing, NEW i \in DOMAIN Names(d)'
                 PROVE  listing'[Names(d)'[i][1]].state # "new"
    BY DEF NamesOpened
  <2>2. CASE i \in DOMAIN Names(d) /\ Names(d)'[i] = Names(d)[i]
    <3>1. listing[Names(d)[i][1]].state # "new" BY <2>2 DEF ListIInv, NamesOpened
    <3>2. Names(d)[i] \in Listing \X (1 .. MaxName) BY <1>1, <2>2, ListTypes
    <3>3. QED BY <1>5, <2>2, <3>1, <3>2
  <2>3. CASE Names(d)'[i] = Name(p)
    <3>1. Name(p)[1] = names[p].owner BY DEF Name
    <3>2. listing[names[p].owner].state # "new" BY <1>4, <1>5 DEF ListIInv, IteratorInList
    <3>3. QED BY <1>5, <2>3, <3>1, <3>2
  <2>4. QED BY <1>10, <2>2, <2>3
<1>12. \A d \in Listing : \A i \in DOMAIN Names(d) :
        listing[d].of = p => Names(d)[i] # Name(p)
  <2>1. SUFFICES ASSUME NEW d \in Listing, NEW i \in DOMAIN Names(d), listing[d].of = p,
                        Names(d)[i] = Name(p)
                 PROVE  FALSE
    OBVIOUS
  <2>2. Names(d)[i][1] = names[p].owner /\ Names(d)[i][2] = names_it[p] + 1
    BY <2>1 DEF Name
  <2>3. Names(d)[i][2] <= names_it[p]
    BY <1>2, <1>4, <1>5, <2>1, <2>2 DEF ListIInv, SchemasPassed
  <2>4. QED BY <1>6, <2>2, <2>3
<1>13. SchemasPassed'
  <2>1. SUFFICES ASSUME NEW d \in Listing, NEW i \in DOMAIN Names(d)',
                        listing'[d].of = p, Names(d)'[i][1] = names[p].owner
                 PROVE  Names(d)'[i][2] <= names_it'[p]
    BY <1>2, <1>3 DEF SchemasPassed
  <2>2. CASE i \in DOMAIN Names(d) /\ Names(d)'[i] = Names(d)[i]
    <3>1. Names(d)[i] \in Listing \X (1 .. MaxName) BY <1>1, <2>2, ListTypes
    <3>2. Names(d)[i][2] \in 1 .. MaxName BY <3>1
    <3>3. Names(d)[i][2] <= names_it[p]
      BY <1>2, <1>4, <1>5, <2>1, <2>2 DEF ListIInv, SchemasPassed
    <3>4. QED BY <1>6, <2>2, <3>2, <3>3
  <2>3. CASE Names(d)'[i] = Name(p)
    BY <1>6, <2>3 DEF Name
  <2>4. QED BY <1>10, <2>2, <2>3
<1>14. Schemas # Catalogs BY DEF Schemas, Catalogs
<1>15. CatalogsStay' BY <1>2, <1>6, <1>14 DEF ListIInv, CatalogsStay
<1>16. CatalogsAlone'
  <2>1. \A d \in Listing : listing[d].of = Catalogs => Names(d)' = Names(d)
    BY <1>2, <1>3, <1>5, <1>14
  <2>2. QED BY <1>3, <1>5, <2>1 DEF ListIInv, CatalogsAlone
<1>17. SchemasOnce'
  <2>1. SUFFICES ASSUME NEW d \in Listing, NEW e \in Listing, NEW i \in DOMAIN Names(d)',
                        NEW j \in DOMAIN Names(e)', listing[d].of = p,
                        listing[e].of = p, Names(d)'[i] = Names(e)'[j]
                 PROVE  d = e /\ i = j
    BY <1>2, <1>5 DEF SchemasOnce, Names
  <2>2. CASE i \in DOMAIN Names(d) /\ Names(d)'[i] = Names(d)[i]
    <3>1. Names(d)'[i] # Name(p) BY <1>12, <2>1, <2>2
    <3>2. j \in DOMAIN Names(e) /\ Names(e)'[j] = Names(e)[j] BY <1>10, <2>1, <3>1
    <3>3. Names(d)[i] = Names(e)[j] BY <2>1, <2>2, <3>2
    <3>4. QED BY <1>2, <2>1, <2>2, <3>2, <3>3 DEF ListIInv, SchemasOnce, Names
  <2>3. CASE d = c /\ i = Len(Names(c)) + 1 /\ Names(d)'[i] = Name(p)
    <3>1. Names(e)'[j] = Name(p) BY <2>1, <2>3
    <3>2. e = c /\ j = Len(Names(c)) + 1 BY <1>10, <1>12, <2>1, <3>1
    <3>3. QED BY <2>3, <3>2
  <2>4. QED BY <1>10, <2>2, <2>3
<1>18. QED BY <1>7, <1>8, <1>9, <1>11, <1>13, <1>15, <1>16, <1>17 DEF ListIInv

LEMMA EndListKeepsListIInv ==
    ASSUME ListIInv, NEW c \in Listing, EndList(c)
    PROVE  ListIInv'
<1>1. ListTypeOK BY DEF ListIInv
<1>2. PICK p : p = listing[c].of OBVIOUS
<1>3. /\ listing[c].state = "open" /\ AtEnd(p)
      /\ listing' = [listing EXCEPT ![c].state = "ended"]
      /\ names' = [names EXCEPT ![p].rows = 0]
      /\ names_it' = [names_it EXCEPT ![p] = 0] /\ catalog' = catalog
  BY <1>2 DEF EndList
<1>4. p \in ListProc BY <1>2, <1>3 DEF ListIInv, ListsOpened
<1>5. /\ \A d \in Listing : /\ Names(d)' = Names(d) /\ listing'[d].got = Names(d)
                            /\ listing'[d].of = listing[d].of
                            /\ d # c => listing'[d].state = listing[d].state
      /\ listing'[c].state = "ended"
  BY <1>1, <1>3, ListTypes DEF Names
<1>6. /\ names'[p].rows = 0 /\ names_it'[p] = 0
      /\ \A q \in ListProc : q # p => names'[q] = names[q] /\ names_it'[q] = names_it[q]
  BY <1>1, <1>3, <1>4, ListTypes DEF ListTypeOK
<1>7. ListTypeOK'
  <2>1. PICK r : r = [listing[c] EXCEPT !.state = "ended"] OBVIOUS
  <2>2. r \in Reading BY <1>1, <2>1 DEF ListTypeOK, Reading
  <2>3. listing' = [listing EXCEPT ![c] = r] BY <1>3, <2>1
  <2>4. listing' \in [Listing -> Reading] BY <1>1, <2>2, <2>3 DEF ListTypeOK
  <2>5. 0 \in 0 .. MaxName BY ListsAssumption
  <2>6. PICK l : l = [names[p] EXCEPT !.rows = 0] OBVIOUS
  <2>7. l \in [owner : Listing \cup {NoList}, rows : 0 .. MaxName]
    BY <1>1, <1>4, <2>5, <2>6 DEF ListTypeOK
  <2>8. names' = [names EXCEPT ![p] = l] BY <1>3, <2>6
  <2>9. QED BY <1>1, <1>3, <2>4, <2>5, <2>7, <2>8 DEF ListTypeOK
<1>8. ListsOpened' BY <1>3, <1>5 DEF ListIInv, ListsOpened
<1>9. IteratorInList'
  <2>1. SUFFICES ASSUME NEW q \in ListProc
                 PROVE  /\ names_it'[q] <= names'[q].rows
                        /\ names'[q].rows > 0 => /\ names'[q].owner \in Listing
                                                /\ listing'[names'[q].owner].state # "new"
    BY DEF IteratorInList
  <2>2. CASE q = p BY <1>6, <2>2
  <2>3. CASE q # p
    <3>1. names'[q] = names[q] /\ names_it'[q] = names_it[q] BY <1>6, <2>3
    <3>2. /\ names_it[q] <= names[q].rows
          /\ names[q].rows > 0 =>
                names[q].owner \in Listing /\ listing[names[q].owner].state # "new"
      BY DEF ListIInv, IteratorInList
    <3>3. QED BY <1>5, <3>1, <3>2
  <2>4. QED BY <2>2, <2>3
<1>10. NamesOpened'
  <2>1. SUFFICES ASSUME NEW d \in Listing, NEW i \in DOMAIN Names(d)
                 PROVE  listing'[Names(d)[i][1]].state # "new"
    BY <1>5 DEF NamesOpened
  <2>2. listing[Names(d)[i][1]].state # "new" BY DEF ListIInv, NamesOpened
  <2>3. Names(d)[i] \in Listing \X (1 .. MaxName) BY <1>1, ListTypes
  <2>4. QED BY <1>5, <2>2, <2>3
<1>11. SchemasPassed'
  <2>1. SUFFICES ASSUME Schemas \in ListProc, NEW d \in Listing, NEW i \in DOMAIN Names(d),
                        listing[d].of = Schemas, names'[Schemas].rows > 0,
                        Names(d)[i][1] = names'[Schemas].owner
                 PROVE  Names(d)[i][2] <= names_it'[Schemas]
    BY <1>5 DEF SchemasPassed
  <2>2. p # Schemas BY <1>6, <2>1
  <2>3. QED BY <1>6, <2>1, <2>2 DEF ListIInv, SchemasPassed
<1>12. CatalogsStay' BY <1>6 DEF ListIInv, CatalogsStay
<1>13. CatalogsAlone'
  <2>1. SUFFICES ASSUME NEW e \in Listing, listing[e].of = Catalogs,
                        listing'[e].state \in {"open", "ended"}, Names(e) # <<>>,
                        \A d \in Listing \ {e} :
                            listing'[d].state # "new" => listing[d].of # Catalogs
                 PROVE  listing'[e].state = "open" /\ names'[Catalogs].rows > 0
    BY <1>5 DEF CatalogsAlone
  <2>2. \A d \in Listing \ {e} : listing[d].state # "new" => listing[d].of # Catalogs
    BY <1>5, <2>1
  <2>3. listing[e].state \in {"open", "ended"} BY <1>3, <1>5, <2>1
  <2>4. listing[e].state = "open" /\ names[Catalogs].rows > 0
    BY <2>1, <2>2, <2>3 DEF ListIInv, CatalogsAlone
  <2>5. CASE p = Catalogs
    <3>1. names_it[p] = 0 BY <1>4, <2>5 DEF ListIInv, CatalogsStay
    <3>2. names[p].rows = 0 BY <1>3, <3>1 DEF AtEnd
    <3>3. QED BY <2>4, <2>5, <3>2
  <2>6. CASE p # Catalogs
    <3>1. e # c BY <1>2, <2>1, <2>6
    <3>2. Catalogs \in ListProc BY <2>1, <2>4 DEF ListIInv, ListsOpened
    <3>3. QED BY <1>5, <1>6, <2>4, <2>6, <3>1, <3>2
  <2>7. QED BY <2>5, <2>6
<1>14. SchemasOnce'
  <2>1. SUFFICES ASSUME NEW d \in Listing, NEW e \in Listing, NEW i \in DOMAIN Names(d),
                        NEW j \in DOMAIN Names(e), listing[d].of = Schemas,
                        listing[e].of = Schemas, Names(d)[i] = Names(e)[j]
                 PROVE  d = e /\ i = j
    BY <1>5 DEF SchemasOnce
  <2>2. QED BY <2>1 DEF ListIInv, SchemasOnce, Names
<1>15. QED BY <1>7, <1>8, <1>9, <1>10, <1>11, <1>12, <1>13, <1>14 DEF ListIInv

LEMMA ListStepKeepsIInv == ListIInv /\ [ListNext]_listVars => ListIInv'
<1>1. SUFFICES ASSUME ListIInv, [ListNext]_listVars PROVE ListIInv' OBVIOUS
<1>2. CASE UNCHANGED listVars
  BY <1>1, <1>2
  DEF listVars, ListIInv, ListTypeOK, ListsOpened, IteratorInList, NamesOpened, SchemasPassed,
      CatalogsStay, CatalogsAlone, SchemasOnce, Names
<1>0. catalog \in {"alive", "released", "used"} BY <1>1 DEF ListIInv, ListTypeOK
<1>3. ASSUME NEW c \in Listing, NEW p \in ListProc,
             FailOpenList(c, p) \/ OpenListReleased(c, p)
      PROVE  ListIInv'
  <2>1. /\ listing[c].state = "new"
        /\ listing' = [listing EXCEPT ![c].state = "refused", ![c].of = p]
        /\ UNCHANGED <<names, names_it>> /\ catalog' \in {"alive", "released", "used"}
    BY <1>0, <1>3 DEF FailOpenList, OpenListReleased
  <2>2. QED BY <1>1, <2>1, StateKeepsListIInv
<1>4. ASSUME NEW c \in Listing, CloseList(c) PROVE ListIInv'
  <2>1. PICK p : p = listing[c].of OBVIOUS
  <2>2. p \in ListProc /\ listing[c].state = "open"
    BY <1>1, <1>4, <2>1 DEF CloseList, ListIInv, ListsOpened
  <2>3. listing' = [listing EXCEPT ![c].state = "closed", ![c].of = p]
    <3>1. listing \in [Listing -> Reading] /\ listing[c] \in Reading
      BY <1>1 DEF ListIInv, ListTypeOK
    <3>2. [listing[c] EXCEPT !.state = "closed"] = [listing[c] EXCEPT !.state = "closed", !.of = p]
      BY <2>1, <3>1 DEF Reading
    <3>3. QED BY <1>4, <3>1, <3>2 DEF CloseList
  <2>4. QED BY <1>0, <1>1, <1>4, <2>1, <2>2, <2>3, StateKeepsListIInv DEF CloseList
<1>5. CASE ReleaseListed
  BY <1>1, <1>5
  DEF ReleaseListed, ListIInv, ListTypeOK, ListsOpened, IteratorInList, NamesOpened,
      SchemasPassed, CatalogsStay, CatalogsAlone, SchemasOnce, Names
<1>6. QED
  BY <1>1, <1>2, <1>3, <1>4, <1>5, OpenListKeepsListIInv, FetchCatalogKeepsListIInv,
     FetchSchemaKeepsListIInv, EndListKeepsListIInv
  DEF ListNext, FetchName

THEOREM ListInductive == ListSpec => []ListIInv
<1>1. QED BY ListInitIInv, ListStepKeepsIInv, PTL DEF ListSpec

\* The two list procedures keep their types for any number of cursors and names.
THEOREM ListTypeCorrect == ListSpec => []ListTypeOK
<1>1. ListIInv => ListTypeOK BY DEF ListIInv
<1>2. QED BY <1>1, ListInductive, PTL

\* However cursors of list_schemas overlap, no name of a call is returned twice.
THEOREM SchemasComeOnce == ListSpec => []SchemasOnce
<1>1. ListIInv => SchemasOnce BY DEF ListIInv
<1>2. QED BY <1>1, ListInductive, PTL

\* The only cursor there was of list_catalogs does not end once it has returned a name.
THEOREM CatalogsDoNotEnd == ListSpec => []CatalogsEndEmpty
<1>1. ListIInv => CatalogsEndEmpty
  BY DEF ListIInv, CatalogsAlone, CatalogsEndEmpty, Names
<1>2. QED BY <1>1, ListInductive, PTL
=============================================================================
