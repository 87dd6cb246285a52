------------------------- MODULE TransactionsProofs -------------------------
(***************************************************************************)
(* Proofs about Transactions, for any number of transaction objects and    *)
(* executions and whatever the driver refuses: nanodbc's count is right,   *)
(* the link comes to rest in autocommit, and what a transaction told its   *)
(* caller is true of the work executed under it, but for the named causes. *)
(***************************************************************************)
EXTENDS Transactions, FiniteSetTheorems, TLAPS

Open == live \ committed

\* What the last call on a transaction answered is the state it is in.
ToldIsState ==
    \A t \in Tnx :
        /\ t \in Open <=> told[t] = "open"
        /\ t \in committed <=> told[t] = "refused"
        /\ told[t] = "refused" => t \in odd.refused

UnderHasBegun == \A w \in Work : \A t \in under[w] : told[t] # "none"

OverlapIsKnown == \A t, u \in live : t # u => t \in odd.overlap

\* Autocommit is off under an open transaction, unless it does not manage the link.
OpenIsManual == \A t \in Open : t \in odd.unmanaged \/ ~db.auto

NoLinkNoWork == ~connected => db.pending = {}

Odd(t) == t \in odd.overlap \cup odd.refused

\* Work that is lost, or that may yet be, was not under a transaction that promised
\* to keep it, the odd ones excepted.
Kept ==
    /\ \A w \in db.lost : \A t \in under[w] :
          told[t] \in {"open", "refused", "committed"} => Odd(t)
    /\ \A w \in db.pending : \A t \in under[w] : told[t] = "committed" => Odd(t)

\* Work that is durable, or that may yet be, was not under a transaction that promised
\* to undo it, the odd and the refused ones excepted.
Gone ==
    /\ \A w \in db.durable : \A t \in under[w] :
          told[t] \in {"open", "rolled back"} =>
              w \in db.spared \/ Odd(t) \/ t \in odd.unmanaged
    /\ \A w \in db.pending : \A t \in under[w] :
          told[t] = "rolled back" => w \in db.spared \/ Odd(t) \/ t \in odd.unmanaged

\* The inductive invariant.
IInv ==
    /\ TypeOK /\ ToldIsState /\ UnderHasBegun /\ OverlapIsKnown /\ OpenIsManual
    /\ NoLinkNoWork /\ Kept /\ Gone /\ CountIsOpen /\ AtRest

-----------------------------------------------------------------------------
(* The database.                                                            *)

\* What may become of d when its last transaction has gone, if it has.
Settles(d, e) ==
    /\ e \in Database /\ e.count = d.count
    /\ IF d.count # 0 \/ ~connected
       THEN e = d
       ELSE /\ e.pending \subseteq d.pending
            /\ e.durable \subseteq d.durable \cup d.pending
            /\ e.lost \subseteq d.lost \cup d.pending
            /\ d.spared \subseteq e.spared
            /\ d.flag => e.pending \cup e.durable \subseteq d.durable \cup e.spared
            /\ e.manual \/ (e.auto /\ e.pending = {})

LEMMA RolledBackOutcome ==
    ASSUME NEW d \in Database, NEW e \in RolledBack(d)
    PROVE  /\ e \in Database /\ e.count = d.count
           /\ e.pending \subseteq d.pending /\ e.durable = d.durable
           /\ e.lost \subseteq d.lost \cup d.pending
           /\ d.spared \cup e.pending \subseteq e.spared
<1>1. CASE e = [d EXCEPT !.pending = {}, !.lost = @ \cup d.pending, !.flag = FALSE]
  BY <1>1 DEF Database
<1>2. CASE e = [d EXCEPT !.spared = @ \cup d.pending, !.flag = FALSE]
  BY <1>2 DEF Database
<1>3. QED BY <1>1, <1>2 DEF RolledBack

LEMMA TurnedOnOutcome ==
    ASSUME NEW d \in Database, NEW e \in TurnedOn(d)
    PROVE  /\ e \in Database /\ e.count = d.count
           /\ e.pending \subseteq d.pending
           /\ e.durable \subseteq d.durable \cup d.pending
           /\ e.lost = d.lost /\ e.spared = d.spared
           /\ e.manual \/ (e.auto /\ e.pending = {})
<1>1. CASE e = [Fresh(d) EXCEPT !.pending = {}, !.durable = @ \cup d.pending]
  <2> DEFINE f == Fresh(d)
  <2>1. /\ f \in Database /\ f.count = d.count /\ f.pending = d.pending /\ f.auto = TRUE
        /\ f.durable = d.durable /\ f.lost = d.lost /\ f.spared = d.spared
    BY DEF Fresh, Database
  <2> HIDE DEF f
  <2>2. e = [f EXCEPT !.pending = {}, !.durable = @ \cup d.pending] BY <1>1 DEF f
  <2>3. QED BY <2>1, <2>2 DEF Database
<1>2. CASE e = [d EXCEPT !.manual = TRUE] BY <1>2 DEF Database
<1>3. QED BY <1>1, <1>2 DEF TurnedOn

LEMMA SettledSettles ==
    ASSUME NEW d \in Database, NEW e \in Settled(d)
    PROVE  Settles(d, e)
<1>1. CASE d.count # 0 \/ ~connected BY <1>1 DEF Settled, Settles
<1>2. CASE ~(d.count # 0 \/ ~connected)
  <2>1. PICK c \in IF d.flag THEN RolledBack(d) ELSE {d} : e \in TurnedOn(c)
    BY <1>2 DEF Settled
  <2>2. CASE d.flag
    <3>1. c \in RolledBack(d) BY <2>1, <2>2
    <3>2. /\ c \in Database /\ c.count = d.count
          /\ c.pending \subseteq d.pending /\ c.durable = d.durable
          /\ c.lost \subseteq d.lost \cup d.pending
          /\ d.spared \cup c.pending \subseteq c.spared
      BY <3>1, RolledBackOutcome
    <3>3. /\ e \in Database /\ e.count = c.count
          /\ e.pending \subseteq c.pending
          /\ e.durable \subseteq c.durable \cup c.pending
          /\ e.lost = c.lost /\ e.spared = c.spared
          /\ e.manual \/ (e.auto /\ e.pending = {})
      BY <2>1, <3>2, TurnedOnOutcome
    <3>4. QED BY <1>2, <3>2, <3>3 DEF Settles
  <2>3. CASE ~d.flag
    <3>1. e \in TurnedOn(d) BY <2>1, <2>3
    <3>2. QED BY <1>2, <2>3, <3>1, TurnedOnOutcome DEF Settles
  <2>4. QED BY <2>2, <2>3
<1>3. QED BY <1>1, <1>2

\* The parts of commit and of a transaction's end, field by field.
LEMMA UnreferencedFields ==
    ASSUME NEW d \in Database
    PROVE  LET e == Unreferenced(d)
           IN  /\ e \in Database /\ e.count = IF d.count > 0 THEN d.count - 1 ELSE 0
               /\ e.flag = d.flag /\ e.auto = d.auto /\ e.pending = d.pending
               /\ e.durable = d.durable /\ e.lost = d.lost /\ e.spared = d.spared
               /\ e.manual = d.manual
BY DEF Unreferenced, Database

LEMMA AbandonedFields ==
    ASSUME NEW d \in Database
    PROVE  LET e == [Unreferenced(d) EXCEPT !.flag = TRUE]
           IN  /\ e \in Database /\ e.count = IF d.count > 0 THEN d.count - 1 ELSE 0
               /\ e.flag = TRUE /\ e.auto = d.auto /\ e.pending = d.pending
               /\ e.durable = d.durable /\ e.lost = d.lost /\ e.spared = d.spared
               /\ e.manual = d.manual
<1> DEFINE u == Unreferenced(d)
<1>1. /\ u \in Database /\ u.count = (IF d.count > 0 THEN d.count - 1 ELSE 0)
      /\ u.auto = d.auto /\ u.pending = d.pending /\ u.manual = d.manual
      /\ u.durable = d.durable /\ u.lost = d.lost /\ u.spared = d.spared
  BY UnreferencedFields
<1> HIDE DEF u
<1>2. LET e == [u EXCEPT !.flag = TRUE]
      IN  /\ e \in Database /\ e.count = u.count /\ e.flag = TRUE /\ e.auto = u.auto
          /\ e.pending = u.pending /\ e.durable = u.durable /\ e.lost = u.lost
          /\ e.spared = u.spared /\ e.manual = u.manual
  BY <1>1 DEF Database
<1>3. QED BY <1>1, <1>2 DEF u

LEMMA CommittedFields ==
    ASSUME NEW d \in Database
    PROVE  LET e == Committed(d)
           IN  /\ e \in Database /\ e.count = IF d.count > 0 THEN d.count - 1 ELSE 0
               /\ e.flag = d.flag /\ e.auto = d.auto /\ e.manual = d.manual
               /\ e.pending = IF Asks(d) THEN {} ELSE d.pending
               /\ e.durable = IF Asks(d) THEN d.durable \cup d.pending ELSE d.durable
               /\ e.lost = d.lost /\ e.spared = d.spared
<1> DEFINE u == Unreferenced(d)
<1>1. /\ u \in Database /\ u.count = (IF d.count > 0 THEN d.count - 1 ELSE 0)
      /\ u.flag = d.flag /\ u.auto = d.auto /\ u.pending = d.pending /\ u.manual = d.manual
      /\ u.durable = d.durable /\ u.lost = d.lost /\ u.spared = d.spared
  BY UnreferencedFields
<1> HIDE DEF u
<1>2. Committed(d) = IF Asks(d) THEN [u EXCEPT !.pending = {}, !.durable = @ \cup d.pending]
                     ELSE u
  BY DEF Committed, u
<1>3. CASE Asks(d)
  <2>1. d.pending \in SUBSET Work BY DEF Database
  <2>2. QED BY <1>1, <1>2, <1>3, <2>1 DEF Database
<1>4. CASE ~Asks(d) BY <1>1, <1>2, <1>4
<1>5. QED BY <1>3, <1>4

LEMMA RefusedFields ==
    ASSUME NEW d \in Database, NEW e \in CommitRefused(d)
    PROVE  /\ e \in Database /\ e.count = IF d.count > 0 THEN d.count - 1 ELSE 0
           /\ e.auto = d.auto /\ e.manual = d.manual /\ e.pending \subseteq d.pending
           /\ e.durable = d.durable /\ e.lost \subseteq d.lost \cup d.pending
           /\ e.spared = d.spared
<1> DEFINE u == Unreferenced(d)
<1>1. /\ u \in Database /\ u.count = (IF d.count > 0 THEN d.count - 1 ELSE 0)
      /\ u.auto = d.auto /\ u.pending = d.pending /\ u.manual = d.manual
      /\ u.durable = d.durable /\ u.lost = d.lost /\ u.spared = d.spared
  BY UnreferencedFields
<1> HIDE DEF u
<1>2. e = u \/ e = [u EXCEPT !.pending = {}, !.lost = @ \cup d.pending]
  BY DEF CommitRefused, u
<1>3. d.pending \in SUBSET Work BY DEF Database
<1>4. CASE e = u BY <1>1, <1>4
<1>5. CASE e = [u EXCEPT !.pending = {}, !.lost = @ \cup d.pending]
  BY <1>1, <1>3, <1>5 DEF Database
<1>6. QED BY <1>2, <1>4, <1>5

LEMMA ReferencedFields ==
    ASSUME NEW d \in Database
    PROVE  LET e == Referenced(d)
           IN  /\ e \in Database /\ e.count = d.count + 1
               /\ e.auto = (IF d.count = 0 /\ connected THEN FALSE ELSE d.auto)
               /\ e.flag = d.flag /\ e.pending = d.pending /\ e.manual = d.manual
               /\ e.durable = d.durable /\ e.lost = d.lost /\ e.spared = d.spared
<1> DEFINE n == d.count + 1
           off == IF d.count = 0 /\ connected THEN FALSE ELSE d.auto
           c == [d EXCEPT !.count = n]
<1>1. n \in Nat /\ off \in BOOLEAN
  <2>1. d.auto \in BOOLEAN /\ n \in Nat BY DEF Database
  <2>2. off = FALSE \/ off = d.auto BY Zenon
  <2>3. QED BY <2>1, <2>2, Zenon
<1>2. Referenced(d) = [c EXCEPT !.auto = off]
  BY Zenon DEF Referenced, Database
<1> HIDE DEF off
<1>3. /\ c \in Database /\ c.count = n
      /\ c.flag = d.flag /\ c.pending = d.pending /\ c.manual = d.manual
      /\ c.durable = d.durable /\ c.lost = d.lost /\ c.spared = d.spared
  BY <1>1 DEF Database
<1> HIDE DEF c, n
<1>4. LET e == [c EXCEPT !.auto = off]
      IN  /\ e \in Database /\ e.count = c.count /\ e.auto = off
          /\ e.flag = c.flag /\ e.pending = c.pending /\ e.manual = c.manual
          /\ e.durable = c.durable /\ e.lost = c.lost /\ e.spared = c.spared
  BY <1>1, <1>3 DEF Database
<1>5. QED BY <1>2, <1>3, <1>4 DEF n, off

LEMMA WorkedFields ==
    ASSUME NEW d \in Database, NEW w \in Work
    PROVE  LET e == Worked(d, w)
           IN  /\ e \in Database /\ e.count = d.count /\ e.auto = d.auto /\ e.flag = d.flag
               /\ e.manual = d.manual /\ e.lost = d.lost /\ e.spared = d.spared
               /\ e.pending = IF d.auto THEN d.pending ELSE d.pending \cup {w}
               /\ e.durable = IF d.auto THEN d.durable \cup {w} ELSE d.durable
BY DEF Worked, Database

-----------------------------------------------------------------------------
(* The transactions.                                                        *)

\* The open transactions are counted: one that goes makes the count one less, and the
\* last makes it zero.
LEMMA OpenCount ==
    ASSUME IInv
    PROVE  /\ IsFiniteSet(Open) /\ db.count = Cardinality(Open) /\ db.count \in Nat
           /\ db.count = 0 <=> Open = {}
           /\ \A t \in Open :
                 /\ db.count > 0 /\ Cardinality(Open \ {t}) = db.count - 1
                 /\ db.count <= 1 <=> Open = {t}
<1>1. IsFiniteSet(Open)
  BY TransactionsAssumption, FS_Subset DEF IInv, TypeOK, Open
<1>2. db.count = Cardinality(Open) /\ db.count \in Nat
  BY <1>1, FS_CardinalityType DEF IInv, CountIsOpen, Open
<1>3. db.count = 0 <=> Open = {} BY <1>1, <1>2, FS_EmptySet
<1>4. ASSUME NEW t \in Open
      PROVE  /\ db.count > 0 /\ Cardinality(Open \ {t}) = db.count - 1
             /\ db.count <= 1 <=> Open = {t}
  <2>1. Cardinality(Open \ {t}) = db.count - 1 /\ IsFiniteSet(Open \ {t})
    BY <1>1, <1>2, FS_RemoveElement
  <2>2. db.count # 0 BY <1>3
  <2>3. db.count - 1 = 0 <=> Open \ {t} = {} BY <2>1, FS_EmptySet
  <2>4. QED BY <1>2, <2>1, <2>2, <2>3
<1>5. QED BY <1>1, <1>2, <1>3, <1>4

\* A transaction ends, by commit_, rollback_ or release_: d is what the call makes of
\* the database before it looks whether this was the last one.
LEMMA EndKeepsIInv ==
    ASSUME IInv, NEW t \in live, NEW d \in Database, Settles(d, db'),
           NEW answer \in {"committed", "rolled back", "released"},
           live' = live \ {t}, committed' = committed \ {t},
           told' = [told EXCEPT ![t] = answer], UNCHANGED <<connected, under, odd>>,
           \/ t \in committed /\ d = db
           \/ t \notin committed /\ answer = "committed" /\ d = Committed(db)
           \/ /\ t \notin committed /\ answer \in {"rolled back", "released"}
              /\ d = [Unreferenced(db) EXCEPT !.flag = TRUE]
    PROVE  IInv'
<1> DEFINE Asked == t \notin committed /\ answer = "committed" /\ Asks(db)
           Left == Open \ {t}
<1>1. /\ db \in Database /\ committed \subseteq live /\ live \subseteq Tnx
      /\ told \in [Tnx -> {"none", "open", "committed", "refused", "rolled back", "released"}]
      /\ connected \in BOOLEAN /\ under \in [Work -> SUBSET Tnx]
  BY DEF IInv, TypeOK
<1>2. Open' = Left /\ \A u \in Tnx : told'[u] = IF u = t THEN answer ELSE told[u]
  BY <1>1 DEF Open
<1>3. t \in Open <=> t \notin committed BY DEF Open
<1>4. /\ d.count = Cardinality(Left) /\ d.auto = db.auto
      /\ d.lost = db.lost /\ d.spared = db.spared
      /\ d.pending = (IF Asked THEN {} ELSE db.pending)
      /\ d.durable = (IF Asked THEN db.durable \cup db.pending ELSE db.durable)
  <2>1. CASE t \in committed /\ d = db
    <3>1. Left = Open BY <2>1, <1>3
    <3>2. QED BY <2>1, <3>1, OpenCount
  <2>2. CASE t \notin committed /\ answer = "committed" /\ d = Committed(db)
    <3>1. db.count > 0 /\ Cardinality(Left) = db.count - 1 BY <1>3, <2>2, OpenCount
    <3>2. QED BY <1>1, <2>2, <3>1, CommittedFields
  <2>3. CASE /\ t \notin committed /\ answer \in {"rolled back", "released"}
             /\ d = [Unreferenced(db) EXCEPT !.flag = TRUE]
    <3>1. db.count > 0 /\ Cardinality(Left) = db.count - 1 BY <1>3, <2>3, OpenCount
    <3>2. QED BY <1>1, <2>3, <3>1, AbandonedFields
  <2>4. QED BY <2>1, <2>2, <2>3
<1>5. d.count = 0 <=> Left = {}
  <2>1. IsFiniteSet(Left) BY OpenCount, FS_RemoveElement
  <2>2. QED BY <1>4, <2>1, FS_EmptySet
<1>6. Asked => Left = {} BY <1>3, OpenCount DEF Asks
<1>7. t \notin committed /\ answer # "committed" => d.flag = TRUE
  BY <1>1, AbandonedFields
<1>8. t \in committed => Odd(t) BY <1>1 DEF IInv, ToldIsState, Odd
<1>9. Left # {} /\ t \notin committed => Odd(t)
  BY DEF IInv, OverlapIsKnown, Open, Odd
<1>10. db'.count = d.count /\ db' \in Database BY DEF Settles
<1>11. CASE Left # {} \/ ~connected
  <2>1. db' = d BY <1>5, <1>11 DEF Settles
  <2>2. TypeOK' BY <1>1, <1>10 DEF IInv, TypeOK
  <2>3. ToldIsState' BY <1>1, <1>2 DEF IInv, ToldIsState, Open
  <2>4. UnderHasBegun' BY <1>1, <1>2 DEF IInv, UnderHasBegun
  <2>5. OverlapIsKnown' BY DEF IInv, OverlapIsKnown
  <2>6. OpenIsManual' BY <1>2, <1>4, <2>1 DEF IInv, OpenIsManual
  <2>7. NoLinkNoWork' BY <1>4, <2>1 DEF IInv, NoLinkNoWork
  <2>8. CountIsOpen' BY <1>2, <1>4, <2>1 DEF CountIsOpen, Open
  <2>9. AtRest' BY <1>2, <1>11 DEF AtRest, Open
  <2>10. db.pending # {} => connected BY DEF IInv, NoLinkNoWork
  <2>11. Kept'
    <3>1. ASSUME NEW w \in db'.lost, NEW u \in under[w],
                 told'[u] \in {"open", "refused", "committed"}
          PROVE  Odd(u)
      BY <1>1, <1>2, <1>4, <1>8, <2>1, <3>1 DEF IInv, Kept, ToldIsState, Open, Database
    <3>2. ASSUME NEW w \in db'.pending, NEW u \in under[w], told'[u] = "committed"
          PROVE  Odd(u)
      BY <1>1, <1>2, <1>4, <1>8, <1>9, <1>11, <2>1, <2>10, <3>2 DEF IInv, Kept, Database
    <3>3. QED BY <3>1, <3>2 DEF Kept, Odd
  <2>12. Gone'
    <3>1. ASSUME NEW w \in db'.durable, NEW u \in under[w], told'[u] \in {"open", "rolled back"}
          PROVE  w \in db'.spared \/ Odd(u) \/ u \in odd.unmanaged
      <4>1. w \in db.durable
        BY <1>4, <1>6, <1>11, <2>1, <2>10 DEF Asks
      <4>2. w \in Work /\ u \in Tnx BY <1>1, <4>1 DEF Database
      <4>3. CASE u = t
        <5>1. told[t] = "open" \/ Odd(t) BY <1>1, <1>3, <1>8 DEF IInv, ToldIsState
        <5>2. QED BY <1>4, <2>1, <4>1, <4>3, <5>1 DEF IInv, Gone
      <4>4. CASE u # t BY <1>2, <1>4, <2>1, <3>1, <4>1, <4>2, <4>4 DEF IInv, Gone
      <4>5. QED BY <4>3, <4>4
    <3>2. ASSUME NEW w \in db'.pending, NEW u \in under[w], told'[u] = "rolled back"
          PROVE  w \in db'.spared \/ Odd(u) \/ u \in odd.unmanaged
      <4>1. w \in db.pending /\ w \in Work /\ u \in Tnx
        BY <1>1, <1>4, <2>1 DEF Database
      <4>2. CASE u = t BY <1>8, <1>9, <1>11, <2>10, <4>1, <4>2
      <4>3. CASE u # t BY <1>2, <1>4, <2>1, <3>2, <4>1, <4>3 DEF IInv, Gone
      <4>4. QED BY <4>2, <4>3
    <3>3. QED BY <3>1, <3>2 DEF Gone, Odd
  <2>13. QED BY <2>2, <2>3, <2>4, <2>5, <2>6, <2>7, <2>8, <2>9, <2>11, <2>12 DEF IInv
<1>12. CASE Left = {} /\ connected
  <2>1. /\ db'.pending \subseteq d.pending
        /\ db'.durable \subseteq d.durable \cup d.pending
        /\ db'.lost \subseteq d.lost \cup d.pending
        /\ d.spared \subseteq db'.spared
        /\ d.flag => db'.pending \cup db'.durable \subseteq d.durable \cup db'.spared
        /\ db'.manual \/ (db'.auto /\ db'.pending = {})
    BY <1>5, <1>12 DEF Settles
  <2>2. TypeOK' BY <1>1, <1>10 DEF IInv, TypeOK
  <2>3. ToldIsState' BY <1>1, <1>2 DEF IInv, ToldIsState, Open
  <2>4. UnderHasBegun' BY <1>1, <1>2 DEF IInv, UnderHasBegun
  <2>5. OverlapIsKnown' BY DEF IInv, OverlapIsKnown
  <2>6. OpenIsManual' BY <1>2, <1>12 DEF OpenIsManual
  <2>7. NoLinkNoWork' BY <1>12 DEF NoLinkNoWork
  <2>8. CountIsOpen' BY <1>2, <1>4, <1>10 DEF CountIsOpen, Open
  <2>9. AtRest' BY <2>1 DEF AtRest
  <2>10. \A u \in Tnx : u # t => told[u] # "open" BY <1>12 DEF IInv, ToldIsState
  <2>11. /\ db'.lost \subseteq db.lost \cup d.pending /\ d.pending \subseteq db.pending
         /\ db'.pending \subseteq d.pending
         /\ db'.durable \subseteq db.durable \cup db.pending
         /\ db.spared \subseteq db'.spared
         /\ db.pending \subseteq Work /\ db.lost \subseteq Work /\ db.durable \subseteq Work
    BY <1>1, <1>4, <2>1 DEF Database
  <2>12. told[t] \in {"open", "refused"} /\ (told[t] = "refused" => Odd(t))
    BY <1>1, <1>3, <1>8 DEF IInv, ToldIsState
  <2>13. answer = "committed" /\ d.pending # {} => Odd(t)
    <3>1. t \notin committed => db.count <= 1 BY <1>3, <1>12, OpenCount
    <3>2. QED BY <1>4, <1>8, <1>12, <3>1 DEF Asks
  <2>14. Kept'
    <3>1. ASSUME NEW w \in db'.lost, NEW u \in under[w],
                 told'[u] \in {"open", "refused", "committed"}
          PROVE  Odd(u)
      <4>1. u \in Tnx BY <1>1, <2>11
      <4>2. CASE u = t
        BY <1>2, <2>11, <2>12, <2>13, <3>1, <4>1, <4>2 DEF IInv, Kept
      <4>3. CASE u # t
        <5>1. told[u] = "refused" => Odd(u) BY <4>1 DEF IInv, ToldIsState, Odd
        <5>2. QED BY <1>2, <2>10, <2>11, <3>1, <4>1, <4>3, <5>1 DEF IInv, Kept
      <4>4. QED BY <4>2, <4>3
    <3>2. ASSUME NEW w \in db'.pending, NEW u \in under[w], told'[u] = "committed"
          PROVE  Odd(u)
      <4>1. u \in Tnx BY <1>1, <2>11
      <4>2. QED BY <1>2, <2>11, <2>13, <3>2, <4>1 DEF IInv, Kept
    <3>3. QED BY <3>1, <3>2 DEF Kept, Odd
  <2>15. answer = "rolled back" /\ t \notin committed =>
            db'.pending \cup db'.durable \subseteq db.durable \cup db'.spared
    BY <1>4, <1>7, <2>1
  <2>16. Gone'
    <3>1. ASSUME NEW w \in db'.durable, NEW u \in under[w], told'[u] \in {"open", "rolled back"}
          PROVE  w \in db'.spared \/ Odd(u) \/ u \in odd.unmanaged
      <4>1. u \in Tnx BY <1>1, <2>11
      <4>2. CASE u = t
        BY <1>2, <1>8, <2>11, <2>12, <2>15, <3>1, <4>1, <4>2 DEF IInv, Gone
      <4>3. CASE u # t
        BY <1>2, <2>10, <2>11, <3>1, <4>1, <4>3 DEF IInv, Gone
      <4>4. QED BY <4>2, <4>3
    <3>2. ASSUME NEW w \in db'.pending, NEW u \in under[w], told'[u] = "rolled back"
          PROVE  w \in db'.spared \/ Odd(u) \/ u \in odd.unmanaged
      <4>1. u \in Tnx BY <1>1, <2>11
      <4>2. CASE u = t
        <5>1. CASE w \in db.durable
          BY <1>8, <2>11, <2>12, <4>2, <5>1 DEF IInv, Gone
        <5>2. CASE w \notin db.durable BY <1>2, <1>8, <2>15, <3>2, <4>1, <4>2, <5>2
        <5>3. QED BY <5>1, <5>2
      <4>3. CASE u # t BY <1>2, <2>11, <3>2, <4>1, <4>3 DEF IInv, Gone
      <4>4. QED BY <4>2, <4>3
    <3>3. QED BY <3>1, <3>2 DEF Gone, Odd
  <2>17. QED BY <2>2, <2>3, <2>4, <2>5, <2>6, <2>7, <2>8, <2>9, <2>14, <2>16 DEF IInv
<1>13. QED BY <1>1, <1>11, <1>12

\* What every lemma below uses of the state.
LEMMA State ==
    ASSUME IInv
    PROVE  /\ db \in Database /\ committed \subseteq live /\ live \subseteq Tnx
           /\ told \in [Tnx -> {"none", "open", "committed", "refused", "rolled back", "released"}]
           /\ connected \in BOOLEAN /\ under \in [Work -> SUBSET Tnx]
           /\ odd \in [overlap : SUBSET Tnx, refused : SUBSET Tnx, unmanaged : SUBSET Tnx]
           /\ db.pending \subseteq Work /\ db.lost \subseteq Work /\ db.durable \subseteq Work
           /\ \A t \in Tnx : t \in live <=> told[t] \in {"open", "refused"}
BY DEF IInv, TypeOK, Database, ToldIsState, Open

\* A transaction that begins and ends within one call, over work w: the others are
\* overlapped by it.
LEMMA LocalKeepsIInv ==
    ASSUME IInv, connected, NEW w \in Work \ Done, NEW d \in Database, Settles(d, db'),
           d.count = db.count, db.count # 0 => d.auto = db.auto, d.spared = db.spared,
           d.pending \subseteq db.pending \cup {w},
           d.durable \subseteq db.durable \cup db.pending \cup {w},
           d.lost \subseteq db.lost \cup db.pending \cup {w},
           under' = [under EXCEPT ![w] = live],
           odd' = [odd EXCEPT !.overlap = @ \cup live],
           UNCHANGED <<connected, live, committed, told>>
    PROVE  IInv'
<1>1. /\ db' \in Database /\ db'.count = db.count
      /\ db'.pending \subseteq db.pending \cup {w}
      /\ db'.durable \subseteq db.durable \cup db.pending \cup {w}
      /\ db'.lost \subseteq db.lost \cup db.pending \cup {w}
      /\ db.spared \subseteq db'.spared
      /\ db.count # 0 => db'.auto = db.auto
      /\ db.count = 0 => db'.manual \/ (db'.auto /\ db'.pending = {})
  BY DEF Settles
<1>2. \A v \in Work : under'[v] = IF v = w THEN live ELSE under[v] BY State
<1>3. /\ odd'.overlap = odd.overlap \cup live
      /\ odd'.refused = odd.refused /\ odd'.unmanaged = odd.unmanaged
  BY State
<1>4. \A t \in Tnx : Odd(t) \/ t \in live => Odd(t)' BY <1>3 DEF Odd
<1>5. TypeOK'
  <2>1. live \subseteq Tnx BY State
  <2>2. QED BY <1>1, <2>1 DEF IInv, TypeOK
<1>6. ToldIsState' BY <1>3 DEF IInv, ToldIsState, Open
<1>7. UnderHasBegun' BY <1>2, State DEF IInv, UnderHasBegun
<1>8. OverlapIsKnown' BY <1>3 DEF OverlapIsKnown
<1>9. OpenIsManual'
  <2>1. \A t \in Open : db'.auto = db.auto BY <1>1, OpenCount
  <2>2. QED BY <1>3, <2>1 DEF IInv, OpenIsManual, Open
<1>10. NoLinkNoWork' BY DEF NoLinkNoWork
<1>11. CountIsOpen' BY <1>1 DEF IInv, CountIsOpen
<1>12. AtRest'
  <2>1. live = {} => db.count = 0 BY OpenCount DEF Open
  <2>2. QED BY <1>1, <2>1 DEF AtRest
<1>13. Kept'
  <2>1. ASSUME NEW v \in db'.lost \cup db'.pending, NEW u \in under'[v],
               told[u] \in {"open", "refused", "committed"}
        PROVE  Odd(u)'
    <3>1. v \in Work /\ u \in Tnx BY <1>1, <1>2, State
    <3>2. CASE u \in live BY <1>4, <3>1, <3>2
    <3>3. CASE u \notin live
      <4>1. told[u] = "committed" BY <2>1, <3>1, <3>3, State
      <4>2. v # w /\ u \in under[v] /\ v \in db.lost \cup db.pending
        BY <1>1, <1>2, <2>1, <3>1, <3>3
      <4>3. QED BY <1>4, <3>1, <4>1, <4>2 DEF IInv, Kept
    <3>4. QED BY <3>2, <3>3
  <2>2. QED BY <2>1 DEF Kept
<1>14. Gone'
  <2>1. ASSUME NEW v \in db'.durable \cup db'.pending, NEW u \in under'[v],
               told[u] \in {"open", "rolled back"}
        PROVE  v \in db'.spared \/ Odd(u)' \/ u \in odd'.unmanaged
    <3>1. v \in Work /\ u \in Tnx BY <1>1, <1>2, State
    <3>2. CASE u \in live BY <1>4, <3>1, <3>2
    <3>3. CASE u \notin live
      <4>1. told[u] = "rolled back" BY <2>1, <3>1, <3>3, State
      <4>2. v # w /\ u \in under[v] /\ v \in db.durable \cup db.pending
        BY <1>1, <1>2, <2>1, <3>1, <3>3
      <4>3. QED BY <1>1, <1>3, <1>4, <3>1, <4>1, <4>2 DEF IInv, Gone
    <3>4. QED BY <3>2, <3>3
  <2>2. QED BY <2>1 DEF Gone
<1>15. QED
  BY <1>5, <1>6, <1>7, <1>8, <1>9, <1>10, <1>11, <1>12, <1>13, <1>14 DEF IInv

LEMMA TransactKeepsIInv ==
    ASSUME IInv, NEW w \in Work, Transact(w) \/ FailTransactExecute(w) \/ FailTransactCommit(w)
    PROVE  IInv'
<1> DEFINE r == Referenced(db)
           x == Worked(r, w)
<1>1. db \in Database /\ db.count \in Nat /\ connected /\ w \in Work \ Done
  BY State, OpenCount DEF Transact, FailTransactExecute, FailTransactCommit, Local
<1>2. /\ under' = [under EXCEPT ![w] = live]
      /\ odd' = [odd EXCEPT !.overlap = @ \cup live]
      /\ UNCHANGED <<connected, live, committed, told>>
  BY DEF Transact, FailTransactExecute, FailTransactCommit, Local
<1>3. /\ r \in Database /\ r.count = db.count + 1
      /\ db.count # 0 => r.auto = db.auto
      /\ r.pending = db.pending /\ r.durable = db.durable /\ r.lost = db.lost
      /\ r.spared = db.spared
  BY <1>1, ReferencedFields
<1> HIDE DEF r
<1>4. /\ x \in Database /\ x.count = db.count + 1 /\ x.auto = r.auto
      /\ x.lost = db.lost /\ x.spared = db.spared
      /\ x.pending \subseteq db.pending \cup {w} /\ x.durable \subseteq db.durable \cup {w}
  <2>1. w \in Work BY <1>1
  <2>2. /\ x \in Database /\ x.count = r.count /\ x.auto = r.auto /\ x.lost = r.lost
        /\ x.spared = r.spared
        /\ x.pending = IF r.auto THEN r.pending ELSE r.pending \cup {w}
        /\ x.durable = IF r.auto THEN r.durable \cup {w} ELSE r.durable
    BY <1>3, <2>1, WorkedFields
  <2> HIDE DEF x
  <2>3. CASE r.auto BY <1>3, <2>2, <2>3
  <2>4. CASE ~r.auto BY <1>3, <2>2, <2>4
  <2>5. QED BY <2>3, <2>4
<1> HIDE DEF x
<1>5. CASE Transact(w)
  <2> DEFINE d == Committed(x)
  <2>1. /\ d \in Database /\ d.count = db.count /\ d.auto = r.auto /\ d.spared = db.spared
        /\ d.pending \subseteq x.pending /\ d.durable \subseteq x.durable \cup x.pending
        /\ d.lost = db.lost
    <3>1. /\ d \in Database /\ d.auto = x.auto /\ d.lost = x.lost /\ d.spared = x.spared
          /\ d.count = IF x.count > 0 THEN x.count - 1 ELSE 0
          /\ d.pending = IF Asks(x) THEN {} ELSE x.pending
          /\ d.durable = IF Asks(x) THEN x.durable \cup x.pending ELSE x.durable
      BY <1>4, CommittedFields
    <3> HIDE DEF d
    <3>2. d.count = db.count BY <1>1, <1>4, <3>1
    <3>3. CASE Asks(x) BY <1>4, <3>1, <3>2, <3>3
    <3>4. CASE ~Asks(x) BY <1>4, <3>1, <3>2, <3>4
    <3>5. QED BY <3>3, <3>4
  <2> HIDE DEF d
  <2>2. db' \in Settled(d) BY <1>5 DEF Transact, Local, Destroyed, d, x, r
  <2>3. Settles(d, db') BY <2>1, <2>2, SettledSettles
  <2>4. QED BY <1>1, <1>2, <1>3, <1>4, <2>1, <2>3, LocalKeepsIInv
<1>6. CASE FailTransactExecute(w)
  <2> DEFINE d == [Unreferenced(r) EXCEPT !.flag = TRUE]
  <2>1. /\ d \in Database /\ d.count = db.count /\ d.auto = r.auto /\ d.spared = db.spared
        /\ d.pending = db.pending /\ d.durable = db.durable /\ d.lost = db.lost
    BY <1>1, <1>3, AbandonedFields
  <2> HIDE DEF d
  <2>2. db' \in Settled(d) BY <1>6 DEF FailTransactExecute, Local, Destroyed, d, r
  <2>3. Settles(d, db') BY <2>1, <2>2, SettledSettles
  <2>4. QED BY <1>1, <1>2, <1>3, <2>1, <2>3, LocalKeepsIInv
<1>7. CASE FailTransactCommit(w)
  <2>1. PICK d \in CommitRefused(x) : db' \in Settled(d)
    BY <1>7 DEF FailTransactCommit, Local, Destroyed, x, r
  <2>2. /\ d \in Database /\ d.count = db.count /\ d.auto = r.auto /\ d.spared = db.spared
        /\ d.pending \subseteq x.pending /\ d.durable = x.durable
        /\ d.lost \subseteq x.lost \cup x.pending
    BY <1>1, <1>4, RefusedFields
  <2>3. Settles(d, db') BY <2>1, <2>2, SettledSettles
  <2>4. QED BY <1>1, <1>2, <1>3, <1>4, <2>2, <2>3, LocalKeepsIInv
<1>8. QED BY <1>5, <1>6, <1>7

LEMMA BeginKeepsIInv ==
    ASSUME IInv, NEW t \in Tnx, Begin(t) PROVE IInv'
<1>1. /\ told[t] = "none" /\ db' = Referenced(db) /\ live' = live \cup {t}
      /\ told' = [told EXCEPT ![t] = "open"]
      /\ UNCHANGED <<connected, committed, under>>
  BY DEF Begin
<1>2. /\ odd'.overlap = IF live = {} THEN odd.overlap ELSE odd.overlap \cup live \cup {t}
      /\ odd'.unmanaged = IF connected /\ live \cap odd.unmanaged = {} THEN odd.unmanaged
                          ELSE odd.unmanaged \cup {t}
      /\ odd'.refused = odd.refused
      /\ odd' \in [overlap : SUBSET Tnx, refused : SUBSET Tnx, unmanaged : SUBSET Tnx]
  <2> DEFINE o == IF live = {} THEN odd.overlap ELSE odd.overlap \cup live \cup {t}
             m == IF connected /\ live \cap odd.unmanaged = {} THEN odd.unmanaged
                  ELSE odd.unmanaged \cup {t}
  <2>1. o \in SUBSET Tnx /\ m \in SUBSET Tnx BY State
  <2>2. odd' = [[odd EXCEPT !.overlap = o] EXCEPT !.unmanaged = m]
    BY State, Zenon DEF Begin
  <2> HIDE DEF o, m
  <2>3. odd' = [overlap |-> o, refused |-> odd.refused, unmanaged |-> m]
    BY <2>2, State
  <2>4. odd.refused \in SUBSET Tnx BY State
  <2>5. odd'.overlap = o /\ odd'.unmanaged = m /\ odd'.refused = odd.refused
        /\ odd' \in [overlap : SUBSET Tnx, refused : SUBSET Tnx, unmanaged : SUBSET Tnx]
    BY <2>1, <2>3, <2>4
  <2>6. QED BY <2>5 DEF o, m
<1>3. t \notin live /\ t \notin Open BY <1>1, State DEF Open
<1>4. Open' = Open \cup {t} BY <1>1, <1>3, State DEF Open
<1>5. \A u \in Tnx : told'[u] = IF u = t THEN "open" ELSE told[u] BY <1>1, State
<1>6. /\ db' \in Database /\ db'.count = db.count + 1
      /\ db'.auto = (IF db.count = 0 /\ connected THEN FALSE ELSE db.auto)
      /\ db'.pending = db.pending /\ db'.durable = db.durable /\ db'.lost = db.lost
      /\ db'.spared = db.spared
  BY <1>1, State, ReferencedFields
<1>7. odd.overlap \subseteq odd'.overlap /\ odd.unmanaged \subseteq odd'.unmanaged
  BY <1>2
<1>8. TypeOK' BY <1>1, <1>2, <1>6 DEF IInv, TypeOK
<1>9. ToldIsState' BY <1>1, <1>2, <1>3, <1>4, <1>5, State DEF IInv, ToldIsState
<1>10. UnderHasBegun' BY <1>1, <1>5, State DEF IInv, UnderHasBegun
<1>11. OverlapIsKnown' BY <1>1, <1>2 DEF IInv, OverlapIsKnown
<1>12. OpenIsManual'
  <2>1. ASSUME NEW u \in Open PROVE u \in odd'.unmanaged \/ ~db'.auto
    <3>1. u \in odd.unmanaged \/ ~db.auto BY DEF IInv, OpenIsManual
    <3>2. db.count # 0 BY OpenCount
    <3>3. QED BY <1>6, <1>7, <3>1, <3>2
  <2>2. t \in odd'.unmanaged \/ ~db'.auto
    <3>1. CASE connected /\ live \cap odd.unmanaged = {}
      <4>1. CASE db.count = 0 BY <1>6, <3>1, <4>1
      <4>2. CASE db.count # 0
        <5>1. PICK u \in Open : TRUE BY <4>2, OpenCount
        <5>2. ~db.auto BY <3>1, <5>1 DEF IInv, OpenIsManual, Open
        <5>3. QED BY <1>6, <4>2, <5>2
      <4>3. QED BY <4>1, <4>2
    <3>2. CASE ~(connected /\ live \cap odd.unmanaged = {}) BY <1>2, <3>2
    <3>3. QED BY <3>1, <3>2
  <2>3. QED BY <1>4, <2>1, <2>2 DEF OpenIsManual
<1>13. NoLinkNoWork' BY <1>1, <1>6 DEF IInv, NoLinkNoWork
<1>14. CountIsOpen'
  <2>1. Cardinality(Open \cup {t}) = db.count + 1 BY <1>3, OpenCount, FS_AddElement
  <2>2. QED BY <1>4, <1>6, <2>1 DEF CountIsOpen, Open
<1>15. AtRest' BY <1>1 DEF AtRest
<1>16. \A w \in Work : t \notin under[w] BY <1>1 DEF IInv, UnderHasBegun
<1>17. Kept'
  <2>1. \A u \in Tnx : Odd(u) => Odd(u)' BY <1>2, <1>7 DEF Odd
  <2>2. QED BY <1>1, <1>5, <1>6, <1>16, <2>1, State DEF IInv, Kept
<1>18. Gone'
  <2>1. \A u \in Tnx : Odd(u) => Odd(u)' BY <1>2, <1>7 DEF Odd
  <2>2. ASSUME NEW w \in db.durable, NEW u \in under[w],
               told'[u] \in {"open", "rolled back"}
        PROVE  w \in db.spared \/ Odd(u)' \/ u \in odd'.unmanaged
    <3>1. w \in Work /\ u \in Tnx /\ u # t
      <4>1. w \in Work BY State
      <4>2. under[w] \subseteq Tnx BY <4>1, State
      <4>3. t \notin under[w] BY <4>1, <1>16
      <4>4. QED BY <4>1, <4>2, <4>3
    <3>2. told[u] \in {"open", "rolled back"} BY <1>5, <2>2, <3>1
    <3>3. QED BY <1>7, <2>1, <3>1, <3>2 DEF IInv, Gone
  <2>3. ASSUME NEW w \in db.pending, NEW u \in under[w], told'[u] = "rolled back"
        PROVE  w \in db.spared \/ Odd(u)' \/ u \in odd'.unmanaged
    <3>1. w \in Work /\ u \in Tnx /\ u # t
      <4>1. w \in Work BY State
      <4>2. under[w] \subseteq Tnx BY <4>1, State
      <4>3. t \notin under[w] BY <4>1, <1>16
      <4>4. QED BY <4>1, <4>2, <4>3
    <3>2. told[u] = "rolled back" BY <1>5, <2>3, <3>1
    <3>3. QED BY <1>7, <2>1, <3>1, <3>2 DEF IInv, Gone
  <2>4. QED BY <1>1, <1>6, <2>2, <2>3 DEF Gone
<1>19. QED
  BY <1>8, <1>9, <1>10, <1>11, <1>12, <1>13, <1>14, <1>15, <1>17, <1>18 DEF IInv

LEMMA FailCommitKeepsIInv ==
    ASSUME IInv, NEW t \in Tnx, FailCommit(t) PROVE IInv'
<1>1. /\ t \in Open /\ Asks(db) /\ db' \in CommitRefused(db)
      /\ committed' = committed \cup {t} /\ told' = [told EXCEPT ![t] = "refused"]
      /\ odd' = [odd EXCEPT !.refused = @ \cup {t}]
      /\ UNCHANGED <<connected, live, under>>
  BY DEF FailCommit, Open
<1>2. Open = {t} /\ Open' = {} /\ db.count = 1
  <2>1. Open = {t} /\ db.count > 0 BY <1>1, OpenCount DEF Asks
  <2>2. QED BY <1>1, <2>1, OpenCount DEF Asks, Open
<1>3. /\ db' \in Database /\ db'.count = 0 /\ db'.pending \subseteq db.pending
      /\ db'.durable = db.durable /\ db'.lost \subseteq db.lost \cup db.pending
      /\ db'.spared = db.spared
  <2>1. db \in Database BY State
  <2>2. /\ db' \in Database /\ db'.count = IF db.count > 0 THEN db.count - 1 ELSE 0
        /\ db'.pending \subseteq db.pending /\ db'.durable = db.durable
        /\ db'.lost \subseteq db.lost \cup db.pending /\ db'.spared = db.spared
    BY <1>1, <2>1, RefusedFields
  <2>3. QED BY <1>2, <2>2
<1>4. /\ odd'.overlap = odd.overlap /\ odd'.unmanaged = odd.unmanaged
      /\ odd'.refused = odd.refused \cup {t}
      /\ odd' \in [overlap : SUBSET Tnx, refused : SUBSET Tnx, unmanaged : SUBSET Tnx]
  BY <1>1, State
<1>5. \A u \in Tnx : told'[u] = IF u = t THEN "refused" ELSE told[u] BY <1>1, State
<1>6. t \in live /\ t \notin committed BY <1>1 DEF Open
<1>7. \A u \in Tnx : (Odd(u) => Odd(u)') /\ (told'[u] = "refused" => Odd(u)')
  BY <1>4, <1>5 DEF Odd, IInv, ToldIsState
<1>8. TypeOK' BY <1>1, <1>3, <1>4, <1>6 DEF IInv, TypeOK
<1>9. ToldIsState'
  BY <1>1, <1>2, <1>4, <1>5, State DEF IInv, ToldIsState, Open
<1>10. UnderHasBegun' BY <1>1, <1>5, State DEF IInv, UnderHasBegun
<1>11. OverlapIsKnown' BY <1>1, <1>4 DEF IInv, OverlapIsKnown
<1>12. OpenIsManual' BY <1>2 DEF OpenIsManual
<1>13. NoLinkNoWork' BY <1>1 DEF Asks, NoLinkNoWork
<1>14. CountIsOpen' BY <1>2, <1>3, FS_EmptySet DEF CountIsOpen, Open
<1>15. AtRest' BY <1>1, <1>6 DEF AtRest
<1>16. \A u \in Tnx : told'[u] # "open"
  BY <1>2, <1>5 DEF IInv, ToldIsState
<1>17. Kept'
  <2>1. ASSUME NEW w \in db'.lost \cup db'.pending, NEW u \in under[w],
               told'[u] \in {"refused", "committed"}
        PROVE  Odd(u)'
    <3>1. u \in Tnx /\ w \in db.lost \cup db.pending BY <1>3, State
    <3>2. CASE told'[u] = "committed"
      BY <1>5, <1>7, <3>1, <3>2 DEF IInv, Kept
    <3>3. QED BY <1>7, <2>1, <3>1, <3>2
  <2>2. \A w \in db'.lost : \A u \in under[w] : told'[u] # "open"
    BY <1>3, <1>16, State
  <2>3. QED BY <1>1, <2>1, <2>2 DEF Kept
<1>18. Gone'
  BY <1>1, <1>3, <1>4, <1>5, <1>7, State DEF IInv, Gone
<1>19. QED
  BY <1>8, <1>9, <1>10, <1>11, <1>12, <1>13, <1>14, <1>15, <1>17, <1>18 DEF IInv

LEMMA FreshFields ==
    ASSUME NEW d \in Database
    PROVE  LET e == Fresh(d)
           IN  /\ e \in Database /\ e.count = d.count /\ e.flag = d.flag
               /\ e.auto = TRUE /\ e.manual = FALSE /\ e.pending = d.pending
               /\ e.durable = d.durable /\ e.lost = d.lost /\ e.spared = d.spared
BY DEF Fresh, Database

LEMMA ConnectKeepsIInv == ASSUME IInv, Connect PROVE IInv'
<1>1. /\ db.pending = {} /\ connected' \in BOOLEAN /\ db' = Fresh(db)
      /\ odd' = [odd EXCEPT !.unmanaged = @ \cup live]
      /\ UNCHANGED <<live, committed, told, under>>
  BY DEF Connect, IInv, NoLinkNoWork
<1>2. /\ db' \in Database /\ db'.count = db.count /\ db'.auto = TRUE /\ db'.pending = {}
      /\ db'.durable = db.durable /\ db'.lost = db.lost /\ db'.spared = db.spared
  BY <1>1, State, FreshFields
<1>3. /\ odd'.overlap = odd.overlap /\ odd'.refused = odd.refused
      /\ odd'.unmanaged = odd.unmanaged \cup live
      /\ odd' \in [overlap : SUBSET Tnx, refused : SUBSET Tnx, unmanaged : SUBSET Tnx]
  <2>1. live \subseteq Tnx BY State
  <2>2. QED BY <1>1, <2>1, State
<1>4. TypeOK' BY <1>1, <1>2, <1>3 DEF IInv, TypeOK
<1>5. ToldIsState' BY <1>1, <1>3 DEF IInv, ToldIsState, Open
<1>6. UnderHasBegun' BY <1>1 DEF IInv, UnderHasBegun
<1>7. OverlapIsKnown' BY <1>1, <1>3 DEF IInv, OverlapIsKnown
<1>8. OpenIsManual' BY <1>1, <1>3 DEF OpenIsManual, Open
<1>9. NoLinkNoWork' /\ AtRest' BY <1>2 DEF NoLinkNoWork, AtRest
<1>10. CountIsOpen' BY <1>1, <1>2 DEF IInv, CountIsOpen
<1>11. Kept' BY <1>1, <1>2, <1>3 DEF IInv, Kept, Odd
<1>12. Gone' BY <1>1, <1>2, <1>3 DEF IInv, Gone, Odd
<1>13. QED
  BY <1>4, <1>5, <1>6, <1>7, <1>8, <1>9, <1>10, <1>11, <1>12 DEF IInv

LEMMA DisconnectKeepsIInv == ASSUME IInv, Disconnect PROVE IInv'
<1>1. /\ db.pending = {} /\ connected' = FALSE
      /\ UNCHANGED <<db, live, committed, told, under, odd>>
  BY DEF Disconnect
<1>2. QED
  BY <1>1 DEF IInv, TypeOK, ToldIsState, UnderHasBegun, OverlapIsKnown, OpenIsManual,
              NoLinkNoWork, Kept, Gone, CountIsOpen, AtRest, Odd, Open

LEMMA ExecuteKeepsIInv == ASSUME IInv, NEW w \in Work, Execute(w) PROVE IInv'
<1>1. /\ connected /\ w \notin Done /\ db' = Worked(db, w)
      /\ under' = [under EXCEPT ![w] = live]
      /\ UNCHANGED <<connected, live, committed, told, odd>>
  BY DEF Execute
<1>2. /\ db' \in Database /\ db'.count = db.count /\ db'.auto = db.auto
      /\ db'.manual = db.manual /\ db'.lost = db.lost /\ db'.spared = db.spared
      /\ db'.pending = IF db.auto THEN db.pending ELSE db.pending \cup {w}
      /\ db'.durable = IF db.auto THEN db.durable \cup {w} ELSE db.durable
  BY <1>1, State, WorkedFields
<1>3. \A v \in Work : under'[v] = IF v = w THEN live ELSE under[v] BY <1>1, State
<1>4. TypeOK'
  <2>1. live \subseteq Tnx BY State
  <2>2. QED BY <1>1, <1>2, <2>1 DEF IInv, TypeOK
<1>5. ToldIsState' BY <1>1 DEF IInv, ToldIsState, Open
<1>6. UnderHasBegun' BY <1>1, <1>3, State DEF IInv, UnderHasBegun
<1>7. OverlapIsKnown' BY <1>1 DEF IInv, OverlapIsKnown
<1>8. OpenIsManual' BY <1>1, <1>2 DEF IInv, OpenIsManual, Open
<1>9. NoLinkNoWork' BY <1>1 DEF NoLinkNoWork
<1>10. CountIsOpen' BY <1>1, <1>2 DEF IInv, CountIsOpen
<1>11. AtRest' BY <1>1, <1>2 DEF IInv, AtRest
<1>12. Kept'
  <2>1. ASSUME NEW v \in db'.lost, NEW u \in under'[v],
               told[u] \in {"open", "refused", "committed"}
        PROVE  Odd(u)
    <3>1. v \in db.lost /\ v # w /\ u \in under[v] BY <1>1, <1>2, <1>3, State DEF Done
    <3>2. QED BY <2>1, <3>1 DEF IInv, Kept
  <2>2. ASSUME NEW v \in db'.pending, NEW u \in under'[v], told[u] = "committed"
        PROVE  Odd(u)
    <3>1. CASE v = w BY <1>3, <2>2, <3>1, State
    <3>2. CASE v # w
      <4>1. v \in db.pending BY <1>2, <3>2
      <4>2. u \in under[v] BY <1>3, <3>2, <4>1, State
      <4>3. QED BY <2>2, <4>1, <4>2 DEF IInv, Kept
    <3>3. QED BY <3>1, <3>2
  <2>3. QED BY <1>1, <2>1, <2>2 DEF Kept, Odd
<1>13. Gone'
  <2>1. ASSUME NEW v \in db'.durable, NEW u \in under'[v],
               told[u] \in {"open", "rolled back"}
        PROVE  v \in db.spared \/ Odd(u) \/ u \in odd.unmanaged
    <3>1. CASE v = w
      <4>1. u \in live /\ u \in Tnx BY <1>3, <3>1, State
      <4>2. told[u] = "open" BY <2>1, <4>1, State
      <4>3. u \in Open BY <4>1, <4>2 DEF IInv, ToldIsState
      <4>4. CASE db.auto BY <4>3, <4>4 DEF IInv, OpenIsManual
      <4>5. CASE ~db.auto
        <5>1. v \in db.durable BY <1>2, <4>5
        <5>2. QED BY <1>1, <3>1, <5>1 DEF Done
      <4>6. QED BY <4>4, <4>5
    <3>2. CASE v # w
      <4>1. v \in db.durable BY <1>2, <3>2
      <4>2. u \in under[v] BY <1>3, <3>2, <4>1, State
      <4>3. QED BY <2>1, <4>1, <4>2 DEF IInv, Gone
    <3>3. QED BY <3>1, <3>2
  <2>2. ASSUME NEW v \in db'.pending, NEW u \in under'[v], told[u] = "rolled back"
        PROVE  v \in db.spared \/ Odd(u) \/ u \in odd.unmanaged
    <3>1. CASE v = w BY <1>3, <2>2, <3>1, State
    <3>2. CASE v # w
      <4>1. v \in db.pending BY <1>2, <3>2
      <4>2. u \in under[v] BY <1>3, <3>2, <4>1, State
      <4>3. QED BY <2>2, <4>1, <4>2 DEF IInv, Gone
    <3>3. QED BY <3>1, <3>2
  <2>3. QED BY <1>1, <1>2, <2>1, <2>2 DEF Gone, Odd
<1>14. QED
  BY <1>4, <1>5, <1>6, <1>7, <1>8, <1>9, <1>10, <1>11, <1>12, <1>13 DEF IInv

\* commit_, rollback_ and release_ delete the transaction.
LEMMA EndsKeepIInv ==
    ASSUME IInv, NEW t \in Tnx, Commit(t) \/ Rollback(t) \/ Release(t) PROVE IInv'
<1>1. t \in live /\ db \in Database BY State DEF Commit, Rollback, Release
<1>2. /\ Committed(db) \in Database
      /\ [Unreferenced(db) EXCEPT !.flag = TRUE] \in Database
  BY <1>1, CommittedFields, AbandonedFields
<1>3. /\ live' = live \ {t} /\ committed' = committed \ {t}
      /\ UNCHANGED <<connected, under, odd>>
  BY DEF Commit, Rollback, Release, Delete
<1>4. CASE Commit(t)
  <2>1. told' = [told EXCEPT ![t] = "committed"] BY <1>4 DEF Commit, Delete
  <2>2. CASE t \in committed
    <3>1. db' \in Settled(db) BY <1>4, <2>2 DEF Commit, Delete, Destroyed
    <3>2. Settles(db, db') BY <1>1, <3>1, SettledSettles
    <3>3. QED BY <1>1, <1>3, <2>1, <2>2, <3>2, EndKeepsIInv
  <2>3. CASE t \notin committed
    <3>1. db' \in Settled(Committed(db)) BY <1>4, <2>3 DEF Commit, Delete, Destroyed
    <3>2. Settles(Committed(db), db') BY <1>2, <3>1, SettledSettles
    <3>3. QED BY <1>1, <1>2, <1>3, <2>1, <2>3, <3>2, EndKeepsIInv
  <2>4. QED BY <2>2, <2>3
<1>5. CASE Rollback(t)
  <2>1. told' = [told EXCEPT ![t] = "rolled back"] BY <1>5 DEF Rollback, Delete
  <2>2. CASE t \in committed
    <3>1. db' \in Settled(db) BY <1>5, <2>2 DEF Rollback, Delete, Destroyed
    <3>2. Settles(db, db') BY <1>1, <3>1, SettledSettles
    <3>3. QED BY <1>1, <1>3, <2>1, <2>2, <3>2, EndKeepsIInv
  <2>3. CASE t \notin committed
    <3> DEFINE f == [db EXCEPT !.flag = TRUE]
               d == [Unreferenced(db) EXCEPT !.flag = TRUE]
    <3>1. db' \in Settled([Unreferenced(f) EXCEPT !.flag = TRUE])
      BY <1>5, <2>3 DEF Rollback, Delete, Destroyed
    <3>2. [Unreferenced(f) EXCEPT !.flag = TRUE] = d
      BY <1>1 DEF Unreferenced, Database
    <3>3. db' \in Settled(d) BY <3>1, <3>2
    <3>4. Settles(d, db') BY <1>2, <3>3, SettledSettles
    <3> HIDE DEF f
    <3>5. QED BY <1>1, <1>2, <1>3, <2>1, <2>3, <3>4, EndKeepsIInv
  <2>4. QED BY <2>2, <2>3
<1>6. CASE Release(t)
  <2>1. told' = [told EXCEPT ![t] = "released"] BY <1>6 DEF Release, Delete
  <2>2. CASE t \in committed
    <3>1. db' \in Settled(db) BY <1>6, <2>2 DEF Release, Delete, Destroyed
    <3>2. Settles(db, db') BY <1>1, <3>1, SettledSettles
    <3>3. QED BY <1>1, <1>3, <2>1, <2>2, <3>2, EndKeepsIInv
  <2>3. CASE t \notin committed
    <3>1. db' \in Settled([Unreferenced(db) EXCEPT !.flag = TRUE])
      BY <1>6, <2>3 DEF Release, Delete, Destroyed
    <3>2. Settles([Unreferenced(db) EXCEPT !.flag = TRUE], db')
      BY <1>2, <3>1, SettledSettles
    <3>3. QED BY <1>1, <1>2, <1>3, <2>1, <2>3, <3>2, EndKeepsIInv
  <2>4. QED BY <2>2, <2>3
<1>7. QED BY <1>4, <1>5, <1>6

\* Whatever way the last transaction went, no work has come from nowhere.
LEMMA DestroyedBounds ==
    ASSUME NEW d \in Database, NEW done \in BOOLEAN, NEW e \in Destroyed(d, done)
    PROVE  /\ e \in Database /\ e.durable \subseteq d.durable \cup d.pending
           /\ e.lost \cup e.pending \subseteq d.lost \cup d.pending
           /\ d.spared \subseteq e.spared
<1>1. CASE done
  <2>1. Settles(d, e) BY <1>1, SettledSettles DEF Destroyed
  <2>2. QED BY <2>1 DEF Settles
<1>2. CASE ~done
  <2> DEFINE u == [Unreferenced(d) EXCEPT !.flag = TRUE]
  <2>1. /\ u \in Database /\ u.pending = d.pending /\ u.durable = d.durable
        /\ u.lost = d.lost /\ u.spared = d.spared
    BY AbandonedFields
  <2>2. e \in Settled(u) BY <1>2 DEF Destroyed
  <2> HIDE DEF u
  <2>3. Settles(u, e) BY <2>1, <2>2, SettledSettles
  <2>4. QED BY <2>1, <2>3 DEF Settles
<1>3. QED BY <1>1, <1>2

LEMMA ReleaseConnectionKeepsIInv == ASSUME IInv, ReleaseConnection PROVE IInv'
<1>1. PICK d \in IF live = {} THEN {db} ELSE Destroyed(db, live = committed) :
            db' = [Fresh(d) EXCEPT !.count = 0, !.flag = FALSE, !.pending = {},
                                   !.lost = @ \cup d.pending]
  BY DEF ReleaseConnection
<1>2. /\ connected' = TRUE /\ live' = {} /\ committed' = {}
      /\ told' = [t \in Tnx |-> IF t \in live THEN "released" ELSE told[t]]
      /\ UNCHANGED <<under, odd>>
  BY DEF ReleaseConnection
<1>3. db \in Database BY State
<1>4. /\ d \in Database /\ d.durable \subseteq db.durable \cup db.pending
      /\ d.lost \cup d.pending \subseteq db.lost \cup db.pending
      /\ db.spared \subseteq d.spared
  <2>1. CASE live = {} BY <1>1, <1>3, <2>1
  <2>2. CASE live # {}
    <3> DEFINE done == live = committed
    <3>1. done \in BOOLEAN /\ d \in Destroyed(db, done) BY <1>1, <2>2
    <3> HIDE DEF done
    <3>2. QED BY <1>3, <3>1, DestroyedBounds
  <2>3. QED BY <2>1, <2>2
<1>5. /\ db' \in Database /\ db'.count = 0 /\ db'.auto = TRUE /\ db'.pending = {}
      /\ db'.durable = d.durable /\ db'.lost = d.lost \cup d.pending
      /\ db'.spared = d.spared
  <2> DEFINE f == Fresh(d)
             lost == d.lost \cup d.pending
  <2>1. /\ f \in Database /\ f.auto = TRUE /\ f.durable = d.durable
        /\ f.lost = d.lost /\ f.spared = d.spared /\ d.pending \subseteq Work
        /\ lost \subseteq Work
    BY <1>4, FreshFields DEF Database
  <2>2. db' = [f EXCEPT !.count = 0, !.flag = FALSE, !.pending = {},
                        !.lost = @ \cup d.pending]
    BY <1>1
  <2> HIDE DEF f
  <2>3. db' = [count |-> 0, flag |-> FALSE, auto |-> f.auto, pending |-> {},
               durable |-> f.durable, lost |-> lost, spared |-> f.spared,
               manual |-> f.manual]
    BY <2>1, <2>2 DEF Database
  <2> HIDE DEF lost
  <2>4. db' \in Database BY <2>1, <2>3 DEF Database
  <2>5. QED BY <2>1, <2>3, <2>4 DEF lost
<1>6. \A t \in Tnx : told'[t] = IF t \in live THEN "released" ELSE told[t] BY <1>2
<1>7. TypeOK' BY <1>2, <1>5 DEF IInv, TypeOK
<1>8. ToldIsState' BY <1>2, <1>6, State DEF IInv, ToldIsState, Open
<1>9. UnderHasBegun' BY <1>2, <1>6, State DEF IInv, UnderHasBegun
<1>10. OverlapIsKnown' /\ OpenIsManual' BY <1>2 DEF OverlapIsKnown, OpenIsManual, Open
<1>11. NoLinkNoWork' /\ AtRest' BY <1>5 DEF NoLinkNoWork, AtRest
<1>12. CountIsOpen'
  <2>1. live' \ committed' = {} BY <1>2
  <2>2. QED BY <1>5, <2>1, FS_EmptySet DEF CountIsOpen
<1>13. Kept'
  <2>1. ASSUME NEW w \in db'.lost, NEW u \in under[w],
               told'[u] \in {"open", "refused", "committed"}
        PROVE  Odd(u)
    <3>1. w \in db.lost \cup db.pending BY <1>4, <1>5
    <3>2. w \in Work BY <3>1, State
    <3>3. u \in Tnx BY <3>2, State
    <3>4. u \notin live /\ told[u] \in {"open", "refused", "committed"}
      BY <1>6, <2>1, <3>3
    <3>5. told[u] = "committed" BY <3>3, <3>4, State
    <3>6. QED BY <3>1, <3>5 DEF IInv, Kept
  <2>2. QED BY <1>2, <1>5, <2>1 DEF Kept, Odd
<1>14. Gone'
  <2>1. ASSUME NEW w \in db'.durable, NEW u \in under[w],
               told'[u] \in {"open", "rolled back"}
        PROVE  w \in db'.spared \/ Odd(u) \/ u \in odd.unmanaged
    <3>1. w \in db.durable \cup db.pending BY <1>4, <1>5
    <3>2. w \in Work BY <3>1, State
    <3>3. u \in Tnx BY <3>2, State
    <3>4. u \notin live /\ told[u] \in {"open", "rolled back"} BY <1>6, <2>1, <3>3
    <3>5. told[u] = "rolled back" BY <3>3, <3>4, State
    <3>6. QED BY <1>4, <1>5, <3>1, <3>5 DEF IInv, Gone
  <2>2. QED BY <1>2, <1>5, <2>1 DEF Gone, Odd
<1>15. QED
  BY <1>7, <1>8, <1>9, <1>10, <1>11, <1>12, <1>13, <1>14 DEF IInv

-----------------------------------------------------------------------------
(* The theorems.                                                            *)

LEMMA InitIInv == Init => IInv
<1> SUFFICES ASSUME Init PROVE IInv
  OBVIOUS
<1>1. /\ connected = TRUE /\ live = {} /\ committed = {}
      /\ db = [count |-> 0, flag |-> FALSE, auto |-> TRUE, pending |-> {}, durable |-> {},
               lost |-> {}, spared |-> {}, manual |-> FALSE]
      /\ told = [t \in Tnx |-> "none"] /\ under = [w \in Work |-> {}]
      /\ odd = [overlap |-> {}, refused |-> {}, unmanaged |-> {}]
  BY DEF Init, NoneOdd
<1>2. TypeOK BY <1>1 DEF TypeOK, Database
<1>3. CountIsOpen
  <2>1. live \ committed = {} /\ db.count = 0 BY <1>1
  <2>2. QED BY <2>1, FS_EmptySet DEF CountIsOpen
<1>4. ToldIsState BY <1>1 DEF ToldIsState, Open
<1>5. UnderHasBegun /\ OverlapIsKnown /\ OpenIsManual /\ NoLinkNoWork
  BY <1>1 DEF UnderHasBegun, OverlapIsKnown, OpenIsManual, NoLinkNoWork, Open
<1>6. Kept /\ Gone /\ AtRest BY <1>1 DEF Kept, Gone, AtRest
<1>7. QED BY <1>2, <1>3, <1>4, <1>5, <1>6 DEF IInv

LEMMA StepKeepsIInv == IInv /\ [Next]_vars => IInv'
<1> SUFFICES ASSUME IInv, [Next]_vars PROVE IInv'
  OBVIOUS
<1>1. CASE Connect BY <1>1, ConnectKeepsIInv
<1>2. CASE Disconnect BY <1>2, DisconnectKeepsIInv
<1>3. CASE ExpungeConnection
  <2>1. PICK t \in live : Release(t) BY <1>3 DEF ExpungeConnection
  <2>2. t \in Tnx BY State
  <2>3. QED BY <2>1, <2>2, EndsKeepIInv
<1>4. CASE ReleaseConnection BY <1>4, ReleaseConnectionKeepsIInv
<1>5. CASE \E t \in Tnx : Begin(t) \/ Commit(t) \/ FailCommit(t) \/ Rollback(t) \/ Release(t)
  <2>1. PICK t \in Tnx : Begin(t) \/ Commit(t) \/ FailCommit(t) \/ Rollback(t) \/ Release(t)
    BY <1>5
  <2>2. CASE Begin(t) BY <2>2, BeginKeepsIInv
  <2>3. CASE FailCommit(t) BY <2>3, FailCommitKeepsIInv
  <2>4. CASE Commit(t) \/ Rollback(t) \/ Release(t) BY <2>4, EndsKeepIInv
  <2>5. QED BY <2>1, <2>2, <2>3, <2>4
<1>6. CASE \E w \in Work :
              Execute(w) \/ Transact(w) \/ FailTransactExecute(w) \/ FailTransactCommit(w)
  <2>1. PICK w \in Work :
              Execute(w) \/ Transact(w) \/ FailTransactExecute(w) \/ FailTransactCommit(w)
    BY <1>6
  <2>2. CASE Execute(w) BY <2>2, ExecuteKeepsIInv
  <2>3. CASE Transact(w) \/ FailTransactExecute(w) \/ FailTransactCommit(w)
    BY <2>3, TransactKeepsIInv
  <2>4. QED BY <2>1, <2>2, <2>3
<1>7. CASE UNCHANGED vars
  BY <1>7 DEF vars, IInv, TypeOK, ToldIsState, UnderHasBegun, OverlapIsKnown,
              OpenIsManual, NoLinkNoWork, Kept, Gone, CountIsOpen, AtRest, Odd, Open
<1>8. QED BY <1>1, <1>2, <1>3, <1>4, <1>5, <1>6, <1>7 DEF Next

\* The invariant holds whatever the callers do and the driver refuses.
THEOREM Inductive == Spec => []IInv
<1>1. QED BY InitIInv, StepKeepsIInv, PTL DEF Spec

\* Every variable has its type: the record of tnx.cpp's connection among them.
THEOREM TypeCorrect == Spec => []TypeOK
<1>1. IInv => TypeOK BY DEF IInv
<1>2. QED BY <1>1, Inductive, PTL

\* nanodbc's count, by which commit and the destructor decide what they ask of the
\* driver, is the number of transactions still to end, after every failure too.
THEOREM CountIsRight == Spec => []CountIsOpen
<1>1. IInv => CountIsOpen BY DEF IInv
<1>2. QED BY <1>1, Inductive, PTL

\* A connection all of whose transactions have ended is back in autocommit with no
\* work waiting, but for a refusal nobody reads.
THEOREM LinkComesToRest == Spec => []AtRest
<1>1. IInv => AtRest BY DEF IInv
<1>2. QED BY <1>1, Inductive, PTL

\* Work under a transaction that answered that it committed is not lost, unless
\* another transaction was open with it or its first commit was refused.
THEOREM CommittedStays == Spec => []CommittedIsKept
<1>1. IInv => CommittedIsKept BY DEF IInv, Kept, CommittedIsKept, Odd
<1>2. QED BY <1>1, Inductive, PTL

\* Work under a transaction that answered that it rolled back is not kept, but for the
\* four named causes.
THEOREM RolledBackGoes == Spec => []RolledBackIsGone
<1>1. IInv => RolledBackIsGone BY DEF IInv, Gone, RolledBackIsGone, Odd
<1>2. QED BY <1>1, Inductive, PTL

=============================================================================
