--------------------- MODULE AttachmentResourcesProofs ---------------------
(***************************************************************************)
(* Proofs about AttachmentResources, for every set of addresses, every     *)
(* number of slots and every choice of faults: the variables keep their    *)
(* types and the registries agree with the objects that exist; a release   *)
(* frees its children in exactly the tame layouts, and an expunge of two   *)
(* connections frees them; and, with single child objects, no statement    *)
(* keeps a released ODBC connection and ResourceContract is implemented.   *)
(***************************************************************************)
EXTENDS AttachmentResources, FiniteSetTheorems, TLAPS

\* The slots of a registry only ever hold pointers of its class.
SlotsHoldTheirClass ==
    \A k \in Class, i \in Slots : slot[k][i] \in Address[k] \cup {NullPtr}

\* An attachment without resources has empty registries and nothing running.
DownIsEmpty ==
    ~up => /\ rel.op = "none" /\ exp.op = "none"
           /\ \A k \in Class : size[k] = 0 /\ \A i \in Slots : slot[k][i] = NullPtr

\* The connection whose children a loop deletes is still there.
ReleasedIsAlive == rel.op # "none" => rel.conn \in live \cap Conn

Registries == LiveAreRetained /\ DanglingAreLost /\ TwiceOnlyLost

\* The inductive invariant.
IInv == TypeOK /\ SlotsHoldTheirClass /\ DownIsEmpty /\ ReleasedIsAlive /\ Registries

-----------------------------------------------------------------------------
(* Constants.                                                               *)

\* The classes have disjoint addresses; the two marks are no address.
LEMMA Addresses ==
    /\ Class = {"tnx", "stmt", "rslt", "ctlg", "conn"}
    /\ Address["conn"] = Conn /\ Address["stmt"] = Stmt
    /\ Address["tnx"] = Tnx /\ Address["rslt"] = Rslt /\ Address["ctlg"] = Ctlg
    /\ \A k \in Class : Address[k] \subseteq Object
    /\ \A k \in Kind : k \in Class /\ Address[k] \subseteq Child
    /\ \A k, l \in Class : k # l => Address[k] \cap Address[l] = {}
    /\ \A k \in Kind : Address[k] \cap Conn = {}
    /\ Conn \subseteq Object /\ Child \subseteq Object /\ Stmt \subseteq Child
    /\ NullPtr \notin Object /\ Orphan \notin Object
    /\ MaxSlots \in Nat /\ MaxSlots > 0
BY ConstantsAssumption DEF Class, Kind, Address, Object, Child

-----------------------------------------------------------------------------
(* Registries as slots.                                                     *)

\* What vector::erase leaves in the slots still in use: the elements before p
\* where they were, those after it one slot lower.
LEMMA EraseShifts ==
    ASSUME NEW f, NEW n \in 1 .. MaxSlots, NEW p \in 1 .. n
    PROVE  /\ \A i \in 1 .. n - 1 : Erase(f, n, p)[i] = IF i < p THEN f[i] ELSE f[i + 1]
           /\ \A j \in 1 .. n : j # p =>
                Erase(f, n, p)[IF j < p THEN j ELSE j - 1] = f[j]
<1>1. MaxSlots \in Nat BY Addresses
<1>2. \A i \in 1 .. n - 1 : i \in Slots BY <1>1 DEF Slots
<1>3. \A i \in 1 .. n - 1 : Erase(f, n, p)[i] = IF i < p THEN f[i] ELSE f[i + 1]
  BY <1>1, <1>2 DEF Erase
<1>4. ASSUME NEW j \in 1 .. n, j # p
      PROVE  Erase(f, n, p)[IF j < p THEN j ELSE j - 1] = f[j]
  <2>1. CASE j < p
    BY <1>1, <1>3, <2>1
  <2>2. CASE ~(j < p)
    <3>1. j - 1 \in 1 .. n - 1 /\ ~(j - 1 < p) /\ (j - 1) + 1 = j BY <1>1, <1>4, <2>2
    <3>2. QED BY <1>3, <2>2, <3>1
  <2>3. QED BY <2>1, <2>2
<1>5. QED BY <1>3, <1>4

\* An object that goes, with one pointer to it, leaves the registries in order.
LEMMA UnretainKeepsRegistries ==
    ASSUME IInv,
           NEW k \in Class, NEW x \in live \cap Address[k],
           NEW p \in First(slot[k], size[k], x), NEW g,
           \A i \in 1 .. size[k] - 1 : g[i] = Erase(slot[k], size[k], p)[i],
           slot' = [slot EXCEPT ![k] = g],
           size' = [size EXCEPT ![k] = @ - 1],
           live' = live \ {x}, lost' = lost
    PROVE  Registries'
<1> DEFINE n == size[k]
<1>1. /\ MaxSlots \in Nat /\ n \in 0 .. MaxSlots /\ slot \in [Class -> [Slots -> Object \cup {NullPtr}]]
      /\ size \in [Class -> 0 .. MaxSlots]
  BY Addresses DEF IInv, TypeOK
<1>2. p \in 1 .. n /\ slot[k][p] = x BY DEF First
<1>3. n \in 1 .. MaxSlots BY <1>1, <1>2
<1>4. /\ slot'[k] = g /\ size'[k] = n - 1
      /\ \A l \in Class : l # k => slot'[l] = slot[l] /\ size'[l] = size[l]
  BY <1>1
<1>5. \A i \in 1 .. n - 1 : g[i] = IF i < p THEN slot[k][i] ELSE slot[k][i + 1]
  BY <1>2, <1>3, EraseShifts
<1>6. \A j \in 1 .. n : j # p => g[IF j < p THEN j ELSE j - 1] = slot[k][j]
  <2>1. ASSUME NEW j \in 1 .. n, j # p
        PROVE  (IF j < p THEN j ELSE j - 1) \in 1 .. n - 1
    BY <1>1, <1>2, <2>1
  <2>2. QED BY <1>2, <1>3, <2>1, EraseShifts
<1>7. LiveAreRetained'
  <2>1. SUFFICES ASSUME NEW l \in Class, NEW y \in live \cap Address[l], y # x
                 PROVE  y \in Retained(l)'
    BY DEF LiveAreRetained
  <2>2. PICK j \in 1 .. size[l] : slot[l][j] = y
    BY DEF IInv, Registries, LiveAreRetained, Retained
  <2>3. CASE l # k
    BY <1>4, <2>2, <2>3 DEF Retained
  <2>4. CASE l = k
    <3>1. j # p BY <1>2, <2>1, <2>2, <2>4
    <3>2. (IF j < p THEN j ELSE j - 1) \in 1 .. n - 1 BY <1>1, <1>2, <2>2, <2>4, <3>1
    <3>3. g[IF j < p THEN j ELSE j - 1] = y BY <1>6, <2>2, <2>4, <3>1
    <3>4. QED BY <1>4, <2>4, <3>2, <3>3 DEF Retained
  <2>5. QED BY <2>3, <2>4
<1>8. \A i \in 1 .. n - 1 :
        LET o == IF i < p THEN i ELSE i + 1 IN o \in 1 .. n /\ o # p /\ g[i] = slot[k][o]
  BY <1>1, <1>2, <1>5
<1>9. TwiceOnlyLost'
  <2>1. SUFFICES ASSUME NEW l \in Class, NEW i \in (1 .. size[l])', NEW j \in (1 .. size[l])',
                        i # j, slot'[l][i] = slot'[l][j]
                 PROVE  slot'[l][i] \in lost
    BY DEF TwiceOnlyLost
  <2>2. CASE l # k
    BY <1>4, <2>1, <2>2 DEF IInv, Registries, TwiceOnlyLost
  <2>3. CASE l = k
    <3> DEFINE oi == IF i < p THEN i ELSE i + 1
               oj == IF j < p THEN j ELSE j + 1
    <3>1. i \in 1 .. n - 1 /\ j \in 1 .. n - 1 BY <1>4, <2>3
    <3>2. oi \in 1 .. n /\ oj \in 1 .. n /\ g[i] = slot[k][oi] /\ g[j] = slot[k][oj]
      BY <1>8, <3>1
    <3>3. oi # oj BY <1>1, <1>2, <2>1, <3>1
    <3>4. slot[k][oi] = slot[k][oj] BY <1>4, <2>1, <2>3, <3>2
    <3>5. slot[k][oi] \in lost
      BY <3>2, <3>3, <3>4 DEF IInv, Registries, TwiceOnlyLost
    <3>6. QED BY <1>4, <2>3, <3>2, <3>5
  <2>4. QED BY <2>2, <2>3
<1>10. DanglingAreLost'
  <2>1. SUFFICES ASSUME NEW l \in Class, NEW y \in Retained(l)', y \notin live'
                 PROVE  y \in lost \cup {NullPtr}
    BY DEF DanglingAreLost
  <2>2. PICK i \in 1 .. size'[l] : slot'[l][i] = y
    BY DEF Retained
  <2>3. CASE l # k
    <3>1. y \in Retained(l) BY <1>4, <2>2, <2>3 DEF Retained
    <3>2. y # x
      <4>1. \A j \in Slots : slot[l][j] \in Address[l] \cup {NullPtr}
        BY DEF IInv, SlotsHoldTheirClass
      <4>2. size[l] \in 0 .. MaxSlots BY <1>1
      <4>3. i \in Slots BY <1>1, <1>4, <2>2, <2>3, <4>2 DEF Slots
      <4>4. y \in Address[l] \cup {NullPtr} BY <1>4, <2>2, <2>3, <4>1, <4>3
      <4>5. QED BY <2>3, <4>4, Addresses
    <3>3. QED BY <2>1, <3>1, <3>2 DEF IInv, Registries, DanglingAreLost
  <2>4. CASE l = k
    <3> DEFINE o == IF i < p THEN i ELSE i + 1
    <3>1. o \in 1 .. n /\ o # p /\ slot[k][o] = y BY <1>4, <1>8, <2>2, <2>4
    <3>2. CASE y = x
      BY <1>2, <3>1, <3>2 DEF IInv, Registries, TwiceOnlyLost
    <3>3. CASE y # x
      <4>1. y \in Retained(k) \ live BY <2>1, <3>1, <3>3 DEF Retained
      <4>2. QED BY <4>1 DEF IInv, Registries, DanglingAreLost
    <3>4. QED BY <3>2, <3>3
  <2>5. QED BY <2>3, <2>4
<1>11. QED BY <1>7, <1>9, <1>10 DEF Registries

\* A new object, or a pointer whose constructor failed, retained in the slot past
\* the end leaves the registries in order.
LEMMA RetainKeepsRegistries ==
    ASSUME IInv,
           NEW k \in Class, NEW x \in Address[k], x \notin live, Retain(k, x),
           \/ live' = live \cup {x} /\ lost' = lost
           \/ live' = live /\ lost' = lost \cup {x}
    PROVE  Registries'
<1> DEFINE n == size[k]
<1>1. /\ MaxSlots \in Nat /\ n \in 0 .. MaxSlots /\ n + 1 \in Slots /\ x # NullPtr
      /\ slot \in [Class -> [Slots -> Object \cup {NullPtr}]]
      /\ size \in [Class -> 0 .. MaxSlots]
  BY Addresses DEF IInv, TypeOK, Retain, Slots
<1>2. /\ size'[k] = n + 1 /\ slot'[k][n + 1] = x
      /\ \A i \in 1 .. n : slot'[k][i] = slot[k][i]
      /\ \A l \in Class : l # k => slot'[l] = slot[l] /\ size'[l] = size[l]
  BY <1>1 DEF Retain, Slots
<1>3. Retained(k)' = Retained(k) \cup {x}
  <2>1. Retained(k)' = {slot'[k][i] : i \in 1 .. n + 1} BY <1>2 DEF Retained
  <2>2. 1 .. n + 1 = 1 .. n \cup {n + 1}
    <3>1. n \in Nat BY <1>1
    <3>2. \A m \in Nat : 1 .. m + 1 = 1 .. m \cup {m + 1} OBVIOUS
    <3>3. QED BY <3>1, <3>2
  <2>3. {slot'[k][i] : i \in 1 .. n} = {slot[k][i] : i \in 1 .. n} BY <1>2
  <2>4. QED BY <1>2, <2>1, <2>2, <2>3 DEF Retained
<1>4. \A l \in Class : l # k => Retained(l)' = Retained(l)
  BY <1>2 DEF Retained
<1>5. LiveAreRetained'
  <2>1. \A l \in Class : l # k => x \notin Address[l] BY Addresses
  <2>2. QED BY <1>3, <1>4, <2>1 DEF IInv, Registries, LiveAreRetained
<1>6. DanglingAreLost'
  BY <1>3, <1>4 DEF IInv, Registries, DanglingAreLost
<1>7. x \in Retained(k) => x \in lost
  BY <1>1 DEF IInv, Registries, DanglingAreLost
<1>8. TwiceOnlyLost'
  <2>1. SUFFICES ASSUME NEW l \in Class, NEW i \in (1 .. size[l])', NEW j \in (1 .. size[l])',
                        i # j, slot'[l][i] = slot'[l][j]
                 PROVE  slot'[l][i] \in lost'
    BY DEF TwiceOnlyLost
  <2>2. CASE l # k
    BY <1>2, <2>1, <2>2 DEF IInv, Registries, TwiceOnlyLost
  <2>3. CASE l = k /\ i # n + 1 /\ j # n + 1
    <3>1. i \in 1 .. n /\ j \in 1 .. n
      <4>1. i \in 1 .. n + 1 /\ j \in 1 .. n + 1 BY <1>2, <2>3
      <4>2. \A m \in Nat : \A q \in 1 .. m + 1 : q # m + 1 => q \in 1 .. m OBVIOUS
      <4>3. n \in Nat BY <1>1
      <4>4. QED BY <2>3, <4>1, <4>2, <4>3
    <3>2. QED BY <1>2, <2>1, <2>3, <3>1 DEF IInv, Registries, TwiceOnlyLost
  <2>4. CASE l = k /\ i = n + 1
    <3>1. j \in 1 .. n BY <1>1, <1>2, <2>1, <2>4
    <3>2. x \in Retained(k) BY <1>2, <2>1, <2>4, <3>1 DEF Retained
    <3>3. QED BY <1>2, <1>7, <2>4, <3>2
  <2>5. CASE l = k /\ j = n + 1
    <3>1. i \in 1 .. n BY <1>1, <1>2, <2>1, <2>5
    <3>2. x \in Retained(k) BY <1>2, <2>1, <2>5, <3>1 DEF Retained
    <3>3. QED BY <1>2, <1>7, <2>1, <2>5, <3>2
  <2>6. QED BY <2>2, <2>3, <2>4, <2>5
<1>9. QED BY <1>5, <1>6, <1>8 DEF Registries

\* Steps that leave the registries and the objects alone leave them in order.
LEMMA SameRegistries ==
    ASSUME Registries, UNCHANGED <<live, slot, size, lost>>
    PROVE  Registries'
BY DEF Registries, LiveAreRetained, DanglingAreLost, TwiceOnlyLost, Retained

\* A pointer valid() accepts as a connection, unless it is zero, is a connection.
LEMMA ValidConnectionIsAlive ==
    ASSUME IInv, NEW c \in Conn, Valid("conn", c)
    PROVE  c \in live
BY Addresses DEF IInv, TypeOK, Registries, DanglingAreLost, Valid

-----------------------------------------------------------------------------
(* The initial states and the calls that do not delete.                     *)

LEMMA InitIInv == Init => IInv
<1> SUFFICES ASSUME Init PROVE IInv OBVIOUS
<1>1. TypeOK
  <2>1. NullPtr \in Conn \cup {NullPtr} /\ 1 \in 1 .. MaxSlots + 1 /\ 0 \in 0 .. MaxSlots
    BY Addresses
  <2>2. NoRelease \in ReleaseFrame /\ NoExpunge \in ExpungeFrame
    BY <2>1 DEF NoRelease, NoExpunge, ReleaseFrame, ExpungeFrame
  <2>3. /\ slot \in [Class -> [Slots -> Object \cup {NullPtr}]]
        /\ size \in [Class -> 0 .. MaxSlots]
    BY <2>1 DEF Init
  <2>4. QED BY <2>2, <2>3 DEF Init, TypeOK
<1>2. \A k \in Class : Retained(k) = {}
  BY DEF Init, Retained
<1>3. SlotsHoldTheirClass /\ DownIsEmpty /\ ReleasedIsAlive
  BY DEF Init, SlotsHoldTheirClass, DownIsEmpty, ReleasedIsAlive, NoRelease, NoExpunge
<1>4. Registries
  BY <1>2 DEF Init, Registries, LiveAreRetained, DanglingAreLost, TwiceOnlyLost
<1>5. QED BY <1>1, <1>3, <1>4 DEF IInv

\* Retaining keeps the shape of the registries.
LEMMA RetainKeepsTypes ==
    ASSUME IInv, NEW k \in Class, NEW x \in Address[k], Retain(k, x)
    PROVE  /\ slot' \in [Class -> [Slots -> Object \cup {NullPtr}]]
           /\ size' \in [Class -> 0 .. MaxSlots]
           /\ SlotsHoldTheirClass'
<1>1. /\ MaxSlots \in Nat /\ x \in Object
      /\ slot \in [Class -> [Slots -> Object \cup {NullPtr}]]
      /\ size \in [Class -> 0 .. MaxSlots]
  BY Addresses DEF IInv, TypeOK
<1>2. size[k] + 1 \in 0 .. MaxSlots BY <1>1 DEF Retain
<1>3. slot' \in [Class -> [Slots -> Object \cup {NullPtr}]] BY <1>1 DEF Retain
<1>4. size' \in [Class -> 0 .. MaxSlots] BY <1>1, <1>2 DEF Retain
<1>5. SlotsHoldTheirClass'
  BY <1>1 DEF IInv, SlotsHoldTheirClass, Retain
<1>6. QED BY <1>3, <1>4, <1>5

\* Erasing and trimming keep the pointers of a registry in its class.
LEMMA EraseKeepsTypes ==
    ASSUME NEW S, NEW f \in [Slots -> S \cup {NullPtr}], NEW n \in 0 .. MaxSlots, NEW p \in 1 .. n,
           NEW m
    PROVE  /\ Erase(f, n, p) \in [Slots -> S \cup {NullPtr}]
           /\ Trim(f, m) \in [Slots -> S \cup {NullPtr}]
<1>1. MaxSlots \in Nat BY Addresses
<1>2. \A i \in Slots : p <= i /\ i < n => i + 1 \in Slots BY <1>1 DEF Slots
<1>3. QED BY <1>1, <1>2 DEF Erase, Trim

\* A call that makes an object and retains it.
LEMMA MakeKeepsIInv ==
    ASSUME IInv, up, NEW k \in Class, NEW x \in Address[k] \ live, Retain(k, x),
           live' = live \cup {x}, UNCHANGED <<up, heap, lost, leaked, rel, exp>>,
           owner' \in [Child -> Conn \cup {NullPtr}],
           via' \in [Child -> Conn \cup {NullPtr, Orphan}],
           known' \subseteq Stmt \cup {NullPtr}
    PROVE  IInv'
<1>1. live' \subseteq Object BY Addresses DEF IInv, TypeOK
<1>2. TypeOK' BY <1>1, RetainKeepsTypes DEF IInv, TypeOK
<1>3. SlotsHoldTheirClass' BY RetainKeepsTypes
<1>4. DownIsEmpty' BY DEF DownIsEmpty
<1>5. ReleasedIsAlive' BY DEF IInv, ReleasedIsAlive
<1>6. Registries' BY RetainKeepsRegistries
<1>7. QED BY <1>2, <1>3, <1>4, <1>5, <1>6 DEF IInv

\* A call that neither makes nor deletes an object.
LEMMA UseKeepsIInv ==
    ASSUME IInv, UNCHANGED <<up, live, slot, size, lost, leaked, rel, exp>>,
           heap' \in {"sound", "corrupt"},
           owner' \in [Child -> Conn \cup {NullPtr}],
           via' \in [Child -> Conn \cup {NullPtr, Orphan}],
           known' \subseteq Stmt \cup {NullPtr}
    PROVE  IInv'
<1>1. TypeOK' BY DEF IInv, TypeOK
<1>2. SlotsHoldTheirClass' BY DEF IInv, SlotsHoldTheirClass
<1>3. DownIsEmpty' BY DEF IInv, DownIsEmpty
<1>4. ReleasedIsAlive' BY DEF IInv, ReleasedIsAlive
<1>5. Registries' BY SameRegistries DEF IInv
<1>6. QED BY <1>1, <1>2, <1>3, <1>4, <1>5 DEF IInv

\* A step of a loop that deletes nothing; it may forget the slots past the end.
LEMMA LoopKeepsIInv ==
    ASSUME IInv, up, UNCHANGED <<up, heap, live, owner, via, size, lost, known, leaked>>,
           \/ slot' = slot
           \/ \E k \in Class : slot' = [slot EXCEPT ![k] = Trim(slot[k], size[k])],
           rel' \in ReleaseFrame, exp' \in ExpungeFrame,
           rel'.op # "none" => rel'.conn \in live \cap Conn
    PROVE  IInv'
<1>1. /\ slot \in [Class -> [Slots -> Object \cup {NullPtr}]]
      /\ size \in [Class -> 0 .. MaxSlots] /\ MaxSlots \in Nat
  BY Addresses DEF IInv, TypeOK
<1>2. /\ slot' \in [Class -> [Slots -> Object \cup {NullPtr}]]
      /\ \A l \in Class, i \in Slots :
            /\ slot'[l][i] \in {slot[l][i], NullPtr}
            /\ i <= size[l] => slot'[l][i] = slot[l][i]
  <2>1. CASE slot' = slot BY <1>1, <2>1
  <2>2. ASSUME NEW k \in Class, slot' = [slot EXCEPT ![k] = Trim(slot[k], size[k])]
        PROVE  /\ slot' \in [Class -> [Slots -> Object \cup {NullPtr}]]
               /\ \A l \in Class, i \in Slots :
                    /\ slot'[l][i] \in {slot[l][i], NullPtr}
                    /\ i <= size[l] => slot'[l][i] = slot[l][i]
    <3>1. Trim(slot[k], size[k]) \in [Slots -> Object \cup {NullPtr}] BY <1>1 DEF Trim
    <3>2. \A i \in Slots :
            Trim(slot[k], size[k])[i] = IF i <= size[k] THEN slot[k][i] ELSE NullPtr
      BY DEF Trim
    <3>3. QED BY <1>1, <2>2, <3>1, <3>2
  <2>3. QED BY <2>1, <2>2
<1>3. TypeOK' BY <1>2 DEF IInv, TypeOK
<1>4. SlotsHoldTheirClass' BY <1>2 DEF IInv, SlotsHoldTheirClass
<1>5. DownIsEmpty' BY DEF DownIsEmpty
<1>6. ReleasedIsAlive' BY DEF ReleasedIsAlive
<1>7. Registries'
  <2>1. \A l \in Class : \A i \in 1 .. size[l] : slot'[l][i] = slot[l][i]
    <3>1. \A l \in Class : \A i \in 1 .. size[l] : i \in Slots /\ i <= size[l] BY <1>1 DEF Slots
    <3>2. QED BY <1>2, <3>1
  <2>2. \A l \in Class : Retained(l)' = Retained(l) BY <2>1 DEF Retained
  <2>3. LiveAreRetained' /\ DanglingAreLost'
    BY <2>2 DEF IInv, Registries, LiveAreRetained, DanglingAreLost
  <2>4. TwiceOnlyLost'
    BY <2>1 DEF IInv, Registries, TwiceOnlyLost
  <2>5. QED BY <2>3, <2>4 DEF Registries
<1>8. QED BY <1>3, <1>4, <1>5, <1>6, <1>7 DEF IInv

\* A step that deletes an object and erases a pointer to it.
LEMMA DeleteKeepsIInv ==
    ASSUME IInv, up, NEW k \in Class, NEW x \in live \cap Address[k],
           NEW p \in First(slot[k], size[k], x), NEW g,
           \/ g = Erase(slot[k], size[k], p)
           \/ g = Trim(Erase(slot[k], size[k], p), size[k] - 1),
           slot' = [slot EXCEPT ![k] = g],
           size' = [size EXCEPT ![k] = @ - 1],
           live' = live \ {x}, UNCHANGED <<up, heap, lost, known, leaked, exp>>,
           owner' \in [Child -> Conn \cup {NullPtr}],
           via' \in [Child -> Conn \cup {NullPtr, Orphan}],
           rel' \in ReleaseFrame,
           rel'.op # "none" => rel'.conn \in live' \cap Conn
    PROVE  IInv'
<1>1. /\ slot \in [Class -> [Slots -> Object \cup {NullPtr}]]
      /\ size \in [Class -> 0 .. MaxSlots] /\ MaxSlots \in Nat
  BY Addresses DEF IInv, TypeOK
<1>2. p \in 1 .. size[k] /\ size[k] \in 0 .. MaxSlots BY <1>1 DEF First
<1>3. slot[k] \in [Slots -> Address[k] \cup {NullPtr}]
  BY <1>1 DEF IInv, SlotsHoldTheirClass
<1>4. g \in [Slots -> Address[k] \cup {NullPtr}]
  <2>1. Erase(slot[k], size[k], p) \in [Slots -> Address[k] \cup {NullPtr}]
    BY <1>2, <1>3, EraseKeepsTypes
  <2>2. Trim(Erase(slot[k], size[k], p), size[k] - 1) \in [Slots -> Address[k] \cup {NullPtr}]
    BY <1>2, <2>1, EraseKeepsTypes
  <2>3. QED BY <2>1, <2>2
<1>5. \A i \in 1 .. size[k] - 1 : g[i] = Erase(slot[k], size[k], p)[i]
  <2>1. \A i \in 1 .. size[k] - 1 : i \in Slots /\ i <= size[k] - 1 BY <1>1, <1>2 DEF Slots
  <2>2. QED BY <2>1 DEF Trim
<1>6. Registries' BY <1>5, UnretainKeepsRegistries
<1>7. SlotsHoldTheirClass'
  BY <1>1, <1>4 DEF IInv, SlotsHoldTheirClass
<1>8. TypeOK'
  <2>1. size[k] - 1 \in 0 .. MaxSlots BY <1>1, <1>2
  <2>2. size' \in [Class -> 0 .. MaxSlots] BY <1>1, <2>1
  <2>3. Address[k] \subseteq Object BY Addresses
  <2>4. slot' \in [Class -> [Slots -> Object \cup {NullPtr}]] BY <1>1, <1>4, <2>3
  <2>5. QED BY <2>2, <2>4 DEF IInv, TypeOK
<1>9. DownIsEmpty' /\ ReleasedIsAlive' BY DEF DownIsEmpty, ReleasedIsAlive
<1>10. QED BY <1>6, <1>7, <1>8, <1>9 DEF IInv

-----------------------------------------------------------------------------
(* One step per action.                                                     *)

LEMMA CreateKeepsIInv == IInv /\ Create => IInv'
<1> SUFFICES ASSUME IInv, Create PROVE IInv' OBVIOUS
<1> USE Addresses DEF Ready, OnConnection, OnChild
<1>1. /\ owner \in [Child -> Conn \cup {NullPtr}]
      /\ via \in [Child -> Conn \cup {NullPtr, Orphan}]
      /\ known \subseteq Stmt \cup {NullPtr}
  BY DEF IInv, TypeOK
<1>2. ASSUME NEW c \in Conn, NewConnection(c) PROVE IInv'
  BY <1>1, <1>2, MakeKeepsIInv DEF NewConnection
<1>3. ASSUME NEW k \in {"tnx", "ctlg", "rslt"}, NEW x \in Address[k], NEW c \in Conn,
             NewOnConnection(k, x, c)
      PROVE  IInv'
  <2>1. k \in Class /\ x \in Child BY DEF Kind
  <2>2. QED BY <1>1, <1>3, <2>1, MakeKeepsIInv DEF NewOnConnection, Construct
<1>4. ASSUME NEW s \in Stmt, NewStatement(s) PROVE IInv'
  <2>1. known' \subseteq Stmt \cup {NullPtr} BY <1>1, <1>4 DEF NewStatement
  <2>2. QED BY <1>1, <1>4, <2>1, MakeKeepsIInv DEF NewStatement, Construct
<1>5. ASSUME NEW s \in Stmt, NEW c \in Conn, NewStatementOn(s, c) PROVE IInv'
  <2>1. known' \subseteq Stmt \cup {NullPtr} BY <1>1, <1>5 DEF NewStatementOn
  <2>2. QED BY <1>1, <1>5, <2>1, MakeKeepsIInv DEF NewStatementOn, Construct
<1>6. ASSUME NEW s \in Stmt, NEW c \in Conn, LoseStatement(s, c) PROVE IInv'
  <2> USE <1>6 DEF LoseStatement
  <2>1. TypeOK' BY RetainKeepsTypes DEF IInv, TypeOK
  <2>2. SlotsHoldTheirClass' BY RetainKeepsTypes
  <2>3. DownIsEmpty' BY DEF DownIsEmpty
  <2>4. ReleasedIsAlive' BY DEF IInv, ReleasedIsAlive
  <2>5. Registries' BY RetainKeepsRegistries
  <2>6. QED BY <2>1, <2>2, <2>3, <2>4, <2>5 DEF IInv
<1>7. ASSUME NEW s \in Stmt, NEW r \in Rslt, ExecuteStatement(s, r) PROVE IInv'
  <2>1. owner[s] \in Conn \cup {NullPtr} BY <1>1
  <2>2. QED BY <1>1, <1>7, <2>1, MakeKeepsIInv DEF ExecuteStatement, Construct
<1>8. ASSUME NEW s \in Stmt, NEW c \in Conn, NEW r \in Rslt, ExecuteDirect(s, c, r)
      PROVE  IInv'
  BY <1>1, <1>8, MakeKeepsIInv DEF ExecuteDirect
<1>9. ASSUME NEW t \in Tnx, NEW c \in Conn, NewTransaction(t, c) PROVE IInv'
  BY <1>3, <1>9 DEF NewTransaction
<1>10. ASSUME NEW g \in Ctlg, NEW c \in Conn, NewCatalog(g, c) PROVE IInv'
  BY <1>3, <1>10 DEF NewCatalog
<1>11. ASSUME NEW r \in Rslt, NEW c \in Conn, ExecuteOnConnection(r, c) PROVE IInv'
  BY <1>3, <1>11 DEF ExecuteOnConnection
<1> HIDE DEF Ready, OnConnection, OnChild
<1>12. QED
  BY <1>2, <1>4, <1>5, <1>6, <1>7, <1>8, <1>9, <1>10, <1>11 DEF Create

\* release_ of a child, and the deletions inside the loops.
LEMMA ReleaseChildKeepsIInv ==
    ASSUME IInv, NEW k \in Kind, NEW x \in Address[k], ReleaseChild(k, x)
    PROVE  IInv'
<1> USE Addresses DEF Ready, OnChild, ReleaseChild, Destroy
<1>1. PICK p \in First(slot[k], size[k], x) :
        slot' = [slot EXCEPT ![k] = Trim(Erase(slot[k], size[k], p), size[k] - 1)]
  OBVIOUS
<1>2. /\ owner' \in [Child -> Conn \cup {NullPtr}]
      /\ via' \in [Child -> Conn \cup {NullPtr, Orphan}]
      /\ rel' \in ReleaseFrame
  BY DEF IInv, TypeOK
<1>3. rel'.op = "none" OBVIOUS
<1>4. QED BY <1>1, <1>2, <1>3, DeleteKeepsIInv

LEMMA UseStepKeepsIInv == IInv /\ Use => IInv'
<1> SUFFICES ASSUME IInv, Use PROVE IInv' OBVIOUS
<1>1. /\ owner \in [Child -> Conn \cup {NullPtr}]
      /\ via \in [Child -> Conn \cup {NullPtr, Orphan}]
      /\ known \subseteq Stmt \cup {NullPtr}
      /\ heap \in {"sound", "corrupt"}
  BY DEF IInv, TypeOK
<1>2. ASSUME NEW s \in Stmt, NEW c \in Conn, OpenStatement(s, c) PROVE IInv'
  BY <1>1, <1>2, UseKeepsIInv DEF OpenStatement
<1>3. ASSUME NEW s \in Stmt, NEW c \in Conn, FailDirect(s, c) PROVE IInv'
  BY <1>1, <1>3, UseKeepsIInv DEF FailDirect
<1>4. ASSUME NEW s \in Stmt, CloseStatement(s) PROVE IInv'
  BY <1>1, <1>4, UseKeepsIInv DEF CloseStatement
<1>5. ASSUME NEW s \in Stmt, AskConnection(s) PROVE IInv'
  BY <1>1, <1>5, UseKeepsIInv DEF AskConnection
<1>6. ASSUME NEW s \in Stmt, UseLost(s) PROVE IInv'
  BY <1>1, <1>6, UseKeepsIInv DEF UseLost, Corrupt
<1>7. ASSUME UseZero PROVE IInv'
  BY <1>1, <1>7, UseKeepsIInv DEF UseZero, Corrupt
<1>8. ASSUME NEW k \in Kind, NEW x \in Address[k], ReleaseChild(k, x) PROVE IInv'
  BY <1>8, ReleaseChildKeepsIInv
<1>9. ASSUME NEW t \in Tnx, ReleaseTransaction(t) PROVE IInv'
  BY <1>8, <1>9, Addresses DEF ReleaseTransaction, Kind
<1>10. ASSUME NEW s \in Stmt, ReleaseStatement(s) PROVE IInv'
  BY <1>8, <1>10, Addresses DEF ReleaseStatement, Kind
<1>11. ASSUME NEW r \in Rslt, ReleaseResult(r) PROVE IInv'
  BY <1>8, <1>11, Addresses DEF ReleaseResult, Kind
<1>12. ASSUME NEW g \in Ctlg, ReleaseCatalog(g) PROVE IInv'
  BY <1>8, <1>12, Addresses DEF ReleaseCatalog, Kind
<1>13. QED
  BY <1>2, <1>3, <1>4, <1>5, <1>6, <1>7, <1>9, <1>10, <1>11, <1>12 DEF Use

\* While a loop runs the attachment has its resources.
LEMMA LoopsRunUp == IInv /\ (rel.op # "none" \/ exp.op # "none") => up
BY DEF IInv, DownIsEmpty, TypeOK

\* The frame a release of a connection starts with.
LEMMA FrameType ==
    ASSUME IInv, NEW c \in Conn, NEW o \in {"release", "expunge"}
    PROVE  Frame(o, c) \in ReleaseFrame /\ Frame(o, c).op = o /\ Frame(o, c).conn = c
<1>1. size["tnx"] \in 0 .. MaxSlots /\ 1 \in 1 .. MaxSlots + 1 BY Addresses DEF IInv, TypeOK
<1>2. Tame(c) \in BOOLEAN BY DEF Tame
<1>3. QED BY <1>1, <1>2 DEF Frame, ReleaseFrame, Kind

\* The fields of the two frames.
LEMMA Frames ==
    ASSUME IInv
    PROVE  /\ rel.at \in 1 .. MaxSlots + 1 /\ rel.end \in 0 .. MaxSlots
           /\ rel.kind \in Kind \cup {"done"} /\ rel.conn \in Conn \cup {NullPtr}
           /\ rel.at <= rel.end => rel.at \in Slots /\ rel.at + 1 \in 1 .. MaxSlots + 1
           /\ exp.at \in 1 .. MaxSlots + 1 /\ exp.end \in 0 .. MaxSlots
           /\ exp.at <= exp.end => exp.at \in Slots /\ exp.at + 1 \in 1 .. MaxSlots + 1
           /\ rel \in ReleaseFrame /\ exp \in ExpungeFrame
           /\ NoRelease \in ReleaseFrame /\ NoExpunge \in ExpungeFrame
<1>1. rel \in ReleaseFrame /\ exp \in ExpungeFrame BY DEF IInv, TypeOK
<1>2. MaxSlots \in Nat BY Addresses
<1>3. NoRelease \in ReleaseFrame /\ NoExpunge \in ExpungeFrame
  <2>1. 1 \in 1 .. MaxSlots + 1 /\ 0 \in 0 .. MaxSlots BY <1>2
  <2>2. QED BY <2>1 DEF NoRelease, NoExpunge, ReleaseFrame, ExpungeFrame
<1>4. QED BY <1>1, <1>2, <1>3 DEF ReleaseFrame, ExpungeFrame, Slots

LEMMA VisitChildKeepsIInv == IInv /\ VisitChild => IInv'
<1> SUFFICES ASSUME IInv, VisitChild PROVE IInv' OBVIOUS
<1> DEFINE k == rel.kind
           x == slot[rel.kind][rel.at]
<1>1. /\ rel.op # "none" /\ rel.kind # "done" /\ rel.at <= rel.end
      /\ x \in live /\ Destroy(x) /\ Unretain(k, x)
      /\ rel' = [rel EXCEPT !.at = @ + 1] /\ UNCHANGED <<up, heap, lost, known, leaked, exp>>
  BY DEF VisitChild, Walking
<1>2. k \in Kind /\ k \in Class /\ rel.at \in Slots BY <1>1, Frames, Addresses
<1>3. x \in live \cap Address[k] /\ x \notin Conn
  <2>1. x \in Address[k] \cup {NullPtr} BY <1>2 DEF IInv, SlotsHoldTheirClass
  <2>2. x # NullPtr BY <1>1, Addresses DEF IInv, TypeOK
  <2>3. QED BY <1>1, <1>2, <2>1, <2>2, Addresses
<1>4. PICK p \in First(slot[k], size[k], x) :
        slot' = [slot EXCEPT ![k] = Erase(slot[k], size[k], p)]
  BY <1>1 DEF Unretain
<1>5. /\ size' = [size EXCEPT ![k] = @ - 1] /\ live' = live \ {x}
      /\ owner' = [owner EXCEPT ![x] = NullPtr] /\ via' = [via EXCEPT ![x] = NullPtr]
  BY <1>1 DEF Unretain, Destroy
<1>6. /\ owner' \in [Child -> Conn \cup {NullPtr}]
      /\ via' \in [Child -> Conn \cup {NullPtr, Orphan}]
  BY <1>5 DEF IInv, TypeOK
<1>7. rel' \in ReleaseFrame /\ rel'.conn = rel.conn
  BY <1>1, Frames DEF ReleaseFrame
<1>8. rel'.conn \in live' \cap Conn
  BY <1>1, <1>3, <1>5, <1>7 DEF IInv, ReleasedIsAlive
<1>9. up BY <1>1, LoopsRunUp
<1> HIDE DEF k, x
<1>10. QED BY <1>1, <1>2, <1>3, <1>4, <1>5, <1>6, <1>7, <1>8, <1>9, DeleteKeepsIInv

LEMMA FinishReleaseKeepsIInv == IInv /\ FinishRelease => IInv'
<1> SUFFICES ASSUME IInv, FinishRelease PROVE IInv' OBVIOUS
<1> DEFINE x == rel.conn
<1>1. /\ rel.op # "none" /\ Unretain("conn", x) /\ live' = live \ {x}
      /\ via' = [y \in Child |-> IF via[y] = x THEN Orphan ELSE via[y]]
      /\ rel' = NoRelease /\ UNCHANGED <<up, heap, owner, lost, known, leaked, exp>>
  BY DEF FinishRelease, Walking
<1>2. x \in live \cap Address["conn"] /\ "conn" \in Class
  BY <1>1, Addresses DEF IInv, ReleasedIsAlive
<1>3. PICK p \in First(slot["conn"], size["conn"], x) :
        slot' = [slot EXCEPT !["conn"] = Erase(slot["conn"], size["conn"], p)]
  BY <1>1 DEF Unretain
<1>4. size' = [size EXCEPT !["conn"] = @ - 1] BY <1>1 DEF Unretain
<1>5. owner' \in [Child -> Conn \cup {NullPtr}] BY <1>1 DEF IInv, TypeOK
<1>6. via' \in [Child -> Conn \cup {NullPtr, Orphan}] BY <1>1 DEF IInv, TypeOK
<1>7. rel' \in ReleaseFrame /\ rel'.op = "none" BY <1>1, Frames DEF NoRelease
<1>8. up BY <1>1, LoopsRunUp
<1> HIDE DEF x
<1>9. QED BY <1>1, <1>2, <1>3, <1>4, <1>5, <1>6, <1>7, <1>8, DeleteKeepsIInv

LEMMA ReleaseStepKeepsIInv == IInv /\ Release => IInv'
<1> SUFFICES ASSUME IInv, Release PROVE IInv' OBVIOUS
<1>1. ASSUME NEW o \in {"release", "expunge"}, NEW c \in Conn, StartRelease(o, c)
      PROVE  IInv'
  <2>1. c \in live BY <1>1, ValidConnectionIsAlive DEF StartRelease, OnConnection
  <2>2. rel' \in ReleaseFrame /\ rel'.conn = c BY <1>1, FrameType DEF StartRelease
  <2>3. exp' \in ExpungeFrame BY <1>1, Frames DEF StartRelease
  <2>4. QED
    BY <1>1, <2>1, <2>2, <2>3, LoopKeepsIInv DEF StartRelease, OnConnection, Ready
<1>2. ASSUME VisitFreed PROVE IInv'
  <2>1. /\ owner \in [Child -> Conn \cup {NullPtr}]
        /\ via \in [Child -> Conn \cup {NullPtr, Orphan}]
        /\ known \subseteq Stmt \cup {NullPtr}
    BY DEF IInv, TypeOK
  <2>2. QED BY <1>2, <2>1, UseKeepsIInv DEF VisitFreed, Corrupt
<1>3. ASSUME VisitOther PROVE IInv'
  <2>1. up BY <1>3, LoopsRunUp DEF VisitOther, Walking
  <2>2. rel' \in ReleaseFrame /\ rel'.conn = rel.conn /\ rel'.op = rel.op
    BY <1>3, Frames DEF VisitOther, ReleaseFrame
  <2>3. rel'.op # "none" => rel'.conn \in live \cap Conn
    BY <2>2 DEF IInv, ReleasedIsAlive
  <2>4. QED BY <1>3, <2>1, <2>2, <2>3, Frames, LoopKeepsIInv DEF VisitOther
<1>4. ASSUME NextRegistry PROVE IInv'
  <2>1. up BY <1>4, LoopsRunUp DEF NextRegistry, Walking
  <2>2. rel.kind \in Class /\ rel.kind \in Kind BY <1>4, Frames, Addresses DEF NextRegistry
  <2>3. After[rel.kind] \in Kind \cup {"done"} BY <2>2 DEF Kind, After
  <2>4. (IF After[rel.kind] = "done" THEN 0 ELSE size[After[rel.kind]]) \in 0 .. MaxSlots
    BY <2>3, Addresses DEF IInv, TypeOK
  <2>5. 1 \in 1 .. MaxSlots + 1 BY Addresses
  <2>6. rel' \in ReleaseFrame /\ rel'.conn = rel.conn /\ rel'.op = rel.op
    BY <1>4, <2>3, <2>4, <2>5, Frames DEF NextRegistry, ReleaseFrame
  <2>7. rel'.op # "none" => rel'.conn \in live \cap Conn
    BY <2>6 DEF IInv, ReleasedIsAlive
  <2>8. slot' = [slot EXCEPT ![rel.kind] = Trim(slot[rel.kind], size[rel.kind])]
    BY <1>4 DEF NextRegistry
  <2>9. QED
    BY <1>4, <2>1, <2>2, <2>6, <2>7, <2>8, Frames, LoopKeepsIInv DEF NextRegistry
<1>5. ASSUME FinishExpungeConnection PROVE IInv'
  <2>1. up BY <1>5, LoopsRunUp DEF FinishExpungeConnection, Walking
  <2>2. rel'.op = "none" BY <1>5 DEF FinishExpungeConnection, NoRelease
  <2>3. QED BY <1>5, <2>1, <2>2, Frames, LoopKeepsIInv DEF FinishExpungeConnection
<1>6. QED
  BY <1>1, <1>2, <1>3, <1>4, <1>5, VisitChildKeepsIInv, FinishReleaseKeepsIInv DEF Release

LEMMA InitializeKeepsIInv == IInv /\ Initialize => IInv'
<1> SUFFICES ASSUME IInv, Initialize PROVE IInv' OBVIOUS
<1>1. /\ MaxSlots \in Nat /\ MaxSlots > 0 /\ 1 \in Slots /\ 1 \in 0 .. MaxSlots
      /\ "conn" \in Class /\ size \in [Class -> 0 .. MaxSlots]
      /\ slot \in [Class -> [Slots -> Object \cup {NullPtr}]]
  BY Addresses DEF IInv, TypeOK, Slots
<1>2. /\ rel.op = "none" /\ exp.op = "none"
      /\ \A k \in Class : size[k] = 0 /\ \A i \in Slots : slot[k][i] = NullPtr
  BY DEF IInv, DownIsEmpty, Initialize
<1>3. TypeOK' BY <1>1 DEF IInv, TypeOK, Initialize
<1>4. SlotsHoldTheirClass' BY DEF IInv, SlotsHoldTheirClass, Initialize
<1>5. DownIsEmpty' /\ ReleasedIsAlive'
  BY <1>2 DEF DownIsEmpty, ReleasedIsAlive, Initialize
<1>6. live \cap Object = {}
  <2>1. \A k \in Class : Retained(k) = {} BY <1>2 DEF Retained
  <2>2. \A k \in Class : live \cap Address[k] = {}
    BY <2>1 DEF IInv, Registries, LiveAreRetained
  <2>3. Object = Address["conn"] \cup Address["tnx"] \cup Address["stmt"]
                  \cup Address["rslt"] \cup Address["ctlg"]
    BY Addresses DEF Object, Child
  <2>4. QED BY <2>2, <2>3, Addresses
<1>7. \A k \in Class : size'[k] = (IF k = "conn" THEN 1 ELSE 0) /\ slot'[k] = slot[k]
  BY <1>1, <1>2 DEF Initialize
<1>8. \A k \in Class : Retained(k)' \subseteq {NullPtr}
  BY <1>1, <1>2, <1>7 DEF Retained
<1>9. LiveAreRetained' /\ DanglingAreLost'
  BY <1>6, <1>8, Addresses DEF LiveAreRetained, DanglingAreLost, Initialize
<1>10. TwiceOnlyLost'
  <2>1. \A k \in Class : \A i, j \in 1 .. size'[k] : i = j BY <1>7
  <2>2. QED BY <2>1 DEF TwiceOnlyLost
<1>11. QED BY <1>3, <1>4, <1>5, <1>9, <1>10 DEF IInv, Registries

LEMMA FinishFinalizeKeepsIInv == IInv /\ FinishFinalize => IInv'
<1> SUFFICES ASSUME IInv, FinishFinalize PROVE IInv' OBVIOUS
<1> USE DEF FinishFinalize, Expunging
<1>1. 0 \in 0 .. MaxSlots BY Addresses
<1>2. TypeOK'
  <2>1. size' \in [Class -> 0 .. MaxSlots] BY <1>1
  <2>2. slot' \in [Class -> [Slots -> Object \cup {NullPtr}]] OBVIOUS
  <2>3. owner' \in [Child -> Conn \cup {NullPtr}] OBVIOUS
  <2>4. via' \in [Child -> Conn \cup {NullPtr, Orphan}] OBVIOUS
  <2>5. exp' \in ExpungeFrame BY Frames
  <2>6. QED BY <2>1, <2>2, <2>3, <2>4, <2>5 DEF IInv, TypeOK
<1>3. SlotsHoldTheirClass' BY DEF SlotsHoldTheirClass
<1>4. DownIsEmpty' /\ ReleasedIsAlive'
  BY DEF DownIsEmpty, ReleasedIsAlive, NoExpunge
<1>5. \A k \in Class : size'[k] = 0 OBVIOUS
<1>6. \A k \in Class : Retained(k)' = {} BY <1>5 DEF Retained
<1>7. Registries'
  BY <1>5, <1>6 DEF Registries, LiveAreRetained, DanglingAreLost, TwiceOnlyLost
<1>8. QED BY <1>2, <1>3, <1>4, <1>7 DEF IInv

LEMMA ExpungeStepKeepsIInv == IInv /\ Expunge => IInv'
<1> SUFFICES ASSUME IInv, Expunge PROVE IInv' OBVIOUS
<1>1. ASSUME NEW o \in {"expunge", "finalize"}, StartExpunge(o) PROVE IInv'
  <2>1. size["conn"] \in 0 .. MaxSlots /\ 1 \in 1 .. MaxSlots + 1
    BY Addresses DEF IInv, TypeOK
  <2>2. exp' \in ExpungeFrame BY <1>1, <2>1 DEF StartExpunge, ExpungeFrame
  <2>3. QED BY <1>1, <2>2, Frames, LoopKeepsIInv DEF StartExpunge, Ready
<1>2. ASSUME VisitNull PROVE IInv'
  <2>1. up BY <1>2, LoopsRunUp DEF VisitNull, Expunging
  <2>2. exp' \in ExpungeFrame BY <1>2, Frames DEF VisitNull, ExpungeFrame
  <2>3. QED BY <1>2, <2>1, <2>2, Frames, LoopKeepsIInv DEF VisitNull, Expunging
<1>3. ASSUME VisitConnection PROVE IInv'
  <2> DEFINE c == slot["conn"][exp.at]
  <2>1. up BY <1>3, LoopsRunUp DEF VisitConnection, Expunging
  <2>2. c \in live \cap Conn
    <3>1. exp.at \in Slots BY <1>3, Frames DEF VisitConnection
    <3>2. c \in Conn \cup {NullPtr} BY <3>1, Addresses DEF IInv, SlotsHoldTheirClass
    <3>3. c \in live /\ live \subseteq Object BY <1>3 DEF VisitConnection, IInv, TypeOK
    <3>4. QED BY <3>2, <3>3, Addresses
  <2>3. rel' \in ReleaseFrame /\ rel'.conn = c
    BY <1>3, <2>2, FrameType DEF VisitConnection
  <2>4. Tame(c) \in BOOLEAN BY DEF Tame
  <2>5. exp' \in ExpungeFrame
    BY <1>3, <2>4, Frames DEF VisitConnection, ExpungeFrame
  <2>6. QED BY <1>3, <2>1, <2>2, <2>3, <2>5, LoopKeepsIInv DEF VisitConnection
<1>4. ASSUME VisitFreedConnection PROVE IInv'
  <2>1. /\ owner \in [Child -> Conn \cup {NullPtr}]
        /\ via \in [Child -> Conn \cup {NullPtr, Orphan}]
        /\ known \subseteq Stmt \cup {NullPtr}
    BY DEF IInv, TypeOK
  <2>2. QED BY <1>4, <2>1, UseKeepsIInv DEF VisitFreedConnection, Corrupt
<1>5. ASSUME FinishExpunge PROVE IInv'
  <2>1. up BY <1>5, LoopsRunUp DEF FinishExpunge, Expunging
  <2>2. slot' = [slot EXCEPT !["conn"] = Trim(slot["conn"], size["conn"])]
    BY <1>5 DEF FinishExpunge
  <2>3. "conn" \in Class BY Addresses
  <2>4. rel'.op = "none" BY <1>5 DEF FinishExpunge, Expunging
  <2>5. QED
    BY <1>5, <2>1, <2>2, <2>3, <2>4, Frames, LoopKeepsIInv DEF FinishExpunge, Expunging
<1>6. QED
  BY <1>1, <1>2, <1>3, <1>4, <1>5, FinishFinalizeKeepsIInv DEF Expunge

LEMMA StepKeepsIInv == IInv /\ [Next]_vars => IInv'
<1>1. IInv /\ Next => IInv'
  BY InitializeKeepsIInv, CreateKeepsIInv, UseStepKeepsIInv, ReleaseStepKeepsIInv,
     ExpungeStepKeepsIInv DEF Next
<1>2. ASSUME IInv, UNCHANGED vars PROVE IInv'
  <2>1. Registries' BY <1>2, SameRegistries DEF IInv, vars
  <2>2. TypeOK' /\ SlotsHoldTheirClass' /\ DownIsEmpty' /\ ReleasedIsAlive'
    BY <1>2
    DEF IInv, vars, TypeOK, SlotsHoldTheirClass, DownIsEmpty, ReleasedIsAlive
  <2>3. QED BY <2>1, <2>2 DEF IInv
<1>3. QED BY <1>1, <1>2

-----------------------------------------------------------------------------
(* Theorems.                                                                *)

\* The inductive invariant holds in every reachable state.
THEOREM Inductive == Spec => []IInv
<1>1. Init => IInv BY InitIInv
<1>2. IInv /\ [Next]_vars => IInv' BY StepKeepsIInv
<1>3. QED BY <1>1, <1>2, PTL DEF Spec

\* The variables of the attachment's resources keep their types, the frames of the
\* running loops included.
THEOREM TypeCorrect == Spec => []TypeOK
<1>1. IInv => TypeOK BY DEF IInv
<1>2. QED BY <1>1, Inductive, PTL

\* Whatever the calls, the loops of release and expunge and their faults do, every
\* object that exists stays in the registry of its class.
THEOREM NothingIsForgotten == Spec => []LiveAreRetained
<1>1. IInv => LiveAreRetained BY DEF IInv, Registries
<1>2. QED BY <1>1, Inductive, PTL

\* A pointer that valid() accepts points to an object, the null element of the
\* connections and the statements whose constructor failed excepted.
THEOREM ValidIsAlive == Spec => []DanglingAreLost
<1>1. IInv => DanglingAreLost BY DEF IInv, Registries
<1>2. QED BY <1>1, Inductive, PTL

\* Only the pointers of failed constructors are ever retained twice.
THEOREM OnceEach == Spec => []TwiceOnlyLost
<1>1. IInv => TwiceOnlyLost BY DEF IInv, Registries
<1>2. QED BY <1>1, Inductive, PTL

\* The loops of a release delete the connection and objects whose conn_ it is, and
\* no object of another connection.
THEOREM CascadeIsHome == Spec => CascadeStaysHome
<1> DEFINE Home == \A x \in live \ live' :
                      x = rel.conn \/ (x \in Child /\ owner[x] = rel.conn)
<1>1. ASSUME IInv, [Next]_vars, rel.op # "none" PROVE Home
  <2>1. up BY <1>1, LoopsRunUp
  <2>2. CASE VisitChild
    <3> DEFINE x == slot[rel.kind][rel.at]
    <3>1. live' = live \ {x} /\ owner[x] = rel.conn /\ x \in live
      BY <2>2 DEF VisitChild, Destroy
    <3>2. rel.kind \in Kind /\ rel.at \in Slots
      BY <1>1, <2>2, Frames DEF VisitChild
    <3>3. x \in Child
      <4>1. x \in Address[rel.kind] \cup {NullPtr}
        BY <1>1, <3>2, Addresses DEF IInv, SlotsHoldTheirClass
      <4>2. x # NullPtr BY <1>1, <3>1, Addresses DEF IInv, TypeOK
      <4>3. QED BY <3>2, <4>1, <4>2, Addresses
    <3>4. QED BY <3>1, <3>3
  <2>3. CASE FinishRelease BY <2>3 DEF FinishRelease
  <2>4. CASE live' = live BY <2>4
  <2>5. VisitChild \/ FinishRelease \/ live' = live
    BY <1>1, <2>1
    DEF Next, Create, Use, Release, Expunge, Initialize, NewConnection, NewOnConnection,
        NewTransaction, NewCatalog, ExecuteOnConnection, ReleaseTransaction,
        ReleaseStatement, ReleaseResult, ReleaseCatalog,
        NewStatement, NewStatementOn, LoseStatement, ExecuteStatement, ExecuteDirect,
        OpenStatement, FailDirect, CloseStatement, AskConnection, UseLost, UseZero,
        ReleaseChild, StartRelease, VisitFreed, VisitOther, NextRegistry,
        FinishExpungeConnection, StartExpunge, VisitNull, VisitConnection,
        VisitFreedConnection, FinishExpunge, FinishFinalize, OnConnection, OnChild,
        Ready, Corrupt, Expunging, vars
  <2>6. QED BY <2>2, <2>3, <2>4, <2>5
<1>2. IInv /\ [Next]_vars => [rel.op # "none" => Home]_vars BY <1>1
<1>3. QED BY <1>2, Inductive, PTL DEF Spec, CascadeStaysHome

-----------------------------------------------------------------------------
(* The shape of the registries, which the loops of a release rely on.       *)

\* The registries of the children hold no null pointer.
ChildrenOnly == \A k \in Kind : NullPtr \notin Retained(k)

\* The null element stays the first one of the connections.
NullIsFirst == up => size["conn"] >= 1 /\ slot["conn"][1] = NullPtr

Shape == ChildrenOnly /\ NullIsFirst

\* What a step does to the registries and their objects: it retains one pointer, it
\* deletes one object, it sets them up or gives them up, or the slots in use stay.
LEMMA StepForms ==
    ASSUME IInv, Next
    PROVE  \/ \E k \in Class : \E x \in Address[k] :
                Retain(k, x) /\ UNCHANGED <<up, rel, exp>> /\ Ready
           \/ \E k \in Class : \E x \in live \cap Address[k] :
                \E p \in First(slot[k], size[k], x) :
                    /\ \A l \in Class \ {k} : slot'[l] = slot[l] /\ size'[l] = size[l]
                    /\ size'[k] = size[k] - 1
                    /\ \A i \in 1 .. size[k] - 1 : slot'[k][i] = Erase(slot[k], size[k], p)[i]
                    /\ up' = up
           \/ Initialize
           \/ FinishFinalize
           \/ /\ \A k \in Class :
                    size'[k] = size[k] /\ \A i \in 1 .. size[k] : slot'[k][i] = slot[k][i]
              /\ up' = up
<1> DEFINE Kept == /\ \A k \in Class :
                        size'[k] = size[k] /\ \A i \in 1 .. size[k] : slot'[k][i] = slot[k][i]
                   /\ up' = up
           More == \E k \in Class : \E x \in Address[k] :
                        Retain(k, x) /\ UNCHANGED <<up, rel, exp>> /\ Ready
           Less == \E k \in Class : \E x \in live \cap Address[k] :
                        \E p \in First(slot[k], size[k], x) :
                            /\ \A l \in Class \ {k} : slot'[l] = slot[l] /\ size'[l] = size[l]
                            /\ size'[k] = size[k] - 1
                            /\ \A i \in 1 .. size[k] - 1 :
                                    slot'[k][i] = Erase(slot[k], size[k], p)[i]
                            /\ up' = up
<1>0. /\ slot \in [Class -> [Slots -> Object \cup {NullPtr}]]
      /\ size \in [Class -> 0 .. MaxSlots] /\ MaxSlots \in Nat
  BY Addresses DEF IInv, TypeOK
<1>1. ASSUME slot' = slot, size' = size, up' = up PROVE Kept BY <1>1
<1>2. ASSUME NEW k \in Class, slot' = [slot EXCEPT ![k] = Trim(slot[k], size[k])],
             size' = size, up' = up
      PROVE  Kept
  <2>1. \A i \in 1 .. size[k] : i \in Slots /\ i <= size[k] BY <1>0 DEF Slots
  <2>2. \A i \in 1 .. size[k] : Trim(slot[k], size[k])[i] = slot[k][i] BY <2>1 DEF Trim
  <2>3. QED BY <1>0, <1>2, <2>2
<1>3. ASSUME NEW k \in Class, NEW x \in live \cap Address[k],
             NEW p \in First(slot[k], size[k], x), NEW g,
             \A i \in 1 .. size[k] - 1 : g[i] = Erase(slot[k], size[k], p)[i],
             slot' = [slot EXCEPT ![k] = g], size' = [size EXCEPT ![k] = @ - 1], up' = up
      PROVE  Less
  <2>1. /\ \A l \in Class \ {k} : slot'[l] = slot[l] /\ size'[l] = size[l]
        /\ size'[k] = size[k] - 1 /\ slot'[k] = g
    BY <1>0, <1>3
  <2>2. QED BY <1>3, <2>1
<1> HIDE DEF Kept, More, Less
<1>4. Create => More \/ Kept
  <2>1. ASSUME NEW k \in Class, NEW x \in Address[k],
               Retain(k, x), UNCHANGED <<up, rel, exp>>, Ready
        PROVE  More
    BY <2>1 DEF More
  <2>2. \A k \in {"tnx", "stmt", "rslt", "ctlg", "conn"} : k \in Class BY Addresses
  <2>3. ASSUME NEW c \in Conn, NewConnection(c) PROVE More
    BY <2>1, <2>2, <2>3, Addresses DEF NewConnection
  <2>4. ASSUME NEW k \in Class, NEW x, NEW c, Construct(k, x, c), Ready PROVE More
    BY <2>1, <2>4 DEF Construct
  <2>5. ASSUME NEW k \in Class, NEW x, NEW c, NewOnConnection(k, x, c) PROVE More
    BY <2>4, <2>5 DEF NewOnConnection, OnConnection
  <2>6. ASSUME NEW s \in Stmt, NewStatement(s) PROVE More
    BY <2>2, <2>4, <2>6 DEF NewStatement
  <2>7. ASSUME NEW s \in Stmt, NEW c \in Conn, NewStatementOn(s, c) PROVE More
    BY <2>2, <2>4, <2>7 DEF NewStatementOn, OnConnection
  <2>8. ASSUME NEW s \in Stmt, NEW c \in Conn, LoseStatement(s, c) PROVE More
    BY <2>1, <2>2, <2>8, Addresses DEF LoseStatement, OnConnection
  <2>9. ASSUME NEW s \in Stmt, NEW r \in Rslt, ExecuteStatement(s, r) PROVE More
    BY <2>2, <2>4, <2>9 DEF ExecuteStatement, OnChild
  <2>10. ASSUME NEW s \in Stmt, NEW c \in Conn, NEW r \in Rslt, ExecuteDirect(s, c, r) PROVE More
    BY <2>1, <2>2, <2>10, Addresses DEF ExecuteDirect, OnChild
  <2>11. QED
    BY <2>2, <2>3, <2>5, <2>6, <2>7, <2>8, <2>9, <2>10
    DEF Create, NewTransaction, NewCatalog, ExecuteOnConnection
<1>5. Use => Less \/ Kept
  <2>1. ASSUME NEW k \in Kind, NEW x \in Address[k], ReleaseChild(k, x) PROVE Less
    <3>1. x \in live \cap Address[k] /\ up' = up /\ k \in Class
      BY <2>1, Addresses DEF ReleaseChild, OnChild
    <3>2. PICK p \in First(slot[k], size[k], x) :
            slot' = [slot EXCEPT ![k] = Trim(Erase(slot[k], size[k], p), size[k] - 1)]
      BY <2>1 DEF ReleaseChild
    <3>3. \A i \in 1 .. size[k] - 1 :
            Trim(Erase(slot[k], size[k], p), size[k] - 1)[i] = Erase(slot[k], size[k], p)[i]
      <4>1. size[k] \in 0 .. MaxSlots BY <1>0, <3>1
      <4>2. \A i \in 1 .. size[k] - 1 : i \in Slots /\ i <= size[k] - 1
        BY <1>0, <4>1 DEF Slots
      <4>3. QED BY <4>2 DEF Trim
    <3>4. size' = [size EXCEPT ![k] = @ - 1] BY <2>1 DEF ReleaseChild
    <3>5. QED BY <1>3, <3>1, <3>2, <3>3, <3>4
  <2>2. \/ \E t \in Tnx : ReleaseTransaction(t)
        \/ \E s \in Stmt : ReleaseStatement(s)
        \/ \E r \in Rslt : ReleaseResult(r)
        \/ \E g \in Ctlg : ReleaseCatalog(g)
        => Less
    BY <2>1, Addresses
    DEF ReleaseTransaction, ReleaseStatement, ReleaseResult, ReleaseCatalog, Kind
  <2>3. Use => \/ \E t \in Tnx : ReleaseTransaction(t)
               \/ \E s \in Stmt : ReleaseStatement(s)
               \/ \E r \in Rslt : ReleaseResult(r)
               \/ \E g \in Ctlg : ReleaseCatalog(g)
               \/ slot' = slot /\ size' = size /\ up' = up
    BY DEF Use, OpenStatement, FailDirect, CloseStatement, AskConnection, UseLost, UseZero,
           Corrupt
  <2>4. QED BY <1>1, <2>2, <2>3
<1>6. Release => Less \/ Kept
  <2>1. ASSUME VisitChild PROVE Less
    <3> DEFINE k == rel.kind
               x == slot[rel.kind][rel.at]
    <3>1. k \in Kind /\ k \in Class /\ rel.at \in Slots
      BY <2>1, Frames, Addresses DEF VisitChild
    <3>2. x \in live /\ up' = up /\ Unretain(k, x) BY <2>1 DEF VisitChild
    <3>3. x \in live \cap Address[k]
      <4>1. x \in Address[k] \cup {NullPtr} BY <3>1 DEF IInv, SlotsHoldTheirClass
      <4>2. x # NullPtr BY <3>2, Addresses DEF IInv, TypeOK
      <4>3. QED BY <3>2, <4>1, <4>2
    <3> HIDE DEF k, x
    <3>4. PICK p \in First(slot[k], size[k], x) :
            slot' = [slot EXCEPT ![k] = Erase(slot[k], size[k], p)]
      BY <3>2 DEF Unretain
    <3>5. size' = [size EXCEPT ![k] = @ - 1] BY <3>2 DEF Unretain
    <3>6. QED BY <1>3, <3>1, <3>2, <3>3, <3>4, <3>5
  <2>2. ASSUME FinishRelease PROVE Less
    <3> DEFINE x == rel.conn
    <3>1. x \in live \cap Address["conn"] /\ up' = up /\ Unretain("conn", x) /\ "conn" \in Class
      BY <2>2, Addresses DEF FinishRelease, Walking, IInv, ReleasedIsAlive
    <3> HIDE DEF x
    <3>2. PICK p \in First(slot["conn"], size["conn"], x) :
            slot' = [slot EXCEPT !["conn"] = Erase(slot["conn"], size["conn"], p)]
      BY <3>1 DEF Unretain
    <3>3. size' = [size EXCEPT !["conn"] = @ - 1] BY <3>1 DEF Unretain
    <3>4. QED BY <1>3, <3>1, <3>2, <3>3
  <2>3. ASSUME NextRegistry PROVE Kept
    <3>1. rel.kind \in Class BY <2>3, Frames, Addresses DEF NextRegistry
    <3>2. QED BY <1>2, <2>3, <3>1 DEF NextRegistry
  <2>4. QED
    BY <1>1, <2>1, <2>2, <2>3
    DEF Release, StartRelease, VisitFreed, VisitOther, FinishExpungeConnection, Corrupt
<1>7. Expunge => FinishFinalize \/ Kept
  <2>1. ASSUME FinishExpunge PROVE Kept
    <3>1. "conn" \in Class BY Addresses
    <3>2. QED BY <1>2, <2>1, <3>1 DEF FinishExpunge
  <2>2. QED
    BY <1>1, <2>1
    DEF Expunge, StartExpunge, VisitNull, VisitConnection, VisitFreedConnection, Corrupt
<1>8. QED BY <1>4, <1>5, <1>6, <1>7 DEF Next, Kept, More, Less

LEMMA StepKeepsShape == IInv /\ Shape /\ [Next]_vars => Shape'
<1> SUFFICES ASSUME IInv, Shape, [Next]_vars PROVE Shape' OBVIOUS
<1>0. /\ size \in [Class -> 0 .. MaxSlots] /\ MaxSlots \in Nat
      /\ slot \in [Class -> [Slots -> Object \cup {NullPtr}]]
      /\ "conn" \in Class /\ Kind \subseteq Class
  BY Addresses DEF IInv, TypeOK
<1>1. ASSUME NEW k \in Class, NEW x \in Address[k], Retain(k, x), up' = up PROVE Shape'
  <2>1. /\ size[k] + 1 \in Slots /\ size'[k] = size[k] + 1 /\ slot'[k][size[k] + 1] = x
        /\ \A i \in 1 .. size[k] : slot'[k][i] = slot[k][i]
        /\ \A l \in Class : l # k => slot'[l] = slot[l] /\ size'[l] = size[l]
    BY <1>0, <1>1 DEF Retain, Slots
  <2>2. x # NullPtr BY Addresses
  <2>3. ASSUME NEW l \in Kind, NullPtr \in Retained(l)' PROVE FALSE
    <3>1. PICK i \in 1 .. size'[l] : slot'[l][i] = NullPtr BY <2>3 DEF Retained
    <3>2. l = k BY <1>0, <2>1, <3>1 DEF Shape, ChildrenOnly, Retained
    <3>3. i # size[k] + 1 BY <2>1, <2>2, <3>1, <3>2
    <3>4. i \in 1 .. size[k]
      <4>1. i \in 1 .. size[k] + 1 BY <2>1, <3>1, <3>2
      <4>2. size[k] \in Nat BY <1>0
      <4>3. QED BY <3>3, <4>1, <4>2
    <3>5. slot[l][i] = NullPtr BY <2>1, <3>1, <3>2, <3>4
    <3>6. QED BY <3>2, <3>4, <3>5 DEF Shape, ChildrenOnly, Retained
  <2>4. NullIsFirst'
    <3>1. CASE k = "conn"
      <4>1. up => 1 \in 1 .. size[k] BY <1>0, <3>1 DEF Shape, NullIsFirst
      <4>2. QED BY <1>0, <1>1, <2>1, <3>1, <4>1 DEF Shape, NullIsFirst
    <3>2. CASE k # "conn" BY <1>0, <1>1, <2>1, <3>2 DEF Shape, NullIsFirst
    <3>3. QED BY <3>1, <3>2
  <2>5. QED BY <2>3, <2>4 DEF Shape, ChildrenOnly
<1>2. ASSUME NEW k \in Class, NEW x \in live \cap Address[k],
             NEW p \in First(slot[k], size[k], x),
             \A l \in Class \ {k} : slot'[l] = slot[l] /\ size'[l] = size[l],
             size'[k] = size[k] - 1,
             \A i \in 1 .. size[k] - 1 : slot'[k][i] = Erase(slot[k], size[k], p)[i],
             up' = up
      PROVE  Shape'
  <2>1. p \in 1 .. size[k] /\ slot[k][p] = x BY DEF First
  <2>2. size[k] \in 1 .. MaxSlots BY <1>0, <2>1
  <2>3. \A i \in 1 .. size[k] - 1 :
            slot'[k][i] = IF i < p THEN slot[k][i] ELSE slot[k][i + 1]
    BY <1>2, <2>1, <2>2, EraseShifts
  <2>4. x # NullPtr BY Addresses
  <2>5. ASSUME NEW l \in Kind, NullPtr \in Retained(l)' PROVE FALSE
    <3>1. PICK i \in 1 .. size'[l] : slot'[l][i] = NullPtr BY <2>5 DEF Retained
    <3>2. l = k BY <1>0, <1>2, <3>1 DEF Shape, ChildrenOnly, Retained
    <3>3. PICK j \in 1 .. size[k] : slot[k][j] = NullPtr
      <4>1. i \in 1 .. size[k] /\ i + 1 \in 1 .. size[k] /\ i \in 1 .. size[k] - 1
        BY <1>0, <1>2, <2>2, <3>1, <3>2
      <4>2. QED BY <2>3, <3>1, <3>2, <4>1
    <3>4. QED BY <3>2, <3>3 DEF Shape, ChildrenOnly, Retained
  <2>6. NullIsFirst'
    <3>1. CASE k = "conn" /\ up
      <4>1. slot[k][1] = NullPtr BY <3>1 DEF Shape, NullIsFirst
      <4>2. p # 1 BY <2>1, <2>4, <4>1
      <4>3. 1 \in 1 .. size[k] - 1 /\ 1 < p BY <1>0, <2>1, <2>2, <4>2
      <4>4. slot'[k][1] = NullPtr BY <2>3, <4>1, <4>3
      <4>5. size'[k] >= 1 BY <1>2, <2>2, <4>3
      <4>6. QED BY <3>1, <4>4, <4>5 DEF NullIsFirst
    <3>2. CASE k # "conn" BY <1>0, <1>2, <3>2 DEF Shape, NullIsFirst
    <3>3. CASE ~up BY <1>2, <3>3 DEF NullIsFirst
    <3>4. QED BY <3>1, <3>2, <3>3
  <2>7. QED BY <2>5, <2>6 DEF Shape, ChildrenOnly
<1>3. ASSUME Initialize PROVE Shape'
  <2>1. \A k \in Class : size[k] = 0 /\ \A i \in Slots : slot[k][i] = NullPtr
    BY <1>3 DEF IInv, DownIsEmpty, Initialize
  <2>2. \A k \in Kind : size'[k] = 0 BY <1>0, <1>3, <2>1, Addresses DEF Initialize, Kind
  <2>3. \A k \in Kind : Retained(k)' = {} BY <2>2 DEF Retained
  <2>4. size'["conn"] = 1 /\ slot'["conn"][1] = NullPtr
    BY <1>0, <1>3, <2>1, Addresses DEF Initialize, Slots
  <2>5. QED BY <2>3, <2>4 DEF Shape, ChildrenOnly, NullIsFirst
<1>4. ASSUME FinishFinalize PROVE Shape'
  <2>1. \A k \in Kind : size'[k] = 0 BY <1>0, <1>4 DEF FinishFinalize
  <2>2. \A k \in Kind : Retained(k)' = {} BY <2>1 DEF Retained
  <2>3. QED BY <1>4, <2>2 DEF Shape, ChildrenOnly, NullIsFirst, FinishFinalize
<1>5. ASSUME \A k \in Class : size'[k] = size[k] /\ \A i \in 1 .. size[k] : slot'[k][i] = slot[k][i],
             up' = up
      PROVE  Shape'
  <2>1. \A k \in Kind : Retained(k)' = Retained(k) BY <1>0, <1>5 DEF Retained
  <2>2. up => 1 \in 1 .. size["conn"] BY <1>0 DEF Shape, NullIsFirst
  <2>3. QED BY <1>0, <1>5, <2>1, <2>2 DEF Shape, ChildrenOnly, NullIsFirst
<1>6. CASE UNCHANGED vars
  BY <1>5, <1>6 DEF vars
<1>7. CASE Next
  BY <1>1, <1>2, <1>3, <1>4, <1>5, <1>7, StepForms
<1>8. QED BY <1>6, <1>7

\* The registries of the children hold no null pointer, and the null element is the
\* first of the connections.
LEMMA ShapeHolds == Spec => [](IInv /\ Shape)
<1>1. Init => Shape
  <2>1. SUFFICES ASSUME Init PROVE Shape OBVIOUS
  <2>2. \A k \in Kind : Retained(k) = {} BY <2>1, Addresses DEF Init, Retained
  <2>3. QED BY <2>1, <2>2 DEF Init, Shape, ChildrenOnly, NullIsFirst
<1>2. IInv /\ Shape /\ [Next]_vars => Shape' BY StepKeepsShape
<1>3. QED BY <1>1, <1>2, InitIInv, StepKeepsIInv, PTL DEF Spec

-----------------------------------------------------------------------------
(* A release, seen from one registry: which layouts its loop can walk.      *)

\* The slots of the children of c.
Mine(k, c) == {i \in 1 .. size[k] : owner[slot[k][i]] = c}

\* The pointers of a registry are there once each and none dangles.
Clean(k) ==
    /\ \A i \in 1 .. size[k] : slot[k][i] \in live
    /\ \A i, j \in 1 .. size[k] : slot[k][i] = slot[k][j] => i = j

\* What Tame asks of the slots M of the children among the n in use.
Even(n, M) ==
    \/ (\A i \in M : i + 1 \notin M) /\ (n \in M => M = {n})
    \/ M = {n - 1, n}

Layout(k, c) == Clean(k) /\ Even(size[k], Mine(k, c))

\* From the last slot in use on, every slot a loop up to e may read is the same.
Tail(f, n, e) == \A j \in n .. e : f[j] = f[n]

\* The states of a loop at slot a that ends well: no child is at the end, one is, two
\* are, one of these two is deleted, or no child is left.
Good(f, n, M, a, e) ==
    /\ n <= e
    /\ \/ n >= 1 /\ Tail(f, n, e) /\ n \notin M /\ \A i \in M : i >= a /\ i + 1 \notin M
       \/ n = e /\ M = {n} /\ a <= n
       \/ n = e /\ M = {n - 1, n} /\ a <= n - 1
       \/ n = e - 1 /\ M = {n} /\ a = e /\ f[e] = f[n]
       \/ M = {} /\ a > e

\* The states of a loop that does not, though it has missed nothing so far.
Bad(f, n, M, a, e) ==
    /\ n >= 1 /\ Tail(f, n, e)
    /\ \/ /\ n <= e /\ \A i \in M : i >= a
          /\ n \in M \/ \E i \in M : i + 1 \in M
          /\ n = e => M # {n} /\ M # {n - 1, n}
       \/ a = n + 1 /\ n + 2 <= e /\ M = {n}

Walkable(k) == Clean(k) /\ Good(slot[k], size[k], Mine(k, rel.conn), rel.at, rel.end)

\* The loop has lost sight of a child, will read a freed pointer, or will come to that.
Hopeless(k) ==
    /\ size[k] <= rel.end
    /\ \/ \E y \in live \cap Address[k] :
            owner[y] = rel.conn /\ \A j \in rel.at .. rel.end : slot[k][j] # y
       \/ \E j \in rel.at .. rel.end : slot[k][j] \notin live
       \/ Bad(slot[k], size[k], Mine(k, rel.conn), rel.at, rel.end)

\* No child is left in a registry.
Walked(k) == \A x \in live \cap Address[k] : owner[x] # rel.conn

\* The order in which the registries are walked.
Turn == [tnx |-> 1, stmt |-> 2, rslt |-> 3, ctlg |-> 4, done |-> 5]

\* A registry that does the release no harm, and one that does.
Fine(k) ==
    /\ Turn[k] < Turn[rel.kind] => Walked(k)
    /\ k = rel.kind => Walkable(k)
    /\ Turn[k] > Turn[rel.kind] => Layout(k, rel.conn)

Spoilt(k) ==
    /\ Turn[k] < Turn[rel.kind] => ~Walked(k)
    /\ k = rel.kind => Hopeless(k)
    /\ Turn[k] > Turn[rel.kind] => ~Layout(k, rel.conn)

\* What the running release will come to.
Foreseen ==
    rel.op # "none" =>
        /\ rel.tame => heap = "sound" /\ \A k \in Kind : Fine(k)
        /\ ~rel.tame /\ lost = {} /\ heap = "sound" => \E k \in Kind : Spoilt(k)

-----------------------------------------------------------------------------
(* The steps of a loop over the slots f, of which n are in use and those in *)
(* M hold the children, at slot a of e.                                     *)

\* A loop that ends well reads no freed pointer.
LEMMA GoodReads ==
    ASSUME NEW f, NEW n \in Nat, NEW M \in SUBSET (1 .. n), NEW a \in Nat \ {0}, NEW e \in Nat,
           Good(f, n, M, a, e), a <= e
    PROVE  \E i \in 1 .. n : f[a] = f[i]
<1>1. CASE a <= n BY <1>1
<1>2. CASE a > n
  <2>1. CASE n >= 1 /\ Tail(f, n, e) BY <1>2, <2>1 DEF Tail
  <2>2. CASE n = e - 1 /\ M = {n} /\ a = e /\ f[e] = f[n] BY <2>2
  <2>3. QED BY <1>2, <2>1, <2>2 DEF Good
<1>3. QED BY <1>1, <1>2

\* It has no child left when it has come to its end.
LEMMA GoodEnds ==
    ASSUME NEW f, NEW n \in Nat, NEW M \in SUBSET (1 .. n), NEW a \in Nat, NEW e \in Nat,
           Good(f, n, M, a, e), a > e
    PROVE  M = {}
BY DEF Good

\* Going past an object that is no child.
LEMMA GoodGoesOn ==
    ASSUME NEW f, NEW n \in Nat, NEW M \in SUBSET (1 .. n), NEW a \in Nat \ {0}, NEW e \in Nat,
           Good(f, n, M, a, e), a <= e, \A i \in M : f[i] # f[a]
    PROVE  Good(f, n, M, a + 1, e)
<1>1. a \notin M OBVIOUS
<1>2. CASE n >= 1 /\ Tail(f, n, e) /\ n \notin M /\ \A i \in M : i >= a /\ i + 1 \notin M
  BY <1>1, <1>2 DEF Good
<1>3. CASE n = e /\ M = {n} /\ a <= n
  <2>1. a + 1 <= n BY <1>1, <1>3
  <2>2. QED BY <1>3, <2>1 DEF Good
<1>4. CASE n = e /\ M = {n - 1, n} /\ a <= n - 1
  <2>1. a + 1 <= n - 1 BY <1>1, <1>4
  <2>2. QED BY <1>4, <2>1 DEF Good
<1>5. QED BY <1>2, <1>3, <1>4 DEF Good

\* Deleting a child: the slots after the first with its pointer move down.
LEMMA GoodDeletes ==
    ASSUME NEW f, NEW n \in Nat, NEW M \in SUBSET (1 .. n), NEW a \in Nat \ {0}, NEW e \in Nat,
           NEW g, NEW N \in SUBSET (1 .. n - 1), NEW p \in 1 .. n,
           Good(f, n, M, a, e), a <= e, p \in M, f[p] = f[a],
           \A i, j \in 1 .. n : f[i] = f[j] => i = j,
           \A i \in 1 .. n - 1 : g[i] = IF i < p THEN f[i] ELSE f[i + 1],
           \A i \in n .. e : g[i] = f[i],
           \A i \in 1 .. n - 1 : i \in N <=> (IF i < p THEN i ELSE i + 1) \in M
    PROVE  Good(g, n - 1, N, a + 1, e)
<1>1. a <= n => p = a OBVIOUS
<1>2. CASE n >= 1 /\ Tail(f, n, e) /\ n \notin M /\ \A i \in M : i >= a /\ i + 1 \notin M
  <2>1. n <= e /\ f[n] \in {f[n]} BY DEF Good
  <2>2. a < n /\ p = a
    <3>1. CASE a > n
      <4>1. f[a] = f[n] BY <1>2, <3>1 DEF Tail
      <4>2. QED BY <1>2, <4>1
    <3>2. QED BY <1>1, <1>2, <3>1
  <2>3. g[n - 1] = f[n] BY <2>2
  <2>4. Tail(g, n - 1, e)
    <3>1. ASSUME NEW j \in n - 1 .. e PROVE g[j] = f[n]
      <4>1. CASE j = n - 1 BY <2>3, <4>1
      <4>2. CASE j # n - 1
        <5>1. j \in n .. e BY <4>2
        <5>2. QED BY <1>2, <5>1 DEF Tail
      <4>3. QED BY <4>1, <4>2
    <3>2. QED BY <2>3, <3>1 DEF Tail
  <2>5. n - 1 \notin N BY <1>2, <2>2
  <2>6. ASSUME NEW i \in N PROVE i >= a + 1 /\ i + 1 \notin N
    <3>1. i \in 1 .. n - 1 OBVIOUS
    <3>2. ~(i < p) /\ i + 1 \in M BY <1>2, <2>2, <3>1
    <3>3. i # a BY <1>2, <2>2, <3>2
    <3>4. i >= a + 1 BY <2>2, <3>1, <3>2, <3>3
    <3>5. i + 1 \notin N
      <4>1. SUFFICES ASSUME i + 1 \in N PROVE FALSE OBVIOUS
      <4>2. i + 1 \in 1 .. n - 1 /\ ~(i + 1 < p) BY <3>2, <4>1
      <4>3. (i + 1) + 1 \in M BY <4>1, <4>2
      <4>4. QED BY <1>2, <3>2, <4>3
    <3>6. QED BY <3>4, <3>5
  <2>7. QED BY <2>1, <2>2, <2>4, <2>5, <2>6 DEF Good
<1>3. CASE n = e /\ M = {n} /\ a <= n
  <2>1. p = n /\ a = n BY <1>1, <1>3
  <2>2. N = {} BY <1>3, <2>1
  <2>3. QED BY <1>3, <2>1, <2>2 DEF Good
<1>4. CASE n = e /\ M = {n - 1, n} /\ a <= n - 1
  <2>1. p = n - 1 /\ a = n - 1 /\ n - 1 \in 1 .. n BY <1>1, <1>4
  <2>2. N = {n - 1}
    <3>1. ASSUME NEW i \in 1 .. n - 1 PROVE i \in N <=> i = n - 1 BY <1>4, <2>1
    <3>2. n - 1 \in 1 .. n - 1 BY <2>1
    <3>3. QED BY <3>1, <3>2
  <2>3. g[n - 1] = f[n] /\ g[e] = f[n] BY <1>4, <2>1
  <2>4. QED BY <1>4, <2>1, <2>2, <2>3 DEF Good
<1>5. CASE n = e - 1 /\ M = {n} /\ a = e /\ f[e] = f[n]
  <2>1. p = n BY <1>5
  <2>2. N = {} BY <1>5, <2>1
  <2>3. QED BY <1>5, <2>1, <2>2 DEF Good
<1>6. CASE M = {} /\ a > e BY <1>6
<1>7. QED BY <1>2, <1>3, <1>4, <1>5, <1>6 DEF Good

\* A bad loop has more to read, and what is no child keeps it bad.
LEMMA BadGoesOn ==
    ASSUME NEW f, NEW n \in Nat, NEW M \in SUBSET (1 .. n), NEW a \in Nat \ {0}, NEW e \in Nat,
           Bad(f, n, M, a, e)
    PROVE  /\ a <= e
           /\ (\A i \in M : f[i] # f[a]) => Bad(f, n, M, a + 1, e)
<1>1. CASE /\ n <= e /\ \A i \in M : i >= a
           /\ n \in M \/ \E i \in M : i + 1 \in M
           /\ n = e => M # {n} /\ M # {n - 1, n}
  <2>1. a <= e BY <1>1
  <2>2. ASSUME \A i \in M : f[i] # f[a] PROVE Bad(f, n, M, a + 1, e)
    <3>1. \A i \in M : i >= a + 1 BY <1>1, <2>2
    <3>2. QED BY <1>1, <3>1 DEF Bad
  <2>3. QED BY <2>1, <2>2
<1>2. CASE a = n + 1 /\ n + 2 <= e /\ M = {n}
  <2>1. f[a] = f[n] BY <1>2 DEF Bad, Tail
  <2>2. QED BY <1>2, <2>1
<1>3. QED BY <1>1, <1>2 DEF Bad

\* Deleting a child in a bad loop: it stays bad, it will not see another child again, or
\* the pointer it freed is still before it.
LEMMA BadDeletes ==
    ASSUME NEW f, NEW n \in Nat, NEW M \in SUBSET (1 .. n), NEW a \in Nat \ {0}, NEW e \in Nat,
           NEW g, NEW N \in SUBSET (1 .. n - 1), NEW p \in 1 .. n,
           Bad(f, n, M, a, e), p \in M, f[p] = f[a],
           \A i, j \in 1 .. n : f[i] = f[j] => i = j,
           \A i \in 1 .. n - 1 : g[i] = IF i < p THEN f[i] ELSE f[i + 1],
           \A i \in n .. e : g[i] = f[i],
           \A i \in 1 .. n - 1 : i \in N <=> (IF i < p THEN i ELSE i + 1) \in M
    PROVE  \/ Bad(g, n - 1, N, a + 1, e)
           \/ \E i \in N : \A j \in a + 1 .. e : g[j] # g[i]
           \/ a + 1 <= e /\ g[e] = f[p]
<1>1. n >= 1 /\ n <= e /\ Tail(f, n, e) BY DEF Bad
<1>2. g[e] = f[n] BY <1>1 DEF Tail
<1>3. CASE p = n /\ a + 1 <= e BY <1>2, <1>3
<1>4. CASE a = n + 1 /\ n + 2 <= e /\ M = {n} BY <1>3, <1>4
<1>5. CASE /\ n <= e /\ \A i \in M : i >= a
           /\ n \in M \/ \E i \in M : i + 1 \in M
           /\ n = e => M # {n} /\ M # {n - 1, n}
           /\ ~(p = n /\ a + 1 <= e)
  <2>1. a <= n /\ p = a BY <1>5
  <2>2. a < n
    <3>1. SUFFICES ASSUME a = n PROVE FALSE BY <2>1
    <3>2. n = e BY <1>5, <2>1, <3>1
    <3>3. n \in M BY <2>1, <3>1
    <3>4. \A i \in M : i = n BY <1>5, <3>1
    <3>5. M = {n} BY <3>3, <3>4
    <3>6. QED BY <1>5, <3>2, <3>5
  <2>3. g[n - 1] = f[n] /\ n - 1 >= 1 /\ n - 1 \in Nat BY <2>1, <2>2
  <2>4. Tail(g, n - 1, e)
    <3>1. ASSUME NEW j \in n - 1 .. e PROVE g[j] = f[n]
      <4>1. CASE j = n - 1 BY <2>3, <4>1
      <4>2. CASE j # n - 1
        <5>1. j \in n .. e BY <4>2
        <5>2. QED BY <1>1, <5>1 DEF Tail
      <4>3. QED BY <4>1, <4>2
    <3>2. QED BY <2>3, <3>1 DEF Tail
  <2>5. \A i \in N : i >= a /\ i + 1 \in M
    <3>1. ASSUME NEW i \in N PROVE i >= a /\ i + 1 \in M
      <4>1. i \in 1 .. n - 1 OBVIOUS
      <4>2. CASE i < p BY <1>5, <2>1, <4>1, <4>2
      <4>3. QED BY <2>1, <4>1, <4>2
    <3>2. QED BY <3>1
  <2>6. CASE a + 1 \notin M
    <3>1. \A i \in N : i >= a + 1 BY <2>1, <2>5, <2>6
    <3>2. n - 1 \in N \/ \E i \in N : i + 1 \in N
      <4>1. CASE n \in M
        <5>1. n - 1 \in 1 .. n - 1 /\ ~(n - 1 < p) BY <2>1, <2>2, <2>3
        <5>2. QED BY <4>1, <5>1
      <4>2. ASSUME NEW i \in M, i + 1 \in M PROVE \E j \in N : j + 1 \in N
        <5>1. i # a /\ i >= a BY <1>5, <2>6, <4>2
        <5>2. i - 1 \in 1 .. n - 1 /\ ~(i - 1 < p) /\ (i - 1) + 1 = i /\ i \in 1 .. n - 1 /\ ~(i < p)
          BY <2>1, <4>2, <5>1
        <5>3. i - 1 \in N /\ i \in N BY <4>2, <5>2
        <5>4. QED BY <5>2, <5>3
      <4>3. QED BY <1>5, <4>1, <4>2
    <3>3. QED BY <1>1, <2>3, <2>4, <3>1, <3>2 DEF Bad
  <2>7. CASE a + 1 \in M /\ a + 1 = n
    <3>1. M = {n - 1, n}
      <4>1. n - 1 \in M /\ n \in M BY <2>1, <2>3, <2>7
      <4>2. \A i \in M : i = n - 1 \/ i = n BY <1>5, <2>7
      <4>3. QED BY <4>1, <4>2
    <3>2. n < e BY <1>1, <1>5, <3>1
    <3>3. N = {n - 1}
      <4>1. n - 1 \in N
        <5>1. n - 1 \in 1 .. n - 1 /\ ~(n - 1 < p) BY <2>1, <2>2, <2>3
        <5>2. QED BY <2>7, <5>1
      <4>2. \A i \in N : i = n - 1 BY <2>5, <2>7
      <4>3. QED BY <4>1, <4>2
    <3>4. a + 1 = (n - 1) + 1 /\ (n - 1) + 2 <= e BY <2>7, <3>2
    <3>5. QED BY <2>3, <2>4, <3>3, <3>4 DEF Bad
  <2>8. CASE a + 1 \in M /\ a + 1 < n
    <3>1. a \in N
      <4>1. a \in 1 .. n - 1 /\ ~(a < p) BY <2>1, <2>2
      <4>2. QED BY <2>8, <4>1
    <3>2. g[a] = f[a + 1] BY <2>1, <2>2
    <3>3. ASSUME NEW j \in a + 1 .. e PROVE g[j] # f[a + 1]
      <4>1. CASE j <= n - 1
        <5>1. g[j] = f[j + 1] /\ j + 1 \in 1 .. n /\ a + 1 \in 1 .. n /\ j + 1 # a + 1
          BY <2>1, <2>8, <4>1
        <5>2. QED BY <5>1
      <4>2. CASE j >= n
        <5>1. g[j] = f[n] BY <1>1, <4>2 DEF Tail
        <5>2. QED BY <2>8, <5>1
      <4>3. QED BY <4>1, <4>2
    <3>4. QED BY <3>1, <3>2, <3>3
  <2>9. QED BY <2>2, <2>6, <2>7, <2>8
<1>6. QED BY <1>3, <1>4, <1>5 DEF Bad

\* Where a loop starts.
LEMMA LoopStarts ==
    ASSUME NEW f, NEW n \in Nat, NEW M \in SUBSET (1 .. n)
    PROVE  /\ Even(n, M) => Good(f, n, M, 1, n)
           /\ ~Even(n, M) => Bad(f, n, M, 1, n)
<1>1. Tail(f, n, n) BY DEF Tail
<1>2. n = 0 => M = {} OBVIOUS
<1>3. ASSUME Even(n, M) PROVE Good(f, n, M, 1, n)
  <2>1. CASE n \notin M
    <3>1. CASE n = 0 BY <1>2, <3>1 DEF Good
    <3>2. CASE n >= 1
      <4>1. \A i \in M : i >= 1 /\ i + 1 \notin M
        <5>1. M # {n - 1, n} BY <2>1
        <5>2. QED BY <1>3, <5>1 DEF Even
      <4>2. QED BY <1>1, <2>1, <3>2, <4>1 DEF Good
    <3>3. QED BY <3>1, <3>2
  <2>2. CASE M = {n}
    <3>1. 1 <= n BY <2>2
    <3>2. QED BY <2>2, <3>1 DEF Good
  <2>3. CASE M = {n - 1, n}
    <3>1. n - 1 \in 1 .. n BY <2>3
    <3>2. 1 <= n - 1 BY <3>1
    <3>3. QED BY <2>3, <3>2 DEF Good
  <2>4. QED BY <1>3, <2>1, <2>2, <2>3 DEF Even
<1>4. ASSUME ~Even(n, M) PROVE Bad(f, n, M, 1, n)
  <2>1. M # {n - 1, n} BY <1>4 DEF Even
  <2>2. n \in M \/ \E i \in M : i + 1 \in M BY <1>4 DEF Even
  <2>3. n >= 1 BY <1>2, <2>2
  <2>4. M # {n}
    <3>1. M = {n} => \A i \in M : i + 1 \notin M OBVIOUS
    <3>2. QED BY <1>4, <3>1 DEF Even
  <2>5. \A i \in M : i >= 1 OBVIOUS
  <2>6. QED BY <1>1, <2>1, <2>2, <2>3, <2>4, <2>5 DEF Bad
<1>5. QED BY <1>3, <1>4

-----------------------------------------------------------------------------
(* Registries and layouts.                                                  *)

\* The slots in use of a child registry hold children of its class.
LEMMA InUse ==
    ASSUME IInv, Shape, NEW k \in Kind
    PROVE  /\ k \in Class /\ size[k] \in Nat /\ size[k] <= MaxSlots /\ MaxSlots \in Nat
           /\ \A i \in 1 .. size[k] :
                i \in Slots /\ slot[k][i] \in Address[k] /\ slot[k][i] \in Child
           /\ \A c : Mine(k, c) \in SUBSET (1 .. size[k])
<1>1. k \in Class /\ size[k] \in 0 .. MaxSlots /\ MaxSlots \in Nat /\ Address[k] \subseteq Child
  BY Addresses DEF IInv, TypeOK
<1>2. ASSUME NEW i \in 1 .. size[k]
      PROVE  i \in Slots /\ slot[k][i] \in Address[k] /\ slot[k][i] \in Child
  <2>1. i \in Slots BY <1>1 DEF Slots
  <2>2. slot[k][i] \in Address[k] \cup {NullPtr} BY <1>1, <2>1 DEF IInv, SlotsHoldTheirClass
  <2>3. slot[k][i] # NullPtr BY DEF Shape, ChildrenOnly, Retained
  <2>4. QED BY <1>1, <2>1, <2>2, <2>3
<1>3. \A c : Mine(k, c) \in SUBSET (1 .. size[k]) BY DEF Mine
<1>4. QED BY <1>1, <1>2, <1>3

\* As many pointers as slots in use: no two slots hold the same.
LEMMA CountsOnce ==
    ASSUME IInv, NEW k \in Kind
    PROVE  Cardinality(Retained(k)) = size[k] <=>
                \A i, j \in 1 .. size[k] : slot[k][i] = slot[k][j] => i = j
<1> DEFINE n == size[k]
           R == Retained(k)
           f == [i \in 1 .. n |-> slot[k][i]]
<1>1. n \in Nat BY Addresses DEF IInv, TypeOK
<1>2. IsFiniteSet(1 .. n) /\ Cardinality(1 .. n) = n BY <1>1, FS_Interval
<1>3. f \in Surjection(1 .. n, R) BY DEF Surjection, Retained
<1>4. f \in Injection(1 .. n, R) <=> \A i, j \in 1 .. n : slot[k][i] = slot[k][j] => i = j
  <2>1. f \in [1 .. n -> R] BY DEF Retained
  <2>2. \A i \in 1 .. n : f[i] = slot[k][i] OBVIOUS
  <2> HIDE DEF f
  <2>3. DOMAIN f = 1 .. n BY <2>1
  <2>4. QED BY <2>1, <2>2, <2>3 DEF Injection, IsInjective
<1> HIDE DEF f, R, n
<1>5. Cardinality(R) = Cardinality(1 .. n) <=> f \in Injection(1 .. n, R)
  BY <1>2, <1>3, FS_Surjection
<1>6. Cardinality(R) = n <=> \A i, j \in 1 .. n : slot[k][i] = slot[k][j] => i = j
  BY <1>2, <1>4, <1>5
<1>7. QED BY <1>6 DEF R, n

\* A connection is tame when the layout of each registry is.
LEMMA TameIsLayout ==
    ASSUME IInv, NEW c
    PROVE  Tame(c) <=> \A k \in Kind : Layout(k, c)
<1>1. ASSUME NEW k \in Kind
      PROVE  Clean(k) <=> Retained(k) \subseteq live /\ Cardinality(Retained(k)) = size[k]
  <2>1. Retained(k) \subseteq live <=> \A i \in 1 .. size[k] : slot[k][i] \in live
    BY DEF Retained
  <2>2. QED BY <2>1, CountsOnce DEF Clean
<1>2. ASSUME NEW k \in Kind
      PROVE  Layout(k, c) <=>
                LET mine == {i \in 1 .. size[k] : owner[slot[k][i]] = c} IN
                /\ Retained(k) \subseteq live /\ Cardinality(Retained(k)) = size[k]
                /\ \/ /\ \A i \in mine : i + 1 \notin mine
                      /\ size[k] \in mine => mine = {size[k]}
                   \/ mine = {size[k] - 1, size[k]}
  BY <1>1, Zenon DEF Layout, Even, Mine
<1>3. QED BY <1>2, Zenon DEF Tame

\* Without failed constructors the registries of the children are clean.
LEMMA CleanWithoutLost ==
    ASSUME IInv, Shape, lost = {}, NEW k \in Kind
    PROVE  Clean(k)
<1>1. \A i \in 1 .. size[k] : slot[k][i] \in live
  <2>1. ASSUME NEW i \in 1 .. size[k], slot[k][i] \notin live PROVE FALSE
    <3>1. slot[k][i] \in Retained(k) \ live /\ k \in Class BY <2>1, InUse DEF Retained
    <3>2. slot[k][i] = NullPtr BY <3>1 DEF IInv, Registries, DanglingAreLost
    <3>3. QED BY <3>1, <3>2 DEF Shape, ChildrenOnly
  <2>2. QED BY <2>1
<1>2. \A i, j \in 1 .. size[k] : slot[k][i] = slot[k][j] => i = j
  BY InUse DEF IInv, Registries, TwiceOnlyLost
<1>3. QED BY <1>1, <1>2 DEF Clean

\* The order of the registries.
LEMMA Turns ==
    ASSUME NEW k \in Kind, NEW l \in Kind
    PROVE  /\ Turn[k] \in 1 .. 4 /\ Turn["done"] = 5 /\ Turn["tnx"] = 1
           /\ "tnx" \in Kind /\ "done" \notin Kind
           /\ After[l] \in Kind \cup {"done"} /\ Turn[After[l]] = Turn[l] + 1
           /\ Turn[k] = Turn[l] => k = l
BY DEF Kind, Turn, After

\* What the deletion of a child does to the registry that is walked, to the others
\* and to the loop.
LEMMA VisitMoves ==
    ASSUME IInv, Shape, VisitChild, NEW k, k = rel.kind
    PROVE  /\ k \in Kind /\ rel.at \in Nat \ {0} /\ rel.end \in Nat /\ rel.at <= rel.end
           /\ slot[k][rel.at] \in live \cap Address[k] /\ slot[k][rel.at] \in Child
           /\ live' = live \ {slot[k][rel.at]}
           /\ owner' = [owner EXCEPT ![slot[k][rel.at]] = NullPtr]
           /\ owner[slot[k][rel.at]] = rel.conn
           /\ size'[k] = size[k] - 1
           /\ \A l \in Class : l # k => slot'[l] = slot[l] /\ size'[l] = size[l]
           /\ \A i \in size[k] .. rel.end : slot'[k][i] = slot[k][i]
           /\ rel' = [rel EXCEPT !.at = @ + 1]
           /\ \E p \in 1 .. size[k] :
                /\ slot[k][p] = slot[k][rel.at]
                /\ \A i \in 1 .. size[k] - 1 :
                        slot'[k][i] = IF i < p THEN slot[k][i] ELSE slot[k][i + 1]
<1> DEFINE x == slot[k][rel.at]
           n == size[k]
<1>1. /\ k \in Kind /\ k \in Class /\ rel.at \in Slots /\ rel.at \in Nat \ {0}
      /\ rel.end \in 0 .. MaxSlots /\ rel.end \in Nat /\ MaxSlots \in Nat
  BY Frames, Addresses DEF VisitChild
<1>2. /\ rel.at <= rel.end /\ x \in live /\ Destroy(x) /\ Unretain(k, x) /\ owner[x] = rel.conn
      /\ rel' = [rel EXCEPT !.at = @ + 1]
  BY DEF VisitChild
<1>3. x \in live \cap Address[k] /\ x \in Child
  <2>1. x \in Address[k] \cup {NullPtr} BY <1>1 DEF IInv, SlotsHoldTheirClass
  <2>2. x # NullPtr BY <1>2, Addresses DEF IInv, TypeOK
  <2>3. QED BY <1>1, <1>2, <2>1, <2>2, Addresses
<1>4. /\ slot \in [Class -> [Slots -> Object \cup {NullPtr}]]
      /\ size \in [Class -> 0 .. MaxSlots]
  BY DEF IInv, TypeOK
<1> HIDE DEF x
<1>5. PICK p \in First(slot[k], n, x) : slot' = [slot EXCEPT ![k] = Erase(slot[k], n, p)]
  BY <1>2 DEF Unretain
<1>6. p \in 1 .. n /\ slot[k][p] = x BY <1>5 DEF First
<1>7. size' = [size EXCEPT ![k] = @ - 1] BY <1>2 DEF Unretain
<1>8. slot'[k] = Erase(slot[k], n, p) /\ size'[k] = n - 1
  BY <1>1, <1>4, <1>5, <1>7
<1>9. \A l \in Class : l # k => slot'[l] = slot[l] /\ size'[l] = size[l]
  BY <1>4, <1>5, <1>7
<1>10. n \in 1 .. MaxSlots BY <1>1, <1>4, <1>6
<1>11. \A i \in 1 .. n - 1 : slot'[k][i] = IF i < p THEN slot[k][i] ELSE slot[k][i + 1]
  <2>1. \A i \in 1 .. n - 1 :
            Erase(slot[k], n, p)[i] = IF i < p THEN slot[k][i] ELSE slot[k][i + 1]
    BY <1>6, <1>10, EraseShifts
  <2>2. QED BY <1>8, <2>1
<1>12. \A i \in n .. rel.end : slot'[k][i] = slot[k][i]
  <2>1. \A i \in n .. rel.end : i \in Slots /\ ~(i < n) BY <1>1, <1>10 DEF Slots
  <2>2. QED BY <1>8, <2>1 DEF Erase
<1>13. live' = live \ {x} /\ owner' = [owner EXCEPT ![x] = NullPtr] BY <1>2 DEF Destroy
<1>14. QED
  BY <1>1, <1>2, <1>3, <1>6, <1>8, <1>9, <1>11, <1>12, <1>13 DEF x

-----------------------------------------------------------------------------
(* The steps of a release, registry by registry.                            *)

\* Deleting a child moves the children after it down with their slots.
LEMMA MineMoves ==
    ASSUME IInv, Shape, VisitChild, NEW k, k = rel.kind, NEW c, Clean(k),
           NEW p \in 1 .. size[k], slot[k][p] = slot[k][rel.at],
           \A i \in 1 .. size[k] - 1 :
                slot'[k][i] = IF i < p THEN slot[k][i] ELSE slot[k][i + 1]
    PROVE  /\ Clean(k)' /\ Mine(k, c)' \in SUBSET (1 .. size[k] - 1)
           /\ \A i \in 1 .. size[k] - 1 :
                i \in Mine(k, c)' <=> (IF i < p THEN i ELSE i + 1) \in Mine(k, c)
<1> DEFINE n == size[k]
           x == slot[k][rel.at]
           from(i) == IF i < p THEN i ELSE i + 1
<1>1. /\ k \in Kind /\ live' = live \ {x} /\ owner' = [owner EXCEPT ![x] = NullPtr]
      /\ size'[k] = n - 1
  BY VisitMoves
<1>2. n \in Nat /\ \A i \in 1 .. n : slot[k][i] \in Child BY <1>1, InUse
<1>3. owner \in [Child -> Conn \cup {NullPtr}] BY DEF IInv, TypeOK
<1>4. \A i \in 1 .. n - 1 : from(i) \in 1 .. n /\ from(i) # p /\ slot'[k][i] = slot[k][from(i)]
  BY <1>2
<1>5. \A i, j \in 1 .. n - 1 : from(i) = from(j) => i = j
  BY <1>2
<1> HIDE DEF x, from
<1>6. \A i \in 1 .. n - 1 :
        slot'[k][i] # x /\ slot'[k][i] \in live /\ slot'[k][i] \in Child
  BY <1>2, <1>4 DEF Clean, x
<1>7. \A i \in 1 .. n - 1 : owner'[slot'[k][i]] = owner[slot[k][from(i)]]
  BY <1>1, <1>3, <1>4, <1>6
<1>8. Clean(k)'
  <2>1. \A i \in 1 .. size'[k] : slot'[k][i] \in live' BY <1>1, <1>6
  <2>2. \A i, j \in 1 .. size'[k] : slot'[k][i] = slot'[k][j] => i = j
    BY <1>1, <1>4, <1>5 DEF Clean
  <2>3. QED BY <2>1, <2>2 DEF Clean
<1>9. \A i \in 1 .. n - 1 : i \in Mine(k, c)' <=> from(i) \in Mine(k, c)
  BY <1>1, <1>4, <1>7 DEF Mine
<1>10. Mine(k, c)' \in SUBSET (1 .. n - 1) BY <1>1 DEF Mine
<1>11. QED BY <1>8, <1>9, <1>10 DEF from

\* The registries that are not walked are not changed by a deletion.
LEMMA OthersStay ==
    ASSUME IInv, Shape, VisitChild, NEW k \in Kind, k # rel.kind, NEW c
    PROVE  /\ Clean(k) <=> Clean(k)'
           /\ Layout(k, c) <=> Layout(k, c)'
<1> DEFINE x == slot[rel.kind][rel.at]
<1>1. PICK l : l = rel.kind OBVIOUS
<1>2. /\ l \in Kind /\ x \in Address[l] /\ live' = live \ {x}
      /\ owner' = [owner EXCEPT ![x] = NullPtr]
      /\ \A m \in Class : m # l => slot'[m] = slot[m] /\ size'[m] = size[m]
  BY <1>1, VisitMoves
<1>3. /\ k \in Class /\ l \in Class
      /\ \A i \in 1 .. size[k] : slot[k][i] \in Address[k] /\ slot[k][i] \in Child
  BY <1>2, InUse
<1>4. Address[k] \cap Address[l] = {} BY <1>1, <1>3, Addresses
<1> HIDE DEF x
<1>5. \A i \in 1 .. size[k] : slot[k][i] # x BY <1>2, <1>3, <1>4
<1>6. slot'[k] = slot[k] /\ size'[k] = size[k] BY <1>1, <1>2, <1>3
<1>7. owner \in [Child -> Conn \cup {NullPtr}] BY DEF IInv, TypeOK
<1>8. \A i \in 1 .. size[k] : owner'[slot[k][i]] = owner[slot[k][i]]
  BY <1>2, <1>3, <1>5, <1>7
<1>9. \A i \in 1 .. size[k] : slot[k][i] \in live' <=> slot[k][i] \in live BY <1>2, <1>5
<1>10. Clean(k) <=> Clean(k)' BY <1>6, <1>9 DEF Clean
<1>11. Mine(k, c)' = Mine(k, c) BY <1>6, <1>8 DEF Mine
<1>12. Layout(k, c) <=> Layout(k, c)' BY <1>6, <1>10, <1>11 DEF Layout
<1>13. QED BY <1>10, <1>12

\* Registries with the same slots in use have the same layout.
LEMMA SameLayout ==
    ASSUME NEW k \in Kind, NEW c, size'[k] = size[k],
           \A i \in 1 .. size[k] : slot'[k][i] = slot[k][i], live' = live, owner' = owner
    PROVE  /\ Clean(k)' <=> Clean(k)
           /\ Mine(k, c)' = Mine(k, c)
           /\ Layout(k, c)' <=> Layout(k, c)
<1>1. Clean(k)' <=> Clean(k) BY DEF Clean
<1>2. Mine(k, c)' = Mine(k, c) BY DEF Mine
<1>3. QED BY <1>1, <1>2 DEF Layout

\* A walk that ends well reads no freed pointer.
LEMMA FineReads ==
    ASSUME IInv, Shape, rel.kind \in Kind, Walkable(rel.kind), rel.at <= rel.end
    PROVE  slot[rel.kind][rel.at] \in live
<1>1. PICK k \in Kind : k = rel.kind OBVIOUS
<1>2. rel.at \in Nat \ {0} /\ rel.end \in Nat
  <2>1. MaxSlots \in Nat BY Addresses
  <2>2. QED BY <2>1, Frames
<1>3. size[k] \in Nat /\ Mine(k, rel.conn) \in SUBSET (1 .. size[k]) BY InUse
<1>4. Good(slot[k], size[k], Mine(k, rel.conn), rel.at, rel.end) /\ Clean(k)
  BY <1>1 DEF Walkable
<1>5. PICK i \in 1 .. size[k] : slot[k][rel.at] = slot[k][i]
  BY <1>2, <1>3, <1>4, GoodReads
<1>6. QED BY <1>1, <1>4, <1>5 DEF Clean

\* A release starts: the registries are as they were.
LEMMA StartIsFine ==
    ASSUME IInv, Shape, NEW c \in Conn, NEW o \in {"release", "expunge"}, rel' = Frame(o, c),
           UNCHANGED <<live, owner, slot, size>>, NEW k \in Kind
    PROVE  /\ Layout(k, c) => Fine(k)'
           /\ Clean(k) /\ ~Layout(k, c) => Spoilt(k)'
<1>1. /\ rel'.kind = "tnx" /\ rel'.conn = c /\ rel'.at = 1 /\ rel'.end = size["tnx"]
  BY DEF Frame
<1>2. Turn[k] \in 1 .. 4 /\ Turn["tnx"] = 1 /\ "tnx" \in Kind /\ (Turn[k] = Turn["tnx"] => k = "tnx")
  BY Turns DEF Kind
<1>3. size[k] \in Nat /\ Mine(k, c) \in SUBSET (1 .. size[k]) BY InUse
<1>4. /\ Clean(k)' <=> Clean(k)
      /\ Layout(k, c)' <=> Layout(k, c)
      /\ Mine(k, c)' = Mine(k, c)
  BY SameLayout
<1>5. CASE k = "tnx"
  <2>1. Walkable(k)' <=> Clean(k) /\ Good(slot[k], size[k], Mine(k, c), 1, size[k])
    BY <1>1, <1>4, <1>5 DEF Walkable, Mine
  <2>2. Bad(slot[k], size[k], Mine(k, c), 1, size[k]) => Hopeless(k)'
    BY <1>1, <1>3, <1>4, <1>5 DEF Hopeless, Mine
  <2>3. Layout(k, c) => Walkable(k)' BY <1>3, <2>1, LoopStarts DEF Layout
  <2>4. Clean(k) /\ ~Layout(k, c) => Hopeless(k)' BY <1>3, <2>2, LoopStarts DEF Layout
  <2>5. QED BY <1>1, <1>2, <1>5, <2>3, <2>4 DEF Fine, Spoilt
<1>6. CASE k # "tnx"
  BY <1>1, <1>2, <1>4, <1>6 DEF Fine, Spoilt, Layout, Clean, Mine
<1>7. QED BY <1>5, <1>6

\* The loop goes past an object of another connection.
LEMMA OtherKeepsFine ==
    ASSUME IInv, Shape, VisitOther, NEW k \in Kind
    PROVE  /\ Fine(k) => Fine(k)'
           /\ Clean(k) /\ Spoilt(k) => Spoilt(k)'
<1> DEFINE a == rel.at
           e == rel.end
           c == rel.conn
<1>1. /\ rel.kind # "done" /\ a <= e /\ slot[rel.kind][a] \in live
      /\ owner[slot[rel.kind][a]] # c /\ rel' = [rel EXCEPT !.at = @ + 1]
      /\ UNCHANGED <<live, owner, slot, size>>
  BY DEF VisitOther
<1>2. rel'.conn = c /\ rel'.kind = rel.kind /\ rel'.end = e /\ rel'.at = a + 1
  BY <1>1, Frames DEF ReleaseFrame
<1>3. a \in Nat \ {0} /\ e \in Nat
  <2>1. MaxSlots \in Nat BY Addresses
  <2>2. QED BY <2>1, Frames
<1>4. size[k] \in Nat /\ Mine(k, c) \in SUBSET (1 .. size[k]) BY InUse
<1>5. \A d : (Clean(k)' <=> Clean(k)) /\ Mine(k, d)' = Mine(k, d) /\ (Layout(k, d)' <=> Layout(k, d))
  BY <1>1, SameLayout
<1>6. (Walked(k)' <=> Walked(k)) /\ (Layout(k, rel.conn)' <=> Layout(k, rel.conn))
  BY <1>1, <1>2 DEF Walked, Layout, Clean, Mine
<1>7. Mine(k, rel.conn)' = Mine(k, c) BY <1>1, <1>2 DEF Mine
<1>8. ASSUME k = rel.kind PROVE \A i \in Mine(k, c) : slot[k][i] # slot[k][a]
  BY <1>1, <1>8 DEF Mine
<1> HIDE DEF a, e, c
<1>9. ASSUME k = rel.kind, Walkable(k) PROVE Walkable(k)'
  <2>1. Good(slot[k], size[k], Mine(k, c), a + 1, e)
    BY <1>1, <1>3, <1>4, <1>8, <1>9, GoodGoesOn DEF Walkable, a, e, c
  <2>2. Clean(k)' BY <1>1, <1>9 DEF Walkable, Clean
  <2>3. QED BY <1>1, <1>2, <1>7, <2>1, <2>2 DEF Walkable
<1>10. ASSUME k = rel.kind, Hopeless(k) PROVE Hopeless(k)'
  <2>1. size[k] <= e BY <1>10 DEF Hopeless, e
  <2>2. ASSUME NEW y \in live \cap Address[k],
               owner[y] = c, \A j \in a .. e : slot[k][j] # y
        PROVE  Hopeless(k)'
    <3>1. \A j \in a + 1 .. e : slot[k][j] # y BY <1>3, <2>2
    <3>2. QED BY <1>1, <1>2, <2>1, <2>2, <3>1 DEF Hopeless
  <2>3. ASSUME NEW j \in a .. e, slot[k][j] \notin live PROVE Hopeless(k)'
    <3>1. j # a BY <1>1, <1>10, <2>3 DEF a
    <3>2. j \in a + 1 .. e BY <1>3, <3>1
    <3>3. QED BY <1>1, <1>2, <2>1, <2>3, <3>2 DEF Hopeless
  <2>4. ASSUME Bad(slot[k], size[k], Mine(k, c), a, e) PROVE Hopeless(k)'
    <3>1. Bad(slot[k], size[k], Mine(k, c), a + 1, e)
      BY <1>3, <1>4, <1>8, <1>10, <2>4, BadGoesOn
    <3>2. QED BY <1>1, <1>2, <1>7, <2>1, <3>1 DEF Hopeless
  <2>5. QED BY <1>10, <2>2, <2>3, <2>4 DEF Hopeless, a, e, c
<1>11. QED BY <1>2, <1>6, <1>9, <1>10 DEF Fine, Spoilt

\* The loop deletes a child.
LEMMA DeletionKeepsFine ==
    ASSUME IInv, Shape, VisitChild, NEW k \in Kind
    PROVE  /\ Fine(k) => Fine(k)'
           /\ Clean(k) /\ Spoilt(k) => Spoilt(k)'
<1>1. PICK l : l = rel.kind OBVIOUS
<1>2. PICK c : c = rel.conn OBVIOUS
<1>3. PICK x : x = slot[l][rel.at] OBVIOUS
<1>4. PICK a : a = rel.at OBVIOUS
<1>5. PICK e : e = rel.end OBVIOUS
<1>6. PICK n : n = size[l] OBVIOUS
<1>7. /\ l \in Kind /\ a \in Nat \ {0} /\ e \in Nat /\ a <= e
      /\ x \in live \cap Address[l] /\ x \in Child
      /\ live' = live \ {x} /\ owner' = [owner EXCEPT ![x] = NullPtr] /\ owner[x] = c
      /\ size'[l] = n - 1 /\ \A i \in n .. e : slot'[l][i] = slot[l][i]
      /\ rel' = [rel EXCEPT !.at = @ + 1]
  BY <1>1, <1>2, <1>3, <1>4, <1>5, <1>6, VisitMoves
<1>8. PICK p \in 1 .. n :
        /\ slot[l][p] = x
        /\ \A i \in 1 .. n - 1 : slot'[l][i] = IF i < p THEN slot[l][i] ELSE slot[l][i + 1]
  BY <1>1, <1>3, <1>6, VisitMoves
<1>9. rel'.conn = c /\ rel'.kind = l /\ rel'.end = e /\ rel'.at = a + 1
  BY <1>1, <1>2, <1>4, <1>5, <1>7, Frames DEF ReleaseFrame
<1>10. n \in Nat /\ Mine(l, c) \in SUBSET (1 .. n) /\ \A i \in 1 .. n : slot[l][i] \in Address[l]
  BY <1>6, <1>7, InUse
<1>11. c # NullPtr
  <2>1. rel.op # "none" BY DEF VisitChild, Walking
  <2>2. QED BY <1>2, <2>1, Addresses DEF IInv, ReleasedIsAlive
<1>12. owner \in [Child -> Conn \cup {NullPtr}] BY DEF IInv, TypeOK
<1>13. ASSUME NEW y \in live, y \in Child
       PROVE  (y \in live' /\ owner'[y] = c) <=> (y # x /\ owner[y] = c)
  BY <1>7, <1>11, <1>12, <1>13
<1>14. \A y \in live' : y \in Child => owner'[y] = owner[y] BY <1>7, <1>12
<1>15. k \in Class /\ Address[k] \subseteq Child BY Addresses
<1>16. Walked(k) => Walked(k)' BY <1>2, <1>7, <1>9, <1>14, <1>15 DEF Walked
<1>17. CASE k # l
  <2>1. Layout(k, c)' <=> Layout(k, c) BY <1>1, <1>17, OthersStay
  <2>2. Layout(k, rel.conn)' <=> Layout(k, rel.conn)
    BY <1>2, <1>9, <2>1 DEF Layout, Clean, Mine
  <2>3. ~Walked(k) => ~Walked(k)'
    <3>1. x \notin Address[k] BY <1>7, <1>15, <1>17, Addresses
    <3>2. QED BY <1>2, <1>7, <1>9, <1>13, <1>15, <3>1 DEF Walked
  <2>4. QED BY <1>1, <1>9, <1>16, <1>17, <2>2, <2>3 DEF Fine, Spoilt
<1>18. CASE k = l
  <2>1. ASSUME Clean(k)
        PROVE  /\ Clean(k)' /\ Mine(k, c)' \in SUBSET (1 .. n - 1)
               /\ \A i \in 1 .. n - 1 :
                    i \in Mine(k, c)' <=> (IF i < p THEN i ELSE i + 1) \in Mine(k, c)
               /\ \A i, j \in 1 .. n : slot[k][i] = slot[k][j] => i = j
    BY <1>1, <1>3, <1>6, <1>8, <1>18, <2>1, MineMoves DEF Clean
  <2>2. p \in Mine(k, c) /\ slot[k][p] = slot[k][a]
    BY <1>3, <1>4, <1>6, <1>7, <1>8, <1>18 DEF Mine
  <2>3. Mine(k, rel.conn)' = Mine(k, c)' BY <1>9 DEF Mine
  <2>4. ASSUME Walkable(k) PROVE Walkable(k)'
    <3>1. Clean(k) /\ Good(slot[k], n, Mine(k, c), a, e)
      BY <1>2, <1>4, <1>5, <1>6, <1>18, <2>4 DEF Walkable
    <3>2. PICK N : N = Mine(k, c)' OBVIOUS
    <3>3. PICK g : g = slot'[k] OBVIOUS
    <3>4. Good(g, n - 1, N, a + 1, e)
      BY <1>7, <1>8, <1>10, <1>18, <2>1, <2>2, <3>1, <3>2, <3>3, GoodDeletes
    <3>5. QED BY <1>7, <1>9, <1>18, <2>1, <2>3, <3>1, <3>2, <3>3, <3>4 DEF Walkable
  <2>5. ASSUME Clean(k), Hopeless(k) PROVE Hopeless(k)'
    <3>1. n <= e /\ n - 1 <= e /\ n >= 1
      BY <1>5, <1>6, <1>7, <1>8, <1>10, <1>18, <2>5 DEF Hopeless
    <3>2. ASSUME NEW y \in live \cap Address[k],
                 owner[y] = c, \A j \in a .. e : slot[k][j] # y
          PROVE  Hopeless(k)'
      <4>1. y # x BY <1>3, <1>4, <1>7, <1>18, <3>2
      <4>2. y \in live' /\ owner'[y] = c BY <1>13, <1>15, <3>2, <4>1
      <4>3. ASSUME NEW j \in a + 1 .. e PROVE slot'[k][j] # y
        <5>1. CASE j < n
          <6>1. /\ j \in 1 .. n - 1 /\ j \in a .. e /\ j + 1 \in a .. e
            BY <1>7, <1>10, <3>1, <5>1
          <6>2. QED BY <1>8, <1>18, <3>2, <6>1
        <5>2. CASE ~(j < n)
          <6>1. j \in n .. e /\ j \in a .. e BY <1>7, <1>10, <5>2
          <6>2. QED BY <1>7, <1>18, <3>2, <6>1
        <5>3. QED BY <5>1, <5>2
      <4>4. QED BY <1>7, <1>9, <1>18, <3>1, <3>2, <4>2, <4>3 DEF Hopeless
    <3>3. ASSUME NEW j \in a .. e, slot[k][j] \notin live PROVE Hopeless(k)'
      <4>1. j # a BY <1>3, <1>4, <1>7, <1>18, <3>3
      <4>2. j \notin 1 .. n BY <1>6, <1>18, <2>5, <3>3 DEF Clean
      <4>3. j \in a + 1 .. e /\ j \in n .. e BY <1>7, <1>10, <4>1, <4>2
      <4>4. slot'[k][j] \notin live' BY <1>7, <1>18, <3>3, <4>3
      <4>5. QED BY <1>7, <1>9, <1>18, <3>1, <4>3, <4>4 DEF Hopeless
    <3>4. ASSUME Bad(slot[k], n, Mine(k, c), a, e) PROVE Hopeless(k)'
      <4>1. PICK N : N = Mine(k, c)' OBVIOUS
      <4>2. PICK g : g = slot'[k] OBVIOUS
      <4>3. \/ Bad(g, n - 1, N, a + 1, e)
            \/ \E i \in N : \A j \in a + 1 .. e : g[j] # g[i]
            \/ a + 1 <= e /\ g[e] = x
        BY <1>7, <1>8, <1>10, <1>18, <2>1, <2>2, <2>5, <3>4, <4>1, <4>2, BadDeletes
      <4>4. CASE Bad(g, n - 1, N, a + 1, e)
        BY <1>7, <1>9, <1>18, <2>3, <3>1, <4>1, <4>2, <4>4 DEF Hopeless
      <4>5. ASSUME NEW i \in N, \A j \in a + 1 .. e : g[j] # g[i] PROVE Hopeless(k)'
        <5>1. i \in 1 .. n - 1 /\ owner'[g[i]] = c
          BY <1>7, <1>9, <1>18, <2>1, <2>5, <4>1, <4>2 DEF Mine
        <5>2. g[i] \in live' BY <1>7, <1>18, <2>1, <2>5, <4>2, <5>1 DEF Clean
        <5>3. g[i] \in Address[k]
          BY <1>8, <1>10, <1>18, <4>2, <5>1
        <5>4. QED BY <1>7, <1>9, <1>18, <3>1, <4>2, <4>5, <5>1, <5>2, <5>3 DEF Hopeless
      <4>6. CASE a + 1 <= e /\ g[e] = x
        <5>1. e \in a + 1 .. e /\ slot'[k][e] \notin live' BY <1>7, <4>2, <4>6
        <5>2. QED BY <1>7, <1>9, <1>18, <3>1, <5>1 DEF Hopeless
      <4>7. QED BY <4>3, <4>4, <4>5, <4>6
    <3>5. QED
      BY <1>2, <1>4, <1>5, <1>6, <1>18, <2>5, <3>2, <3>3, <3>4 DEF Hopeless
  <2>6. ~(Turn[k] < Turn[k]) /\ ~(Turn[k] > Turn[k]) BY Turns
  <2>7. QED BY <1>1, <1>9, <1>18, <2>4, <2>5, <2>6 DEF Fine, Spoilt
<1>19. QED BY <1>17, <1>18

\* The loop over one registry has ended and the next one begins.
LEMMA NextKeepsFine ==
    ASSUME IInv, Shape, NextRegistry, NEW k \in Kind
    PROVE  /\ Fine(k) => Fine(k)'
           /\ Clean(k) /\ Spoilt(k) => Spoilt(k)'
<1>1. PICK l : l = rel.kind OBVIOUS
<1>2. PICK c : c = rel.conn OBVIOUS
<1>3. PICK m : m = After[l] OBVIOUS
<1>4. /\ l \in Kind /\ rel.at > rel.end /\ UNCHANGED <<live, owner, size>>
      /\ slot' = [slot EXCEPT ![l] = Trim(slot[l], size[l])]
      /\ rel' = [rel EXCEPT !.kind = m, !.at = 1,
                            !.end = IF m = "done" THEN 0 ELSE size[m]]
  BY <1>1, <1>3, Frames DEF NextRegistry
<1>5. rel'.conn = c /\ rel'.kind = m /\ rel'.at = 1 /\ (m \in Kind => rel'.end = size[m])
  <2>1. "done" \notin Kind BY Turns, <1>4
  <2>2. QED BY <1>2, <1>4, <2>1, Frames DEF ReleaseFrame
<1>6. /\ rel.at \in Nat \ {0} /\ rel.end \in Nat
  <2>1. MaxSlots \in Nat BY Addresses
  <2>2. QED BY <2>1, Frames
<1>7. size[k] \in Nat /\ Mine(k, c) \in SUBSET (1 .. size[k]) /\ k \in Class
  BY InUse
<1>8. size'[k] = size[k] /\ \A i \in 1 .. size[k] : slot'[k][i] = slot[k][i]
  <2>1. slot \in [Class -> [Slots -> Object \cup {NullPtr}]] BY DEF IInv, TypeOK
  <2>2. l \in Class BY <1>4, Addresses
  <2>3. CASE k # l BY <1>4, <1>7, <2>1, <2>2, <2>3
  <2>4. CASE k = l
    <3>1. slot'[k] = Trim(slot[k], size[k]) BY <1>4, <1>7, <2>1, <2>4
    <3>2. \A i \in 1 .. size[k] : i \in Slots /\ i <= size[k] BY <1>7, InUse
    <3>3. QED BY <1>4, <3>1, <3>2 DEF Trim
  <2>5. QED BY <2>3, <2>4
<1>9. /\ Clean(k)' <=> Clean(k)
      /\ Layout(k, c)' <=> Layout(k, c)
      /\ Mine(k, c)' = Mine(k, c)
  BY <1>4, <1>8, SameLayout
<1>10. (Walked(k)' <=> Walked(k)) /\ (Layout(k, rel.conn)' <=> Layout(k, c))
       /\ Mine(k, rel.conn)' = Mine(k, c)
  BY <1>2, <1>4, <1>5, <1>9 DEF Walked, Layout, Clean, Mine
<1>11. /\ Turn[k] \in 1 .. 4 /\ Turn[l] \in 1 .. 4 /\ Turn[m] = Turn[l] + 1
       /\ m \in Kind \cup {"done"} /\ (Turn[k] = Turn[l] => k = l)
       /\ (Turn[k] = Turn[m] => k = m)
  <2>1. /\ Turn[k] \in 1 .. 4 /\ Turn[l] \in 1 .. 4 /\ Turn[m] = Turn[l] + 1
        /\ m \in Kind \cup {"done"} /\ (Turn[k] = Turn[l] => k = l) /\ Turn["done"] = 5
    BY <1>3, <1>4, Turns
  <2>2. m \in Kind => (Turn[k] = Turn[m] => k = m) BY Turns
  <2>3. QED BY <2>1, <2>2
<1>12. CASE k = l
  <2>1. Walkable(k) => Walked(k)
    <3>1. SUFFICES ASSUME Walkable(k) PROVE Walked(k) OBVIOUS
    <3>2. Mine(k, c) = {}
      BY <1>2, <1>4, <1>6, <1>7, <3>1, GoodEnds DEF Walkable
    <3>3. \A x \in live \cap Address[k] : \E i \in 1 .. size[k] : slot[k][i] = x
      BY <1>7 DEF IInv, Registries, LiveAreRetained, Retained
    <3>4. QED BY <1>2, <3>2, <3>3 DEF Walked, Mine
  <2>2. Hopeless(k) => ~Walked(k)
    <3>1. ~Bad(slot[k], size[k], Mine(k, c), rel.at, rel.end)
      <4>1. SUFFICES ASSUME Bad(slot[k], size[k], Mine(k, c), rel.at, rel.end) PROVE FALSE
        OBVIOUS
      <4>2. rel.at <= rel.end BY <1>6, <1>7, <4>1, BadGoesOn
      <4>3. QED BY <1>4, <1>6, <4>2
    <3>2. QED BY <1>2, <1>4, <1>6, <3>1 DEF Hopeless, Walked
  <2>3. Turn[k] < Turn[m] /\ k # m BY <1>11, <1>12
  <2>4. QED BY <1>1, <1>5, <1>10, <1>11, <1>12, <2>1, <2>2, <2>3 DEF Fine, Spoilt
<1>13. CASE k # l /\ k = m
  <2>1. Turn[k] > Turn[l] BY <1>11, <1>13
  <2>2. Layout(k, c) => Walkable(k)'
    <3>1. Layout(k, c) => Good(slot[k], size[k], Mine(k, c), 1, size[k])
      BY <1>7, LoopStarts DEF Layout
    <3>2. slot'[k] = slot[k]
      <4>1. slot \in [Class -> [Slots -> Object \cup {NullPtr}]] BY DEF IInv, TypeOK
      <4>2. QED BY <1>4, <1>7, <1>13, <4>1
    <3>3. QED BY <1>5, <1>8, <1>9, <1>10, <1>13, <3>1, <3>2 DEF Walkable, Layout
  <2>3. Clean(k) /\ ~Layout(k, c) => Hopeless(k)'
    <3>1. ~Even(size[k], Mine(k, c)) => Bad(slot[k], size[k], Mine(k, c), 1, size[k])
      BY <1>7, LoopStarts
    <3>2. slot'[k] = slot[k]
      <4>1. slot \in [Class -> [Slots -> Object \cup {NullPtr}]] BY DEF IInv, TypeOK
      <4>2. QED BY <1>4, <1>7, <1>13, <4>1
    <3>3. QED BY <1>5, <1>7, <1>8, <1>10, <1>13, <3>1, <3>2 DEF Hopeless, Layout
  <2>4. QED BY <1>1, <1>2, <1>5, <1>13, <2>1, <2>2, <2>3, <1>11 DEF Fine, Spoilt
<1>14. CASE k # l /\ k # m
  <2>1. (Turn[k] < Turn[m] <=> Turn[k] < Turn[l]) /\ (Turn[k] > Turn[m] => Turn[k] > Turn[l])
    BY <1>11, <1>14
  <2>2. QED BY <1>1, <1>2, <1>5, <1>10, <1>14, <2>1 DEF Fine, Spoilt
<1>15. QED BY <1>12, <1>13, <1>14

\* While a release runs nothing else does.
LEMMA RunningSteps ==
    ASSUME IInv, Next, rel.op # "none" \/ rel'.op # "none"
    PROVE  \/ /\ rel.op = "none" /\ rel'.op # "none"
              /\ \/ \E o \in {"release", "expunge"}, c \in Conn : StartRelease(o, c)
                 \/ VisitConnection
           \/ /\ rel.op # "none" /\ rel'.op = rel.op
              /\ VisitFreed \/ VisitOther \/ VisitChild \/ NextRegistry
           \/ /\ rel.op # "none" /\ rel'.op = "none"
              /\ FinishExpungeConnection \/ FinishRelease
<1>1. Initialize => rel.op = "none" /\ rel' = rel
  BY DEF Initialize, IInv, DownIsEmpty
<1>2. Create \/ Use => rel.op = "none" /\ rel' = rel
  BY DEF Create, Use, NewConnection, NewOnConnection, Construct,
        NewTransaction, NewCatalog, ExecuteOnConnection, ReleaseTransaction,
        ReleaseStatement, ReleaseResult, ReleaseCatalog,
        NewStatement, NewStatementOn, LoseStatement, ExecuteStatement, ExecuteDirect,
        OpenStatement, FailDirect, CloseStatement, AskConnection, UseLost, UseZero,
        ReleaseChild, OnConnection, OnChild, Ready, Corrupt
<1>3. Expunge => rel.op = "none" /\ (VisitConnection \/ rel' = rel)
  BY DEF Expunge, StartExpunge, VisitNull, VisitConnection,
        VisitFreedConnection, FinishExpunge, FinishFinalize, Ready, Corrupt, Expunging
<1>4. ASSUME VisitConnection PROVE rel.op = "none" /\ rel'.op # "none"
  BY <1>4 DEF VisitConnection, Expunging, Frame
<1>5. ASSUME NEW o \in {"release", "expunge"}, NEW c \in Conn, StartRelease(o, c)
      PROVE  rel.op = "none" /\ rel'.op # "none"
  BY <1>5 DEF StartRelease, OnConnection, Ready, Frame
<1>6. VisitFreed \/ VisitOther \/ VisitChild \/ NextRegistry => rel.op # "none" /\ rel'.op = rel.op
  BY Frames DEF VisitFreed, VisitOther, VisitChild, NextRegistry, Walking, Corrupt, ReleaseFrame
<1>7. FinishExpungeConnection \/ FinishRelease => rel.op # "none" /\ rel'.op = "none"
  BY DEF FinishExpungeConnection, FinishRelease, Walking, NoRelease
<1>8. QED BY <1>1, <1>2, <1>3, <1>4, <1>5, <1>6, <1>7 DEF Next, Release

\* A release that starts is foreseen.
LEMMA StartIsForeseen ==
    ASSUME IInv, Shape, NEW c \in Conn, NEW o \in {"release", "expunge"}, rel' = Frame(o, c),
           UNCHANGED <<live, owner, slot, size, lost, heap>>, heap = "sound"
    PROVE  Foreseen'
<1>1. rel'.tame = Tame(c) BY DEF Frame
<1>2. Tame(c) => \A k \in Kind : Fine(k)' BY TameIsLayout, StartIsFine
<1>3. ~Tame(c) /\ lost = {} => \E k \in Kind : Spoilt(k)'
  BY TameIsLayout, StartIsFine, CleanWithoutLost
<1>4. QED BY <1>1, <1>2, <1>3 DEF Foreseen

LEMMA StepKeepsForeseen == IInv /\ Shape /\ Foreseen /\ [Next]_vars => Foreseen'
<1> SUFFICES ASSUME IInv, Shape, Foreseen, [Next]_vars PROVE Foreseen' OBVIOUS
<1>1. CASE UNCHANGED vars
  <2>1. UNCHANGED <<heap, live, owner, slot, size, lost, rel>> BY <1>1 DEF vars
  <2>2. ASSUME NEW k \in Kind PROVE (Fine(k)' <=> Fine(k)) /\ (Spoilt(k)' <=> Spoilt(k))
    <3>1. /\ Clean(k)' <=> Clean(k)
          /\ Mine(k, rel.conn)' = Mine(k, rel.conn)
          /\ Walked(k)' <=> Walked(k)
      BY <2>1 DEF Clean, Mine, Walked
    <3>2. Layout(k, rel.conn)' <=> Layout(k, rel.conn) BY <2>1, <3>1 DEF Layout
    <3>3. Walkable(k)' <=> Walkable(k) BY <2>1, <3>1 DEF Walkable
    <3>4. Hopeless(k)' <=> Hopeless(k) BY <2>1, <3>1 DEF Hopeless
    <3>5. QED BY <2>1, <3>1, <3>2, <3>3, <3>4 DEF Fine, Spoilt
  <2>3. QED BY <2>1, <2>2 DEF Foreseen
<1>2. CASE Next /\ rel'.op = "none" BY <1>2 DEF Foreseen
<1>3. CASE Next /\ rel'.op # "none"
  <2>1. ASSUME NEW o \in {"release", "expunge"}, NEW c \in Conn, StartRelease(o, c)
        PROVE  Foreseen'
    BY <2>1, StartIsForeseen DEF StartRelease, OnConnection, Ready
  <2>2. ASSUME VisitConnection PROVE Foreseen'
    <3>1. exp.at \in Slots BY <2>2, Frames DEF VisitConnection
    <3>2. slot["conn"][exp.at] \in Conn
      <4>1. slot["conn"][exp.at] \in Conn \cup {NullPtr}
        BY <3>1, Addresses DEF IInv, SlotsHoldTheirClass
      <4>2. slot["conn"][exp.at] # NullPtr
        BY <2>2, Addresses DEF VisitConnection, IInv, TypeOK
      <4>3. QED BY <4>1, <4>2
    <3>3. QED BY <2>2, <3>2, StartIsForeseen DEF VisitConnection, Expunging
  <2>3. ASSUME rel.op # "none", VisitFreed PROVE Foreseen'
    <3>1. ~rel.tame
      <4>1. SUFFICES ASSUME rel.tame PROVE FALSE OBVIOUS
      <4>2. rel.kind \in Kind BY <2>3, Frames DEF VisitFreed
      <4>3. Walkable(rel.kind) BY <2>3, <4>1, <4>2 DEF Foreseen, Fine
      <4>4. QED BY <2>3, <4>2, <4>3, FineReads DEF VisitFreed
    <3>2. rel' = rel /\ heap' = "corrupt" BY <2>3 DEF VisitFreed, Corrupt
    <3>3. QED BY <3>1, <3>2 DEF Foreseen
  <2>4. ASSUME rel.op # "none", VisitOther \/ VisitChild \/ NextRegistry PROVE Foreseen'
    <3>1. heap' = heap /\ heap = "sound" /\ lost' = lost /\ rel'.tame = rel.tame
      BY <2>4, Frames DEF VisitOther, VisitChild, NextRegistry, Walking, ReleaseFrame
    <3>2. \A k \in Kind : Fine(k) => Fine(k)'
      BY <2>4, OtherKeepsFine, DeletionKeepsFine, NextKeepsFine
    <3>3. lost = {} => \A k \in Kind : Spoilt(k) => Spoilt(k)'
      BY <2>4, OtherKeepsFine, DeletionKeepsFine, NextKeepsFine, CleanWithoutLost
    <3>4. rel.tame => \A k \in Kind : Fine(k) BY <2>4 DEF Foreseen
    <3>5. ~rel.tame /\ lost = {} => \E k \in Kind : Spoilt(k) BY <2>4, <3>1 DEF Foreseen
    <3>6. QED BY <3>1, <3>2, <3>3, <3>4, <3>5 DEF Foreseen
  <2>5. QED BY <1>3, <2>1, <2>2, <2>3, <2>4, RunningSteps
<1>4. QED BY <1>1, <1>2, <1>3

\* What a release will come to is foreseen from its first step on.
LEMMA ForeseenHolds == Spec => [](IInv /\ Shape /\ Foreseen)
<1>1. Init => Foreseen BY DEF Init, NoRelease, Foreseen
<1>2. IInv /\ Shape /\ Foreseen /\ [Next]_vars => Foreseen' BY StepKeepsForeseen
<1>3. QED BY <1>1, <1>2, ShapeHolds, PTL DEF Spec

\* No child of a connection is left when none is left in any registry.
LEMMA AllWalked ==
    ASSUME IInv
    PROVE  ChildrenOf(rel.conn) = {} <=> \A k \in Kind : Walked(k)
<1>1. Child = Address["tnx"] \cup Address["stmt"] \cup Address["rslt"] \cup Address["ctlg"]
  BY Addresses DEF Child
<1>2. Kind = {"tnx", "stmt", "rslt", "ctlg"} BY DEF Kind
<1>3. QED BY <1>1, <1>2 DEF ChildrenOf, Walked

\* A release over tame layouts reads no freed memory and frees every child of the
\* connection, and, where no constructor has failed, a release over other layouts that
\* comes to its end leaves some alive.
THEOREM TameIsExact == Spec => TameRelease
<1> DEFINE Exact ==
        /\ rel.tame => heap' = "sound" /\ (rel'.op = "none" => ChildrenOf(rel.conn) = {})
        /\ rel'.op = "none" /\ lost = {} /\ ChildrenOf(rel.conn) = {} => rel.tame
<1>1. ASSUME IInv, Shape, Foreseen, [Next]_vars, rel.op # "none" PROVE Exact
  <2>1. CASE UNCHANGED vars
    BY <1>1, <2>1 DEF vars, Foreseen
  <2>2. CASE rel'.op = rel.op /\ VisitFreed
    <3>1. rel.kind \in Kind BY <1>1, <2>2, Frames DEF VisitFreed
    <3>2. rel.tame => Walkable(rel.kind) BY <1>1, <3>1 DEF Foreseen, Fine
    <3>3. ~rel.tame BY <1>1, <2>2, <3>1, <3>2, FineReads DEF VisitFreed
    <3>4. QED BY <1>1, <2>2, <3>3
  <2>3. CASE rel'.op = rel.op /\ (VisitOther \/ VisitChild \/ NextRegistry)
    <3>1. heap' = "sound"
      BY <2>3 DEF VisitOther, VisitChild, NextRegistry, Walking
    <3>2. QED BY <1>1, <2>3, <3>1
  <2>4. CASE FinishExpungeConnection \/ FinishRelease
    <3>1. heap = "sound" /\ heap' = "sound" /\ rel.kind = "done"
      BY <2>4 DEF FinishExpungeConnection, FinishRelease, Walking
    <3>2. \A k \in Kind : Turn[k] < Turn[rel.kind]
      BY <3>1 DEF Kind, Turn
    <3>3. rel.tame => \A k \in Kind : Walked(k) BY <1>1, <3>2 DEF Foreseen, Fine
    <3>4. ~rel.tame /\ lost = {} => \E k \in Kind : ~Walked(k)
      BY <1>1, <3>1, <3>2 DEF Foreseen, Spoilt
    <3>5. QED BY <1>1, <3>1, <3>3, <3>4, AllWalked
  <2>5. QED BY <1>1, <2>1, <2>2, <2>3, <2>4, RunningSteps
<1>2. IInv /\ Shape /\ Foreseen /\ [Next]_vars => [rel.op # "none" => Exact]_vars BY <1>1
<1>3. QED BY <1>2, ForeseenHolds, PTL DEF Spec, TameRelease

-----------------------------------------------------------------------------
(* Expunge and finalize.                                                    *)

\* The loop over the connections is at slot b of e: each slot before it but the first
\* has lost its connection to a neighbour, and the last pointer fills up the slots.
Halfway(f, n, b, e) ==
    b >= 2 /\ b <= n + 1 /\ n >= 2 /\ n = e - b + 2 /\ Tail(f, n, e)

\* What the running expunge will come to: it starts, it is halfway, it has freed every
\* connection, or it comes upon a freed one, which takes three connections or more.
Purged ==
    exp.op # "none" =>
        /\ exp.tame => heap = "sound" /\ exp.end <= 3 /\ (rel.op # "none" => rel.tame)
        /\ heap = "sound" /\ rel.op = "none" =>
              \/ exp.at = 1 /\ size["conn"] = exp.end
              \/ Halfway(slot["conn"], size["conn"], exp.at, exp.end)
              \/ size["conn"] = 1 /\ exp.at > exp.end
              \/ /\ exp.end >= 4 /\ exp.at <= exp.end
                 /\ slot["conn"][exp.at] \notin live \cup {NullPtr}
        /\ heap = "sound" /\ rel.op # "none" =>
              /\ rel.op = "release" /\ rel.conn = slot["conn"][exp.at - 1]
              /\ Halfway(slot["conn"], size["conn"], exp.at - 1, exp.end)

\* The connections behind the null element are alive and there once each.
LEMMA Connections ==
    ASSUME IInv, Shape, up
    PROVE  /\ size["conn"] \in Nat /\ size["conn"] >= 1 /\ slot["conn"][1] = NullPtr
           /\ size["conn"] <= MaxSlots /\ MaxSlots \in Nat
           /\ \A i \in 2 .. size["conn"] : slot["conn"][i] \in live \cap Conn
           /\ \A i, j \in 1 .. size["conn"] : slot["conn"][i] = slot["conn"][j] => i = j
           /\ \A c \in live \cap Conn : \E i \in 2 .. size["conn"] : slot["conn"][i] = c
<1> DEFINE n == size["conn"]
           f == slot["conn"]
<1>1. /\ "conn" \in Class /\ n \in 0 .. MaxSlots /\ MaxSlots \in Nat /\ lost \subseteq Stmt
      /\ Address["conn"] = Conn
  BY Addresses DEF IInv, TypeOK
<1>2. n >= 1 /\ f[1] = NullPtr BY DEF Shape, NullIsFirst
<1>3. \A i \in 1 .. n : f[i] \in Conn \cup {NullPtr}
  <2>1. \A i \in 1 .. n : i \in Slots BY <1>1 DEF Slots
  <2>2. QED BY <1>1, <2>1 DEF IInv, SlotsHoldTheirClass
<1>4. (Conn \cup {NullPtr}) \cap Stmt = {}
  <2>1. "stmt" \in Kind BY DEF Kind
  <2>2. Stmt \cap Conn = {} BY <2>1, Addresses
  <2>3. QED BY <2>2, Addresses
<1>5. ASSUME NEW i \in 1 .. n, NEW j \in 1 .. n, f[i] = f[j] PROVE i = j
  <2>1. f[i] \notin lost BY <1>1, <1>3, <1>4
  <2>2. QED BY <1>1, <1>5, <2>1 DEF IInv, Registries, TwiceOnlyLost
<1>6. ASSUME NEW i \in 2 .. n PROVE f[i] \in live \cap Conn
  <2>1. i \in 1 .. n /\ 1 \in 1 .. n /\ i # 1 BY <1>1, <1>2
  <2>2. f[i] # NullPtr BY <1>2, <1>5, <2>1
  <2>3. f[i] \in Conn /\ f[i] \in Retained("conn") BY <1>3, <2>1, <2>2 DEF Retained
  <2>4. f[i] \notin lost BY <1>1, <1>4, <2>3
  <2>5. QED BY <1>1, <2>2, <2>3, <2>4 DEF IInv, Registries, DanglingAreLost
<1>7. ASSUME NEW c \in live \cap Conn PROVE \E i \in 2 .. n : f[i] = c
  <2>1. PICK i \in 1 .. n : f[i] = c
    BY <1>1 DEF IInv, Registries, LiveAreRetained, Retained
  <2>2. i # 1 BY <1>2, <2>1, Addresses
  <2>3. i \in 2 .. n BY <1>1, <2>2
  <2>4. QED BY <2>1, <2>3
<1>8. QED BY <1>1, <1>2, <1>5, <1>6, <1>7

\* Halfway a slot the loop may read has a live connection.
LEMMA HalfwayReads ==
    ASSUME IInv, Shape, up, NEW b \in Nat, NEW e \in Nat, b <= e,
           Halfway(slot["conn"], size["conn"], b, e)
    PROVE  slot["conn"][b] \in live \cap Conn
<1> DEFINE n == size["conn"]
<1>1. n \in Nat /\ n \in 2 .. n BY Connections DEF Halfway
<1>2. CASE b <= n
  <2>1. b \in 2 .. n BY <1>1, <1>2 DEF Halfway
  <2>2. QED BY <2>1, Connections
<1>3. CASE b > n
  <2>1. slot["conn"][b] = slot["conn"][n] BY <1>1, <1>3 DEF Halfway, Tail
  <2>2. QED BY <1>1, <2>1, Connections
<1>4. QED BY <1>1, <1>2, <1>3

\* The slots g are the n slots f, each with a pointer of its own, without the p-th.
Shifted(f, g, n, p, e) ==
    /\ \A i, j \in 1 .. n : f[i] = f[j] => i = j
    /\ \A i \in 1 .. n - 1 : g[i] = IF i < p THEN f[i] ELSE f[i + 1]
    /\ \A i \in n .. e : g[i] = f[i]

\* The connection at b is deleted: f becomes g, and the last pointer is freed only when
\* the loop is at its end or has more slots with that pointer before it.
LEMMA HalfwayDeletes ==
    ASSUME NEW f, NEW n \in Nat, NEW b \in Nat, NEW e \in Nat, NEW g, NEW p \in 1 .. n,
           Halfway(f, n, b, e), f[p] = f[b],
           Shifted(f, g, n, p, e)
    PROVE  \/ Halfway(g, n - 1, b + 1, e)
           \/ n - 1 = 1 /\ b + 1 > e
           \/ e >= 4 /\ b + 1 <= e /\ g[b + 1] = f[b]
<1> USE DEF Shifted
<1>1. b >= 2 /\ b <= n + 1 /\ n >= 2 /\ n = e - b + 2 /\ b <= e BY DEF Halfway
<1>2. CASE b < n
  <2>1. p = b BY <1>1, <1>2
  <2>2. g[n - 1] = f[n] /\ n - 1 >= 2 BY <1>1, <1>2, <2>1
  <2>3. ASSUME NEW j \in n - 1 .. e PROVE g[j] = f[n]
    <3>1. CASE j = n - 1 BY <2>2, <3>1
    <3>2. CASE j # n - 1
      <4>1. j \in n .. e BY <3>2
      <4>2. QED BY <4>1 DEF Halfway, Tail
    <3>3. QED BY <3>1, <3>2
  <2>4. Tail(g, n - 1, e) BY <2>2, <2>3 DEF Tail
  <2>5. b + 1 >= 2 /\ b + 1 <= (n - 1) + 1 /\ n - 1 = e - (b + 1) + 2 BY <1>1, <1>2
  <2>6. QED BY <2>2, <2>4, <2>5 DEF Halfway
<1>3. CASE b >= n
  <2>1. f[b] = f[n] BY <1>1, <1>3 DEF Halfway, Tail
  <2>2. e <= 3 => n - 1 = 1 /\ b + 1 > e BY <1>1, <1>3
  <2>3. ASSUME e >= 4 PROVE b + 1 <= e /\ g[b + 1] = f[b]
    <3>1. b + 1 <= e BY <1>1, <1>3, <2>3
    <3>2. b + 1 \in n .. e BY <1>3, <3>1
    <3>3. f[b + 1] = f[n] BY <3>2 DEF Halfway, Tail
    <3>4. QED BY <2>1, <3>1, <3>2, <3>3
  <2>4. QED BY <2>2, <2>3
<1>4. QED BY <1>2, <1>3

\* The steps of an expunge, and of what runs in it.
LEMMA ExpungeSteps ==
    ASSUME IInv, Next, exp.op # "none" \/ exp'.op # "none"
    PROVE  \/ \E o \in {"expunge", "finalize"} : StartExpunge(o)
           \/ VisitNull \/ VisitConnection \/ VisitFreedConnection
           \/ exp'.op = "none" /\ (FinishExpunge \/ FinishFinalize)
           \/ /\ exp' = exp /\ rel.op # "none"
              /\ \/ VisitFreed \/ VisitOther \/ VisitChild \/ NextRegistry
                 \/ FinishExpungeConnection \/ FinishRelease
<1>1. Initialize => exp.op = "none" /\ exp' = exp
  BY DEF Initialize, IInv, DownIsEmpty
<1>2. Create \/ Use => exp.op = "none" /\ exp' = exp
  BY DEF Create, Use, NewConnection, NewOnConnection, Construct,
        NewTransaction, NewCatalog, ExecuteOnConnection, ReleaseTransaction,
        ReleaseStatement, ReleaseResult, ReleaseCatalog,
        NewStatement, NewStatementOn, LoseStatement, ExecuteStatement, ExecuteDirect,
        OpenStatement, FailDirect, CloseStatement, AskConnection, UseLost, UseZero,
        ReleaseChild, OnConnection, OnChild, Ready, Corrupt
<1>3. ASSUME NEW o \in {"release", "expunge"}, NEW c \in Conn, StartRelease(o, c)
      PROVE  exp.op = "none" /\ exp' = exp
  BY <1>3 DEF StartRelease, OnConnection, Ready
<1>4. VisitFreed \/ VisitOther \/ VisitChild \/ NextRegistry \/ FinishExpungeConnection
      \/ FinishRelease
      => exp' = exp /\ rel.op # "none"
  BY DEF VisitFreed, VisitOther, VisitChild, NextRegistry, FinishExpungeConnection,
         FinishRelease, Walking, Corrupt
<1>5. FinishExpunge \/ FinishFinalize => exp'.op = "none"
  BY DEF FinishExpunge, FinishFinalize, NoExpunge
<1>6. QED BY <1>1, <1>2, <1>3, <1>4, <1>5 DEF Next, Release, Expunge

LEMMA StepKeepsPurged ==
    IInv /\ Shape /\ Foreseen /\ Purged /\ [Next]_vars => Purged'
<1> SUFFICES ASSUME IInv, Shape, Foreseen, Purged, [Next]_vars PROVE Purged' OBVIOUS
<1> DEFINE f == slot["conn"]
           n == size["conn"]
<1>1. CASE UNCHANGED vars
  <2>1. UNCHANGED <<heap, live, slot, size, rel, exp>> BY <1>1 DEF vars
  <2>2. QED BY <2>1 DEF Purged, Halfway, Tail
<1>2. CASE exp'.op = "none" BY <1>2 DEF Purged
<1>3. CASE Next /\ exp'.op # "none"
  <2>1. ASSUME NEW o \in {"expunge", "finalize"}, StartExpunge(o) PROVE Purged'
    <3>1. /\ heap' = "sound" /\ rel'.op = "none" /\ exp'.at = 1 /\ exp'.end = n /\ size' = size
          /\ exp'.tame = (n <= 3)
      BY <2>1 DEF StartExpunge, Ready
    <3>2. QED BY <3>1 DEF Purged
  <2>2. ASSUME NEW a, a = exp.at, NEW e, e = exp.end, exp.op # "none"
        PROVE  up /\ a \in Nat /\ a >= 1 /\ e \in Nat /\ n \in Nat /\ n >= 1
    <3>1. up BY <2>2, LoopsRunUp
    <3>2. MaxSlots \in Nat BY Addresses
    <3>3. QED BY <2>2, <3>1, <3>2, Frames, Connections
  <2>3. PICK a : a = exp.at OBVIOUS
  <2>4. PICK e : e = exp.end OBVIOUS
  <2>5. ASSUME VisitNull PROVE Purged'
    <3>1. /\ exp.op # "none" /\ heap = "sound" /\ rel.op = "none" /\ a <= e /\ f[a] = NullPtr
          /\ exp' = [exp EXCEPT !.at = @ + 1]
          /\ UNCHANGED <<heap, live, slot, size, rel>>
      BY <2>3, <2>4, <2>5 DEF VisitNull, Expunging
    <3>2. exp'.at = a + 1 /\ exp'.end = e /\ exp'.tame = exp.tame
      BY <2>3, <2>4, <3>1, Frames DEF ExpungeFrame
    <3>3. up /\ a \in Nat /\ a >= 1 /\ e \in Nat /\ n \in Nat /\ n >= 1
      BY <2>2, <2>3, <2>4, <3>1
    <3>4. a = 1 /\ n = e
      <4>1. ~Halfway(f, n, a, e)
        BY <3>1, <3>3, HalfwayReads, Addresses DEF IInv, TypeOK
      <4>2. QED BY <2>3, <2>4, <3>1, <3>3, <4>1 DEF Purged
    <3>5. CASE e = 1 BY <2>4, <3>1, <3>2, <3>3, <3>4, <3>5 DEF Purged
    <3>6. CASE e # 1
      <4>1. Tail(f, n, e) BY <3>3, <3>4 DEF Tail
      <4>2. Halfway(f, n, a + 1, e) BY <3>3, <3>4, <3>6, <4>1 DEF Halfway
      <4>3. Halfway(slot'["conn"], size'["conn"], exp'.at, exp'.end) BY <3>1, <3>2, <4>2
      <4>4. QED BY <2>4, <3>1, <3>2, <4>3 DEF Purged
    <3>7. QED BY <3>5, <3>6
  <2>6. ASSUME VisitConnection PROVE Purged'
    <3>1. /\ exp.op # "none" /\ heap = "sound" /\ rel.op = "none" /\ a <= e /\ f[a] \in live
          /\ exp' = [exp EXCEPT !.at = @ + 1, !.tame = @ /\ Tame(f[a])]
          /\ rel' = Frame("release", f[a]) /\ UNCHANGED <<heap, live, slot, size>>
      BY <2>3, <2>4, <2>6 DEF VisitConnection, Expunging
    <3>2. exp'.at = a + 1 /\ exp'.end = e /\ exp'.tame = (exp.tame /\ Tame(f[a]))
      BY <2>3, <2>4, <3>1, Frames, Zenon DEF ExpungeFrame
    <3>3. up /\ a \in Nat /\ a >= 1 /\ e \in Nat /\ n \in Nat /\ n >= 1
      BY <2>2, <2>3, <2>4, <3>1
    <3>4. rel'.op = "release" /\ rel'.conn = f[a] /\ rel'.tame = Tame(f[a])
      BY <3>1 DEF Frame
    <3>5. Halfway(f, n, a, e)
      <4>1. a # 1 BY <3>1, <3>3, Connections, Addresses DEF IInv, TypeOK
      <4>2. QED BY <2>3, <2>4, <3>1, <3>3, <4>1 DEF Purged
    <3>6. (a + 1) - 1 = a BY <3>3
    <3>7. /\ Halfway(slot'["conn"], size'["conn"], exp'.at - 1, exp'.end)
          /\ rel'.conn = slot'["conn"][exp'.at - 1]
      BY <3>1, <3>2, <3>4, <3>5, <3>6
    <3>8. exp'.tame => heap' = "sound" /\ exp'.end <= 3 /\ rel'.tame
      BY <2>4, <3>1, <3>2, <3>4 DEF Purged
    <3>9. QED BY <3>4, <3>7, <3>8 DEF Purged
  <2>7. ASSUME VisitFreedConnection PROVE Purged'
    <3>1. /\ exp.op # "none" /\ heap = "sound" /\ rel.op = "none" /\ a <= e
          /\ f[a] \notin live \cup {NullPtr} /\ heap' = "corrupt" /\ UNCHANGED <<exp, rel>>
      BY <2>3, <2>4, <2>7 DEF VisitFreedConnection, Expunging, Corrupt
    <3>2. up /\ a \in Nat /\ a >= 1 /\ e \in Nat /\ n \in Nat /\ n >= 1
      BY <2>2, <2>3, <2>4, <3>1
    <3>3. a # 1 BY <3>1, <3>2, Connections
    <3>4. ~Halfway(f, n, a, e) BY <3>1, <3>2, HalfwayReads
    <3>5. e >= 4 BY <2>3, <2>4, <3>1, <3>2, <3>3, <3>4 DEF Purged
    <3>6. ~exp.tame BY <2>4, <3>1, <3>2, <3>5 DEF Purged
    <3>7. QED BY <3>1, <3>6 DEF Purged
  <2>8. ASSUME exp' = exp, rel.op # "none", VisitFreed PROVE Purged'
    <3>1. heap' = "corrupt" /\ rel' = rel BY <2>8 DEF VisitFreed, Corrupt
    <3>2. ~rel.tame
      <4>1. SUFFICES ASSUME rel.tame PROVE FALSE OBVIOUS
      <4>2. rel.kind \in Kind BY <2>8, Frames DEF VisitFreed
      <4>3. Walkable(rel.kind) BY <2>8, <4>1, <4>2 DEF Foreseen, Fine
      <4>4. QED BY <2>8, <4>2, <4>3, FineReads DEF VisitFreed
    <3>3. QED BY <1>3, <2>8, <3>1, <3>2 DEF Purged
  <2>9. ASSUME exp' = exp, rel.op # "none", VisitOther \/ VisitChild \/ NextRegistry PROVE Purged'
    <3>1. /\ heap' = "sound" /\ heap = "sound"
          /\ rel'.op = rel.op /\ rel'.conn = rel.conn /\ rel'.tame = rel.tame
      BY <2>9, Frames DEF VisitOther, VisitChild, NextRegistry, Walking, ReleaseFrame
    <3>2. size'["conn"] = n /\ slot'["conn"] = f
      <4>1. rel.kind \in Kind /\ "conn" \notin Kind /\ "conn" \in Class
        BY <2>9, Frames, Addresses DEF VisitOther, VisitChild, NextRegistry, Kind
      <4>2. CASE VisitChild
        <5>1. PICK k : k = rel.kind OBVIOUS
        <5>2. QED BY <4>1, <4>2, <5>1, VisitMoves
      <4>3. CASE VisitOther \/ NextRegistry
        <5>1. slot \in [Class -> [Slots -> Object \cup {NullPtr}]] BY DEF IInv, TypeOK
        <5>2. QED BY <4>1, <4>3, <5>1 DEF VisitOther, NextRegistry
      <4>4. QED BY <2>9, <4>2, <4>3
    <3>3. QED BY <1>3, <2>9, <3>1, <3>2 DEF Purged
  <2>10. ASSUME exp' = exp, rel.op # "none", FinishExpungeConnection PROVE Purged'
    BY <1>3, <2>10 DEF Purged, FinishExpungeConnection, Walking
  <2>11. ASSUME exp' = exp, rel.op # "none", FinishRelease PROVE Purged'
    <3>1. PICK x : x = rel.conn OBVIOUS
    <3>2. PICK b : b = a - 1 OBVIOUS
    <3>3. /\ heap = "sound" /\ heap' = "sound" /\ rel'.op = "none" /\ live' = live \ {x}
          /\ Unretain("conn", x)
      BY <2>11, <3>1 DEF FinishRelease, Walking, NoRelease
    <3>4. up /\ a \in Nat /\ a >= 1 /\ e \in Nat /\ n \in Nat /\ n >= 1
      BY <1>3, <2>2, <2>3, <2>4, <2>11
    <3>5. x = f[b] /\ Halfway(f, n, b, e)
      BY <1>3, <2>3, <2>4, <2>11, <3>1, <3>2, <3>3 DEF Purged
    <3>6. b \in Nat /\ a = b + 1 /\ b <= e BY <3>2, <3>4, <3>5 DEF Halfway
    <3>7. PICK p \in First(f, n, x) : slot' = [slot EXCEPT !["conn"] = Erase(f, n, p)]
      BY <3>3 DEF Unretain
    <3>8. p \in 1 .. n /\ f[p] = x BY <3>7 DEF First
    <3>9. /\ "conn" \in Class /\ slot \in [Class -> [Slots -> Object \cup {NullPtr}]]
          /\ size \in [Class -> 0 .. MaxSlots] /\ MaxSlots \in Nat
      BY Addresses DEF IInv, TypeOK
    <3>10. slot'["conn"] = Erase(f, n, p) /\ size'["conn"] = n - 1
      BY <3>3, <3>7, <3>9 DEF Unretain
    <3>11. PICK g : g = slot'["conn"] OBVIOUS
    <3>12. n \in 1 .. MaxSlots BY <3>4, <3>9
    <3>13. \A i \in 1 .. n - 1 : g[i] = IF i < p THEN f[i] ELSE f[i + 1]
      <4>1. \A i \in 1 .. n - 1 : Erase(f, n, p)[i] = IF i < p THEN f[i] ELSE f[i + 1]
        BY <3>8, <3>12, EraseShifts
      <4>2. QED BY <3>10, <3>11, <4>1
    <3>14. e <= MaxSlots BY <2>4, <3>9, Frames
    <3>15. \A i \in n .. e : g[i] = f[i]
      <4>1. \A i \in n .. e : i \in Slots /\ ~(i < n) BY <3>4, <3>9, <3>14 DEF Slots
      <4>2. QED BY <3>10, <3>11, <4>1 DEF Erase
    <3>16. \/ Halfway(g, n - 1, a, e)
           \/ n - 1 = 1 /\ a > e
           \/ e >= 4 /\ a <= e /\ g[a] = x
      <4>1. \A i, j \in 1 .. n : f[i] = f[j] => i = j BY <3>4, Connections
      <4>2. Shifted(f, g, n, p, e) BY <3>13, <3>15, <4>1 DEF Shifted
      <4>3. f[p] = f[b] BY <3>5, <3>8
      <4>4. \/ Halfway(g, n - 1, b + 1, e)
            \/ n - 1 = 1 /\ b + 1 > e
            \/ e >= 4 /\ b + 1 <= e /\ g[b + 1] = f[b]
        BY <3>4, <3>5, <3>6, <3>8, <4>2, <4>3, HalfwayDeletes
      <4>5. QED BY <3>5, <3>6, <4>4
    <3>17. x \notin live' \cup {NullPtr}
      BY <2>11, <3>1, <3>3, Addresses DEF IInv, ReleasedIsAlive
    <3>18. exp.tame => e <= 3 BY <1>3, <2>4, <2>11 DEF Purged
    <3>19. QED
      BY <2>3, <2>4, <2>11, <3>3, <3>10, <3>11, <3>16, <3>17, <3>18 DEF Purged
  <2>12. QED
    BY <1>3, <2>1, <2>5, <2>6, <2>7, <2>8, <2>9, <2>10, <2>11, ExpungeSteps
<1>4. QED BY <1>1, <1>2, <1>3

\* What an expunge will come to is foreseen from its first step on.
LEMMA PurgedHolds == Spec => [](IInv /\ Shape /\ Foreseen /\ Purged)
<1>1. Init => Purged BY DEF Init, NoExpunge, Purged
<1>2. IInv /\ Shape /\ Foreseen /\ Purged /\ [Next]_vars => Purged' BY StepKeepsPurged
<1>3. QED BY <1>1, <1>2, ForeseenHolds, PTL DEF Spec

\* An expunge that has come to its end has freed every connection.
LEMMA EndIsEmpty ==
    ASSUME IInv, Shape, Purged, exp.op # "none", heap = "sound", rel.op = "none",
           exp.at > exp.end
    PROVE  live \cap Conn = {}
<1>1. up BY LoopsRunUp
<1>2. PICK a : a = exp.at OBVIOUS
<1>3. PICK e : e = exp.end OBVIOUS
<1>4. PICK n : n = size["conn"] OBVIOUS
<1>5. a \in Nat /\ e \in Nat /\ n \in Nat /\ n >= 1 /\ a > e
  <2>1. MaxSlots \in Nat BY Addresses
  <2>2. QED BY <1>1, <1>2, <1>3, <1>4, <2>1, Frames, Connections
<1>6. n = 1
  <2>1. \/ a = 1 /\ n = e
        \/ Halfway(slot["conn"], n, a, e)
        \/ n = 1 /\ a > e
        \/ e >= 4 /\ a <= e
    BY <1>2, <1>3, <1>4 DEF Purged
  <2>2. ~Halfway(slot["conn"], n, a, e) BY <1>5 DEF Halfway
  <2>3. QED BY <1>5, <2>1, <2>2
<1>7. QED BY <1>1, <1>4, <1>6, Connections

\* With at most two connections, each released over tame layouts, expunge and finalize
\* read no freed memory and free every connection.
THEOREM TwoConnectionsExpunge == Spec => TameExpunge
<1> DEFINE Cleared == heap' = "sound" /\ (exp'.op = "none" => live \cap Conn = {})
<1>1. ASSUME IInv, Shape, Foreseen, Purged, [Next]_vars, exp.op # "none", exp.tame
      PROVE  Cleared
  <2>1. heap = "sound" BY <1>1 DEF Purged
  <2>2. Purged' /\ Foreseen' BY <1>1, StepKeepsPurged, StepKeepsForeseen
  <2>3. CASE UNCHANGED vars BY <1>1, <2>1, <2>3 DEF vars
  <2>4. ASSUME FinishExpunge \/ FinishFinalize PROVE Cleared
    BY <1>1, <2>4, EndIsEmpty DEF FinishExpunge, FinishFinalize, Expunging
  <2>5. ASSUME VisitNull \/ VisitConnection PROVE Cleared
    BY <1>1, <2>5, Frames DEF VisitNull, VisitConnection, Expunging, ExpungeFrame
  <2>6. ASSUME VisitFreedConnection PROVE FALSE
    <3>1. exp' = exp /\ heap' = "corrupt" BY <2>6 DEF VisitFreedConnection, Corrupt
    <3>2. QED BY <1>1, <2>2, <3>1 DEF Purged
  <2>7. ASSUME exp' = exp, rel.op # "none", VisitFreed PROVE FALSE
    <3>1. heap' = "corrupt" BY <2>7 DEF VisitFreed, Corrupt
    <3>2. QED BY <1>1, <2>2, <2>7, <3>1 DEF Purged
  <2>8. ASSUME exp' = exp, VisitOther \/ VisitChild \/ NextRegistry \/ FinishExpungeConnection
                           \/ FinishRelease
        PROVE  Cleared
    BY <1>1, <2>8 DEF VisitOther, VisitChild, NextRegistry, FinishExpungeConnection,
                      FinishRelease, Walking
  <2>9. ASSUME NEW o \in {"expunge", "finalize"}, StartExpunge(o) PROVE FALSE
    BY <1>1, <2>9 DEF StartExpunge, Ready
  <2>10. QED
    BY <1>1, <2>3, <2>4, <2>5, <2>6, <2>7, <2>8, <2>9, ExpungeSteps
<1>2. IInv /\ Shape /\ Foreseen /\ Purged /\ [Next]_vars =>
        [exp.op # "none" /\ exp.tame => Cleared]_vars
  BY <1>1
<1>3. QED BY <1>2, PurgedHolds, PTL DEF Spec, TameExpunge

-----------------------------------------------------------------------------
(* The ODBC handles of statements.                                          *)

\* The handle of a statement is on the connection the statement is of, and a statement
\* that is gone has none.
HandleIsHome ==
    /\ \A s \in Stmt : via[s] \in {NullPtr, owner[s]}
    /\ \A s \in Stmt \ live : via[s] = NullPtr

\* A release has dealt with a single statement as soon as it has read its slot.
OneWalked ==
    rel.op # "none" =>
        /\ Turn["stmt"] < Turn[rel.kind] => Walked("stmt")
        /\ rel.kind = "stmt" => (Walked("stmt") \/ (rel.at = 1 /\ rel.end >= 1))

\* Children of other classes are no statements.
LEMMA OtherClasses ==
    /\ Tnx \cap Stmt = {} /\ Rslt \cap Stmt = {} /\ Ctlg \cap Stmt = {} /\ Conn \cap Stmt = {}
    /\ Tnx \subseteq Child /\ Rslt \subseteq Child /\ Ctlg \subseteq Child /\ Stmt \subseteq Child
<1>1. Kind = {"tnx", "stmt", "rslt", "ctlg"} /\ Kind \subseteq Class BY DEF Kind, Class
<1>2. \A k \in Class : k # "stmt" => Address[k] \cap Address["stmt"] = {}
  BY <1>1, Addresses
<1>3. QED BY <1>1, <1>2, Addresses DEF Child

LEMMA StepKeepsHandles ==
    ASSUME "direct" \notin Faults, IInv, Shape, HandleIsHome, OneWalked, [Next]_vars
    PROVE  HandleIsHome'
<1> USE OtherClasses
<1>0. /\ owner \in [Child -> Conn \cup {NullPtr}]
      /\ via \in [Child -> Conn \cup {NullPtr, Orphan}]
  BY DEF IInv, TypeOK
<1>1. ASSUME UNCHANGED <<live, owner, via>> PROVE HandleIsHome'
  BY <1>1 DEF HandleIsHome
<1>2. ASSUME NEW x \in Child \ Stmt, NEW c, UNCHANGED via, owner' = [owner EXCEPT ![x] = c],
             live' = live \cup {x}
      PROVE  HandleIsHome'
  BY <1>0, <1>2 DEF HandleIsHome
<1>3. Create => HandleIsHome'
  <2>1. ASSUME NEW c \in Conn, NewConnection(c) PROVE HandleIsHome'
    BY <2>1 DEF NewConnection, HandleIsHome
  <2>2. ASSUME NEW k, NEW x \in Child \ Stmt, NEW c, NewOnConnection(k, x, c)
        PROVE  HandleIsHome'
    BY <1>2, <2>2 DEF NewOnConnection, Construct
  <2>3. ASSUME NEW s \in Stmt, NewStatement(s) PROVE HandleIsHome'
    <3>1. /\ s \notin live /\ via' = via /\ live' = live \cup {s}
          /\ owner' = [owner EXCEPT ![s] = NullPtr]
      BY <2>3 DEF NewStatement, Construct
    <3>2. via[s] = NullPtr BY <3>1 DEF HandleIsHome
    <3>3. QED BY <1>0, <3>1, <3>2 DEF HandleIsHome
  <2>4. ASSUME NEW s \in Stmt, NEW c \in Conn, NewStatementOn(s, c) PROVE HandleIsHome'
    <3>1. /\ via' = [via EXCEPT ![s] = c] /\ live' = live \cup {s}
          /\ owner' = [owner EXCEPT ![s] = c]
      BY <2>4 DEF NewStatementOn, Construct
    <3>2. QED BY <1>0, <3>1 DEF HandleIsHome
  <2>5. ASSUME NEW s \in Stmt, NEW c \in Conn, LoseStatement(s, c) PROVE HandleIsHome'
    BY <1>1, <2>5 DEF LoseStatement
  <2>6. ASSUME NEW s \in Stmt, NEW r \in Rslt, ExecuteStatement(s, r) PROVE HandleIsHome'
    BY <1>2, <2>6 DEF ExecuteStatement, Construct
  <2>7. ASSUME NEW s \in Stmt, NEW c \in Conn, NEW r \in Rslt, ExecuteDirect(s, c, r)
        PROVE  HandleIsHome'
    <3>1. /\ s \in live /\ via' = [via EXCEPT ![s] = c] /\ live' = live \cup {r}
          /\ owner' = [owner EXCEPT ![s] = c, ![r] = c] /\ s # r
      BY <2>7 DEF ExecuteDirect, OnChild
    <3>2. owner'[s] = c /\ \A z \in Stmt : z # s => owner'[z] = owner[z]
      BY <1>0, <3>1
    <3>3. via'[s] = c /\ \A z \in Stmt : z # s => via'[z] = via[z] BY <1>0, <3>1
    <3>4. QED BY <3>1, <3>2, <3>3 DEF HandleIsHome
  <2>8. QED
    BY <2>1, <2>2, <2>3, <2>4, <2>5, <2>6, <2>7
    DEF Create, NewTransaction, NewCatalog, ExecuteOnConnection
<1>4. ASSUME NEW x, Destroy(x) PROVE HandleIsHome'
  <2>1. /\ live' = live \ {x} /\ owner' = [owner EXCEPT ![x] = NullPtr]
        /\ via' = [via EXCEPT ![x] = NullPtr]
    BY <1>4 DEF Destroy
  <2>2. \A z \in Stmt : /\ via'[z] = (IF z = x THEN NullPtr ELSE via[z])
                        /\ owner'[z] = (IF z = x THEN NullPtr ELSE owner[z])
    BY <1>0, <2>1
  <2>3. QED BY <2>1, <2>2 DEF HandleIsHome
<1>5. Use => HandleIsHome'
  <2>1. ASSUME NEW s \in Stmt, NEW c \in Conn, OpenStatement(s, c) PROVE HandleIsHome'
    <3>1. /\ s \in live /\ via' = [via EXCEPT ![s] = c] /\ live' = live
          /\ owner' = [owner EXCEPT ![s] = c]
      BY <2>1 DEF OpenStatement, OnChild
    <3>2. QED BY <1>0, <3>1 DEF HandleIsHome
  <2>2. ASSUME NEW s \in Stmt, CloseStatement(s) PROVE HandleIsHome'
    <3>1. via' = [via EXCEPT ![s] = NullPtr] /\ UNCHANGED <<live, owner>>
      BY <2>2 DEF CloseStatement
    <3>2. QED BY <1>0, <3>1 DEF HandleIsHome
  <2>3. ASSUME NEW k, NEW x, ReleaseChild(k, x) PROVE HandleIsHome'
    BY <1>4, <2>3 DEF ReleaseChild
  <2>4. QED
    BY <1>1, <2>1, <2>2, <2>3
    DEF Use, FailDirect, AskConnection, UseLost, UseZero, Corrupt, ReleaseTransaction,
        ReleaseStatement, ReleaseResult, ReleaseCatalog
<1>6. Release => HandleIsHome'
  <2>1. ASSUME FinishRelease PROVE HandleIsHome'
    <3>1. PICK c : c = rel.conn OBVIOUS
    <3>2. /\ rel.op # "none" /\ rel.kind = "done" /\ live' = live \ {c} /\ owner' = owner
          /\ via' = [x \in Child |-> IF via[x] = c THEN Orphan ELSE via[x]]
      BY <2>1, <3>1 DEF FinishRelease, Walking
    <3>3. c \in Conn BY <3>1, <3>2 DEF IInv, ReleasedIsAlive
    <3>4. \A s \in Stmt \cap live : owner[s] # c
      BY <3>1, <3>2, Addresses DEF OneWalked, Turn, Walked
    <3>5. \A s \in Stmt : via[s] # c BY <3>3, <3>4, Addresses DEF HandleIsHome
    <3>6. \A s \in Stmt : via'[s] = via[s] BY <3>2, <3>5
    <3>7. \A s \in Stmt : s \in live' <=> s \in live BY <3>2, <3>3
    <3>8. QED BY <3>2, <3>6, <3>7 DEF HandleIsHome
  <2>2. QED
    BY <1>1, <1>4, <2>1
    DEF Release, StartRelease, VisitFreed, VisitOther, VisitChild, NextRegistry,
        FinishExpungeConnection, Corrupt
<1>7. Expunge => HandleIsHome'
  <2>1. ASSUME FinishFinalize PROVE HandleIsHome'
    BY <2>1 DEF FinishFinalize, HandleIsHome
  <2>2. QED
    BY <1>1, <2>1
    DEF Expunge, StartExpunge, VisitNull, VisitConnection, VisitFreedConnection,
        FinishExpunge, Corrupt
<1>8. Initialize => HandleIsHome' BY <1>1 DEF Initialize
<1>9. UNCHANGED vars => HandleIsHome' BY <1>1 DEF vars
<1>10. QED BY <1>3, <1>5, <1>6, <1>7, <1>8, <1>9 DEF Next

LEMMA StepKeepsOneWalked ==
    ASSUME \A s, t \in Stmt : s = t, IInv, Shape, OneWalked, [Next]_vars
    PROVE  OneWalked'
<1>1. CASE UNCHANGED vars
  BY <1>1 DEF vars, OneWalked, Walked
<1>2. CASE Next /\ rel'.op = "none" BY <1>2 DEF OneWalked
<1>3. CASE Next /\ rel'.op # "none"
  <2>1. Turn["tnx"] = 1 /\ Turn["stmt"] = 2 /\ Turn["rslt"] = 3 /\ Turn["ctlg"] = 4 /\ Turn["done"] = 5
    BY DEF Turn
  <2>2. ASSUME NEW o, NEW c, rel' = Frame(o, c) PROVE OneWalked'
    BY <2>1, <2>2 DEF Frame, OneWalked
  <2>3. ASSUME rel.op # "none", VisitFreed PROVE OneWalked'
    BY <2>3 DEF VisitFreed, Corrupt, OneWalked, Walked
  <2>4. "stmt" \in Kind /\ Address["stmt"] = Stmt /\ Stmt \subseteq Child
    BY Addresses DEF Kind
  <2>5. ASSUME rel.op # "none", VisitOther PROVE OneWalked'
    <3>1. /\ rel' = [rel EXCEPT !.at = @ + 1] /\ UNCHANGED <<live, owner>>
          /\ slot[rel.kind][rel.at] \in live /\ owner[slot[rel.kind][rel.at]] # rel.conn
          /\ rel.at <= rel.end
      BY <2>5 DEF VisitOther
    <3>2. rel'.conn = rel.conn /\ rel'.kind = rel.kind /\ rel'.end = rel.end
      BY <3>1, Frames DEF ReleaseFrame
    <3>3. Walked("stmt")' <=> Walked("stmt") BY <3>1, <3>2 DEF Walked
    <3>4. ASSUME rel.kind = "stmt" PROVE Walked("stmt")
      <4>1. rel.at \in Slots BY <3>1, Frames
      <4>2. slot["stmt"][rel.at] \in Stmt
        <5>1. slot["stmt"][rel.at] \in Stmt \cup {NullPtr}
          BY <2>4, <4>1, Addresses DEF IInv, SlotsHoldTheirClass
        <5>2. slot["stmt"][rel.at] # NullPtr BY <3>1, <3>4, Addresses DEF IInv, TypeOK
        <5>3. QED BY <5>1, <5>2
      <4>3. \A s \in Stmt : owner[s] # rel.conn BY <3>1, <3>4, <4>2
      <4>4. QED BY <2>4, <4>3 DEF Walked
    <3>5. QED BY <2>5, <3>2, <3>3, <3>4 DEF OneWalked
  <2>6. ASSUME rel.op # "none", VisitChild PROVE OneWalked'
    <3>1. PICK k : k = rel.kind OBVIOUS
    <3>2. PICK x : x = slot[k][rel.at] OBVIOUS
    <3>3. /\ k \in Kind /\ x \in Address[k] /\ x \in Child /\ live' = live \ {x}
          /\ owner' = [owner EXCEPT ![x] = NullPtr]
          /\ rel' = [rel EXCEPT !.at = @ + 1]
      BY <2>6, <3>1, <3>2, VisitMoves
    <3>4. rel'.conn = rel.conn /\ rel'.kind = k
      BY <3>1, <3>3, Frames DEF ReleaseFrame
    <3>5. owner \in [Child -> Conn \cup {NullPtr}] BY DEF IInv, TypeOK
    <3>6. Walked("stmt") => Walked("stmt")'
      BY <2>4, <3>3, <3>4, <3>5 DEF Walked
    <3>7. ASSUME k = "stmt" PROVE Walked("stmt")'
      <4>1. live' \cap Stmt = {} BY <2>4, <3>3, <3>7
      <4>2. QED BY <2>4, <4>1 DEF Walked
    <3>8. QED BY <2>6, <3>1, <3>4, <3>6, <3>7 DEF OneWalked
  <2>7. ASSUME rel.op # "none", NextRegistry PROVE OneWalked'
    <3>1. PICK l : l = rel.kind OBVIOUS
    <3>2. /\ l \in Kind /\ rel.at > rel.end /\ UNCHANGED <<live, owner, size>>
          /\ rel' = [rel EXCEPT !.kind = After[l], !.at = 1,
                                !.end = IF After[l] = "done" THEN 0 ELSE size[After[l]]]
      BY <2>7, <3>1, Frames DEF NextRegistry
    <3>3. /\ rel'.conn = rel.conn /\ rel'.kind = After[l] /\ rel'.at = 1
          /\ After[l] = "stmt" => rel'.end = size["stmt"]
      BY <3>2, Frames DEF ReleaseFrame
    <3>4. Walked("stmt")' <=> Walked("stmt") BY <3>2, <3>3 DEF Walked
    <3>5. l = "tnx" => After[l] = "stmt" BY DEF After
    <3>6. l # "tnx" => After[l] # "stmt" /\ Turn["stmt"] <= Turn[l]
      BY <2>1, <3>2 DEF After, Kind
    <3>7. CASE l = "tnx"
      <4>1. Walked("stmt") \/ size["stmt"] >= 1
        <5>1. ASSUME NEW s \in live \cap Stmt PROVE size["stmt"] >= 1
          <6>1. PICK i \in 1 .. size["stmt"] : slot["stmt"][i] = s
            BY <2>4, Addresses DEF IInv, Registries, LiveAreRetained, Retained
          <6>2. size["stmt"] \in Nat BY <2>4, InUse
          <6>3. QED BY <6>1, <6>2
        <5>2. QED BY <2>4, <5>1 DEF Walked
      <4>2. QED BY <2>1, <3>3, <3>4, <3>5, <3>7, <4>1 DEF OneWalked
    <3>8. CASE l # "tnx"
      <4>1. Walked("stmt")
        <5>1. CASE l = "stmt"
          <6>1. rel.at \in Nat /\ rel.end \in Nat
            <7>1. MaxSlots \in Nat BY Addresses
            <7>2. QED BY <7>1, Frames
          <6>2. QED BY <2>7, <3>1, <3>2, <5>1, <6>1 DEF OneWalked
        <5>2. CASE l # "stmt"
          <6>1. Turn["stmt"] < Turn[l] BY <2>1, <3>2, <3>8, <5>2 DEF Kind
          <6>2. QED BY <2>7, <3>1, <6>1 DEF OneWalked
        <5>3. QED BY <5>1, <5>2
      <4>2. QED BY <3>4, <4>1 DEF OneWalked
    <3>9. QED BY <3>7, <3>8
  <2>8. QED
    BY <1>3, <2>2, <2>3, <2>5, <2>6, <2>7, RunningSteps DEF StartRelease, VisitConnection
<1>4. QED BY <1>1, <1>2, <1>3

\* Where an execution that fails leaves no handle on another connection, and there is
\* one statement at a time, no statement keeps the ODBC connection of a released one.
THEOREM OneStatementNoOrphan ==
    ASSUME "direct" \notin Faults, \A s, t \in Stmt : s = t
    PROVE  Spec => []NoOrphanHandle
<1>1. Init => HandleIsHome /\ OneWalked
  <2>1. Stmt \subseteq Child BY OtherClasses
  <2>2. QED BY <2>1 DEF Init, HandleIsHome, OneWalked, NoRelease
<1>2. IInv /\ Shape /\ HandleIsHome /\ OneWalked /\ [Next]_vars => HandleIsHome' /\ OneWalked'
  BY StepKeepsHandles, StepKeepsOneWalked
<1>3. IInv /\ HandleIsHome => NoOrphanHandle
  BY Addresses, OtherClasses, ConstantsAssumption DEF IInv, TypeOK, HandleIsHome, NoOrphanHandle
<1>4. QED BY <1>1, <1>2, <1>3, ShapeHolds, PTL DEF Spec

-----------------------------------------------------------------------------
(* What the contract needs of the registries.                               *)

\* No constructor fails and there is one object of each child class at a time.
Single ==
    /\ "ctor" \notin Faults
    /\ \A k \in Kind : \A x, y \in Address[k] : x = y

\* The connection of a live object is alive.
OwnerIsAlive == \A x \in live \cap Child : owner[x] \in live \cup {NullPtr}

\* Every release walks tame layouts, and leaves no child of the connection it deletes.
Orderly ==
    /\ lost = {}
    /\ rel.op # "none" => rel.tame
    /\ OwnerIsAlive

\* A registry of at most one slot is tame for every connection.
LEMMA SingleIsTame ==
    ASSUME Single, IInv, Shape, lost = {}, NEW c
    PROVE  Tame(c)
<1>1. SUFFICES ASSUME NEW k \in Kind PROVE Layout(k, c)
  BY TameIsLayout
<1>2. /\ size[k] \in Nat /\ Mine(k, c) \in SUBSET (1 .. size[k])
      /\ \A i \in 1 .. size[k] : slot[k][i] \in Address[k]
  BY InUse
<1>3. Clean(k) BY CleanWithoutLost
<1>4. \A i, j \in 1 .. size[k] : i = j BY <1>2, <1>3 DEF Single, Clean
<1>5. size[k] <= 1
  <2>1. ASSUME size[k] >= 2 PROVE FALSE
    <3>1. 1 \in 1 .. size[k] /\ 2 \in 1 .. size[k] BY <1>2, <2>1
    <3>2. 1 = 2 BY <1>4, <3>1
    <3>3. QED BY <3>2
  <2>2. QED BY <1>2, <2>1
<1>6. \A i \in Mine(k, c) : i = 1 /\ size[k] = 1 BY <1>2, <1>5
<1>7. Even(size[k], Mine(k, c)) BY <1>6 DEF Even
<1>8. QED BY <1>3, <1>7 DEF Layout

\* Where it holds a release reads no freed memory, and at its end has no child left.
LEMMA OrderlyEnds ==
    ASSUME IInv, Foreseen, Orderly, rel.op # "none"
    PROVE  /\ heap = "sound"
           /\ rel.kind = "done" => ChildrenOf(rel.conn) = {}
<1>1. heap = "sound" /\ \A k \in Kind : Fine(k) BY DEF Foreseen, Orderly
<1>2. ASSUME rel.kind = "done", NEW k \in Kind PROVE Walked(k)
  <2>1. Turn[k] < Turn[rel.kind] BY <1>2 DEF Kind, Turn
  <2>2. QED BY <1>1, <2>1 DEF Fine
<1>3. QED BY <1>1, <1>2, AllWalked

\* Nothing is lost where no constructor fails.
LEMMA NothingIsLost ==
    ASSUME "ctor" \notin Faults, lost = {}, Next
    PROVE  lost' = {}
<1>1. Create => lost' = {}
  BY DEF Create, NewConnection, NewTransaction, NewCatalog, ExecuteOnConnection, NewStatement,
         NewStatementOn, LoseStatement, ExecuteStatement, ExecuteDirect, NewOnConnection,
         Construct
<1>2. Use => lost' = {}
  BY DEF Use, OpenStatement, FailDirect, CloseStatement, AskConnection, UseLost, UseZero,
         ReleaseTransaction, ReleaseStatement, ReleaseResult, ReleaseCatalog, ReleaseChild,
         Corrupt
<1>3. Release => lost' = {}
  BY DEF Release, StartRelease, VisitFreed, VisitOther, VisitChild, NextRegistry,
         FinishExpungeConnection, FinishRelease, Corrupt
<1>4. Expunge => lost' = {}
  BY DEF Expunge, StartExpunge, VisitNull, VisitConnection, VisitFreedConnection,
         FinishExpunge, FinishFinalize, Corrupt
<1>5. Initialize => lost' = {} BY DEF Initialize
<1>6. QED BY <1>1, <1>2, <1>3, <1>4, <1>5 DEF Next

LEMMA StepKeepsTame ==
    ASSUME Single, IInv, Shape, Orderly, Next, rel'.op # "none"
    PROVE  rel'.tame
<1>1. \A c : Tame(c) BY SingleIsTame DEF Orderly
<1>2. ASSUME rel.op = "none" PROVE rel'.tame
  <2>1. PICK o, c : rel' = Frame(o, c)
    BY <1>2, RunningSteps DEF StartRelease, VisitConnection
  <2>2. Frame(o, c).tame = Tame(c) BY DEF Frame
  <2>3. QED BY <1>1, <2>1, <2>2
<1>3. ASSUME rel.op # "none" PROVE rel'.tame
  <2>1. rel.tame BY <1>3 DEF Orderly
  <2>2. VisitFreed \/ VisitOther \/ VisitChild \/ NextRegistry BY <1>3, RunningSteps
  <2>3. rel'.tame = rel.tame
    <3>1. CASE VisitFreed BY <3>1 DEF VisitFreed, Corrupt
    <3>2. CASE VisitOther BY <3>2, Frames DEF VisitOther, ReleaseFrame
    <3>3. CASE VisitChild BY <3>3, Frames DEF VisitChild, ReleaseFrame
    <3>4. CASE NextRegistry BY <3>4, Frames DEF NextRegistry, ReleaseFrame
    <3>5. QED BY <2>2, <3>1, <3>2, <3>3, <3>4
  <2>4. QED BY <2>1, <2>3
<1>4. QED BY <1>2, <1>3

LEMMA StepKeepsOwners ==
    ASSUME IInv, Foreseen, Orderly, Next
    PROVE  OwnerIsAlive'
<1>0. /\ owner \in [Child -> Conn \cup {NullPtr}]
      /\ Conn \cap Child = {} /\ NullPtr \notin Conn /\ OwnerIsAlive
      /\ \A k \in Kind : Address[k] \subseteq Child
  <2>1. Conn \cap Child = {}
    BY Addresses DEF Child, Kind
  <2>2. QED BY <2>1, Addresses DEF IInv, TypeOK, Orderly
<1>1. ASSUME UNCHANGED <<live, owner>> PROVE OwnerIsAlive'
  BY <1>0, <1>1 DEF OwnerIsAlive
<1>2. ASSUME NEW x \in Child, NEW c \in (live \cap Conn) \cup {NullPtr},
             live' = live \cup {x}, owner' = [owner EXCEPT ![x] = c]
      PROVE  OwnerIsAlive'
  BY <1>0, <1>2 DEF OwnerIsAlive
<1>3. ASSUME NEW x \in Child, Destroy(x) PROVE OwnerIsAlive'
  <2>1. live' = live \ {x} /\ owner' = [owner EXCEPT ![x] = NullPtr] BY <1>3 DEF Destroy
  <2>2. QED BY <1>0, <2>1 DEF OwnerIsAlive
<1>4. \A c \in Conn : OnConnection(c) => c \in live \cap Conn
  BY ValidConnectionIsAlive DEF OnConnection
<1>5. Create => OwnerIsAlive'
  <2>1. ASSUME NEW c \in Conn, NewConnection(c) PROVE OwnerIsAlive'
    BY <1>0, <2>1 DEF NewConnection, OwnerIsAlive
  <2>2. ASSUME NEW k \in Kind, NEW x, NEW c \in Conn, NewOnConnection(k, x, c) PROVE OwnerIsAlive'
    BY <1>0, <1>2, <1>4, <2>2 DEF NewOnConnection, Construct
  <2>3. ASSUME NEW s \in Stmt, NewStatement(s) PROVE OwnerIsAlive'
    BY <1>2, <2>3, OtherClasses DEF NewStatement, Construct
  <2>4. ASSUME NEW s \in Stmt, NEW c \in Conn, NewStatementOn(s, c) PROVE OwnerIsAlive'
    BY <1>2, <1>4, <2>4, OtherClasses DEF NewStatementOn, Construct
  <2>5. ASSUME NEW s \in Stmt, NEW c \in Conn, LoseStatement(s, c) PROVE OwnerIsAlive'
    BY <1>1, <2>5 DEF LoseStatement
  <2>6. ASSUME NEW s \in Stmt, NEW r \in Rslt, ExecuteStatement(s, r) PROVE OwnerIsAlive'
    <3>1. owner[s] \in (live \cap Conn) \cup {NullPtr}
      BY <1>0, <2>6, OtherClasses DEF ExecuteStatement, OnChild, OwnerIsAlive
    <3>2. QED BY <1>2, <2>6, <3>1, OtherClasses DEF ExecuteStatement, Construct
  <2>7. ASSUME NEW s \in Stmt, NEW c \in Conn, NEW r \in Rslt, ExecuteDirect(s, c, r)
        PROVE  OwnerIsAlive'
    <3>1. /\ live' = live \cup {r} /\ owner' = [owner EXCEPT ![s] = c, ![r] = c]
          /\ c \in live
      BY <1>4, <2>7 DEF ExecuteDirect
    <3>2. QED BY <1>0, <3>1, OtherClasses DEF OwnerIsAlive
  <2>8. "tnx" \in Kind /\ "rslt" \in Kind /\ "ctlg" \in Kind BY DEF Kind
  <2>9. QED
    BY <2>1, <2>2, <2>3, <2>4, <2>5, <2>6, <2>7, <2>8
    DEF Create, NewTransaction, NewCatalog, ExecuteOnConnection
<1>6. Use => OwnerIsAlive'
  <2>1. ASSUME NEW s \in Stmt, NEW c \in Conn, OpenStatement(s, c) PROVE OwnerIsAlive'
    <3>1. live' = live /\ owner' = [owner EXCEPT ![s] = c] /\ c \in live
      BY <1>4, <2>1 DEF OpenStatement
    <3>2. QED BY <1>0, <3>1, OtherClasses DEF OwnerIsAlive
  <2>2. ASSUME NEW k, NEW x \in Child, ReleaseChild(k, x) PROVE OwnerIsAlive'
    BY <1>3, <2>2 DEF ReleaseChild
  <2>3. QED
    BY <1>1, <2>1, <2>2, OtherClasses
    DEF Use, FailDirect, CloseStatement, AskConnection, UseLost, UseZero, Corrupt,
        ReleaseTransaction, ReleaseStatement, ReleaseResult, ReleaseCatalog
<1>7. Release => OwnerIsAlive'
  <2>1. VisitChild => OwnerIsAlive'
    <3>1. ASSUME VisitChild PROVE slot[rel.kind][rel.at] \in Child
      <4>1. rel.kind \in Kind /\ rel.at \in Slots
        BY <3>1, Frames DEF VisitChild, Walking
      <4>2. slot[rel.kind][rel.at] \in Address[rel.kind] \cup {NullPtr}
        BY <4>1, Addresses DEF IInv, SlotsHoldTheirClass
      <4>3. slot[rel.kind][rel.at] # NullPtr
        BY <3>1, Addresses DEF IInv, TypeOK, VisitChild
      <4>4. QED BY <1>0, <4>1, <4>2, <4>3
    <3>2. QED BY <1>3, <3>1 DEF VisitChild
  <2>2. FinishRelease => OwnerIsAlive'
    <3>1. ASSUME FinishRelease PROVE OwnerIsAlive'
      <4>1. PICK c : c = rel.conn OBVIOUS
      <4>2. rel.op # "none" /\ rel.kind = "done" /\ live' = live \ {c} /\ owner' = owner
        BY <3>1, <4>1 DEF FinishRelease, Walking
      <4>3. \A x \in live \cap Child : owner[x] # c
        BY <4>1, <4>2, OrderlyEnds DEF ChildrenOf
      <4>4. QED BY <1>0, <4>2, <4>3 DEF OwnerIsAlive
    <3>2. QED BY <3>1
  <2>3. QED
    BY <1>1, <2>1, <2>2
    DEF Release, StartRelease, VisitFreed, VisitOther, NextRegistry,
        FinishExpungeConnection, Corrupt
<1>8. Expunge => OwnerIsAlive'
  <2>1. FinishFinalize => OwnerIsAlive' BY DEF FinishFinalize, OwnerIsAlive
  <2>2. QED
    BY <1>1, <2>1
    DEF Expunge, StartExpunge, VisitNull, VisitConnection, VisitFreedConnection,
        FinishExpunge, Corrupt
<1>9. Initialize => OwnerIsAlive' BY <1>1 DEF Initialize
<1>10. QED BY <1>5, <1>6, <1>7, <1>8, <1>9 DEF Next

\* Single objects keep the releases orderly.
LEMMA OrderlyHolds ==
    ASSUME Single
    PROVE  Spec => [](IInv /\ Shape /\ Foreseen /\ Purged /\ Orderly)
<1>1. Init => Orderly BY DEF Init, Orderly, OwnerIsAlive, NoRelease
<1>2. IInv /\ Shape /\ Foreseen /\ Orderly /\ [Next]_vars => Orderly'
  <2>1. ASSUME IInv, Shape, Foreseen, Orderly, Next PROVE Orderly'
    <3>1. lost' = {} BY <2>1, NothingIsLost DEF Orderly, Single
    <3>2. QED BY <2>1, <3>1, StepKeepsTame, StepKeepsOwners DEF Orderly
  <2>2. ASSUME Orderly, UNCHANGED vars PROVE Orderly'
    BY <2>2 DEF vars, Orderly, OwnerIsAlive
  <2>3. QED BY <2>1, <2>2
<1>3. QED BY <1>1, <1>2, PurgedHolds, PTL DEF Spec

-----------------------------------------------------------------------------
(* The contract.  While a loop runs, what it has to free counts as gone.    *)

Alive == live \ Doomed

Shown == [x \in Child |-> IF x \in Alive THEN owner[x] ELSE NullPtr]

\* The same objects, of the same connections.
SameObjects == Alive' = Alive /\ \A x \in Alive \cap Child : owner'[x] = owner[x]

\* The objects apart from those in gone, of the same connections.
Frees(gone) ==
    /\ up' = up /\ Alive' = Alive \ gone
    /\ \A x \in Alive' \cap Child : owner'[x] = owner[x]

LEMMA SameIsStutter ==
    ASSUME up' = up, SameObjects
    PROVE  UNCHANGED Contract!vars
<1>1. Shown' = Shown BY DEF SameObjects, Shown
<1>2. Alive' = Alive BY DEF SameObjects
<1>3. QED BY <1>1, <1>2 DEF Contract!vars, Shown, Alive

LEMMA FreesIsFree ==
    ASSUME NEW gone, Frees(gone)
    PROVE  Contract!Free(gone)
<1>1. Alive' = Alive \ gone /\ up' = up BY DEF Frees
<1>2. Shown' = [x \in Child |-> IF x \in gone THEN NullPtr ELSE Shown[x]]
  BY DEF Frees, Shown
<1>3. QED BY <1>1, <1>2 DEF Contract!Free, Contract!Disowned, Alive, Shown

\* A new object.
LEMMA MakesIsMake ==
    ASSUME NEW x \in Child, NEW c \in (Alive \cap Conn) \cup {NullPtr}, x \notin Alive,
           up, up' = up, Alive' = Alive \cup {x}, owner'[x] = c,
           \A y \in Alive \cap Child : owner'[y] = owner[y]
    PROVE  Contract!Make(x, c)
<1>1. Shown' = [Shown EXCEPT ![x] = c] BY DEF Shown
<1>2. QED BY <1>1 DEF Contract!Make, Alive, Shown

\* Where no loop runs nothing counts as gone before its time.
LEMMA IdleIsAlive ==
    /\ rel.op = "none" /\ exp.op = "none" => Alive = live
    /\ (rel.op = "none" /\ exp.op = "none" => Alive = live)'
<1>1. rel.op = "none" /\ exp.op = "none" => Alive = live BY DEF Alive, Doomed
<1>2. rel'.op = "none" /\ exp'.op = "none" => Alive' = live' BY DEF Alive, Doomed
<1>3. QED BY <1>1, <1>2

\* In a release, and in an expunge, only the objects that are no business of it count.
LEMMA RunningIsAlive ==
    /\ exp.op # "none" =>
            Alive = {x \in live : x \notin Conn /\ (x \in Child => owner[x] \notin Conn)}
    /\ exp.op = "none" /\ rel.op # "none" =>
            Alive = {x \in live : (x \in Child => owner[x] # rel.conn)
                                  /\ (rel.op = "release" => x # rel.conn)}
BY DEF Alive, Doomed, ChildrenOf

LEMMA RunningIsAliveNext ==
    /\ exp'.op # "none" =>
            Alive' = {x \in live' : x \notin Conn /\ (x \in Child => owner'[x] \notin Conn)}
    /\ exp'.op = "none" /\ rel'.op # "none" =>
            Alive' = {x \in live' : (x \in Child => owner'[x] # rel'.conn)
                                    /\ (rel'.op = "release" => x # rel'.conn)}
BY DEF Alive, Doomed, ChildrenOf

LEMMA CreateIsContract ==
    ASSUME IInv, Orderly, Create
    PROVE  Contract!Next \/ UNCHANGED Contract!vars
<1> USE OtherClasses
<1>0. /\ owner \in [Child -> Conn \cup {NullPtr}] /\ OwnerIsAlive
      /\ Conn \cap Child = {} /\ NullPtr \notin Conn
      /\ \A k \in Kind : Address[k] \subseteq Child
  <2>1. Conn \cap Child = {}
    BY Addresses DEF Child, Kind
  <2>2. QED BY <2>1, Addresses DEF IInv, TypeOK, Orderly
<1>1. ASSUME Ready, UNCHANGED <<rel, exp>> PROVE Alive = live /\ Alive' = live'
  BY <1>1, IdleIsAlive DEF Ready
<1>2. ASSUME NEW k \in Kind, NEW x, NEW c \in (live \cap Conn) \cup {NullPtr}, Ready,
             Construct(k, x, c)
      PROVE  Contract!Next
  <2>1. /\ x \in Child /\ x \notin live /\ live' = live \cup {x} /\ up' = up
        /\ owner' = [owner EXCEPT ![x] = c]
    BY <1>0, <1>2 DEF Construct
  <2>2. Alive = live /\ Alive' = live' BY <1>1, <1>2 DEF Construct
  <2>3. up BY <1>2 DEF Ready
  <2>4. owner'[x] = c /\ \A y \in Alive \cap Child : owner'[y] = owner[y]
    BY <1>0, <2>1, <2>2
  <2>5. Contract!Make(x, c) BY <2>1, <2>2, <2>3, <2>4, MakesIsMake
  <2>6. QED BY <2>1, <2>5 DEF Contract!Next
<1>3. \A c \in Conn : OnConnection(c) => Ready /\ c \in live \cap Conn
  BY ValidConnectionIsAlive DEF OnConnection
<1>4. "tnx" \in Kind /\ "rslt" \in Kind /\ "ctlg" \in Kind /\ "stmt" \in Kind BY DEF Kind
<1>5. ASSUME NEW c \in Conn, NewConnection(c) PROVE Contract!Next
  <2>1. /\ Ready /\ c \notin live /\ live' = live \cup {c} /\ UNCHANGED <<up, owner, rel, exp>>
    BY <1>5 DEF NewConnection
  <2>2. Alive = live /\ Alive' = live' BY <1>1, <2>1
  <2>3. Shown' = Shown BY <1>0, <2>1, <2>2 DEF Shown
  <2>4. Contract!Connect(c) BY <2>1, <2>2, <2>3 DEF Contract!Connect, Ready, Alive, Shown
  <2>5. QED BY <2>4 DEF Contract!Next
<1>6. ASSUME NEW k \in Kind, NEW x, NEW c \in Conn, NewOnConnection(k, x, c) PROVE Contract!Next
  BY <1>2, <1>3, <1>6 DEF NewOnConnection
<1>7. ASSUME NEW s \in Stmt, NewStatement(s) PROVE Contract!Next
  BY <1>2, <1>4, <1>7 DEF NewStatement
<1>8. ASSUME NEW s \in Stmt, NEW c \in Conn, NewStatementOn(s, c) PROVE Contract!Next
  BY <1>2, <1>3, <1>4, <1>8 DEF NewStatementOn
<1>9. ASSUME NEW s \in Stmt, NEW c \in Conn, LoseStatement(s, c)
      PROVE  UNCHANGED Contract!vars
  <2>1. Ready /\ UNCHANGED <<up, live, owner, rel, exp>> BY <1>9 DEF LoseStatement, OnConnection
  <2>2. QED BY <1>1, <2>1, SameIsStutter DEF SameObjects
<1>10. ASSUME NEW s \in Stmt, NEW r \in Rslt, ExecuteStatement(s, r) PROVE Contract!Next
  <2>1. Ready /\ Construct("rslt", r, owner[s]) /\ s \in live
    BY <1>10 DEF ExecuteStatement, OnChild
  <2>2. owner[s] \in (live \cap Conn) \cup {NullPtr} BY <1>0, <2>1 DEF OwnerIsAlive
  <2>3. QED BY <1>2, <1>4, <2>1, <2>2
<1>11. ASSUME NEW s \in Stmt, NEW c \in Conn, NEW r \in Rslt, ExecuteDirect(s, c, r)
       PROVE  Contract!Next
  <2>1. /\ Ready /\ c \in live /\ s \in live /\ r \notin live /\ s # r
        /\ live' = live \cup {r} /\ owner' = [owner EXCEPT ![s] = c, ![r] = c]
        /\ UNCHANGED <<up, rel, exp>>
    BY <1>3, <1>11 DEF ExecuteDirect, OnChild
  <2>2. Alive = live /\ Alive' = live' BY <1>1, <2>1
  <2>3. Shown' = [Shown EXCEPT ![s] = c, ![r] = c]
    BY <1>0, <2>1, <2>2 DEF Shown
  <2>4. Contract!Run(s, r, c) BY <2>1, <2>2, <2>3 DEF Contract!Run, Alive, Shown
  <2>5. QED BY <2>1, <2>4 DEF Contract!Next
<1>12. QED
  BY <1>4, <1>5, <1>6, <1>7, <1>8, <1>9, <1>10, <1>11
  DEF Create, NewTransaction, NewCatalog, ExecuteOnConnection

LEMMA UseIsContract ==
    ASSUME IInv, Orderly, Use
    PROVE  Contract!Next \/ UNCHANGED Contract!vars
<1> USE OtherClasses
<1>0. owner \in [Child -> Conn \cup {NullPtr}] /\ Conn \cap Child = {}
  <2>1. Conn \cap Child = {}
    BY Addresses DEF Child, Kind
  <2>2. QED BY <2>1 DEF IInv, TypeOK
<1>1. ASSUME Ready, UNCHANGED <<rel, exp>> PROVE Alive = live /\ Alive' = live'
  BY <1>1, IdleIsAlive DEF Ready
<1>2. ASSUME Ready, UNCHANGED <<up, live, owner, rel, exp>> PROVE UNCHANGED Contract!vars
  BY <1>1, <1>2, SameIsStutter DEF SameObjects
<1>3. ASSUME NEW s \in Stmt, NEW c \in Conn, OpenStatement(s, c) PROVE Contract!Next
  <2>1. /\ Ready /\ c \in live /\ s \in live /\ live' = live
        /\ owner' = [owner EXCEPT ![s] = c] /\ UNCHANGED <<up, rel, exp>>
    BY <1>3, ValidConnectionIsAlive DEF OpenStatement, OnChild, OnConnection
  <2>2. Alive = live /\ Alive' = live' BY <1>1, <2>1
  <2>3. Shown' = [Shown EXCEPT ![s] = c] BY <1>0, <2>1, <2>2 DEF Shown
  <2>4. Contract!Move(s, c) BY <2>1, <2>2, <2>3 DEF Contract!Move, Alive, Shown
  <2>5. QED BY <2>4 DEF Contract!Next
<1>4. ASSUME NEW k, NEW x \in Child, ReleaseChild(k, x) PROVE Contract!Next
  <2>1. /\ Ready /\ live' = live \ {x} /\ owner' = [owner EXCEPT ![x] = NullPtr]
        /\ UNCHANGED <<up, rel, exp>>
    BY <1>4 DEF ReleaseChild, Destroy, OnChild
  <2>2. Alive = live /\ Alive' = live' BY <1>1, <2>1
  <2>3. Frees({x}) BY <1>0, <2>1, <2>2 DEF Frees
  <2>4. Contract!Free({x}) BY <2>3, FreesIsFree
  <2>5. QED BY <2>4 DEF Contract!Next
<1>5. QED
  BY <1>2, <1>3, <1>4
  DEF Use, FailDirect, CloseStatement, AskConnection, UseLost, UseZero, Corrupt, OnChild,
      ReleaseTransaction, ReleaseStatement, ReleaseResult, ReleaseCatalog

\* A release starts, and its objects are gone at once.
LEMMA StartIsContract ==
    ASSUME IInv, NEW o \in {"release", "expunge"}, NEW c \in Conn, StartRelease(o, c)
    PROVE  Contract!Next
<1>1. /\ Ready /\ c \in live /\ rel' = Frame(o, c) /\ UNCHANGED <<up, live, owner, exp>>
  BY ValidConnectionIsAlive DEF StartRelease, OnConnection
<1>2. Alive = live BY <1>1, IdleIsAlive DEF Ready
<1>3. rel'.op = o /\ rel'.conn = c /\ exp'.op = "none" BY <1>1 DEF Frame, Ready
<1>4. Alive' = {x \in live : (x \in Child => owner[x] # c) /\ (o = "release" => x # c)}
  BY <1>1, <1>3, RunningIsAliveNext
<1>5. Contract!Belonging(c) = {x \in Alive \cap Child : Shown[x] = c}
  BY DEF Contract!Belonging, Alive, Shown
<1>6. Contract!Belonging(c) = {x \in live \cap Child : owner[x] = c}
  BY <1>2, <1>5 DEF Shown
<1>7. CASE o = "release"
  <2>1. PICK gone : gone = {c} \cup Contract!Belonging(c) OBVIOUS
  <2>2. Frees(gone) BY <1>1, <1>2, <1>4, <1>6, <1>7, <2>1 DEF Frees
  <2>3. Contract!Free(gone) BY <2>2, FreesIsFree
  <2>4. Contract!Free({c} \cup Contract!Belonging(c)) BY <2>1, <2>3 DEF Contract!Free, Contract!Disowned
  <2>5. QED BY <2>4 DEF Contract!Next
<1>8. CASE o = "expunge"
  <2>1. PICK gone : gone = Contract!Belonging(c) OBVIOUS
  <2>2. Frees(gone) BY <1>1, <1>2, <1>4, <1>6, <1>8, <2>1 DEF Frees
  <2>3. Contract!Free(gone) BY <2>2, FreesIsFree
  <2>4. Contract!Free(Contract!Belonging(c)) BY <2>1, <2>3 DEF Contract!Free, Contract!Disowned
  <2>5. QED BY <2>4 DEF Contract!Next
<1>9. QED BY <1>7, <1>8

\* The loops only delete what counts as gone, and have nothing of it left at their end.
LEMMA ReleaseIsContract ==
    ASSUME IInv, Shape, Foreseen, Orderly, Release
    PROVE  Contract!Next \/ UNCHANGED Contract!vars
<1>0. owner \in [Child -> Conn \cup {NullPtr}] /\ Conn \cap Child = {} /\ NullPtr \notin Conn
  <2>1. Conn \cap Child = {}
    BY Addresses DEF Child, Kind
  <2>2. QED BY <2>1, Addresses DEF IInv, TypeOK
<1>1. ASSUME UNCHANGED <<up, live, owner, exp>>, rel'.op = rel.op, rel'.conn = rel.conn
      PROVE  UNCHANGED Contract!vars
  <2>1. Alive' = Alive BY <1>1 DEF Alive, Doomed, ChildrenOf
  <2>2. QED BY <1>1, <2>1, SameIsStutter DEF SameObjects
<1>2. VisitFreed => UNCHANGED Contract!vars BY <1>1 DEF VisitFreed, Corrupt
<1>3. VisitOther \/ NextRegistry => UNCHANGED Contract!vars
  BY <1>1, Frames DEF VisitOther, NextRegistry, ReleaseFrame
<1>4. ASSUME VisitChild PROVE UNCHANGED Contract!vars
  <2>1. PICK k : k = rel.kind OBVIOUS
  <2>2. PICK x : x = slot[k][rel.at] OBVIOUS
  <2>3. /\ x \in live /\ x \in Child /\ live' = live \ {x} /\ owner[x] = rel.conn
        /\ owner' = [owner EXCEPT ![x] = NullPtr]
        /\ rel' = [rel EXCEPT !.at = @ + 1]
    BY <1>4, <2>1, <2>2, VisitMoves
  <2>4. up' = up /\ exp' = exp /\ rel.op # "none" BY <1>4 DEF VisitChild, Walking
  <2>5. rel'.op = rel.op /\ rel'.conn = rel.conn BY <2>3, Frames DEF ReleaseFrame
  <2>6. rel.conn \in Conn BY <2>4 DEF IInv, ReleasedIsAlive
  <2>7. Alive' = Alive
    <3>1. CASE exp.op # "none"
      BY <1>0, <2>3, <2>4, <2>6, <3>1, RunningIsAlive, RunningIsAliveNext
    <3>2. CASE exp.op = "none"
      BY <1>0, <2>3, <2>4, <2>5, <3>2, RunningIsAlive, RunningIsAliveNext
    <3>3. QED BY <3>1, <3>2
  <2>8. x \notin Alive
    BY <2>3, <2>4, <2>6, RunningIsAlive
  <2>9. QED BY <1>0, <2>3, <2>4, <2>7, <2>8, SameIsStutter DEF SameObjects
<1>5. ASSUME FinishExpungeConnection \/ FinishRelease PROVE UNCHANGED Contract!vars
  <2>1. PICK c : c = rel.conn OBVIOUS
  <2>2. /\ rel.op # "none" /\ rel' = NoRelease /\ UNCHANGED <<up, owner, exp>>
        /\ \A x \in live \cap Child : owner[x] # c
        /\ live' = (IF rel.op = "release" THEN live \ {c} ELSE live)
    BY <1>5, <2>1, OrderlyEnds
    DEF FinishExpungeConnection, FinishRelease, Walking, ChildrenOf
  <2>3. c \in Conn BY <2>1, <2>2 DEF IInv, ReleasedIsAlive
  <2>4. rel'.op = "none" BY <2>2 DEF NoRelease
  <2>5. Alive' = Alive
    <3>1. CASE exp.op # "none"
      BY <2>2, <2>3, <3>1, RunningIsAlive, RunningIsAliveNext
    <3>2. CASE exp.op = "none"
      <4>1. Alive' = live' BY <2>2, <2>4, <3>2, IdleIsAlive
      <4>2. QED BY <2>1, <2>2, <3>2, <4>1, RunningIsAlive
    <3>3. QED BY <3>1, <3>2
  <2>6. QED BY <2>2, <2>5, SameIsStutter DEF SameObjects
<1>6. QED BY <1>2, <1>3, <1>4, <1>5, StartIsContract DEF Release

LEMMA ExpungeIsContract ==
    ASSUME IInv, Shape, Purged, Orderly, Expunge
    PROVE  Contract!Next \/ UNCHANGED Contract!vars
<1>0. /\ owner \in [Child -> Conn \cup {NullPtr}] /\ Conn \cap Child = {} /\ NullPtr \notin Conn
      /\ OwnerIsAlive
  <2>1. Conn \cap Child = {}
    BY Addresses DEF Child, Kind
  <2>2. QED BY <2>1, Addresses DEF IInv, TypeOK, Orderly
<1>1. ASSUME NEW o \in {"expunge", "finalize"}, StartExpunge(o) PROVE Contract!Next
  <2>1. Ready /\ exp'.op = o /\ UNCHANGED <<up, live, owner>> BY <1>1 DEF StartExpunge
  <2>2. Alive = live BY <2>1, IdleIsAlive DEF Ready
  <2>3. Alive' = {x \in live : x \notin Conn /\ (x \in Child => owner[x] \notin Conn)}
    BY <2>1, RunningIsAliveNext
  <2> DEFINE conns == Alive \cap Conn
             all == conns \cup UNION {{x \in Alive \cap Child : Shown[x] = c} : c \in conns}
  <2>4. Shown = [x \in Child |-> IF x \in live THEN owner[x] ELSE NullPtr] BY <2>2 DEF Shown
  <2>5. \A x : x \in all <=> (x \in live /\ (x \in Conn \/ (x \in Child /\ owner[x] \in Conn)))
    BY <1>0, <2>2, <2>4 DEF OwnerIsAlive
  <2>6. PICK gone : gone = all OBVIOUS
  <2>7. Alive' = Alive \ gone BY <2>2, <2>3, <2>5, <2>6
  <2>8. Contract!Free(gone) BY <2>1, <2>2, <2>7, FreesIsFree DEF Frees
  <2>9. Contract!FreeAll
    BY <2>6, <2>8
    DEF Contract!FreeAll, Contract!Free, Contract!Disowned, Contract!Belonging, Alive, Shown
  <2>10. QED BY <2>9 DEF Contract!Next
<1>2. ASSUME UNCHANGED <<up, live, owner>>, exp.op # "none", exp'.op # "none"
      PROVE  UNCHANGED Contract!vars
  <2>1. Alive' = Alive BY <1>2, RunningIsAlive, RunningIsAliveNext
  <2>2. QED BY <1>2, <2>1, SameIsStutter DEF SameObjects
<1>3. VisitNull \/ VisitConnection \/ VisitFreedConnection => UNCHANGED Contract!vars
  BY <1>2, Frames
  DEF VisitNull, VisitConnection, VisitFreedConnection, Corrupt, Expunging, ExpungeFrame
<1>4. ASSUME FinishExpunge \/ FinishFinalize
      PROVE  /\ exp.op # "none" /\ rel.op = "none" /\ exp'.op = "none" /\ rel' = rel
             /\ live \cap Conn = {}
  <2>1. /\ exp.op # "none" /\ rel.op = "none" /\ exp' = NoExpunge /\ rel' = rel
        /\ heap = "sound" /\ exp.at > exp.end
    BY <1>4 DEF FinishExpunge, FinishFinalize, Expunging
  <2>2. QED BY <2>1, EndIsEmpty DEF NoExpunge
<1>5. ASSUME FinishExpunge PROVE UNCHANGED Contract!vars
  <2>1. UNCHANGED <<up, live, owner>> BY <1>5 DEF FinishExpunge
  <2>2. \A x \in live \cap Child : owner[x] \notin Conn BY <1>0, <1>4, <1>5 DEF OwnerIsAlive
  <2>3. Alive' = live BY <1>4, <1>5, <2>1, IdleIsAlive
  <2>4. Alive = live BY <1>4, <1>5, <2>2, RunningIsAlive
  <2>5. QED BY <2>1, <2>3, <2>4, SameIsStutter DEF SameObjects
<1>6. ASSUME FinishFinalize PROVE Contract!Next
  <2>1. up' = FALSE /\ live' = {} BY <1>6 DEF FinishFinalize
  <2>2. up BY <1>4, <1>6, LoopsRunUp
  <2>3. Alive' = {} BY <2>1 DEF Alive
  <2>4. Shown' = [x \in Child |-> NullPtr] BY <2>3 DEF Shown
  <2>5. Contract!Finish BY <2>1, <2>2, <2>3, <2>4 DEF Contract!Finish, Alive, Shown
  <2>6. QED BY <2>5 DEF Contract!Next
<1>7. QED BY <1>1, <1>3, <1>5, <1>6 DEF Expunge

\* With one object of each child class at a time, and constructors that do not fail, the
\* registries and their loops implement the contract of the packages: every step is one of
\* ResourceContract or changes nothing it speaks of, for any number of connections.
THEOREM ImplementsResourceContract ==
    ASSUME "ctor" \notin Faults, \A k \in Kind : \A x, y \in Address[k] : x = y
    PROVE  Spec => KeepsContract
<1>0. Single BY DEF Single
<1>1. Init => Contract!Init
  <2>1. SUFFICES ASSUME Init PROVE Contract!Init OBVIOUS
  <2>2. live = {} /\ up = FALSE BY <2>1 DEF Init
  <2>3. Alive = {} BY <2>2 DEF Alive
  <2>4. Shown = [x \in Child |-> NullPtr] BY <2>3 DEF Shown
  <2>5. QED BY <2>2, <2>3, <2>4 DEF Contract!Init, Alive, Shown
<1>2. IInv /\ Shape /\ Foreseen /\ Purged /\ Orderly /\ [Next]_vars
        => [Contract!Next]_(Contract!vars)
  <2>1. ASSUME IInv, Initialize PROVE Contract!Next
    <3>1. /\ ~up /\ up' = TRUE /\ rel.op = "none" /\ exp.op = "none"
          /\ UNCHANGED <<live, owner, rel, exp>>
      BY <2>1 DEF Initialize, IInv, DownIsEmpty
    <3>2. Alive = live /\ Alive' = live BY <3>1, IdleIsAlive
    <3>3. Shown' = Shown BY <3>1, <3>2 DEF Shown
    <3>4. Contract!Start BY <3>1, <3>2, <3>3 DEF Contract!Start, Alive, Shown
    <3>5. QED BY <3>4 DEF Contract!Next
  <2>2. ASSUME UNCHANGED vars PROVE UNCHANGED Contract!vars
    <3>1. Alive' = Alive BY <2>2 DEF vars, Alive, Doomed, ChildrenOf
    <3>2. QED BY <2>2, <3>1, SameIsStutter DEF vars, SameObjects
  <2>3. QED
    BY <2>1, <2>2, CreateIsContract, UseIsContract, ReleaseIsContract, ExpungeIsContract DEF Next
<1>3. Spec => [](IInv /\ Shape /\ Foreseen /\ Purged /\ Orderly) BY <1>0, OrderlyHolds
<1>4. QED BY <1>1, <1>2, <1>3, PTL DEF Spec, KeepsContract, Contract!Spec
=============================================================================
