------------------------ MODULE AttachmentPoolProofs ------------------------
(***************************************************************************)
(* Proofs about AttachmentPool, for any number of attachments, ids and     *)
(* databases: an attachment under whose lookups the iterator never moved,  *)
(* and which lost no resources to another, keeps its instance and is       *)
(* served from its own, whatever races the others run; and as long as      *)
(* nobody was disturbed, the pool fails only for the causes named and      *)
(* keeps its contract.                                                     *)
(***************************************************************************)
EXTENDS AttachmentPool, TLAPS

\* The resources at r exist and were made for the id of a.
Mine(a, r) == r \in Live /\ heap[r].id = id[a]

\* The points at which a thread still has use for the id it looks up.
Later == Window \cup {"findAgain", "construct", "insert"}

HasId == \A a \in Attachment : at[a] \in Later => local[a].id \in Id

\* What an attachment that was left alone can rely on: its element of the map, what
\* initialize is about to put there, and what its calls and lookups hold.
Good(a) ==
    /\ instance[a] \in {None, id[a]}
    /\ at[a] # "erase" /\ map[id[a]] # None => Mine(a, map[id[a]])
    /\ \A b \in Attachment : at[b] = "insert" /\ id[b] = id[a] =>
          /\ Mine(a, local[b].res)
          /\ at[a] # "erase" => local[b].res # map[id[a]]
    /\ \A b, c \in Attachment :
          at[b] = "insert" /\ at[c] = "insert" /\ id[b] = id[a] /\ id[c] = id[a] /\ b # c =>
              local[b].res # local[c].res
    /\ at[a] = "using" => Mine(a, local[a].res)
    /\ cursor[a] \in Resource => Mine(a, cursor[a])
    /\ at[a] \in Later => local[a].id = id[a]
    /\ at[a] \in Window => it \in {End, id[a]}

Alone == Attachment \ (hit \cup cut)
AllGood == \A a \in Alone : Good(a)

\* Resources keep the id of the attachment that made them.
MadeForId == \A r \in Live : heap[r].id = id[heap[r].by]

-----------------------------------------------------------------------------
(* As long as no lookup is disturbed, lost resources or not.                *)

\* An element of the map whose resources are gone and which will be erased.
Erasing(i) == \E a \in Attachment : at[a] = "erase" /\ local[a].id = i

\* Two threads that look at the iterator at once disturb each other.
OneLooks == \A a, b \in Attachment : at[a] \in Window /\ at[b] \in Window => a = b

MapIsRight ==
    \A i \in Id : map[i] # None /\ ~Erasing(i) => map[i] \in Live /\ heap[map[i]].id = i

\* An element of the map is that of an attachment that was initialised or will be.
Ends(a) == at[a] \in {"findAgain", "check", "deref"} /\ local[a].op = "initialize"

Accounted ==
    \A i \in Id : map[i] # None => \E a \in Attachment : id[a] = i /\ (a \in started \/ Ends(a))

\* What a lookup did not find is there by now only if it has just been put there.
EndIsNew ==
    \A a \in Attachment : at[a] \in Window /\ it = End /\ map[local[a].id] # None =>
        \E c \in Attachment : id[c] = local[a].id /\ at[c] = "findAgain" /\ local[c].op = "initialize"

\* The iterator is where the thread has put it.
Found(a) ==
    at[a] \in Window =>
        \/ it = End /\ at[a] \notin {"deref", "remove", "erase"}
        \/ it \in Id /\ it = local[a].id /\ map[it] # None

\* The resources initialize has made are not in the map yet.
NewIsApart(a) ==
    at[a] = "insert" =>
        /\ local[a].res \in Live /\ heap[local[a].res].by = a
        /\ \A i \in Id : map[i] = local[a].res => Erasing(i)

\* initialize and finalize look up the attachment's own id.
AsksForItself(a) ==
    /\ at[a] \in {"initCheck", "construct", "insert"} => local[a].op = "initialize"
    /\ at[a] \in {"delete", "remove", "erase"} => local[a].op = "finalize"
    /\ at[a] \in Later /\ local[a].op \in {"initialize", "finalize"} => local[a].id = id[a]

\* An attachment whose id is its own has its element of the map to itself; as long as
\* no cursor lost its resources they are the ones in the map.
Steady(a) ==
    /\ instance[a] \in {None, id[a]}
    /\ at[a] \in Later => local[a].id = id[a]
    /\ at[a] \in {"construct", "insert"} => map[id[a]] = None
    /\ at[a] \in {"findAgain", "check"} /\ local[a].op = "initialize" => map[id[a]] # None
    /\ at[a] = "using" => map[id[a]] # None /\ local[a].res = map[id[a]]
    /\ cut = {} /\ cursor[a] # None => at[a] # "erase" /\ cursor[a] = map[id[a]]

Own(a) == Found(a) /\ NewIsApart(a) /\ AsksForItself(a) /\ (Distinct => Steady(a))

Calm == OneLooks /\ MapIsRight /\ Accounted /\ EndIsNew /\ \A a \in Attachment : Own(a)

Quiet == hit = {} => Calm

\* The inductive invariant.
IInv ==
    /\ TypeOK /\ HasId /\ AllGood /\ MadeForId /\ Quiet
    /\ ForeignHasCause /\ FaultsHaveCauses

-----------------------------------------------------------------------------
(* Types.                                                                   *)

Local == [op : Operations, res : Resource \cup {None}, id : Id \cup {None}]

LEMMA ReturnTypes ==
    ASSUME TypeOK, NEW a \in Attachment,
           NEW s \in {"none", "initialized", "failed", "finalized", "served", "foreign", "refused"},
           Return(a, s)
    PROVE  /\ local' \in [Attachment -> Local]
           /\ answer' \in [of : Attachment \cup {None},
                  is : {"none", "initialized", "failed", "finalized", "served", "foreign", "refused"}]
BY DEF TypeOK, Return, NoLocal, Local, Operations

LEMMA BeginTypes ==
    ASSUME TypeOK, NEW a \in Attachment, NEW op \in Operations, NEW p \in Points, NEW i \in Id,
           Begin(a, op, p, i)
    PROVE  /\ local' \in [Attachment -> Local] /\ at' \in [Attachment -> Points]
           /\ answer' \in [of : Attachment \cup {None},
                  is : {"none", "initialized", "failed", "finalized", "served", "foreign", "refused"}]
           /\ id' = id /\ db' = db
<1>1. [op |-> op, res |-> None, id |-> i] \in Local BY DEF Local
<1>2. QED BY <1>1 DEF TypeOK, Begin, Go, NoAnswer, Local, world

LEMMA MovesTypes ==
    ASSUME TypeOK, NEW a \in Attachment, NEW i \in Id, Moves(a, i)
    PROVE  it' \in Id \cup {End, Dangling} /\ hit' \subseteq Attachment
BY DEF TypeOK, Moves, Disturb, Looking

LEMMA GoTypes ==
    ASSUME TypeOK, NEW a \in Attachment, NEW p, NEW q \in Points, Go(a, p, q)
    PROVE  at' \in [Attachment -> Points] /\ id' = id /\ db' = db
BY DEF TypeOK, Go, world

LEMMA Looked ==
    ASSUME TypeOK, NEW a \in Attachment
    PROVE  /\ id[a] \in Id /\ local[a] \in Local
           /\ local[a].op \in Operations /\ local[a].res \in Resource \cup {None}
           /\ local[a].id \in Id \cup {None}
           /\ instance[a] \in Id \cup {None} /\ cursor[a] \in Resource \cup {None, NullPtr}
BY DEF TypeOK, Local

LEMMA OpenedTypes ==
    ASSUME TypeOK, NEW a \in Attachment, StartInitialize(a) \/ StartCall(a) \/ StartFinalize(a)
    PROVE  TypeOK'
<1>1. CASE StartInitialize(a)
  <2>1. Begin(a, "initialize", "initCheck", id[a]) /\ Moves(a, id[a])
    BY <1>1 DEF StartInitialize
  <2>2. QED
    BY <1>1, <2>1, BeginTypes, MovesTypes, Looked
       DEF StartInitialize, TypeOK, Operations, Points, Local
<1>2. CASE StartCall(a)
  <2> DEFINE i == IF instance[a] = None THEN id[a] ELSE instance[a]
             op == IF instance[a] = None THEN "constructor" ELSE "call"
  <2>1. i \in Id /\ op \in Operations BY Looked DEF Operations
  <2>2. /\ Begin(a, op, "check", i) /\ Moves(a, i)
        /\ UNCHANGED <<map, heap, known, instance, cursor, started, cut, fault>>
    BY <1>2 DEF StartCall
  <2> HIDE DEF i, op
  <2>3. QED BY <2>1, <2>2, BeginTypes, MovesTypes DEF TypeOK, Points, Local
<1>3. CASE StartFinalize(a)
  <2>1. Begin(a, "finalize", "check", id[a]) /\ Moves(a, id[a])
    BY <1>3 DEF StartFinalize
  <2>2. QED
    BY <1>3, <2>1, BeginTypes, MovesTypes, Looked
       DEF StartFinalize, TypeOK, Operations, Points, Local
<1>4. QED BY <1>1, <1>2, <1>3

LEMMA InitializeTypes ==
    ASSUME TypeOK, NEW a \in Attachment,
           InitCheck(a) \/ Construct(a) \/ FailConstruct(a) \/ Insert(a)
    PROVE  TypeOK'
<1>1. CASE InitCheck(a)
  <2>1. UNCHANGED <<pool, local, instance, cursor, answer, history>> BY <1>1 DEF InitCheck
  <2>2. at' \in [Attachment -> Points] /\ id' = id /\ db' = db
    BY <1>1, GoTypes DEF InitCheck, Points
  <2>3. QED BY <2>1, <2>2 DEF TypeOK, pool, history
<1>2. CASE Construct(a)
  <2>1. PICK r \in Resource \ Live :
            /\ heap' = [heap EXCEPT ![r] = [by |-> a, id |-> id[a]]]
            /\ local' = [local EXCEPT ![a].res = r]
    BY <1>2 DEF Construct
  <2>2. at' \in [Attachment -> Points] /\ id' = id /\ db' = db
    BY <1>2, GoTypes DEF Construct, Points
  <2>3. UNCHANGED <<map, it, known, instance, cursor, answer, history>> BY <1>2 DEF Construct
  <2>4. heap' \in [Resource -> [by : Attachment, id : Id] \cup {None}]
    BY <2>1, Looked DEF TypeOK
  <2>5. local' \in [Attachment -> Local]
    <3> DEFINE e == [local[a] EXCEPT !.res = r]
    <3>1. e \in Local BY Looked DEF Local
    <3>2. local' = [local EXCEPT ![a] = e] BY <2>1, Zenon
    <3> HIDE DEF e
    <3>3. QED BY <3>1, <3>2 DEF TypeOK, Local
  <2>6. QED BY <2>2, <2>3, <2>4, <2>5 DEF TypeOK, history, Local
<1>3. CASE FailConstruct(a)
  <2>1. UNCHANGED <<pool, instance, cursor, history>> BY <1>3 DEF FailConstruct
  <2>2. at' \in [Attachment -> Points] /\ id' = id /\ db' = db
    BY <1>3, GoTypes DEF FailConstruct, Points
  <2>3. QED
    BY <1>3, <2>1, <2>2, ReturnTypes DEF FailConstruct, TypeOK, pool, history, Local
<1>4. CASE Insert(a)
  <2>1. map' \in [Id -> Resource \cup {None}]
    BY <1>4, Looked DEF Insert, TypeOK
  <2>2. at' \in [Attachment -> Points] /\ id' = id /\ db' = db
    BY <1>4, GoTypes DEF Insert, Points
  <2>3. QED BY <1>4, <2>1, <2>2 DEF Insert, TypeOK, history
<1>5. QED BY <1>1, <1>2, <1>3, <1>4

LEMMA LookupTypes ==
    ASSUME TypeOK, HasId, NEW a \in Attachment, FindAgain(a) \/ CheckEnd(a) \/ CheckFound(a)
    PROVE  TypeOK'
<1>1. CASE CheckFound(a)
  <2>1. UNCHANGED <<pool, local, instance, cursor, answer, history>> BY <1>1 DEF CheckFound
  <2>2. at' \in [Attachment -> Points] /\ id' = id /\ db' = db
    BY <1>1, GoTypes DEF CheckFound, Points
  <2>3. QED BY <2>1, <2>2 DEF TypeOK, pool, history
<1>2. CASE CheckEnd(a)
  <2>1. CASE Fault(a, "check", "message")
    BY <2>1 DEF Fault, TypeOK, world, pool, thread
  <2>2. CASE Go(a, "check", "idle") /\ UNCHANGED <<pool, instance, cursor, hit, cut, fault>>
             /\ started' \in {started, started \cup {a}, started \ {a}}
             /\ \E s \in {"initialized", "finalized", "refused"} : Return(a, s)
    <3>1. PICK s \in {"initialized", "finalized", "refused"} : Return(a, s) BY <2>2
    <3>2. at' \in [Attachment -> Points] /\ id' = id /\ db' = db BY <2>2, GoTypes DEF Points
    <3>3. started' \subseteq Attachment BY <2>2 DEF TypeOK
    <3>4. QED BY <2>2, <3>1, <3>2, <3>3, ReturnTypes DEF TypeOK, pool, Local
  <2>3. CASE /\ Go(a, "check", "idle") /\ Return(a, "refused")
             /\ cursor' = [cursor EXCEPT ![a] = IF @ = None THEN @ ELSE NullPtr]
             /\ UNCHANGED <<pool, instance, history>>
    <3>1. at' \in [Attachment -> Points] /\ id' = id /\ db' = db BY <2>3, GoTypes DEF Points
    <3>2. cursor' \in [Attachment -> Resource \cup {None, NullPtr}] BY <2>3 DEF TypeOK
    <3>3. Return(a, "refused") BY <2>3
    <3>4. QED BY <2>3, <3>1, <3>2, <3>3, ReturnTypes DEF TypeOK, pool, history, Local
  <2>4. QED BY <1>2, <2>1, <2>2, <2>3 DEF CheckEnd
<1>3. CASE FindAgain(a)
  <2>1. UNCHANGED <<map, heap, known, local, instance, cursor, answer, started, cut, fault>>
        /\ Moves(a, local[a].id)
    BY <1>3 DEF FindAgain
  <2>2. at' \in [Attachment -> Points] /\ id' = id /\ db' = db
    BY <1>3, GoTypes DEF FindAgain, Points
  <2>3. hit' \subseteq Attachment /\ it' \in Id \cup {End, Dangling}
    <3>1. at[a] = "findAgain" BY <1>3 DEF FindAgain, Go
    <3>2. local[a].id \in Id BY <3>1 DEF HasId, Later
    <3>3. QED BY <2>1, <3>2, MovesTypes
  <2>4. QED BY <2>1, <2>2, <2>3 DEF TypeOK
<1>4. QED BY <1>1, <1>2, <1>3

LEMMA FaultTypes ==
    ASSUME TypeOK, NEW a \in Attachment, NEW p,
           NEW f \in {"end", "freed", "torn", "message", "null", "exit"}, Fault(a, p, f)
    PROVE  TypeOK'
BY DEF Fault, TypeOK, world, pool, thread

LEMMA FoundTypes ==
    ASSUME TypeOK, NEW a \in Attachment, it \in Id, NEW r, r = map[it]
    PROVE  /\ InitDeref(a, r) => TypeOK'
           /\ ConstructorDeref(a, r) => TypeOK'
           /\ CallDeref(a, r) => TypeOK'
           /\ FinalizeDeref(a, r) => TypeOK'
<1>1. r \in Live => r \in Resource /\ heap[r] \in [by : Attachment, id : Id]
  BY DEF TypeOK, Live
<1>2. ASSUME InitDeref(a, r) PROVE TypeOK'
  <2>1. CASE /\ Go(a, "deref", "idle") /\ known' = TRUE /\ Return(a, "initialized")
             /\ started' = started \cup {a}
             /\ UNCHANGED <<map, it, heap, instance, cursor, hit, cut, fault>>
    <3>1. at' \in [Attachment -> Points] /\ id' = id /\ db' = db BY <2>1, GoTypes DEF Points
    <3>2. started' \subseteq Attachment BY <2>1 DEF TypeOK
    <3>3. QED BY <2>1, <3>1, <3>2, ReturnTypes DEF TypeOK, Local
  <2>2. CASE Fault(a, "deref", "freed") \/ Fault(a, "deref", "message") BY <2>2, FaultTypes
  <2>3. QED BY <1>2, <2>1, <2>2 DEF InitDeref
<1>3. ASSUME ConstructorDeref(a, r) PROVE TypeOK'
  <2>1. heap[r].id \in Id BY <1>1, <1>3 DEF ConstructorDeref
  <2> DEFINE i == heap[r].id
             e == [op |-> "call", res |-> None, id |-> i]
  <2>2. /\ instance' = [instance EXCEPT ![a] = i] /\ local' = [local EXCEPT ![a] = e]
        /\ UNCHANGED <<pool, cursor, answer, history>>
    BY <1>3 DEF ConstructorDeref
  <2>3. e \in Local BY <2>1 DEF Local, Operations
  <2>4. at' \in [Attachment -> Points] /\ id' = id /\ db' = db
    BY <1>3, GoTypes DEF ConstructorDeref, Points
  <2> HIDE DEF i, e
  <2>5. local' \in [Attachment -> Local] /\ instance' \in [Attachment -> Id \cup {None}]
    BY <2>1, <2>2, <2>3 DEF TypeOK, Local, i
  <2>6. QED BY <2>2, <2>4, <2>5 DEF TypeOK, pool, history, Local
<1>4. ASSUME CallDeref(a, r) PROVE TypeOK'
  <2>1. r \in Resource BY <1>1, <1>4 DEF CallDeref
  <2> DEFINE e == [local[a] EXCEPT !.res = r]
             c == IF cursor[a] = None THEN cursor[a] ELSE r
  <2>2. /\ cursor' = [cursor EXCEPT ![a] = c] /\ local' = [local EXCEPT ![a] = e]
        /\ UNCHANGED <<pool, instance, answer, history>>
    BY <1>4, Zenon DEF CallDeref
  <2>3. e \in Local /\ c \in Resource \cup {None, NullPtr} BY <2>1, Looked DEF Local
  <2>4. at' \in [Attachment -> Points] /\ id' = id /\ db' = db
    BY <1>4, GoTypes DEF CallDeref, Points
  <2> HIDE DEF e, c
  <2>5. local' \in [Attachment -> Local] /\ cursor' \in [Attachment -> Resource \cup {None, NullPtr}]
    BY <2>2, <2>3 DEF TypeOK, Local
  <2>6. QED BY <2>2, <2>4, <2>5 DEF TypeOK, pool, history, Local
<1>5. ASSUME FinalizeDeref(a, r) PROVE TypeOK'
  <2>1. heap[r].id \in Id BY <1>1, <1>5 DEF FinalizeDeref
  <2> DEFINE i == heap[r].id
             e == [local[a] EXCEPT !.id = i]
  <2>2. /\ local' = [local EXCEPT ![a] = e]
        /\ UNCHANGED <<pool, instance, cursor, answer, history>>
    BY <1>5, Zenon DEF FinalizeDeref
  <2>3. e \in Local BY <2>1, Looked DEF Local
  <2>4. at' \in [Attachment -> Points] /\ id' = id /\ db' = db
    BY <1>5, GoTypes DEF FinalizeDeref, Points
  <2> HIDE DEF e
  <2>5. local' \in [Attachment -> Local] BY <2>2, <2>3 DEF TypeOK, Local
  <2>6. QED BY <2>2, <2>4, <2>5 DEF TypeOK, pool, history, Local
<1>6. QED BY <1>2, <1>3, <1>4, <1>5

LEMMA UseTypes ==
    ASSUME TypeOK, NEW a \in Attachment, Deref(a) \/ Use(a) \/ Fetch(a) \/ Disconnect(a)
    PROVE  TypeOK'
<1>1. CASE Deref(a)
  <2>1. CASE Fault(a, "deref", "end") \/ Fault(a, "deref", "freed") BY <2>1, FaultTypes
  <2>2. CASE it \in Id /\ (\/ InitDeref(a, map[it]) \/ ConstructorDeref(a, map[it])
                           \/ CallDeref(a, map[it]) \/ FinalizeDeref(a, map[it]))
    BY <2>2, FoundTypes
  <2>3. QED BY <1>1, <2>1, <2>2 DEF Deref
<1>2. CASE Use(a)
  <2>1. CASE Fault(a, "using", "freed") BY <2>1, FaultTypes
  <2>2. CASE /\ Go(a, "using", "idle") /\ ServedBy(a, local[a].res)
             /\ cursor' \in {cursor, [cursor EXCEPT ![a] = local[a].res]}
             /\ UNCHANGED <<pool, instance, history>>
    <3>1. PICK s \in {"served", "foreign"} : Return(a, s) BY <2>2 DEF ServedBy
    <3>2. at' \in [Attachment -> Points] /\ id' = id /\ db' = db BY <2>2, GoTypes DEF Points
    <3>3. cursor' \in [Attachment -> Resource \cup {None, NullPtr}] BY <2>2, Looked DEF TypeOK
    <3>4. QED BY <2>2, <3>1, <3>2, <3>3, ReturnTypes DEF TypeOK, pool, history, Local
  <2>3. QED BY <1>2, <2>1, <2>2 DEF Use
<1>3. CASE Fetch(a)
  <2>1. CASE Fault(a, "idle", "freed") \/ Fault(a, "idle", "null") BY <2>1, FaultTypes
  <2>2. CASE /\ Go(a, "idle", "idle") /\ ServedBy(a, cursor[a])
             /\ cursor' \in {cursor, [cursor EXCEPT ![a] = None]}
             /\ UNCHANGED <<pool, instance, history>>
    <3>1. PICK s \in {"served", "foreign"} : Return(a, s) BY <2>2 DEF ServedBy
    <3>2. at' \in [Attachment -> Points] /\ id' = id /\ db' = db BY <2>2, GoTypes DEF Points
    <3>3. cursor' \in [Attachment -> Resource \cup {None, NullPtr}] BY <2>2 DEF TypeOK
    <3>4. QED BY <2>2, <3>1, <3>2, <3>3, ReturnTypes DEF TypeOK, pool, history, Local
  <2>3. QED BY <1>3, <2>1, <2>2 DEF Fetch
<1>4. CASE Disconnect(a)
  <2>1. at' \in [Attachment -> Points] /\ id' = id /\ db' = db
    BY <1>4, GoTypes DEF Disconnect, Points
  <2>2. QED BY <1>4, <2>1 DEF Disconnect, TypeOK, pool, history, NoAnswer
<1>5. QED BY <1>1, <1>2, <1>3, <1>4

LEMMA FinalizeTypes ==
    ASSUME TypeOK, NEW a \in Attachment, CheckDelete(a) \/ Delete(a) \/ Erase(a)
    PROVE  TypeOK'
<1>0. CASE CheckDelete(a)
  <2>1. CASE /\ Go(a, "delete", "remove")
             /\ UNCHANGED <<pool, local, instance, cursor, answer, history>>
    <3>1. at' \in [Attachment -> Points] /\ id' = id /\ db' = db BY <2>1, GoTypes DEF Points
    <3>2. QED BY <2>1, <3>1 DEF TypeOK, pool, history
  <2>2. CASE /\ Go(a, "delete", "idle") /\ Return(a, "finalized") /\ started' = started \ {a}
             /\ UNCHANGED <<pool, instance, cursor, hit, cut, fault>>
    <3>1. at' \in [Attachment -> Points] /\ id' = id /\ db' = db BY <2>2, GoTypes DEF Points
    <3>2. started' \subseteq Attachment BY <2>2 DEF TypeOK
    <3>3. QED BY <2>2, <3>1, <3>2, ReturnTypes DEF TypeOK, pool, Local
  <2>3. QED BY <1>0, <2>1, <2>2 DEF CheckDelete
<1>1. CASE Delete(a)
  <2>1. CASE Fault(a, "remove", "end") \/ Fault(a, "remove", "freed") BY <2>1, FaultTypes
  <2>3. CASE /\ it \in Id /\ Go(a, "remove", "erase")
             /\ heap' = [heap EXCEPT ![map[it]] = None]
             /\ local' = [local EXCEPT ![a].id = it]
             /\ cut' = cut \cup Robbed(a, map[it])
             /\ UNCHANGED <<map, it, known, instance, cursor, answer, started, hit, fault>>
    <3>1. at' \in [Attachment -> Points] /\ id' = id /\ db' = db BY <2>3, GoTypes DEF Points
    <3>2. heap' \in [Resource -> [by : Attachment, id : Id] \cup {None}]
      BY <2>3 DEF TypeOK
    <3>3. cut' \subseteq Attachment BY <2>3 DEF TypeOK, Robbed
    <3>4. local' \in [Attachment -> Local]
      <4> DEFINE e == [local[a] EXCEPT !.id = it]
      <4>1. e \in Local BY <2>3, Looked DEF Local
      <4>2. local' = [local EXCEPT ![a] = e] BY <2>3, Zenon
      <4> HIDE DEF e
      <4>3. QED BY <4>1, <4>2 DEF TypeOK, Local
    <3>5. QED BY <2>3, <3>1, <3>2, <3>3, <3>4 DEF TypeOK, Local
  <2>4. QED BY <1>1, <2>1, <2>3 DEF Delete
<1>2. CASE Erase(a)
  <2>1. CASE Fault(a, "erase", "end") \/ Fault(a, "erase", "torn") BY <2>1, FaultTypes
  <2>2. CASE /\ Go(a, "erase", "idle") /\ map' = [map EXCEPT ![it] = None]
             /\ it' = Dangling /\ Disturb(a) /\ Return(a, "finalized")
             /\ started' = started \ {a}
             /\ UNCHANGED <<heap, known, instance, cursor, cut, fault>>
    <3>1. at' \in [Attachment -> Points] /\ id' = id /\ db' = db BY <2>2, GoTypes DEF Points
    <3>2. started' \subseteq Attachment /\ hit' \subseteq Attachment
      BY <2>2 DEF TypeOK, Disturb, Looking
    <3>3. map' \in [Id -> Resource \cup {None}] BY <2>2 DEF TypeOK
    <3>4. QED BY <2>2, <3>1, <3>2, <3>3, ReturnTypes DEF TypeOK, Local
  <2>3. QED BY <1>2, <2>1, <2>2 DEF Erase
<1>3. QED BY <1>0, <1>1, <1>2

LEMMA StepTypes == ASSUME TypeOK, HasId, Next PROVE TypeOK'
<1>1. CASE Exit
  BY <1>1 DEF Exit, TypeOK, world, pool, thread
<1>2. ASSUME NEW a \in Attachment,
             \/ StartInitialize(a) \/ InitCheck(a) \/ Construct(a) \/ FailConstruct(a) \/ Insert(a)
             \/ FindAgain(a) \/ CheckEnd(a) \/ CheckFound(a) \/ Deref(a)
             \/ StartCall(a) \/ Use(a) \/ Fetch(a)
             \/ StartFinalize(a) \/ CheckDelete(a) \/ Delete(a) \/ Erase(a) \/ Disconnect(a)
      PROVE  TypeOK'
  BY <1>2, OpenedTypes, InitializeTypes, LookupTypes, UseTypes, FinalizeTypes
<1>3. QED BY <1>1, <1>2 DEF Next

-----------------------------------------------------------------------------
(* What a step of one thread leaves of what the others rely on.             *)

\* Thread b goes to q, and touches the variables of no other thread.
Steps(b, q) ==
    /\ at' = [at EXCEPT ![b] = q]
    /\ id' = id
    /\ \A a \in Attachment \ {b} :
          local'[a] = local[a] /\ instance'[a] = instance[a] /\ cursor'[a] = cursor[a]
    /\ hit \subseteq hit' /\ cut \subseteq cut'

\* What b must have at q, if it is still alone.
Fit(b, q) ==
    /\ instance'[b] \in {None, id[b]}
    /\ cursor'[b] \in Resource => Mine(b, cursor'[b])
    /\ q = "using" => Mine(b, local'[b].res)
    /\ q \in Later => local'[b].id = id[b]
    /\ q \in Window => it' \in {End, id[b]}

\* A step that leaves the map and the resources as they are.
LEMMA QuietStep ==
    ASSUME TypeOK, AllGood, NEW b \in Attachment, NEW q \in Points,
           Steps(b, q), at[b] # "erase", q \notin {"insert", "erase"},
           map' = map, heap' = heap,
           it' = it \/ Looking(b) \subseteq hit',
           b \in Alone' => Fit(b, q)
    PROVE  AllGood'
<1> SUFFICES ASSUME NEW a \in Alone' PROVE Good(a)'
  BY DEF AllGood
<1>1. a \in Alone /\ a \in Attachment /\ Good(a)
  BY DEF Alone, AllGood, Steps
<1>2. \A x, r : Mine(x, r)' <=> Mine(x, r)
  BY DEF Mine, Live, Steps
<1>3. \A c \in Attachment : at'[c] = "insert" =>
          c # b /\ at[c] = "insert" /\ local'[c] = local[c]
  BY DEF Steps, TypeOK
<1>4. at'[a] = "erase" <=> at[a] = "erase"
  BY <1>1 DEF Steps, TypeOK
<1>5. id' = id BY DEF Steps
<1>6. /\ instance'[a] \in {None, id[a]}
      /\ at'[a] = "using" => Mine(a, local'[a].res)
      /\ cursor'[a] \in Resource => Mine(a, cursor'[a])
      /\ at'[a] \in Later => local'[a].id = id[a]
      /\ at'[a] \in Window => it' \in {End, id[a]}
  <2>1. CASE a = b
    BY <1>1, <2>1 DEF Steps, Fit, TypeOK
  <2>2. CASE a # b
    <3>1. at'[a] = at[a] /\ local'[a] = local[a] /\ instance'[a] = instance[a]
          /\ cursor'[a] = cursor[a]
      BY <1>1, <2>2 DEF Steps, TypeOK
    <3>2. at'[a] \in Window => it' = it
      BY <1>1, <2>2, <3>1 DEF Looking, Alone
    <3>3. QED BY <1>1, <3>1, <3>2 DEF Good
  <2>3. QED BY <2>1, <2>2
<1>7. at'[a] # "erase" /\ map'[id'[a]] # None => Mine(a, map'[id'[a]])
  BY <1>1, <1>4, <1>5 DEF Good
<1>8. \A c \in Attachment : at'[c] = "insert" /\ id'[c] = id'[a] =>
          /\ Mine(a, local'[c].res)
          /\ at'[a] # "erase" => local'[c].res # map'[id'[a]]
  BY <1>1, <1>3, <1>4, <1>5 DEF Good
<1>9. \A c, d \in Attachment :
          at'[c] = "insert" /\ at'[d] = "insert" /\ id'[c] = id'[a] /\ id'[d] = id'[a] /\ c # d =>
              local'[c].res # local'[d].res
  BY <1>1, <1>3, <1>5 DEF Good
<1>10. QED BY <1>2, <1>5, <1>6, <1>7, <1>8, <1>9 DEF Good

LEMMA StepHasId ==
    ASSUME TypeOK, HasId, NEW b \in Attachment, NEW q \in Points, Steps(b, q),
           q \in Later => local'[b].id \in Id
    PROVE  HasId'
BY DEF Steps, HasId, TypeOK

-----------------------------------------------------------------------------
(* The steps that leave the map and the resources as they are.              *)

LEMMA BeginKeeps ==
    ASSUME TypeOK, HasId, AllGood, NEW b \in Attachment, NEW op \in Operations,
           NEW q \in {"initCheck", "check"}, NEW i \in Id,
           Begin(b, op, q, i), Moves(b, i),
           UNCHANGED <<map, heap, known, instance, cursor, started, cut, fault>>,
           b \in Alone => i = id[b]
    PROVE  HasId' /\ AllGood'
<1>1. at[b] = "idle" /\ at' = [at EXCEPT ![b] = q] /\ id' = id
  BY DEF Begin, Go, world
<1>2. local'[b].id = i /\ \A a \in Attachment \ {b} : local'[a] = local[a]
  BY DEF Begin, TypeOK
<1>3. hit' = hit \cup Looking(b)
  BY DEF Moves, Disturb
<1>4. Steps(b, q) BY <1>1, <1>2, <1>3 DEF Steps
<1>5. it' \in {End, i} BY DEF Moves
<1>6. b \in Alone' => b \in Alone /\ Good(b)
  BY <1>3 DEF Alone, AllGood
<1>7. b \in Alone' => Fit(b, q)
  BY <1>2, <1>5, <1>6 DEF Fit, Good
<1>8. q \in Points /\ q \notin {"insert", "erase"} BY DEF Points
<1>9. AllGood' BY <1>1, <1>3, <1>4, <1>7, <1>8, QuietStep
<1>10. HasId' BY <1>2, <1>4, <1>8, StepHasId
<1>11. QED BY <1>9, <1>10

LEMMA OpenedKeeps ==
    ASSUME TypeOK, HasId, AllGood, NEW b \in Attachment,
           StartInitialize(b) \/ StartCall(b) \/ StartFinalize(b)
    PROVE  HasId' /\ AllGood'
<1>1. CASE StartInitialize(b)
  <2>1. "initialize" \in Operations /\ id[b] \in Id BY Looked DEF Operations
  <2>2. QED BY <1>1, <2>1, BeginKeeps DEF StartInitialize
<1>2. CASE StartCall(b)
  <2> DEFINE i == IF instance[b] = None THEN id[b] ELSE instance[b]
             op == IF instance[b] = None THEN "constructor" ELSE "call"
  <2>1. i \in Id /\ op \in Operations BY Looked DEF Operations
  <2>2. /\ Begin(b, op, "check", i) /\ Moves(b, i)
        /\ UNCHANGED <<map, heap, known, instance, cursor, started, cut, fault>>
    BY <1>2 DEF StartCall
  <2>3. b \in Alone => i = id[b] BY DEF AllGood, Good
  <2> HIDE DEF i, op
  <2>4. QED BY <2>1, <2>2, <2>3, BeginKeeps
<1>3. CASE StartFinalize(b)
  <2>1. "finalize" \in Operations /\ id[b] \in Id BY Looked DEF Operations
  <2>2. QED BY <1>3, <2>1, BeginKeeps DEF StartFinalize
<1>4. QED BY <1>1, <1>2, <1>3

\* The call ends, or a fetch does.
LEMMA ReturnKeeps ==
    ASSUME TypeOK, HasId, AllGood, NEW b \in Attachment, NEW p, Go(b, p, "idle"), p # "erase",
           NEW s, Return(b, s),
           UNCHANGED <<map, it, heap, instance, hit, cut>>,
           \A a \in Attachment \ {b} : cursor'[a] = cursor[a],
           b \in Alone => (cursor'[b] \in Resource => Mine(b, cursor'[b]))
    PROVE  HasId' /\ AllGood'
<1>1. at[b] # "erase" /\ at' = [at EXCEPT ![b] = "idle"] /\ id' = id
  BY DEF Go, world
<1>2. \A a \in Attachment \ {b} : local'[a] = local[a] BY DEF Return, TypeOK
<1>3. Steps(b, "idle") BY <1>1, <1>2 DEF Steps
<1>4. "idle" \in Points /\ "idle" \notin Later /\ "idle" \notin Window
  BY DEF Points, Later, Window
<1>5. b \in Alone' => Fit(b, "idle")
  BY <1>4 DEF Alone, AllGood, Good, Fit
<1>6. AllGood' BY <1>1, <1>3, <1>4, <1>5, QuietStep
<1>7. HasId' BY <1>3, <1>4, StepHasId
<1>8. QED BY <1>6, <1>7

\* The call goes on, with the iterator where it was.
LEMMA PassKeeps ==
    ASSUME TypeOK, HasId, AllGood, NEW b \in Attachment,
           NEW p \in Later, p # "erase", NEW q \in {"construct", "findAgain", "deref", "remove"},
           Go(b, p, q), q \in {"deref", "remove"} => p \in Window,
           UNCHANGED <<pool, local, instance, cursor, answer, history>>
    PROVE  HasId' /\ AllGood'
<1>1. at[b] = p /\ at' = [at EXCEPT ![b] = q] /\ id' = id
  BY DEF Go, world
<1>2. Steps(b, q) BY <1>1 DEF Steps, history
<1>3. q \in Points /\ q \in Later /\ q \notin {"insert", "erase"} /\ q # "using"
      /\ (q \in Window => q \in {"deref", "remove"})
  BY DEF Points, Later, Window
<1>4. b \in Alone' => Fit(b, q)
  BY <1>1, <1>3 DEF Alone, AllGood, Good, Fit, pool, history
<1>5. AllGood' BY <1>1, <1>2, <1>3, <1>4, QuietStep DEF pool
<1>6. HasId' BY <1>1, <1>2, <1>3, StepHasId DEF HasId
<1>7. QED BY <1>5, <1>6

LEMMA StillKeeps ==
    ASSUME HasId, AllGood, UNCHANGED <<world, pool, thread, hit, cut>>
    PROVE  HasId' /\ AllGood'
<1>1. \A a : Good(a)' <=> Good(a)
  BY DEF Good, Mine, Live, world, pool, thread
<1>2. QED BY <1>1 DEF HasId, AllGood, Alone, world, pool, thread

LEMMA FaultKeeps ==
    ASSUME HasId, AllGood, NEW b, NEW p, NEW f, Fault(b, p, f)
    PROVE  HasId' /\ AllGood'
BY StillKeeps DEF Fault

LEMMA LookupKeeps ==
    ASSUME TypeOK, HasId, AllGood, NEW b \in Attachment,
           InitCheck(b) \/ FindAgain(b) \/ CheckEnd(b) \/ CheckFound(b) \/ FailConstruct(b)
    PROVE  HasId' /\ AllGood'
<1>1. CASE InitCheck(b)
  <2> DEFINE q == IF it = End THEN "construct" ELSE "findAgain"
  <2>1. Go(b, "initCheck", q) /\ UNCHANGED <<pool, local, instance, cursor, answer, history>>
    BY <1>1 DEF InitCheck
  <2>2. q \in {"construct", "findAgain"} OBVIOUS
  <2>3. "initCheck" \in Later BY DEF Later, Window
  <2> HIDE DEF q
  <2>4. QED BY <2>1, <2>2, <2>3, PassKeeps
<1>2. CASE FindAgain(b)
  <2> DEFINE q == IF local[b].op = "finalize" THEN "delete" ELSE "check"
  <2>1. /\ Go(b, "findAgain", q) /\ Moves(b, local[b].id)
        /\ UNCHANGED <<map, heap, known, local, instance, cursor, answer, started, cut, fault>>
    BY <1>2 DEF FindAgain
  <2>2. q \in {"delete", "check"} OBVIOUS
  <2> HIDE DEF q
  <2>3. at[b] = "findAgain" /\ at' = [at EXCEPT ![b] = q] /\ id' = id
    BY <2>1 DEF Go, world
  <2>4. hit' = hit \cup Looking(b) /\ it' \in {End, local[b].id}
    BY <2>1 DEF Moves, Disturb
  <2>5. Steps(b, q) BY <2>1, <2>3, <2>4 DEF Steps
  <2>6. q \in Points /\ q \in Later /\ q \notin {"insert", "erase"} /\ q # "using"
    BY <2>2 DEF Points, Later, Window
  <2>7. at[b] \in Later BY <2>3 DEF Later
  <2>8. b \in Alone' => Fit(b, q)
    BY <2>1, <2>4, <2>6, <2>7 DEF Alone, AllGood, Good, Fit
  <2>9. AllGood' BY <2>1, <2>3, <2>4, <2>5, <2>6, <2>8, QuietStep
  <2>10. HasId' BY <2>1, <2>5, <2>6, <2>7, StepHasId DEF HasId
  <2>11. QED BY <2>9, <2>10
<1>3. CASE CheckEnd(b)
  <2>1. CASE Fault(b, "check", "message") BY <2>1, FaultKeeps
  <2>2. CASE Go(b, "check", "idle") /\ UNCHANGED <<pool, instance, cursor, hit, cut, fault>>
             /\ \E s \in {"initialized", "finalized", "refused"} : Return(b, s)
    <3>1. b \in Alone => (cursor'[b] \in Resource => Mine(b, cursor'[b]))
      BY <2>2 DEF AllGood, Good
    <3>2. QED BY <2>2, <3>1, ReturnKeeps DEF pool
  <2>3. CASE /\ Go(b, "check", "idle") /\ Return(b, "refused")
             /\ cursor' = [cursor EXCEPT ![b] = IF @ = None THEN @ ELSE NullPtr]
             /\ UNCHANGED <<pool, instance, history>>
    <3>1. \A a \in Attachment \ {b} : cursor'[a] = cursor[a] BY <2>3 DEF TypeOK
    <3>2. cursor'[b] \in {None, NullPtr} BY <2>3 DEF TypeOK
    <3>3. cursor'[b] \notin Resource BY <3>2, PoolAssumption
    <3>4. QED BY <2>3, <3>1, <3>3, ReturnKeeps DEF pool, history
  <2>4. QED BY <1>3, <2>1, <2>2, <2>3 DEF CheckEnd
<1>4. CASE CheckFound(b)
  <2>1. "check" \in Later /\ "check" \in Window BY DEF Later, Window
  <2>2. QED BY <1>4, <2>1, PassKeeps DEF CheckFound
<1>5. CASE FailConstruct(b)
  <2>1. b \in Alone => (cursor'[b] \in Resource => Mine(b, cursor'[b]))
    BY <1>5 DEF FailConstruct, AllGood, Good
  <2>2. QED BY <1>5, <2>1, ReturnKeeps DEF FailConstruct, pool, history
<1>6. QED BY <1>1, <1>2, <1>3, <1>4, <1>5

LEMMA UseKeeps ==
    ASSUME TypeOK, HasId, AllGood, NEW b \in Attachment, Use(b) \/ Fetch(b) \/ Disconnect(b)
    PROVE  HasId' /\ AllGood'
<1>1. CASE Use(b)
  <2>1. CASE Fault(b, "using", "freed") BY <2>1, FaultKeeps
  <2>2. CASE /\ Go(b, "using", "idle") /\ ServedBy(b, local[b].res)
             /\ cursor' \in {cursor, [cursor EXCEPT ![b] = local[b].res]}
             /\ UNCHANGED <<pool, instance, history>>
    <3>1. PICK s \in {"served", "foreign"} : Return(b, s) BY <2>2 DEF ServedBy
    <3>2. \A a \in Attachment \ {b} : cursor'[a] = cursor[a] BY <2>2 DEF TypeOK
    <3>3. b \in Alone => (cursor'[b] \in Resource => Mine(b, cursor'[b]))
      BY <2>2 DEF AllGood, Good, Go, TypeOK
    <3>4. QED BY <2>2, <3>1, <3>2, <3>3, ReturnKeeps DEF pool, history
  <2>3. QED BY <1>1, <2>1, <2>2 DEF Use
<1>2. CASE Fetch(b)
  <2>1. CASE Fault(b, "idle", "freed") \/ Fault(b, "idle", "null") BY <2>1, FaultKeeps
  <2>2. CASE /\ Go(b, "idle", "idle") /\ ServedBy(b, cursor[b])
             /\ cursor' \in {cursor, [cursor EXCEPT ![b] = None]}
             /\ UNCHANGED <<pool, instance, history>>
    <3>1. PICK s \in {"served", "foreign"} : Return(b, s) BY <2>2 DEF ServedBy
    <3>2. \A a \in Attachment \ {b} : cursor'[a] = cursor[a] BY <2>2 DEF TypeOK
    <3>3. b \in Alone => (cursor'[b] \in Resource => Mine(b, cursor'[b]))
      BY <2>2, PoolAssumption DEF AllGood, Good, TypeOK
    <3>4. QED BY <2>2, <3>1, <3>2, <3>3, ReturnKeeps DEF pool, history
  <2>3. QED BY <1>2, <2>1, <2>2 DEF Fetch
<1>3. CASE Disconnect(b)
  <2>1. /\ at[b] = "idle" /\ at' = [at EXCEPT ![b] = "gone"] /\ id' = id
        /\ instance' = [instance EXCEPT ![b] = None] /\ cursor' = [cursor EXCEPT ![b] = None]
        /\ UNCHANGED <<pool, local, history>>
    BY <1>3 DEF Disconnect, Go, world
  <2>2. Steps(b, "gone") BY <2>1 DEF Steps, TypeOK, history
  <2>3. "gone" \in Points /\ "gone" \notin Later /\ "gone" \notin Window
    BY DEF Points, Later, Window
  <2>4. instance'[b] = None /\ cursor'[b] = None BY <2>1 DEF TypeOK
  <2>5. Fit(b, "gone") BY <2>3, <2>4, PoolAssumption DEF Fit
  <2>6. AllGood' BY <2>1, <2>2, <2>3, <2>5, QuietStep DEF pool
  <2>7. HasId' BY <2>2, <2>3, StepHasId
  <2>8. QED BY <2>6, <2>7
<1>4. QED BY <1>1, <1>2, <1>3

LEMMA FoundIsMine ==
    ASSUME TypeOK, AllGood, NEW b \in Alone, at[b] = "deref", it \in Id, map[it] \in Live
    PROVE  it = id[b] /\ Mine(b, map[it])
<1>1. Good(b) /\ at[b] \in Window /\ at[b] # "erase" BY DEF AllGood, Window
<1>2. it = id[b] BY <1>1, PoolAssumption DEF Good
<1>3. map[it] # None BY PoolAssumption DEF Live
<1>4. QED BY <1>1, <1>2, <1>3 DEF Good

LEMMA FoundKeeps ==
    ASSUME TypeOK, HasId, AllGood, NEW b \in Attachment, it \in Id, NEW r, r = map[it]
    PROVE  /\ InitDeref(b, r) => HasId' /\ AllGood'
           /\ ConstructorDeref(b, r) => HasId' /\ AllGood'
           /\ CallDeref(b, r) => HasId' /\ AllGood'
           /\ FinalizeDeref(b, r) => HasId' /\ AllGood'
<1>1. r \in Live => heap[r] \in [by : Attachment, id : Id] BY DEF TypeOK, Live
<1>2. "deref" # "erase" /\ "findAgain" \in Later /\ "findAgain" \notin Window
      /\ "using" \notin Later /\ "using" \notin Window /\ "findAgain" \in Points /\ "using" \in Points
  BY DEF Later, Window, Points
<1>3. ASSUME InitDeref(b, r) PROVE HasId' /\ AllGood'
  <2>1. CASE Fault(b, "deref", "freed") \/ Fault(b, "deref", "message") BY <2>1, FaultKeeps
  <2>2. CASE /\ Go(b, "deref", "idle") /\ Return(b, "initialized")
             /\ UNCHANGED <<map, it, heap, instance, cursor, hit, cut, fault>>
    <3>1. b \in Alone => (cursor'[b] \in Resource => Mine(b, cursor'[b]))
      BY <2>2 DEF AllGood, Good
    <3>2. QED BY <2>2, <3>1, <1>2, ReturnKeeps
  <2>3. QED BY <1>3, <2>1, <2>2 DEF InitDeref
<1>4. ASSUME ConstructorDeref(b, r) PROVE HasId' /\ AllGood'
  <2> DEFINE i == heap[r].id
             e == [op |-> "call", res |-> None, id |-> i]
  <2>1. /\ r \in Live /\ at[b] = "deref" /\ at' = [at EXCEPT ![b] = "findAgain"] /\ id' = id
        /\ instance' = [instance EXCEPT ![b] = i] /\ local' = [local EXCEPT ![b] = e]
        /\ UNCHANGED <<pool, cursor, answer, history>>
    BY <1>4 DEF ConstructorDeref, Go, world
  <2>2. i \in Id /\ e.id = i BY <1>1, <2>1
  <2>3. b \in Alone => i = id[b] BY <2>1, FoundIsMine DEF Mine
  <2> HIDE DEF i, e
  <2>4. instance'[b] = i /\ local'[b] = e BY <2>1 DEF TypeOK
  <2>5. Steps(b, "findAgain") BY <2>1 DEF Steps, TypeOK, history
  <2>6. b \in Alone' => Fit(b, "findAgain")
    BY <2>1, <2>2, <2>3, <2>4, <1>2 DEF Alone, AllGood, Good, Fit, history
  <2>7. AllGood' BY <2>1, <2>5, <2>6, <1>2, QuietStep DEF pool
  <2>8. HasId' BY <2>2, <2>4, <2>5, <1>2, StepHasId
  <2>9. QED BY <2>7, <2>8
<1>5. ASSUME CallDeref(b, r) PROVE HasId' /\ AllGood'
  <2> DEFINE e == [local[b] EXCEPT !.res = r]
             c == IF cursor[b] = None THEN cursor[b] ELSE r
  <2>1. /\ r \in Live /\ at[b] = "deref" /\ at' = [at EXCEPT ![b] = "using"] /\ id' = id
        /\ UNCHANGED <<pool, instance, answer, history>>
    BY <1>5 DEF CallDeref, Go, world
  <2>2. cursor' = [cursor EXCEPT ![b] = c] /\ local' = [local EXCEPT ![b] = e]
    BY <1>5, Zenon DEF CallDeref
  <2>3. e.res = r BY Looked DEF Local
  <2>4. c \in {None, r}
    BY Looked
  <2>5. b \in Alone => Mine(b, r) BY <2>1, FoundIsMine
  <2> HIDE DEF e, c
  <2>6. cursor'[b] = c /\ local'[b] = e BY <2>2 DEF TypeOK
  <2>7. Steps(b, "using") BY <2>1, <2>2 DEF Steps, TypeOK, history
  <2>8. b \in Alone' => Fit(b, "using")
    BY PoolAssumption, <2>1, <2>3, <2>4, <2>5, <2>6, <1>2 DEF Alone, AllGood, Good, Fit, history
  <2>9. AllGood' BY <2>1, <2>7, <2>8, <1>2, QuietStep DEF pool
  <2>10. HasId' BY <2>7, <1>2, StepHasId
  <2>11. QED BY <2>9, <2>10
<1>6. ASSUME FinalizeDeref(b, r) PROVE HasId' /\ AllGood'
  <2> DEFINE i == heap[r].id
             e == [local[b] EXCEPT !.id = i]
  <2>1. /\ r \in Live /\ at[b] = "deref" /\ at' = [at EXCEPT ![b] = "findAgain"] /\ id' = id
        /\ UNCHANGED <<pool, instance, cursor, answer, history>>
    BY <1>6 DEF FinalizeDeref, Go, world
  <2>2. local' = [local EXCEPT ![b] = e] BY <1>6, Zenon DEF FinalizeDeref
  <2>3. i \in Id /\ e.id = i BY <1>1, <2>1, Looked DEF Local
  <2>4. b \in Alone => i = id[b] BY <2>1, FoundIsMine DEF Mine
  <2> HIDE DEF i, e
  <2>5. local'[b] = e BY <2>2 DEF TypeOK
  <2>6. Steps(b, "findAgain") BY <2>1, <2>2 DEF Steps, TypeOK, history
  <2>7. b \in Alone' => Fit(b, "findAgain")
    BY <2>1, <2>3, <2>4, <2>5, <1>2 DEF Alone, AllGood, Good, Fit, history
  <2>8. AllGood' BY <2>1, <2>6, <2>7, <1>2, QuietStep DEF pool
  <2>9. HasId' BY <2>3, <2>5, <2>6, <1>2, StepHasId
  <2>10. QED BY <2>8, <2>9
<1>7. QED BY <1>3, <1>4, <1>5, <1>6

LEMMA DerefKeeps ==
    ASSUME TypeOK, HasId, AllGood, NEW b \in Attachment, Deref(b)
    PROVE  HasId' /\ AllGood'
<1>1. CASE Fault(b, "deref", "end") \/ Fault(b, "deref", "freed") BY <1>1, FaultKeeps
<1>2. CASE it \in Id /\ (\/ InitDeref(b, map[it]) \/ ConstructorDeref(b, map[it])
                         \/ CallDeref(b, map[it]) \/ FinalizeDeref(b, map[it]))
  BY <1>2, FoundKeeps
<1>3. QED BY <1>1, <1>2 DEF Deref

-----------------------------------------------------------------------------
(* The steps that change the map or the resources.                          *)

\* After the step, the resources at r exist and were made for the id of a.
Kept(a, r) == r \in Live' /\ heap'[r].id = id'[a]

LEMMA ConstructKeeps ==
    ASSUME TypeOK, HasId, AllGood, NEW b \in Attachment, Construct(b)
    PROVE  HasId' /\ AllGood'
<1>1. PICK r \in Resource \ Live :
          /\ heap' = [heap EXCEPT ![r] = [by |-> b, id |-> id[b]]]
          /\ local' = [local EXCEPT ![b].res = r]
  BY DEF Construct
<1>2. /\ at[b] = "construct" /\ at' = [at EXCEPT ![b] = "insert"] /\ id' = id
      /\ UNCHANGED <<map, it, known, instance, cursor, answer, history>>
  BY DEF Construct, Go, world
<1>3. /\ \A a \in Attachment \ {b} : local'[a] = local[a]
      /\ local'[b].res = r /\ local'[b].id = local[b].id
  <2> DEFINE e == [local[b] EXCEPT !.res = r]
  <2>1. local' = [local EXCEPT ![b] = e] BY <1>1, Zenon
  <2>2. e.res = r /\ e.id = local[b].id BY Looked DEF Local
  <2> HIDE DEF e
  <2>3. QED BY <2>1, <2>2 DEF TypeOK
<1>4. \A a \in Attachment : \A s : Mine(a, s) => Kept(a, s) /\ s # r
  BY <1>1, <1>2, PoolAssumption DEF Kept, Mine, Live, TypeOK
<1>5. \A a \in Attachment : id[a] = id[b] => Kept(a, r)
  <2> DEFINE e == [by |-> b, id |-> id[b]]
  <2>1. e # None /\ e.id = id[b] BY Looked, PoolAssumption
  <2>2. heap'[r] = e BY <1>1 DEF TypeOK
  <2> HIDE DEF e
  <2>3. QED BY <1>1, <1>2, <2>1, <2>2 DEF Kept, Live
<1>6. Steps(b, "insert") BY <1>2, <1>3 DEF Steps, history
<1>7. "insert" \in Later /\ "construct" \in Later /\ "insert" \in Points /\ "insert" \notin Window
  BY DEF Later, Window, Points
<1>8. HasId' BY <1>2, <1>3, <1>6, <1>7, StepHasId DEF HasId
<1>9. ASSUME NEW a \in Alone' PROVE Good(a)'
  <2>1. a \in Attachment /\ Good(a) BY <1>2, <1>9 DEF Alone, AllGood, history
  <2>2. \A c \in Attachment \ {b} : at'[c] = at[c] BY <1>2 DEF TypeOK
  <2>3. at'[b] = "insert" BY <1>2 DEF TypeOK
  <2>4. /\ instance'[a] \in {None, id'[a]}
        /\ cursor'[a] \in Resource => Kept(a, cursor'[a])
    BY <1>2, <1>4, <2>1 DEF Good
  <2>5. at'[a] # "erase" /\ map'[id'[a]] # None => Kept(a, map'[id'[a]])
    BY <1>2, <1>4, <2>1, <2>2 DEF Good
  <2>6. ASSUME NEW c \in Attachment, at'[c] = "insert", id'[c] = id'[a]
        PROVE  /\ Kept(a, local'[c].res)
               /\ at'[a] # "erase" => local'[c].res # map'[id'[a]]
    <3>1. CASE c = b
      <4>1. Kept(a, r) BY <1>2, <1>5, <2>1, <2>6, <3>1
      <4>2. at'[a] # "erase" => at[a] # "erase" BY <1>2, <2>2
      <4>3. at'[a] # "erase" => r # map'[id'[a]]
        BY <1>2, <1>4, <2>1, <4>2, PoolAssumption DEF Good
      <4>4. QED BY <1>3, <3>1, <4>1, <4>3
    <3>2. CASE c # b
      <4>1. at[c] = "insert" /\ local'[c] = local[c] BY <1>3, <2>2, <2>6, <3>2
      <4>2. at'[a] # "erase" => at[a] # "erase" BY <1>2, <2>2
      <4>3. QED BY <1>2, <1>4, <2>1, <2>6, <4>1, <4>2 DEF Good
    <3>3. QED BY <3>1, <3>2
  <2>7. ASSUME NEW c \in Attachment, NEW d \in Attachment, at'[c] = "insert", at'[d] = "insert",
               id'[c] = id'[a], id'[d] = id'[a], c # d
        PROVE  local'[c].res # local'[d].res
    <3>1. \A x \in Attachment \ {b} : at'[x] = "insert" /\ id'[x] = id'[a] =>
              Kept(a, local'[x].res) /\ local'[x].res # r
      BY <1>2, <1>3, <1>4, <2>1, <2>2 DEF Good
    <3>2. CASE c # b /\ d # b
      BY <1>2, <1>3, <2>1, <2>2, <2>7, <3>2 DEF Good
    <3>3. CASE c = b \/ d = b
      BY <1>3, <2>7, <3>1, <3>3
    <3>4. QED BY <3>2, <3>3
  <2>8. /\ at'[a] = "using" => Kept(a, local'[a].res)
        /\ at'[a] \in Later => local'[a].id = id'[a]
        /\ at'[a] \in Window => it' \in {End, id'[a]}
    <3>1. CASE a = b BY <1>2, <1>3, <1>7, <2>1, <2>3, <3>1 DEF Good
    <3>2. CASE a # b BY <1>2, <1>3, <1>4, <2>1, <2>2, <3>2 DEF Good
    <3>3. QED BY <3>1, <3>2
  <2>9. QED BY <2>4, <2>5, <2>6, <2>7, <2>8 DEF Good, Kept, Mine
<1>10. QED BY <1>8, <1>9 DEF AllGood

LEMMA InsertKeeps ==
    ASSUME TypeOK, HasId, AllGood, NEW b \in Attachment, Insert(b)
    PROVE  HasId' /\ AllGood'
<1>1. /\ at[b] = "insert" /\ at' = [at EXCEPT ![b] = "findAgain"] /\ id' = id
      /\ UNCHANGED <<it, heap, known, local, instance, cursor, answer, history>>
  BY DEF Insert, Go, world
<1>2. /\ \A i \in Id \ {id[b]} : map'[i] = map[i]
      /\ map'[id[b]] = IF map[id[b]] = None THEN local[b].res ELSE map[id[b]]
  BY Looked DEF Insert, TypeOK
<1>3. \A x, s : Kept(x, s) <=> Mine(x, s) BY <1>1 DEF Kept, Mine, Live
<1>4. Steps(b, "findAgain") BY <1>1 DEF Steps, history
<1>5. "insert" \in Later /\ "findAgain" \in Later /\ "findAgain" \in Points
      /\ "findAgain" \notin Window
  BY DEF Later, Window, Points
<1>6. HasId' BY <1>1, <1>4, <1>5, StepHasId DEF HasId
<1>7. ASSUME NEW a \in Alone' PROVE Good(a)'
  <2>1. a \in Attachment /\ Good(a) BY <1>1, <1>7 DEF Alone, AllGood, history
  <2>2. \A c \in Attachment \ {b} : at'[c] = at[c] BY <1>1 DEF TypeOK
  <2>3. at'[b] = "findAgain" BY <1>1 DEF TypeOK
  <2>4. at'[a] = "erase" <=> at[a] = "erase" BY <1>1, <2>1, <2>2, <2>3
  <2>5. \A c \in Attachment : at'[c] = "insert" => c # b /\ at[c] = "insert"
    BY <2>2, <2>3
  <2>6. /\ instance'[a] \in {None, id'[a]}
        /\ cursor'[a] \in Resource => Kept(a, cursor'[a])
        /\ at'[a] = "using" => Kept(a, local'[a].res)
        /\ at'[a] \in Later => local'[a].id = id'[a]
        /\ at'[a] \in Window => it' \in {End, id'[a]}
    <3>1. CASE a = b BY <1>1, <1>3, <1>5, <2>1, <2>3, <3>1 DEF Good
    <3>2. CASE a # b BY <1>1, <1>3, <2>1, <2>2, <3>2 DEF Good
    <3>3. QED BY <3>1, <3>2
  <2>7. id[a] \in Id BY <2>1, Looked
  <2>8. \A c, d \in Attachment :
            at'[c] = "insert" /\ at'[d] = "insert" /\ id'[c] = id'[a] /\ id'[d] = id'[a] /\ c # d =>
                local'[c].res # local'[d].res
    BY <1>1, <2>1, <2>5 DEF Good
  <2>9. at'[a] # "erase" /\ map'[id'[a]] # None => Kept(a, map'[id'[a]])
    BY <1>1, <1>2, <1>3, <2>1, <2>4, <2>7 DEF Good
  <2>10. \A c \in Attachment : at'[c] = "insert" /\ id'[c] = id'[a] =>
            /\ Kept(a, local'[c].res)
            /\ at'[a] # "erase" => local'[c].res # map'[id'[a]]
    BY <1>1, <1>2, <1>3, <2>1, <2>4, <2>5, <2>7 DEF Good
  <2>11. QED BY <2>6, <2>8, <2>9, <2>10 DEF Good, Kept, Mine
<1>8. QED BY <1>6, <1>7 DEF AllGood

LEMMA FreeKeeps ==
    ASSUME TypeOK, HasId, AllGood, NEW b \in Attachment, it \in Id, map[it] \in Live,
           Go(b, "remove", "erase"),
           heap' = [heap EXCEPT ![map[it]] = None],
           local' = [local EXCEPT ![b].id = it],
           cut' = cut \cup Robbed(b, map[it]),
           UNCHANGED <<map, it, instance, cursor, hit>>
    PROVE  HasId' /\ AllGood'
<1> DEFINE x == map[it]
<1>1. at[b] = "remove" /\ at' = [at EXCEPT ![b] = "erase"] /\ id' = id
  BY DEF Go, world
<1>2. /\ \A a \in Attachment \ {b} : local'[a] = local[a]
      /\ local'[b].id = it
  <2> DEFINE e == [local[b] EXCEPT !.id = it]
  <2>1. local' = [local EXCEPT ![b] = e] BY Zenon
  <2>2. e.id = it BY Looked DEF Local
  <2> HIDE DEF e
  <2>3. QED BY <2>1, <2>2 DEF TypeOK
<1>3. x # None BY PoolAssumption DEF Live
<1>4. \A a \in Attachment : \A s : Mine(a, s) /\ s # x => Kept(a, s)
  BY <1>1 DEF Kept, Mine, Live, TypeOK
<1>5. Steps(b, "erase") BY <1>1, <1>2 DEF Steps
<1>6. "erase" \in Later /\ "erase" \in Points /\ "remove" \in Window BY DEF Later, Window, Points
<1>7. HasId' BY <1>2, <1>5, <1>6, StepHasId
<1> HIDE DEF x
<1>8. ASSUME NEW a \in Alone' PROVE Good(a)'
  <2>1. a \in Attachment /\ Good(a) BY <1>8 DEF Alone, AllGood
  <2>2. /\ \A c \in Attachment \ {b} : at'[c] = at[c]
        /\ at'[b] = "erase"
    BY <1>1 DEF TypeOK
  <2>3. \A c \in Attachment : at'[c] = "insert" => c # b /\ at[c] = "insert" /\ local'[c] = local[c]
    BY <1>2, <2>2
  <2>4. cursor[a] # x /\ (a # b => id[a] # heap[x].id)
    BY <1>8 DEF Alone, Robbed, x
  <2>5. at[a] # "erase"
        => \A c \in Attachment : at[c] = "insert" /\ id[c] = id[a] => local[c].res # map[id[a]]
    BY <2>1 DEF Good
  <2>6. CASE a = b
    <3>1. it = id[b] /\ at[b] # "erase"
      BY <1>1, <1>6, <2>1, <2>6, PoolAssumption DEF Good
    <3>2. \A c \in Attachment : at[c] = "insert" /\ id[c] = id[a] => local[c].res # x
      BY <2>5, <2>6, <3>1 DEF x
    <3>3. \A c \in Attachment : at'[c] = "insert" /\ id'[c] = id'[a] => Kept(a, local'[c].res)
      BY <1>1, <1>4, <2>1, <2>3, <3>2 DEF Good
    <3>4. cursor'[a] \in Resource => Kept(a, cursor'[a])
      BY <1>4, <2>1, <2>4 DEF Good
    <3>5. at'[a] = "erase" /\ it' = id'[a] /\ local'[a].id = id'[a] /\ instance'[a] \in {None, id'[a]}
      BY <1>1, <1>2, <2>1, <2>2, <2>6, <3>1 DEF Good
    <3>6. \A c, d \in Attachment :
            at'[c] = "insert" /\ at'[d] = "insert" /\ id'[c] = id'[a] /\ id'[d] = id'[a] /\ c # d =>
                local'[c].res # local'[d].res
      BY <1>1, <2>1, <2>3 DEF Good
    <3>7. QED BY <3>3, <3>4, <3>5, <3>6 DEF Good, Kept, Mine
  <2>7. CASE a # b
    <3>1. \A s : Mine(a, s) => Kept(a, s)
      BY <1>4, <2>1, <2>4, <2>7 DEF Mine
    <3>2. at'[a] = at[a] /\ local'[a] = local[a] BY <1>2, <2>1, <2>2, <2>7
    <3>3. /\ instance'[a] \in {None, id'[a]}
          /\ cursor'[a] \in Resource => Kept(a, cursor'[a])
          /\ at'[a] = "using" => Kept(a, local'[a].res)
          /\ at'[a] \in Later => local'[a].id = id'[a]
          /\ at'[a] \in Window => it' \in {End, id'[a]}
          /\ at'[a] # "erase" /\ map'[id'[a]] # None => Kept(a, map'[id'[a]])
      BY <1>1, <2>1, <3>1, <3>2 DEF Good
    <3>4. \A c \in Attachment : at'[c] = "insert" /\ id'[c] = id'[a] =>
            /\ Kept(a, local'[c].res)
            /\ at'[a] # "erase" => local'[c].res # map'[id'[a]]
      BY <1>1, <2>1, <2>3, <3>1, <3>2 DEF Good
    <3>5. \A c, d \in Attachment :
            at'[c] = "insert" /\ at'[d] = "insert" /\ id'[c] = id'[a] /\ id'[d] = id'[a] /\ c # d =>
                local'[c].res # local'[d].res
      BY <1>1, <2>1, <2>3 DEF Good
    <3>6. QED BY <3>3, <3>4, <3>5 DEF Good, Kept, Mine
  <2>8. QED BY <2>6, <2>7
<1>9. QED BY <1>7, <1>8 DEF AllGood

LEMMA EraseKeeps ==
    ASSUME TypeOK, HasId, AllGood, NEW b \in Attachment, Erase(b)
    PROVE  HasId' /\ AllGood'
<1>1. CASE Fault(b, "erase", "torn") \/ Fault(b, "erase", "end") BY <1>1, FaultKeeps
<1>2. CASE /\ it = local[b].id /\ Go(b, "erase", "idle")
           /\ map' = [map EXCEPT ![it] = None] /\ it' = Dangling
           /\ Disturb(b) /\ Return(b, "finalized")
           /\ UNCHANGED <<heap, known, instance, cursor, cut, fault>>
  <2>1. at[b] = "erase" /\ at' = [at EXCEPT ![b] = "idle"] /\ id' = id
    BY <1>2 DEF Go, world
  <2>2. \A a \in Attachment \ {b} : local'[a] = local[a] BY <1>2 DEF Return, TypeOK
  <2>3. hit' = hit \cup Looking(b) BY <1>2 DEF Disturb
  <2>4. Steps(b, "idle") BY <1>2, <2>1, <2>2, <2>3 DEF Steps
  <2>5. "idle" \in Points /\ "idle" \notin Later /\ "idle" \notin Window
        /\ "erase" \in Later /\ "erase" \in Window
    BY DEF Points, Later, Window
  <2>6. HasId' BY <2>4, <2>5, StepHasId
  <2>7. \A i \in Id : map'[i] \in {None, map[i]} BY <1>2 DEF TypeOK
  <2>8. it \in Id => map'[it] = None BY <1>2 DEF TypeOK
  <2>9. \A a \in Attachment : \A s : Mine(a, s) => Kept(a, s) /\ s # None
    BY <1>2, <2>1, PoolAssumption DEF Mine, Kept, Live
  <2>10. ASSUME NEW a \in Alone' PROVE Good(a)'
    <3>1. a \in Attachment /\ Good(a) BY <1>2, <2>3, <2>10 DEF Alone, AllGood
    <3>2. /\ \A c \in Attachment \ {b} : at'[c] = at[c]
          /\ at'[b] = "idle"
      BY <2>1 DEF TypeOK
    <3>3. \A c \in Attachment : at'[c] = "insert" =>
              c # b /\ at[c] = "insert" /\ local'[c] = local[c]
      BY <2>2, <3>2
    <3>4. id[a] \in Id BY <3>1, Looked
    <3>5. a # b => at[a] \notin Window
      BY <2>3, <2>10, <3>1 DEF Alone, Looking
    <3>6. at'[a] # "erase" /\ at'[a] \notin Window BY <2>5, <3>1, <3>2, <3>5
    <3>7. map'[id[a]] # None => at[a] # "erase" /\ map'[id[a]] = map[id[a]]
      <4>1. CASE a = b
        BY <1>2, <2>1, <2>5, <2>8, <3>1, <3>4, <4>1 DEF Good
      <4>2. CASE a # b BY <2>5, <2>7, <3>4, <3>5, <4>2
      <4>3. QED BY <4>1, <4>2
    <3>8. map'[id'[a]] # None => Kept(a, map'[id'[a]])
      BY <2>1, <2>9, <3>1, <3>7 DEF Good
    <3>9. \A c \in Attachment : at'[c] = "insert" /\ id'[c] = id'[a] =>
            Kept(a, local'[c].res) /\ local'[c].res # map'[id'[a]]
      BY <2>1, <2>9, <3>1, <3>3, <3>7 DEF Good
    <3>10. \A c, d \in Attachment :
            at'[c] = "insert" /\ at'[d] = "insert" /\ id'[c] = id'[a] /\ id'[d] = id'[a] /\ c # d =>
                local'[c].res # local'[d].res
      BY <2>1, <3>1, <3>3 DEF Good
    <3>11. /\ instance'[a] \in {None, id'[a]}
           /\ cursor'[a] \in Resource => Kept(a, cursor'[a])
      BY <1>2, <2>1, <2>9, <3>1 DEF Good
    <3>12. /\ at'[a] = "using" => Kept(a, local'[a].res)
           /\ at'[a] \in Later => local'[a].id = id'[a]
      <4>1. CASE a = b BY <2>5, <3>2, <4>1
      <4>2. CASE a # b BY <2>1, <2>2, <2>9, <3>1, <3>2, <4>2 DEF Good
      <4>3. QED BY <4>1, <4>2
    <3>13. QED BY <3>6, <3>8, <3>9, <3>10, <3>11, <3>12 DEF Good, Kept, Mine
  <2>11. QED BY <2>6, <2>10 DEF AllGood
<1>3. QED BY <1>1, <1>2 DEF Erase

LEMMA DeleteKeeps ==
    ASSUME TypeOK, HasId, AllGood, NEW b \in Attachment, CheckDelete(b) \/ Delete(b)
    PROVE  HasId' /\ AllGood'
<1>1. CASE Fault(b, "remove", "end") \/ Fault(b, "remove", "freed") BY <1>1, FaultKeeps
<1>2. CASE /\ Go(b, "delete", "idle") /\ Return(b, "finalized")
           /\ UNCHANGED <<pool, instance, cursor, hit, cut, fault>>
  <2>1. b \in Alone => (cursor'[b] \in Resource => Mine(b, cursor'[b])) BY <1>2 DEF AllGood, Good
  <2>2. QED BY <1>2, <2>1, ReturnKeeps DEF pool
<1>3. CASE Go(b, "delete", "remove") /\ UNCHANGED <<pool, local, instance, cursor, answer, history>>
  <2>1. "delete" \in Later /\ "delete" \in Window BY DEF Later, Window
  <2>2. QED BY <1>3, <2>1, PassKeeps
<1>4. CASE /\ it \in Id /\ map[it] \in Live /\ Go(b, "remove", "erase")
           /\ heap' = [heap EXCEPT ![map[it]] = None]
           /\ local' = [local EXCEPT ![b].id = it]
           /\ cut' = cut \cup Robbed(b, map[it])
           /\ UNCHANGED <<map, it, known, instance, cursor, answer, started, hit, fault>>
  BY <1>4, FreeKeeps
<1>5. QED BY <1>1, <1>2, <1>3, <1>4 DEF CheckDelete, Delete

LEMMA StepKeeps == ASSUME TypeOK, HasId, AllGood, Next PROVE HasId' /\ AllGood'
<1>1. CASE Exit BY <1>1, StillKeeps DEF Exit
<1>2. ASSUME NEW b \in Attachment,
             \/ StartInitialize(b) \/ InitCheck(b) \/ Construct(b) \/ FailConstruct(b) \/ Insert(b)
             \/ FindAgain(b) \/ CheckEnd(b) \/ CheckFound(b) \/ Deref(b)
             \/ StartCall(b) \/ Use(b) \/ Fetch(b)
             \/ StartFinalize(b) \/ CheckDelete(b) \/ Delete(b) \/ Erase(b) \/ Disconnect(b)
      PROVE  HasId' /\ AllGood'
  BY <1>2, OpenedKeeps, LookupKeeps, ConstructKeeps, InsertKeeps, DerefKeeps, UseKeeps,
     DeleteKeeps, EraseKeeps
<1>3. QED BY <1>1, <1>2 DEF Next

-----------------------------------------------------------------------------
(* The resources of others.                                                 *)

LEMMA StepGrows == ASSUME Next PROVE id' = id /\ hit \subseteq hit' /\ cut \subseteq cut'
<1>1. CASE Exit BY <1>1 DEF Exit, world
<1>2. ASSUME NEW b \in Attachment,
             \/ StartInitialize(b) \/ InitCheck(b) \/ Construct(b) \/ FailConstruct(b) \/ Insert(b)
             \/ FindAgain(b) \/ CheckEnd(b) \/ CheckFound(b) \/ StartCall(b) \/ Use(b) \/ Fetch(b)
             \/ StartFinalize(b) \/ CheckDelete(b) \/ Delete(b) \/ Erase(b) \/ Disconnect(b)
      PROVE  id' = id /\ hit \subseteq hit' /\ cut \subseteq cut'
  BY <1>2 DEF StartInitialize, InitCheck, Construct, FailConstruct, Insert, FindAgain, CheckEnd,
     CheckFound, StartCall, Use, Fetch, StartFinalize, CheckDelete, Delete, Erase, Disconnect,
     Begin, Go, Fault, Moves, Disturb, world, history
<1>3. ASSUME NEW b \in Attachment, Deref(b)
      PROVE  id' = id /\ hit \subseteq hit' /\ cut \subseteq cut'
  BY <1>3 DEF Deref, InitDeref, ConstructorDeref, CallDeref, FinalizeDeref, Go, Fault, world, history
<1>4. QED BY <1>1, <1>2, <1>3 DEF Next

LEMMA StepHeap ==
    ASSUME Next
    PROVE  \/ heap' = heap
           \/ \E b \in Attachment, r \in Resource \ Live :
                heap' = [heap EXCEPT ![r] = [by |-> b, id |-> id[b]]]
           \/ it \in Id /\ heap' = [heap EXCEPT ![map[it]] = None]
<1>1. CASE Exit BY <1>1 DEF Exit, pool
<1>2. ASSUME NEW b \in Attachment,
             \/ StartInitialize(b) \/ InitCheck(b) \/ FailConstruct(b) \/ Insert(b)
             \/ FindAgain(b) \/ CheckEnd(b) \/ CheckFound(b) \/ StartCall(b) \/ Use(b) \/ Fetch(b)
             \/ StartFinalize(b) \/ CheckDelete(b) \/ Erase(b) \/ Disconnect(b)
      PROVE  heap' = heap
  BY <1>2 DEF StartInitialize, InitCheck, FailConstruct, Insert, FindAgain, CheckEnd,
     CheckFound, StartCall, Use, Fetch, StartFinalize, CheckDelete, Erase, Disconnect, Fault, pool
<1>3. ASSUME NEW b \in Attachment, Deref(b) PROVE heap' = heap
  BY <1>3 DEF Deref, InitDeref, ConstructorDeref, CallDeref, FinalizeDeref, Fault, pool
<1>4. ASSUME NEW b \in Attachment, Construct(b)
      PROVE  \E r \in Resource \ Live : heap' = [heap EXCEPT ![r] = [by |-> b, id |-> id[b]]]
  BY <1>4 DEF Construct
<1>5. ASSUME NEW b \in Attachment, Delete(b)
      PROVE  heap' = heap \/ (it \in Id /\ heap' = [heap EXCEPT ![map[it]] = None])
  BY <1>5 DEF Delete, Fault, pool
<1>6. QED BY <1>1, <1>2, <1>3, <1>4, <1>5 DEF Next

LEMMA StepMadeForId == ASSUME TypeOK, MadeForId, Next PROVE MadeForId'
<1>1. id' = id BY StepGrows
<1>2. CASE heap' = heap BY <1>1, <1>2 DEF MadeForId, Live
<1>3. CASE \E b \in Attachment, r \in Resource \ Live :
             heap' = [heap EXCEPT ![r] = [by |-> b, id |-> id[b]]]
  <2>1. PICK b \in Attachment, r \in Resource \ Live :
             heap' = [heap EXCEPT ![r] = [by |-> b, id |-> id[b]]]
    BY <1>3
  <2> DEFINE e == [by |-> b, id |-> id[b]]
  <2>2. e.by = b /\ e.id = id[b] OBVIOUS
  <2>3. heap' = [heap EXCEPT ![r] = e] BY <2>1, Zenon
  <2> HIDE DEF e
  <2>4. ASSUME NEW s \in Live' PROVE heap'[s].id = id'[heap'[s].by]
    <3>1. CASE s = r BY <1>1, <2>1, <2>2, <2>3, <3>1 DEF TypeOK
    <3>2. CASE s # r
      <4>1. heap'[s] = heap[s] /\ s \in Live BY <2>3, <2>4, <3>2 DEF TypeOK, Live
      <4>2. QED BY <1>1, <4>1 DEF MadeForId
    <3>3. QED BY <3>1, <3>2
  <2>5. QED BY <2>4 DEF MadeForId
<1>4. CASE it \in Id /\ heap' = [heap EXCEPT ![map[it]] = None]
  <2>1. \A s \in Live' : s \in Live /\ heap'[s] = heap[s] BY <1>4 DEF TypeOK, Live
  <2>2. QED BY <1>1, <2>1 DEF MadeForId
<1>5. QED BY <1>2, <1>3, <1>4, StepHeap

\* An attachment left alone is served from resources it made itself.
LEMMA MineIsMade ==
    ASSUME TypeOK, MadeForId, Distinct, NEW a \in Attachment, NEW r, Mine(a, r)
    PROVE  heap[r].by = a
<1>1. heap[r].by \in Attachment BY DEF Mine, Live, TypeOK
<1>2. id[heap[r].by] = id[a] BY DEF Mine, MadeForId
<1>3. QED BY <1>1, <1>2 DEF Distinct

LEMMA StepForeign ==
    ASSUME TypeOK, AllGood, MadeForId, ForeignHasCause, Next
    PROVE  ForeignHasCause'
<1>1. id' = id /\ hit \subseteq hit' /\ cut \subseteq cut' BY StepGrows
<1>2. Distinct' <=> Distinct BY <1>1 DEF Distinct
<1>3. CASE answer' = answer BY <1>1, <1>2, <1>3 DEF ForeignHasCause
<1>4. CASE answer'.is # "foreign" BY <1>4 DEF ForeignHasCause
<1>5. ASSUME NEW b \in Attachment, NEW r, ServedBy(b, r), b \in Alone => Mine(b, r)
      PROVE  ForeignHasCause'
  <2>1. answer' = [of |-> b, is |-> IF heap[r].by = b THEN "served" ELSE "foreign"]
    BY <1>5 DEF ServedBy, Return
  <2>2. answer'.is = "foreign" => answer'.of = b /\ heap[r].by # b BY <2>1
  <2>3. answer'.is = "foreign" => ~Distinct \/ b \in hit \cup cut
    BY <1>5, <2>2, MineIsMade DEF Alone
  <2>4. QED BY <1>1, <1>2, <2>2, <2>3 DEF ForeignHasCause
<1>6. ASSUME NEW b \in Attachment, Use(b) PROVE ForeignHasCause'
  <2>1. CASE Fault(b, "using", "freed") BY <2>1, <1>3 DEF Fault, thread
  <2>2. CASE Go(b, "using", "idle") /\ ServedBy(b, local[b].res)
    BY <2>2, <1>5 DEF AllGood, Good, Go
  <2>3. QED BY <1>6, <2>1, <2>2 DEF Use
<1>7. ASSUME NEW b \in Attachment, Fetch(b) PROVE ForeignHasCause'
  <2>1. CASE Fault(b, "idle", "freed") \/ Fault(b, "idle", "null") BY <2>1, <1>3 DEF Fault, thread
  <2>2. CASE cursor[b] \in Live /\ ServedBy(b, cursor[b])
    BY <2>2, <1>5 DEF AllGood, Good, Live
  <2>3. QED BY <1>7, <2>1, <2>2 DEF Fetch
<1>8. ASSUME NEW b \in Attachment,
             \/ StartInitialize(b) \/ InitCheck(b) \/ Construct(b) \/ FailConstruct(b) \/ Insert(b)
             \/ FindAgain(b) \/ CheckEnd(b) \/ CheckFound(b) \/ StartCall(b)
             \/ StartFinalize(b) \/ CheckDelete(b) \/ Delete(b) \/ Erase(b) \/ Disconnect(b)
      PROVE  answer' = answer \/ answer'.is # "foreign"
  BY <1>8 DEF StartInitialize, InitCheck, Construct, FailConstruct, Insert, FindAgain, CheckEnd,
     CheckFound, StartCall, StartFinalize, CheckDelete, Delete, Erase, Disconnect,
     Begin, Return, NoAnswer, Fault, thread
<1>9. ASSUME NEW b \in Attachment, Deref(b) PROVE answer' = answer \/ answer'.is # "foreign"
  BY <1>9 DEF Deref, InitDeref, ConstructorDeref, CallDeref, FinalizeDeref, Return, Fault, thread
<1>10. CASE Exit BY <1>3, <1>10 DEF Exit, thread
<1>11. QED BY <1>3, <1>4, <1>6, <1>7, <1>8, <1>9, <1>10 DEF Next

-----------------------------------------------------------------------------
(* Steps while no lookup is disturbed.                                      *)

\* A step of b that leaves the map, the resources and the iterator alone.
LEMMA SameCalm ==
    ASSUME TypeOK, Calm, NEW b \in Attachment, NEW q \in Points,
           Steps(b, q), UNCHANGED <<map, it, heap, cut>>,
           at[b] \notin {"erase", "findAgain"}, q \notin {"insert", "erase"},
           q \in Window => q \in {"deref", "remove"} /\ at[b] \in Window,
           Own(b)',
           started \ {b} \subseteq started',
           \/ map[id[b]] = None \/ ~(b \in started \/ Ends(b))
           \/ b \in started' \/ Ends(b)'
           \/ \E c \in Attachment \ {b} : id[c] = id[b] /\ Ends(c)
    PROVE  Calm'
<1>1. /\ id' = id /\ at'[b] = q
      /\ \A a \in Attachment \ {b} : /\ at'[a] = at[a] /\ local'[a] = local[a]
                                     /\ instance'[a] = instance[a] /\ cursor'[a] = cursor[a]
  BY DEF Steps, TypeOK
<1>2. Distinct' <=> Distinct BY <1>1 DEF Distinct
<1>3. \A i : Erasing(i)' <=> Erasing(i) BY <1>1 DEF Erasing
<1>4. OneLooks' BY <1>1 DEF Calm, OneLooks
<1>5. MapIsRight' BY <1>3 DEF Calm, MapIsRight, Live
<1>6. \A a \in Attachment \ {b} : Ends(a)' <=> Ends(a) BY <1>1 DEF Ends
<1>7. Accounted'
  <2>1. SUFFICES ASSUME NEW i \in Id, map[i] # None
                 PROVE  \E a \in Attachment : id[a] = i /\ (a \in started' \/ Ends(a)')
    BY <1>1 DEF Accounted
  <2>2. PICK a \in Attachment : id[a] = i /\ (a \in started \/ Ends(a))
    BY <2>1 DEF Calm, Accounted
  <2>3. CASE a # b BY <1>6, <2>2, <2>3
  <2>4. CASE a = b BY <1>6, <2>1, <2>2, <2>4
  <2>5. QED BY <2>3, <2>4
<1>8. EndIsNew'
  <2>1. SUFFICES ASSUME NEW a \in Attachment, at'[a] \in Window, it = End, map[local'[a].id] # None
                 PROVE  \E c \in Attachment : /\ id[c] = local'[a].id /\ at'[c] = "findAgain"
                                              /\ local'[c].op = "initialize"
    BY <1>1 DEF EndIsNew
  <2>2. CASE a = b
    BY <1>1, <2>1, <2>2, PoolAssumption DEF Own, Found
  <2>3. CASE a # b
    BY <1>1, <2>1, <2>3 DEF Calm, EndIsNew
  <2>4. QED BY <2>2, <2>3
<1>9. ASSUME NEW a \in Attachment, a # b PROVE Own(a)'
  <2>1. Own(a) BY DEF Calm
  <2>2. Found(a)' BY <1>1, <1>9, <2>1 DEF Own, Found
  <2>3. NewIsApart(a)' BY <1>1, <1>3, <1>9, <2>1 DEF Own, NewIsApart, Live
  <2>4. AsksForItself(a)' BY <1>1, <1>9, <2>1 DEF Own, AsksForItself
  <2>5. Distinct' => Steady(a)' BY <1>1, <1>2, <1>9, <2>1 DEF Own, Steady
  <2>6. QED BY <2>2, <2>3, <2>4, <2>5 DEF Own
<1>10. QED BY <1>4, <1>5, <1>7, <1>8, <1>9 DEF Calm

\* b moves the iterator to where i is, while nobody else looks at it.
LEMMA MoveCalm ==
    ASSUME TypeOK, Calm, NEW b \in Attachment, NEW q \in {"initCheck", "check", "delete"},
           NEW i \in Id, Moves(b, i), hit' = {},
           Steps(b, q), UNCHANGED <<map, heap, cut, started>>, at[b] \notin Window,
           local'[b].id = i, instance'[b] = instance[b], cursor'[b] = cursor[b],
           q = "initCheck" => local'[b].op = "initialize",
           q = "delete" => local'[b].op = "finalize",
           local'[b].op \in {"initialize", "finalize"} \/ Distinct => i = id[b],
           Distinct /\ q = "check" /\ local'[b].op = "initialize" => map[id[b]] # None,
           Ends(b) => Ends(b)'
    PROVE  Calm'
<1>1. /\ id' = id /\ at'[b] = q
      /\ \A a \in Attachment \ {b} : /\ at'[a] = at[a] /\ local'[a] = local[a]
                                     /\ instance'[a] = instance[a] /\ cursor'[a] = cursor[a]
  BY DEF Steps, TypeOK
<1>2. Distinct' <=> Distinct BY <1>1 DEF Distinct
<1>3. it' = IF map[i] = None THEN End ELSE i BY DEF Moves
<1>4. \A a \in Attachment \ {b} : at[a] \notin Window BY DEF Moves, Disturb, Looking
<1>5. \A a \in Attachment : at[a] # "erase" BY <1>4 DEF Window
<1>6. \A a \in Attachment : at'[a] # "erase" BY <1>1, <1>5
<1>7. \A j : ~Erasing(j) /\ ~Erasing(j)' BY <1>5, <1>6 DEF Erasing
<1>8. OneLooks' BY <1>1, <1>4 DEF OneLooks
<1>9. MapIsRight' BY <1>7 DEF Calm, MapIsRight, Live
<1>10. \A a \in Attachment : Ends(a) => Ends(a)' BY <1>1 DEF Ends
<1>11. Accounted' BY <1>1, <1>10 DEF Calm, Accounted
<1>12. EndIsNew'
  <2>1. SUFFICES ASSUME NEW a \in Attachment, at'[a] \in Window, it' = End, map[local'[a].id] # None
                 PROVE  FALSE
    BY <1>1 DEF EndIsNew
  <2>2. a = b BY <1>1, <1>4, <2>1
  <2>3. QED BY <1>3, <2>1, <2>2, PoolAssumption
<1>13. Own(b)'
  <2>1. Own(b) BY DEF Calm
  <2>2. Found(b)' BY <1>1, <1>3 DEF Found
  <2>3. NewIsApart(b)' BY <1>1 DEF NewIsApart
  <2>4. AsksForItself(b)' BY <1>1 DEF AsksForItself
  <2>5. Distinct' => Steady(b)' BY <1>1, <1>2, <2>1 DEF Own, Steady
  <2>6. QED BY <2>2, <2>3, <2>4, <2>5 DEF Own
<1>14. ASSUME NEW a \in Attachment, a # b PROVE Own(a)'
  <2>1. Own(a) BY DEF Calm
  <2>2. Found(a)' BY <1>1, <1>4, <1>14 DEF Found
  <2>3. NewIsApart(a)' BY <1>1, <1>7, <1>14, <2>1 DEF Own, NewIsApart, Live
  <2>4. AsksForItself(a)' BY <1>1, <1>14, <2>1 DEF Own, AsksForItself
  <2>5. Distinct' => Steady(a)' BY <1>1, <1>2, <1>14, <2>1 DEF Own, Steady
  <2>6. QED BY <2>2, <2>3, <2>4, <2>5 DEF Own
<1>15. QED BY <1>8, <1>9, <1>11, <1>12, <1>13, <1>14 DEF Calm

LEMMA ConstructCalm ==
    ASSUME TypeOK, Calm, NEW b \in Attachment, Construct(b)
    PROVE  Calm'
<1>1. PICK r \in Resource \ Live :
          /\ heap' = [heap EXCEPT ![r] = [by |-> b, id |-> id[b]]]
          /\ local' = [local EXCEPT ![b].res = r]
  BY DEF Construct
<1>2. /\ at[b] = "construct" /\ at' = [at EXCEPT ![b] = "insert"] /\ id' = id
      /\ UNCHANGED <<map, it, known, instance, cursor, answer, history>>
  BY DEF Construct, Go, world
<1>3. /\ \A a \in Attachment \ {b} : local'[a] = local[a]
      /\ local'[b].res = r /\ local'[b].id = local[b].id /\ local'[b].op = local[b].op
  <2> DEFINE e == [local[b] EXCEPT !.res = r]
  <2>1. local' = [local EXCEPT ![b] = e] BY <1>1, Zenon
  <2>2. e.res = r /\ e.id = local[b].id /\ e.op = local[b].op BY Looked DEF Local
  <2> HIDE DEF e
  <2>3. QED BY <2>1, <2>2 DEF TypeOK
<1>4. /\ at'[b] = "insert"
      /\ \A a \in Attachment \ {b} : at'[a] = at[a]
  BY <1>2 DEF TypeOK
<1>5. \A s \in Live : s \in Live' /\ heap'[s] = heap[s] /\ s # r
  BY <1>1 DEF TypeOK, Live
<1>6. r \in Live' /\ heap'[r].by = b
  <2> DEFINE e == [by |-> b, id |-> id[b]]
  <2>1. e # None /\ e.by = b BY Looked, PoolAssumption
  <2>2. heap'[r] = e BY <1>1 DEF TypeOK
  <2> HIDE DEF e
  <2>3. QED BY <1>1, <2>1, <2>2 DEF Live
<1>7. \A i : Erasing(i)' <=> Erasing(i) BY <1>2, <1>3, <1>4 DEF Erasing
<1>8. Distinct' <=> Distinct BY <1>2 DEF Distinct
<1>9. MapIsRight' BY <1>2, <1>5, <1>7 DEF Calm, MapIsRight
<1>10. OneLooks' BY <1>4 DEF Calm, OneLooks, Window
<1>11. \A a \in Attachment : Ends(a)' <=> Ends(a) BY <1>2, <1>3, <1>4 DEF Ends
<1>12. Accounted' BY <1>2, <1>11 DEF Calm, Accounted, history
<1>13. EndIsNew'
  <2>1. \A a \in Attachment : at'[a] \in Window => at[a] \in Window /\ local'[a] = local[a]
    BY <1>3, <1>4 DEF Window
  <2>2. \A c \in Attachment : at[c] = "findAgain" => at'[c] = "findAgain" /\ local'[c] = local[c]
    BY <1>2, <1>3, <1>4
  <2>3. QED BY <1>2, <2>1, <2>2 DEF Calm, EndIsNew
<1>14. Own(b)'
  <2>1. Own(b) BY DEF Calm
  <2>2. Found(b)' BY <1>4 DEF Found, Window
  <2>3. NewIsApart(b)' BY <1>2, <1>3, <1>5, <1>6, <1>7, PoolAssumption
    DEF Calm, MapIsRight, NewIsApart, Live
  <2>4. AsksForItself(b)' BY <1>2, <1>3, <1>4, <2>1 DEF Own, AsksForItself, Later
  <2>5. Distinct' => Steady(b)' BY <1>2, <1>3, <1>4, <1>8, <2>1 DEF Own, Steady, Later, history
  <2>6. QED BY <2>2, <2>3, <2>4, <2>5 DEF Own
<1>15. ASSUME NEW a \in Attachment, a # b PROVE Own(a)'
  <2>1. Own(a) BY DEF Calm
  <2>2. Found(a)' BY <1>2, <1>3, <1>4, <1>15, <2>1 DEF Own, Found
  <2>3. NewIsApart(a)' BY <1>2, <1>3, <1>4, <1>5, <1>7, <1>15, <2>1 DEF Own, NewIsApart
  <2>4. AsksForItself(a)' BY <1>2, <1>3, <1>4, <1>15, <2>1 DEF Own, AsksForItself
  <2>5. Distinct' => Steady(a)' BY <1>2, <1>3, <1>4, <1>8, <1>15, <2>1 DEF Own, Steady, history
  <2>6. QED BY <2>2, <2>3, <2>4, <2>5 DEF Own
<1>16. QED BY <1>9, <1>10, <1>12, <1>13, <1>14, <1>15 DEF Calm

LEMMA InsertCalm ==
    ASSUME TypeOK, MadeForId, Calm, NEW b \in Attachment, Insert(b)
    PROVE  Calm'
<1> DEFINE r == local[b].res
<1>1. /\ at[b] = "insert" /\ at' = [at EXCEPT ![b] = "findAgain"] /\ id' = id
      /\ map' = [map EXCEPT ![id[b]] = IF @ = None THEN r ELSE @]
      /\ UNCHANGED <<it, heap, known, local, instance, cursor, answer, history>>
  BY DEF Insert, Go, world
<1>2. /\ at'[b] = "findAgain"
      /\ \A a \in Attachment \ {b} : at'[a] = at[a]
  BY <1>1 DEF TypeOK
<1>3. id[b] \in Id BY Looked
<1>4. Own(b) BY DEF Calm
<1>5. r \in Live /\ heap[r].by = b /\ r # None /\ heap[r].id = id[b]
  BY <1>1, <1>4, PoolAssumption DEF Own, NewIsApart, MadeForId, Live
<1>6. local[b].op = "initialize" /\ local[b].id = id[b]
  BY <1>1, <1>4 DEF Own, AsksForItself, Later
<1>7. \A i \in Id : map[i] # None \/ i # id[b] => map'[i] = map[i]
  BY <1>1, <1>3 DEF TypeOK
<1>8. map[id[b]] = None => map'[id[b]] = r
  BY <1>1, <1>3 DEF TypeOK
<1>9. map'[id[b]] # None BY <1>3, <1>5, <1>7, <1>8
<1> HIDE DEF r
<1>10. \A i : Erasing(i)' <=> Erasing(i) BY <1>1, <1>2 DEF Erasing
<1>11. Distinct' <=> Distinct BY <1>1 DEF Distinct
<1>12. MapIsRight'
  <2>1. SUFFICES ASSUME NEW i \in Id, map'[i] # None, ~Erasing(i)
                 PROVE  map'[i] \in Live /\ heap[map'[i]].id = i
    BY <1>1, <1>10 DEF MapIsRight, Live
  <2>2. CASE i = id[b] /\ map[i] = None BY <1>5, <1>8, <2>2
  <2>3. CASE ~(i = id[b] /\ map[i] = None)
    BY <1>7, <2>1, <2>3 DEF Calm, MapIsRight
  <2>4. QED BY <2>2, <2>3
<1>13. OneLooks' BY <1>2 DEF Calm, OneLooks, Window
<1>14. Ends(b)' BY <1>1, <1>2, <1>6 DEF Ends
<1>15. \A a \in Attachment \ {b} : Ends(a)' <=> Ends(a) BY <1>1, <1>2 DEF Ends
<1>16. Accounted'
  <2>1. SUFFICES ASSUME NEW i \in Id, map'[i] # None
                 PROVE  \E a \in Attachment : id[a] = i /\ (a \in started \/ Ends(a)')
    BY <1>1 DEF Accounted, history
  <2>2. CASE i = id[b] BY <1>14, <2>2
  <2>3. CASE i # id[b]
    <3>1. PICK a \in Attachment : id[a] = i /\ (a \in started \/ Ends(a))
      BY <1>7, <2>1, <2>3 DEF Calm, Accounted
    <3>2. QED BY <1>15, <2>3, <3>1
  <2>4. QED BY <2>2, <2>3
<1>17. EndIsNew'
  <2>1. SUFFICES ASSUME NEW a \in Attachment, at'[a] \in Window, it = End, map'[local[a].id] # None
                 PROVE  \E c \in Attachment : /\ id[c] = local[a].id /\ at'[c] = "findAgain"
                                              /\ local[c].op = "initialize"
    BY <1>1 DEF EndIsNew
  <2>2. at[a] \in Window BY <1>2, <2>1 DEF Window
  <2>3. CASE local[a].id = id[b] BY <1>2, <1>6, <2>3
  <2>4. CASE local[a].id # id[b]
    <3>1. map'[local[a].id] = map[local[a].id] BY <1>1, <1>3, <2>4 DEF TypeOK
    <3>2. QED BY <1>1, <1>2, <2>1, <2>2, <3>1 DEF Calm, EndIsNew
  <2>5. QED BY <2>3, <2>4
<1>18. Own(b)'
  <2>1. Found(b)' BY <1>2 DEF Found, Window
  <2>2. NewIsApart(b)' BY <1>2 DEF NewIsApart
  <2>3. AsksForItself(b)' BY <1>1, <1>2, <1>6 DEF AsksForItself, Later
  <2>4. Distinct' => Steady(b)'
    <3>1. Distinct => Steady(b) /\ map[id[b]] = None BY <1>1, <1>4 DEF Own, Steady
    <3>2. Distinct /\ cut = {} => cursor[b] = None BY <3>1 DEF Steady
    <3>3. QED BY <1>1, <1>2, <1>6, <1>9, <1>11, <3>1, <3>2 DEF Steady, Later, history
  <2>5. QED BY <2>1, <2>2, <2>3, <2>4 DEF Own
<1>19. ASSUME NEW a \in Attachment, a # b PROVE Own(a)'
  <2>1. Own(a) BY DEF Calm
  <2>2. at'[a] = at[a] BY <1>2, <1>19
  <2>3. Found(a)' BY <1>1, <1>7, <2>1, <2>2 DEF Own, Found
  <2>4. NewIsApart(a)'
    <3>1. SUFFICES ASSUME at[a] = "insert", NEW i \in Id, map'[i] = local[a].res PROVE Erasing(i)
      BY <1>1, <1>10, <2>1, <2>2 DEF Own, NewIsApart, Live
    <3>2. local[a].res \in Live /\ heap[local[a].res].by = a
      BY <2>1, <3>1 DEF Own, NewIsApart
    <3>3. local[a].res # r BY <1>5, <1>19, <3>2
    <3>4. map'[i] = map[i] BY <1>7, <1>8, <3>1, <3>3
    <3>5. QED BY <2>1, <3>1, <3>4 DEF Own, NewIsApart
  <2>5. AsksForItself(a)' BY <1>1, <2>1, <2>2 DEF Own, AsksForItself
  <2>6. Distinct' => Steady(a)'
    <3>1. Distinct => map'[id[a]] = map[id[a]] BY <1>7, <1>19, Looked DEF Distinct
    <3>2. QED BY <1>1, <1>11, <2>1, <2>2, <3>1 DEF Own, Steady, history
  <2>7. QED BY <2>3, <2>4, <2>5, <2>6 DEF Own
<1>20. QED BY <1>12, <1>13, <1>16, <1>17, <1>18, <1>19 DEF Calm

\* The first half of finalize.
LEMMA FreeCalm ==
    ASSUME TypeOK, Calm, NEW b \in Attachment,
           it \in Id, map[it] \in Live, Go(b, "remove", "erase"),
           heap' = [heap EXCEPT ![map[it]] = None],
           local' = [local EXCEPT ![b].id = it],
           cut' = cut \cup Robbed(b, map[it]),
           UNCHANGED <<map, it, known, instance, cursor, answer, started, hit, fault>>
    PROVE  Calm'
<1>1. at[b] = "remove" /\ at' = [at EXCEPT ![b] = "erase"] /\ id' = id
  BY DEF Go, world
<1>2. /\ at'[b] = "erase"
      /\ \A a \in Attachment \ {b} : at'[a] = at[a]
  BY <1>1 DEF TypeOK
<1>3. Own(b) /\ "remove" \in Window /\ "erase" \in Window /\ "erase" \in Later
  BY DEF Calm, Window, Later
<1>4. \A a \in Attachment \ {b} : at[a] \notin Window
  BY <1>1, <1>3 DEF Calm, OneLooks
<1>5. it # End BY PoolAssumption
<1>6. it = local[b].id /\ local[b].op = "finalize" /\ it = id[b]
  BY <1>1, <1>3, <1>5 DEF Own, Found, AsksForItself, Later
<1>7. /\ \A a \in Attachment \ {b} : local'[a] = local[a]
      /\ local'[b].id = it /\ local'[b].op = local[b].op
  <2> DEFINE e == [local[b] EXCEPT !.id = it]
  <2>1. local' = [local EXCEPT ![b] = e] BY Zenon
  <2>2. e.id = it /\ e.op = local[b].op BY Looked DEF Local
  <2> HIDE DEF e
  <2>3. QED BY <2>1, <2>2 DEF TypeOK
<1>8. \A i : ~Erasing(i) BY <1>1, <1>3, <1>4 DEF Erasing
<1>9. Erasing(it)' BY <1>2, <1>7 DEF Erasing
<1>10. \A s \in Live \ {map[it]} : s \in Live' /\ heap'[s] = heap[s]
  BY DEF TypeOK, Live
<1>11. map[it] # None BY PoolAssumption DEF Live
<1>12. Distinct' <=> Distinct BY <1>1 DEF Distinct
<1>13. MapIsRight'
  <2>1. SUFFICES ASSUME NEW i \in Id, map[i] # None, i # it
                 PROVE  map[i] \in Live' /\ heap'[map[i]].id = i
    BY <1>9 DEF MapIsRight
  <2>2. map[i] \in Live /\ heap[map[i]].id = i /\ heap[map[it]].id = it
    BY <1>8, <1>11, <2>1 DEF Calm, MapIsRight
  <2>3. QED BY <1>10, <2>1, <2>2
<1>14. OneLooks' BY <1>2, <1>4 DEF OneLooks
<1>15. \A a \in Attachment : Ends(a)' <=> Ends(a)
  BY <1>1, <1>2, <1>7 DEF Ends
<1>16. Accounted' BY <1>1, <1>15 DEF Calm, Accounted
<1>17. EndIsNew' BY <1>5 DEF EndIsNew
<1>18. Own(b)'
  <2>1. Found(b)' BY <1>2, <1>7, <1>11 DEF Found
  <2>2. NewIsApart(b)' BY <1>2 DEF NewIsApart
  <2>3. AsksForItself(b)' BY <1>1, <1>2, <1>6, <1>7 DEF AsksForItself
  <2>4. Distinct' => Steady(b)'
    <3>1. cut' = {} => cut = {} /\ cursor[b] # map[it] BY DEF Robbed
    <3>2. QED BY <1>1, <1>2, <1>3, <1>6, <1>7, <1>12, <3>1 DEF Own, Steady
  <2>5. QED BY <2>1, <2>2, <2>3, <2>4 DEF Own
<1>19. ASSUME NEW a \in Attachment, a # b PROVE Own(a)'
  <2>1. Own(a) BY DEF Calm
  <2>2. at'[a] = at[a] /\ local'[a] = local[a] /\ at[a] \notin Window
    BY <1>2, <1>4, <1>7, <1>19
  <2>3. Found(a)' BY <2>2 DEF Found
  <2>4. NewIsApart(a)'
    <3>1. SUFFICES ASSUME at[a] = "insert"
                   PROVE  /\ local[a].res \in Live' /\ heap'[local[a].res].by = a
                          /\ \A i \in Id : map[i] # local[a].res
      BY <2>2 DEF NewIsApart
    <3>2. /\ local[a].res \in Live /\ heap[local[a].res].by = a
          /\ \A i \in Id : map[i] # local[a].res
      BY <1>8, <2>1, <3>1 DEF Own, NewIsApart
    <3>3. QED BY <1>10, <3>2
  <2>5. AsksForItself(a)' BY <1>1, <2>1, <2>2 DEF Own, AsksForItself
  <2>6. Distinct' => Steady(a)'
    <3>1. cut' = {} => cut = {} OBVIOUS
    <3>2. QED BY <1>1, <1>12, <2>1, <2>2, <3>1 DEF Own, Steady
  <2>7. QED BY <2>3, <2>4, <2>5, <2>6 DEF Own
<1>20. QED BY <1>13, <1>14, <1>16, <1>17, <1>18, <1>19 DEF Calm

\* The second half of finalize.
LEMMA RemoveCalm ==
    ASSUME TypeOK, Calm, NEW b \in Attachment, hit' = {},
           it = local[b].id, Go(b, "erase", "idle"),
           map' = [map EXCEPT ![it] = None], it' = Dangling,
           Disturb(b), Return(b, "finalized"), started' = started \ {b},
           UNCHANGED <<heap, known, instance, cursor, cut, fault>>
    PROVE  Calm'
<1>1. at[b] = "erase" /\ at' = [at EXCEPT ![b] = "idle"] /\ id' = id
  BY DEF Go, world
<1>2. /\ at'[b] = "idle"
      /\ \A a \in Attachment \ {b} : at'[a] = at[a] /\ local'[a] = local[a]
  BY <1>1 DEF Return, TypeOK
<1>3. Own(b) /\ "erase" \in Window /\ "erase" \in Later
      /\ "idle" \notin Window /\ "idle" \notin Later
  BY DEF Calm, Window, Later
<1>4. \A a \in Attachment \ {b} : at[a] \notin Window BY DEF Disturb, Looking
<1>5. it \in Id /\ it = id[b]
  BY <1>1, <1>3 DEF Own, Found, AsksForItself
<1>6. map'[it] = None /\ \A i \in Id \ {it} : map'[i] = map[i] BY <1>5 DEF TypeOK
<1>7. \A i : Erasing(i) => i = it BY <1>3, <1>4 DEF Erasing
<1>8. Distinct' <=> Distinct BY <1>1 DEF Distinct
<1>9. MapIsRight' BY <1>6, <1>7 DEF Calm, MapIsRight, Live
<1>10. \A a \in Attachment : at'[a] \notin Window BY <1>2, <1>3, <1>4
<1>11. OneLooks' /\ EndIsNew' BY <1>10 DEF OneLooks, EndIsNew
<1>12. Accounted'
  <2>1. SUFFICES ASSUME NEW i \in Id, map'[i] # None
                 PROVE  \E a \in Attachment : id[a] = i /\ (a \in started' \/ Ends(a)')
    BY <1>1 DEF Accounted
  <2>2. i # it /\ map[i] # None BY <1>6, <2>1
  <2>3. PICK a \in Attachment : id[a] = i /\ (a \in started \/ Ends(a))
    BY <2>2 DEF Calm, Accounted
  <2>4. a # b BY <1>5, <2>2, <2>3
  <2>5. QED BY <1>2, <2>3, <2>4 DEF Ends
<1>13. Own(b)'
  <2>1. Found(b)' /\ NewIsApart(b)' /\ AsksForItself(b)'
    BY <1>2, <1>3 DEF Found, NewIsApart, AsksForItself
  <2>2. Distinct' => Steady(b)' BY <1>1, <1>2, <1>3, <1>8 DEF Own, Steady
  <2>3. QED BY <2>1, <2>2 DEF Own
<1>14. ASSUME NEW a \in Attachment, a # b PROVE Own(a)'
  <2>1. Own(a) BY DEF Calm
  <2>2. at'[a] = at[a] /\ local'[a] = local[a] BY <1>2, <1>14
  <2>3. Found(a)' BY <1>10 DEF Found
  <2>4. NewIsApart(a)'
    <3>1. SUFFICES ASSUME at[a] = "insert"
                   PROVE  /\ local[a].res \in Live /\ heap[local[a].res].by = a
                          /\ \A i \in Id : map'[i] # local[a].res
      BY <2>2 DEF NewIsApart, Live
    <3>2. local[a].res \in Live /\ heap[local[a].res].by = a /\ local[a].res # None
      BY <2>1, <3>1, PoolAssumption DEF Own, NewIsApart, Live
    <3>3. \A i \in Id : map[i] = local[a].res => i = it
      BY <1>7, <2>1, <3>1 DEF Own, NewIsApart
    <3>4. QED BY <1>6, <3>2, <3>3
  <2>5. AsksForItself(a)' BY <1>1, <2>1, <2>2 DEF Own, AsksForItself
  <2>6. Distinct' => Steady(a)'
    <3>1. Distinct => map'[id[a]] = map[id[a]] BY <1>5, <1>6, <1>14, Looked DEF Distinct
    <3>2. QED BY <1>1, <1>8, <1>14, <2>1, <2>2, <3>1 DEF Own, Steady
  <2>7. QED BY <2>3, <2>4, <2>5, <2>6 DEF Own
<1>15. QED BY <1>9, <1>11, <1>12, <1>13, <1>14 DEF Calm

\* The call ends, or a fetch does.
LEMMA ReturnCalm ==
    ASSUME TypeOK, Calm, NEW b \in Attachment, NEW p \in Points \ {"erase", "findAgain"},
           Go(b, p, "idle"), NEW s, Return(b, s),
           UNCHANGED <<map, it, heap, instance, hit, cut>>,
           \A a \in Attachment \ {b} : cursor'[a] = cursor[a],
           Distinct /\ cut = {} /\ cursor'[b] # None => cursor'[b] = map[id[b]],
           started \ {b} \subseteq started',
           \/ map[id[b]] = None \/ ~(b \in started \/ Ends(b)) \/ b \in started'
           \/ \E c \in Attachment \ {b} : id[c] = id[b] /\ Ends(c)
    PROVE  Calm'
<1>1. at[b] = p /\ at' = [at EXCEPT ![b] = "idle"] /\ id' = id
  BY DEF Go, world
<1>2. at'[b] = "idle" BY <1>1 DEF TypeOK
<1>3. "idle" \in Points /\ "idle" \notin Later /\ "idle" \notin Window
  BY DEF Points, Later, Window
<1>4. Steps(b, "idle") BY <1>1 DEF Steps, Return, TypeOK
<1>5. Own(b)'
  <2>1. Found(b)' /\ NewIsApart(b)' /\ AsksForItself(b)'
    BY <1>2, <1>3 DEF Found, NewIsApart, AsksForItself
  <2>2. Distinct' => Steady(b)'
    BY <1>1, <1>2, <1>3 DEF Calm, Own, Steady, Distinct
  <2>3. QED BY <2>1, <2>2 DEF Own
<1>6. QED BY <1>1, <1>3, <1>4, <1>5, SameCalm

\* Nobody is erasing what b looks at.
LEMMA FoundIsRight ==
    ASSUME TypeOK, Calm, NEW b \in Attachment, at[b] \in Window \ {"erase"}, it # End
    PROVE  /\ it \in Id /\ it = local[b].id /\ map[it] # None
           /\ map[it] \in Live /\ heap[map[it]].id = it
<1>1. it \in Id /\ it = local[b].id /\ map[it] # None
  BY DEF Calm, Own, Found
<1>2. ~Erasing(it) BY DEF Calm, OneLooks, Erasing, Window
<1>3. QED BY <1>1, <1>2 DEF Calm, MapIsRight

\* What b has not found is not there, or has just been put there by another.
LEMMA NothingFound ==
    ASSUME TypeOK, Calm, NEW b \in Attachment, at[b] \in Window, it = End, local[b].id = id[b],
           map[id[b]] # None
    PROVE  (\E c \in Attachment \ {b} : id[c] = id[b] /\ Ends(c)) /\ ~Distinct
<1>1. PICK c \in Attachment :
          id[c] = local[b].id /\ at[c] = "findAgain" /\ local[c].op = "initialize"
  BY DEF Calm, EndIsNew
<1>2. c # b BY <1>1 DEF Window
<1>3. QED BY <1>1, <1>2 DEF Ends, Distinct

LEMMA InitCheckCalm ==
    ASSUME TypeOK, Calm, NEW b \in Attachment, InitCheck(b)
    PROVE  Calm'
<1> DEFINE q == IF it = End THEN "construct" ELSE "findAgain"
<1>1. /\ at[b] = "initCheck" /\ at' = [at EXCEPT ![b] = q] /\ id' = id
      /\ UNCHANGED <<pool, local, instance, cursor, answer, history>>
  BY DEF InitCheck, Go, world
<1>2. (q = "construct" /\ it = End) \/ (q = "findAgain" /\ it # End)
  OBVIOUS
<1> HIDE DEF q
<1>3. q \in Points /\ q \notin Window /\ q \in Later BY <1>2 DEF Points, Window, Later
<1>4. at'[b] = q BY <1>1 DEF TypeOK
<1>5. Steps(b, q) BY <1>1 DEF Steps, history
<1>6. Own(b) /\ at[b] \in Window /\ at[b] \in Later BY <1>1 DEF Calm, Window, Later
<1>7. local[b].op = "initialize" /\ local[b].id = id[b]
  BY <1>1, <1>6 DEF Own, AsksForItself
<1>8. Own(b)'
  <2>1. Found(b)' /\ NewIsApart(b)'
    BY <1>2, <1>3, <1>4 DEF Found, NewIsApart
  <2>2. AsksForItself(b)' BY <1>1, <1>2, <1>4, <1>7 DEF AsksForItself
  <2>3. Distinct' => Steady(b)'
    <3>1. q = "construct" /\ Distinct => map[id[b]] = None
      BY <1>2, <1>6, <1>7, NothingFound
    <3>2. q = "findAgain" => map[id[b]] # None
      BY <1>1, <1>2, <1>6, <1>7, FoundIsRight
    <3>3. QED BY <1>1, <1>2, <1>4, <1>6, <1>7, <3>1, <3>2
              DEF Own, Steady, Distinct, pool, history
  <2>4. QED BY <2>1, <2>2, <2>3 DEF Own
<1>9. ~Ends(b) BY <1>1 DEF Ends
<1>10. QED BY <1>1, <1>2, <1>3, <1>5, <1>8, <1>9, SameCalm DEF pool, history

LEMMA CheckCalm ==
    ASSUME TypeOK, Calm, NEW b \in Attachment, CheckFound(b)
    PROVE  Calm'
<1>1. /\ at[b] = "check" /\ at' = [at EXCEPT ![b] = "deref"] /\ id' = id /\ it # End
      /\ UNCHANGED <<pool, local, instance, cursor, answer, history>>
  BY DEF CheckFound, Go, world
<1>2. at'[b] = "deref" BY <1>1 DEF TypeOK
<1>3. {"check", "deref"} \subseteq Window \cap Later \cap Points BY DEF Window, Later, Points
<1>4. Steps(b, "deref") BY <1>1 DEF Steps, history
<1>5. Own(b) BY DEF Calm
<1>6. Own(b)'
  <2>1. Found(b)' BY <1>1, <1>2, <1>3, <1>5 DEF Own, Found, pool
  <2>2. NewIsApart(b)' /\ AsksForItself(b)'
    BY <1>1, <1>2, <1>3, <1>5 DEF Own, NewIsApart, AsksForItself
  <2>3. Distinct' => Steady(b)'
    BY <1>1, <1>2, <1>3, <1>5 DEF Own, Steady, Distinct, pool, history
  <2>4. QED BY <2>1, <2>2, <2>3 DEF Own
<1>7. Ends(b)' <=> Ends(b) BY <1>1, <1>2 DEF Ends
<1>8. QED BY <1>1, <1>3, <1>4, <1>6, <1>7, SameCalm DEF pool, history

LEMMA PassDeleteCalm ==
    ASSUME TypeOK, Calm, NEW b \in Attachment, it # End, Go(b, "delete", "remove"),
           UNCHANGED <<pool, local, instance, cursor, answer, history>>
    PROVE  Calm'
<1>1. at[b] = "delete" /\ at' = [at EXCEPT ![b] = "remove"] /\ id' = id
  BY DEF Go, world
<1>2. at'[b] = "remove" BY <1>1 DEF TypeOK
<1>3. {"delete", "remove"} \subseteq Window \cap Later \cap Points BY DEF Window, Later, Points
<1>4. Steps(b, "remove") BY <1>1 DEF Steps, history
<1>5. Own(b) BY DEF Calm
<1>6. Own(b)'
  <2>1. Found(b)' BY <1>1, <1>2, <1>3, <1>5 DEF Own, Found, pool
  <2>2. NewIsApart(b)' /\ AsksForItself(b)'
    BY <1>1, <1>2, <1>3, <1>5 DEF Own, NewIsApart, AsksForItself
  <2>3. Distinct' => Steady(b)'
    BY <1>1, <1>2, <1>3, <1>5 DEF Own, Steady, Distinct, pool, history
  <2>4. QED BY <2>1, <2>2, <2>3 DEF Own
<1>7. ~Ends(b) BY <1>1 DEF Ends
<1>8. QED BY <1>1, <1>3, <1>4, <1>6, <1>7, SameCalm DEF pool, history

\* The cursor of the instance is not touched.
LEMMA LeaveCalm ==
    ASSUME TypeOK, Calm, NEW b \in Attachment, NEW p \in Points \ {"erase", "findAgain"},
           Go(b, p, "idle"), NEW s, Return(b, s),
           UNCHANGED <<map, it, heap, instance, cursor, hit, cut>>,
           started \ {b} \subseteq started',
           \/ map[id[b]] = None \/ ~(b \in started \/ Ends(b)) \/ b \in started'
           \/ \E c \in Attachment \ {b} : id[c] = id[b] /\ Ends(c)
    PROVE  Calm'
<1>1. Distinct /\ cut = {} /\ cursor'[b] # None => cursor'[b] = map[id[b]]
  BY DEF Calm, Own, Steady
<1>2. QED BY <1>1, ReturnCalm

LEMMA StillCalm ==
    ASSUME Calm, UNCHANGED <<world, pool, thread, started, cut>>
    PROVE  Calm'
<1>1. \A a : (Ends(a)' <=> Ends(a)) /\ (Own(a)' <=> Own(a))
  BY DEF Ends, Own, Found, NewIsApart, Erasing, AsksForItself, Steady, Distinct, Live,
         world, pool, thread
<1>2. OneLooks' /\ MapIsRight' /\ EndIsNew'
  BY DEF Calm, OneLooks, MapIsRight, Erasing, Live, EndIsNew, world, pool, thread
<1>3. Accounted' BY <1>1 DEF Calm, Accounted, world, pool
<1>4. QED BY <1>1, <1>2, <1>3 DEF Calm

LEMMA FaultCalm ==
    ASSUME Calm, NEW b, NEW p, NEW f, Fault(b, p, f)
    PROVE  Calm'
BY StillCalm DEF Fault

LEMMA CheckEndCalm ==
    ASSUME TypeOK, Calm, NEW b \in Attachment, CheckEnd(b)
    PROVE  Calm'
<1>1. "check" \in Points \ {"erase", "findAgain"} /\ "check" \in Window /\ "check" \in Later
  BY DEF Points, Window, Later
<1>2. it = End /\ at[b] = "check" BY DEF CheckEnd, Go, Fault
<1>3. CASE Fault(b, "check", "message") BY <1>3, FaultCalm
<1>4. CASE /\ Go(b, "check", "idle") /\ Return(b, "initialized") /\ started' = started \cup {b}
           /\ UNCHANGED <<pool, instance, cursor, hit, cut, fault>>
  BY <1>1, <1>4, LeaveCalm DEF pool
<1>5. CASE /\ local[b].op = "finalize"
           /\ Go(b, "check", "idle") /\ Return(b, "finalized") /\ started' = started \ {b}
           /\ UNCHANGED <<pool, instance, cursor, hit, cut, fault>>
  <2>1. local[b].id = id[b] BY <1>1, <1>2, <1>5 DEF Calm, Own, AsksForItself
  <2>2. map[id[b]] = None \/ \E c \in Attachment \ {b} : id[c] = id[b] /\ Ends(c)
    BY <1>1, <1>2, <2>1, NothingFound
  <2>3. QED BY <1>1, <1>5, <2>2, LeaveCalm DEF pool
<1>6. CASE /\ local[b].op \in {"constructor", "call"}
           /\ Go(b, "check", "idle") /\ Return(b, "refused")
           /\ cursor' = [cursor EXCEPT ![b] = IF @ = None THEN @ ELSE NullPtr]
           /\ UNCHANGED <<pool, instance, history>>
  <2>1. ~Ends(b) BY <1>6 DEF Ends
  <2>2. /\ \A a \in Attachment \ {b} : cursor'[a] = cursor[a]
        /\ cursor[b] = None => cursor'[b] = None
    BY <1>6 DEF TypeOK
  <2>3. Distinct => map[id[b]] = None
    BY <1>1, <1>2, NothingFound DEF Calm, Own, Steady
  <2>4. Distinct /\ cut = {} => cursor[b] = None BY <2>3 DEF Calm, Own, Steady
  <2>5. QED BY <1>1, <1>6, <2>1, <2>2, <2>4, ReturnCalm DEF pool, history
<1>7. QED BY <1>3, <1>4, <1>5, <1>6 DEF CheckEnd

LEMMA DerefCalm ==
    ASSUME TypeOK, Calm, NEW b \in Attachment, Deref(b)
    PROVE  Calm'
<1>1. CASE Fault(b, "deref", "end") \/ Fault(b, "deref", "freed") BY <1>1, FaultCalm
<1>2. ASSUME at[b] = "deref", it \in Id,
             \/ InitDeref(b, map[it])
             \/ local[b].op = "constructor" /\ ConstructorDeref(b, map[it])
             \/ local[b].op = "call" /\ CallDeref(b, map[it])
             \/ local[b].op = "finalize" /\ FinalizeDeref(b, map[it])
      PROVE  Calm'
  <2> DEFINE r == map[it]
  <2>1. it # End BY <1>2, PoolAssumption
  <2>2. "deref" \in Points \ {"erase", "findAgain"} /\ "deref" \in Window \ {"erase"}
        /\ "deref" \in Later /\ "idle" \notin Window
    BY DEF Points, Window, Later
  <2>3. it = local[b].id /\ r # None /\ heap[r].id = it BY <1>2, <2>1, <2>2, FoundIsRight
  <2>4. Own(b) BY DEF Calm
  <2>5. Distinct => it = id[b] BY <1>2, <2>2, <2>3, <2>4 DEF Own, Steady
  <2> HIDE DEF r
  <2>6. CASE InitDeref(b, r)
    <3>1. CASE Fault(b, "deref", "freed") \/ Fault(b, "deref", "message") BY <3>1, FaultCalm
    <3>2. CASE /\ Go(b, "deref", "idle") /\ Return(b, "initialized")
               /\ started' = started \cup {b}
               /\ UNCHANGED <<map, it, heap, instance, cursor, hit, cut, fault>>
      BY <2>2, <3>2, LeaveCalm
    <3>3. QED BY <2>6, <3>1, <3>2 DEF InitDeref
  <2>7. CASE local[b].op = "constructor" /\ ConstructorDeref(b, r)
    <3> DEFINE i == heap[r].id
               e == [op |-> "call", res |-> None, id |-> i]
    <3>1. /\ at[b] = "deref" /\ at' = [at EXCEPT ![b] = "findAgain"] /\ id' = id
          /\ instance' = [instance EXCEPT ![b] = i]
          /\ local' = [local EXCEPT ![b] = e]
          /\ UNCHANGED <<pool, cursor, answer, history>>
      BY <2>7 DEF ConstructorDeref, Go, world
    <3>2. e.op = "call" /\ e.id = it BY <2>3
    <3> HIDE DEF i, e
    <3>3. at'[b] = "findAgain" /\ local'[b] = e /\ instance'[b] = it
      BY <2>3, <3>1 DEF TypeOK, i
    <3>4. "findAgain" \in Points /\ "findAgain" \notin Window BY DEF Points, Window
    <3>5. Steps(b, "findAgain") BY <3>1 DEF Steps, TypeOK, history
    <3>6. Found(b)' /\ NewIsApart(b)' /\ AsksForItself(b)'
      BY <3>2, <3>3, <3>4 DEF Found, NewIsApart, AsksForItself
    <3>7. Distinct' => Steady(b)'
      BY <2>4, <2>5, <3>1, <3>2, <3>3 DEF Own, Steady, Distinct, pool, history
    <3>8. ~Ends(b) BY <2>7 DEF Ends
    <3>9. QED BY <3>1, <3>4, <3>5, <3>6, <3>7, <3>8, SameCalm DEF Own, pool, history
  <2>8. CASE local[b].op = "call" /\ CallDeref(b, r)
    <3> DEFINE e == [local[b] EXCEPT !.res = r]
               c == IF cursor[b] = None THEN cursor[b] ELSE r
    <3>1. /\ at[b] = "deref" /\ at' = [at EXCEPT ![b] = "using"] /\ id' = id
          /\ UNCHANGED <<pool, instance, answer, history>>
      BY <2>8 DEF CallDeref, Go, world
    <3>2. cursor' = [cursor EXCEPT ![b] = c] /\ local' = [local EXCEPT ![b] = e]
      BY <2>8, Zenon DEF CallDeref
    <3>3. e.res = r BY Looked DEF Local
    <3> HIDE DEF e, c
    <3>4. at'[b] = "using" /\ local'[b].res = r /\ cursor'[b] = c
      BY <3>1, <3>2, <3>3 DEF TypeOK
    <3>5. "using" \in Points /\ "using" \notin Window /\ "using" \notin Later
      BY DEF Points, Window, Later
    <3>6. Steps(b, "using") BY <3>1, <3>2 DEF Steps, TypeOK, history
    <3>7. Found(b)' /\ NewIsApart(b)' /\ AsksForItself(b)'
      BY <3>4, <3>5 DEF Found, NewIsApart, AsksForItself
    <3>8. Distinct' => Steady(b)'
      BY <2>3, <2>4, <2>5, <3>1, <3>4, <3>5 DEF Own, Steady, Distinct, pool, history, c, r
    <3>9. ~Ends(b) BY <2>8 DEF Ends
    <3>10. QED BY <3>1, <3>5, <3>6, <3>7, <3>8, <3>9, SameCalm DEF Own, pool, history
  <2>9. CASE local[b].op = "finalize" /\ FinalizeDeref(b, r)
    <3> DEFINE i == heap[r].id
               e == [local[b] EXCEPT !.id = i]
    <3>1. /\ at[b] = "deref" /\ at' = [at EXCEPT ![b] = "findAgain"] /\ id' = id
          /\ UNCHANGED <<pool, instance, cursor, answer, history>>
      BY <2>9 DEF FinalizeDeref, Go, world
    <3>2. local' = [local EXCEPT ![b] = e] BY <2>9, Zenon DEF FinalizeDeref
    <3>3. e.op = "finalize" /\ e.id = it BY <2>3, <2>9, Looked DEF Local
    <3>4. it = id[b] BY <1>2, <2>2, <2>3, <2>4, <2>9 DEF Own, AsksForItself
    <3> HIDE DEF i, e
    <3>5. at'[b] = "findAgain" /\ local'[b] = e BY <3>1, <3>2 DEF TypeOK
    <3>6. "findAgain" \in Points /\ "findAgain" \notin Window BY DEF Points, Window
    <3>7. Steps(b, "findAgain") BY <3>1, <3>2 DEF Steps, TypeOK, history
    <3>8. Found(b)' /\ NewIsApart(b)' /\ AsksForItself(b)'
      BY <3>1, <3>3, <3>4, <3>5, <3>6 DEF Found, NewIsApart, AsksForItself
    <3>9. Distinct' => Steady(b)'
      BY <2>4, <3>1, <3>3, <3>4, <3>5 DEF Own, Steady, Distinct, pool, history
    <3>10. ~Ends(b) BY <2>9 DEF Ends
    <3>11. QED BY <3>1, <3>6, <3>7, <3>8, <3>9, <3>10, SameCalm DEF Own, pool, history
  <2>10. QED BY <1>2, <2>6, <2>7, <2>8, <2>9 DEF r
<1>3. QED
  <2>1. Deref(b) => at[b] = "deref"
    BY DEF Deref, InitDeref, ConstructorDeref, CallDeref, FinalizeDeref, Go, Fault
  <2>2. QED BY <1>1, <1>2, <2>1 DEF Deref

LEMMA UseCalm ==
    ASSUME TypeOK, Calm, NEW b \in Attachment, Use(b) \/ Fetch(b) \/ Disconnect(b)
    PROVE  Calm'
<1>1. CASE Use(b)
  <2>1. CASE Fault(b, "using", "freed") BY <2>1, FaultCalm
  <2>2. CASE /\ Go(b, "using", "idle") /\ ServedBy(b, local[b].res)
             /\ cursor' \in {cursor, [cursor EXCEPT ![b] = local[b].res]}
             /\ UNCHANGED <<pool, instance, history>>
    <3>1. PICK s : Return(b, s) BY <2>2 DEF ServedBy
    <3>2. "using" \in Points \ {"erase", "findAgain"} /\ at[b] = "using"
      BY <2>2 DEF Points, Go
    <3>3. /\ \A a \in Attachment \ {b} : cursor'[a] = cursor[a]
          /\ cursor'[b] \in {cursor[b], local[b].res}
      BY <2>2 DEF TypeOK
    <3>4. Distinct /\ cut = {} /\ cursor'[b] # None => cursor'[b] = map[id[b]]
      BY <3>2, <3>3 DEF Calm, Own, Steady
    <3>5. ~Ends(b) BY <3>2 DEF Ends
    <3>6. QED BY <2>2, <3>1, <3>2, <3>3, <3>4, <3>5, ReturnCalm DEF pool, history
  <2>3. QED BY <1>1, <2>1, <2>2 DEF Use
<1>2. CASE Fetch(b)
  <2>1. CASE Fault(b, "idle", "freed") \/ Fault(b, "idle", "null") BY <2>1, FaultCalm
  <2>2. CASE /\ Go(b, "idle", "idle") /\ ServedBy(b, cursor[b])
             /\ cursor' \in {cursor, [cursor EXCEPT ![b] = None]}
             /\ UNCHANGED <<pool, instance, history>>
    <3>1. PICK s : Return(b, s) BY <2>2 DEF ServedBy
    <3>2. "idle" \in Points \ {"erase", "findAgain"} /\ at[b] = "idle"
      BY <2>2 DEF Points, Go
    <3>3. /\ \A a \in Attachment \ {b} : cursor'[a] = cursor[a]
          /\ cursor'[b] \in {cursor[b], None}
      BY <2>2 DEF TypeOK
    <3>4. Distinct /\ cut = {} /\ cursor'[b] # None => cursor'[b] = map[id[b]]
      BY <3>3 DEF Calm, Own, Steady
    <3>5. ~Ends(b) BY <3>2 DEF Ends
    <3>6. QED BY <2>2, <3>1, <3>2, <3>3, <3>4, <3>5, ReturnCalm DEF pool, history
  <2>3. QED BY <1>2, <2>1, <2>2 DEF Fetch
<1>3. CASE Disconnect(b)
  <2>1. /\ at[b] = "idle" /\ at' = [at EXCEPT ![b] = "gone"] /\ id' = id
        /\ instance' = [instance EXCEPT ![b] = None]
        /\ cursor' = [cursor EXCEPT ![b] = None]
        /\ UNCHANGED <<pool, local, history>>
    BY <1>3 DEF Disconnect, Go, world
  <2>2. at'[b] = "gone" /\ instance'[b] = None /\ cursor'[b] = None BY <2>1 DEF TypeOK
  <2>3. "gone" \in Points /\ "gone" \notin Window /\ "gone" \notin Later
    BY DEF Points, Window, Later
  <2>4. Steps(b, "gone") BY <2>1 DEF Steps, TypeOK, history
  <2>5. Own(b)' BY <2>2, <2>3 DEF Own, Found, NewIsApart, AsksForItself, Steady
  <2>6. ~Ends(b) BY <2>1 DEF Ends
  <2>7. QED BY <2>1, <2>3, <2>4, <2>5, <2>6, SameCalm DEF pool, history
<1>4. QED BY <1>1, <1>2, <1>3

LEMMA BeginCalm ==
    ASSUME TypeOK, Calm, NEW b \in Attachment, hit' = {},
           StartInitialize(b) \/ StartCall(b) \/ StartFinalize(b)
    PROVE  Calm'
<1>1. ASSUME NEW op, NEW q \in {"initCheck", "check"}, NEW i \in Id,
             Begin(b, op, q, i), Moves(b, i),
             UNCHANGED <<map, heap, known, instance, cursor, started, cut, fault>>,
             op = "initialize" <=> q = "initCheck",
             op \in {"initialize", "finalize"} \/ Distinct => i = id[b]
      PROVE  Calm'
  <2> DEFINE e == [op |-> op, res |-> None, id |-> i]
  <2>1. /\ at[b] = "idle" /\ at' = [at EXCEPT ![b] = q] /\ id' = id
        /\ local' = [local EXCEPT ![b] = e]
    BY <1>1, Zenon DEF Begin, Go, world
  <2>2. e.op = op /\ e.id = i OBVIOUS
  <2> HIDE DEF e
  <2>3. local'[b].op = op /\ local'[b].id = i BY <2>1, <2>2 DEF TypeOK
  <2>4. hit' = hit \cup Looking(b) BY <1>1 DEF Moves, Disturb
  <2>5. Steps(b, q) BY <1>1, <2>1, <2>4 DEF Steps, TypeOK
  <2>6. at[b] \notin Window /\ ~Ends(b) BY <2>1 DEF Window, Ends
  <2>7. q # "delete" BY <1>1
  <2>8. QED BY <1>1, <2>3, <2>5, <2>6, <2>7, MoveCalm
<1>2. CASE StartInitialize(b)
  <2>1. id[b] \in Id BY Looked
  <2>2. QED BY <1>1, <1>2, <2>1 DEF StartInitialize
<1>3. CASE StartCall(b)
  <2> DEFINE i == IF instance[b] = None THEN id[b] ELSE instance[b]
             op == IF instance[b] = None THEN "constructor" ELSE "call"
  <2>1. i \in Id /\ op \notin {"initialize", "finalize"} BY Looked
  <2>2. /\ Begin(b, op, "check", i) /\ Moves(b, i)
        /\ UNCHANGED <<map, heap, known, instance, cursor, started, cut, fault>>
    BY <1>3 DEF StartCall
  <2>3. Distinct => i = id[b] BY DEF Calm, Own, Steady
  <2> HIDE DEF i, op
  <2>4. QED BY <1>1, <2>1, <2>2, <2>3
<1>4. CASE StartFinalize(b)
  <2>1. id[b] \in Id BY Looked
  <2>2. QED BY <1>1, <1>4, <2>1 DEF StartFinalize
<1>5. QED BY <1>2, <1>3, <1>4

LEMMA FindAgainCalm ==
    ASSUME TypeOK, HasId, Calm, NEW b \in Attachment, hit' = {}, FindAgain(b)
    PROVE  Calm'
<1> DEFINE q == IF local[b].op = "finalize" THEN "delete" ELSE "check"
<1>1. /\ at[b] = "findAgain" /\ at' = [at EXCEPT ![b] = q] /\ id' = id
      /\ Moves(b, local[b].id)
      /\ UNCHANGED <<map, heap, known, local, instance, cursor, answer, started, cut, fault>>
  BY DEF FindAgain, Go, world
<1>2. q \in {"check", "delete"} /\ (q = "delete" <=> local[b].op = "finalize")
  OBVIOUS
<1> HIDE DEF q
<1>3. "findAgain" \in Later /\ "findAgain" \notin Window BY DEF Later, Window
<1>4. local[b].id \in Id BY <1>1, <1>3 DEF HasId
<1>5. hit' = hit \cup Looking(b) BY <1>1 DEF Moves, Disturb
<1>6. Steps(b, q) BY <1>1, <1>5 DEF Steps
<1>7. Own(b) BY DEF Calm
<1>8. local[b].op \in {"initialize", "finalize"} \/ Distinct => local[b].id = id[b]
  BY <1>1, <1>3, <1>7 DEF Own, AsksForItself, Steady
<1>9. Distinct /\ local[b].op = "initialize" => map[id[b]] # None
  BY <1>1, <1>7 DEF Own, Steady
<1>10. Ends(b) => Ends(b)'
  <2>1. at'[b] = q BY <1>1 DEF TypeOK
  <2>2. QED BY <1>1, <1>2, <2>1 DEF Ends
<1>11. QED BY <1>1, <1>2, <1>3, <1>4, <1>6, <1>8, <1>9, <1>10, MoveCalm

LEMMA FinalizeCalm ==
    ASSUME TypeOK, Calm, NEW b \in Attachment, hit' = {},
           CheckDelete(b) \/ Delete(b) \/ Erase(b)
    PROVE  Calm'
<1>1. ASSUME NEW p, NEW f, Fault(b, p, f) PROVE Calm' BY <1>1, FaultCalm
<1>2. CASE /\ it = End /\ Go(b, "delete", "idle") /\ Return(b, "finalized")
           /\ started' = started \ {b}
           /\ UNCHANGED <<pool, instance, cursor, hit, cut, fault>>
  <2>1. "delete" \in Points \ {"erase", "findAgain"} /\ "delete" \in Window /\ "delete" \in Later
        /\ at[b] = "delete"
    BY <1>2 DEF Points, Window, Later, Go
  <2>2. local[b].id = id[b] BY <2>1 DEF Calm, Own, AsksForItself
  <2>3. map[id[b]] = None \/ \E c \in Attachment \ {b} : id[c] = id[b] /\ Ends(c)
    BY <1>2, <2>1, <2>2, NothingFound
  <2>4. QED BY <1>2, <2>1, <2>3, LeaveCalm DEF pool
<1>3. CASE CheckDelete(b) BY <1>2, <1>3, PassDeleteCalm DEF CheckDelete
<1>4. CASE Delete(b) BY <1>1, <1>4, FreeCalm DEF Delete
<1>5. CASE Erase(b) BY <1>1, <1>5, RemoveCalm DEF Erase
<1>6. QED BY <1>3, <1>4, <1>5

LEMMA FailConstructCalm ==
    ASSUME TypeOK, Calm, NEW b \in Attachment, FailConstruct(b)
    PROVE  Calm'
<1>1. "construct" \in Points \ {"erase", "findAgain"} /\ at[b] = "construct"
  BY DEF Points, FailConstruct, Go
<1>2. ~Ends(b) BY <1>1 DEF Ends
<1>3. QED BY <1>1, <1>2, LeaveCalm DEF FailConstruct, pool, history

LEMMA StepQuiet == ASSUME TypeOK, HasId, MadeForId, Quiet, Next PROVE Quiet'
<1> SUFFICES ASSUME hit' = {} PROVE Calm'
  BY DEF Quiet
<1>1. Calm BY StepGrows DEF Quiet
<1>2. CASE Exit BY <1>1, <1>2, StillCalm DEF Exit
<1>3. ASSUME NEW b \in Attachment,
             \/ StartInitialize(b) \/ InitCheck(b) \/ Construct(b) \/ FailConstruct(b) \/ Insert(b)
             \/ FindAgain(b) \/ CheckEnd(b) \/ CheckFound(b) \/ Deref(b)
             \/ StartCall(b) \/ Use(b) \/ Fetch(b)
             \/ StartFinalize(b) \/ CheckDelete(b) \/ Delete(b) \/ Erase(b) \/ Disconnect(b)
      PROVE  Calm'
  BY <1>1, <1>3, BeginCalm, InitCheckCalm, ConstructCalm, FailConstructCalm, InsertCalm,
     FindAgainCalm, CheckEndCalm, CheckCalm, DerefCalm, UseCalm, FinalizeCalm
<1>4. QED BY <1>2, <1>3 DEF Next

LEMMA InitQuiet == ASSUME Init PROVE Quiet
<1>1. \A a \in Attachment : at[a] = "idle" /\ instance[a] = None /\ cursor[a] = None
  BY DEF Init
<1>2. \A a \in Attachment : at[a] \notin Window /\ at[a] \notin Later
  BY <1>1 DEF Window, Later
<1>3. \A i \in Id : map[i] = None BY DEF Init
<1>4. OneLooks /\ MapIsRight /\ Accounted /\ EndIsNew
  BY <1>2, <1>3 DEF OneLooks, MapIsRight, Accounted, EndIsNew
<1>5. \A a \in Attachment : Own(a)
  BY <1>1, <1>2 DEF Own, Found, NewIsApart, AsksForItself, Steady
<1>6. QED BY <1>4, <1>5 DEF Quiet, Calm

-----------------------------------------------------------------------------
(* What undefined behaviour takes.                                          *)

\* Nothing follows undefined behaviour.
LEMMA StepAfterNone == ASSUME Next PROVE fault = "none"
<1>1. ASSUME NEW b \in Attachment,
             \/ StartInitialize(b) \/ InitCheck(b) \/ Construct(b) \/ FailConstruct(b) \/ Insert(b)
             \/ FindAgain(b) \/ CheckEnd(b) \/ CheckFound(b) \/ StartCall(b) \/ Use(b) \/ Fetch(b)
             \/ StartFinalize(b) \/ CheckDelete(b) \/ Delete(b) \/ Erase(b) \/ Disconnect(b)
      PROVE  fault = "none"
  BY <1>1 DEF StartInitialize, InitCheck, Construct, FailConstruct, Insert, FindAgain, CheckEnd,
     CheckFound, StartCall, Use, Fetch, StartFinalize, CheckDelete, Delete, Erase, Disconnect,
     Begin, Go, Fault
<1>2. ASSUME NEW b \in Attachment, Deref(b) PROVE fault = "none"
  BY <1>2 DEF Deref, InitDeref, ConstructorDeref, CallDeref, FinalizeDeref, Go, Fault
<1>3. QED BY <1>1, <1>2 DEF Next, Exit

\* The steps that end in undefined behaviour.
LEMMA StepFails ==
    ASSUME Next, fault' # "none"
    PROVE  \/ Exit
           \/ \E b \in Attachment :
                \/ CheckEnd(b) /\ Fault(b, "check", "message")
                   /\ local[b].op = "initialize" /\ it = End
                \/ Fault(b, "deref", "end") /\ it \in {End, Dangling}
                \/ Fault(b, "deref", "freed") /\ it \in Id /\ map[it] \notin Live
                \/ Fault(b, "deref", "message") /\ map[it] \in Live /\ db[heap[map[it]].by] \notin Created
                \/ Fault(b, "using", "freed") /\ local[b].res \notin Live
                \/ Fault(b, "idle", "freed") /\ cursor[b] \in Resource \ Live
                \/ Fault(b, "idle", "null") /\ cursor[b] = NullPtr
                \/ Fault(b, "remove", "end") /\ it \in {End, Dangling}
                \/ Fault(b, "remove", "freed") /\ it \in Id /\ map[it] \notin Live
                \/ Fault(b, "erase", "torn") /\ it \in Id \ {local[b].id}
                \/ Fault(b, "erase", "end") /\ it \in {End, Dangling}
<1>1. fault = "none" BY StepAfterNone
<1>2. ASSUME NEW b \in Attachment,
             \/ StartInitialize(b) \/ InitCheck(b) \/ Construct(b) \/ FailConstruct(b) \/ Insert(b)
             \/ FindAgain(b) \/ CheckFound(b) \/ StartCall(b) \/ StartFinalize(b)
             \/ CheckDelete(b) \/ Disconnect(b)
      PROVE  FALSE
  BY <1>1, <1>2 DEF StartInitialize, InitCheck, Construct, FailConstruct, Insert, FindAgain,
     CheckFound, StartCall, StartFinalize, CheckDelete, Disconnect, history
<1>3. ASSUME NEW b \in Attachment, CheckEnd(b)
      PROVE  Fault(b, "check", "message") /\ local[b].op = "initialize" /\ it = End
  BY <1>1, <1>3 DEF CheckEnd, history
<1>4. ASSUME NEW b \in Attachment, Use(b)
      PROVE  Fault(b, "using", "freed") /\ local[b].res \notin Live
  BY <1>1, <1>4 DEF Use, history
<1>5. ASSUME NEW b \in Attachment, Fetch(b)
      PROVE  \/ Fault(b, "idle", "freed") /\ cursor[b] \in Resource \ Live
             \/ Fault(b, "idle", "null") /\ cursor[b] = NullPtr
  BY <1>1, <1>5 DEF Fetch, history
<1>6. ASSUME NEW b \in Attachment, Delete(b)
      PROVE  \/ Fault(b, "remove", "end") /\ it \in {End, Dangling}
             \/ Fault(b, "remove", "freed") /\ it \in Id /\ map[it] \notin Live
  BY <1>1, <1>6 DEF Delete
<1>7. ASSUME NEW b \in Attachment, Erase(b)
      PROVE  \/ Fault(b, "erase", "torn") /\ it \in Id \ {local[b].id}
             \/ Fault(b, "erase", "end") /\ it \in {End, Dangling}
  BY <1>1, <1>7 DEF Erase
<1>8. ASSUME NEW b \in Attachment, Deref(b)
      PROVE  \/ Fault(b, "deref", "end") /\ it \in {End, Dangling}
             \/ Fault(b, "deref", "freed") /\ it \in Id /\ map[it] \notin Live
             \/ Fault(b, "deref", "message") /\ map[it] \in Live /\ db[heap[map[it]].by] \notin Created
  BY <1>1, <1>8 DEF Deref, InitDeref, ConstructorDeref, CallDeref, FinalizeDeref, history
<1>9. QED BY <1>2, <1>3, <1>4, <1>5, <1>6, <1>7, <1>8 DEF Next

LEMMA StepFaults ==
    ASSUME TypeOK, AllGood, Quiet, FaultsHaveCauses, Next
    PROVE  FaultsHaveCauses'
<1>1. CASE fault' = "none" BY <1>1 DEF FaultsHaveCauses
<1>2. ASSUME Exit PROVE FaultsHaveCauses'
  <2>1. /\ fault' = IF \E i \in Id : map[i] # None THEN "exit" ELSE fault
        /\ fault = "none" /\ hit' = hit /\ started' = started
        /\ \A a \in Attachment : at[a] = "gone"
    BY <1>2 DEF Exit
  <2>2. fault' = "exit" => hit # {} \/ started # {} BY <2>1 DEF Quiet, Calm, Accounted, Ends
  <2>3. QED BY <2>1, <2>2 DEF FaultsHaveCauses
<1>3. ASSUME NEW b \in Attachment, NEW p, NEW f, Fault(b, p, f)
      PROVE  /\ at[b] = p /\ fault' = f /\ hit' = hit /\ cut' = cut
             /\ Distinct' <=> Distinct
             /\ db' = db
  BY <1>3 DEF Fault, Distinct, world
<1>4. {"check", "deref", "remove"} \subseteq Window \ {"erase"} /\ "erase" \in Window
      /\ "check" \in Later
  BY DEF Window, Later
<1>5. ASSUME NEW b \in Attachment, Fault(b, "check", "message"), local[b].op = "initialize", it = End
      PROVE  FaultsHaveCauses'
  <2>1. at[b] = "check" BY <1>3, <1>5
  <2>2. hit = {} => Calm BY DEF Quiet
  <2>3. Calm => local[b].id = id[b] BY <1>4, <1>5, <2>1 DEF Calm, Own, AsksForItself
  <2>4. Calm /\ Distinct => map[id[b]] # None BY <1>5, <2>1 DEF Calm, Own, Steady
  <2>5. hit # {} \/ ~Distinct BY <1>4, <1>5, <2>1, <2>2, <2>3, <2>4, NothingFound
  <2>6. QED BY <1>3, <1>5, <2>5 DEF FaultsHaveCauses
<1>6. ASSUME NEW b \in Attachment, NEW p \in Window, NEW f \in {"end", "torn"}, Fault(b, p, f),
             \/ p = "deref" /\ it \in {End, Dangling}
             \/ p = "remove" /\ it \in {End, Dangling}
             \/ p = "erase" /\ it # local[b].id
             \/ p = "erase" /\ it \in {End, Dangling}
      PROVE  FaultsHaveCauses'
  <2>1. hit # {}
    BY <1>3, <1>6, PoolAssumption DEF Quiet, Calm, Own, Found
  <2>2. QED BY <1>3, <1>6, <2>1 DEF FaultsHaveCauses
<1>7. ASSUME NEW b \in Attachment, NEW p \in {"deref", "remove"}, Fault(b, p, "freed"),
             it \in Id, map[it] \notin Live
      PROVE  FaultsHaveCauses'
  <2>1. it # End BY <1>7, PoolAssumption
  <2>2. at[b] \in Window \ {"erase"} BY <1>3, <1>4, <1>7
  <2>3. hit # {} BY <1>7, <2>1, <2>2, FoundIsRight DEF Quiet
  <2>4. QED BY <1>3, <1>7, <2>3 DEF FaultsHaveCauses
<1>8. ASSUME NEW b \in Attachment, Fault(b, "deref", "message"),
             map[it] \in Live, db[heap[map[it]].by] \notin Created
      PROVE  FaultsHaveCauses'
  <2>1. heap[map[it]].by \in Attachment BY <1>8 DEF TypeOK, Live
  <2>2. QED BY <1>3, <1>8, <2>1 DEF FaultsHaveCauses
<1>9. ASSUME NEW b \in Attachment, NEW p, Fault(b, p, "freed"),
             \/ p = "using" /\ local[b].res \notin Live
             \/ cursor[b] \in Resource \ Live
      PROVE  FaultsHaveCauses'
  <2>1. hit # {} \/ cut # {} BY <1>3, <1>9 DEF AllGood, Alone, Good, Mine
  <2>2. QED BY <1>3, <1>9, <2>1 DEF FaultsHaveCauses
<1>10. ASSUME NEW b \in Attachment, Fault(b, "idle", "null"), cursor[b] = NullPtr
       PROVE  FaultsHaveCauses'
  <2>1. cursor[b] # None /\ cursor[b] \notin Resource BY <1>10, PoolAssumption
  <2>2. hit # {} \/ cut # {} \/ ~Distinct
    BY <2>1, Looked DEF Quiet, Calm, Own, Steady, TypeOK
  <2>3. QED BY <1>3, <1>10, <2>2 DEF FaultsHaveCauses
<1>11. QED
  BY <1>1, <1>2, <1>4, <1>5, <1>6, <1>7, <1>8, <1>9, <1>10, StepFails

-----------------------------------------------------------------------------
(* The contract.                                                            *)

Up == {a \in Attachment : map[id[a]] # None}

\* A step that tells the callers nothing: the map and the answer stay.
LEMMA SilentSteps ==
    ASSUME NEW b \in Attachment,
           InitCheck(b) \/ Construct(b) \/ FindAgain(b) \/ CheckFound(b)
    PROVE  UNCHANGED <<map, answer>>
BY DEF InitCheck, Construct, FindAgain, CheckFound, pool

\* While no lookup is disturbed and nothing is lost, a step of attachments with ids of
\* their own is one of the contract.
LEMMA StepKeepsContract ==
    ASSUME TypeOK, AllGood, MadeForId, Quiet, Next,
           Distinct, hit' = {}, cut' = {}, fault' = "none"
    PROVE  Contract!ContractNext \/ UNCHANGED <<map, answer>>
<1>1. hit = {} /\ cut = {} /\ id' = id BY StepGrows
<1>2. Calm /\ (\A a \in Attachment : Good(a) /\ Own(a) /\ Steady(a))
  BY <1>1 DEF Quiet, Calm, Own, AllGood, Alone
<1>3. Up' = {a \in Attachment : map'[id[a]] # None} BY <1>1 DEF Up
<1>4. ASSUME NEW b, NEW p, NEW f \in {"end", "freed", "torn", "message", "null", "exit"}, Fault(b, p, f)
      PROVE  FALSE
  BY <1>4 DEF Fault
<1>5. CASE Exit BY <1>5 DEF Exit, pool, thread
<1>6. ASSUME map' = map, answer' = NoAnswer PROVE Contract!ContractNext
  BY <1>1, <1>6 DEF Contract!ContractNext, Contract!Ask, Contract!NoAnswer, NoAnswer
<1>7. ASSUME NEW b \in Attachment,
             StartInitialize(b) \/ StartCall(b) \/ StartFinalize(b) \/ Disconnect(b)
      PROVE  Contract!ContractNext
  BY <1>6, <1>7 DEF StartInitialize, StartCall, StartFinalize, Disconnect, Begin, pool
<1>8. ASSUME NEW b \in Attachment, NEW s, Return(b, s), map' = map,
             \/ s = "initialized" /\ b \in Up
             \/ s = "failed" /\ b \notin Up
             \/ s = "finalized" /\ b \notin Up
             \/ s = "served" /\ b \in Up
             \/ s = "refused" /\ b \notin Up
      PROVE  Contract!ContractNext
  <2>1. answer' = [of |-> b, is |-> s] /\ Up' = Up BY <1>1, <1>8 DEF Return, Up
  <2>2. \/ Contract!Initialized(b) \/ Contract!InitializeFails(b) \/ Contract!Finalized(b)
        \/ Contract!Served(b) \/ Contract!Refused(b)
    BY <1>8, <2>1 DEF Up, Contract!Initialized, Contract!InitializeFails, Contract!Finalized,
       Contract!Served, Contract!Refused, Contract!Say
  <2>3. QED BY <2>2 DEF Contract!ContractNext
<1>9. \A b \in Attachment : at[b] \in Later => local[b].id = id[b] BY <1>2 DEF Steady
<1>10. ASSUME NEW b \in Attachment, FailConstruct(b) PROVE Contract!ContractNext
  <2>1. b \notin Up BY <1>2, <1>10 DEF Steady, Up, FailConstruct, Go
  <2>2. QED BY <1>8, <1>10, <2>1 DEF FailConstruct, pool
<1>11. ASSUME NEW b \in Attachment, Insert(b) PROVE Contract!ContractNext
  <2>1. at[b] = "insert" /\ answer' = answer /\ id[b] \in Id
        /\ map' = [map EXCEPT ![id[b]] = IF @ = None THEN local[b].res ELSE @]
    BY <1>11, Looked DEF Insert, Go
  <2>2. map[id[b]] = None /\ local[b].res # None
    BY <1>2, <2>1, PoolAssumption DEF Steady, Own, NewIsApart, Live
  <2>3. map'[id[b]] # None /\ \A a \in Attachment \ {b} : map'[id[a]] = map[id[a]]
    BY <2>1, <2>2, Looked DEF Distinct, TypeOK
  <2>4. b \notin Up /\ Up' = Up \cup {b} BY <1>3, <2>2, <2>3 DEF Up
  <2>5. Contract!Raise(b) BY <2>1, <2>4 DEF Contract!Raise, Up
  <2>6. QED BY <2>5 DEF Contract!ContractNext
<1>12. ASSUME NEW b \in Attachment, CheckEnd(b) PROVE Contract!ContractNext
  <2>1. it = End /\ at[b] = "check" BY <1>12 DEF CheckEnd, Go, Fault
  <2>2. at[b] \in Window /\ at[b] \in Later BY <2>1 DEF Window, Later
  <2>3. b \notin Up BY <1>2, <1>9, <2>1, <2>2, NothingFound DEF Up
  <2>4. local[b].op # "initialize" BY <1>2, <2>1, <2>3 DEF Steady, Up
  <2>5. map' = map /\ (Return(b, "finalized") \/ Return(b, "refused"))
    BY <1>4, <1>12, <2>4 DEF CheckEnd, pool
  <2>6. QED BY <1>8, <2>3, <2>5
<1>13. ASSUME NEW b \in Attachment, at[b] \in {"deref", "erase"}, it \in Id
       PROVE  it = id[b] /\ b \in Up
  <2>1. at[b] \in Window /\ at[b] \in Later BY <1>13 DEF Window, Later
  <2>2. it # End BY <1>13, PoolAssumption
  <2>3. QED BY <1>2, <1>9, <2>1, <2>2 DEF Own, Found, Up
<1>14. ASSUME NEW b \in Attachment, Deref(b)
       PROVE  Contract!ContractNext \/ UNCHANGED <<map, answer>>
  <2>1. it \in Id BY <1>4, <1>14 DEF Deref
  <2>2. CASE InitDeref(b, map[it])
    <3>1. at[b] = "deref" /\ Return(b, "initialized") /\ map' = map
      BY <1>4, <2>2 DEF InitDeref, Go
    <3>2. b \in Up BY <1>13, <2>1, <3>1
    <3>3. QED BY <1>8, <3>1, <3>2
  <2>3. CASE ConstructorDeref(b, map[it]) \/ CallDeref(b, map[it]) \/ FinalizeDeref(b, map[it])
    BY <2>3 DEF ConstructorDeref, CallDeref, FinalizeDeref, pool
  <2>4. QED BY <1>4, <1>14, <2>1, <2>2, <2>3 DEF Deref
<1>15. ASSUME NEW b \in Attachment, NEW r, ServedBy(b, r), Mine(b, r), b \in Up, map' = map
       PROVE  Contract!ContractNext
  <2>1. heap[r].by = b BY <1>15, MineIsMade
  <2>2. Return(b, "served") BY <1>15, <2>1 DEF ServedBy
  <2>3. QED BY <1>8, <1>15, <2>2
<1>16. ASSUME NEW b \in Attachment, Use(b) PROVE Contract!ContractNext
  <2>1. at[b] = "using" /\ ServedBy(b, local[b].res) /\ map' = map
    BY <1>4, <1>16 DEF Use, Go, pool
  <2>2. Mine(b, local[b].res) BY <1>2, <2>1 DEF Good
  <2>3. b \in Up BY <1>2, <2>1 DEF Steady, Up
  <2>4. QED BY <1>15, <2>1, <2>2, <2>3
<1>17. ASSUME NEW b \in Attachment, Fetch(b) PROVE Contract!ContractNext
  <2>1. cursor[b] \in Live /\ cursor[b] # None /\ ServedBy(b, cursor[b]) /\ map' = map
    BY <1>4, <1>17 DEF Fetch, pool
  <2>2. Mine(b, cursor[b]) BY <1>2, <2>1 DEF Good, Live
  <2>3. b \in Up BY <1>1, <1>2, <2>1 DEF Steady, Up
  <2>4. QED BY <1>15, <2>1, <2>2, <2>3
<1>18. ASSUME NEW b \in Attachment, CheckDelete(b) \/ Delete(b)
       PROVE  Contract!ContractNext \/ UNCHANGED <<map, answer>>
  <2>1. CASE it = End /\ Go(b, "delete", "idle") /\ Return(b, "finalized") /\ UNCHANGED pool
    <3>1. at[b] = "delete" BY <2>1 DEF Go
    <3>2. at[b] \in Window /\ at[b] \in Later BY <3>1 DEF Window, Later
    <3>3. b \notin Up BY <1>2, <1>9, <2>1, <3>2, NothingFound DEF Up
    <3>4. QED BY <1>8, <2>1, <3>3 DEF pool
  <2>2. CASE UNCHANGED <<map, answer>> BY <2>2
  <2>3. QED BY <1>4, <1>18, <2>1, <2>2 DEF CheckDelete, Delete, pool
<1>19. ASSUME NEW b \in Attachment, Erase(b) PROVE Contract!ContractNext
  <2>1. /\ at[b] = "erase" /\ it = local[b].id /\ map' = [map EXCEPT ![it] = None]
        /\ answer' = [of |-> b, is |-> "finalized"]
    BY <1>4, <1>19 DEF Erase, Go, Return
  <2>2. it \in Id BY <1>2, <2>1 DEF Own, Found, Window
  <2>3. it = id[b] BY <1>13, <2>1, <2>2
  <2>4. map'[id[b]] = None /\ \A a \in Attachment \ {b} : map'[id[a]] = map[id[a]]
    BY <2>1, <2>2, <2>3, Looked DEF Distinct, TypeOK
  <2>5. Up' = Up \ {b} BY <1>3, <2>4 DEF Up
  <2>6. Contract!Finalized(b) BY <2>1, <2>5 DEF Contract!Finalized, Contract!Say, Up
  <2>7. QED BY <2>6 DEF Contract!ContractNext
<1>20. ASSUME NEW b \in Attachment,
             \/ StartInitialize(b) \/ InitCheck(b) \/ Construct(b) \/ FailConstruct(b) \/ Insert(b)
             \/ FindAgain(b) \/ CheckEnd(b) \/ CheckFound(b) \/ Deref(b)
             \/ StartCall(b) \/ Use(b) \/ Fetch(b)
             \/ StartFinalize(b) \/ CheckDelete(b) \/ Delete(b) \/ Erase(b) \/ Disconnect(b)
       PROVE  Contract!ContractNext \/ UNCHANGED <<map, answer>>
  BY <1>7, <1>10, <1>11, <1>12, <1>14, <1>16, <1>17, <1>18, <1>19, <1>20, SilentSteps
<1>21. QED BY <1>5, <1>20 DEF Next

-----------------------------------------------------------------------------
(* The theorems.                                                            *)

LEMMA InitIInv == Init => IInv
<1> SUFFICES ASSUME Init PROVE IInv
  OBVIOUS
<1>1. TypeOK
  <2> DEFINE l == [op |-> "call", res |-> None, id |-> None]
  <2>1. l \in Local BY DEF Local, Operations
  <2>2. local = [a \in Attachment |-> l] BY DEF Init, NoLocal
  <2> HIDE DEF l
  <2>3. local \in [Attachment -> Local] BY <2>1, <2>2
  <2>4. /\ id \in [Attachment -> Id] /\ at \in [Attachment -> Points]
        /\ map \in [Id -> Resource \cup {None}] /\ instance \in [Attachment -> Id \cup {None}]
        /\ cursor \in [Attachment -> Resource \cup {None, NullPtr}]
        /\ heap \in [Resource -> [by : Attachment, id : Id] \cup {None}]
    BY DEF Init, Points
  <2>5. answer \in [of : Attachment \cup {None},
             is : {"none", "initialized", "failed", "finalized", "served", "foreign", "refused"}]
    BY DEF Init, NoAnswer
  <2>6. QED BY <2>3, <2>4, <2>5 DEF TypeOK, Init, Local
<1>2. \A a \in Attachment : at[a] = "idle" /\ instance[a] = None /\ cursor[a] = None
  BY DEF Init
<1>3. HasId BY <1>2 DEF HasId, Later, Window
<1>4. \A a \in Attachment : map[id[a]] = None BY <1>1 DEF Init, TypeOK
<1>5. AllGood BY <1>2, <1>4, PoolAssumption DEF AllGood, Alone, Good, Later, Window
<1>6. MadeForId BY DEF MadeForId, Live, Init
<1>7. ForeignHasCause BY DEF ForeignHasCause, Init, NoAnswer
<1>8. Quiet BY InitQuiet
<1>9. FaultsHaveCauses BY DEF FaultsHaveCauses, Init
<1>10. QED BY <1>1, <1>3, <1>5, <1>6, <1>7, <1>8, <1>9 DEF IInv

LEMMA StepKeepsIInv == IInv /\ [Next]_vars => IInv'
<1>1. ASSUME IInv, Next PROVE IInv'
  BY <1>1, StepTypes, StepKeeps, StepMadeForId, StepQuiet, StepForeign, StepFaults DEF IInv
<1>2. ASSUME IInv, UNCHANGED vars PROVE IInv'
  <2>1. UNCHANGED <<world, pool, thread, history>> BY <1>2 DEF vars
  <2>2. TypeOK' BY <1>2, <2>1 DEF IInv, TypeOK, world, pool, thread, history
  <2>3. HasId' /\ AllGood' BY <1>2, <2>1, StillKeeps DEF IInv, history
  <2>4. MadeForId' /\ ForeignHasCause'
    BY <1>2, <2>1
       DEF IInv, MadeForId, Live, ForeignHasCause, Distinct, world, pool, thread, history
  <2>5. Quiet' BY <1>2, <2>1, StillCalm DEF IInv, Quiet, history
  <2>6. FaultsHaveCauses' BY <1>2, <2>1 DEF IInv, FaultsHaveCauses, Distinct, world, history
  <2>7. QED BY <2>2, <2>3, <2>4, <2>5, <2>6 DEF IInv
<1>3. QED BY <1>1, <1>2

\* The strengthening is an invariant of the pool and its threads.
THEOREM Inductive == Spec => []IInv
BY InitIInv, StepKeepsIInv, PTL DEF Spec

\* Every variable of the pool and its threads keeps its type.
THEOREM TypeCorrect == Spec => []TypeOK
<1>1. IInv => TypeOK BY DEF IInv
<1>2. QED BY <1>1, Inductive, PTL

\* A procedure's instance stays tied to its own attachment, whatever number of other
\* attachments race, unless that attachment had the iterator moved under a lookup of
\* its own or lost its resources.
THEOREM InstancesAreOwn == Spec => []InstanceIsOwn
<1>1. IInv => InstanceIsOwn BY DEF IInv, AllGood, Alone, Good, InstanceIsOwn
<1>2. QED BY <1>1, Inductive, PTL

\* An attachment is served from another's resources only for one of the causes named.
THEOREM ServedFromItsOwn == Spec => []ForeignHasCause
<1>1. IInv => ForeignHasCause BY DEF IInv
<1>2. QED BY <1>1, Inductive, PTL

\* Undefined behaviour takes what FaultsHaveCauses names: a race on the iterator, resources
\* lost, be it to the attachment's own finalize under its open cursor, a shared id, an
\* attachment of a database without the exceptions, or one not finalized.
THEOREM FaultsAreCaused == Spec => []FaultsHaveCauses
<1>1. IInv => FaultsHaveCauses BY DEF IInv
<1>2. QED BY <1>1, Inductive, PTL

\* As long as no lookup is disturbed and nobody loses resources, any number of attachments
\* with ids of their own, however their calls interleave, keep PoolContract.
THEOREM ImplementsContract == Spec => KeepsContract
<1>1. IInv /\ [Next]_vars =>
        [\/ Contract!ContractNext
         \/ ~Distinct \/ hit' # {} \/ cut' # {} \/ fault' # "none"]_<<map, answer>>
  <2>1. ASSUME UNCHANGED vars PROVE UNCHANGED <<map, answer>>
    BY <2>1 DEF vars, pool, thread
  <2>2. QED BY <2>1, StepKeepsContract DEF IInv
<1>2. QED BY <1>1, Inductive, PTL DEF Spec, KeepsContract

=============================================================================
