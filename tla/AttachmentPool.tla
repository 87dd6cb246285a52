--------------------------- MODULE AttachmentPool ---------------------------
(***************************************************************************)
(* The pool of attachments (src/src/rsrs.cpp) as its callers meet it: each *)
(* attachment runs its calls on a thread of its own, all of them share one *)
(* map from attachment ids to resources, and all lookups in the map go     *)
(* through one member iterator that no lock protects.                      *)
(*                                                                         *)
(* A step ends where the next access to the iterator begins.  The map's    *)
(* own operations are taken as atomic: the model shows what goes wrong     *)
(* even then.  Undefined behaviour is a fault, and nothing follows it.     *)
(***************************************************************************)
EXTENDS Naturals, FiniteSets

CONSTANTS
    Attachment,  \* attachments to the databases of one server process
    Id,          \* attachment ids
    Database,    \* databases: an id is unique within one of them
    Created,     \* the databases in which the exceptions of except.sql were created
    Resource,    \* addresses of attachment_resources
    None,        \* no address, no id
    NullPtr,     \* the null pointer in an instance
    End,         \* the iterator past the end
    Dangling,    \* an iterator that leads to an element erased, or nowhere yet
    MaxHit       \* bound: the attachments whose lookups are disturbed

ASSUME PoolAssumption ==
    /\ None \notin Resource \cup Id \cup Attachment
    /\ NullPtr \notin Resource \cup {None}
    /\ None \notin [by : Attachment, id : Id]
    /\ End \notin Id /\ Dangling \notin Id /\ End # Dangling
    /\ Created \subseteq Database
    /\ MaxHit \in Nat

VARIABLES
    id,          \* the id of each attachment
    db,          \* its database
    map,         \* resources_map
    it,          \* resources_it
    heap,        \* the resources that exist: who made them and for which id
    known,       \* pool.exceptions.number is not 0
    at,          \* the point each thread has reached
    local,       \* the resources, and the id, its call goes on with
    instance,    \* current_att_id of its procedure's instance
    cursor,      \* current_att_resources of the instance, while a cursor is open on it
    answer,      \* how the last call ended
    started,     \* history: initialize ended well and no finalize did since
    hit,         \* history: the attachments under whose lookups the iterator moved
    cut,         \* history: the attachments that lost resources they had not finalized
    fault        \* undefined behaviour

world == <<id, db>>
pool == <<map, it, heap, known>>
thread == <<at, local, instance, cursor, answer>>
history == <<started, hit, cut, fault>>
vars == <<world, pool, thread, history>>

Points == {"idle", "gone", "initCheck", "construct", "insert", "find", "check", "deref",
           "findAgain", "delete", "remove", "erase", "using"}
Operations == {"initialize", "finalize", "constructor", "call"}

TypeOK ==
    /\ id \in [Attachment -> Id] /\ db \in [Attachment -> Database]
    /\ map \in [Id -> Resource \cup {None}]
    /\ it \in Id \cup {End, Dangling}
    /\ heap \in [Resource -> [by : Attachment, id : Id] \cup {None}]
    /\ known \in BOOLEAN
    /\ at \in [Attachment -> Points]
    /\ local \in [Attachment -> [op : Operations, res : Resource \cup {None}, id : Id \cup {None}]]
    /\ instance \in [Attachment -> Id \cup {None}]
    /\ cursor \in [Attachment -> Resource \cup {None, NullPtr}]
    /\ answer \in [of : Attachment \cup {None},
                   is : {"none", "initialized", "failed", "finalized", "served", "foreign", "refused"}]
    /\ started \subseteq Attachment
    /\ hit \subseteq Attachment /\ cut \subseteq Attachment
    /\ fault \in {"none", "end", "freed", "torn", "message", "null", "exit"}

Live == {r \in Resource : heap[r] # None}

\* Ids are unique: no two databases of the process gave out the same.
Distinct == \A a, b \in Attachment : a # b => id[a] # id[b]

\* The threads that have set the iterator and have yet to read it.
Window == {"initCheck", "check", "deref", "delete", "remove", "erase"}
Looking(a) == {b \in Attachment \ {a} : at[b] \in Window}

NoAnswer == [of |-> None, is |-> "none"]
NoLocal == [op |-> "call", res |-> None, id |-> None]

Init ==
    /\ db \in [Attachment -> Database]
    /\ id \in {f \in [Attachment -> Id] :
                 \A a, b \in Attachment : a # b /\ db[a] = db[b] => f[a] # f[b]}
    /\ map = [i \in Id |-> None] /\ it = Dangling
    /\ heap = [r \in Resource |-> None]
    /\ known = FALSE
    /\ at = [a \in Attachment |-> "idle"]
    /\ local = [a \in Attachment |-> NoLocal]
    /\ instance = [a \in Attachment |-> None]
    /\ cursor = [a \in Attachment |-> None]
    /\ answer = NoAnswer
    /\ started = {} /\ hit = {} /\ cut = {} /\ fault = "none"

-----------------------------------------------------------------------------
(* Parts of steps.                                                          *)

\* A step of a's thread from one point to another.
Go(a, from, to) ==
    /\ fault = "none"
    /\ at[a] = from
    /\ at' = [at EXCEPT ![a] = to]
    /\ UNCHANGED world

\* The call ends.
Return(a, s) ==
    /\ answer' = [of |-> a, is |-> s]
    /\ local' = [local EXCEPT ![a] = NoLocal]

\* A call begins with the lookup of i.
Begin(a, op, to, i) ==
    /\ Go(a, "idle", to)
    /\ local' = [local EXCEPT ![a] = [op |-> op, res |-> None, id |-> i]]
    /\ answer' = NoAnswer

\* Undefined behaviour: the call does not end.
Fault(a, from, f) ==
    /\ fault = "none" /\ at[a] = from
    /\ fault' = f
    /\ UNCHANGED <<world, pool, thread, started, hit, cut>>

\* The iterator moves under those who have yet to read it.
Disturb(a) ==
    /\ hit' = hit \cup Looking(a)
    /\ Cardinality(hit') <= MaxHit

\* resources_it = resources_map.find(i)
Moves(a, i) ==
    /\ it' = IF map[i] = None THEN End ELSE i
    /\ Disturb(a)

-----------------------------------------------------------------------------
(* nano$udr.initialize                                                      *)

StartInitialize(a) ==
    /\ Begin(a, "initialize", "initCheck", id[a])
    /\ Moves(a, id[a])
    /\ UNCHANGED <<map, heap, known, instance, cursor, started, cut, fault>>

\* The attachment has no resources, or has some: current_resources looks again.
InitCheck(a) ==
    /\ Go(a, "initCheck", IF it = End THEN "construct" ELSE "findAgain")
    /\ UNCHANGED <<pool, local, instance, cursor, answer, history>>

\* The constructor of attachment_resources reads the exceptions of the database.
Construct(a) ==
    /\ Go(a, "construct", "insert")
    /\ \E r \in Resource \ Live :
        /\ heap' = [heap EXCEPT ![r] = [by |-> a, id |-> id[a]]]
        /\ local' = [local EXCEPT ![a].res = r]
    /\ UNCHANGED <<map, it, known, instance, cursor, answer, history>>

\* Mutant of FailConstruct: the error is not reported.
FailConstructUnreported(a) ==
    /\ Go(a, "construct", "idle")
    /\ Return(a, "initialized")
    /\ UNCHANGED <<pool, instance, cursor, history>>

FailConstruct(a) ==
    /\ Go(a, "construct", "idle")
    /\ Return(a, "failed")
    /\ UNCHANGED <<pool, instance, cursor, history>>

\* insert does nothing when the id has resources by now.
Insert(a) ==
    /\ Go(a, "insert", "findAgain")
    /\ map' = [map EXCEPT ![id[a]] = IF @ = None THEN local[a].res ELSE @]
    /\ UNCHANGED <<it, heap, known, local, instance, cursor, answer, history>>

\* The message of the pool's own exception is taken from the first attachment: the
\* number once known is kept, a missing exception has no message to copy.
InitDeref(a, r) ==
    \/ /\ known \/ (r \in Live /\ db[heap[r].by] \in Created)
       /\ Go(a, "deref", "idle")
       /\ known' = TRUE
       /\ Return(a, "initialized")
       /\ started' = started \cup {a}
       /\ UNCHANGED <<map, it, heap, instance, cursor, hit, cut, fault>>
    \/ ~known /\ r \notin Live /\ Fault(a, "deref", "freed")
    \/ ~known /\ r \in Live /\ db[heap[r].by] \notin Created /\ Fault(a, "deref", "message")

-----------------------------------------------------------------------------
(* Lookups: current_resources, and what each caller does with its answer.   *)

FindAgain(a) ==
    /\ Go(a, "findAgain", IF local[a].op = "finalize" THEN "delete" ELSE "check")
    /\ Moves(a, local[a].id)
    /\ UNCHANGED <<map, heap, known, local, instance, cursor, answer, started, cut, fault>>

\* Nothing found: a null pointer.  PROCEDURE_RESOURCES has assigned it to the instance,
\* under a cursor that is still open on it, before it refuses the call.
CheckEnd(a) ==
    /\ it = End
    /\ \/ /\ local[a].op = "initialize" /\ ~known
          /\ Fault(a, "check", "message")
       \/ /\ local[a].op = "initialize" /\ known
          /\ Go(a, "check", "idle")
          /\ Return(a, "initialized")
          /\ started' = started \cup {a}
          /\ UNCHANGED <<pool, instance, cursor, hit, cut, fault>>
       \/ /\ local[a].op = "finalize"
          /\ Go(a, "check", "idle")
          /\ Return(a, "finalized")
          /\ started' = started \ {a}
          /\ UNCHANGED <<pool, instance, cursor, hit, cut, fault>>
       \/ /\ local[a].op \in {"constructor", "call"}
          /\ Go(a, "check", "idle")
          /\ Return(a, "refused")
          /\ cursor' = [cursor EXCEPT ![a] = IF @ = None THEN @ ELSE NullPtr]
          /\ UNCHANGED <<pool, instance, history>>

CheckFound(a) ==
    /\ it # End
    /\ Go(a, "check", "deref")
    /\ UNCHANGED <<pool, local, instance, cursor, answer, history>>

\* Mutant of ConstructorDeref: all instances share the id.
ConstructorDerefShared(a, r) ==
    /\ r \in Live
    /\ Go(a, "deref", "findAgain")
    /\ instance' = [b \in Attachment |-> heap[r].id]
    /\ local' = [local EXCEPT ![a] = [op |-> "call", res |-> None, id |-> heap[r].id]]
    /\ UNCHANGED <<pool, cursor, answer, history>>

\* INITIALIZE_RESORCES: the instance keeps the id of the resources it found.
ConstructorDeref(a, r) ==
    /\ r \in Live
    /\ Go(a, "deref", "findAgain")
    /\ instance' = [instance EXCEPT ![a] = heap[r].id]
    /\ local' = [local EXCEPT ![a] = [op |-> "call", res |-> None, id |-> heap[r].id]]
    /\ UNCHANGED <<pool, cursor, answer, history>>

\* Mutant of CallDeref: all instances share the pointer.
CallDerefShared(a, r) ==
    /\ r \in Live
    /\ Go(a, "deref", "using")
    /\ cursor' = [b \in Attachment |-> IF cursor[b] = None THEN None ELSE r]
    /\ local' = [local EXCEPT ![a].res = r]
    /\ UNCHANGED <<pool, instance, answer, history>>

\* FUNCTION_RESOURCES, PROCEDURE_RESOURCES
CallDeref(a, r) ==
    /\ r \in Live
    /\ Go(a, "deref", "using")
    /\ cursor' = [cursor EXCEPT ![a] = IF @ = None THEN @ ELSE r]
    /\ local' = [local EXCEPT ![a].res = r]
    /\ UNCHANGED <<pool, instance, answer, history>>

FinalizeDeref(a, r) ==
    /\ r \in Live
    /\ Go(a, "deref", "findAgain")
    /\ local' = [local EXCEPT ![a].id = heap[r].id]
    /\ UNCHANGED <<pool, instance, cursor, answer, history>>

\* The iterator is read a second time.
Deref(a) ==
    \/ it \in {End, Dangling} /\ Fault(a, "deref", "end")
    \/ /\ it \in Id
       /\ LET r == map[it] op == local[a].op IN
           \/ op = "initialize" /\ InitDeref(a, r)
           \/ op = "constructor" /\ ConstructorDeref(a, r)
           \/ op = "call" /\ CallDeref(a, r)
           \/ op = "finalize" /\ FinalizeDeref(a, r)
           \/ op # "initialize" /\ r \notin Live /\ Fault(a, "deref", "freed")

-----------------------------------------------------------------------------
(* Functions and selectable procedures of an attachment.                    *)

\* The first call makes the instance, later ones look up the id it keeps.
StartCall(a) ==
    LET i == IF instance[a] = None THEN id[a] ELSE instance[a]
        op == IF instance[a] = None THEN "constructor" ELSE "call"
    IN  /\ Begin(a, op, "check", i)
        /\ Moves(a, i)
        /\ UNCHANGED <<map, heap, known, instance, cursor, started, cut, fault>>

ServedBy(a, r) == Return(a, IF heap[r].by = a THEN "served" ELSE "foreign")

\* A call uses the resources it found; a procedure may leave a cursor.
Use(a) ==
    \/ /\ local[a].res \in Live
       /\ Go(a, "using", "idle")
       /\ ServedBy(a, local[a].res)
       /\ cursor' \in {cursor, [cursor EXCEPT ![a] = local[a].res]}
       /\ UNCHANGED <<pool, instance, history>>
    \/ local[a].res \notin Live /\ Fault(a, "using", "freed")

\* FETCH_RESOURCES: a fetch looks nothing up.
Fetch(a) ==
    /\ cursor[a] # None
    /\ \/ /\ cursor[a] \in Live
          /\ Go(a, "idle", "idle")
          /\ ServedBy(a, cursor[a])
          /\ cursor' \in {cursor, [cursor EXCEPT ![a] = None]}
          /\ UNCHANGED <<pool, instance, history>>
       \/ cursor[a] = NullPtr /\ Fault(a, "idle", "null")
       \/ cursor[a] \in Resource \ Live /\ Fault(a, "idle", "freed")

-----------------------------------------------------------------------------
(* nano$udr.finalize, disconnecting, and the end of the process.            *)

StartFinalize(a) ==
    /\ Begin(a, "finalize", "check", id[a])
    /\ Moves(a, id[a])
    /\ UNCHANGED <<map, heap, known, instance, cursor, started, cut, fault>>

\* Those who lose r to the finalize of a: the others of its id, and who has a cursor on it.
Robbed(a, r) ==
    ({b \in Attachment : id[b] = heap[r].id} \ {a}) \cup {b \in Attachment : cursor[b] = r}

\* Nothing to delete, or the iterator will be read again.
CheckDelete(a) ==
    \/ /\ it = End
       /\ Go(a, "delete", "idle")
       /\ Return(a, "finalized")
       /\ started' = started \ {a}
       /\ UNCHANGED <<pool, instance, cursor, hit, cut, fault>>
    \/ /\ it # End
       /\ Go(a, "delete", "remove")
       /\ UNCHANGED <<pool, local, instance, cursor, answer, history>>

\* Delete the resources; the iterator still leads to their element.
Delete(a) ==
    \/ it \in {End, Dangling} /\ Fault(a, "remove", "end")
    \/ /\ it \in Id /\ map[it] \in Live
       /\ Go(a, "remove", "erase")
       /\ heap' = [heap EXCEPT ![map[it]] = None]
       /\ local' = [local EXCEPT ![a].id = it]
       /\ cut' = cut \cup Robbed(a, map[it])
       /\ UNCHANGED <<map, it, known, instance, cursor, answer, started, hit, fault>>
    \/ it \in Id /\ map[it] \notin Live /\ Fault(a, "remove", "freed")

\* Mutant of Erase: the element stays in the map.
EraseNothing(a) ==
    /\ it \in Id
    /\ Go(a, "erase", "idle")
    /\ Return(a, "finalized")
    /\ started' = started \ {a}
    /\ UNCHANGED <<pool, instance, cursor, hit, cut, fault>>

\* Erase the element the iterator leads to by now.  If it is not the one whose
\* resources were deleted, the map is left with a pointer to freed memory.
Erase(a) ==
    \/ /\ it = local[a].id
       /\ Go(a, "erase", "idle")
       /\ map' = [map EXCEPT ![it] = None]
       /\ it' = Dangling
       /\ Disturb(a)
       /\ Return(a, "finalized")
       /\ started' = started \ {a}
       /\ UNCHANGED <<heap, known, instance, cursor, cut, fault>>
    \/ it \in Id \ {local[a].id} /\ Fault(a, "erase", "torn")
    \/ it \in {End, Dangling} /\ Fault(a, "erase", "end")

\* The attachment ends; its resources stay.
Disconnect(a) ==
    /\ Go(a, "idle", "gone")
    /\ instance' = [instance EXCEPT ![a] = None]
    /\ cursor' = [cursor EXCEPT ![a] = None]
    /\ answer' = NoAnswer
    /\ UNCHANGED <<pool, local, history>>

\* The destructor of the pool moves its iterator on from an element it has erased.
Exit ==
    /\ fault = "none"
    /\ \A a \in Attachment : at[a] = "gone"
    /\ fault' = IF \E i \in Id : map[i] # None THEN "exit" ELSE fault
    /\ UNCHANGED <<world, pool, thread, started, hit, cut>>

Next ==
    \/ \E a \in Attachment :
        \/ StartInitialize(a) \/ InitCheck(a) \/ Construct(a) \/ FailConstruct(a) \/ Insert(a)
        \/ FindAgain(a) \/ CheckEnd(a) \/ CheckFound(a) \/ Deref(a)
        \/ StartCall(a) \/ Use(a) \/ Fetch(a)
        \/ StartFinalize(a) \/ CheckDelete(a) \/ Delete(a) \/ Erase(a) \/ Disconnect(a)
    \/ Exit

Spec == Init /\ [][Next]_vars

-----------------------------------------------------------------------------
(* Properties.                                                              *)

Contract == INSTANCE PoolContract WITH
    up <- {a \in Attachment : map[id[a]] # None}

\* Attachments of one database keep the contract, whatever their number and however
\* their calls interleave, as long as no thread moves the iterator another is about
\* to read, and nobody loses resources to another or under its own cursor.
KeepsContract ==
    [][\/ Contract!ContractNext
       \/ ~Distinct \/ hit' # {} \/ cut' # {} \/ fault' # "none"]_<<map, answer>>

\* A call is served from another attachment's resources only when two databases gave
\* out one id, or when its own attachment had the iterator moved under a lookup, or
\* lost its resources before: a race between others does not do it.
ForeignHasCause ==
    answer.is = "foreign" => ~Distinct \/ answer.of \in hit \cup cut

\* One lookup gone wrong in the constructor of an instance ties it to another
\* attachment for good, and nothing else does.
InstanceIsOwn ==
    \A a \in Attachment : instance[a] \in {None, id[a]} \/ a \in hit \cup cut

\* What undefined behaviour takes: the iterator off its element, and an element erased
\* for another, need a race; freed resources, and a null pointer in an instance, a race,
\* a shared id, or resources lost, be it by a finalize under the attachment's own open
\* cursor; a null message a race, a shared id or an attachment of a database without the
\* exceptions; the end of the process an attachment that did not finalize, or a race.
FaultsHaveCauses ==
    /\ fault \in {"end", "torn"} => hit # {}
    /\ fault \in {"freed", "null"} => hit # {} \/ cut # {} \/ ~Distinct
    /\ fault = "message" => hit # {} \/ ~Distinct \/ \E a \in Attachment : db[a] \notin Created
    /\ fault = "exit" => hit # {} \/ started # {}

=============================================================================
