------------------------ MODULE AttachmentResources ------------------------
(***************************************************************************)
(* The resources of one Firebird attachment: the ODBC connections it has   *)
(* opened and the transactions, statements, results and catalogs made on   *)
(* them (class attachment_resources, src/src/rsrs.cpp, and the object      *)
(* classes of conn, tnx, stmt, rslt and ctlg).                             *)
(*                                                                         *)
(* SQL holds raw pointers.  A call is served when the pointer is found in  *)
(* the registry of its class, a std::vector of pointers; an object is      *)
(* retained by its constructor and released by its destructor.  Deleting a *)
(* connection walks the four child registries with range-for loops whose   *)
(* bodies delete elements of the vector they walk: each deletion shifts    *)
(* the vector under the loop, whose end was fixed when it began, so the    *)
(* loop skips elements and reads stale slots.  The loops are modelled slot *)
(* by slot for that reason; while one runs nothing else can.               *)
(*                                                                         *)
(* An address is reused once it is freed, as operator new does.            *)
(***************************************************************************)
EXTENDS Naturals, FiniteSets

CONSTANTS
    Conn, Tnx, Stmt, Rslt, Ctlg, \* the addresses objects of each class may get
    NullPtr,                     \* the null pointer, a zero TY$POINTER in SQL
    Orphan,                      \* an ODBC connection whose nanoudr object is gone
    MaxSlots,                    \* bound: slots of one registry
    Faults                       \* the ODBC failures met after an object is retained

Kind   == {"tnx", "stmt", "rslt", "ctlg"}
Class  == Kind \cup {"conn"}
Child  == Tnx \cup Stmt \cup Rslt \cup Ctlg
Object == Conn \cup Child
Slots  == 1 .. MaxSlots

Address == [tnx |-> Tnx, stmt |-> Stmt, rslt |-> Rslt, ctlg |-> Ctlg, conn |-> Conn]

\* Mutant of After: the results are never walked.
AfterWithoutResults == [tnx |-> "stmt", stmt |-> "ctlg", rslt |-> "ctlg", ctlg |-> "done"]

\* release() walks transactions, statements, results, catalogs, in this order.
After == [tnx |-> "stmt", stmt |-> "rslt", rslt |-> "ctlg", ctlg |-> "done"]

ASSUME ConstantsAssumption ==
    /\ MaxSlots \in Nat \ {0}
    /\ \A k, l \in Class : k # l => Address[k] \cap Address[l] = {}
    /\ NullPtr \notin Object
    /\ Orphan \notin Object \cup {NullPtr}
    /\ Faults \subseteq {"ctor", "direct"}

VARIABLES
    up,      \* the attachment has resources in the pool
    heap,    \* "corrupt" once freed memory was read or freed again
    live,    \* the addresses that hold an object
    owner,   \* conn_ of each child object
    via,     \* the connection a statement's ODBC handle is allocated on
    slot,    \* the slots of each registry, stale ones included
    size,    \* the number of slots in use in each registry
    lost,    \* addresses retained by a constructor that then failed
    known,   \* the statement addresses, and the zero pointer, SQL was ever given
    leaked,  \* objects that outlived the resources they belonged to
    rel,     \* the running attachment_connections::release or ::expunge
    exp      \* the running attachment_resources::expunge

vars == <<up, heap, live, owner, via, slot, size, lost, known, leaked, rel, exp>>

NoRelease == [op |-> "none", conn |-> NullPtr, kind |-> "done", at |-> 1, end |-> 0, tame |-> TRUE]
NoExpunge == [op |-> "none", at |-> 1, end |-> 0, tame |-> TRUE]

ReleaseFrame ==
    [op : {"none", "release", "expunge"}, conn : Conn \cup {NullPtr}, kind : Kind \cup {"done"},
     at : 1 .. MaxSlots + 1, end : 0 .. MaxSlots, tame : BOOLEAN]
ExpungeFrame ==
    [op : {"none", "expunge", "finalize"}, at : 1 .. MaxSlots + 1, end : 0 .. MaxSlots,
     tame : BOOLEAN]

TypeOK ==
    /\ up \in BOOLEAN
    /\ heap \in {"sound", "corrupt"}
    /\ live \subseteq Object
    /\ owner \in [Child -> Conn \cup {NullPtr}]
    /\ via \in [Child -> Conn \cup {NullPtr, Orphan}]
    /\ slot \in [Class -> [Slots -> Object \cup {NullPtr}]]
    /\ size \in [Class -> 0 .. MaxSlots]
    /\ lost \subseteq Stmt
    /\ known \subseteq Stmt \cup {NullPtr}
    /\ leaked \subseteq Object
    /\ rel \in ReleaseFrame
    /\ exp \in ExpungeFrame

-----------------------------------------------------------------------------
(* Registries: std::vector with push_back, std::find and erase.            *)

Retained(k) == {slot[k][i] : i \in 1 .. size[k]}

\* valid() of the registry of class k.
Valid(k, x) == x \in Retained(k)

\* std::find: the first of n slots that holds x, if one does.
First(f, n, x) == {p \in 1 .. n : f[p] = x /\ \A q \in 1 .. p - 1 : f[q] # x}

\* Mutant of Erase: the element after the found one goes.
EraseNext(f, n, p) == [i \in Slots |-> IF p < i /\ i < n THEN f[i + 1] ELSE f[i]]

\* vector::erase: the elements after p move down one, the slot past the new
\* end keeps its old content.
Erase(f, n, p) == [i \in Slots |-> IF p <= i /\ i < n THEN f[i + 1] ELSE f[i]]

\* The slots past the end once no loop can read them any more.
Trim(f, n) == [i \in Slots |-> IF i <= n THEN f[i] ELSE NullPtr]

\* retain(): push_back.
Retain(k, x) ==
    /\ size[k] < MaxSlots
    /\ slot' = [slot EXCEPT ![k] = [@ EXCEPT ![size[k] + 1] = x]]
    /\ size' = [size EXCEPT ![k] = @ + 1]

\* release() of a child registry: erase the first slot that holds x.
Unretain(k, x) ==
    /\ \E p \in First(slot[k], size[k], x) :
            slot' = [slot EXCEPT ![k] = Erase(@, size[k], p)]
    /\ size' = [size EXCEPT ![k] = @ - 1]

\* The destructor of a child object, its slot apart: freed memory holds nothing.
Destroy(x) ==
    /\ live' = live \ {x}
    /\ owner' = [owner EXCEPT ![x] = NullPtr]
    /\ via' = [via EXCEPT ![x] = NullPtr]

-----------------------------------------------------------------------------
(* SQL calls.  A call is possible when the attachment has resources, no     *)
(* destructor is running and the process has not been corrupted.           *)

Ready == up /\ heap = "sound" /\ rel.op = "none" /\ exp.op = "none"

\* What the calls check of a connection argument before they dereference it; a
\* zero pointer passes the check as well and is the business of UseZero.
OnConnection(c) == Ready /\ c # NullPtr /\ Valid("conn", c)

\* What the calls check of a statement, transaction, result or catalog; that
\* the object is alive is not checked and is the business of UseLost.
OnChild(k, x) == Ready /\ Valid(k, x) /\ x \in live

Corrupt ==
    /\ heap' = "corrupt"
    /\ UNCHANGED <<up, live, owner, via, slot, size, lost, known, leaked, rel, exp>>

\* Mutant of Initialize: the registry of connections starts empty.
InitializeWithoutNull ==
    /\ ~up /\ heap = "sound"
    /\ up' = TRUE
    /\ UNCHANGED <<heap, live, owner, via, slot, size, lost, known, leaked, rel, exp>>

\* nano$udr.initialize: the registry of connections starts with a null element.
Initialize ==
    /\ ~up /\ heap = "sound"
    /\ up' = TRUE
    /\ size' = [size EXCEPT !["conn"] = 1]
    /\ UNCHANGED <<heap, live, owner, via, slot, lost, known, leaked, rel, exp>>

\* nano$conn.connection: the object is retained once the ODBC part is built.
NewConnection(c) ==
    /\ Ready
    /\ c \in Conn \ (live \cup leaked)
    /\ Retain("conn", c)
    /\ live' = live \cup {c}
    /\ UNCHANGED <<up, heap, owner, via, lost, known, leaked, rel, exp>>

\* The constructor of a child class: retain the object and set its conn_.
Construct(k, x, c) ==
    /\ x \in Address[k] \ (live \cup leaked)
    /\ Retain(k, x)
    /\ live' = live \cup {x}
    /\ owner' = [owner EXCEPT ![x] = c]
    /\ UNCHANGED <<up, heap, lost, leaked, rel, exp>>

\* An object made on a connection that is not a statement.
NewOnConnection(k, x, c) ==
    /\ OnConnection(c)
    /\ Construct(k, x, c)
    /\ UNCHANGED <<via, known>>

\* nano$tnx.transaction_.
NewTransaction(t, c) == NewOnConnection("tnx", t, c)

\* nano$ctlg.catalog_.
NewCatalog(g, c) == NewOnConnection("ctlg", g, c)

\* nano$func.execute_conn.
ExecuteOnConnection(r, c) == NewOnConnection("rslt", r, c)

\* nano$stmt.statement_ without a connection.
NewStatement(s) ==
    /\ Ready
    /\ Construct("stmt", s, NullPtr)
    /\ known' = known \cup {s}
    /\ UNCHANGED via

\* nano$stmt.statement_ on a connection, with or without a query.
NewStatementOn(s, c) ==
    /\ OnConnection(c)
    /\ Construct("stmt", s, c)
    /\ via' = [via EXCEPT ![s] = c]
    /\ known' = known \cup {s}

\* nano$stmt.statement_ with a query ODBC refuses to prepare: the constructor
\* throws after it retained the object, and the destructor never runs.
LoseStatement(s, c) ==
    /\ "ctor" \in Faults
    /\ OnConnection(c)
    /\ s \in Stmt \ (live \cup leaked)
    /\ Retain("stmt", s)
    /\ lost' = lost \cup {s}
    /\ UNCHANGED <<up, heap, live, owner, via, known, leaked, rel, exp>>

\* nano$stmt.open_, prepare_direct and just_execute_direct.
OpenStatement(s, c) ==
    /\ OnChild("stmt", s) /\ OnConnection(c)
    /\ owner' = [owner EXCEPT ![s] = c]
    /\ via' = [via EXCEPT ![s] = c]
    /\ UNCHANGED <<up, heap, live, slot, size, lost, known, leaked, rel, exp>>

\* nano$stmt.close_, and open_ for which ODBC allocates no handle: the old
\* handle is closed, conn_ stays.
CloseStatement(s) ==
    /\ OnChild("stmt", s)
    /\ via' = [via EXCEPT ![s] = NullPtr]
    /\ UNCHANGED <<up, heap, live, owner, slot, size, lost, known, leaked, rel, exp>>

\* nano$stmt.execute_direct and just_execute_direct of a query ODBC refuses:
\* the handle is already allocated on c, conn_ is set only after success.
FailDirect(s, c) ==
    /\ "direct" \in Faults
    /\ OnChild("stmt", s) /\ OnConnection(c)
    /\ via' = [via EXCEPT ![s] = c]
    /\ UNCHANGED <<up, heap, live, owner, slot, size, lost, known, leaked, rel, exp>>

\* Mutant of ExecuteDirect: the statement keeps the connection it had.
ExecuteDirectKeepsOwner(s, c, r) ==
    /\ OnChild("stmt", s) /\ OnConnection(c)
    /\ r \in Rslt \ (live \cup leaked)
    /\ Retain("rslt", r)
    /\ live' = live \cup {r}
    /\ owner' = [owner EXCEPT ![r] = c]
    /\ via' = [via EXCEPT ![s] = c]
    /\ UNCHANGED <<up, heap, lost, known, leaked, rel, exp>>

\* nano$stmt.execute_direct: open on c, execute, and a new result on conn_.
ExecuteDirect(s, c, r) ==
    /\ OnChild("stmt", s) /\ OnConnection(c)
    /\ r \in Rslt \ (live \cup leaked)
    /\ Retain("rslt", r)
    /\ live' = live \cup {r}
    /\ owner' = [owner EXCEPT ![s] = c, ![r] = c]
    /\ via' = [via EXCEPT ![s] = c]
    /\ UNCHANGED <<up, heap, lost, known, leaked, rel, exp>>

\* nano$stmt.execute_, procedure_columns and nano$func.execute_stmt: a result on
\* whatever conn_ the open statement has.
ExecuteStatement(s, r) ==
    /\ OnChild("stmt", s) /\ via[s] # NullPtr
    /\ Construct("rslt", r, owner[s])
    /\ UNCHANGED <<via, known>>

\* nano$stmt.connection: conn_, a zero pointer that is not NULL when it has none.
AskConnection(s) ==
    /\ OnChild("stmt", s) /\ owner[s] = NullPtr
    /\ known' = known \cup {NullPtr}
    /\ UNCHANGED <<up, heap, live, owner, via, slot, size, lost, leaked, rel, exp>>

\* Mutant of ReleaseChild: the destructor does not release the pointer.
ReleaseChildKeepsPointer(k, x) ==
    /\ OnChild(k, x)
    /\ Destroy(x)
    /\ UNCHANGED <<up, heap, slot, size, lost, known, leaked, rel, exp>>

\* Delete a child that valid() accepts.
ReleaseChild(k, x) ==
    /\ OnChild(k, x)
    /\ Destroy(x)
    /\ \E p \in First(slot[k], size[k], x) :
            slot' = [slot EXCEPT ![k] = Trim(Erase(@, size[k], p), size[k] - 1)]
    /\ size' = [size EXCEPT ![k] = @ - 1]
    /\ UNCHANGED <<up, heap, lost, known, leaked, rel, exp>>

\* nano$tnx.release_, and commit_ and rollback_ once the driver has agreed.
ReleaseTransaction(t) == ReleaseChild("tnx", t)

\* nano$stmt.release_.
ReleaseStatement(s) == ReleaseChild("stmt", s)

\* nano$rslt.release_.
ReleaseResult(r) == ReleaseChild("rslt", r)

\* nano$ctlg.release_.
ReleaseCatalog(g) == ReleaseChild("ctlg", g)

\* Any call on a statement that valid() accepts though its constructor failed.
UseLost(s) ==
    /\ Ready /\ Valid("stmt", s) /\ s \in known \ live
    /\ Corrupt

\* Any call that dereferences the connection valid() accepted: the null element
\* of the registry makes it accept a zero pointer.  To release it
\* deletes a null pointer and changes nothing; to expunge it (nano$conn.expunge) deletes
\* the statements without a connection, and counts here as a call like the others.
UseZero ==
    /\ Ready /\ NullPtr \in known /\ Valid("conn", NullPtr)
    /\ Corrupt

-----------------------------------------------------------------------------
(* Destructors of a connection and of the whole attachment, slot by slot.  *)

ChildrenOf(c) == {x \in live \cap Child : owner[x] = c}

\* The registries a release of c can walk without a fault: each pointer is there
\* once and none dangles, and in each registry the children of c are not
\* neighbours and the last slot is not one of several, or they are exactly the
\* last two slots.
Tame(c) ==
    \A k \in Kind :
        LET mine == {i \in 1 .. size[k] : owner[slot[k][i]] = c} IN
        /\ Retained(k) \subseteq live /\ Cardinality(Retained(k)) = size[k]
        /\ \/ /\ \A i \in mine : i + 1 \notin mine
              /\ size[k] \in mine => mine = {size[k]}
           \/ mine = {size[k] - 1, size[k]}

Frame(o, c) ==
    [op |-> o, conn |-> c, kind |-> "tnx", at |-> 1, end |-> size["tnx"], tame |-> Tame(c)]

\* nano$conn.release_ and nano$conn.expunge.
StartRelease(o, c) ==
    /\ OnConnection(c)
    /\ rel' = Frame(o, c)
    /\ UNCHANGED <<up, heap, live, owner, via, slot, size, lost, known, leaked, exp>>

Walking == heap = "sound" /\ rel.op # "none"

\* The loop reads the connection of an object that is not there any more.
VisitFreed ==
    /\ Walking /\ rel.kind # "done" /\ rel.at <= rel.end
    /\ slot[rel.kind][rel.at] \notin live
    /\ Corrupt

VisitOther ==
    /\ Walking /\ rel.kind # "done" /\ rel.at <= rel.end
    /\ slot[rel.kind][rel.at] \in live
    /\ owner[slot[rel.kind][rel.at]] # rel.conn
    /\ rel' = [rel EXCEPT !.at = @ + 1]
    /\ UNCHANGED <<up, heap, live, owner, via, slot, size, lost, known, leaked, exp>>

\* Mutant of VisitChild: the connection of the object is not compared.
VisitAnyChild ==
    /\ Walking /\ rel.kind # "done" /\ rel.at <= rel.end
    /\ slot[rel.kind][rel.at] \in live
    /\ Destroy(slot[rel.kind][rel.at])
    /\ Unretain(rel.kind, slot[rel.kind][rel.at])
    /\ rel' = [rel EXCEPT !.at = @ + 1]
    /\ UNCHANGED <<up, heap, lost, known, leaked, exp>>

\* The loop deletes a child, whose destructor erases it from the walked vector.
VisitChild ==
    /\ Walking /\ rel.kind # "done" /\ rel.at <= rel.end
    /\ slot[rel.kind][rel.at] \in live
    /\ owner[slot[rel.kind][rel.at]] = rel.conn
    /\ Destroy(slot[rel.kind][rel.at])
    /\ Unretain(rel.kind, slot[rel.kind][rel.at])
    /\ rel' = [rel EXCEPT !.at = @ + 1]
    /\ UNCHANGED <<up, heap, lost, known, leaked, exp>>

\* Mutant of NextRegistry: the walk of the next registry stops one short.
NextRegistryShort ==
    /\ Walking /\ rel.kind # "done" /\ rel.at > rel.end
    /\ slot' = [slot EXCEPT ![rel.kind] = Trim(@, size[rel.kind])]
    /\ rel' = [rel EXCEPT !.kind = After[@], !.at = 1,
                          !.end = IF After[rel.kind] = "done" \/ size[After[rel.kind]] = 0
                                  THEN 0 ELSE size[After[rel.kind]] - 1]
    /\ UNCHANGED <<up, heap, live, owner, via, size, lost, known, leaked, exp>>

\* The loop over one registry has ended: go on with the next one.
NextRegistry ==
    /\ Walking /\ rel.kind # "done" /\ rel.at > rel.end
    /\ slot' = [slot EXCEPT ![rel.kind] = Trim(@, size[rel.kind])]
    /\ rel' = [rel EXCEPT !.kind = After[@], !.at = 1,
                          !.end = IF After[rel.kind] = "done" THEN 0 ELSE size[After[rel.kind]]]
    /\ UNCHANGED <<up, heap, live, owner, via, size, lost, known, leaked, exp>>

\* The end of attachment_connections::expunge.
FinishExpungeConnection ==
    /\ Walking /\ rel.kind = "done" /\ rel.op = "expunge"
    /\ rel' = NoRelease
    /\ UNCHANGED <<up, heap, live, owner, via, slot, size, lost, known, leaked, exp>>

\* The end of attachment_connections::release and of the destructor: the ODBC
\* connection lives on in the statements whose handles were allocated on it.
FinishRelease ==
    /\ Walking /\ rel.kind = "done" /\ rel.op = "release"
    /\ Unretain("conn", rel.conn)
    /\ live' = live \ {rel.conn}
    /\ via' = [x \in Child |-> IF via[x] = rel.conn THEN Orphan ELSE via[x]]
    /\ rel' = NoRelease
    /\ UNCHANGED <<up, heap, owner, lost, known, leaked, exp>>

\* nano$udr.expunge and nano$udr.finalize: delete every retained connection.  Up
\* to two of them, beside the null element, is what the loop can walk.
StartExpunge(o) ==
    /\ Ready
    /\ exp' = [op |-> o, at |-> 1, end |-> size["conn"], tame |-> size["conn"] <= 3]
    /\ UNCHANGED <<up, heap, live, owner, via, slot, size, lost, known, leaked, rel>>

Expunging == heap = "sound" /\ exp.op # "none" /\ rel.op = "none"

VisitNull ==
    /\ Expunging /\ exp.at <= exp.end /\ slot["conn"][exp.at] = NullPtr
    /\ exp' = [exp EXCEPT !.at = @ + 1]
    /\ UNCHANGED <<up, heap, live, owner, via, slot, size, lost, known, leaked, rel>>

VisitConnection ==
    /\ Expunging /\ exp.at <= exp.end /\ slot["conn"][exp.at] \in live
    /\ rel' = Frame("release", slot["conn"][exp.at])
    /\ exp' = [exp EXCEPT !.at = @ + 1, !.tame = @ /\ Tame(slot["conn"][exp.at])]
    /\ UNCHANGED <<up, heap, live, owner, via, slot, size, lost, known, leaked>>

\* The loop deletes a connection a second time.
VisitFreedConnection ==
    /\ Expunging /\ exp.at <= exp.end
    /\ slot["conn"][exp.at] \notin live \cup {NullPtr}
    /\ Corrupt

FinishExpunge ==
    /\ Expunging /\ exp.at > exp.end /\ exp.op = "expunge"
    /\ slot' = [slot EXCEPT !["conn"] = Trim(@, size["conn"])]
    /\ exp' = NoExpunge
    /\ UNCHANGED <<up, heap, live, owner, via, size, lost, known, leaked, rel>>

\* The registries go away with the attachment's resources; what is still alive
\* can never be reached again.
FinishFinalize ==
    /\ Expunging /\ exp.at > exp.end /\ exp.op = "finalize"
    /\ up' = FALSE
    /\ live' = {}
    /\ leaked' = leaked \cup live
    /\ owner' = [x \in Child |-> NullPtr]
    /\ via' = [x \in Child |-> NullPtr]
    /\ slot' = [k \in Class |-> [i \in Slots |-> NullPtr]]
    /\ size' = [k \in Class |-> 0]
    /\ lost' = {}
    /\ exp' = NoExpunge
    /\ UNCHANGED <<heap, known, rel>>

-----------------------------------------------------------------------------

Init ==
    /\ up = FALSE
    /\ heap = "sound"
    /\ live = {}
    /\ owner = [x \in Child |-> NullPtr]
    /\ via = [x \in Child |-> NullPtr]
    /\ slot = [k \in Class |-> [i \in Slots |-> NullPtr]]
    /\ size = [k \in Class |-> 0]
    /\ lost = {}
    /\ known = {}
    /\ leaked = {}
    /\ rel = NoRelease
    /\ exp = NoExpunge

Create ==
    \/ \E c \in Conn : NewConnection(c)
    \/ \E t \in Tnx, c \in Conn : NewTransaction(t, c)
    \/ \E g \in Ctlg, c \in Conn : NewCatalog(g, c)
    \/ \E r \in Rslt, c \in Conn : ExecuteOnConnection(r, c)
    \/ \E s \in Stmt : NewStatement(s)
    \/ \E s \in Stmt, c \in Conn : NewStatementOn(s, c) \/ LoseStatement(s, c)
    \/ \E s \in Stmt, r \in Rslt : ExecuteStatement(s, r)
    \/ \E s \in Stmt, c \in Conn, r \in Rslt : ExecuteDirect(s, c, r)

Use ==
    \/ \E s \in Stmt, c \in Conn : OpenStatement(s, c) \/ FailDirect(s, c)
    \/ \E s \in Stmt : CloseStatement(s) \/ AskConnection(s) \/ UseLost(s)
    \/ UseZero
    \/ \E t \in Tnx : ReleaseTransaction(t)
    \/ \E s \in Stmt : ReleaseStatement(s)
    \/ \E r \in Rslt : ReleaseResult(r)
    \/ \E g \in Ctlg : ReleaseCatalog(g)

Release ==
    \/ \E o \in {"release", "expunge"}, c \in Conn : StartRelease(o, c)
    \/ VisitFreed \/ VisitOther \/ VisitChild \/ NextRegistry
    \/ FinishExpungeConnection \/ FinishRelease

Expunge ==
    \/ \E o \in {"expunge", "finalize"} : StartExpunge(o)
    \/ VisitNull \/ VisitConnection \/ VisitFreedConnection
    \/ FinishExpunge \/ FinishFinalize

Next == Initialize \/ Create \/ Use \/ Release \/ Expunge

Spec == Init /\ [][Next]_vars

-----------------------------------------------------------------------------
(* Properties.                                                              *)

\* Every object that exists is retained in the registry of its class, so that
\* valid() accepts its pointer and a later release can find it; through every
\* erase the loops of a release or an expunge make under their own feet.
LiveAreRetained == \A k \in Class : live \cap Address[k] \subseteq Retained(k)

\* A pointer valid() accepts points to an object, except the null element of the
\* connections and a statement whose constructor failed: no destructor leaves a
\* pointer behind.
DanglingAreLost == \A k \in Class : Retained(k) \ live \subseteq lost \cup {NullPtr}

\* Two slots of a registry hold the same pointer only when a failed constructor
\* left it there before operator new gave the address out again: otherwise one
\* release_ is enough to make a pointer invalid.
TwiceOnlyLost ==
    \A k \in Class : \A i, j \in 1 .. size[k] :
        i # j /\ slot[k][i] = slot[k][j] => slot[k][i] \in lost

\* The loops of a release delete no child of another connection.
CascadeStaysHome ==
    [][rel.op # "none" =>
        \A x \in live \ live' : x = rel.conn \/ (x \in Child /\ owner[x] = rel.conn)]_vars

\* A release runs to its end without touching freed memory and frees every child of
\* the connection in a tame layout (Tame above) and, wherever no constructor has
\* failed, in no other: there it leaves some alive.
TameRelease ==
    [][rel.op # "none" =>
        /\ rel.tame => heap' = "sound" /\ (rel'.op = "none" => ChildrenOf(rel.conn) = {})
        /\ rel'.op = "none" /\ lost = {} /\ ChildrenOf(rel.conn) = {} => rel.tame]_vars

\* The note in test/ORA_CONN_2.SQL says that nano$conn.release_ "will check and free
\* all resources a connection".  It does not hold of the layouts that are not tame.
ReleaseFreesAll ==
    [][rel.op = "release" /\ rel'.op = "none" => ChildrenOf(rel.conn) = {}]_vars

\* With at most two connections, each released over a tame layout, expunge and
\* finalize run without touching freed memory and free every connection.
TameExpunge ==
    [][exp.op # "none" /\ exp.tame =>
        /\ heap' = "sound"
        /\ exp'.op = "none" => live \cap Conn = {}]_vars

\* No statement keeps the ODBC connection of a released connection open.
NoOrphanHandle == \A s \in live \cap Stmt : via[s] # Orphan

\* While a release or an expunge runs its contract counts as fulfilled: what it
\* has to free is gone.
Doomed ==
    IF exp.op # "none"
    THEN (live \cap Conn) \cup {x \in live \cap Child : owner[x] \in Conn}
    ELSE IF rel.op = "none" THEN {}
    ELSE ChildrenOf(rel.conn) \cup (IF rel.op = "release" THEN {rel.conn} ELSE {})

Contract == INSTANCE ResourceContract WITH
    Connections <- Conn, Children <- Child, Nobody <- NullPtr,
    open <- up, alive <- live \ Doomed,
    owner <- [x \in Child |-> IF x \in live \ Doomed THEN owner[x] ELSE NullPtr]

\* With one object of each child class the registries and their loops keep the
\* promise of ResourceContract: a release takes the connection and everything
\* that belongs to it, and nothing else.
KeepsContract == Contract!Spec

=============================================================================
