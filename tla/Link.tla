-------------------------------- MODULE Link --------------------------------
(***************************************************************************)
(* The ODBC handles behind connections and statements: conn$allocate,      *)
(* deallocate, connect, disconnect and isolation_level (conn.cpp), and     *)
(* stmt$open, close, prepare, scrollable, timeout, cancel, execute and     *)
(* release (stmt.cpp), with the attributes of ext.cpp.                     *)
(*                                                                         *)
(* connect_ always throws the connection handle away and allocates a new   *)
(* one; disconnect_ frees the statement handles of the link in the driver. *)
(* Neither tells the objects: a connection goes on remembering the         *)
(* isolation level it set on an earlier handle, a statement the handle it  *)
(* was opened with, which the driver manager may give to the next          *)
(* statement.  A handle that is no longer allocated is refused by the      *)
(* driver manager as SQL_INVALID_HANDLE.                                   *)
(***************************************************************************)
EXTENDS Naturals, FiniteSets

CONSTANTS
    Conns,    \* connection objects
    Stmts,    \* statement objects
    Handles,  \* the addresses of statement handles
    NoHandle, \* SQL_NULL_HSTMT
    NoConn,   \* a statement that was never opened
    Levels,   \* isolation levels a caller asks for
    Default,  \* TXN_DEFAULT, and the level of the data source on a new handle
    MaxDbc    \* bound: connection handles one connection allocates

Usages == {"yes", "no"}   \* STMT_SCROLLABLE, STMT_NONSCROLLABLE
Dead   == [stmt |-> NoHandle, conn |-> NoConn, scroll |-> "default"]

ASSUME ConstantsAssumption ==
    /\ MaxDbc \in Nat \ {0}
    /\ Default \notin Levels
    /\ NoHandle \notin Handles \cup Stmts
    /\ NoConn \notin Conns

VARIABLES
    up,        \* the server process runs
    dbc,       \* dbc_ of each connection: its state, the level in force, its number
    isolation, \* isolation_ of each connection
    setOn,     \* history: the number of the handle the level was last set on
    stmt,      \* open_, stmt_, conn_ and scrollable_ of each statement, and the
               \* number of the connection handle it was opened on
    driver,    \* the statement handles allocated in the driver manager
    hit        \* history: statements whose handle another one has used or freed

vars == <<up, dbc, isolation, setOn, stmt, driver, hit>>

Closed == [open |-> FALSE, at |-> NoHandle, on |-> NoConn, nr |-> 0, scroll |-> "default"]

TypeOK ==
    /\ up \in BOOLEAN
    /\ dbc \in [Conns -> [state : {"none", "free", "linked"}, level : Levels \cup {Default},
                          nr : 0 .. MaxDbc]]
    /\ isolation \in [Conns -> Levels \cup {Default}]
    /\ setOn \in [Conns -> 0 .. MaxDbc]
    /\ stmt \in [Stmts -> [open : BOOLEAN, at : Handles \cup {NoHandle}, on : Conns \cup {NoConn},
                           nr : 0 .. MaxDbc, scroll : Usages \cup {"default"}]]
    /\ driver \in [Handles -> {Dead} \cup
                    [stmt : Stmts, conn : Conns, scroll : Usages \cup {"default"}]]
    /\ hit \subseteq Stmts

-----------------------------------------------------------------------------
(* Connections.                                                            *)

Linked(c) == dbc[c].state = "linked"

NewDbc(c, state) == [state |-> state, level |-> Default, nr |-> dbc[c].nr + 1]

\* SQLDisconnect frees the statement handles allocated on the link.
WithoutLink(c) == [h \in Handles |-> IF driver[h].conn = c THEN Dead ELSE driver[h]]

\* conn$allocate: the handles are allocated once.
Allocate(c) ==
    /\ dbc[c].state = "none" /\ dbc[c].nr < MaxDbc
    /\ dbc' = [dbc EXCEPT ![c] = NewDbc(c, "free")]
    /\ UNCHANGED <<up, isolation, setOn, stmt, driver, hit>>

\* conn$deallocate; SQLFreeHandle refuses a handle that is linked.
Deallocate(c) ==
    /\ dbc[c].state = "free"
    /\ dbc' = [dbc EXCEPT ![c].state = "none"]
    /\ UNCHANGED <<up, isolation, setOn, stmt, driver, hit>>

\* conn$connect: disconnect, free the handle, allocate another, link it; the
\* link may be refused, isolation_ is not told.
Connect(c, linked) ==
    /\ dbc[c].nr < MaxDbc
    /\ dbc' = [dbc EXCEPT ![c] = NewDbc(c, IF linked THEN "linked" ELSE "free")]
    /\ driver' = IF Linked(c) THEN WithoutLink(c) ELSE driver
    /\ UNCHANGED <<up, isolation, setOn, stmt, hit>>

\* conn$disconnect.  SQLDisconnect refuses, here and in connect_, while a
\* transaction is open; nothing changes then.
Disconnect(c) ==
    /\ Linked(c)
    /\ dbc' = [dbc EXCEPT ![c].state = "free"]
    /\ driver' = WithoutLink(c)
    /\ UNCHANGED <<up, isolation, setOn, stmt, hit>>

\* connection::isolation_level skips the driver when the level is remembered.
LevelSkipped(c, l) == isolation[c] = l

\* Mutant of SetLevel: what is remembered is what was asked for, refused or not.
SetLevelRemembersFirst(c, l) ==
    /\ ~LevelSkipped(c, l)
    /\ isolation' = [isolation EXCEPT ![c] = l]
    /\ \/ /\ dbc[c].state # "none"
          /\ dbc' = [dbc EXCEPT ![c].level = l]
          /\ setOn' = [setOn EXCEPT ![c] = dbc[c].nr]
       \/ UNCHANGED <<dbc, setOn>>
    /\ UNCHANGED <<up, stmt, driver, hit>>

\* conn$isolation_level: without a handle a level is refused, with one the driver
\* may refuse it; a refusal changes nothing, and the answer is isolation_.
SetLevel(c, l) ==
    /\ ~LevelSkipped(c, l)
    /\ dbc[c].state # "none"
    /\ dbc' = [dbc EXCEPT ![c].level = l]
    /\ isolation' = [isolation EXCEPT ![c] = l]
    /\ setOn' = [setOn EXCEPT ![c] = dbc[c].nr]
    /\ UNCHANGED <<up, stmt, driver, hit>>

-----------------------------------------------------------------------------
(* Statements.                                                             *)

\* What the driver manager finds at the handle of a statement.
Reaches(s) == stmt[s].at # NoHandle /\ driver[stmt[s].at] # Dead
Own(s)     == Reaches(s) /\ driver[stmt[s].at].stmt = s

\* nanodbc asks the connection, not the handle, before it touches the handle.
MustFree(s) == stmt[s].open /\ Linked(stmt[s].on)

Freed(s) == IF MustFree(s) /\ Reaches(s) THEN [driver EXCEPT ![stmt[s].at] = Dead] ELSE driver

\* The other statement whose handle a call of s gets hold of.
Victim(s) == IF Reaches(s) /\ ~Own(s) THEN {driver[stmt[s].at].stmt} ELSE {}
Hit(s)    == (IF MustFree(s) THEN hit \cup Victim(s) ELSE hit) \ {s}

\* The close of a statement the driver no longer knows: SQLCancel fails and the
\* statement stays open, its scrollable_ already reset.
FailClose(s) ==
    /\ MustFree(s) /\ ~Reaches(s)
    /\ stmt' = [stmt EXCEPT ![s].scroll = "default"]
    /\ UNCHANGED <<up, dbc, isolation, setOn, driver, hit>>

\* Mutant of CloseStatement: the handle is not freed.
CloseForgets(s) ==
    /\ MustFree(s) => Reaches(s)
    /\ stmt' = [stmt EXCEPT ![s] = Closed]
    /\ UNCHANGED <<up, dbc, isolation, setOn, driver, hit>>

\* Mutant of CloseStatement: the handle is freed and stmt_ and open_ stay.
CloseKeepsOpen(s) ==
    /\ MustFree(s) => Reaches(s)
    /\ driver' = Freed(s) /\ hit' = Hit(s)
    /\ UNCHANGED <<up, dbc, isolation, setOn, stmt>>

\* stmt$close.
CloseStatement(s) ==
    /\ MustFree(s) => Reaches(s)
    /\ driver' = Freed(s) /\ hit' = Hit(s)
    /\ stmt' = [stmt EXCEPT ![s] = Closed]
    /\ UNCHANGED <<up, dbc, isolation, setOn>>

\* Mutant of OpenStatement: scrollable_ outlives the handle it was set on.
OpenRemembersScroll(s, c, h, usage) ==
    /\ MustFree(s) => Reaches(s)
    /\ Freed(s)[h] = Dead /\ Linked(c)
    /\ driver' = [Freed(s) EXCEPT ![h] = [stmt |-> s, conn |-> c, scroll |-> usage]]
    /\ hit' = Hit(s)
    /\ stmt' = [stmt EXCEPT ![s] = [open |-> TRUE, at |-> h, on |-> c, nr |-> dbc[c].nr,
                                    scroll |-> stmt[s].scroll]]
    /\ UNCHANGED <<up, dbc, isolation, setOn>>

\* stmt$open, and the opening of prepare_direct, execute_direct and
\* just_execute_direct: close, then a handle on the connection, which needs a
\* link and may be refused, then the scrolling asked for.
OpenStatement(s, c, h, usage) ==
    /\ MustFree(s) => Reaches(s)
    /\ Freed(s)[h] = Dead /\ Linked(c)
    /\ driver' = [Freed(s) EXCEPT ![h] = [stmt |-> s, conn |-> c, scroll |-> usage]]
    /\ hit' = Hit(s)
    /\ stmt' = [stmt EXCEPT ![s] = [open |-> TRUE, at |-> h, on |-> c, nr |-> dbc[c].nr,
                                    scroll |-> usage]]
    /\ UNCHANGED <<up, dbc, isolation, setOn>>

FailOpen(s) ==
    /\ MustFree(s) => Reaches(s)
    /\ driver' = Freed(s) /\ hit' = Hit(s)
    /\ stmt' = [stmt EXCEPT ![s] = Closed]
    /\ UNCHANGED <<up, dbc, isolation, setOn>>

\* statement::scrollable skips the driver when the usage is remembered.
ScrollSkipped(s, usage) == stmt[s].scroll = usage

\* stmt$scrollable and the scrolling of prepare: a refusal changes nothing.
SetScroll(s, usage) ==
    /\ ~ScrollSkipped(s, usage)
    /\ Reaches(s)
    /\ driver' = [driver EXCEPT ![stmt[s].at].scroll = usage]
    /\ stmt' = [stmt EXCEPT ![s].scroll = usage]
    /\ hit' = hit \cup Victim(s)
    /\ UNCHANGED <<up, dbc, isolation, setOn>>

\* prepare, execute, just_execute, cancel and timeout of a statement: the driver
\* gets the handle, whosever it is.
Use(s) ==
    /\ stmt[s].open
    /\ hit' = hit \cup Victim(s)
    /\ UNCHANGED <<up, dbc, isolation, setOn, stmt, driver>>

\* Mutant of ReleaseStatement: the destructor frees a handle it has freed already.
ReleaseFreesTwice(s) ==
    /\ up' = ~MustFree(s)
    /\ driver' = Freed(s) /\ hit' = Hit(s)
    /\ stmt' = [stmt EXCEPT ![s] = Closed]
    /\ UNCHANGED <<dbc, isolation, setOn>>

\* stmt$release, the object then made anew: the destructor of nanodbc is noexcept
\* and throws when the driver manager refuses the handle, which ends the process.
ReleaseStatement(s) ==
    /\ up' = (MustFree(s) => Reaches(s))
    /\ driver' = Freed(s) /\ hit' = Hit(s)
    /\ stmt' = [stmt EXCEPT ![s] = Closed]
    /\ UNCHANGED <<dbc, isolation, setOn>>

-----------------------------------------------------------------------------
\* The constructors of conn.cpp leave isolation_ as operator new found it, a level
\* or a value that no request equals, Default; a connection is made with its link or
\* without a handle.
Init ==
    /\ up = TRUE
    /\ dbc \in [Conns -> {[state |-> "none", level |-> Default, nr |-> 0],
                          [state |-> "linked", level |-> Default, nr |-> 1]}]
    /\ isolation \in [Conns -> Levels \cup {Default}]
    /\ setOn = [c \in Conns |-> 0]
    /\ stmt = [s \in Stmts |-> Closed]
    /\ driver = [h \in Handles |-> Dead]
    /\ hit = {}

OfConnection(c) ==
    \/ Allocate(c)
    \/ Deallocate(c)
    \/ \E linked \in BOOLEAN : Connect(c, linked)
    \/ Disconnect(c)
    \/ \E l \in Levels : SetLevel(c, l)

OfStatement(s) ==
    \/ FailClose(s)
    \/ CloseStatement(s)
    \/ \E c \in Conns, h \in Handles, u \in Usages \cup {"default"} : OpenStatement(s, c, h, u)
    \/ FailOpen(s)
    \/ \E u \in Usages : SetScroll(s, u)
    \/ Use(s)
    \/ ReleaseStatement(s)

Next == up /\ ((\E c \in Conns : OfConnection(c)) \/ (\E s \in Stmts : OfStatement(s)))

Spec == Init /\ [][Next]_vars

-----------------------------------------------------------------------------
(* Properties.                                                             *)

\* The link a statement was opened on is gone, replaced or not.
Outlived(s) == stmt[s].open /\ (~Linked(stmt[s].on) \/ dbc[stmt[s].on].nr # stmt[s].nr)

\* conn$isolation_level and stmt$scrollable answer from memory and skip the driver for
\* what they remember.  What is remembered is what is in force on a handle it was set
\* on, whatever refusals, closes and opens came between: only a level of an earlier
\* connection handle, which connect_ threw away, or one nobody set is false, and only a
\* statement that outlived its link changes the scrolling of another.
RememberedIsForced ==
    /\ \A c \in Conns :
          setOn[c] = dbc[c].nr /\ dbc[c].state # "none" => isolation[c] = dbc[c].level
    /\ \A s \in Stmts :
          Own(s) /\ s \notin hit => driver[stmt[s].at].scroll = stmt[s].scroll

\* An open statement has its own handle in the driver, so that what it executes,
\* cancels or closes is its own, unless its connection was disconnected or linked
\* again since it was opened or another statement has got hold of its handle.
OnlyOutlivedLoseHandle ==
    \A s \in Stmts : stmt[s].open /\ ~Outlived(s) /\ s \notin hit => Own(s)

\* Every statement handle in the driver is one some statement will free: no open,
\* close, disconnect or reuse of an address strands one.
NoStrayHandle ==
    \A h \in Handles : driver[h] # Dead => \E s \in Stmts : stmt[s].open /\ stmt[s].at = h

\* A statement loses its handle to another only when that one outlived its link or
\* had lost its own, and stmt$release ends the server process only for such a
\* statement: the damage starts with a connection that was disconnected or linked
\* again while statements were open on it.
OnlyOutlivedHarm ==
    [][/\ \A t \in hit' \ hit : \E s \in Stmts \ {t} :
             stmt[s].at = stmt[t].at /\ (Outlived(s) \/ s \in hit)
       /\ ~up' => \E s \in Stmts :
             stmt[s].open /\ ~stmt'[s].open /\ (Outlived(s) \/ s \in hit)]_vars
=============================================================================
