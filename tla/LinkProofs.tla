----------------------------- MODULE LinkProofs -----------------------------
(***************************************************************************)
(* Proofs about Link, for any connections, statements, handles and levels: *)
(* what the objects remember is true of the handles they set it on, and    *)
(* the handles in the driver belong to statements that will free them.     *)
(***************************************************************************)
EXTENDS Link, TLAPS

\* A statement that is not open is as a new one; an open one has a handle, of a
\* connection handle that is not newer than the connection's.
OpenHasHandle ==
    \A s \in Stmts :
        IF stmt[s].open
        THEN /\ stmt[s].at \in Handles /\ stmt[s].on \in Conns
             /\ stmt[s].nr <= dbc[stmt[s].on].nr
        ELSE stmt[s] = Closed

\* A statement handle in the driver is that of an open statement, on a connection
\* that is still linked by the handle it was opened on.
HandleIsOwned ==
    \A h \in Handles : driver[h] # Dead =>
        LET s == driver[h].stmt c == driver[h].conn
        IN  /\ s \in Stmts /\ stmt[s].open /\ stmt[s].at = h
            /\ c \in Conns /\ stmt[s].on = c
            /\ Linked(c) /\ stmt[s].nr = dbc[c].nr

\* The level was not set on a handle still to come.
SetOnIsPast == \A c \in Conns : setOn[c] <= dbc[c].nr

\* The inductive invariant.
IInv ==
    TypeOK /\ OpenHasHandle /\ HandleIsOwned /\ SetOnIsPast
        /\ RememberedIsForced /\ OnlyOutlivedLoseHandle

-----------------------------------------------------------------------------
(* Facts about one state.                                                   *)

LEMMA Constants ==
    /\ MaxDbc \in Nat /\ MaxDbc > 0 /\ Default \notin Levels
    /\ NoHandle \notin Handles /\ NoHandle \notin Stmts /\ NoConn \notin Conns
    /\ \A r \in [stmt : Stmts, conn : Conns, scroll : Usages \cup {"default"}] : r # Dead
BY ConstantsAssumption DEF Dead

\* A statement that reaches a handle is open, and the handle is one in the driver.
LEMMA ReachesIsOpen ==
    ASSUME IInv, NEW s \in Stmts, Reaches(s)
    PROVE  stmt[s].open /\ stmt[s].at \in Handles
BY DEF IInv, OpenHasHandle, Reaches, Closed

\* The handle a statement gets hold of without owning it is that of another one at
\* the same address.
LEMMA VictimSharesHandle ==
    ASSUME IInv, NEW s \in Stmts, NEW t \in Victim(s)
    PROVE  /\ t \in Stmts \ {s} /\ stmt[s].open /\ stmt[t].open
           /\ stmt[t].at = stmt[s].at /\ ~Own(s) /\ Own(t)
<1>1. Reaches(s) /\ ~Own(s) /\ t = driver[stmt[s].at].stmt BY DEF Victim
<1>2. stmt[s].open /\ stmt[s].at \in Handles /\ driver[stmt[s].at] # Dead
  BY <1>1, ReachesIsOpen DEF Reaches
<1>3. t \in Stmts /\ stmt[t].open /\ stmt[t].at = stmt[s].at
  BY <1>1, <1>2 DEF IInv, HandleIsOwned
<1>4. QED BY <1>1, <1>2, <1>3 DEF Own, Reaches

\* What is left in the driver when a statement has closed, and whom that hits.
LEMMA FreedLeavesOthers ==
    ASSUME IInv, NEW s \in Stmts
    PROVE  /\ Freed(s) \in [Handles -> {Dead} \cup
                              [stmt : Stmts, conn : Conns, scroll : Usages \cup {"default"}]]
           /\ \A h \in Handles : Freed(s)[h] # Dead =>
                 Freed(s)[h] = driver[h] /\ driver[h].stmt # s
           /\ \A t \in Stmts \ {s} : Own(t) /\ t \notin Hit(s) =>
                 Freed(s)[stmt[t].at] = driver[stmt[t].at]
<1>1. driver \in [Handles -> {Dead} \cup
                    [stmt : Stmts, conn : Conns, scroll : Usages \cup {"default"}]]
  BY DEF IInv, TypeOK
<1>2. \A h \in Handles : driver[h] # Dead /\ driver[h].stmt = s =>
         MustFree(s) /\ Reaches(s) /\ stmt[s].at = h
  BY Constants DEF IInv, HandleIsOwned, MustFree, Reaches
<1>3. CASE MustFree(s) /\ Reaches(s)
  <2>1. stmt[s].at \in Handles /\ driver[stmt[s].at] # Dead
    BY <1>3, ReachesIsOpen DEF Reaches
  <2>2. Freed(s) = [driver EXCEPT ![stmt[s].at] = Dead] BY <1>3 DEF Freed
  <2>3. \A h \in Handles : Freed(s)[h] = IF h = stmt[s].at THEN Dead ELSE driver[h]
    BY <1>1, <2>1, <2>2
  <2>4. ASSUME NEW t \in Stmts \ {s}, Own(t), t \notin Hit(s)
        PROVE  stmt[t].at # stmt[s].at
    <3>1. ASSUME stmt[t].at = stmt[s].at PROVE FALSE
      <4>1. driver[stmt[s].at].stmt = t BY <2>4, <3>1 DEF Own
      <4>2. t \in Victim(s) BY <1>3, <4>1 DEF Victim, Own
      <4>3. QED BY <1>3, <2>4, <4>2 DEF Hit
    <3>2. QED BY <3>1
  <2>5. ASSUME NEW t \in Stmts \ {s}, Own(t), t \notin Hit(s)
        PROVE  Freed(s)[stmt[t].at] = driver[stmt[t].at]
    <3>1. stmt[t].at \in Handles BY <2>5, ReachesIsOpen DEF Own
    <3>2. QED BY <2>3, <2>4, <2>5, <3>1
  <2>6. \A h \in Handles : Freed(s)[h] # Dead =>
          Freed(s)[h] = driver[h] /\ driver[h].stmt # s
    BY <1>2, <2>3
  <2>7. Freed(s) \in [Handles -> {Dead} \cup
                        [stmt : Stmts, conn : Conns, scroll : Usages \cup {"default"}]]
    BY <1>1, <2>2
  <2>8. QED BY <2>5, <2>6, <2>7
<1>4. CASE ~(MustFree(s) /\ Reaches(s))
  <2>1. Freed(s) = driver BY <1>4 DEF Freed
  <2>2. QED BY <1>1, <1>2, <1>4, <2>1
<1>5. QED BY <1>3, <1>4

\* Whom a closing statement hits, itself never.
LEMMA HitGrows ==
    ASSUME IInv, NEW s \in Stmts
    PROVE  /\ Hit(s) \subseteq Stmts /\ s \notin Hit(s)
           /\ \A t \in Stmts \ {s} : t \in hit => t \in Hit(s)
BY VictimSharesHandle DEF Hit, IInv, TypeOK

-----------------------------------------------------------------------------
(* Steps of a statement.                                                    *)

\* A statement is closed, for good, to be opened again, or with its object.
LEMMA CloseKeepsIInv ==
    ASSUME IInv, NEW s \in Stmts,
           driver' = Freed(s), hit' = Hit(s), stmt' = [stmt EXCEPT ![s] = Closed],
           up' \in BOOLEAN, UNCHANGED <<dbc, isolation, setOn>>
    PROVE  IInv'
<1>1. /\ \A h \in Handles : driver'[h] # Dead =>
            driver'[h] = driver[h] /\ driver[h].stmt # s
      /\ \A t \in Stmts \ {s} : Own(t) /\ t \notin hit' =>
            driver'[stmt[t].at] = driver[stmt[t].at]
  BY FreedLeavesOthers
<1>2. \A t \in Stmts : stmt'[t] = IF t = s THEN Closed ELSE stmt[t]
  BY DEF IInv, TypeOK
<1>3. TypeOK'
  <2>1. Closed \in [open : BOOLEAN, at : Handles \cup {NoHandle}, on : Conns \cup {NoConn},
                    nr : 0 .. MaxDbc, scroll : Usages \cup {"default"}]
    BY Constants DEF Closed
  <2>2. QED BY <2>1, FreedLeavesOthers, HitGrows DEF IInv, TypeOK
<1>4. OpenHasHandle'
  <2>1. ~Closed.open BY DEF Closed
  <2>2. QED BY <1>2, <2>1 DEF IInv, OpenHasHandle
<1>5. HandleIsOwned'
  <2>1. ASSUME NEW h \in Handles, driver'[h] # Dead
        PROVE  /\ driver'[h] = driver[h] /\ driver[h] # Dead
               /\ driver[h].stmt \in Stmts \ {s}
    BY <1>1, <2>1 DEF IInv, HandleIsOwned
  <2>2. QED BY <1>2, <2>1 DEF IInv, HandleIsOwned, Linked
<1>6. SetOnIsPast' BY DEF IInv, SetOnIsPast
<1>7. \A t \in Stmts \ {s} : t \notin hit' => t \notin hit BY HitGrows
<1>8. ASSUME NEW t \in Stmts, Own(t)' PROVE t # s /\ Own(t) /\ driver'[stmt[t].at] = driver[stmt[t].at]
  <2>1. t # s BY <1>2, <1>8 DEF Own, Reaches, Closed
  <2>2. stmt'[t] = stmt[t] BY <1>2, <2>1
  <2>3. stmt[t].at \in Handles
    BY <1>8, <2>2, Constants DEF Own, Reaches, IInv, TypeOK
  <2>4. driver'[stmt[t].at] # Dead /\ driver'[stmt[t].at].stmt = t
    BY <1>8, <2>2 DEF Own, Reaches
  <2>5. driver'[stmt[t].at] = driver[stmt[t].at] BY <1>1, <2>3, <2>4
  <2>6. QED BY <2>1, <2>3, <2>4, <2>5, Constants DEF Own, Reaches
<1>9. RememberedIsForced'
  <2>1. ASSUME NEW t \in Stmts, Own(t)', t \notin hit'
        PROVE  driver'[stmt'[t].at].scroll = stmt'[t].scroll
    BY <1>2, <1>7, <1>8, <2>1 DEF IInv, RememberedIsForced
  <2>2. QED BY <2>1 DEF IInv, RememberedIsForced
<1>10. OnlyOutlivedLoseHandle'
  <2>1. ASSUME NEW t \in Stmts, stmt'[t].open, ~Outlived(t)', t \notin hit'
        PROVE  Own(t)'
    <3>1. t # s /\ stmt'[t] = stmt[t] BY <1>2, <2>1 DEF Closed
    <3>2. ~Outlived(t) /\ t \notin hit
      BY <1>7, <2>1, <3>1 DEF Outlived, Linked
    <3>3. Own(t) BY <2>1, <3>1, <3>2 DEF IInv, OnlyOutlivedLoseHandle
    <3>4. driver'[stmt[t].at] = driver[stmt[t].at] BY <1>1, <2>1, <3>1, <3>3
    <3>5. QED BY <3>1, <3>3, <3>4 DEF Own, Reaches
  <2>2. QED BY <2>1 DEF OnlyOutlivedLoseHandle
<1>11. QED BY <1>3, <1>4, <1>5, <1>6, <1>9, <1>10 DEF IInv

\* A statement is closed and opened at a handle nobody has.
LEMMA OpenKeepsIInv ==
    ASSUME IInv, NEW s \in Stmts, NEW c \in Conns, NEW h \in Handles,
           NEW u \in Usages \cup {"default"}, OpenStatement(s, c, h, u)
    PROVE  IInv'
<1> DEFINE opened == [stmt |-> s, conn |-> c, scroll |-> u]
           new == [open |-> TRUE, at |-> h, on |-> c, nr |-> dbc[c].nr, scroll |-> u]
<1>1. /\ Freed(s)[h] = Dead /\ Linked(c)
      /\ driver' = [Freed(s) EXCEPT ![h] = opened]
      /\ hit' = Hit(s) /\ stmt' = [stmt EXCEPT ![s] = new]
      /\ UNCHANGED <<up, dbc, isolation, setOn>>
  BY DEF OpenStatement
<1>2. Freed(s) \in [Handles -> {Dead} \cup
                      [stmt : Stmts, conn : Conns, scroll : Usages \cup {"default"}]]
  BY FreedLeavesOthers
<1>3. \A g \in Handles : driver'[g] = IF g = h THEN opened ELSE Freed(s)[g]
  BY <1>1, <1>2
<1>4. \A t \in Stmts : stmt'[t] = IF t = s THEN new ELSE stmt[t]
  BY <1>1 DEF IInv, TypeOK
<1>5. opened # Dead BY Constants
<1>6. dbc[c].nr \in 0 .. MaxDbc BY DEF IInv, TypeOK
<1> HIDE DEF opened, new
<1>7. /\ opened.stmt = s /\ opened.conn = c /\ opened.scroll = u
      /\ new.open /\ new.at = h /\ new.on = c /\ new.nr = dbc[c].nr /\ new.scroll = u
  BY DEF opened, new
<1>8. TypeOK'
  <2>1. opened \in [stmt : Stmts, conn : Conns, scroll : Usages \cup {"default"}]
    BY DEF opened
  <2>2. new \in [open : BOOLEAN, at : Handles \cup {NoHandle}, on : Conns \cup {NoConn},
                 nr : 0 .. MaxDbc, scroll : Usages \cup {"default"}]
    BY <1>6 DEF new
  <2>3. QED BY <1>1, <1>2, <2>1, <2>2, HitGrows DEF IInv, TypeOK
<1>9. OpenHasHandle'
  BY <1>1, <1>4, <1>6, <1>7, Constants DEF IInv, OpenHasHandle
<1>10. HandleIsOwned'
  <2>1. ASSUME NEW g \in Handles, driver'[g] # Dead, g # h
        PROVE  /\ driver'[g] = driver[g] /\ driver[g] # Dead
               /\ driver[g].stmt \in Stmts \ {s}
    <3>1. Freed(s)[g] # Dead /\ driver'[g] = Freed(s)[g] BY <1>3, <2>1
    <3>2. QED BY <3>1, FreedLeavesOthers DEF IInv, HandleIsOwned
  <2>2. ASSUME NEW g \in Handles, driver'[g] # Dead
        PROVE  /\ driver'[g].stmt \in Stmts /\ stmt'[driver'[g].stmt].open
               /\ stmt'[driver'[g].stmt].at = g
               /\ driver'[g].conn \in Conns /\ stmt'[driver'[g].stmt].on = driver'[g].conn
               /\ dbc[driver'[g].conn].state = "linked"
               /\ stmt'[driver'[g].stmt].nr = dbc[driver'[g].conn].nr
    <3>1. CASE g = h BY <1>1, <1>3, <1>4, <1>7, <3>1 DEF Linked
    <3>2. CASE g # h BY <1>4, <2>1, <2>2, <3>2 DEF IInv, HandleIsOwned, Linked
    <3>3. QED BY <3>1, <3>2
  <2>3. QED BY <1>1, <2>2 DEF HandleIsOwned, Linked
<1>11. SetOnIsPast' BY <1>1 DEF IInv, SetOnIsPast
<1>12. \A t \in Stmts \ {s} : t \notin hit' => t \notin hit BY <1>1, HitGrows
<1>13. RememberedIsForced'
  <2>1. ASSUME NEW t \in Stmts, Own(t)', t \notin hit'
        PROVE  driver'[stmt'[t].at].scroll = stmt'[t].scroll
    <3>1. CASE t = s BY <1>3, <1>4, <1>7, <3>1
    <3>2. CASE t # s
      <4>1. stmt'[t] = stmt[t] BY <1>4, <3>2
      <4>2. stmt[t].at \in Handles
        BY <2>1, <4>1, Constants DEF Own, Reaches, IInv, TypeOK
      <4>3. driver'[stmt[t].at] # Dead /\ driver'[stmt[t].at].stmt = t
        BY <2>1, <4>1 DEF Own, Reaches
      <4>4. stmt[t].at # h BY <1>3, <1>7, <3>2, <4>3
      <4>5. driver'[stmt[t].at] = driver[stmt[t].at]
        BY <1>3, <4>2, <4>3, <4>4, FreedLeavesOthers
      <4>6. Own(t) BY <4>2, <4>3, <4>5, Constants DEF Own, Reaches
      <4>7. QED BY <1>12, <2>1, <3>2, <4>1, <4>5, <4>6 DEF IInv, RememberedIsForced
    <3>3. QED BY <3>1, <3>2
  <2>2. QED BY <1>1, <2>1 DEF IInv, RememberedIsForced
<1>14. OnlyOutlivedLoseHandle'
  <2>1. ASSUME NEW t \in Stmts, stmt'[t].open, ~Outlived(t)', t \notin hit'
        PROVE  Own(t)'
    <3>1. CASE t = s
      BY <1>3, <1>4, <1>5, <1>7, <3>1, Constants DEF Own, Reaches
    <3>2. CASE t # s
      <4>1. stmt'[t] = stmt[t] BY <1>4, <3>2
      <4>2. ~Outlived(t) /\ t \notin hit
        BY <1>1, <1>12, <2>1, <3>2, <4>1 DEF Outlived, Linked
      <4>3. Own(t) BY <2>1, <4>1, <4>2 DEF IInv, OnlyOutlivedLoseHandle
      <4>4. Freed(s)[stmt[t].at] = driver[stmt[t].at] /\ stmt[t].at \in Handles
        BY <1>1, <2>1, <3>2, <4>3, FreedLeavesOthers, ReachesIsOpen DEF Own
      <4>5. stmt[t].at # h BY <1>1, <4>3, <4>4 DEF Own, Reaches
      <4>6. driver'[stmt[t].at] = driver[stmt[t].at] BY <1>3, <4>4, <4>5
      <4>7. QED BY <4>1, <4>3, <4>6 DEF Own, Reaches
    <3>3. QED BY <3>1, <3>2
  <2>2. QED BY <2>1 DEF OnlyOutlivedLoseHandle
<1>15. QED BY <1>8, <1>9, <1>10, <1>11, <1>13, <1>14 DEF IInv

\* A statement sets the scrolling of whatever handle it reaches.
LEMMA SetScrollKeepsIInv ==
    ASSUME IInv, NEW s \in Stmts, NEW u \in Usages, SetScroll(s, u)
    PROVE  IInv'
<1> DEFINE a == stmt[s].at
<1>1. /\ Reaches(s) /\ driver' = [driver EXCEPT ![a].scroll = u]
      /\ stmt' = [stmt EXCEPT ![s].scroll = u] /\ hit' = hit \cup Victim(s)
      /\ UNCHANGED <<up, dbc, isolation, setOn>>
  BY DEF SetScroll
<1>2. stmt[s].open /\ a \in Handles /\ driver[a] # Dead
  BY <1>1, ReachesIsOpen DEF Reaches
<1> DEFINE Opened == [stmt : Stmts, conn : Conns, scroll : Usages \cup {"default"}]
           Statement == [open : BOOLEAN, at : Handles \cup {NoHandle}, on : Conns \cup {NoConn},
                         nr : 0 .. MaxDbc, scroll : Usages \cup {"default"}]
<1>3. driver \in [Handles -> {Dead} \cup Opened] /\ stmt \in [Stmts -> Statement]
  BY DEF IInv, TypeOK
<1>4. /\ driver[a] \in Opened /\ driver'[a] \in Opened
      /\ driver'[a].stmt = driver[a].stmt /\ driver'[a].conn = driver[a].conn
      /\ driver'[a].scroll = u
      /\ \A g \in Handles : g # a => driver'[g] = driver[g]
  BY <1>1, <1>2, <1>3
<1>5. /\ stmt'[s] \in Statement /\ stmt'[s].scroll = u
      /\ \A t \in Stmts : /\ stmt'[t].open = stmt[t].open /\ stmt'[t].at = stmt[t].at
                          /\ stmt'[t].on = stmt[t].on /\ stmt'[t].nr = stmt[t].nr
      /\ \A t \in Stmts : t # s => stmt'[t] = stmt[t]
  BY <1>1, <1>3
<1>6. driver'[a] # Dead BY <1>4, Constants
<1>7. TypeOK'
  <2>1. Victim(s) \subseteq Stmts BY VictimSharesHandle
  <2>2. driver' \in [Handles -> {Dead} \cup Opened]
    <3>1. driver' = [driver EXCEPT ![a] = driver'[a]] BY <1>1, <1>2, <1>3
    <3>2. QED BY <1>3, <1>4, <3>1
  <2>3. stmt' \in [Stmts -> Statement]
    <3>1. stmt' = [stmt EXCEPT ![s] = stmt'[s]] BY <1>1, <1>3
    <3>2. QED BY <1>3, <1>5, <3>1
  <2>4. QED BY <1>1, <2>1, <2>2, <2>3 DEF IInv, TypeOK
<1>8. OpenHasHandle' BY <1>1, <1>2, <1>5 DEF IInv, OpenHasHandle
<1>9. HandleIsOwned'
  <2>1. \A g \in Handles : driver'[g] # Dead =>
          /\ driver[g] # Dead /\ driver'[g].stmt = driver[g].stmt
          /\ driver'[g].conn = driver[g].conn
    BY <1>2, <1>4
  <2>2. ASSUME NEW g \in Handles, driver'[g] # Dead,
               NEW t, t = driver[g].stmt, NEW c, c = driver[g].conn
        PROVE  /\ t \in Stmts /\ stmt'[t].open /\ stmt'[t].at = g
               /\ c \in Conns /\ stmt'[t].on = c
               /\ dbc'[c].state = "linked" /\ stmt'[t].nr = dbc'[c].nr
    <3>1. /\ t \in Stmts /\ stmt[t].open /\ stmt[t].at = g
          /\ c \in Conns /\ stmt[t].on = c
          /\ dbc[c].state = "linked" /\ stmt[t].nr = dbc[c].nr
      BY <2>1, <2>2 DEF IInv, HandleIsOwned, Linked
    <3>2. QED BY <1>1, <1>5, <3>1
  <2>3. QED BY <2>1, <2>2 DEF HandleIsOwned, Linked
<1>10. SetOnIsPast' BY <1>1 DEF IInv, SetOnIsPast
<1>11. \A t \in Stmts : Own(t)' <=> Own(t)
  <2>1. \A t \in Stmts : stmt[t].at \in Handles \cup {NoHandle} BY <1>3
  <2>2. QED BY <1>2, <1>4, <1>5, <1>6, <2>1, Constants DEF Own, Reaches
<1>12. RememberedIsForced'
  <2>1. ASSUME NEW t \in Stmts, Own(t)', t \notin hit'
        PROVE  driver'[stmt'[t].at].scroll = stmt'[t].scroll
    <3>1. Own(t) /\ t \notin hit /\ t \notin Victim(s) BY <1>1, <1>11, <2>1
    <3>2. stmt[t].at \in Handles BY <3>1, ReachesIsOpen DEF Own
    <3>3. CASE t = s BY <1>4, <1>5, <3>3
    <3>4. CASE t # s
      <4>1. stmt[t].at # a
        BY <1>1, <3>1, <3>4 DEF Victim, Own
      <4>2. QED BY <1>4, <1>5, <3>1, <3>2, <3>4, <4>1 DEF IInv, RememberedIsForced
    <3>5. QED BY <3>3, <3>4
  <2>2. QED BY <1>1, <2>1 DEF IInv, RememberedIsForced
<1>13. OnlyOutlivedLoseHandle'
  BY <1>1, <1>5, <1>11 DEF IInv, OnlyOutlivedLoseHandle, Outlived, Linked
<1>14. QED BY <1>7, <1>8, <1>9, <1>10, <1>12, <1>13 DEF IInv

\* The close that is refused touches no handle in the driver.
LEMMA FailCloseKeepsIInv ==
    ASSUME IInv, NEW s \in Stmts, FailClose(s)
    PROVE  IInv'
<1>1. /\ stmt[s].open /\ ~Reaches(s)
      /\ stmt' = [stmt EXCEPT ![s].scroll = "default"]
      /\ UNCHANGED <<up, dbc, isolation, setOn, driver, hit>>
  BY DEF FailClose, MustFree
<1> DEFINE Statement == [open : BOOLEAN, at : Handles \cup {NoHandle}, on : Conns \cup {NoConn},
                         nr : 0 .. MaxDbc, scroll : Usages \cup {"default"}]
<1>2. stmt \in [Stmts -> Statement] BY DEF IInv, TypeOK
<1>3. /\ stmt'[s] \in Statement
      /\ \A t \in Stmts : /\ stmt'[t].open = stmt[t].open /\ stmt'[t].at = stmt[t].at
                          /\ stmt'[t].on = stmt[t].on /\ stmt'[t].nr = stmt[t].nr
      /\ \A t \in Stmts : t # s => stmt'[t] = stmt[t]
  BY <1>1, <1>2
<1>4. TypeOK'
  <2>1. stmt' = [stmt EXCEPT ![s] = stmt'[s]] BY <1>1, <1>2
  <2>2. stmt' \in [Stmts -> Statement] BY <1>2, <1>3, <2>1
  <2>3. QED BY <1>1, <2>2 DEF IInv, TypeOK
<1>5. OpenHasHandle' BY <1>1, <1>3 DEF IInv, OpenHasHandle
<1>6. HandleIsOwned' BY <1>1, <1>3 DEF IInv, HandleIsOwned, Linked
<1>7. \A t \in Stmts : /\ Own(t)' <=> Own(t)
                       /\ Own(t) => t # s
  BY <1>1, <1>3 DEF Own, Reaches
<1>8. RememberedIsForced' BY <1>1, <1>3, <1>7 DEF IInv, RememberedIsForced
<1>9. OnlyOutlivedLoseHandle'
  BY <1>1, <1>3, <1>7 DEF IInv, OnlyOutlivedLoseHandle, Outlived, Linked
<1>10. SetOnIsPast' BY <1>1 DEF IInv, SetOnIsPast
<1>11. QED BY <1>4, <1>5, <1>6, <1>8, <1>9, <1>10 DEF IInv

\* A call that only hands the handle to the driver.
LEMMA UseKeepsIInv ==
    ASSUME IInv, NEW s \in Stmts, Use(s)
    PROVE  IInv'
<1>1. hit' = hit \cup Victim(s) /\ UNCHANGED <<up, dbc, isolation, setOn, stmt, driver>>
  BY DEF Use
<1>2. TypeOK' BY <1>1, VictimSharesHandle DEF IInv, TypeOK
<1>3. OpenHasHandle' /\ HandleIsOwned' /\ SetOnIsPast'
  BY <1>1 DEF IInv, OpenHasHandle, HandleIsOwned, SetOnIsPast, Linked
<1>4. RememberedIsForced' /\ OnlyOutlivedLoseHandle'
  BY <1>1 DEF IInv, RememberedIsForced, OnlyOutlivedLoseHandle, Own, Reaches, Outlived, Linked
<1>5. QED BY <1>2, <1>3, <1>4 DEF IInv

-----------------------------------------------------------------------------
(* Steps of a connection.                                                   *)

\* A connection handle is linked, unlinked, freed or replaced: its number grows when
\* there is a new one, and its statement handles go unless it stays linked.
LEMMA LinkKeepsIInv ==
    ASSUME IInv, NEW c \in Conns,
           NEW d \in [state : {"none", "free", "linked"}, level : Levels \cup {Default},
                      nr : 0 .. MaxDbc],
           dbc' = [dbc EXCEPT ![c] = d],
           \/ d.nr = dbc[c].nr + 1
           \/ /\ d.nr = dbc[c].nr /\ d.level = dbc[c].level
              /\ d.state # "linked"
              /\ d.state # "none" => dbc[c].state # "none",
           driver' = WithoutLink(c),
           UNCHANGED <<up, isolation, setOn, stmt, hit>>
    PROVE  IInv'
<1>1. dbc \in [Conns -> [state : {"none", "free", "linked"}, level : Levels \cup {Default},
                         nr : 0 .. MaxDbc]]
      /\ driver \in [Handles -> {Dead} \cup
                       [stmt : Stmts, conn : Conns, scroll : Usages \cup {"default"}]]
      /\ stmt \in [Stmts -> [open : BOOLEAN, at : Handles \cup {NoHandle},
                             on : Conns \cup {NoConn}, nr : 0 .. MaxDbc,
                             scroll : Usages \cup {"default"}]]
  BY DEF IInv, TypeOK
<1>2. \A b \in Conns : dbc'[b] = IF b = c THEN d ELSE dbc[b] BY <1>1
<1>3. \A h \in Handles : driver'[h] = IF driver[h].conn = c THEN Dead ELSE driver[h]
  BY DEF WithoutLink
<1>4. dbc[c].nr \in Nat /\ d.nr \in Nat /\ dbc[c].nr <= d.nr
  BY <1>1, Constants
<1>5. TypeOK'
  <2>1. driver' \in [Handles -> {Dead} \cup
                       [stmt : Stmts, conn : Conns, scroll : Usages \cup {"default"}]]
    BY <1>1 DEF WithoutLink
  <2>2. dbc' \in [Conns -> [state : {"none", "free", "linked"}, level : Levels \cup {Default},
                            nr : 0 .. MaxDbc]]
    BY <1>1
  <2>3. QED BY <2>1, <2>2 DEF IInv, TypeOK
<1>6. OpenHasHandle'
  <2>1. \A s \in Stmts : stmt[s].nr \in Nat BY <1>1, Constants
  <2>2. ASSUME NEW s \in Stmts, stmt[s].open
        PROVE  /\ stmt[s].at \in Handles /\ stmt[s].on \in Conns
               /\ stmt[s].nr <= dbc'[stmt[s].on].nr
    BY <1>2, <1>4, <2>1, <2>2 DEF IInv, OpenHasHandle
  <2>3. QED BY <2>2 DEF IInv, OpenHasHandle
<1>7. HandleIsOwned'
  BY <1>2, <1>3 DEF IInv, HandleIsOwned, Linked
<1>8. SetOnIsPast'
  <2>1. \A b \in Conns : setOn[b] \in Nat BY Constants DEF IInv, TypeOK
  <2>2. QED BY <1>2, <1>4, <2>1 DEF IInv, SetOnIsPast
<1>9. ASSUME NEW s \in Stmts, Own(s)'
      PROVE  Own(s) /\ driver'[stmt[s].at] = driver[stmt[s].at]
  <2>1. stmt[s].at \in Handles BY <1>1, <1>9 DEF Own, Reaches
  <2>2. QED BY <1>3, <1>9, <2>1 DEF Own, Reaches
<1>10. RememberedIsForced'
  <2>1. ASSUME NEW b \in Conns, setOn[b] = dbc'[b].nr, dbc'[b].state # "none"
        PROVE  isolation[b] = dbc'[b].level
    <3>1. CASE b = c
      <4>1. setOn[c] <= dbc[c].nr /\ setOn[c] \in Nat
        BY Constants DEF IInv, SetOnIsPast, TypeOK
      <4>2. d.nr = dbc[c].nr BY <1>2, <1>4, <2>1, <3>1, <4>1
      <4>3. d.level = dbc[c].level /\ dbc[c].state # "none"
        BY <1>2, <1>4, <2>1, <3>1, <4>2
      <4>4. QED BY <1>2, <2>1, <3>1, <4>2, <4>3 DEF IInv, RememberedIsForced
    <3>2. CASE b # c BY <1>2, <2>1, <3>2 DEF IInv, RememberedIsForced
    <3>3. QED BY <3>1, <3>2
  <2>2. \A s \in Stmts : Own(s)' /\ s \notin hit =>
          driver'[stmt[s].at].scroll = stmt[s].scroll
    BY <1>9 DEF IInv, RememberedIsForced
  <2>3. QED BY <2>1, <2>2 DEF RememberedIsForced
<1>11. OnlyOutlivedLoseHandle'
  <2>1. ASSUME NEW s \in Stmts, stmt[s].open, ~Outlived(s)', s \notin hit
        PROVE  Own(s)'
    <3>1. /\ stmt[s].at \in Handles /\ stmt[s].on \in Conns
          /\ stmt[s].nr <= dbc[stmt[s].on].nr
      BY <2>1 DEF IInv, OpenHasHandle
    <3>2. dbc'[stmt[s].on].state = "linked" /\ dbc'[stmt[s].on].nr = stmt[s].nr
      BY <2>1 DEF Outlived, Linked
    <3>3. stmt[s].on # c
      <4>1. ASSUME stmt[s].on = c PROVE FALSE
        <5>1. d.state = "linked" /\ d.nr = stmt[s].nr BY <1>2, <3>2, <4>1
        <5>2. QED BY <1>4, <3>1, <4>1, <5>1
      <4>2. QED BY <4>1
    <3>4. ~Outlived(s) BY <1>2, <3>1, <3>2, <3>3 DEF Outlived, Linked
    <3>5. Own(s) BY <2>1, <3>4 DEF IInv, OnlyOutlivedLoseHandle
    <3>6. driver[stmt[s].at].conn # c
      BY <3>1, <3>3, <3>5 DEF Own, Reaches, IInv, HandleIsOwned
    <3>7. QED BY <1>3, <3>1, <3>5, <3>6 DEF Own, Reaches
  <2>2. QED BY <2>1 DEF OnlyOutlivedLoseHandle
<1>12. QED BY <1>5, <1>6, <1>7, <1>8, <1>10, <1>11 DEF IInv

\* A level is set on the handle of the connection, and remembered.
LEMMA SetLevelKeepsIInv ==
    ASSUME IInv, NEW c \in Conns, NEW l \in Levels, SetLevel(c, l)
    PROVE  IInv'
<1>1. /\ dbc' = [dbc EXCEPT ![c].level = l] /\ isolation' = [isolation EXCEPT ![c] = l]
      /\ setOn' = [setOn EXCEPT ![c] = dbc[c].nr]
      /\ UNCHANGED <<up, stmt, driver, hit>>
  BY DEF SetLevel
<1> DEFINE Dbc == [state : {"none", "free", "linked"}, level : Levels \cup {Default},
                   nr : 0 .. MaxDbc]
<1>2. /\ dbc \in [Conns -> Dbc] /\ isolation \in [Conns -> Levels \cup {Default}]
      /\ setOn \in [Conns -> 0 .. MaxDbc]
  BY DEF IInv, TypeOK
<1>3. /\ dbc'[c] \in Dbc /\ dbc'[c].level = l
      /\ \A b \in Conns : dbc'[b].state = dbc[b].state /\ dbc'[b].nr = dbc[b].nr
      /\ \A b \in Conns : b # c => dbc'[b] = dbc[b]
  BY <1>1, <1>2
<1>4. TypeOK'
  <2>1. dbc' = [dbc EXCEPT ![c] = dbc'[c]] BY <1>1, <1>2
  <2>2. dbc' \in [Conns -> Dbc] BY <1>2, <1>3, <2>1
  <2>3. dbc[c].nr \in 0 .. MaxDbc BY <1>2
  <2>4. QED BY <1>1, <1>2, <2>2, <2>3 DEF IInv, TypeOK
<1>5. OpenHasHandle' BY <1>1, <1>3 DEF IInv, OpenHasHandle
<1>6. HandleIsOwned' BY <1>1, <1>3 DEF IInv, HandleIsOwned, Linked
<1>7. SetOnIsPast'
  <2>1. dbc[c].nr \in 0 .. MaxDbc BY <1>2
  <2>2. QED BY <1>1, <1>2, <1>3, <2>1, Constants DEF IInv, SetOnIsPast
<1>8. RememberedIsForced'
  <2>1. \A b \in Conns : setOn'[b] = dbc'[b].nr /\ dbc'[b].state # "none" =>
                            isolation'[b] = dbc'[b].level
    BY <1>1, <1>2, <1>3 DEF IInv, RememberedIsForced
  <2>2. QED BY <1>1, <2>1 DEF IInv, RememberedIsForced, Own, Reaches
<1>9. OnlyOutlivedLoseHandle'
  <2>1. ASSUME NEW s \in Stmts, stmt[s].open PROVE Outlived(s)' <=> Outlived(s)
    <3>1. stmt[s].on \in Conns BY <2>1 DEF IInv, OpenHasHandle
    <3>2. QED BY <1>1, <1>3, <3>1 DEF Outlived, Linked
  <2>2. QED BY <1>1, <2>1 DEF IInv, OnlyOutlivedLoseHandle, Own, Reaches
<1>10. QED BY <1>4, <1>5, <1>6, <1>7, <1>8, <1>9 DEF IInv

\* Handles that are not linked have no statement handles to lose.
LEMMA NothingToFree ==
    ASSUME IInv, NEW c \in Conns, ~Linked(c)
    PROVE  WithoutLink(c) = driver
<1>1. \A h \in Handles : driver[h].conn = c => driver[h] = Dead
  BY DEF IInv, HandleIsOwned
<1>2. driver = [h \in Handles |-> driver[h]] BY DEF IInv, TypeOK
<1>3. \A h \in Handles : (IF driver[h].conn = c THEN Dead ELSE driver[h]) = driver[h]
  BY <1>1
<1>4. QED BY <1>2, <1>3 DEF WithoutLink

LEMMA ConnectionKeepsIInv ==
    ASSUME IInv, NEW c \in Conns, OfConnection(c)
    PROVE  IInv'
<1> DEFINE Dbc == [state : {"none", "free", "linked"}, level : Levels \cup {Default},
                   nr : 0 .. MaxDbc]
<1>1. dbc \in [Conns -> Dbc] /\ dbc[c] \in Dbc BY DEF IInv, TypeOK
<1>2. ASSUME NEW state \in {"free", "linked"}, dbc[c].nr < MaxDbc
      PROVE  NewDbc(c, state) \in Dbc /\ NewDbc(c, state).nr = dbc[c].nr + 1
  BY <1>1, <1>2, Constants DEF NewDbc
<1>3. CASE Allocate(c)
  <2>1. ~Linked(c) BY <1>3 DEF Allocate, Linked
  <2>2. driver' = WithoutLink(c) BY <1>3, <2>1, NothingToFree DEF Allocate
  <2>3. QED BY <1>2, <1>3, <2>2, LinkKeepsIInv DEF Allocate
<1>4. ASSUME NEW linked \in BOOLEAN, Connect(c, linked) PROVE IInv'
  <2>1. driver' = WithoutLink(c) BY <1>4, NothingToFree DEF Connect
  <2>2. QED BY <1>2, <1>4, <2>1, LinkKeepsIInv DEF Connect
<1>5. ASSUME NEW state \in {"none", "free"}, dbc' = [dbc EXCEPT ![c].state = state],
             dbc[c].state # "none", driver' = WithoutLink(c),
             UNCHANGED <<up, isolation, setOn, stmt, hit>>
      PROVE  IInv'
  <2> DEFINE d == [dbc[c] EXCEPT !.state = state]
  <2>1. /\ d \in Dbc /\ d.nr = dbc[c].nr /\ d.level = dbc[c].level /\ d.state = state
        /\ dbc' = [dbc EXCEPT ![c] = d]
    BY <1>1, <1>5
  <2> HIDE DEF d
  <2>2. QED BY <1>5, <2>1, LinkKeepsIInv
<1>6. CASE Deallocate(c)
  <2>1. ~Linked(c) BY <1>6 DEF Deallocate, Linked
  <2>2. driver' = WithoutLink(c) BY <1>6, <2>1, NothingToFree DEF Deallocate
  <2>3. QED BY <1>5, <1>6, <2>2 DEF Deallocate
<1>7. CASE Disconnect(c) BY <1>5, <1>7 DEF Disconnect, Linked
<1>8. ASSUME NEW l \in Levels, SetLevel(c, l) PROVE IInv'
  BY <1>8, SetLevelKeepsIInv
<1>9. QED BY <1>3, <1>4, <1>6, <1>7, <1>8 DEF OfConnection

LEMMA StatementKeepsIInv ==
    ASSUME IInv, up, NEW s \in Stmts, OfStatement(s)
    PROVE  IInv'
<1>1. CASE FailClose(s) BY <1>1, FailCloseKeepsIInv
<1>2. CASE CloseStatement(s) BY <1>2, CloseKeepsIInv DEF CloseStatement
<1>3. CASE FailOpen(s) BY <1>3, CloseKeepsIInv DEF FailOpen
<1>4. CASE ReleaseStatement(s)
  <2>1. up' \in BOOLEAN BY <1>4 DEF ReleaseStatement
  <2>2. QED BY <1>4, <2>1, CloseKeepsIInv DEF ReleaseStatement
<1>5. ASSUME NEW c \in Conns, NEW h \in Handles, NEW u \in Usages \cup {"default"},
             OpenStatement(s, c, h, u)
      PROVE  IInv'
  BY <1>5, OpenKeepsIInv
<1>6. ASSUME NEW u \in Usages, SetScroll(s, u) PROVE IInv'
  BY <1>6, SetScrollKeepsIInv
<1>7. CASE Use(s) BY <1>7, UseKeepsIInv
<1>8. QED BY <1>1, <1>2, <1>3, <1>4, <1>5, <1>6, <1>7 DEF OfStatement

LEMMA InitIInv == Init => IInv
<1> SUFFICES ASSUME Init PROVE IInv OBVIOUS
<1>1. \A s \in Stmts : stmt[s] = Closed /\ ~stmt[s].open /\ stmt[s].at = NoHandle
  BY DEF Init, Closed
<1>2. \A h \in Handles : driver[h] = Dead BY DEF Init
<1>3. TypeOK BY Constants DEF Init, TypeOK, Closed
<1>4. OpenHasHandle /\ HandleIsOwned /\ OnlyOutlivedLoseHandle
  BY <1>1, <1>2 DEF OpenHasHandle, HandleIsOwned, OnlyOutlivedLoseHandle
<1>5. \A c \in Conns : setOn[c] = 0 /\ ((dbc[c].nr = 0 /\ dbc[c].state = "none") \/ dbc[c].nr = 1)
  BY DEF Init
<1>6. SetOnIsPast BY <1>5 DEF SetOnIsPast
<1>7. RememberedIsForced BY <1>1, <1>5 DEF RememberedIsForced, Own, Reaches
<1>8. QED BY <1>3, <1>4, <1>6, <1>7 DEF IInv

LEMMA StepKeepsIInv == IInv /\ [Next]_vars => IInv'
<1> SUFFICES ASSUME IInv, [Next]_vars PROVE IInv' OBVIOUS
<1>1. CASE Next BY <1>1, ConnectionKeepsIInv, StatementKeepsIInv DEF Next
<1>2. CASE UNCHANGED vars
  BY <1>2 DEF vars, IInv, TypeOK, OpenHasHandle, HandleIsOwned, SetOnIsPast,
       RememberedIsForced, OnlyOutlivedLoseHandle, Own, Reaches, Outlived, Linked
<1>3. QED BY <1>1, <1>2

-----------------------------------------------------------------------------
(* Theorems.                                                                *)

THEOREM Inductive == Spec => []IInv
BY InitIInv, StepKeepsIInv, PTL DEF Spec

\* Connections, statements and the driver keep their types: a statement that is used
\* has a handle, and no handle leads to what is no statement.
THEOREM TypeCorrect == Spec => []TypeOK
<1>1. IInv => TypeOK BY DEF IInv
<1>2. QED BY <1>1, Inductive, PTL

\* The isolation level and the scrolling that the objects remember are in force, on
\* the handle they were set on, unless another statement got hold of it.
THEOREM MemoryIsTrue == Spec => []RememberedIsForced
<1>1. IInv => RememberedIsForced BY DEF IInv
<1>2. QED BY <1>1, Inductive, PTL

\* Statements lose their handles only with their links or to a statement that had
\* lost its own.
THEOREM HandlesAreKept == Spec => []OnlyOutlivedLoseHandle
<1>1. IInv => OnlyOutlivedLoseHandle BY DEF IInv
<1>2. QED BY <1>1, Inductive, PTL

\* No statement handle is stranded in the driver.
THEOREM HandlesAreFreed == Spec => []NoStrayHandle
<1>1. IInv => NoStrayHandle BY DEF IInv, HandleIsOwned, NoStrayHandle
<1>2. QED BY <1>1, Inductive, PTL

\* Only a statement whose link is gone, or that was itself robbed of its handle, takes
\* the handle of another, or ends the process when it is released.
THEOREM HarmHasCause == Spec => OnlyOutlivedHarm
<1> DEFINE Harm ==
      /\ \A t \in hit' \ hit : \E s \in Stmts \ {t} :
             stmt[s].at = stmt[t].at /\ (Outlived(s) \/ s \in hit)
      /\ ~up' => \E s \in Stmts :
             stmt[s].open /\ ~stmt'[s].open /\ (Outlived(s) \/ s \in hit)
<1>1. ASSUME IInv, NEW s \in Stmts, stmt[s].open, ~Own(s) PROVE Outlived(s) \/ s \in hit
  BY <1>1 DEF IInv, OnlyOutlivedLoseHandle
<1>2. ASSUME IInv, NEW s \in Stmts, NEW t \in Victim(s)
      PROVE  s \in Stmts \ {t} /\ stmt[s].at = stmt[t].at /\ (Outlived(s) \/ s \in hit)
  BY <1>1, <1>2, VictimSharesHandle
<1>3. ASSUME IInv, Next PROVE Harm
  <2>1. CASE \E c \in Conns : OfConnection(c)
    <3>1. up' = up /\ hit' = hit
      BY <2>1 DEF OfConnection, Allocate, Deallocate, Connect, Disconnect, SetLevel
    <3>2. QED BY <1>3, <3>1 DEF Next
  <2>2. ASSUME NEW s \in Stmts, OfStatement(s) PROVE Harm
    <3>1. hit' \ hit \subseteq Victim(s)
      BY <2>2 DEF OfStatement, FailClose, CloseStatement, OpenStatement, FailOpen,
           SetScroll, Use, ReleaseStatement, Hit
    <3>2. ASSUME ~up'
          PROVE  stmt[s].open /\ ~stmt'[s].open /\ (Outlived(s) \/ s \in hit)
      <4>1. ReleaseStatement(s)
        BY <1>3, <2>2, <3>2 DEF Next, OfStatement, FailClose, CloseStatement,
             OpenStatement, FailOpen, SetScroll, Use
      <4>2. stmt[s].open /\ ~Reaches(s) BY <3>2, <4>1 DEF ReleaseStatement, MustFree
      <4>3. stmt'[s] = Closed BY <1>3, <4>1 DEF ReleaseStatement, IInv, TypeOK
      <4>4. ~stmt'[s].open BY <4>3 DEF Closed
      <4>5. QED BY <1>1, <1>3, <4>2, <4>4 DEF Own
    <3>3. QED BY <1>2, <1>3, <3>1, <3>2
  <2>3. QED BY <1>3, <2>1, <2>2 DEF Next
<1>4. IInv /\ [Next]_vars => [Harm]_vars BY <1>3
<1>5. QED BY <1>4, Inductive, PTL DEF Spec, OnlyOutlivedHarm

=============================================================================
