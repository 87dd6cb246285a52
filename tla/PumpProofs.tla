----------------------------- MODULE PumpProofs -----------------------------
(***************************************************************************)
(* Proofs about Pump, for every number of rows, every set of pack sizes    *)
(* and of transactions and every number of calls: what a call that         *)
(* succeeds has written, what one that fails has lost, and that retries    *)
(* write no row twice.                                                     *)
(***************************************************************************)
EXTENDS Pump, FiniteSetTheorems, TLAPS

\* pump holds its own transaction while it packs, the caller's when it does not, and
\* no other transaction of pump has rows.
Holding ==
    /\ open \subseteq {tra}
    /\ Running => IF Packed THEN tra \in open ELSE tra = Caller
    /\ \A t \in Txn : t # tra => work[t] = {}

\* Only rows the result has handed out are written anywhere.
Fetched ==
    /\ durable \subseteq 1 .. at
    /\ \A t \in Txn \cup {Caller} : work[t] \subseteq 1 .. at

\* The running call has written every row it fetched and counted it.
Counted ==
    Running =>
        /\ pump.first <= at
        /\ pump.count = at - pump.first
        /\ pump.index <= pump.count
        /\ pump.first + 1 .. at \subseteq durable \cup work[tra]

\* It has committed all but the rows of the pack it is filling.
Packing ==
    Running /\ Packed =>
        /\ pump.index < pump.pack
        /\ pump.first + 1 .. at - pump.index \subseteq durable

\* BLOBs are made in the transaction pump is called in, in the one of the insert whose
\* trigger makes them, or, after such a trigger, where its context happens to lead.
BlobsPlaced ==
    /\ blobs \subseteq {Caller, Stray} \cup open
    /\ Stray \in blobs => context = "trigger"

\* While pump runs the snapshot has its context or that of a trigger.
ContextOfPump == Running => context \in {"pump", "trigger"}

\* The inductive invariant.
IInv ==
    TypeOK /\ Holding /\ Fetched /\ Counted /\ Packing /\ BlobsPlaced /\ ContextOfPump
    /\ NoRowTwice

-----------------------------------------------------------------------------
(* Parts of steps.                                                          *)

\* What every step uses of the constants.
LEMMA Constants ==
    /\ MaxRow \in Nat /\ MaxCalls \in Nat /\ Packs \subseteq Nat
    /\ Caller \notin Txn /\ None \notin Txn /\ None # Caller
    /\ Stray \notin Txn /\ Stray # Caller
BY PumpAssumption

\* A transaction that takes the place of another leaves nothing of it but what the
\* caller's has.
LEMMA ReplaceClears ==
    ASSUME IInv, NEW t \in Txn \cup {Caller, None}, Replace(t)
    PROVE  /\ tra' = t /\ open' = {t} \cap Txn
           /\ work' \in [Txn \cup {Caller} -> SUBSET Row]
           /\ work'[Caller] = work[Caller]
           /\ \A x \in Txn : work'[x] = {}
<1>1. open \subseteq {tra} /\ \A x \in Txn : x # tra => work[x] = {}
  BY DEF IInv, Holding
<1>2. work \in [Txn \cup {Caller} -> SUBSET Row] BY DEF IInv, TypeOK
<1>3. tra' = t /\ open' = {t} \cap Txn BY <1>1 DEF Replace
<1>4. work' = [x \in Txn \cup {Caller} |-> IF x = tra /\ x \in Txn THEN {} ELSE work[x]]
  BY DEF Replace
<1>5. QED BY <1>1, <1>2, <1>3, <1>4, Constants

\* The BLOBs of a row and the triggers of its insert leave the snapshot as it is or
\* clear it, and need the transaction of the insert.
LEMMA BlobsOfRow ==
    ASSUME IInv, Running, MakeBlobs, open' = open
    PROVE  /\ snap' \in {snap, None}
           /\ context' \in {"pump", "trigger"}
           /\ blobs' \subseteq Txn \cup {Caller, Stray}
           /\ BlobsPlaced'
<1>1. /\ context \in {"pump", "trigger"}
      /\ tra \in {Caller} \cup open /\ open \subseteq Txn
  BY DEF IInv, TypeOK, ContextOfPump, Holding
<1> DEFINE here == IF context = "pump" THEN Caller ELSE Stray
<1>2. PICK made \in {{}, {here}} :
        \/ blobs' = made /\ snap' = (IF made = {} THEN snap ELSE None) /\ context' = context
        \/ blobs' \in {made, made \cup {tra}} /\ snap' = None /\ context' = "trigger"
  BY DEF MakeBlobs, Cleared, CurrentTransaction, ContextTransaction
<1>3. here \in {Caller, Stray} /\ (here = Stray => context = "trigger")
  BY <1>1, Constants
<1> HIDE DEF here
<1>4. snap' \in {snap, None} /\ context' \in {"pump", "trigger"} BY <1>1, <1>2
<1>5. blobs' \subseteq {Caller, Stray} \cup open BY <1>1, <1>2, <1>3
<1>6. Stray \in blobs' => context' = "trigger" BY <1>1, <1>2, <1>3
<1>7. QED BY <1>1, <1>4, <1>5, <1>6 DEF BlobsPlaced

-----------------------------------------------------------------------------
(* Steps.                                                                   *)

\* A call of pump begins, and may fail before it has fetched a row.
LEMMA BeginKeepsIInv ==
    ASSUME IInv, NEW p \in Packs, Begin(p), NEW s \in {"running", "failed"},
           pump' = [state |-> s, pack |-> p, index |-> 0, count |-> 0, first |-> at]
    PROVE  IInv'
<1>1. PICK t \in (IF p > 0 THEN Txn \ open ELSE {Caller}) : Replace(t) /\ snap' = t
  BY DEF Begin
<1>2. t \in Txn \cup {Caller, None} BY <1>1
<1>3. /\ tra' = t /\ open' = {t} \cap Txn
      /\ work' \in [Txn \cup {Caller} -> SUBSET Row]
      /\ work'[Caller] = work[Caller]
      /\ \A x \in Txn : work'[x] = {}
  BY <1>1, <1>2, ReplaceClears
<1>4. /\ at' = at /\ durable' = durable /\ blobs' = {} /\ calls' = calls + 1
      /\ calls < MaxCalls /\ context' = "pump"
  BY DEF Begin
<1>5. at \in 0 .. MaxRow /\ calls \in 0 .. MaxCalls /\ p \in Nat
  BY Constants DEF IInv, TypeOK
<1>6. TypeOK'
  <2>1. pump' \in Call BY <1>5, Constants DEF Call
  <2>2. QED BY <1>1, <1>2, <1>3, <1>4, <1>5, <2>1, Constants DEF IInv, TypeOK
<1>7. Holding'
  BY <1>1, <1>3, <1>5, Constants DEF Holding, Running, Packed
<1>8. Fetched' BY <1>3, <1>4 DEF IInv, Fetched
<1>9. Counted' /\ Packing'
  BY <1>4, <1>5 DEF Counted, Packing, Running, Packed
<1>10. NoRowTwice' BY <1>3, <1>4, Constants DEF IInv, NoRowTwice
<1>11. QED BY <1>4, <1>6, <1>7, <1>8, <1>9, <1>10
       DEF IInv, BlobsPlaced, ContextOfPump

\* One row: fetched, written, and committed with its pack when that is full.
LEMMA PumpRowKeepsIInv ==
    ASSUME IInv, PumpRow PROVE IInv'
<1> DEFINE full == Packed /\ pump.index + 1 = pump.pack
           written == work[tra] \cup {at + 1}
<1>1. /\ Running /\ at < MaxRow /\ at' = at + 1
      /\ pump' = [pump EXCEPT !.index = IF full THEN 0 ELSE @ + 1, !.count = @ + 1]
      /\ durable' = IF full THEN durable \cup written ELSE durable
      /\ work' = [work EXCEPT ![tra] = IF full THEN {} ELSE written]
      /\ MakeBlobs
      /\ UNCHANGED <<calls, tra, open>>
  BY DEF PumpRow
<1>2. /\ at \in 0 .. MaxRow /\ pump \in Call
      /\ work \in [Txn \cup {Caller} -> SUBSET Row] /\ durable \subseteq Row
  BY DEF IInv, TypeOK
<1>3. tra \in Txn \cup {Caller} /\ IF Packed THEN tra \in open ELSE tra = Caller
  BY <1>1, Constants DEF IInv, TypeOK, Holding
<1>4. /\ snap' \in {snap, None} /\ context' \in {"pump", "trigger"}
      /\ blobs' \subseteq Txn \cup {Caller, Stray} /\ BlobsPlaced'
  BY <1>1, BlobsOfRow
<1>5. /\ pump.pack \in Nat /\ pump.first \in Nat /\ pump.index \in Nat /\ pump.count \in Nat
      /\ pump.state = "running"
  BY <1>1, <1>2, Constants DEF Call, Running
<1>6. /\ pump.first <= at /\ pump.count = at - pump.first /\ pump.index <= pump.count
      /\ pump.first + 1 .. at \subseteq durable \cup work[tra]
  BY <1>1 DEF IInv, Counted
<1>7. pump' \in Call /\ pump'.pack = pump.pack /\ pump'.first = pump.first
      /\ pump'.state = "running" /\ pump'.count = pump.count + 1
      /\ pump'.index = IF full THEN 0 ELSE pump.index + 1
  <2> DEFINE i == IF full THEN 0 ELSE pump.index + 1
  <2>1. i \in 0 .. MaxRow /\ pump.count + 1 \in 0 .. MaxRow
    BY <1>1, <1>2, <1>5, <1>6, Constants
  <2> HIDE DEF i
  <2>2. pump' = [[pump EXCEPT !.index = i] EXCEPT !.count = pump.count + 1]
    BY <1>1, <1>2 DEF i, Call
  <2>3. pump' = [state |-> pump.state, pack |-> pump.pack, index |-> i,
                 count |-> pump.count + 1, first |-> pump.first]
    BY <1>2, <2>2, Zenon DEF Call
  <2>4. QED BY <1>2, <1>5, <2>1, <2>3 DEF Call, i
<1>8. TypeOK'
  <2>1. at + 1 \in Row /\ at' \in 0 .. MaxRow BY <1>1, <1>2, Constants DEF Row
  <2>2. work' \in [Txn \cup {Caller} -> SUBSET Row] /\ durable' \subseteq Row
    BY <1>1, <1>2, <1>3, <2>1
  <2>3. QED BY <1>1, <1>4, <1>7, <2>1, <2>2 DEF IInv, TypeOK
<1>9. Holding'
  <2>1. (Running => IF Packed THEN tra \in open ELSE tra = Caller)'
    BY <1>1, <1>3, <1>7 DEF Packed
  <2>2. QED BY <1>1, <1>2, <2>1 DEF IInv, Holding
<1>10. Fetched'
  <2>1. work[tra] \subseteq 1 .. at /\ durable \subseteq 1 .. at
    BY <1>3 DEF IInv, Fetched
  <2>2. written \subseteq 1 .. at + 1 /\ 1 .. at \subseteq 1 .. at + 1
    BY <1>2, <2>1, Constants
  <2>3. \A t \in Txn \cup {Caller} : work'[t] \subseteq 1 .. at + 1
    BY <1>1, <1>2, <2>2 DEF IInv, Fetched
  <2>4. durable' \subseteq 1 .. at + 1 BY <1>1, <2>1, <2>2
  <2>5. QED BY <1>1, <2>3, <2>4 DEF Fetched
<1>11. Counted'
  <2>1. pump.first + 1 .. at + 1 \subseteq durable \cup written
    BY <1>2, <1>5, <1>6, Constants
  <2>2. work'[tra] = IF full THEN {} ELSE written BY <1>1, <1>2, <1>3
  <2>3. pump.first + 1 .. at + 1 \subseteq durable' \cup work'[tra] BY <1>1, <2>1, <2>2
  <2>4. QED BY <1>1, <1>2, <1>5, <1>6, <1>7, <2>3, Constants DEF Counted
<1>12. Packing'
  <2>1. SUFFICES ASSUME Packed
        PROVE  pump'.index < pump'.pack
               /\ pump'.first + 1 .. at' - pump'.index \subseteq durable'
    BY <1>7 DEF Packing, Packed
  <2>2. pump.index < pump.pack /\ pump.first + 1 .. at - pump.index \subseteq durable
    BY <1>1, <2>1 DEF IInv, Packing
  <2>3. CASE full
    <3>1. pump.first + 1 .. at + 1 \subseteq durable \cup written
      BY <1>2, <1>5, <1>6, Constants
    <3>2. pump'.index = 0 /\ at' - 0 = at + 1 BY <1>1, <1>2, <1>7, <2>3, Constants
    <3>3. QED BY <1>1, <1>5, <1>7, <2>1, <2>3, <3>1, <3>2 DEF Packed
  <2>4. CASE ~full
    <3>1. pump'.index = pump.index + 1 /\ at' - pump'.index = at - pump.index
      BY <1>1, <1>2, <1>5, <1>7, <2>4, Constants
    <3>2. QED BY <1>1, <1>5, <1>7, <2>1, <2>2, <2>4, <3>1
  <2>5. QED BY <2>3, <2>4
<1>13. NoRowTwice'
  <2>1. /\ \A t \in Txn \cup {Caller} : work[t] \cap durable = {}
        /\ \A t, u \in Txn \cup {Caller} : t # u => work[t] \cap work[u] = {}
    BY DEF IInv, NoRowTwice
  <2>2. at + 1 \notin durable /\ \A t \in Txn \cup {Caller} : at + 1 \notin work[t]
    BY <1>2, Constants DEF IInv, Fetched
  <2>3. \A t \in Txn \cup {Caller} :
          work'[t] = IF t = tra THEN IF full THEN {} ELSE written ELSE work[t]
    BY <1>1, <1>2, <1>3
  <2>4. CASE full BY <1>1, <1>3, <2>1, <2>2, <2>3, <2>4 DEF NoRowTwice
  <2>5. CASE ~full BY <1>1, <1>3, <2>1, <2>2, <2>3, <2>5 DEF NoRowTwice
  <2>6. QED BY <2>4, <2>5
<1>14. QED BY <1>4, <1>8, <1>9, <1>10, <1>11, <1>12, <1>13 DEF IInv, ContextOfPump

\* A running call fails with at most the row just fetched written.
LEMMA ThrowKeepsIInv ==
    ASSUME IInv, Running, NEW rows \in SUBSET {at'}, Throw(rows),
           at' \in {at, at + 1}, at' \in 0 .. MaxRow,
           rows # {} => at' = at + 1,
           snap' \in {snap, None}, context' \in {context, "trigger"},
           blobs' \subseteq Txn \cup {Caller, Stray}, BlobsPlaced'
    PROVE  IInv'
<1>1. /\ at \in 0 .. MaxRow /\ pump \in Call
      /\ work \in [Txn \cup {Caller} -> SUBSET Row] /\ durable \subseteq Row
  BY DEF IInv, TypeOK
<1>2. tra \in Txn \cup {Caller} /\ IF Packed THEN tra \in open ELSE tra = Caller
  BY Constants DEF IInv, TypeOK, Holding
<1>3. /\ pump' = [pump EXCEPT !.state = "failed"]
      /\ calls' = calls /\ tra' = tra /\ open' = open /\ durable' = durable
  BY DEF Throw
<1>4. PICK w : work' = [work EXCEPT ![tra] = w] /\ w \subseteq work[tra] \cup rows
  BY DEF Throw
<1>5. ~Running' BY <1>1, <1>3 DEF Running, Call
<1>6. rows \subseteq Row BY <1>1, Constants DEF Row
<1>7. TypeOK'
  <2>1. pump' \in Call BY <1>1, <1>3 DEF Call
  <2>2. work' \in [Txn \cup {Caller} -> SUBSET Row] BY <1>1, <1>2, <1>4, <1>6
  <2>3. QED BY <1>3, <2>1, <2>2 DEF IInv, TypeOK
<1>8. \A t \in Txn \cup {Caller} :
        work'[t] \subseteq IF t = tra THEN work[t] \cup rows ELSE work[t]
  BY <1>1, <1>2, <1>4
<1>9. Holding' BY <1>1, <1>3, <1>4, <1>5 DEF IInv, Holding
<1>10. Fetched'
  <2>1. 1 .. at \subseteq 1 .. at' /\ rows \subseteq 1 .. at'
    BY <1>1, Constants
  <2>2. QED BY <1>3, <1>8, <2>1 DEF IInv, Fetched
<1>11. NoRowTwice'
  <2>1. \A t \in Txn \cup {Caller} : rows \cap work[t] = {} /\ rows \cap durable = {}
    BY <1>1, Constants DEF IInv, Fetched
  <2>2. QED BY <1>2, <1>3, <1>8, <2>1 DEF IInv, NoRowTwice
<1>12. QED BY <1>5, <1>7, <1>9, <1>10, <1>11 DEF IInv, Counted, Packing, ContextOfPump

\* The end of the result, with the commit of the last rows.
LEMMA FinishKeepsIInv ==
    ASSUME IInv, FinishPump PROVE IInv'
<1>1. /\ at \in 0 .. MaxRow /\ pump \in Call
      /\ work \in [Txn \cup {Caller} -> SUBSET Row] /\ durable \subseteq Row
  BY DEF IInv, TypeOK
<1>2. /\ Running /\ pump' = [pump EXCEPT !.state = "ok"] /\ blobs' = {}
      /\ UNCHANGED <<at, calls, snap, context>>
  BY DEF FinishPump
<1>3. tra \in Txn \cup {Caller} /\ IF Packed THEN tra \in open ELSE tra = Caller
  BY <1>2, Constants DEF IInv, TypeOK, Holding
<1>4. ~Running' /\ pump' \in Call BY <1>1, <1>2 DEF Running, Call
<1>5. CASE Packed
  <2>1. /\ durable' = durable \cup work[tra] /\ work' = [work EXCEPT ![tra] = {}]
        /\ open' = open \ {tra} /\ tra' = None
    BY <1>5 DEF FinishPump
  <2>2. \A t \in Txn \cup {Caller} : work'[t] = IF t = tra THEN {} ELSE work[t]
    BY <1>1, <2>1
  <2>3. TypeOK' BY <1>1, <1>2, <1>3, <1>4, <2>1 DEF IInv, TypeOK
  <2>4. Holding' BY <1>4, <2>1, <2>2 DEF IInv, Holding
  <2>5. Fetched' BY <1>2, <1>3, <2>1, <2>2 DEF IInv, Fetched
  <2>6. NoRowTwice' BY <1>3, <2>1, <2>2 DEF IInv, NoRowTwice
  <2>7. QED BY <1>2, <1>4, <2>3, <2>4, <2>5, <2>6
         DEF IInv, Counted, Packing, BlobsPlaced, ContextOfPump
<1>6. CASE ~Packed
  <2>1. UNCHANGED <<durable, work, open, tra>> BY <1>6 DEF FinishPump
  <2>2. TypeOK' BY <1>2, <1>4, <2>1 DEF IInv, TypeOK
  <2>3. QED BY <1>2, <1>4, <2>1, <2>2
         DEF IInv, Holding, Fetched, NoRowTwice, Counted, Packing, BlobsPlaced, ContextOfPump
<1>7. QED BY <1>5, <1>6

\* What happens between calls: the running call is none.
LEMMA BetweenKeepsIInv ==
    ASSUME IInv, ~Running, OtherCall \/ FreeInstance \/ EndCaller PROVE IInv'
<1>1. /\ work \in [Txn \cup {Caller} -> SUBSET Row] /\ pump' = pump /\ at' = at
      /\ calls' = calls
  BY DEF IInv, TypeOK, OtherCall, FreeInstance, EndCaller
<1>2. ~Running' BY <1>1 DEF Running
<1>3. CASE OtherCall
  <2>1. snap' = None /\ blobs' = {Caller} /\ context' = "other"
        /\ UNCHANGED <<tra, open, work, durable>>
    BY <1>3 DEF OtherCall, Cleared, CurrentTransaction
  <2>2. TypeOK' BY <1>1, <2>1 DEF IInv, TypeOK
  <2>3. BlobsPlaced' BY <2>1, Constants DEF BlobsPlaced
  <2>4. QED BY <1>1, <1>2, <2>1, <2>2, <2>3
         DEF IInv, Holding, Fetched, NoRowTwice, Counted, Packing, ContextOfPump
<1>4. CASE FreeInstance
  <2>1. /\ tra' = None /\ open' = {}
        /\ work' \in [Txn \cup {Caller} -> SUBSET Row]
        /\ work'[Caller] = work[Caller] /\ \A x \in Txn : work'[x] = {}
    BY <1>4, ReplaceClears, Constants DEF FreeInstance
  <2>2. durable' = durable /\ blobs' = {} /\ snap' = snap /\ context' = context
    BY <1>4 DEF FreeInstance
  <2>3. TypeOK' BY <1>1, <2>1, <2>2 DEF IInv, TypeOK
  <2>4. Holding' BY <1>2, <2>1 DEF Holding
  <2>5. Fetched' BY <1>1, <2>1, <2>2 DEF IInv, Fetched
  <2>6. NoRowTwice' BY <2>1, <2>2, Constants DEF IInv, NoRowTwice
  <2>7. QED BY <1>2, <2>2, <2>3, <2>4, <2>5, <2>6
         DEF IInv, Counted, Packing, BlobsPlaced, ContextOfPump
<1>5. CASE EndCaller
  <2>1. /\ durable' \in {durable, durable \cup work[Caller]}
        /\ work' = [work EXCEPT ![Caller] = {}]
        /\ blobs' = {} /\ UNCHANGED <<tra, open, snap, context>>
    BY <1>5 DEF EndCaller
  <2>2. \A t \in Txn \cup {Caller} : work'[t] = IF t = Caller THEN {} ELSE work[t]
    BY <1>1, <2>1
  <2>3. TypeOK' BY <1>1, <2>1 DEF IInv, TypeOK
  <2>4. Holding' BY <1>2, <2>1, <2>2 DEF IInv, Holding
  <2>5. Fetched' BY <1>1, <2>1, <2>2 DEF IInv, Fetched
  <2>6. NoRowTwice' BY <2>1, <2>2 DEF IInv, NoRowTwice
  <2>7. QED BY <1>2, <2>1, <2>3, <2>4, <2>5, <2>6
         DEF IInv, Counted, Packing, BlobsPlaced, ContextOfPump
<1>6. QED BY <1>3, <1>4, <1>5

LEMMA InitIInv == Init => IInv
<1> SUFFICES ASSUME Init PROVE IInv OBVIOUS
<1>1. TypeOK BY Constants DEF Init, TypeOK, Call
<1>2. Holding /\ Fetched /\ NoRowTwice
  BY DEF Init, Holding, Fetched, NoRowTwice, Running
<1>3. Counted /\ Packing /\ BlobsPlaced /\ ContextOfPump
  BY DEF Init, Counted, Packing, BlobsPlaced, ContextOfPump, Running
<1>4. QED BY <1>1, <1>2, <1>3 DEF IInv

LEMMA StepKeepsIInv == IInv /\ [Next]_vars => IInv'
<1> SUFFICES ASSUME IInv, [Next]_vars PROVE IInv' OBVIOUS
<1>1. at \in 0 .. MaxRow /\ calls \in 0 .. MaxCalls /\ pump \in Call
  BY DEF IInv, TypeOK
<1>2. at < MaxRow => at + 1 \in 0 .. MaxRow BY <1>1, Constants
<1>3. ASSUME NEW p \in Packs, StartPump(p) PROVE IInv'
  BY <1>3, BeginKeepsIInv DEF StartPump
<1>4. ASSUME NEW p \in Packs, FailPrepare(p) PROVE IInv'
  BY <1>4, BeginKeepsIInv DEF FailPrepare
<1>5. ASSUME NEW p \in Packs, FailStart(p) PROVE IInv'
  <2>1. /\ pump' = [state |-> "failed", pack |-> p, index |-> 0, count |-> 0, first |-> at]
        /\ calls' = calls + 1 /\ calls < MaxCalls /\ snap' = None /\ blobs' = {}
        /\ context' = "pump"
        /\ UNCHANGED <<at, tra, open, work, durable>>
    BY <1>5 DEF FailStart
  <2>2. pump' \in Call /\ calls' \in 0 .. MaxCalls BY <1>1, <2>1, Constants DEF Call
  <2>3. ~Running' BY <2>1 DEF Running
  <2>4. TypeOK' BY <2>1, <2>2 DEF IInv, TypeOK
  <2>5. QED BY <2>1, <2>3, <2>4
         DEF IInv, Holding, Fetched, NoRowTwice, Counted, Packing, BlobsPlaced, ContextOfPump
<1>6. CASE PumpRow BY <1>6, PumpRowKeepsIInv
<1>7. CASE FailFetch \/ FailFinish
  <2>1. at' = at /\ snap' = snap /\ context' = context /\ blobs' = {} /\ Running /\ Throw({})
    BY <1>7 DEF FailFetch, FailFinish
  <2>2. QED BY <1>1, <2>1, ThrowKeepsIInv DEF BlobsPlaced
<1>8. CASE FailRow
  <2>1. Running /\ at < MaxRow /\ at' = at + 1 /\ Throw({}) /\ MakeBlobs
    BY <1>8 DEF FailRow
  <2>2. open' = open BY <2>1 DEF Throw
  <2>3. context' \in {context, "trigger"} BY <2>1 DEF MakeBlobs
  <2>4. QED BY <1>2, <2>1, <2>2, <2>3, ThrowKeepsIInv, BlobsOfRow
<1>9. CASE FailCommit
  <2>1. Running /\ at < MaxRow /\ at' = at + 1 /\ Throw({at'}) /\ MakeBlobs
    BY <1>9 DEF FailCommit
  <2>2. open' = open BY <2>1 DEF Throw
  <2>3. context' \in {context, "trigger"} BY <2>1 DEF MakeBlobs
  <2>4. QED BY <1>2, <2>1, <2>2, <2>3, ThrowKeepsIInv, BlobsOfRow
<1>10. CASE FinishPump BY <1>10, FinishKeepsIInv
<1>11. CASE OtherCall \/ FreeInstance \/ EndCaller
  BY <1>11, BetweenKeepsIInv DEF OtherCall, FreeInstance, EndCaller
<1>12. CASE UNCHANGED vars
  BY <1>12 DEF vars, IInv, TypeOK, Holding, Fetched, NoRowTwice, Counted, Packing,
       BlobsPlaced, ContextOfPump, Running, Packed
<1>13. QED
  BY <1>3, <1>4, <1>5, <1>6, <1>7, <1>8, <1>9, <1>10, <1>11, <1>12 DEF Next

-----------------------------------------------------------------------------
(* Theorems.                                                                *)

THEOREM Inductive == Spec => []IInv
BY InitIInv, StepKeepsIInv, PTL DEF Spec

\* The counters of a call stay within the rows of the result, and the instance holds
\* a transaction of pump, the caller's or none.
THEOREM TypeCorrect == Spec => []TypeOK
<1>1. IInv => TypeOK BY DEF IInv
<1>2. QED BY <1>1, Inductive, PTL

\* Whatever calls of pump fail, wherever, and are tried again with other packs, no
\* row is written twice.
THEOREM WrittenOnce == Spec => []NoRowTwice
<1>1. IInv => NoRowTwice BY DEF IInv
<1>2. QED BY <1>1, Inductive, PTL

\* However many calls of pump fail, it holds one transaction open at most, the one in
\* its instance, which the next call or the end of the instance releases.
THEOREM HoldsOneTransaction == Spec => []HeldIsOne
<1>1. IInv => HeldIsOne
  <2>1. SUFFICES ASSUME open \subseteq {tra} PROVE HeldIsOne BY DEF IInv, Holding
  <2>2. open = {} \/ open = {tra} BY <2>1
  <2>3. QED BY <2>2, FS_EmptySet, FS_Singleton DEF HeldIsOne
<1>2. QED BY <1>1, Inductive, PTL

\* No BLOB is made in a transaction pump has ended, and none through a context whose
\* call has ended unless a trigger of the destination called the library before it.
THEOREM BlobsAreInLiveTransactions == Spec => []BlobInLiveTransaction
<1>1. IInv => BlobInLiveTransaction BY DEF IInv, BlobsPlaced, BlobInLiveTransaction
<1>2. QED BY <1>1, Inductive, PTL

\* A call of pump that succeeds has written and counted every row that was left.
THEOREM SuccessWritesAll == Spec => SuccessIsComplete
<1> DEFINE Complete ==
      /\ pump.first + 1 .. MaxRow \subseteq durable' \cup work'[Caller]
      /\ pump'.count = MaxRow - pump.first
<1>1. ASSUME IInv, [Next]_vars, Running, pump'.state = "ok" PROVE Complete
  <2>1. pump \in Call /\ work \in [Txn \cup {Caller} -> SUBSET Row] BY <1>1 DEF IInv, TypeOK
  <2>2. FinishPump
    BY <1>1, <2>1
    DEF Next, vars, StartPump, FailPrepare, FailStart, Begin, PumpRow, FailFetch, FailRow,
        FailCommit, FailFinish, Throw, OtherCall, FreeInstance, EndCaller, Running, Call
  <2>3. pump.first + 1 .. MaxRow \subseteq durable \cup work[tra]
        /\ pump.count = MaxRow - pump.first
    BY <1>1, <2>2 DEF FinishPump, IInv, Counted
  <2>4. pump'.count = pump.count BY <2>1, <2>2 DEF FinishPump, Call
  <2>5. durable \cup work[tra] \subseteq durable' \cup work'[Caller]
    <3>1. CASE Packed BY <2>2, <3>1 DEF FinishPump
    <3>2. CASE ~Packed
      <4>1. tra = Caller BY <1>1, <3>2 DEF IInv, Holding
      <4>2. QED BY <2>2, <3>2, <4>1 DEF FinishPump
    <3>3. QED BY <3>1, <3>2
  <2>6. QED BY <2>3, <2>4, <2>5
<1>2. IInv /\ [Next]_vars => [Running /\ pump'.state = "ok" => Complete]_vars BY <1>1
<1>3. QED BY <1>2, Inductive, PTL DEF Spec, SuccessIsComplete

\* A packed call of pump that fails loses the rows of one pack at most.
THEOREM FailureLosesAPack == Spec => FailureLosesOnePack
<1> DEFINE Lost == (pump.first + 1 .. at') \ durable'
<1>1. ASSUME IInv, [Next]_vars, Running, Packed, pump'.state = "failed"
      PROVE  Cardinality(Lost) <= pump.pack
  <2>1. /\ pump \in Call /\ at \in 0 .. MaxRow BY <1>1 DEF IInv, TypeOK
  <2>2. FailFetch \/ FailRow \/ FailCommit \/ FailFinish
    BY <1>1, <2>1
    DEF Next, vars, StartPump, FailPrepare, FailStart, Begin, PumpRow, FinishPump,
        OtherCall, FreeInstance, EndCaller, Running, Call
  <2>3. durable' = durable /\ at' \in {at, at + 1}
    BY <2>2 DEF FailFetch, FailRow, FailCommit, FailFinish, Throw
  <2>4. /\ pump.first + 1 .. at - pump.index \subseteq durable
        /\ pump.index < pump.pack
    BY <1>1 DEF IInv, Packing
  <2>5. pump.index \in Nat /\ pump.first \in Nat /\ pump.pack \in Nat /\ at \in Nat
    <3>1. /\ pump.index \in 0 .. MaxRow /\ pump.first \in 0 .. MaxRow
          /\ pump.pack \in Packs \cup {0}
      BY <2>1 DEF Call
    <3>2. Packs \cup {0} \subseteq Nat BY Constants
    <3>3. 0 .. MaxRow \subseteq Nat BY Constants
    <3>4. QED BY <2>1, <3>1, <3>2, <3>3, Zenon
  <2> DEFINE Pack == at - pump.index + 1 .. at + 1
  <2>6. Lost \subseteq Pack BY <2>3, <2>4, <2>5
  <2>7. IsFiniteSet(Pack) /\ Cardinality(Pack) = pump.index + 1
    <3> DEFINE a == at - pump.index + 1
               b == at + 1
    <3>1. a \in Int /\ b \in Int /\ ~(a > b) /\ b - a + 1 = pump.index + 1 BY <2>5
    <3> HIDE DEF a, b
    <3>2. IsFiniteSet(a .. b) /\ Cardinality(a .. b) = pump.index + 1
      BY <3>1, FS_Interval
    <3>3. QED BY <3>2 DEF a, b
  <2> HIDE DEF Lost, Pack
  <2>8. IsFiniteSet(Lost) /\ Cardinality(Lost) <= Cardinality(Pack)
    BY <2>6, <2>7, FS_Subset
  <2>9. Cardinality(Lost) \in Nat BY <2>8, FS_CardinalityType
  <2>10. QED BY <2>4, <2>5, <2>7, <2>8, <2>9
<1>2. IInv /\ [Next]_vars =>
        [Running /\ Packed /\ pump'.state = "failed" => Cardinality(Lost) <= pump.pack]_vars
  BY <1>1
<1>3. QED BY <1>2, Inductive, PTL DEF Spec, FailureLosesOnePack

=============================================================================
