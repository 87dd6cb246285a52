------------------------- MODULE ParamsBatchProofs --------------------------
(***************************************************************************)
(* Proofs about ParamsBatch, for any number of parameters: what an         *)
(* execution sends of the rows that were bound, and when it reads memory   *)
(* that is not there.                                                      *)
(***************************************************************************)
EXTENDS ParamsBatch, TLAPS

\* The values of p are its last rows, and its flags are those of the rows the caller
\* bound as long as there are no flags of rows bound before.
Rows(p) ==
    /\ Len(values[p]) <= Len(nulls[p]) /\ Len(nulls[p]) <= MaxRow
    /\ \A i \in 1 .. Len(values[p]) : values[p][i] = i + (Len(nulls[p]) - Len(values[p]))
    /\ Len(nulls[p]) > 0 => Len(values[p]) > 0
    /\ ~batchs => Len(nulls[p]) = 0
    /\ batchs => Len(asked[p]) <= Len(nulls[p])
    /\ batchs /\ ~func => Len(asked[p]) = Len(nulls[p])
    /\ batchs /\ Len(asked[p]) = Len(nulls[p]) =>
          \A i \in 1 .. Len(asked[p]) : asked[p][i] = IF nulls[p][i] THEN Null ELSE i

AllRows == \A p \in Param : Rows(p)

\* The inductive invariant.
IInv ==
    /\ TypeOK
    /\ AllRows
    /\ AlignedIsSent /\ OldRowsArePast
    /\ FreedNeedsNoBatch

-----------------------------------------------------------------------------
(* What the helpers of the model return.                                    *)

BoundRec == [to : {"none", "values", "copy", "freed"}, rows : Seq(Cell)]
SentRec == [how : {"none", "refused", "stmt", "func"}, n : 0 .. MaxRow,
            rows : [Param -> Seq(Cell)]]

LEMMA Constants == MaxRow \in Nat /\ MaxRow >= 1 /\ Null \notin 1 .. MaxRow
                   /\ Outside \notin 1 .. MaxRow /\ Null # Outside
BY BatchAssumption

LEMMA Looked ==
    ASSUME TypeOK, NEW p \in Param
    PROVE  /\ kind[p] \in Alternative
           /\ values[p] \in Seq(1 .. MaxRow) /\ nulls[p] \in Seq(BOOLEAN)
           /\ asked[p] \in Seq(Cell \ {Outside})
           /\ bound[p] \in BoundRec
BY DEF TypeOK, BoundRec

LEMMA RenewTypes ==
    ASSUME NEW x \in BOOLEAN, Renew(x)
    PROVE  /\ batchs' = x /\ kind' \in [Param -> Alternative]
           /\ values' \in [Param -> Seq(1 .. MaxRow)] /\ nulls' \in [Param -> Seq(BOOLEAN)]
           /\ \A p \in Param : values'[p] = <<>> /\ nulls'[p] = <<>>
BY DEF Renew, Empty, Alternative

LEMMA ForgetTypes ==
    ASSUME Forget
    PROVE  /\ asked' \in [Param -> Seq(Cell \ {Outside})]
           /\ \A p \in Param : asked'[p] = <<>>
BY DEF Forget, Empty

LEMMA FreedTypes == ASSUME TypeOK, NEW S PROVE Freed(S) \in [Param -> BoundRec]
<1>1. ASSUME NEW p \in Param PROVE [bound[p] EXCEPT !.to = "freed"] \in BoundRec
  BY Looked DEF BoundRec
<1>2. QED BY <1>1, Looked DEF Freed

LEMMA UnboundTypes == [p \in Param |-> Unbound] \in [Param -> BoundRec]
<1>1. Unbound \in BoundRec BY DEF Unbound, BoundRec
<1>2. QED BY <1>1

LEMMA NothingTypes ==
    /\ Nothing \in SentRec /\ Nothing.how = "none"
    /\ [Nothing EXCEPT !.how = "refused"] \in SentRec
    /\ [Nothing EXCEPT !.how = "refused"].how = "refused"
<1>1. [p \in Param |-> <<>>] \in [Param -> Seq(Cell)] OBVIOUS
<1>2. 0 \in 0 .. MaxRow BY Constants
<1>3. QED BY <1>1, <1>2 DEF Nothing, SentRec

\* Row i of parameter p is the value of a row bound, a null, or comes from past the end
\* of the values; it is the value of that row if the values kept up with the flags.
LEMMA RowsBound ==
    ASSUME TypeOK, NEW p \in Param, Rows(p), NEW n \in 1 .. MaxRow, NEW i \in 1 .. n,
           NEW past \in Past, ~(n = 1 /\ nulls[p] = <<>>)
    PROVE  /\ \/ RowBound(p, i, n, past) \in {Null} \cup 1 .. Len(nulls[p])
              \/ i > Len(values[p]) /\ RowBound(p, i, n, past) = Outside
           /\ RowBound(p, i, n, past) \in Cell
           /\ n <= Len(nulls[p]) /\ Len(values[p]) = Len(nulls[p]) =>
                 RowBound(p, i, n, past) = IF nulls[p][i] THEN Null ELSE i
<1> DEFINE v == values[p]
           f == nulls[p]
           row == RowBound(p, i, n, past)
           Found == row \in {Null} \cup 1 .. Len(f) \/ (i > Len(v) /\ row = Outside)
           Kept_up == n <= Len(f) /\ Len(v) = Len(f) => row = IF f[i] THEN Null ELSE i
<1>1. v \in Seq(1 .. MaxRow) /\ f \in Seq(BOOLEAN) /\ kind[p] \in Alternative BY Looked
<1>2. Len(v) \in Nat /\ Len(f) \in Nat /\ n \in Nat /\ i \in Nat /\ i >= 1 /\ i <= n
  BY <1>1, Constants
<1>3. Len(v) <= Len(f) /\ Len(f) <= MaxRow BY DEF Rows
<1>4. \A j \in 1 .. Len(v) : v[j] = j + (Len(f) - Len(v)) BY DEF Rows
<1>5. \A j \in 1 .. Len(v) : v[j] \in 1 .. Len(f)
  <2> HIDE DEF v, f
  <2>1. ASSUME NEW j \in 1 .. Len(v) PROVE v[j] \in 1 .. Len(f)
    <3>1. v[j] = j + (Len(f) - Len(v)) BY <1>4
    <3>2. j \in Nat /\ j >= 1 /\ j <= Len(v) BY <1>2
    <3>3. j + (Len(f) - Len(v)) \in 1 .. Len(f) BY <1>2, <1>3, <3>2
    <3>4. QED BY <3>1, <3>3
  <2>2. QED BY <2>1
<1>6. Len(f) > 0 => Len(v) > 0 BY DEF Rows
<1>7. Len(f) = 0 <=> f = <<>> BY <1>1
<1>8. Len(v) = Len(f) => \A j \in 1 .. Len(f) : v[j] = j BY <1>2, <1>4
<1>9. At(p, i) = IF i <= Len(v) THEN v[i] ELSE Outside BY DEF At
<1>10. Found => row \in Cell BY <1>2, <1>3, Constants DEF Cell
<1>11. Found /\ Kept_up
  <2>1. CASE n = 1
    <3>1. row = IF f[1] THEN Null ELSE v[1] BY <2>1 DEF RowBound
    <3>2. i = 1 /\ 1 \in 1 .. Len(f) /\ 1 \in 1 .. Len(v) BY <1>2, <1>6, <1>7, <2>1
    <3> HIDE DEF v, f, row
    <3>3. CASE f[1] BY <3>1, <3>2, <3>3
    <3>4. CASE ~f[1] BY <1>5, <1>8, <3>1, <3>2, <3>4
    <3>5. QED BY <3>3, <3>4
  <2>2. CASE n # 1 /\ kind[p] = "string"
    <3>1. row = IF Len(v) <= 1 THEN At(p, i)
                ELSE IF i > Len(v) \/ f[i] THEN Null ELSE v[i]
      BY <2>2 DEF RowBound
    <3> HIDE DEF v, f, row
    <3>2. CASE Len(v) <= 1
      <4>1. row = IF i <= Len(v) THEN v[i] ELSE Outside BY <1>9, <3>1, <3>2
      <4>2. ~(n <= Len(f) /\ Len(v) = Len(f)) BY <1>2, <2>2, <3>2
      <4>3. Found BY <1>2, <1>5, <4>1
      <4>4. QED BY <4>2, <4>3
    <3>3. CASE Len(v) > 1
      <4>1. row = IF i > Len(v) \/ f[i] THEN Null ELSE v[i] BY <1>2, <3>1, <3>3
      <4>2. Found BY <1>2, <1>5, <4>1
      <4>3. Kept_up BY <1>2, <1>8, <4>1
      <4>4. QED BY <4>2, <4>3
    <3>4. QED BY <1>2, <3>2, <3>3
  <2>3. CASE n # 1 /\ kind[p] = "binary"
    <3>1. row = IF i > Len(v) \/ f[i] THEN Null ELSE v[i] BY <2>3 DEF RowBound
    <3> HIDE DEF v, f, row
    <3>2. Found BY <1>2, <1>5, <3>1
    <3>3. Kept_up BY <1>2, <1>8, <3>1
    <3>4. QED BY <3>2, <3>3
  <2>4. CASE n # 1 /\ kind[p] \notin {"string", "binary"}
    <3>1. row = IF Flag(p, i, past) THEN Null ELSE At(p, i) BY <2>4 DEF RowBound
    <3>2. i <= Len(f) => (Flag(p, i, past) <=> f[i]) BY <1>1, <1>2 DEF Flag
    <3> HIDE DEF v, f, row
    <3>3. Found BY <1>2, <1>5, <1>9, <3>1
    <3>4. Kept_up BY <1>2, <1>8, <1>9, <3>1, <3>2
    <3>5. QED BY <3>3, <3>4
  <2>5. QED BY <2>1, <2>2, <2>3, <2>4
<1>12. QED BY <1>10, <1>11

LEMMA AtTypes ==
    ASSUME TypeOK, NEW p \in Param, NEW i \in Nat, i >= 1
    PROVE  At(p, i) \in Cell
<1> DEFINE v == values[p]
<1>1. v \in Seq(1 .. MaxRow) BY Looked
<1>2. At(p, i) = IF i <= Len(v) THEN v[i] ELSE Outside BY DEF At
<1> HIDE DEF v
<1>3. i <= Len(v) => v[i] \in 1 .. MaxRow
  <2>1. Len(v) \in Nat /\ DOMAIN v = 1 .. Len(v) BY <1>1
  <2>2. i <= Len(v) => i \in DOMAIN v BY <2>1
  <2> DEFINE S == 1 .. MaxRow
  <2>3. \A j \in DOMAIN v : v[j] \in S
    <3>1. v \in Seq(S) BY <1>1
    <3> HIDE DEF S
    <3>2. QED BY <3>1
  <2>4. QED BY <2>2, <2>3
<1>4. QED BY <1>2, <1>3 DEF Cell

LEMMA HeldTypes ==
    ASSUME TypeOK, NEW b \in [Param -> BoundRec], NEW p \in Param, NEW i \in Nat, i >= 1,
           NEW past \in Past
    PROVE  Held(b, p, i, past) \in Cell
<1> DEFINE s == b[p].rows
<1>1. s \in Seq(Cell) BY DEF BoundRec
<1>2. At(p, i) \in Cell /\ Null \in Cell /\ Outside \in Cell BY AtTypes DEF Cell
<1>3. i <= Len(s) => s[i] \in Cell BY <1>1
<1>4. Len(s) \in Nat BY <1>1
<1>5. Held(b, p, i, past) \in {Null, Outside, At(p, i)} \/ (i <= Len(s) /\ Held(b, p, i, past) = s[i])
  <2>1. CASE i > Len(s) BY <2>1 DEF Held
  <2>2. CASE ~(i > Len(s))
    <3> HIDE DEF s
    <3>1. i <= Len(s) BY <1>4, <2>2
    <3>2. QED BY <2>2, <3>1, Zenon DEF Held, s
  <2>3. QED BY <2>1, <2>2
<1>6. QED BY <1>2, <1>3, <1>5

LEMMA KeptTypes == ASSUME TypeOK, NEW past \in Past PROVE Kept(past) \in [Param -> BoundRec]
<1>1. bound \in [Param -> BoundRec] BY DEF TypeOK, BoundRec
<1> DEFINE rows(p) == [i \in DOMAIN bound[p].rows |-> Held(bound, p, i, past)]
           copy(p) == [to |-> "copy", rows |-> rows(p)]
<1>2. ASSUME NEW p \in Param PROVE copy(p) \in BoundRec
  <2> DEFINE s == bound[p].rows
  <2>1. s \in Seq(Cell) BY <1>1 DEF BoundRec
  <2>2. DOMAIN s = 1 .. Len(s) /\ Len(s) \in Nat BY <2>1
  <2>3. \A i \in DOMAIN s : Held(bound, p, i, past) \in Cell BY <1>1, <2>2, HeldTypes
  <2>4. rows(p) \in Seq(Cell) BY <2>2, <2>3
  <2> HIDE DEF rows
  <2>5. QED BY <2>4 DEF BoundRec
<1>3. Kept(past) = [p \in Param |-> IF bound[p].to = "values" THEN copy(p) ELSE bound[p]]
  BY DEF Kept
<1> HIDE DEF copy
<1>4. QED BY <1>1, <1>2, <1>3

LEMMA BoundBeforeTypes ==
    ASSUME TypeOK, AllRows, NEW m \in Nat, NEW n \in 1 .. MaxRow, NEW past \in Past,
           \A q \in Param : q < m => ~Missing(q, n)
    PROVE  BoundBefore(m, n, past) \in [Param -> BoundRec]
<1>1. ASSUME NEW q \in Param, batchs, q < m PROVE Bound(q, n, past) \in BoundRec
  <2>1. ~(n = 1 /\ nulls[q] = <<>>) BY <1>1 DEF Missing
  <2>2. \A i \in 1 .. n : RowBound(q, i, n, past) \in Cell BY <2>1, RowsBound DEF AllRows
  <2> DEFINE rows == [i \in 1 .. n |-> RowBound(q, i, n, past)]
             to == IF Copied(q, n) THEN "copy" ELSE "values"
  <2>3. n \in Nat BY Constants
  <2>4. rows \in Seq(Cell) BY <2>2, <2>3
  <2>5. to \in {"none", "values", "copy", "freed"} OBVIOUS
  <2>6. Bound(q, n, past) = [to |-> to, rows |-> rows] BY DEF Bound
  <2> HIDE DEF rows, to
  <2>7. QED BY <2>4, <2>5, <2>6 DEF BoundRec
<1>2. \A q \in Param : bound[q] \in BoundRec BY Looked
<1>3. QED BY <1>1, <1>2 DEF BoundBefore

LEMMA SendsTypes ==
    ASSUME TypeOK, NEW how \in {"stmt", "func"}, NEW b \in [Param -> BoundRec],
           NEW n \in 1 .. MaxRow, NEW past \in Past, Sends(how, b, n, past)
    PROVE  /\ sent' \in SentRec /\ fault' \in {"none", "no batch", "freed values"}
           /\ sent'.how \in {how, "refused"}
           /\ sent'.how = how =>
                /\ sent'.n = n
                /\ sent'.rows = [p \in Param |-> [i \in 1 .. n |-> Held(b, p, i, past)]]
           /\ fault' = fault \/ (fault' = "freed values" /\ \E p \in Param : b[p].to = "freed")
<1>1. CASE \E p \in Param : b[p].to = "none"
  <2>1. sent' = [Nothing EXCEPT !.how = "refused"] /\ fault' = fault
    BY <1>1 DEF Sends
  <2>2. QED BY <2>1, NothingTypes DEF TypeOK
<1>2. CASE ~\E p \in Param : b[p].to = "none"
  <2> DEFINE row(p) == [i \in 1 .. n |-> Held(b, p, i, past)]
             rows == [p \in Param |-> row(p)]
  <2>1. /\ sent' = [how |-> how, n |-> n, rows |-> rows]
        /\ fault' = IF \E p \in Param : b[p].to = "freed" THEN "freed values" ELSE fault
    BY <1>2 DEF Sends
  <2>2. ASSUME NEW p \in Param PROVE row(p) \in Seq(Cell)
    <3>1. n \in Nat BY Constants
    <3>2. \A i \in 1 .. n : Held(b, p, i, past) \in Cell BY <3>1, HeldTypes
    <3>3. QED BY <3>1, <3>2
  <2>3. rows \in [Param -> Seq(Cell)] BY <2>2
  <2>4. n \in 0 .. MaxRow BY Constants
  <2> HIDE DEF rows
  <2>5. sent' \in SentRec /\ sent'.how = how /\ sent'.n = n /\ sent'.rows = rows
    BY <2>1, <2>3, <2>4 DEF SentRec
  <2>6. QED BY <2>1, <2>5 DEF TypeOK, rows
<1>3. QED BY <1>1, <1>2

LEMMA PushTypes ==
    ASSUME TypeOK, NEW p \in Param, NEW alt \in Alternative, NEW k \in 1 .. MaxRow,
           NEW null \in BOOLEAN, Push(p, alt, k, null)
    PROVE  /\ kind' \in [Param -> Alternative] /\ values' \in [Param -> Seq(1 .. MaxRow)]
           /\ nulls' \in [Param -> Seq(BOOLEAN)] /\ bound' \in [Param -> BoundRec]
           /\ nulls'[p] = Append(nulls[p], null)
           /\ values'[p] = IF kind[p] = alt THEN Append(values[p], k) ELSE <<k>>
           /\ \A q \in Param \ {p} : nulls'[q] = nulls[q] /\ values'[q] = values[q]
<1>1. values[p] \in Seq(1 .. MaxRow) /\ nulls[p] \in Seq(BOOLEAN) BY Looked
<1>2. Append(values[p], k) \in Seq(1 .. MaxRow) /\ <<k>> \in Seq(1 .. MaxRow)
      /\ Append(nulls[p], null) \in Seq(BOOLEAN)
  BY <1>1
<1>3. kind' \in [Param -> Alternative] BY DEF Push, TypeOK
<1> DEFINE v == IF kind[p] = alt THEN Append(values[p], k) ELSE <<k>>
           f == Append(nulls[p], null)
<1>4. values' = [values EXCEPT ![p] = v] /\ nulls' = [nulls EXCEPT ![p] = f]
  BY Zenon DEF Push, PushValue
<1>5. v \in Seq(1 .. MaxRow) /\ f \in Seq(BOOLEAN) BY <1>2
<1>6. bound' \in [Param -> BoundRec]
  <2>1. bound' = Freed({p}) \/ bound' = bound BY Zenon DEF Push
  <2>2. Freed({p}) \in [Param -> BoundRec] BY FreedTypes
  <2>3. bound \in [Param -> BoundRec] BY DEF TypeOK, BoundRec
  <2>4. QED BY <2>1, <2>2, <2>3
<1> HIDE DEF v, f
<1>7. values' \in [Param -> Seq(1 .. MaxRow)] /\ nulls' \in [Param -> Seq(BOOLEAN)]
      /\ nulls'[p] = f /\ values'[p] = v
      /\ \A q \in Param \ {p} : nulls'[q] = nulls[q] /\ values'[q] = values[q]
  BY <1>4, <1>5 DEF TypeOK
<1>8. QED BY <1>3, <1>6, <1>7 DEF v, f

-----------------------------------------------------------------------------
(* Types and rows, action by action.                                        *)

LEMMA RenewKeeps ==
    ASSUME TypeOK, NEW x \in BOOLEAN, Renew(x), Forget, sent' = Nothing,
           prepared' \in BOOLEAN, func' \in BOOLEAN, bound' \in [Param -> BoundRec], fault' = fault
    PROVE  TypeOK' /\ AllRows'
<1>1. TypeOK'
  BY RenewTypes, ForgetTypes, NothingTypes DEF TypeOK, BoundRec, SentRec
<1>2. ASSUME NEW p \in Param PROVE Rows(p)'
  <2>1. values'[p] = <<>> /\ nulls'[p] = <<>> /\ asked'[p] = <<>>
    BY RenewTypes, ForgetTypes
  <2>2. QED BY <2>1, Constants DEF Rows
<1>3. QED BY <1>1, <1>2 DEF AllRows

LEMMA PrepareKeeps ==
    ASSUME TypeOK, AllRows,
           Prepare \/ FailPrepare \/ DescribeParameters \/ ResetParameters \/ Close
    PROVE  TypeOK' /\ AllRows'
<1>1. bound' \in [Param -> BoundRec]
  <2>1. \/ bound' \in {bound, Freed(Param), [p \in Param |-> Unbound]}
        \/ \E past \in Past : bound' = Kept(past)
    BY DEF Prepare, FailPrepare, DescribeParameters, ResetParameters, Close
  <2>2. bound \in [Param -> BoundRec] BY DEF TypeOK, BoundRec
  <2>3. QED BY <2>1, <2>2, FreedTypes, UnboundTypes, KeptTypes
<1>2. \E x \in BOOLEAN : Renew(x)
  BY DEF Prepare, FailPrepare, DescribeParameters, ResetParameters, Close
<1>3. prepared' \in BOOLEAN /\ func' \in BOOLEAN
  BY DEF Prepare, FailPrepare, DescribeParameters, ResetParameters, Close, TypeOK
<1>4. Forget /\ sent' = Nothing /\ fault' = fault
  BY DEF Prepare, FailPrepare, DescribeParameters, ResetParameters, Close
<1>5. QED BY <1>1, <1>2, <1>3, <1>4, RenewKeeps

LEMMA FuncPrepareKeeps == ASSUME TypeOK, AllRows, FuncPrepare PROVE TypeOK' /\ AllRows'
<1>1. /\ prepared' = TRUE /\ func' = TRUE /\ sent' = Nothing /\ Forget
      /\ bound' = [p \in Param |-> Unbound]
      /\ UNCHANGED <<batchs, kind, values, nulls, fault>>
  BY DEF FuncPrepare
<1>2. TypeOK'
  BY <1>1, ForgetTypes, UnboundTypes, NothingTypes DEF TypeOK, BoundRec, SentRec
<1>3. ASSUME NEW p \in Param PROVE Rows(p)'
  <2>1. asked'[p] = <<>> BY <1>1, ForgetTypes
  <2>2. Len(asked'[p]) = 0 BY <2>1
  <2>3. Len(nulls[p]) \in Nat BY Looked
  <2>4. values'[p] = values[p] /\ nulls'[p] = nulls[p] /\ func' BY <1>1
  <2>5. ~batchs' => ~batchs BY <1>1, Zenon
  <2>6. Rows(p) BY DEF AllRows
  <2>7. /\ Len(values'[p]) <= Len(nulls'[p]) /\ Len(nulls'[p]) <= MaxRow
        /\ \A i \in 1 .. Len(values'[p]) : values'[p][i] = i + (Len(nulls'[p]) - Len(values'[p]))
        /\ Len(nulls'[p]) > 0 => Len(values'[p]) > 0
    BY <2>4, <2>6 DEF Rows
  <2>8. ~batchs' => Len(nulls'[p]) = 0 BY <2>4, <2>5, <2>6 DEF Rows
  <2>9. Len(asked'[p]) <= Len(nulls'[p]) BY <2>2, <2>3, <2>4
  <2>10. \A i \in 1 .. Len(asked'[p]) : FALSE BY <2>2
  <2>11. QED BY <2>2, <2>4, <2>7, <2>8, <2>9, <2>10, Zenon DEF Rows
<1>4. QED BY <1>2, <1>3 DEF AllRows

\* A row more of p is bound, where there is a params_batchs.
LEMMA PushKeeps ==
    ASSUME TypeOK, AllRows, batchs, NEW p \in Param, MayBind(p), NEW alt \in Alternative,
           NEW null \in BOOLEAN, Push(p, alt, NextRow(p), null),
           asked' = [asked EXCEPT ![p] = Append(@, IF null THEN Null ELSE NextRow(p))],
           sent' = Nothing, UNCHANGED <<prepared, func, batchs, fault>>
    PROVE  TypeOK' /\ AllRows'
<1> DEFINE k == NextRow(p)
           x == IF null THEN Null ELSE k
           a == Append(asked[p], x)
<1>0. batchs' /\ (func' <=> func) BY Zenon
<1>1. /\ values[p] \in Seq(1 .. MaxRow) /\ nulls[p] \in Seq(BOOLEAN)
      /\ asked[p] \in Seq(Cell \ {Outside})
  BY Looked
<1>2. k = Len(nulls[p]) + 1 /\ k \in 1 .. MaxRow
  BY <1>1, Constants DEF NextRow, MayBind
<1>3. x \in Cell \ {Outside} BY <1>2, Constants DEF Cell
<1>4. asked' = [asked EXCEPT ![p] = a] BY Zenon
<1> HIDE DEF k
<1>5. /\ kind' \in [Param -> Alternative] /\ values' \in [Param -> Seq(1 .. MaxRow)]
      /\ nulls' \in [Param -> Seq(BOOLEAN)] /\ bound' \in [Param -> BoundRec]
      /\ nulls'[p] = Append(nulls[p], null)
      /\ values'[p] = IF kind[p] = alt THEN Append(values[p], k) ELSE <<k>>
      /\ \A q \in Param \ {p} : nulls'[q] = nulls[q] /\ values'[q] = values[q]
  <2>1. Push(p, alt, k, null) BY DEF k
  <2>2. QED BY <1>2, <2>1, PushTypes
<1> HIDE DEF x
<1>6. a \in Seq(Cell \ {Outside}) BY <1>1, <1>3
<1>7. /\ Len(a) = Len(asked[p]) + 1 /\ a[Len(a)] = x
      /\ \A i \in 1 .. Len(asked[p]) : a[i] = asked[p][i]
  BY <1>1, <1>3
<1> HIDE DEF a
<1>8. asked' \in [Param -> Seq(Cell \ {Outside})] /\ asked'[p] = a
      /\ \A q \in Param \ {p} : asked'[q] = asked[q]
  BY <1>4, <1>6 DEF TypeOK
<1>9. TypeOK'
  BY <1>5, <1>8, NothingTypes DEF TypeOK, BoundRec, SentRec
<1>10. ASSUME NEW q \in Param PROVE Rows(q)'
  <2>1. CASE q # p
    <3>1. values'[q] = values[q] /\ nulls'[q] = nulls[q] /\ asked'[q] = asked[q]
      BY <1>5, <1>8, <2>1
    <3>2. Rows(q) BY DEF AllRows
    <3>3. QED BY <1>0, <3>1, <3>2 DEF Rows
  <2>2. CASE q = p
    <3> DEFINE v == values[p]
               f == nulls[p]
               w == values'[p]
               g == nulls'[p]
    <3>1. Rows(p) BY DEF AllRows
    <3>2. Len(v) \in Nat /\ Len(f) \in Nat /\ Len(asked[p]) \in Nat BY <1>1
    <3>3. Len(g) = Len(f) + 1 /\ g[Len(g)] = null /\ \A i \in 1 .. Len(f) : g[i] = f[i]
      BY <1>1, <1>5
    <3>4. \/ w = <<k>>
          \/ /\ Len(w) = Len(v) + 1 /\ w[Len(w)] = k
             /\ \A i \in 1 .. Len(v) : w[i] = v[i]
      BY <1>1, <1>2, <1>5
    <3>5. /\ Len(v) <= Len(f)
          /\ \A i \in 1 .. Len(v) : v[i] = i + (Len(f) - Len(v))
          /\ Len(asked[p]) <= Len(f)
          /\ ~func => Len(asked[p]) = Len(f)
          /\ Len(asked[p]) = Len(f) =>
                \A i \in 1 .. Len(asked[p]) : asked[p][i] = IF f[i] THEN Null ELSE i
      BY <3>1 DEF Rows
    <3>6. k = Len(f) + 1 /\ k <= MaxRow BY <1>2, Constants
    <3> HIDE DEF v, f, w, g
    <3>7. Len(w) \in Nat /\ Len(w) >= 1 /\ Len(w) <= Len(g) /\ Len(g) <= MaxRow
      <4>1. Len(g) <= MaxRow BY <3>3, <3>6
      <4>2. CASE w = <<k>>
        <5>1. Len(w) = 1 BY <4>2
        <5>2. QED BY <3>2, <3>3, <4>1, <5>1
      <4>3. CASE Len(w) = Len(v) + 1 BY <3>2, <3>3, <3>5, <4>1, <4>3
      <4>4. QED BY <3>4, <4>2, <4>3
    <3>8. ASSUME NEW i \in 1 .. Len(w) PROVE w[i] = i + (Len(g) - Len(w))
      <4>1. CASE w = <<k>> BY <3>2, <3>3, <3>6, <4>1
      <4>2. CASE /\ Len(w) = Len(v) + 1 /\ w[Len(w)] = k
                 /\ \A j \in 1 .. Len(v) : w[j] = v[j]
        <5>1. CASE i = Len(w) BY <3>2, <3>3, <3>6, <4>2, <5>1
        <5>2. CASE i # Len(w)
          <6>1. i \in 1 .. Len(v) BY <3>2, <3>8, <4>2, <5>2
          <6>2. w[i] = i + (Len(f) - Len(v)) BY <3>5, <4>2, <6>1
          <6>3. QED BY <3>2, <3>3, <4>2, <6>1, <6>2
        <5>3. QED BY <5>1, <5>2
      <4>3. QED BY <3>4, <4>1, <4>2
    <3>9. /\ Len(a) <= Len(g)
          /\ ~func => Len(a) = Len(g)
      BY <1>7, <3>2, <3>3, <3>5
    <3>10. ASSUME Len(a) = Len(g), NEW i \in 1 .. Len(a)
           PROVE  a[i] = IF g[i] THEN Null ELSE i
      <4>1. Len(asked[p]) = Len(f)
        <5>1. Len(asked[p]) + 1 = Len(f) + 1 BY <1>7, <3>3, <3>10
        <5>2. QED BY <3>2, <5>1
      <4>2. CASE i = Len(a) BY <1>7, <3>2, <3>3, <3>6, <4>1, <4>2 DEF x
      <4>3. CASE i # Len(a)
        <5>1. i \in 1 .. Len(f) BY <1>7, <3>2, <4>1, <4>3
        <5>2. a[i] = asked[p][i] /\ g[i] = f[i] BY <1>7, <3>3, <4>1, <5>1
        <5>3. QED BY <3>5, <4>1, <5>1, <5>2
      <4>4. QED BY <4>2, <4>3
    <3>11. values'[q] = w /\ nulls'[q] = g /\ asked'[q] = a BY <1>8, <2>2 DEF w, g
    <3>12. Len(g) > 0 => Len(w) > 0 BY <3>7
    <3>13. QED BY <1>0, <2>2, <3>7, <3>8, <3>9, <3>10, <3>11, <3>12, Zenon DEF Rows
  <2>3. QED BY <2>1, <2>2
<1>11. QED BY <1>9, <1>10 DEF AllRows

\* Without a params_batchs nothing is kept of the rows, whatever the caller binds.
LEMMA NoBatchKeeps ==
    ASSUME TypeOK, AllRows, ~batchs, batchs' = batchs, func' = func,
           UNCHANGED <<values, nulls>>
    PROVE  AllRows'
<1>1. ASSUME NEW p \in Param PROVE Rows(p)'
  <2>1. Rows(p) BY DEF AllRows
  <2>2. ~batchs' BY Zenon
  <2>3. /\ Len(values'[p]) <= Len(nulls'[p]) /\ Len(nulls'[p]) <= MaxRow
        /\ \A i \in 1 .. Len(values'[p]) : values'[p][i] = i + (Len(nulls'[p]) - Len(values'[p]))
        /\ Len(nulls'[p]) > 0 => Len(values'[p]) > 0
        /\ Len(nulls'[p]) = 0
    BY <2>1 DEF Rows
  <2>4. QED BY <2>2, <2>3, Zenon DEF Rows
<1>2. QED BY <1>1 DEF AllRows

LEMMA BindKeeps ==
    ASSUME TypeOK, AllRows, NEW p \in Param, NEW t \in Type, NEW null \in BOOLEAN, Bind(p, t, null)
    PROVE  TypeOK' /\ AllRows'
<1> DEFINE k == NextRow(p)
           alt == Pushed(t, null)
           x == IF null THEN Null ELSE k
<1>1. alt \in Alternative BY BatchAssumption DEF Pushed, Alternative
<1>2. MayBind(p) /\ sent' = Nothing /\ UNCHANGED <<prepared, func, batchs, fault>>
      /\ asked' = [asked EXCEPT ![p] = Append(@, x)]
  BY DEF Bind
<1>3. CASE batchs
  <2>1. Push(p, alt, k, null) BY <1>3 DEF Bind
  <2> HIDE DEF alt
  <2>2. QED BY <1>1, <1>2, <1>3, <2>1, PushKeeps
<1>4. CASE ~batchs
  <2>1. UNCHANGED <<kind, values, nulls, bound>> BY <1>4 DEF Bind
  <2>2. asked[p] \in Seq(Cell \ {Outside}) BY Looked
  <2>3. k \in 1 .. MaxRow BY <1>2, <1>4, <2>2, Constants DEF NextRow, MayBind
  <2>4. x \in Cell \ {Outside} BY <2>3, Constants DEF Cell
  <2> DEFINE a == Append(asked[p], x)
  <2>5. asked' = [asked EXCEPT ![p] = a] BY <1>2, Zenon
  <2> HIDE DEF x
  <2>6. a \in Seq(Cell \ {Outside}) BY <2>2, <2>4
  <2> HIDE DEF a
  <2>7. asked' \in [Param -> Seq(Cell \ {Outside})]
        /\ \A q \in Param \ {p} : asked'[q] = asked[q]
    BY <2>5, <2>6 DEF TypeOK
  <2>8. TypeOK' BY <1>2, <2>1, <2>7, NothingTypes DEF TypeOK, SentRec
  <2>9. AllRows' BY <1>2, <1>4, <2>1, NoBatchKeeps
  <2>10. QED BY <2>8, <2>9
<1>5. QED BY <1>3, <1>4

LEMMA BindNullKeeps ==
    ASSUME TypeOK, AllRows, NEW p \in Param, BindNull(p)
    PROVE  TypeOK' /\ AllRows'
<1>1. MayBind(p) /\ sent' = Nothing /\ UNCHANGED <<prepared, func, batchs>>
  BY DEF BindNull
<1>2. CASE batchs
  <2> DEFINE n == TRUE
  <2>1. "ushort" \in Alternative BY DEF Alternative
  <2>2. /\ asked' = [asked EXCEPT ![p] = Append(@, Null)] /\ fault' = fault
        /\ Push(p, "ushort", NextRow(p), TRUE)
    BY <1>2 DEF BindNull
  <2>3. n \in BOOLEAN OBVIOUS
  <2>4. asked' = [asked EXCEPT ![p] = Append(@, IF n THEN Null ELSE NextRow(p))]
    BY <2>2
  <2>5. Push(p, "ushort", NextRow(p), n) BY <2>2
  <2> HIDE DEF n
  <2>6. QED BY <1>1, <1>2, <2>1, <2>2, <2>3, <2>4, <2>5, PushKeeps
<1>3. CASE ~batchs
  <2>1. fault' = "no batch" /\ UNCHANGED <<asked, kind, values, nulls, bound>>
    BY <1>3 DEF BindNull
  <2>2. TypeOK' BY <1>1, <2>1, NothingTypes DEF TypeOK, SentRec
  <2>3. AllRows' BY <1>1, <1>3, <2>1, NoBatchKeeps
  <2>4. QED BY <2>2, <2>3
<1>4. QED BY <1>2, <1>3

LEMMA BindNullBatchKeeps ==
    ASSUME TypeOK, AllRows, NEW p \in Param, NEW n \in 2 .. MaxRow, BindNullBatch(p, n)
    PROVE  TypeOK' /\ AllRows'
<1> DEFINE rows == [i \in 1 .. n |-> Null]
           b == [to |-> "copy", rows |-> rows]
<1>1. /\ sent' = Nothing
      /\ UNCHANGED <<prepared, func, batchs, kind, values, nulls, asked, fault>>
      /\ bound' = [bound EXCEPT ![p] = b]
  BY DEF BindNullBatch
<1>2. n \in Nat /\ Null \in Cell BY Constants DEF Cell
<1>3. rows \in Seq(Cell) BY <1>2
<1> HIDE DEF rows
<1>4. b \in BoundRec BY <1>3 DEF BoundRec
<1> HIDE DEF b
<1>5. bound' \in [Param -> BoundRec] BY <1>1, <1>4 DEF TypeOK, BoundRec
<1>6. TypeOK' BY <1>1, <1>5, NothingTypes DEF TypeOK, BoundRec, SentRec
<1>7. ASSUME NEW q \in Param PROVE Rows(q)'
  <2>1. Rows(q) BY DEF AllRows
  <2>2. (batchs' <=> batchs) /\ (func' <=> func) BY <1>1, Zenon
  <2>3. QED BY <1>1, <2>1, <2>2, Zenon DEF Rows
<1>8. QED BY <1>6, <1>7 DEF AllRows

LEMMA ClearBindingsKeeps ==
    ASSUME TypeOK, AllRows, ClearBindings
    PROVE  TypeOK' /\ AllRows'
<1>1. Forget /\ sent' = Nothing /\ UNCHANGED <<prepared, func, batchs, kind>>
  BY DEF ClearBindings
<1>2. CASE batchs
  <2>1. /\ values' = Empty /\ nulls' = Empty /\ fault' = fault
        /\ bound' = Freed({p \in Param : kind[p] = "string"})
    BY <1>2 DEF ClearBindings
  <2>2. /\ values' \in [Param -> Seq(1 .. MaxRow)] /\ nulls' \in [Param -> Seq(BOOLEAN)]
        /\ \A p \in Param : values'[p] = <<>> /\ nulls'[p] = <<>>
    BY <2>1 DEF Empty
  <2>3. TypeOK'
    BY <1>1, <2>1, <2>2, ForgetTypes, FreedTypes, NothingTypes DEF TypeOK, BoundRec, SentRec
  <2>4. ASSUME NEW p \in Param PROVE Rows(p)'
    <3>1. values'[p] = <<>> /\ nulls'[p] = <<>> /\ asked'[p] = <<>>
      BY <1>1, <2>2, ForgetTypes
    <3>2. QED BY <3>1, Constants DEF Rows
  <2>5. QED BY <2>3, <2>4 DEF AllRows
<1>3. CASE ~batchs
  <2>1. fault' = "no batch" /\ UNCHANGED <<values, nulls, bound>> BY <1>3 DEF ClearBindings
  <2>2. TypeOK' BY <1>1, <2>1, ForgetTypes, NothingTypes DEF TypeOK, SentRec
  <2>3. AllRows' BY <1>1, <1>3, <2>1, NoBatchKeeps
  <2>4. QED BY <2>2, <2>3
<1>4. QED BY <1>2, <1>3

LEMMA SameRowsKeep ==
    ASSUME TypeOK, AllRows, UNCHANGED <<batchs, values, nulls, asked>>,
           func' = func \/ func' = TRUE
    PROVE  AllRows'
<1>1. batchs' <=> batchs BY Zenon
<1>2. ~func' => ~func BY Zenon
<1>3. ASSUME NEW p \in Param PROVE Rows(p)'
  <2>1. Rows(p) BY DEF AllRows
  <2>2. QED BY <1>1, <1>2, <2>1, Zenon DEF Rows
<1>4. QED BY <1>3 DEF AllRows

LEMMA ExecuteKeeps ==
    ASSUME TypeOK, AllRows, NEW n \in 1 .. MaxRow, Execute(n) \/ FailExecute(n) \/ FuncExecute(n)
    PROVE  TypeOK' /\ AllRows'
<1>1. UNCHANGED <<prepared, batchs, kind, values, nulls, asked>>
  BY DEF Execute, FailExecute, FuncExecute
<1>2. func' = func \/ func' = TRUE BY DEF Execute, FailExecute, FuncExecute
<1>3. AllRows' BY <1>1, <1>2, SameRowsKeep
<1>4. CASE Execute(n)
  <2>0. PICK past \in Past :
          /\ bound' = BoundBefore(ParamCount + 1, n, past)
          /\ Sends("stmt", BoundBefore(ParamCount + 1, n, past), n, past)
    BY <1>4 DEF Execute
  <2> DEFINE b == BoundBefore(ParamCount + 1, n, past)
  <2>1. bound' = b /\ Sends("stmt", b, n, past) /\ func' = func BY <1>4, <2>0 DEF Execute
  <2>2. ParamCount + 1 \in Nat /\ \A q \in Param : ~Missing(q, n)
    BY <1>4, BatchAssumption DEF Execute
  <2>3. b \in [Param -> BoundRec] BY <2>2, BoundBeforeTypes
  <2> HIDE DEF b
  <2>4. sent' \in SentRec /\ fault' \in {"none", "no batch", "freed values"}
    BY <2>1, <2>3, SendsTypes
  <2>5. TypeOK' BY <1>1, <2>1, <2>3, <2>4 DEF TypeOK, BoundRec, SentRec
  <2>6. QED BY <1>3, <2>5
<1>5. CASE FailExecute(n)
  <2>1. PICK p \in Param :
          /\ \A q \in Param : q < p => ~Missing(q, n)
          /\ \E past \in Past : bound' = BoundBefore(p, n, past)
    BY <1>5 DEF FailExecute
  <2>2. p \in Nat BY BatchAssumption DEF Param
  <2>3. bound' \in [Param -> BoundRec] BY <2>1, <2>2, BoundBeforeTypes
  <2>4. sent' = [Nothing EXCEPT !.how = "refused"] /\ fault' = fault /\ func' = func
    BY <1>5 DEF FailExecute
  <2>5. TypeOK' BY <1>1, <2>3, <2>4, NothingTypes DEF TypeOK, BoundRec, SentRec
  <2>6. QED BY <1>3, <2>5
<1>6. CASE FuncExecute(n)
  <2>0. PICK past \in Past : Sends("func", bound, n, past) BY <1>6 DEF FuncExecute
  <2>1. func' = TRUE /\ Sends("func", bound, n, past) /\ bound' = bound
    BY <1>6, <2>0 DEF FuncExecute
  <2>2. bound \in [Param -> BoundRec] BY DEF TypeOK, BoundRec
  <2>3. sent' \in SentRec /\ fault' \in {"none", "no batch", "freed values"}
    BY <2>1, <2>2, SendsTypes
  <2>4. TypeOK' BY <1>1, <2>1, <2>2, <2>3 DEF TypeOK, BoundRec, SentRec
  <2>5. QED BY <1>3, <2>4
<1>7. QED BY <1>4, <1>5, <1>6

LEMMA StepKeeps == ASSUME TypeOK, AllRows, Next PROVE TypeOK' /\ AllRows'
<1>1. 2 .. MaxRow \subseteq 1 .. MaxRow BY Constants
<1>2. QED
  BY <1>1, PrepareKeeps, FuncPrepareKeeps, BindKeeps, BindNullKeeps, BindNullBatchKeeps,
     ClearBindingsKeeps, ExecuteKeeps
     DEF Next

-----------------------------------------------------------------------------
(* What an execution sends.                                                 *)

\* What ODBC finds in a parameter just bound is what was bound.
LEMMA HeldIsBound ==
    ASSUME TypeOK, NEW p \in Param, Rows(p), NEW n \in 1 .. MaxRow, NEW i \in 1 .. n,
           NEW past \in Past, ~(n = 1 /\ nulls[p] = <<>>),
           NEW b, b[p] = Bound(p, n, past)
    PROVE  Held(b, p, i, past) = RowBound(p, i, n, past)
<1> DEFINE rows == [j \in 1 .. n |-> RowBound(p, j, n, past)]
           to == IF Copied(p, n) THEN "copy" ELSE "values"
<1>1. b[p] = [to |-> to, rows |-> rows] BY DEF Bound
<1>2. n \in Nat /\ i \in Nat /\ 1 <= i /\ i <= n BY Constants
<1>3. Len(rows) = n /\ rows[i] = RowBound(p, i, n, past)
  <2>1. \A j \in 1 .. n : RowBound(p, j, n, past) \in Cell BY RowsBound
  <2>2. rows \in Seq(Cell) BY <1>2, <2>1
  <2>3. DOMAIN rows = 1 .. n OBVIOUS
  <2>4. rows[i] = RowBound(p, i, n, past) OBVIOUS
  <2> HIDE DEF rows
  <2>5. QED BY <1>2, <2>2, <2>3, <2>4
<1>4. ~Copied(p, n) /\ RowBound(p, i, n, past) # Null => RowBound(p, i, n, past) = At(p, i)
  <2> SUFFICES ASSUME ~Copied(p, n), RowBound(p, i, n, past) # Null
               PROVE  RowBound(p, i, n, past) = At(p, i)
    OBVIOUS
  <2>1. CASE n = 1
    <3>0. ~nulls[p][1] /\ RowBound(p, i, n, past) = IF nulls[p][1] THEN Null ELSE values[p][1]
      BY <2>1, Zenon DEF Copied, RowBound
    <3>1. RowBound(p, i, n, past) = values[p][1] /\ i = 1
      <4>1. i = 1 BY <1>2, <2>1
      <4>2. QED BY <3>0, <4>1, Zenon
    <3>2. values[p] \in Seq(1 .. MaxRow) /\ nulls[p] \in Seq(BOOLEAN) BY Looked
    <3>3. Len(nulls[p]) > 0 BY <2>1, <3>2
    <3>4. Len(values[p]) > 0 BY <3>3 DEF Rows
    <3>5. At(p, 1) = values[p][1] BY <3>2, <3>4 DEF At
    <3>6. QED BY <3>1, <3>5
  <2>2. CASE n # 1
    <3>1. kind[p] # "binary" /\ kind[p] # "string" BY <2>2 DEF Copied
    <3>2. QED BY <2>2, <3>1 DEF RowBound
  <2>3. QED BY <2>1, <2>2
<1> HIDE DEF rows, to
<1>5. b[p].to = to /\ b[p].rows = rows BY <1>1
<1>6. ~(i > Len(b[p].rows)) BY <1>2, <1>3, <1>5
<1>7. to = "values" => ~Copied(p, n) BY DEF to
<1>8. Held(b, p, i, past) = IF to = "values" /\ rows[i] # Null THEN At(p, i) ELSE rows[i]
  BY <1>5, <1>6, Zenon DEF Held
<1>9. QED BY <1>3, <1>4, <1>7, <1>8

\* With a params_batchs every parameter is bound anew before the rows go out.
LEMMA SentRows ==
    ASSUME TypeOK, AllRows, NEW n \in 1 .. MaxRow, Execute(n), batchs, sent'.how = "stmt"
    PROVE  /\ sent'.n = n
           /\ \E past \in Past : \A p \in Param : \A i \in 1 .. n :
                 sent'.rows[p][i] = RowBound(p, i, n, past)
           /\ \A p \in Param : DOMAIN sent'.rows[p] = 1 .. n
<1>0. PICK past \in Past : Sends("stmt", BoundBefore(ParamCount + 1, n, past), n, past)
  BY DEF Execute
<1> DEFINE b == BoundBefore(ParamCount + 1, n, past)
<1>1. Sends("stmt", b, n, past) BY <1>0
<1>2. ParamCount + 1 \in Nat /\ \A q \in Param : ~Missing(q, n)
  BY BatchAssumption DEF Execute
<1>3. b \in [Param -> BoundRec] BY <1>2, BoundBeforeTypes
<1>4. \A p \in Param : b[p] = Bound(p, n, past) BY BatchAssumption DEF BoundBefore, Param
<1> HIDE DEF b
<1>5. sent'.n = n
      /\ sent'.rows = [p \in Param |-> [i \in 1 .. n |-> Held(b, p, i, past)]]
  BY <1>1, <1>3, SendsTypes
<1>6. ASSUME NEW p \in Param, NEW i \in 1 .. n
      PROVE  sent'.rows[p][i] = RowBound(p, i, n, past)
  <2>1. ~(n = 1 /\ nulls[p] = <<>>) /\ Rows(p) BY <1>2 DEF Missing, AllRows
  <2>2. Held(b, p, i, past) = RowBound(p, i, n, past) BY <1>4, <2>1, HeldIsBound
  <2>3. QED BY <1>5, <2>2
<1>7. \A p \in Param : DOMAIN sent'.rows[p] = 1 .. n BY <1>5
<1>8. QED BY <1>5, <1>6, <1>7

LEMMA ExecuteSends ==
    ASSUME TypeOK, AllRows, NEW n \in 1 .. MaxRow, Execute(n), sent' \in SentRec
    PROVE  AlignedIsSent' /\ OldRowsArePast'
<1>1. UNCHANGED <<func, batchs, kind, values, nulls, asked>>
      /\ \A p \in Param : ~Missing(p, n)
  BY DEF Execute
<1>2. batchs' <=> batchs BY <1>1, Zenon
<1>3. func' <=> func BY <1>1, Zenon
<1>4. CASE ~batchs \/ sent'.how # "stmt"
  BY <1>2, <1>4 DEF AlignedIsSent, OldRowsArePast, Executed
<1>5. CASE batchs /\ sent'.how = "stmt"
  <2>1. sent'.n = n /\ n \in Nat /\ n >= 1 BY <1>5, SentRows, Constants
  <2>2. PICK past \in Past : \A p \in Param, i \in 1 .. n :
          sent'.rows[p][i] = RowBound(p, i, n, past)
    BY <1>5, SentRows
  <2>3. \A p \in Param : DOMAIN sent'.rows[p] = 1 .. n BY <1>5, SentRows
  <2>4. \A p \in Param : Rows(p) /\ ~(n = 1 /\ nulls[p] = <<>>)
    BY <1>1, <1>5 DEF AllRows, Missing
  <2>5. ASSUME NEW p \in Param, values[p] = [i \in 1 .. Len(nulls[p]) |-> i],
               Len(asked[p]) >= n, Len(nulls[p]) = Len(asked[p])
        PROVE  sent'.rows[p] = SubSeq(asked[p], 1, n)
    <3>1. nulls[p] \in Seq(BOOLEAN) /\ asked[p] \in Seq(Cell \ {Outside})
          /\ values[p] \in Seq(1 .. MaxRow)
      BY Looked
    <3>2. Len(nulls[p]) \in Nat /\ Len(asked[p]) \in Nat BY <3>1
    <3>3. Len(values[p]) = Len(nulls[p])
      <4>1. DOMAIN values[p] = 1 .. Len(nulls[p]) BY <2>5
      <4>2. QED BY <3>1, <3>2, <4>1
    <3>4. \A i \in 1 .. n : RowBound(p, i, n, past) = IF nulls[p][i] THEN Null ELSE i
      BY <2>4, <2>5, <3>2, <3>3, RowsBound
    <3>5. \A i \in 1 .. n : asked[p][i] = IF nulls[p][i] THEN Null ELSE i
      <4>1. \A i \in 1 .. Len(asked[p]) : asked[p][i] = IF nulls[p][i] THEN Null ELSE i
        BY <1>5, <2>4, <2>5 DEF Rows
      <4>2. 1 .. n \subseteq 1 .. Len(asked[p]) BY <2>1, <2>5, <3>2
      <4>3. QED BY <4>1, <4>2, Zenon
    <3>6. \A i \in 1 .. n : sent'.rows[p][i] = asked[p][i] BY <2>2, <3>4, <3>5
    <3>7. sent'.rows[p] \in Seq(Cell) BY DEF SentRec
    <3> DEFINE s == sent'.rows[p]
    <3>8. s \in Seq(Cell) /\ DOMAIN s = 1 .. n /\ \A i \in 1 .. n : s[i] = asked[p][i]
      BY <2>3, <3>6, <3>7
    <3> HIDE DEF s
    <3>9. s = SubSeq(asked[p], 1, n)
      <4>1. s = [i \in 1 .. n |-> asked[p][i]] BY <3>8
      <4>2. SubSeq(asked[p], 1, n) = [i \in 1 .. n |-> asked[p][i]]
        BY <2>1, <2>5, <3>1, <3>2
      <4>3. QED BY <4>1, <4>2
    <3>10. QED BY <3>9 DEF s
  <2>6. AlignedIsSent'
    BY <1>1, <2>1, <2>5 DEF AlignedIsSent, Aligned
  <2>7. ASSUME NEW p \in Param, NEW i \in 1 .. n, ~func
        PROVE  sent'.rows[p][i] \in DOMAIN asked[p] \cup {Null} \/ i > Len(values[p])
    <3>1. RowBound(p, i, n, past) \in {Null} \cup 1 .. Len(nulls[p]) \/ i > Len(values[p])
      BY <2>4, RowsBound
    <3>2. Len(asked[p]) = Len(nulls[p]) BY <1>5, <2>4, <2>7 DEF Rows
    <3>3. DOMAIN asked[p] = 1 .. Len(asked[p]) BY Looked
    <3>4. QED BY <2>2, <3>1, <3>2, <3>3
  <2>8. OldRowsArePast' BY <1>1, <1>3, <2>1, <2>7 DEF OldRowsArePast
  <2>9. QED BY <2>6, <2>8
<1>6. QED BY <1>4, <1>5

LEMMA StepSends ==
    ASSUME TypeOK, AllRows, Next
    PROVE  AlignedIsSent' /\ OldRowsArePast'
<1>1. CASE sent'.how # "stmt"
  BY <1>1 DEF AlignedIsSent, OldRowsArePast, Executed
<1>2. CASE \E n \in 1 .. MaxRow : Execute(n)
  <2>1. TypeOK' BY StepKeeps
  <2>2. sent' \in SentRec BY <2>1 DEF TypeOK, SentRec
  <2>3. QED BY <1>2, <2>2, ExecuteSends
<1>3. CASE \E n \in 1 .. MaxRow : FailExecute(n) \/ FuncExecute(n)
  <2>1. PICK n \in 1 .. MaxRow : FailExecute(n) \/ FuncExecute(n) BY <1>3
  <2>2. bound \in [Param -> BoundRec] BY DEF TypeOK, BoundRec
  <2>3. sent'.how # "stmt"
    <3>1. CASE FailExecute(n) BY <3>1, NothingTypes DEF FailExecute
    <3>2. CASE FuncExecute(n)
      <4>1. PICK past \in Past : Sends("func", bound, n, past) BY <3>2 DEF FuncExecute
      <4>2. sent'.how \in {"func", "refused"} BY <2>2, <4>1, SendsTypes
      <4>3. QED BY <4>2
    <3>3. QED BY <2>1, <3>1, <3>2
  <2>4. QED BY <1>1, <2>3
<1>4. ASSUME sent' = Nothing PROVE sent'.how # "stmt" BY <1>4, NothingTypes
<1>5. QED
  BY <1>1, <1>2, <1>3, <1>4
     DEF Next, Prepare, FailPrepare, FuncPrepare, BindNull, Bind, BindNullBatch, ClearBindings,
         DescribeParameters, ResetParameters, Close

LEMMA StepFreed == ASSUME TypeOK, AllRows, Next PROVE FreedNeedsNoBatch'
<1>1. fault = "none"
  BY DEF Next, Prepare, FailPrepare, FuncPrepare, BindNull, Bind, MayBind, BindNullBatch,
     ClearBindings, DescribeParameters, ResetParameters, Close, Execute, FailExecute, FuncExecute,
     Usable
<1>2. CASE fault' # "freed values" BY <1>2 DEF FreedNeedsNoBatch
<1>3. CASE \E n \in 1 .. MaxRow : FuncExecute(n)
  BY <1>3 DEF FuncExecute, FreedNeedsNoBatch
<1>4. CASE \E n \in 1 .. MaxRow : Execute(n)
  <2>1. PICK n \in 1 .. MaxRow : Execute(n) BY <1>4
  <2>0. PICK past \in Past : Sends("stmt", BoundBefore(ParamCount + 1, n, past), n, past)
    BY <2>1 DEF Execute
  <2> DEFINE b == BoundBefore(ParamCount + 1, n, past)
  <2>2. Sends("stmt", b, n, past) /\ batchs' = batchs BY <2>0, <2>1 DEF Execute
  <2>3. ParamCount + 1 \in Nat /\ \A q \in Param : ~Missing(q, n)
    BY <2>1, BatchAssumption DEF Execute
  <2>4. b \in [Param -> BoundRec] BY <2>3, BoundBeforeTypes
  <2>5. batchs => \A p \in Param : b[p].to # "freed"
    BY BatchAssumption DEF BoundBefore, Bound, Param
  <2> HIDE DEF b
  <2>6. fault' = fault \/ (fault' = "freed values" /\ \E p \in Param : b[p].to = "freed")
    BY <2>2, <2>4, SendsTypes
  <2>7. fault' = fault \/ ~batchs' BY <2>2, <2>5, <2>6, Zenon
  <2>8. QED BY <1>1, <1>2, <2>7 DEF FreedNeedsNoBatch
<1>5. ASSUME fault' = fault \/ fault' = "no batch" PROVE fault' # "freed values"
  BY <1>1, <1>5
<1>6. QED
  BY <1>2, <1>3, <1>4, <1>5
     DEF Next, Prepare, FailPrepare, FuncPrepare, BindNull, Bind, BindNullBatch, ClearBindings,
         DescribeParameters, ResetParameters, Close, FailExecute

-----------------------------------------------------------------------------
(* The theorems.                                                            *)

LEMMA InitIInv == Init => IInv
<1> SUFFICES ASSUME Init PROVE IInv
  OBVIOUS
<1>1. TypeOK
  <2>1. /\ kind \in [Param -> Alternative] /\ values \in [Param -> Seq(1 .. MaxRow)]
        /\ nulls \in [Param -> Seq(BOOLEAN)] /\ asked \in [Param -> Seq(Cell \ {Outside})]
    BY DEF Init, Empty, Alternative
  <2>2. bound \in [Param -> BoundRec] /\ sent \in SentRec
    BY UnboundTypes, NothingTypes DEF Init
  <2>3. QED BY <2>1, <2>2 DEF Init, TypeOK, BoundRec, SentRec
<1>2. ASSUME NEW p \in Param PROVE Rows(p)
  <2>1. values[p] = <<>> /\ nulls[p] = <<>> /\ asked[p] = <<>>
    BY DEF Init, Empty
  <2>2. QED BY <2>1, Constants DEF Rows
<1>3. sent.how # "stmt" BY NothingTypes DEF Init
<1>4. AlignedIsSent /\ OldRowsArePast
  BY <1>3 DEF AlignedIsSent, OldRowsArePast, Executed
<1>5. FreedNeedsNoBatch BY DEF Init, FreedNeedsNoBatch
<1>6. QED BY <1>1, <1>2, <1>4, <1>5 DEF IInv, AllRows

LEMMA StepKeepsIInv == IInv /\ [Next]_vars => IInv'
<1>1. ASSUME IInv, Next PROVE IInv'
  BY <1>1, StepKeeps, StepSends, StepFreed DEF IInv
<1>2. ASSUME IInv, UNCHANGED vars PROVE IInv'
  <2>1. TypeOK' BY <1>2 DEF IInv, TypeOK, vars
  <2>2. AllRows'
    <3>1. UNCHANGED <<batchs, values, nulls, asked, func>> BY <1>2 DEF vars
    <3>2. QED BY <1>2, <3>1, SameRowsKeep DEF IInv
  <2>3. (AlignedIsSent' <=> AlignedIsSent) /\ (OldRowsArePast' <=> OldRowsArePast)
    BY <1>2 DEF AlignedIsSent, Aligned, OldRowsArePast, Executed, vars
  <2>4. FreedNeedsNoBatch' BY <1>2 DEF IInv, FreedNeedsNoBatch, vars
  <2>5. QED BY <1>2, <2>1, <2>2, <2>3, <2>4 DEF IInv
<1>3. QED BY <1>1, <1>2

LEMMA RowsAreTheLast == ASSUME TypeOK, AllRows PROVE ValuesAreTheLast
<1>1. ASSUME NEW p \in Param
      PROVE  /\ Len(values[p]) <= Len(nulls[p])
             /\ \E d \in 0 .. MaxRow : \A i \in DOMAIN values[p] : values[p][i] = i + d
  <2>1. Len(values[p]) \in Nat /\ Len(nulls[p]) \in Nat BY Looked
  <2>2. Rows(p) BY DEF AllRows
  <2>3. Len(nulls[p]) - Len(values[p]) \in 0 .. MaxRow BY <2>1, <2>2, Constants DEF Rows
  <2>4. DOMAIN values[p] = 1 .. Len(values[p]) BY Looked
  <2>5. \A i \in DOMAIN values[p] : values[p][i] = i + (Len(nulls[p]) - Len(values[p]))
    BY <2>2, <2>4, Zenon DEF Rows
  <2>6. Len(values[p]) <= Len(nulls[p]) BY <2>2 DEF Rows
  <2>7. QED BY <2>3, <2>5, <2>6
<1>2. QED BY <1>1 DEF ValuesAreTheLast

\* The strengthening is an invariant of the parameters of a statement.
THEOREM Inductive == Spec => []IInv
BY InitIInv, StepKeepsIInv, PTL DEF Spec

\* The vectors, the bindings and what is sent keep their types.
THEOREM TypeCorrect == Spec => []TypeOK
<1>1. IInv => TypeOK BY DEF IInv
<1>2. QED BY <1>1, Inductive, PTL

\* An execution sends the rows that were bound, row by row and with their nulls, for
\* every parameter whose values kept up with its flags.
THEOREM BoundIsSent == Spec => []AlignedIsSent
<1>1. IInv => AlignedIsSent BY DEF IInv
<1>2. QED BY <1>1, Inductive, PTL

\* A vector of values that fell behind its flags holds the last rows bound.
THEOREM VectorsHoldTheLast == Spec => []ValuesAreTheLast
<1>1. IInv => ValuesAreTheLast BY RowsAreTheLast DEF IInv
<1>2. QED BY <1>1, Inductive, PTL

\* Without nano$func a row of an earlier query or of a cleared batch is sent only in
\* the place of a row past the end of a parameter's values.
THEOREM OldRowsComeFromPast == Spec => []OldRowsArePast
<1>1. IInv => OldRowsArePast BY DEF IInv
<1>2. QED BY <1>1, Inductive, PTL

\* Pointers to values that are gone are followed only by an execution of nano$func or
\* of a statement without params_batchs.
THEOREM FreedHasCause == Spec => []FreedNeedsNoBatch
<1>1. IInv => FreedNeedsNoBatch BY DEF IInv
<1>2. QED BY <1>1, Inductive, PTL

=============================================================================
