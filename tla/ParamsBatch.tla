---------------------------- MODULE ParamsBatch -----------------------------
(***************************************************************************)
(* The parameters of one statement (src/src/stmt.cpp): the rows a caller   *)
(* binds are collected in params_batchs, one vector of values and one of   *)
(* null flags per parameter, and handed to ODBC by bind_parameters when    *)
(* the statement executes.                                                 *)
(*                                                                         *)
(* The vector of values is a variant: a value of another type empties it,  *)
(* the flags stay.  A vector that is cleared keeps its memory, and nothing *)
(* keeps bind_parameters from leading ODBC past the end of a vector: what  *)
(* is read there may be a row of before, a flag of before, or anything.    *)
(* ODBC keeps pointers into the vectors between executions, except for the *)
(* strings and binaries nanodbc copies.  The functions of the func package *)
(* execute without bind_parameters, with what ODBC was last told, and      *)
(* prepare without prepare_parameters.                                     *)
(*                                                                         *)
(* A value is the number of the bind call that brought it.                 *)
(***************************************************************************)
EXTENDS Naturals, Sequences, FiniteSets

CONSTANTS
    ParamCount,  \* parameters of the query
    MaxRow,      \* bound: bind calls per parameter, rows of a batch
    Type,        \* the Firebird types bound: "smallint", "integer", "varchar", "blob"
    Null,        \* a null in a parameter
    Outside      \* what memory holds past the end of a vector, rows of before included

Param == 1 .. ParamCount
Alternative == {"short", "ushort", "long", "string", "binary"}

\* nanodbc's null indicators have room for 8 rows at least.
ASSUME BatchAssumption ==
    /\ ParamCount \in Nat \ {0}
    /\ MaxRow \in 1 .. 8
    /\ Type \subseteq {"smallint", "integer", "varchar", "blob"}
    /\ Null \notin Nat /\ Outside \notin Nat \cup {Null}

VARIABLES
    prepared,  \* the ODBC statement is prepared
    batchs,    \* params_batchs exists
    kind,      \* the alternative each parameter's values hold
    values,    \* the values of each parameter
    nulls,     \* its null flags
    bound,     \* what ODBC was told of each parameter
    asked,     \* history: the rows the caller bound, by parameter
    func,      \* history: nano$func was used with the statement
    sent,      \* the rows the last step sent to ODBC
    fault      \* memory that is not there was used

vars == <<prepared, batchs, kind, values, nulls, bound, asked, func, sent, fault>>

Cell == 1 .. MaxRow \cup {Null, Outside}
Nothing == [how |-> "none", n |-> 0, rows |-> [p \in Param |-> <<>>]]
Unbound == [to |-> "none", rows |-> <<>>]

TypeOK ==
    /\ prepared \in BOOLEAN /\ batchs \in BOOLEAN
    /\ kind \in [Param -> Alternative]
    /\ values \in [Param -> Seq(1 .. MaxRow)]
    /\ nulls \in [Param -> Seq(BOOLEAN)]
    /\ bound \in [Param -> [to : {"none", "values", "copy", "freed"}, rows : Seq(Cell)]]
    /\ asked \in [Param -> Seq(Cell \ {Outside})]
    /\ func \in BOOLEAN
    /\ sent \in [how : {"none", "refused", "stmt", "func"}, n : 0 .. MaxRow,
                 rows : [Param -> Seq(Cell)]]
    /\ fault \in {"none", "no batch", "freed values"}

-----------------------------------------------------------------------------

\* The alternative a bind call pushes.
Pushed(t, null) ==
    CASE t = "smallint" -> "short"
      [] t = "integer" -> "long"
      [] t = "varchar" -> "string"
      [] t = "blob" -> IF null THEN "string" ELSE "binary"

\* A value of another alternative empties the vector.
PushValue(p, alt, k) ==
    values' = [values EXCEPT ![p] = IF kind[p] = alt THEN Append(@, k) ELSE <<k>>]

\* ODBC's pointers to what moved or was destroyed.
Freed(S) == [p \in Param |-> IF p \in S /\ bound[p].to = "values"
                             THEN [bound[p] EXCEPT !.to = "freed"] ELSE bound[p]]

\* params_batchs::push.  Whether push_back moves the values is the library's choice.
Push(p, alt, k, null) ==
    /\ kind' = [kind EXCEPT ![p] = alt]
    /\ PushValue(p, alt, k)
    /\ nulls' = [nulls EXCEPT ![p] = Append(@, null)]
    /\ \/ bound' = Freed({p})
       \/ kind[p] = alt /\ UNCHANGED bound

At(p, i) == IF i <= Len(values[p]) THEN values[p][i] ELSE Outside

\* Null flags that memory may hold past the end of the vectors of flags.
Past == SUBSET (Param \X (1 .. MaxRow))

Flag(p, i, past) == IF i <= Len(nulls[p]) THEN nulls[p][i] ELSE <<p, i>> \in past

\* What ODBC finds in row i of parameter p when bind_parameters binds n rows.
RowBound(p, i, n, past) ==
    IF n = 1 THEN IF nulls[p][1] THEN Null ELSE values[p][1]
    ELSE CASE kind[p] = "string" ->
                IF Len(values[p]) <= 1 THEN At(p, i)
                ELSE IF i > Len(values[p]) \/ nulls[p][i] THEN Null ELSE values[p][i]
           [] kind[p] = "binary" ->
                IF i > Len(values[p]) \/ nulls[p][i] THEN Null ELSE values[p][i]
           [] OTHER ->
                IF Flag(p, i, past) THEN Null ELSE At(p, i)

\* A batch of strings or binaries is copied by nanodbc, and so is a null.
Copied(p, n) ==
    \/ kind[p] = "binary"
    \/ kind[p] = "string" /\ n # 1
    \/ n = 1 /\ nulls[p][1]

\* Mutant of Bound: the second row of the batch is bound first.
BoundLate(p, n, past) ==
    [to |-> "copy",
     rows |-> [i \in 1 .. n |-> IF n > 1 THEN At(p, i + 1) ELSE RowBound(p, i, n, past)]]

Bound(p, n, past) ==
    [to |-> IF Copied(p, n) THEN "copy" ELSE "values",
     rows |-> [i \in 1 .. n |-> RowBound(p, i, n, past)]]

\* bind_parameters has bound the parameters before p.
BoundBefore(p, n, past) ==
    [q \in Param |-> IF batchs /\ q < p THEN Bound(q, n, past) ELSE bound[q]]

\* What b leads ODBC to in row i of p: nulls and copies stay what they were, a pointer
\* to the values leads to what they are by now.
Held(b, p, i, past) ==
    IF i > Len(b[p].rows) THEN IF <<p, i>> \in past THEN Null ELSE Outside
    ELSE IF b[p].to = "values" /\ b[p].rows[i] # Null THEN At(p, i)
    ELSE b[p].rows[i]

\* A params_batchs nobody frees: its values stay what they were.
Kept(past) ==
    [p \in Param |-> IF bound[p].to = "values"
                     THEN [to |-> "copy", rows |-> [i \in DOMAIN bound[p].rows |->
                                                       Held(bound, p, i, past)]]
                     ELSE bound[p]]

\* is_null throws: one row is wanted and the parameter has none.
Missing(p, n) == batchs /\ n = 1 /\ nulls[p] = <<>>

Empty == [p \in Param |-> <<>>]

\* A new params_batchs, or none.
Renew(exists) ==
    /\ batchs' = exists
    /\ kind' = [p \in Param |-> "short"]
    /\ values' = Empty
    /\ nulls' = Empty

\* The caller starts over.
Forget == asked' = Empty

\* ODBC executes n rows of what it was told.
Sends(how, b, n, past) ==
    IF \E p \in Param : b[p].to = "none"
    THEN /\ sent' = [Nothing EXCEPT !.how = "refused"]
         /\ UNCHANGED fault
    ELSE /\ sent' = [how |-> how, n |-> n,
                     rows |-> [p \in Param |-> [i \in 1 .. n |-> Held(b, p, i, past)]]]
         /\ fault' = IF \E p \in Param : b[p].to = "freed" THEN "freed values" ELSE fault

Usable == fault = "none"

\* The number of the next bind call of p.
NextRow(p) == Len(IF batchs THEN nulls[p] ELSE asked[p]) + 1

MayBind(p) == Usable /\ Len(asked[p]) < MaxRow /\ NextRow(p) <= MaxRow

Init ==
    /\ prepared = FALSE
    /\ batchs = FALSE
    /\ kind = [p \in Param |-> "short"]
    /\ values = Empty
    /\ nulls = Empty
    /\ bound = [p \in Param |-> Unbound]
    /\ asked = Empty
    /\ func = FALSE
    /\ sent = Nothing
    /\ fault = "none"

-----------------------------------------------------------------------------

\* Mutant of Prepare: the rows of the old query stay.
PrepareKeepsRows ==
    /\ Usable
    /\ prepared' = TRUE
    /\ batchs' = TRUE
    /\ UNCHANGED <<func, kind, values, nulls, bound, fault>>
    /\ Forget
    /\ sent' = Nothing

\* stmt$prepare on the connection the statement has.
Prepare ==
    /\ Usable
    /\ prepared' = TRUE
    /\ Renew(TRUE)
    /\ bound' = IF batchs THEN Freed(Param) ELSE bound
    /\ Forget
    /\ sent' = Nothing
    /\ func' = FALSE
    /\ UNCHANGED fault

\* ODBC does not prepare the query, or prepares it and does not count its parameters.
FailPrepare ==
    /\ Usable
    /\ prepared' \in BOOLEAN
    /\ Renew(FALSE)
    /\ bound' = IF batchs THEN Freed(Param) ELSE bound
    /\ Forget
    /\ sent' = Nothing
    /\ UNCHANGED <<func, fault>>

\* func$prepare_stmt: a new handle, prepared; params_batchs is not told.
FuncPrepare ==
    /\ Usable
    /\ prepared' = TRUE
    /\ func' = TRUE
    /\ bound' = [p \in Param |-> Unbound]
    /\ Forget
    /\ sent' = Nothing
    /\ UNCHANGED <<batchs, kind, values, nulls, fault>>

\* stmt$bind: without params_batchs it reports success and does nothing.
Bind(p, t, null) ==
    /\ MayBind(p)
    /\ LET k == NextRow(p) IN
        /\ asked' = [asked EXCEPT ![p] = Append(@, IF null THEN Null ELSE k)]
        /\ IF batchs
           THEN Push(p, Pushed(t, null), k, null)
           ELSE UNCHANGED <<kind, values, nulls, bound>>
    /\ sent' = Nothing
    /\ UNCHANGED <<prepared, func, batchs, fault>>

\* stmt$bind_null of one row: the value pushed beside the flag is an unsigned short.
BindNull(p) ==
    /\ MayBind(p)
    /\ IF batchs
       THEN /\ asked' = [asked EXCEPT ![p] = Append(@, Null)]
            /\ Push(p, "ushort", NextRow(p), TRUE)
            /\ UNCHANGED fault
       ELSE /\ fault' = "no batch"
            /\ UNCHANGED <<asked, kind, values, nulls, bound>>
    /\ sent' = Nothing
    /\ UNCHANGED <<prepared, func, batchs>>

\* stmt$bind_null of another batch_size: ODBC is told, params_batchs is not.
BindNullBatch(p, n) ==
    /\ Usable /\ prepared /\ n # 1
    /\ bound' = [bound EXCEPT ![p] = [to |-> "copy", rows |-> [i \in 1 .. n |-> Null]]]
    /\ sent' = Nothing
    /\ UNCHANGED <<prepared, func, batchs, kind, values, nulls, asked, fault>>

\* Mutant of ClearBindings: the values stay.
ClearBindingsKeepsValues ==
    /\ Usable /\ batchs
    /\ nulls' = Empty
    /\ Forget
    /\ sent' = Nothing
    /\ UNCHANGED <<prepared, func, batchs, kind, values, bound, fault>>

\* stmt$clear_bindings: the vectors keep their memory, strings are destroyed in it.
ClearBindings ==
    /\ Usable
    /\ IF batchs
       THEN /\ values' = Empty
            /\ nulls' = Empty
            /\ bound' = Freed({p \in Param : kind[p] = "string"})
            /\ UNCHANGED fault
       ELSE /\ fault' = "no batch"
            /\ UNCHANGED <<values, nulls, bound>>
    /\ Forget
    /\ sent' = Nothing
    /\ UNCHANGED <<prepared, func, batchs, kind>>

\* stmt$describe_parameters: a new params_batchs; the old one is not freed.
DescribeParameters ==
    /\ Usable /\ prepared
    /\ \E exists \in BOOLEAN : Renew(exists)
    /\ \E past \in Past : bound' = Kept(past)
    /\ Forget
    /\ sent' = Nothing
    /\ UNCHANGED <<prepared, func, fault>>

\* stmt$reset_parameters
ResetParameters ==
    /\ Usable
    /\ Renew(FALSE)
    /\ bound' = [p \in Param |-> Unbound]
    /\ Forget
    /\ sent' = Nothing
    /\ UNCHANGED <<prepared, func, fault>>

\* stmt$close, and the first half of stmt$open, stmt$prepare_direct and stmt$execute_direct.
Close ==
    /\ Usable
    /\ prepared' = FALSE
    /\ Renew(FALSE)
    /\ bound' = [p \in Param |-> Unbound]
    /\ Forget
    /\ sent' = Nothing
    /\ UNCHANGED <<func, fault>>

\* Mutant of Execute: what ODBC was told before is taken for good.
ExecuteBoundOnce(n) ==
    /\ Usable /\ prepared
    /\ \A p \in Param : ~Missing(p, n)
    /\ LET b == IF \E p \in Param : bound[p].to = "none" THEN BoundBefore(ParamCount + 1, n, {})
                ELSE bound IN
        /\ bound' = b
        /\ Sends("stmt", b, n, {})
    /\ UNCHANGED <<prepared, func, batchs, kind, values, nulls, asked>>

\* stmt$execute and stmt$just_execute: bind every parameter, then execute.
Execute(n) ==
    /\ Usable /\ prepared
    /\ \A p \in Param : ~Missing(p, n)
    /\ \E past \in Past :
        /\ bound' = BoundBefore(ParamCount + 1, n, past)
        /\ Sends("stmt", BoundBefore(ParamCount + 1, n, past), n, past)
    /\ UNCHANGED <<prepared, func, batchs, kind, values, nulls, asked>>

\* A parameter has no row, ODBC refuses to bind one, or the statement is not
\* prepared: those before it are bound.
FailExecute(n) ==
    /\ Usable
    /\ \E p \in Param :
        /\ \A q \in Param : q < p => ~Missing(q, n)
        /\ \E past \in Past : bound' = BoundBefore(p, n, past)
    /\ sent' = [Nothing EXCEPT !.how = "refused"]
    /\ UNCHANGED <<prepared, func, batchs, kind, values, nulls, asked, fault>>

\* func$execute_stmt and the like: execute with what ODBC was last told.
FuncExecute(n) ==
    /\ Usable /\ prepared
    /\ func' = TRUE
    /\ \E past \in Past : Sends("func", bound, n, past)
    /\ UNCHANGED <<prepared, batchs, kind, values, nulls, bound, asked>>

Next ==
    \/ Prepare \/ FailPrepare \/ FuncPrepare
    \/ \E p \in Param : BindNull(p) \/ \E t \in Type, null \in BOOLEAN : Bind(p, t, null)
    \/ \E p \in Param, n \in 2 .. MaxRow : BindNullBatch(p, n)
    \/ ClearBindings \/ DescribeParameters \/ ResetParameters \/ Close
    \/ \E n \in 1 .. MaxRow : Execute(n) \/ FailExecute(n) \/ FuncExecute(n)

Spec == Init /\ [][Next]_vars

-----------------------------------------------------------------------------
(* Properties.                                                              *)

Executed == sent.how = "stmt"

\* The values and the flags of p are those of the same rows.
Aligned(p) == values[p] = [i \in 1 .. Len(nulls[p]) |-> i]

\* The rows the caller bound are the ones sent, for every parameter whose values kept
\* up with its flags, in a batch of any size up to what was bound, whatever ODBC was
\* told, memory holds or nano$func did before.
AlignedIsSent ==
    Executed /\ batchs => \A p \in Param :
        Aligned(p) /\ Len(asked[p]) >= sent.n /\ asked[p] # <<>> /\ Len(nulls[p]) = Len(asked[p])
            => sent.rows[p] = SubSeq(asked[p], 1, sent.n)

\* Values fall behind the flags only by a row of another alternative, and they then are
\* the last rows bound: none is lost from the middle and none is invented.
ValuesAreTheLast ==
    \A p \in Param :
        /\ Len(values[p]) <= Len(nulls[p])
        /\ \E d \in 0 .. MaxRow : \A i \in DOMAIN values[p] : values[p][i] = i + d

\* An execution that binds the parameters again never follows a pointer to values that
\* moved, were cleared or were freed since: only one of nano$func does, and one of a
\* statement that has no params_batchs, as a failed prepare leaves it, or a
\* describe_parameters that finds no parameters.
FreedNeedsNoBatch == fault = "freed values" => func \/ ~batchs

\* Without nano$func no row of an earlier query or of a batch that was cleared is sent in
\* the place of a row of the batch: it takes an execution of more rows than the parameter
\* has values, and comes from past their end.
OldRowsArePast ==
    Executed /\ batchs /\ ~func => \A p \in Param : \A i \in 1 .. sent.n :
        sent.rows[p][i] \in DOMAIN asked[p] \cup {Null} \/ i > Len(values[p])

=============================================================================
