-------------------------- MODULE ResourceContract --------------------------
(***************************************************************************)
(* What the SQL packages promise about the objects of an attachment, with  *)
(* no registry and no loop: an object belongs to the connection it was     *)
(* made on, releasing a connection frees it together with everything that  *)
(* belongs to it in one step, and finalize leaves nothing within reach.    *)
(***************************************************************************)
CONSTANTS Connections, Children, Nobody

VARIABLES
    open,   \* the attachment has been initialized
    alive,  \* the objects SQL can use
    owner   \* the connection each object belongs to

vars == <<open, alive, owner>>

Belonging(c) == {x \in alive \cap Children : owner[x] = c}

Disowned(gone) == [x \in Children |-> IF x \in gone THEN Nobody ELSE owner[x]]

Init ==
    /\ open = FALSE
    /\ alive = {}
    /\ owner = [x \in Children |-> Nobody]

Start ==
    /\ ~open /\ open' = TRUE
    /\ UNCHANGED <<alive, owner>>

Connect(c) ==
    /\ open /\ c \notin alive
    /\ alive' = alive \cup {c}
    /\ UNCHANGED <<open, owner>>

\* A child is made on a live connection, on none, or from an object of an owner.
Make(x, c) ==
    /\ open /\ x \notin alive
    /\ c \in (alive \cap Connections) \cup {Nobody}
    /\ alive' = alive \cup {x}
    /\ owner' = [owner EXCEPT ![x] = c]
    /\ UNCHANGED open

\* A live child moves to a live connection.
Move(x, c) ==
    /\ x \in alive /\ c \in alive
    /\ owner' = [owner EXCEPT ![x] = c]
    /\ UNCHANGED <<open, alive>>

\* A statement moves to the connection it runs on and a result is made there.
Run(s, x, c) ==
    /\ s \in alive /\ c \in alive /\ x \notin alive
    /\ alive' = alive \cup {x}
    /\ owner' = [owner EXCEPT ![s] = c, ![x] = c]
    /\ UNCHANGED open

Free(gone) ==
    /\ alive' = alive \ gone
    /\ owner' = Disowned(gone)
    /\ UNCHANGED open

FreeAll ==
    LET conns == alive \cap Connections IN
    Free(conns \cup UNION {Belonging(c) : c \in conns})

Finish ==
    /\ open /\ open' = FALSE
    /\ alive' = {}
    /\ owner' = [x \in Children |-> Nobody]

Next ==
    \/ Start \/ FreeAll \/ Finish
    \/ \E c \in Connections :
        \/ Connect(c)
        \/ Free(Belonging(c))
        \/ Free({c} \cup Belonging(c))
    \/ \E x \in Children :
        \/ Free({x})
        \/ \E c \in Connections \cup {Nobody} : Make(x, c)
        \/ \E c \in Connections : Move(x, c)
        \/ \E s \in Children, c \in Connections : s # x /\ Run(s, x, c)

Spec == Init /\ [][Next]_vars

=============================================================================
