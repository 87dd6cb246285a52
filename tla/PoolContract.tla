---------------------------- MODULE PoolContract ----------------------------
(***************************************************************************)
(* What the pool of attachments promises the functions of the library      *)
(* (src/src/nano.h, rsrs.cpp): between its initialize and its finalize an  *)
(* attachment is served from resources of its own, outside of them it is   *)
(* refused, and what other attachments do makes no difference to it.       *)
(***************************************************************************)
CONSTANTS
    Attachment,  \* attachments: each runs one call at a time
    None         \* no attachment

VARIABLES
    up,      \* the attachments that have resources
    answer   \* how the last call to end has ended: whose it was and what it said

contractVars == <<up, answer>>

NoAnswer == [of |-> None, is |-> "none"]

ContractInit == up = {} /\ answer = NoAnswer

Say(a, s) == answer' = [of |-> a, is |-> s]

\* A new call begins, or an attachment ends.
Ask == answer' = NoAnswer /\ UNCHANGED up

\* initialize makes resources unless there are some, and then answers.
Raise(a) == a \notin up /\ up' = up \cup {a} /\ UNCHANGED answer

Initialized(a) == a \in up /\ Say(a, "initialized") /\ UNCHANGED up

\* initialize may fail to make resources.
InitializeFails(a) == a \notin up /\ Say(a, "failed") /\ UNCHANGED up

Finalized(a) == up' = up \ {a} /\ Say(a, "finalized")

Served(a) == a \in up /\ Say(a, "served") /\ UNCHANGED up

Refused(a) == a \notin up /\ Say(a, "refused") /\ UNCHANGED up

ContractNext ==
    \/ Ask
    \/ \E a \in Attachment :
        \/ Raise(a) \/ Initialized(a) \/ InitializeFails(a)
        \/ Finalized(a) \/ Served(a) \/ Refused(a)

=============================================================================
