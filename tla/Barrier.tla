------------------------------ MODULE Barrier ------------------------------
(***************************************************************************)
(* What a barrier promises: nobody leaves a round before everybody has     *)
(* arrived at it, and everybody leaves it then.                            *)
(***************************************************************************)
EXTENDS Naturals

CONSTANTS
    Thread,    \* the threads the barrier was made for
    MaxRound   \* bound: rounds

VARIABLES
    arrived,   \* rounds each thread has arrived at
    left       \* rounds each thread has left

bvars == <<arrived, left>>

Init ==
    /\ arrived = [t \in Thread |-> 0]
    /\ left = [t \in Thread |-> 0]

Arrive(t) ==
    /\ arrived[t] = left[t]
    /\ arrived[t] < MaxRound
    /\ arrived' = [arrived EXCEPT ![t] = @ + 1]
    /\ left' = left

Leave(t) ==
    /\ left[t] < arrived[t]
    /\ \A u \in Thread : arrived[u] >= arrived[t]
    /\ left' = [left EXCEPT ![t] = @ + 1]
    /\ arrived' = arrived

Next == \E t \in Thread : Arrive(t) \/ Leave(t)

Spec == Init /\ [][Next]_bvars /\ \A t \in Thread : WF_bvars(Leave(t))
=============================================================================
