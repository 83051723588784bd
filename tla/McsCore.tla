------------------------------ MODULE McsCore ------------------------------
(***************************************************************************)
(* cmpth's basic_mcs_core: the queue of nodes behind the MCS mutex and the  *)
(* MCS delegator, and the pool its nodes come from.  head_ belongs to the  *)
(* holder of the lock; tail_ and the next pointers are what the threads    *)
(* race on.  The operators are the pieces the steps of the mutex and of    *)
(* the delegator are made of.                                              *)
(***************************************************************************)
EXTENDS Naturals, FiniteSets

CONSTANTS
    Node,     \* bound: the nodes the pool ever creates
    Nil       \* nullptr

ASSUME NodeAssumption == Nil \notin Node /\ IsFiniteSet(Node)

VARIABLES
    tail,     \* tail_
    head,     \* head_
    next,     \* the next pointer of every node
    free      \* nodes that the pool may hand out

core == <<tail, head, next, free>>

CoreTypeOK ==
    /\ tail \in Node \cup {Nil}
    /\ head \in Node \cup {Nil}
    /\ next \in [Node -> Node \cup {Nil}]
    /\ free \in SUBSET Node

\* start_lock on a node: it is enqueued, and the lock is taken if the queue
\* was empty.
Enqueue(n) ==
    /\ next' = [next EXCEPT ![n] = Nil]
    /\ tail' = n
    /\ head' = IF tail = Nil THEN n ELSE head

\* Mutant: a node is linked without the node in front of it being told.
SetNext_Forgets(prev, cur) == next' = next

SetNext(prev, cur) == next' = [next EXCEPT ![prev] = cur]

\* try_unlock succeeds, and is_unlockable is true, if nobody queued up behind
\* the head.
\* Mutant: the lock is given up although a node is queued behind the head.
Unlockable_Always == head # Nil

Unlockable == tail = head

EmptyQueue ==
    /\ tail' = Nil
    /\ head' = Nil

\* The node that try_follow_head makes the new head, if it is linked yet.
Successor == next[head]

FollowHead ==
    /\ head' = Successor
    /\ tail' = tail
=============================================================================
