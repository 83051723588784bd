------------------------------ MODULE McsMutex ------------------------------
(***************************************************************************)
(* cmpth's basic_mcs_mutex and basic_mcs_cv, which the DSM uses under its  *)
(* user-level threads.  A thread that has to wait for the mutex saves its  *)
(* continuation in the node of its predecessor; a thread that waits for    *)
(* the condition saves it in an entry on its own stack, in the step that   *)
(* gives the mutex up or hands it on.  Entries are named by their threads. *)
(*                                                                         *)
(* A step is one access to tail_, head_, a next pointer, or a suspended-   *)
(* thread slot.  What a thread does with the mutex is CvBarrier's part.    *)
(* notify_one, which nothing in the repository calls, is left out.         *)
(***************************************************************************)
EXTENDS McsCore

CONSTANT Thread

ASSUME ThreadAssumption == Nil \notin Thread

VARIABLES
    pc,       \* where each thread is
    cur,      \* the node it locked or unlocks with
    pred,     \* the node it queued up behind
    sth,      \* the thread suspended in each node
    waiting,  \* waiting_: the latest entry of the condition variable
    enext,    \* the next pointer of every entry
    esth,     \* the thread is suspended in its entry
    we        \* the entry notify_all has come to

nodeVars == <<cur, pred, sth>>
cvVars == <<waiting, enext, esth, we>>
mtxVars == <<core, pc, nodeVars, cvVars>>

MtxInit ==
    /\ tail = Nil /\ head = Nil /\ free = Node
    /\ next = [n \in Node |-> Nil]
    /\ pc = [t \in Thread |-> "out"]
    /\ cur = [t \in Thread |-> Nil]
    /\ pred = [t \in Thread |-> Nil]
    /\ sth = [n \in Node |-> Nil]
    /\ waiting = Nil
    /\ enext = [t \in Thread |-> Nil]
    /\ esth = [t \in Thread |-> FALSE]
    /\ we = Nil

MtxPC == {"out", "lock", "take", "save", "link", "blocked", "in", "unlock", "cas", "spin",
          "dealloc", "uw", "uw_clear", "uw_cas", "uw_spin", "asleep", "uw_dealloc",
          "na_wake", "na_next", "na_done"}

MtxTypeOK ==
    /\ CoreTypeOK
    /\ pc \in [Thread -> MtxPC]
    /\ cur \in [Thread -> Node \cup {Nil}]
    /\ pred \in [Thread -> Node \cup {Nil}]
    /\ sth \in [Node -> Thread \cup {Nil}]
    /\ waiting \in Thread \cup {Nil}
    /\ enext \in [Thread -> Thread \cup {Nil}]
    /\ esth \in [Thread -> BOOLEAN]
    /\ we \in Thread \cup {Nil}

Goto(t, l) == pc' = [pc EXCEPT ![t] = l]
GotoAndWake(t, l, u, m) == pc' = [pc EXCEPT ![t] = l, ![u] = m]

----------------------------------------------------------------------------
(* lock *)

\* Mutant: an empty head_ is taken for an empty queue.
WasFree_Head == head = Nil

WasFree == tail = Nil

\* The node is enqueued; head_ is set in a step of its own.
LockStart(t) ==
    /\ pc[t] = "lock"
    /\ \E n \in free :
        /\ n = CHOOSE m \in free : TRUE
        /\ free' = free \ {n}
        /\ next' = [next EXCEPT ![n] = Nil]
        /\ tail' = n
        /\ cur' = [cur EXCEPT ![t] = n]
    /\ pred' = [pred EXCEPT ![t] = tail]
    /\ Goto(t, IF WasFree THEN "take" ELSE "save")
    /\ UNCHANGED <<head, sth, cvVars>>

LockTake(t) ==
    /\ pc[t] = "take"
    /\ head' = cur[t]
    /\ cur' = [cur EXCEPT ![t] = Nil]
    /\ Goto(t, "in")
    /\ UNCHANGED <<tail, next, free, pred, sth, cvVars>>

\* Mutant: the node is linked before the continuation is saved.
Suspend_Late(t) == sth' = sth

\* wait_with: the continuation goes to the predecessor's node, on_lock follows.
Suspend(t) == sth' = [sth EXCEPT ![pred[t]] = t]

LockSave(t) ==
    /\ pc[t] = "save"
    /\ Suspend(t)
    /\ Goto(t, "link")
    /\ UNCHANGED <<core, cur, pred, cvVars>>

LockLink(t) ==
    /\ pc[t] = "link"
    /\ SetNext(pred[t], cur[t])
    /\ cur' = [cur EXCEPT ![t] = Nil]
    /\ pred' = [pred EXCEPT ![t] = Nil]
    /\ Goto(t, "blocked")
    /\ UNCHANGED <<tail, head, free, sth, cvVars>>

Lock(t) == LockStart(t) \/ LockTake(t) \/ LockSave(t) \/ LockLink(t)

----------------------------------------------------------------------------
(* unlock: head_ is cleared before the compare-and-swap on tail_ *)

UnlockClear(t) ==
    /\ pc[t] = "unlock"
    /\ cur' = [cur EXCEPT ![t] = head]
    /\ head' = Nil
    /\ Goto(t, "cas")
    /\ UNCHANGED <<tail, next, free, pred, sth, cvVars>>

\* Mutant: a failed try_unlock does not put head_ back.
Restore_Forgotten(t) == head' = head

Restore(t) == head' = cur[t]

\* Mutant: a node without a linked successor is taken for the last one.
IsTail_Unlinked(t) == next[cur[t]] = Nil

\* The compare-and-swap of try_unlock succeeds.
IsTail(t) == tail = cur[t]

UnlockCas(t) ==
    /\ pc[t] = "cas"
    /\ \/ IsTail(t) /\ tail' = Nil /\ head' = head /\ Goto(t, "dealloc")
       \/ ~IsTail(t) /\ tail' = tail /\ Restore(t) /\ Goto(t, "spin")
    /\ UNCHANGED <<next, free, nodeVars, cvVars>>

\* The successor is linked: it becomes the head and runs.
PassOn(t, l) ==
    /\ next[cur[t]] # Nil
    /\ sth[cur[t]] # Nil
    /\ head' = next[cur[t]]
    /\ sth' = [sth EXCEPT ![cur[t]] = Nil]
    /\ GotoAndWake(t, l, sth[cur[t]], "in")
    /\ UNCHANGED <<tail, next, free, cur, pred>>

UnlockSpin(t) ==
    /\ pc[t] = "spin"
    /\ PassOn(t, "dealloc")
    /\ UNCHANGED cvVars

Deallocate(t, from, l) ==
    /\ pc[t] = from
    /\ free' = free \cup {cur[t]}
    /\ next' = [next EXCEPT ![cur[t]] = Nil]
    /\ cur' = [cur EXCEPT ![t] = Nil]
    /\ Goto(t, l)
    /\ UNCHANGED <<tail, head, pred, sth, cvVars>>

Unlock(t) == UnlockClear(t) \/ UnlockCas(t) \/ UnlockSpin(t)

----------------------------------------------------------------------------
(* The condition variable: wait, with unlock_and_wait, and notify_all *)

\* wait: a new entry, before the mutex is given up.
PushEntry(t) ==
    /\ enext' = [enext EXCEPT ![t] = waiting]
    /\ waiting' = t
    /\ Goto(t, "uw")
    /\ UNCHANGED <<esth, we>>

\* Mutant: the mutex is released first and the thread saved in its entry later.
SaveEntry_Late(t) == esth' = esth

SaveEntry(t) == esth' = [esth EXCEPT ![t] = TRUE]

\* is_unlockable, on a tail that may change any time.
UwCheck(t) ==
    /\ pc[t] = "uw"
    /\ cur' = [cur EXCEPT ![t] = head]
    /\ IF tail = head
       THEN SaveEntry(t) /\ Goto(t, "uw_clear")
       ELSE esth' = esth /\ Goto(t, "uw_spin")
    /\ UNCHANGED <<core, pred, sth, waiting, enext, we>>

UwClear(t) ==
    /\ pc[t] = "uw_clear"
    /\ head' = Nil
    /\ Goto(t, "uw_cas")
    /\ UNCHANGED <<tail, next, free, nodeVars, cvVars>>

\* on_unlock_and_wait: asleep with the mutex released, or awake again.
UwCas(t) ==
    /\ pc[t] = "uw_cas"
    /\ \/ /\ IsTail(t)
          /\ tail' = Nil
          /\ Goto(t, "asleep")
          /\ UNCHANGED <<head, esth>>
       \/ /\ ~IsTail(t)
          /\ tail' = tail
          /\ Restore(t)
          /\ esth' = [esth EXCEPT ![t] = FALSE]
          /\ Goto(t, "uw_spin")
    /\ UNCHANGED <<next, free, nodeVars, waiting, enext, we>>

\* saved_sth.swap(cur->sth)
UwSpin(t) ==
    /\ pc[t] = "uw_spin"
    /\ PassOn(t, "asleep")
    /\ esth' = [esth EXCEPT ![t] = TRUE]
    /\ UNCHANGED <<waiting, enext, we>>

UnlockAndWait(t) == UwCheck(t) \/ UwClear(t) \/ UwCas(t) \/ UwSpin(t)

NotifyAll(t) ==
    /\ we' = waiting
    /\ Goto(t, IF waiting = Nil THEN "na_done" ELSE "na_wake")
    /\ UNCHANGED <<waiting, enext, esth>>

NaWake(t) ==
    /\ pc[t] = "na_wake"
    /\ esth[we]
    /\ esth' = [esth EXCEPT ![we] = FALSE]
    /\ GotoAndWake(t, "na_next", we, "uw_dealloc")
    /\ UNCHANGED <<core, nodeVars, waiting, enext, we>>

\* The entry is read after its thread was made runnable.
NaNext(t) ==
    /\ pc[t] = "na_next"
    /\ we' = enext[we]
    /\ Goto(t, IF enext[we] = Nil THEN "na_done" ELSE "na_wake")
    /\ UNCHANGED <<core, nodeVars, waiting, enext, esth>>

NaDone(t) ==
    /\ pc[t] = "na_done"
    /\ waiting' = Nil
    /\ Goto(t, "unlock")
    /\ UNCHANGED <<core, nodeVars, enext, esth, we>>

Notify(t) == NaWake(t) \/ NaNext(t) \/ NaDone(t)
=============================================================================
