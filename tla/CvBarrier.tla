----------------------------- MODULE CvBarrier -----------------------------
(***************************************************************************)
(* cmpth's basic_cv_barrier: threads meet round after round, with an       *)
(* McsMutex and its condition variable underneath.  It implements Barrier. *)
(***************************************************************************)
EXTENDS McsMutex

CONSTANT MaxRound   \* bound: rounds

ASSUME RoundAssumption == MaxRound \in Nat /\ IsFiniteSet(Thread) /\ Thread # {}

VARIABLES
    count,    \* cur_
    gen,      \* gen_
    myGen,    \* gen of the arrive_and_wait each thread is in
    inLoop,   \* the thread is in the wait loop of arrive_and_wait
    arrived,  \* history: calls of arrive_and_wait begun
    left      \* history: calls of arrive_and_wait returned

barVars == <<count, gen, myGen, inLoop>>
vars == <<mtxVars, barVars, arrived, left>>

\* Types of the mutex, the condition variable and the barrier.
TypeOK ==
    /\ MtxTypeOK
    /\ count \in 0..(Cardinality(Thread) - 1)
    /\ gen \in Nat
    /\ myGen \in [Thread -> Nat]
    /\ inLoop \in [Thread -> BOOLEAN]
    /\ arrived \in [Thread -> 0..MaxRound]
    /\ left \in [Thread -> 0..MaxRound]

Init ==
    /\ MtxInit
    /\ count = 0
    /\ gen = 0
    /\ myGen = [t \in Thread |-> 0]
    /\ inLoop = [t \in Thread |-> FALSE]
    /\ arrived = [t \in Thread |-> 0]
    /\ left = [t \in Thread |-> 0]

Call(t) ==
    /\ pc[t] = "out"
    /\ arrived[t] < MaxRound
    /\ arrived' = [arrived EXCEPT ![t] = @ + 1]
    /\ Goto(t, "lock")
    /\ UNCHANGED <<core, nodeVars, cvVars, barVars, left>>

\* Mutant: the last thread is the one that finds everybody else waiting.
IsLast_Early == count + 1 >= Cardinality(Thread) - 1

IsLast == count + 1 >= Cardinality(Thread)

\* The mutex is held, for the first time in this call.
ArriveFirst(t) ==
    /\ pc[t] = "in"
    /\ ~inLoop[t]
    /\ ~IsLast
    /\ count' = count + 1
    /\ myGen' = [myGen EXCEPT ![t] = gen]
    /\ inLoop' = [inLoop EXCEPT ![t] = TRUE]
    /\ PushEntry(t)
    /\ UNCHANGED <<core, nodeVars, gen, arrived, left>>

ResetCount == count' = 0

ArriveLast(t) ==
    /\ pc[t] = "in"
    /\ ~inLoop[t]
    /\ IsLast
    /\ gen' = gen + 1
    /\ ResetCount
    /\ NotifyAll(t)
    /\ UNCHANGED <<core, nodeVars, myGen, inLoop, arrived, left>>

GenChanged(t) == myGen[t] # gen

\* The mutex is held again after a wait: the predicate decides.
Recheck(t) ==
    /\ pc[t] = "in"
    /\ inLoop[t]
    /\ IF GenChanged(t)
       THEN /\ inLoop' = [inLoop EXCEPT ![t] = FALSE]
            /\ Goto(t, "unlock")
            /\ UNCHANGED cvVars
       ELSE PushEntry(t) /\ inLoop' = inLoop
    /\ UNCHANGED <<core, nodeVars, count, gen, myGen, arrived, left>>

\* unlock returns, and with it arrive_and_wait.
Return(t) ==
    /\ Deallocate(t, "dealloc", "out")
    /\ left' = [left EXCEPT ![t] = @ + 1]
    /\ UNCHANGED <<barVars, arrived>>

\* A notified thread gives its node back and locks again.
Relock(t) ==
    /\ Deallocate(t, "uw_dealloc", "lock")
    /\ UNCHANGED <<barVars, arrived, left>>

MutexStep(t) ==
    /\ Lock(t) \/ Unlock(t) \/ UnlockAndWait(t) \/ Notify(t)
    /\ UNCHANGED <<barVars, arrived, left>>

Proceed(t) ==
    \/ ArriveFirst(t) \/ ArriveLast(t) \/ Recheck(t) \/ Return(t) \/ Relock(t) \/ MutexStep(t)

Done == (\A t \in Thread : pc[t] = "out" /\ arrived[t] = MaxRound) /\ UNCHANGED vars

Next == (\E t \in Thread : Call(t) \/ Proceed(t)) \/ Done

\* A thread that is not suspended keeps running.
Spec == Init /\ [][Next]_vars /\ \A t \in Thread : WF_vars(Proceed(t))

----------------------------------------------------------------------------
(* Properties *)

MutexPC == {"in", "unlock", "cas", "spin", "uw", "uw_clear", "uw_cas", "uw_spin",
            "na_wake", "na_next", "na_done"}

\* The mutex has one holder, counting one that still finds its successor.
MutualExclusion ==
    \A t, u \in Thread : pc[t] \in MutexPC /\ pc[u] \in MutexPC => t = u

\* head_ belongs to the holder: it is empty when a thread that found the queue
\* empty stores its node, and the holder's node otherwise; the assertions of
\* start_lock, try_unlock and lock on it hold.
HeadIsHolders ==
    /\ \A t \in Thread : pc[t] = "take" => head = Nil
    /\ \A t \in Thread : pc[t] \in MutexPC \ {"cas", "uw_cas"} => head # Nil /\ head \notin free
    /\ \A t \in Thread : pc[t] \in {"spin", "uw_spin", "uw_clear"} => head = cur[t]

\* A node is not reused while its successor is on its way to it.
PredecessorAlive ==
    \A t \in Thread : pc[t] \in {"save", "link"} => pred[t] \notin free /\ next[pred[t]] = Nil

\* A linked node's thread is suspended in the node before it: an unlocker that
\* follows the link finds a thread to enter.
LinkedIsSaved ==
    \A t \in Thread :
        pc[t] \in {"spin", "uw_spin"} /\ next[cur[t]] # Nil =>
            sth[cur[t]] # Nil /\ pc[sth[cur[t]]] = "blocked"

\* The queue of the mutex is sound, whoever is on the way into it or out of it.
QueueIsSound == HeadIsHolders /\ PredecessorAlive /\ LinkedIsSaved

\* notify_all reads an entry on the stack of a thread it has made runnable;
\* that thread has not returned from wait(), and one that is to be woken is
\* suspended in its entry.
EntryAlive ==
    \A t \in Thread :
        /\ pc[t] = "na_wake" => esth[we] /\ pc[we] = "asleep"
        /\ pc[t] = "na_next" => inLoop[we] /\ pc[we] \in {"uw_dealloc", "lock", "save", "link", "blocked"}

\* The barrier implements its abstract specification, fairness included.
BarrierSpec == INSTANCE Barrier
RefinesBarrier == BarrierSpec!Spec
=============================================================================
