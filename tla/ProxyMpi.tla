------------------------------ MODULE ProxyMpi ------------------------------
(***************************************************************************)
(* meqdc's proxy_mpi_facade: MPI, initialised with MPI_THREAD_SERIALIZED,  *)
(* offered to many threads.  Calls go through a Delegator; requests of     *)
(* executed calls are kept in the request holder, which the consumer polls *)
(* with MPI_Testsome; a request tells its waiter through a state word and  *)
(* a suspended-thread slot.                                                *)
(*                                                                         *)
(* A thread has at most one request at a time, so that a request is named  *)
(* by its thread.  Operations: "nb" (isend, rget, ibarrier, followed by    *)
(* wait or test), "block" (send, recv, barrier), "noreq" (put, accumulate: *)
(* no request), "probe" (iprobe, win_lock, progress: lock, call, unlock)   *)
(* and "stop" (the destructor).                                            *)
(***************************************************************************)
EXTENDS Delegator, Sequences, Functions

CONSTANTS
    MaxOngoing,  \* MEQDC_MPI_MAX_NUM_ONGOING
    NullBy       \* who may be given MPI_REQUEST_NULL by a call: "self" (the thread
                 \* that calls), "consumer" (on its behalf)

ASSUME ProxyAssumption ==
    /\ MaxOngoing \in Nat \ {0}
    /\ NullBy \subseteq {"self", "consumer"}

VARIABLES
    op,       \* the operation a thread is in, Nil between two
    reqSt,    \* state of its request, "none" without one
    reqSth,   \* the thread is suspended in its request's sth
    holder,   \* proxy_reqs_ and orig_reqs_ up to num_reqs_
    mpi       \* what MPI did with the original request

reqVars == <<reqSt, reqSth, holder, mpi>>
vars == <<delVars, op, reqVars>>

Ops == {"nb", "block", "noreq", "probe", "stop"}
ThreadPC == {"idle", "lock", "save", "link", "blocked", "cs", "unlock", "unlock_wait",
             "follow", "follow_wait", "wait", "ret", "notify", "join", "stopped"}
ConPC == {"consume", "progress", "finish", "con_unlock", "parked", "exited"}
Func == [op : {"nb", "block", "noreq"}, by : Thread]

ASSUME NilAssumption == Nil \notin Ops /\ Nil \notin Func

\* Types of the delegator and of the requests.
TypeOK ==
    /\ CoreTypeOK
    /\ DOMAIN pc = Thread \cup {Con}
    /\ \A t \in Thread : pc[t] \in ThreadPC
    /\ pc[Con] \in ConPC
    /\ node \in [Thread -> Node \cup {Nil}]
    /\ pred \in [Thread -> Node \cup {Nil}]
    /\ sth \in [Node -> Thread \cup {Nil}]
    /\ func \in [Node -> Func \cup {Nil}]
    /\ isExec \in BOOLEAN /\ conSth \in BOOLEAN /\ conEx \in BOOLEAN /\ finished \in BOOLEAN
    /\ awake \in Thread \cup {Nil}
    /\ op \in [Thread -> Ops \cup {Nil}]
    /\ reqSt \in [Thread -> {"none", "created", "waiting", "finished"}]
    /\ reqSth \in [Thread -> BOOLEAN]
    /\ holder \in Seq(Thread)
    /\ mpi \in [Thread -> {"none", "ongoing", "done"}]

Init ==
    /\ DelInit
    /\ op = [t \in Thread |-> Nil]
    /\ reqSt = [t \in Thread |-> "none"]
    /\ reqSth = [t \in Thread |-> FALSE]
    /\ holder = <<>>
    /\ mpi = [t \in Thread |-> "none"]

\* is_active, is_available
Active == Len(holder) > 0
Available == Len(holder) < MaxOngoing

HasRequest(k) == k \in {"nb", "block"}

----------------------------------------------------------------------------
(* Calls of the threads *)

Quiescent == \A t \in Thread : pc[t] = "idle" /\ reqSt[t] = "none"

\* Bound: as many calls as there are nodes left for them.
NodeLeft == Cardinality({t \in Thread : pc[t] = "lock"}) < Cardinality(free)

\* A call begins; one with a request allocates it.
Start(t, k) ==
    /\ pc[t] = "idle"
    /\ \A u \in Thread : op[u] # "stop"
    /\ NodeLeft
    /\ HasRequest(k) => reqSt[t] = "none"
    /\ k = "stop" => Quiescent
    /\ op' = [op EXCEPT ![t] = k]
    /\ Goto(t, "lock")
    /\ reqSt' = IF HasRequest(k) THEN [reqSt EXCEPT ![t] = "created"] ELSE reqSt
    /\ UNCHANGED <<core, queueArgs, isExec, conSth, conLocals, finished, reqSth, holder, mpi>>

\* The call is over when its thread goes to "idle".
EndIfIdle(t, l) == op' = IF l = "idle" THEN [op EXCEPT ![t] = Nil] ELSE op

Enter(t) ==
    /\ StartLock(t)
    /\ UNCHANGED <<op, reqVars>>

\* delegate_nb and on_lock_delegate: what is left for the consumer, and where
\* the thread suspends.
Delegate(t) ==
    /\ pc[t] = "save"
    /\ IF op[t] \in {"probe", "stop"}
       THEN SaveInNode(t)
       ELSE SaveFunc(t, [op |-> op[t], by |-> t])
    /\ IF op[t] = "block"
       THEN /\ reqSt' = [reqSt EXCEPT ![t] = "waiting"]
            /\ reqSth' = [reqSth EXCEPT ![t] = TRUE]
       ELSE UNCHANGED <<reqSt, reqSth>>
    /\ Goto(t, "link")
    /\ UNCHANGED <<core, node, pred, isExec, conSth, conLocals, finished, op, holder, mpi>>

Publish(t) ==
    /\ LET l == IF op[t] \in {"nb", "noreq"} THEN "idle" ELSE "blocked"
       IN  Link(t, l) /\ EndIfIdle(t, l)
    /\ UNCHANGED reqVars

\* Whether MPI may answer a call with MPI_REQUEST_NULL.
Nulls(by) == {FALSE} \cup {by \in NullBy}

\* The original function is called.  Its request is added to the holder; a null
\* request is finished at once.
Call(k, t, null, waits) ==
    IF HasRequest(k)
    THEN /\ holder' = IF null THEN holder ELSE Append(holder, t)
         /\ mpi' = IF null THEN mpi ELSE [mpi EXCEPT ![t] = "ongoing"]
         /\ reqSt' = IF null THEN [reqSt EXCEPT ![t] = "finished"]
                     ELSE IF waits THEN [reqSt EXCEPT ![t] = "waiting"] ELSE reqSt
    ELSE UNCHANGED <<holder, mpi, reqSt>>

\* execute_imm_nb by the thread itself, which then unlocks.
ExecuteImm(t) ==
    /\ pc[t] = "cs"
    /\ op[t] \in {"nb", "block", "noreq"}
    /\ Available
    /\ isExec' = TRUE
    /\ \E null \in Nulls("self") :
        /\ Call(op[t], t, null, op[t] = "block")
        /\ Goto(t, IF op[t] = "block" /\ ~null THEN "unlock_wait" ELSE "unlock")
    /\ UNCHANGED <<core, queueArgs, conSth, conLocals, finished, op, reqSth>>

\* The original call between lock and unlock.
CallLocked(t) ==
    /\ pc[t] = "cs"
    /\ \/ /\ op[t] = "probe"
          /\ Goto(t, "unlock")
          /\ UNCHANGED <<core, queueArgs, isExec, conSth, conLocals, finished>>
       \/ /\ op[t] = "stop"
          /\ SetFinished(t)
    /\ UNCHANGED <<op, reqVars>>

\* Where unlock() returns to: a blocking call whose request is null returns.
AfterUnlock(t) ==
    CASE op[t] = "stop" -> "notify"
      [] op[t] = "block" -> "ret"
      [] OTHER -> "idle"

Leave(t) ==
    /\ \/ Unlock(t, Active, AfterUnlock(t)) /\ EndIfIdle(t, pc'[t])
       \/ UnlockAndWait(t, Active) /\ op' = op
    /\ UNCHANGED reqVars

LeaveToNext(t) ==
    \/ /\ pc[t] = "follow"
       /\ Follow(t, AfterUnlock(t))
       /\ EndIfIdle(t, AfterUnlock(t))
       /\ UNCHANGED reqVars
    \/ /\ pc[t] = "follow_wait"
       /\ Follow(t, "blocked")
       /\ reqSth' = [reqSth EXCEPT ![t] = TRUE]
       /\ UNCHANGED <<op, reqSt, holder, mpi>>

Stop(t) ==
    /\ NotifyConsumer(t) \/ Join(t)
    /\ UNCHANGED <<op, reqVars>>

----------------------------------------------------------------------------
(* wait, test and the end of a blocking call *)

\* wait and test see that the request is finished.
SeeFinished(t) ==
    /\ pc[t] = "idle"
    /\ reqSt[t] = "finished"
    /\ Goto(t, "ret")
    /\ UNCHANGED <<core, queueArgs, isExec, conSth, conLocals, finished, op, reqVars>>

\* wait does not, and suspends in the request.
WaitStart(t) ==
    /\ pc[t] = "idle"
    /\ reqSt[t] = "created"
    /\ reqSth' = [reqSth EXCEPT ![t] = TRUE]
    /\ Goto(t, "wait")
    /\ UNCHANGED <<core, queueArgs, isExec, conSth, conLocals, finished, op, reqSt, holder, mpi>>

\* Mutant: wait stores the state without comparing it first.
WaitBlocks_Blindly(t) == TRUE

\* wait_func: the compare-and-swap from created to waiting.
WaitBlocks(t) == reqSt[t] = "created"

WaitFunc(t) ==
    /\ pc[t] = "wait"
    /\ IF WaitBlocks(t)
       THEN /\ reqSt' = [reqSt EXCEPT ![t] = "waiting"]
            /\ reqSth' = reqSth
            /\ Goto(t, "blocked")
       ELSE /\ reqSt' = reqSt
            /\ reqSth' = [reqSth EXCEPT ![t] = FALSE]
            /\ Goto(t, "ret")
    /\ UNCHANGED <<core, queueArgs, isExec, conSth, conLocals, finished, op, holder, mpi>>

\* The request is deallocated and the call returns.
Return(t) ==
    /\ pc[t] = "ret"
    /\ reqSt' = [reqSt EXCEPT ![t] = "none"]
    /\ Goto(t, "idle")
    /\ EndIfIdle(t, "idle")
    /\ UNCHANGED <<core, queueArgs, isExec, conSth, conLocals, finished, reqSth, holder, mpi>>

----------------------------------------------------------------------------
(* The consumer *)

ConsumeIdle == ConsumeNothing(Active) /\ UNCHANGED <<op, reqVars>>

ConsumeLock == ConsumeLocker /\ UNCHANGED <<op, reqVars>>

\* execute_delegated, which never waits.
ConsumeCall ==
    /\ Available
    /\ ConsumeFunc
    /\ LET f == func[CurHead]
       IN  \E null \in Nulls("consumer") : Call(f.op, f.by, null, FALSE)
    /\ UNCHANGED <<op, reqSth>>

ConsumeRetry ==
    /\ ~Available
    /\ ConsumeFull
    /\ UNCHANGED <<op, reqVars>>

\* complete_request finds the thread waiting.
Waiting(t) == reqSt[t] = "waiting"

\* The requests that MPI_Testsome reports, and the ones of them that are waited for.
Completed == {t \in Range(holder) : mpi[t] = "done"}
Woken == {t \in Completed : Waiting(t)}

\* The requests that are not complete move up, in their order.
Compact ==
    LET kept == {i \in DOMAIN holder : holder[i] \notin Completed}
    IN  \E from \in Bijection(1..Cardinality(kept), kept) :
            /\ \A i, j \in DOMAIN from : i < j => from[i] < from[j]
            /\ holder' = [i \in DOMAIN from |-> holder[from[i]]]

\* do_progress: MPI_Testsome, complete_request for what completed, compaction.
\* MPI reports the indices in any order; every waiter is notified but the last.
Progress ==
    /\ pc[Con] = "progress"
    /\ \E last \in (IF Woken = {} THEN {Nil} ELSE Woken) :
        /\ awake' = last
        /\ pc' = [a \in Thread \cup {Con} |->
               IF a = Con THEN "finish"
               ELSE IF a \in Woken \ {last} THEN "ret" ELSE pc[a]]
    /\ reqSt' = [t \in Thread |-> IF t \in Completed \ Woken THEN "finished" ELSE reqSt[t]]
    /\ reqSth' = [t \in Thread |-> IF t \in Woken THEN FALSE ELSE reqSth[t]]
    /\ mpi' = [t \in Thread |-> IF t \in Completed THEN "none" ELSE mpi[t]]
    /\ Compact
    /\ UNCHANGED <<core, queueArgs, isExec, conSth, conEx, finished, op>>

ConsumeEnd ==
    /\ Finish(Active) \/ ConUnlock \/ ConExit
    /\ UNCHANGED <<op, reqVars>>

\* External: MPI completes an operation.
MpiComplete(t) ==
    /\ mpi[t] = "ongoing"
    /\ mpi' = [mpi EXCEPT ![t] = "done"]
    /\ UNCHANGED <<delVars, op, reqSt, reqSth, holder>>

----------------------------------------------------------------------------

\* What a thread does once it has begun.
Proceed(t) ==
    \/ Enter(t) \/ Delegate(t) \/ Publish(t) \/ ExecuteImm(t) \/ CallLocked(t)
    \/ Leave(t) \/ LeaveToNext(t) \/ Stop(t) \/ WaitFunc(t) \/ Return(t)

Consume ==
    \/ ConsumeIdle \/ ConsumeLock \/ ConsumeCall \/ ConsumeRetry \/ Progress \/ ConsumeEnd

\* After the destructor nothing happens any more.
Stopped == (\E t \in Thread : pc[t] = "stopped") /\ UNCHANGED vars

Next ==
    \/ \E t \in Thread :
        \/ \E k \in Ops : Start(t, k)
        \/ SeeFinished(t) \/ WaitStart(t) \/ Proceed(t) \/ MpiComplete(t)
    \/ Consume
    \/ Stopped

Spec == Init /\ [][Next]_vars

\* Threads that are runnable run, the consumer runs, and MPI completes what it
\* was given; nobody has to begin another call.
FairSpec ==
    /\ Spec
    /\ \A t \in Thread : WF_vars(Proceed(t)) /\ WF_vars(MpiComplete(t))
    /\ WF_vars(Consume)

----------------------------------------------------------------------------
(* Properties *)

HolderPC == {"cs", "unlock", "unlock_wait", "follow", "follow_wait"}
ConHolding == pc[Con] \in {"consume", "progress", "finish", "con_unlock"}

\* MPI is entered by one thread at a time, as MPI_THREAD_SERIALIZED demands:
\* the lock passes between callers, woken callers and the consumer without
\* ever having two holders (until the consumer ends, it needs no lock to do so).
MpiSerialized ==
    /\ \A t, u \in Thread : pc[t] \in HolderPC /\ pc[u] \in HolderPC => t = u
    /\ \A t \in Thread : pc[t] \in HolderPC => ~ConHolding

\* Whoever unlocks can wake the consumer: con_sth_ is never empty then, and
\* enter(), swap() and notify() do not fail their assertion on it.
ConsumerParked ==
    \A t \in Thread : pc[t] \in HolderPC \cup {"notify"} => conSth /\ pc[Con] = "parked"

\* A node is not reused while a thread is about to link its own node behind it.
PredecessorAlive ==
    \A t \in Thread : pc[t] \in {"save", "link"} =>
        /\ pred[t] \notin free
        /\ node[t] \notin free
        /\ next[pred[t]] = Nil

\* The lock is never free while a request is ongoing, so that a thread that
\* gets it at once finds room in the holder; execute_or_delegate would
\* otherwise drop the call, because unlock() sets is_executed_.
FreeLockMeansIdle ==
    /\ tail = Nil => holder = <<>>
    /\ \A t \in Thread : (pc[t] = "cs" /\ op[t] \in {"nb", "block", "noreq"}) => Available

\* The functions that are queued and not executed yet.
Executing == IF pc[Con] \in {"progress", "finish"} THEN conEx ELSE isExec
Pending == {n \in Node \ free : func[n] # Nil /\ ~(n = head /\ Executing)}

\* A request whose thread went on or went to sleep in it is never forgotten: it
\* is in the holder, or the function that will start it is queued, or its
\* thread has just been taken out of it to be woken.
RequestIsServed ==
    \A t \in Thread :
        \/ pc[t] \in {"idle", "wait"} /\ reqSt[t] = "created"
        \/ pc[t] = "blocked" /\ reqSth[t]
        =>  \/ t \in Range(holder)
            \/ \E n \in Pending : func[n].by = t /\ HasRequest(func[n].op)
            \/ awake = t

\* A request is started once: the holder never lists it twice, and what it
\* lists is waited for or will be.
StartedOnce ==
    /\ \A i, j \in DOMAIN holder : holder[i] = holder[j] => i = j
    /\ \A i \in DOMAIN holder : reqSt[holder[i]] \in {"created", "waiting"}

\* A request is served, and served once.
RequestIsServedOnce == RequestIsServed /\ StartedOnce

\* Once no new calls come in, every call returns, the destructor included.
\* (An endless stream of calls keeps the consumer from polling MPI: consume()
\* does not reach progress() as long as the next head is waiting.)
CallReturnsWhenQuiet ==
    <>[](\A t \in Thread : pc[t] # "lock") =>
        \A t \in Thread : pc[t] \notin {"idle", "stopped"} ~> pc[t] \in {"idle", "stopped"}
=============================================================================
