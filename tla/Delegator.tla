----------------------------- MODULE Delegator -----------------------------
(***************************************************************************)
(* cmpth's basic_sync_delegator over the MCS queue: a lock whose critical  *)
(* sections can be handed to whoever holds it.  A thread that finds the    *)
(* lock taken leaves a function in its node and goes on, or suspends; the  *)
(* consumer thread inherits the lock and executes what is queued.  The     *)
(* consumer keeps the lock while the device behind it is active.           *)
(*                                                                         *)
(* A step is what a thread does between two accesses to memory that others *)
(* race on: tail_, a next pointer, the suspended-thread slot that a link   *)
(* publishes.  What the lock protects (head_, is_executed_, the device) is *)
(* read and written within the step.  Every runnable thread may be running *)
(* on some worker: enter() and notify() both make a thread runnable.       *)
(*                                                                         *)
(* The device (con_) is a parameter: the actions take is_active() and what *)
(* execute() does as arguments, and ProxyMpi supplies them.                *)
(***************************************************************************)
EXTENDS McsCore

CONSTANTS
    Thread,   \* the threads that call the delegator
    Con       \* the consumer thread con_th_

ASSUME ThreadAssumption == Con \notin Thread /\ Nil \notin Thread

VARIABLES
    pc,       \* where each thread is
    node,     \* cur of the lock_or_delegate a thread is in
    pred,     \* prev of that call
    sth,      \* the thread suspended in each node (a caller of lock)
    func,     \* the function delegated in each node
    isExec,   \* is_executed_
    conSth,   \* the consumer is suspended in con_sth_
    conEx,    \* is_executed, the consumer's copy across progress(), else TRUE
    awake,    \* awake_sth: the thread that consume() is about to wake
    finished  \* finished_

delVars == <<core, pc, node, pred, sth, func, isExec, conSth, conEx, awake, finished>>
conLocals == <<conEx, awake>>
queueArgs == <<node, pred, sth, func>>

\* After start_consumer: the consumer holds the lock with an executed head.
DelInit ==
    \E n \in Node :
        /\ n = CHOOSE m \in Node : TRUE
        /\ tail = n /\ head = n /\ free = Node \ {n}
        /\ next = [m \in Node |-> Nil]
        /\ pc = [a \in Thread \cup {Con} |-> IF a = Con THEN "consume" ELSE "idle"]
        /\ node = [t \in Thread |-> Nil]
        /\ pred = [t \in Thread |-> Nil]
        /\ sth = [m \in Node |-> Nil]
        /\ func = [m \in Node |-> Nil]
        /\ isExec = TRUE
        /\ conSth = FALSE
        /\ conEx = TRUE
        /\ awake = Nil
        /\ finished = FALSE

\* The pool takes the head back: its contents are gone.
DeallocateHead ==
    /\ free' = free \cup {head}
    /\ next' = [next EXCEPT ![head] = Nil]
    /\ func' = [func EXCEPT ![head] = Nil]

Goto(t, l) == pc' = [pc EXCEPT ![t] = l]

\* t goes to l while the thread u becomes runnable at m.
GotoAndWake(t, l, u, m) == pc' = [pc EXCEPT ![t] = l, ![u] = m]

----------------------------------------------------------------------------
(* Threads: lock_or_delegate *)

StartLock(t) ==
    /\ pc[t] = "lock"
    /\ \E n \in free :
        /\ n = CHOOSE m \in free : TRUE
        /\ free' = free \ {n}
        /\ Enqueue(n)
        /\ node' = [node EXCEPT ![t] = IF tail = Nil THEN Nil ELSE n]
    /\ pred' = [pred EXCEPT ![t] = tail]
    /\ Goto(t, IF tail = Nil THEN "cs" ELSE "save")
    /\ UNCHANGED <<sth, func, isExec, conSth, conLocals, finished>>

\* lock(): the thread suspends in its own node.
SaveInNode(t) ==
    /\ sth' = [sth EXCEPT ![node[t]] = t]
    /\ func' = func

\* delegate: the function f is left in the node.
SaveFunc(t, f) ==
    /\ func' = [func EXCEPT ![node[t]] = f]
    /\ sth' = sth

\* set_next, last thing before a thread that suspends is gone (on_wait_delegate).
Link(t, l) ==
    /\ pc[t] = "link"
    /\ SetNext(pred[t], node[t])
    /\ node' = [node EXCEPT ![t] = Nil]
    /\ pred' = [pred EXCEPT ![t] = Nil]
    /\ Goto(t, l)
    /\ UNCHANGED <<tail, head, free, sth, func, isExec, conSth, conLocals, finished>>

----------------------------------------------------------------------------
(* Threads: unlock, and unlock_and_wait while the device is active *)

\* Mutant: unlock gives the lock up although requests are ongoing.
Release_IgnoresActive(t, active) == Unlockable

Release(t, active) == ~active /\ Unlockable

\* The lock is given up, or the thread has to find a successor.
Unlock(t, active, l) ==
    /\ pc[t] = "unlock"
    /\ isExec' = TRUE
    /\ \/ /\ Release(t, active)
          /\ EmptyQueue
          /\ DeallocateHead
          /\ Goto(t, l)
       \/ /\ ~Release(t, active)
          /\ Goto(t, "follow")
          /\ UNCHANGED <<core, func>>
    /\ UNCHANGED <<node, pred, sth, conSth, conLocals, finished>>

UnlockAndWait(t, active) ==
    /\ pc[t] = "unlock_wait"
    /\ active
    /\ isExec' = TRUE
    /\ Goto(t, "follow_wait")
    /\ UNCHANGED <<core, queueArgs, conSth, conLocals, finished>>

HeadIsNew == isExec' = FALSE

\* The lock goes to the next thread, or with its function to the consumer.
FollowTo(t, l) ==
    /\ FollowHead
    /\ DeallocateHead
    /\ HeadIsNew
    /\ IF sth[Successor] # Nil
       THEN /\ GotoAndWake(t, l, sth[Successor], "cs")
            /\ sth' = [sth EXCEPT ![Successor] = Nil]
            /\ conSth' = conSth
       ELSE /\ conSth
            /\ conSth' = FALSE
            /\ GotoAndWake(t, l, Con, "consume")
            /\ sth' = sth

\* No successor is linked: the consumer gets the lock with an executed head.
HandToConsumer(t, l) ==
    /\ conSth
    /\ conSth' = FALSE
    /\ GotoAndWake(t, l, Con, "consume")
    /\ UNCHANGED <<core, sth, func, isExec>>

Follow(t, l) ==
    /\ IF Successor # Nil THEN FollowTo(t, l) ELSE HandToConsumer(t, l)
    /\ UNCHANGED <<node, pred, conLocals, finished>>

----------------------------------------------------------------------------
(* The consumer: consume() up to progress() *)

ConHolds(l) == pc[Con] = l /\ ~finished

\* consume() looks at the head, or at its successor if the head is executed.
MovesOn == isExec /\ Successor # Nil
CurHead == IF MovesOn THEN Successor ELSE head
CurExec == isExec /\ ~MovesOn

TakeHead ==
    IF MovesOn THEN FollowHead /\ DeallocateHead ELSE UNCHANGED <<core, func>>

\* Everything queued is executed.
ConsumeNothing(active) ==
    /\ ConHolds("consume")
    /\ CurExec
    /\ conEx' = TRUE
    /\ Goto(Con, IF active THEN "progress" ELSE "finish")
    /\ UNCHANGED <<core, queueArgs, isExec, conSth, awake, finished>>

\* Mutant: the consumer notifies the next thread and goes on.
SwapTo_Notifies(u) ==
    /\ conSth' = TRUE
    /\ GotoAndWake(Con, "consume", u, "cs")

SwapTo(u) ==
    /\ conSth' = TRUE
    /\ GotoAndWake(Con, "parked", u, "cs")

\* The head wants the lock: con_sth_.swap(head->sth).
ConsumeLocker ==
    /\ ConHolds("consume")
    /\ ~CurExec
    /\ sth[CurHead] # Nil
    /\ TakeHead
    /\ SwapTo(sth[CurHead])
    /\ sth' = [sth EXCEPT ![CurHead] = Nil]
    /\ UNCHANGED <<node, pred, isExec, conLocals, finished>>

\* Mutant: the function of the head is executed again by the next consume().
Executed_NotStored == isExec' = isExec

Executed == isExec' = TRUE

\* The head is a function and the device takes it.
ConsumeFunc ==
    /\ ConHolds("consume")
    /\ ~CurExec
    /\ sth[CurHead] = Nil
    /\ TakeHead
    /\ Executed
    /\ UNCHANGED <<pc, node, pred, sth, conSth, conLocals, finished>>

\* The head is a function and the device is full: progress first, then retry.
ConsumeFull ==
    /\ ConHolds("consume")
    /\ ~CurExec
    /\ sth[CurHead] = Nil
    /\ TakeHead
    /\ conEx' = FALSE
    /\ Goto(Con, "progress")
    /\ UNCHANGED <<node, pred, sth, isExec, conSth, awake, finished>>

----------------------------------------------------------------------------
(* The consumer: after progress() *)

WakeFrom(l) ==
    /\ awake' = Nil
    /\ IF awake = Nil THEN Goto(Con, l) ELSE GotoAndWake(Con, l, awake, "ret")

StoreExec == isExec' = conEx

\* Mutant: the consumer unlocks before it is saved in con_sth_.
Park_AfterUnlock == conSth' = conSth

Park == conSth' = TRUE

\* An idle consumer saves itself in con_sth_ before it tries to unlock.
Finish(active) ==
    /\ pc[Con] = "finish"
    /\ StoreExec
    /\ conEx' = TRUE
    /\ IF ~active /\ conEx /\ Unlockable
       THEN Park /\ Goto(Con, "con_unlock") /\ awake' = awake
       ELSE conSth' = conSth /\ WakeFrom("consume")
    /\ UNCHANGED <<core, queueArgs, finished>>

\* try_unlock_functor, on top of awake_sth or of the scheduler.
ConUnlock ==
    /\ pc[Con] = "con_unlock"
    /\ \/ /\ Unlockable
          /\ EmptyQueue
          /\ DeallocateHead
          /\ conSth' = conSth
          /\ WakeFrom("parked")
       \/ /\ ~Unlockable
          /\ conSth' = FALSE
          /\ WakeFrom("consume")
          /\ UNCHANGED <<core, func>>
    /\ UNCHANGED <<node, pred, sth, isExec, conEx, finished>>

\* consumer_main leaves its loop.
ConExit ==
    /\ pc[Con] = "consume"
    /\ finished
    /\ Goto(Con, "exited")
    /\ UNCHANGED <<core, queueArgs, isExec, conSth, conLocals, finished>>

----------------------------------------------------------------------------
(* stop_consumer, around its lock and unlock *)

SetFinished(t) ==
    /\ finished' = TRUE
    /\ Goto(t, "unlock")
    /\ UNCHANGED <<core, queueArgs, isExec, conSth, conLocals>>

NotifyConsumer(t) ==
    /\ pc[t] = "notify"
    /\ conSth
    /\ conSth' = FALSE
    /\ GotoAndWake(t, "join", Con, "consume")
    /\ UNCHANGED <<core, queueArgs, isExec, conLocals, finished>>

Join(t) ==
    /\ pc[t] = "join"
    /\ pc[Con] = "exited"
    /\ Goto(t, "stopped")
    /\ UNCHANGED <<core, queueArgs, isExec, conSth, conLocals, finished>>
=============================================================================
