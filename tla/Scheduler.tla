----------------------------- MODULE Scheduler -----------------------------
(***************************************************************************)
(* cmpth's work-stealing scheduler: workers that run tasks from their own  *)
(* deque or steal them, and fork (child first), yield, wait, join and exit *)
(* of user-level threads, with the context switches in between.  A worker  *)
(* runs a task or its root, the scheduler loop, which is named by the      *)
(* worker itself; while it runs a task, the root is kept in root_cont_.    *)
(*                                                                         *)
(* The program is a main task that forks and joins, and children that      *)
(* exit; all of them may yield, and may begin a wait that its function     *)
(* refuses (a wait that is granted switches like a join does).  A step     *)
(* ends with the next access to a deque, to a descriptor's lock or to      *)
(* finished_.  Detached threads are left out: thread_funcs has no detach.  *)
(***************************************************************************)
EXTENDS ChaseLev

CONSTANTS
    Desc,        \* bound: the task descriptors, with their stacks
    Main,        \* the main task
    Root,        \* worker 0
    MaxOps       \* bound: forks, yields and refused waits

ASSUME SchedAssumption ==
    /\ Root \in Worker
    /\ Nil \notin Desc /\ Main \notin Desc \cup Worker \cup {Nil} /\ Desc \cap Worker = {}
    /\ MaxOps \in Nat
    /\ IsFiniteSet(Desc)

VARIABLES
    cur,         \* cur_tk_: the task, or the root, each worker runs
    rootCont,    \* root_cont_ of the worker is set
    act,         \* what each worker does
    arg,         \* the task it joins, or the worker it steals from
    finishedFlag,\* finished_ of the scheduler
    destCont,    \* dest_cont_
    locked,      \* descriptors whose mtx is locked
    finished,    \* finished of a descriptor
    joiner,      \* joiner of a descriptor
    handles,     \* threads main has not joined
    opsDone,     \* history: forks, yields and refused waits so far
    spare        \* the task pool, as Pool describes it

descVars == <<locked, finished, joiner>>
progVars == <<handles, opsDone>>
runVars == <<cur, rootCont, act, arg>>
endVars == <<finishedFlag, destCont>>
vars == <<dequeVars, runVars, endVars, descVars, progVars, spare>>

Task == Desc \cup {Main}
Acts == {"loop", "steal", "run", "yield", "wait", "join", "exit", "end", "stopped", "over"}

\* Types of the scheduler and its deques.
TypeOK ==
    /\ top \in [Worker -> Index] /\ bottom \in [Worker -> Index] /\ own \in [Worker -> Index]
    /\ dpc \in [Worker -> DequePC]
    /\ res \in [Worker -> Task \cup {Nil}]
    /\ cur \in [Worker -> Task \cup Worker]
    /\ rootCont \in [Worker -> BOOLEAN]
    /\ act \in [Worker -> Acts]
    /\ arg \in [Worker -> Desc \cup Worker \cup {Nil}]
    /\ destCont \in {Main, Nil}
    /\ locked \subseteq Desc /\ finished \subseteq Desc /\ handles \subseteq Desc
    /\ joiner \in [Desc -> {Main, Nil}]

\* The initializer has forked the scheduler loop of worker 0, with the main
\* task in the deque; the other workers are in their loops.
Init ==
    /\ DequeInit(Root, Main)
    /\ cur = [w \in Worker |-> w]
    /\ rootCont = [w \in Worker |-> FALSE]
    /\ act = [w \in Worker |-> "loop"]
    /\ arg = [w \in Worker |-> Nil]
    /\ finishedFlag = FALSE
    /\ destCont = Nil
    /\ locked = {}
    /\ finished = {}
    /\ joiner = [d \in Desc |-> Nil]
    /\ handles = {}
    /\ opsDone = 0
    /\ spare = Desc

----------------------------------------------------------------------------
(* The scheduler loop *)

LoopPop(w) ==
    /\ act[w] = "loop"
    /\ ~finishedFlag
    /\ PopStart(w)
    /\ UNCHANGED <<runVars, endVars, descVars, progVars, spare>>

LoopStop(w) ==
    /\ act[w] = "loop"
    /\ dpc[w] = "idle"
    /\ finishedFlag
    /\ act' = [act EXCEPT ![w] = "stopped"]
    /\ UNCHANGED <<dequeVars, cur, rootCont, arg, endVars, descVars, progVars, spare>>

\* try_steal_from_others
LoopSteal(w) ==
    /\ act[w] = "loop"
    /\ dpc[w] = "done"
    /\ res[w] = Nil
    /\ \E v \in Worker \ {w} :
        /\ StealStart(w, v)
        /\ arg' = [arg EXCEPT ![w] = v]
    /\ act' = [act EXCEPT ![w] = "steal"]
    /\ UNCHANGED <<cur, rootCont, endVars, descVars, progVars, spare>>

StealStep(w) ==
    /\ act[w] = "steal"
    /\ Steal(w, arg[w])
    /\ UNCHANGED <<runVars, endVars, descVars, progVars, spare>>

LoopAgain(w) ==
    /\ act[w] = "steal"
    /\ dpc[w] = "done"
    /\ res[w] = Nil
    /\ Taken(w)
    /\ act' = [act EXCEPT ![w] = "loop"]
    /\ arg' = [arg EXCEPT ![w] = Nil]
    /\ UNCHANGED <<top, bottom, elems, sb, own, cur, rootCont, endVars, descVars, progVars, spare>>

Execute(w) ==
    /\ act[w] \in {"loop", "steal"}
    /\ dpc[w] = "done"
    /\ res[w] # Nil
    /\ cur' = [cur EXCEPT ![w] = res[w]]
    /\ rootCont' = [rootCont EXCEPT ![w] = TRUE]
    /\ act' = [act EXCEPT ![w] = "run"]
    /\ arg' = [arg EXCEPT ![w] = Nil]
    /\ Taken(w)
    /\ UNCHANGED <<top, bottom, elems, sb, own, endVars, descVars, progVars, spare>>

Loop(w) == LoopPop(w) \/ LoopStop(w) \/ LoopSteal(w) \/ StealStep(w) \/ LoopAgain(w) \/ Execute(w)

----------------------------------------------------------------------------
(* What a running task does *)

Runs(w, t) == act[w] = "run" /\ cur[w] = t

\* fork_child_first: the parent is pushed, the child runs.
Fork(w) ==
    /\ Runs(w, Main)
    /\ opsDone < MaxOps
    /\ opsDone' = opsDone + 1
    /\ \E d \in spare :
        /\ d = CHOOSE e \in spare : TRUE
        /\ spare' = spare \ {d}
        /\ finished' = finished \ {d}
        /\ cur' = [cur EXCEPT ![w] = d]
        /\ handles' = handles \cup {d}
    /\ Push(w, Main)
    /\ UNCHANGED <<ops, rootCont, act, arg, endVars, locked, joiner>>

\* The task gives up its worker, for the continuation that the pop returns.
Leave(w, a) ==
    /\ PopStart(w)
    /\ act' = [act EXCEPT ![w] = a]
    /\ UNCHANGED <<cur, rootCont>>

Pause(w) ==
    /\ act[w] = "run"
    /\ opsDone < MaxOps
    /\ opsDone' = opsDone + 1
    /\ \E a \in {"yield", "wait"} : Leave(w, a)
    /\ UNCHANGED <<arg, endVars, descVars, handles, spare>>

JoinFinished(w, d) ==
    /\ Runs(w, Main)
    /\ d \in handles \ locked
    /\ d \in finished
    /\ handles' = handles \ {d}
    /\ spare' = spare \cup {d}
    /\ UNCHANGED <<dequeVars, runVars, endVars, descVars, opsDone>>

\* The lock is kept across the switch.
JoinBlock(w, d) ==
    /\ Runs(w, Main)
    /\ d \in handles \ locked
    /\ d \notin finished
    /\ locked' = locked \cup {d}
    /\ arg' = [arg EXCEPT ![w] = d]
    /\ Leave(w, "join")
    /\ UNCHANGED <<endVars, finished, joiner, progVars, spare>>

\* Mutant: an exiting task is marked as finished while it still runs.
MarkExiting_Finished(d) == finished' = finished \cup {d} /\ locked' = locked

MarkExiting(d) == finished' = finished /\ locked' = locked \cup {d}

\* exit, to the scheduler
ExitToSched(w, d) ==
    /\ Runs(w, d)
    /\ d \notin locked
    /\ joiner[d] = Nil
    /\ MarkExiting(d)
    /\ Leave(w, "exit")
    /\ UNCHANGED <<arg, endVars, joiner, progVars, spare>>

\* exit to the joiner: lock, switch and on_exit
ExitToJoiner(w, d) ==
    /\ Runs(w, d)
    /\ d \notin locked
    /\ joiner[d] # Nil
    /\ cur' = [cur EXCEPT ![w] = joiner[d]]
    /\ joiner' = [joiner EXCEPT ![d] = Nil]
    /\ finished' = finished \cup {d}
    /\ handles' = handles \ {d}
    /\ UNCHANGED <<dequeVars, rootCont, act, arg, endVars, locked, opsDone, spare>>

\* ~initializer: all threads are joined, and main goes back to worker 0.
End(w) ==
    /\ Runs(w, Main)
    /\ handles = {}
    /\ finishedFlag' = TRUE
    /\ Leave(w, "end")
    /\ UNCHANGED <<arg, destCont, descVars, progVars, spare>>

PopStep(w) ==
    /\ Pop(w)
    /\ UNCHANGED <<runVars, endVars, descVars, progVars, spare>>

Run(w) ==
    \/ Fork(w) \/ Pause(w) \/ End(w)
    \/ \E d \in Desc : JoinFinished(w, d) \/ JoinBlock(w, d) \/ ExitToSched(w, d) \/ ExitToJoiner(w, d)

----------------------------------------------------------------------------
(* The switch, with the function that runs on the next task's stack *)

\* local_pop_top_or_root
PoppedRoot(w) == res[w] = Nil
NextTask(w) == IF PoppedRoot(w) THEN w ELSE res[w]

SwitchTo(w) ==
    /\ dpc[w] = "done"
    /\ cur' = [cur EXCEPT ![w] = NextTask(w)]
    /\ rootCont' = [rootCont EXCEPT ![w] = @ /\ ~PoppedRoot(w)]
    /\ act' = [act EXCEPT ![w] = IF PoppedRoot(w) THEN "loop" ELSE "run"]
    /\ arg' = [arg EXCEPT ![w] = Nil]
    /\ Taken(w)

\* on_yield
SwitchYield(w) ==
    /\ act[w] = "yield"
    /\ SwitchTo(w)
    /\ Push(w, cur[w])
    /\ UNCHANGED <<endVars, descVars, progVars, spare>>

\* on_join
SwitchJoin(w) ==
    /\ act[w] = "join"
    /\ SwitchTo(w)
    /\ joiner' = [joiner EXCEPT ![arg[w]] = cur[w]]
    /\ locked' = locked \ {arg[w]}
    /\ UNCHANGED <<top, bottom, elems, sb, own, endVars, finished, progVars, spare>>

\* on_exit
SwitchExit(w) ==
    /\ act[w] = "exit"
    /\ SwitchTo(w)
    /\ finished' = finished \cup {cur[w]}
    /\ locked' = locked \ {cur[w]}
    /\ UNCHANGED <<top, bottom, elems, sb, own, endVars, joiner, progVars, spare>>

\* on_exit_root
SwitchEnd(w) ==
    /\ act[w] = "end"
    /\ SwitchTo(w)
    /\ destCont' = cur[w]
    /\ UNCHANGED <<top, bottom, elems, sb, own, finishedFlag, descVars, progVars, spare>>

\* Mutant: the continuation that is not needed is always put into the deque.
PutBack_Pushed(w) ==
    /\ dpc[w] = "done"
    /\ Push(w, NextTask(w))
    /\ rootCont' = [rootCont EXCEPT ![w] = @ /\ ~PoppedRoot(w)]

\* cond_suspend_to_sched, refused: the task goes on, the popped continuation
\* goes back to the deque, or to root_cont_ if that was taken.
PutBack(w) ==
    /\ dpc[w] = "done"
    /\ IF PoppedRoot(w) THEN UNCHANGED <<top, bottom, elems, sb, own>> ELSE Push(w, res[w])
    /\ rootCont' = rootCont

SwitchRefused(w) ==
    /\ act[w] = "wait"
    /\ PutBack(w)
    /\ act' = [act EXCEPT ![w] = "run"]
    /\ Taken(w)
    /\ UNCHANGED <<cur, arg, endVars, descVars, progVars, spare>>

Switch(w) ==
    SwitchYield(w) \/ SwitchJoin(w) \/ SwitchExit(w) \/ SwitchEnd(w) \/ SwitchRefused(w)

----------------------------------------------------------------------------
\* finish_workers joins the other workers, and main returns in worker 0.
Finish ==
    /\ \A w \in Worker : act[w] = "stopped"
    /\ destCont # Nil
    /\ cur' = [cur EXCEPT ![Root] = destCont]
    /\ destCont' = Nil
    /\ act' = [act EXCEPT ![Root] = "over"]
    /\ UNCHANGED <<dequeVars, rootCont, arg, finishedFlag, descVars, progVars, spare>>

FlushStep(w) ==
    /\ Flush(w)
    /\ UNCHANGED <<runVars, endVars, descVars, progVars, spare>>

WorkerStep(w) == Loop(w) \/ Run(w) \/ PopStep(w) \/ Switch(w)

Over == act[Root] = "over" /\ UNCHANGED vars

Next == (\E w \in Worker : WorkerStep(w) \/ FlushStep(w)) \/ Finish \/ Over

\* Every worker keeps running, and stores become visible.
Fairness ==
    /\ \A w \in Worker : WF_vars(WorkerStep(w)) /\ WF_vars(FlushStep(w))
    /\ WF_vars(Finish)

Spec == Init /\ [][Next]_vars /\ Fairness

----------------------------------------------------------------------------
(* Properties *)

\* No task runs on two workers, runs while it waits for a join, or runs after
\* it has finished: a continuation is taken from a deque once, by its owner or
\* by one thief.
RunsOnce ==
    \A w \in Worker : cur[w] \in Task =>
        /\ \A v \in Worker \ {w} : cur[v] # cur[w]
        /\ \A d \in Desc : joiner[d] # cur[w]
        /\ cur[w] \notin finished
        /\ act[w] \notin {"loop", "steal"}

\* The scheduler loop of a worker runs on that worker, and is in root_cont_ or
\* running: local_pop_top_or_root always finds it.
RootAtHome ==
    \A w \in Worker :
        /\ cur[w] \in Worker \cup Task /\ (cur[w] \in Worker => cur[w] = w \/ act[w] = "over")
        /\ cur[w] \in Task /\ act[w] # "over" => rootCont[w]
        /\ \A i \in DOMAIN elems[w] : elems[w][i] \notin Worker

\* A deque with a slot for every child never throws: no push finds it full.
Pushes(w) ==
    \/ Runs(w, Main) /\ Cardinality(handles) < Cardinality(Desc)
    \/ act[w] \in {"yield", "wait"} /\ dpc[w] = "done"

NeverFull ==
    Cardinality(Desc) <= Size => \A w \in Worker : Pushes(w) => ~Full(w)

\* A stack goes back to the pool, and to another task, only after its task has
\* finished and left it.
StackLeft ==
    \A d \in spare : d \notin handles /\ \A w \in Worker : cur[w] # d

\* join returns after the joined task has finished and left its stack.
JoinedIsFinished ==
    \A d \in Desc : d \notin spare \cup handles =>
        d \in finished /\ \A w \in Worker : cur[w] # d

\* No stack is taken from a task that still runs on it, by join or by the pool.
StackIsSafe == StackLeft /\ JoinedIsFinished

\* Every task finishes, every join returns, and the program ends.
Terminates == <>(act[Root] = "over")
=============================================================================
