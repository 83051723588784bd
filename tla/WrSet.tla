------------------------------- MODULE WrSet -------------------------------
(***************************************************************************)
(* The write set of one process (wr_set) and the release fence that drains *)
(* it (space::fence_release): threads that ask for a fence at the same     *)
(* time elect one of them, which releases every block of the write set and *)
(* merges the write notices into the release signature; the others wait    *)
(* for the first fence that started after they asked.                      *)
(*                                                                         *)
(* What a release does to one block is module Block's business.  Here a    *)
(* block is clean, dirty (invalid_dirty or readonly_dirty) or writable,    *)
(* and whether a release keeps it in the write set (a transaction that     *)
(* leaves it writable, or a fast release) is a free choice.  Transactions  *)
(* outside of a fence, which may release writes too, are Block's as well.  *)
(* A section under rel_mtx_, new_ids_mtx_ or the mutex of a block is one   *)
(* step.                                                                   *)
(***************************************************************************)
EXTENDS Integers

CONSTANTS
    Thread,   \* threads of the process
    Blk,      \* blocks
    MaxGen    \* bound: fences are started while gen_ is below it

ASSUME WrSetAssumption == MaxGen \in Nat

VARIABLES
    newIds,       \* new_ids_: blocks made writable since the last fence
    dirtyIds,     \* dirty_ids_: blocks the last fence left writable
    gen,          \* gen_: fences completed
    isReleasing,  \* is_releasing_
    asleep,       \* threads that wait on rel_cv_
    pc,           \* where each thread is
    myGen,        \* gen, the fence a thread waits for
    todo,         \* IDs of the fence in progress whose release is still to come
    kept,         \* IDs of that fence released with is_still_writable
    wnVec,        \* blocks for which that fence made a write notice
    blk,          \* state of each block
    diff,         \* blocks with writes that no release has seen
    before        \* history: of the writes before the fence of a thread, those
                  \* not released and those not yet in the release signature

vars == <<newIds, dirtyIds, gen, isReleasing, asleep, pc, myGen, todo, kept,
          wnVec, blk, diff, before>>

wrSetVars == <<gen, isReleasing, asleep, pc, myGen>>
fenceVars == <<dirtyIds, todo, kept>>

Init ==
    /\ newIds = {} /\ dirtyIds = {}
    /\ gen = 0 /\ isReleasing = FALSE /\ asleep = {}
    /\ pc = [t \in Thread |-> "idle"]
    /\ myGen = [t \in Thread |-> 0]
    /\ todo = {} /\ kept = {} /\ wnVec = {}
    /\ blk = [b \in Blk |-> "clean"]
    /\ diff = {}
    /\ before = [t \in Thread |-> [diff |-> {}, wn |-> {}]]

----------------------------------------------------------------------------
(* Blocks between fences *)

\* start_write of a block that is not writable: it enters the write set.
AddWritable(t, b) ==
    /\ pc[t] = "idle"
    /\ blk[b] # "writable"
    /\ blk' = [blk EXCEPT ![b] = "writable"]
    /\ newIds' = newIds \cup {b}
    /\ UNCHANGED <<wrSetVars, fenceVars, wnVec, diff, before>>

\* The application stores to a writable block.
Write(t, b) ==
    /\ pc[t] = "idle"
    /\ blk[b] = "writable"
    /\ diff' = diff \cup {b}
    /\ UNCHANGED <<newIds, wrSetVars, fenceVars, wnVec, blk, before>>

\* An acquire of another thread invalidates the block, which keeps its writes.
Invalidate(b) ==
    /\ blk[b] = "writable"
    /\ blk' = [blk EXCEPT ![b] = "dirty"]
    /\ UNCHANGED <<newIds, wrSetVars, fenceVars, wnVec, diff, before>>

----------------------------------------------------------------------------
(* Electing the thread that releases *)

\* From the first waiting loop on, for a thread that waits for fence g.
Elect(t, g) ==
    \/ /\ gen - g < 0
       /\ pc' = [pc EXCEPT ![t] = "wait1"]
       /\ asleep' = asleep \cup {t}
       /\ UNCHANGED isReleasing
    \/ /\ gen - g = 0 /\ isReleasing
       /\ pc' = [pc EXCEPT ![t] = "wait2"]
       /\ asleep' = asleep \cup {t}
       /\ UNCHANGED isReleasing
    \/ /\ gen - g > 0 /\ isReleasing
       /\ pc' = [pc EXCEPT ![t] = "idle"]
       /\ UNCHANGED <<asleep, isReleasing>>
    \/ /\ gen - g >= 0 /\ ~ isReleasing
       /\ pc' = [pc EXCEPT ![t] = "take"]
       /\ isReleasing' = TRUE
       /\ UNCHANGED asleep

\* Mutant: a thread joins the fence that is already in progress.
ReleasePosition_Current(t) == gen

\* The first fence that starts after this point.
ReleasePosition(t) == gen + (IF isReleasing THEN 1 ELSE 0)

\* Mutant: every thread elects itself.
StartRelease_NoFlag(t) ==
    /\ pc[t] = "idle" /\ gen < MaxGen
    /\ myGen' = [myGen EXCEPT ![t] = ReleasePosition(t)]
    /\ pc' = [pc EXCEPT ![t] = "take"]
    /\ before' = [before EXCEPT ![t] = [diff |-> diff, wn |-> wnVec]]
    /\ UNCHANGED <<newIds, fenceVars, gen, wnVec, blk, diff, isReleasing, asleep>>

StartRelease(t) ==
    /\ pc[t] = "idle" /\ gen < MaxGen
    /\ myGen' = [myGen EXCEPT ![t] = ReleasePosition(t)]
    /\ Elect(t, ReleasePosition(t))
    /\ before' = [before EXCEPT ![t] = [diff |-> diff, wn |-> wnVec]]
    /\ UNCHANGED <<newIds, fenceVars, gen, wnVec, blk, diff>>

\* Back from rel_cv_.wait in the first loop, and in the second one.
ResumeFirstWait(t) ==
    /\ pc[t] = "wait1" /\ t \notin asleep
    /\ Elect(t, myGen[t])
    /\ UNCHANGED <<newIds, fenceVars, gen, myGen, wnVec, blk, diff, before>>

ResumeSecondWait(t) ==
    /\ pc[t] = "wait2" /\ t \notin asleep
    /\ \/ /\ gen - myGen[t] <= 0
          /\ asleep' = asleep \cup {t}
          /\ UNCHANGED pc
       \/ /\ gen - myGen[t] > 0
          /\ pc' = [pc EXCEPT ![t] = "idle"]
          /\ UNCHANGED asleep
    /\ UNCHANGED <<newIds, fenceVars, gen, isReleasing, myGen, wnVec, blk, diff, before>>

\* A condition variable may wake a thread that nobody notified.
SpuriousWakeup(t) ==
    /\ t \in asleep
    /\ asleep' = asleep \ {t}
    /\ UNCHANGED <<newIds, fenceVars, gen, isReleasing, pc, myGen, wnVec, blk, diff, before>>

----------------------------------------------------------------------------
(* The fence itself, by the elected thread *)

\* Take the new IDs and merge them with the dirty ones.
TakeIds(t) ==
    /\ pc[t] = "take"
    /\ todo' = newIds \cup dirtyIds
    /\ newIds' = {}
    /\ pc' = [pc EXCEPT ![t] = "release"]
    /\ UNCHANGED <<dirtyIds, gen, isReleasing, asleep, myGen, kept, wnVec, blk, diff,
                   before>>

\* seg_table::release of one block, by a worker of the parallel loop.
Release(t, b) ==
    /\ pc[t] = "release" /\ b \in todo
    /\ todo' = todo \ {b}
    /\ \/ /\ blk[b] = "clean"
          /\ UNCHANGED <<kept, blk>>
       \/ /\ blk[b] # "clean"
          /\ blk' = [blk EXCEPT ![b] = "clean"]
          /\ UNCHANGED kept
       \/ /\ blk[b] # "clean"
          /\ kept' = kept \cup {b}
          /\ UNCHANGED blk
    /\ wnVec' = wnVec \cup ({b} \cap diff)
    /\ diff' = diff \ {b}
    /\ before' = [u \in Thread |-> [diff |-> before[u].diff \ {b},
                                    wn |-> before[u].wn \cup ({b} \cap before[u].diff)]]
    /\ UNCHANGED <<newIds, dirtyIds, wrSetVars>>

\* Mutant: the blocks found writable are forgotten.
KeepDirtyIds_None(t) ==
    /\ pc[t] = "release" /\ todo = {}
    /\ dirtyIds' = {} /\ kept' = {}
    /\ pc' = [pc EXCEPT ![t] = "merge"]
    /\ UNCHANGED <<newIds, gen, isReleasing, asleep, myGen, todo, wnVec, blk, diff, before>>

\* Remove the blocks that are not writable any more from the dirty IDs.
KeepDirtyIds(t) ==
    /\ pc[t] = "release" /\ todo = {}
    /\ dirtyIds' = kept /\ kept' = {}
    /\ pc' = [pc EXCEPT ![t] = "merge"]
    /\ UNCHANGED <<newIds, gen, isReleasing, asleep, myGen, todo, wnVec, blk, diff, before>>

\* rel_sig_.merge of the write notices.
MergeNotices(t) ==
    /\ pc[t] = "merge"
    /\ wnVec' = {}
    /\ before' = [u \in Thread |-> [before[u] EXCEPT !.wn = {}]]
    /\ pc' = [pc EXCEPT ![t] = "finish"]
    /\ UNCHANGED <<newIds, fenceVars, gen, isReleasing, asleep, myGen, blk, diff>>

\* Mutant: only one of the waiting threads is notified.
FinishRelease_NotifyOne(t) ==
    /\ pc[t] = "finish"
    /\ isReleasing' = FALSE
    /\ gen' = gen + 1
    /\ IF asleep = {} THEN asleep' = {}
       ELSE \E u \in asleep : asleep' = asleep \ {u}
    /\ pc' = [pc EXCEPT ![t] = "idle"]
    /\ UNCHANGED <<newIds, fenceVars, myGen, wnVec, blk, diff, before>>

FinishRelease(t) ==
    /\ pc[t] = "finish"
    /\ isReleasing' = FALSE
    /\ gen' = gen + 1
    /\ asleep' = {}
    /\ pc' = [pc EXCEPT ![t] = "idle"]
    /\ UNCHANGED <<newIds, fenceVars, myGen, wnVec, blk, diff, before>>

----------------------------------------------------------------------------
FenceStep(t) ==
    \/ ResumeFirstWait(t) \/ ResumeSecondWait(t) \/ TakeIds(t)
    \/ \E b \in Blk : Release(t, b)
    \/ KeepDirtyIds(t) \/ MergeNotices(t) \/ FinishRelease(t)

Next ==
    \/ \E t \in Thread :
        \/ \E b \in Blk : AddWritable(t, b) \/ Write(t, b)
        \/ StartRelease(t) \/ SpuriousWakeup(t) \/ FenceStep(t)
    \/ \E b \in Blk : Invalidate(b)

\* A thread that can go on inside a fence does: the scheduler is fair.
Fairness == \A t \in Thread : WF_vars(FenceStep(t))

Spec == Init /\ [][Next]_vars /\ Fairness

----------------------------------------------------------------------------
(* Properties *)

Releasing(t) == pc[t] \in {"take", "release", "merge", "finish"}

\* Types of the write set, and of the threads and blocks around it.
TypeOK ==
    /\ {newIds, dirtyIds, todo, kept, wnVec, diff} \subseteq SUBSET Blk
    /\ gen \in Nat /\ isReleasing \in BOOLEAN /\ asleep \subseteq Thread
    /\ pc \in [Thread -> {"idle", "wait1", "wait2", "take", "release", "merge", "finish"}]
    /\ myGen \in [Thread -> Nat]
    /\ blk \in [Blk -> {"clean", "dirty", "writable"}]
    /\ before \in [Thread -> [diff : SUBSET Blk, wn : SUBSET Blk]]

\* When fence_release returns, elected or not, every write of the process that
\* came before the call has its notice in the release signature.
FenceCoversWrites ==
    \A t \in Thread : pc[t] = "idle" => before[t] = [diff |-> {}, wn |-> {}]

\* The dirty IDs are touched by one thread at a time, although no mutex is held,
\* and is_releasing_ is set when finish_release asserts it.
OneReleaser ==
    /\ \A t, u \in Thread : Releasing(t) /\ Releasing(u) => t = u
    /\ \A t \in Thread : Releasing(t) => isReleasing

\* A block that is writable or dirty will be released by the next fence, or
\* still by the one in progress.
NoBlockForgotten ==
    \A b \in Blk : blk[b] # "clean" =>
        \/ b \in newIds \cup todo \cup kept
        \/ b \in dirtyIds /\ \A t \in Thread : pc[t] # "release"

\* A call of fence_release returns.
FenceReturns == \A t \in Thread : pc[t] # "idle" ~> pc[t] = "idle"
=============================================================================
