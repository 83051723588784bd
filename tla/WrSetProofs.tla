---------------------------- MODULE WrSetProofs ----------------------------
(***************************************************************************)
(* Proofs about the write set: for any number of threads and blocks, and   *)
(* any number of fences, a fence_release that returns has announced every  *)
(* write that came before it.                                              *)
(***************************************************************************)
EXTENDS WrSet, TLAPS

\* Whoever set is_releasing_ is still at it.
FlagHasReleaser == isReleasing => \E t \in Thread : Releasing(t)

\* The local data of a fence is empty outside of it.
LocalsAreEmpty ==
    /\ (\A t \in Thread : pc[t] # "release") => todo = {} /\ kept = {}
    /\ (\A t \in Thread : pc[t] \notin {"release", "merge"}) => wnVec = {}

\* What is recorded for a fence is a part of what the process still has to do.
BeforeIsPending ==
    \A t \in Thread : before[t].diff \subseteq diff /\ before[t].wn \subseteq wnVec

\* Written blocks are not clean.
WrittenIsDirty == \A b \in diff : blk[b] # "clean"

\* The fence a thread waits for is the current or the next one, or is over.
GenerationOrder ==
    \A t \in Thread :
        /\ pc[t] = "wait1" /\ ~ isReleasing => myGen[t] <= gen
        /\ pc[t] = "wait1" => myGen[t] <= gen + 1
        /\ pc[t] = "wait2" \/ Releasing(t) => myGen[t] <= gen
        /\ pc[t] = "wait2" /\ ~ isReleasing => myGen[t] < gen

\* Once the fence a thread waits for has taken its IDs, they include all that
\* the thread is owed.
FenceIncludes ==
    \A t, u \in Thread : pc[t] # "idle" /\ myGen[t] <= gen =>
        /\ pc[u] = "release" => before[t].diff \subseteq todo
        /\ pc[u] \in {"merge", "finish"} => before[t].diff = {}

\* When that fence is over, nothing is owed.
OverMeansCovered ==
    \A t \in Thread :
        pc[t] = "idle" \/ (pc[t] \in {"wait1", "wait2"} /\ myGen[t] < gen)
            => before[t].diff = {} /\ before[t].wn = {}

IInv ==
    /\ TypeOK /\ OneReleaser /\ FlagHasReleaser /\ LocalsAreEmpty /\ BeforeIsPending
    /\ WrittenIsDirty /\ NoBlockForgotten /\ GenerationOrder /\ FenceIncludes
    /\ OverMeansCovered

----------------------------------------------------------------------------
(* Each action preserves the invariant. *)

\* A write fault adds an ID and touches no fence.
LEMMA AddWritablePreserves ==
    ASSUME IInv, NEW t \in Thread, NEW b \in Blk, AddWritable(t, b)
    PROVE  IInv'
<1>1. TypeOK'
    BY DEF IInv, TypeOK, AddWritable, wrSetVars, fenceVars
<1>2. OneReleaser'
    BY DEF IInv, OneReleaser, AddWritable, wrSetVars, Releasing
<1>3. FlagHasReleaser'
    BY DEF IInv, FlagHasReleaser, AddWritable, wrSetVars, Releasing
<1>4. LocalsAreEmpty'
    BY DEF IInv, LocalsAreEmpty, AddWritable, wrSetVars, fenceVars
<1>5. BeforeIsPending'
    BY DEF IInv, BeforeIsPending, AddWritable
<1>6. WrittenIsDirty'
    BY DEF IInv, WrittenIsDirty, AddWritable
<1>7. NoBlockForgotten'
    BY DEF IInv, NoBlockForgotten, AddWritable, wrSetVars, fenceVars
<1>8. GenerationOrder'
    BY DEF IInv, GenerationOrder, AddWritable, wrSetVars, Releasing
<1>9. FenceIncludes'
    BY DEF IInv, FenceIncludes, AddWritable, wrSetVars, fenceVars
<1>10. OverMeansCovered'
    BY DEF IInv, OverMeansCovered, AddWritable, wrSetVars
<1> QED
    BY <1>1, <1>2, <1>3, <1>4, <1>5, <1>6, <1>7, <1>8, <1>9, <1>10 DEF IInv

\* A store goes to a block that is already tracked.
LEMMA WritePreserves ==
    ASSUME IInv, NEW t \in Thread, NEW b \in Blk, Write(t, b)
    PROVE  IInv'
<1>1. TypeOK'
    BY DEF IInv, TypeOK, Write, wrSetVars, fenceVars
<1>2. OneReleaser'
    BY DEF IInv, OneReleaser, Write, wrSetVars, Releasing
<1>3. FlagHasReleaser'
    BY DEF IInv, FlagHasReleaser, Write, wrSetVars, Releasing
<1>4. LocalsAreEmpty'
    BY DEF IInv, LocalsAreEmpty, Write, wrSetVars, fenceVars
<1>5. BeforeIsPending'
    BY DEF IInv, BeforeIsPending, Write
<1>6. WrittenIsDirty'
    BY DEF IInv, WrittenIsDirty, Write
<1>7. NoBlockForgotten'
    BY DEF IInv, NoBlockForgotten, Write, wrSetVars, fenceVars
<1>8. GenerationOrder'
    BY DEF IInv, GenerationOrder, Write, wrSetVars, Releasing
<1>9. FenceIncludes'
    BY DEF IInv, FenceIncludes, Write, wrSetVars, fenceVars
<1>10. OverMeansCovered'
    BY DEF IInv, OverMeansCovered, Write, wrSetVars
<1> QED
    BY <1>1, <1>2, <1>3, <1>4, <1>5, <1>6, <1>7, <1>8, <1>9, <1>10 DEF IInv

\* An acquire leaves the block dirty, so still tracked.
LEMMA InvalidatePreserves ==
    ASSUME IInv, NEW b \in Blk, Invalidate(b)
    PROVE  IInv'
<1>1. TypeOK'
    BY DEF IInv, TypeOK, Invalidate, wrSetVars, fenceVars
<1>2. OneReleaser'
    BY DEF IInv, OneReleaser, Invalidate, wrSetVars, Releasing
<1>3. FlagHasReleaser'
    BY DEF IInv, FlagHasReleaser, Invalidate, wrSetVars, Releasing
<1>4. LocalsAreEmpty'
    BY DEF IInv, LocalsAreEmpty, Invalidate, wrSetVars, fenceVars
<1>5. BeforeIsPending'
    BY DEF IInv, BeforeIsPending, Invalidate
<1>6. WrittenIsDirty'
    BY DEF IInv, WrittenIsDirty, Invalidate
<1>7. NoBlockForgotten'
    BY DEF IInv, NoBlockForgotten, Invalidate, wrSetVars, fenceVars
<1>8. GenerationOrder'
    BY DEF IInv, GenerationOrder, Invalidate, wrSetVars, Releasing
<1>9. FenceIncludes'
    BY DEF IInv, FenceIncludes, Invalidate, wrSetVars, fenceVars
<1>10. OverMeansCovered'
    BY DEF IInv, OverMeansCovered, Invalidate, wrSetVars
<1> QED
    BY <1>1, <1>2, <1>3, <1>4, <1>5, <1>6, <1>7, <1>8, <1>9, <1>10 DEF IInv

\* A thread asks for a fence: it is owed all that is pending now.
LEMMA StartReleasePreserves ==
    ASSUME IInv, NEW t \in Thread, StartRelease(t)
    PROVE  IInv'
<1>1. TypeOK'
    <2>1. ReleasePosition(t) \in Nat
        BY DEF IInv, TypeOK, ReleasePosition
    <2>2. myGen' \in [Thread -> Nat]
        BY <2>1 DEF IInv, TypeOK, StartRelease
    <2>3. before' \in [Thread -> [diff : SUBSET Blk, wn : SUBSET Blk]]
        BY DEF IInv, TypeOK, StartRelease
    <2> QED
        BY <2>2, <2>3 DEF IInv, TypeOK, StartRelease, Elect, fenceVars
<1>2. OneReleaser'
    BY DEF IInv, TypeOK, OneReleaser, StartRelease, Elect, Releasing
<1>3. FlagHasReleaser'
    <2>1. CASE isReleasing
        <3>1. PICK u \in Thread : Releasing(u)
            BY <2>1 DEF IInv, FlagHasReleaser
        <3>2. u # t /\ pc'[u] = pc[u]
            BY <3>1 DEF IInv, TypeOK, StartRelease, Elect, Releasing
        <3> QED
            BY <3>1, <3>2 DEF FlagHasReleaser, Releasing
    <2>2. CASE ~ isReleasing
        BY <2>2 DEF IInv, TypeOK, StartRelease, Elect, FlagHasReleaser, Releasing
    <2> QED
        BY <2>1, <2>2 DEF IInv, TypeOK
<1>4. LocalsAreEmpty'
    BY DEF IInv, TypeOK, LocalsAreEmpty, StartRelease, Elect, fenceVars
<1>5. BeforeIsPending'
    BY DEF IInv, BeforeIsPending, StartRelease
<1>6. WrittenIsDirty'
    BY DEF IInv, WrittenIsDirty, StartRelease
<1>7. NoBlockForgotten'
    BY DEF IInv, TypeOK, NoBlockForgotten, StartRelease, Elect, fenceVars
<1>8. GenerationOrder'
    BY DEF IInv, TypeOK, GenerationOrder, StartRelease, Elect,
        ReleasePosition, Releasing
<1>9. FenceIncludes'
    BY DEF IInv, TypeOK, OneReleaser, FenceIncludes, StartRelease, Elect,
        ReleasePosition, fenceVars, Releasing
<1>10. OverMeansCovered'
    BY DEF IInv, TypeOK, OverMeansCovered, StartRelease, Elect,
        ReleasePosition
<1> QED
    BY <1>1, <1>2, <1>3, <1>4, <1>5, <1>6, <1>7, <1>8, <1>9, <1>10 DEF IInv

\* The previous fence is over, or the wakeup was spurious.
LEMMA ResumeFirstWaitPreserves ==
    ASSUME IInv, NEW t \in Thread, ResumeFirstWait(t)
    PROVE  IInv'
<1>1. TypeOK'
    BY DEF IInv, TypeOK, ResumeFirstWait, Elect, fenceVars
<1>2. OneReleaser'
    BY DEF IInv, TypeOK, OneReleaser, ResumeFirstWait, Elect, Releasing
<1>3. FlagHasReleaser'
    <2>1. CASE isReleasing
        <3>1. PICK u \in Thread : Releasing(u)
            BY <2>1 DEF IInv, FlagHasReleaser
        <3>2. u # t /\ pc'[u] = pc[u]
            BY <3>1 DEF IInv, TypeOK, ResumeFirstWait, Elect, Releasing
        <3> QED
            BY <3>1, <3>2 DEF FlagHasReleaser, Releasing
    <2>2. CASE ~ isReleasing
        BY <2>2 DEF IInv, TypeOK, ResumeFirstWait, Elect, FlagHasReleaser, Releasing
    <2> QED
        BY <2>1, <2>2 DEF IInv, TypeOK
<1>4. LocalsAreEmpty'
    BY DEF IInv, TypeOK, LocalsAreEmpty, ResumeFirstWait, Elect, fenceVars
<1>5. BeforeIsPending'
    BY DEF IInv, BeforeIsPending, ResumeFirstWait
<1>6. WrittenIsDirty'
    BY DEF IInv, WrittenIsDirty, ResumeFirstWait
<1>7. NoBlockForgotten'
    BY DEF IInv, TypeOK, NoBlockForgotten, ResumeFirstWait, Elect, fenceVars
<1>8. GenerationOrder'
    BY DEF IInv, TypeOK, GenerationOrder, ResumeFirstWait, Elect, Releasing
<1>9. FenceIncludes'
    BY DEF IInv, TypeOK, FenceIncludes, ResumeFirstWait, Elect, fenceVars
<1>10. OverMeansCovered'
    BY DEF IInv, TypeOK, OverMeansCovered, ResumeFirstWait, Elect
<1> QED
    BY <1>1, <1>2, <1>3, <1>4, <1>5, <1>6, <1>7, <1>8, <1>9, <1>10 DEF IInv

\* The fence a thread waited for is over, or the wakeup was spurious.
LEMMA ResumeSecondWaitPreserves ==
    ASSUME IInv, NEW t \in Thread, ResumeSecondWait(t)
    PROVE  IInv'
<1>1. TypeOK'
    BY DEF IInv, TypeOK, ResumeSecondWait, fenceVars
<1>2. OneReleaser'
    BY DEF IInv, TypeOK, OneReleaser, ResumeSecondWait, Releasing
<1>3. FlagHasReleaser'
    BY DEF IInv, TypeOK, FlagHasReleaser, ResumeSecondWait, Releasing
<1>4. LocalsAreEmpty'
    BY DEF IInv, TypeOK, LocalsAreEmpty, ResumeSecondWait, fenceVars
<1>5. BeforeIsPending'
    BY DEF IInv, BeforeIsPending, ResumeSecondWait
<1>6. WrittenIsDirty'
    BY DEF IInv, WrittenIsDirty, ResumeSecondWait
<1>7. NoBlockForgotten'
    BY DEF IInv, TypeOK, NoBlockForgotten, ResumeSecondWait, fenceVars
<1>8. GenerationOrder'
    BY DEF IInv, TypeOK, GenerationOrder, ResumeSecondWait, Releasing
<1>9. FenceIncludes'
    BY DEF IInv, TypeOK, FenceIncludes, ResumeSecondWait, fenceVars
<1>10. OverMeansCovered'
    BY DEF IInv, TypeOK, OverMeansCovered, ResumeSecondWait
<1> QED
    BY <1>1, <1>2, <1>3, <1>4, <1>5, <1>6, <1>7, <1>8, <1>9, <1>10 DEF IInv

\* Waking up changes nothing but the set of sleepers.
LEMMA SpuriousWakeupPreserves ==
    ASSUME IInv, NEW t \in Thread, SpuriousWakeup(t)
    PROVE  IInv'
<1>1. TypeOK'
    BY DEF IInv, TypeOK, SpuriousWakeup, fenceVars
<1>2. OneReleaser'
    BY DEF IInv, OneReleaser, SpuriousWakeup, Releasing
<1>3. FlagHasReleaser'
    BY DEF IInv, FlagHasReleaser, SpuriousWakeup, Releasing
<1>4. LocalsAreEmpty'
    BY DEF IInv, LocalsAreEmpty, SpuriousWakeup, fenceVars
<1>5. BeforeIsPending'
    BY DEF IInv, BeforeIsPending, SpuriousWakeup
<1>6. WrittenIsDirty'
    BY DEF IInv, WrittenIsDirty, SpuriousWakeup
<1>7. NoBlockForgotten'
    BY DEF IInv, NoBlockForgotten, SpuriousWakeup, fenceVars
<1>8. GenerationOrder'
    BY DEF IInv, GenerationOrder, SpuriousWakeup, Releasing
<1>9. FenceIncludes'
    BY DEF IInv, FenceIncludes, SpuriousWakeup, fenceVars
<1>10. OverMeansCovered'
    BY DEF IInv, OverMeansCovered, SpuriousWakeup
<1> QED
    BY <1>1, <1>2, <1>3, <1>4, <1>5, <1>6, <1>7, <1>8, <1>9, <1>10 DEF IInv

\* The IDs taken include every written block, hence all that any waiting
\* thread is owed.
LEMMA TakeIdsPreserves ==
    ASSUME IInv, NEW t \in Thread, TakeIds(t)
    PROVE  IInv'
<1>1. TypeOK'
    BY DEF IInv, TypeOK, TakeIds
<1>2. OneReleaser'
    BY DEF IInv, OneReleaser, TakeIds, Releasing
<1>3. FlagHasReleaser'
    BY DEF IInv, FlagHasReleaser, TakeIds, Releasing
<1>4. LocalsAreEmpty'
    BY DEF IInv, TypeOK, LocalsAreEmpty, TakeIds
<1>5. BeforeIsPending'
    BY DEF IInv, BeforeIsPending, TakeIds
<1>6. WrittenIsDirty'
    BY DEF IInv, WrittenIsDirty, TakeIds
<1>7. NoBlockForgotten'
    BY DEF IInv, OneReleaser, LocalsAreEmpty, NoBlockForgotten, TakeIds,
        Releasing
<1>8. GenerationOrder'
    BY DEF IInv, GenerationOrder, TakeIds, Releasing
<1>9. FenceIncludes'
    BY DEF IInv, TypeOK, OneReleaser, LocalsAreEmpty, BeforeIsPending,
        WrittenIsDirty, NoBlockForgotten, FenceIncludes, TakeIds, Releasing
<1>10. OverMeansCovered'
    BY DEF IInv, OverMeansCovered, TakeIds
<1> QED
    BY <1>1, <1>2, <1>3, <1>4, <1>5, <1>6, <1>7, <1>8, <1>9, <1>10 DEF IInv

\* A release turns what is owed for a block into a notice.
LEMMA ReleasePreserves ==
    ASSUME IInv, NEW t \in Thread, NEW b \in Blk, Release(t, b)
    PROVE  IInv'
<1>1. TypeOK'
    BY DEF IInv, TypeOK, Release, wrSetVars
<1>2. OneReleaser'
    BY DEF IInv, OneReleaser, Release, wrSetVars, Releasing
<1>3. FlagHasReleaser'
    BY DEF IInv, FlagHasReleaser, Release, wrSetVars, Releasing
<1>4. LocalsAreEmpty'
    BY DEF IInv, LocalsAreEmpty, Release, wrSetVars
<1>5. BeforeIsPending'
    BY DEF IInv, BeforeIsPending, Release
<1>6. WrittenIsDirty'
    BY DEF IInv, TypeOK, WrittenIsDirty, Release
<1>7. NoBlockForgotten'
    BY DEF IInv, TypeOK, NoBlockForgotten, Release
<1>8. GenerationOrder'
    BY DEF IInv, GenerationOrder, Release, wrSetVars, Releasing
<1>9. FenceIncludes'
    BY DEF IInv, FenceIncludes, Release, wrSetVars
<1>10. OverMeansCovered'
    BY DEF IInv, OverMeansCovered, Release, wrSetVars
<1> QED
    BY <1>1, <1>2, <1>3, <1>4, <1>5, <1>6, <1>7, <1>8, <1>9, <1>10 DEF IInv

\* All IDs are done; the blocks found writable stay tracked.
LEMMA KeepDirtyIdsPreserves ==
    ASSUME IInv, NEW t \in Thread, KeepDirtyIds(t)
    PROVE  IInv'
<1>1. TypeOK'
    BY DEF IInv, TypeOK, KeepDirtyIds
<1>2. OneReleaser'
    BY DEF IInv, OneReleaser, KeepDirtyIds, Releasing
<1>3. FlagHasReleaser'
    BY DEF IInv, FlagHasReleaser, KeepDirtyIds, Releasing
<1>4. LocalsAreEmpty'
    BY DEF IInv, LocalsAreEmpty, KeepDirtyIds
<1>5. BeforeIsPending'
    BY DEF IInv, BeforeIsPending, KeepDirtyIds
<1>6. WrittenIsDirty'
    BY DEF IInv, WrittenIsDirty, KeepDirtyIds
<1>7. NoBlockForgotten'
    BY DEF IInv, TypeOK, OneReleaser, NoBlockForgotten, KeepDirtyIds,
        Releasing
<1>8. GenerationOrder'
    BY DEF IInv, GenerationOrder, KeepDirtyIds, Releasing
<1>9. FenceIncludes'
    BY DEF IInv, FenceIncludes, KeepDirtyIds
<1>10. OverMeansCovered'
    BY DEF IInv, OverMeansCovered, KeepDirtyIds
<1> QED
    BY <1>1, <1>2, <1>3, <1>4, <1>5, <1>6, <1>7, <1>8, <1>9, <1>10 DEF IInv

\* The notices reach the release signature.
LEMMA MergeNoticesPreserves ==
    ASSUME IInv, NEW t \in Thread, MergeNotices(t)
    PROVE  IInv'
<1>1. TypeOK'
    BY DEF IInv, TypeOK, MergeNotices, fenceVars
<1>2. OneReleaser'
    BY DEF IInv, OneReleaser, MergeNotices, Releasing
<1>3. FlagHasReleaser'
    BY DEF IInv, FlagHasReleaser, MergeNotices, Releasing
<1>4. LocalsAreEmpty'
    BY DEF IInv, LocalsAreEmpty, MergeNotices, fenceVars
<1>5. BeforeIsPending'
    BY DEF IInv, TypeOK, BeforeIsPending, MergeNotices
<1>6. WrittenIsDirty'
    BY DEF IInv, WrittenIsDirty, MergeNotices
<1>7. NoBlockForgotten'
    BY DEF IInv, NoBlockForgotten, MergeNotices, fenceVars
<1>8. GenerationOrder'
    BY DEF IInv, GenerationOrder, MergeNotices, Releasing
<1>9. FenceIncludes'
    BY DEF IInv, TypeOK, FenceIncludes, MergeNotices
<1>10. OverMeansCovered'
    BY DEF IInv, TypeOK, OverMeansCovered, MergeNotices
<1> QED
    BY <1>1, <1>2, <1>3, <1>4, <1>5, <1>6, <1>7, <1>8, <1>9, <1>10 DEF IInv

\* The generation is over, and nothing is owed to those who waited for it.
LEMMA FinishReleasePreserves ==
    ASSUME IInv, NEW t \in Thread, FinishRelease(t)
    PROVE  IInv'
<1>1. TypeOK'
    <2>1. gen' \in Nat
        BY DEF IInv, TypeOK, FinishRelease
    <2> QED
        BY <2>1 DEF IInv, TypeOK, FinishRelease, fenceVars
<1>2. OneReleaser'
    BY DEF IInv, TypeOK, OneReleaser, FinishRelease, Releasing
<1>3. FlagHasReleaser'
    BY DEF IInv, FlagHasReleaser, FinishRelease
<1>4. LocalsAreEmpty'
    BY DEF IInv, LocalsAreEmpty, FinishRelease, fenceVars
<1>5. BeforeIsPending'
    BY DEF IInv, BeforeIsPending, FinishRelease
<1>6. WrittenIsDirty'
    BY DEF IInv, WrittenIsDirty, FinishRelease
<1>7. NoBlockForgotten'
    BY DEF IInv, NoBlockForgotten, FinishRelease, fenceVars
<1>8. GenerationOrder'
    BY DEF IInv, TypeOK, GenerationOrder, FinishRelease, Releasing
<1>9. FenceIncludes'
    BY DEF IInv, TypeOK, OneReleaser, FenceIncludes, FinishRelease, Releasing
<1>10. OverMeansCovered'
    BY DEF IInv, TypeOK, OneReleaser, LocalsAreEmpty, BeforeIsPending,
        GenerationOrder, FenceIncludes, OverMeansCovered, FinishRelease,
        Releasing
<1> QED
    BY <1>1, <1>2, <1>3, <1>4, <1>5, <1>6, <1>7, <1>8, <1>9, <1>10 DEF IInv

----------------------------------------------------------------------------
(* The theorems *)

\* The invariant holds in every reachable state, for any number of threads,
\* blocks and fences.
THEOREM Invariance == Spec => []IInv
<1>1. Init => IInv
    <2> SUFFICES ASSUME Init PROVE IInv
        OBVIOUS
    <2>1. TypeOK
        BY DEF Init, TypeOK
    <2>2. OneReleaser /\ FlagHasReleaser
        BY DEF Init, OneReleaser, FlagHasReleaser, Releasing
    <2>3. LocalsAreEmpty /\ WrittenIsDirty /\ NoBlockForgotten
        BY DEF Init, LocalsAreEmpty, WrittenIsDirty, NoBlockForgotten
    <2>4. BeforeIsPending
        BY DEF Init, BeforeIsPending
    <2>5. GenerationOrder /\ FenceIncludes
        BY DEF Init, GenerationOrder, FenceIncludes, Releasing
    <2>6. OverMeansCovered
        BY DEF Init, OverMeansCovered
    <2> QED
        BY <2>1, <2>2, <2>3, <2>4, <2>5, <2>6 DEF IInv
<1>2. IInv /\ [Next]_vars => IInv'
    <2> SUFFICES ASSUME IInv, [Next]_vars PROVE IInv'
        OBVIOUS
    <2>1. ASSUME NEW t \in Thread, NEW b \in Blk, AddWritable(t, b) PROVE IInv'
        BY <2>1, AddWritablePreserves
    <2>2. ASSUME NEW t \in Thread, NEW b \in Blk, Write(t, b) PROVE IInv'
        BY <2>2, WritePreserves
    <2>3. ASSUME NEW b \in Blk, Invalidate(b) PROVE IInv'
        BY <2>3, InvalidatePreserves
    <2>4. ASSUME NEW t \in Thread, StartRelease(t) PROVE IInv'
        BY <2>4, StartReleasePreserves
    <2>5. ASSUME NEW t \in Thread, SpuriousWakeup(t) PROVE IInv'
        BY <2>5, SpuriousWakeupPreserves
    <2>6. ASSUME NEW t \in Thread, FenceStep(t) PROVE IInv'
        <3>1. CASE ResumeFirstWait(t)
            BY <3>1, ResumeFirstWaitPreserves
        <3>2. CASE ResumeSecondWait(t)
            BY <3>2, ResumeSecondWaitPreserves
        <3>3. CASE TakeIds(t)
            BY <3>3, TakeIdsPreserves
        <3>4. CASE \E b \in Blk : Release(t, b)
            BY <3>4, ReleasePreserves
        <3>5. CASE KeepDirtyIds(t)
            BY <3>5, KeepDirtyIdsPreserves
        <3>6. CASE MergeNotices(t)
            BY <3>6, MergeNoticesPreserves
        <3>7. CASE FinishRelease(t)
            BY <3>7, FinishReleasePreserves
        <3> QED
            BY <2>6, <3>1, <3>2, <3>3, <3>4, <3>5, <3>6, <3>7 DEF FenceStep
    <2>7. CASE UNCHANGED vars
        BY <2>7 DEF vars, IInv, TypeOK, OneReleaser, FlagHasReleaser, LocalsAreEmpty,
            BeforeIsPending, WrittenIsDirty, NoBlockForgotten, GenerationOrder, FenceIncludes,
            OverMeansCovered, Releasing
    <2> QED
        BY <2>1, <2>2, <2>3, <2>4, <2>5, <2>6, <2>7 DEF Next
<1> QED
    BY <1>1, <1>2, PTL DEF Spec

\* Every variable of the write set keeps its type.
THEOREM TypeCorrect == Spec => []TypeOK
<1>1. IInv => TypeOK
    BY DEF IInv
<1> QED
    BY <1>1, Invariance, PTL

\* One thread releases at a time, so dirty_ids_ needs no mutex, and the assertion
\* in finish_release cannot fail.
THEOREM OneReleaserHolds == Spec => []OneReleaser
<1>1. IInv => OneReleaser
    BY DEF IInv
<1> QED
    BY <1>1, Invariance, PTL

\* No block that was made writable drops out of the write set with its writes.
THEOREM NoBlockForgottenHolds == Spec => []NoBlockForgotten
<1>1. IInv => NoBlockForgotten
    BY DEF IInv
<1> QED
    BY <1>1, Invariance, PTL

\* A fence_release that has returned has announced all writes that came before
\* it, whether its thread was elected or waited for another one.
THEOREM FenceCoversWritesHolds == Spec => []FenceCoversWrites
<1>1. IInv => FenceCoversWrites
    <2> SUFFICES ASSUME IInv, NEW t \in Thread, pc[t] = "idle"
                 PROVE  before[t] = [diff |-> {}, wn |-> {}]
        BY DEF FenceCoversWrites
    <2>1. before[t].diff = {} /\ before[t].wn = {}
        BY DEF IInv, OverMeansCovered
    <2>2. before[t] \in [diff : SUBSET Blk, wn : SUBSET Blk]
        BY DEF IInv, TypeOK
    <2> QED
        BY <2>1, <2>2
<1> QED
    BY <1>1, Invariance, PTL
=============================================================================
