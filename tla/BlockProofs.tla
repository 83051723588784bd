---------------------------- MODULE BlockProofs ----------------------------
(***************************************************************************)
(* Proofs about a block, for any number of processes.  Its timestamps, for *)
(* every build option of Block: all leases and write notices stay within   *)
(* the attached data, so a new write timestamp beats every lease.  Its     *)
(* copies, when no block is pinned: a copy that can be read has a lease    *)
(* that covers the minimum write timestamp; and, in the eager build, reads *)
(* are fresh, the merge reports no false race, and no update is lost.      *)
(***************************************************************************)
EXTENDS Block, Integers, WellFoundedInduction, TLAPS

State == {"invalid_clean", "invalid_dirty", "readonly_clean", "readonly_dirty",
          "writable", "pinned"}

Entry == [home : Proc, wrCount : Nat, rts : Nat, last : BOOLEAN, fcnt : Nat,
          fthr : Nat, st : State]

Lad == [lw : Proc, wts : Nat, rts : Nat]

ToAcquire == [wns : SUBSET Notice, min : Nat, merge : Sig]

\* The mutex has its fields, which TypeOK leaves to the signature.
MutexShape == mtx = [holder |-> mtx.holder, sig |-> mtx.sig, hb |-> mtx.hb]

\* A notice carries no lease beyond the attached data.
Known(wn) == wn.rts <= lad.rts

NoticesAreKnown ==
    /\ Known(mtx.sig.wn)
    /\ \A p \in Proc :
        /\ Known(relSig[p].wn) /\ Known(acq[p].merge.wn)
        /\ \A wn \in acq[p].wns : Known(wn)

\* Only the transaction of a pinned block is ever seen half done.
TxPinned == \A p \in Proc : tx.by = p => le[p].st = "pinned"

TsInv == TypeOK /\ MutexShape /\ LeaseIsKnown /\ NoticesAreKnown /\ TxPinned

----------------------------------------------------------------------------
(* Timestamps and transactions *)

\* The larger of two numbers is one of them and bounds both.
LEMMA BiggerOfFacts ==
    ASSUME NEW a \in Nat, NEW b \in Nat
    PROVE  BiggerOf(a, b) \in Nat /\ BiggerOf(a, b) >= a /\ BiggerOf(a, b) >= b
BY DEF BiggerOf

\* make_new_ts never takes a lease back, and a new write timestamp passes all
\* leases of the old one.
LEMMA NewTsFacts ==
    ASSUME NEW min \in Nat, NEW written \in BOOLEAN, NEW old, old.wts \in Nat, old.rts \in Nat
    PROVE  LET ts == MakeNewTs(min, written, old)
           IN  /\ ts.wts \in Nat /\ ts.rts \in Nat
               /\ ts.rts >= old.rts
               /\ ts.wts # old.wts => ts.wts > old.rts
<1> DEFINE w == IF written THEN NewWrTs(min, old.rts) ELSE old.wts
           r == NewRdTs(min, w, old.rts)
<1>1. MakeNewTs(min, written, old) = [wts |-> w, rts |-> r]
    BY DEF MakeNewTs
<1>2. w \in Nat /\ (w # old.wts => w > old.rts)
    BY DEF NewWrTs, BiggerOf
<1>3. r \in Nat /\ r >= old.rts
    <2> HIDE DEF w
    <2> QED BY <1>2, BlockAssumption DEF NewRdTs, BiggerOf
<1> HIDE DEF w, r
<1> QED
    BY <1>1, <1>2, <1>3

\* What a transaction leaves behind: its entry holds the lease in the attached
\* data, and so does its notice.
LEMMA TransactionFacts ==
    ASSUME TypeOK, NEW p \in Proc, NEW e \in Entry, NEW min \in Nat
    PROVE  LET t == Transaction(p, e, min)
           IN  /\ t.le \in Entry /\ t.lad \in Lad /\ t.notice \in Notice
               /\ t.still \in BOOLEAN
               /\ t.lad.rts >= lad.rts
               /\ t.le.rts = t.lad.rts
               /\ t.notice.rts <= t.lad.rts
               /\ t.lad.wts # lad.wts => t.lad.wts > lad.rts
<1> DEFINE remote == lad.lw # p
           written == IF tx.by = p THEN tx.written ELSE Dirty(e.st) /\ priv[p] # pub[p]
           protected == \/ ~ CanWrite(e.st)
                        \/ e.st = "writable" /\ (remote \/ e.wrCount >= WrCountThreshold)
           latest == LatestMin(p, e, min)
           ts == MakeNewTs(latest, written, lad)
           last == FastRelease /\ ~ remote /\ written
           cnt == NewWrCount(e, protected, written)
           thr == NewFastRelThreshold(e, protected, written)
           t == Transaction(p, e, min)
<1>1. lad.wts \in Nat /\ lad.rts \in Nat /\ lad.lw \in Proc /\ latest \in Nat
    BY DEF TypeOK, LatestMin
<1>2. written \in BOOLEAN /\ protected \in BOOLEAN /\ last \in BOOLEAN
    <2>1. tx.written \in BOOLEAN
        BY DEF TypeOK, Tx
    <2> QED
        BY <2>1 DEF Dirty, CanWrite
<1>3. /\ t.le = [home |-> p, rts |-> ts.rts,
                 st |-> IF protected THEN "readonly_clean" ELSE e.st, last |-> last,
                 wrCount |-> cnt, fthr |-> thr, fcnt |-> 0]
      /\ t.lad = [lw |-> IF written THEN p ELSE lad.lw, wts |-> ts.wts, rts |-> ts.rts]
      /\ t.notice = IF written THEN [home |-> p, rts |-> ts.rts, wts |-> ts.wts] ELSE NoNotice
      /\ t.still = ~ protected
    BY DEF Transaction, BeginTransaction, ReleaseMerge, EndTransaction
<1> HIDE DEF written, protected, last, latest, t
<1>4. /\ ts.wts \in Nat /\ ts.rts \in Nat /\ ts.rts >= lad.rts
      /\ ts.wts # lad.wts => ts.wts > lad.rts
    BY <1>1, <1>2, NewTsFacts
<1> HIDE DEF ts
<1>5. cnt \in Nat /\ thr \in Nat
    BY BlockAssumption DEF NewWrCount, NewFastRelThreshold, CapCount, Entry
<1> HIDE DEF cnt, thr
<1>6. t.le \in Entry /\ t.le.rts = ts.rts
    BY <1>2, <1>3, <1>4, <1>5 DEF Entry, State
<1>7. t.lad \in Lad /\ t.lad.rts = ts.rts /\ t.lad.wts = ts.wts
    BY <1>1, <1>3, <1>4 DEF Lad
<1>8. t.notice \in Notice /\ t.notice.rts <= ts.rts
    BY <1>3, <1>4, BlockAssumption DEF Notice, NoNotice
<1> QED
    BY <1>2, <1>3, <1>4, <1>6, <1>7, <1>8 DEF t

\* What every step does to the entries and the attached data.
CoreStep ==
    /\ le' \in [Proc -> Entry] /\ lad' \in Lad /\ owner' \in Proc /\ tx' \in Tx
    /\ lad'.rts >= lad.rts
    /\ \A q \in Proc : le'[q].rts <= lad'.rts
    /\ lad'.wts # lad.wts => lad'.wts > lad.rts
    /\ TxPinned'

\* The parts of the invariant that lemmas below use, with the types by name.
LEMMA Unfolded ==
    ASSUME TsInv
    PROVE  /\ le \in [Proc -> Entry] /\ lad \in Lad /\ owner \in Proc /\ tx \in Tx
           /\ \A q \in Proc : le[q] \in Entry /\ le[q].rts \in Nat /\ le[q].rts <= lad.rts
           /\ lad.rts \in Nat /\ lad.wts \in Nat
           /\ minWr \in [Proc -> Nat] /\ wrSet \in [Proc -> BOOLEAN]
           /\ relSig \in [Proc -> Sig] /\ acq \in [Proc -> ToAcquire]
           /\ fence \in [Proc -> [on : BOOLEAN, min : Nat]]
<1>1. /\ le \in [Proc -> Entry] /\ lad \in Lad /\ owner \in Proc /\ tx \in Tx
      /\ minWr \in [Proc -> Nat] /\ wrSet \in [Proc -> BOOLEAN]
      /\ relSig \in [Proc -> Sig] /\ acq \in [Proc -> ToAcquire]
      /\ fence \in [Proc -> [on : BOOLEAN, min : Nat]]
    BY DEF TsInv, TypeOK, Entry, State, Lad, ToAcquire
<1>2. lad.rts \in Nat /\ lad.wts \in Nat
    BY <1>1 DEF Lad
<1>3. \A q \in Proc : le[q] \in Entry
    BY <1>1
<1>4. \A q \in Proc : le[q].rts \in Nat
    BY <1>3 DEF Entry
<1> QED
    BY <1>1, <1>2, <1>3, <1>4 DEF TsInv, LeaseIsKnown

\* A step that leaves the entries, the attached data and the owner alone.
LEMMA QuietCore ==
    ASSUME TsInv, UNCHANGED <<le, lad, owner, tx>>
    PROVE  CoreStep
BY Unfolded DEF CoreStep, TsInv, TxPinned

\* One entry changes, its lease stays within the attached data, and its block
\* is not the one being merged.
LEMMA OneEntryCore ==
    ASSUME TsInv, NEW p \in Proc, NEW e \in Entry, e.rts <= lad.rts, tx.by # p,
           le' = [le EXCEPT ![p] = e], UNCHANGED <<lad, owner, tx>>
    PROVE  CoreStep
<1>1. le' \in [Proc -> Entry] /\ \A q \in Proc : le'[q] = IF q = p THEN e ELSE le[q]
    BY Unfolded
<1>2. TxPinned'
    BY <1>1 DEF TsInv, TxPinned
<1> QED
    BY <1>1, <1>2, Unfolded DEF CoreStep

\* A transaction.
LEMMA TransactionCore ==
    ASSUME TsInv, NEW p \in Proc, NEW e \in Entry, NEW min \in Nat,
           DoTransaction(p, Transaction(p, e, min))
    PROVE  CoreStep
<1> DEFINE t == Transaction(p, e, min)
<1>1. TypeOK
    BY DEF TsInv
<1>2. /\ t.le \in Entry /\ t.lad \in Lad /\ t.lad.rts >= lad.rts /\ t.le.rts = t.lad.rts
      /\ t.lad.wts # lad.wts => t.lad.wts > lad.rts
    BY <1>1, TransactionFacts
<1>3. le' = [le EXCEPT ![p] = t.le] /\ lad' = t.lad /\ owner' = (IF FastRelease THEN p ELSE owner)
      /\ tx' = NoTx
    BY DEF DoTransaction
<1> HIDE DEF t
<1>4. lad'.rts \in Nat
    BY <1>2, <1>3 DEF Lad
<1>5. le' \in [Proc -> Entry] /\ \A q \in Proc : le'[q] = IF q = p THEN t.le ELSE le[q]
    BY <1>2, <1>3, Unfolded
<1>6. \A q \in Proc : le'[q].rts <= lad'.rts
    BY <1>2, <1>3, <1>4, <1>5, Unfolded
<1>7. owner' \in Proc /\ tx' \in Tx
    BY <1>3, Unfolded DEF NoTx, Tx
<1>8. TxPinned'
    BY <1>3, NoProcAssumption DEF TxPinned, NoTx
<1> QED
    BY <1>2, <1>3, <1>5, <1>6, <1>7, <1>8 DEF CoreStep

\* An acquire, of a notice or of a minimum timestamp.
LEMMA InvalidateCore ==
    ASSUME TsInv, NEW p \in Proc, NEW e \in Entry, NEW min \in Nat, e.rts <= lad.rts,
           e.st = le[p].st, InvalidateTo(p, e, min)
    PROVE  CoreStep
<1>1. CASE e.st = "pinned"
    BY <1>1, TransactionCore DEF InvalidateTo
<1>2. CASE e.st # "pinned"
    <2> DEFINE f == [e EXCEPT !.st = Invalidated(e.st)]
    <2>1. f \in Entry /\ f.rts = e.rts
        BY DEF Entry, State, Invalidated
    <2>2. le' = [le EXCEPT ![p] = f] /\ UNCHANGED <<lad, owner, tx>>
        BY <1>2 DEF InvalidateTo
    <2>3. tx.by # p
        BY <1>2 DEF TsInv, TxPinned
    <2> HIDE DEF f
    <2> QED
        BY <2>1, <2>2, <2>3, OneEntryCore
<1> QED
    BY <1>1, <1>2

----------------------------------------------------------------------------
(* Signatures and fences *)

\* Merging and cutting signatures makes no new notice.
LEMMA MergeSigFacts ==
    ASSUME NEW a \in Sig, NEW b \in Sig, NEW n \in Nat, a.wn.rts <= n, b.wn.rts <= n
    PROVE  MergeSig(a, b) \in Sig /\ MergeSig(a, b).wn.rts <= n
<1>1. a.min \in Nat /\ b.min \in Nat /\ a.wn \in Notice /\ b.wn \in Notice
    BY DEF Sig
<1>2. BiggerOf(a.min, b.min) \in Nat
    BY <1>1 DEF BiggerOf
<1> QED
    BY <1>1, <1>2 DEF MergeSig, Sig

LEMMA TruncationFacts ==
    ASSUME NEW sig \in Sig, NEW n \in Nat, sig.wn.rts <= n, NEW cut \in Truncations(sig)
    PROVE  cut \in Sig /\ cut.wn.rts <= n
<1>1. NoNotice \in Notice /\ NoNotice.rts = 0
    BY BlockAssumption DEF NoNotice, Notice
<1>2. sig.min \in Nat /\ sig.wn \in Notice
    BY DEF Sig
<1>3. CASE cut = sig
    BY <1>3
<1>4. CASE \E k \in 1 .. MaxCut :
            cut = [min |-> BiggerOf(sig.min, k), wn |-> IF sig.wn.wts > k THEN sig.wn ELSE NoNotice]
    <2>1. PICK k \in 1 .. MaxCut :
            cut = [min |-> BiggerOf(sig.min, k), wn |-> IF sig.wn.wts > k THEN sig.wn ELSE NoNotice]
        BY <1>4
    <2>2. BiggerOf(sig.min, k) \in Nat
        BY <1>2, BlockAssumption DEF BiggerOf
    <2> QED
        BY <1>1, <1>2, <2>1, <2>2 DEF Sig
<1> QED
    BY <1>3, <1>4 DEF Truncations

\* The release of the block within a fence, and the notice made from it.
LEMMA ReleaseCore ==
    ASSUME TsInv, NEW p \in Proc, NEW min \in Nat, ReleaseBlock(p, min)
    PROVE  /\ CoreStep
           /\ wrSet' \in [Proc -> BOOLEAN]
           /\ ReleaseNotice(p, min) \in Notice /\ ReleaseNotice(p, min).rts <= lad'.rts
<1> DEFINE t == Transaction(p, le[p], min)
           ts == MakeNewTs(min, TRUE, lad)
<1>1. le[p] \in Entry
    BY Unfolded
<1>2. CASE ~ wrSet[p] \/ ~ Dirty(le[p].st)
    <2>1. UNCHANGED <<le, lad, owner, tx>> /\ wrSet' = [wrSet EXCEPT ![p] = FALSE]
        BY <1>2 DEF ReleaseBlock
    <2>2. ReleaseNotice(p, min) = NoNotice
        BY <1>2 DEF ReleaseNotice
    <2>3. NoNotice \in Notice /\ NoNotice.rts = 0
        BY BlockAssumption DEF NoNotice, Notice
    <2> QED
        BY <2>1, <2>2, <2>3, QuietCore, Unfolded
<1>3. CASE ~ (~ wrSet[p] \/ ~ Dirty(le[p].st)) /\ IsFastReleased(p)
    <2>1. /\ le' = [le EXCEPT ![p] = FastReleased(le[p])]
          /\ lad' = [lw |-> lad.lw, wts |-> ts.wts, rts |-> ts.rts]
          /\ owner' = owner /\ wrSet' = wrSet /\ tx' = tx
        BY <1>3 DEF ReleaseBlock
    <2>2. /\ ts.wts \in Nat /\ ts.rts \in Nat /\ ts.rts >= lad.rts
          /\ ts.wts # lad.wts => ts.wts > lad.rts
        BY NewTsFacts, Unfolded
    <2> HIDE DEF ts
    <2>3. lad' \in Lad /\ lad'.rts = ts.rts /\ lad'.wts = ts.wts
        BY <2>1, <2>2, Unfolded DEF Lad
    <2>4. le[p].fcnt + 1 \in Nat
        BY <1>1 DEF Entry
    <2>5. FastReleased(le[p]) \in Entry /\ FastReleased(le[p]).rts = lad.rts
        BY <1>1, <2>4, Unfolded, Zenon DEF FastReleased, Entry
    <2>6. /\ le' \in [Proc -> Entry]
          /\ \A q \in Proc : le'[q] = IF q = p THEN FastReleased(le[p]) ELSE le[q]
        BY <2>1, <2>5, Unfolded
    <2>7. \A q \in Proc : le'[q].rts <= lad'.rts
        BY <2>2, <2>3, <2>5, <2>6, Unfolded
    <2>8. ReleaseNotice(p, min) = [home |-> p, rts |-> lad.rts, wts |-> lad.wts]
        BY <1>3 DEF ReleaseNotice
    <2>10. tx.by # p
        BY <1>3, NoProcAssumption DEF IsFastReleased, Owns
    <2>11. TxPinned'
        BY <2>1, <2>6, <2>10 DEF TsInv, TxPinned
    <2>9. ReleaseNotice(p, min) \in Notice /\ ReleaseNotice(p, min).rts <= lad'.rts
        BY <2>2, <2>3, <2>8, Unfolded DEF Notice
    <2> QED
        BY <2>1, <2>2, <2>3, <2>6, <2>7, <2>9, <2>11, Unfolded DEF CoreStep
<1>4. CASE ~ (~ wrSet[p] \/ ~ Dirty(le[p].st)) /\ ~ IsFastReleased(p)
    <2>1. DoTransaction(p, t) /\ wrSet' = [wrSet EXCEPT ![p] = t.still]
        BY <1>4 DEF ReleaseBlock
    <2>2. CoreStep
        BY <1>1, <2>1, TransactionCore
    <2>3. TypeOK
        BY DEF TsInv
    <2>4. t.still \in BOOLEAN /\ t.notice \in Notice /\ t.notice.rts <= t.lad.rts
        BY <1>1, <2>3, TransactionFacts
    <2>5. lad' = t.lad
        BY <2>1 DEF DoTransaction
    <2>6. ReleaseNotice(p, min) = t.notice
        BY <1>4 DEF ReleaseNotice
    <2> HIDE DEF t
    <2> QED
        BY <2>1, <2>2, <2>4, <2>5, <2>6, Unfolded
<1> QED
    BY <1>2, <1>3, <1>4

\* The signature after a fence.
LEMMA FenceSigFacts ==
    ASSUME TsInv, NEW p \in Proc, NEW min \in Nat, ReleaseBlock(p, min),
           NEW sig \in SigsAfterFence(p, min)
    PROVE  sig \in Sig /\ sig.wn.rts <= lad'.rts
<1> DEFINE made == [min |-> 0, wn |-> ReleaseNotice(p, min)]
<1>1. CoreStep /\ ReleaseNotice(p, min) \in Notice /\ ReleaseNotice(p, min).rts <= lad'.rts
    BY ReleaseCore
<1>2. made \in Sig /\ made.wn.rts <= lad'.rts
    BY <1>1 DEF Sig
<1>3. lad'.rts \in Nat /\ lad'.rts >= lad.rts
    BY <1>1 DEF CoreStep, Lad
<1>4. relSig[p] \in Sig /\ relSig[p].wn.rts \in Nat /\ relSig[p].wn.rts <= lad.rts
    BY Unfolded DEF TsInv, NoticesAreKnown, Known, Sig, Notice
<1>5. relSig[p].wn.rts <= lad'.rts
    BY <1>3, <1>4, Unfolded
<1> HIDE DEF made
<1>6. MergeSig(relSig[p], made) \in Sig /\ MergeSig(relSig[p], made).wn.rts <= lad'.rts
    BY <1>2, <1>3, <1>4, <1>5, MergeSigFacts
<1>7. sig \in Truncations(MergeSig(relSig[p], made))
    BY DEF SigsAfterFence, made
<1> QED
    BY <1>3, <1>6, <1>7, TruncationFacts

----------------------------------------------------------------------------
(* Each action preserves the invariant. *)

\* The types that an action may change besides the core, and the notices it
\* may move, give the invariant after the step.
LEMMA Recombined ==
    ASSUME TsInv, CoreStep,
           minWr' \in [Proc -> Nat], wrSet' \in [Proc -> BOOLEAN],
           relSig' \in [Proc -> Sig], mtx'.sig \in Sig, MutexShape',
           pc' \in [Proc -> {"run", "acq", "bar"}],
           fence' \in [Proc -> [on : BOOLEAN, min : Nat]],
           acq' \in [Proc -> ToAcquire],
           NoticesAreKnown'
    PROVE  TsInv'
<1>1. TypeOK'
    BY DEF TypeOK, CoreStep, Entry, State, Lad, ToAcquire
<1>2. LeaseIsKnown'
    BY DEF LeaseIsKnown, CoreStep
<1> QED
    BY <1>1, <1>2 DEF TsInv, CoreStep

\* Notices that were known stay known.
LEMMA StillKnown ==
    ASSUME TsInv, CoreStep
    PROVE  /\ mtx.sig.wn.rts <= lad'.rts
           /\ \A q \in Proc : /\ relSig[q].wn.rts <= lad'.rts
                              /\ acq[q].merge.wn.rts <= lad'.rts
                              /\ \A wn \in acq[q].wns : wn.rts <= lad'.rts
<1>1. lad.rts \in Nat /\ lad'.rts \in Nat /\ lad'.rts >= lad.rts
    BY Unfolded DEF CoreStep, Lad
<1>2. mtx.sig.wn.rts \in Nat
    BY DEF TsInv, TypeOK, Sig, Notice
<1>3. \A q \in Proc : relSig[q].wn.rts \in Nat /\ acq[q].merge.wn.rts \in Nat
    BY Unfolded DEF ToAcquire, Sig, Notice
<1>4. \A q \in Proc : \A wn \in acq[q].wns : wn.rts \in Nat
    BY Unfolded DEF ToAcquire, Notice
<1> QED
    BY <1>1, <1>2, <1>3, <1>4 DEF TsInv, NoticesAreKnown, Known

\* A step that moves no notice.
LEMMA NoNoticeMoves ==
    ASSUME TsInv, CoreStep, UNCHANGED <<relSig, mtx, acq>>
    PROVE  NoticesAreKnown' /\ MutexShape' /\ mtx'.sig \in Sig
<1>1. NoticesAreKnown'
    BY StillKnown DEF NoticesAreKnown, Known
<1> QED
    BY <1>1 DEF TsInv, MutexShape, TypeOK

\* Faults, writes and pinning move no notice.
LEMMA LocalStep ==
    ASSUME TsInv, NEW p \in Proc,
           \/ StartRead(p) \/ StartWrite(p) \/ (\E c \in Cell : Write(p, c))
           \/ Pin(p) \/ Unpin(p) \/ FenceStart(p) \/ Compare(p)
    PROVE  TsInv' /\ CoreStep
<1>1. le[p] \in Entry /\ le[p].rts <= lad.rts /\ minWr[p] \in Nat /\ lad.rts \in Nat
    BY Unfolded
<1>2. CASE StartRead(p)
    <2>1. ASSUME minWr[p] > le[p].rts PROVE CoreStep
        BY <1>1, <1>2, <2>1, TransactionCore DEF StartRead
    <2>2. ASSUME ~ (minWr[p] > le[p].rts) PROVE CoreStep
        <3> DEFINE st == IF le[p].st = "invalid_dirty" THEN "readonly_dirty" ELSE "readonly_clean"
                   e == [le[p] EXCEPT !.st = st]
        <3>1. e \in Entry /\ e.rts = le[p].rts
            BY <1>1 DEF Entry, State
        <3>2. le' = [le EXCEPT ![p] = e] /\ UNCHANGED <<lad, owner, tx>>
            BY <1>2, <2>2 DEF StartRead
        <3>3. tx.by # p
            BY <1>2 DEF StartRead, Invalid, TsInv, TxPinned
        <3> HIDE DEF e
        <3> QED
            BY <1>1, <3>1, <3>2, <3>3, OneEntryCore
    <2>3. CoreStep
        BY <2>1, <2>2
    <2>4. UNCHANGED <<minWr, wrSet, relSig, mtx, pc, acq, fence>>
        BY <1>2 DEF StartRead
    <2> QED
        BY <2>3, <2>4, NoNoticeMoves, Recombined, Unfolded DEF TsInv, TypeOK
<1>3. CASE StartWrite(p)
    <2> DEFINE e == [le[p] EXCEPT !.st = "writable"]
               ts == MakeNewTs(minWr[p], TRUE, lad)
    <2>1. e \in Entry /\ e.rts = le[p].rts
        BY <1>1 DEF Entry, State
    <2>2. le' = [le EXCEPT ![p] = e] /\ owner' = owner /\ tx' = tx
        BY <1>3 DEF StartWrite
    <2>3. lad' = lad \/ lad' = [lw |-> lad.lw, wts |-> ts.wts, rts |-> ts.rts]
        BY <1>3 DEF StartWrite
    <2>4. /\ ts.wts \in Nat /\ ts.rts \in Nat /\ ts.rts >= lad.rts
          /\ ts.wts # lad.wts => ts.wts > lad.rts
        BY <1>1, NewTsFacts, Unfolded
    <2> HIDE DEF e, ts
    <2>5. lad' \in Lad /\ lad'.rts >= lad.rts /\ (lad'.wts # lad.wts => lad'.wts > lad.rts)
        BY <2>3, <2>4, Unfolded DEF Lad
    <2>6. lad'.rts \in Nat
        BY <2>5 DEF Lad
    <2>7. le' \in [Proc -> Entry] /\ \A q \in Proc : le'[q] = IF q = p THEN e ELSE le[q]
        BY <2>1, <2>2, Unfolded
    <2>8. \A q \in Proc : le'[q].rts <= lad'.rts
        BY <1>1, <2>1, <2>5, <2>6, <2>7, Unfolded
    <2>11. tx.by # p
        BY <1>3 DEF StartWrite, ReadOnly, TsInv, TxPinned
    <2>12. TxPinned'
        BY <2>2, <2>7, <2>11 DEF TsInv, TxPinned
    <2>9. CoreStep
        BY <2>2, <2>5, <2>7, <2>8, <2>12, Unfolded DEF CoreStep
    <2>10. UNCHANGED <<minWr, relSig, mtx, pc, acq, fence>> /\ wrSet' \in [Proc -> BOOLEAN]
        BY <1>3, Unfolded DEF StartWrite
    <2> QED
        BY <2>9, <2>10, NoNoticeMoves, Recombined, Unfolded DEF TsInv, TypeOK
<1>4. CASE (\E c \in Cell : Write(p, c)) \/ FenceStart(p)
    <2>1. UNCHANGED <<le, lad, owner, tx, minWr, wrSet, relSig, mtx, pc, acq>>
        BY <1>4 DEF Write, FenceStart
    <2>2. fence' \in [Proc -> [on : BOOLEAN, min : Nat]]
        <3> DEFINE Fence == [on : BOOLEAN, min : Nat]
                   started == [on |-> TRUE, min |-> minWr[p]]
        <3>1. started \in Fence
            BY <1>1
        <3>2. fence' = fence \/ fence' = [fence EXCEPT ![p] = started]
            BY <1>4 DEF Write, FenceStart
        <3>3. fence \in [Proc -> Fence]
            BY Unfolded
        <3> HIDE DEF started, Fence
        <3>4. fence' \in [Proc -> Fence]
            BY <3>1, <3>2, <3>3
        <3> QED
            BY <3>4 DEF Fence
    <2> QED
        BY <2>1, <2>2, QuietCore, NoNoticeMoves, Recombined, Unfolded DEF TsInv, TypeOK
<1>5. CASE Pin(p) \/ Unpin(p)
    <2>1. PICK st \in {"pinned", "writable"} : le' = [le EXCEPT ![p].st = st]
        BY <1>5 DEF Pin, Unpin
    <2> DEFINE e == [le[p] EXCEPT !.st = st]
    <2>2. e \in Entry /\ e.rts = le[p].rts
        BY <1>1 DEF Entry, State
    <2>3. le' = [le EXCEPT ![p] = e]
        BY <2>1
    <2> HIDE DEF e
    <2>4. UNCHANGED <<lad, owner, tx, minWr, relSig, mtx, pc, acq, fence>> /\ wrSet' \in [Proc -> BOOLEAN]
        BY <1>5, Unfolded DEF Pin, Unpin
    <2>5. tx.by # p
        BY <1>5 DEF Pin, Unpin, TsInv, TxPinned
    <2>6. CoreStep
        BY <1>1, <2>2, <2>3, <2>4, <2>5, OneEntryCore
    <2> QED
        BY <2>4, <2>6, NoNoticeMoves, Recombined, Unfolded DEF TsInv, TypeOK
<1>6. CASE Compare(p)
    <2>1. UNCHANGED <<le, lad, owner, minWr, wrSet, relSig, mtx, pc, acq, fence>>
        BY <1>6 DEF Compare
    <2>2. PICK op \in Op : tx' = [by |-> p, op |-> op, written |-> priv[p] # pub[p]]
        BY <1>6 DEF Compare
    <2>3. (priv[p] # pub[p]) \in BOOLEAN
        OBVIOUS
    <2>4. tx' \in Tx
        BY <2>2, <2>3 DEF Tx
    <2>5. TxPinned'
        BY <1>6, <2>1, <2>2 DEF Compare, Unprotected, TxPinned
    <2>6. CoreStep
        BY <2>1, <2>4, <2>5, Unfolded DEF CoreStep
    <2> QED
        BY <2>1, <2>6, NoNoticeMoves, Recombined, Unfolded DEF TsInv, TypeOK
<1> QED
    BY <1>2, <1>3, <1>4, <1>5, <1>6

\* Fences move the notice of the block into a signature.
LEMMA FenceStep ==
    ASSUME TsInv, NEW p \in Proc, FenceRelease(p) \/ UnlockMutex(p) \/ BarrierEnter(p)
    PROVE  TsInv' /\ CoreStep
<1> DEFINE Fence == [on : BOOLEAN, min : Nat]
<1>1. minWr[p] \in Nat /\ fence[p].min \in Nat
    BY Unfolded
<1>2. PICK min \in Nat : /\ ReleaseBlock(p, min)
                         /\ \E sig \in SigsAfterFence(p, min) :
                                \/ /\ FenceRelease(p)
                                   /\ relSig' = [relSig EXCEPT ![p] = sig]
                                   /\ UNCHANGED <<mtx, pc, acq>>
                                \/ /\ UnlockMutex(p)
                                   /\ relSig' = [relSig EXCEPT ![p] = sig]
                                   /\ mtx' = [holder |-> NoProc, sig |-> sig, hb |-> hb[p]]
                                   /\ UNCHANGED <<pc, acq>>
                                \/ /\ BarrierEnter(p)
                                   /\ relSig' = [relSig EXCEPT ![p] = EmptySig]
                                   /\ acq' = [acq EXCEPT ![p].merge = sig]
                                   /\ pc' = [pc EXCEPT ![p] = "bar"]
                                   /\ UNCHANGED mtx
    <2>1. CASE FenceRelease(p)
        BY <1>1, <2>1 DEF FenceRelease
    <2>2. CASE UnlockMutex(p)
        BY <1>1, <2>2 DEF UnlockMutex
    <2>3. CASE BarrierEnter(p)
        BY <1>1, <2>3 DEF BarrierEnter
    <2> QED
        BY <2>1, <2>2, <2>3
<1>3. CoreStep /\ wrSet' \in [Proc -> BOOLEAN]
    BY <1>2, ReleaseCore
<1>4. minWr' = minWr
    BY DEF FenceRelease, UnlockMutex, BarrierEnter
<1>5. fence' \in [Proc -> Fence]
    <2>1. NoFence \in Fence
        BY DEF NoFence
    <2>2. fence' = fence \/ fence' = [fence EXCEPT ![p] = NoFence]
        BY DEF FenceRelease, UnlockMutex, BarrierEnter
    <2>3. fence \in [Proc -> Fence]
        BY Unfolded
    <2> HIDE DEF Fence
    <2> QED
        BY <2>1, <2>2, <2>3
<1>6. PICK sig \in SigsAfterFence(p, min) :
        \/ /\ FenceRelease(p)
           /\ relSig' = [relSig EXCEPT ![p] = sig]
           /\ UNCHANGED <<mtx, pc, acq>>
        \/ /\ UnlockMutex(p)
           /\ relSig' = [relSig EXCEPT ![p] = sig]
           /\ mtx' = [holder |-> NoProc, sig |-> sig, hb |-> hb[p]]
           /\ UNCHANGED <<pc, acq>>
        \/ /\ BarrierEnter(p)
           /\ relSig' = [relSig EXCEPT ![p] = EmptySig]
           /\ acq' = [acq EXCEPT ![p].merge = sig]
           /\ pc' = [pc EXCEPT ![p] = "bar"]
           /\ UNCHANGED mtx
    BY <1>2
<1>7. sig \in Sig /\ sig.wn.rts <= lad'.rts
    BY <1>2, FenceSigFacts
<1>8. EmptySig \in Sig /\ EmptySig.wn.rts = 0 /\ 0 <= lad'.rts
    BY <1>3, BlockAssumption DEF EmptySig, Sig, NoNotice, Notice, CoreStep, Lad
<1>9. relSig' \in [Proc -> Sig] /\ \A q \in Proc : relSig'[q].wn.rts <= lad'.rts
    <2>1. PICK s \in {sig, EmptySig} : relSig' = [relSig EXCEPT ![p] = s]
        BY <1>6
    <2>2. \A q \in Proc : relSig'[q] = IF q = p THEN s ELSE relSig[q]
        BY <2>1, Unfolded
    <2>3. relSig' \in [Proc -> Sig]
        BY <1>7, <1>8, <2>1, Unfolded
    <2> QED
        BY <1>3, <1>7, <1>8, <2>2, <2>3, StillKnown
<1>10. mtx'.sig \in Sig /\ MutexShape' /\ mtx'.sig.wn.rts <= lad'.rts
    <2>1. CASE mtx' = mtx
        BY <1>3, <2>1, StillKnown DEF TsInv, TypeOK, MutexShape
    <2>2. CASE mtx' = [holder |-> NoProc, sig |-> sig, hb |-> hb[p]]
        BY <1>7, <2>2 DEF MutexShape
    <2> QED
        BY <1>6, <2>1, <2>2
<1>11. /\ acq' \in [Proc -> ToAcquire]
       /\ \A q \in Proc : /\ acq'[q].merge.wn.rts <= lad'.rts
                          /\ \A wn \in acq'[q].wns : wn.rts <= lad'.rts
    <2>1. CASE acq' = acq
        BY <1>3, <2>1, StillKnown, Unfolded
    <2>2. CASE acq' = [acq EXCEPT ![p].merge = sig]
        <3> DEFINE a == [acq[p] EXCEPT !.merge = sig]
        <3>1. acq[p] \in ToAcquire
            BY Unfolded
        <3>2. a \in ToAcquire /\ a.merge = sig /\ a.wns = acq[p].wns
            BY <1>7, <3>1 DEF ToAcquire
        <3>3. acq' = [acq EXCEPT ![p] = a]
            BY <2>2
        <3> HIDE DEF a
        <3>4. acq' \in [Proc -> ToAcquire] /\ \A q \in Proc : acq'[q] = IF q = p THEN a ELSE acq[q]
            BY <3>2, <3>3, Unfolded
        <3> QED
            BY <1>3, <1>7, <3>2, <3>4, StillKnown
    <2> QED
        BY <1>6, <2>1, <2>2
<1>12. pc' \in [Proc -> {"run", "acq", "bar"}]
    BY <1>6 DEF TsInv, TypeOK
<1>13. NoticesAreKnown'
    BY <1>9, <1>10, <1>11 DEF NoticesAreKnown, Known
<1> QED
    BY <1>3, <1>4, <1>5, <1>9, <1>10, <1>11, <1>12, <1>13, Recombined, Unfolded

\* Locking the mutex and the exchange of the barrier copy signatures.
LEMMA ExchangeStep ==
    ASSUME TsInv, (\E p \in Proc : LockMutex(p)) \/ AllGather
    PROVE  TsInv' /\ CoreStep
<1>1. /\ UNCHANGED <<le, lad, owner, tx, minWr, wrSet, relSig, fence>>
      /\ pc' \in [Proc -> {"run", "acq", "bar"}]
    <2>1. pc \in [Proc -> {"run", "acq", "bar"}]
        BY DEF TsInv, TypeOK
    <2>2. CASE \E p \in Proc : LockMutex(p)
        BY <2>1, <2>2 DEF LockMutex
    <2>3. CASE AllGather
        BY <2>3 DEF AllGather
    <2> QED
        BY <2>2, <2>3
<1>2. CoreStep
    BY <1>1, QuietCore
<1>3. mtx'.sig = mtx.sig /\ MutexShape'
    BY DEF TsInv, MutexShape, LockMutex, AllGather
<1>4. \A q \in Proc : /\ acq[q].merge.wn \in Notice /\ acq[q].merge.min \in Nat
                      /\ acq[q].merge \in Sig /\ acq[q] \in ToAcquire
    BY Unfolded DEF ToAcquire, Sig
<1>5. EmptySig \in Sig /\ EmptySig.wn.rts = 0 /\ 0 <= lad'.rts
    BY <1>1, BlockAssumption, Unfolded DEF EmptySig, Sig, NoNotice, Notice
<1>6. /\ acq' \in [Proc -> ToAcquire]
      /\ \A q \in Proc : /\ acq'[q].merge.wn.rts <= lad'.rts
                         /\ \A wn \in acq'[q].wns : wn.rts <= lad'.rts
    <2>1. ASSUME NEW p \in Proc, LockMutex(p) PROVE <1>6!:
        <3> DEFINE a == [wns |-> {mtx.sig.wn}, min |-> mtx.sig.min, merge |-> mtx.sig]
        <3>1. mtx.sig \in Sig /\ mtx.sig.wn \in Notice /\ mtx.sig.min \in Nat
            BY DEF TsInv, TypeOK, Sig
        <3>2. a \in ToAcquire /\ a.merge = mtx.sig /\ a.wns = {mtx.sig.wn}
            BY <3>1 DEF ToAcquire
        <3>3. acq' = [acq EXCEPT ![p] = a]
            BY <2>1 DEF LockMutex
        <3> HIDE DEF a
        <3>4. acq' \in [Proc -> ToAcquire] /\ \A q \in Proc : acq'[q] = IF q = p THEN a ELSE acq[q]
            BY <3>2, <3>3, Unfolded
        <3> QED
            BY <1>2, <3>2, <3>4, StillKnown
    <2>2. ASSUME AllGather PROVE <1>6!:
        <3>1. PICK min \in [Proc -> {0} \cup {acq[q].merge.min : q \in Proc}] :
                acq' = [p \in Proc |-> [wns |-> {acq[q].merge.wn : q \in Proc \ {p}},
                                        min |-> min[p], merge |-> EmptySig]]
            BY <2>2 DEF AllGather
        <3>2. \A p \in Proc : min[p] \in Nat
            BY <1>4
        <3>3. \A p \in Proc : {acq[q].merge.wn : q \in Proc \ {p}} \in SUBSET Notice
            BY <1>4
        <3>4. acq' \in [Proc -> ToAcquire]
            BY <1>5, <3>1, <3>2, <3>3 DEF ToAcquire
        <3>5. \A p \in Proc : acq'[p].merge = EmptySig
            BY <3>1
        <3>6. \A p \in Proc : \A wn \in acq'[p].wns : \E q \in Proc : wn = acq[q].merge.wn
            BY <3>1
        <3> QED
            BY <1>2, <1>5, <3>4, <3>5, <3>6, StillKnown
    <2> QED
        BY <2>1, <2>2
<1>7. NoticesAreKnown'
    BY <1>1, <1>2, <1>3, <1>6, StillKnown DEF NoticesAreKnown, Known
<1> QED
    BY <1>1, <1>2, <1>3, <1>6, <1>7, Recombined, Unfolded DEF TsInv, TypeOK

\* Acquires use notices up, and merge the signature of a mutex.
LEMMA AcquireStep ==
    ASSUME TsInv, NEW p \in Proc, AcquireWn(p) \/ AcquireMin(p)
    PROVE  TsInv' /\ CoreStep
<1>1. le[p] \in Entry /\ le[p].rts <= lad.rts /\ minWr[p] \in Nat /\ acq[p] \in ToAcquire
    BY Unfolded
<1>2. acq[p].min \in Nat /\ acq[p].merge \in Sig /\ acq[p].wns \subseteq Notice
    BY <1>1 DEF ToAcquire
<1>3. CASE AcquireWn(p)
    <2>1. PICK wn \in acq[p].wns :
            /\ acq' = [acq EXCEPT ![p].wns = @ \ {wn}]
            /\ IF wn.wts > le[p].rts
               THEN InvalidateTo(p, Noticed(le[p], wn, wn.rts), minWr[p])
               ELSE UNCHANGED <<le, lad, owner, tx, priv, pub>>
        BY <1>3 DEF AcquireWn
    <2>2. wn.home \in Proc /\ wn.rts \in Nat /\ wn.rts <= lad.rts
        BY <1>2 DEF Notice, TsInv, NoticesAreKnown, Known
    <2>3. Noticed(le[p], wn, wn.rts) \in Entry /\ Noticed(le[p], wn, wn.rts).rts = wn.rts
        BY <1>1, <2>2, Zenon DEF Noticed, Entry
    <2>11. Noticed(le[p], wn, wn.rts).st = le[p].st
        BY <1>1 DEF Noticed, Entry
    <2>4. CoreStep
        BY <1>1, <2>1, <2>2, <2>3, <2>11, InvalidateCore, QuietCore
    <2> DEFINE a == [acq[p] EXCEPT !.wns = @ \ {wn}]
    <2>5. a \in ToAcquire /\ a.merge = acq[p].merge /\ a.wns \subseteq acq[p].wns
        BY <1>1 DEF ToAcquire
    <2>6. acq' = [acq EXCEPT ![p] = a]
        BY <2>1
    <2> HIDE DEF a
    <2>7. acq' \in [Proc -> ToAcquire] /\ \A q \in Proc : acq'[q] = IF q = p THEN a ELSE acq[q]
        BY <2>5, <2>6, Unfolded
    <2>8. UNCHANGED <<minWr, wrSet, relSig, mtx, pc, fence>>
        BY <1>3 DEF AcquireWn
    <2>9. NoticesAreKnown'
        BY <2>4, <2>5, <2>7, <2>8, StillKnown DEF NoticesAreKnown, Known
    <2>10. mtx'.sig \in Sig /\ MutexShape'
        BY <2>8 DEF TsInv, TypeOK, MutexShape
    <2> QED
        BY <2>4, <2>7, <2>8, <2>9, <2>10, Recombined, Unfolded DEF TsInv, TypeOK
<1>4. CASE AcquireMin(p)
    <2>1. CoreStep
        BY <1>1, <1>2, <1>4, InvalidateCore, QuietCore DEF AcquireMin
    <2>2. minWr' \in [Proc -> Nat]
        <3>1. BiggerOf(minWr[p], acq[p].min) \in Nat
            BY <1>1, <1>2, BiggerOfFacts
        <3>2. minWr' = [minWr EXCEPT ![p] = BiggerOf(minWr[p], acq[p].min)]
            BY <1>4 DEF AcquireMin
        <3> QED
            BY <3>1, <3>2, Unfolded
    <2>3. lad'.rts \in Nat
        BY <2>1 DEF CoreStep, Lad
    <2>4. relSig' \in [Proc -> Sig] /\ \A q \in Proc : relSig'[q].wn.rts <= lad'.rts
        <3>1. CASE relSig' = relSig
            BY <2>1, <3>1, StillKnown, Unfolded
        <3>2. CASE \E sig \in Truncations(MergeSig(relSig[p], acq[p].merge)) :
                        relSig' = [relSig EXCEPT ![p] = sig]
            <4>1. PICK sig \in Truncations(MergeSig(relSig[p], acq[p].merge)) :
                        relSig' = [relSig EXCEPT ![p] = sig]
                BY <3>2
            <4>2. relSig[p] \in Sig
                BY Unfolded
            <4>3. /\ MergeSig(relSig[p], acq[p].merge) \in Sig
                  /\ MergeSig(relSig[p], acq[p].merge).wn.rts <= lad'.rts
                BY <1>2, <2>1, <2>3, <4>2, MergeSigFacts, StillKnown
            <4>4. sig \in Sig /\ sig.wn.rts <= lad'.rts
                BY <2>3, <4>3, TruncationFacts
            <4>5. /\ relSig' \in [Proc -> Sig]
                  /\ \A q \in Proc : relSig'[q] = IF q = p THEN sig ELSE relSig[q]
                BY <4>1, <4>4, Unfolded
            <4> QED
                BY <2>1, <4>4, <4>5, StillKnown
        <3> QED
            BY <1>4, <3>1, <3>2 DEF AcquireMin
    <2>5. /\ acq' \in [Proc -> ToAcquire]
          /\ \A q \in Proc : /\ acq'[q].merge.wn.rts <= lad'.rts
                             /\ \A wn \in acq'[q].wns : wn.rts <= lad'.rts
        <3>1. EmptySig \in Sig /\ EmptySig.wn.rts = 0
            BY BlockAssumption DEF EmptySig, Sig, NoNotice, Notice
        <3>2. /\ NothingToAcquire \in ToAcquire /\ NothingToAcquire.merge = EmptySig
              /\ NothingToAcquire.wns = {}
            BY <3>1 DEF NothingToAcquire, ToAcquire
        <3>3. acq' = [acq EXCEPT ![p] = NothingToAcquire]
            BY <1>4 DEF AcquireMin
        <3>4. /\ acq' \in [Proc -> ToAcquire]
              /\ \A q \in Proc : acq'[q] = IF q = p THEN NothingToAcquire ELSE acq[q]
            BY <3>2, <3>3, Unfolded
        <3> QED
            BY <2>1, <2>3, <3>1, <3>2, <3>4, StillKnown
    <2>6. UNCHANGED <<wrSet, mtx, fence>>
        BY <1>4 DEF AcquireMin
    <2>7. pc' \in [Proc -> {"run", "acq", "bar"}]
        BY <1>4 DEF AcquireMin, TsInv, TypeOK
    <2>8. mtx'.sig \in Sig /\ MutexShape'
        BY <2>6 DEF TsInv, TypeOK, MutexShape
    <2>9. NoticesAreKnown'
        BY <2>1, <2>4, <2>5, <2>6, StillKnown DEF NoticesAreKnown, Known
    <2> QED
        BY <2>1, <2>2, <2>4, <2>5, <2>6, <2>7, <2>8, <2>9, Recombined, Unfolded
<1> QED
    BY <1>3, <1>4

----------------------------------------------------------------------------
(* The theorems *)

LEMMA NextStep ==
    ASSUME TsInv, [Next]_vars
    PROVE  TsInv' /\ CoreStep
<1>1. ASSUME NEW p \in Proc,
             \/ StartRead(p) \/ StartWrite(p) \/ (\E c \in Cell : Write(p, c))
             \/ Pin(p) \/ Unpin(p) \/ FenceStart(p) \/ Compare(p)
      PROVE  TsInv' /\ CoreStep
    BY <1>1, LocalStep
<1>2. ASSUME NEW p \in Proc, FenceRelease(p) \/ UnlockMutex(p) \/ BarrierEnter(p)
      PROVE  TsInv' /\ CoreStep
    BY <1>2, FenceStep
<1>3. ASSUME (\E p \in Proc : LockMutex(p)) \/ AllGather
      PROVE  TsInv' /\ CoreStep
    BY <1>3, ExchangeStep
<1>4. ASSUME NEW p \in Proc, AcquireWn(p) \/ AcquireMin(p)
      PROVE  TsInv' /\ CoreStep
    BY <1>4, AcquireStep
<1>5. ASSUME UNCHANGED vars
      PROVE  TsInv' /\ CoreStep
    <2>1. UNCHANGED <<le, lad, owner, tx, minWr, wrSet, relSig, mtx, pc, acq, fence>>
        BY <1>5 DEF vars
    <2> QED
        BY <2>1, QuietCore, NoNoticeMoves, Recombined, Unfolded DEF TsInv, TypeOK
<1> QED
    BY <1>1, <1>2, <1>3, <1>4, <1>5 DEF Next

\* The invariant of the timestamps.
THEOREM Invariance == Spec => []TsInv
<1>1. Init => TsInv
    <2> SUFFICES ASSUME Init PROVE TsInv
        OBVIOUS
    <2>1. NoNotice \in Notice /\ NoNotice.rts = 0
        BY BlockAssumption DEF NoNotice, Notice
    <2>2. EmptySig \in Sig /\ EmptySig.wn = NoNotice
        BY <2>1 DEF EmptySig, Sig
    <2>3. /\ NothingToAcquire \in ToAcquire /\ NothingToAcquire.merge = EmptySig
          /\ NothingToAcquire.wns = {}
        BY <2>2 DEF NothingToAcquire, ToAcquire
    <2>4. NoFence \in [on : BOOLEAN, min : Nat]
        BY DEF NoFence
    <2>5. le \in [Proc -> Entry]
        BY DEF Init, Entry, State
    <2>6. TypeOK
        BY <2>2, <2>3, <2>4, <2>5, BlockAssumption
        DEF Init, TypeOK, Entry, State, ToAcquire, NoTx, Tx
    <2>7. MutexShape /\ LeaseIsKnown /\ TxPinned
        BY NoProcAssumption DEF Init, MutexShape, LeaseIsKnown, TxPinned, NoTx
    <2>8. NoticesAreKnown
        BY <2>1, <2>2, <2>3 DEF Init, NoticesAreKnown, Known
    <2> QED
        BY <2>6, <2>7, <2>8 DEF TsInv
<1>2. TsInv /\ [Next]_vars => TsInv'
    BY NextStep
<1> QED
    BY <1>1, <1>2, PTL DEF Spec

\* The entries, the attached data and the signatures keep their types.
THEOREM TypeCorrect == Spec => []TypeOK
<1>1. TsInv => TypeOK
    BY DEF TsInv
<1> QED
    BY <1>1, Invariance, PTL

\* No process holds a lease beyond the one in the attached data, whatever the
\* order in which notices reach it.
THEOREM LeaseIsKnownHolds == Spec => []LeaseIsKnown
<1>1. TsInv => LeaseIsKnown
    BY DEF TsInv
<1> QED
    BY <1>1, Invariance, PTL

\* A write timestamp given out by a transaction, a write fault or a fast release
\* is later than the lease of every process.
THEOREM WriteBeatsLeasesHolds == Spec => WriteBeatsLeases
<1>1. TsInv /\ [Next]_vars => [lad'.wts # lad.wts => \A p \in Proc : lad'.wts > le[p].rts]_vars
    <2> SUFFICES ASSUME TsInv, [Next]_vars, lad'.wts # lad.wts, NEW p \in Proc
                 PROVE  lad'.wts > le[p].rts
        OBVIOUS
    <2>1. CoreStep
        BY NextStep
    <2>2. lad'.wts \in Nat /\ lad'.wts > lad.rts
        BY <2>1 DEF CoreStep, Lad
    <2> QED
        BY <2>2, Unfolded
<1> QED
    BY <1>1, Invariance, PTL DEF Spec, WriteBeatsLeases

----------------------------------------------------------------------------
(* The read set: the invariant *)

\* Minimum timestamps come from truncated signatures.
MinsAreCuts ==
    /\ mtx.sig.min <= MaxCut
    /\ \A p \in Proc : /\ minWr[p] <= MaxCut /\ relSig[p].min <= MaxCut
                       /\ acq[p].min <= MaxCut /\ acq[p].merge.min <= MaxCut

QueueTypeOK ==
    /\ DOMAIN rdSet = Proc
    /\ \A p \in Proc : IsABag(rdSet[p]) /\ BagToSet(rdSet[p]) \subseteq Nat

NoPins == \A p \in Proc : le[p].st # "pinned"

\* As long as no block is pinned, every transaction is a single step.
LEMMA NoHalfTx ==
    ASSUME TsInv, NoPins, NEW p \in Proc
    PROVE  tx.by # p /\ ~ Compare(p)
BY DEF TsInv, TxPinned, NoPins, Compare, Unprotected

\* Block is queued at p for a timestamp that expires no later than r, unless r
\* never expires.
QueuedBy(p, r) == r >= MaxCut \/ \E k \in BagToSet(rdSet[p]) : k <= r

\* A readable copy is found by the self-invalidation that its lease calls for.
ReadableIsQueued == \A p \in Proc : Readable(p) => QueuedBy(p, le[p].rts)

ExpInv == MinsAreCuts /\ QueueTypeOK /\ NoPins /\ ReadableIsQueued /\ ExpiredIsInvalid

----------------------------------------------------------------------------
(* Bags of timestamps *)

LEMMA EmptyIsBag == IsABag(EmptyBag) /\ BagToSet(EmptyBag) = {}
BY DEF IsABag, EmptyBag, SetToBag, BagToSet

\* The union of two bags has the elements of both.
LEMMA UnionOfBags ==
    ASSUME NEW A, NEW B, IsABag(A), IsABag(B)
    PROVE  IsABag(A (+) B) /\ BagToSet(A (+) B) = BagToSet(A) \cup BagToSet(B)
<1> DEFINE Sum(e) == (IF e \in DOMAIN A THEN A[e] ELSE 0) + (IF e \in DOMAIN B THEN B[e] ELSE 0)
<1>1. A (+) B = [e \in DOMAIN A \cup DOMAIN B |-> Sum(e)]  BY DEF (+)
<1>2. ASSUME NEW e \in DOMAIN A \cup DOMAIN B PROVE Sum(e) \in Nat /\ Sum(e) > 0
  <2>1. e \in DOMAIN A => A[e] \in Nat /\ A[e] > 0  BY DEF IsABag
  <2>2. e \in DOMAIN B => B[e] \in Nat /\ B[e] > 0  BY DEF IsABag
  <2> QED  BY <2>1, <2>2
<1> HIDE DEF Sum
<1> QED  BY <1>1, <1>2 DEF IsABag, BagToSet

\* What is left of a bag after some of its elements are removed.
LEMMA DifferenceOfBags ==
    ASSUME NEW A, NEW B, IsABag(A), IsABag(B)
    PROVE  /\ IsABag(A (-) B) /\ BagToSet(A (-) B) \subseteq BagToSet(A)
           /\ \A e \in BagToSet(A) \ BagToSet(B) : e \in BagToSet(A (-) B)
<1> DEFINE Rest(e) == IF e \in DOMAIN B THEN A[e] - B[e] ELSE A[e]
           R == [e \in DOMAIN A |-> Rest(e)]
<1>1. A (-) B = [e \in {d \in DOMAIN R : R[d] > 0} |-> R[e]]  BY DEF (-)
<1>2. ASSUME NEW e \in DOMAIN A
      PROVE  R[e] \in Int /\ (e \notin DOMAIN B => R[e] > 0)
  <2>1. A[e] \in Nat /\ A[e] > 0  BY DEF IsABag
  <2>2. e \in DOMAIN B => B[e] \in Nat /\ B[e] > 0  BY DEF IsABag
  <2> QED  BY <2>1, <2>2
<1>3. DOMAIN R = DOMAIN A  OBVIOUS
<1> HIDE DEF R
<1>4. \A d \in DOMAIN R : R[d] > 0 => R[d] \in Nat  BY <1>2, <1>3
<1> QED  BY <1>1, <1>2, <1>3, <1>4 DEF IsABag, BagToSet

\* What add_readable and self_invalidate push: nothing that never expires.
LEMMA QueuedFacts ==
    ASSUME NEW r \in Nat
    PROVE  /\ IsABag(Queued(r)) /\ BagToSet(Queued(r)) \subseteq Nat
           /\ r >= MaxCut \/ r \in BagToSet(Queued(r))
           /\ \A n : IsABag(Requeued(r, n)) /\ BagToSet(Requeued(r, n)) \subseteq Nat
<1>1. IsABag(Queued(r)) /\ BagToSet(Queued(r)) \subseteq {r} /\ (r < MaxCut => r \in BagToSet(Queued(r)))
  BY EmptyIsBag DEF Queued, IsABag, SetToBag, BagToSet
<1>2. MaxCut \in Nat  BY BlockAssumption
<1>3. ASSUME NEW n PROVE IsABag(Requeued(r, n)) /\ BagToSet(Requeued(r, n)) \subseteq {r}
  <2>1. CASE n \in Nat \ {0}
    <3>1. Requeued(r, n) = [k \in BagToSet(Queued(r)) |-> n]  BY <2>1 DEF Requeued
    <3> QED  BY <1>1, <2>1, <3>1 DEF IsABag, BagToSet
  <2>2. CASE n \notin Nat \ {0}
    BY <2>2, EmptyIsBag DEF Requeued
  <2> QED  BY <2>1, <2>2
<1> QED  BY <1>1, <1>2, <1>3

----------------------------------------------------------------------------
(* The read set: every step keeps the invariant *)

\* A copy that is readable after a step was so before, with a lease and queue
\* that only grew, or its new lease is live and queued.
LEMMA QueueKept ==
    ASSUME TsInv, TsInv', ExpInv, NEW S \in SUBSET Proc,
           \A q \in Proc \ S : le'[q] = le[q] /\ minWr'[q] = minWr[q] /\ rdSet'[q] = rdSet[q],
           \A q \in S : Readable(q)' =>
                \/ /\ Readable(q) /\ le'[q].rts >= le[q].rts /\ minWr'[q] = minWr[q]
                   /\ BagToSet(rdSet[q]) \subseteq BagToSet(rdSet'[q])
                \/ /\ le'[q].rts >= minWr'[q]
                   /\ le'[q].rts >= MaxCut \/ \E k \in BagToSet(rdSet'[q]) : k <= le'[q].rts,
           \A q \in S : le'[q].st # "pinned"
    PROVE  NoPins' /\ ReadableIsQueued' /\ ExpiredIsInvalid'
<1>0. MaxCut \in Nat  BY BlockAssumption
<1>1. NoPins'  BY DEF ExpInv, NoPins
<1>2. ASSUME NEW q \in Proc, Readable(q)'
      PROVE  /\ le'[q].rts >= minWr'[q]
             /\ le'[q].rts >= MaxCut \/ \E k \in BagToSet(rdSet'[q]) : k <= le'[q].rts
  <2>0. /\ le[q].rts \in Nat /\ le'[q].rts \in Nat /\ minWr[q] \in Nat
        /\ \A k \in BagToSet(rdSet[q]) : k \in Nat
    BY Unfolded DEF TsInv, TypeOK, ExpInv, QueueTypeOK
  <2>1. Readable(q) => /\ le[q].rts >= minWr[q]
                       /\ le[q].rts >= MaxCut \/ \E k \in BagToSet(rdSet[q]) : k <= le[q].rts
    BY DEF ExpInv, NoPins, ExpiredIsInvalid, ReadableIsQueued, QueuedBy
  <2>2. CASE q \notin S
    <3>1. Readable(q)  BY <1>2, <2>2 DEF Readable
    <3> QED  BY <2>1, <2>2, <3>1
  <2>3. CASE /\ Readable(q) /\ le'[q].rts >= le[q].rts /\ minWr'[q] = minWr[q]
             /\ BagToSet(rdSet[q]) \subseteq BagToSet(rdSet'[q])
    <3>1. le'[q].rts >= minWr'[q]  BY <2>0, <2>1, <2>3
    <3>2. CASE le[q].rts >= MaxCut  BY <1>0, <2>0, <2>3, <3>1, <3>2
    <3>3. CASE \E k \in BagToSet(rdSet[q]) : k <= le[q].rts
      <4>1. PICK k \in BagToSet(rdSet[q]) : k <= le[q].rts  BY <3>3
      <4>2. k \in BagToSet(rdSet'[q]) /\ k <= le'[q].rts  BY <2>0, <2>3, <4>1
      <4> QED  BY <3>1, <4>2
    <3> QED  BY <2>1, <2>3, <3>2, <3>3
  <2> QED  BY <1>2, <2>2, <2>3
<1> QED  BY <1>1, <1>2 DEF ReadableIsQueued, QueuedBy, ExpiredIsInvalid

\* Where the new lease of a transaction comes from.
LEMMA TransactionLease ==
    ASSUME TsInv, NEW p \in Proc, NEW e \in Entry, NEW min \in Nat, e.st # "pinned"
    PROVE  LET t == Transaction(p, e, min)
           IN  /\ t.le.st # "pinned" /\ t.le.rts \in Nat /\ t.le.rts >= lad.rts
               /\ Invalid(e.st) => t.le.rts >= minWr[p] /\ t.readable = Queued(t.le.rts)
               /\ ~ Invalid(e.st) => t.readable = EmptyBag
<1> DEFINE t == Transaction(p, e, min)
           written == IF tx.by = p THEN tx.written ELSE Dirty(e.st) /\ priv[p] # pub[p]
           latest == LatestMin(p, e, min)
           ts == MakeNewTs(latest, written, lad)
<1>1. TypeOK  BY DEF TsInv
<1>2. t.le.rts \in Nat /\ t.le.rts >= lad.rts
  BY <1>1, TransactionFacts DEF Entry
<1>3. /\ t.le.rts = ts.rts /\ t.le.st \in {"readonly_clean", e.st}
      /\ t.readable = IF Invalid(e.st) THEN Queued(ts.rts) ELSE EmptyBag
  BY DEF Transaction, BeginTransaction, ReleaseMerge, EndTransaction
<1>4. ASSUME Invalid(e.st) PROVE ts.rts >= minWr[p]
  <2>1. latest = minWr[p] /\ latest \in Nat /\ lad.rts \in Nat /\ lad.wts \in Nat
    BY <1>4, Unfolded DEF LatestMin
  <2> DEFINE w == IF written THEN NewWrTs(latest, lad.rts) ELSE lad.wts
  <2>2. ts.rts = NewRdTs(latest, w, lad.rts)  BY DEF MakeNewTs
  <2>3. w \in Nat  BY <2>1 DEF NewWrTs, BiggerOf
  <2> HIDE DEF w, latest, ts
  <2> QED  BY <2>1, <2>2, <2>3, BlockAssumption DEF NewRdTs, BiggerOf
<1> HIDE DEF t, ts
<1> QED  BY <1>2, <1>3, <1>4 DEF t

\* A transaction together with the queueing of its result.
LEMMA TransactionQueue ==
    ASSUME TsInv, TsInv', ExpInv, NEW p \in Proc, NEW min \in Nat,
           DoTransaction(p, Transaction(p, le[p], min)),
           rdSet' = [rdSet EXCEPT ![p] = @ (+) Transaction(p, le[p], min).readable],
           minWr' = minWr
    PROVE  QueueTypeOK' /\ NoPins' /\ ReadableIsQueued' /\ ExpiredIsInvalid'
<1> DEFINE t == Transaction(p, le[p], min)
<1>0. le[p] \in Entry /\ le[p].st # "pinned" /\ le[p].rts \in Nat /\ lad.rts \in Nat /\ le[p].rts <= lad.rts
  BY Unfolded DEF ExpInv, NoPins
<1>1. /\ t.le.st # "pinned" /\ t.le.rts \in Nat /\ t.le.rts >= lad.rts
      /\ Invalid(le[p].st) => t.le.rts >= minWr[p] /\ t.readable = Queued(t.le.rts)
      /\ ~ Invalid(le[p].st) => t.readable = EmptyBag
  BY <1>0, TransactionLease
<1>2. le' = [le EXCEPT ![p] = t.le] /\ rdSet' = [rdSet EXCEPT ![p] = rdSet[p] (+) t.readable]
  BY DEF DoTransaction
<1> HIDE DEF t
<1>3. le'[p] = t.le /\ \A q \in Proc \ {p} : le'[q] = le[q]  BY <1>2, Unfolded
<1>4. DOMAIN rdSet = Proc /\ IsABag(rdSet[p]) /\ BagToSet(rdSet[p]) \subseteq Nat
  BY DEF ExpInv, QueueTypeOK
<1>5. IsABag(t.readable) /\ BagToSet(t.readable) \subseteq Nat
  <2>1. CASE Invalid(le[p].st)  BY <1>1, <2>1, QueuedFacts
  <2>2. CASE ~ Invalid(le[p].st)  BY <1>1, <2>2, EmptyIsBag
  <2> QED  BY <2>1, <2>2
<1>6. /\ rdSet'[p] = rdSet[p] (+) t.readable /\ DOMAIN rdSet' = Proc
      /\ \A q \in Proc \ {p} : rdSet'[q] = rdSet[q]
  BY <1>2, <1>4
<1>7. IsABag(rdSet'[p]) /\ BagToSet(rdSet'[p]) = BagToSet(rdSet[p]) \cup BagToSet(t.readable)
  BY <1>4, <1>5, <1>6, UnionOfBags
<1>8. QueueTypeOK'
  BY <1>4, <1>5, <1>6, <1>7 DEF ExpInv, QueueTypeOK
<1>9. Readable(p)' =>
            \/ /\ Readable(p) /\ le'[p].rts >= le[p].rts /\ minWr'[p] = minWr[p]
               /\ BagToSet(rdSet[p]) \subseteq BagToSet(rdSet'[p])
            \/ /\ le'[p].rts >= minWr'[p]
               /\ le'[p].rts >= MaxCut \/ \E k \in BagToSet(rdSet'[p]) : k <= le'[p].rts
  <2>1. CASE Invalid(le[p].st)
    <3>1. t.le.rts >= MaxCut \/ t.le.rts \in BagToSet(rdSet'[p])
      BY <1>1, <1>7, <2>1, QueuedFacts
    <3>2. t.le.rts <= t.le.rts  BY <1>1
    <3> QED  BY <1>1, <1>3, <2>1, <3>1, <3>2
  <2>2. CASE ~ Invalid(le[p].st)
    <3>1. le'[p].rts >= le[p].rts  BY <1>0, <1>1, <1>3
    <3> QED  BY <1>7, <2>2, <3>1 DEF Readable
  <2> QED  BY <2>1, <2>2
<1>10. le'[p].st # "pinned"  BY <1>1, <1>3
<1>11. NoPins' /\ ReadableIsQueued' /\ ExpiredIsInvalid'
  <2>1. {p} \in SUBSET Proc  OBVIOUS
  <2> QED  BY ZenonT(60), <1>3, <1>6, <1>9, <1>10, <2>1, QueueKept
<1> QED  BY <1>8, <1>11

\* Merging and cutting keeps minimum timestamps among the cuts.
LEMMA CutFacts ==
    ASSUME NEW a \in Sig, NEW b \in Sig, a.min <= MaxCut, b.min <= MaxCut,
           NEW cut \in Truncations(MergeSig(a, b))
    PROVE  cut.min <= MaxCut
<1>0. MaxCut \in Nat /\ a.min \in Nat /\ b.min \in Nat  BY BlockAssumption DEF Sig
<1> DEFINE s == MergeSig(a, b)
<1>1. s.min \in Nat /\ s.min <= MaxCut  BY <1>0 DEF MergeSig, BiggerOf
<1>2. cut = s \/ \E k \in 1 .. MaxCut : cut.min = BiggerOf(s.min, k)
  BY DEF Truncations
<1> HIDE DEF s
<1>3. ASSUME NEW k \in 1 .. MaxCut PROVE BiggerOf(s.min, k) <= MaxCut
  BY <1>0, <1>1 DEF BiggerOf
<1> QED  BY <1>1, <1>2, <1>3

\* The signature after a fence.
LEMMA FenceCut ==
    ASSUME TsInv, ExpInv, NEW p \in Proc, NEW min \in Nat, ReleaseBlock(p, min),
           NEW sig \in SigsAfterFence(p, min)
    PROVE  sig.min <= MaxCut
<1> DEFINE made == [min |-> 0, wn |-> ReleaseNotice(p, min)]
<1>1. ReleaseNotice(p, min) \in Notice  BY ReleaseCore
<1>2. made \in Sig /\ made.min <= MaxCut  BY <1>1, BlockAssumption DEF Sig
<1>3. relSig[p] \in Sig /\ relSig[p].min <= MaxCut  BY Unfolded DEF ExpInv, MinsAreCuts
<1>4. sig \in Truncations(MergeSig(relSig[p], made))  BY DEF SigsAfterFence
<1> HIDE DEF made
<1> QED  BY <1>2, <1>3, <1>4, CutFacts

\* The release of the block within a fence.
LEMMA ReleaseQueue ==
    ASSUME TsInv, TsInv', ExpInv, NEW p \in Proc, NEW min \in Nat, ReleaseBlock(p, min), minWr' = minWr
    PROVE  QueueTypeOK' /\ NoPins' /\ ReadableIsQueued' /\ ExpiredIsInvalid'
<1>1. CASE ~ wrSet[p] \/ ~ Dirty(le[p].st)
  <2>1. UNCHANGED <<le, rdSet, minWr>>  BY <1>1 DEF ReleaseBlock
  <2> QED  BY <2>1 DEF ExpInv, QueueTypeOK, NoPins, ReadableIsQueued, QueuedBy, ExpiredIsInvalid, Readable
<1>2. CASE ~ (~ wrSet[p] \/ ~ Dirty(le[p].st)) /\ IsFastReleased(p)
  <2>1. le' = [le EXCEPT ![p] = FastReleased(le[p])] /\ rdSet' = rdSet
    BY <1>2 DEF ReleaseBlock
  <2>2. /\ le[p] \in Entry /\ le[p].st # "pinned"
        /\ le[p].rts \in Nat /\ lad.rts \in Nat /\ le[p].rts <= lad.rts
    BY Unfolded DEF ExpInv, NoPins
  <2>3. FastReleased(le[p]).st = le[p].st /\ FastReleased(le[p]).rts = lad.rts
    BY <2>2 DEF FastReleased, Entry
  <2>4. le'[p] = FastReleased(le[p]) /\ \A q \in Proc \ {p} : le'[q] = le[q]
    BY <2>1, Unfolded
  <2>5. QueueTypeOK'  BY <2>1 DEF ExpInv, QueueTypeOK
  <2>6. Readable(p)' => /\ Readable(p) /\ le'[p].rts >= le[p].rts /\ minWr'[p] = minWr[p]
                        /\ BagToSet(rdSet[p]) \subseteq BagToSet(rdSet'[p])
    BY <2>1, <2>2, <2>3, <2>4 DEF Readable
  <2>7. {p} \in SUBSET Proc /\ le'[p].st # "pinned"  BY <2>2, <2>3, <2>4
  <2> QED  BY <2>1, <2>4, <2>5, <2>6, <2>7, QueueKept
<1>3. CASE ~ (~ wrSet[p] \/ ~ Dirty(le[p].st)) /\ ~ IsFastReleased(p)
  <2>1. /\ DoTransaction(p, Transaction(p, le[p], min))
        /\ rdSet' = [rdSet EXCEPT ![p] = @ (+) Transaction(p, le[p], min).readable]
    BY <1>3 DEF ReleaseBlock
  <2> QED  BY <2>1, TransactionQueue
<1> QED  BY <1>1, <1>2, <1>3

\* Faults and writes of the application.
LEMMA LocalQueue ==
    ASSUME TsInv, TsInv', ExpInv, "pin" \notin Usage, NEW p \in Proc,
           \/ StartRead(p) \/ StartWrite(p) \/ (\E c \in Cell : Write(p, c))
           \/ Pin(p) \/ Unpin(p) \/ FenceStart(p)
    PROVE  ExpInv'
<1>0. ~ Pin(p) /\ ~ Unpin(p)  BY DEF Pin, Unpin, ExpInv, NoPins
<1>1. UNCHANGED <<minWr, relSig, mtx, acq>>
  BY <1>0 DEF StartRead, StartWrite, Write, FenceStart
<1>2. MinsAreCuts'  BY <1>1 DEF ExpInv, MinsAreCuts
<1>3. le[p] \in Entry /\ le[p].st # "pinned" /\ le[p].rts \in Nat /\ minWr[p] \in Nat
  BY Unfolded DEF ExpInv, NoPins
<1>4. {p} \in SUBSET Proc  OBVIOUS
<1>5. CASE (\E c \in Cell : Write(p, c)) \/ FenceStart(p)
  <2>1. UNCHANGED <<le, rdSet, minWr>>  BY <1>5 DEF Write, FenceStart
  <2> QED  BY <1>2, <2>1
           DEF ExpInv, QueueTypeOK, NoPins, ReadableIsQueued, QueuedBy, ExpiredIsInvalid, Readable
<1>6. CASE StartWrite(p)
  <2>1. le' = [le EXCEPT ![p].st = "writable"] /\ rdSet' = rdSet /\ ReadOnly(le[p].st)
    BY <1>6 DEF StartWrite
  <2>2. /\ le'[p].st = "writable" /\ le'[p].rts = le[p].rts
        /\ \A q \in Proc \ {p} : le'[q] = le[q]
    BY <1>3, <2>1, Unfolded DEF Entry
  <2>3. QueueTypeOK'  BY <2>1 DEF ExpInv, QueueTypeOK
  <2>4. Readable(p) /\ le'[p].rts >= le[p].rts  BY <1>3, <2>1, <2>2 DEF Readable, ReadOnly, Invalid
  <2>5. NoPins' /\ ReadableIsQueued' /\ ExpiredIsInvalid'
    BY <1>1, <1>4, <2>1, <2>2, <2>4, QueueKept
  <2> QED  BY <1>2, <2>3, <2>5 DEF ExpInv
<1>7. CASE StartRead(p) /\ minWr[p] > le[p].rts
  <2>1. /\ DoTransaction(p, Transaction(p, le[p], minWr[p]))
        /\ rdSet' = [rdSet EXCEPT ![p] = @ (+) Transaction(p, le[p], minWr[p]).readable]
    BY <1>7 DEF StartRead
  <2>2. QueueTypeOK' /\ NoPins' /\ ReadableIsQueued' /\ ExpiredIsInvalid'
    BY <1>1, <1>3, <2>1, TransactionQueue
  <2> QED  BY <1>2, <2>2 DEF ExpInv
<1>8. CASE StartRead(p) /\ ~ (minWr[p] > le[p].rts)
  <2> DEFINE s == IF le[p].st = "invalid_dirty" THEN "readonly_dirty" ELSE "readonly_clean"
  <2>1. /\ le' = [le EXCEPT ![p].st = s]
        /\ rdSet' = [rdSet EXCEPT ![p] = rdSet[p] (+) Queued(le[p].rts)]
    BY <1>8 DEF StartRead
  <2>2. /\ le'[p].st = s /\ le'[p].rts = le[p].rts /\ s # "pinned"
        /\ \A q \in Proc \ {p} : le'[q] = le[q]
    BY <1>3, <2>1, Unfolded DEF Entry
  <2>3. /\ IsABag(rdSet[p]) /\ BagToSet(rdSet[p]) \subseteq Nat /\ DOMAIN rdSet = Proc
        /\ IsABag(Queued(le[p].rts)) /\ BagToSet(Queued(le[p].rts)) \subseteq Nat
        /\ le[p].rts >= MaxCut \/ le[p].rts \in BagToSet(Queued(le[p].rts))
    BY <1>3, QueuedFacts DEF ExpInv, QueueTypeOK
  <2>4. /\ rdSet'[p] = rdSet[p] (+) Queued(le[p].rts) /\ DOMAIN rdSet' = Proc
        /\ \A q \in Proc \ {p} : rdSet'[q] = rdSet[q]
    BY <2>1, <2>3
  <2>5. IsABag(rdSet'[p]) /\ BagToSet(rdSet'[p]) = BagToSet(rdSet[p]) \cup BagToSet(Queued(le[p].rts))
    BY <2>3, <2>4, UnionOfBags
  <2>6. QueueTypeOK'  BY <2>3, <2>4, <2>5 DEF ExpInv, QueueTypeOK
  <2>7. /\ le'[p].rts >= minWr'[p]
        /\ le'[p].rts >= MaxCut \/ \E k \in BagToSet(rdSet'[p]) : k <= le'[p].rts
    <3>1. le'[p].rts >= minWr'[p] /\ le'[p].rts <= le'[p].rts  BY <1>1, <1>3, <1>8, <2>2
    <3> QED  BY <2>2, <2>3, <2>5, <3>1
  <2>8. NoPins' /\ ReadableIsQueued' /\ ExpiredIsInvalid'
    BY <1>1, <1>4, <2>2, <2>4, <2>7, QueueKept
  <2> QED  BY <1>2, <2>6, <2>8 DEF ExpInv
<1> QED  BY <1>0, <1>5, <1>6, <1>7, <1>8

\* Fences: of a second thread, before the mutex is released, before a barrier.
LEMMA FenceQueue ==
    ASSUME TsInv, TsInv', ExpInv, NEW p \in Proc, FenceRelease(p) \/ UnlockMutex(p) \/ BarrierEnter(p)
    PROVE  ExpInv'
<1>0. PICK min \in Nat :
        /\ ReleaseBlock(p, min) /\ minWr' = minWr
        /\ \E sig \in SigsAfterFence(p, min) :
            \/ relSig' = [relSig EXCEPT ![p] = sig] /\ UNCHANGED <<mtx, acq>>
            \/ /\ relSig' = [relSig EXCEPT ![p] = sig] /\ acq' = acq
               /\ mtx' = [holder |-> NoProc, sig |-> sig, hb |-> hb[p]]
            \/ /\ relSig' = [relSig EXCEPT ![p] = EmptySig] /\ acq' = [acq EXCEPT ![p].merge = sig]
               /\ mtx' = mtx
  <2>1. minWr[p] \in Nat /\ fence[p].min \in Nat  BY Unfolded
  <2>2. CASE FenceRelease(p)  BY <2>1, <2>2 DEF FenceRelease
  <2>3. CASE UnlockMutex(p)  BY <2>1, <2>3 DEF UnlockMutex
  <2>4. CASE BarrierEnter(p)  BY <2>1, <2>4 DEF BarrierEnter
  <2> QED  BY <2>2, <2>3, <2>4
<1>1. PICK sig \in SigsAfterFence(p, min) :
        \/ relSig' = [relSig EXCEPT ![p] = sig] /\ UNCHANGED <<mtx, acq>>
        \/ /\ relSig' = [relSig EXCEPT ![p] = sig] /\ acq' = acq
           /\ mtx' = [holder |-> NoProc, sig |-> sig, hb |-> hb[p]]
        \/ /\ relSig' = [relSig EXCEPT ![p] = EmptySig] /\ acq' = [acq EXCEPT ![p].merge = sig]
           /\ mtx' = mtx
  BY <1>0
<1>2. QueueTypeOK' /\ NoPins' /\ ReadableIsQueued' /\ ExpiredIsInvalid'
  BY <1>0, ReleaseQueue
<1>3. sig.min <= MaxCut /\ EmptySig.min <= MaxCut
  BY <1>0, FenceCut, BlockAssumption DEF EmptySig
<1>4. MinsAreCuts'
  <2>1. /\ mtx'.sig.min \in {mtx.sig.min, sig.min}
        /\ \A q \in Proc : /\ relSig'[q].min \in {relSig[q].min, sig.min, EmptySig.min}
                           /\ acq'[q].min = acq[q].min
                           /\ acq'[q].merge.min \in {acq[q].merge.min, sig.min}
    <3>1. \A q \in Proc : relSig'[q].min \in {relSig[q].min, sig.min, EmptySig.min}
      BY <1>1, Unfolded
    <3>2. mtx'.sig.min \in {mtx.sig.min, sig.min}  BY <1>1
    <3>3. \A q \in Proc : acq'[q].min = acq[q].min /\ acq'[q].merge \in {acq[q].merge, sig}
      <4>1. CASE acq' = acq  BY <4>1
      <4>2. CASE acq' = [acq EXCEPT ![p].merge = sig]  BY <4>2, Unfolded DEF ToAcquire
      <4> QED  BY <1>1, <4>1, <4>2
    <3> QED  BY <3>1, <3>2, <3>3
  <2> QED  BY <1>0, <1>3, <2>1 DEF ExpInv, MinsAreCuts
<1> QED  BY <1>2, <1>4 DEF ExpInv

\* The mutex is taken, or the signatures of a barrier are gathered.
LEMMA ExchangeQueue ==
    ASSUME TsInv, TsInv', ExpInv, (\E p \in Proc : LockMutex(p)) \/ AllGather
    PROVE  ExpInv'
<1>1. UNCHANGED <<le, rdSet, minWr, relSig>> /\ mtx'.sig = mtx.sig
  BY DEF LockMutex, AllGather, TsInv, MutexShape
<1>2. \A q \in Proc : acq'[q].min <= MaxCut /\ acq'[q].merge.min <= MaxCut
  <2>1. CASE \E p \in Proc : LockMutex(p)
    <3>1. PICK p \in Proc : acq' = [acq EXCEPT ![p] = [wns |-> {mtx.sig.wn}, min |-> mtx.sig.min,
                                                       merge |-> mtx.sig]]
      BY <2>1 DEF LockMutex
    <3> QED  BY <3>1, Unfolded DEF ExpInv, MinsAreCuts
  <2>2. CASE AllGather
    <3>1. PICK min \in [Proc -> {0} \cup {acq[q].merge.min : q \in Proc}] :
            acq' = [p \in Proc |-> [wns |-> {acq[q].merge.wn : q \in Proc \ {p}},
                                    min |-> min[p], merge |-> EmptySig]]
      BY <2>2 DEF AllGather
    <3>2. 0 <= MaxCut /\ EmptySig.min = 0  BY BlockAssumption DEF EmptySig
    <3>3. \A q \in Proc : min[q] <= MaxCut  BY <3>2 DEF ExpInv, MinsAreCuts
    <3> QED  BY <3>1, <3>2, <3>3
  <2> QED  BY <2>1, <2>2
<1> QED  BY <1>1, <1>2
         DEF ExpInv, MinsAreCuts, QueueTypeOK, NoPins, ReadableIsQueued, QueuedBy, ExpiredIsInvalid, Readable

\* A notice later than the lease makes the copy invalid.
LEMMA AcquireWnQueue ==
    ASSUME TsInv, TsInv', ExpInv, NEW p \in Proc, AcquireWn(p)
    PROVE  ExpInv'
<1>0. le[p] \in Entry /\ le[p].st # "pinned"  BY Unfolded DEF ExpInv, NoPins
<1>1. PICK wn \in acq[p].wns :
        /\ acq' = [acq EXCEPT ![p].wns = @ \ {wn}]
        /\ IF wn.wts > le[p].rts
           THEN InvalidateTo(p, Noticed(le[p], wn, wn.rts), minWr[p])
           ELSE UNCHANGED <<le, lad, owner, tx, priv, pub>>
  BY DEF AcquireWn
<1>2. UNCHANGED <<rdSet, minWr, relSig, mtx>>  BY DEF AcquireWn
<1>3. MinsAreCuts'
  <2>1. \A q \in Proc : acq'[q].min = acq[q].min /\ acq'[q].merge = acq[q].merge
    BY <1>1, Unfolded DEF ToAcquire
  <2> QED  BY <1>2, <2>1 DEF ExpInv, MinsAreCuts
<1>4. QueueTypeOK'  BY <1>2 DEF ExpInv, QueueTypeOK
<1>5. /\ \A q \in Proc \ {p} : le'[q] = le[q]
      /\ le'[p] = le[p] \/ (~ Readable(p)' /\ le'[p].st # "pinned")
  <2>1. CASE wn.wts > le[p].rts
    <3> DEFINE e == Noticed(le[p], wn, wn.rts)
    <3>1. e.st = le[p].st  BY <1>0 DEF Noticed, Entry
    <3>2. le' = [le EXCEPT ![p] = [e EXCEPT !.st = Invalidated(e.st)]]
      BY <1>0, <1>1, <2>1, <3>1 DEF InvalidateTo
    <3>3. Invalidated(le[p].st) \in {"invalid_clean", "invalid_dirty"}
      BY <1>0 DEF Invalidated, Entry, State
    <3>4. [e EXCEPT !.st = Invalidated(e.st)].st = Invalidated(le[p].st)
      BY <1>0, <3>1 DEF Noticed, Entry
    <3> HIDE DEF e
    <3> QED  BY <3>2, <3>3, <3>4, Unfolded DEF Readable, Invalid
  <2>2. CASE ~ (wn.wts > le[p].rts)  BY <1>1, <2>2
  <2> QED  BY <2>1, <2>2
<1>6. {p} \in SUBSET Proc /\ le[p].rts \in Nat /\ le[p].rts >= le[p].rts  BY Unfolded
<1>7. Readable(p)' => /\ Readable(p) /\ le'[p].rts >= le[p].rts /\ minWr'[p] = minWr[p]
                      /\ BagToSet(rdSet[p]) \subseteq BagToSet(rdSet'[p])
  BY <1>2, <1>5, <1>6 DEF Readable
<1>8. NoPins' /\ ReadableIsQueued' /\ ExpiredIsInvalid'
  BY <1>0, <1>2, <1>5, <1>6, <1>7, QueueKept
<1> QED  BY <1>3, <1>4, <1>8 DEF ExpInv

\* Self-invalidation: what has expired leaves the queue, and the copy becomes
\* invalid or is queued again for its lease.
LEMMA AcquireMinQueue ==
    ASSUME TsInv, TsInv', ExpInv, NEW p \in Proc, AcquireMin(p)
    PROVE  ExpInv'
<1> DEFINE m == acq[p].min
           expired == [r \in {r \in BagToSet(rdSet[p]) : m > r} |-> rdSet[p][r]]
           first == IF m > le[p].rts THEN EmptyBag ELSE Queued(le[p].rts)
           others == IF m > le'[p].rts THEN EmptyBag
                     ELSE Requeued(le'[p].rts, BagCardinality(expired) - 1)
           rest == (rdSet[p] (-) expired) (+) (first (+) others)
<1>0. /\ le[p] \in Entry /\ le[p].st # "pinned" /\ le[p].rts \in Nat /\ le'[p].rts \in Nat
      /\ m \in Nat /\ m <= MaxCut /\ minWr[p] \in Nat /\ minWr[p] <= MaxCut /\ MaxCut \in Nat
  <2>1. le'[p].rts \in Nat  BY DEF TsInv, TypeOK
  <2> QED  BY <2>1, Unfolded, BlockAssumption DEF ExpInv, NoPins, MinsAreCuts, ToAcquire
<1>1. /\ minWr' = [minWr EXCEPT ![p] = BiggerOf(@, m)]
      /\ acq' = [acq EXCEPT ![p] = NothingToAcquire] /\ UNCHANGED mtx
      /\ \/ relSig' = relSig
         \/ \E sig \in Truncations(MergeSig(relSig[p], acq[p].merge)) :
                relSig' = [relSig EXCEPT ![p] = sig]
  BY DEF AcquireMin
<1>2. minWr'[p] = BiggerOf(minWr[p], m) /\ \A q \in Proc \ {p} : minWr'[q] = minWr[q]
  BY <1>1, Unfolded
<1>3. MinsAreCuts'
  <2>1. \A q \in Proc : minWr'[q] <= MaxCut  BY <1>0, <1>2 DEF BiggerOf, ExpInv, MinsAreCuts
  <2>2. \A q \in Proc : relSig'[q].min <= MaxCut
    <3>1. CASE relSig' = relSig  BY <3>1 DEF ExpInv, MinsAreCuts
    <3>2. CASE \E sig \in Truncations(MergeSig(relSig[p], acq[p].merge)) :
                  relSig' = [relSig EXCEPT ![p] = sig]
      <4>1. PICK sig \in Truncations(MergeSig(relSig[p], acq[p].merge)) :
                  relSig' = [relSig EXCEPT ![p] = sig]
        BY <3>2
      <4>2. /\ relSig[p] \in Sig /\ acq[p].merge \in Sig
            /\ relSig[p].min <= MaxCut /\ acq[p].merge.min <= MaxCut
        BY Unfolded DEF ToAcquire, ExpInv, MinsAreCuts
      <4>3. sig.min <= MaxCut  BY <4>2, CutFacts
      <4> QED  BY <4>1, <4>3, Unfolded DEF ExpInv, MinsAreCuts
    <3> QED  BY <1>1, <3>1, <3>2
  <2>3. \A q \in Proc : acq'[q].min <= MaxCut /\ acq'[q].merge.min <= MaxCut
    <3>1. NothingToAcquire.min <= MaxCut /\ NothingToAcquire.merge.min <= MaxCut
      BY <1>0 DEF NothingToAcquire, EmptySig
    <3>2. \A q \in Proc : acq'[q] = acq[q] \/ acq'[q] = NothingToAcquire  BY <1>1, Unfolded
    <3> QED  BY <3>1, <3>2 DEF ExpInv, MinsAreCuts
  <2> QED  BY <1>1, <2>1, <2>2, <2>3 DEF ExpInv, MinsAreCuts
<1>4. {p} \in SUBSET Proc  OBVIOUS
<1>5. /\ DOMAIN rdSet = Proc /\ IsABag(rdSet[p]) /\ BagToSet(rdSet[p]) \subseteq Nat
      /\ IsABag(expired) /\ BagToSet(expired) = {r \in BagToSet(rdSet[p]) : m > r}
  BY DEF ExpInv, QueueTypeOK, IsABag, BagToSet
<1>6. CASE m <= minWr[p] \/ expired = EmptyBag
  <2>1. UNCHANGED <<le, rdSet>>  BY <1>6 DEF AcquireMin
  <2>2. QueueTypeOK'  BY <2>1 DEF ExpInv, QueueTypeOK
  <2>3. Readable(p)' =>
            \/ /\ Readable(p) /\ le'[p].rts >= le[p].rts /\ minWr'[p] = minWr[p]
               /\ BagToSet(rdSet[p]) \subseteq BagToSet(rdSet'[p])
            \/ /\ le'[p].rts >= minWr'[p]
               /\ le'[p].rts >= MaxCut \/ \E k \in BagToSet(rdSet'[p]) : k <= le'[p].rts
    <3> SUFFICES ASSUME Readable(p)'
                 PROVE  /\ le'[p].rts >= minWr'[p]
                        /\ le'[p].rts >= MaxCut \/ \E k \in BagToSet(rdSet'[p]) : k <= le'[p].rts
      OBVIOUS
    <3>1. Readable(p)  BY <2>1 DEF Readable
    <3>2. le[p].rts >= MaxCut \/ \E k \in BagToSet(rdSet[p]) : k <= le[p].rts
      BY <3>1 DEF ExpInv, ReadableIsQueued, QueuedBy
    <3>3. le[p].rts >= minWr[p]  BY <1>0, <3>1 DEF ExpInv, ExpiredIsInvalid
    <3>4. CASE m <= minWr[p]
      <4>1. minWr'[p] = minWr[p]  BY <1>0, <1>2, <3>4 DEF BiggerOf
      <4> QED  BY <2>1, <3>2, <3>3, <4>1
    <3>5. CASE expired = EmptyBag
      <4>1. \A k \in BagToSet(rdSet[p]) : k \in Nat /\ m <= k
        BY <1>0, <1>5, <3>5, EmptyIsBag
      <4>2. le[p].rts >= m  BY <1>0, <3>2, <4>1
      <4>3. le[p].rts >= minWr'[p]  BY <1>0, <1>2, <3>3, <4>2 DEF BiggerOf
      <4> QED  BY <2>1, <3>2, <4>3
    <3> QED  BY <1>6, <3>4, <3>5
  <2>4. NoPins' /\ ReadableIsQueued' /\ ExpiredIsInvalid'
    BY <1>0, <1>2, <1>4, <2>1, <2>3, QueueKept
  <2> QED  BY <1>3, <2>2, <2>4 DEF ExpInv
<1>7. CASE ~ (m <= minWr[p] \/ expired = EmptyBag)
  <2>1. /\ rdSet' = [rdSet EXCEPT ![p] = rest]
        /\ IF m > le[p].rts THEN InvalidateTo(p, le[p], m)
           ELSE UNCHANGED <<le, lad, owner, tx, priv, pub>>
    BY <1>7 DEF AcquireMin
  <2>2. IsABag(first) /\ BagToSet(first) \subseteq Nat
    BY <1>0, QueuedFacts, EmptyIsBag
  <2>3. IsABag(others) /\ BagToSet(others) \subseteq Nat
    <3>1. CASE m > le'[p].rts  BY <3>1, EmptyIsBag
    <3>2. CASE ~ (m > le'[p].rts)
      <4>1. others = Requeued(le'[p].rts, BagCardinality(expired) - 1)  BY <3>2
      <4> HIDE DEF others, expired
      <4> QED  BY <1>0, <4>1, QueuedFacts
    <3> QED  BY <3>1, <3>2
  <2> HIDE DEF others, expired
  <2>4. IsABag(first (+) others) /\ BagToSet(first (+) others) = BagToSet(first) \cup BagToSet(others)
    BY <2>2, <2>3, UnionOfBags
  <2>5. /\ IsABag(rdSet[p] (-) expired) /\ BagToSet(rdSet[p] (-) expired) \subseteq BagToSet(rdSet[p])
    BY <1>5, DifferenceOfBags
  <2>6. /\ IsABag(rest)
        /\ BagToSet(rest) = BagToSet(rdSet[p] (-) expired) \cup (BagToSet(first) \cup BagToSet(others))
    BY <2>4, <2>5, UnionOfBags
  <2>7. rdSet'[p] = rest /\ DOMAIN rdSet' = Proc /\ \A q \in Proc \ {p} : rdSet'[q] = rdSet[q]
    BY <1>5, <2>1
  <2> HIDE DEF rest, first
  <2>8. QueueTypeOK'
    BY <1>5, <2>2, <2>3, <2>5, <2>6, <2>7 DEF ExpInv, QueueTypeOK
  <2>9. /\ \A q \in Proc \ {p} : le'[q] = le[q]
        /\ le'[p].st # "pinned"
        /\ Readable(p)' => /\ le'[p].rts >= minWr'[p]
                           /\ le'[p].rts >= MaxCut \/ \E k \in BagToSet(rdSet'[p]) : k <= le'[p].rts
    <3>1. CASE m > le[p].rts
      <4>1. le' = [le EXCEPT ![p] = [le[p] EXCEPT !.st = Invalidated(le[p].st)]]
        BY <1>0, <2>1, <3>1 DEF InvalidateTo
      <4>2. Invalidated(le[p].st) \in {"invalid_clean", "invalid_dirty"}
        BY <1>0 DEF Invalidated, Entry, State
      <4>3. [le[p] EXCEPT !.st = Invalidated(le[p].st)].st = Invalidated(le[p].st)
        BY <1>0 DEF Entry
      <4>4. le'[p].st = Invalidated(le[p].st) /\ \A q \in Proc \ {p} : le'[q] = le[q]
        BY <4>1, <4>3, Unfolded
      <4> QED  BY <4>2, <4>4 DEF Readable, Invalid
    <3>2. CASE ~ (m > le[p].rts)
      <4>1. le' = le  BY <2>1, <3>2
      <4>2. first = Queued(le[p].rts)  BY <3>2 DEF first
      <4>3. le[p].rts >= MaxCut \/ le[p].rts \in BagToSet(rdSet'[p])
        BY <1>0, <2>6, <2>7, <4>2, QueuedFacts
      <4>4. le[p].rts >= minWr'[p] /\ le[p].rts <= le[p].rts
        BY <1>0, <1>2, <1>7, <3>2 DEF BiggerOf
      <4> QED  BY <1>0, <4>1, <4>3, <4>4
    <3> QED  BY <3>1, <3>2
  <2>10. NoPins' /\ ReadableIsQueued' /\ ExpiredIsInvalid'
    BY <1>2, <1>4, <2>7, <2>9, QueueKept
  <2> QED  BY <1>3, <2>8, <2>10 DEF ExpInv
<1> QED  BY <1>6, <1>7

\* The invariant of the read set.
LEMMA ExpiredStep ==
    ASSUME TsInv, ExpInv, "pin" \notin Usage, [Next]_vars
    PROVE  ExpInv'
<1>0. TsInv'  BY NextStep
<1>1. CASE UNCHANGED vars
  BY <1>1 DEF vars, ExpInv, MinsAreCuts, QueueTypeOK, NoPins, ReadableIsQueued, QueuedBy, ExpiredIsInvalid, Readable
<1>2. CASE Next
  <2>1. \A p \in Proc : ~ Compare(p)  BY NoHalfTx DEF ExpInv
  <2> QED  BY <1>0, <1>2, <2>1, LocalQueue, FenceQueue, ExchangeQueue, AcquireWnQueue, AcquireMinQueue DEF Next
<1> QED  BY <1>1, <1>2

LEMMA ExpiredInit == Init => ExpInv
<1> SUFFICES ASSUME Init PROVE ExpInv  OBVIOUS
<1>0. /\ 0 <= MaxCut /\ EmptySig.min = 0 /\ NothingToAcquire.min = 0 /\ NothingToAcquire.merge.min = 0
  BY BlockAssumption DEF EmptySig, NothingToAcquire
<1>1. MinsAreCuts  BY <1>0 DEF Init, MinsAreCuts
<1>2. QueueTypeOK  BY EmptyIsBag DEF Init, QueueTypeOK
<1>3. NoPins /\ ReadableIsQueued /\ ExpiredIsInvalid
  BY DEF Init, NoPins, ReadableIsQueued, ExpiredIsInvalid, Readable, Invalid
<1> QED  BY <1>1, <1>2, <1>3 DEF ExpInv

\* Without pinned blocks, self_invalidate reaches every copy whose lease has run
\* out, for every build option: a copy that can be read has a live lease.
THEOREM ExpiredIsInvalidHolds ==
    ASSUME "pin" \notin Usage
    PROVE  Spec => []ExpiredIsInvalid
<1>1. TsInv /\ ExpInv /\ [Next]_vars => ExpInv'  BY ExpiredStep
<1>2. ExpInv => ExpiredIsInvalid  BY DEF ExpInv
<1> QED  BY <1>1, <1>2, ExpiredInit, Invariance, PTL DEF Spec

----------------------------------------------------------------------------
(***************************************************************************)
(* Fresh reads, for the eager build without pinned blocks.  The published  *)
(* versions of the block are numbered by their write timestamps: D[n] is   *)
(* the content of the last version with a timestamp up to n.  The model    *)
(* does not keep D; the invariant says that there is one.                  *)
(***************************************************************************)

Data == [Cell -> Nat]

Geq(x, y) == \A c \in Cell : x[c] >= y[c]

\* The data a transaction reads: the public copy of the last writer.
Latest == pub[lad.lw]

\* Process p has changed cell c and not published it yet.
Diff(p, c) == Dirty(le[p].st) /\ priv[p][c] # pub[p][c]
Changed(p) == \E c \in Cell : Diff(p, c)

DataTypeOK ==
    /\ priv \in [Proc -> Data] /\ pub \in [Proc -> Data] /\ hb \in [Proc -> Data] /\ ver \in Data
    /\ mtx.hb \in Data /\ mtx.holder \in Proc \cup {NoProc}

\* Versions only add to their predecessors, and the last one is with its writer.
Contents(D) ==
    /\ D \in [Nat -> Data]
    /\ \A m, n \in Nat : m <= n => Geq(D[n], D[m])
    /\ \A n \in Nat : n >= lad.wts => D[n] = Latest
    /\ \A c \in Cell : D[0][c] = 0

\* No notice makes the last writer look elsewhere.
LastWriter == le[lad.lw].home = lad.lw /\ lad.wts <= le[lad.lw].rts

\* Nobody has newer data than the last writer, but for unpublished changes,
\* which are the newest of their cells.
Published == \A c \in Cell :
    /\ Latest[c] <= ver[c]
    /\ \A q \in Proc : /\ pub[q][c] <= Latest[c]
                       /\ ~ Diff(q, c) => priv[q][c] <= Latest[c]
                       /\ Diff(q, c) => priv[q][c] = ver[c] /\ Latest[c] < ver[c]

\* The home of a process has the versions that the process's lease names.
Homes(D) == \A p \in Proc :
    le[p].rts <= le[le[p].home].rts /\ Geq(pub[le[p].home], D[le[p].rts])

\* A copy that can be read, or that is its own home, has them itself.
Fetched(D) == \A p \in Proc :
    ~ Invalid(le[p].st) \/ le[p].home = p => Geq(priv[p], D[le[p].rts])

DataInv(D) == Contents(D) /\ LastWriter /\ Published /\ Homes(D) /\ Fetched(D)

\* Only the owner of a cell has changes of it.
MayWrite(q, c) == c = q \/ (c = Shared /\ mtx.holder = q)
Owned == \A q \in Proc, c \in Cell : Diff(q, c) => MayWrite(q, c)

\* What every step does to the versions, the leases and the copies.
DataStep(D, E) ==
    /\ \A n \in Nat : Geq(E[n], D[n]) /\ (n <= lad.rts => E[n] = D[n])
    /\ lad'.wts >= lad.wts
    /\ \A q \in Proc : /\ le'[q].rts >= le[q].rts
                       /\ pub'[q] = pub[q] \/ Geq(pub'[q], D[le[q].rts])
    /\ \A q \in Proc, c \in Cell : Diff(q, c) => Diff(q, c)' \/ E[le'[q].rts][c] >= ver[c]
    /\ \A c \in Cell :
        \/ Latest'[c] = Latest[c]
        \/ Latest'[c] = ver[c] /\ \E q \in Proc : Diff(q, c) /\ ~ Diff(q, c)' /\ E[le'[q].rts][c] = ver[c]
    /\ \A q \in Proc, c \in Cell : Diff(q, c)' => Diff(q, c) \/ ver'[c] # ver[c]

----------------------------------------------------------------------------
(* Facts about versions *)

\* No version has more than the last one.
LEMMA VersionFacts ==
    ASSUME TsInv, DataTypeOK, NEW D, Contents(D)
    PROVE  /\ \A n \in Nat : Geq(Latest, D[n])
           /\ \A n \in Nat, c \in Cell : D[n][c] \in Nat
           /\ Latest \in Data
<1>1. lad.wts \in Nat /\ lad.lw \in Proc  BY Unfolded DEF Lad
<1>2. Latest \in Data  BY <1>1 DEF DataTypeOK, Latest
<1>3. ASSUME NEW n \in Nat PROVE Geq(Latest, D[n])
  <2>1. PICK k \in Nat : k >= n /\ k >= lad.wts  BY <1>1
  <2>2. Geq(D[k], D[n]) /\ D[k] = Latest  BY <2>1 DEF Contents
  <2> QED  BY <2>2
<1>4. \A n \in Nat : D[n] \in Data  BY DEF Contents
<1> QED  BY <1>2, <1>3, <1>4 DEF Data

\* Types of single cells.
LEMMA CellFacts ==
    ASSUME DataTypeOK, NEW q \in Proc, NEW c \in Cell
    PROVE  priv[q][c] \in Nat /\ pub[q][c] \in Nat /\ hb[q][c] \in Nat /\ ver[c] \in Nat /\ mtx.hb[c] \in Nat
BY DEF DataTypeOK, Data

\* The comparison of copies is reflexive and transitive.
LEMMA GeqFacts ==
    ASSUME NEW x \in Data, NEW y \in Data, NEW z \in Data
    PROVE  Geq(x, x) /\ (Geq(x, y) /\ Geq(y, z) => Geq(x, z))
<1>1. \A c \in Cell : x[c] \in Nat /\ y[c] \in Nat /\ z[c] \in Nat  BY DEF Data
<1> QED  BY <1>1 DEF Geq

----------------------------------------------------------------------------
(* Data: one lemma per kind of step *)

\* A step that leaves the copies and the entries alone.
LEMMA QuietData ==
    ASSUME TsInv, DataTypeOK, NEW D, DataInv(D), UNCHANGED <<le, lad, priv, pub, ver>>
    PROVE  DataInv(D)' /\ DataStep(D, D)
<1>1. DataInv(D)'
  BY DEF DataInv, Contents, LastWriter, Published, Homes, Fetched, Latest, Diff
<1>2. \A q \in Proc : le[q].rts \in Nat  BY Unfolded
<1>3. lad.wts \in Nat  BY Unfolded
<1>4. \A n \in Nat : D[n] \in Data  BY DEF DataInv, Contents
<1>5. \A n \in Nat : Geq(D[n], D[n])  BY <1>4, GeqFacts
<1> QED  BY <1>1, <1>2, <1>3, <1>5 DEF DataStep, Diff, Latest

\* The application writes a cell it may write.
LEMMA WriteData ==
    ASSUME TsInv, DataTypeOK, NEW D, DataInv(D), Owned, NEW p \in Proc, NEW c \in Cell, Write(p, c)
    PROVE  /\ DataTypeOK' /\ DataInv(D)' /\ DataStep(D, D) /\ Owned'
           /\ Diff(p, c)' /\ ver'[c] = ver[c] + 1 /\ \A d \in Cell : ver'[d] >= ver[d]
           /\ \A q \in Proc, d \in Cell : ~ (q = p /\ d = c) => (Diff(q, d)' <=> Diff(q, d))
<1>1. /\ ver' = [ver EXCEPT ![c] = @ + 1] /\ priv' = [priv EXCEPT ![p][c] = ver'[c]]
      /\ hb' = [hb EXCEPT ![p][c] = ver'[c]] /\ UNCHANGED <<le, lad, pub, mtx>>
      /\ CanWrite(le[p].st) /\ MayWrite(p, c)
  BY DEF Write, MayWrite
<1>2. /\ \A d \in Cell : ver[d] \in Nat
      /\ \A q \in Proc, d \in Cell : priv[q][d] \in Nat /\ pub[q][d] \in Nat
  BY CellFacts
<1>3. ver'[c] = ver[c] + 1 /\ \A d \in Cell \ {c} : ver'[d] = ver[d]
  BY <1>1 DEF DataTypeOK, Data
<1>4. /\ priv'[p][c] = ver'[c]
      /\ \A q \in Proc, d \in Cell : ~ (q = p /\ d = c) => priv'[q][d] = priv[q][d]
  BY <1>1 DEF DataTypeOK, Data
<1>5. DataTypeOK'
  <2>1. ver' \in Data  BY <1>1, <1>2 DEF DataTypeOK, Data
  <2>2. ver'[c] \in Nat  BY <2>1 DEF Data
  <2>3. priv' \in [Proc -> Data] /\ hb' \in [Proc -> Data]  BY <1>1, <2>2 DEF DataTypeOK, Data
  <2> QED  BY <1>1, <2>1, <2>3 DEF DataTypeOK
<1>6. pub[p][c] <= Latest[c] /\ Latest[c] <= ver[c] /\ Latest[c] \in Nat
  BY VersionFacts DEF DataInv, Published, Data
<1>7. Diff(p, c)'
  BY <1>1, <1>2, <1>3, <1>4, <1>6 DEF Diff, CanWrite, Dirty
<1>8. \A q \in Proc, d \in Cell : ~ (q = p /\ d = c) => (Diff(q, d)' <=> Diff(q, d))
  BY <1>1, <1>4 DEF Diff
<1>9. \A q \in Proc : q # p => ~ Diff(q, c)
  BY <1>1, BlockAssumption DEF Owned, MayWrite
<1>10. Published'
  <2> SUFFICES ASSUME NEW d \in Cell, NEW q \in Proc
               PROVE  /\ Latest'[d] <= ver'[d]
                      /\ pub'[q][d] <= Latest'[d]
                      /\ ~ Diff(q, d)' => priv'[q][d] <= Latest'[d]
                      /\ Diff(q, d)' => priv'[q][d] = ver'[d] /\ Latest'[d] < ver'[d]
    BY DEF Published
  <2>1. Latest' = Latest  BY <1>1 DEF Latest
  <2>2. /\ Latest[d] <= ver[d] /\ pub[q][d] <= Latest[d]
        /\ ~ Diff(q, d) => priv[q][d] <= Latest[d]
        /\ Diff(q, d) => priv[q][d] = ver[d] /\ Latest[d] < ver[d]
    BY DEF DataInv, Published
  <2>3. CASE d # c  BY <1>1, <1>3, <1>4, <1>8, <2>1, <2>2, <2>3
  <2>4. CASE d = c /\ q = p  BY <1>1, <1>2, <1>3, <1>4, <1>6, <1>7, <2>1, <2>2, <2>4
  <2>5. CASE d = c /\ q # p  BY <1>1, <1>2, <1>3, <1>4, <1>6, <1>8, <1>9, <2>1, <2>2, <2>5
  <2> QED  BY <2>3, <2>4, <2>5
<1>11. Contents(D)' /\ LastWriter' /\ Homes(D)'
  BY <1>1 DEF DataInv, Contents, LastWriter, Homes, Latest
<1>12. Fetched(D)'
  <2> SUFFICES ASSUME NEW q \in Proc, ~ Invalid(le[q].st) \/ le[q].home = q, NEW d \in Cell
               PROVE  priv'[q][d] >= D[le[q].rts][d]
    BY <1>1 DEF Fetched, Geq
  <2>1. le[q].rts \in Nat  BY Unfolded
  <2>2. priv[q][d] >= D[le[q].rts][d]  BY DEF DataInv, Fetched, Geq
  <2>3. D[le[q].rts][d] \in Nat /\ D[le[q].rts][d] <= Latest[d]
    BY <2>1, VersionFacts DEF DataInv, Geq
  <2>4. CASE q = p /\ d = c  BY <1>2, <1>3, <1>4, <1>6, <2>3, <2>4
  <2>5. CASE ~ (q = p /\ d = c)  BY <1>4, <2>2, <2>5
  <2> QED  BY <2>4, <2>5
<1>13. DataStep(D, D)
  <2>1. lad.wts \in Nat /\ \A q \in Proc : le[q].rts \in Nat  BY Unfolded
  <2>2. \A n \in Nat : Geq(D[n], D[n])  BY GeqFacts DEF DataInv, Contents
  <2>3. Latest' = Latest  BY <1>1 DEF Latest
  <2>4. ver'[c] # ver[c]  BY <1>2, <1>3
  <2> QED  BY <1>1, <1>7, <1>8, <2>1, <2>2, <2>3, <2>4 DEF DataStep
<1>14. Owned'
  BY <1>1, <1>8 DEF Owned, MayWrite
<1>15. \A d \in Cell : ver'[d] >= ver[d]  BY <1>2, <1>3
<1> QED  BY <1>3, <1>5, <1>7, <1>8, <1>10, <1>11, <1>12, <1>13, <1>14, <1>15 DEF DataInv

\* A transaction of the eager build: the copy it leaves behind, at its process
\* and (when something was written) as the last version.
LEMMA TransactionCopies ==
    ASSUME TsInv, DataTypeOK, NEW D, DataInv(D), ~ LazyMerge, NEW p \in Proc, NEW min \in Nat,
           tx.by # p, NEW t, t = Transaction(p, le[p], min),
           NEW X, X = [c \in Cell |-> IF Diff(p, c) THEN ver[c] ELSE Latest[c]]
    PROVE  /\ t.priv = X /\ t.pub = X /\ X \in Data
           /\ t.le.home = p /\ t.le.rts = t.lad.rts
           /\ t.lad.lw = IF Changed(p) THEN p ELSE lad.lw
           /\ t.lad.wts \in Nat /\ t.lad.rts \in Nat /\ t.lad.rts >= lad.rts /\ t.lad.wts <= t.lad.rts
           /\ IF Changed(p) THEN t.lad.wts > lad.rts ELSE t.lad.wts = lad.wts
           /\ t.notice = IF Changed(p) THEN [home |-> p, rts |-> t.lad.rts, wts |-> t.lad.wts] ELSE NoNotice
<1> DEFINE written == Dirty(le[p].st) /\ priv[p] # pub[p]
           remote == lad.lw # p
           protected == \/ ~ CanWrite(le[p].st)
                        \/ le[p].st = "writable" /\ (remote \/ le[p].wrCount >= WrCountThreshold)
           latest == LatestMin(p, le[p], min)
           ts == MakeNewTs(latest, written, lad)
           w == IF written THEN NewWrTs(latest, lad.rts) ELSE lad.wts
           merged == IF written THEN Merged(Latest, priv[p], pub[p]) ELSE Latest
<1>0. /\ le[p] \in Entry /\ lad.wts \in Nat /\ lad.rts \in Nat /\ lad.lw \in Proc /\ latest \in Nat
      /\ le[lad.lw].rts \in Nat /\ le[lad.lw].rts <= lad.rts /\ Lease \in Nat
  BY Unfolded, BlockAssumption DEF Lad, LatestMin
<1>1. /\ t.le = [home |-> p, rts |-> ts.rts,
                 st |-> IF protected THEN "readonly_clean" ELSE le[p].st,
                 last |-> FastRelease /\ ~ remote /\ written,
                 wrCount |-> NewWrCount(le[p], protected, written),
                 fthr |-> NewFastRelThreshold(le[p], protected, written), fcnt |-> 0]
      /\ t.lad = [lw |-> IF written THEN p ELSE lad.lw, wts |-> ts.wts, rts |-> ts.rts]
      /\ t.notice = IF written THEN [home |-> p, rts |-> ts.rts, wts |-> ts.wts] ELSE NoNotice
      /\ t.still = ~ protected
      /\ t.priv = IF remote THEN merged ELSE priv[p]
      /\ t.pub = IF remote THEN merged ELSE IF written THEN priv[p] ELSE pub[p]
  BY DEF Transaction, BeginTransaction, ReleaseMerge, EndTransaction, Exported, Latest
<1>2. priv[p] \in Data /\ pub[p] \in Data /\ Latest \in Data /\ ver \in Data
  BY VersionFacts DEF DataTypeOK, DataInv
<1>3. X \in Data  BY <1>2 DEF Data
<1>4. written = Changed(p)
  <2>1. priv[p] # pub[p] <=> \E c \in Cell : priv[p][c] # pub[p][c]  BY <1>2 DEF Data
  <2> QED  BY <2>1 DEF Diff, Changed
<1>5. \A c \in Cell : Diff(p, c) => priv[p][c] = ver[c]  BY DEF DataInv, Published
<1>6. merged = X
  <2>1. CASE written
    <3>1. Dirty(le[p].st)  BY <2>1
    <3>2. merged = [c \in Cell |-> IF priv[p][c] = pub[p][c] THEN Latest[c] ELSE priv[p][c]]
      BY <2>1 DEF Merged
    <3> QED  BY <1>5, <3>1, <3>2 DEF Diff
  <2>2. CASE ~ written
    <3>1. X = [c \in Cell |-> Latest[c]]  BY <1>4, <2>2 DEF Changed
    <3> QED  BY <1>2, <2>2, <3>1 DEF Data
  <2> QED  BY <2>1, <2>2
<1>7. ASSUME ~ remote PROVE priv[p] = X /\ pub[p] = Latest
  <2>1. pub[p] = Latest  BY <1>7 DEF Latest
  <2>2. ASSUME NEW c \in Cell PROVE priv[p][c] = X[c]
    <3>1. CASE Diff(p, c)  BY <1>5, <3>1
    <3>2. CASE ~ Diff(p, c)
      <4>1. priv[p][c] <= Latest[c]  BY <3>2 DEF DataInv, Published
      <4>2. le[p].home = p /\ lad.wts <= le[p].rts /\ le[p].rts \in Nat
        BY <1>0, <1>7 DEF DataInv, LastWriter
      <4>3. D[le[p].rts] = Latest  BY <4>2 DEF DataInv, Contents
      <4>4. priv[p][c] >= Latest[c]  BY <4>2, <4>3 DEF DataInv, Fetched, Geq
      <4>5. priv[p][c] \in Nat /\ Latest[c] \in Nat  BY <1>2 DEF Data
      <4> QED  BY <3>2, <4>1, <4>4, <4>5
    <3> QED  BY <3>1, <3>2
  <2>3. priv[p] = X  BY <1>2, <1>3, <2>2 DEF Data
  <2> QED  BY <2>1, <2>3
<1>8. ~ written => X = Latest
  <2>1. ~ written => X = [c \in Cell |-> Latest[c]]  BY <1>4 DEF Changed
  <2> QED  BY <1>2, <2>1 DEF Data
<1>9. t.priv = X /\ t.pub = X
  <2>1. CASE remote  BY <1>1, <1>6, <2>1
  <2>2. CASE ~ remote
    <3> HIDE DEF remote, merged
    <3> QED  BY <1>1, <1>7, <1>8, <2>2
  <2> QED  BY <2>1, <2>2
<1>10. ts.wts = w /\ ts.rts = NewRdTs(latest, w, lad.rts)  BY DEF MakeNewTs
<1>11. w \in Nat /\ (IF written THEN w > lad.rts ELSE w = lad.wts)
  <2> HIDE DEF latest
  <2> QED  BY <1>0 DEF NewWrTs, BiggerOf
<1>12. NewRdTs(latest, w, lad.rts) \in Nat /\ NewRdTs(latest, w, lad.rts) >= lad.rts /\ NewRdTs(latest, w, lad.rts) >= w
  <2> HIDE DEF w, latest
  <2> QED  BY <1>0, <1>11 DEF NewRdTs, BiggerOf
<1> HIDE DEF ts, w, latest
<1>13. /\ t.lad.wts = w /\ t.lad.rts = ts.rts /\ t.lad.lw = IF written THEN p ELSE lad.lw
       /\ t.le.home = p /\ t.le.rts = ts.rts /\ t.le.st = IF protected THEN "readonly_clean" ELSE le[p].st
  BY <1>1, <1>10
<1> HIDE DEF protected, merged, remote, written
<1> QED  BY <1>1, <1>3, <1>4, <1>9, <1>10, <1>11, <1>12, <1>13

\* A transaction leaves its copy clean, or as it was.
LEMMA TransactionState ==
    ASSUME NEW p \in Proc, NEW min, NEW t, t = Transaction(p, le[p], min)
    PROVE  t.le.st \in {"readonly_clean", le[p].st} /\ (t.le.st # "readonly_clean" => t.still)
BY ZenonT(60) DEF Transaction, BeginTransaction, ReleaseMerge, EndTransaction

\* No two processes have changes of the same cell.
LEMMA OneOwner ==
    ASSUME Owned, NEW p \in Proc, NEW q \in Proc, NEW c \in Cell, Diff(p, c), Diff(q, c)
    PROVE  p = q
BY BlockAssumption DEF Owned, MayWrite

\* A transaction publishes the changes of its process as the next version.
LEMMA TransactionData ==
    ASSUME TsInv, DataTypeOK, NEW D, DataInv(D), Owned, ~ LazyMerge, NEW p \in Proc, NEW min \in Nat,
           tx.by # p, NEW t, t = Transaction(p, le[p], min), DoTransaction(p, t), ver' = ver
    PROVE  \E E : /\ priv' \in [Proc -> Data] /\ pub' \in [Proc -> Data]
                  /\ DataInv(E)' /\ DataStep(D, E)
                  /\ \A q \in Proc, c \in Cell : Diff(q, c)' <=> q # p /\ Diff(q, c)
                  /\ ~ Changed(p) => E = D
                  /\ \A c \in Cell : Diff(p, c) => ver[c] <= E[t.notice.wts][c]
                  /\ t.notice.wts <= t.notice.rts /\ t.notice.wts <= lad'.wts
                  /\ t.notice = NoNotice \/ /\ t.notice.home = p /\ t.notice.rts <= le'[p].rts
                                            /\ Geq(pub'[p], E[t.notice.rts])
<1> DEFINE w == t.lad.wts
           r == t.lad.rts
<1>x. PICK X : X = [c \in Cell |-> IF Diff(p, c) THEN ver[c] ELSE Latest[c]]  OBVIOUS
<1>e. PICK E : E = [n \in Nat |-> IF n >= w THEN X ELSE D[n]]  OBVIOUS
<1>1. /\ t.priv = X /\ t.pub = X /\ X \in Data
      /\ t.le.home = p /\ t.le.rts = r
      /\ t.lad.lw = IF Changed(p) THEN p ELSE lad.lw
      /\ w \in Nat /\ r \in Nat /\ r >= lad.rts /\ w <= r
      /\ IF Changed(p) THEN w > lad.rts ELSE w = lad.wts
      /\ t.notice = IF Changed(p) THEN [home |-> p, rts |-> r, wts |-> w] ELSE NoNotice
  BY <1>x, TransactionCopies
<1>2. /\ le' = [le EXCEPT ![p] = t.le] /\ priv' = [priv EXCEPT ![p] = t.priv] /\ lad' = t.lad
      /\ pub' = [q \in Proc |-> IF q = p THEN t.pub ELSE pub[q]]
  BY DEF DoTransaction
<1>3. /\ \A q \in Proc : le[q].rts \in Nat /\ le[q].rts <= lad.rts
      /\ lad.rts \in Nat /\ lad.wts \in Nat /\ lad.lw \in Proc /\ lad.wts <= lad.rts
  <2>1. /\ \A q \in Proc : le[q].rts \in Nat /\ le[q].rts <= lad.rts
        /\ lad.rts \in Nat /\ lad.wts \in Nat /\ lad.lw \in Proc
    BY Unfolded DEF Lad
  <2> QED  BY <2>1 DEF DataInv, LastWriter
<1>4. /\ le'[p] = t.le /\ priv'[p] = X /\ pub'[p] = X
      /\ \A q \in Proc \ {p} : le'[q] = le[q] /\ priv'[q] = priv[q] /\ pub'[q] = pub[q]
  BY <1>1, <1>2, Unfolded DEF DataTypeOK
<1>5. priv' \in [Proc -> Data] /\ pub' \in [Proc -> Data]
  BY <1>1, <1>2 DEF DataTypeOK
<1>6. /\ \A c \in Cell : X[c] = IF Diff(p, c) THEN ver[c] ELSE Latest[c]
      /\ \A n \in Nat : E[n] = IF n >= w THEN X ELSE D[n]
      /\ DOMAIN E = Nat
  BY <1>x, <1>e
<1>7. /\ \A n \in Nat : D[n] \in Data /\ Geq(Latest, D[n]) /\ Geq(D[n], D[n])
      /\ \A c \in Cell : Latest[c] \in Nat /\ ver[c] \in Nat /\ X[c] \in Nat /\ Latest[c] <= ver[c]
      /\ Latest \in Data /\ Contents(D)
  <2>1. Contents(D) /\ Latest \in Data /\ \A n \in Nat : Geq(Latest, D[n])
    BY VersionFacts DEF DataInv
  <2>2. \A n \in Nat : D[n] \in Data  BY <2>1 DEF Contents
  <2>3. \A n \in Nat : Geq(D[n], D[n])  BY <2>2, GeqFacts
  <2>4. \A c \in Cell : Latest[c] \in Nat /\ X[c] \in Nat  BY <1>1, <2>1 DEF Data
  <2>5. \A c \in Cell : ver[c] \in Nat  BY DEF DataTypeOK, Data
  <2>6. \A c \in Cell : Latest[c] <= ver[c]  BY DEF DataInv, Published
  <2> QED  BY <2>1, <2>2, <2>3, <2>4, <2>5, <2>6
<1>8. E \in [Nat -> Data]  BY <1>1, <1>7, <1>e
<1> HIDE DEF w, r
<1>9. Geq(X, Latest) /\ Geq(X, X)  BY <1>6, <1>7 DEF Geq
<1>10. ~ Changed(p) => X = Latest /\ E = D
  <2>1. ASSUME ~ Changed(p) PROVE X = Latest
    BY <1>1, <1>6, <1>7, <2>1 DEF Data, Changed
  <2>2. ASSUME ~ Changed(p), NEW n \in Nat PROVE E[n] = D[n]
    <3>1. CASE n >= w  BY <1>1, <1>6, <1>7, <2>1, <2>2, <3>1 DEF Contents
    <3>2. CASE ~ (n >= w)  BY <1>6, <3>2
    <3> QED  BY <3>1, <3>2
  <2>3. D \in [Nat -> Data]  BY <1>7 DEF Contents
  <2> QED  BY <1>8, <2>1, <2>2, <2>3
<1>11. \A n \in Nat : Geq(X, D[n])
  <2> SUFFICES ASSUME NEW n \in Nat PROVE Geq(X, D[n])  OBVIOUS
  <2> QED  BY <1>1, <1>7, <1>9, GeqFacts
<1>12. \A n \in Nat : Geq(X, E[n]) /\ Geq(E[n], D[n])
  BY <1>6, <1>7, <1>9, <1>11
<1>13. \A n \in Nat : n <= lad.rts => E[n] = D[n]
  <2>1. CASE Changed(p)  BY <1>1, <1>3, <1>6, <2>1
  <2>2. CASE ~ Changed(p)  BY <1>10, <2>2
  <2> QED  BY <2>1, <2>2
<1>14. Latest' = X
  <2>1. CASE Changed(p)  BY <1>1, <1>2, <1>4, <2>1 DEF Latest
  <2>2. CASE ~ Changed(p)
    <3>1. lad'.lw = lad.lw  BY <1>1, <1>2, <2>2
    <3>2. CASE lad.lw = p  BY <1>4, <3>1, <3>2 DEF Latest
    <3>3. CASE lad.lw # p
      <4>1. pub'[lad.lw] = pub[lad.lw]  BY <1>3, <1>4, <3>3
      <4> QED  BY <1>10, <2>2, <3>1, <4>1 DEF Latest
    <3> QED  BY <3>2, <3>3
  <2> QED  BY <2>1, <2>2
<1>15. Contents(E)'
  <2>1. \A m, n \in Nat : m <= n => Geq(E[n], E[m])
    <3> SUFFICES ASSUME NEW m \in Nat, NEW n \in Nat, m <= n PROVE Geq(E[n], E[m])  OBVIOUS
    <3>1. CASE n >= w  BY <1>6, <1>12, <3>1
    <3>2. CASE ~ (n >= w)
      <4>1. ~ (m >= w)  BY <1>1, <3>2
      <4> QED  BY <1>6, <1>7, <3>2, <4>1 DEF Contents
    <3> QED  BY <3>1, <3>2
  <2>2. \A n \in Nat : n >= lad'.wts => E[n] = Latest'
    BY <1>2, <1>6, <1>14 DEF w
  <2>3. E[0] = D[0]  BY <1>3, <1>13
  <2> QED  BY <1>7, <1>8, <2>1, <2>2, <2>3 DEF Contents
<1>16. LastWriter'
  <2>1. CASE lad'.lw = p
    BY <1>1, <1>2, <1>4, <2>1 DEF LastWriter, w, r
  <2>2. CASE lad'.lw # p
    <3>1. ~ Changed(p) /\ lad'.lw = lad.lw /\ lad'.wts = lad.wts  BY <1>1, <1>2, <2>2 DEF w
    <3>2. le'[lad.lw] = le[lad.lw]  BY <1>3, <1>4, <2>2, <3>1
    <3> QED  BY <3>1, <3>2 DEF DataInv, LastWriter
  <2> QED  BY <2>1, <2>2
<1>17. \A q \in Proc, c \in Cell : Diff(q, c)' <=> q # p /\ Diff(q, c)
  BY <1>4 DEF Diff
<1>18. Published'
  <2> SUFFICES ASSUME NEW c \in Cell, NEW q \in Proc
               PROVE  /\ Latest'[c] <= ver'[c]
                      /\ pub'[q][c] <= Latest'[c]
                      /\ ~ Diff(q, c)' => priv'[q][c] <= Latest'[c]
                      /\ Diff(q, c)' => priv'[q][c] = ver'[c] /\ Latest'[c] < ver'[c]
    BY DEF Published
  <2>1. /\ pub[q][c] <= Latest[c]
        /\ ~ Diff(q, c) => priv[q][c] <= Latest[c]
        /\ Diff(q, c) => priv[q][c] = ver[c] /\ Latest[c] < ver[c]
    BY DEF DataInv, Published
  <2>2. pub[q][c] \in Nat /\ priv[q][c] \in Nat  BY CellFacts
  <2>3. X[c] <= ver[c] /\ Latest[c] <= X[c]  BY <1>6, <1>7
  <2>4. CASE q = p  BY <1>4, <1>7, <1>14, <1>17, <2>3, <2>4
  <2>5. CASE q # p
    <3>1. Diff(q, c) => X[c] = Latest[c]  BY <1>6, <2>5, OneOwner
    <3> QED  BY <1>4, <1>7, <1>14, <1>17, <2>1, <2>2, <2>3, <2>5, <3>1
  <2> QED  BY <2>4, <2>5
<1>19. Homes(E)'
  <2> SUFFICES ASSUME NEW q \in Proc
               PROVE  le'[q].rts <= le'[le'[q].home].rts /\ Geq(pub'[le'[q].home], E[le'[q].rts])
    BY DEF Homes
  <2>1. CASE q = p  BY <1>1, <1>4, <1>12, <2>1
  <2>2. CASE q # p
    <3>1. le'[q] = le[q] /\ le[q].home \in Proc /\ E[le[q].rts] = D[le[q].rts]
      BY <1>3, <1>4, <1>13, <2>2, Unfolded DEF Entry
    <3>2. le[q].rts <= le[le[q].home].rts /\ Geq(pub[le[q].home], D[le[q].rts])
      BY DEF DataInv, Homes
    <3>3. CASE le[q].home = p
      <4>1. le[q].rts <= r  BY <1>1, <1>3
      <4> QED  BY <1>1, <1>3, <1>4, <1>11, <3>1, <3>3, <4>1
    <3>4. CASE le[q].home # p  BY <1>4, <3>1, <3>2, <3>4
    <3> QED  BY <3>3, <3>4
  <2> QED  BY <2>1, <2>2
<1>20. Fetched(E)'
  <2> SUFFICES ASSUME NEW q \in Proc, ~ Invalid(le'[q].st) \/ le'[q].home = q
               PROVE  Geq(priv'[q], E[le'[q].rts])
    BY DEF Fetched
  <2>1. CASE q = p  BY <1>1, <1>4, <1>12, <2>1
  <2>2. CASE q # p  BY <1>3, <1>4, <1>13, <2>2 DEF DataInv, Fetched
  <2> QED  BY <2>1, <2>2
<1>21. DataStep(D, E)
  <2>1. lad'.wts >= lad.wts  BY <1>1, <1>2, <1>3 DEF w
  <2>2. ASSUME NEW q \in Proc
        PROVE  le'[q].rts >= le[q].rts /\ (pub'[q] = pub[q] \/ Geq(pub'[q], D[le[q].rts]))
    <3>1. CASE q = p  BY <1>1, <1>3, <1>4, <1>11, <3>1
    <3>2. CASE q # p  BY <1>3, <1>4, <3>2
    <3> QED  BY <3>1, <3>2
  <2>3. ASSUME NEW q \in Proc, NEW c \in Cell, Diff(q, c)
        PROVE  Diff(q, c)' \/ E[le'[q].rts][c] >= ver[c]
    <3>1. CASE q = p  BY <1>1, <1>4, <1>6, <1>7, <2>3, <3>1
    <3>2. CASE q # p  BY <1>17, <2>3, <3>2
    <3> QED  BY <3>1, <3>2
  <2>4. ASSUME NEW c \in Cell
        PROVE  \/ Latest'[c] = Latest[c]
               \/ /\ Latest'[c] = ver[c]
                  /\ \E q \in Proc : Diff(q, c) /\ ~ Diff(q, c)' /\ E[le'[q].rts][c] = ver[c]
    <3>1. CASE Diff(p, c)
      <4>1. Latest'[c] = ver[c] /\ ~ Diff(p, c)'  BY <1>6, <1>14, <1>17, <3>1
      <4>2. E[le'[p].rts][c] = ver[c]  BY <1>1, <1>4, <1>6, <3>1
      <4> QED  BY <3>1, <4>1, <4>2
    <3>2. CASE ~ Diff(p, c)  BY <1>6, <1>14, <3>2
    <3> QED  BY <3>1, <3>2
  <2> QED  BY <1>12, <1>13, <1>17, <2>1, <2>2, <2>3, <2>4 DEF DataStep
<1>22. /\ \A c \in Cell : Diff(p, c) => ver[c] <= E[t.notice.wts][c]
       /\ t.notice.wts <= t.notice.rts /\ t.notice.wts <= lad'.wts
       /\ t.notice = NoNotice \/ /\ t.notice.home = p /\ t.notice.rts <= le'[p].rts
                                 /\ Geq(pub'[p], E[t.notice.rts])
  <2>1. CASE Changed(p)
    <3>1. t.notice.home = p /\ t.notice.rts = r /\ t.notice.wts = w /\ t.notice = [home |-> p, rts |-> r, wts |-> w]
      BY <1>1, <2>1
    <3>2. \A c \in Cell : Diff(p, c) => ver[c] <= E[w][c]  BY <1>1, <1>6, <1>7
    <3>3. Geq(pub'[p], E[r])  BY <1>1, <1>4, <1>12
    <3>4. w <= lad'.wts /\ r <= le'[p].rts /\ w <= r  BY <1>1, <1>2, <1>4 DEF w
    <3> QED  BY <3>1, <3>2, <3>3, <3>4
  <2>2. CASE ~ Changed(p)
    <3>1. t.notice = NoNotice /\ NoNotice.wts = 0 /\ NoNotice.rts = 0  BY <1>1, <2>2 DEF NoNotice
    <3>2. 0 <= lad'.wts  BY <1>1, <1>2 DEF w
    <3> QED  BY <2>2, <3>1, <3>2 DEF Changed
  <2> QED  BY <2>1, <2>2
<1>23. ~ Changed(p) => E = D  BY <1>10
<1>24. DataInv(E)'  BY <1>15, <1>16, <1>18, <1>19, <1>20 DEF DataInv
<1> QED  BY <1>5, <1>17, <1>21, <1>22, <1>23, <1>24

\* A step that changes the copies and the state of one process, but not its
\* lease, its home or its unpublished changes.
LEMMA CopyData ==
    ASSUME TsInv, DataTypeOK, NEW D, DataInv(D), NEW p \in Proc, UNCHANGED <<lad, ver>>,
           \A q \in Proc \ {p} : le'[q] = le[q] /\ priv'[q] = priv[q] /\ pub'[q] = pub[q],
           le'[p].rts = le[p].rts, le'[p].home = le[p].home,
           \A c \in Cell : Diff(p, c)' <=> Diff(p, c),
           \A c \in Cell : /\ pub'[p][c] <= Latest[c]
                           /\ IF Diff(p, c) THEN priv'[p][c] = priv[p][c] ELSE priv'[p][c] <= Latest[c],
           lad.lw = p => pub'[p] = pub[p],
           pub'[p] = pub[p] \/ Geq(pub'[p], D[le[p].rts]),
           ~ Invalid(le'[p].st) \/ le[p].home = p => Geq(priv'[p], D[le[p].rts]),
           pub'[p] \in Data
    PROVE  DataInv(D)' /\ DataStep(D, D) /\ \A q \in Proc, c \in Cell : Diff(q, c)' <=> Diff(q, c)
<1>1. \A q \in Proc, c \in Cell : Diff(q, c)' <=> Diff(q, c)
  <2> SUFFICES ASSUME NEW q \in Proc, NEW c \in Cell PROVE Diff(q, c)' <=> Diff(q, c)  OBVIOUS
  <2>1. CASE q = p  BY <2>1
  <2>2. CASE q # p  BY <2>2 DEF Diff
  <2> QED  BY <2>1, <2>2
<1>2. lad.lw \in Proc /\ Contents(D) /\ lad.wts \in Nat /\ \A q \in Proc : le[q].rts \in Nat /\ le[q].home \in Proc
  BY Unfolded DEF Lad, DataInv, Entry
<1>3. Latest' = Latest
  <2>1. pub'[lad.lw] = pub[lad.lw]  BY <1>2
  <2> QED  BY <2>1 DEF Latest
<1>4. Contents(D)'  BY <1>2, <1>3 DEF Contents
<1>5. LastWriter'
  <2>1. le'[lad.lw].home = le[lad.lw].home /\ le'[lad.lw].rts = le[lad.lw].rts  BY <1>2
  <2> QED  BY <2>1 DEF DataInv, LastWriter
<1>6. Published'
  <2> SUFFICES ASSUME NEW c \in Cell, NEW q \in Proc
               PROVE  /\ Latest'[c] <= ver'[c]
                      /\ pub'[q][c] <= Latest'[c]
                      /\ ~ Diff(q, c)' => priv'[q][c] <= Latest'[c]
                      /\ Diff(q, c)' => priv'[q][c] = ver'[c] /\ Latest'[c] < ver'[c]
    BY DEF Published
  <2>1. /\ Latest[c] <= ver[c] /\ pub[q][c] <= Latest[c]
        /\ ~ Diff(q, c) => priv[q][c] <= Latest[c]
        /\ Diff(q, c) => priv[q][c] = ver[c] /\ Latest[c] < ver[c]
    BY DEF DataInv, Published
  <2>2. CASE q = p  BY <1>1, <1>3, <2>1, <2>2
  <2>3. CASE q # p  BY <1>1, <1>3, <2>1, <2>3
  <2> QED  BY <2>2, <2>3
<1>7. \A q \in Proc : le'[q].rts = le[q].rts /\ le'[q].home = le[q].home
  OBVIOUS
<1>8. \A n \in Nat : D[n] \in Data  BY <1>2 DEF Contents
<1>9. Homes(D)'
  <2> SUFFICES ASSUME NEW q \in Proc
               PROVE  le'[q].rts <= le'[le'[q].home].rts /\ Geq(pub'[le'[q].home], D[le'[q].rts])
    BY DEF Homes
  <2> DEFINE h == le[q].home
  <2>1. h \in Proc /\ le[q].rts <= le[h].rts /\ Geq(pub[h], D[le[q].rts])
    BY <1>2 DEF DataInv, Homes
  <2>2. Geq(pub'[h], D[le[q].rts])
    <3>1. CASE pub'[h] = pub[h]  BY <2>1, <3>1
    <3>2. CASE pub'[h] # pub[h]
      <4>1. h = p /\ Geq(pub'[p], D[le[p].rts])  BY <2>1, <3>2
      <4>2. Geq(D[le[p].rts], D[le[q].rts])  BY <1>2, <2>1, <4>1 DEF Contents
      <4> QED  BY <1>2, <1>8, <4>1, <4>2, GeqFacts
    <3> QED  BY <3>1, <3>2
  <2> QED  BY <1>7, <2>1, <2>2
<1>10. Fetched(D)'
  <2> SUFFICES ASSUME NEW q \in Proc, ~ Invalid(le'[q].st) \/ le'[q].home = q
               PROVE  Geq(priv'[q], D[le'[q].rts])
    BY DEF Fetched
  <2>1. CASE q = p  BY <2>1
  <2>2. CASE q # p  BY <2>2 DEF DataInv, Fetched
  <2> QED  BY <2>1, <2>2
<1>11. DataStep(D, D)
  <2>1. \A n \in Nat : Geq(D[n], D[n])  BY <1>8, GeqFacts
  <2>2. \A q \in Proc : le'[q].rts >= le[q].rts /\ (pub'[q] = pub[q] \/ Geq(pub'[q], D[le[q].rts]))
    <3> SUFFICES ASSUME NEW q \in Proc
                 PROVE  le'[q].rts >= le[q].rts /\ (pub'[q] = pub[q] \/ Geq(pub'[q], D[le[q].rts]))
      OBVIOUS
    <3>1. CASE q = p  BY <1>2, <1>7, <3>1
    <3>2. CASE q # p  BY <1>2, <1>7, <3>2
    <3> QED  BY <3>1, <3>2
  <2>3. lad'.wts >= lad.wts  BY <1>2
  <2> QED  BY <1>1, <1>3, <2>1, <2>2, <2>3 DEF DataStep
<1> QED  BY <1>1, <1>4, <1>5, <1>6, <1>9, <1>10, <1>11 DEF DataInv

\* A read fault that reads the home.
LEMMA ReadHomeData ==
    ASSUME TsInv, DataTypeOK, NEW D, DataInv(D), ~ LazyMerge, NEW p \in Proc, StartRead(p),
           ~ (minWr[p] > le[p].rts)
    PROVE  /\ priv' \in [Proc -> Data] /\ pub' \in [Proc -> Data]
           /\ DataInv(D)' /\ DataStep(D, D) /\ \A q \in Proc, c \in Cell : Diff(q, c)' <=> Diff(q, c)
           /\ Dirty(le'[p].st) <=> Dirty(le[p].st)
<1> DEFINE h == le[p].home
           st == IF le[p].st = "invalid_dirty" THEN "readonly_dirty" ELSE "readonly_clean"
           other == pub[h]
<1>1. /\ le' = [le EXCEPT ![p].st = st] /\ Invalid(le[p].st) /\ UNCHANGED <<lad, ver>>
      /\ IF h = p THEN UNCHANGED <<priv, pub>>
         ELSE IF le[p].st = "invalid_dirty"
         THEN /\ priv' = [priv EXCEPT ![p] = Merged(other, priv[p], pub[p])]
              /\ pub' = [pub EXCEPT ![p] = other]
         ELSE priv' = [priv EXCEPT ![p] = other] /\ UNCHANGED pub
  BY DEF StartRead, Exported
<1>2. le[p] \in Entry /\ h \in Proc /\ le[p].rts \in Nat  BY Unfolded DEF Entry
<1>3. /\ \A q \in Proc \ {p} : le'[q] = le[q]
      /\ le'[p].st = st /\ le'[p].rts = le[p].rts /\ le'[p].home = h
  BY <1>1, <1>2, Unfolded DEF Entry
<1>4. (Dirty(st) <=> Dirty(le[p].st)) /\ ~ Invalid(st)
  BY <1>1 DEF Dirty, Invalid
<1>5. priv[p] \in Data /\ pub[p] \in Data /\ other \in Data  BY <1>2 DEF DataTypeOK
<1>6. /\ \A c \in Cell : priv[p][c] \in Nat /\ pub[p][c] \in Nat /\ other[c] \in Nat /\ ver[c] \in Nat
      /\ \A c \in Cell : Latest[c] \in Nat /\ D[le[p].rts][c] \in Nat /\ Latest[c] >= D[le[p].rts][c]
  <2>1. \A c \in Cell : Latest[c] \in Nat /\ D[le[p].rts][c] \in Nat /\ Latest[c] >= D[le[p].rts][c]
    BY <1>2, VersionFacts DEF DataInv, Geq, Data
  <2>2. \A c \in Cell : ver[c] \in Nat  BY DEF DataTypeOK, Data
  <2> QED  BY <1>5, <2>1, <2>2 DEF Data
<1>7. /\ Geq(other, D[le[p].rts])
      /\ \A c \in Cell : other[c] <= Latest[c] /\ pub[p][c] <= Latest[c]
      /\ \A c \in Cell : IF Diff(p, c) THEN priv[p][c] = ver[c] /\ Latest[c] < ver[c]
                                       ELSE priv[p][c] <= Latest[c]
  BY <1>2 DEF DataInv, Homes, Published
<1>8. lad.lw = p => h = p  BY DEF DataInv, LastWriter
<1>9. CASE h = p
  <2>1. \A c \in Cell : Diff(p, c)' <=> Diff(p, c)  BY <1>1, <1>3, <1>4, <1>9 DEF Diff
  <2>2. priv' = priv /\ pub' = pub  BY <1>1, <1>9
  <2>3. Geq(priv[p], D[le[p].rts])  BY <1>9 DEF DataInv, Fetched
  <2> HIDE DEF h
  <2>4. DataInv(D)' /\ DataStep(D, D) /\ \A q \in Proc, c \in Cell : Diff(q, c)' <=> Diff(q, c)
    BY <1>1, <1>3, <1>5, <1>7, <1>8, <2>1, <2>2, <2>3, CopyData DEF h
  <2> QED  BY <1>3, <1>4, <2>2, <2>4 DEF DataTypeOK
<1>10. CASE h # p /\ le[p].st = "invalid_dirty"
  <2> DEFINE m == Merged(other, priv[p], pub[p])
  <2>1. \A c \in Cell : m[c] = IF priv[p][c] = pub[p][c] THEN other[c] ELSE priv[p][c]
    BY DEF Merged
  <2>2. m \in Data  BY <1>5 DEF Merged, Data
  <2>3. priv' = [priv EXCEPT ![p] = m] /\ pub' = [pub EXCEPT ![p] = other]  BY <1>1, <1>10
  <2> HIDE DEF m, other, h
  <2>4. /\ priv'[p] = m /\ pub'[p] = other
        /\ \A q \in Proc \ {p} : priv'[q] = priv[q] /\ pub'[q] = pub[q]
        /\ priv' \in [Proc -> Data] /\ pub' \in [Proc -> Data]
    BY <1>5, <2>2, <2>3 DEF DataTypeOK
  <2>5. Dirty(le[p].st)  BY <1>10 DEF Dirty
  <2>6. \A c \in Cell : Diff(p, c) <=> priv[p][c] # pub[p][c]  BY <2>5 DEF Diff
  <2>7. \A c \in Cell : Diff(p, c)' <=> m[c] # other[c]  BY <1>3, <1>4, <2>4, <2>5 DEF Diff
  <2>8. \A c \in Cell : Diff(p, c)' <=> Diff(p, c)  BY <1>6, <1>7, <2>1, <2>6, <2>7
  <2>9. \A c \in Cell : IF Diff(p, c) THEN m[c] = priv[p][c] ELSE m[c] <= Latest[c]
    BY <1>7, <2>1, <2>6
  <2>10. Geq(m, D[le[p].rts])
    <3> SUFFICES ASSUME NEW c \in Cell PROVE m[c] >= D[le[p].rts][c]  BY DEF Geq
    <3>1. CASE Diff(p, c)  BY <1>6, <1>7, <2>1, <2>6, <3>1
    <3>2. CASE ~ Diff(p, c)  BY <1>7, <2>1, <2>6, <3>2 DEF Geq
    <3> QED  BY <3>1, <3>2
  <2>11. DataInv(D)' /\ DataStep(D, D) /\ \A q \in Proc, c \in Cell : Diff(q, c)' <=> Diff(q, c)
    BY <1>1, <1>3, <1>5, <1>7, <1>8, <1>10, <2>4, <2>8, <2>9, <2>10, CopyData DEF h
  <2> QED  BY <1>3, <1>4, <2>4, <2>11
<1>11. CASE h # p /\ le[p].st # "invalid_dirty"
  <2>1. priv' = [priv EXCEPT ![p] = other] /\ pub' = pub  BY <1>1, <1>11
  <2> HIDE DEF other, h
  <2>2. /\ priv'[p] = other /\ pub'[p] = pub[p]
        /\ \A q \in Proc \ {p} : priv'[q] = priv[q] /\ pub'[q] = pub[q]
        /\ priv' \in [Proc -> Data] /\ pub' \in [Proc -> Data]
    BY <1>5, <2>1 DEF DataTypeOK
  <2>3. ~ Dirty(le[p].st)  BY <1>1, <1>11 DEF Dirty, Invalid
  <2>4. \A c \in Cell : ~ Diff(p, c) /\ ~ Diff(p, c)'  BY <1>3, <1>4, <2>3 DEF Diff
  <2>5. DataInv(D)' /\ DataStep(D, D) /\ \A q \in Proc, c \in Cell : Diff(q, c)' <=> Diff(q, c)
    BY <1>1, <1>3, <1>5, <1>7, <1>8, <1>11, <2>2, <2>4, CopyData DEF h
  <2> QED  BY <1>3, <1>4, <2>2, <2>5
<1> QED  BY <1>9, <1>10, <1>11

\* A write fault: the twin of a clean copy is the copy itself.
LEMMA StartWriteData ==
    ASSUME TsInv, DataTypeOK, NEW D, DataInv(D), ~ LazyMerge, NEW p \in Proc, StartWrite(p)
    PROVE  /\ pub' \in [Proc -> Data]
           /\ DataInv(D)' /\ DataStep(D, D) /\ \A q \in Proc, c \in Cell : Diff(q, c)' <=> Diff(q, c)
<1>1. /\ le' = [le EXCEPT ![p].st = "writable"] /\ ReadOnly(le[p].st) /\ UNCHANGED <<lad, ver, priv>>
      /\ pub' = [pub EXCEPT ![p] = IF le[p].st = "readonly_clean" THEN priv[p] ELSE pub[p]]
  BY BlockAssumption DEF StartWrite
<1>2. le[p] \in Entry /\ le[p].rts \in Nat  BY Unfolded
<1>3. /\ \A q \in Proc \ {p} : le'[q] = le[q]
      /\ le'[p].st = "writable" /\ le'[p].rts = le[p].rts /\ le'[p].home = le[p].home
  BY <1>1, <1>2, Unfolded DEF Entry
<1>4. priv[p] \in Data /\ pub[p] \in Data  BY DEF DataTypeOK
<1>5. Geq(priv[p], D[le[p].rts])  BY <1>1 DEF DataInv, Fetched, ReadOnly, Invalid
<1>6. \A c \in Cell : /\ pub[p][c] <= Latest[c]
                      /\ ~ Diff(p, c) => priv[p][c] <= Latest[c]
  BY DEF DataInv, Published
<1>7. CASE le[p].st = "readonly_clean"
  <2>1. /\ pub'[p] = priv[p] /\ \A q \in Proc \ {p} : pub'[q] = pub[q]
        /\ pub' \in [Proc -> Data]
    BY <1>1, <1>4, <1>7 DEF DataTypeOK
  <2>2. \A c \in Cell : ~ Diff(p, c)' /\ ~ Diff(p, c)
    BY <1>1, <1>7, <2>1 DEF Diff, Dirty
  <2>3. lad.lw = p => pub'[p] = pub[p]
    <3> SUFFICES ASSUME lad.lw = p PROVE priv[p] = pub[p]  BY <2>1
    <3>1. lad.wts <= le[p].rts /\ Latest = pub[p]  BY DEF DataInv, LastWriter, Latest
    <3>2. D[le[p].rts] = Latest  BY <1>2, <3>1 DEF DataInv, Contents
    <3>3. \A c \in Cell : priv[p][c] >= pub[p][c] /\ priv[p][c] <= pub[p][c]
      BY <1>5, <1>6, <2>2, <3>1, <3>2 DEF Geq
    <3>4. \A c \in Cell : priv[p][c] \in Nat /\ pub[p][c] \in Nat  BY <1>4 DEF Data
    <3>5. \A c \in Cell : priv[p][c] = pub[p][c]  BY <3>3, <3>4
    <3> QED  BY <1>4, <3>5 DEF Data
  <2>4. DataInv(D)' /\ DataStep(D, D) /\ \A q \in Proc, c \in Cell : Diff(q, c)' <=> Diff(q, c)
    BY <1>1, <1>3, <1>4, <1>5, <1>6, <2>1, <2>2, <2>3, CopyData
  <2> QED  BY <2>1, <2>4
<1>8. CASE le[p].st # "readonly_clean"
  <2>1. pub' = pub  BY <1>1, <1>8 DEF DataTypeOK
  <2>2. Dirty(le[p].st) /\ Dirty(le'[p].st)  BY <1>1, <1>3, <1>8 DEF Dirty, ReadOnly
  <2>3. \A c \in Cell : Diff(p, c)' <=> Diff(p, c)  BY <1>1, <2>1, <2>2 DEF Diff
  <2>4. DataInv(D)' /\ DataStep(D, D) /\ \A q \in Proc, c \in Cell : Diff(q, c)' <=> Diff(q, c)
    BY <1>1, <1>3, <1>4, <1>5, <1>6, <2>1, <2>3, CopyData
  <2> QED  BY <2>1, <2>4 DEF DataTypeOK
<1> QED  BY <1>7, <1>8

\* A write notice: its timestamps are in order and those of a version, and its
\* home has that version.
Good(D, wn) ==
    /\ wn.wts <= wn.rts /\ wn.wts <= lad.wts /\ wn.rts <= le[wn.home].rts
    /\ Geq(pub[wn.home], D[wn.rts])

\* A notice that is newer than the lease makes the copy invalid.
LEMMA NoticedData ==
    ASSUME TsInv, DataTypeOK, NEW D, DataInv(D), NEW p \in Proc, le[p].st # "pinned",
           NEW wn \in Notice, Good(D, wn), wn.wts > le[p].rts,
           InvalidateTo(p, Noticed(le[p], wn, wn.rts), minWr[p]), ver' = ver
    PROVE  /\ UNCHANGED <<lad, priv, pub>> /\ \A q \in Proc \ {p} : le'[q] = le[q]
           /\ le'[p].rts = wn.rts /\ wn.rts >= wn.wts /\ (Dirty(le'[p].st) <=> Dirty(le[p].st))
           /\ DataInv(D)' /\ DataStep(D, D) /\ \A q \in Proc, c \in Cell : Diff(q, c)' <=> Diff(q, c)
<1> DEFINE e == Noticed(le[p], wn, wn.rts)
           st == Invalidated(le[p].st)
<1>0. /\ le[p] \in Entry /\ wn.home \in Proc /\ wn.rts \in Nat /\ wn.wts \in Nat
      /\ \A q \in Proc : le[q].rts \in Nat /\ le[q].home \in Proc
      /\ lad.wts \in Nat /\ lad.lw \in Proc /\ lad.rts \in Nat
  BY Unfolded DEF Notice, Entry, Lad
<1>1. e \in Entry /\ e.st = le[p].st /\ e.rts = wn.rts /\ e.home = wn.home
  BY <1>0 DEF Noticed, Entry
<1> HIDE DEF e
<1>2. le' = [le EXCEPT ![p] = [e EXCEPT !.st = st]] /\ UNCHANGED <<lad, priv, pub>>
  BY <1>1 DEF InvalidateTo, e
<1>3. Invalid(st) /\ (Dirty(st) <=> Dirty(le[p].st))
  BY <1>0 DEF Invalidated, Invalid, Dirty, Entry, State
<1> HIDE DEF st
<1>4. /\ le'[p].st = st /\ le'[p].rts = wn.rts /\ le'[p].home = wn.home
      /\ \A q \in Proc \ {p} : le'[q] = le[q]
  BY <1>1, <1>2, Unfolded DEF Entry
<1>5. \A q \in Proc, c \in Cell : Diff(q, c)' <=> Diff(q, c)
  <2> SUFFICES ASSUME NEW q \in Proc, NEW c \in Cell PROVE Diff(q, c)' <=> Diff(q, c)  OBVIOUS
  <2>1. CASE q = p  BY <1>2, <1>3, <1>4, <2>1 DEF Diff
  <2>2. CASE q # p  BY <1>2, <1>4, <2>2 DEF Diff
  <2> QED  BY <2>1, <2>2
<1>6. wn.wts <= wn.rts /\ wn.wts <= lad.wts /\ wn.rts <= le[wn.home].rts /\ Geq(pub[wn.home], D[wn.rts])
  BY DEF Good
<1>7. wn.rts > le[p].rts /\ wn.home # p  BY <1>0, <1>6
<1>8. lad.lw # p  BY <1>0, <1>6 DEF DataInv, LastWriter
<1>9. Latest' = Latest  BY <1>2 DEF Latest
<1>10. Contents(D)'  BY <1>2, <1>9 DEF DataInv, Contents
<1>11. LastWriter'  BY <1>0, <1>2, <1>4, <1>8 DEF DataInv, LastWriter
<1>12. Published'  BY <1>2, <1>5, <1>9 DEF DataInv, Published
<1>13. Homes(D)'
  <2> SUFFICES ASSUME NEW q \in Proc
               PROVE  le'[q].rts <= le'[le'[q].home].rts /\ Geq(pub[le'[q].home], D[le'[q].rts])
    BY <1>2 DEF Homes
  <2>1. CASE q = p  BY <1>0, <1>4, <1>6, <1>7, <2>1
  <2>2. CASE q # p
    <3>1. le'[q] = le[q]  BY <1>4, <2>2
    <3>2. le[q].rts <= le[le[q].home].rts /\ Geq(pub[le[q].home], D[le[q].rts])  BY DEF DataInv, Homes
    <3>3. CASE le[q].home = p  BY <1>0, <1>4, <1>7, <3>1, <3>2, <3>3
    <3>4. CASE le[q].home # p  BY <1>0, <1>4, <3>1, <3>2, <3>4
    <3> QED  BY <3>3, <3>4
  <2> QED  BY <2>1, <2>2
<1>14. Fetched(D)'
  <2> SUFFICES ASSUME NEW q \in Proc, ~ Invalid(le'[q].st) \/ le'[q].home = q
               PROVE  Geq(priv[q], D[le'[q].rts])
    BY <1>2 DEF Fetched
  <2>1. q # p  BY <1>3, <1>4, <1>7
  <2> QED  BY <1>4, <2>1 DEF DataInv, Fetched
<1>15. DataStep(D, D)
  <2>1. \A n \in Nat : D[n] \in Data  BY DEF DataInv, Contents
  <2>2. \A n \in Nat : Geq(D[n], D[n])  BY <2>1, GeqFacts
  <2>3. \A q \in Proc : le'[q].rts >= le[q].rts
    <3> SUFFICES ASSUME NEW q \in Proc PROVE le'[q].rts >= le[q].rts  OBVIOUS
    <3>1. CASE q = p  BY <1>0, <1>4, <1>7, <3>1
    <3>2. CASE q # p  BY <1>0, <1>4, <3>2
    <3> QED  BY <3>1, <3>2
  <2>4. lad'.wts >= lad.wts  BY <1>0, <1>2
  <2> QED  BY <1>2, <1>5, <1>9, <2>2, <2>3, <2>4 DEF DataStep
<1>16. wn.rts >= wn.wts  BY <1>0, <1>6
<1> QED  BY <1>2, <1>3, <1>4, <1>5, <1>10, <1>11, <1>12, <1>13, <1>14, <1>15, <1>16 DEF DataInv

\* So does a lease that ran out.
LEMMA ExpiredData ==
    ASSUME TsInv, DataTypeOK, NEW D, DataInv(D), NEW p \in Proc, le[p].st # "pinned",
           NEW m \in Nat, InvalidateTo(p, le[p], m), ver' = ver
    PROVE  /\ UNCHANGED <<lad, priv, pub>> /\ \A q \in Proc \ {p} : le'[q] = le[q]
           /\ le'[p].rts = le[p].rts /\ (Dirty(le'[p].st) <=> Dirty(le[p].st))
           /\ DataInv(D)' /\ DataStep(D, D) /\ \A q \in Proc, c \in Cell : Diff(q, c)' <=> Diff(q, c)
<1> DEFINE st == Invalidated(le[p].st)
<1>0. le[p] \in Entry  BY Unfolded
<1>1. le' = [le EXCEPT ![p] = [le[p] EXCEPT !.st = st]] /\ UNCHANGED <<lad, priv, pub>>
  BY DEF InvalidateTo
<1>2. Invalid(st) /\ (Dirty(st) <=> Dirty(le[p].st))
  BY <1>0 DEF Invalidated, Invalid, Dirty, Entry, State
<1> HIDE DEF st
<1>3. /\ le'[p].st = st /\ le'[p].rts = le[p].rts /\ le'[p].home = le[p].home
      /\ \A q \in Proc \ {p} : le'[q] = le[q]
  BY <1>0, <1>1, Unfolded DEF Entry
<1>4. \A c \in Cell : Diff(p, c)' <=> Diff(p, c)  BY <1>1, <1>2, <1>3 DEF Diff
<1>5. \A c \in Cell : /\ pub[p][c] <= Latest[c]
                      /\ IF Diff(p, c) THEN priv[p][c] = priv[p][c] ELSE priv[p][c] <= Latest[c]
  BY DEF DataInv, Published
<1>6. le[p].home = p => Geq(priv[p], D[le[p].rts])  BY DEF DataInv, Fetched
<1>7. pub[p] \in Data  BY DEF DataTypeOK
<1>8. DataInv(D)' /\ DataStep(D, D) /\ \A q \in Proc, c \in Cell : Diff(q, c)' <=> Diff(q, c)
  BY <1>1, <1>2, <1>3, <1>4, <1>5, <1>6, <1>7, CopyData
<1> QED  BY <1>1, <1>2, <1>3, <1>8

----------------------------------------------------------------------------
(* What a process knows of the versions, and what its signatures say *)

\* A dirty block is in the write set, where a fence finds it.
Listed == \A q \in Proc : Dirty(le[q].st) => wrSet[q]

Notices(D) ==
    /\ Good(D, mtx.sig.wn)
    /\ \A p \in Proc : /\ Good(D, relSig[p].wn) /\ Good(D, acq[p].merge.wn)
                       /\ \A wn \in acq[p].wns : Good(D, wn)

\* Once it has acquired all it has to, p has version v of cell c, or will fetch it.
Knows(D, p, c, v) ==
    \/ v <= D[le[p].rts][c] \/ v <= D[minWr[p]][c] \/ Diff(p, c) \/ v <= D[acq[p].min][c]
    \/ \E wn \in acq[p].wns : v <= D[wn.wts][c]

Common(D, c, v) == \A q \in Proc : Knows(D, q, c, v)

\* A process that acquires sig knows version v of cell c.
Says(D, sig, c, v) == v <= D[sig.min][c] \/ v <= D[sig.wn.wts][c]

\* The next signature p releases says so, or nobody needs to be told.
Said(D, p, c, v) ==
    \/ Common(D, c, v)
    \/ pc[p] # "bar" /\ (Says(D, relSig[p], c, v) \/ Diff(p, c))
    \/ pc[p] # "run" /\ Says(D, acq[p].merge, c, v)

HbKnown(D) == \A p \in Proc, c \in Cell :
    hb[p][c] <= ver[c] /\ Knows(D, p, c, hb[p][c]) /\ Said(D, p, c, hb[p][c])

MtxSaid(D) == \A c \in Cell :
    mtx.hb[c] <= ver[c] /\ (Common(D, c, mtx.hb[c]) \/ Says(D, mtx.sig, c, mtx.hb[c]))

\* What is left to acquire, by phase.
AcqShape == \A p \in Proc :
    /\ pc[p] = "run" => acq[p] = NothingToAcquire
    /\ pc[p] = "bar" => acq[p].wns = {} /\ acq[p].min = 0

\* Changes are made under a live lease and, where leases can run out, published
\* before the next acquire: no read fault has to publish them.
DiffLive == \A p \in Proc, c \in Cell :
    Diff(p, c) => le[p].rts >= minWr[p] /\ (MaxCut = 0 \/ pc[p] = "run")

FreshInv(D) ==
    /\ DataTypeOK /\ DataInv(D) /\ Owned /\ Listed /\ Notices(D) /\ HbKnown(D) /\ MtxSaid(D)
    /\ AcqShape /\ DiffLive

\* What q still has to acquire is kept or is applied.
AcqKept(q) ==
    /\ minWr'[q] >= minWr[q]
    /\ acq'[q].min = acq[q].min \/ acq[q].min <= minWr'[q]
    /\ \A wn \in acq[q].wns : wn \in acq'[q].wns \/ wn.wts <= le'[q].rts

----------------------------------------------------------------------------
(* Knowledge is kept *)

LEMMA GoodKept ==
    ASSUME TsInv, TsInv', DataTypeOK, pub' \in [Proc -> Data], NEW D, NEW E, DataInv(D), DataInv(E)', DataStep(D, E),
           NEW wn \in Notice, Good(D, wn), Known(wn)
    PROVE  Good(E, wn)'
<1>0. /\ wn.home \in Proc /\ wn.rts \in Nat /\ wn.wts \in Nat /\ wn.rts <= lad.rts
      /\ lad.wts \in Nat /\ le[wn.home].rts \in Nat
  BY Unfolded DEF Notice, Known
<1>1. lad'.wts \in Nat /\ le'[wn.home].rts \in Nat
  BY <1>0 DEF TsInv, TypeOK
<1>2. wn.wts <= wn.rts /\ wn.wts <= lad.wts /\ wn.rts <= le[wn.home].rts /\ Geq(pub[wn.home], D[wn.rts])
  BY DEF Good
<1>3. lad'.wts >= lad.wts /\ le'[wn.home].rts >= le[wn.home].rts /\ E[wn.rts] = D[wn.rts]
  BY <1>0 DEF DataStep
<1>4. Geq(pub'[wn.home], D[wn.rts])
  <2>1. CASE pub'[wn.home] = pub[wn.home]  BY <1>2, <2>1
  <2>2. CASE Geq(pub'[wn.home], D[le[wn.home].rts])
    <3>1. /\ Geq(D[le[wn.home].rts], D[wn.rts]) /\ D[wn.rts] \in Data /\ D[le[wn.home].rts] \in Data
      BY <1>0, <1>2 DEF DataInv, Contents
    <3>2. pub'[wn.home] \in Data  BY <1>0
    <3> QED  BY <2>2, <3>1, <3>2, GeqFacts
  <2> QED  BY <1>0, <2>1, <2>2 DEF DataStep
<1>5. wn.wts <= lad'.wts /\ wn.rts <= le'[wn.home].rts  BY <1>0, <1>1, <1>2, <1>3
<1> QED  BY <1>2, <1>3, <1>4, <1>5 DEF Good

\* The notice that stands for none.
LEMMA GoodNone ==
    ASSUME TsInv, DataTypeOK, NEW D, DataInv(D)
    PROVE  Good(D, NoNotice) /\ NoNotice \in Notice /\ NoNotice.wts = 0
<1>1. /\ NoNotice.wts = 0 /\ NoNotice.rts = 0 /\ NoNotice.home = InitWriter /\ InitWriter \in Proc
      /\ NoNotice \in Notice
  BY BlockAssumption DEF NoNotice, Notice
<1>2. 0 <= lad.wts /\ 0 <= le[InitWriter].rts  BY <1>1, Unfolded
<1>3. \A c \in Cell : pub[InitWriter][c] \in Nat /\ D[0][c] = 0
  BY <1>1 DEF DataTypeOK, Data, DataInv, Contents
<1>4. Geq(pub[InitWriter], D[0])  BY <1>3 DEF Geq
<1> QED  BY <1>1, <1>2, <1>4 DEF Good

\* Later versions have at least what earlier ones have.
LEMMA VersionGrows ==
    ASSUME NEW D, NEW E, DataInv(D), DataInv(E)', DataStep(D, E), NEW m \in Nat, NEW n \in Nat, m <= n,
           NEW c \in Cell, NEW v \in Nat, v <= D[m][c]
    PROVE  v <= E[n][c]
<1>1. D[m] \in Data /\ E[m] \in Data /\ E[n] \in Data
  BY DEF DataInv, Contents
<1>2. Geq(E[n], E[m])  BY DEF DataInv, Contents
<1>3. Geq(E[m], D[m])  BY DEF DataStep
<1>4. D[m][c] \in Nat /\ E[m][c] \in Nat /\ E[n][c] \in Nat  BY <1>1 DEF Data
<1> QED  BY <1>2, <1>3, <1>4 DEF Geq

LEMMA KnowsKept ==
    ASSUME TsInv, TsInv', DataTypeOK, NEW D, NEW E, DataInv(D), DataInv(E)', DataStep(D, E),
           NEW q \in Proc, AcqKept(q), NEW c \in Cell, NEW v \in Nat, v <= ver[c], Knows(D, q, c, v)
    PROVE  Knows(E, q, c, v)'
<1>0. /\ le[q].rts \in Nat /\ minWr[q] \in Nat /\ acq[q].min \in Nat
      /\ \A wn \in acq[q].wns : wn.wts \in Nat
  BY Unfolded DEF ToAcquire, Notice
<1>1. /\ le'[q].rts \in Nat /\ minWr'[q] \in Nat /\ acq'[q].min \in Nat
      /\ \A wn \in acq'[q].wns : wn.wts \in Nat
  BY DEF TsInv, TypeOK, Notice
<1>2. le'[q].rts >= le[q].rts  BY DEF DataStep
<1>3. CASE v <= D[le[q].rts][c]
  <2>1. v <= E[le'[q].rts][c]  BY <1>0, <1>1, <1>2, <1>3, VersionGrows
  <2> QED  BY <2>1 DEF Knows
<1>4. CASE v <= D[minWr[q]][c]
  <2>1. v <= E[minWr'[q]][c]  BY <1>0, <1>1, <1>4, VersionGrows DEF AcqKept
  <2> QED  BY <2>1 DEF Knows
<1>5. CASE Diff(q, c)
  <2>1. CASE Diff(q, c)'  BY <2>1 DEF Knows
  <2>2. CASE E[le'[q].rts][c] >= ver[c]
    <3>1. E[le'[q].rts][c] \in Nat /\ ver[c] \in Nat  BY <1>1 DEF DataInv, Contents, DataTypeOK, Data
    <3>2. v <= E[le'[q].rts][c]  BY <2>2, <3>1
    <3> QED  BY <3>2 DEF Knows
  <2> QED  BY <1>5, <2>1, <2>2 DEF DataStep
<1>6. CASE v <= D[acq[q].min][c]
  <2>1. CASE acq'[q].min = acq[q].min
    <3>1. v <= E[acq'[q].min][c]  BY <1>0, <1>6, <2>1, VersionGrows
    <3> QED  BY <3>1 DEF Knows
  <2>2. CASE acq[q].min <= minWr'[q]
    <3>1. v <= E[minWr'[q]][c]  BY <1>0, <1>1, <1>6, <2>2, VersionGrows
    <3> QED  BY <3>1 DEF Knows
  <2> QED  BY <2>1, <2>2 DEF AcqKept
<1>7. CASE \E wn \in acq[q].wns : v <= D[wn.wts][c]
  <2>1. PICK wn \in acq[q].wns : v <= D[wn.wts][c]  BY <1>7
  <2>2. CASE wn \in acq'[q].wns
    <3>1. v <= E[wn.wts][c]  BY <1>0, <2>1, VersionGrows
    <3> QED  BY <2>2, <3>1 DEF Knows
  <2>3. CASE wn.wts <= le'[q].rts
    <3>1. v <= E[le'[q].rts][c]  BY <1>0, <1>1, <2>1, <2>3, VersionGrows
    <3> QED  BY <3>1 DEF Knows
  <2> QED  BY <2>1, <2>2, <2>3 DEF AcqKept
<1> QED  BY <1>3, <1>4, <1>5, <1>6, <1>7 DEF Knows

LEMMA CommonKept ==
    ASSUME TsInv, TsInv', DataTypeOK, NEW D, NEW E, DataInv(D), DataInv(E)', DataStep(D, E),
           \A q \in Proc : AcqKept(q), NEW c \in Cell, NEW v \in Nat, v <= ver[c], Common(D, c, v)
    PROVE  Common(E, c, v)'
<1>1. \A q \in Proc : Knows(E, q, c, v)'  BY KnowsKept DEF Common
<1> QED  BY <1>1 DEF Common

LEMMA SaysKept ==
    ASSUME NEW D, NEW E, DataInv(D), DataInv(E)', DataStep(D, E),
           NEW sig \in Sig, NEW c \in Cell, NEW v \in Nat, Says(D, sig, c, v)
    PROVE  Says(E, sig, c, v)
<1>1. sig.min \in Nat /\ sig.wn.wts \in Nat  BY DEF Sig, Notice
<1>2. v <= D[sig.min][c] => v <= E[sig.min][c]  BY <1>1, VersionGrows
<1>3. v <= D[sig.wn.wts][c] => v <= E[sig.wn.wts][c]  BY <1>1, VersionGrows
<1> QED  BY <1>2, <1>3 DEF Says

\* A merged signature says what either says, and so does what truncate leaves.
LEMMA MergeSays ==
    ASSUME NEW D \in [Nat -> Data], \A m, n \in Nat : m <= n => Geq(D[n], D[m]),
           NEW a \in Sig, NEW b \in Sig, NEW c \in Cell, NEW v \in Nat,
           Says(D, a, c, v) \/ Says(D, b, c, v), NEW sig \in Truncations(MergeSig(a, b))
    PROVE  Says(D, sig, c, v)
<1> DEFINE s == MergeSig(a, b)
<1>0. /\ a.min \in Nat /\ a.wn.wts \in Nat /\ b.min \in Nat /\ b.wn.wts \in Nat
      /\ a.wn \in Notice /\ b.wn \in Notice
  BY DEF Sig, Notice
<1>1. ASSUME NEW m \in Nat, NEW n \in Nat, m <= n, v <= D[m][c] PROVE v <= D[n][c]
  <2>1. Geq(D[n], D[m]) /\ D[n] \in Data /\ D[m] \in Data  BY <1>1
  <2>2. D[n][c] \in Nat /\ D[m][c] \in Nat /\ D[n][c] >= D[m][c]  BY <2>1 DEF Geq, Data
  <2> QED  BY <1>1, <2>2
<1>2. /\ s.min \in Nat /\ s.min >= a.min /\ s.min >= b.min /\ s.wn \in Notice
      /\ s.wn.wts \in Nat /\ s.wn.wts >= a.wn.wts /\ s.wn.wts >= b.wn.wts
  BY <1>0 DEF MergeSig, BiggerOf
<1> HIDE DEF s
<1>3. v <= D[s.min][c] \/ v <= D[s.wn.wts][c]
  <2>1. CASE v <= D[a.min][c]  BY <1>0, <1>1, <1>2, <2>1
  <2>2. CASE v <= D[a.wn.wts][c]  BY <1>0, <1>1, <1>2, <2>2
  <2>3. CASE v <= D[b.min][c]  BY <1>0, <1>1, <1>2, <2>3
  <2>4. CASE v <= D[b.wn.wts][c]  BY <1>0, <1>1, <1>2, <2>4
  <2> QED  BY <2>1, <2>2, <2>3, <2>4 DEF Says
<1>4. CASE sig = s  BY <1>3, <1>4 DEF Says
<1>5. CASE \E k \in 1 .. MaxCut :
            sig = [min |-> BiggerOf(s.min, k), wn |-> IF s.wn.wts > k THEN s.wn ELSE NoNotice]
  <2>1. PICK k \in 1 .. MaxCut :
            sig = [min |-> BiggerOf(s.min, k), wn |-> IF s.wn.wts > k THEN s.wn ELSE NoNotice]
    BY <1>5
  <2>2. k \in Nat  BY BlockAssumption
  <2>3. sig.min \in Nat /\ sig.min >= s.min /\ sig.min >= k  BY <1>2, <2>1, <2>2 DEF BiggerOf
  <2>4. CASE v <= D[s.min][c]  BY <1>1, <1>2, <2>3, <2>4 DEF Says
  <2>5. CASE v <= D[s.wn.wts][c] /\ s.wn.wts > k  BY <2>1, <2>5 DEF Says
  <2>6. CASE v <= D[s.wn.wts][c] /\ ~ (s.wn.wts > k)
    <3>1. s.wn.wts <= sig.min  BY <1>2, <2>2, <2>3, <2>6
    <3> QED  BY <1>1, <1>2, <2>3, <2>6, <3>1 DEF Says
  <2> QED  BY <1>3, <2>4, <2>5, <2>6
<1> QED  BY <1>4, <1>5 DEF Truncations, s

\* The notice of a merged and truncated signature is one of the two, or none.
LEMMA MergeNotice ==
    ASSUME NEW a, NEW b, NEW sig \in Truncations(MergeSig(a, b))
    PROVE  sig.wn \in {a.wn, b.wn, NoNotice}
<1>1. MergeSig(a, b).wn \in {a.wn, b.wn}  BY DEF MergeSig
<1> QED  BY <1>1 DEF Truncations

\* Notices that stay where they are, or are applied, stay good.
LEMMA NoticesKept ==
    ASSUME TsInv, TsInv', pub' \in [Proc -> Data], NEW D, NEW E, FreshInv(D), DataInv(E)', DataStep(D, E)
    PROVE  /\ \A wn \in Notice : Good(D, wn) /\ Known(wn) => Good(E, wn)'
           /\ \A wn \in {mtx.sig.wn} : Good(E, wn)'
           /\ \A q \in Proc : /\ \A wn \in {relSig[q].wn, acq[q].merge.wn} : Good(E, wn)'
                              /\ \A wn \in acq[q].wns : Good(E, wn)'
<1>1. DataTypeOK /\ DataInv(D) /\ Notices(D)  BY DEF FreshInv
<1>2. \A wn \in Notice : Good(D, wn) /\ Known(wn) => Good(E, wn)'  BY <1>1, GoodKept
<1>3. mtx.sig.wn \in Notice /\ Known(mtx.sig.wn) /\ Good(D, mtx.sig.wn)
  BY <1>1 DEF TsInv, TypeOK, NoticesAreKnown, Sig, Notices
<1>4. ASSUME NEW q \in Proc, NEW wn \in {relSig[q].wn, acq[q].merge.wn} \cup acq[q].wns
      PROVE  wn \in Notice /\ Known(wn) /\ Good(D, wn)
  <2>1. relSig[q] \in Sig /\ acq[q].merge \in Sig /\ acq[q].wns \subseteq Notice
    BY Unfolded DEF ToAcquire
  <2> QED  BY <1>1, <2>1 DEF TsInv, NoticesAreKnown, Sig, Notices
<1>5. \A wn \in {mtx.sig.wn} : Good(E, wn)'  BY <1>2, <1>3
<1>6. ASSUME NEW q \in Proc, NEW wn \in {relSig[q].wn, acq[q].merge.wn} \cup acq[q].wns
      PROVE  Good(E, wn)'
  BY <1>2, <1>4
<1> QED  BY <1>2, <1>5, <1>6

\* What a process said stays said when its signatures stay.
LEMMA SaidKept ==
    ASSUME TsInv, TsInv', DataTypeOK, NEW D, NEW E, DataInv(D), DataInv(E)', DataStep(D, E),
           \A q \in Proc : AcqKept(q), NEW p \in Proc, NEW c \in Cell, NEW v \in Nat, v <= ver[c],
           relSig'[p] = relSig[p], acq'[p].merge = acq[p].merge, pc'[p] = pc[p],
           Diff(p, c) => Diff(p, c)', Said(D, p, c, v)
    PROVE  Said(E, p, c, v)'
<1>1. relSig[p] \in Sig /\ acq[p].merge \in Sig  BY Unfolded DEF ToAcquire
<1>2. CASE Common(D, c, v)
  <2>1. Common(E, c, v)'  BY <1>2, CommonKept
  <2> QED  BY <2>1 DEF Said
<1>3. CASE pc[p] # "bar" /\ Says(D, relSig[p], c, v)
  <2>1. Says(E, relSig[p], c, v)  BY <1>1, <1>3, SaysKept
  <2> QED  BY <1>3, <2>1 DEF Said, Says
<1>4. CASE pc[p] # "bar" /\ Diff(p, c)  BY <1>4 DEF Said
<1>5. CASE pc[p] # "run" /\ Says(D, acq[p].merge, c, v)
  <2>1. Says(E, acq[p].merge, c, v)  BY <1>1, <1>5, SaysKept
  <2> QED  BY <1>5, <2>1 DEF Said, Says
<1> QED  BY <1>2, <1>3, <1>4, <1>5 DEF Said

\* What the mutex says stays said while it stays.
LEMMA MtxKept ==
    ASSUME TsInv, TsInv', NEW D, NEW E, FreshInv(D), DataInv(E)', DataStep(D, E),
           \A q \in Proc : AcqKept(q), mtx'.sig = mtx.sig, mtx'.hb = mtx.hb,
           \A c \in Cell : ver'[c] >= ver[c], ver' \in Data
    PROVE  MtxSaid(E)'
<1>1. DataTypeOK /\ DataInv(D)  BY DEF FreshInv
<1> SUFFICES ASSUME NEW c \in Cell, NEW v, v = mtx.hb[c]
             PROVE  v <= ver'[c] /\ (Common(E, c, v)' \/ Says(E, mtx'.sig, c, v))
  BY DEF MtxSaid, Says
<1>2. v \in Nat /\ ver[c] \in Nat /\ ver'[c] \in Nat  BY <1>1 DEF DataTypeOK, Data
<1>3. v <= ver[c] /\ (Common(D, c, v) \/ Says(D, mtx.sig, c, v))  BY DEF FreshInv, MtxSaid
<1>4. v <= ver'[c]  BY <1>2, <1>3
<1>5. mtx.sig \in Sig  BY DEF TsInv, TypeOK
<1>6. Common(D, c, v) => Common(E, c, v)'  BY <1>1, <1>2, <1>3, CommonKept
<1>7. Says(D, mtx.sig, c, v) => Says(E, mtx.sig, c, v)  BY <1>1, <1>2, <1>5, SaysKept
<1> QED  BY <1>3, <1>4, <1>6, <1>7

\* A step of the application or of a fault handler: nobody is told anything.
LEMMA QuietKnowledge ==
    ASSUME TsInv, TsInv', DataTypeOK', NEW D, NEW E, FreshInv(D), DataInv(E)', DataStep(D, E),
           UNCHANGED <<minWr, relSig, mtx, pc, acq>>,
           \A q \in Proc, c \in Cell : Diff(q, c) => Diff(q, c)',
           \A c \in Cell : ver'[c] >= ver[c],
           \A q \in Proc, c \in Cell :
                hb'[q][c] = hb[q][c] \/ (hb'[q][c] = ver'[c] /\ Diff(q, c)' /\ pc[q] # "bar")
    PROVE  Notices(E)' /\ HbKnown(E)' /\ MtxSaid(E)' /\ AcqShape'
<1>1. DataTypeOK /\ DataInv(D) /\ HbKnown(D)  BY DEF FreshInv
<1>2. \A q \in Proc : AcqKept(q)
  <2>1. \A q \in Proc : minWr[q] \in Nat  BY Unfolded
  <2> QED  BY <2>1 DEF AcqKept
<1>3. Notices(E)'
  <2>1. pub' \in [Proc -> Data]  BY DEF DataTypeOK
  <2> QED  BY <2>1, NoticesKept DEF Notices
<1>4. HbKnown(E)'
  <2> SUFFICES ASSUME NEW q \in Proc, NEW c \in Cell, NEW v, v = hb'[q][c]
               PROVE  v <= ver'[c] /\ Knows(E, q, c, v)' /\ Said(E, q, c, v)'
    BY DEF HbKnown
  <2>1. ver[c] \in Nat /\ ver'[c] \in Nat /\ hb[q][c] \in Nat
    BY <1>1 DEF DataTypeOK, Data
  <2>2. CASE v = hb[q][c]
    <3>1. v \in Nat /\ v <= ver[c] /\ Knows(D, q, c, v) /\ Said(D, q, c, v)
      BY <1>1, <2>1, <2>2 DEF HbKnown
    <3>2. v <= ver'[c]  BY <2>1, <3>1
    <3>3. Knows(E, q, c, v)'  BY <1>1, <1>2, <3>1, KnowsKept
    <3>4. Said(E, q, c, v)'  BY <1>1, <1>2, <3>1, SaidKept
    <3> QED  BY <3>2, <3>3, <3>4
  <2>3. CASE v = ver'[c] /\ Diff(q, c)' /\ pc[q] # "bar"
    <3>1. v <= ver'[c]  BY <2>1, <2>3
    <3> QED  BY <2>3, <3>1 DEF Knows, Said
  <2> QED  BY <2>2, <2>3
<1>5. MtxSaid(E)'
  <2>1. ver' \in Data  BY DEF DataTypeOK
  <2> QED  BY <1>2, <2>1, MtxKept
<1>6. AcqShape'  BY DEF FreshInv, AcqShape
<1> QED  BY <1>3, <1>4, <1>5, <1>6

\* Read and write faults, and writes of the application.
LEMMA LocalFresh ==
    ASSUME TsInv, TsInv', ExpInv, ~ LazyMerge, NEW D, FreshInv(D), NEW p \in Proc,
           StartRead(p) \/ StartWrite(p) \/ (\E c \in Cell : Write(p, c)) \/ FenceStart(p)
    PROVE  FreshInv(D)' /\ DataStep(D, D)
<1>0. /\ DataTypeOK /\ DataInv(D) /\ Owned /\ Listed /\ DiffLive
      /\ UNCHANGED <<minWr, relSig, mtx, pc, acq>>
      /\ \A q \in Proc : le[q].rts \in Nat /\ minWr[q] \in Nat
  BY Unfolded DEF FreshInv, StartRead, StartWrite, Write, FenceStart
<1>1. ASSUME DataInv(D)', DataStep(D, D), hb' = hb, ver' = ver, priv' \in [Proc -> Data], pub' \in [Proc -> Data],
             \A q \in Proc, c \in Cell : Diff(q, c)' <=> Diff(q, c), Listed'
      PROVE  FreshInv(D)' /\ DataStep(D, D)
  <2>1. DataTypeOK'  BY <1>0, <1>1 DEF DataTypeOK
  <2>2. \A c \in Cell : ver'[c] >= ver[c]  BY <1>0, <1>1 DEF DataTypeOK, Data
  <2>3. Notices(D)' /\ HbKnown(D)' /\ MtxSaid(D)' /\ AcqShape'
    BY <1>0, <1>1, <2>1, <2>2, QuietKnowledge
  <2>4. Owned'  BY <1>0, <1>1 DEF Owned, MayWrite
  <2>5. DiffLive'
    <3> SUFFICES ASSUME NEW q \in Proc, NEW c \in Cell, Diff(q, c)'
                 PROVE  le'[q].rts >= minWr'[q] /\ (MaxCut = 0 \/ pc'[q] = "run")
      BY DEF DiffLive
    <3>1. le[q].rts >= minWr[q] /\ (MaxCut = 0 \/ pc[q] = "run")  BY <1>0, <1>1 DEF DiffLive
    <3>2. le'[q].rts >= le[q].rts /\ le'[q].rts \in Nat  BY <1>1 DEF DataStep, TsInv, TypeOK
    <3> QED  BY <1>0, <3>1, <3>2
  <2> QED  BY <1>1, <2>1, <2>3, <2>4, <2>5 DEF FreshInv
<1>2. CASE StartRead(p) /\ minWr[p] > le[p].rts
  <2>1. PICK t : t = Transaction(p, le[p], minWr[p])  OBVIOUS
  <2>2. DoTransaction(p, t) /\ ver' = ver /\ hb' = hb /\ wrSet' = wrSet /\ Invalid(le[p].st)
    BY <1>2, <2>1 DEF StartRead
  <2>3. ~ Changed(p)
    <3>1. le[p].rts < minWr[p] /\ ~ (le[p].rts >= minWr[p])  BY <1>0, <1>2
    <3> QED  BY <1>0, <3>1 DEF DiffLive, Changed
  <2>4. /\ priv' \in [Proc -> Data] /\ pub' \in [Proc -> Data] /\ DataInv(D)' /\ DataStep(D, D)
        /\ \A q \in Proc, c \in Cell : Diff(q, c)' <=> q # p /\ Diff(q, c)
    <3>1. tx.by # p  BY NoHalfTx DEF ExpInv
    <3> QED  BY <1>0, <2>1, <2>2, <2>3, <3>1, TransactionData
  <2>5. \A q \in Proc, c \in Cell : Diff(q, c)' <=> Diff(q, c)
    BY <2>3, <2>4 DEF Changed
  <2>6. t.le.st \in {"readonly_clean", le[p].st} /\ (t.le.st # "readonly_clean" => t.still)
    BY <2>1, TransactionState
  <2>7. Listed'
    <3>1. le'[p] = t.le /\ \A q \in Proc \ {p} : le'[q] = le[q]
      BY <2>2, Unfolded DEF DoTransaction
    <3>2. \A q \in Proc : Dirty(le'[q].st) => Dirty(le[q].st)
      BY <2>6, <3>1 DEF Dirty
    <3> QED  BY <1>0, <2>2, <3>2 DEF Listed
  <2> QED  BY <1>1, <2>2, <2>4, <2>5, <2>7
<1>3. CASE StartRead(p) /\ ~ (minWr[p] > le[p].rts)
  <2>1. /\ priv' \in [Proc -> Data] /\ pub' \in [Proc -> Data]
        /\ DataInv(D)' /\ DataStep(D, D) /\ \A q \in Proc, c \in Cell : Diff(q, c)' <=> Diff(q, c)
        /\ Dirty(le'[p].st) <=> Dirty(le[p].st)
    BY <1>0, <1>3, ReadHomeData
  <2>2. ver' = ver /\ hb' = hb /\ wrSet' = wrSet /\ \A q \in Proc \ {p} : le'[q] = le[q]
    BY <1>3, Unfolded DEF StartRead
  <2>3. Listed'  BY <1>0, <2>1, <2>2 DEF Listed
  <2> QED  BY <1>1, <2>1, <2>2, <2>3
<1>4. CASE StartWrite(p)
  <2>1. /\ pub' \in [Proc -> Data]
        /\ DataInv(D)' /\ DataStep(D, D) /\ \A q \in Proc, c \in Cell : Diff(q, c)' <=> Diff(q, c)
    BY <1>0, <1>4, StartWriteData
  <2>2. /\ ver' = ver /\ hb' = hb /\ priv' = priv /\ wrSet' = [wrSet EXCEPT ![p] = TRUE]
        /\ \A q \in Proc \ {p} : le'[q] = le[q]
    BY <1>4, Unfolded DEF StartWrite
  <2>3. wrSet'[p] = TRUE /\ \A q \in Proc \ {p} : wrSet'[q] = wrSet[q]  BY <2>2, Unfolded
  <2>4. Listed'  BY <1>0, <2>2, <2>3 DEF Listed
  <2>5. priv' \in [Proc -> Data]  BY <1>0, <2>2 DEF DataTypeOK
  <2> QED  BY <1>1, <2>1, <2>2, <2>4, <2>5
<1>5. CASE FenceStart(p)
  <2>1. UNCHANGED <<le, lad, priv, pub, ver, hb, wrSet>>  BY <1>5 DEF FenceStart
  <2>2. DataInv(D)' /\ DataStep(D, D)  BY <1>0, <2>1, QuietData
  <2>3. \A q \in Proc, c \in Cell : Diff(q, c)' <=> Diff(q, c)  BY <2>1 DEF Diff
  <2>4. Listed' /\ priv' \in [Proc -> Data] /\ pub' \in [Proc -> Data]
    BY <1>0, <2>1 DEF Listed, DataTypeOK
  <2> QED  BY <1>1, <2>1, <2>2, <2>3, <2>4
<1>6. CASE \E c \in Cell : Write(p, c)
  <2>1. PICK c \in Cell : Write(p, c)  BY <1>6
  <2>2. /\ DataTypeOK' /\ DataInv(D)' /\ DataStep(D, D) /\ Owned'
        /\ Diff(p, c)' /\ \A d \in Cell : ver'[d] >= ver[d]
        /\ \A q \in Proc, d \in Cell : ~ (q = p /\ d = c) => (Diff(q, d)' <=> Diff(q, d))
    BY <1>0, <2>1, WriteData
  <2>3. /\ hb' = [hb EXCEPT ![p][c] = ver'[c]] /\ pc[p] = "run" /\ CanWrite(le[p].st)
        /\ le' = le /\ wrSet' = wrSet
    BY <2>1, NoHalfTx DEF Write, ExpInv
  <2>4. \A q \in Proc, d \in Cell :
            hb'[q][d] = hb[q][d] \/ (hb'[q][d] = ver'[d] /\ Diff(q, d)' /\ pc[q] # "bar")
    <3> SUFFICES ASSUME NEW q \in Proc, NEW d \in Cell
                 PROVE  hb'[q][d] = hb[q][d] \/ (hb'[q][d] = ver'[d] /\ Diff(q, d)' /\ pc[q] # "bar")
      OBVIOUS
    <3>1. hb \in [Proc -> Data] /\ hb[p] \in Data  BY <1>0 DEF DataTypeOK
    <3>2. CASE q = p /\ d = c
      <4>1. hb'[p][c] = ver'[c]  BY <2>3, <3>1 DEF Data
      <4> QED  BY <2>2, <2>3, <3>2, <4>1
    <3>3. CASE ~ (q = p /\ d = c)
      <4>1. hb'[q][d] = hb[q][d]  BY <2>3, <3>1, <3>3 DEF Data
      <4> QED  BY <4>1
    <3> QED  BY <3>2, <3>3
  <2>5. \A q \in Proc, d \in Cell : Diff(q, d) => Diff(q, d)'  BY <2>2
  <2>6. Notices(D)' /\ HbKnown(D)' /\ MtxSaid(D)' /\ AcqShape'
    BY <1>0, <2>2, <2>4, <2>5, QuietKnowledge
  <2>7. Listed'  BY <1>0, <2>3 DEF Listed
  <2>8. DiffLive'
    <3>1. le[p].rts >= minWr[p]
      BY <2>3 DEF ExpInv, NoPins, ExpiredIsInvalid, Readable, CanWrite, Invalid
    <3> QED  BY <1>0, <2>2, <2>3, <3>1 DEF DiffLive
  <2> QED  BY <2>2, <2>6, <2>7, <2>8 DEF FreshInv
<1> QED  BY <1>2, <1>3, <1>4, <1>5, <1>6

----------------------------------------------------------------------------
(* Fences *)

\* The release of the block publishes all changes of p, and its notice names
\* the version they are in.
LEMMA ReleaseData ==
    ASSUME TsInv, TsInv', NoPins, ~ LazyMerge, NEW D, FreshInv(D), NEW p \in Proc, NEW min \in Nat,
           ReleaseBlock(p, min), ver' = ver, NEW wn, wn = ReleaseNotice(p, min)
    PROVE  \E E : /\ priv' \in [Proc -> Data] /\ pub' \in [Proc -> Data]
                  /\ DataInv(E)' /\ DataStep(D, E) /\ Listed'
                  /\ \A q \in Proc, c \in Cell : Diff(q, c)' <=> q # p /\ Diff(q, c)
                  /\ \A c \in Cell : Diff(p, c) => ver[c] <= E[wn.wts][c]
                  /\ Good(E, wn)'
<1>0. DataTypeOK /\ DataInv(D) /\ Owned /\ Listed  BY DEF FreshInv
<1>1. Good(D, NoNotice) /\ NoNotice \in Notice /\ Known(NoNotice)
  <2>1. NoNotice.rts = 0 /\ 0 <= lad.rts  BY Unfolded DEF NoNotice
  <2> QED  BY <1>0, <2>1, GoodNone DEF Known
<1>2. ~ IsFastReleased(p)  BY BlockAssumption DEF IsFastReleased
<1>3. CASE ~ wrSet[p] \/ ~ Dirty(le[p].st)
  <2>1. UNCHANGED <<le, lad, priv, pub>> /\ wrSet' = [wrSet EXCEPT ![p] = FALSE]
    BY <1>3 DEF ReleaseBlock
  <2>2. wn = NoNotice  BY <1>3 DEF ReleaseNotice
  <2>3. ~ Dirty(le[p].st)  BY <1>0, <1>3 DEF Listed
  <2>4. DataInv(D)' /\ DataStep(D, D)  BY <1>0, <2>1, QuietData
  <2>5. \A q \in Proc, c \in Cell : Diff(q, c)' <=> q # p /\ Diff(q, c)
    BY <2>1, <2>3 DEF Diff
  <2>6. priv' \in [Proc -> Data] /\ pub' \in [Proc -> Data]  BY <1>0, <2>1 DEF DataTypeOK
  <2>7. Listed'
    <3>1. \A q \in Proc \ {p} : wrSet'[q] = wrSet[q]  BY <2>1, Unfolded
    <3> QED  BY <1>0, <2>1, <2>3, <3>1 DEF Listed
  <2>8. Good(D, wn)'  BY <1>0, <1>1, <2>2, <2>4, <2>6, GoodKept
  <2>9. \A c \in Cell : ~ Diff(p, c)  BY <2>3 DEF Diff
  <2> QED  BY <2>4, <2>5, <2>6, <2>7, <2>8, <2>9
<1>4. CASE ~ (~ wrSet[p] \/ ~ Dirty(le[p].st))
  <2>1. PICK t : t = Transaction(p, le[p], min)  OBVIOUS
  <2>2. DoTransaction(p, t) /\ wrSet' = [wrSet EXCEPT ![p] = t.still]
    BY <1>2, <1>4, <2>1 DEF ReleaseBlock
  <2>3. wn = t.notice  BY <1>2, <1>4, <2>1 DEF ReleaseNotice
  <2>4. PICK E : /\ priv' \in [Proc -> Data] /\ pub' \in [Proc -> Data]
                 /\ DataInv(E)' /\ DataStep(D, E)
                 /\ \A q \in Proc, c \in Cell : Diff(q, c)' <=> q # p /\ Diff(q, c)
                 /\ \A c \in Cell : Diff(p, c) => ver[c] <= E[t.notice.wts][c]
                 /\ t.notice.wts <= t.notice.rts /\ t.notice.wts <= lad'.wts
                 /\ t.notice = NoNotice \/ /\ t.notice.home = p /\ t.notice.rts <= le'[p].rts
                                           /\ Geq(pub'[p], E[t.notice.rts])
    <3>1. tx.by # p  BY NoHalfTx
    <3> QED  BY <1>0, <2>1, <2>2, <3>1, TransactionData
  <2>5. Good(E, wn)'
    <3>1. CASE wn = NoNotice  BY <1>0, <1>1, <2>4, <3>1, GoodKept
    <3>2. CASE wn # NoNotice  BY <2>3, <2>4, <3>2 DEF Good
    <3> QED  BY <3>1, <3>2
  <2>6. Listed'
    <3>1. le'[p] = t.le /\ \A q \in Proc \ {p} : le'[q] = le[q] /\ wrSet'[q] = wrSet[q]
      BY <2>2, Unfolded DEF DoTransaction
    <3>2. wrSet'[p] = t.still  BY <2>2, Unfolded
    <3>3. Dirty(t.le.st) => t.still  BY <2>1, TransactionState DEF Dirty
    <3> QED  BY <1>0, <3>1, <3>2, <3>3 DEF Listed
  <2> QED  BY <2>3, <2>4, <2>5, <2>6
<1> QED  BY <1>3, <1>4

\* The signature after a fence says all that the process said before, and the
\* changes published by the fence.
LEMMA FenceSays ==
    ASSUME TsInv, TsInv', NoPins, ~ LazyMerge, NEW D, FreshInv(D), NEW p \in Proc, NEW min \in Nat,
           ReleaseBlock(p, min), ver' = ver, NEW sig \in SigsAfterFence(p, min)
    PROVE  \E E : /\ priv' \in [Proc -> Data] /\ pub' \in [Proc -> Data]
                  /\ DataInv(E)' /\ DataStep(D, E) /\ Listed'
                  /\ \A q \in Proc, c \in Cell : Diff(q, c)' <=> q # p /\ Diff(q, c)
                  /\ Good(E, sig.wn)'
                  /\ \A c \in Cell, v \in Nat :
                        v <= ver[c] /\ (Says(D, relSig[p], c, v) \/ Diff(p, c)) => Says(E, sig, c, v)
<1>0. DataTypeOK /\ DataInv(D)  BY DEF FreshInv
<1>1. PICK wn : wn = ReleaseNotice(p, min)  OBVIOUS
<1>2. PICK E : /\ priv' \in [Proc -> Data] /\ pub' \in [Proc -> Data]
               /\ DataInv(E)' /\ DataStep(D, E) /\ Listed'
               /\ \A q \in Proc, c \in Cell : Diff(q, c)' <=> q # p /\ Diff(q, c)
               /\ \A c \in Cell : Diff(p, c) => ver[c] <= E[wn.wts][c]
               /\ Good(E, wn)'
  BY <1>1, ReleaseData
<1>3. wn \in Notice  BY <1>1, ReleaseCore
<1>4. PICK made : made = [min |-> 0, wn |-> wn]  OBVIOUS
<1>5. made \in Sig /\ made.wn = wn  BY <1>3, <1>4 DEF Sig
<1>6. relSig[p] \in Sig  BY Unfolded
<1>7. sig \in Truncations(MergeSig(relSig[p], made))  BY <1>1, <1>4 DEF SigsAfterFence
<1>8. Good(E, sig.wn)'
  <2>1. \A n \in {relSig[p].wn} : Good(E, n)'  BY <1>2, NoticesKept
  <2>2. Good(E, NoNotice)'
    <3>1. NoNotice.rts = 0 /\ 0 <= lad.rts  BY Unfolded DEF NoNotice
    <3>2. Good(D, NoNotice) /\ NoNotice \in Notice /\ Known(NoNotice)  BY <1>0, <3>1, GoodNone DEF Known
    <3> QED  BY <1>0, <1>2, <3>2, GoodKept
  <2>3. sig.wn \in {relSig[p].wn, wn, NoNotice}  BY <1>5, <1>7, MergeNotice
  <2> QED  BY <1>2, <2>1, <2>2, <2>3
<1>9. ASSUME NEW c \in Cell, NEW v \in Nat, v <= ver[c], Says(D, relSig[p], c, v) \/ Diff(p, c)
      PROVE  Says(E, sig, c, v)
  <2>1. E \in [Nat -> Data] /\ \A m, n \in Nat : m <= n => Geq(E[n], E[m])
    BY <1>2 DEF DataInv, Contents
  <2>2. Says(D, relSig[p], c, v) => Says(E, relSig[p], c, v)  BY <1>0, <1>2, <1>6, SaysKept
  <2>3. Diff(p, c) => Says(E, made, c, v)
    <3>1. wn.wts \in Nat  BY <1>3 DEF Notice
    <3>2. E[wn.wts][c] \in Nat /\ ver[c] \in Nat  BY <1>0, <2>1, <3>1 DEF DataTypeOK, Data
    <3>3. Diff(p, c) => v <= E[wn.wts][c]  BY <1>2, <1>9, <3>2
    <3> QED  BY <1>5, <3>3 DEF Says
  <2> QED  BY <1>5, <1>6, <1>7, <1>9, <2>1, <2>2, <2>3, MergeSays
<1> QED  BY <1>2, <1>8, <1>9

\* The fence of a second thread, of unlock_mutex and of barrier.
LEMMA FenceFresh ==
    ASSUME TsInv, TsInv', NoPins, ~ LazyMerge, NEW D, FreshInv(D), NEW p \in Proc,
           FenceRelease(p) \/ UnlockMutex(p) \/ BarrierEnter(p)
    PROVE  \E E : FreshInv(E)' /\ DataStep(D, E)
<1> DEFINE OfFence(sig) == /\ relSig' = [relSig EXCEPT ![p] = sig]
                           /\ UNCHANGED <<mtx, pc, acq>>
           OfUnlock(sig) == /\ relSig' = [relSig EXCEPT ![p] = sig] /\ pc[p] = "run"
                            /\ mtx' = [holder |-> NoProc, sig |-> sig, hb |-> hb[p]]
                            /\ mtx.holder = p /\ UNCHANGED <<pc, acq>>
           OfBarrier(sig) == /\ relSig' = [relSig EXCEPT ![p] = EmptySig] /\ pc[p] = "run"
                             /\ acq' = [acq EXCEPT ![p].merge = sig]
                             /\ pc' = [pc EXCEPT ![p] = "bar"] /\ mtx' = mtx
<1>0. /\ DataTypeOK /\ DataInv(D) /\ Owned /\ HbKnown(D) /\ AcqShape /\ DiffLive
      /\ minWr[p] \in Nat /\ fence[p].min \in Nat
      /\ \A q \in Proc : minWr[q] \in Nat /\ le[q].rts \in Nat /\ le'[q].rts \in Nat
  BY Unfolded DEF FreshInv, TsInv, TypeOK
<1>1. UNCHANGED <<minWr, ver, hb>>  BY DEF FenceRelease, UnlockMutex, BarrierEnter
<1>2. PICK min \in Nat : /\ ReleaseBlock(p, min)
                         /\ \E sig \in SigsAfterFence(p, min) : OfFence(sig) \/ OfUnlock(sig) \/ OfBarrier(sig)
  BY <1>0 DEF FenceRelease, UnlockMutex, BarrierEnter
<1>3. PICK sig \in SigsAfterFence(p, min) : OfFence(sig) \/ OfUnlock(sig) \/ OfBarrier(sig)
  BY <1>2
<1>4. PICK E : /\ priv' \in [Proc -> Data] /\ pub' \in [Proc -> Data]
               /\ DataInv(E)' /\ DataStep(D, E) /\ Listed'
               /\ \A q \in Proc, c \in Cell : Diff(q, c)' <=> q # p /\ Diff(q, c)
               /\ Good(E, sig.wn)'
               /\ \A c \in Cell, v \in Nat :
                     v <= ver[c] /\ (Says(D, relSig[p], c, v) \/ Diff(p, c)) => Says(E, sig, c, v)
  BY <1>1, <1>2, FenceSays
<1>5. /\ acq \in [Proc -> ToAcquire] /\ relSig \in [Proc -> Sig] /\ pc \in [Proc -> {"run", "acq", "bar"}]
      /\ acq[p] \in ToAcquire
  BY Unfolded DEF TsInv, TypeOK
<1>6. /\ \A q \in Proc : acq'[q].min = acq[q].min /\ acq'[q].wns = acq[q].wns
      /\ \A q \in Proc \ {p} : acq'[q].merge = acq[q].merge /\ relSig'[q] = relSig[q] /\ pc'[q] = pc[q]
      /\ OfFence(sig) \/ OfUnlock(sig) => relSig'[p] = sig /\ acq' = acq /\ pc' = pc
      /\ OfBarrier(sig) => relSig'[p] = EmptySig /\ acq'[p].merge = sig /\ pc'[p] = "bar"
  <2>1. CASE OfFence(sig) \/ OfUnlock(sig)  BY <1>5, <2>1
  <2>2. CASE OfBarrier(sig)
    <3>1. /\ acq'[p].min = acq[p].min /\ acq'[p].wns = acq[p].wns /\ acq'[p].merge = sig
          /\ \A q \in Proc \ {p} : acq'[q] = acq[q]
      BY <1>5, <2>2 DEF ToAcquire
    <3>2. /\ relSig'[p] = EmptySig /\ pc'[p] = "bar"
          /\ \A q \in Proc \ {p} : relSig'[q] = relSig[q] /\ pc'[q] = pc[q]
      BY <1>5, <2>2
    <3>3. ~ (OfFence(sig) \/ OfUnlock(sig)) \/ (relSig'[p] = sig /\ acq' = acq /\ pc' = pc)
      BY <1>5
    <3> QED  BY <3>1, <3>2, <3>3
  <2> QED  BY <1>3, <2>1, <2>2
<1>7. \A q \in Proc : AcqKept(q)
  BY <1>0, <1>1, <1>6 DEF AcqKept
<1>8. DataTypeOK'
  <2>1. mtx' = mtx \/ (mtx'.hb = hb[p] /\ mtx'.holder = NoProc)  BY <1>3
  <2> QED  BY <1>0, <1>1, <1>4, <2>1 DEF DataTypeOK
<1>9. Owned'
  <2> SUFFICES ASSUME NEW q \in Proc, NEW c \in Cell, Diff(q, c)'
               PROVE  c = q \/ (c = Shared /\ mtx'.holder = q)
    BY DEF Owned, MayWrite
  <2>1. q # p /\ (c = q \/ (c = Shared /\ mtx.holder = q))  BY <1>0, <1>4 DEF Owned, MayWrite
  <2> QED  BY <1>3, <2>1
<1>10. Notices(E)'
  <2>1. Good(E, NoNotice)'
    <3>1. NoNotice.rts = 0 /\ 0 <= lad.rts  BY Unfolded DEF NoNotice
    <3>2. Good(D, NoNotice) /\ NoNotice \in Notice /\ Known(NoNotice)  BY <1>0, <3>1, GoodNone DEF Known
    <3> QED  BY <1>0, <1>4, <3>2, GoodKept
  <2>2. /\ \A wn \in {mtx.sig.wn} : Good(E, wn)'
        /\ \A q \in Proc : /\ \A wn \in {relSig[q].wn, acq[q].merge.wn} : Good(E, wn)'
                           /\ \A wn \in acq[q].wns : Good(E, wn)'
    BY <1>4, NoticesKept
  <2>3. EmptySig.wn = NoNotice  BY DEF EmptySig
  <2>4. mtx'.sig.wn \in {mtx.sig.wn, sig.wn}  BY <1>3
  <2>5. \A q \in Proc : /\ relSig'[q].wn \in {relSig[q].wn, sig.wn, NoNotice}
                        /\ acq'[q].merge.wn \in {acq[q].merge.wn, sig.wn}
    BY <1>3, <1>6, <2>3
  <2>6. \A wn \in {mtx'.sig.wn} : Good(E, wn)'  BY <1>4, <2>2, <2>4
  <2>7. \A q \in Proc : \A wn \in {relSig'[q].wn, acq'[q].merge.wn} : Good(E, wn)'
    BY <1>4, <2>1, <2>2, <2>5
  <2>8. \A q \in Proc : \A wn \in acq'[q].wns : Good(E, wn)'  BY <1>6, <2>2
  <2> QED  BY <2>6, <2>7, <2>8 DEF Notices
<1>11. \A q \in Proc, c \in Cell : hb[q][c] \in Nat /\ ver[c] \in Nat
  BY <1>0 DEF DataTypeOK, Data
<1>12. HbKnown(E)'
  <2> SUFFICES ASSUME NEW q \in Proc, NEW c \in Cell, NEW v, v = hb[q][c]
               PROVE  v <= ver[c] /\ Knows(E, q, c, v)' /\ Said(E, q, c, v)'
    BY <1>1 DEF HbKnown
  <2>1. v \in Nat /\ v <= ver[c] /\ Knows(D, q, c, v) /\ Said(D, q, c, v)
    BY <1>0, <1>11 DEF HbKnown
  <2>2. Knows(E, q, c, v)'  BY <1>0, <1>4, <1>7, <2>1, KnowsKept
  <2>3. CASE q # p
    <3>1. Diff(q, c) => Diff(q, c)'  BY <1>4, <2>3
    <3>2. Said(E, q, c, v)'  BY <1>0, <1>4, <1>6, <1>7, <2>1, <2>3, <3>1, SaidKept
    <3> QED  BY <2>1, <2>2, <3>2
  <2>4. CASE q = p
    <3>1. CASE Common(D, c, v)
      <4>1. Common(E, c, v)'  BY <1>0, <1>4, <1>7, <2>1, <3>1, CommonKept
      <4> QED  BY <2>1, <2>2, <4>1 DEF Said
    <3>2. CASE pc[p] # "bar" /\ (Says(D, relSig[p], c, v) \/ Diff(p, c))
      <4>1. Says(E, sig, c, v)  BY <1>4, <2>1, <3>2
      <4>2. CASE OfFence(sig) \/ OfUnlock(sig)
        BY <1>6, <2>1, <2>2, <2>4, <3>2, <4>1, <4>2 DEF Said, Says
      <4>3. CASE OfBarrier(sig)
        BY <1>6, <2>1, <2>2, <2>4, <4>1, <4>3 DEF Said, Says
      <4> QED  BY <1>3, <4>2, <4>3
    <3>3. CASE pc[p] # "run" /\ Says(D, acq[p].merge, c, v)
      <4>1. OfFence(sig)  BY <1>3, <3>3
      <4>2. acq[p].merge \in Sig  BY <1>5 DEF ToAcquire
      <4>3. Says(E, acq[p].merge, c, v)  BY <1>0, <1>4, <2>1, <3>3, <4>2, SaysKept
      <4> QED  BY <2>1, <2>2, <2>4, <3>3, <4>1, <4>3 DEF Said, Says
    <3> QED  BY <2>1, <2>4, <3>1, <3>2, <3>3 DEF Said
  <2> QED  BY <2>3, <2>4
<1>13. MtxSaid(E)'
  <2>1. CASE mtx' = mtx
    <3>1. ver' \in Data /\ \A c \in Cell : ver'[c] >= ver[c]  BY <1>0, <1>1, <1>11 DEF DataTypeOK, Data
    <3> QED  BY <1>4, <1>7, <2>1, <3>1, MtxKept
  <2>2. CASE OfUnlock(sig)
    <3> SUFFICES ASSUME NEW c \in Cell, NEW v, v = hb[p][c]
                 PROVE  v <= ver[c] /\ (Common(E, c, v)' \/ Says(E, sig, c, v))
      BY <1>1, <2>2 DEF MtxSaid, Says
    <3>1. v \in Nat /\ v <= ver[c] /\ Said(D, p, c, v)  BY <1>0, <1>11 DEF HbKnown
    <3>2. Common(D, c, v) => Common(E, c, v)'  BY <1>0, <1>4, <1>7, <3>1, CommonKept
    <3>3. Common(D, c, v) \/ Says(D, relSig[p], c, v) \/ Diff(p, c)  BY <2>2, <3>1 DEF Said
    <3> QED  BY <1>4, <3>1, <3>2, <3>3
  <2> QED  BY <1>3, <2>1, <2>2
<1>14. AcqShape'
  <2>1. CASE acq' = acq /\ pc' = pc  BY <1>0, <2>1 DEF AcqShape
  <2>2. CASE OfBarrier(sig)
    <3>1. acq[p] = NothingToAcquire  BY <1>0, <2>2 DEF AcqShape
    <3>2. acq'[p].wns = {} /\ acq'[p].min = 0 /\ pc'[p] = "bar"  BY <1>6, <2>2, <3>1 DEF NothingToAcquire
    <3>3. \A q \in Proc \ {p} : acq'[q] = acq[q] /\ pc'[q] = pc[q]  BY <1>5, <2>2
    <3> QED  BY <1>0, <3>2, <3>3 DEF AcqShape
  <2> QED  BY <1>3, <1>6, <2>1, <2>2
<1>15. DiffLive'
  <2> SUFFICES ASSUME NEW q \in Proc, NEW c \in Cell, Diff(q, c)'
               PROVE  le'[q].rts >= minWr[q] /\ (MaxCut = 0 \/ pc'[q] = "run")
    BY <1>1 DEF DiffLive
  <2>1. q # p /\ Diff(q, c)  BY <1>4
  <2>2. le[q].rts >= minWr[q] /\ (MaxCut = 0 \/ pc[q] = "run")  BY <1>0, <2>1 DEF DiffLive
  <2>3. le'[q].rts >= le[q].rts  BY <1>4 DEF DataStep
  <2> QED  BY <1>0, <1>6, <2>1, <2>2, <2>3
<1> QED  BY <1>4, <1>8, <1>9, <1>10, <1>12, <1>13, <1>14, <1>15 DEF FreshInv

----------------------------------------------------------------------------
(* Locks and barriers: versions are joined *)

\* A set of numbers has a least one.
LEMMA LeastNumber ==
    ASSUME NEW T \in SUBSET Nat, T # {}
    PROVE  \E x \in T : \A y \in T : x <= y
<1>0. PICK R : R = OpToRel(<, Nat)  OBVIOUS
<1>1. IsWellFoundedOn(R, Nat)  BY <1>0, NatLessThanWellFounded, Zenon
<1>2. \E x \in T : \A y \in T : ~ (<<y, x>> \in R)  BY <1>1, WFMin, Zenon
<1>3. \A x, y \in Nat : y < x => <<y, x>> \in R  BY <1>0 DEF OpToRel
<1>4. PICK x \in T : \A y \in T : ~ (<<y, x>> \in R)  BY <1>2
<1>5. ASSUME NEW y \in T PROVE x <= y
  <2>1. x \in Nat /\ y \in Nat /\ <<y, x>> \notin R  BY <1>4
  <2>2. ~ (y < x)  BY <1>3, <2>1
  <2> QED  BY <2>1, <2>2
<1> QED  BY <1>5

\* The join takes every cell from one of the copies, the newest.
LEMMA JoinFacts ==
    ASSUME NEW S \in SUBSET Data, S # {}, NEW c \in Cell, NEW b \in Nat, \A d \in S : d[c] <= b
    PROVE  \E d \in S : JoinData(S)[c] = d[c] /\ \A e \in S : e[c] <= d[c]
<1>1. \A d \in S : d[c] \in Nat  BY DEF Data
<1> DEFINE T == {b - d[c] : d \in S}
<1>2. T \in SUBSET Nat /\ T # {}  BY <1>1
<1>3. PICK x \in T : \A y \in T : x <= y  BY <1>2, LeastNumber
<1>4. PICK d \in S : x = b - d[c]  BY <1>3
<1>5. ASSUME NEW e \in S PROVE e[c] <= d[c]
  <2>1. b - e[c] \in T  OBVIOUS
  <2>2. b - d[c] <= b - e[c]  BY <1>3, <1>4, <2>1
  <2> QED  BY <1>1, <2>2
<1> DEFINE M == {f[c] : f \in S}
           n == CHOOSE m \in M : \A e \in S : e[c] <= m
<1>6. d[c] \in M /\ \A e \in S : e[c] <= d[c]  BY <1>5
<1>7. n \in M /\ \A e \in S : e[c] <= n  BY <1>6
<1>8. PICK f \in S : n = f[c]  BY <1>7
<1>9. JoinData(S)[c] = n  BY DEF JoinData
<1> QED  BY <1>7, <1>8, <1>9

LEMMA JoinShape ==
    ASSUME NEW S
    PROVE  JoinData(S) = [c \in Cell |-> JoinData(S)[c]]
BY DEF JoinData

\* The next holder of the mutex takes over what its last holder knew.
LEMMA LockFresh ==
    ASSUME TsInv, TsInv', NEW D, FreshInv(D), MaxCut = 0 \/ "mutex" \notin Usage, NEW p \in Proc, LockMutex(p)
    PROVE  FreshInv(D)' /\ DataStep(D, D)
<1>0. DataTypeOK /\ DataInv(D) /\ Owned /\ Listed /\ HbKnown(D) /\ MtxSaid(D) /\ AcqShape /\ DiffLive
  BY DEF FreshInv
<1>1. /\ UNCHANGED <<le, lad, priv, pub, minWr, wrSet, relSig, ver>>
      /\ pc[p] = "run" /\ mtx.holder = NoProc /\ mtx' = [mtx EXCEPT !.holder = p] /\ MaxCut = 0
      /\ acq' = [acq EXCEPT ![p] = [wns |-> {mtx.sig.wn}, min |-> mtx.sig.min, merge |-> mtx.sig]]
      /\ pc' = [pc EXCEPT ![p] = "acq"]
      /\ hb' = [hb EXCEPT ![p] = JoinData({hb[p], mtx.hb})]
  BY DEF LockMutex
<1>2. DataInv(D)' /\ DataStep(D, D)  BY <1>0, <1>1, QuietData
<1>3. \A q \in Proc, c \in Cell : Diff(q, c)' <=> Diff(q, c)  BY <1>1 DEF Diff
<1>4. /\ \A q \in Proc : minWr[q] \in Nat
      /\ \A q \in Proc, c \in Cell : hb[q][c] \in Nat /\ ver[c] \in Nat /\ mtx.hb[c] \in Nat
  BY <1>0, Unfolded DEF DataTypeOK, Data
<1>5. /\ acq'[p].wns = {mtx.sig.wn} /\ acq'[p].min = mtx.sig.min /\ acq'[p].merge = mtx.sig /\ pc'[p] = "acq"
      /\ \A q \in Proc \ {p} : acq'[q] = acq[q] /\ pc'[q] = pc[q]
  BY <1>1, Unfolded DEF TsInv, TypeOK
<1>6. mtx'.sig = mtx.sig /\ mtx'.hb = mtx.hb /\ mtx'.holder = p
  <2>1. mtx = [holder |-> mtx.holder, sig |-> mtx.sig, hb |-> mtx.hb]  BY DEF TsInv, MutexShape
  <2> QED  BY <1>1, <2>1
<1>7. \A c \in Cell : JoinData({hb[p], mtx.hb})[c] \in {hb[p][c], mtx.hb[c]}
  <2> SUFFICES ASSUME NEW c \in Cell PROVE JoinData({hb[p], mtx.hb})[c] \in {hb[p][c], mtx.hb[c]}
    OBVIOUS
  <2>1. {hb[p], mtx.hb} \in SUBSET Data  BY <1>0 DEF DataTypeOK
  <2>2. \A d \in {hb[p], mtx.hb} : d[c] <= ver[c]  BY <1>0 DEF HbKnown, MtxSaid
  <2>3. \E d \in {hb[p], mtx.hb} : JoinData({hb[p], mtx.hb})[c] = d[c]
    BY <1>4, <2>1, <2>2, JoinFacts
  <2> QED  BY <2>3
<1>8. JoinData({hb[p], mtx.hb}) \in Data
  <2>1. \A c \in Cell : JoinData({hb[p], mtx.hb})[c] \in Nat  BY <1>4, <1>7
  <2>2. JoinData({hb[p], mtx.hb}) = [c \in Cell |-> JoinData({hb[p], mtx.hb})[c]]  BY JoinShape
  <2> QED  BY <2>1, <2>2 DEF Data
<1>9. /\ \A c \in Cell : hb'[p][c] \in {hb[p][c], mtx.hb[c]}
      /\ \A q \in Proc \ {p} : hb'[q] = hb[q]
      /\ hb' \in [Proc -> Data]
  BY <1>0, <1>1, <1>7, <1>8 DEF DataTypeOK
<1>10. DataTypeOK'  BY <1>0, <1>1, <1>6, <1>9 DEF DataTypeOK
<1>11. Owned'
  <2> SUFFICES ASSUME NEW q \in Proc, NEW c \in Cell, Diff(q, c)' PROVE c = q  BY DEF Owned, MayWrite
  <2> QED  BY <1>0, <1>1, <1>3, NoProcAssumption DEF Owned, MayWrite
<1>12. Listed'  BY <1>0, <1>1 DEF Listed
<1>13. acq[p] = NothingToAcquire /\ acq[p].wns = {} /\ acq[p].min = 0
  BY <1>0, <1>1 DEF AcqShape, NothingToAcquire
<1>14. \A q \in Proc : AcqKept(q)
  BY <1>1, <1>4, <1>5, <1>13 DEF AcqKept
<1>15. Notices(D)'
  <2>1. pub' \in [Proc -> Data]  BY <1>10 DEF DataTypeOK
  <2>2. /\ \A wn \in {mtx.sig.wn} : Good(D, wn)'
        /\ \A q \in Proc : /\ \A wn \in {relSig[q].wn, acq[q].merge.wn} : Good(D, wn)'
                           /\ \A wn \in acq[q].wns : Good(D, wn)'
    BY <1>2, <2>1, NoticesKept
  <2>3. \A q \in Proc : /\ acq'[q].merge.wn \in {mtx.sig.wn, acq[q].merge.wn}
                        /\ \A wn \in acq'[q].wns : wn \in {mtx.sig.wn} \cup acq[q].wns
    BY <1>5
  <2>4. \A q \in Proc : /\ \A wn \in {relSig'[q].wn, acq'[q].merge.wn} : Good(D, wn)'
                        /\ \A wn \in acq'[q].wns : Good(D, wn)'
    BY <1>1, <2>2, <2>3
  <2> QED  BY <1>6, <2>2, <2>4 DEF Notices
<1>16. HbKnown(D)'
  <2> SUFFICES ASSUME NEW q \in Proc, NEW c \in Cell, NEW v, v = hb'[q][c]
               PROVE  v <= ver[c] /\ Knows(D, q, c, v)' /\ Said(D, q, c, v)'
    BY <1>1 DEF HbKnown
  <2>1. CASE v = hb[q][c]
    <3>1. v \in Nat /\ v <= ver[c] /\ Knows(D, q, c, v) /\ Said(D, q, c, v)
      BY <1>0, <1>4, <2>1 DEF HbKnown
    <3>2. Knows(D, q, c, v)'  BY <1>0, <1>2, <1>14, <3>1, KnowsKept
    <3>3. CASE q # p
      <4>1. Said(D, q, c, v)'  BY <1>0, <1>1, <1>2, <1>3, <1>5, <1>14, <3>1, <3>3, SaidKept
      <4> QED  BY <3>1, <3>2, <4>1
    <3>4. CASE q = p
      <4>1. Common(D, c, v) => Common(D, c, v)'  BY <1>0, <1>2, <1>14, <3>1, CommonKept
      <4>2. Common(D, c, v) \/ Says(D, relSig[p], c, v) \/ Diff(p, c)  BY <1>1, <3>1, <3>4 DEF Said
      <4>3. pc'[p] # "bar" /\ relSig' = relSig  BY <1>1, <1>5
      <4>4. Said(D, p, c, v)'  BY <1>3, <4>1, <4>2, <4>3 DEF Said, Says
      <4> QED  BY <3>1, <3>2, <3>4, <4>4
    <3> QED  BY <3>3, <3>4
  <2>2. CASE q = p /\ v = mtx.hb[c]
    <3>1. v \in Nat /\ v <= ver[c] /\ (Common(D, c, v) \/ Says(D, mtx.sig, c, v))
      BY <1>0, <1>4, <2>2 DEF MtxSaid
    <3>2. CASE Common(D, c, v)
      <4>1. Common(D, c, v)'  BY <1>0, <1>2, <1>14, <3>1, <3>2, CommonKept
      <4>2. Knows(D, p, c, v)' /\ Said(D, p, c, v)'  BY <4>1 DEF Common, Said
      <4> QED  BY <2>2, <3>1, <4>2
    <3>3. CASE Says(D, mtx.sig, c, v)
      <4>1. v <= D[acq'[p].min][c] \/ \E wn \in acq'[p].wns : v <= D[wn.wts][c]
        BY <1>5, <3>3 DEF Says
      <4>2. Knows(D, p, c, v)'  BY <4>1 DEF Knows
      <4>3. Said(D, p, c, v)'  BY <1>5, <3>3 DEF Said, Says
      <4> QED  BY <2>2, <3>1, <4>2, <4>3
    <3> QED  BY <3>1, <3>2, <3>3
  <2> QED  BY <1>9, <2>1, <2>2
<1>17. MtxSaid(D)'
  <2>1. ver' \in Data /\ \A c \in Cell : ver'[c] >= ver[c]  BY <1>0, <1>1, <1>4 DEF DataTypeOK, Data
  <2> QED  BY <1>2, <1>6, <1>14, <2>1, MtxKept
<1>18. AcqShape'  BY <1>0, <1>5 DEF AcqShape
<1>19. DiffLive'  BY <1>0, <1>1, <1>3 DEF DiffLive
<1> QED  BY <1>2, <1>10, <1>11, <1>12, <1>15, <1>16, <1>17, <1>18, <1>19 DEF FreshInv

\* After the exchange of a barrier everybody knows of all that anybody knew.
LEMMA GatherFresh ==
    ASSUME TsInv, TsInv', NEW D, FreshInv(D), AllGather
    PROVE  FreshInv(D)' /\ DataStep(D, D)
<1>0. DataTypeOK /\ DataInv(D) /\ Owned /\ Listed /\ HbKnown(D) /\ MtxSaid(D) /\ AcqShape /\ DiffLive
  BY DEF FreshInv
<1>1. /\ UNCHANGED <<le, lad, priv, pub, minWr, wrSet, relSig, mtx, ver>>
      /\ \A p \in Proc : pc[p] = "bar"
      /\ pc' = [p \in Proc |-> "acq"]
      /\ hb' = [p \in Proc |-> JoinData({hb[q] : q \in Proc})]
  BY DEF AllGather
<1>2. PICK min \in [Proc -> {0} \cup {acq[q].merge.min : q \in Proc}] :
        /\ \A p \in Proc : \A q \in Proc \ {p} : acq[q].merge.min <= min[p]
        /\ acq' = [p \in Proc |-> [wns |-> {acq[q].merge.wn : q \in Proc \ {p}},
                                   min |-> min[p], merge |-> EmptySig]]
  BY DEF AllGather
<1>3. DataInv(D)' /\ DataStep(D, D)  BY <1>0, <1>1, QuietData
<1>4. \A q \in Proc, c \in Cell : Diff(q, c)' <=> Diff(q, c)  BY <1>1 DEF Diff
<1>5. /\ \A q \in Proc : minWr[q] \in Nat /\ acq[q].merge.min \in Nat /\ acq[q].merge.wn.wts \in Nat
      /\ \A q \in Proc, c \in Cell : hb[q][c] \in Nat /\ ver[c] \in Nat
  BY <1>0, Unfolded DEF DataTypeOK, Data, ToAcquire, Sig, Notice
<1>6. \A p \in Proc : /\ acq'[p].wns = {acq[q].merge.wn : q \in Proc \ {p}}
                      /\ acq'[p].min = min[p] /\ acq'[p].merge = EmptySig /\ pc'[p] = "acq"
  BY <1>1, <1>2
<1>7. PICK J : J = JoinData({hb[q] : q \in Proc})  OBVIOUS
<1>8. \A c \in Cell : \E q \in Proc : J[c] = hb[q][c]
  <2> SUFFICES ASSUME NEW c \in Cell PROVE \E q \in Proc : J[c] = hb[q][c]  OBVIOUS
  <2>1. {hb[q] : q \in Proc} \in SUBSET Data /\ {hb[q] : q \in Proc} # {}
    BY <1>0, BlockAssumption DEF DataTypeOK
  <2>2. \A d \in {hb[q] : q \in Proc} : d[c] <= ver[c]  BY <1>0 DEF HbKnown
  <2>3. ver[c] \in Nat  BY <1>0 DEF DataTypeOK, Data
  <2>4. \E d \in {hb[q] : q \in Proc} : J[c] = d[c]  BY <1>7, <2>1, <2>2, <2>3, JoinFacts
  <2> QED  BY <2>4
<1>9. J \in Data
  <2>1. \A c \in Cell : J[c] \in Nat  BY <1>5, <1>8
  <2>2. J = [c \in Cell |-> J[c]]  BY <1>7, JoinShape
  <2> QED  BY <2>1, <2>2 DEF Data
<1>10. \A p \in Proc : hb'[p] = J  BY <1>1, <1>7
<1>11. DataTypeOK'
  <2>1. hb' \in [Proc -> Data]  BY <1>1, <1>7, <1>9
  <2> QED  BY <1>0, <1>1, <2>1 DEF DataTypeOK
<1>12. Owned' /\ Listed' /\ AcqShape'
  BY <1>0, <1>1, <1>4, <1>6 DEF Owned, MayWrite, Listed, AcqShape
<1>13. \A q \in Proc : acq[q].wns = {} /\ acq[q].min = 0  BY <1>0, <1>1 DEF AcqShape
<1>14. \A q \in Proc : AcqKept(q)  BY <1>1, <1>5, <1>13 DEF AcqKept
<1>15. Notices(D)'
  <2>1. pub' \in [Proc -> Data]  BY <1>11 DEF DataTypeOK
  <2>2. /\ \A wn \in {mtx.sig.wn} : Good(D, wn)'
        /\ \A q \in Proc : \A wn \in {relSig[q].wn, acq[q].merge.wn} : Good(D, wn)'
    BY <1>3, <2>1, NoticesKept
  <2>3. Good(D, NoNotice)'
    <3>1. NoNotice.rts = 0 /\ 0 <= lad.rts  BY Unfolded DEF NoNotice
    <3>2. Good(D, NoNotice) /\ NoNotice \in Notice /\ Known(NoNotice)  BY <1>0, <3>1, GoodNone DEF Known
    <3> QED  BY <1>0, <1>3, <2>1, <3>2, GoodKept
  <2>4. \A q \in Proc : /\ acq'[q].merge.wn = NoNotice
                        /\ \A wn \in acq'[q].wns : \E r \in Proc : wn = acq[r].merge.wn
    BY <1>6 DEF EmptySig
  <2>5. \A q \in Proc : /\ \A wn \in {relSig'[q].wn, acq'[q].merge.wn} : Good(D, wn)'
                        /\ \A wn \in acq'[q].wns : Good(D, wn)'
    BY <1>1, <2>2, <2>3, <2>4
  <2> QED  BY <1>1, <2>2, <2>5 DEF Notices
<1>16. ASSUME NEW c \in Cell, NEW v, v = J[c] PROVE v <= ver[c] /\ Common(D, c, v)'
  <2>1. PICK q \in Proc : v = hb[q][c]  BY <1>8, <1>16
  <2>2. v \in Nat /\ v <= ver[c] /\ Knows(D, q, c, v) /\ Said(D, q, c, v)
    BY <1>0, <1>5, <2>1 DEF HbKnown
  <2>3. CASE Common(D, c, v)  BY <1>0, <1>3, <1>14, <2>2, <2>3, CommonKept
  <2>4. CASE Says(D, acq[q].merge, c, v)
    <3> SUFFICES ASSUME NEW r \in Proc PROVE Knows(D, r, c, v)'  BY <2>2 DEF Common
    <3>1. CASE r = q  BY <1>0, <1>3, <1>14, <2>2, <3>1, KnowsKept
    <3>2. CASE r # q
      <4>1. CASE v <= D[acq[q].merge.wn.wts][c]
        <5>1. acq[q].merge.wn \in acq'[r].wns  BY <1>6, <3>2
        <5> QED  BY <4>1, <5>1 DEF Knows
      <4>2. CASE v <= D[acq[q].merge.min][c]
        <5>1. acq[q].merge.min <= min[r] /\ min[r] \in Nat  BY <1>2, <1>5, <3>2
        <5>2. v <= D[min[r]][c]  BY <1>0, <1>3, <1>5, <2>2, <4>2, <5>1, VersionGrows
        <5> QED  BY <1>6, <5>2 DEF Knows
      <4> QED  BY <2>4, <4>1, <4>2 DEF Says
    <3> QED  BY <3>1, <3>2
  <2> QED  BY <1>1, <2>2, <2>3, <2>4 DEF Said
<1>17. HbKnown(D)'
  <2> SUFFICES ASSUME NEW q \in Proc, NEW c \in Cell, NEW v, v = J[c]
               PROVE  v <= ver[c] /\ Knows(D, q, c, v)' /\ Said(D, q, c, v)'
    BY <1>1, <1>10 DEF HbKnown
  <2> QED  BY <1>16 DEF Common, Said
<1>18. MtxSaid(D)'
  <2>1. ver' \in Data /\ \A c \in Cell : ver'[c] >= ver[c]  BY <1>0, <1>1 DEF DataTypeOK, Data
  <2> QED  BY <1>1, <1>3, <1>14, <2>1, MtxKept
<1>19. DiffLive'
  <2> SUFFICES ASSUME NEW q \in Proc, NEW c \in Cell, Diff(q, c)
               PROVE  le[q].rts >= minWr[q] /\ MaxCut = 0
    BY <1>1, <1>4 DEF DiffLive
  <2> QED  BY <1>0, <1>1 DEF DiffLive
<1> QED  BY <1>3, <1>11, <1>12, <1>15, <1>17, <1>18, <1>19 DEF FreshInv

----------------------------------------------------------------------------
(* Acquires: what is applied is known from then on *)

LEMMA AcquireWnFresh ==
    ASSUME TsInv, TsInv', ExpInv, NEW D, FreshInv(D), NEW p \in Proc, AcquireWn(p)
    PROVE  FreshInv(D)' /\ DataStep(D, D)
<1>0. /\ DataTypeOK /\ DataInv(D) /\ Owned /\ Listed /\ Notices(D) /\ HbKnown(D) /\ AcqShape /\ DiffLive
      /\ le[p].st # "pinned"
  BY DEF FreshInv, ExpInv, NoPins
<1>1. /\ UNCHANGED <<minWr, wrSet, relSig, mtx, pc, ver, hb>> /\ pc[p] = "acq"
  BY DEF AcquireWn
<1>2. PICK wn \in acq[p].wns :
        /\ acq' = [acq EXCEPT ![p].wns = @ \ {wn}]
        /\ IF wn.wts > le[p].rts
           THEN InvalidateTo(p, Noticed(le[p], wn, wn.rts), minWr[p])
           ELSE UNCHANGED <<le, lad, owner, tx, priv, pub>>
  BY DEF AcquireWn
<1>3. /\ acq \in [Proc -> ToAcquire] /\ acq[p] \in ToAcquire /\ wn \in Notice /\ wn.wts \in Nat
      /\ \A q \in Proc : minWr[q] \in Nat /\ le[q].rts \in Nat /\ le'[q].rts \in Nat
  BY SMTT(30), <1>2, Unfolded DEF ToAcquire, Notice, TsInv, TypeOK
<1>4. /\ acq'[p].wns = acq[p].wns \ {wn} /\ acq'[p].min = acq[p].min /\ acq'[p].merge = acq[p].merge
      /\ \A q \in Proc \ {p} : acq'[q] = acq[q]
  BY <1>2, <1>3 DEF ToAcquire
<1>5. /\ UNCHANGED <<lad, priv, pub>> /\ DataInv(D)' /\ DataStep(D, D)
      /\ \A q \in Proc, c \in Cell : Diff(q, c)' <=> Diff(q, c)
      /\ \A q \in Proc : Dirty(le'[q].st) <=> Dirty(le[q].st)
      /\ wn.wts <= le'[p].rts
  <2>1. CASE wn.wts > le[p].rts
    <3>1. Good(D, wn)  BY <1>0, <1>2 DEF Notices
    <3>2. /\ UNCHANGED <<lad, priv, pub>> /\ \A q \in Proc \ {p} : le'[q] = le[q]
          /\ le'[p].rts = wn.rts /\ wn.rts >= wn.wts /\ (Dirty(le'[p].st) <=> Dirty(le[p].st))
          /\ DataInv(D)' /\ DataStep(D, D) /\ \A q \in Proc, c \in Cell : Diff(q, c)' <=> Diff(q, c)
      BY <1>0, <1>1, <1>2, <1>3, <2>1, <3>1, NoticedData
    <3>3. wn.rts \in Nat  BY <1>3 DEF Notice
    <3> QED  BY <1>3, <3>2, <3>3
  <2>2. CASE ~ (wn.wts > le[p].rts)
    <3>1. UNCHANGED <<le, lad, priv, pub, ver>>  BY <1>1, <1>2, <2>2
    <3>2. DataInv(D)' /\ DataStep(D, D)  BY <1>0, <3>1, QuietData
    <3>3. \A q \in Proc, c \in Cell : Diff(q, c)' <=> Diff(q, c)  BY <3>1 DEF Diff
    <3>4. wn.wts <= le'[p].rts  BY <1>3, <2>2, <3>1
    <3> QED  BY <3>1, <3>2, <3>3, <3>4
  <2> QED  BY <2>1, <2>2
<1>6. \A q \in Proc : AcqKept(q)
  BY <1>1, <1>3, <1>4, <1>5 DEF AcqKept
<1>7. DataTypeOK' /\ Owned' /\ Listed'
  BY <1>0, <1>1, <1>5 DEF DataTypeOK, Owned, MayWrite, Listed
<1>8. Notices(D)'
  <2>1. pub' \in [Proc -> Data]  BY <1>7 DEF DataTypeOK
  <2>2. /\ \A n \in {mtx.sig.wn} : Good(D, n)'
        /\ \A q \in Proc : /\ \A n \in {relSig[q].wn, acq[q].merge.wn} : Good(D, n)'
                           /\ \A n \in acq[q].wns : Good(D, n)'
    BY <1>5, <2>1, NoticesKept
  <2>3. \A q \in Proc : acq'[q].merge = acq[q].merge /\ acq'[q].wns \subseteq acq[q].wns  BY <1>4
  <2> QED  BY <1>1, <2>2, <2>3 DEF Notices
<1>9. HbKnown(D)'
  <2> SUFFICES ASSUME NEW q \in Proc, NEW c \in Cell, NEW v, v = hb[q][c]
               PROVE  v <= ver[c] /\ Knows(D, q, c, v)' /\ Said(D, q, c, v)'
    BY <1>1 DEF HbKnown
  <2>1. v \in Nat /\ v <= ver[c] /\ Knows(D, q, c, v) /\ Said(D, q, c, v)
    BY <1>0, CellFacts DEF HbKnown
  <2>2. Knows(D, q, c, v)'  BY <1>0, <1>5, <1>6, <2>1, KnowsKept
  <2>3. relSig'[q] = relSig[q] /\ acq'[q].merge = acq[q].merge /\ pc'[q] = pc[q]  BY <1>1, <1>4
  <2>4. Said(D, q, c, v)'  BY <1>0, <1>5, <1>6, <2>1, <2>3, SaidKept
  <2> QED  BY <2>1, <2>2, <2>4
<1>10. MtxSaid(D)'
  <2>1. ver' \in Data /\ \A c \in Cell : ver'[c] >= ver[c]  BY <1>0, <1>1 DEF DataTypeOK, Data
  <2> QED  BY <1>1, <1>5, <1>6, <2>1, MtxKept
<1>11. AcqShape'  BY <1>0, <1>1, <1>4 DEF AcqShape
<1>12. DiffLive'
  <2> SUFFICES ASSUME NEW q \in Proc, NEW c \in Cell, Diff(q, c)'
               PROVE  le'[q].rts >= minWr[q] /\ (MaxCut = 0 \/ pc[q] = "run")
    BY <1>1 DEF DiffLive
  <2>1. le[q].rts >= minWr[q] /\ (MaxCut = 0 \/ pc[q] = "run")  BY <1>0, <1>5 DEF DiffLive
  <2>2. le'[q].rts >= le[q].rts  BY <1>5 DEF DataStep
  <2> QED  BY <1>3, <2>1, <2>2
<1> QED  BY <1>5, <1>7, <1>8, <1>9, <1>10, <1>11, <1>12 DEF FreshInv

LEMMA AcquireMinFresh ==
    ASSUME TsInv, TsInv', ExpInv, ExpInv', NEW D, FreshInv(D), NEW p \in Proc, AcquireMin(p)
    PROVE  FreshInv(D)' /\ DataStep(D, D)
<1>0. /\ DataTypeOK /\ DataInv(D) /\ Owned /\ Listed /\ HbKnown(D) /\ AcqShape /\ DiffLive
      /\ le[p].st # "pinned"
  BY DEF FreshInv, ExpInv, NoPins
<1>1. /\ UNCHANGED <<wrSet, mtx, ver, hb>> /\ pc[p] = "acq" /\ acq[p].wns = {}
      /\ minWr' = [minWr EXCEPT ![p] = BiggerOf(minWr[p], acq[p].min)]
      /\ acq' = [acq EXCEPT ![p] = NothingToAcquire] /\ pc' = [pc EXCEPT ![p] = "run"]
      /\ UNCHANGED <<le, lad, priv, pub>> \/ InvalidateTo(p, le[p], acq[p].min)
      /\ IF acq[p].merge = EmptySig THEN UNCHANGED relSig
         ELSE \E sig \in Truncations(MergeSig(relSig[p], acq[p].merge)) : relSig' = [relSig EXCEPT ![p] = sig]
  BY DEF AcquireMin
<1>2. /\ acq \in [Proc -> ToAcquire] /\ acq[p].min \in Nat /\ acq[p].merge \in Sig
      /\ relSig \in [Proc -> Sig] /\ minWr \in [Proc -> Nat]
      /\ \A q \in Proc : minWr[q] \in Nat /\ le[q].rts \in Nat /\ le'[q].rts \in Nat
      /\ pc \in [Proc -> {"run", "acq", "bar"}]
  BY Unfolded DEF ToAcquire, TsInv, TypeOK
<1>3. /\ minWr'[p] >= minWr[p] /\ minWr'[p] >= acq[p].min /\ minWr'[p] \in Nat
      /\ \A q \in Proc \ {p} : minWr'[q] = minWr[q] /\ acq'[q] = acq[q] /\ pc'[q] = pc[q]
      /\ acq'[p] = NothingToAcquire /\ pc'[p] = "run"
  BY <1>1, <1>2, BiggerOfFacts
<1>4. /\ UNCHANGED <<lad, priv, pub>> /\ DataInv(D)' /\ DataStep(D, D)
      /\ \A q \in Proc, c \in Cell : Diff(q, c)' <=> Diff(q, c)
      /\ \A q \in Proc : Dirty(le'[q].st) <=> Dirty(le[q].st)
  <2>1. CASE InvalidateTo(p, le[p], acq[p].min)
    <3>1. /\ UNCHANGED <<lad, priv, pub>> /\ \A q \in Proc \ {p} : le'[q] = le[q]
          /\ (Dirty(le'[p].st) <=> Dirty(le[p].st))
          /\ DataInv(D)' /\ DataStep(D, D) /\ \A q \in Proc, c \in Cell : Diff(q, c)' <=> Diff(q, c)
      BY <1>0, <1>1, <1>2, <2>1, ExpiredData
    <3> QED  BY <3>1
  <2>2. CASE UNCHANGED <<le, lad, priv, pub>>
    <3>1. DataInv(D)' /\ DataStep(D, D)  BY <1>0, <1>1, <2>2, QuietData
    <3>2. \A q \in Proc, c \in Cell : Diff(q, c)' <=> Diff(q, c)  BY <2>2 DEF Diff
    <3> QED  BY <2>2, <3>1, <3>2
  <2> QED  BY <1>1, <2>1, <2>2
<1>5. \A q \in Proc : AcqKept(q)
  BY <1>1, <1>2, <1>3 DEF AcqKept
<1>6. DataTypeOK' /\ Owned' /\ Listed'
  BY <1>0, <1>1, <1>4 DEF DataTypeOK, Owned, MayWrite, Listed
<1>7. PICK sig : /\ relSig'[p] = sig /\ \A q \in Proc \ {p} : relSig'[q] = relSig[q]
                 /\ \/ acq[p].merge = EmptySig /\ sig = relSig[p]
                    \/ sig \in Truncations(MergeSig(relSig[p], acq[p].merge))
  BY <1>1, <1>2
<1>8. NothingToAcquire.merge = EmptySig /\ EmptySig.wn = NoNotice /\ NothingToAcquire.wns = {}
  BY DEF NothingToAcquire, EmptySig
<1>9. Notices(D)'
  <2>1. pub' \in [Proc -> Data]  BY <1>6 DEF DataTypeOK
  <2>2. /\ \A n \in {mtx.sig.wn} : Good(D, n)'
        /\ \A q \in Proc : /\ \A n \in {relSig[q].wn, acq[q].merge.wn} : Good(D, n)'
                           /\ \A n \in acq[q].wns : Good(D, n)'
    BY <1>4, <2>1, NoticesKept
  <2>3. \A n \in {NoNotice} : Good(D, n)'
    <3>1. NoNotice.rts = 0 /\ 0 <= lad.rts  BY Unfolded DEF NoNotice
    <3>2. Good(D, NoNotice) /\ NoNotice \in Notice /\ Known(NoNotice)  BY <1>0, <3>1, GoodNone DEF Known
    <3>3. Good(D, NoNotice)'  BY <1>0, <1>4, <2>1, <3>2, GoodKept
    <3> QED  BY <3>3
  <2>4. sig.wn \in {relSig[p].wn, acq[p].merge.wn, NoNotice}  BY <1>7, MergeNotice
  <2>5. \A q \in Proc : /\ relSig'[q].wn \in {relSig[q].wn, acq[q].merge.wn, NoNotice}
                        /\ acq'[q].merge.wn \in {acq[q].merge.wn, NoNotice}
                        /\ acq'[q].wns \subseteq acq[q].wns
    BY <1>3, <1>7, <1>8, <2>4
  <2>6. \A q \in Proc : /\ \A n \in {relSig'[q].wn, acq'[q].merge.wn} : Good(D, n)'
                        /\ \A n \in acq'[q].wns : Good(D, n)'
    BY <2>2, <2>3, <2>5
  <2> QED  BY <1>1, <2>2, <2>6 DEF Notices
<1>10. ASSUME NEW c \in Cell, NEW v \in Nat, Says(D, relSig[p], c, v) \/ Says(D, acq[p].merge, c, v)
       PROVE  Says(D, sig, c, v)
  <2>1. /\ D \in [Nat -> Data] /\ \A m, n \in Nat : m <= n => Geq(D[n], D[m])
        /\ D[0][c] = 0
    BY <1>0 DEF DataInv, Contents
  <2>2. relSig[p] \in Sig /\ relSig[p].min \in Nat  BY <1>2 DEF Sig
  <2>3. CASE acq[p].merge = EmptySig /\ sig = relSig[p]
    <3>1. CASE Says(D, relSig[p], c, v)  BY <2>3, <3>1
    <3>2. CASE Says(D, acq[p].merge, c, v)
      <4>1. EmptySig.min = 0 /\ EmptySig.wn.wts = 0  BY DEF EmptySig, NoNotice
      <4>2. v <= 0  BY <2>1, <2>3, <3>2, <4>1 DEF Says
      <4>3. D[relSig[p].min][c] \in Nat  BY <2>1, <2>2 DEF Data
      <4> QED  BY <2>3, <4>2, <4>3 DEF Says
    <3> QED  BY <1>10, <3>1, <3>2
  <2>4. CASE sig \in Truncations(MergeSig(relSig[p], acq[p].merge))
    BY <1>2, <1>10, <2>1, <2>2, <2>4, MergeSays
  <2> QED  BY <1>7, <2>3, <2>4
<1>11. HbKnown(D)'
  <2> SUFFICES ASSUME NEW q \in Proc, NEW c \in Cell, NEW v, v = hb[q][c]
               PROVE  v <= ver[c] /\ Knows(D, q, c, v)' /\ Said(D, q, c, v)'
    BY <1>1 DEF HbKnown
  <2>1. v \in Nat /\ v <= ver[c] /\ Knows(D, q, c, v) /\ Said(D, q, c, v)
    BY <1>0, CellFacts DEF HbKnown
  <2>2. Knows(D, q, c, v)'  BY <1>0, <1>4, <1>5, <2>1, KnowsKept
  <2>3. CASE q # p
    <3>1. relSig'[q] = relSig[q] /\ acq'[q].merge = acq[q].merge /\ pc'[q] = pc[q]  BY <1>3, <1>7, <2>3
    <3>2. Said(D, q, c, v)'  BY <1>0, <1>4, <1>5, <2>1, <3>1, SaidKept
    <3> QED  BY <2>1, <2>2, <3>2
  <2>4. CASE q = p
    <3>1. Common(D, c, v) => Common(D, c, v)'  BY <1>0, <1>4, <1>5, <2>1, CommonKept
    <3>2. \/ Common(D, c, v) \/ Diff(p, c) \/ Says(D, relSig[p], c, v) \/ Says(D, acq[p].merge, c, v)
      BY <2>1, <2>4 DEF Said
    <3>3. Common(D, c, v)' \/ Diff(p, c)' \/ Says(D, sig, c, v)  BY <1>4, <1>10, <2>1, <3>1, <3>2
    <3>4. Said(D, p, c, v)'  BY <1>3, <1>7, <3>3 DEF Said, Says
    <3> QED  BY <2>1, <2>2, <2>4, <3>4
  <2> QED  BY <2>3, <2>4
<1>12. MtxSaid(D)'
  <2>1. ver' \in Data /\ \A c \in Cell : ver'[c] >= ver[c]  BY <1>0, <1>1 DEF DataTypeOK, Data
  <2> QED  BY <1>1, <1>4, <1>5, <2>1, MtxKept
<1>13. AcqShape'  BY <1>0, <1>3 DEF AcqShape
<1>14. DiffLive'
  <2> SUFFICES ASSUME NEW q \in Proc, NEW c \in Cell, Diff(q, c)'
               PROVE  le'[q].rts >= minWr'[q] /\ (MaxCut = 0 \/ pc'[q] = "run")
    BY DEF DiffLive
  <2>1. le[q].rts >= minWr[q] /\ (MaxCut = 0 \/ pc[q] = "run")  BY <1>0, <1>4 DEF DiffLive
  <2>2. le'[q].rts >= le[q].rts  BY <1>4 DEF DataStep
  <2>3. CASE q # p  BY <1>2, <1>3, <2>1, <2>2, <2>3
  <2>4. CASE q = p
    <3>1. MaxCut = 0  BY <1>1, <2>1, <2>4
    <3>2. minWr'[p] <= 0  BY <3>1 DEF ExpInv, MinsAreCuts
    <3> QED  BY <1>2, <1>3, <2>4, <3>1, <3>2
  <2> QED  BY <2>3, <2>4
<1> QED  BY <1>4, <1>6, <1>9, <1>11, <1>12, <1>13, <1>14 DEF FreshInv

----------------------------------------------------------------------------
(* Fresh reads *)

LEMMA FreshInit ==
    ASSUME Init
    PROVE  \E D : FreshInv(D)
<1> DEFINE zero == [c \in Cell |-> 0]
           D == [n \in Nat |-> zero]
<1>0. /\ zero \in Data /\ \A c \in Cell : zero[c] = 0
      /\ D \in [Nat -> Data] /\ \A n \in Nat : D[n] = zero
  BY DEF Data
<1> HIDE DEF zero, D
<1>1. /\ \A p \in Proc : /\ le[p].home = p /\ le[p].rts = 0 /\ le[p].st = "invalid_clean"
                         /\ priv[p] = zero /\ pub[p] = zero /\ hb[p] = zero
                         /\ minWr[p] = 0 /\ relSig[p] = EmptySig /\ acq[p] = NothingToAcquire /\ pc[p] = "run"
      /\ lad.lw = InitWriter /\ lad.wts = 0 /\ lad.rts = 0 /\ InitWriter \in Proc
      /\ ver = zero /\ mtx.sig = EmptySig /\ mtx.hb = zero /\ mtx.holder = NoProc
      /\ priv = [p \in Proc |-> zero] /\ pub = [p \in Proc |-> zero] /\ hb = [p \in Proc |-> zero]
  BY BlockAssumption DEF Init, zero
<1>2. /\ EmptySig.min = 0 /\ EmptySig.wn = NoNotice /\ NoNotice.home = InitWriter
      /\ NoNotice.rts = 0 /\ NoNotice.wts = 0
      /\ NothingToAcquire.wns = {} /\ NothingToAcquire.min = 0 /\ NothingToAcquire.merge = EmptySig
  BY DEF EmptySig, NoNotice, NothingToAcquire
<1>3. DataTypeOK  BY <1>0, <1>1 DEF DataTypeOK
<1>4. Geq(zero, zero)  BY <1>0 DEF Geq
<1>5. Latest = zero  BY <1>1 DEF Latest
<1>6. \A p \in Proc, c \in Cell : ~ Diff(p, c)  BY <1>1 DEF Diff
<1>7. Contents(D) /\ LastWriter /\ Homes(D) /\ Fetched(D)
  BY <1>0, <1>1, <1>4, <1>5 DEF Contents, LastWriter, Homes, Fetched
<1>8. Published  BY <1>0, <1>1, <1>5, <1>6 DEF Published
<1>9. Owned /\ Listed /\ AcqShape /\ DiffLive
  BY <1>1, <1>6 DEF Owned, Listed, Dirty, AcqShape, DiffLive
<1>10. Good(D, NoNotice)  BY <1>0, <1>1, <1>2, <1>4 DEF Good
<1>11. Notices(D)  BY <1>1, <1>2, <1>10 DEF Notices
<1>12. \A c \in Cell, p \in Proc : Knows(D, p, c, 0)  BY <1>0, <1>1 DEF Knows
<1>13. HbKnown(D) /\ MtxSaid(D)
  BY <1>0, <1>1, <1>12 DEF HbKnown, MtxSaid, Said, Common
<1>14. FreshInv(D)  BY <1>3, <1>7, <1>8, <1>9, <1>11, <1>13 DEF FreshInv, DataInv
<1> QED  BY <1>14

LEMMA FreshStep ==
    ASSUME TsInv, ExpInv, NEW D, FreshInv(D), ~ LazyMerge, "pin" \notin Usage,
           MaxCut = 0 \/ "mutex" \notin Usage, [Next]_vars
    PROVE  \E E : FreshInv(E)' /\ DataStep(D, E)
<1>0. TsInv' /\ ExpInv'  BY NextStep, ExpiredStep
<1>1. DataTypeOK /\ DataInv(D)  BY DEF FreshInv
<1>2. CASE UNCHANGED vars
  <2>0. UNCHANGED <<le, lad, priv, pub, minWr, wrSet, relSig, mtx, pc, acq, ver, hb>>  BY <1>2 DEF vars
  <2>1. DataTypeOK' /\ DataInv(D)' /\ Owned' /\ Listed' /\ Notices(D)' /\ AcqShape' /\ DiffLive'
    BY <2>0 DEF FreshInv, DataTypeOK, DataInv, Contents, LastWriter, Published, Homes, Fetched,
        Owned, MayWrite, Listed, Notices, Good, AcqShape, DiffLive, Diff, Latest
  <2>2. \A q \in Proc, c \in Cell : Diff(q, c)' <=> Diff(q, c)  BY <2>0 DEF Diff
  <2>3. \A q \in Proc, c \in Cell : \A v \in Nat : Knows(D, q, c, v)' <=> Knows(D, q, c, v)
    BY <2>0, <2>2 DEF Knows
  <2>4. \A c \in Cell : \A v \in Nat : Common(D, c, v)' <=> Common(D, c, v)  BY <2>3 DEF Common
  <2>5. \A q \in Proc, c \in Cell : \A v \in Nat : Said(D, q, c, v)' <=> Said(D, q, c, v)
    BY <2>0, <2>2, <2>4 DEF Said, Says
  <2>6. \A q \in Proc, c \in Cell : hb[q][c] \in Nat /\ mtx.hb[c] \in Nat
    BY <1>1, CellFacts
  <2>7. HbKnown(D)'
    <3> SUFFICES ASSUME NEW q \in Proc, NEW c \in Cell, NEW v, v = hb[q][c]
                 PROVE  v <= ver[c] /\ Knows(D, q, c, v)' /\ Said(D, q, c, v)'
      BY <2>0 DEF HbKnown
    <3> QED  BY <2>3, <2>5, <2>6 DEF FreshInv, HbKnown
  <2>8. MtxSaid(D)'
    <3> SUFFICES ASSUME NEW c \in Cell, NEW v, v = mtx.hb[c]
                 PROVE  v <= ver[c] /\ (Common(D, c, v)' \/ Says(D, mtx.sig, c, v))
      BY <2>0 DEF MtxSaid, Says
    <3>1. v \in Nat  BY <1>1 DEF DataTypeOK, Data
    <3> QED  BY <2>4, <3>1 DEF FreshInv, MtxSaid
  <2>9. DataStep(D, D)  BY <1>1, <2>0, QuietData
  <2> QED  BY <2>1, <2>7, <2>8, <2>9 DEF FreshInv
<1>3. CASE Next
  <2>1. CASE AllGather  BY <1>0, <2>1, GatherFresh
  <2>2. ASSUME NEW p \in Proc,
               \/ StartRead(p) \/ StartWrite(p) \/ (\E c \in Cell : Write(p, c))
               \/ Pin(p) \/ Unpin(p)
               \/ FenceStart(p) \/ FenceRelease(p) \/ LockMutex(p) \/ UnlockMutex(p) \/ BarrierEnter(p)
               \/ AcquireWn(p) \/ AcquireMin(p) \/ Compare(p)
        PROVE  \E E : FreshInv(E)' /\ DataStep(D, E)
    <3>0. ~ Pin(p) /\ ~ Unpin(p) /\ ~ Compare(p)  BY NoHalfTx DEF Pin, Unpin, ExpInv, NoPins
    <3>1. CASE StartRead(p) \/ StartWrite(p) \/ (\E c \in Cell : Write(p, c)) \/ FenceStart(p)
      BY <1>0, <3>1, LocalFresh
    <3>2. CASE FenceRelease(p) \/ UnlockMutex(p) \/ BarrierEnter(p)
      BY <1>0, <3>2, FenceFresh DEF ExpInv
    <3>3. CASE LockMutex(p)  BY <1>0, <3>3, LockFresh
    <3>4. CASE AcquireWn(p)  BY <1>0, <3>4, AcquireWnFresh
    <3>5. CASE AcquireMin(p)  BY <1>0, <3>5, AcquireMinFresh
    <3> QED  BY <2>2, <3>0, <3>1, <3>2, <3>3, <3>4, <3>5
  <2> QED  BY <1>3, <2>1, <2>2 DEF Next
<1> QED  BY <1>2, <1>3

\* Once all has been acquired, what a process knows of it has in its copy.
LEMMA FreshNow ==
    ASSUME TsInv, ExpInv, NEW D, FreshInv(D)
    PROVE  FreshReads
<1>0. DataTypeOK /\ DataInv(D) /\ HbKnown(D) /\ AcqShape  BY DEF FreshInv
<1> SUFFICES ASSUME NEW p \in Proc, pc[p] = "run", Readable(p), NEW c \in Cell
             PROVE  priv[p][c] >= hb[p][c]
  BY DEF FreshReads
<1>1. /\ priv[p][c] \in Nat /\ hb[p][c] \in Nat /\ ver[c] \in Nat
      /\ le[p].rts \in Nat /\ minWr[p] \in Nat
      /\ \A n \in Nat : D[n][c] \in Nat
  BY <1>0, Unfolded, CellFacts, VersionFacts DEF DataInv
<1>2. hb[p][c] <= ver[c] /\ Knows(D, p, c, hb[p][c])  BY <1>0 DEF HbKnown
<1>3. acq[p].wns = {} /\ acq[p].min = 0  BY <1>0 DEF AcqShape, NothingToAcquire
<1>4. priv[p][c] >= D[le[p].rts][c]  BY <1>0 DEF DataInv, Fetched, Geq, Readable
<1>5. le[p].rts >= minWr[p]  BY DEF ExpInv, NoPins, ExpiredIsInvalid
<1>6. D[le[p].rts][c] >= D[minWr[p]][c] /\ D[0][c] = 0
  BY <1>0, <1>1, <1>5 DEF DataInv, Contents, Geq
<1>7. Diff(p, c) => priv[p][c] = ver[c]  BY <1>0 DEF DataInv, Published
<1>8. \/ hb[p][c] <= D[le[p].rts][c] \/ hb[p][c] <= D[minWr[p]][c] \/ Diff(p, c) \/ hb[p][c] <= 0
  BY <1>2, <1>3, <1>6 DEF Knows
<1>9. D[le[p].rts][c] \in Nat /\ D[minWr[p]][c] \in Nat  BY <1>1
<1> QED  BY <1>1, <1>2, <1>4, <1>6, <1>7, <1>8, <1>9

\* A process that synchronised reads what it synchronised with: in the eager
\* build without pinned blocks, a copy that can be read holds, of every cell, the
\* write that happens before the read or a newer one.  Signatures that the mutex
\* carries must not be truncated.
THEOREM FreshReadsHolds ==
    ASSUME ~ LazyMerge, "pin" \notin Usage, MaxCut = 0 \/ "mutex" \notin Usage
    PROVE  Spec => []FreshReads
<1> DEFINE FInv == \E D : FreshInv(D)
<1>1. Init => FInv  BY FreshInit
<1>2. TsInv /\ ExpInv /\ FInv /\ [Next]_vars => FInv'  BY FreshStep
<1>3. TsInv /\ ExpInv /\ [Next]_vars => ExpInv'  BY ExpiredStep
<1>4. TsInv /\ ExpInv /\ FInv => FreshReads  BY FreshNow
<1> HIDE DEF FInv
<1> QED  BY <1>1, <1>2, <1>3, <1>4, ExpiredInit, Invariance, PTL DEF Spec

----------------------------------------------------------------------------
(***************************************************************************)
(* Races and lost updates, under the same hypotheses: a process changes a  *)
(* cell only when its twin has the latest published version of that cell.  *)
(***************************************************************************)

Current(D) == \A p \in Proc, c \in Cell :
    /\ c = p => D[le[p].rts][c] = Latest[c]
    /\ Diff(p, c) => pub[p][c] = Latest[c] /\ D[le[p].rts][c] = Latest[c]

\* Whoever holds the mutex, or will take it, knows of all writes made under it.
SharedKnown ==
    Shared \in Cell =>
        ver[Shared] = IF mtx.holder = NoProc THEN mtx.hb[Shared] ELSE hb[mtx.holder][Shared]

NoneLost == \A c \in Cell : Latest[c] = ver[c] \/ \E p \in Proc : Diff(p, c)

RaceInv(D) == Current(D) /\ SharedKnown /\ NoneLost

\* The last version bounds all of them.
LEMMA LastBounds ==
    ASSUME NEW E \in [Nat -> Data], \A m, n \in Nat : m <= n => Geq(E[n], E[m]),
           NEW w \in Nat, NEW L, \A n \in Nat : n >= w => E[n] = L, NEW n \in Nat
    PROVE  Geq(L, E[n]) /\ L \in Data
<1>1. PICK k \in Nat : k >= n /\ k >= w  OBVIOUS
<1>2. Geq(E[k], E[n]) /\ E[k] = L /\ E[k] \in Data  BY <1>1
<1> QED  BY <1>2

\* The cells of one copy before and after a step, with their bounds.
LEMMA StepFacts ==
    ASSUME TsInv, TsInv', NEW D, NEW E, FreshInv(D), FreshInv(E)', DataStep(D, E), NEW q \in Proc, NEW c \in Cell
    PROVE  /\ D[le[q].rts][c] \in Nat /\ E[le'[q].rts][c] \in Nat
           /\ Latest[c] \in Nat /\ Latest'[c] \in Nat /\ ver[c] \in Nat /\ ver'[c] \in Nat
           /\ pub'[q][c] \in Nat /\ pub'[q][c] <= Latest'[c]
           /\ D[le[q].rts][c] <= E[le'[q].rts][c] /\ E[le'[q].rts][c] <= Latest'[c]
           /\ Latest'[c] <= ver'[c]
<1>1. /\ DataTypeOK /\ DataInv(D) /\ DataTypeOK' /\ DataInv(E)'
      /\ le[q].rts \in Nat /\ le'[q].rts \in Nat /\ lad'.wts \in Nat
  BY Unfolded DEF FreshInv, TsInv, TypeOK
<1>2. /\ E \in [Nat -> Data] /\ \A m, n \in Nat : m <= n => Geq(E[n], E[m])
      /\ \A n \in Nat : n >= lad'.wts => E[n] = Latest'
  BY <1>1 DEF DataInv, Contents
<1>3. Geq(Latest', E[le'[q].rts]) /\ Latest' \in Data  BY <1>1, <1>2, LastBounds
<1>4. Latest \in Data /\ D[le[q].rts][c] \in Nat  BY <1>1, VersionFacts DEF DataInv
<1>5. pub'[q][c] <= Latest'[c] /\ Latest'[c] <= ver'[c]  BY <1>1 DEF DataInv, Published
<1>6. le[q].rts <= le'[q].rts  BY <1>1 DEF DataStep
<1>7. D[le[q].rts][c] <= D[le[q].rts][c]  BY <1>4
<1>8. D[le[q].rts][c] <= E[le'[q].rts][c]  BY <1>1, <1>4, <1>6, <1>7, VersionGrows
<1> QED  BY <1>1, <1>2, <1>3, <1>4, <1>5, <1>8 DEF DataTypeOK, Data, Geq

\* Steps other than writes of the application.
LEMMA CurrentKept ==
    ASSUME TsInv, TsInv', NEW D, NEW E, FreshInv(D), FreshInv(E)', DataStep(D, E), Current(D), NoneLost,
           ver' = ver
    PROVE  Current(E)' /\ NoneLost'
<1>0. Owned /\ DataInv(D) /\ DataTypeOK  BY DEF FreshInv
<1>1. ASSUME NEW q \in Proc, NEW c \in Cell, c = q PROVE E[le'[q].rts][c] = Latest'[c]
  <2>1. D[le[q].rts][c] = Latest[c]  BY <1>1 DEF Current
  <2>2. CASE Latest'[c] = Latest[c]  BY <2>1, <2>2, StepFacts
  <2>3. CASE Latest'[c] = ver[c] /\ \E p \in Proc : Diff(p, c) /\ ~ Diff(p, c)' /\ E[le'[p].rts][c] = ver[c]
    <3>1. PICK p \in Proc : Diff(p, c) /\ E[le'[p].rts][c] = ver[c]  BY <2>3
    <3>2. p = q  BY <1>0, <1>1, <3>1, BlockAssumption DEF Owned, MayWrite
    <3> QED  BY <2>3, <3>1, <3>2
  <2> QED  BY <2>2, <2>3 DEF DataStep
<1>2. ASSUME NEW q \in Proc, NEW c \in Cell, Diff(q, c)'
      PROVE  pub'[q][c] = Latest'[c] /\ E[le'[q].rts][c] = Latest'[c]
  <2>1. Diff(q, c)  BY <1>2 DEF DataStep
  <2>2. pub[q][c] = Latest[c] /\ D[le[q].rts][c] = Latest[c]  BY <2>1 DEF Current
  <2>3. Latest'[c] = Latest[c]
    <3>1. ASSUME NEW p \in Proc, Diff(p, c), ~ Diff(p, c)' PROVE FALSE
      BY <1>0, <1>2, <2>1, <3>1, OneOwner
    <3> QED  BY <3>1 DEF DataStep
  <2>4. E[le'[q].rts][c] = Latest'[c]  BY <2>2, <2>3, StepFacts
  <2>5. pub'[q][c] = Latest'[c]
    <3>1. CASE pub'[q] = pub[q]  BY <2>2, <2>3, <3>1
    <3>2. CASE Geq(pub'[q], D[le[q].rts])
      <4>1. pub'[q][c] >= Latest[c]  BY <2>2, <3>2 DEF Geq
      <4> QED  BY <2>3, <4>1, StepFacts
    <3> QED  BY <3>1, <3>2 DEF DataStep
  <2> QED  BY <2>4, <2>5
<1>3. ASSUME NEW c \in Cell PROVE Latest'[c] = ver'[c] \/ \E p \in Proc : Diff(p, c)'
  <2>1. CASE Latest[c] = ver[c]  BY <2>1 DEF DataStep
  <2>2. CASE \E p \in Proc : Diff(p, c)
    <3>1. PICK p \in Proc : Diff(p, c)  BY <2>2
    <3>2. CASE Diff(p, c)'  BY <3>2
    <3>3. CASE E[le'[p].rts][c] >= ver[c]
      <4>1. Latest'[c] = ver'[c]  BY <3>3, StepFacts
      <4> QED  BY <4>1
    <3> QED  BY <3>1, <3>2, <3>3 DEF DataStep
  <2> QED  BY <2>1, <2>2 DEF NoneLost
<1> QED  BY <1>1, <1>2, <1>3 DEF Current, NoneLost

\* A write: the cell is the writer's own, or it holds the mutex and has read the
\* latest version.
LEMMA CurrentWrite ==
    ASSUME TsInv, TsInv', ExpInv, NEW D, NEW E, FreshInv(D), FreshInv(E)', DataStep(D, E), RaceInv(D),
           NEW p \in Proc, NEW c \in Cell, Write(p, c)
    PROVE  Current(E)' /\ NoneLost'
<1>0. Owned /\ DataInv(D) /\ DataTypeOK /\ HbKnown(D) /\ AcqShape /\ Current(D) /\ NoneLost /\ SharedKnown
  BY DEF FreshInv, RaceInv
<1>1. /\ Diff(p, c)' /\ ver'[c] = ver[c] + 1
      /\ \A q \in Proc, d \in Cell : ~ (q = p /\ d = c) => (Diff(q, d)' <=> Diff(q, d))
  BY <1>0, WriteData
<1>2. /\ ver' = [ver EXCEPT ![c] = @ + 1] /\ UNCHANGED <<le, lad, pub>>
      /\ CanWrite(le[p].st) /\ MayWrite(p, c) /\ pc[p] = "run"
  BY NoHalfTx DEF Write, MayWrite, ExpInv
<1>3. Latest' = Latest /\ \A d \in Cell \ {c} : ver'[d] = ver[d]
  BY <1>0, <1>2 DEF Latest, DataTypeOK, Data
<1>4. \A q \in Proc : le'[q] = le[q] /\ E[le[q].rts] = D[le[q].rts]
  BY <1>2, Unfolded DEF DataStep
<1>5. pub[p][c] = Latest[c] /\ D[le[p].rts][c] = Latest[c]
  <2>1. CASE Diff(p, c)  BY <1>0, <2>1 DEF Current
  <2>2. CASE ~ Diff(p, c)
    <3>1. priv[p][c] = pub[p][c]  BY <1>2, <2>2 DEF Diff, CanWrite, Dirty
    <3>2. /\ priv[p][c] >= D[le[p].rts][c] /\ priv[p][c] <= Latest[c] /\ Latest[c] <= ver[c]
      BY <1>0, <1>2, <2>2 DEF DataInv, Fetched, Published, Geq, CanWrite, Invalid
    <3>3. /\ priv[p][c] \in Nat /\ hb[p][c] \in Nat /\ ver[c] \in Nat /\ Latest[c] \in Nat
          /\ D[le[p].rts][c] \in Nat /\ D[le[p].rts][c] <= Latest[c]
      <4>1. le[p].rts \in Nat  BY Unfolded
      <4>2. Latest \in Data /\ D[le[p].rts][c] \in Nat /\ Geq(Latest, D[le[p].rts])
        BY <1>0, <4>1, VersionFacts DEF DataInv
      <4> QED  BY <1>0, <4>2, CellFacts DEF Data, Geq
    <3>4. CASE c = p
      <4>1. D[le[p].rts][c] = Latest[c]  BY <1>0, <3>4 DEF Current
      <4> QED  BY <3>1, <3>2, <3>3, <4>1
    <3>5. CASE c = Shared /\ mtx.holder = p
      <4>1. hb[p][c] = ver[c]  BY <1>0, <3>5, NoProcAssumption DEF SharedKnown
      <4>2. Knows(D, p, c, ver[c])  BY <1>0, <4>1 DEF HbKnown
      <4>3. acq[p].wns = {} /\ acq[p].min = 0  BY <1>0, <1>2 DEF AcqShape, NothingToAcquire
      <4>4. le[p].rts \in Nat /\ minWr[p] \in Nat /\ le[p].rts >= minWr[p]
        BY <1>2, Unfolded DEF ExpInv, NoPins, ExpiredIsInvalid, Readable, CanWrite, Invalid
      <4>5. /\ D[le[p].rts][c] >= D[minWr[p]][c] /\ D[0][c] = 0 /\ D[minWr[p]][c] \in Nat
        BY <1>0, <4>4 DEF DataInv, Contents, Geq, Data
      <4>6. ver[c] <= D[le[p].rts][c] \/ ver[c] <= D[minWr[p]][c] \/ ver[c] <= 0
        BY <2>2, <4>2, <4>3, <4>5 DEF Knows
      <4>7. D[le[p].rts][c] = Latest[c] /\ Latest[c] = ver[c]  BY <3>2, <3>3, <4>5, <4>6
      <4> QED  BY <3>1, <3>2, <3>3, <4>7
    <3> QED  BY <1>2, <3>4, <3>5 DEF MayWrite
  <2> QED  BY <2>1, <2>2
<1>6. Current(E)'
  <2> SUFFICES ASSUME NEW q \in Proc, NEW d \in Cell
               PROVE  /\ d = q => E[le'[q].rts][d] = Latest'[d]
                      /\ Diff(q, d)' => pub'[q][d] = Latest'[d] /\ E[le'[q].rts][d] = Latest'[d]
    BY DEF Current
  <2>1. d = q => E[le'[q].rts][d] = Latest'[d]  BY <1>0, <1>3, <1>4 DEF Current
  <2>2. CASE q = p /\ d = c  BY <1>2, <1>3, <1>4, <1>5, <2>1, <2>2
  <2>3. CASE ~ (q = p /\ d = c)
    <3>1. Diff(q, d)' => pub[q][d] = Latest[d] /\ D[le[q].rts][d] = Latest[d]  BY <1>0, <1>1, <2>3 DEF Current
    <3> QED  BY <1>2, <1>3, <1>4, <2>1, <3>1
  <2> QED  BY <2>2, <2>3
<1>7. NoneLost'
  <2> SUFFICES ASSUME NEW d \in Cell PROVE Latest'[d] = ver'[d] \/ \E q \in Proc : Diff(q, d)'
    BY DEF NoneLost
  <2>1. CASE d = c  BY <1>1, <2>1
  <2>2. CASE d # c
    <3>1. Latest[d] = ver[d] \/ \E q \in Proc : Diff(q, d)  BY <1>0 DEF NoneLost
    <3> QED  BY <1>1, <1>3, <2>2, <3>1
  <2> QED  BY <2>1, <2>2
<1> QED  BY <1>6, <1>7

LEMMA SharedKept ==
    ASSUME TsInv, NEW D, FreshInv(D), SharedKnown, [Next]_vars
    PROVE  SharedKnown'
<1>0. DataTypeOK /\ HbKnown(D) /\ MtxSaid(D)  BY DEF FreshInv
<1> SUFFICES ASSUME Shared \in Cell
             PROVE  ver'[Shared] = IF mtx'.holder = NoProc THEN mtx'.hb[Shared] ELSE hb'[mtx'.holder][Shared]
  BY DEF SharedKnown
<1>1. ver[Shared] = IF mtx.holder = NoProc THEN mtx.hb[Shared] ELSE hb[mtx.holder][Shared]
  BY DEF SharedKnown
<1>2. /\ hb \in [Proc -> Data] /\ mtx.hb \in Data /\ ver \in Data /\ mtx.holder \in Proc \cup {NoProc}
      /\ \A q \in Proc : hb[q] \in Data /\ hb[q][Shared] \in Nat /\ hb[q][Shared] <= ver[Shared]
      /\ mtx.hb[Shared] \in Nat /\ ver[Shared] \in Nat /\ mtx.hb[Shared] <= ver[Shared]
  BY <1>0 DEF DataTypeOK, Data, HbKnown, MtxSaid
<1>3. CASE UNCHANGED <<ver, hb, mtx>>  BY <1>1, <1>3
<1>4. ASSUME NEW p \in Proc, NEW c \in Cell, Write(p, c)
      PROVE  ver'[Shared] = IF mtx'.holder = NoProc THEN mtx'.hb[Shared] ELSE hb'[mtx'.holder][Shared]
  <2>1. /\ ver' = [ver EXCEPT ![c] = @ + 1] /\ hb' = [hb EXCEPT ![p][c] = ver'[c]] /\ mtx' = mtx
        /\ c = Shared => mtx.holder = p
    BY <1>4 DEF Write
  <2>2. CASE c = Shared
    <3>1. hb'[p][Shared] = ver'[Shared]  BY <1>2, <2>1, <2>2 DEF Data
    <3> QED  BY <2>1, <2>2, <3>1, NoProcAssumption
  <2>3. CASE c # Shared
    <3>1. ver'[Shared] = ver[Shared]  BY <1>2, <2>1, <2>3 DEF Data
    <3>2. \A q \in Proc : hb'[q][Shared] = hb[q][Shared]  BY <1>2, <2>1, <2>3 DEF Data
    <3> QED  BY <1>1, <1>2, <2>1, <3>1, <3>2
  <2> QED  BY <2>2, <2>3
<1>5. ASSUME NEW p \in Proc, LockMutex(p)
      PROVE  ver'[Shared] = IF mtx'.holder = NoProc THEN mtx'.hb[Shared] ELSE hb'[mtx'.holder][Shared]
  <2>1. /\ mtx.holder = NoProc /\ mtx' = [mtx EXCEPT !.holder = p] /\ ver' = ver
        /\ hb' = [hb EXCEPT ![p] = JoinData({hb[p], mtx.hb})]
    BY <1>5 DEF LockMutex
  <2>2. mtx'.holder = p
    <3>1. mtx = [holder |-> mtx.holder, sig |-> mtx.sig, hb |-> mtx.hb]  BY DEF TsInv, MutexShape
    <3> QED  BY <2>1, <3>1
  <2>3. PICK d \in {hb[p], mtx.hb} : /\ JoinData({hb[p], mtx.hb})[Shared] = d[Shared]
                                     /\ \A e \in {hb[p], mtx.hb} : e[Shared] <= d[Shared]
    <3>1. {hb[p], mtx.hb} \in SUBSET Data /\ {hb[p], mtx.hb} # {}  BY <1>2
    <3>2. \A d \in {hb[p], mtx.hb} : d[Shared] <= ver[Shared]  BY <1>2
    <3> QED  BY <1>2, <3>1, <3>2, JoinFacts
  <2>4. d[Shared] = ver[Shared]  BY <1>1, <1>2, <2>1, <2>3
  <2>5. hb'[p][Shared] = ver[Shared]  BY <1>2, <2>1, <2>3, <2>4
  <2> QED  BY <2>1, <2>2, <2>5, NoProcAssumption
<1>6. ASSUME NEW p \in Proc, UnlockMutex(p)
      PROVE  ver'[Shared] = IF mtx'.holder = NoProc THEN mtx'.hb[Shared] ELSE hb'[mtx'.holder][Shared]
  <2>1. mtx.holder = p /\ mtx'.holder = NoProc /\ mtx'.hb = hb[p] /\ ver' = ver
    BY <1>6 DEF UnlockMutex
  <2> QED  BY <1>1, <2>1, NoProcAssumption
<1>7. CASE AllGather
  <2> DEFINE S == {hb[q] : q \in Proc}
  <2>1. mtx' = mtx /\ ver' = ver /\ \A q \in Proc : hb'[q] = JoinData(S)  BY <1>7 DEF AllGather
  <2>2. CASE mtx.holder = NoProc  BY <1>1, <2>1, <2>2
  <2>3. CASE mtx.holder \in Proc
    <3>1. S \in SUBSET Data /\ hb[mtx.holder] \in S  BY <1>2, <2>3
    <3>2. \A d \in S : d[Shared] <= ver[Shared] /\ d[Shared] \in Nat  BY <1>2
    <3> HIDE DEF S
    <3>3. PICK d \in S : JoinData(S)[Shared] = d[Shared] /\ \A e \in S : e[Shared] <= d[Shared]
      BY <1>2, <3>1, <3>2, JoinFacts
    <3>4. hb[mtx.holder][Shared] = ver[Shared]  BY <1>1, <2>3, NoProcAssumption
    <3>5. d[Shared] = ver[Shared]  BY <1>2, <3>1, <3>2, <3>3, <3>4
    <3> QED  BY <2>1, <2>3, <3>3, <3>5, NoProcAssumption
  <2> QED  BY <1>2, <2>2, <2>3
<1>8. ASSUME NEW p \in Proc,
             \/ StartRead(p) \/ StartWrite(p) \/ Pin(p) \/ Unpin(p) \/ FenceStart(p) \/ FenceRelease(p)
             \/ BarrierEnter(p) \/ AcquireWn(p) \/ AcquireMin(p) \/ Compare(p)
      PROVE  UNCHANGED <<ver, hb, mtx>>
  BY <1>8 DEF StartRead, StartWrite, Pin, Unpin, FenceStart, FenceRelease, BarrierEnter, AcquireWn, AcquireMin, Compare
<1>9. CASE UNCHANGED vars  BY <1>3, <1>9 DEF vars
<1> QED  BY <1>3, <1>4, <1>5, <1>6, <1>7, <1>8, <1>9 DEF Next

LEMMA RaceInit ==
    ASSUME Init
    PROVE  \E D : FreshInv(D) /\ RaceInv(D)
<1>1. PICK D : FreshInv(D)  BY FreshInit
<1>2. /\ InitWriter \in Proc /\ lad.lw = InitWriter /\ lad.wts = 0 /\ mtx.holder = NoProc
      /\ \A p \in Proc : le[p].rts = 0 /\ le[p].st = "invalid_clean"
      /\ \A c \in Cell : ver[c] = 0 /\ mtx.hb[c] = 0 /\ pub[InitWriter][c] = 0
  BY BlockAssumption DEF Init
<1>3. \A p \in Proc, c \in Cell : ~ Diff(p, c)  BY <1>2 DEF Diff, Dirty
<1>4. D[0] = Latest  BY <1>1, <1>2 DEF FreshInv, DataInv, Contents
<1>5. Current(D)  BY <1>2, <1>3, <1>4 DEF Current
<1>6. SharedKnown  BY <1>2 DEF SharedKnown
<1>7. NoneLost  BY <1>2 DEF NoneLost, Latest
<1> QED  BY <1>1, <1>5, <1>6, <1>7 DEF RaceInv

LEMMA RaceStep ==
    ASSUME TsInv, ExpInv, NEW D, FreshInv(D), RaceInv(D), ~ LazyMerge, "pin" \notin Usage,
           MaxCut = 0 \/ "mutex" \notin Usage, [Next]_vars
    PROVE  \E E : FreshInv(E)' /\ RaceInv(E)'
<1>1. TsInv'  BY NextStep
<1>2. PICK E : FreshInv(E)' /\ DataStep(D, E)  BY FreshStep
<1>3. Current(D) /\ SharedKnown /\ NoneLost  BY DEF RaceInv
<1>4. SharedKnown'  BY <1>3, SharedKept
<1>5. ver' = ver \/ \E p \in Proc, c \in Cell : Write(p, c)
  <2>1. ASSUME NEW p \in Proc,
               \/ StartRead(p) \/ StartWrite(p) \/ Pin(p) \/ Unpin(p) \/ FenceStart(p) \/ FenceRelease(p)
               \/ LockMutex(p) \/ UnlockMutex(p) \/ BarrierEnter(p) \/ AcquireWn(p) \/ AcquireMin(p)
               \/ Compare(p)
        PROVE  ver' = ver
    BY <2>1 DEF StartRead, StartWrite, Pin, Unpin, FenceStart, FenceRelease, LockMutex, UnlockMutex,
                BarrierEnter, AcquireWn, AcquireMin, Compare
  <2>2. CASE AllGather  BY <2>2 DEF AllGather
  <2>3. CASE UNCHANGED vars  BY <2>3 DEF vars
  <2> QED  BY <2>1, <2>2, <2>3 DEF Next
<1>6. Current(E)' /\ NoneLost'
  <2>1. CASE ver' = ver  BY <1>1, <1>2, <1>3, <2>1, CurrentKept
  <2>2. CASE \E p \in Proc, c \in Cell : Write(p, c)
    <3>1. PICK p \in Proc, c \in Cell : Write(p, c)  BY <2>2
    <3> QED  BY <1>1, <1>2, <3>1, CurrentWrite
  <2> QED  BY <1>5, <2>1, <2>2
<1> QED  BY <1>2, <1>4, <1>6 DEF RaceInv

\* A changed cell agrees, in the twin, with what the merge reads.
LEMMA NoRaceNow ==
    ASSUME TsInv, NEW D, FreshInv(D), RaceInv(D), ~ LazyMerge
    PROVE  NoFalseRace
<1>0. DataTypeOK /\ DataInv(D) /\ Current(D)  BY DEF FreshInv, RaceInv
<1>1. \A q \in Proc : Exported(q) = pub[q]  BY DEF Exported
<1>2. lad.lw \in Proc /\ \A p \in Proc : le[p].home \in Proc /\ le[p].rts \in Nat
  BY Unfolded DEF Lad, Entry
<1>3. ASSUME NEW p \in Proc, Dirty(le[p].st), Races(pub[lad.lw], priv[p], pub[p]) PROVE FALSE
  <2>1. PICK c \in Cell : pub[lad.lw][c] # pub[p][c] /\ priv[p][c] # pub[p][c]  BY <1>3 DEF Races
  <2>2. Diff(p, c)  BY <1>3, <2>1 DEF Diff
  <2> QED  BY <1>0, <2>1, <2>2 DEF Current, Latest
<1>4. ASSUME NEW p \in Proc, le[p].st = "invalid_dirty", Races(pub[le[p].home], priv[p], pub[p]) PROVE FALSE
  <2>1. PICK c \in Cell : pub[le[p].home][c] # pub[p][c] /\ priv[p][c] # pub[p][c]  BY <1>4 DEF Races
  <2>2. Diff(p, c)  BY <1>4, <2>1 DEF Diff, Dirty
  <2>3. pub[p][c] = Latest[c] /\ D[le[p].rts][c] = Latest[c]  BY <1>0, <2>2 DEF Current
  <2>4. pub[le[p].home][c] >= Latest[c]  BY <1>0, <2>3 DEF DataInv, Homes, Geq
  <2>5. pub[le[p].home][c] <= Latest[c]  BY <1>0, <1>2 DEF DataInv, Published
  <2>6. pub[le[p].home][c] \in Nat /\ Latest[c] \in Nat  BY <1>0, <1>2, CellFacts DEF Latest
  <2> QED  BY <2>1, <2>3, <2>4, <2>5, <2>6
<1> QED  BY <1>1, <1>2, <1>3, <1>4 DEF NoFalseRace

LEMMA NoneLostNow ==
    ASSUME NEW D, FreshInv(D), RaceInv(D), ~ LazyMerge
    PROVE  NoLostUpdate /\ NothingLost
<1>0. DataInv(D) /\ Listed /\ NoneLost  BY DEF FreshInv, RaceInv
<1> SUFFICES ASSUME NEW c \in Cell
             PROVE  \/ Exported(lad.lw)[c] = ver[c]
                    \/ \E p \in Proc : /\ priv[p][c] = ver[c] /\ priv[p][c] # pub[p][c]
                                       /\ Dirty(le[p].st) /\ wrSet[p]
  BY DEF NoLostUpdate, NothingLost, Kept
<1>1. Exported(lad.lw)[c] = Latest[c]  BY DEF Exported, Latest
<1>2. CASE Latest[c] = ver[c]  BY <1>1, <1>2
<1>3. ASSUME NEW p \in Proc, Diff(p, c)
      PROVE  priv[p][c] = ver[c] /\ priv[p][c] # pub[p][c] /\ Dirty(le[p].st) /\ wrSet[p]
  BY <1>0, <1>3 DEF DataInv, Published, Diff, Listed
<1> QED  BY <1>0, <1>2, <1>3 DEF NoneLost

LEMMA RaceInvariance ==
    ASSUME ~ LazyMerge, "pin" \notin Usage, MaxCut = 0 \/ "mutex" \notin Usage
    PROVE  Spec => [](NoFalseRace /\ NoLostUpdate /\ NothingLost)
<1> DEFINE RInv == \E D : FreshInv(D) /\ RaceInv(D)
<1>1. Init => RInv  BY RaceInit
<1>2. TsInv /\ ExpInv /\ RInv /\ [Next]_vars => RInv'  BY RaceStep
<1>3. TsInv /\ ExpInv /\ [Next]_vars => ExpInv'  BY ExpiredStep
<1>4. TsInv /\ RInv => NoFalseRace /\ NoLostUpdate /\ NothingLost  BY NoRaceNow, NoneLostNow
<1> HIDE DEF RInv
<1> QED  BY <1>1, <1>2, <1>3, <1>4, ExpiredInit, Invariance, PTL DEF Spec

\* The merge of a race-free application never reports a race: a cell that a
\* process changed is, in the data it merges, still as in its twin.
THEOREM NoFalseRaceHolds ==
    ASSUME ~ LazyMerge, "pin" \notin Usage, MaxCut = 0 \/ "mutex" \notin Usage
    PROVE  Spec => []NoFalseRace
<1>1. Spec => [](NoFalseRace /\ NoLostUpdate /\ NothingLost)  BY RaceInvariance
<1> QED  BY <1>1, PTL

\* No store is dropped: the newest version of a cell is at the last writer, or a
\* difference to the twin of a dirty block that a fence will find in the write set.
\* Without pinned blocks this needs no exception: NothingLost holds as well.
THEOREM NoLostUpdateHolds ==
    ASSUME ~ LazyMerge, "pin" \notin Usage, MaxCut = 0 \/ "mutex" \notin Usage
    PROVE  Spec => [](NoLostUpdate /\ NothingLost)
<1>1. Spec => [](NoFalseRace /\ NoLostUpdate /\ NothingLost)  BY RaceInvariance
<1> QED  BY <1>1, PTL
=============================================================================
