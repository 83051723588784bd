------------------------------- MODULE Block -------------------------------
(***************************************************************************)
(* The coherence of one block of the DSM space under its timestamp         *)
(* protocol: blk_dir_table (states and timestamps), blk_data_table (private *)
(* data, public twin, three-way merge), rd_set, rel_sig, and the paths     *)
(* through seg_table and space that drive them: faults, release fences,    *)
(* global mutexes, barriers, pinning.                                      *)
(*                                                                         *)
(* A block is a function from cells to version numbers.  Cell p is written *)
(* by process p alone, the cell Shared only under the global mutex: the    *)
(* application is free of data races but shares the block falsely.         *)
(*                                                                         *)
(* A transaction (lock_global .. unlock_global) is one step: LadLock,      *)
(* which QueueLock implements, excludes the other transactions and hands   *)
(* over the attached data, and the page is write-protected or its data only *)
(* copied to the twin.  A pinned page is neither: when it was updated       *)
(* remotely its transaction is two steps, the comparison with the twin and  *)
(* the rest, and other threads write in between.                            *)
(* A step of seg_table holds the block's mutex.  Application writes of the  *)
(* same process go on between any two steps.                                *)
(***************************************************************************)
EXTENDS Naturals, FiniteSets, Functions, Bags

CONSTANTS
    Proc,                 \* processes
    InitWriter,           \* process 0: last_writer_proc of a zeroed LAD
    Shared,               \* the cell guarded by the global mutex
    Lease,                \* MEDSM2_LEASE_TS
    WrCountThreshold,     \* MEDSM2_WR_COUNT_THRESHOLD
    MaxFastRelThreshold,  \* MEDSM2_MAX_FAST_REL_THRESHOLD
    LazyMerge,            \* MEDSM2_ENABLE_LAZY_MERGE
    FastRelease,          \* MEDSM2_ENABLE_FAST_RELEASE
    Cell,                 \* the cells written: processes, and Shared
    Usage,                \* what the application does: "mutex", "barrier", "fence", "pin"
    MaxCut,               \* bound: timestamps at which other blocks truncate a signature
    MaxWrites             \* bound: writes of the application

ASSUME BlockAssumption ==
    /\ InitWriter \in Proc
    /\ Shared \notin Proc
    /\ Cell \subseteq Proc \cup {Shared}
    /\ {Lease, WrCountThreshold, MaxFastRelThreshold, MaxCut, MaxWrites} \subseteq Nat
    /\ {LazyMerge, FastRelease} \subseteq BOOLEAN
    /\ Usage \subseteq {"mutex", "barrier", "fence", "pin"}
    /\ FastRelease => LazyMerge

VARIABLES
    le,      \* les_: the local entry at every process, but for the mutex and
             \* cur_wr_ts, which nothing but a log reads
    lad,     \* the attached data of the block's lock, at its last owner
    owner,   \* that owner; only check_owned of a fast release asks for it
    tx,      \* the transaction between the comparison and the merge of a pinned block
    priv,    \* the data the application of each process works on
    pub,     \* the public copy (twin) at each process
    rdSet,   \* rd_set::pq_: the bag of read timestamps this block is queued with
    minWr,   \* rd_set::min_wr_ts_
    wrSet,   \* the block is in wr_set (new_ids_ or dirty_ids_)
    relSig,  \* rel_sig::sig_, restricted to this block
    mtx,     \* the global mutex: its holder and the signature stored in it
    pc,      \* "run", "acq" (applying signatures) or "bar" (in allgather)
    acq,     \* what an acquiring process still has to apply
    fence,   \* a fence of a second thread: the rd_ts_state it goes by
    ver,     \* history: the latest version of each cell
    late,    \* history: the cells whose latest version was stored to a pinned
             \* block in a transaction that had already found it clean
    hb       \* history: the versions that happen before a process's next read

vars == <<le, lad, owner, tx, priv, pub, rdSet, minWr, wrSet, relSig, mtx, pc, acq,
          fence, ver, late, hb>>

BiggerOf(a, b) == IF a >= b THEN a ELSE b

\* A write notice; wr_ts 0 stands for no notice (a real one is at least 1).
NoNotice == [home |-> InitWriter, rts |-> 0, wts |-> 0]

EmptySig == [min |-> 0, wn |-> NoNotice]

NothingToAcquire == [wns |-> {}, min |-> 0, merge |-> EmptySig]

NoProc == "nobody"

ASSUME NoProcAssumption == NoProc \notin Proc

NoFence == [on |-> FALSE, min |-> 0]

NoTx == [by |-> NoProc, op |-> "none", written |-> FALSE]

Init ==
    /\ le = [p \in Proc |-> [home |-> p, st |-> "invalid_clean", wrCount |-> 0, rts |-> 0, last |-> FALSE,
                             fcnt |-> 0, fthr |-> 1]]
    /\ lad = [lw |-> InitWriter, wts |-> 0, rts |-> 0]
    /\ owner = InitWriter
    /\ tx = NoTx
    /\ priv = [p \in Proc |-> [c \in Cell |-> 0]]
    /\ pub = [p \in Proc |-> [c \in Cell |-> 0]]
    /\ rdSet = [p \in Proc |-> EmptyBag]
    /\ minWr = [p \in Proc |-> 0]
    /\ wrSet = [p \in Proc |-> FALSE]
    /\ relSig = [p \in Proc |-> EmptySig]
    /\ mtx = [holder |-> NoProc, sig |-> EmptySig, hb |-> [c \in Cell |-> 0]]
    /\ pc = [p \in Proc |-> "run"]
    /\ acq = [p \in Proc |-> NothingToAcquire]
    /\ fence = [p \in Proc |-> NoFence]
    /\ ver = [c \in Cell |-> 0]
    /\ late = {}
    /\ hb = [p \in Proc |-> [c \in Cell |-> 0]]

----------------------------------------------------------------------------
(* Block states *)

Invalid(st) == st \in {"invalid_clean", "invalid_dirty"}
ReadOnly(st) == st \in {"readonly_clean", "readonly_dirty"}
CanWrite(st) == st \in {"writable", "pinned"}
Dirty(st) == st \notin {"invalid_clean", "readonly_clean"}

----------------------------------------------------------------------------
(* Timestamps: rd_ts_state and make_new_ts *)

\* Mutant: the write timestamp does not pass the leases handed out.
NewWrTs_WithinLease(min, oldRts) == BiggerOf(oldRts, min)

NewWrTs(min, oldRts) == BiggerOf(oldRts + 1, min)

NewRdTs(min, wts, oldRts) == BiggerOf(BiggerOf(wts, min) + Lease, oldRts)

\* The timestamps that follow [wts, rts] when the block was written or not.
MakeNewTs(min, written, old) ==
    LET w == IF written THEN NewWrTs(min, old.rts) ELSE old.wts
    IN  [wts |-> w, rts |-> NewRdTs(min, w, old.rts)]

\* Mutant: the block is not added to the read set.
Queued_Never(rts) == EmptyBag

\* Entries of the read set; no min_wr_ts exceeds MaxCut, so none from there on
\* is ever taken out.
Queued(rts) == IF rts < MaxCut THEN SetToBag({rts}) ELSE EmptyBag

\* n entries of the read set for the same block and timestamp.
Requeued(rts, n) == IF n \in Nat \ {0} THEN [r \in BagToSet(Queued(rts)) |-> n] ELSE EmptyBag

----------------------------------------------------------------------------
(* Data: what other processes can read, and the three-way merge *)

\* get_other_priv_ptr or get_other_pub_ptr of the process read from.
Exported(q) == IF LazyMerge THEN priv[q] ELSE pub[q]

\* Both this process and the other one changed a cell: report_data_race.
Races(other, mine, twin) ==
    \E c \in Cell : other[c] # twin[c] /\ mine[c] # twin[c]

\* Mutant: the data read replaces the local changes.
Merged_OtherWins(other, mine, twin) == other

\* my_diff ^ other: the local changes on top of the other data.
Merged(other, mine, twin) ==
    [c \in Cell |-> IF mine[c] = twin[c] THEN other[c] ELSE mine[c]]

----------------------------------------------------------------------------
(* Transactions: begin_transaction, release_merge, end_transaction *)

\* wr_count is only compared with the threshold, so it is capped there.
CapCount(n) == IF n <= WrCountThreshold THEN n ELSE WrCountThreshold

NewWrCount(e, protected, written) ==
    IF protected \/ written THEN 0
    ELSE CapCount(e.wrCount + 1 + (IF FastRelease THEN e.fcnt ELSE 0))

NewFastRelThreshold(e, protected, written) ==
    IF ~ FastRelease \/ protected \/ ~ written THEN 1
    ELSE IF 2 * e.fthr <= MaxFastRelThreshold THEN 2 * e.fthr ELSE MaxFastRelThreshold

\* end_transaction reloads min_wr_ts_ for a block that it makes readable.
LatestMin(p, e, min) == IF Invalid(e.st) THEN minWr[p] ELSE min

\* What the merge has to know of entry e of p.
BeginTransaction(p, e) ==
    LET remote == lad.lw # p
    IN  [remote |-> remote,
         dirty |-> Dirty(e.st),
         protected |-> \/ ~ CanWrite(e.st)
                       \/ e.st = "writable" /\ (remote \/ e.wrCount >= WrCountThreshold),
         copied |-> ~ LazyMerge \/ e.wrCount + 2 >= WrCountThreshold]

\* The block of p stays writable while the data of another process is merged in.
Unprotected(p) == le[p].st = "pinned" /\ lad.lw # p

\* The local changes and those of the last writer are brought together.  What
\* Compare found is not looked at again.
ReleaseMerge(p, bt) ==
    LET written == IF tx.by = p THEN tx.written ELSE bt.dirty /\ priv[p] # pub[p]
        other == Exported(lad.lw)
        merged == IF written THEN Merged(other, priv[p], pub[p]) ELSE other
    IN  [written |-> written,
         race |-> bt.remote /\ written /\ Races(other, priv[p], pub[p]),
         priv |-> IF bt.remote THEN merged ELSE priv[p],
         pub |-> IF bt.remote THEN merged
                 ELSE IF written /\ bt.copied THEN priv[p] ELSE pub[p]]

\* New timestamps, a new last writer, and the next state of entry e.
EndTransaction(p, e, min, bt, written) ==
    LET ts == MakeNewTs(LatestMin(p, e, min), written, lad)
    IN  [still |-> ~ bt.protected,
         readable |-> IF Invalid(e.st) THEN Queued(ts.rts) ELSE EmptyBag,
         lad |-> [lw |-> IF written THEN p ELSE lad.lw, wts |-> ts.wts, rts |-> ts.rts],
         le |-> [home |-> p, rts |-> ts.rts,
                 st |-> IF bt.protected THEN "readonly_clean" ELSE e.st,
                 last |-> FastRelease /\ ~ bt.remote /\ written,
                 wrCount |-> NewWrCount(e, bt.protected, written),
                 fthr |-> NewFastRelThreshold(e, bt.protected, written),
                 fcnt |-> 0]]

\* What a transaction of p does when its entry is e, and the write notice that
\* a release makes of it.
Transaction(p, e, min) ==
    LET bt == BeginTransaction(p, e)
        mg == ReleaseMerge(p, bt)
        et == EndTransaction(p, e, min, bt, mg.written)
    IN  [race |-> mg.race, priv |-> mg.priv, pub |-> mg.pub,
         still |-> et.still, readable |-> et.readable, lad |-> et.lad, le |-> et.le,
         notice |-> IF mg.written THEN [home |-> p, rts |-> et.lad.rts, wts |-> et.lad.wts]
                    ELSE NoNotice]

\* The steps of a transaction, but for the read set and for what Compare did.  A data race is an
\* exception, which ends the process inside its critical section.  A lazy merge
\* also writes what it read back to the last writer's public copy.
DoTransaction(p, t) ==
    /\ tx.by = IF Unprotected(p) THEN p ELSE NoProc
    /\ tx' = NoTx
    /\ ~ t.race
    /\ le' = [le EXCEPT ![p] = t.le]
    /\ priv' = [priv EXCEPT ![p] = t.priv]
    /\ pub' = [q \in Proc |-> IF q = p THEN t.pub
                              ELSE IF LazyMerge /\ q = lad.lw THEN priv[q] ELSE pub[q]]
    /\ lad' = t.lad
    /\ owner' = IF FastRelease THEN p ELSE owner

\* check_owned: nobody, this process included, has taken the lock meanwhile.
Owns(p) == owner = p /\ tx.by = NoProc

\* The block's mutex is free at p, or held by operation op, which goes on.
Free(p, op) == tx.by = p => tx.op = op

----------------------------------------------------------------------------
(* Faults: start_read, start_write; the writes of the application *)

\* A read fault.  When the lease has run out the latest data is fetched in a
\* transaction, whose result is dropped; otherwise the home is read.
StartRead(p) ==
    LET e == le[p]
        t == Transaction(p, e, minWr[p])
        dirty == e.st = "invalid_dirty"
        other == Exported(e.home)
    IN
    /\ pc[p] = "run"
    /\ Invalid(e.st)
    /\ IF minWr[p] > e.rts
       THEN /\ DoTransaction(p, t)
            /\ rdSet' = [rdSet EXCEPT ![p] = @ (+) t.readable]
       ELSE /\ le' = [le EXCEPT ![p].st = IF dirty THEN "readonly_dirty" ELSE "readonly_clean"]
            /\ rdSet' = [rdSet EXCEPT ![p] = @ (+) Queued(e.rts)]
            /\ IF e.home = p THEN UNCHANGED <<priv, pub>>
               ELSE IF dirty
               THEN /\ ~ Races(other, priv[p], pub[p])
                    /\ priv' = [priv EXCEPT ![p] = Merged(other, priv[p], pub[p])]
                    /\ pub' = [pub EXCEPT ![p] = other]
               ELSE priv' = [priv EXCEPT ![p] = other] /\ UNCHANGED pub
            /\ UNCHANGED <<lad, owner, tx>>
    /\ UNCHANGED <<minWr, wrSet, relSig, mtx, pc, acq, fence, ver, late, hb>>

\* Mutant: the block is made writable without a twin.
StartWrite_NoTwin(p) ==
    /\ pc[p] = "run"
    /\ ReadOnly(le[p].st)
    /\ le' = [le EXCEPT ![p].st = "writable"]
    /\ wrSet' = [wrSet EXCEPT ![p] = TRUE]
    /\ UNCHANGED <<lad, owner, tx, priv, pub, rdSet, minWr, relSig, mtx, pc, acq, fence, ver, late, hb>>

\* A write fault on a readable block.  A block this process wrote last gets its
\* next timestamps now; a LAD that is not the owner's is never read again.
StartWrite(p) ==
    LET e == le[p]
        ts == MakeNewTs(minWr[p], TRUE, lad)
    IN
    /\ pc[p] = "run"
    /\ ReadOnly(e.st)
    /\ pub' = [pub EXCEPT ![p] = IF e.st = "readonly_clean" THEN priv[p] ELSE @]
    /\ le' = [le EXCEPT ![p].st = "writable"]
    /\ wrSet' = [wrSet EXCEPT ![p] = TRUE]
    /\ lad' = IF FastRelease /\ e.last /\ Owns(p)
              THEN [lw |-> lad.lw, wts |-> ts.wts, rts |-> ts.rts] ELSE lad
    /\ UNCHANGED <<owner, tx, priv, rdSet, minWr, relSig, mtx, pc, acq, fence, ver, late, hb>>

WritesDone == SumFunction(ver)

\* The application of p stores to cell c of the writable block.  Other threads
\* go on while a transaction merges the pinned block.
Write(p, c) ==
    /\ pc[p] = "run" \/ tx.by = p
    /\ CanWrite(le[p].st)
    /\ c \in {p, Shared} \cap Cell
    /\ c = Shared => mtx.holder = p /\ pc[p] = "run" /\ Free(p, "fence")
    /\ WritesDone < MaxWrites
    /\ ver' = [ver EXCEPT ![c] = @ + 1]
    /\ priv' = [priv EXCEPT ![p][c] = ver'[c]]
    /\ hb' = [hb EXCEPT ![p][c] = ver'[c]]
    /\ late' = IF tx.by = p /\ ~ tx.written THEN late \cup {c} ELSE late \ {c}
    /\ UNCHANGED <<le, lad, owner, tx, pub, rdSet, minWr, wrSet, relSig, mtx, pc, acq, fence>>

\* pin faults the block in for writing first, so it finds it writable.
Pin(p) ==
    /\ "pin" \in Usage /\ pc[p] = "run"
    /\ le[p].st = "writable"
    /\ le' = [le EXCEPT ![p].st = "pinned"]
    /\ UNCHANGED <<lad, owner, tx, priv, pub, rdSet, minWr, wrSet, relSig, mtx, pc, acq, fence, ver, late, hb>>

Unpin(p) ==
    /\ pc[p] = "run" /\ tx.by # p
    /\ le[p].st = "pinned"
    /\ le' = [le EXCEPT ![p].st = "writable"]
    /\ wrSet' = [wrSet EXCEPT ![p] = TRUE]
    /\ UNCHANGED <<lad, owner, tx, priv, pub, rdSet, minWr, relSig, mtx, pc, acq, fence, ver, late, hb>>

----------------------------------------------------------------------------
(* Signatures *)

\* sig_buffer::merge for one block: the notice with the greater wr_ts stays.
MergeSig(a, b) ==
    [min |-> BiggerOf(a.min, b.min),
     wn |-> IF a.wn.wts > b.wn.wts THEN a.wn ELSE b.wn]

\* Mutant: the notices cut off do not raise the minimum timestamp.
Truncations_MinUnchanged(sig) ==
    {sig} \cup
    {[min |-> sig.min, wn |-> IF sig.wn.wts > cut THEN sig.wn ELSE NoNotice] :
        cut \in 1 .. MaxCut}

\* sig_buffer::truncate, when the first notice cut off has wr_ts cut: notices
\* of other blocks, which the model leaves out, can fill the signature up.
Truncations(sig) ==
    {sig} \cup
    {[min |-> BiggerOf(sig.min, cut), wn |-> IF sig.wn.wts > cut THEN sig.wn ELSE NoNotice] :
        cut \in 1 .. MaxCut}

----------------------------------------------------------------------------
(* Release fences *)

\* check_release and check_owned allow the fast path.
IsFastReleased(p) ==
    FastRelease /\ le[p].last /\ le[p].fcnt < le[p].fthr /\ Owns(p)

\* A fence finds the block in the write set and needs a transaction for it.
Releases(p) == wrSet[p] /\ Dirty(le[p].st) /\ ~ IsFastReleased(p)

\* Mutant: the notice is made without the new owner.
ReleaseNotice_NoHome(p, min) ==
    IF ~ wrSet[p] \/ ~ Dirty(le[p].st) THEN NoNotice
    ELSE [Transaction(p, le[p], min).notice EXCEPT !.home = NoProc]

\* seg_table::release of the block and the write notice made from its result.
\* A fast release announces the timestamps the LAD had until now.
ReleaseNotice(p, min) ==
    IF ~ wrSet[p] \/ ~ Dirty(le[p].st) THEN NoNotice
    ELSE IF IsFastReleased(p) THEN [home |-> p, rts |-> lad.rts, wts |-> lad.wts]
    ELSE Transaction(p, le[p], min).notice

\* The entry after a fast release, which goes by the LAD at this process.
FastReleased(e) == [e EXCEPT !.rts = lad.rts, !.fcnt = @ + 1]

ReleaseBlock(p, min) ==
    LET t == Transaction(p, le[p], min)
        ts == MakeNewTs(min, TRUE, lad)
    IN
    IF ~ wrSet[p] \/ ~ Dirty(le[p].st)
    THEN /\ wrSet' = [wrSet EXCEPT ![p] = FALSE]
         /\ UNCHANGED <<le, lad, owner, tx, priv, pub, rdSet>>
    ELSE IF IsFastReleased(p)
    THEN /\ le' = [le EXCEPT ![p] = FastReleased(@)]
         /\ lad' = [lw |-> lad.lw, wts |-> ts.wts, rts |-> ts.rts]
         /\ UNCHANGED <<owner, tx, priv, pub, rdSet, wrSet>>
    ELSE /\ DoTransaction(p, t)
         /\ rdSet' = [rdSet EXCEPT ![p] = @ (+) t.readable]
         /\ wrSet' = [wrSet EXCEPT ![p] = t.still]

\* Mutant: the notice of this fence replaces the signature collected so far.
SigsAfterFence_Replaces(p, min) == Truncations([min |-> 0, wn |-> ReleaseNotice(p, min)])

\* The release signature after a fence.
SigsAfterFence(p, min) ==
    Truncations(MergeSig(relSig[p], [min |-> 0, wn |-> ReleaseNotice(p, min)]))

\* A fence of a second thread (rel_thread, a second mutex).  It reads
\* min_wr_ts_ first, and the first thread may acquire before it goes on.
FenceStart(p) ==
    /\ "fence" \in Usage
    /\ ~ fence[p].on
    /\ fence' = [fence EXCEPT ![p] = [on |-> TRUE, min |-> minWr[p]]]
    /\ UNCHANGED <<le, lad, owner, tx, priv, pub, rdSet, minWr, wrSet, relSig, mtx, pc, acq,
                   ver, late, hb>>

FenceRelease(p) ==
    /\ fence[p].on /\ Free(p, "fence")
    /\ fence' = [fence EXCEPT ![p] = NoFence]
    /\ ReleaseBlock(p, fence[p].min)
    /\ \E sig \in SigsAfterFence(p, fence[p].min) : relSig' = [relSig EXCEPT ![p] = sig]
    /\ UNCHANGED <<minWr, mtx, pc, acq, ver, late, hb>>

----------------------------------------------------------------------------
(* Global mutex and barrier *)

JoinData(S) == [c \in Cell |-> CHOOSE n \in {d[c] : d \in S} : \A d \in S : d[c] <= n]

LockMutex(p) ==
    /\ "mutex" \in Usage
    /\ pc[p] = "run" /\ Free(p, "fence")
    /\ mtx.holder = NoProc
    /\ mtx' = [mtx EXCEPT !.holder = p]
    /\ acq' = [acq EXCEPT ![p] = [wns |-> {mtx.sig.wn}, min |-> mtx.sig.min,
                                  merge |-> mtx.sig]]
    /\ pc' = [pc EXCEPT ![p] = "acq"]
    /\ hb' = [hb EXCEPT ![p] = JoinData({@, mtx.hb})]
    /\ UNCHANGED <<le, lad, owner, tx, priv, pub, rdSet, minWr, wrSet, relSig, fence, ver, late>>

UnlockMutex(p) ==
    /\ pc[p] = "run" /\ Free(p, "unlock")
    /\ mtx.holder = p
    /\ ReleaseBlock(p, minWr[p])
    /\ \E sig \in SigsAfterFence(p, minWr[p]) :
        /\ relSig' = [relSig EXCEPT ![p] = sig]
        /\ mtx' = [holder |-> NoProc, sig |-> sig, hb |-> hb[p]]
    /\ UNCHANGED <<minWr, pc, acq, fence, ver, late, hb>>

\* barrier: release, and clear the release signature that is sent.
BarrierEnter(p) ==
    /\ "barrier" \in Usage
    /\ pc[p] = "run" /\ Free(p, "barrier")
    /\ ReleaseBlock(p, minWr[p])
    /\ \E sig \in SigsAfterFence(p, minWr[p]) :
        acq' = [acq EXCEPT ![p].merge = sig]
    /\ relSig' = [relSig EXCEPT ![p] = EmptySig]
    /\ pc' = [pc EXCEPT ![p] = "bar"]
    /\ UNCHANGED <<minWr, mtx, fence, ver, late, hb>>

\* coll.allgather, once everybody has entered: each gets the others' signatures.
AllGather ==
    /\ \A p \in Proc : pc[p] = "bar"
    /\ \E min \in [Proc -> {0} \cup {acq[q].merge.min : q \in Proc}] :
        /\ \A p \in Proc :
            /\ min[p] \in {0} \cup {acq[q].merge.min : q \in Proc \ {p}}
            /\ \A q \in Proc \ {p} : acq[q].merge.min <= min[p]
        /\ acq' = [p \in Proc |-> [wns |-> {acq[q].merge.wn : q \in Proc \ {p}},
                                   min |-> min[p], merge |-> EmptySig]]
    /\ pc' = [p \in Proc |-> "acq"]
    /\ hb' = [p \in Proc |-> JoinData({hb[q] : q \in Proc})]
    /\ UNCHANGED <<le, lad, owner, tx, priv, pub, rdSet, minWr, wrSet, relSig, mtx, fence, ver, late>>

----------------------------------------------------------------------------
(* Acquires *)

\* set_invalid_state.  A pinned block stays as it is and is merged instead.
Invalidated(st) ==
    IF st = "readonly_clean" THEN "invalid_clean"
    ELSE IF st \in {"readonly_dirty", "writable"} THEN "invalid_dirty" ELSE st

\* Entry e of p becomes invalid; a pinned block is brought up to date instead,
\* by a transaction whose result is dropped.
InvalidateTo(p, e, min) ==
    IF e.st = "pinned"
    THEN DoTransaction(p, Transaction(p, e, min))
    ELSE /\ le' = [le EXCEPT ![p] = [e EXCEPT !.st = Invalidated(e.st)]]
         /\ UNCHANGED <<lad, owner, tx, priv, pub>>

\* The entry once it knows of notice wn, with a lease until rts.
Noticed(e, wn, rts) == [e EXCEPT !.home = wn.home, !.rts = rts]

\* Mutant: a notice one past the lease is taken for an old one.
AcquireWn_OffByOne(p) ==
    /\ pc[p] = "acq" /\ Free(p, "wn")
    /\ \E wn \in acq[p].wns :
        /\ tx.by = p => wn.wts > le[p].rts
        /\ acq' = [acq EXCEPT ![p].wns = @ \ {wn}]
        /\ IF wn.wts > le[p].rts + 1
           THEN InvalidateTo(p, Noticed(le[p], wn, wn.rts), minWr[p])
           ELSE UNCHANGED <<le, lad, owner, tx, priv, pub>>
    /\ UNCHANGED <<rdSet, minWr, wrSet, relSig, mtx, pc, fence, ver, late, hb>>

\* Mutant: the reader takes a fresh lease on its own.
AcquireWn_ExtendsLease(p) ==
    /\ pc[p] = "acq" /\ Free(p, "wn")
    /\ \E wn \in acq[p].wns :
        /\ tx.by = p => wn.wts > le[p].rts
        /\ acq' = [acq EXCEPT ![p].wns = @ \ {wn}]
        /\ IF wn.wts > le[p].rts
           THEN InvalidateTo(p, Noticed(le[p], wn, wn.rts + Lease), minWr[p])
           ELSE UNCHANGED <<le, lad, owner, tx, priv, pub>>
    /\ UNCHANGED <<rdSet, minWr, wrSet, relSig, mtx, pc, fence, ver, late, hb>>

\* seg_table::acquire: a notice newer than the lease names the next home; only
\* such a notice can have started a transaction.
AcquireWn(p) ==
    /\ pc[p] = "acq" /\ Free(p, "wn")
    /\ \E wn \in acq[p].wns :
        /\ tx.by = p => wn.wts > le[p].rts
        /\ acq' = [acq EXCEPT ![p].wns = @ \ {wn}]
        /\ IF wn.wts > le[p].rts
           THEN InvalidateTo(p, Noticed(le[p], wn, wn.rts), minWr[p])
           ELSE UNCHANGED <<le, lad, owner, tx, priv, pub>>
    /\ UNCHANGED <<rdSet, minWr, wrSet, relSig, mtx, pc, fence, ver, late, hb>>

\* rd_set::self_invalidate, then (for a mutex) the signature is merged.  An
\* entry taken out is put back unless the lease that its visit of the block
\* finds has expired; a block queued twice is visited twice.
AcquireMin(p) ==
    LET m == acq[p].min
        expired == [r \in {r \in BagToSet(rdSet[p]) : m > r} |-> rdSet[p][r]]
        first == IF m > le[p].rts THEN EmptyBag ELSE Queued(le[p].rts)
        others == IF m > le'[p].rts THEN EmptyBag ELSE Requeued(le'[p].rts, BagCardinality(expired) - 1)
    IN
    /\ pc[p] = "acq" /\ acq[p].wns = {} /\ Free(p, "min")
    /\ minWr' = [minWr EXCEPT ![p] = BiggerOf(@, m)]
    /\ IF m <= minWr[p] \/ expired = EmptyBag
       THEN UNCHANGED <<le, lad, owner, tx, priv, pub, rdSet>>
       ELSE /\ IF m > le[p].rts
               THEN InvalidateTo(p, le[p], m)
               ELSE UNCHANGED <<le, lad, owner, tx, priv, pub>>
            /\ rdSet' = [rdSet EXCEPT ![p] = (@ (-) expired) (+) (first (+) others)]
    /\ IF acq[p].merge = EmptySig
       THEN UNCHANGED relSig
       ELSE \E sig \in Truncations(MergeSig(relSig[p], acq[p].merge)) :
                relSig' = [relSig EXCEPT ![p] = sig]
    /\ acq' = [acq EXCEPT ![p] = NothingToAcquire]
    /\ pc' = [pc EXCEPT ![p] = "run"]
    /\ UNCHANGED <<wrSet, mtx, fence, ver, late, hb>>

----------------------------------------------------------------------------
(* The first half of the transaction of a pinned block *)

\* Operation op of p has come to a transaction of the block.
MayMerge(p, op) ==
    \/ op = "fence" /\ fence[p].on /\ Releases(p)
    \/ op = "unlock" /\ pc[p] = "run" /\ mtx.holder = p /\ Releases(p)
    \/ op = "barrier" /\ "barrier" \in Usage /\ pc[p] = "run" /\ Releases(p)
    \/ op = "wn" /\ pc[p] = "acq" /\ \E wn \in acq[p].wns : wn.wts > le[p].rts
    \/ /\ op = "min" /\ pc[p] = "acq" /\ acq[p].wns = {}
       /\ acq[p].min > BiggerOf(minWr[p], le[p].rts)
       /\ \E r \in BagToSet(rdSet[p]) : acq[p].min > r

Op == {"fence", "unlock", "barrier", "wn", "min"}

\* lock_global, begin_transaction, and the memcmp of release_merge.
Compare(p) ==
    /\ tx.by = NoProc
    /\ Unprotected(p)
    /\ \E op \in Op :
        /\ MayMerge(p, op)
        /\ tx' = [by |-> p, op |-> op, written |-> priv[p] # pub[p]]
    /\ UNCHANGED <<le, lad, owner, priv, pub, rdSet, minWr, wrSet, relSig, mtx, pc, acq,
                   fence, ver, late, hb>>

----------------------------------------------------------------------------
Next ==
    \/ \E p \in Proc :
        \/ StartRead(p) \/ StartWrite(p) \/ (\E c \in Cell : Write(p, c))
        \/ Pin(p) \/ Unpin(p)
        \/ FenceStart(p) \/ FenceRelease(p) \/ LockMutex(p) \/ UnlockMutex(p) \/ BarrierEnter(p)
        \/ AcquireWn(p) \/ AcquireMin(p) \/ Compare(p)
    \/ AllGather

Spec == Init /\ [][Next]_vars

----------------------------------------------------------------------------
(* Properties *)

Readable(p) == ~ Invalid(le[p].st)

Notice == [home : Proc, rts : Nat, wts : Nat]
Sig == [min : Nat, wn : Notice]
Tx == [by : Proc \cup {NoProc}, op : Op \cup {"none"}, written : BOOLEAN]

\* Types of the local entries, the attached data and the signatures.
TypeOK ==
    /\ le \in [Proc -> [home : Proc, wrCount : Nat, rts : Nat, last : BOOLEAN,
                        fcnt : Nat, fthr : Nat,
                        st : {"invalid_clean", "invalid_dirty", "readonly_clean",
                              "readonly_dirty", "writable", "pinned"}]]
    /\ lad \in [lw : Proc, wts : Nat, rts : Nat]
    /\ owner \in Proc
    /\ tx \in Tx
    /\ minWr \in [Proc -> Nat]
    /\ wrSet \in [Proc -> BOOLEAN]
    /\ relSig \in [Proc -> Sig]
    /\ mtx.sig \in Sig
    /\ pc \in [Proc -> {"run", "acq", "bar"}]
    /\ fence \in [Proc -> [on : BOOLEAN, min : Nat]]
    /\ acq \in [Proc -> [wns : SUBSET Notice, min : Nat, merge : Sig]]

\* A read of a block that is readable returns, for every cell, the write that
\* happens before the read, or a newer one.
FreshReads ==
    \A p \in Proc : (pc[p] = "run" /\ Readable(p)) =>
        \A c \in Cell : priv[p][c] >= hb[p][c]

\* The race detector of the merge never throws: the application is free of
\* races, so no cell is changed both here and in the data merged in.
NoFalseRace ==
    \A p \in Proc :
        /\ Dirty(le[p].st) /\ lad.lw # p => ~ Races(Exported(lad.lw), priv[p], pub[p])
        /\ le[p].st = "invalid_dirty" /\ le[p].home # p
                => ~ Races(Exported(le[p].home), priv[p], pub[p])

\* The newest version of cell c is at the last writer, where the next
\* transaction reads it, or is a local difference that a fence will find.
Kept(c) ==
    \/ Exported(lad.lw)[c] = ver[c]
    \/ \E p \in Proc : /\ priv[p][c] = ver[c] /\ priv[p][c] # pub[p][c]
                      /\ Dirty(le[p].st) /\ wrSet[p]

\* No update is lost, but for one kind: a store to a pinned block between the
\* comparison of a transaction that finds the block clean and its memcpy of the
\* remote data over it (blk_data_table.hpp:243 and :340).
NoLostUpdate == \A c \in Cell \ late : Kept(c)

\* No update at all is lost.  The comment at blk_data_table.hpp:236-239 says so
\* of concurrent stores; it does not hold when blocks are pinned.
NothingLost == \A c \in Cell : Kept(c)

\* No copy is leased beyond the read timestamp in the attached data.
LeaseIsKnown == \A p \in Proc : le[p].rts <= lad.rts

\* A write timestamp is later than all leases handed out before it.
WriteBeatsLeases ==
    [][lad'.wts # lad.wts => \A p \in Proc : lad'.wts > le[p].rts]_vars

\* Self-invalidation reaches every old block: a copy that can be read, and is
\* not pinned, holds a lease that covers the minimum write timestamp.
ExpiredIsInvalid ==
    \A p \in Proc : Readable(p) /\ le[p].st # "pinned" => le[p].rts >= minWr[p]
=============================================================================
