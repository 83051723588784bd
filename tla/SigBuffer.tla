----------------------------- MODULE SigBuffer -----------------------------
(***************************************************************************)
(* sig_buffer: a signature is a vector of write notices, newest first, and *)
(* min_wr_ts, which stands for every notice that was cut off.              *)
(***************************************************************************)
EXTENDS Naturals, Sequences, SequencesExt, FiniteSets

CONSTANTS
    Blk,      \* blocks that notices are about
    MaxTs,    \* bound: write timestamps
    MaxLen    \* max_rel_sig_len; a slot of the signature table holds as many

ASSUME SigAssumption ==
    /\ IsFiniteSet(Blk)
    /\ MaxTs \in Nat
    /\ MaxLen \in Nat

Notice == [blk : Blk, ts : 1..MaxTs]

EmptySig == [min |-> 0, wns |-> <<>>]

\* greater_wn
GreaterWn(a, b) == a.ts > b.ts

\* create_from_wns: std::sort leaves notices with equal timestamps in any order.
CreateFromWns(wns) ==
    {[min |-> 0, wns |-> s] : s \in
        {s \in SetToSeqs(wns) : \A i \in 1..Len(s) - 1 : ~GreaterWn(s[i + 1], s[i])}}

\* Mutant: the timestamp of what is cut off is lost.
Truncate_MinUnchanged(sig, n) ==
    IF Len(sig.wns) <= n THEN sig ELSE [sig EXCEPT !.wns = SubSeq(@, 1, n)]

\* truncate
Truncate(sig, n) ==
    IF Len(sig.wns) <= n THEN sig
    ELSE [min |-> IF sig.wns[n + 1].ts > sig.min THEN sig.wns[n + 1].ts ELSE sig.min,
          wns |-> SubSeq(sig.wns, 1, n)]

\* Mutant: the vectors are appended, not merged by their timestamps.
MergeByTs_Appends(a, b) == a \o b

\* The walk over two vectors; the second one goes first on equal timestamps.
MergeByTs(a, b) ==
    LET walk[i \in 1..Len(a) + 1, j \in 1..Len(b) + 1] ==
            IF i > Len(a) THEN SubSeq(b, j, Len(b))
            ELSE IF j > Len(b) \/ GreaterWn(a[i], b[j]) THEN <<a[i]>> \o walk[i + 1, j]
            ELSE <<b[j]>> \o walk[i, j + 1]
    IN  walk[1, 1]

\* try_set_flag: the first notice of a block stays, later ones are ignored.
FirstOfEachBlk(s) ==
    FoldLeft(LAMBDA kept, wn : IF \E i \in DOMAIN kept : kept[i].blk = wn.blk
                               THEN kept ELSE Append(kept, wn),
             <<>>, s)

\* merge
Merge(a, b) ==
    [min |-> IF a.min > b.min THEN a.min ELSE b.min,
     wns |-> FirstOfEachBlk(MergeByTs(a.wns, b.wns))]

----------------------------------------------------------------------------

\* Who acquires the signature drops copies older than the notice: it is listed,
\* or a newer one of its block is, or it is not later than min_wr_ts.
Covers(sig, n) ==
    \/ sig.min >= n.ts
    \/ \E i \in DOMAIN sig.wns : sig.wns[i].blk = n.blk /\ sig.wns[i].ts >= n.ts

\* Newest first, one notice per block.
WellFormed(sig) ==
    \A i, j \in DOMAIN sig.wns : i < j =>
        /\ sig.wns[i].ts >= sig.wns[j].ts
        /\ sig.wns[i].blk # sig.wns[j].blk
=============================================================================
