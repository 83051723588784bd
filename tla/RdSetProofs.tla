---------------------------- MODULE RdSetProofs ----------------------------
(***************************************************************************)
(* Proof that no readable block falls out of the read set, for any number  *)
(* of threads and blocks.  What has to be added to NoneForgotten is that a *)
(* block about to become readable is covered already, for the lease it is  *)
(* about to get, and that its lock keeps acquires from visiting it.        *)
(***************************************************************************)
EXTENDS RdSet, Integers, TLAPS

\* Block b can be found before a lease that ends at r or later has expired: it
\* is queued for no later than that, or an acquire has it in hand.
Covered(b, r) ==
    \/ \E e \in BagToSet(pq) : e.blk = b /\ e.rts <= r
    \/ \E t \in Thread : \/ \E e \in BagToSet(todo[t]) : e.blk = b
                         \/ \E e \in BagToSet(newEnts[t]) : e.blk = b /\ e.rts <= r

\* A thread that makes a block readable has its lock.
HasLock == \A t \in Thread : pc[t] \in {"tx", "add", "ready"} => cur[t] \in Blk /\ lk[cur[t]] = t

\* A block that add_readable has queued stays covered until it is readable.
ReadyIsCovered == \A t \in Thread : pc[t] = "ready" => Covered(cur[t], lease[t])

\* Every readable block is covered.
ReadableIsCovered == \A b \in Blk : st[b] = "readable" => Covered(b, rts[b])

\* Only an acquire has candidates in hand.
HandsAreEmpty == \A t \in Thread : pc[t] # "visit" => todo[t] = EmptyBag /\ newEnts[t] = EmptyBag

IInv == TypeOK /\ HasLock /\ ReadyIsCovered /\ ReadableIsCovered /\ HandsAreEmpty

\* While no acquire is in progress, every readable block is in the queue with an
\* entry that expires no later than its lease: the self_invalidate that raises
\* min_wr_ts_ beyond the lease makes the block a candidate.
QueuedWhenQuiet ==
    (\A t \in Thread : pc[t] # "visit") =>
        \A b \in Blk : st[b] = "readable" => \E e \in BagToSet(pq) : e.blk = b /\ e.rts <= rts[b]

----------------------------------------------------------------------------
(* Bags *)

\* EmptyBag has no elements.
LEMMA EmptyIsBag == IsABag(EmptyBag) /\ BagToSet(EmptyBag) = {}
BY DEF IsABag, EmptyBag, SetToBag, BagToSet

\* A bag of one entry, as add_readable pushes it.
LEMMA AddedIsBag ==
    ASSUME NEW b, NEW r
    PROVE  IsABag(Added(b, r)) /\ BagToSet(Added(b, r)) = {[blk |-> b, rts |-> r]}
BY DEF IsABag, Added, SetToBag, BagToSet

\* The union of two bags has the elements of both.
LEMMA UnionOfBags ==
    ASSUME NEW A, NEW B, IsABag(A), IsABag(B)
    PROVE  IsABag(A (+) B) /\ BagToSet(A (+) B) = BagToSet(A) \cup BagToSet(B)
<1> DEFINE Sum(e) == (IF e \in DOMAIN A THEN A[e] ELSE 0) + (IF e \in DOMAIN B THEN B[e] ELSE 0)
<1>1. A (+) B = [e \in DOMAIN A \cup DOMAIN B |-> Sum(e)]  BY DEF (+)
<1>2. ASSUME NEW e \in DOMAIN A \cup DOMAIN B PROVE Sum(e) \in Nat /\ Sum(e) > 0
  <2>1. e \in DOMAIN A => A[e] \in Nat /\ A[e] > 0  BY DEF IsABag
  <2>2. e \in DOMAIN B => B[e] \in Nat /\ B[e] > 0  BY DEF IsABag
  <2> QED  BY <2>1, <2>2
<1> HIDE DEF Sum
<1> QED  BY <1>1, <1>2 DEF IsABag, BagToSet

\* What is left of a bag after some of its elements are removed.
LEMMA DifferenceOfBags ==
    ASSUME NEW A, NEW B, IsABag(A), IsABag(B)
    PROVE  /\ IsABag(A (-) B) /\ BagToSet(A (-) B) \subseteq BagToSet(A)
           /\ \A e \in BagToSet(A) \ BagToSet(B) : e \in BagToSet(A (-) B)
<1> DEFINE Rest(e) == IF e \in DOMAIN B THEN A[e] - B[e] ELSE A[e]
           R == [e \in DOMAIN A |-> Rest(e)]
<1>1. A (-) B = [e \in {d \in DOMAIN R : R[d] > 0} |-> R[e]]  BY DEF (-)
<1>2. ASSUME NEW e \in DOMAIN A
      PROVE  R[e] \in Int /\ (e \notin DOMAIN B => R[e] > 0)
  <2>1. A[e] \in Nat /\ A[e] > 0  BY DEF IsABag
  <2>2. e \in DOMAIN B => B[e] \in Nat /\ B[e] > 0  BY DEF IsABag
  <2> QED  BY <2>1, <2>2
<1>3. DOMAIN R = DOMAIN A  OBVIOUS
<1> HIDE DEF R
<1>4. \A d \in DOMAIN R : R[d] > 0 => R[d] \in Nat  BY <1>2, <1>3
<1> QED  BY <1>1, <1>2, <1>3, <1>4 DEF IsABag, BagToSet

\* The candidates of an acquire are a part of the queue.
LEMMA ExpiredIsBag ==
    ASSUME IsABag(pq), NEW m
    PROVE  IsABag(Expired(m)) /\ BagToSet(Expired(m)) = {e \in BagToSet(pq) : m > e.rts}
BY DEF IsABag, Expired, BagToSet

----------------------------------------------------------------------------
(* Covered blocks *)

\* A step keeps block b covered when what it takes out of the queue or out of
\* the hands of an acquire turns up elsewhere.
LEMMA CoverKept ==
    ASSUME TypeOK, NEW b \in Blk, NEW r \in Ts, NEW q \in Ts, r <= q, Covered(b, r),
           \A e \in BagToSet(pq) : e \in BagToSet(pq') \/ \E t \in Thread : e \in BagToSet(todo'[t]),
           \A t \in Thread : \A e \in BagToSet(todo[t]) : e.blk = b => e \in BagToSet(todo'[t]),
           \A t \in Thread : \A e \in BagToSet(newEnts[t]) :
                e \in BagToSet(newEnts'[t]) \/ e \in BagToSet(pq')
    PROVE  \/ \E e \in BagToSet(pq') : e.blk = b /\ e.rts <= q
           \/ \E t \in Thread : \/ \E e \in BagToSet(todo'[t]) : e.blk = b
                                \/ \E e \in BagToSet(newEnts'[t]) : e.blk = b /\ e.rts <= q
<1>1. ASSUME NEW e \in Entry, e.rts <= r PROVE e.rts <= q
  <2>1. e.rts \in Nat /\ r \in Nat /\ q \in Nat  BY RdSetAssumption DEF Entry, Ts
  <2> QED  BY <1>1, <2>1
<1>2. CASE \E e \in BagToSet(pq) : e.blk = b /\ e.rts <= r
  <2>1. PICK e \in BagToSet(pq) : e.blk = b /\ e.rts <= r  BY <1>2
  <2>2. e \in Entry  BY DEF TypeOK
  <2> QED  BY <1>1, <2>1, <2>2
<1>3. CASE \E t \in Thread : \E e \in BagToSet(todo[t]) : e.blk = b
  BY <1>3
<1>4. CASE \E t \in Thread : \E e \in BagToSet(newEnts[t]) : e.blk = b /\ e.rts <= r
  <2>1. PICK t \in Thread : \E e \in BagToSet(newEnts[t]) : e.blk = b /\ e.rts <= r  BY <1>4
  <2>2. PICK e \in BagToSet(newEnts[t]) : e.blk = b /\ e.rts <= r  BY <2>1
  <2>3. e \in Entry  BY DEF TypeOK
  <2> QED  BY <1>1, <2>2, <2>3
<1> QED  BY <1>2, <1>3, <1>4 DEF Covered

\* The same for a step that leaves the queue and all hands alone.
LEMMA CoverKeptQuiet ==
    ASSUME TypeOK, UNCHANGED <<pq, todo, newEnts>>,
           NEW b \in Blk, NEW r \in Ts, NEW q \in Ts, r <= q, Covered(b, r)
    PROVE  \/ \E e \in BagToSet(pq') : e.blk = b /\ e.rts <= q
           \/ \E t \in Thread : \/ \E e \in BagToSet(todo'[t]) : e.blk = b
                                \/ \E e \in BagToSet(newEnts'[t]) : e.blk = b /\ e.rts <= q
BY CoverKept

\* Steps that leave the queue and all hands alone keep what is covered.
LEMMA QuietStep ==
    ASSUME TypeOK, TypeOK', ReadyIsCovered, ReadableIsCovered, UNCHANGED <<pq, todo, newEnts>>,
           \A t \in Thread : pc'[t] = "ready" =>
                pc[t] = "ready" /\ cur[t] \in Blk /\ cur'[t] = cur[t] /\ lease'[t] = lease[t],
           \A b \in Blk : st'[b] = "readable" =>
                \/ st[b] = "readable" /\ rts[b] <= rts'[b]
                \/ \E t \in Thread : pc[t] = "ready" /\ cur[t] = b /\ rts'[b] = lease[t]
    PROVE  ReadyIsCovered' /\ ReadableIsCovered'
<1>1. ASSUME NEW t \in Thread, pc'[t] = "ready" PROVE Covered(cur[t], lease[t])'
  <2>1. cur[t] \in Blk /\ lease[t] \in Ts /\ Covered(cur[t], lease[t])
    BY <1>1 DEF TypeOK, ReadyIsCovered
  <2>2. cur'[t] = cur[t] /\ lease'[t] = lease[t]  BY <1>1
  <2>3. lease[t] <= lease[t]  BY <2>1, RdSetAssumption DEF Ts
  <2>4. PICK b \in Blk, r \in Ts : b = cur[t] /\ r = lease[t]  BY <2>1
  <2> QED  BY <2>1, <2>2, <2>3, <2>4, CoverKeptQuiet DEF Covered
<1>2. ASSUME NEW b \in Blk, st'[b] = "readable" PROVE Covered(b, rts[b])'
  <2>0. rts[b] \in Ts /\ rts'[b] \in Ts  BY DEF TypeOK
  <2>1. CASE st[b] = "readable" /\ rts[b] <= rts'[b]
    <3>1. Covered(b, rts[b])  BY <2>1 DEF ReadableIsCovered
    <3> QED  BY <2>0, <2>1, <3>1, CoverKeptQuiet DEF Covered
  <2>2. CASE \E t \in Thread : pc[t] = "ready" /\ cur[t] = b /\ rts'[b] = lease[t]
    <3>1. PICK t \in Thread : pc[t] = "ready" /\ cur[t] = b /\ rts'[b] = lease[t]  BY <2>2
    <3>2. Covered(b, lease[t]) /\ lease[t] \in Ts  BY <2>0, <3>1 DEF ReadyIsCovered
    <3>3. lease[t] <= rts'[b]  BY <3>1, <3>2, RdSetAssumption DEF Ts
    <3> QED  BY <2>0, <3>2, <3>3, CoverKeptQuiet DEF Covered
  <2> QED  BY <1>2, <2>1, <2>2
<1> QED  BY <1>1, <1>2 DEF ReadyIsCovered, ReadableIsCovered

----------------------------------------------------------------------------
(* One lemma per action *)

\* A fault: the block is locked, nothing is queued yet.
LEMMA StartReadStep ==
    ASSUME IInv, NEW t \in Thread, NEW b \in Blk, StartRead(t, b)
    PROVE  IInv'
<1> USE DEF IInv
<1>1. TypeOK'  BY DEF StartRead, Goto, TypeOK
<1>2. HasLock'
  BY RdSetAssumption DEF StartRead, Goto, TypeOK, HasLock
<1>3. ReadyIsCovered' /\ ReadableIsCovered'
  <2>1. \A u \in Thread : pc'[u] = "ready" =>
            pc[u] = "ready" /\ cur[u] \in Blk /\ cur'[u] = cur[u] /\ lease'[u] = lease[u]
    BY DEF StartRead, Goto, TypeOK, HasLock
  <2>2. \A c \in Blk : st'[c] = "readable" => st[c] = "readable" /\ rts[c] <= rts'[c]
    BY RdSetAssumption DEF StartRead, TypeOK, Ts
  <2>3. UNCHANGED <<pq, todo, newEnts>>  BY DEF StartRead
  <2> QED  BY <1>1, <2>1, <2>2, <2>3, QuietStep
<1>4. HandsAreEmpty'  BY DEF StartRead, Goto, TypeOK, HandsAreEmpty
<1> QED  BY <1>1, <1>2, <1>3, <1>4

\* A fence begins, or ends.
LEMMA FenceBoundaryStep ==
    ASSUME IInv, NEW t \in Thread, FenceStart(t) \/ FenceEnd(t)
    PROVE  IInv'
<1> USE DEF IInv
<1>1. TypeOK'  BY DEF FenceStart, FenceEnd, Goto, TypeOK
<1>2. HasLock'  BY DEF FenceStart, FenceEnd, Goto, TypeOK, HasLock
<1>3. ReadyIsCovered' /\ ReadableIsCovered'
  <2>1. \A u \in Thread : pc'[u] = "ready" =>
            pc[u] = "ready" /\ cur[u] \in Blk /\ cur'[u] = cur[u] /\ lease'[u] = lease[u]
    BY DEF FenceStart, FenceEnd, Goto, TypeOK, HasLock
  <2>2. \A c \in Blk : st'[c] = "readable" => st[c] = "readable" /\ rts[c] <= rts'[c]
    BY RdSetAssumption DEF FenceStart, FenceEnd, TypeOK, Ts
  <2>3. UNCHANGED <<pq, todo, newEnts>>  BY DEF FenceStart, FenceEnd
  <2> QED  BY <1>1, <2>1, <2>2, <2>3, QuietStep
<1>4. HandsAreEmpty'  BY DEF FenceStart, FenceEnd, Goto, TypeOK, HandsAreEmpty
<1> QED  BY <1>1, <1>2, <1>3, <1>4

\* A lease that is extended, or a notice that is later than it: the timestamp of
\* an unlocked block rises, and a block that is readable was so before.
LEMMA LeaseRisesStep ==
    ASSUME IInv, NEW t \in Thread, NEW b \in Blk,
           ReleaseReadable(t, b) \/ FastRelease(t, b) \/ AcquireWn(t, b)
    PROVE  IInv'
<1> USE DEF IInv
<1>1. PICK r \in Ts : rts' = [rts EXCEPT ![b] = r] /\ r >= rts[b]
  BY RdSetAssumption DEF ReleaseReadable, FastRelease, AcquireWn, NewLeases, TypeOK, Ts
<1>2. /\ UNCHANGED <<minWr, pq, lk, pc, locals>>
      /\ st' = st \/ st' = [st EXCEPT ![b] = "invalid"]
  BY DEF ReleaseReadable, FastRelease, AcquireWn
<1>3. TypeOK'  BY <1>1, <1>2 DEF TypeOK, locals
<1>4. HasLock'  BY <1>2 DEF HasLock, locals
<1>5. ReadyIsCovered' /\ ReadableIsCovered'
  <2>1. \A u \in Thread : pc'[u] = "ready" =>
            pc[u] = "ready" /\ cur[u] \in Blk /\ cur'[u] = cur[u] /\ lease'[u] = lease[u]
    BY <1>2 DEF HasLock, locals
  <2>2. \A c \in Blk : st'[c] = "readable" => st[c] = "readable" /\ rts[c] <= rts'[c]
    BY <1>1, <1>2, RdSetAssumption DEF TypeOK, Ts
  <2>3. UNCHANGED <<pq, todo, newEnts>>  BY <1>2 DEF locals
  <2> QED  BY <1>3, <2>1, <2>2, <2>3, QuietStep
<1>6. HandsAreEmpty'  BY <1>2 DEF HandsAreEmpty, locals
<1> QED  BY <1>3, <1>4, <1>5, <1>6

\* A fence takes the lock of an invalid block.
LEMMA ReleaseInvalidStep ==
    ASSUME IInv, NEW t \in Thread, NEW b \in Blk, ReleaseInvalid(t, b)
    PROVE  IInv'
<1> USE DEF IInv
<1>1. TypeOK'  BY DEF ReleaseInvalid, Goto, TypeOK
<1>2. HasLock'
  BY RdSetAssumption DEF ReleaseInvalid, Goto, TypeOK, HasLock
<1>3. ReadyIsCovered' /\ ReadableIsCovered'
  <2>1. \A u \in Thread : pc'[u] = "ready" =>
            pc[u] = "ready" /\ cur[u] \in Blk /\ cur'[u] = cur[u] /\ lease'[u] = lease[u]
    BY DEF ReleaseInvalid, Goto, TypeOK, HasLock
  <2>2. \A c \in Blk : st'[c] = "readable" => st[c] = "readable" /\ rts[c] <= rts'[c]
    BY RdSetAssumption DEF ReleaseInvalid, TypeOK, Ts
  <2>3. UNCHANGED <<pq, todo, newEnts>>  BY DEF ReleaseInvalid
  <2> QED  BY <1>1, <2>1, <2>2, <2>3, QuietStep
<1>4. HandsAreEmpty'  BY DEF ReleaseInvalid, Goto, TypeOK, HandsAreEmpty
<1> QED  BY <1>1, <1>2, <1>3, <1>4

\* end_transaction chooses the lease; the block is still invalid.
LEMMA EndTransactionStep ==
    ASSUME IInv, NEW t \in Thread, EndTransaction(t)
    PROVE  IInv'
<1> USE DEF IInv
<1>1. PICK r \in Ts : lease' = [lease EXCEPT ![t] = r]
  BY DEF EndTransaction, NewLeases
<1>2. TypeOK'  BY <1>1 DEF EndTransaction, Goto, TypeOK
<1>3. HasLock'  BY DEF EndTransaction, Goto, TypeOK, HasLock
<1>4. ReadyIsCovered' /\ ReadableIsCovered'
  <2>1. \A u \in Thread : pc'[u] = "ready" =>
            pc[u] = "ready" /\ cur[u] \in Blk /\ cur'[u] = cur[u] /\ lease'[u] = lease[u]
    BY <1>1 DEF EndTransaction, Goto, TypeOK, HasLock
  <2>2. \A c \in Blk : st'[c] = "readable" => st[c] = "readable" /\ rts[c] <= rts'[c]
    BY RdSetAssumption DEF EndTransaction, TypeOK, Ts
  <2>3. UNCHANGED <<pq, todo, newEnts>>  BY DEF EndTransaction
  <2> QED  BY <1>2, <2>1, <2>2, <2>3, QuietStep
<1>5. HandsAreEmpty'  BY DEF EndTransaction, Goto, TypeOK, HandsAreEmpty
<1> QED  BY <1>2, <1>3, <1>4, <1>5

\* The block becomes readable, with the lease it was queued for.
LEMMA MakeReadableStep ==
    ASSUME IInv, NEW t \in Thread, MakeReadable(t)
    PROVE  IInv'
<1> USE DEF IInv
<1>0. cur[t] \in Blk /\ lk[cur[t]] = t /\ lease[t] \in Ts /\ 0 \in Ts
  BY RdSetAssumption DEF MakeReadable, HasLock, TypeOK, Ts
<1>1. TypeOK'  BY <1>0 DEF MakeReadable, Goto, TypeOK
<1>2. HasLock'
  BY <1>0 DEF MakeReadable, Goto, TypeOK, HasLock
<1>3. ReadyIsCovered' /\ ReadableIsCovered'
  <2>1. \A u \in Thread : pc'[u] = "ready" =>
            pc[u] = "ready" /\ cur[u] \in Blk /\ cur'[u] = cur[u] /\ lease'[u] = lease[u]
    BY DEF MakeReadable, Goto, TypeOK, HasLock
  <2>2. \A c \in Blk : st'[c] = "readable" =>
            \/ st[c] = "readable" /\ rts[c] <= rts'[c]
            \/ pc[t] = "ready" /\ cur[t] = c /\ rts'[c] = lease[t]
    BY <1>0, RdSetAssumption DEF MakeReadable, TypeOK, Ts
  <2>3. UNCHANGED <<pq, todo, newEnts>>  BY DEF MakeReadable
  <2> QED  BY <1>1, <2>1, <2>2, <2>3, QuietStep
<1>4. HandsAreEmpty'  BY DEF MakeReadable, Goto, TypeOK, HandsAreEmpty
<1> QED  BY <1>1, <1>2, <1>3, <1>4

\* Steps that move entries and change no lease: what was covered stays covered,
\* except a block that a visit makes invalid or keeps by an entry of its own.
LEMMA MovingStep ==
    ASSUME TypeOK, TypeOK', HasLock, ReadyIsCovered, ReadableIsCovered,
           UNCHANGED <<rts, cur, lease>>,
           \A e \in BagToSet(pq) : e \in BagToSet(pq') \/ \E t \in Thread : e \in BagToSet(todo'[t]),
           \A t \in Thread : \A e \in BagToSet(newEnts[t]) :
                e \in BagToSet(newEnts'[t]) \/ e \in BagToSet(pq'),
           \A b \in Blk :
                \/ \A t \in Thread : \A e \in BagToSet(todo[t]) : e.blk = b => e \in BagToSet(todo'[t])
                \/ /\ lk[b] = Nil
                   /\ st'[b] = "readable" => \E t \in Thread :
                        [blk |-> b, rts |-> rts[b]] \in BagToSet(newEnts'[t]),
           \A b \in Blk : st'[b] = "readable" => st[b] = "readable",
           \A t \in Thread : pc'[t] = "ready" =>
                \/ pc[t] = "ready"
                \/ cur[t] \in Blk /\ [blk |-> cur[t], rts |-> lease[t]] \in BagToSet(pq')
    PROVE  ReadyIsCovered' /\ ReadableIsCovered'
<1>0. \A r \in Ts : r <= r  BY RdSetAssumption DEF Ts
<1>1. ASSUME NEW t \in Thread, pc'[t] = "ready" PROVE Covered(cur[t], lease[t])'
  <2>1. CASE pc[t] = "ready"
    <3>1. cur[t] \in Blk /\ lk[cur[t]] = t /\ lease[t] \in Ts /\ Covered(cur[t], lease[t])
      BY <2>1 DEF TypeOK, ReadyIsCovered, HasLock
    <3>2. PICK b \in Blk, r \in Ts : b = cur[t] /\ r = lease[t]  BY <3>1
    <3>3. lk[b] # Nil  BY <3>1, <3>2, RdSetAssumption
    <3>4. \A u \in Thread : \A e \in BagToSet(todo[u]) : e.blk = b => e \in BagToSet(todo'[u])
      BY <3>3
    <3>5. Covered(b, r) /\ r <= r  BY <1>0, <3>1, <3>2
    <3>6. \/ \E e \in BagToSet(pq') : e.blk = b /\ e.rts <= r
          \/ \E u \in Thread : \/ \E e \in BagToSet(todo'[u]) : e.blk = b
                               \/ \E e \in BagToSet(newEnts'[u]) : e.blk = b /\ e.rts <= r
      BY <3>4, <3>5, CoverKept
    <3> QED  BY <3>2, <3>6 DEF Covered
  <2>2. CASE cur[t] \in Blk /\ [blk |-> cur[t], rts |-> lease[t]] \in BagToSet(pq')
    <3>1. lease[t] <= lease[t]  BY <1>0 DEF TypeOK
    <3>2. cur'[t] = cur[t] /\ lease'[t] = lease[t]  OBVIOUS
    <3> QED  BY <2>2, <3>1, <3>2 DEF Covered
  <2> QED  BY <1>1, <2>1, <2>2
<1>2. ASSUME NEW b \in Blk, st'[b] = "readable" PROVE Covered(b, rts[b])'
  <2>0. rts[b] \in Ts /\ rts'[b] = rts[b] /\ rts[b] <= rts[b]  BY <1>0 DEF TypeOK
  <2>1. CASE \A t \in Thread : \A e \in BagToSet(todo[t]) : e.blk = b => e \in BagToSet(todo'[t])
    <3>1. Covered(b, rts[b])  BY <1>2 DEF ReadableIsCovered
    <3>2. PICK r \in Ts : r = rts[b]  BY <2>0
    <3>3. \/ \E e \in BagToSet(pq') : e.blk = b /\ e.rts <= r
          \/ \E u \in Thread : \/ \E e \in BagToSet(todo'[u]) : e.blk = b
                               \/ \E e \in BagToSet(newEnts'[u]) : e.blk = b /\ e.rts <= r
      BY <2>0, <2>1, <3>1, <3>2, CoverKept
    <3> QED  BY <2>0, <3>2, <3>3 DEF Covered
  <2>2. CASE \E t \in Thread : [blk |-> b, rts |-> rts[b]] \in BagToSet(newEnts'[t])
    BY <2>0, <2>2 DEF Covered
  <2> QED  BY <1>2, <2>1, <2>2
<1> QED  BY <1>1, <1>2 DEF ReadyIsCovered, ReadableIsCovered

\* add_readable queues the block for its lease.
LEMMA AddReadableStep ==
    ASSUME IInv, NEW t \in Thread, AddReadable(t)
    PROVE  IInv'
<1> USE DEF IInv
<1>0. cur[t] \in Blk /\ lease[t] \in Ts  BY DEF AddReadable, HasLock, TypeOK
<1>1. IsABag(pq') /\ BagToSet(pq') = BagToSet(pq) \cup {[blk |-> cur[t], rts |-> lease[t]]}
  BY UnionOfBags, AddedIsBag DEF AddReadable, TypeOK
<1>2. /\ pc' = [pc EXCEPT ![t] = "ready"] /\ pc[t] = "add"
      /\ UNCHANGED <<minWr, st, rts, lk, min, cur, lease, todo, newEnts>>
  BY DEF AddReadable, Goto, locals
<1>3. TypeOK'  BY <1>0, <1>1, <1>2 DEF TypeOK, Entry
<1>4. HasLock'  BY <1>2 DEF TypeOK, HasLock
<1>5. ReadyIsCovered' /\ ReadableIsCovered'
  <2>1. \A u \in Thread : pc'[u] = "ready" =>
            \/ pc[u] = "ready"
            \/ cur[u] \in Blk /\ [blk |-> cur[u], rts |-> lease[u]] \in BagToSet(pq')
    BY <1>0, <1>1, <1>2 DEF TypeOK
  <2> QED  BY <1>1, <1>2, <1>3, <2>1, MovingStep
<1>6. HandsAreEmpty'  BY <1>2 DEF TypeOK, HandsAreEmpty
<1> QED  BY <1>3, <1>4, <1>5, <1>6

\* An acquire raises the minimum and takes the candidates out of the queue.
LEMMA SelfInvalidateStep ==
    ASSUME IInv, NEW t \in Thread, NEW m \in Ts, SelfInvalidate(t, m)
    PROVE  IInv'
<1> USE DEF IInv
<1>1. IsABag(Expired(m)) /\ BagToSet(Expired(m)) = {e \in BagToSet(pq) : m > e.rts}
  BY ExpiredIsBag DEF TypeOK
<1>2. /\ IsABag(pq') /\ BagToSet(pq') \subseteq BagToSet(pq)
      /\ \A e \in BagToSet(pq) \ BagToSet(Expired(m)) : e \in BagToSet(pq')
  BY <1>1, DifferenceOfBags DEF SelfInvalidate, TypeOK
<1>3. /\ pc' = [pc EXCEPT ![t] = "visit"] /\ pc[t] = "idle"
      /\ todo' = [todo EXCEPT ![t] = Expired(m)] /\ min' = [min EXCEPT ![t] = m] /\ minWr' = m
      /\ UNCHANGED <<st, rts, lk, cur, lease, newEnts>>
  BY DEF SelfInvalidate, Goto
<1>4. \A u \in Thread : todo'[u] = IF u = t THEN Expired(m) ELSE todo[u]  BY <1>3 DEF TypeOK
<1>5. TypeOK'
  BY <1>1, <1>2, <1>3, <1>4 DEF TypeOK
<1>6. HasLock'  BY <1>3 DEF TypeOK, HasLock
<1>7. ReadyIsCovered' /\ ReadableIsCovered'
  <2>1. todo[t] = EmptyBag /\ BagToSet(todo[t]) = {}
    BY <1>3, EmptyIsBag DEF HandsAreEmpty
  <2>2. \A u \in Thread : \A e \in BagToSet(todo[u]) : e \in BagToSet(todo'[u])
    BY <1>4, <2>1
  <2>3. \A e \in BagToSet(pq) : e \in BagToSet(pq') \/ \E u \in Thread : e \in BagToSet(todo'[u])
    BY <1>2, <1>4
  <2>4. \A u \in Thread : pc'[u] = "ready" => pc[u] = "ready"  BY <1>3 DEF TypeOK
  <2> QED  BY <1>3, <1>5, <2>2, <2>3, <2>4, MovingStep
<1>8. HandsAreEmpty'  BY <1>3, <1>4 DEF TypeOK, HandsAreEmpty
<1> QED  BY <1>5, <1>6, <1>7, <1>8

\* An acquire visits a candidate: it becomes invalid, or is kept with its lease.
LEMMA VisitStep ==
    ASSUME IInv, NEW t \in Thread, NEW e \in BagToSet(todo[t]), Visit(t, e)
    PROVE  IInv'
<1> USE DEF IInv
<1>0. e \in Entry /\ e.blk \in Blk /\ rts[e.blk] \in Ts /\ lk[e.blk] = Nil /\ pc[t] = "visit"
  BY DEF Visit, TypeOK, Entry
<1>1. PICK b \in Blk : b = e.blk  BY <1>0
<1>2. PICK k : k = Requeued(t, b)  OBVIOUS
<1>3. /\ IsABag(k) /\ BagToSet(k) \subseteq Entry
      /\ StillValid(t, b) => [blk |-> b, rts |-> rts[b]] \in BagToSet(k)
  BY <1>0, <1>1, <1>2, EmptyIsBag, AddedIsBag DEF Requeued, Entry
<1>4. IsABag(SetToBag({e})) /\ BagToSet(SetToBag({e})) = {e}  BY DEF IsABag, SetToBag, BagToSet
<1>5. /\ todo' = [todo EXCEPT ![t] = todo[t] (-) SetToBag({e})]
      /\ newEnts' = [newEnts EXCEPT ![t] = newEnts[t] (+) k]
      /\ st' = IF StillValid(t, b) THEN st ELSE [st EXCEPT ![b] = "invalid"]
      /\ UNCHANGED <<minWr, pq, rts, lk, pc, min, cur, lease>>
  BY <1>1, <1>2 DEF Visit
<1>6. /\ IsABag(todo'[t]) /\ BagToSet(todo'[t]) \subseteq BagToSet(todo[t])
      /\ \A f \in BagToSet(todo[t]) : f # e => f \in BagToSet(todo'[t])
      /\ \A u \in Thread \ {t} : todo'[u] = todo[u]
  <2>1. todo'[t] = todo[t] (-) SetToBag({e}) /\ \A u \in Thread \ {t} : todo'[u] = todo[u]
    BY <1>5 DEF TypeOK
  <2>2. IsABag(todo[t])  BY DEF TypeOK
  <2> QED  BY <1>4, <2>1, <2>2, DifferenceOfBags
<1>7. /\ IsABag(newEnts'[t]) /\ BagToSet(newEnts'[t]) = BagToSet(newEnts[t]) \cup BagToSet(k)
      /\ \A u \in Thread \ {t} : newEnts'[u] = newEnts[u]
  <2>1. newEnts'[t] = newEnts[t] (+) k /\ \A u \in Thread \ {t} : newEnts'[u] = newEnts[u]
    BY <1>5 DEF TypeOK
  <2>2. IsABag(newEnts[t])  BY DEF TypeOK
  <2> QED  BY <1>3, <2>1, <2>2, UnionOfBags
<1>8. TypeOK'
  <2>1. st' \in [Blk -> {"invalid", "readable"}]  BY <1>5 DEF TypeOK
  <2>2. DOMAIN todo' = Thread /\ DOMAIN newEnts' = Thread  BY <1>5 DEF TypeOK
  <2>3. ASSUME NEW u \in Thread
        PROVE  /\ IsABag(todo'[u]) /\ BagToSet(todo'[u]) \subseteq Entry
               /\ IsABag(newEnts'[u]) /\ BagToSet(newEnts'[u]) \subseteq Entry
    BY <1>3, <1>6, <1>7 DEF TypeOK
  <2> QED  BY <1>5, <2>1, <2>2, <2>3 DEF TypeOK
<1>9. HasLock'  BY <1>5 DEF HasLock
<1>10. ReadyIsCovered' /\ ReadableIsCovered'
  <2>1. \A u \in Thread : \A f \in BagToSet(newEnts[u]) : f \in BagToSet(newEnts'[u])
    BY <1>7
  <2>2. \A c \in Blk \ {b} : \A u \in Thread : \A f \in BagToSet(todo[u]) :
            f.blk = c => f \in BagToSet(todo'[u])
    BY <1>1, <1>6
  <2>3. /\ lk[b] = Nil
        /\ st'[b] = "readable" => [blk |-> b, rts |-> rts[b]] \in BagToSet(newEnts'[t])
    BY <1>0, <1>1, <1>3, <1>5, <1>7 DEF TypeOK
  <2>4. \A c \in Blk : st'[c] = "readable" => st[c] = "readable"  BY <1>5 DEF TypeOK
  <2> QED  BY <1>5, <1>8, <2>1, <2>2, <2>3, <2>4, MovingStep
<1>11. HandsAreEmpty'
  BY <1>0, <1>5, <1>6, <1>7 DEF HandsAreEmpty
<1> QED  BY <1>8, <1>9, <1>10, <1>11

\* The acquire puts back what is still valid.
LEMMA PushBackStep ==
    ASSUME IInv, NEW t \in Thread, PushBack(t)
    PROVE  IInv'
<1> USE DEF IInv
<1>1. IsABag(pq') /\ BagToSet(pq') = BagToSet(pq) \cup BagToSet(newEnts[t])
  <2>1. IsABag(pq) /\ IsABag(newEnts[t]) /\ pq' = pq (+) newEnts[t]  BY DEF PushBack, TypeOK
  <2> QED  BY <2>1, UnionOfBags
<1>2. /\ pc' = [pc EXCEPT ![t] = "idle"] /\ pc[t] = "visit" /\ todo[t] = EmptyBag
      /\ newEnts' = [newEnts EXCEPT ![t] = EmptyBag] /\ min' = [min EXCEPT ![t] = Nil]
      /\ UNCHANGED <<minWr, st, rts, lk, cur, lease, todo>>
  BY DEF PushBack, Goto
<1>3. newEnts'[t] = EmptyBag /\ \A u \in Thread \ {t} : newEnts'[u] = newEnts[u]
  BY <1>2 DEF TypeOK
<1>4. TypeOK'
  <2>1. BagToSet(pq') \subseteq Entry  BY <1>1 DEF TypeOK
  <2>2. \A u \in Thread : IsABag(newEnts'[u]) /\ BagToSet(newEnts'[u]) \subseteq Entry
    BY <1>3, EmptyIsBag DEF TypeOK
  <2> QED  BY <1>1, <1>2, <2>1, <2>2 DEF TypeOK
<1>5. HasLock'  BY <1>2 DEF TypeOK, HasLock
<1>6. ReadyIsCovered' /\ ReadableIsCovered'
  <2>1. \A u \in Thread : \A f \in BagToSet(newEnts[u]) :
            f \in BagToSet(newEnts'[u]) \/ f \in BagToSet(pq')
    BY <1>1, <1>3
  <2>2. \A u \in Thread : pc'[u] = "ready" => pc[u] = "ready"  BY <1>2 DEF TypeOK
  <2> QED  BY <1>1, <1>2, <1>4, <2>1, <2>2, MovingStep
<1>7. HandsAreEmpty'  BY <1>2, <1>3 DEF TypeOK, HandsAreEmpty
<1> QED  BY <1>4, <1>5, <1>6, <1>7

----------------------------------------------------------------------------
(* Theorems *)

\* The invariant holds initially: nothing is readable or in progress.
LEMMA InitInv == Init => IInv
<1> SUFFICES ASSUME Init PROVE IInv  OBVIOUS
<1>1. TypeOK  BY RdSetAssumption, EmptyIsBag DEF Init, TypeOK, Ts
<1>2. HasLock /\ ReadyIsCovered /\ ReadableIsCovered /\ HandsAreEmpty
  BY DEF Init, HasLock, ReadyIsCovered, ReadableIsCovered, HandsAreEmpty
<1> QED  BY <1>1, <1>2 DEF IInv

\* Every step of a thread keeps the invariant.
LEMMA NextInv == IInv /\ [Next]_vars => IInv'
<1> SUFFICES ASSUME IInv, [Next]_vars PROVE IInv'  OBVIOUS
<1>1. CASE UNCHANGED vars
  BY <1>1 DEF vars, IInv, TypeOK, HasLock, ReadyIsCovered, ReadableIsCovered, HandsAreEmpty, Covered
<1>2. CASE Next
  <2>1. PICK t \in Thread :
            \/ \E b \in Blk : StartRead(t, b) \/ ReleaseReadable(t, b) \/ ReleaseInvalid(t, b)
                              \/ FastRelease(t, b) \/ AcquireWn(t, b)
            \/ \E m \in Ts : SelfInvalidate(t, m)
            \/ \E e \in BagToSet(todo[t]) : Visit(t, e)
            \/ FenceStart(t) \/ FenceEnd(t) \/ EndTransaction(t) \/ AddReadable(t)
            \/ MakeReadable(t) \/ PushBack(t)
    BY <1>2 DEF Next
  <2> QED  BY <2>1, StartReadStep, LeaseRisesStep, ReleaseInvalidStep, SelfInvalidateStep, VisitStep,
              FenceBoundaryStep, EndTransactionStep, AddReadableStep, MakeReadableStep, PushBackStep
<1> QED  BY <1>1, <1>2

\* The inductive invariant of the read set.
THEOREM InvHolds == Spec => []IInv
BY InitInv, NextInv, PTL DEF Spec

\* Every queue, candidate list and lease keeps its type (rd_set.hpp).
THEOREM TypeCorrect == Spec => []TypeOK
<1>1. IInv => TypeOK  BY DEF IInv
<1> QED  BY <1>1, InvHolds, PTL

\* No readable block falls out of the read set, however faults, releases and
\* self_invalidate of any number of threads interleave.
THEOREM NoneForgottenHolds == Spec => []NoneForgotten
<1>1. IInv => NoneForgotten  BY DEF IInv, ReadableIsCovered, Covered, NoneForgotten
<1> QED  BY <1>1, InvHolds, PTL

\* When no self_invalidate is in progress, every readable block is queued for no
\* later than the end of its lease.
THEOREM QueuedWhenQuietHolds == Spec => []QueuedWhenQuiet
<1>1. IInv => QueuedWhenQuiet
  BY EmptyIsBag DEF IInv, ReadableIsCovered, Covered, HandsAreEmpty, QueuedWhenQuiet
<1> QED  BY <1>1, InvHolds, PTL
=============================================================================
