------------------------------- MODULE RdSet -------------------------------
(***************************************************************************)
(* rd_set: the readable blocks of one process, ordered by the end of their *)
(* leases, and min_wr_ts_, below which every lease has run out.  Several   *)
(* threads fault, release and acquire; each block has a lock of its own,   *)
(* and the read set has another one, which nobody holds while it waits for *)
(* a block.  Pinned blocks are left to Block.                              *)
(***************************************************************************)
EXTENDS Naturals, Bags

CONSTANTS
    Thread, Blk, Nil,
    Lease,    \* MEDSM2_LEASE_TS
    MaxTs     \* bound: timestamps

ASSUME RdSetAssumption ==
    /\ Lease \in Nat /\ MaxTs \in Nat
    /\ Nil \notin Thread \cup Blk

VARIABLES
    minWr,    \* min_wr_ts_
    pq,       \* pq_: a bag of entries
    st,       \* state of a block: invalid or readable
    rts,      \* its cur_rd_ts
    lk,       \* who holds the lock of the block
    pc,
    min,      \* the rd_ts_state of its fence or acquire, Nil outside
    cur,      \* the block it makes readable
    lease,    \* and the lease it makes it readable for
    todo,     \* blk_ids, with the entries they come from: a bag
    newEnts   \* new_ents: a bag

vars == <<minWr, pq, st, rts, lk, pc, min, cur, lease, todo, newEnts>>
locals == <<min, cur, lease, todo, newEnts>>

Ts == 0..MaxTs
Entry == [blk : Blk, rts : Ts]

\* Types of the read set and of the threads.
TypeOK ==
    /\ minWr \in Ts
    /\ IsABag(pq) /\ BagToSet(pq) \subseteq Entry
    /\ st \in [Blk -> {"invalid", "readable"}]
    /\ rts \in [Blk -> Ts]
    /\ lk \in [Blk -> Thread \cup {Nil}]
    /\ pc \in [Thread -> {"idle", "fence", "tx", "add", "ready", "visit"}]
    /\ min \in [Thread -> Ts \cup {Nil}] /\ lease \in [Thread -> Ts]
    /\ cur \in [Thread -> Blk \cup {Nil}]
    /\ DOMAIN todo = Thread /\ DOMAIN newEnts = Thread
    /\ \A t \in Thread : /\ IsABag(todo[t]) /\ BagToSet(todo[t]) \subseteq Entry
                         /\ IsABag(newEnts[t]) /\ BagToSet(newEnts[t]) \subseteq Entry

Init ==
    /\ minWr = 0
    /\ pq = EmptyBag
    /\ st = [b \in Blk |-> "invalid"]
    /\ rts = [b \in Blk |-> 0]
    /\ lk = [b \in Blk |-> Nil]
    /\ pc = [t \in Thread |-> "idle"]
    /\ min = [t \in Thread |-> Nil]
    /\ cur = [t \in Thread |-> Nil]
    /\ lease = [t \in Thread |-> 0]
    /\ todo = [t \in Thread |-> EmptyBag]
    /\ newEnts = [t \in Thread |-> EmptyBag]

Goto(t, l) == pc' = [pc EXCEPT ![t] = l]

----------------------------------------------------------------------------
(* Blocks become readable *)

\* start_read of a block that is invalid: the lease is compared with
\* min_wr_ts_, which others may raise from here on.
StartRead(t, b) ==
    /\ pc[t] = "idle" /\ lk[b] = Nil
    /\ st[b] = "invalid"
    /\ lk' = [lk EXCEPT ![b] = t]
    /\ cur' = [cur EXCEPT ![t] = b]
    /\ IF minWr > rts[b]
       THEN Goto(t, "tx") /\ lease' = lease
       ELSE Goto(t, "add") /\ lease' = [lease EXCEPT ![t] = rts[b]]
    /\ UNCHANGED <<minWr, pq, st, rts, min, todo, newEnts>>

\* A fence loads the timestamp state once for all of its blocks.
FenceStart(t) ==
    /\ pc[t] = "idle"
    /\ min' = [min EXCEPT ![t] = minWr]
    /\ Goto(t, "fence")
    /\ UNCHANGED <<minWr, pq, st, rts, lk, cur, lease, todo, newEnts>>

\* Mutant: the lease of a release does not reach back to the one before.
NewLeases_Fresh(b, m) == {r \in Ts : r >= m + Lease}

\* make_new_rd_ts: the write timestamp and the lease in the attached data, which
\* no lease exceeds, are whatever the other processes made them.
NewLeases(b, m) == {r \in Ts : r >= m + Lease /\ r >= rts[b]}

\* The fence releases a block: one that is readable keeps its entry in the
\* queue, with the old lease.
ReleaseReadable(t, b) ==
    /\ pc[t] = "fence" /\ lk[b] = Nil
    /\ st[b] = "readable"
    /\ \E r \in NewLeases(b, min[t]) : rts' = [rts EXCEPT ![b] = r]
    /\ UNCHANGED <<minWr, pq, st, lk, pc, locals>>

\* fast_release: the lease becomes the one in the attached data.
FastRelease(t, b) ==
    /\ pc[t] = "fence" /\ lk[b] = Nil
    /\ \E r \in rts[b]..MaxTs : rts' = [rts EXCEPT ![b] = r]
    /\ UNCHANGED <<minWr, pq, st, lk, pc, locals>>

\* One that is invalid (and dirty) becomes readable.
ReleaseInvalid(t, b) ==
    /\ pc[t] = "fence" /\ lk[b] = Nil
    /\ st[b] = "invalid"
    /\ lk' = [lk EXCEPT ![b] = t]
    /\ cur' = [cur EXCEPT ![t] = b]
    /\ Goto(t, "tx")
    /\ UNCHANGED <<minWr, pq, st, rts, min, lease, todo, newEnts>>

FenceEnd(t) ==
    /\ pc[t] = "fence"
    /\ min' = [min EXCEPT ![t] = Nil]
    /\ Goto(t, "idle")
    /\ UNCHANGED <<minWr, pq, st, rts, lk, cur, lease, todo, newEnts>>

\* end_transaction loads the timestamp state again and makes a new lease.
EndTransaction(t) ==
    /\ pc[t] = "tx"
    /\ \E r \in NewLeases(cur[t], minWr) : lease' = [lease EXCEPT ![t] = r]
    /\ Goto(t, "add")
    /\ UNCHANGED <<minWr, pq, st, rts, lk, min, cur, todo, newEnts>>

Added(b, r) == SetToBag({[blk |-> b, rts |-> r]})

\* add_readable
AddReadable(t) ==
    /\ pc[t] = "add"
    /\ pq' = pq (+) Added(cur[t], lease[t])
    /\ Goto(t, "ready")
    /\ UNCHANGED <<minWr, st, rts, lk, locals>>

\* The entry is updated, the page becomes accessible and the block is unlocked.
MakeReadable(t) ==
    /\ pc[t] = "ready"
    /\ st' = [st EXCEPT ![cur[t]] = "readable"]
    /\ rts' = [rts EXCEPT ![cur[t]] = lease[t]]
    /\ lk' = [lk EXCEPT ![cur[t]] = Nil]
    /\ cur' = [cur EXCEPT ![t] = Nil]
    /\ lease' = [lease EXCEPT ![t] = 0]
    /\ Goto(t, IF min[t] = Nil THEN "idle" ELSE "fence")
    /\ UNCHANGED <<minWr, pq, min, todo, newEnts>>

----------------------------------------------------------------------------
(* Blocks become invalid *)

\* acquire of a notice that is later than the lease; the entry stays queued.
AcquireWn(t, b) ==
    /\ pc[t] = "idle" /\ lk[b] = Nil
    /\ \E r \in {r \in Ts : r > rts[b]} : rts' = [rts EXCEPT ![b] = r]
    /\ st' = [st EXCEPT ![b] = "invalid"]
    /\ UNCHANGED <<minWr, pq, lk, pc, locals>>

Expired(m) == [e \in {e \in BagToSet(pq) : m > e.rts} |-> pq[e]]

\* self_invalidate with a new minimum: the candidates leave the queue, a block as
\* often as it has an entry.
SelfInvalidate(t, m) ==
    /\ pc[t] = "idle"
    /\ m > minWr
    /\ m + Lease <= MaxTs
    /\ minWr' = m
    /\ pq' = pq (-) Expired(m)
    /\ todo' = [todo EXCEPT ![t] = Expired(m)]
    /\ min' = [min EXCEPT ![t] = m]
    /\ Goto(t, "visit")
    /\ UNCHANGED <<st, rts, lk, cur, lease, newEnts>>

StillValid(t, b) == rts[b] >= min[t]

\* Mutant: what is still valid is not kept for the queue.
Requeued_Never(t, b) == EmptyBag

Requeued(t, b) == IF StillValid(t, b) THEN Added(b, rts[b]) ELSE EmptyBag

\* The callback for the block of one candidate, under the lock of the block.
Visit(t, e) ==
    /\ pc[t] = "visit" /\ lk[e.blk] = Nil
    /\ todo' = [todo EXCEPT ![t] = @ (-) SetToBag({e})]
    /\ st' = IF StillValid(t, e.blk) THEN st ELSE [st EXCEPT ![e.blk] = "invalid"]
    /\ newEnts' = [newEnts EXCEPT ![t] = @ (+) Requeued(t, e.blk)]
    /\ UNCHANGED <<minWr, pq, rts, lk, pc, min, cur, lease>>

\* What is still valid goes back into the queue.
PushBack(t) ==
    /\ pc[t] = "visit" /\ todo[t] = EmptyBag
    /\ pq' = pq (+) newEnts[t]
    /\ newEnts' = [newEnts EXCEPT ![t] = EmptyBag]
    /\ min' = [min EXCEPT ![t] = Nil]
    /\ Goto(t, "idle")
    /\ UNCHANGED <<minWr, st, rts, lk, cur, lease, todo>>

----------------------------------------------------------------------------

Next == \E t \in Thread :
    \/ \E b \in Blk : StartRead(t, b) \/ ReleaseReadable(t, b) \/ ReleaseInvalid(t, b)
                      \/ FastRelease(t, b) \/ AcquireWn(t, b)
    \/ \E m \in Ts : SelfInvalidate(t, m)
    \/ \E e \in BagToSet(todo[t]) : Visit(t, e)
    \/ FenceStart(t) \/ FenceEnd(t) \/ EndTransaction(t) \/ AddReadable(t) \/ MakeReadable(t) \/ PushBack(t)

Spec == Init /\ [][Next]_vars

----------------------------------------------------------------------------
(* Properties *)

\* No readable block falls out of the read set: whatever order faults, releases
\* and acquires of several threads come in, it is queued for no later than the
\* end of its lease, or an acquire in progress has it in hand.
NoneForgotten ==
    \A b \in Blk : st[b] = "readable" =>
        \/ \E e \in BagToSet(pq) : e.blk = b /\ e.rts <= rts[b]
        \/ \E t \in Thread : \/ \E e \in BagToSet(todo[t]) : e.blk = b
                             \/ \E e \in BagToSet(newEnts[t]) : e.blk = b /\ e.rts <= rts[b]

\* Not so: add_readable asserts !P::is_greater_rd_ts(this->min_wr_ts_.load(), rd_ts).
\* An acquire raises the minimum between the check in start_read and the call.
AddReadableLive == \A t \in Thread : pc[t] = "add" => lease[t] >= minWr

\* Not so: "If rd_ts >= min_wr_ts, the block is still valid" (rd_ts_state.hpp),
\* and only then.  The same step lets a block become readable too late; and an
\* acquire that finds the lease of a candidate sufficient puts it back after
\* another one has raised the minimum beyond it and returned.
ExpiredIsInvalidatedWhenIdle ==
    (\A t \in Thread : pc[t] = "idle") => \A b \in Blk : st[b] = "readable" => rts[b] >= minWr
=============================================================================
