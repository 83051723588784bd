----------------------------- MODULE QueueLock -----------------------------
(***************************************************************************)
(* One lock of queue_lock_table.hpp: a distributed queue lock whose word   *)
(* glk[p] lives in the RMA memory of every process p.  A word is "owned"   *)
(* (p released last, nobody followed), "locked" (p holds the lock or waits *)
(* for it and nobody followed), or a link to the process that followed p.  *)
(* An acquirer chases the links until it can compare-and-swap a word that  *)
(* is owned (it has the lock) or locked (it waits for a message of that    *)
(* process).                                                               *)
(*                                                                         *)
(* Every access to a word another process can reach is one action.  The    *)
(* plain loads and stores of the local word (the TODOs at lines 84 and     *)
(* 128) are atomic: the word is an aligned integer.  A process calls       *)
(* lock_global for one lock from one thread at a time: blk_lock_table      *)
(* calls it under the block's mutex and mtx_table under the entry's.       *)
(***************************************************************************)
EXTENDS Integers

CONSTANTS NumProcs,   \* coll.get_num_procs()
          InitOwner,  \* lk_pos % num_procs
          LAD         \* values of the lock attached data

ASSUME NumProcsAssumption == NumProcs \in Nat \ {0}
ASSUME InitOwnerAssumption == InitOwner \in 0 .. NumProcs - 1
ASSUME LadAssumption == LAD # {}

Proc == 0 .. NumProcs - 1

VARIABLES
    glk,      \* glks_: the lock word of every process
    lads,     \* lads_: the LAD stored at every process
    msgs,     \* point-to-point messages sent and not yet received
    pc,       \* where each process is in lock_global / unlock_global
    linkVal,  \* link_val, a local of both functions
    proc,     \* proc, a local of lock_global
    ladBuf,   \* lad_buf, owned by the caller
    last      \* history: the LAD the latest release handed over

vars == <<glk, lads, msgs, pc, linkVal, proc, ladBuf, last>>

----------------------------------------------------------------------------
\* The encoding of a lock word.
Owned == 1
Locked == 2
Linked(p) == p + 3

LockVal == {Owned, Locked} \cup {Linked(p) : p \in Proc}

ProbableOwner(p, v) == IF v <= 2 THEN p ELSE v - 3

Init ==
    /\ glk = [p \in Proc |-> IF p = InitOwner THEN Owned ELSE Linked(InitOwner)]
    /\ \E lad \in LAD : lads = [p \in Proc |-> lad] /\ last = lad
    /\ ladBuf \in [Proc -> {last}]
    /\ msgs = {}
    /\ pc = [p \in Proc |-> "idle"]
    /\ linkVal = [p \in Proc |-> Owned]
    /\ proc = [p \in Proc |-> p]

----------------------------------------------------------------------------
(* lock_global *)

\* rma.compare_and_swap on p's behalf: the old value is returned in link_val.
CompareAndSwap(p, target, expected, desired) ==
    /\ linkVal' = [linkVal EXCEPT ![p] = glk[target]]
    /\ glk' = [glk EXCEPT ![target] = IF @ = expected THEN desired ELSE @]

\* Read the local word; only a word that looks owned is tried locally first.
LockRead(p) ==
    /\ pc[p] = "idle"
    /\ linkVal' = [linkVal EXCEPT ![p] = glk[p]]
    /\ pc' = [pc EXCEPT ![p] = IF glk[p] = Owned THEN "cas1" ELSE "store"]
    /\ UNCHANGED <<glk, lads, msgs, proc, ladBuf, last>>

\* Mutant: the word is checked and set without the compare-and-swap.
LockCas1_PlainStore(p) ==
    /\ pc[p] = "cas1"
    /\ linkVal' = [linkVal EXCEPT ![p] = glk[p]]
    /\ glk' = [glk EXCEPT ![p] = Locked]
    /\ pc' = [pc EXCEPT ![p] = "copy_lad"]
    /\ UNCHANGED <<lads, msgs, proc, ladBuf, last>>

LockCas1(p) ==
    /\ pc[p] = "cas1"
    /\ CompareAndSwap(p, p, Owned, Locked)
    /\ pc' = [pc EXCEPT ![p] = IF glk[p] = Owned THEN "copy_lad" ELSE "store"]
    /\ UNCHANGED <<lads, msgs, proc, ladBuf, last>>

LockCopyLad(p) ==
    /\ pc[p] = "copy_lad"
    /\ ladBuf' = [ladBuf EXCEPT ![p] = lads[p]]
    /\ pc' = [pc EXCEPT ![p] = "held"]
    /\ UNCHANGED <<glk, lads, msgs, linkVal, proc, last>>

\* Mutant: the chase starts at this process instead of its probable owner.
LockStore_FromSelf(p) ==
    /\ pc[p] = "store"
    /\ glk' = [glk EXCEPT ![p] = Locked]
    /\ proc' = [proc EXCEPT ![p] = p]
    /\ pc' = [pc EXCEPT ![p] = "cas2"]
    /\ UNCHANGED <<lads, msgs, linkVal, ladBuf, last>>

\* Announce this process as a possible predecessor, then start the chase at
\* the process the old word points to.
LockStore(p) ==
    /\ pc[p] = "store"
    /\ glk' = [glk EXCEPT ![p] = Locked]
    /\ proc' = [proc EXCEPT ![p] = ProbableOwner(p, linkVal[p])]
    /\ pc' = [pc EXCEPT ![p] = "cas2"]
    /\ UNCHANGED <<lads, msgs, linkVal, ladBuf, last>>

\* Mutant: the chaser does not move on to the process the word points to.
LockCas2_StaysPut(p) ==
    LET q == proc[p] IN
    /\ pc[p] = "cas2"
    /\ CompareAndSwap(p, q, Owned, Linked(p))
    /\ pc' = [pc EXCEPT ![p] = IF glk[q] = Owned THEN "read_lad"
                               ELSE IF glk[q] = Locked THEN "cas3" ELSE "cas2"]
    /\ UNCHANGED <<lads, msgs, proc, ladBuf, last>>

\* Try to take a lock that nobody holds; otherwise follow what the word says.
LockCas2(p) ==
    LET q == proc[p] IN
    /\ pc[p] = "cas2"
    /\ CompareAndSwap(p, q, Owned, Linked(p))
    /\ proc' = [proc EXCEPT ![p] = ProbableOwner(q, glk[q])]
    /\ pc' = [pc EXCEPT ![p] = IF glk[q] = Owned THEN "read_lad"
                               ELSE IF glk[q] = Locked THEN "cas3" ELSE "cas2"]
    /\ UNCHANGED <<lads, msgs, ladBuf, last>>

\* Mutant: the LAD is taken from this process instead of the last owner.
LockReadLad_OwnCopy(p) ==
    /\ pc[p] = "read_lad"
    /\ ladBuf' = [ladBuf EXCEPT ![p] = lads[p]]
    /\ pc' = [pc EXCEPT ![p] = "held"]
    /\ UNCHANGED <<glk, lads, msgs, linkVal, proc, last>>

LockReadLad(p) ==
    /\ pc[p] = "read_lad"
    /\ ladBuf' = [ladBuf EXCEPT ![p] = lads[proc[p]]]
    /\ pc' = [pc EXCEPT ![p] = "held"]
    /\ UNCHANGED <<glk, lads, msgs, linkVal, proc, last>>

\* Try to become the follower of a process that holds or waits for the lock.
LockCas3(p) ==
    LET q == proc[p] IN
    /\ pc[p] = "cas3"
    /\ CompareAndSwap(p, q, Locked, Linked(p))
    /\ proc' = [proc EXCEPT ![p] = ProbableOwner(q, glk[q])]
    /\ pc' = [pc EXCEPT ![p] = IF glk[q] = Locked THEN "recv" ELSE "cas2"]
    /\ UNCHANGED <<lads, msgs, ladBuf, last>>

LockRecv(p) ==
    /\ pc[p] = "recv"
    /\ \E m \in msgs :
        /\ m.from = proc[p] /\ m.to = p
        /\ msgs' = msgs \ {m}
        /\ ladBuf' = [ladBuf EXCEPT ![p] = m.lad]
    /\ pc' = [pc EXCEPT ![p] = "held"]
    /\ UNCHANGED <<glk, lads, linkVal, proc, last>>

----------------------------------------------------------------------------
(* unlock_global *)

UnlockRead(p) ==
    /\ pc[p] = "held"
    /\ linkVal' = [linkVal EXCEPT ![p] = glk[p]]
    /\ pc' = [pc EXCEPT ![p] = "write_lad"]
    /\ UNCHANGED <<glk, lads, msgs, proc, ladBuf, last>>

\* Mutant: the LAD is not stored at the releasing process.
UnlockWriteLad_NoLocalCopy(p) ==
    /\ pc[p] = "write_lad"
    /\ \E lad \in LAD : ladBuf' = [ladBuf EXCEPT ![p] = lad]
    /\ pc' = [pc EXCEPT ![p] = IF linkVal[p] = Locked THEN "cas_unlock" ELSE "send"]
    /\ UNCHANGED <<glk, lads, msgs, linkVal, proc, last>>

\* The caller hands over any LAD; it is stored locally and flushed.
UnlockWriteLad(p) ==
    /\ pc[p] = "write_lad"
    /\ \E lad \in LAD :
        /\ lads' = [lads EXCEPT ![p] = lad]
        /\ ladBuf' = [ladBuf EXCEPT ![p] = lad]
    /\ pc' = [pc EXCEPT ![p] = IF linkVal[p] = Locked THEN "cas_unlock" ELSE "send"]
    /\ UNCHANGED <<glk, msgs, linkVal, proc, last>>

\* Mutant: the lock word is swapped for the wrong value.
UnlockCas_StaysLocked(p) ==
    /\ pc[p] = "cas_unlock"
    /\ CompareAndSwap(p, p, Locked, Locked)
    /\ pc' = [pc EXCEPT ![p] = IF glk[p] = Locked THEN "idle" ELSE "send"]
    /\ last' = IF glk[p] = Locked THEN ladBuf[p] ELSE last
    /\ UNCHANGED <<lads, msgs, proc, ladBuf>>

\* Mutant: link_val keeps the value read before the compare-and-swap failed.
UnlockCas_StaleLink(p) ==
    /\ pc[p] = "cas_unlock"
    /\ glk' = [glk EXCEPT ![p] = IF @ = Locked THEN Owned ELSE @]
    /\ pc' = [pc EXCEPT ![p] = IF glk[p] = Locked THEN "idle" ELSE "send"]
    /\ last' = IF glk[p] = Locked THEN ladBuf[p] ELSE last
    /\ UNCHANGED <<lads, msgs, linkVal, proc, ladBuf>>

\* Mutant: the lock is released by a plain store, over a follower's link.
UnlockCas_PlainStore(p) ==
    /\ pc[p] = "cas_unlock"
    /\ glk' = [glk EXCEPT ![p] = Owned]
    /\ pc' = [pc EXCEPT ![p] = "idle"]
    /\ last' = ladBuf[p]
    /\ UNCHANGED <<lads, msgs, linkVal, proc, ladBuf>>

UnlockCas(p) ==
    /\ pc[p] = "cas_unlock"
    /\ CompareAndSwap(p, p, Locked, Owned)
    /\ pc' = [pc EXCEPT ![p] = IF glk[p] = Locked THEN "idle" ELSE "send"]
    /\ last' = IF glk[p] = Locked THEN ladBuf[p] ELSE last
    /\ UNCHANGED <<lads, msgs, proc, ladBuf>>

UnlockSend(p) ==
    /\ pc[p] = "send"
    /\ msgs' = msgs \cup {[from |-> p, to |-> ProbableOwner(p, linkVal[p]),
                           lad |-> ladBuf[p]]}
    /\ last' = ladBuf[p]
    /\ pc' = [pc EXCEPT ![p] = "idle"]
    /\ UNCHANGED <<glk, lads, linkVal, proc, ladBuf>>

----------------------------------------------------------------------------
Lock(p) ==
    \/ LockCas1(p) \/ LockCopyLad(p) \/ LockStore(p) \/ LockCas2(p)
    \/ LockReadLad(p) \/ LockCas3(p) \/ LockRecv(p)

Unlock(p) ==
    UnlockRead(p) \/ UnlockWriteLad(p) \/ UnlockCas(p) \/ UnlockSend(p)

Next == \E p \in Proc : LockRead(p) \/ Lock(p) \/ Unlock(p)

Spec == Init /\ [][Next]_vars

\* A process runs on while it has a step to take, and a critical section
\* ends; nobody is forced to start locking.
FairSpec == Spec /\ \A p \in Proc : WF_vars(Lock(p) \/ Unlock(p))

----------------------------------------------------------------------------
(* Properties *)

\* Between the success of a compare-and-swap or a receive and the release.
Holding(p) ==
    pc[p] \in {"copy_lad", "read_lad", "held", "write_lad", "cas_unlock", "send"}

Chasing(p) == pc[p] \in {"cas2", "cas3"}

\* Types of the words, the buffers and the control state of the table.
TypeOK ==
    /\ glk \in [Proc -> LockVal]
    /\ lads \in [Proc -> LAD]
    /\ msgs \subseteq [from : Proc, to : Proc, lad : LAD]
    /\ pc \in [Proc -> {"idle", "cas1", "copy_lad", "store", "cas2", "read_lad",
                        "cas3", "recv", "held", "write_lad", "cas_unlock", "send"}]
    /\ linkVal \in [Proc -> LockVal]
    /\ proc \in [Proc -> Proc]
    /\ ladBuf \in [Proc -> LAD]
    /\ last \in LAD

\* No two processes are between lock_global and unlock_global of one lock.
MutualExclusion == \A p, q \in Proc : Holding(p) /\ Holding(q) => p = q

\* The lock attached data a process gets with the lock, locally, by RMA from
\* the last owner or in a message, is what the last unlock_global left.
LadIsLatest == \A p \in Proc : pc[p] = "held" => ladBuf[p] = last

\* The MEFDN_ASSERTs at lines 89 ("It is a bug if this process tries to lock
\* again"), 252 ("already unlocked") and 311 (check_owned, callable when idle).
WordMatchesPhase ==
    \A p \in Proc :
        /\ pc[p] = "idle" => glk[p] # Locked
        /\ pc[p] = "held" => glk[p] # Owned

\* "Waiting from the same process is a bug" (line 204): the chain of links a
\* process follows never leads back to its own word.
NoSelfWait ==
    \A p \in Proc : (pc[p] \in {"cas3", "recv"} /\ linkVal[p] = Locked) => proc[p] # p

\* A message finds its receiver waiting for exactly its sender, so the lock is
\* never handed to a process that does not ask for it.
MessageIsExpected ==
    \A m \in msgs : pc[m.to] = "recv" /\ proc[m.to] = m.from

\* The assertions of lock_global, unlock_global and check_owned hold, and so does
\* what the transfer by message takes for granted.
AssertsHold == WordMatchesPhase /\ NoSelfWait /\ MessageIsExpected

\* The follower of the holder gets the lock: unlock_global, which may read its
\* word before or after the follower links itself, never misses it.
FollowerIsServed ==
    \A p \in Proc : (pc[p] = "recv" /\ Holding(proc[p])) ~> (pc[p] = "held")

\* Everybody who asks gets the lock once no new request arrives.  (Without
\* that proviso a chaser can starve: its compare-and-swaps may always find the
\* word in the other of the two free states.)
ServedWhenQuiet ==
    (<>[][\A p \in Proc : ~LockRead(p)]_vars)
        => \A p \in Proc : (pc[p] = "store") ~> (pc[p] = "held")

\* While some process wants the lock, the lock keeps being granted.
LockProgress == (\E p \in Proc : Chasing(p)) ~> (\E p \in Proc : Holding(p))

----------------------------------------------------------------------------
(* Refinement: the table is a lock with data.  A process holds the abstract *)
(* lock from the return of lock_global, when the LAD is in its buffer, to   *)
(* the step of unlock_global that gives the lock away: the swap that finds  *)
(* no follower, or the message to the follower.                             *)

Returned(p) == pc[p] \in {"held", "write_lad", "cas_unlock", "send"}

LL == INSTANCE LadLock WITH holders <- {p \in Proc : Returned(p)},
                            data <- last, buf <- ladBuf

\* lock_global returns to one process at a time, with the LAD the previous
\* holder gave to unlock_global in its buffer, and nobody touches that buffer
\* until its own unlock_global: the lock with data its clients rely on.
RefinesLadLock == LL!Spec
=============================================================================
