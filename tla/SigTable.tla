------------------------------ MODULE SigTable ------------------------------
(***************************************************************************)
(* The atomic operations of the DSM, compare_exchange_strong_acquire and   *)
(* store_release, and the sig_table that carries signatures between them.  *)
(* They are used as meomp's omp_set_lock and omp_unset_lock use them.  The *)
(* variables share one slot of the table: they are in one block, or their  *)
(* blocks have the same get_sig_location.                                  *)
(*                                                                         *)
(* The value of an atomic variable changes in a transaction under the      *)
(* global lock of its block and is one step here.  One thread per process. *)
(***************************************************************************)
EXTENDS SigBuffer

CONSTANTS
    Proc,     \* processes
    Var,      \* atomic variables, each used as a lock
    Nil

ASSUME NilAssumption == Nil \notin Proc \cup Var

VARIABLES
    owner,    \* who set the variable to 1, Nil if it is 0
    lk,       \* lk_buf_ of the slot
    slot,     \* sig_buf_ of the slot
    relSig,   \* release signature of a process
    written,  \* last write timestamp of a block
    pc,
    arg,      \* the variable an operation is about
    got,      \* the signature a process read from the slot
    \* History
    knows,    \* notices of the writes that happened before
    sent,     \* what the last store to a variable makes known
    gains     \* what the ongoing compare_exchange makes known

vars == <<owner, lk, slot, relSig, written, pc, arg, got, knows, sent, gains>>

Sig == [min : 0..MaxTs, wns : UNION {[1..n -> Notice] : n \in 0..Cardinality(Blk)}]

\* Types of the signature table and of its users.
TypeOK ==
    /\ owner \in [Var -> Proc \cup {Nil}]
    /\ lk \in {0, 1}
    /\ slot \in Sig
    /\ relSig \in [Proc -> Sig]
    /\ written \in [Blk -> 0..MaxTs]
    /\ pc \in [Proc -> {"idle", "get_lock", "get_read", "get_unlock", "put_lock", "put_read",
                        "put_write", "put_unlock", "store", "overflow"}]
    /\ arg \in [Proc -> Var \cup {Nil}]
    /\ got \in [Proc -> Sig]
    /\ knows \in [Proc -> SUBSET Notice]
    /\ sent \in [Var -> SUBSET Notice]
    /\ gains \in [Proc -> SUBSET Notice]

Init ==
    /\ owner = [v \in Var |-> Nil]
    /\ lk = 0
    /\ slot = EmptySig
    /\ relSig = [p \in Proc |-> EmptySig]
    /\ written = [b \in Blk |-> 0]
    /\ pc = [p \in Proc |-> "idle"]
    /\ arg = [p \in Proc |-> Nil]
    /\ got = [p \in Proc |-> EmptySig]
    /\ knows = [p \in Proc |-> {}]
    /\ sent = [v \in Var |-> {}]
    /\ gains = [p \in Proc |-> {}]

Goto(p, l) == pc' = [pc EXCEPT ![p] = l]

Putting(p) == pc[p] \in {"put_read", "put_write", "put_unlock"}
InTable(p) == pc[p] \in {"get_read", "get_unlock"} \/ Putting(p)

\* Two processes access the slot at once and one of them writes it: what is in
\* it from then on, and in what they read, is not defined.
Raced == \E p, q \in Proc : p # q /\ Putting(p) /\ InTable(q)

\* serialize wrote past the end of its buffer (or failed its assertion).
Overflown == \E p \in Proc : pc[p] = "overflow"

Defined == ~Raced /\ ~Overflown

At(p, ls) == Defined /\ pc[p] \in ls

----------------------------------------------------------------------------
(* compare_exchange_strong_acquire and store_release *)

\* omp_set_lock: a fence follows the compare-and-swap whether it succeeds or not.
CompareExchange(p, v) ==
    /\ At(p, {"idle"})
    /\ owner[v] # p
    /\ arg' = [arg EXCEPT ![p] = v]
    /\ IF owner[v] = Nil
       THEN owner' = [owner EXCEPT ![v] = p] /\ gains' = [gains EXCEPT ![p] = sent[v]]
       ELSE UNCHANGED <<owner, gains>>
    /\ Goto(p, "get_lock")
    /\ UNCHANGED <<lk, slot, relSig, written, got, knows, sent>>

\* rel_sig::merge
RelSigMerge(p, sig) == relSig' = [relSig EXCEPT ![p] = Truncate(Merge(relSig[p], sig), MaxLen)]

\* fence_release announces the blocks W that p wrote since its last one.
FenceRelease(p, W) ==
    \E ts \in [W -> 1..MaxTs] :
        LET wns == {[blk |-> b, ts |-> ts[b]] : b \in W}
        IN  /\ \A b \in W : ts[b] > written[b]
            /\ written' = [b \in Blk |-> IF b \in W THEN ts[b] ELSE written[b]]
            /\ knows' = [knows EXCEPT ![p] = @ \cup wns]
            /\ \E sig \in CreateFromWns(wns) : RelSigMerge(p, sig)

\* Mutant: the variable is set before its signature is in the table.
StoreRelease_StoresFirst(p, v) ==
    /\ At(p, {"idle"})
    /\ owner[v] = p
    /\ arg' = [arg EXCEPT ![p] = v]
    /\ \E W \in SUBSET Blk : FenceRelease(p, W)
    /\ owner' = [owner EXCEPT ![v] = Nil]
    /\ sent' = [sent EXCEPT ![v] = knows'[p]]
    /\ Goto(p, "put_lock")
    /\ UNCHANGED <<lk, slot, got, gains>>

\* omp_unset_lock: store_release begins.
StoreRelease(p, v) ==
    /\ At(p, {"idle"})
    /\ owner[v] = p
    /\ arg' = [arg EXCEPT ![p] = v]
    /\ \E W \in SUBSET Blk : FenceRelease(p, W)
    /\ Goto(p, "put_lock")
    /\ UNCHANGED <<owner, lk, slot, got, sent, gains>>

\* The store itself, once the signature is in the table.
AtomicStore(p) ==
    /\ At(p, {"store"})
    /\ owner' = [owner EXCEPT ![arg[p]] = Nil]
    /\ sent' = [sent EXCEPT ![arg[p]] = knows[p]]
    /\ arg' = [arg EXCEPT ![p] = Nil]
    /\ Goto(p, "idle")
    /\ UNCHANGED <<lk, slot, relSig, written, got, knows, gains>>

----------------------------------------------------------------------------
(* sig_table *)

\* lock: the value that compare_and_swap returns, which is the old one, is
\* compared with the desired one.
Acquired(old) == old = 1

\* One turn of the loop of lock.
Lock(p) ==
    /\ At(p, {"get_lock", "put_lock"})
    /\ lk' = 1
    /\ IF Acquired(lk)
       THEN Goto(p, IF pc[p] = "get_lock" THEN "get_read" ELSE "put_read")
       ELSE pc' = pc
    /\ UNCHANGED <<owner, slot, relSig, written, arg, got, knows, sent, gains>>

\* buf_read
ReadSlot(p) ==
    /\ At(p, {"get_read", "put_read"})
    /\ got' = [got EXCEPT ![p] = slot]
    /\ Goto(p, IF pc[p] = "get_read" THEN "get_unlock" ELSE "put_write")
    /\ UNCHANGED <<owner, lk, slot, relSig, written, arg, knows, sent, gains>>

\* Mutant: the signature is stored as it is.
ToStore_Own(p) == relSig[p]

\* merge_sig_to: the merged signature, which is not truncated.
ToStore(p) == Merge(got[p], relSig[p])

\* serialize and buf_write
WriteSlot(p) ==
    /\ At(p, {"put_write"})
    /\ IF Len(ToStore(p).wns) <= MaxLen
       THEN slot' = ToStore(p) /\ Goto(p, "put_unlock")
       ELSE slot' = slot /\ Goto(p, "overflow")
    /\ UNCHANGED <<owner, lk, relSig, written, arg, got, knows, sent, gains>>

\* merge_sig_to unlocks and returns to store_release.
PutUnlock(p) ==
    /\ At(p, {"put_unlock"})
    /\ lk' = 0
    /\ got' = [got EXCEPT ![p] = EmptySig]
    /\ Goto(p, "store")
    /\ UNCHANGED <<owner, slot, relSig, written, arg, knows, sent, gains>>

\* get_sig unlocks and returns to fence_acquire, which acquires the signature
\* and merges it for later releases.
GetUnlock(p) ==
    /\ At(p, {"get_unlock"})
    /\ lk' = 0
    /\ RelSigMerge(p, got[p])
    /\ knows' = [knows EXCEPT ![p] = @ \cup gains[p]]
    /\ gains' = [gains EXCEPT ![p] = {}]
    /\ got' = [got EXCEPT ![p] = EmptySig]
    /\ arg' = [arg EXCEPT ![p] = Nil]
    /\ Goto(p, "idle")
    /\ UNCHANGED <<owner, slot, written, sent>>

----------------------------------------------------------------------------

Step(p) ==
    \/ \E v \in Var : CompareExchange(p, v) \/ StoreRelease(p, v)
    \/ AtomicStore(p) \/ Lock(p) \/ ReadSlot(p) \/ WriteSlot(p) \/ PutUnlock(p) \/ GetUnlock(p)

Undefined == ~Defined /\ UNCHANGED vars

Next ==
    \/ \E p \in Proc : Step(p)
    \/ Undefined

Spec == Init /\ [][Next]_vars

----------------------------------------------------------------------------
(* Properties *)

\* As long as accesses to the slot do not overlap, every notice of a write that
\* happened before, through any chain of atomic variables, is covered by the
\* release signature of a process: fence_acquire and rel_sig::merge have seen it,
\* whatever was truncated or replaced on the way.
AcquireCovers == \A p \in Proc : \A n \in knows[p] : Covers(relSig[p], n)

\* What a successful compare_exchange is going to acquire is already covered by
\* the slot, although the variable was set and the signature stored apart.
StoredBeforeSet ==
    \A p \in Proc : pc[p] \in {"get_lock", "get_read"} /\ ~Raced =>
        \A n \in gains[p] : Covers(slot, n)

\* merge relies on both vectors being sorted with one notice per block, and
\* what it returns is again.
SigsWellFormed == WellFormed(slot) /\ \A p \in Proc : WellFormed(relSig[p])

\* "This thread successfully acquired the lock": between lock and unlock a
\* process is alone.
SigLockExcludes == \A p, q \in Proc : InTable(p) /\ InTable(q) => p = q

\* serialize: the merged signature fits into its slot.
MergedSigFits == ~Overflown
=============================================================================
