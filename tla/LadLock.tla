------------------------------ MODULE LadLock ------------------------------
(***************************************************************************)
(* What a lock table of MEDSM2 promises to its clients, whichever table is *)
(* compiled in (queue_lock_table.hpp or fixed_lock_table.hpp): at most one *)
(* process is between the return of lock_global and the release in         *)
(* unlock_global, and the "lock attached data" (LAD) that lock_global      *)
(* leaves in its caller's buffer is the one the previous holder gave to    *)
(* unlock_global.  The block table attaches the last writer and the        *)
(* timestamps of the block (blk_lock_table.hpp), the mutex table the       *)
(* release signature (mtx_table.hpp).                                      *)
(***************************************************************************)
CONSTANTS Proc, LAD

VARIABLES holders,  \* the processes that lock_global has returned to
          data,     \* the LAD of the last unlock_global
          buf       \* the LAD buffer of every caller

vars == <<holders, data, buf>>

Init == holders = {} /\ data \in LAD /\ buf \in [Proc -> {data}]

\* lock_global returns: the caller finds the last LAD in its buffer.
Lock(p) ==
    /\ holders = {}
    /\ holders' = {p}
    /\ buf' = [buf EXCEPT ![p] = data]
    /\ UNCHANGED data

\* The holder, and nobody else, prepares the LAD it will hand over.
Update(p) ==
    /\ holders = {p}
    /\ \E lad \in LAD : buf' = [buf EXCEPT ![p] = lad]
    /\ UNCHANGED <<holders, data>>

\* unlock_global publishes the buffer and gives the lock up at once.
Unlock(p) ==
    /\ holders = {p}
    /\ holders' = {}
    /\ data' = buf[p]
    /\ UNCHANGED buf

Next == \E p \in Proc : Lock(p) \/ Update(p) \/ Unlock(p)

Spec == Init /\ [][Next]_vars
=============================================================================
