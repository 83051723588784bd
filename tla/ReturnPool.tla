----------------------------- MODULE ReturnPool -----------------------------
(***************************************************************************)
(* cmpth's basic_return_pool, the pool of the task descriptors with their  *)
(* stacks and of the MCS nodes.  A node that is freed by another worker    *)
(* than the one that allocated it is collected by the former and sent back *)
(* in batches.  An operation touches shared state once, under the lock of  *)
(* a worker's entry, and is one step.  Lists are sequences, first node     *)
(* first.  It implements Pool.                                             *)
(***************************************************************************)
EXTENDS Naturals, Sequences, FiniteSets

CONSTANTS
    Worker,      \* worker numbers
    Node,        \* bound: the nodes that are ever created
    Threshold    \* get_pool_threshold

ASSUME PoolAssumption == Threshold \in Nat \ {0} /\ Worker # {} /\ IsFiniteSet(Node)

VARIABLES
    local,       \* con_local of every worker
    remote,      \* con_remote of every worker
    pros,        \* pros[w][v]: nodes of v collected by w; num is their number
    allocWk,     \* wk_num of every node
    fresh,       \* nodes not yet created
    held         \* nodes in use

vars == <<local, remote, pros, allocWk, fresh, held>>

\* Types; a collection holds at most Threshold nodes.
TypeOK ==
    /\ local \in [Worker -> Seq(Node)]
    /\ remote \in [Worker -> Seq(Node)]
    /\ pros \in [Worker -> [Worker -> Seq(Node)]]
    /\ \A w, v \in Worker : Len(pros[w][v]) <= Threshold
    /\ allocWk \in [Node -> Worker]
    /\ fresh \subseteq Node
    /\ held \subseteq Node

Init ==
    /\ local = [w \in Worker |-> <<>>]
    /\ remote = [w \in Worker |-> <<>>]
    /\ pros = [w \in Worker |-> [v \in Worker |-> <<>>]]
    /\ allocWk \in [Node -> {CHOOSE w \in Worker : TRUE}]
    /\ fresh = Node
    /\ held = {}

----------------------------------------------------------------------------
(* allocate on worker w, which returns n *)

AllocateLocal(w, n) ==
    /\ local[w] # <<>>
    /\ n = Head(local[w])
    /\ local' = [local EXCEPT ![w] = Tail(@)]
    /\ UNCHANGED <<remote, fresh>>

\* Mutant: the list of returned nodes is taken but not emptied.
ClearRemote_Forgotten(w) == remote' = remote

ClearRemote(w) == remote' = [remote EXCEPT ![w] = <<>>]

AllocateRemote(w, n) ==
    /\ local[w] = <<>>
    /\ remote[w] # <<>>
    /\ n = Head(remote[w])
    /\ ClearRemote(w)
    /\ local' = [local EXCEPT ![w] = Tail(remote[w])]
    /\ UNCHANGED fresh

AllocateNew(w, n) ==
    /\ local[w] = <<>>
    /\ remote[w] = <<>>
    /\ n \in fresh
    /\ fresh' = fresh \ {n}
    /\ UNCHANGED <<local, remote>>

Allocate(w, n) ==
    /\ AllocateLocal(w, n) \/ AllocateRemote(w, n) \/ AllocateNew(w, n)
    /\ allocWk' = [allocWk EXCEPT ![n] = w]
    /\ held' = held \cup {n}
    /\ UNCHANGED pros

----------------------------------------------------------------------------
(* deallocate of n on worker w *)

\* Mutant: a node stays with the worker that frees it.
IsHome_Always(w, n) == TRUE

IsHome(w, n) == allocWk[n] = w

DeallocateLocal(w, n) ==
    /\ IsHome(w, n)
    /\ local' = [local EXCEPT ![w] = <<n>> \o @]
    /\ UNCHANGED <<remote, pros>>

HasRoom(w, v) == Len(pros[w][v]) < Threshold

Collect(w, v, n) ==
    /\ HasRoom(w, v)
    /\ pros' = [pros EXCEPT ![w][v] = <<n>> \o @]
    /\ UNCHANGED <<local, remote>>

\* Mutant: the batch replaces the returned nodes instead of joining them.
Return_Overwrites(w, v) == remote' = [remote EXCEPT ![v] = pros[w][v]]

Return(w, v) == remote' = [remote EXCEPT ![v] = pros[w][v] \o @]

SendBack(w, v, n) ==
    /\ ~HasRoom(w, v)
    /\ Return(w, v)
    /\ pros' = [pros EXCEPT ![w][v] = <<n>>]
    /\ UNCHANGED local

Deallocate(w, n) ==
    /\ n \in held
    /\ held' = held \ {n}
    /\ \/ DeallocateLocal(w, n)
       \/ ~IsHome(w, n) /\ (Collect(w, allocWk[n], n) \/ SendBack(w, allocWk[n], n))
    /\ UNCHANGED <<allocWk, fresh>>

\* Tasks move, so that any worker frees any node.
Next == \E w \in Worker, n \in Node : Allocate(w, n) \/ Deallocate(w, n)

Spec == Init /\ [][Next]_vars

----------------------------------------------------------------------------
(* Properties *)

Elements(s) == {s[i] : i \in DOMAIN s}

\* No node is lost, and none is in two places: every node is unborn, in use, or
\* in one place of one list.
Lists == [k \in {"local", "remote", "pros"} \X Worker \X Worker |->
    IF k[1] = "pros" THEN pros[k[2]][k[3]]
    ELSE IF k[2] # k[3] THEN <<>>
    ELSE IF k[1] = "local" THEN local[k[2]] ELSE remote[k[2]]]

Listed == UNION {Elements(Lists[k]) : k \in DOMAIN Lists}

InOnePlace ==
    /\ \A k \in DOMAIN Lists : \A i, j \in DOMAIN Lists[k] : Lists[k][i] = Lists[k][j] => i = j
    /\ \A k, l \in DOMAIN Lists : k # l => Elements(Lists[k]) \cap Elements(Lists[l]) = {}
    /\ fresh \cap held = {} /\ (fresh \cup held) \cap Listed = {}
    /\ Node = fresh \cup held \cup Listed

\* A node only comes back to the worker that allocated it, and waits elsewhere
\* only in a collection for that worker.
ComesHome ==
    /\ \A w \in Worker : \A n \in Elements(local[w]) : allocWk[n] = w
    /\ \A w \in Worker : \A n \in Elements(remote[w]) : allocWk[n] = w
    /\ \A w, v \in Worker : \A n \in Elements(pros[w][v]) : allocWk[n] = v /\ v # w

\* The pool hands a node out once at a time: it implements Pool.
AbstractPool == INSTANCE Pool WITH
    spare <- fresh \cup Listed
RefinesPool == AbstractPool!Spec
=============================================================================
