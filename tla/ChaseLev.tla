------------------------------ MODULE ChaseLev ------------------------------
(***************************************************************************)
(* cmpth's chaselev_worker_deque, one deque per worker, as x86 runs it:    *)
(* the plain stores of a worker go through its store buffer, and its       *)
(* fences and compare-and-swaps wait until the buffer is empty.  top_ is   *)
(* only changed by compare-and-swap; bottom_ and the array only by the     *)
(* owner.  Indices have the width of size_t, so that bottom_ - 1 wraps at  *)
(* zero, and are compared by their signed difference.                      *)
(*                                                                         *)
(* A worker runs one operation at a time: dpc says where it is in it, and  *)
(* at "done" res holds the continuation it returns.                        *)
(***************************************************************************)
EXTENDS Integers, Sequences, FiniteSets

CONSTANTS
    Worker,    \* worker numbers
    Nil,       \* nullptr
    Size,      \* get_default_deque_size: slots of the array
    Width      \* bound: bits of size_t

ASSUME DequeAssumption ==
    /\ Nil \notin Worker
    /\ Size \in Nat \ {0}
    /\ Width \in Nat /\ 2^Width \in Nat /\ 2^Width > Size

VARIABLES
    top,       \* top_
    bottom,    \* bottom_, as the other workers see it
    elems,     \* the array, as the other workers see it
    sb,        \* the stores a worker has not yet made visible
    own,       \* bottom_, as the owner sees it
    dpc,       \* where each worker is in its operation
    lb, lt,    \* b and t of the operation
    res        \* x of the operation

ops == <<dpc, lb, lt, res>>
dequeVars == <<top, bottom, elems, sb, own, ops>>

Modulus == 2^Width
Index == 0..(Modulus - 1)
Plus(i, k) == (i + k) % Modulus

\* Mutant: the indices are subtracted without a sign.
Diff_Unsigned(b, t) == (b - t) % Modulus

\* static_cast<ssize_type>(b) - static_cast<ssize_type>(t), wrapped.
Diff(b, t) ==
    LET d == (b - t) % Modulus IN IF d >= Modulus \div 2 THEN d - Modulus ELSE d

\* get_real_idx: i & (size - 1)
Slot(i) == i % Size

\* The deques are empty, except that of w0, where x has been pushed.
DequeInit(w0, x) ==
    /\ top = [w \in Worker |-> 0]
    /\ bottom = [w \in Worker |-> IF w = w0 THEN 1 ELSE 0]
    /\ own = bottom
    /\ elems = [w \in Worker |-> [s \in 0..(Size - 1) |-> IF w = w0 /\ s = 0 THEN x ELSE Nil]]
    /\ sb = [w \in Worker |-> <<>>]
    /\ dpc = [w \in Worker |-> "idle"]
    /\ lb = [w \in Worker |-> 0]
    /\ lt = [w \in Worker |-> 0]
    /\ res = [w \in Worker |-> Nil]

DequePC == {"idle", "pop", "pop_cas", "steal", "steal_load", "steal_cas", "done"}

Step(w, l) == dpc' = [dpc EXCEPT ![w] = l]
Return(w, x) == Step(w, "done") /\ res' = [res EXCEPT ![w] = x]

SetElem(i, x) == [loc |-> "elem", at |-> i, val |-> x]
SetBottom(b) == [loc |-> "bottom", at |-> b, val |-> Nil]

Store(w, writes) == sb' = [sb EXCEPT ![w] = @ \o writes]

StoreBottom(w, b) ==
    /\ own' = [own EXCEPT ![w] = b]
    /\ Store(w, <<SetBottom(b)>>)

\* The oldest store of a worker becomes visible.
Flush(w) ==
    /\ sb[w] # <<>>
    /\ LET s == Head(sb[w]) IN
        IF s.loc = "bottom"
        THEN bottom' = [bottom EXCEPT ![w] = s.at] /\ elems' = elems
        ELSE elems' = [elems EXCEPT ![w][Slot(s.at)] = s.val] /\ bottom' = bottom
    /\ sb' = [sb EXCEPT ![w] = Tail(@)]
    /\ UNCHANGED <<top, own, ops>>

Drained(w) == sb[w] = <<>>

\* Mutant: the fence between the store of bottom_ and the load of top_ is lost.
PopFence_Missing(w) == TRUE

PopFence(w) == Drained(w)

\* What a load of the array by its owner returns.
OwnElem(w, i) ==
    LET pend == {k \in 1..Len(sb[w]) : sb[w][k].loc = "elem" /\ Slot(sb[w][k].at) = Slot(i)}
    IN  IF pend = {} THEN elems[w][Slot(i)]
        ELSE sb[w][CHOOSE k \in pend : \A j \in pend : j <= k].val

----------------------------------------------------------------------------
(* local_push_top, which local_push_bottom calls, too *)

Full(w) == Diff(own[w], top[w]) > Size - 1

Push(w, x) ==
    /\ ~Full(w)
    /\ Store(w, <<SetElem(own[w], x), SetBottom(Plus(own[w], 1))>>)
    /\ own' = [own EXCEPT ![w] = Plus(@, 1)]
    /\ UNCHANGED <<top, bottom, elems>>

----------------------------------------------------------------------------
(* try_local_pop_top *)

PopStart(w) ==
    /\ dpc[w] = "idle"
    /\ lb' = [lb EXCEPT ![w] = Plus(own[w], -1)]
    /\ StoreBottom(w, Plus(own[w], -1))
    /\ Step(w, "pop")
    /\ UNCHANGED <<top, bottom, elems, lt, res>>

\* Mutant: an empty deque does not get its bottom_ back.
Restore_Forgotten(w) == UNCHANGED <<sb, own>>

Restore(w) == StoreBottom(w, Plus(lb[w], 1))

PopEmpty(w) ==
    /\ Diff(lb[w], top[w]) < 0
    /\ Restore(w)
    /\ Return(w, Nil)
    /\ UNCHANGED lt

IsLastElem(w) == top[w] = lb[w]

PopInner(w) ==
    /\ Diff(lb[w], top[w]) >= 0
    /\ ~IsLastElem(w)
    /\ Return(w, OwnElem(w, lb[w]))
    /\ UNCHANGED <<sb, own, lt>>

PopLast(w) ==
    /\ Diff(lb[w], top[w]) >= 0
    /\ IsLastElem(w)
    /\ lt' = [lt EXCEPT ![w] = top[w]]
    /\ res' = [res EXCEPT ![w] = OwnElem(w, lb[w])]
    /\ Step(w, "pop_cas")
    /\ UNCHANGED <<sb, own>>

\* The load of top_.
PopLoad(w) ==
    /\ dpc[w] = "pop"
    /\ PopFence(w)
    /\ PopEmpty(w) \/ PopInner(w) \/ PopLast(w)
    /\ UNCHANGED <<top, bottom, elems, lb>>

\* compare_exchange_strong on top_ of a deque, by w.
CasTop(w, v) ==
    /\ Drained(w)
    /\ IF top[v] = lt[w]
       THEN top' = [top EXCEPT ![v] = Plus(@, 1)] /\ Return(w, res[w])
       ELSE top' = top /\ Return(w, Nil)

PopCas(w) ==
    /\ dpc[w] = "pop_cas"
    /\ CasTop(w, w)
    /\ Restore(w)
    /\ UNCHANGED <<bottom, elems, lb, lt>>

Pop(w) == PopLoad(w) \/ PopCas(w)

----------------------------------------------------------------------------
(* try_remote_pop_bottom, of the deque of v *)

StealStart(w, v) ==
    /\ lt' = [lt EXCEPT ![w] = top[v]]
    /\ Step(w, "steal")
    /\ UNCHANGED <<top, bottom, elems, sb, own, lb, res>>

StealBottom(w, v) ==
    /\ dpc[w] = "steal"
    /\ Drained(w)
    /\ IF Diff(bottom[v], lt[w]) > 0
       THEN Step(w, "steal_load") /\ res' = res
       ELSE Return(w, Nil)
    /\ UNCHANGED <<top, bottom, elems, sb, own, lb, lt>>

StealLoad(w, v) ==
    /\ dpc[w] = "steal_load"
    /\ res' = [res EXCEPT ![w] = elems[v][Slot(lt[w])]]
    /\ Step(w, "steal_cas")
    /\ UNCHANGED <<top, bottom, elems, sb, own, lb, lt>>

StealCas(w, v) ==
    /\ dpc[w] = "steal_cas"
    /\ CasTop(w, v)
    /\ UNCHANGED <<bottom, elems, sb, own, lb, lt>>

Steal(w, v) == StealBottom(w, v) \/ StealLoad(w, v) \/ StealCas(w, v)

\* The caller takes the result; the operation's variables are gone.
Taken(w) ==
    /\ dpc' = [dpc EXCEPT ![w] = "idle"]
    /\ res' = [res EXCEPT ![w] = Nil]
    /\ lb' = [lb EXCEPT ![w] = 0]
    /\ lt' = [lt EXCEPT ![w] = 0]
=============================================================================
