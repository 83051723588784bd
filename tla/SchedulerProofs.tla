-------------------------- MODULE SchedulerProofs --------------------------
(***************************************************************************)
(* Proofs about Scheduler, and with it about ChaseLev, for any workers,    *)
(* descriptors, deque sizes and numbers of operations, as long as the      *)
(* indices of the deques are wide enough for the operations counted.       *)
(*                                                                         *)
(* The invariant has two parts.  The deques: which positions hold an       *)
(* element, where it is (in the array or on its way there), and what a pop *)
(* or a steal in progress may rely on.  The tasks: each is in one place.   *)
(***************************************************************************)
EXTENDS Scheduler, SequenceTheorems, FiniteSetTheorems, TLAPS

----------------------------------------------------------------------------
(* Indices *)

\* No index wraps but at zero: the program makes fewer operations than half the
\* range of size_t.
NoWrap == 2 * (MaxOps + 2) <= Modulus

\* The positions of the deques, and the index before the first one.
Small == 0 .. (MaxOps + 1)
Ix == Small \cup {Modulus - 1}

\* The number an index stands for.
Val(i) == IF i \in Small THEN i ELSE -1

\* Remainders of numbers that are off by one multiple at most.
LEMMA ModFacts ==
    ASSUME NEW M \in Nat, M > 0, NEW a \in Int
    PROVE  /\ a >= 0 /\ a < M => a % M = a
           /\ a < 0 /\ a >= -M => a % M = a + M
<1>1. ASSUME a >= 0, a < M PROVE a % M = a
  <2>1. a \in 0 .. (M - 1)  BY <1>1
  <2> QED  BY <2>1
<1>2. ASSUME a < 0, a >= -M PROVE a % M = a + M  BY <1>2
<1> QED  BY <1>1, <1>2

LEMMA IxFacts ==
    ASSUME NoWrap
    PROVE  /\ Modulus \in Nat /\ MaxOps \in Nat /\ Size \in Nat /\ Size > 0 /\ 2 * (MaxOps + 2) <= Modulus
           /\ Ix \subseteq Index /\ Small \subseteq Ix /\ Modulus - 1 \notin Small
           /\ \A i \in Ix : /\ Val(i) \in Int /\ -1 <= Val(i) /\ Val(i) <= MaxOps + 1
                            /\ Val(i) >= 0 => i \in Small
                            /\ i \in Small => Val(i) = i
           /\ \A i, j \in Ix : Val(i) = Val(j) => i = j
<1>1. Modulus \in Nat  BY DequeAssumption DEF Modulus
<1>2. MaxOps \in Nat /\ Size \in Nat /\ Size > 0  BY SchedAssumption, DequeAssumption
<1>3. 2 * (MaxOps + 2) <= Modulus  BY DEF NoWrap
<1> QED  BY <1>1, <1>2, <1>3 DEF Small, Ix, Index, Val

\* Counting up and down, and the signed difference.
LEMMA UpFacts ==
    ASSUME NoWrap, NEW i \in Ix, Val(i) <= MaxOps
    PROVE  Plus(i, 1) \in Small /\ Val(Plus(i, 1)) = Val(i) + 1
<1>1. CASE i \in Small
  <2>1. i + 1 >= 0 /\ i + 1 < Modulus /\ i + 1 \in Int /\ i + 1 \in Small  BY <1>1, IxFacts DEF Small, Val
  <2>2. Plus(i, 1) = i + 1  BY <2>1, IxFacts, ModFacts DEF Plus
  <2> QED  BY <1>1, <2>1, <2>2 DEF Val
<1>2. CASE i = Modulus - 1
  <2>1. Modulus % Modulus = 0
    <3>1. \A M \in Nat : M > 0 => M % M = 0  OBVIOUS
    <3> QED  BY <3>1, IxFacts
  <2>2. i + 1 = Modulus  BY <1>2, IxFacts
  <2>3. Plus(i, 1) = 0  BY <2>1, <2>2 DEF Plus
  <2>4. 0 \in Small /\ Val(i) = -1  BY <1>2, IxFacts DEF Small, Val
  <2> QED  BY <2>3, <2>4 DEF Val
<1> QED  BY <1>1, <1>2 DEF Ix

LEMMA DownFacts ==
    ASSUME NoWrap, NEW i \in Small
    PROVE  Plus(i, -1) \in Ix /\ Val(Plus(i, -1)) = i - 1
<1>1. CASE i = 0
  <2>1. Plus(i, -1) = Modulus - 1
    <3>1. 0 + (-1) < 0 /\ 0 + (-1) >= -Modulus /\ 0 + (-1) \in Int /\ Modulus > 0 /\ Modulus \in Nat  BY IxFacts
    <3>2. (0 + (-1)) % Modulus = (0 + (-1)) + Modulus  BY <3>1, ModFacts
    <3> QED  BY <1>1, <3>2, IxFacts DEF Plus
  <2> QED  BY <1>1, <2>1, IxFacts DEF Ix, Val
<1>2. CASE i # 0
  <2>1. i - 1 >= 0 /\ i - 1 < Modulus /\ i - 1 \in Int /\ i - 1 \in Small /\ i + (-1) = i - 1
    BY <1>2, IxFacts DEF Small
  <2>2. Plus(i, -1) = i - 1  BY <2>1, IxFacts, ModFacts DEF Plus
  <2> QED  BY <2>1, <2>2, IxFacts DEF Val
<1> QED  BY <1>1, <1>2

LEMMA DiffFacts ==
    ASSUME NoWrap, NEW b \in Ix, NEW t \in Small
    PROVE  Diff(b, t) = Val(b) - t
<1> DEFINE M == Modulus
<1>0. M \in Nat /\ M > 0 /\ 2 * (MaxOps + 2) <= M /\ MaxOps \in Nat  BY IxFacts
<1>1. t \in Int /\ t >= 0 /\ t <= MaxOps + 1  BY <1>0 DEF Small
<1>2. PICK v \in Int : v = Val(b) /\ v >= -1 /\ v <= MaxOps + 1  BY IxFacts
<1>3. (b - t) % M = IF v - t >= 0 THEN v - t ELSE v - t + M
  <2>1. CASE b \in Small
    <3>1. b = v /\ b \in Int  BY <1>0, <1>2, <2>1 DEF Val, Small
    <3>2. v - t \in Int /\ v - t >= -M /\ v - t < M  BY <1>0, <1>1, <1>2
    <3> HIDE DEF M
    <3> QED  BY <1>0, <3>1, <3>2, ModFacts
  <2>2. CASE b = M - 1
    <3>1. v = -1  BY <1>2, <2>2, IxFacts DEF Val
    <3>2. b - t = M + (v - t) /\ b - t \in Int /\ b - t >= 0 /\ b - t < M /\ v - t < 0
      BY <1>0, <1>1, <2>2, <3>1
    <3>3. v - t + M = M + (v - t)  BY <1>0, <1>1, <1>2
    <3> HIDE DEF M
    <3>4. (b - t) % M = b - t  BY <1>0, <3>2, ModFacts
    <3>5. ~ (v - t >= 0)  BY <1>1, <1>2, <3>2
    <3> QED  BY <3>2, <3>3, <3>4, <3>5
  <2> QED  BY <2>1, <2>2 DEF Ix
<1>4. M \div 2 \in Int /\ 2 * (M \div 2) <= M /\ M <= 2 * (M \div 2) + 1
  <2>1. \A m \in Nat : m \div 2 \in Int /\ 2 * (m \div 2) <= m /\ m <= 2 * (m \div 2) + 1  OBVIOUS
  <2> HIDE DEF M
  <2> QED  BY <1>0, <2>1
<1>5. Diff(b, t) = IF (b - t) % M >= M \div 2 THEN ((b - t) % M) - M ELSE (b - t) % M  BY DEF Diff
<1> HIDE DEF M
<1>6. CASE v - t >= 0
  <2>1. (b - t) % M = v - t  BY <1>3, <1>6
  <2>2. ~ (v - t >= M \div 2)  BY <1>0, <1>1, <1>2, <1>4
  <2> QED  BY <1>2, <1>5, <2>1, <2>2
<1>7. CASE v - t < 0
  <2>1. (b - t) % M = v - t + M  BY <1>1, <1>2, <1>3, <1>7
  <2>2. v - t + M >= M \div 2  BY <1>0, <1>1, <1>2, <1>4
  <2>3. (v - t + M) - M = v - t  BY <1>0, <1>1, <1>2
  <2> QED  BY <1>2, <1>5, <2>1, <2>2, <2>3
<1> QED  BY <1>1, <1>2, <1>6, <1>7

\* Positions that are less than the size of the array apart have slots of their own.
LEMMA SlotFacts ==
    ASSUME NoWrap, NEW i \in Nat
    PROVE  /\ Slot(i) \in 0 .. (Size - 1)
           /\ \A j \in Nat : i < j /\ j < i + Size => Slot(i) # Slot(j)
<1>0. Size \in Nat /\ Size > 0  BY IxFacts
<1>1. Slot(i) \in 0 .. (Size - 1)  BY <1>0 DEF Slot
<1>2. ASSUME NEW j \in Nat, i < j, j < i + Size, i % Size = j % Size PROVE FALSE
  <2>1. PICK q \in Int, r \in 0 .. (Size - 1) : i = Size * q + r /\ r = i % Size
    <3>1. i = Size * (i \div Size) + (i % Size) /\ i \div Size \in Int /\ i % Size \in 0 .. (Size - 1)  BY <1>0
    <3> QED  BY <3>1
  <2>2. PICK p \in Int, s \in 0 .. (Size - 1) : j = Size * p + s /\ s = j % Size
    <3>1. j = Size * (j \div Size) + (j % Size) /\ j \div Size \in Int /\ j % Size \in 0 .. (Size - 1)  BY <1>0
    <3> QED  BY <3>1
  <2>3. r = s  BY <1>2, <2>1, <2>2
  <2>4. j - i = Size * (p - q)  BY <1>0, <2>1, <2>2, <2>3
  <2>5. CASE p - q <= 0
    <3>1. Size * (p - q) <= 0  BY <1>0, <2>5
    <3> QED  BY <1>2, <2>4, <3>1
  <2>6. CASE p - q >= 1
    <3>1. Size * (p - q) >= Size  BY <1>0, <2>6
    <3> QED  BY <1>0, <1>2, <2>4, <3>1
  <2> QED  BY <2>5, <2>6
<1> QED  BY <1>1, <1>2 DEF Slot

----------------------------------------------------------------------------
(* The deques *)

PopPC == {"pop", "pop_cas"}
StealPC == {"steal", "steal_load", "steal_cas"}

\* The position after the last element; a pop has not taken its element yet.
Limit(w) == IF dpc[w] \in PopPC THEN Val(own[w]) + 1 ELSE Val(own[w])

IsElem(w, k) == sb[w][k].loc = "elem"

\* No store to position i is pending.
Settled(w, i) == \A k \in DOMAIN sb[w] : IsElem(w, k) => sb[w][k].at # i

\* The element at position i of the deque of w is x.
Has(w, i, x) ==
    /\ i \in Int /\ top[w] <= i /\ i < Limit(w)
    /\ \/ \E k \in DOMAIN sb[w] : sb[w][k] = SetElem(i, x)
       \/ Settled(w, i) /\ elems[w][Slot(i)] = x

Stores == {SetElem(i, x) : i \in Small, x \in Task} \cup {SetBottom(b) : b \in Ix}

DequeTypeOK ==
    /\ top \in [Worker -> Small] /\ bottom \in [Worker -> Ix] /\ own \in [Worker -> Ix]
    /\ elems \in [Worker -> [0 .. (Size - 1) -> Task \cup {Nil}]]
    /\ sb \in [Worker -> Seq(Stores)]
    /\ dpc \in [Worker -> DequePC]
    /\ lb \in [Worker -> Ix] /\ lt \in [Worker -> Small]
    /\ res \in [Worker -> Task \cup {Nil}]

\* The owner of a deque moves bottom_ up, but for the pop in progress.
Bounds(w) ==
    /\ top[w] <= Limit(w) /\ Limit(w) <= top[w] + Size
    /\ Val(bottom[w]) <= Limit(w)
    /\ \A k \in DOMAIN sb[w] : ~ IsElem(w, k) => Val(sb[w][k].at) <= Limit(w)

\* The last store to bottom_ is what the owner sees.
LastStore(w) == IF sb[w] = <<>> THEN bottom[w] = own[w] ELSE sb[w][Len(sb[w])] = SetBottom(own[w])

\* An element becomes visible before the bottom_ that covers it.
Order(w) == \A k \in DOMAIN sb[w] : IsElem(w, k) =>
    /\ top[w] <= sb[w][k].at /\ sb[w][k].at < Limit(w)
    /\ Val(bottom[w]) <= sb[w][k].at
    /\ \A l \in DOMAIN sb[w] : l < k =>
        IF IsElem(w, l) THEN sb[w][l].at < sb[w][k].at ELSE Val(sb[w][l].at) <= sb[w][k].at

\* There is an element at every position.
Filled(w) == \A i \in Int : top[w] <= i /\ i < Limit(w) => \E x \in Task : Has(w, i, x)

\* A pop that competes for the last element has read it.
Popping(w) ==
    /\ dpc[w] \in PopPC => lb[w] = own[w]
    /\ dpc[w] = "pop_cas" =>
        /\ sb[w] = <<>> /\ lt[w] = lb[w] /\ lt[w] <= top[w]
        /\ lt[w] = top[w] => Has(w, lt[w], res[w])

DequeOK(w) == Bounds(w) /\ LastStore(w) /\ Order(w) /\ Filled(w) /\ Popping(w)

\* A steal that may still succeed: the element is there, visible, and read.
Stealing(w) ==
    /\ dpc[w] \in StealPC => arg[w] \in Worker \ {w} /\ lt[w] <= top[arg[w]]
    /\ dpc[w] \in {"steal_load", "steal_cas"} /\ lt[w] = top[arg[w]]
         => lt[w] < Limit(arg[w]) /\ Settled(arg[w], lt[w])
    /\ dpc[w] = "steal_cas" /\ lt[w] = top[arg[w]] => elems[arg[w]][Slot(lt[w])] = res[w]

DequeInv == DequeTypeOK /\ \A w \in Worker : DequeOK(w) /\ Stealing(w)

\* What thieves rely on: as long as top_ stays, so does the element there.
Keeps(v) ==
    /\ top'[v] >= top[v]
    /\ top'[v] = top[v] /\ top[v] < Limit(v) /\ Settled(v, top[v])
        => /\ top[v] < Limit(v)' /\ Settled(v, top[v])'
           /\ elems'[v][Slot(top[v])] = elems[v][Slot(top[v])]

\* What a step leaves alone: a deque, and the operation of a worker.
SameDeque(v) ==
    top'[v] = top[v] /\ bottom'[v] = bottom[v] /\ elems'[v] = elems[v] /\ sb'[v] = sb[v] /\ own'[v] = own[v]
SameOp(v) == dpc'[v] = dpc[v] /\ lb'[v] = lb[v] /\ lt'[v] = lt[v] /\ res'[v] = res[v]

\* The deques and operations of all workers but w.
OthersSame(w) == \A v \in Worker \ {w} : SameDeque(v) /\ SameOp(v)

----------------------------------------------------------------------------
(* Facts about deques *)

LEMMA StoreFacts ==
    ASSUME NEW s \in Stores
    PROVE  \/ s.loc = "elem" /\ s.at \in Small /\ s.val \in Task /\ s = SetElem(s.at, s.val)
           \/ s.loc = "bottom" /\ s.at \in Ix /\ s = SetBottom(s.at)
<1>1. CASE \E i \in Small, x \in Task : s = SetElem(i, x)  BY <1>1 DEF SetElem
<1>2. CASE \E b \in Ix : s = SetBottom(b)  BY <1>2 DEF SetBottom
<1> QED  BY <1>1, <1>2 DEF Stores

LEMMA TaskFacts == Nil \notin Task /\ Task \cap Worker = {} /\ Main \in Task /\ Desc \subseteq Task /\ Main \notin Desc
BY SchedAssumption DEF Task

LEMMA DequeFacts ==
    ASSUME NoWrap, DequeTypeOK, NEW w \in Worker
    PROVE  /\ top[w] \in Small /\ top[w] \in Nat /\ own[w] \in Ix /\ bottom[w] \in Ix /\ lt[w] \in Nat
           /\ Val(own[w]) \in Int /\ Val(bottom[w]) \in Int /\ Limit(w) \in Int
           /\ sb[w] \in Seq(Stores) /\ Len(sb[w]) \in Nat /\ DOMAIN sb[w] = 1 .. Len(sb[w])
           /\ \A k \in DOMAIN sb[w] :
                \/ /\ IsElem(w, k) /\ sb[w][k].at \in Small /\ sb[w][k].at \in Nat /\ sb[w][k].val \in Task
                   /\ sb[w][k] = SetElem(sb[w][k].at, sb[w][k].val)
                \/ /\ ~ IsElem(w, k) /\ sb[w][k].at \in Ix /\ Val(sb[w][k].at) \in Int
                   /\ sb[w][k] = SetBottom(sb[w][k].at)
<1>1. /\ top[w] \in Small /\ own[w] \in Ix /\ bottom[w] \in Ix /\ sb[w] \in Seq(Stores) /\ lt[w] \in Small
  BY DEF DequeTypeOK
<1>2. \A i \in Small : i \in Nat  BY IxFacts DEF Small
<1>3. Val(own[w]) \in Int /\ Val(bottom[w]) \in Int /\ Limit(w) \in Int  BY <1>1, IxFacts DEF Limit
<1>4. Len(sb[w]) \in Nat /\ DOMAIN sb[w] = 1 .. Len(sb[w])  BY <1>1
<1>5. ASSUME NEW k \in DOMAIN sb[w]
      PROVE  \/ /\ IsElem(w, k) /\ sb[w][k].at \in Small /\ sb[w][k].at \in Nat /\ sb[w][k].val \in Task
                /\ sb[w][k] = SetElem(sb[w][k].at, sb[w][k].val)
             \/ /\ ~ IsElem(w, k) /\ sb[w][k].at \in Ix /\ Val(sb[w][k].at) \in Int
                /\ sb[w][k] = SetBottom(sb[w][k].at)
  <2>1. sb[w][k] \in Stores  BY <1>1, <1>4
  <2> QED  BY <1>2, <2>1, StoreFacts, IxFacts DEF IsElem
<1> QED  BY <1>1, <1>2, <1>3, <1>4, <1>5

\* Stores are added to the end of the buffer, and leave it at the front.
LEMMA BufferFacts ==
    ASSUME NEW s \in Seq(Stores), NEW a \in Stores, NEW b \in Stores
    PROVE  /\ s \o <<a>> \in Seq(Stores) /\ Len(s \o <<a>>) = Len(s) + 1
           /\ \A k \in 1 .. Len(s) : (s \o <<a>>)[k] = s[k]
           /\ (s \o <<a>>)[Len(s) + 1] = a
           /\ s \o <<a, b>> \in Seq(Stores) /\ Len(s \o <<a, b>>) = Len(s) + 2
           /\ \A k \in 1 .. Len(s) : (s \o <<a, b>>)[k] = s[k]
           /\ (s \o <<a, b>>)[Len(s) + 1] = a /\ (s \o <<a, b>>)[Len(s) + 2] = b
<1>1. <<a>> \in Seq(Stores) /\ <<a, b>> \in Seq(Stores)  OBVIOUS
<1>2. s \o <<a>> \in Seq(Stores) /\ s \o <<a, b>> \in Seq(Stores)  BY <1>1
<1> QED  BY <1>1, <1>2

\* A step that leaves a deque and the operation of its owner alone.
LEMMA Frame ==
    ASSUME NoWrap, DequeTypeOK, NEW v \in Worker, DequeOK(v), SameDeque(v), SameOp(v)
    PROVE  DequeOK(v)' /\ Keeps(v) /\ Limit(v)' = Limit(v) /\ \A i, x : Has(v, i, x)' <=> Has(v, i, x)
<1> USE DEF SameDeque, SameOp
<1>1. Limit(v)' = Limit(v)  BY DEF Limit
<1>2. \A k : IsElem(v, k)' <=> IsElem(v, k)  BY DEF IsElem
<1>3. \A i : Settled(v, i)' <=> Settled(v, i)  BY <1>2 DEF Settled
<1>4. \A i, x : Has(v, i, x)' <=> Has(v, i, x)  BY <1>1, <1>3 DEF Has
<1>5. Bounds(v)' /\ LastStore(v)' /\ Order(v)'  BY <1>1, <1>2 DEF DequeOK, Bounds, LastStore, Order
<1>6. Filled(v)' /\ Popping(v)'  BY <1>1, <1>4 DEF DequeOK, Filled, Popping
<1>7. top[v] \in Nat  BY DequeFacts
<1>8. Settled(v, top[v])' <=> Settled(v, top[v])  BY <1>2 DEF Settled
<1>9. Keeps(v)  BY <1>1, <1>7, <1>8 DEF Keeps
<1> QED  BY <1>1, <1>4, <1>5, <1>6, <1>9 DEF DequeOK

\* A step that leaves a deque alone, but for what its owner does elsewhere.
LEMMA FrameIdle ==
    ASSUME NoWrap, DequeTypeOK, NEW v \in Worker, DequeOK(v), SameDeque(v),
           dpc[v] \notin PopPC, dpc'[v] \notin PopPC
    PROVE  DequeOK(v)' /\ Keeps(v) /\ Limit(v)' = Limit(v) /\ \A i, x : Has(v, i, x)' <=> Has(v, i, x)
<1> USE DEF SameDeque
<1>1. Limit(v)' = Limit(v)  BY DEF Limit
<1>2. \A k : IsElem(v, k)' <=> IsElem(v, k)  BY DEF IsElem
<1>3. \A i : Settled(v, i)' <=> Settled(v, i)  BY <1>2 DEF Settled
<1>4. \A i, x : Has(v, i, x)' <=> Has(v, i, x)  BY <1>1, <1>3 DEF Has
<1>5. Bounds(v)' /\ LastStore(v)' /\ Order(v)'  BY <1>1, <1>2 DEF DequeOK, Bounds, LastStore, Order
<1>6. Filled(v)' /\ Popping(v)'  BY <1>1, <1>4 DEF DequeOK, Filled, Popping, PopPC
<1>7. top[v] \in Nat  BY DequeFacts
<1>8. Settled(v, top[v])' <=> Settled(v, top[v])  BY <1>2 DEF Settled
<1>9. Keeps(v)  BY <1>1, <1>7, <1>8 DEF Keeps
<1> QED  BY <1>1, <1>4, <1>5, <1>6, <1>9 DEF DequeOK

----------------------------------------------------------------------------
(* The operations of a deque *)

\* A push adds an element at the end, behind stores that make it visible.
LEMMA PushFacts ==
    ASSUME NoWrap, DequeTypeOK, NEW w \in Worker, NEW x \in Task, DequeOK(w), Push(w, x),
           Limit(w) <= MaxOps, dpc[w] \notin PopPC, dpc'[w] \notin PopPC
    PROVE  /\ DequeOK(w)' /\ Keeps(w) /\ Limit(w)' = Limit(w) + 1
           /\ \A i, t : Has(w, i, t)' <=> (Has(w, i, t) \/ (i = Limit(w) /\ t = x))
           /\ top' = top /\ bottom' = bottom /\ elems' = elems
           /\ own' \in [Worker -> Ix] /\ sb' \in [Worker -> Seq(Stores)]
           /\ \A v \in Worker \ {w} : own'[v] = own[v] /\ sb'[v] = sb[v]
<1> DEFINE n == own[w]
           e == SetElem(n, x)
           b == SetBottom(Plus(n, 1))
           s == sb[w]
           T == top[w]
<1>00. PICK N \in Nat : N = Len(s)  BY DequeFacts
<1>0. /\ T \in Small /\ T \in Nat /\ n \in Ix /\ bottom[w] \in Ix /\ s \in Seq(Stores)
      /\ Val(n) \in Int /\ Val(bottom[w]) \in Int /\ Len(s) = N /\ DOMAIN s = 1 .. N
  BY <1>00, DequeFacts
<1>1. Limit(w) = Val(n)  BY DEF Limit
<1>2. Bounds(w) /\ LastStore(w) /\ Order(w) /\ Filled(w)  BY DEF DequeOK
<1>3. n \in Small /\ Val(n) = n /\ n \in Nat /\ T <= n /\ n <= MaxOps /\ Limit(w) = n
  <2>1. Val(n) >= 0  BY <1>0, <1>1, <1>2 DEF Bounds
  <2>2. n \in Small /\ Val(n) = n  BY <1>0, <2>1, IxFacts
  <2> QED  BY <1>0, <1>1, <1>2, <2>2 DEF Bounds
<1>4. Plus(n, 1) \in Small /\ Val(Plus(n, 1)) = n + 1 /\ Plus(n, 1) \in Ix
  BY <1>0, <1>1, <1>3, UpFacts, IxFacts
<1>5. e \in Stores /\ b \in Stores  BY <1>3, <1>4 DEF Stores
<1>6. own' = [own EXCEPT ![w] = Plus(n, 1)] /\ sb' = [sb EXCEPT ![w] = s \o <<e, b>>]
      /\ top' = top /\ bottom' = bottom /\ elems' = elems
  BY DEF Push, Store, DequeTypeOK
<1>7. own \in [Worker -> Ix] /\ sb \in [Worker -> Seq(Stores)]  BY DEF DequeTypeOK
<1>8. own'[w] = Plus(n, 1) /\ sb'[w] = s \o <<e, b>>  BY <1>6, <1>7
<1>9. /\ sb'[w] \in Seq(Stores) /\ Len(sb'[w]) = N + 2 /\ DOMAIN sb'[w] = 1 .. (N + 2)
      /\ \A k \in 1 .. N : sb'[w][k] = s[k]
      /\ sb'[w][N + 1] = e /\ sb'[w][N + 2] = b
  <2>1. sb'[w] \in Seq(Stores) /\ Len(sb'[w]) = N + 2  BY <1>0, <1>5, <1>8, BufferFacts
  <2>2. DOMAIN sb'[w] = 1 .. (N + 2)  BY <2>1
  <2> HIDE DEF e, b, s
  <2> QED  BY <1>0, <1>5, <1>8, <2>1, <2>2, BufferFacts
<1>10. Limit(w)' = n + 1  BY <1>4, <1>8 DEF Limit
<1>11. e.loc = "elem" /\ e.at = n /\ e.val = x /\ b.loc = "bottom" /\ b.at = Plus(n, 1)
  BY DEF SetElem, SetBottom
<1>12. /\ \A k \in 1 .. N : IsElem(w, k)' <=> IsElem(w, k)
       /\ IsElem(w, N + 1)' /\ ~ IsElem(w, N + 2)'
  BY <1>9, <1>11 DEF IsElem
<1>13. n + 1 <= T + Size
  <2>1. ~ (Diff(n, T) > Size - 1)  BY DEF Push, Full
  <2>2. Diff(n, T) = n - T  BY <1>0, <1>3, DiffFacts
  <2>3. ~ (n - T > Size - 1)  BY <2>1, <2>2
  <2>4. n \in Int /\ T \in Int  BY <1>0, <1>3
  <2>5. Size \in Int  BY IxFacts
  <2> HIDE DEF n, T
  <2> QED  BY <2>3, <2>4, <2>5
<1>14. \A k \in 1 .. N :
         /\ IsElem(w, k) => s[k].at \in Nat /\ T <= s[k].at /\ s[k].at < n /\ Val(bottom[w]) <= s[k].at
         /\ ~ IsElem(w, k) => Val(s[k].at) \in Int /\ Val(s[k].at) <= n
  BY <1>0, <1>2, <1>3, DequeFacts DEF Order, Bounds
<1>15. Bounds(w)'
  <2>1. T <= n + 1 /\ n + 1 <= T + Size  BY <1>0, <1>3, <1>13
  <2>2. Val(bottom[w]) <= n + 1  BY <1>0, <1>2, <1>3 DEF Bounds
  <2>3. ASSUME NEW k \in 1 .. (N + 2), ~ IsElem(w, k)' PROVE Val(sb'[w][k].at) <= n + 1
    <3>1. CASE k \in 1 .. N
      <4>1. ~ IsElem(w, k) /\ sb'[w][k] = s[k]  BY <1>9, <1>12, <2>3, <3>1
      <4>2. Val(s[k].at) \in Int /\ Val(s[k].at) <= n  BY <1>14, <3>1, <4>1
      <4>3. n \in Int  BY <1>3
      <4> HIDE DEF n, s
      <4> QED  BY <4>1, <4>2, <4>3
    <3>2. CASE k = N + 1  BY <1>12, <2>3, <3>2
    <3>3. CASE k = N + 2  BY <1>3, <1>4, <1>9, <1>11, <3>3
    <3> QED  BY <1>0, <3>1, <3>2, <3>3
  <2> QED  BY <1>6, <1>9, <1>10, <2>1, <2>2, <2>3 DEF Bounds
<1>16. LastStore(w)'
  <2>1. sb'[w] # <<>>  BY <1>0, <1>9
  <2> QED  BY <1>8, <1>9, <2>1 DEF LastStore
<1>17. Order(w)'
  <2>1. ASSUME NEW k \in 1 .. (N + 2), IsElem(w, k)'
        PROVE  /\ T <= sb'[w][k].at /\ sb'[w][k].at < n + 1 /\ Val(bottom[w]) <= sb'[w][k].at
               /\ \A l \in 1 .. (N + 2) : l < k =>
                    IF IsElem(w, l)' THEN sb'[w][l].at < sb'[w][k].at ELSE Val(sb'[w][l].at) <= sb'[w][k].at
    <3>1. CASE k \in 1 .. N
      <4>1. IsElem(w, k) /\ sb'[w][k] = s[k]  BY <1>9, <1>12, <2>1, <3>1
      <4>2. \A l \in 1 .. (N + 2) : l < k => l \in 1 .. N  BY <1>0, <3>1
      <4>3. \A l \in 1 .. N : l < k =>
              IF IsElem(w, l) THEN s[l].at < s[k].at ELSE Val(s[l].at) <= s[k].at
        BY <1>0, <1>2, <3>1, <4>1 DEF Order
      <4>4. \A l \in 1 .. N : sb'[w][l] = s[l] /\ (IsElem(w, l)' <=> IsElem(w, l))  BY <1>9, <1>12
      <4>5. T <= s[k].at /\ s[k].at < n + 1 /\ Val(bottom[w]) <= s[k].at  BY <1>3, <1>14, <3>1, <4>1
      <4> HIDE DEF n, s, T, e, b
      <4> QED  BY <4>1, <4>2, <4>3, <4>4, <4>5
    <3>2. CASE k = N + 1
      <4>1. sb'[w][k].at = n  BY <1>9, <1>11, <3>2
      <4>2. Val(bottom[w]) <= n  BY <1>2, <1>3 DEF Bounds
      <4>3. ASSUME NEW l \in 1 .. (N + 2), l < k
            PROVE IF IsElem(w, l)' THEN sb'[w][l].at < n ELSE Val(sb'[w][l].at) <= n
        <5>1. l \in 1 .. N  BY <1>0, <3>2, <4>3
        <5> QED  BY <1>9, <1>12, <1>14, <5>1
      <4> QED  BY <1>3, <4>1, <4>2, <4>3
    <3>3. CASE k = N + 2  BY <1>12, <2>1, <3>3
    <3> QED  BY <1>0, <3>1, <3>2, <3>3
  <2> QED  BY <1>6, <1>9, <1>10, <2>1 DEF Order
<1>18. \A i : Settled(w, i)' <=> (Settled(w, i) /\ i # n)
  <2>1. ASSUME NEW i PROVE Settled(w, i)' <=> (Settled(w, i) /\ i # n)
    <3>1. Settled(w, i)' <=> \A k \in 1 .. (N + 2) : IsElem(w, k)' => sb'[w][k].at # i
      BY <1>9 DEF Settled
    <3>2. Settled(w, i) <=> \A k \in 1 .. N : IsElem(w, k) => s[k].at # i  BY <1>0 DEF Settled
    <3>3. \A k \in 1 .. (N + 2) : k \in 1 .. N \/ k = N + 1 \/ k = N + 2  BY <1>0
    <3>4. \A k \in 1 .. N : k \in 1 .. (N + 2)  BY <1>0
    <3>5. N + 1 \in 1 .. (N + 2)  BY <1>0
    <3>6. sb'[w][N + 1].at = n  BY <1>9, <1>11
    <3>7. \A k \in 1 .. N : sb'[w][k].at = s[k].at  BY <1>9
    <3> HIDE DEF n, s, T, e, b
    <3> QED  BY <1>12, <3>1, <3>2, <3>3, <3>4, <3>5, <3>6, <3>7
  <2> QED  BY <2>1
<1>19. \A i, t : (\E k \in DOMAIN sb'[w] : sb'[w][k] = SetElem(i, t))
           <=> ((\E k \in DOMAIN s : s[k] = SetElem(i, t)) \/ (i = n /\ t = x))
  <2>1. ASSUME NEW i, NEW t
        PROVE (\E k \in DOMAIN sb'[w] : sb'[w][k] = SetElem(i, t))
           <=> ((\E k \in DOMAIN s : s[k] = SetElem(i, t)) \/ (i = n /\ t = x))
    <3>1. e = SetElem(i, t) <=> (i = n /\ t = x)  BY DEF SetElem
    <3>2. b # SetElem(i, t)  BY DEF SetElem, SetBottom
    <3>3. \A k \in 1 .. (N + 2) : k \in 1 .. N \/ k = N + 1 \/ k = N + 2  BY <1>0
    <3>4. \A k \in 1 .. N : k \in 1 .. (N + 2)  BY <1>0
    <3>5. N + 1 \in 1 .. (N + 2)  BY <1>0
    <3> HIDE DEF n, s, T, e, b
    <3> QED  BY <1>0, <1>9, <3>1, <3>2, <3>3, <3>4, <3>5
  <2> QED  BY <2>1
<1>20. \A i, t : Has(w, i, t)' <=> (Has(w, i, t) \/ (i = n /\ t = x))
  <2>1. ASSUME NEW i, NEW t PROVE Has(w, i, t)' <=> (Has(w, i, t) \/ (i = n /\ t = x))
    <3>1. Has(w, i, t)' <=> /\ i \in Int /\ T <= i /\ i < n + 1
                            /\ \/ (\E k \in DOMAIN s : s[k] = SetElem(i, t)) \/ (i = n /\ t = x)
                               \/ Settled(w, i) /\ i # n /\ elems[w][Slot(i)] = t
      BY <1>6, <1>10, <1>18, <1>19 DEF Has
    <3>2. Has(w, i, t) <=> /\ i \in Int /\ T <= i /\ i < n
                           /\ \/ \E k \in DOMAIN s : s[k] = SetElem(i, t)
                              \/ Settled(w, i) /\ elems[w][Slot(i)] = t
      BY <1>3 DEF Has
    <3>3. \A k \in DOMAIN s : s[k] # SetElem(n, t)
      <4>1. ASSUME NEW k \in DOMAIN s, s[k] = SetElem(n, t) PROVE FALSE
        <5>1. IsElem(w, k) /\ s[k].at = n  BY <4>1 DEF IsElem, SetElem
        <5> QED  BY <1>0, <1>3, <1>14, <5>1
      <4> QED  BY <4>1
    <3>4. i \in Int => ((i < n + 1) <=> (i < n \/ i = n))  BY <1>3
    <3>5. n \in Int /\ T <= n /\ n < n + 1 /\ ~ (n < n)  BY <1>3
    <3> HIDE DEF n, s, T, e, b
    <3> QED  BY <3>1, <3>2, <3>3, <3>4, <3>5
  <2> QED  BY <2>1
<1>21. Filled(w)'
  <2>1. ASSUME NEW i \in Int, T <= i, i < n + 1 PROVE \E t \in Task : Has(w, i, t)'
    <3>1. CASE i = n  BY <1>20, <3>1
    <3>2. CASE i < n  BY <1>2, <1>3, <1>20, <2>1, <3>2 DEF Filled
    <3> QED  BY <1>3, <2>1, <3>1, <3>2
  <2> QED  BY <1>6, <1>10, <2>1 DEF Filled
<1>22. Popping(w)'  BY DEF Popping, PopPC
<1>23. Keeps(w)
  <2>1. T < n /\ Settled(w, T) => Settled(w, T)'
    <3>1. Settled(w, T)' <=> \A k \in 1 .. (N + 2) : IsElem(w, k)' => sb'[w][k].at # T
      BY <1>6, <1>9 DEF Settled
    <3>2. Settled(w, T) <=> \A k \in 1 .. N : IsElem(w, k) => s[k].at # T  BY <1>0 DEF Settled
    <3>3. \A k \in 1 .. (N + 2) : k \in 1 .. N \/ k = N + 1 \/ k = N + 2  BY <1>0
    <3>4. sb'[w][N + 1].at = n  BY <1>9, <1>11
    <3>5. \A k \in 1 .. N : sb'[w][k].at = s[k].at  BY <1>9
    <3>6. T < n => T # n  BY <1>3
    <3> HIDE DEF n, s, e, b
    <3> QED  BY <1>12, <3>1, <3>2, <3>3, <3>4, <3>5, <3>6
  <2> QED  BY <1>0, <1>3, <1>6, <1>10, <2>1 DEF Keeps
<1> QED  BY <1>3, <1>6, <1>7, <1>8, <1>9, <1>4, <1>10, <1>15, <1>16, <1>17, <1>20, <1>21, <1>22, <1>23 DEF DequeOK

\* The owner stores bottom_, and what it stores covers the same elements.
LEMMA StoreBottomFacts ==
    ASSUME NoWrap, DequeTypeOK, NEW w \in Worker, DequeOK(w), NEW b \in Ix, StoreBottom(w, b),
           top'[w] = top[w], bottom'[w] = bottom[w], elems'[w] = elems[w],
           Limit(w)' = Limit(w), Val(b) <= Limit(w), Popping(w)'
    PROVE  /\ DequeOK(w)' /\ Keeps(w)
           /\ \A i, t : Has(w, i, t)' <=> Has(w, i, t)
           /\ own' \in [Worker -> Ix] /\ sb' \in [Worker -> Seq(Stores)]
           /\ \A v \in Worker \ {w} : own'[v] = own[v] /\ sb'[v] = sb[v]
<1> DEFINE s == sb[w]
           c == SetBottom(b)
<1>00. PICK N \in Nat : N = Len(s)  BY DequeFacts
<1>01. PICK T \in Nat : T = top[w]  BY DequeFacts
<1>02. PICK L \in Int : L = Limit(w)  BY DequeFacts
<1>0. s \in Seq(Stores) /\ Len(s) = N /\ DOMAIN s = 1 .. N  BY <1>00, DequeFacts
<1>1. Bounds(w) /\ LastStore(w) /\ Order(w) /\ Filled(w)  BY DEF DequeOK
<1>2. c \in Stores /\ c.loc = "bottom" /\ c.at = b  BY DEF Stores, SetBottom
<1>3. own' = [own EXCEPT ![w] = b] /\ sb' = [sb EXCEPT ![w] = s \o <<c>>]  BY DEF StoreBottom, Store
<1>4. own \in [Worker -> Ix] /\ sb \in [Worker -> Seq(Stores)]  BY DEF DequeTypeOK
<1>5. own'[w] = b /\ sb'[w] = s \o <<c>>  BY <1>3, <1>4
<1>6. /\ sb'[w] \in Seq(Stores) /\ Len(sb'[w]) = N + 1 /\ DOMAIN sb'[w] = 1 .. (N + 1)
      /\ \A k \in 1 .. N : sb'[w][k] = s[k]
      /\ sb'[w][N + 1] = c
  <2>1. sb'[w] \in Seq(Stores) /\ Len(sb'[w]) = N + 1  BY <1>0, <1>2, <1>5, BufferFacts
  <2>2. DOMAIN sb'[w] = 1 .. (N + 1)  BY <2>1
  <2> HIDE DEF c, s
  <2> QED  BY <1>0, <1>2, <1>5, <2>1, <2>2, BufferFacts
<1>7. (\A k \in 1 .. N : IsElem(w, k)' <=> IsElem(w, k)) /\ ~ IsElem(w, N + 1)'
  BY <1>2, <1>6 DEF IsElem
<1>8. /\ \A k \in 1 .. (N + 1) : k \in 1 .. N \/ k = N + 1
      /\ \A k \in 1 .. N : k \in 1 .. (N + 1)
  OBVIOUS
<1>9. Limit(w)' = L /\ top'[w] = T  BY <1>01, <1>02
<1>10. Bounds(w)'
  <2>1. T <= L /\ L <= T + Size /\ Val(bottom[w]) <= L  BY <1>01, <1>02, <1>1 DEF Bounds
  <2>2. ASSUME NEW k \in 1 .. (N + 1), ~ IsElem(w, k)' PROVE Val(sb'[w][k].at) <= L
    <3>1. CASE k \in 1 .. N  BY <1>0, <1>1, <1>02, <1>6, <1>7, <2>2, <3>1 DEF Bounds
    <3>2. CASE k = N + 1  BY <1>2, <1>02, <1>6, <3>2
    <3> QED  BY <1>8, <3>1, <3>2
  <2> QED  BY <1>6, <1>9, <2>1, <2>2 DEF Bounds
<1>11. LastStore(w)'
  <2>1. sb'[w] # <<>>  BY <1>6
  <2> QED  BY <1>5, <1>6, <2>1 DEF LastStore
<1>12. Order(w)'
  <2>1. ASSUME NEW k \in 1 .. (N + 1), IsElem(w, k)'
        PROVE  /\ T <= sb'[w][k].at /\ sb'[w][k].at < L /\ Val(bottom[w]) <= sb'[w][k].at
               /\ \A l \in 1 .. (N + 1) : l < k =>
                    IF IsElem(w, l)' THEN sb'[w][l].at < sb'[w][k].at ELSE Val(sb'[w][l].at) <= sb'[w][k].at
    <3>1. k \in 1 .. N /\ IsElem(w, k) /\ sb'[w][k] = s[k]  BY <1>6, <1>7, <1>8, <2>1
    <3>2. \A l \in 1 .. (N + 1) : l < k => l \in 1 .. N  BY <3>1
    <3>3. \A l \in 1 .. N : l < k => IF IsElem(w, l) THEN s[l].at < s[k].at ELSE Val(s[l].at) <= s[k].at
      BY <1>0, <1>1, <3>1 DEF Order
    <3>4. T <= s[k].at /\ s[k].at < L /\ Val(bottom[w]) <= s[k].at
      BY <1>0, <1>01, <1>02, <1>1, <3>1 DEF Order
    <3> HIDE DEF s, c
    <3> QED  BY <1>6, <1>7, <3>1, <3>2, <3>3, <3>4
  <2> QED  BY <1>6, <1>9, <2>1 DEF Order
<1>13. \A i : Settled(w, i)' <=> Settled(w, i)
  <2>1. ASSUME NEW i PROVE Settled(w, i)' <=> Settled(w, i)
    <3>1. Settled(w, i)' <=> \A k \in 1 .. (N + 1) : IsElem(w, k)' => sb'[w][k].at # i  BY <1>6 DEF Settled
    <3>2. Settled(w, i) <=> \A k \in 1 .. N : IsElem(w, k) => s[k].at # i  BY <1>0 DEF Settled
    <3> HIDE DEF s, c
    <3> QED  BY <1>6, <1>7, <1>8, <3>1, <3>2
  <2> QED  BY <2>1
<1>14. \A i, t : (\E k \in DOMAIN sb'[w] : sb'[w][k] = SetElem(i, t)) <=> (\E k \in DOMAIN s : s[k] = SetElem(i, t))
  <2>1. \A i, t : c # SetElem(i, t)  BY DEF SetElem, SetBottom
  <2> HIDE DEF s, c
  <2> QED  BY <1>0, <1>6, <1>8, <2>1
<1>15. \A i, t : Has(w, i, t)' <=> Has(w, i, t)  BY <1>02, <1>9, <1>13, <1>14 DEF Has
<1>16. Filled(w)'  BY <1>01, <1>02, <1>1, <1>9, <1>15 DEF Filled
<1>17. Keeps(w)
  <2>1. Settled(w, T)' <=> Settled(w, T)  BY <1>13
  <2>2. Settled(w, top[w])' <=> Settled(w, T)'  BY <1>9 DEF Settled
  <2> QED  BY <1>01, <1>02, <1>9, <2>1, <2>2 DEF Keeps
<1> QED  BY <1>3, <1>4, <1>6, <1>10, <1>11, <1>12, <1>15, <1>16, <1>17 DEF DequeOK

\* A pop begins: its element is no longer covered by bottom_, but still there.
LEMMA PopStartFacts ==
    ASSUME NoWrap, DequeTypeOK, NEW w \in Worker, DequeOK(w), PopStart(w)
    PROVE  /\ DequeOK(w)' /\ Keeps(w) /\ Limit(w)' = Limit(w)
           /\ \A i, t : Has(w, i, t)' <=> Has(w, i, t)
           /\ DequeTypeOK' /\ OthersSame(w)
<1> DEFINE m == Plus(own[w], -1)
<1>1. own[w] \in Ix /\ top[w] \in Nat /\ Val(own[w]) \in Int  BY DequeFacts
<1>2. dpc[w] = "idle" /\ dpc' = [dpc EXCEPT ![w] = "pop"] /\ lb' = [lb EXCEPT ![w] = m] /\ StoreBottom(w, m)
      /\ top' = top /\ bottom' = bottom /\ elems' = elems /\ lt' = lt /\ res' = res
  BY DEF PopStart, Step
<1>3. Limit(w) = Val(own[w])  BY <1>2 DEF Limit, PopPC
<1>4. own[w] \in Small /\ Val(own[w]) = own[w]
  <2>1. Val(own[w]) >= 0  BY <1>1, <1>3 DEF DequeOK, Bounds
  <2> QED  BY <1>1, <2>1, IxFacts
<1>5. m \in Ix /\ Val(m) = own[w] - 1  BY <1>4, DownFacts
<1>6. dpc'[w] = "pop" /\ lb'[w] = m /\ own'[w] = m  BY <1>2 DEF DequeTypeOK, StoreBottom
<1>7. Limit(w)' = Limit(w)
  <2>1. Limit(w)' = Val(m) + 1  BY <1>6 DEF Limit, PopPC
  <2> QED  BY <1>1, <1>3, <1>4, <1>5, <2>1
<1>8. Popping(w)'  BY <1>6 DEF Popping
<1>9. Val(m) <= Limit(w)  BY <1>1, <1>3, <1>4, <1>5
<1>10. /\ DequeOK(w)' /\ Keeps(w)
       /\ \A i, t : Has(w, i, t)' <=> Has(w, i, t)
       /\ own' \in [Worker -> Ix] /\ sb' \in [Worker -> Seq(Stores)]
       /\ \A v \in Worker \ {w} : own'[v] = own[v] /\ sb'[v] = sb[v]
  <2> HIDE DEF m
  <2> QED  BY <1>2, <1>5, <1>7, <1>8, <1>9, StoreBottomFacts
<1>11. DequeTypeOK'
  <2>1. lb' \in [Worker -> Ix] /\ dpc' \in [Worker -> DequePC]  BY <1>2, <1>5 DEF DequeTypeOK, DequePC
  <2> QED  BY <1>2, <1>10, <2>1 DEF DequeTypeOK
<1>12. \A v \in Worker \ {w} : dpc'[v] = dpc[v] /\ lb'[v] = lb[v]  BY <1>2 DEF DequeTypeOK
<1>13. OthersSame(w)  BY <1>2, <1>10, <1>12 DEF OthersSame, SameDeque, SameOp
<1> QED  BY <1>7, <1>10, <1>11, <1>13

\* What a pop relies on once its store of bottom_ is visible.
LEMMA PoppingFacts ==
    ASSUME NoWrap, DequeTypeOK, NEW w \in Worker, DequeOK(w), dpc[w] \in PopPC, sb[w] = <<>>
    PROVE  /\ own[w] = lb[w] /\ bottom[w] = lb[w] /\ lb[w] \in Ix /\ Val(lb[w]) \in Int
           /\ top[w] \in Small /\ top[w] \in Nat /\ top[w] <= MaxOps + 1
           /\ Limit(w) = Val(lb[w]) + 1 /\ top[w] <= Limit(w) /\ Limit(w) <= top[w] + Size
           /\ Diff(lb[w], top[w]) = Val(lb[w]) - top[w]
           /\ \A i : Settled(w, i)
           /\ \A i, t : Has(w, i, t) <=> i \in Int /\ top[w] <= i /\ i < Limit(w) /\ elems[w][Slot(i)] = t
           /\ \A i : OwnElem(w, i) = elems[w][Slot(i)]
<1>1. own[w] = lb[w] /\ bottom[w] = own[w]  BY DEF DequeOK, Popping, LastStore
<1>2. top[w] \in Small /\ top[w] \in Nat /\ own[w] \in Ix /\ Val(own[w]) \in Int  BY DequeFacts
<1>3. top[w] <= MaxOps + 1  BY <1>2, IxFacts DEF Small
<1>4. Limit(w) = Val(lb[w]) + 1  BY <1>1 DEF Limit
<1>5. top[w] <= Limit(w) /\ Limit(w) <= top[w] + Size  BY DEF DequeOK, Bounds
<1>6. Diff(lb[w], top[w]) = Val(lb[w]) - top[w]  BY <1>1, <1>2, DiffFacts
<1>7. DOMAIN sb[w] = {} /\ Len(sb[w]) = 0  OBVIOUS
<1>8. \A i : Settled(w, i)  BY <1>7 DEF Settled
<1>9. \A i, t : Has(w, i, t) <=> i \in Int /\ top[w] <= i /\ i < Limit(w) /\ elems[w][Slot(i)] = t
  BY <1>7, <1>8 DEF Has
<1>10. ASSUME NEW i PROVE OwnElem(w, i) = elems[w][Slot(i)]
  <2>1. 1 .. Len(sb[w]) = {}  BY <1>7
  <2> QED  BY <2>1 DEF OwnElem
<1> QED  BY <1>1, <1>2, <1>3, <1>4, <1>5, <1>6, <1>8, <1>9, <1>10

\* The pop of an empty deque leaves it empty.
LEMMA PopEmptyFacts ==
    ASSUME NoWrap, DequeTypeOK, NEW w \in Worker, DequeOK(w), PopLoad(w), PopEmpty(w)
    PROVE  /\ DequeOK(w)' /\ Keeps(w) /\ Limit(w)' = Limit(w) /\ Limit(w)' = top'[w]
           /\ \A i, t : Has(w, i, t)' <=> Has(w, i, t)
           /\ DequeTypeOK' /\ OthersSame(w) /\ dpc'[w] = "done" /\ res'[w] = Nil
<1> DEFINE m == Plus(lb[w], 1)
<1>1. dpc[w] = "pop" /\ sb[w] = <<>> /\ Diff(lb[w], top[w]) < 0 /\ StoreBottom(w, m)
      /\ dpc' = [dpc EXCEPT ![w] = "done"] /\ res' = [res EXCEPT ![w] = Nil]
      /\ top' = top /\ bottom' = bottom /\ elems' = elems /\ lb' = lb /\ lt' = lt
  BY DEF PopLoad, PopEmpty, PopFence, Drained, Restore, Return, Step
<1>2. dpc[w] \in PopPC  BY <1>1 DEF PopPC
<1>3. /\ own[w] = lb[w] /\ lb[w] \in Ix /\ Val(lb[w]) \in Int /\ top[w] \in Nat /\ top[w] <= MaxOps + 1
      /\ Limit(w) = Val(lb[w]) + 1 /\ top[w] <= Limit(w) /\ Diff(lb[w], top[w]) = Val(lb[w]) - top[w]
  BY <1>1, <1>2, PoppingFacts
<1>4. Limit(w) = top[w] /\ Val(lb[w]) <= MaxOps  BY <1>1, <1>3, IxFacts
<1>5. m \in Small /\ m \in Ix /\ Val(m) = Limit(w)  BY <1>3, <1>4, UpFacts, IxFacts
<1>6. dpc'[w] = "done" /\ res'[w] = Nil /\ own'[w] = m  BY <1>1 DEF DequeTypeOK, StoreBottom
<1>7. Limit(w)' = Limit(w)
  <2>1. Limit(w)' = Val(m)  BY <1>6 DEF Limit, PopPC
  <2> QED  BY <1>5, <2>1
<1>8. Popping(w)'  BY <1>6 DEF Popping, PopPC
<1>9. Val(m) <= Limit(w)  BY <1>3, <1>5
<1>10. /\ DequeOK(w)' /\ Keeps(w)
       /\ \A i, t : Has(w, i, t)' <=> Has(w, i, t)
       /\ own' \in [Worker -> Ix] /\ sb' \in [Worker -> Seq(Stores)]
       /\ \A v \in Worker \ {w} : own'[v] = own[v] /\ sb'[v] = sb[v]
  <2> HIDE DEF m
  <2> QED  BY <1>1, <1>5, <1>7, <1>8, <1>9, StoreBottomFacts
<1>11. DequeTypeOK'
  <2>1. dpc' \in [Worker -> DequePC] /\ res' \in [Worker -> Task \cup {Nil}]  BY <1>1 DEF DequeTypeOK, DequePC
  <2> QED  BY <1>1, <1>10, <2>1 DEF DequeTypeOK
<1>12. \A v \in Worker \ {w} : dpc'[v] = dpc[v] /\ res'[v] = res[v]  BY <1>1 DEF DequeTypeOK
<1>13. OthersSame(w)  BY <1>1, <1>10, <1>12 DEF OthersSame, SameDeque, SameOp
<1> QED  BY <1>1, <1>4, <1>6, <1>7, <1>10, <1>11, <1>13

\* A pop that is not the last one takes its element.
LEMMA PopInnerFacts ==
    ASSUME NoWrap, DequeTypeOK, NEW w \in Worker, DequeOK(w), PopLoad(w), PopInner(w)
    PROVE  \E x \in Task :
           /\ DequeOK(w)' /\ Keeps(w) /\ Limit(w)' <= Limit(w)
           /\ Has(w, lb[w], x) /\ \A i, t : Has(w, i, t)' <=> (Has(w, i, t) /\ i # lb[w])
           /\ DequeTypeOK' /\ OthersSame(w) /\ dpc'[w] = "done" /\ res'[w] = x
<1>1. dpc[w] = "pop" /\ sb[w] = <<>> /\ Diff(lb[w], top[w]) >= 0 /\ top[w] # lb[w]
      /\ dpc' = [dpc EXCEPT ![w] = "done"] /\ res' = [res EXCEPT ![w] = OwnElem(w, lb[w])]
      /\ top' = top /\ bottom' = bottom /\ elems' = elems /\ lb' = lb /\ lt' = lt /\ sb' = sb /\ own' = own
  BY DEF PopLoad, PopInner, PopFence, Drained, Return, Step, IsLastElem
<1>2. dpc[w] \in PopPC  BY <1>1 DEF PopPC
<1>3. /\ own[w] = lb[w] /\ bottom[w] = lb[w] /\ lb[w] \in Ix /\ Val(lb[w]) \in Int /\ top[w] \in Small /\ top[w] \in Nat
      /\ Limit(w) = Val(lb[w]) + 1 /\ top[w] <= Limit(w) /\ Limit(w) <= top[w] + Size
      /\ Diff(lb[w], top[w]) = Val(lb[w]) - top[w]
      /\ \A i : Settled(w, i)
      /\ \A i, t : Has(w, i, t) <=> i \in Int /\ top[w] <= i /\ i < Limit(w) /\ elems[w][Slot(i)] = t
      /\ OwnElem(w, lb[w]) = elems[w][Slot(lb[w])]
  BY <1>1, <1>2, PoppingFacts
<1>4. PICK n \in Small : n = lb[w]
  <2>1. Val(lb[w]) >= 0  BY <1>1, <1>3
  <2> QED  BY <1>3, <2>1, IxFacts
<1>5. n \in Nat /\ Val(n) = n /\ Limit(w) = n + 1 /\ top[w] < n
  <2>1. n \in Nat /\ Val(n) = n  BY IxFacts DEF Small, Val
  <2> QED  BY <1>1, <1>3, <1>4, <2>1
<1>6. PICK T \in Nat : T = top[w] /\ T < n  BY <1>3, <1>5
<1>7. PICK x \in Task : Has(w, n, x)
  <2>1. n \in Int /\ top[w] <= n /\ n < Limit(w)  BY <1>3, <1>5
  <2> QED  BY <2>1 DEF DequeOK, Filled
<1>8. x = elems[w][Slot(n)]  BY <1>3, <1>7
<1>9. dpc'[w] = "done" /\ res'[w] = x  BY <1>1, <1>3, <1>4, <1>8 DEF DequeTypeOK
<1>10. Limit(w)' = n /\ top'[w] = T /\ sb'[w] = <<>>
  BY <1>1, <1>3, <1>4, <1>5, <1>6, <1>9 DEF Limit, PopPC
<1>11. DOMAIN sb'[w] = {}  BY <1>10
<1>12. \A i : Settled(w, i)'  BY <1>11 DEF Settled
<1>13. \A i, t : Has(w, i, t)' <=> i \in Int /\ T <= i /\ i < n /\ elems[w][Slot(i)] = t
  BY <1>1, <1>10, <1>11, <1>12 DEF Has
<1>14. \A i, t : Has(w, i, t)' <=> (Has(w, i, t) /\ i # n)
  <2>1. \A i \in Int : i < n <=> (i < n + 1 /\ i # n)  BY <1>5
  <2> QED  BY <1>3, <1>5, <1>6, <1>13, <2>1
<1>15. Bounds(w)'
  <2>1. T <= n /\ n <= T + Size /\ Val(bottom'[w]) <= n
    <3>1. n + 1 <= T + Size  BY <1>3, <1>5, <1>6
    <3>2. Val(bottom'[w]) = n  BY <1>1, <1>3, <1>4, <1>5
    <3> QED  BY <1>5, <1>6, <3>1, <3>2, IxFacts
  <2> QED  BY <1>10, <1>11, <2>1 DEF Bounds
<1>16. LastStore(w)'  BY <1>1, <1>3, <1>10 DEF LastStore
<1>17. Order(w)'  BY <1>11 DEF Order
<1>18. Filled(w)'
  <2>1. ASSUME NEW i \in Int, T <= i, i < n PROVE \E t \in Task : Has(w, i, t)'
    <3>1. \E t \in Task : Has(w, i, t)  BY <1>5, <1>6, <2>1 DEF DequeOK, Filled
    <3> QED  BY <1>5, <1>14, <2>1, <3>1
  <2> QED  BY <1>10, <2>1 DEF Filled
<1>19. Popping(w)'  BY <1>9 DEF Popping, PopPC
<1>20. Keeps(w)
  <2>1. Settled(w, top[w])'  BY <1>11 DEF Settled
  <2> QED  BY <1>1, <1>6, <1>10, <2>1 DEF Keeps
<1>21. DequeTypeOK'
  <2>1. dpc' \in [Worker -> DequePC] /\ res' \in [Worker -> Task \cup {Nil}]
    BY <1>1, <1>3, <1>4, <1>8 DEF DequeTypeOK, DequePC
  <2> QED  BY <1>1, <2>1 DEF DequeTypeOK
<1>22. OthersSame(w)  BY <1>1 DEF OthersSame, SameDeque, SameOp, DequeTypeOK
<1>23. Limit(w)' <= Limit(w)  BY <1>5, <1>10
<1> QED  BY <1>4, <1>7, <1>9, <1>14, <1>15, <1>16, <1>17, <1>18, <1>19, <1>20, <1>21, <1>22, <1>23 DEF DequeOK

\* A pop of the last element reads it, and has to compete for it.
LEMMA PopLastFacts ==
    ASSUME NoWrap, DequeTypeOK, NEW w \in Worker, DequeOK(w), PopLoad(w), PopLast(w)
    PROVE  /\ DequeOK(w)' /\ Keeps(w) /\ Limit(w)' = Limit(w)
           /\ \A i, t : Has(w, i, t)' <=> Has(w, i, t)
           /\ DequeTypeOK' /\ OthersSame(w) /\ dpc'[w] = "pop_cas"
<1>1. dpc[w] = "pop" /\ sb[w] = <<>> /\ Diff(lb[w], top[w]) >= 0 /\ top[w] = lb[w]
      /\ dpc' = [dpc EXCEPT ![w] = "pop_cas"] /\ res' = [res EXCEPT ![w] = OwnElem(w, lb[w])]
      /\ lt' = [lt EXCEPT ![w] = top[w]]
      /\ top' = top /\ bottom' = bottom /\ elems' = elems /\ lb' = lb /\ sb' = sb /\ own' = own
  BY DEF PopLoad, PopLast, PopFence, Drained, Step, IsLastElem
<1>2. dpc[w] \in PopPC  BY <1>1 DEF PopPC
<1>3. /\ own[w] = lb[w] /\ bottom[w] = lb[w] /\ lb[w] \in Ix /\ Val(lb[w]) \in Int /\ top[w] \in Small /\ top[w] \in Nat
      /\ Limit(w) = Val(lb[w]) + 1
      /\ \A i, t : Has(w, i, t) <=> i \in Int /\ top[w] <= i /\ i < Limit(w) /\ elems[w][Slot(i)] = t
      /\ OwnElem(w, lb[w]) = elems[w][Slot(lb[w])]
  BY <1>1, <1>2, PoppingFacts
<1>4. PICK n \in Small : n = lb[w] /\ n = top[w]  BY <1>1, <1>3
<1>5. n \in Nat /\ Val(n) = n /\ Limit(w) = n + 1  BY <1>3, <1>4, IxFacts DEF Small, Val
<1>6. PICK x \in Task : Has(w, n, x)
  <2>1. n \in Int /\ top[w] <= n /\ n < Limit(w)  BY <1>4, <1>5
  <2> QED  BY <2>1 DEF DequeOK, Filled
<1>7. x = elems[w][Slot(n)]  BY <1>3, <1>6
<1>8. dpc'[w] = "pop_cas" /\ res'[w] = x /\ lt'[w] = n  BY <1>1, <1>3, <1>4, <1>7 DEF DequeTypeOK
<1>9. Limit(w)' = Limit(w)  BY <1>1, <1>8 DEF Limit, PopPC
<1>10. \A k : IsElem(w, k)' <=> IsElem(w, k)  BY <1>1 DEF IsElem
<1>11. \A i : Settled(w, i)' <=> Settled(w, i)  BY <1>1, <1>10 DEF Settled
<1>12. \A i, t : Has(w, i, t)' <=> Has(w, i, t)  BY <1>1, <1>9, <1>11 DEF Has
<1>13. Bounds(w)' /\ LastStore(w)' /\ Order(w)'  BY <1>1, <1>9, <1>10 DEF DequeOK, Bounds, LastStore, Order
<1>14. Filled(w)'  BY <1>1, <1>9, <1>12 DEF DequeOK, Filled
<1>15. Popping(w)'
  <2>1. Has(w, lt[w], res[w])'
    <3>1. Has(w, n, x)'  BY <1>6, <1>12
    <3> QED  BY <1>8, <3>1 DEF Has
  <2>2. lt'[w] <= top'[w] /\ lt'[w] = lb'[w] /\ lb'[w] = own'[w] /\ sb'[w] = <<>>  BY <1>1, <1>3, <1>4, <1>5, <1>8
  <2> QED  BY <2>1, <2>2 DEF Popping
<1>16. Keeps(w)
  <2>1. Settled(w, top[w])' <=> Settled(w, top[w])  BY <1>1, <1>10 DEF Settled
  <2> QED  BY <1>1, <1>3, <1>9, <2>1 DEF Keeps
<1>17. DequeTypeOK'
  <2>1. /\ dpc' \in [Worker -> DequePC] /\ res' \in [Worker -> Task \cup {Nil}] /\ lt' \in [Worker -> Small]
    BY <1>1, <1>3, <1>4, <1>7 DEF DequeTypeOK, DequePC
  <2> QED  BY <1>1, <2>1 DEF DequeTypeOK
<1>18. OthersSame(w)  BY <1>1 DEF OthersSame, SameDeque, SameOp, DequeTypeOK
<1> QED  BY <1>8, <1>9, <1>12, <1>13, <1>14, <1>15, <1>16, <1>17, <1>18 DEF DequeOK

\* A pop that competes for the last element and wins takes it.
LEMMA PopWonFacts ==
    ASSUME NoWrap, DequeTypeOK, NEW w \in Worker, DequeOK(w), PopCas(w), top[w] = lt[w], Limit(w) <= MaxOps + 1
    PROVE  \E x \in Task :
           /\ DequeOK(w)' /\ Keeps(w) /\ Limit(w)' <= Limit(w)
           /\ Has(w, lt[w], x) /\ \A i, t : Has(w, i, t)' <=> (Has(w, i, t) /\ i # lt[w])
           /\ DequeTypeOK' /\ OthersSame(w) /\ dpc'[w] = "done" /\ res'[w] = x
<1> DEFINE m == Plus(lb[w], 1)
<1>1. dpc[w] = "pop_cas" /\ sb[w] = <<>> /\ StoreBottom(w, m) /\ top' = [top EXCEPT ![w] = Plus(top[w], 1)]
      /\ dpc' = [dpc EXCEPT ![w] = "done"] /\ res' = [res EXCEPT ![w] = res[w]]
      /\ bottom' = bottom /\ elems' = elems /\ lb' = lb /\ lt' = lt
  BY DEF PopCas, CasTop, Drained, Restore, Return, Step
<1>2. dpc[w] \in PopPC  BY <1>1 DEF PopPC
<1>3. /\ own[w] = lb[w] /\ bottom[w] = lb[w] /\ lb[w] \in Ix /\ Val(lb[w]) \in Int /\ top[w] \in Small /\ top[w] \in Nat
      /\ Limit(w) = Val(lb[w]) + 1
      /\ \A i, t : Has(w, i, t) <=> i \in Int /\ top[w] <= i /\ i < Limit(w) /\ elems[w][Slot(i)] = t
  BY <1>1, <1>2, PoppingFacts
<1>4. PICK n \in Small : n = lb[w] /\ n = top[w] /\ n = lt[w]  BY <1>1, <1>3 DEF DequeOK, Popping
<1>5. n \in Nat /\ n \in Ix /\ Val(n) = n /\ Limit(w) = n + 1 /\ n <= MaxOps
  <2>1. n \in Nat /\ n \in Ix /\ Val(n) = n  BY IxFacts DEF Small, Val
  <2> QED  BY <1>3, <1>4, <2>1, IxFacts
<1>6. m \in Small /\ m \in Ix /\ Val(m) = n + 1 /\ m = n + 1
  <2>1. m \in Small /\ Val(m) = n + 1  BY <1>4, <1>5, UpFacts
  <2> QED  BY <2>1, IxFacts
<1>7. PICK x \in Task : Has(w, n, x) /\ x = res[w]
  <2>1. n \in Int /\ top[w] <= n /\ n < Limit(w)  BY <1>4, <1>5
  <2>2. PICK x \in Task : Has(w, n, x)  BY <2>1 DEF DequeOK, Filled
  <2>3. Has(w, lt[w], res[w])  BY <1>1 DEF DequeOK, Popping
  <2> QED  BY <1>3, <1>4, <2>2, <2>3
<1>8. dpc'[w] = "done" /\ res'[w] = x  BY <1>1, <1>7 DEF DequeTypeOK
<1>9. top'[w] = n + 1 /\ own'[w] = m  BY <1>1, <1>4, <1>6 DEF DequeTypeOK, StoreBottom
<1>10. Limit(w)' = n + 1  BY <1>6, <1>8, <1>9 DEF Limit, PopPC
<1>11. sb'[w] = <<SetBottom(m)>>
  <2>1. sb' = [sb EXCEPT ![w] = <<>> \o <<SetBottom(m)>>]  BY <1>1 DEF StoreBottom, Store
  <2>2. SetBottom(m) \in Stores  BY <1>6 DEF Stores
  <2>3. <<>> \o <<SetBottom(m)>> = <<SetBottom(m)>>
    <3> HIDE DEF m
    <3> QED  OBVIOUS
  <2> QED  BY <2>1, <2>3 DEF DequeTypeOK
<1>12. DOMAIN sb'[w] = {1} /\ Len(sb'[w]) = 1 /\ sb'[w][1] = SetBottom(m) /\ sb'[w] # <<>>  BY <1>11
<1>13. sb'[w][1].loc = "bottom" /\ sb'[w][1].at = m  BY <1>12 DEF SetBottom
<1>14. \A k \in DOMAIN sb'[w] : ~ IsElem(w, k)'  BY <1>12, <1>13 DEF IsElem
<1>15. \A i, t : ~ Has(w, i, t)'
  <2>1. \A i \in Int : ~ (n + 1 <= i /\ i < n + 1)  BY <1>5
  <2> QED  BY <1>9, <1>10, <2>1 DEF Has
<1>16. \A i, t : Has(w, i, t) => i = n
  <2>1. \A i \in Int : n <= i /\ i < n + 1 => i = n  BY <1>5
  <2> QED  BY <1>3, <1>4, <1>5, <2>1
<1>17. Bounds(w)'
  <2>1. n + 1 <= n + 1 + Size /\ Val(bottom'[w]) <= n + 1 /\ Val(m) <= n + 1
    BY <1>1, <1>3, <1>4, <1>5, <1>6, IxFacts
  <2> QED  BY <1>5, <1>9, <1>10, <1>12, <1>13, <2>1 DEF Bounds
<1>18. LastStore(w)'  BY <1>9, <1>12 DEF LastStore
<1>19. Order(w)'  BY <1>14 DEF Order
<1>20. Filled(w)'  BY <1>5, <1>9, <1>10 DEF Filled
<1>21. Popping(w)'  BY <1>8 DEF Popping, PopPC
<1>22. Keeps(w)  BY <1>4, <1>5, <1>9 DEF Keeps
<1>23. DequeTypeOK'
  <2>1. /\ dpc' \in [Worker -> DequePC] /\ res' \in [Worker -> Task \cup {Nil}] /\ top' \in [Worker -> Small]
    BY <1>1, <1>4, <1>6 DEF DequeTypeOK, DequePC
  <2>2. sb' \in [Worker -> Seq(Stores)] /\ own' \in [Worker -> Ix]
    <3>1. SetBottom(m) \in Stores  BY <1>6 DEF Stores
    <3>2. sb' = [sb EXCEPT ![w] = sb[w] \o <<SetBottom(m)>>] /\ own' = [own EXCEPT ![w] = m]
      BY <1>1 DEF StoreBottom, Store
    <3>3. sb[w] \o <<SetBottom(m)>> \in Seq(Stores)  BY <3>1, BufferFacts DEF DequeTypeOK
    <3> QED  BY <1>6, <3>2, <3>3 DEF DequeTypeOK
  <2> QED  BY <1>1, <2>1, <2>2 DEF DequeTypeOK
<1>24. OthersSame(w)  BY <1>1 DEF OthersSame, SameDeque, SameOp, DequeTypeOK, StoreBottom, Store
<1>25. Limit(w)' <= Limit(w)  BY <1>5, <1>10
<1>26. \A i, t : Has(w, i, t)' <=> (Has(w, i, t) /\ i # n)  BY <1>15, <1>16
<1>27. DequeOK(w)'  BY <1>17, <1>18, <1>19, <1>20, <1>21 DEF DequeOK
<1> QED  BY <1>4, <1>7, <1>8, <1>22, <1>23, <1>24, <1>25, <1>26, <1>27

\* A pop that loses the last element leaves the deque empty.
LEMMA PopLostFacts ==
    ASSUME NoWrap, DequeTypeOK, NEW w \in Worker, DequeOK(w), PopCas(w), top[w] # lt[w]
    PROVE  /\ DequeOK(w)' /\ Keeps(w) /\ Limit(w)' = Limit(w) /\ Limit(w)' = top'[w]
           /\ \A i, t : Has(w, i, t)' <=> Has(w, i, t)
           /\ DequeTypeOK' /\ OthersSame(w) /\ dpc'[w] = "done" /\ res'[w] = Nil
<1> DEFINE m == Plus(lb[w], 1)
<1>1. dpc[w] = "pop_cas" /\ sb[w] = <<>> /\ StoreBottom(w, m)
      /\ dpc' = [dpc EXCEPT ![w] = "done"] /\ res' = [res EXCEPT ![w] = Nil]
      /\ top' = top /\ bottom' = bottom /\ elems' = elems /\ lb' = lb /\ lt' = lt
  BY DEF PopCas, CasTop, Drained, Restore, Return, Step
<1>2. dpc[w] \in PopPC  BY <1>1 DEF PopPC
<1>3. /\ own[w] = lb[w] /\ lb[w] \in Ix /\ Val(lb[w]) \in Int /\ top[w] \in Nat /\ top[w] <= MaxOps + 1
      /\ Limit(w) = Val(lb[w]) + 1 /\ top[w] <= Limit(w)
  BY <1>1, <1>2, PoppingFacts
<1>4. Limit(w) = top[w] /\ Val(lb[w]) <= MaxOps
  <2>1. lt[w] = lb[w] /\ lt[w] <= top[w] /\ lt[w] \in Small /\ lt[w] \in Nat
    BY <1>1, DequeFacts DEF DequeOK, Popping, DequeTypeOK
  <2>2. Val(lb[w]) = lt[w]  BY <2>1 DEF Val
  <2> QED  BY <1>3, <2>1, <2>2, IxFacts
<1>5. m \in Small /\ m \in Ix /\ Val(m) = Limit(w)  BY <1>3, <1>4, UpFacts, IxFacts
<1>6. dpc'[w] = "done" /\ res'[w] = Nil /\ own'[w] = m  BY <1>1 DEF DequeTypeOK, StoreBottom
<1>7. Limit(w)' = Limit(w)
  <2>1. Limit(w)' = Val(m)  BY <1>6 DEF Limit, PopPC
  <2> QED  BY <1>5, <2>1
<1>8. Popping(w)'  BY <1>6 DEF Popping, PopPC
<1>9. Val(m) <= Limit(w)  BY <1>3, <1>5
<1>10. /\ DequeOK(w)' /\ Keeps(w)
       /\ \A i, t : Has(w, i, t)' <=> Has(w, i, t)
       /\ own' \in [Worker -> Ix] /\ sb' \in [Worker -> Seq(Stores)]
       /\ \A v \in Worker \ {w} : own'[v] = own[v] /\ sb'[v] = sb[v]
  <2> HIDE DEF m
  <2> QED  BY <1>1, <1>5, <1>7, <1>8, <1>9, StoreBottomFacts
<1>11. DequeTypeOK'
  <2>1. dpc' \in [Worker -> DequePC] /\ res' \in [Worker -> Task \cup {Nil}]  BY <1>1 DEF DequeTypeOK, DequePC
  <2> QED  BY <1>1, <1>10, <2>1 DEF DequeTypeOK
<1>12. \A v \in Worker \ {w} : dpc'[v] = dpc[v] /\ res'[v] = res[v]  BY <1>1 DEF DequeTypeOK
<1>13. OthersSame(w)  BY <1>1, <1>10, <1>12 DEF OthersSame, SameDeque, SameOp
<1> QED  BY <1>1, <1>4, <1>6, <1>7, <1>10, <1>11, <1>13

\* A store of bottom_ becomes visible, or that of an element.
LEMMA FlushFacts ==
    ASSUME NoWrap, DequeTypeOK, NEW w \in Worker, DequeOK(w), Flush(w)
    PROVE  /\ DequeOK(w)' /\ Keeps(w) /\ Limit(w)' = Limit(w)
           /\ \A i, t : Has(w, i, t)' <=> Has(w, i, t)
           /\ DequeTypeOK' /\ OthersSame(w) /\ SameOp(w) /\ top'[w] = top[w]
<1> DEFINE s == sb[w]
<1>00. PICK N \in Nat : N = Len(s)  BY DequeFacts
<1>01. PICK T \in Nat : T = top[w]  BY DequeFacts
<1>02. PICK L \in Int : L = Limit(w)  BY DequeFacts
<1>03. PICK h \in Stores : h = Head(s) /\ h = s[1]
  <2>1. s \in Seq(Stores) /\ s # <<>>  BY DequeFacts DEF Flush
  <2> QED  BY <2>1
<1>0. s \in Seq(Stores) /\ Len(s) = N /\ DOMAIN s = 1 .. N /\ N > 0 /\ s # <<>>
  <2>1. s \in Seq(Stores) /\ s # <<>>  BY DequeFacts DEF Flush
  <2> QED  BY <2>1, <1>00
<1>1. /\ Bounds(w) /\ LastStore(w) /\ Order(w) /\ Filled(w) /\ Popping(w)  BY DEF DequeOK
<1>2. /\ sb' = [sb EXCEPT ![w] = Tail(s)] /\ top' = top /\ own' = own
      /\ dpc' = dpc /\ lb' = lb /\ lt' = lt /\ res' = res
      /\ h.loc = "bottom" => bottom' = [bottom EXCEPT ![w] = h.at] /\ elems' = elems
      /\ h.loc # "bottom" => elems' = [elems EXCEPT ![w][Slot(h.at)] = h.val] /\ bottom' = bottom
  BY <1>03 DEF Flush, ops
<1>3. sb'[w] = Tail(s)  BY <1>2 DEF DequeTypeOK
<1>4. /\ sb'[w] \in Seq(Stores) /\ Len(sb'[w]) = N - 1 /\ DOMAIN sb'[w] = 1 .. (N - 1)
      /\ \A k \in 1 .. (N - 1) : sb'[w][k] = s[k + 1] /\ k + 1 \in 1 .. N
  BY <1>0, <1>3
<1>5. \A k \in 1 .. (N - 1) : IsElem(w, k)' <=> s[k + 1].loc = "elem"  BY <1>4 DEF IsElem
<1>6. Limit(w)' = L /\ top'[w] = T  BY <1>01, <1>02, <1>2 DEF Limit
<1>7. dpc[w] # "pop_cas"  BY <1>0, <1>1 DEF Popping
<1>8. Popping(w)'  BY <1>1, <1>2, <1>7 DEF Popping
<1>9. /\ T <= L /\ L <= T + Size /\ Val(bottom[w]) <= L
      /\ \A k \in 1 .. N : s[k].loc # "elem" => Val(s[k].at) <= L
      /\ \A k \in 1 .. N : s[k].loc = "elem" =>
            /\ T <= s[k].at /\ s[k].at < L /\ Val(bottom[w]) <= s[k].at
            /\ \A l \in 1 .. N : l < k =>
                 IF s[l].loc = "elem" THEN s[l].at < s[k].at ELSE Val(s[l].at) <= s[k].at
  BY <1>0, <1>01, <1>02, <1>1 DEF Bounds, Order, IsElem
<1>10. \/ h.loc = "elem" /\ h.at \in Small /\ h.at \in Nat /\ h.val \in Task /\ h = SetElem(h.at, h.val)
       \/ h.loc = "bottom" /\ h.at \in Ix /\ h = SetBottom(h.at)
  <2>1. \A i \in Small : i \in Nat  BY IxFacts DEF Small
  <2> QED  BY <1>03, <2>1, StoreFacts
<1>11. 1 \in 1 .. N  BY <1>0
<1>12. /\ bottom'[w] \in Ix /\ Val(bottom'[w]) <= L
       /\ h.loc = "bottom" => bottom'[w] = h.at
       /\ h.loc = "elem" => bottom'[w] = bottom[w]
  <2>1. CASE h.loc = "bottom"
    <3>1. bottom'[w] = h.at  BY <1>2, <2>1 DEF DequeTypeOK
    <3>2. Val(h.at) <= L  BY <1>9, <1>11, <1>03, <2>1
    <3> QED  BY <1>10, <2>1, <3>1, <3>2
  <2>2. CASE h.loc = "elem"  BY <1>2, <1>9, <2>2 DEF DequeTypeOK
  <2> QED  BY <1>10, <2>1, <2>2
<1>13. Bounds(w)'
  <2>1. ASSUME NEW k \in 1 .. (N - 1), ~ IsElem(w, k)' PROVE Val(sb'[w][k].at) <= L
    BY <1>4, <1>5, <1>9, <2>1
  <2> QED  BY <1>4, <1>6, <1>9, <1>12, <2>1 DEF Bounds
<1>14. LastStore(w)'
  <2>1. s[N] = SetBottom(own[w])  BY <1>0, <1>1 DEF LastStore
  <2>2. CASE N = 1
    <3>1. h = SetBottom(own[w])  BY <1>03, <2>1, <2>2
    <3>2. h.loc = "bottom" /\ h.at = own[w]  BY <3>1 DEF SetBottom
    <3>3. sb'[w] = <<>>  BY <1>4, <2>2
    <3> QED  BY <1>2, <1>12, <3>2, <3>3 DEF LastStore
  <2>3. CASE N > 1
    <3>1. sb'[w][N - 1] = s[N]
      <4>1. N - 1 \in 1 .. (N - 1) /\ (N - 1) + 1 = N  BY <2>3
      <4> HIDE DEF s
      <4> QED  BY <1>4, <4>1
    <3>2. sb'[w] # <<>>  BY <1>4, <2>3
    <3> QED  BY <1>2, <1>4, <2>1, <3>1, <3>2 DEF LastStore
  <2> QED  BY <1>0, <2>2, <2>3
<1>15. Order(w)'
  <2>1. ASSUME NEW k \in 1 .. (N - 1), IsElem(w, k)'
        PROVE  /\ T <= sb'[w][k].at /\ sb'[w][k].at < L /\ Val(bottom'[w]) <= sb'[w][k].at
               /\ \A l \in 1 .. (N - 1) : l < k =>
                    IF IsElem(w, l)' THEN sb'[w][l].at < sb'[w][k].at ELSE Val(sb'[w][l].at) <= sb'[w][k].at
    <3>1. s[k + 1].loc = "elem" /\ sb'[w][k] = s[k + 1] /\ k + 1 \in 1 .. N  BY <1>4, <1>5, <2>1
    <3>2. T <= s[k + 1].at /\ s[k + 1].at < L  BY <1>9, <3>1
    <3>3. Val(bottom'[w]) <= s[k + 1].at
      <4>1. CASE h.loc = "bottom"
        <5>1. 1 < k + 1 /\ s[1].loc # "elem"  BY <1>03, <4>1
        <5>2. Val(s[1].at) <= s[k + 1].at  BY <1>9, <1>11, <3>1, <5>1
        <5> QED  BY <1>03, <1>12, <4>1, <5>2
      <4>2. CASE h.loc = "elem"  BY <1>9, <1>12, <3>1, <4>2
      <4> QED  BY <1>10, <4>1, <4>2
    <3>4. ASSUME NEW l \in 1 .. (N - 1), l < k
          PROVE  IF s[l + 1].loc = "elem" THEN s[l + 1].at < s[k + 1].at ELSE Val(s[l + 1].at) <= s[k + 1].at
      <4>1. l + 1 < k + 1 /\ l + 1 \in 1 .. N  BY <3>4
      <4> HIDE DEF s
      <4> QED  BY <1>9, <3>1, <4>1
    <3> HIDE DEF s
    <3> QED  BY <1>4, <1>5, <3>1, <3>2, <3>3, <3>4
  <2> QED  BY <1>4, <1>6, <2>1 DEF Order
<1>16. \A k \in 1 .. N : k = 1 \/ (k - 1 \in 1 .. (N - 1) /\ (k - 1) + 1 = k)  BY <1>0
<1>17. \A i : Settled(w, i) <=> (Settled(w, i)' /\ (h.loc = "elem" => h.at # i))
  <2>1. ASSUME NEW i PROVE Settled(w, i) <=> (Settled(w, i)' /\ (h.loc = "elem" => h.at # i))
    <3>1. Settled(w, i)' <=> \A k \in 1 .. (N - 1) : s[k + 1].loc = "elem" => s[k + 1].at # i
      BY <1>4, <1>5 DEF Settled
    <3>2. Settled(w, i) <=> \A k \in 1 .. N : s[k].loc = "elem" => s[k].at # i  BY <1>0 DEF Settled, IsElem
    <3> HIDE DEF s
    <3>3. ASSUME NEW k \in 1 .. N, \A j \in 1 .. (N - 1) : s[j + 1].loc = "elem" => s[j + 1].at # i,
                 h.loc = "elem" => h.at # i
          PROVE  s[k].loc = "elem" => s[k].at # i
      BY <1>03, <1>16, <3>3
    <3>4. ASSUME NEW j \in 1 .. (N - 1), \A k \in 1 .. N : s[k].loc = "elem" => s[k].at # i
          PROVE  s[j + 1].loc = "elem" => s[j + 1].at # i
      BY <1>4, <3>4
    <3> QED  BY <1>03, <1>11, <3>1, <3>2, <3>3, <3>4
  <2> QED  BY <2>1
<1>18. \A i, t : (\E k \in DOMAIN s : s[k] = SetElem(i, t))
            <=> ((\E k \in DOMAIN sb'[w] : sb'[w][k] = SetElem(i, t)) \/ h = SetElem(i, t))
  <2>1. ASSUME NEW i, NEW t, NEW k \in 1 .. N, s[k] = SetElem(i, t), h # SetElem(i, t)
        PROVE  \E j \in DOMAIN sb'[w] : sb'[w][j] = SetElem(i, t)
    <3> HIDE DEF s
    <3>1. k # 1  BY <1>03, <2>1
    <3>2. k - 1 \in 1 .. (N - 1) /\ (k - 1) + 1 = k  BY <1>16, <3>1
    <3>3. sb'[w][k - 1] = s[k]  BY <1>4, <3>2
    <3> QED  BY <1>4, <2>1, <3>2, <3>3
  <2> HIDE DEF s
  <2> QED  BY <1>0, <1>03, <1>4, <1>11, <2>1
<1>19. \A i : i \in Int /\ T <= i /\ i < L /\ (h.loc = "elem" => h.at # i) => elems'[w][Slot(i)] = elems[w][Slot(i)]
  <2>1. CASE h.loc = "bottom"  BY <1>2, <2>1
  <2>2. ASSUME h.loc = "elem", NEW i \in Int, T <= i, i < L, h.at # i PROVE elems'[w][Slot(i)] = elems[w][Slot(i)]
    <3>1. h.at \in Nat /\ T <= h.at /\ h.at < L  BY <1>03, <1>9, <1>10, <1>11, <2>2
    <3>2. i \in Nat  BY <2>2
    <3>3. Slot(i) # Slot(h.at)
      <4>1. (i < h.at /\ h.at < i + Size) \/ (h.at < i /\ i < h.at + Size)  BY <1>9, <2>2, <3>1, <3>2, IxFacts
      <4> QED  BY <3>1, <3>2, <4>1, SlotFacts
    <3>4. Slot(i) \in 0 .. (Size - 1)  BY <3>2, SlotFacts
    <3>5. elems'[w] = [elems[w] EXCEPT ![Slot(h.at)] = h.val]  BY <1>2, <2>2 DEF DequeTypeOK
    <3>6. DOMAIN elems[w] = 0 .. (Size - 1)  BY DEF DequeTypeOK
    <3> QED  BY <3>3, <3>4, <3>5, <3>6
  <2> QED  BY <1>10, <2>1, <2>2
<1>20. \A i, t : Has(w, i, t)' <=> Has(w, i, t)
  <2>1. ASSUME NEW i, NEW t PROVE Has(w, i, t)' <=> Has(w, i, t)
    <3>1. Has(w, i, t)' <=> /\ i \in Int /\ T <= i /\ i < L
                            /\ \/ \E k \in DOMAIN sb'[w] : sb'[w][k] = SetElem(i, t)
                               \/ Settled(w, i)' /\ elems'[w][Slot(i)] = t
      BY <1>6 DEF Has
    <3>2. Has(w, i, t) <=> /\ i \in Int /\ T <= i /\ i < L
                           /\ \/ \E k \in DOMAIN s : s[k] = SetElem(i, t)
                              \/ Settled(w, i) /\ elems[w][Slot(i)] = t
      BY <1>01, <1>02 DEF Has
    <3>3. CASE h.loc = "elem" /\ h.at = i
      <4>1. Settled(w, i)'
        <5>1. \A k \in 1 .. (N - 1) : s[k + 1].loc = "elem" => s[k + 1].at # i
          <6>1. ASSUME NEW k \in 1 .. (N - 1), s[k + 1].loc = "elem", s[k + 1].at = i PROVE FALSE
            <7>1. 1 < k + 1 /\ k + 1 \in 1 .. N  OBVIOUS
            <7>2. s[1].at < s[k + 1].at  BY <1>03, <1>9, <1>11, <3>3, <6>1, <7>1
            <7> QED  BY <1>03, <1>10, <3>3, <6>1, <7>2
          <6> QED  BY <6>1
        <5> QED  BY <1>4, <1>5, <5>1 DEF Settled
      <4>2. \A k \in DOMAIN sb'[w] : sb'[w][k] # SetElem(i, t)
        <5>1. ASSUME NEW k \in DOMAIN sb'[w], sb'[w][k] = SetElem(i, t) PROVE FALSE
          <6>1. IsElem(w, k)' /\ sb'[w][k].at = i  BY <5>1 DEF IsElem, SetElem
          <6> QED  BY <4>1, <5>1, <6>1 DEF Settled
        <5> QED  BY <5>1
      <4>3. i \in Int => elems'[w][Slot(i)] = h.val
        <5>1. Slot(h.at) \in 0 .. (Size - 1)  BY <1>10, <3>3, SlotFacts
        <5>2. elems'[w] = [elems[w] EXCEPT ![Slot(h.at)] = h.val]  BY <1>2, <3>3 DEF DequeTypeOK
        <5>3. DOMAIN elems[w] = 0 .. (Size - 1)  BY DEF DequeTypeOK
        <5> QED  BY <3>3, <5>1, <5>2, <5>3
      <4>4. ~ Settled(w, i)  BY <1>17, <3>3
      <4>5. h = SetElem(i, t) <=> h.val = t  BY <1>10, <3>3 DEF SetElem
      <4> HIDE DEF s
      <4> QED  BY <1>18, <3>1, <3>2, <4>1, <4>2, <4>3, <4>4, <4>5
    <3>4. CASE ~ (h.loc = "elem" /\ h.at = i)
      <4>1. h # SetElem(i, t)  BY <3>4 DEF SetElem
      <4>2. Settled(w, i) <=> Settled(w, i)'  BY <1>17, <3>4
      <4>3. i \in Int /\ T <= i /\ i < L => elems'[w][Slot(i)] = elems[w][Slot(i)]  BY <1>19, <3>4
      <4> HIDE DEF s
      <4> QED  BY <1>18, <3>1, <3>2, <4>1, <4>2, <4>3
    <3> QED  BY <3>3, <3>4
  <2> QED  BY <2>1
<1>21. Filled(w)'  BY <1>01, <1>02, <1>1, <1>6, <1>20 DEF Filled
<1>22. Keeps(w)
  <2>1. T < L /\ Settled(w, T) => Settled(w, T)' /\ elems'[w][Slot(T)] = elems[w][Slot(T)]
    BY <1>17, <1>19
  <2>2. (Settled(w, top[w])' <=> Settled(w, T)') /\ (Settled(w, top[w]) <=> Settled(w, T))
    BY <1>01, <1>6 DEF Settled
  <2> QED  BY <1>01, <1>02, <1>6, <2>1, <2>2 DEF Keeps
<1>23. DequeTypeOK'
  <2>1. sb' \in [Worker -> Seq(Stores)] /\ bottom' \in [Worker -> Ix]
    <3>1. Tail(s) \in Seq(Stores)  BY <1>3, <1>4
    <3>2. bottom' \in [Worker -> Ix]  BY <1>2, <1>10 DEF DequeTypeOK
    <3> QED  BY <1>2, <3>1, <3>2 DEF DequeTypeOK
  <2>2. elems' \in [Worker -> [0 .. (Size - 1) -> Task \cup {Nil}]]
    <3>1. CASE h.loc = "bottom"  BY <1>2, <3>1 DEF DequeTypeOK
    <3>2. CASE h.loc = "elem"
      <4>1. elems' = [elems EXCEPT ![w] = [elems[w] EXCEPT ![Slot(h.at)] = h.val]]  BY <1>2, <3>2
      <4>2. elems[w] \in [0 .. (Size - 1) -> Task \cup {Nil}]  BY DEF DequeTypeOK
      <4>3. [elems[w] EXCEPT ![Slot(h.at)] = h.val] \in [0 .. (Size - 1) -> Task \cup {Nil}]
        BY <1>10, <3>2, <4>2
      <4> QED  BY <4>1, <4>3 DEF DequeTypeOK
    <3> QED  BY <1>10, <3>1, <3>2
  <2> QED  BY <1>2, <2>1, <2>2 DEF DequeTypeOK
<1>24. OthersSame(w)
  <2>1. CASE h.loc = "bottom"  BY <1>2, <2>1 DEF OthersSame, SameDeque, SameOp, DequeTypeOK
  <2>2. CASE h.loc = "elem"  BY <1>2, <2>2 DEF OthersSame, SameDeque, SameOp, DequeTypeOK
  <2> QED  BY <1>10, <2>1, <2>2
<1>25. SameOp(w)  BY <1>2 DEF SameOp
<1> QED  BY <1>01, <1>02, <1>6, <1>8, <1>13, <1>14, <1>15, <1>20, <1>21, <1>22, <1>23, <1>24, <1>25 DEF DequeOK

----------------------------------------------------------------------------
(* All the deques *)

\* A thief in the middle of a steal can go on as before.
LEMMA StealKept ==
    ASSUME NoWrap, DequeTypeOK, NEW u \in Worker, Stealing(u), SameOp(u), arg'[u] = arg[u],
           \A v \in Worker : Keeps(v) /\ top'[v] \in Nat
    PROVE  Stealing(u)'
<1>1. CASE dpc[u] \notin StealPC  BY <1>1 DEF Stealing, SameOp, StealPC
<1>2. CASE dpc[u] \in StealPC
  <2>1. PICK v \in Worker : v = arg[u] /\ v # u  BY <1>2 DEF Stealing
  <2>2. PICK n \in Nat : n = lt[u] /\ n <= top[v]  BY <1>2, <2>1, DequeFacts DEF Stealing
  <2>3. PICK T \in Nat : T = top[v]  BY DequeFacts
  <2>4. arg'[u] = v /\ lt'[u] = n /\ dpc'[u] = dpc[u] /\ res'[u] = res[u]  BY <2>1, <2>2 DEF SameOp
  <2>5. top'[v] >= T /\ top'[v] \in Nat  BY <2>3 DEF Keeps
  <2>6. n <= top'[v]  BY <2>2, <2>3, <2>5
  <2>7. ASSUME dpc[u] \in {"steal_load", "steal_cas"}, n = top'[v]
        PROVE  /\ n < Limit(v)' /\ Settled(v, n)'
               /\ dpc[u] = "steal_cas" => elems'[v][Slot(n)] = res[u]
    <3>1. n = T  BY <2>2, <2>3, <2>5, <2>7
    <3>2. n < Limit(v) /\ Settled(v, n)
      <4>1. lt[u] = top[arg[u]]  BY <2>1, <2>2, <2>3, <3>1
      <4>2. lt[u] < Limit(arg[u]) /\ Settled(arg[u], lt[u])  BY <2>7, <4>1 DEF Stealing
      <4> QED  BY <2>1, <2>2, <4>2
    <3>3. dpc[u] = "steal_cas" => elems[v][Slot(n)] = res[u]
      <4>1. lt[u] = top[arg[u]]  BY <2>1, <2>2, <2>3, <3>1
      <4> QED  BY <2>1, <2>2, <4>1 DEF Stealing
    <3>4. top[v] < Limit(v)' /\ Settled(v, top[v])' /\ elems'[v][Slot(top[v])] = elems[v][Slot(top[v])]
      BY <2>3, <2>7, <3>1, <3>2 DEF Keeps
    <3>5. Settled(v, top[v])' <=> Settled(v, n)'  BY <2>7 DEF Settled
    <3> QED  BY <2>3, <3>1, <3>3, <3>4, <3>5
  <2>8. Settled(arg[u], lt[u])' <=> Settled(v, n)'  BY <2>4 DEF Settled, IsElem
  <2>9. Limit(arg[u])' = Limit(v)'  BY <2>4 DEF Limit
  <2>10. arg'[u] \in Worker \ {u} /\ lt'[u] <= top'[arg'[u]]  BY <2>1, <2>4, <2>6
  <2>11. dpc'[u] \in {"steal_load", "steal_cas"} /\ lt'[u] = top'[arg'[u]]
           => /\ lt'[u] < Limit(arg[u])' /\ Settled(arg[u], lt[u])'
              /\ dpc'[u] = "steal_cas" => elems'[arg'[u]][Slot(lt'[u])] = res'[u]
    BY <2>4, <2>7, <2>8, <2>9
  <2> QED  BY <2>10, <2>11 DEF Stealing
<1> QED  BY <1>1, <1>2

\* What a step may do to the deques: nothing; take an element from one of them,
\* for worker w; add one.
Calm == \A v \in Worker :
    Keeps(v) /\ Limit(v)' = Limit(v) /\ \A i, t : Has(v, i, t)' <=> Has(v, i, t)

Takes(w, v, n, x) ==
    /\ x \in Task /\ v \in Worker /\ Has(v, n, x) /\ dpc[w] # "done" /\ dpc'[w] = "done" /\ res'[w] = x
    /\ \A u \in Worker :
        /\ Keeps(u) /\ Limit(u)' <= Limit(u)
        /\ \A i, t : Has(u, i, t)' <=> (Has(u, i, t) /\ ~ (u = v /\ i = n))

Adds(w, n, x) ==
    /\ n = Limit(w) /\ Limit(w)' = n + 1
    /\ \A u \in Worker : Keeps(u) /\ (u # w => Limit(u)' = Limit(u))
    /\ \A u \in Worker : \A i, t : Has(u, i, t)' <=> (Has(u, i, t) \/ (u = w /\ i = n /\ t = x))

OthersOp(w) == \A v \in Worker \ {w} : SameOp(v)
OthersArg(w) == \A v \in Worker \ {w} : arg'[v] = arg[v]

\* A step of one worker on its own deque.
LEMMA OwnStep ==
    ASSUME NoWrap, DequeInv, NEW w \in Worker, OthersSame(w), OthersArg(w),
           DequeTypeOK', DequeOK(w)', Keeps(w), dpc'[w] \in StealPC => SameOp(w) /\ arg'[w] = arg[w]
    PROVE  /\ DequeInv' /\ OthersOp(w)
           /\ \A v \in Worker : Keeps(v)
           /\ \A v \in Worker \ {w} : Limit(v)' = Limit(v) /\ \A i, t : Has(v, i, t)' <=> Has(v, i, t)
<1>1. DequeTypeOK /\ \A v \in Worker : DequeOK(v) /\ Stealing(v)  BY DEF DequeInv
<1>2. ASSUME NEW v \in Worker \ {w}
      PROVE  DequeOK(v)' /\ Keeps(v) /\ Limit(v)' = Limit(v) /\ \A i, t : Has(v, i, t)' <=> Has(v, i, t)
  <2>1. SameDeque(v) /\ SameOp(v)  BY <1>2 DEF OthersSame
  <2> QED  BY <1>1, <2>1, Frame
<1>3. \A v \in Worker : Keeps(v)  BY <1>2
<1>4. \A v \in Worker : top'[v] \in Nat
  <2>1. \A i \in Small : i \in Nat  BY IxFacts DEF Small
  <2> QED  BY <2>1 DEF DequeTypeOK
<1>5. \A v \in Worker \ {w} : Stealing(v)'  BY <1>1, <1>3, <1>4, StealKept DEF OthersSame, OthersArg
<1>6. Stealing(w)'
  <2>1. CASE dpc'[w] \in StealPC  BY <1>1, <1>3, <1>4, <2>1, StealKept
  <2>2. CASE dpc'[w] \notin StealPC  BY <2>2 DEF Stealing, StealPC
  <2> QED  BY <2>1, <2>2
<1>7. DequeInv'  BY <1>2, <1>5, <1>6 DEF DequeInv
<1>8. OthersOp(w)  BY DEF OthersOp, OthersSame
<1> QED  BY <1>2, <1>3, <1>7, <1>8

\* A step that is not about deques.
LEMMA StillStep ==
    ASSUME NoWrap, DequeInv, UNCHANGED dequeVars, \A v \in Worker : dpc[v] \in StealPC => arg'[v] = arg[v]
    PROVE  DequeInv' /\ Calm /\ \A v \in Worker : SameOp(v)
<1>1. DequeTypeOK /\ \A v \in Worker : DequeOK(v) /\ Stealing(v)  BY DEF DequeInv
<1>2. \A v \in Worker : SameDeque(v) /\ SameOp(v)  BY DEF SameDeque, SameOp, dequeVars, ops
<1>3. \A v \in Worker :
        DequeOK(v)' /\ Keeps(v) /\ Limit(v)' = Limit(v) /\ \A i, t : Has(v, i, t)' <=> Has(v, i, t)
  BY <1>1, <1>2, Frame
<1>4. DequeTypeOK'  BY <1>1 DEF DequeTypeOK, dequeVars, ops
<1>5. \A v \in Worker : top'[v] \in Nat  BY <1>1, DequeFacts DEF dequeVars
<1>6. ASSUME NEW v \in Worker PROVE Stealing(v)'
  <2>1. CASE dpc[v] \in StealPC  BY <1>1, <1>2, <1>3, <1>5, <2>1, StealKept
  <2>2. CASE dpc[v] \notin StealPC  BY <1>2, <2>2 DEF Stealing, StealPC, SameOp
  <2> QED  BY <2>1, <2>2
<1> QED  BY <1>2, <1>3, <1>4, <1>6 DEF DequeInv, Calm

\* A worker begins a pop.
LEMMA PopStartStep ==
    ASSUME NoWrap, DequeInv, NEW w \in Worker, PopStart(w), OthersArg(w)
    PROVE  DequeInv' /\ Calm /\ OthersOp(w) /\ dpc[w] = "idle" /\ dpc'[w] = "pop"
<1>1. DequeTypeOK /\ DequeOK(w)  BY DEF DequeInv
<1>2. /\ DequeOK(w)' /\ Keeps(w) /\ Limit(w)' = Limit(w) /\ \A i, t : Has(w, i, t)' <=> Has(w, i, t)
      /\ DequeTypeOK' /\ OthersSame(w)
  BY <1>1, PopStartFacts
<1>3. dpc[w] = "idle" /\ dpc'[w] = "pop"  BY <1>1 DEF PopStart, Step, DequeTypeOK
<1>4. dpc'[w] \notin StealPC  BY <1>3 DEF StealPC
<1>5. /\ DequeInv' /\ OthersOp(w) /\ \A v \in Worker : Keeps(v)
      /\ \A v \in Worker \ {w} : Limit(v)' = Limit(v) /\ \A i, t : Has(v, i, t)' <=> Has(v, i, t)
  BY <1>2, <1>4, OwnStep
<1> QED  BY <1>2, <1>3, <1>5 DEF Calm

\* The caller takes the result of a pop or of a steal.
LEMMA TakenStep ==
    ASSUME NoWrap, DequeInv, NEW w \in Worker, dpc[w] = "done", Taken(w), OthersArg(w),
           top' = top, bottom' = bottom, elems' = elems, sb' = sb, own' = own
    PROVE  DequeInv' /\ Calm /\ OthersOp(w) /\ dpc'[w] = "idle"
<1>1. DequeTypeOK /\ DequeOK(w)  BY DEF DequeInv
<1>2. dpc'[w] = "idle" /\ dpc[w] \notin PopPC /\ dpc'[w] \notin PopPC  BY <1>1 DEF Taken, DequeTypeOK, PopPC
<1>3. \A v \in Worker : SameDeque(v)  BY DEF SameDeque
<1>4. DequeOK(w)' /\ Keeps(w) /\ Limit(w)' = Limit(w) /\ \A i, t : Has(w, i, t)' <=> Has(w, i, t)
  BY <1>1, <1>2, <1>3, FrameIdle
<1>5. DequeTypeOK'
  <2>1. 0 \in Small /\ 0 \in Ix  BY IxFacts DEF Small
  <2> QED  BY <1>1, <2>1 DEF DequeTypeOK, Taken, DequePC
<1>6. OthersSame(w)  BY <1>1, <1>3 DEF OthersSame, SameOp, Taken, DequeTypeOK
<1>7. dpc'[w] \notin StealPC  BY <1>2 DEF StealPC
<1>8. /\ DequeInv' /\ OthersOp(w) /\ \A v \in Worker : Keeps(v)
      /\ \A v \in Worker \ {w} : Limit(v)' = Limit(v) /\ \A i, t : Has(v, i, t)' <=> Has(v, i, t)
  BY <1>4, <1>5, <1>6, <1>7, OwnStep
<1> QED  BY <1>2, <1>4, <1>8 DEF Calm

\* A push, by a worker whose pop, if there was one, has been taken.
LEMMA PushStep ==
    ASSUME NoWrap, DequeInv, NEW w \in Worker, NEW x \in Task, Push(w, x), Limit(w) <= MaxOps, OthersArg(w),
           dpc[w] \in {"idle", "done"}, UNCHANGED ops \/ Taken(w)
    PROVE  DequeInv' /\ Adds(w, Limit(w), x) /\ OthersOp(w) /\ dpc'[w] \in {dpc[w], "idle"}
           /\ (UNCHANGED ops \/ dpc'[w] = "idle")
<1>1. DequeTypeOK /\ DequeOK(w)  BY DEF DequeInv
<1>2. /\ dpc'[w] \in {dpc[w], "idle"} /\ dpc[w] \notin PopPC /\ dpc'[w] \notin PopPC /\ dpc'[w] \notin StealPC
      /\ (UNCHANGED ops \/ dpc'[w] = "idle")
  BY <1>1 DEF Taken, DequeTypeOK, PopPC, StealPC, ops
<1>3. /\ DequeOK(w)' /\ Keeps(w) /\ Limit(w)' = Limit(w) + 1
      /\ \A i, t : Has(w, i, t)' <=> (Has(w, i, t) \/ (i = Limit(w) /\ t = x))
      /\ top' = top /\ bottom' = bottom /\ elems' = elems
      /\ own' \in [Worker -> Ix] /\ sb' \in [Worker -> Seq(Stores)]
      /\ \A v \in Worker \ {w} : own'[v] = own[v] /\ sb'[v] = sb[v]
  BY <1>1, <1>2, PushFacts
<1>4. /\ dpc' \in [Worker -> DequePC] /\ lb' \in [Worker -> Ix] /\ lt' \in [Worker -> Small]
      /\ res' \in [Worker -> Task \cup {Nil}]
      /\ OthersOp(w)
  <2>1. 0 \in Small /\ 0 \in Ix  BY IxFacts DEF Small
  <2>2. CASE UNCHANGED ops  BY <1>1, <2>2 DEF DequeTypeOK, ops, OthersOp, SameOp
  <2>3. CASE Taken(w)  BY <1>1, <2>1, <2>3 DEF DequeTypeOK, Taken, DequePC, OthersOp, SameOp
  <2> QED  BY <2>2, <2>3
<1>5. DequeTypeOK'  BY <1>1, <1>3, <1>4 DEF DequeTypeOK
<1>6. OthersSame(w)  BY <1>3, <1>4 DEF OthersSame, OthersOp, SameDeque
<1>7. /\ DequeInv' /\ OthersOp(w) /\ \A v \in Worker : Keeps(v)
      /\ \A v \in Worker \ {w} : Limit(v)' = Limit(v) /\ \A i, t : Has(v, i, t)' <=> Has(v, i, t)
  BY <1>2, <1>3, <1>5, <1>6, OwnStep
<1>8. Adds(w, Limit(w), x)  BY <1>3, <1>7 DEF Adds
<1> QED  BY <1>2, <1>7, <1>8

\* A store becomes visible.
LEMMA FlushQuiet ==
    ASSUME NoWrap, DequeInv, NEW w \in Worker, Flush(w), arg' = arg
    PROVE  DequeInv' /\ Calm /\ \A v \in Worker : SameOp(v)
<1>1. DequeTypeOK /\ DequeOK(w)  BY DEF DequeInv
<1>2. /\ DequeOK(w)' /\ Keeps(w) /\ Limit(w)' = Limit(w) /\ \A i, t : Has(w, i, t)' <=> Has(w, i, t)
      /\ DequeTypeOK' /\ OthersSame(w) /\ SameOp(w)
  BY <1>1, FlushFacts
<1>3. OthersArg(w)  BY DEF OthersArg
<1>4. /\ DequeInv' /\ OthersOp(w) /\ \A v \in Worker : Keeps(v)
      /\ \A v \in Worker \ {w} : Limit(v)' = Limit(v) /\ \A i, t : Has(v, i, t)' <=> Has(v, i, t)
  BY <1>2, <1>3, OwnStep
<1> QED  BY <1>2, <1>4 DEF Calm, OthersOp

\* A step of a pop finds the deque empty, takes an element, or goes on.
LEMMA PopSteps ==
    ASSUME NoWrap, DequeInv, NEW w \in Worker, Pop(w), arg' = arg, Limit(w) <= MaxOps + 1
    PROVE  /\ DequeInv' /\ OthersOp(w) /\ dpc[w] \in PopPC /\ dpc'[w] \in {"pop_cas", "done"}
           /\ \/ Calm /\ dpc'[w] = "pop_cas"
              \/ Calm /\ dpc'[w] = "done" /\ res'[w] = Nil /\ Limit(w)' = top'[w]
              \/ \E n, x : Takes(w, w, n, x)
<1>1. DequeTypeOK /\ DequeOK(w)  BY DEF DequeInv
<1>2. OthersArg(w)  BY DEF OthersArg
<1>3. dpc[w] \in PopPC /\ dpc[w] # "done"  BY DEF Pop, PopLoad, PopCas, PopPC
<1>4. CASE PopLoad(w) /\ PopEmpty(w)
  <2>1. /\ DequeOK(w)' /\ Keeps(w) /\ Limit(w)' = Limit(w) /\ Limit(w)' = top'[w]
        /\ \A i, t : Has(w, i, t)' <=> Has(w, i, t)
        /\ DequeTypeOK' /\ OthersSame(w) /\ dpc'[w] = "done" /\ res'[w] = Nil
    BY <1>1, <1>4, PopEmptyFacts
  <2>2. /\ DequeInv' /\ OthersOp(w) /\ \A v \in Worker : Keeps(v)
        /\ \A v \in Worker \ {w} : Limit(v)' = Limit(v) /\ \A i, t : Has(v, i, t)' <=> Has(v, i, t)
    BY <1>2, <2>1, OwnStep DEF StealPC
  <2>3. Calm  BY <2>1, <2>2 DEF Calm
  <2> QED  BY <1>3, <2>1, <2>2, <2>3
<1>5. CASE PopLoad(w) /\ PopLast(w)
  <2>1. /\ DequeOK(w)' /\ Keeps(w) /\ Limit(w)' = Limit(w) /\ \A i, t : Has(w, i, t)' <=> Has(w, i, t)
        /\ DequeTypeOK' /\ OthersSame(w) /\ dpc'[w] = "pop_cas"
    BY <1>1, <1>5, PopLastFacts
  <2>2. /\ DequeInv' /\ OthersOp(w) /\ \A v \in Worker : Keeps(v)
        /\ \A v \in Worker \ {w} : Limit(v)' = Limit(v) /\ \A i, t : Has(v, i, t)' <=> Has(v, i, t)
    BY <1>2, <2>1, OwnStep DEF StealPC
  <2>3. Calm  BY <2>1, <2>2 DEF Calm
  <2> QED  BY <1>3, <2>1, <2>2, <2>3
<1>6. CASE PopCas(w) /\ top[w] # lt[w]
  <2>1. /\ DequeOK(w)' /\ Keeps(w) /\ Limit(w)' = Limit(w) /\ Limit(w)' = top'[w]
        /\ \A i, t : Has(w, i, t)' <=> Has(w, i, t)
        /\ DequeTypeOK' /\ OthersSame(w) /\ dpc'[w] = "done" /\ res'[w] = Nil
    BY <1>1, <1>6, PopLostFacts
  <2>2. /\ DequeInv' /\ OthersOp(w) /\ \A v \in Worker : Keeps(v)
        /\ \A v \in Worker \ {w} : Limit(v)' = Limit(v) /\ \A i, t : Has(v, i, t)' <=> Has(v, i, t)
    BY <1>2, <2>1, OwnStep DEF StealPC
  <2>3. Calm  BY <2>1, <2>2 DEF Calm
  <2> QED  BY <1>3, <2>1, <2>2, <2>3
<1>7. ASSUME NEW n, NEW x \in Task,
             DequeOK(w)', Keeps(w), Limit(w)' <= Limit(w),
             Has(w, n, x), \A i, t : Has(w, i, t)' <=> (Has(w, i, t) /\ i # n),
             DequeTypeOK', OthersSame(w), dpc'[w] = "done", res'[w] = x
      PROVE  DequeInv' /\ OthersOp(w) /\ Takes(w, w, n, x)
  <2>1. /\ DequeInv' /\ OthersOp(w) /\ \A v \in Worker : Keeps(v)
        /\ \A v \in Worker \ {w} : Limit(v)' = Limit(v) /\ \A i, t : Has(v, i, t)' <=> Has(v, i, t)
    BY <1>2, <1>7, OwnStep DEF StealPC
  <2>2. \A u \in Worker : Limit(u)' <= Limit(u)
    <3>1. \A u \in Worker : Limit(u) \in Int  BY <1>1, DequeFacts
    <3> QED  BY <1>7, <2>1, <3>1
  <2> QED  BY <1>3, <1>7, <2>1, <2>2 DEF Takes
<1>8. CASE PopLoad(w) /\ PopInner(w)
  <2>1. PICK x \in Task :
           /\ DequeOK(w)' /\ Keeps(w) /\ Limit(w)' <= Limit(w)
           /\ Has(w, lb[w], x) /\ \A i, t : Has(w, i, t)' <=> (Has(w, i, t) /\ i # lb[w])
           /\ DequeTypeOK' /\ OthersSame(w) /\ dpc'[w] = "done" /\ res'[w] = x
    BY <1>1, <1>8, PopInnerFacts
  <2>2. PICK n : n = lb[w]  OBVIOUS
  <2>3. DequeInv' /\ OthersOp(w) /\ Takes(w, w, n, x)  BY <1>7, <2>1, <2>2
  <2> QED  BY <1>3, <2>1, <2>3
<1>9. CASE PopCas(w) /\ top[w] = lt[w]
  <2>1. PICK x \in Task :
           /\ DequeOK(w)' /\ Keeps(w) /\ Limit(w)' <= Limit(w)
           /\ Has(w, lt[w], x) /\ \A i, t : Has(w, i, t)' <=> (Has(w, i, t) /\ i # lt[w])
           /\ DequeTypeOK' /\ OthersSame(w) /\ dpc'[w] = "done" /\ res'[w] = x
    BY <1>1, <1>9, PopWonFacts
  <2>2. PICK n : n = lt[w]  OBVIOUS
  <2>3. DequeInv' /\ OthersOp(w) /\ Takes(w, w, n, x)  BY <1>7, <2>1, <2>2
  <2> QED  BY <1>3, <2>1, <2>3
<1> QED  BY <1>4, <1>5, <1>6, <1>8, <1>9 DEF Pop, PopLoad

\* A thief reads where the deque begins.
LEMMA StealStartStep ==
    ASSUME NoWrap, DequeInv, NEW w \in Worker, NEW v \in Worker \ {w}, dpc[w] = "done", StealStart(w, v),
           arg \in [Worker -> Desc \cup Worker \cup {Nil}], arg' = [arg EXCEPT ![w] = v]
    PROVE  DequeInv' /\ Calm /\ OthersOp(w) /\ dpc'[w] = "steal" /\ res' = res
<1>1. DequeTypeOK /\ \A u \in Worker : DequeOK(u) /\ Stealing(u)  BY DEF DequeInv
<1>2. /\ dpc' = [dpc EXCEPT ![w] = "steal"] /\ lt' = [lt EXCEPT ![w] = top[v]]
      /\ top' = top /\ bottom' = bottom /\ elems' = elems /\ sb' = sb /\ own' = own /\ lb' = lb /\ res' = res
  BY DEF StealStart, Step
<1>3. dpc'[w] = "steal" /\ lt'[w] = top[v] /\ arg'[w] = v /\ top[v] \in Nat /\ top[v] \in Small
  BY <1>1, <1>2, DequeFacts DEF DequeTypeOK
<1>4. DequeTypeOK'  BY <1>1, <1>2, <1>3 DEF DequeTypeOK, DequePC
<1>5. \A u \in Worker : SameDeque(u)  BY <1>2 DEF SameDeque
<1>6. OthersOp(w) /\ OthersArg(w)  BY <1>1, <1>2 DEF OthersOp, OthersArg, SameOp, DequeTypeOK
<1>7. ASSUME NEW u \in Worker
      PROVE  DequeOK(u)' /\ Keeps(u) /\ Limit(u)' = Limit(u) /\ \A i, t : Has(u, i, t)' <=> Has(u, i, t)
  <2>1. CASE u = w  BY <1>1, <1>3, <1>5, <2>1, FrameIdle DEF PopPC
  <2>2. CASE u # w  BY <1>1, <1>5, <1>6, <2>2, Frame DEF OthersOp
  <2> QED  BY <2>1, <2>2
<1>8. \A u \in Worker : top'[u] \in Nat  BY <1>1, <1>2, DequeFacts
<1>9. ASSUME NEW u \in Worker PROVE Stealing(u)'
  <2>1. CASE u = w  BY <1>2, <1>3, <2>1 DEF Stealing
  <2>2. CASE u # w  BY <1>1, <1>6, <1>7, <1>8, <2>2, StealKept DEF OthersOp, OthersArg
  <2> QED  BY <2>1, <2>2
<1> QED  BY <1>2, <1>3, <1>4, <1>6, <1>7, <1>9 DEF DequeInv, Calm

\* What a thief reads, as long as nobody has been faster: there is an element,
\* it is visible, and nobody can change it.
LEMMA StealReadStep ==
    ASSUME NoWrap, DequeInv, NEW w \in Worker, StealBottom(w, arg[w]) \/ StealLoad(w, arg[w]), arg' = arg
    PROVE  /\ DequeInv' /\ Calm /\ OthersOp(w) /\ dpc[w] \in StealPC
           /\ dpc'[w] \in StealPC \/ (dpc'[w] = "done" /\ res'[w] = Nil)
<1>1. DequeTypeOK /\ \A u \in Worker : DequeOK(u) /\ Stealing(u)  BY DEF DequeInv
<1>2. dpc[w] \in StealPC  BY DEF StealBottom, StealLoad, StealPC
<1>3. PICK v \in Worker : v = arg[w] /\ v # w  BY <1>1, <1>2 DEF Stealing
<1>4. StealBottom(w, v) \/ StealLoad(w, v)  BY <1>3
<1>5. PICK n \in Small : n = lt[w] /\ n \in Nat /\ n <= top[v]
  BY <1>1, <1>2, <1>3, DequeFacts DEF Stealing, DequeTypeOK
<1>6. /\ top' = top /\ bottom' = bottom /\ elems' = elems /\ sb' = sb /\ own' = own /\ lb' = lb /\ lt' = lt
      /\ dpc' = [dpc EXCEPT ![w] = dpc'[w]] /\ res' = [res EXCEPT ![w] = res'[w]]
      /\ \/ dpc[w] = "steal" /\ dpc'[w] = "done" /\ res'[w] = Nil
         \/ dpc[w] = "steal" /\ dpc'[w] = "steal_load" /\ Diff(bottom[v], n) > 0 /\ res'[w] = res[w]
         \/ dpc[w] = "steal_load" /\ dpc'[w] = "steal_cas" /\ res'[w] = elems[v][Slot(n)]
  BY <1>1, <1>4, <1>5 DEF StealBottom, StealLoad, Step, Return, DequeTypeOK
<1>7. dpc'[w] \in StealPC \/ (dpc'[w] = "done" /\ res'[w] = Nil)  BY <1>6 DEF StealPC
<1>8. res'[w] \in Task \cup {Nil}
  <2>1. Slot(n) \in 0 .. (Size - 1)  BY <1>5, SlotFacts
  <2>2. elems[v] \in [0 .. (Size - 1) -> Task \cup {Nil}] /\ res[w] \in Task \cup {Nil}  BY <1>1 DEF DequeTypeOK
  <2>3. elems[v][Slot(n)] \in Task \cup {Nil}  BY <2>1, <2>2
  <2> QED  BY <1>6, <2>2, <2>3
<1>9. DequeTypeOK'
  <2>1. dpc' \in [Worker -> DequePC] /\ res' \in [Worker -> Task \cup {Nil}]
    BY <1>1, <1>6, <1>8 DEF DequeTypeOK, DequePC
  <2> QED  BY <1>1, <1>6, <2>1 DEF DequeTypeOK
<1>10. \A u \in Worker : SameDeque(u)  BY <1>6 DEF SameDeque
<1>11. OthersOp(w) /\ OthersArg(w)  BY <1>1, <1>6 DEF OthersOp, OthersArg, SameOp, DequeTypeOK
<1>12. ASSUME NEW u \in Worker
       PROVE  DequeOK(u)' /\ Keeps(u) /\ Limit(u)' = Limit(u) /\ \A i, t : Has(u, i, t)' <=> Has(u, i, t)
  <2>1. CASE u = w  BY <1>1, <1>2, <1>7, <1>10, <2>1, FrameIdle DEF PopPC, StealPC
  <2>2. CASE u # w  BY <1>1, <1>10, <1>11, <2>2, Frame DEF OthersOp
  <2> QED  BY <2>1, <2>2
<1>13. \A u \in Worker : top'[u] \in Nat  BY <1>1, <1>6, DequeFacts
<1>14. \A u \in Worker \ {w} : Stealing(u)'
  BY <1>1, <1>11, <1>12, <1>13, StealKept DEF OthersOp, OthersArg
<1>15. arg'[w] = v /\ lt'[w] = n /\ n <= top'[v]  BY <1>3, <1>5, <1>6
<1>16. Limit(v)' = Limit(v) /\ \A i : Settled(v, i)' <=> Settled(v, i)
  <2>1. \A i : Settled(v, i)' <=> Settled(v, i)  BY <1>6 DEF Settled, IsElem
  <2> QED  BY <1>12, <2>1
<1>17. ASSUME dpc'[w] \in {"steal_load", "steal_cas"}, n = top[v] PROVE n < Limit(v) /\ Settled(v, n)
  <2>1. CASE dpc[w] = "steal_load"
    <3>1. lt[w] = top[arg[w]]  BY <1>3, <1>5, <1>17
    <3>2. lt[w] < Limit(arg[w]) /\ Settled(arg[w], lt[w])  BY <1>1, <2>1, <3>1 DEF Stealing
    <3> QED  BY <1>3, <1>5, <3>2
  <2>2. CASE dpc[w] = "steal" /\ Diff(bottom[v], n) > 0
    <3>1. bottom[v] \in Ix /\ Val(bottom[v]) \in Int /\ Limit(v) \in Int  BY <1>1, DequeFacts
    <3>2. n < Val(bottom[v])
      <4>1. Diff(bottom[v], n) = Val(bottom[v]) - n  BY <1>5, <3>1, DiffFacts
      <4> QED  BY <1>5, <2>2, <3>1, <4>1
    <3>3. Val(bottom[v]) <= Limit(v) /\ \A k \in DOMAIN sb[v] : IsElem(v, k) => Val(bottom[v]) <= sb[v][k].at
      BY <1>1 DEF DequeOK, Bounds, Order
    <3>4. \A k \in DOMAIN sb[v] : IsElem(v, k) => sb[v][k].at \in Nat  BY <1>1, DequeFacts
    <3>5. \A k \in DOMAIN sb[v] : IsElem(v, k) => sb[v][k].at # n  BY <1>5, <3>1, <3>2, <3>3, <3>4
    <3> QED  BY <1>5, <3>1, <3>2, <3>3, <3>5 DEF Settled
  <2> QED  BY <1>6, <1>17, <2>1, <2>2
<1>18. dpc'[w] = "steal_cas" => elems'[v][Slot(n)] = res'[w]  BY <1>6
<1>19. Stealing(w)'
  <2>1. Settled(arg[w], lt[w])' <=> Settled(v, n)'  BY <1>15 DEF Settled, IsElem
  <2>2. Limit(arg[w])' = Limit(v)'  BY <1>15 DEF Limit
  <2>3. top'[v] = top[v]  BY <1>6
  <2> QED  BY <1>3, <1>15, <1>16, <1>17, <1>18, <2>1, <2>2, <2>3 DEF Stealing
<1> QED  BY <1>2, <1>7, <1>9, <1>11, <1>12, <1>14, <1>19 DEF DequeInv, Calm

\* The steal that wins the compare-and-swap takes the element it has read.
LEMMA StealWonStep ==
    ASSUME NoWrap, DequeInv, NEW w \in Worker, StealCas(w, arg[w]), top[arg[w]] = lt[w], arg' = arg,
           \A u \in Worker : Limit(u) <= MaxOps + 1
    PROVE  /\ DequeInv' /\ OthersOp(w) /\ dpc[w] \in StealPC /\ dpc'[w] = "done"
           /\ \E v, n, x : Takes(w, v, n, x)
<1>1. DequeTypeOK /\ \A u \in Worker : DequeOK(u) /\ Stealing(u)  BY DEF DequeInv
<1>2. dpc[w] = "steal_cas"  BY DEF StealCas
<1>3. PICK v \in Worker : v = arg[w] /\ v # w  BY <1>1, <1>2 DEF Stealing, StealPC
<1>4. PICK n \in Small : n = lt[w] /\ n \in Nat /\ n = top[v]  BY <1>1, <1>3, DequeFacts DEF DequeTypeOK
<1>5. PICK x : x = res[w]  OBVIOUS
<1>6. /\ top' = [top EXCEPT ![v] = Plus(n, 1)] /\ dpc' = [dpc EXCEPT ![w] = "done"] /\ res' = [res EXCEPT ![w] = x]
      /\ bottom' = bottom /\ elems' = elems /\ sb' = sb /\ own' = own /\ lb' = lb /\ lt' = lt
  BY <1>3, <1>4, <1>5 DEF StealCas, CasTop, Return, Step
<1>7. PICK L \in Int : L = Limit(v)  BY <1>1, DequeFacts
<1>8. n < L /\ Settled(v, n) /\ elems[v][Slot(n)] = x
  <2>1. lt[w] = top[arg[w]]  BY <1>3, <1>4
  <2>2. lt[w] < Limit(arg[w]) /\ Settled(arg[w], lt[w]) /\ elems[arg[w]][Slot(lt[w])] = res[w]
    BY <1>1, <1>2, <2>1 DEF Stealing
  <2> QED  BY <1>3, <1>4, <1>5, <1>7, <2>2
<1>9. Plus(n, 1) = n + 1 /\ n + 1 \in Small
  <2>1. n \in Ix /\ Val(n) = n /\ n <= MaxOps  BY <1>4, <1>7, <1>8, IxFacts
  <2>2. Plus(n, 1) \in Small /\ Val(Plus(n, 1)) = n + 1  BY <2>1, UpFacts
  <2> QED  BY <2>2, IxFacts
<1>10. top'[v] = n + 1 /\ dpc'[w] = "done" /\ res'[w] = x  BY <1>1, <1>6, <1>9 DEF DequeTypeOK
<1>11. Has(v, n, x)  BY <1>4, <1>7, <1>8 DEF Has
<1>12. x \in Task
  <2>1. PICK y \in Task : Has(v, n, y)  BY <1>1, <1>4, <1>7, <1>8 DEF DequeOK, Filled
  <2>2. y = x
    <3>1. \A k \in DOMAIN sb[v] : sb[v][k] # SetElem(n, y)
      <4>1. ASSUME NEW k \in DOMAIN sb[v], sb[v][k] = SetElem(n, y) PROVE FALSE
        <5>1. IsElem(v, k) /\ sb[v][k].at = n  BY <4>1 DEF IsElem, SetElem
        <5> QED  BY <1>8, <5>1 DEF Settled
      <4> QED  BY <4>1
    <3> QED  BY <1>8, <2>1, <3>1 DEF Has
  <2> QED  BY <2>1, <2>2
<1>13. DequeTypeOK'
  <2>1. /\ top' \in [Worker -> Small] /\ dpc' \in [Worker -> DequePC] /\ res' \in [Worker -> Task \cup {Nil}]
    BY <1>1, <1>6, <1>9, <1>12 DEF DequeTypeOK, DequePC
  <2> QED  BY <1>1, <1>6, <2>1 DEF DequeTypeOK
<1>14. OthersOp(w) /\ OthersArg(w)  BY <1>1, <1>6 DEF OthersOp, OthersArg, SameOp, DequeTypeOK
<1>15. \A u \in Worker \ {v} : SameDeque(u)  BY <1>1, <1>6 DEF SameDeque, DequeTypeOK
<1>16. ASSUME NEW u \in Worker \ {v}
       PROVE  DequeOK(u)' /\ Keeps(u) /\ Limit(u)' = Limit(u) /\ \A i, t : Has(u, i, t)' <=> Has(u, i, t)
  <2>1. CASE u = w  BY <1>1, <1>2, <1>10, <1>15, <2>1, FrameIdle DEF PopPC
  <2>2. CASE u # w  BY <1>1, <1>14, <1>15, <2>2, Frame DEF OthersOp
  <2> QED  BY <2>1, <2>2
<1>17. Limit(v)' = L
  <2>1. dpc'[v] = dpc[v] /\ own'[v] = own[v]  BY <1>3, <1>6, <1>14 DEF OthersOp, SameOp
  <2> QED  BY <1>7, <2>1 DEF Limit
<1>18. /\ \A k : IsElem(v, k)' <=> IsElem(v, k)
       /\ \A i : Settled(v, i)' <=> Settled(v, i)
  BY <1>6 DEF Settled, IsElem
<1>19. \A i, t : Has(v, i, t)' <=> (Has(v, i, t) /\ i # n)
  <2>1. ASSUME NEW i, NEW t PROVE Has(v, i, t)' <=> (Has(v, i, t) /\ i # n)
    <3>1. Has(v, i, t)' <=> /\ i \in Int /\ n + 1 <= i /\ i < L
                            /\ \/ \E k \in DOMAIN sb[v] : sb[v][k] = SetElem(i, t)
                               \/ Settled(v, i) /\ elems[v][Slot(i)] = t
      BY <1>6, <1>10, <1>17, <1>18 DEF Has
    <3>2. Has(v, i, t) <=> /\ i \in Int /\ n <= i /\ i < L
                           /\ \/ \E k \in DOMAIN sb[v] : sb[v][k] = SetElem(i, t)
                              \/ Settled(v, i) /\ elems[v][Slot(i)] = t
      BY <1>4, <1>7 DEF Has
    <3>3. i \in Int => (n + 1 <= i <=> (n <= i /\ i # n))  BY <1>4
    <3> QED  BY <3>1, <3>2, <3>3
  <2> QED  BY <2>1
<1>20. DequeOK(v)'
  <2>1. Bounds(v) /\ LastStore(v) /\ Order(v) /\ Filled(v) /\ Popping(v)  BY <1>1 DEF DequeOK
  <2>2. Bounds(v)'
    <3>1. L <= n + Size  BY <1>4, <1>7, <2>1 DEF Bounds
    <3>2. n + 1 <= L /\ L <= n + 1 + Size  BY <1>4, <1>8, <3>1, IxFacts
    <3>3. Val(bottom[v]) <= L /\ \A k \in DOMAIN sb[v] : ~ IsElem(v, k) => Val(sb[v][k].at) <= L
      BY <1>7, <2>1 DEF Bounds
    <3> QED  BY <1>6, <1>10, <1>17, <1>18, <3>2, <3>3 DEF Bounds
  <2>3. LastStore(v)'  BY <1>6, <2>1 DEF LastStore
  <2>4. Order(v)'
    <3>1. \A k \in DOMAIN sb[v] : IsElem(v, k) => n + 1 <= sb[v][k].at
      <4>1. ASSUME NEW k \in DOMAIN sb[v], IsElem(v, k) PROVE n + 1 <= sb[v][k].at
        <5>1. sb[v][k].at \in Nat  BY <1>1, <4>1, DequeFacts
        <5>2. n <= sb[v][k].at  BY <1>4, <2>1, <4>1 DEF Order
        <5>3. sb[v][k].at # n  BY <1>8, <4>1 DEF Settled
        <5> QED  BY <1>4, <5>1, <5>2, <5>3
      <4> QED  BY <4>1
    <3> QED  BY <1>6, <1>7, <1>10, <1>17, <1>18, <2>1, <3>1 DEF Order
  <2>5. Filled(v)'
    <3>1. ASSUME NEW i \in Int, n + 1 <= i, i < L PROVE \E t \in Task : Has(v, i, t)'
      <4>1. n <= i /\ i # n  BY <1>4, <3>1
      <4>2. \E t \in Task : Has(v, i, t)  BY <1>4, <1>7, <2>1, <3>1, <4>1 DEF Filled
      <4> QED  BY <1>19, <4>1, <4>2
    <3> QED  BY <1>10, <1>17, <3>1 DEF Filled
  <2>6. Popping(v)'
    <3>1. SameOp(v)  BY <1>3, <1>14 DEF OthersOp
    <3>2. dpc[v] = "pop_cas" => lt[v] <= n /\ lt[v] \in Nat  BY <1>1, <1>4, <2>1, DequeFacts DEF Popping
    <3>3. dpc[v] = "pop_cas" => lt'[v] <= n + 1 /\ lt'[v] # n + 1  BY <1>4, <3>1, <3>2 DEF SameOp
    <3> QED  BY <1>6, <1>10, <2>1, <3>1, <3>3 DEF Popping, SameOp
  <2> QED  BY <2>2, <2>3, <2>4, <2>5, <2>6 DEF DequeOK
<1>21. Keeps(v)  BY <1>4, <1>10 DEF Keeps
<1>22. \A u \in Worker : Keeps(u) /\ DequeOK(u)' /\ Limit(u)' <= Limit(u)
  <2>1. \A u \in Worker : Limit(u) \in Int  BY <1>1, DequeFacts
  <2> QED  BY <1>7, <1>16, <1>17, <1>20, <1>21, <2>1
<1>23. \A u \in Worker : top'[u] \in Nat
  <2>1. \A i \in Small : i \in Nat  BY IxFacts DEF Small
  <2> QED  BY <1>13, <2>1 DEF DequeTypeOK
<1>24. ASSUME NEW u \in Worker PROVE Stealing(u)'
  <2>1. CASE u = w  BY <1>10, <2>1 DEF Stealing, StealPC
  <2>2. CASE u # w  BY <1>1, <1>14, <1>22, <1>23, <2>2, StealKept DEF OthersOp, OthersArg
  <2> QED  BY <2>1, <2>2
<1>25. DequeInv'  BY <1>13, <1>22, <1>24 DEF DequeInv
<1>26. Takes(w, v, n, x)
  <2>1. \A u \in Worker : \A i, t : Has(u, i, t)' <=> (Has(u, i, t) /\ ~ (u = v /\ i = n))  BY <1>16, <1>19
  <2> QED  BY <1>2, <1>10, <1>11, <1>12, <1>22, <2>1 DEF Takes
<1> QED  BY <1>2, <1>10, <1>14, <1>25, <1>26 DEF StealPC

\* A step of a steal takes an element, or leaves the deques alone.
LEMMA StealSteps ==
    ASSUME NoWrap, DequeInv, NEW w \in Worker, Steal(w, arg[w]), arg' = arg,
           \A u \in Worker : Limit(u) <= MaxOps + 1
    PROVE  /\ DequeInv' /\ OthersOp(w) /\ dpc[w] \in StealPC
           /\ \/ Calm /\ dpc'[w] \in StealPC
              \/ Calm /\ dpc'[w] = "done" /\ res'[w] = Nil
              \/ \E v, n, x : Takes(w, v, n, x)
<1>1. CASE StealBottom(w, arg[w]) \/ StealLoad(w, arg[w])  BY <1>1, StealReadStep
<1>2. CASE StealCas(w, arg[w]) /\ top[arg[w]] = lt[w]  BY <1>2, StealWonStep
<1>3. CASE StealCas(w, arg[w]) /\ top[arg[w]] # lt[w]
  <2>1. DequeTypeOK /\ \A u \in Worker : DequeOK(u) /\ Stealing(u)  BY DEF DequeInv
  <2>2. /\ dpc[w] = "steal_cas" /\ dpc' = [dpc EXCEPT ![w] = "done"] /\ res' = [res EXCEPT ![w] = Nil]
        /\ top' = top /\ bottom' = bottom /\ elems' = elems /\ sb' = sb /\ own' = own /\ lb' = lb /\ lt' = lt
    BY <1>3 DEF StealCas, CasTop, Return, Step
  <2>3. dpc'[w] = "done" /\ res'[w] = Nil  BY <2>1, <2>2 DEF DequeTypeOK
  <2>4. DequeTypeOK'
    <3>1. dpc' \in [Worker -> DequePC] /\ res' \in [Worker -> Task \cup {Nil}]  BY <2>1, <2>2 DEF DequeTypeOK, DequePC
    <3> QED  BY <2>1, <2>2, <3>1 DEF DequeTypeOK
  <2>5. \A u \in Worker : SameDeque(u)  BY <2>2 DEF SameDeque
  <2>6. OthersSame(w) /\ OthersArg(w)  BY <2>1, <2>2, <2>5 DEF OthersSame, OthersArg, SameOp, DequeTypeOK
  <2>7. DequeOK(w)' /\ Keeps(w) /\ Limit(w)' = Limit(w) /\ \A i, t : Has(w, i, t)' <=> Has(w, i, t)
    BY <2>1, <2>2, <2>3, <2>5, FrameIdle DEF PopPC
  <2>8. /\ DequeInv' /\ OthersOp(w) /\ \A v \in Worker : Keeps(v)
        /\ \A v \in Worker \ {w} : Limit(v)' = Limit(v) /\ \A i, t : Has(v, i, t)' <=> Has(v, i, t)
    BY <2>3, <2>4, <2>6, <2>7, OwnStep DEF StealPC
  <2>9. Calm  BY <2>7, <2>8 DEF Calm
  <2> QED  BY <2>2, <2>3, <2>8, <2>9 DEF StealPC
<1> QED  BY <1>1, <1>2, <1>3 DEF Steal

----------------------------------------------------------------------------
(* The workers and the tasks *)

SchedTypeOK ==
    /\ cur \in [Worker -> Task \cup Worker] /\ rootCont \in [Worker -> BOOLEAN]
    /\ act \in [Worker -> Acts] /\ arg \in [Worker -> Desc \cup Worker \cup {Nil}]
    /\ destCont \in {Main, Nil}
    /\ locked \subseteq Desc /\ finished \subseteq Desc /\ handles \subseteq Desc /\ spare \subseteq Desc
    /\ joiner \in [Desc -> {Main, Nil}]
    /\ opsDone \in Nat /\ opsDone <= MaxOps

LeaveActs == {"yield", "wait", "join", "exit", "end"}

\* What a worker does, on which task, and how far its deque operation is.
Phase(w) ==
    /\ act[w] \in {"loop", "steal", "stopped"} => cur[w] = w
    /\ act[w] \notin {"loop", "steal", "stopped"} => cur[w] \in Task
    /\ act[w] \in {"run", "stopped", "over"} => dpc[w] = "idle"
    /\ act[w] = "loop" => dpc[w] \in PopPC \cup {"idle", "done"}
    /\ act[w] = "steal" => dpc[w] \in StealPC \cup {"done"}
    /\ act[w] \in LeaveActs => dpc[w] \in PopPC \cup {"done"}
    /\ act[w] = "join" => cur[w] = Main /\ arg[w] \in Desc
    /\ act[w] = "exit" => cur[w] \in Desc
    /\ act[w] = "end" => cur[w] = Main
    /\ cur[w] \in Task /\ act[w] # "over" => rootCont[w]

\* A pop without a result has left the deque empty.
EmptyPop(w) == act[w] # "steal" /\ dpc[w] = "done" /\ res[w] = Nil => Limit(w) = top[w]

\* Each operation of the program pushes once, at most.
Pushed(w) ==
    /\ Limit(w) <= 1 + opsDone
    /\ act[w] \in {"yield", "wait"} => Limit(w) <= opsDone

WorkerOK(w) == Phase(w) /\ EmptyPop(w) /\ Pushed(w)

\* Task t is at place k of x (a worker or a descriptor), position i.
In(t, k, x, i) ==
    \/ k = "run" /\ x \in Worker /\ i = 0 /\ cur[x] = t
    \/ k = "res" /\ x \in Worker /\ i = 0 /\ dpc[x] = "done" /\ res[x] = t
    \/ k = "deque" /\ x \in Worker /\ Has(x, i, t)
    \/ k = "join" /\ x \in Desc /\ i = 0 /\ joiner[x] = t
    \/ k = "dest" /\ x = Nil /\ i = 0 /\ destCont = t

Nowhere(t) == \A k, x, i : ~ In(t, k, x, i)

\* A continuation is in one place at most.
Once == \A t \in Task : \A k, x, i, l, y, j : In(t, k, x, i) /\ In(t, l, y, j) => k = l /\ x = y /\ i = j

\* Descriptors that are not in use, and those that have finished, are nowhere.
Stacks == \A d \in Desc :
    /\ d \in spare => d \notin handles /\ Nowhere(d)
    /\ d \in finished => Nowhere(d)
    /\ d \notin spare \cup handles => d \in finished

IInv == SchedTypeOK /\ DequeInv /\ (\A w \in Worker : WorkerOK(w)) /\ Once /\ Stacks

\* A task stays where it is, if it is anywhere; or can only be at one place.
Stay(t) == \A k, x, i : In(t, k, x, i)' => In(t, k, x, i)
Lands(t, k, x, i) == \A l, y, j : In(t, l, y, j)' => l = k /\ y = x /\ j = i

OthersRun(w) == \A v \in Worker \ {w} :
    cur'[v] = cur[v] /\ rootCont'[v] = rootCont[v] /\ act'[v] = act[v] /\ arg'[v] = arg[v]

\* What a step of one worker leaves to the others.
LEMMA WorkersKept ==
    ASSUME NoWrap, DequeInv, DequeInv', NEW w \in Worker, \A v \in Worker : WorkerOK(v), OthersOp(w), OthersRun(w),
           \A v \in Worker : Keeps(v), \A v \in Worker \ {w} : Limit(v)' <= Limit(v),
           opsDone \in Nat, opsDone' \in Nat, opsDone <= opsDone', WorkerOK(w)'
    PROVE  \A v \in Worker : WorkerOK(v)'
<1>1. ASSUME NEW v \in Worker \ {w} PROVE WorkerOK(v)'
  <2>1. /\ cur'[v] = cur[v] /\ rootCont'[v] = rootCont[v] /\ act'[v] = act[v] /\ arg'[v] = arg[v]
        /\ dpc'[v] = dpc[v] /\ res'[v] = res[v]
    BY DEF OthersOp, OthersRun, SameOp
  <2>2. Phase(v) /\ EmptyPop(v) /\ Pushed(v)  BY DEF WorkerOK
  <2>3. Phase(v)'  BY <2>1, <2>2 DEF Phase
  <2>4. top[v] \in Nat /\ Limit(v) \in Int  BY DequeFacts DEF DequeInv
  <2>5. top'[v] \in Nat /\ Limit(v)' \in Int
    <3>1. \A i \in Small : i \in Nat  BY IxFacts DEF Small
    <3>2. \A i \in Ix : Val(i) \in Int  BY IxFacts
    <3>3. top'[v] \in Small /\ own'[v] \in Ix  BY DEF DequeInv, DequeTypeOK
    <3>4. Val(own'[v]) \in Int  BY <3>2, <3>3
    <3>5. Limit(v)' = Val(own'[v]) + 1 \/ Limit(v)' = Val(own'[v])  BY DEF Limit
    <3> QED  BY <3>1, <3>3, <3>4, <3>5
  <2>6. top'[v] >= top[v] /\ top'[v] <= Limit(v)' /\ Limit(v)' <= Limit(v)
    BY DEF Keeps, DequeInv, DequeOK, Bounds
  <2>7. EmptyPop(v)'  BY <2>1, <2>2, <2>4, <2>5, <2>6 DEF EmptyPop
  <2>8. Pushed(v)'  BY <2>1, <2>2, <2>4, <2>5, <2>6 DEF Pushed
  <2> QED  BY <2>3, <2>7, <2>8 DEF WorkerOK
<1> QED  BY <1>1

LEMMA OnceKept ==
    ASSUME Once, \A t \in Task : Stay(t) \/ \E k, x, i : Lands(t, k, x, i)
    PROVE  Once'
<1>1. ASSUME NEW t \in Task, NEW k, NEW x, NEW i, NEW l, NEW y, NEW j, In(t, k, x, i)', In(t, l, y, j)'
      PROVE  k = l /\ x = y /\ i = j
  <2>1. CASE Stay(t)
    <3>1. In(t, k, x, i) /\ In(t, l, y, j)  BY <1>1, <2>1 DEF Stay
    <3> QED  BY <3>1 DEF Once
  <2>2. CASE \E k0, x0, i0 : Lands(t, k0, x0, i0)  BY <1>1, <2>2 DEF Lands
  <2> QED  BY <2>1, <2>2
<1> QED  BY <1>1 DEF Once

\* A task that has left its place can only be at a new one.
LEMMA Moved ==
    ASSUME Once, NEW t \in Task, NEW k, NEW x, NEW i, NEW l, NEW y, NEW j,
           In(t, k, x, i), ~ In(t, k, x, i)',
           \A m, z, h : In(t, m, z, h)' => In(t, m, z, h) \/ (m = l /\ z = y /\ h = j)
    PROVE  Lands(t, l, y, j)
BY DEF Once, Lands

LEMMA Gone ==
    ASSUME Once, NEW t \in Task, NEW k, NEW x, NEW i, In(t, k, x, i), ~ In(t, k, x, i)', Stay(t)
    PROVE  Nowhere(t)'
BY DEF Once, Stay, Nowhere

\* Where a step of worker w can put a task.
LEMMA NewPlaces ==
    ASSUME NEW w \in Worker, OthersOp(w), OthersRun(w), NEW t, NEW l, NEW y, NEW j, In(t, l, y, j)', ~ In(t, l, y, j)
    PROVE  \/ l = "run" /\ y = w /\ j = 0 /\ cur'[w] = t
           \/ l = "res" /\ y = w /\ j = 0 /\ dpc'[w] = "done" /\ res'[w] = t
           \/ l = "deque" /\ y \in Worker /\ Has(y, j, t)' /\ ~ Has(y, j, t)
           \/ l = "join" /\ y \in Desc /\ j = 0 /\ joiner'[y] = t /\ joiner[y] # t
           \/ l = "dest" /\ y = Nil /\ j = 0 /\ destCont' = t /\ destCont # t
<1>1. \A v \in Worker \ {w} : cur'[v] = cur[v] /\ dpc'[v] = dpc[v] /\ res'[v] = res[v]
  BY DEF OthersOp, OthersRun, SameOp
<1>2. CASE l = "run"  BY <1>1, <1>2 DEF In
<1>3. CASE l = "res"  BY <1>1, <1>3 DEF In
<1>4. CASE l = "deque"  BY <1>4 DEF In
<1>5. CASE l = "join"  BY <1>5 DEF In
<1>6. CASE l = "dest"  BY <1>6 DEF In
<1> QED  BY <1>2, <1>3, <1>4, <1>5, <1>6 DEF In

\* The tasks stay where they are: no worker switches, and none has a new result.
LEMMA AllStay ==
    ASSUME NEW w \in Worker, OthersOp(w), OthersRun(w), cur'[w] = cur[w],
           dpc'[w] = "done" => res'[w] = Nil \/ (dpc[w] = "done" /\ res[w] = res'[w]),
           \A v \in Worker : \A i, t : Has(v, i, t)' => Has(v, i, t), joiner' = joiner, destCont' = destCont
    PROVE  \A t \in Task : Stay(t)
<1>1. ASSUME NEW t \in Task, NEW l, NEW y, NEW j, In(t, l, y, j)', ~ In(t, l, y, j) PROVE FALSE
  <2>1. \/ l = "run" /\ y = w /\ j = 0 /\ cur'[w] = t
        \/ l = "res" /\ y = w /\ j = 0 /\ dpc'[w] = "done" /\ res'[w] = t
        \/ l = "deque" /\ y \in Worker /\ Has(y, j, t)' /\ ~ Has(y, j, t)
        \/ l = "join" /\ y \in Desc /\ j = 0 /\ joiner'[y] = t /\ joiner[y] # t
        \/ l = "dest" /\ y = Nil /\ j = 0 /\ destCont' = t /\ destCont # t
    BY <1>1, NewPlaces
  <2>2. t # Nil  BY TaskFacts
  <2>3. CASE l = "run" /\ y = w /\ j = 0 /\ cur'[w] = t  BY <1>1, <2>3 DEF In
  <2>4. CASE l = "res" /\ y = w /\ j = 0 /\ dpc'[w] = "done" /\ res'[w] = t  BY <1>1, <2>2, <2>4 DEF In
  <2> QED  BY <2>1, <2>3, <2>4
<1> QED  BY <1>1 DEF Stay

----------------------------------------------------------------------------
(* The steps of the scheduler *)

LEMMA Parts ==
    ASSUME IInv
    PROVE  /\ SchedTypeOK /\ DequeInv /\ Once /\ Stacks /\ opsDone \in Nat /\ opsDone <= MaxOps
           /\ \A w \in Worker : WorkerOK(w) /\ Phase(w) /\ EmptyPop(w) /\ Pushed(w)
           /\ DequeTypeOK /\ MaxOps \in Nat
BY SchedAssumption DEF IInv, SchedTypeOK, WorkerOK, DequeInv

\* The descriptors, when the tasks stay where they are.
LEMMA StacksStay ==
    ASSUME Stacks, \A t \in Task : Stay(t), spare' = spare, handles' = handles, finished' = finished
    PROVE  Stacks'
<1>1. ASSUME NEW d \in Desc PROVE Nowhere(d) => Nowhere(d)'  BY TaskFacts DEF Nowhere, Stay
<1> QED  BY <1>1 DEF Stacks

\* A step of a worker on which the tasks stay where they are.
LEMMA QuietStep ==
    ASSUME NoWrap, IInv, NEW w \in Worker, DequeInv', Calm, OthersOp(w), OthersRun(w), SchedTypeOK',
           cur'[w] = cur[w], dpc'[w] = "done" => res'[w] = Nil \/ (dpc[w] = "done" /\ res[w] = res'[w]),
           joiner' = joiner, destCont' = destCont, opsDone <= opsDone', Phase(w)', EmptyPop(w)', Pushed(w)',
           spare' = spare, handles' = handles, finished' = finished
    PROVE  IInv'
<1>1. /\ DequeInv /\ Once /\ Stacks /\ opsDone \in Nat /\ DequeTypeOK
      /\ \A v \in Worker : WorkerOK(v)
  BY Parts
<1>2. \A t \in Task : Stay(t)  BY AllStay DEF Calm
<1>3. Once'  BY <1>1, <1>2, OnceKept
<1>4. Stacks'  BY <1>1, <1>2, StacksStay
<1>5. WorkerOK(w)'  BY DEF WorkerOK
<1>6. \A v \in Worker : Keeps(v) /\ Limit(v)' <= Limit(v)
  <2>1. \A v \in Worker : Limit(v) \in Int  BY <1>1, DequeFacts
  <2> QED  BY <2>1 DEF Calm
<1>7. opsDone' \in Nat  BY DEF SchedTypeOK
<1>8. \A v \in Worker : WorkerOK(v)'  BY <1>1, <1>5, <1>6, <1>7, WorkersKept
<1> QED  BY <1>3, <1>4, <1>8 DEF IInv

LEMMA LoopPopKept == ASSUME NoWrap, IInv, NEW w \in Worker, LoopPop(w) PROVE IInv'
<1>1. /\ act[w] = "loop" /\ PopStart(w) /\ UNCHANGED <<runVars, endVars, descVars, progVars, spare>>  BY DEF LoopPop
<1>2. /\ cur' = cur /\ rootCont' = rootCont /\ act' = act /\ arg' = arg /\ destCont' = destCont
      /\ locked' = locked /\ finished' = finished /\ joiner' = joiner
      /\ handles' = handles /\ opsDone' = opsDone /\ spare' = spare
  BY <1>1 DEF runVars, endVars, descVars, progVars
<1>3. OthersRun(w) /\ OthersArg(w)  BY <1>2 DEF OthersRun, OthersArg
<1>4. SchedTypeOK /\ DequeInv /\ Phase(w) /\ Pushed(w) /\ opsDone \in Nat  BY Parts
<1>5. DequeInv' /\ Calm /\ OthersOp(w) /\ dpc'[w] = "pop"  BY <1>1, <1>3, <1>4, PopStartStep
<1>6. SchedTypeOK'  BY <1>2, <1>4 DEF SchedTypeOK
<1>7. Phase(w)'  BY <1>1, <1>2, <1>4, <1>5 DEF Phase, PopPC, LeaveActs
<1>8. EmptyPop(w)'  BY <1>5 DEF EmptyPop
<1>9. Pushed(w)'  BY <1>2, <1>4, <1>5 DEF Pushed, Calm
<1>10. opsDone <= opsDone'  BY <1>2, <1>4
<1> QED  BY <1>2, <1>3, <1>5, <1>6, <1>7, <1>8, <1>9, <1>10, QuietStep

LEMMA LoopStopKept == ASSUME NoWrap, IInv, NEW w \in Worker, LoopStop(w) PROVE IInv'
<1>1. /\ act[w] = "loop" /\ dpc[w] = "idle" /\ act' = [act EXCEPT ![w] = "stopped"]
      /\ UNCHANGED <<dequeVars, cur, rootCont, arg, endVars, descVars, progVars, spare>>
  BY DEF LoopStop
<1>2. /\ UNCHANGED dequeVars /\ cur' = cur /\ rootCont' = rootCont /\ arg' = arg /\ destCont' = destCont
      /\ locked' = locked /\ finished' = finished /\ joiner' = joiner
      /\ handles' = handles /\ opsDone' = opsDone /\ spare' = spare
  BY <1>1 DEF endVars, descVars, progVars
<1>4. SchedTypeOK /\ DequeInv /\ Phase(w) /\ Pushed(w) /\ opsDone \in Nat  BY Parts
<1>3. OthersRun(w) /\ act'[w] = "stopped"  BY <1>1, <1>2, <1>4 DEF OthersRun, SchedTypeOK
<1>5. DequeInv' /\ Calm /\ \A v \in Worker : SameOp(v)  BY <1>2, <1>4, StillStep
<1>6. OthersOp(w) /\ dpc'[w] = "idle"  BY <1>1, <1>5 DEF OthersOp, SameOp
<1>7. SchedTypeOK'  BY <1>1, <1>2, <1>4 DEF SchedTypeOK, Acts
<1>8. Phase(w)'  BY <1>1, <1>2, <1>3, <1>4, <1>6 DEF Phase, LeaveActs
<1>9. EmptyPop(w)'  BY <1>6 DEF EmptyPop
<1>10. Pushed(w)'  BY <1>2, <1>3, <1>4, <1>5 DEF Pushed, Calm
<1>11. opsDone <= opsDone'  BY <1>2, <1>4
<1> QED  BY <1>2, <1>3, <1>5, <1>6, <1>7, <1>8, <1>9, <1>10, <1>11, QuietStep

LEMMA LoopStealKept == ASSUME NoWrap, IInv, NEW w \in Worker, LoopSteal(w) PROVE IInv'
<1>1. PICK v \in Worker \ {w} : StealStart(w, v) /\ arg' = [arg EXCEPT ![w] = v]  BY DEF LoopSteal
<1>2. /\ act[w] = "loop" /\ dpc[w] = "done" /\ res[w] = Nil /\ act' = [act EXCEPT ![w] = "steal"]
      /\ cur' = cur /\ rootCont' = rootCont /\ destCont' = destCont
      /\ locked' = locked /\ finished' = finished /\ joiner' = joiner
      /\ handles' = handles /\ opsDone' = opsDone /\ spare' = spare
  BY DEF LoopSteal, endVars, descVars, progVars
<1>3. SchedTypeOK /\ DequeInv /\ Phase(w) /\ Pushed(w) /\ opsDone \in Nat  BY Parts
<1>4. OthersRun(w) /\ act'[w] = "steal"  BY <1>1, <1>2, <1>3 DEF OthersRun, SchedTypeOK
<1>5. DequeInv' /\ Calm /\ OthersOp(w) /\ dpc'[w] = "steal"  BY <1>1, <1>2, <1>3, StealStartStep DEF SchedTypeOK
<1>6. SchedTypeOK'  BY <1>1, <1>2, <1>3 DEF SchedTypeOK, Acts
<1>7. Phase(w)'  BY <1>2, <1>3, <1>4, <1>5 DEF Phase, LeaveActs, StealPC
<1>8. EmptyPop(w)'  BY <1>5 DEF EmptyPop
<1>9. Pushed(w)'  BY <1>2, <1>3, <1>4, <1>5 DEF Pushed, Calm
<1>10. opsDone <= opsDone'  BY <1>2, <1>3
<1> QED  BY <1>2, <1>4, <1>5, <1>6, <1>7, <1>8, <1>9, <1>10, QuietStep

LEMMA LoopAgainKept == ASSUME NoWrap, IInv, NEW w \in Worker, LoopAgain(w) PROVE IInv'
<1>1. /\ act[w] = "steal" /\ dpc[w] = "done" /\ Taken(w)
      /\ act' = [act EXCEPT ![w] = "loop"] /\ arg' = [arg EXCEPT ![w] = Nil]
      /\ top' = top /\ bottom' = bottom /\ elems' = elems /\ sb' = sb /\ own' = own
      /\ cur' = cur /\ rootCont' = rootCont /\ destCont' = destCont
      /\ locked' = locked /\ finished' = finished /\ joiner' = joiner
      /\ handles' = handles /\ opsDone' = opsDone /\ spare' = spare
  BY DEF LoopAgain, endVars, descVars, progVars
<1>2. SchedTypeOK /\ DequeInv /\ Phase(w) /\ Pushed(w) /\ opsDone \in Nat  BY Parts
<1>3. OthersRun(w) /\ OthersArg(w) /\ act'[w] = "loop"  BY <1>1, <1>2 DEF OthersRun, OthersArg, SchedTypeOK
<1>4. DequeInv' /\ Calm /\ OthersOp(w) /\ dpc'[w] = "idle"  BY <1>1, <1>2, <1>3, TakenStep
<1>5. SchedTypeOK'  BY <1>1, <1>2 DEF SchedTypeOK, Acts
<1>6. Phase(w)'  BY <1>1, <1>2, <1>3, <1>4 DEF Phase, LeaveActs
<1>7. EmptyPop(w)'  BY <1>4 DEF EmptyPop
<1>8. Pushed(w)'  BY <1>1, <1>2, <1>3, <1>4 DEF Pushed, Calm
<1>9. opsDone <= opsDone'  BY <1>1, <1>2
<1> QED  BY <1>1, <1>3, <1>4, <1>5, <1>6, <1>7, <1>8, <1>9, QuietStep

LEMMA FlushKept == ASSUME NoWrap, IInv, NEW w \in Worker, FlushStep(w) PROVE IInv'
<1>1. /\ Flush(w) /\ cur' = cur /\ rootCont' = rootCont /\ act' = act /\ arg' = arg /\ destCont' = destCont
      /\ locked' = locked /\ finished' = finished /\ joiner' = joiner
      /\ handles' = handles /\ opsDone' = opsDone /\ spare' = spare
  BY DEF FlushStep, runVars, endVars, descVars, progVars
<1>2. SchedTypeOK /\ DequeInv /\ DequeTypeOK /\ Phase(w) /\ EmptyPop(w) /\ Pushed(w) /\ opsDone \in Nat  BY Parts
<1>3. OthersRun(w)  BY <1>1 DEF OthersRun
<1>4. DequeInv' /\ Calm /\ \A v \in Worker : SameOp(v)  BY <1>1, <1>2, FlushQuiet
<1>5. OthersOp(w) /\ dpc'[w] = dpc[w] /\ res'[w] = res[w]  BY <1>4 DEF OthersOp, SameOp
<1>6. SchedTypeOK'  BY <1>1, <1>2 DEF SchedTypeOK
<1>7. Phase(w)'  BY <1>1, <1>2, <1>5 DEF Phase
<1>8. EmptyPop(w)'
  <2>1. top' = top  BY <1>1 DEF Flush
  <2> QED  BY <1>1, <1>2, <1>4, <1>5, <2>1 DEF EmptyPop, Calm
<1>9. Pushed(w)'  BY <1>1, <1>2, <1>4 DEF Pushed, Calm
<1>10. opsDone <= opsDone'  BY <1>1, <1>2
<1> QED  BY <1>1, <1>3, <1>4, <1>5, <1>6, <1>7, <1>8, <1>9, <1>10, QuietStep

\* A task leaves: the pop of the next one begins.
LEMMA LeaveKept ==
    ASSUME NoWrap, IInv, NEW w \in Worker, NEW a \in LeaveActs, act[w] = "run", Leave(w, a), OthersArg(w), SchedTypeOK',
           a = "join" => cur[w] = Main /\ arg'[w] \in Desc, a = "exit" => cur[w] \in Desc, a = "end" => cur[w] = Main,
           opsDone <= opsDone', a \in {"yield", "wait"} => opsDone' = opsDone + 1,
           joiner' = joiner, destCont' = destCont, spare' = spare, handles' = handles, finished' = finished
    PROVE  IInv'
<1>1. PopStart(w) /\ act' = [act EXCEPT ![w] = a] /\ cur' = cur /\ rootCont' = rootCont  BY DEF Leave
<1>2. SchedTypeOK /\ DequeInv /\ DequeTypeOK /\ Phase(w) /\ Pushed(w) /\ opsDone \in Nat  BY Parts
<1>3. OthersRun(w) /\ act'[w] = a  BY <1>1, <1>2 DEF OthersRun, OthersArg, SchedTypeOK
<1>4. DequeInv' /\ Calm /\ OthersOp(w) /\ dpc'[w] = "pop"  BY <1>1, <1>2, PopStartStep
<1>5. Phase(w)'  BY <1>1, <1>2, <1>3, <1>4 DEF Phase, LeaveActs, PopPC
<1>6. EmptyPop(w)'  BY <1>4 DEF EmptyPop
<1>7. Pushed(w)'
  <2>1. Limit(w) \in Int /\ opsDone' \in Nat  BY <1>2, DequeFacts DEF SchedTypeOK
  <2>2. Limit(w)' = Limit(w) /\ Limit(w) <= 1 + opsDone  BY <1>2, <1>4 DEF Calm, Pushed
  <2> QED  BY <1>2, <1>3, <2>1, <2>2 DEF Pushed
<1> QED  BY <1>1, <1>3, <1>4, <1>5, <1>6, <1>7, QuietStep

LEMMA PauseKept == ASSUME NoWrap, IInv, NEW w \in Worker, Pause(w) PROVE IInv'
<1>1. PICK a \in {"yield", "wait"} : Leave(w, a)  BY DEF Pause
<1>2. /\ act[w] = "run" /\ opsDone < MaxOps /\ opsDone' = opsDone + 1 /\ arg' = arg /\ destCont' = destCont
      /\ locked' = locked /\ finished' = finished /\ joiner' = joiner /\ handles' = handles /\ spare' = spare
  BY DEF Pause, endVars, descVars
<1>3. SchedTypeOK /\ opsDone \in Nat /\ MaxOps \in Nat  BY Parts
<1>4. SchedTypeOK'  BY <1>1, <1>2, <1>3 DEF SchedTypeOK, Leave, Acts
<1>5. OthersArg(w) /\ opsDone <= opsDone' /\ a \in LeaveActs  BY <1>1, <1>2, <1>3 DEF OthersArg, LeaveActs
<1> QED  BY <1>1, <1>2, <1>4, <1>5, LeaveKept

LEMMA JoinBlockKept == ASSUME NoWrap, IInv, NEW w \in Worker, NEW d \in Desc, JoinBlock(w, d) PROVE IInv'
<1>1. /\ act[w] = "run" /\ cur[w] = Main /\ locked' = locked \cup {d} /\ arg' = [arg EXCEPT ![w] = d] /\ Leave(w, "join")
      /\ destCont' = destCont /\ finished' = finished /\ joiner' = joiner
      /\ handles' = handles /\ opsDone' = opsDone /\ spare' = spare
  BY DEF JoinBlock, Runs, endVars, progVars
<1>2. SchedTypeOK /\ opsDone \in Nat  BY Parts
<1>3. SchedTypeOK'  BY <1>1, <1>2 DEF SchedTypeOK, Leave, Acts
<1>4. OthersArg(w) /\ arg'[w] = d /\ opsDone <= opsDone'  BY <1>1, <1>2 DEF OthersArg, SchedTypeOK
<1> QED  BY <1>1, <1>3, <1>4, LeaveKept DEF LeaveActs

LEMMA ExitToSchedKept == ASSUME NoWrap, IInv, NEW w \in Worker, NEW d \in Desc, ExitToSched(w, d) PROVE IInv'
<1>1. /\ act[w] = "run" /\ cur[w] = d /\ locked' = locked \cup {d} /\ finished' = finished /\ Leave(w, "exit")
      /\ arg' = arg /\ destCont' = destCont /\ joiner' = joiner
      /\ handles' = handles /\ opsDone' = opsDone /\ spare' = spare
  BY DEF ExitToSched, MarkExiting, Runs, endVars, progVars
<1>2. SchedTypeOK /\ opsDone \in Nat  BY Parts
<1>3. SchedTypeOK'  BY <1>1, <1>2 DEF SchedTypeOK, Leave, Acts
<1>4. OthersArg(w) /\ opsDone <= opsDone'  BY <1>1, <1>2 DEF OthersArg
<1> QED  BY <1>1, <1>3, <1>4, LeaveKept DEF LeaveActs

LEMMA EndKept == ASSUME NoWrap, IInv, NEW w \in Worker, End(w) PROVE IInv'
<1>1. /\ act[w] = "run" /\ cur[w] = Main /\ Leave(w, "end") /\ arg' = arg /\ destCont' = destCont
      /\ locked' = locked /\ finished' = finished /\ joiner' = joiner
      /\ handles' = handles /\ opsDone' = opsDone /\ spare' = spare
  BY DEF End, Runs, descVars, progVars
<1>2. SchedTypeOK /\ opsDone \in Nat  BY Parts
<1>3. SchedTypeOK'  BY <1>1, <1>2 DEF SchedTypeOK, Leave, Acts
<1>4. OthersArg(w) /\ opsDone <= opsDone'  BY <1>1, <1>2 DEF OthersArg
<1> QED  BY <1>1, <1>3, <1>4, LeaveKept DEF LeaveActs

LEMMA JoinFinishedKept == ASSUME NoWrap, IInv, NEW w \in Worker, NEW d \in Desc, JoinFinished(w, d) PROVE IInv'
<1>1. /\ d \in finished /\ handles' = handles \ {d} /\ spare' = spare \cup {d} /\ UNCHANGED dequeVars
      /\ cur' = cur /\ rootCont' = rootCont /\ act' = act /\ arg' = arg /\ destCont' = destCont
      /\ locked' = locked /\ finished' = finished /\ joiner' = joiner /\ opsDone' = opsDone
  BY DEF JoinFinished, runVars, endVars, descVars
<1>2. /\ SchedTypeOK /\ DequeInv /\ DequeTypeOK /\ Once /\ Stacks /\ opsDone \in Nat
      /\ WorkerOK(w) /\ Phase(w) /\ EmptyPop(w) /\ Pushed(w) /\ \A v \in Worker : WorkerOK(v)
  BY Parts
<1>3. OthersRun(w)  BY <1>1 DEF OthersRun
<1>4. DequeInv' /\ Calm /\ \A v \in Worker : SameOp(v)  BY <1>1, <1>2, StillStep
<1>5. OthersOp(w) /\ dpc'[w] = dpc[w] /\ res'[w] = res[w] /\ top' = top  BY <1>1, <1>4 DEF OthersOp, SameOp, dequeVars
<1>6. SchedTypeOK'  BY <1>1, <1>2 DEF SchedTypeOK
<1>7. WorkerOK(w)'
  <2>1. Phase(w)'  BY <1>1, <1>2, <1>5 DEF Phase
  <2>2. EmptyPop(w)'  BY <1>1, <1>2, <1>4, <1>5 DEF EmptyPop, Calm
  <2>3. Pushed(w)'  BY <1>1, <1>2, <1>4 DEF Pushed, Calm
  <2> QED  BY <2>1, <2>2, <2>3 DEF WorkerOK
<1>8. \A v \in Worker : Keeps(v) /\ Limit(v)' <= Limit(v)
  <2>1. \A v \in Worker : Limit(v) \in Int  BY <1>2, DequeFacts
  <2> QED  BY <1>4, <2>1 DEF Calm
<1>9. opsDone' \in Nat /\ opsDone <= opsDone'  BY <1>1, <1>2
<1>10. \A v \in Worker : WorkerOK(v)'  BY <1>2, <1>3, <1>4, <1>5, <1>7, <1>8, <1>9, WorkersKept
<1>11. \A t \in Task : Stay(t)  BY <1>1, <1>3, <1>4, <1>5, AllStay DEF Calm
<1>12. Once'  BY <1>2, <1>11, OnceKept
<1>13. Stacks'
  <2>1. \A e \in Desc : Nowhere(e) => Nowhere(e)'  BY <1>11, TaskFacts DEF Nowhere, Stay
  <2> QED  BY <1>1, <1>2, <2>1 DEF Stacks
<1> QED  BY <1>4, <1>6, <1>10, <1>12, <1>13 DEF IInv

\* An element of a deque becomes the result of a pop or a steal.
LEMMA TakeKept ==
    ASSUME NoWrap, IInv, NEW w \in Worker, NEW v, NEW n, NEW x, Takes(w, v, n, x), DequeInv', OthersOp(w), OthersRun(w),
           SchedTypeOK', cur'[w] = cur[w], joiner' = joiner, destCont' = destCont, opsDone' = opsDone,
           Phase(w)', act'[w] = act[w], spare' = spare, handles' = handles, finished' = finished
    PROVE  IInv'
<1>1. /\ DequeInv /\ DequeTypeOK /\ Once /\ Stacks /\ opsDone \in Nat /\ Pushed(w)
      /\ \A u \in Worker : WorkerOK(u)
  BY Parts
<1>2. /\ x \in Task /\ v \in Worker /\ Has(v, n, x) /\ dpc'[w] = "done" /\ res'[w] = x
      /\ \A u \in Worker : Keeps(u) /\ Limit(u)' <= Limit(u)
      /\ \A u \in Worker : \A i, t : Has(u, i, t)' <=> (Has(u, i, t) /\ ~ (u = v /\ i = n))
  BY DEF Takes
<1>3. WorkerOK(w)'
  <2>1. EmptyPop(w)'  BY <1>2, TaskFacts DEF EmptyPop
  <2>2. Pushed(w)'
    <3>1. Limit(w) \in Int  BY <1>1, DequeFacts
    <3>2. Limit(w)' \in Int
      <4>1. own'[w] \in Ix  BY DEF DequeInv, DequeTypeOK
      <4>2. Val(own'[w]) \in Int  BY <4>1, IxFacts
      <4>3. Limit(w)' = Val(own'[w])  BY <1>2 DEF Limit, PopPC
      <4> QED  BY <4>2, <4>3
    <3>3. Limit(w)' <= Limit(w)  BY <1>2
    <3> QED  BY <1>1, <3>1, <3>2, <3>3 DEF Pushed
  <2> QED  BY <2>1, <2>2 DEF WorkerOK
<1>4. opsDone' \in Nat /\ opsDone <= opsDone'  BY <1>1
<1>5. \A u \in Worker : WorkerOK(u)'  BY <1>1, <1>2, <1>3, <1>4, WorkersKept
<1>6. ASSUME NEW t \in Task, NEW l, NEW y, NEW j, In(t, l, y, j)', ~ In(t, l, y, j)
      PROVE  t = x /\ l = "res" /\ y = w /\ j = 0
  <2>1. \/ l = "run" /\ y = w /\ j = 0 /\ cur'[w] = t
        \/ l = "res" /\ y = w /\ j = 0 /\ dpc'[w] = "done" /\ res'[w] = t
        \/ l = "deque" /\ y \in Worker /\ Has(y, j, t)' /\ ~ Has(y, j, t)
        \/ l = "join" /\ y \in Desc /\ j = 0 /\ joiner'[y] = t /\ joiner[y] # t
        \/ l = "dest" /\ y = Nil /\ j = 0 /\ destCont' = t /\ destCont # t
    BY <1>6, NewPlaces
  <2>2. CASE l = "run" /\ y = w /\ j = 0 /\ cur'[w] = t  BY <1>6, <2>2 DEF In
  <2>3. CASE l = "res" /\ y = w /\ j = 0 /\ dpc'[w] = "done" /\ res'[w] = t  BY <1>2, <2>3
  <2> QED  BY <1>2, <2>1, <2>2, <2>3
<1>7. \A t \in Task \ {x} : Stay(t)  BY <1>6 DEF Stay
<1>8. In(x, "deque", v, n) /\ ~ In(x, "deque", v, n)'  BY <1>2 DEF In
<1>9. Lands(x, "res", w, 0)  BY <1>1, <1>2, <1>6, <1>8, Moved
<1>10. Once'
  <2>1. \A t \in Task : Stay(t) \/ \E k, z, i : Lands(t, k, z, i)  BY <1>7, <1>9
  <2> QED  BY <1>1, <2>1, OnceKept
<1>11. Stacks'
  <2>1. ~ Nowhere(x)  BY <1>8 DEF Nowhere
  <2>2. \A e \in Desc : Nowhere(e) => Nowhere(e)'  BY <1>7, <2>1, TaskFacts DEF Nowhere, Stay
  <2> QED  BY <1>1, <2>2 DEF Stacks
<1> QED  BY <1>5, <1>10, <1>11 DEF IInv

LEMMA PopStepKept == ASSUME NoWrap, IInv, NEW w \in Worker, PopStep(w) PROVE IInv'
<1>1. /\ Pop(w) /\ cur' = cur /\ rootCont' = rootCont /\ act' = act /\ arg' = arg /\ destCont' = destCont
      /\ locked' = locked /\ finished' = finished /\ joiner' = joiner
      /\ handles' = handles /\ opsDone' = opsDone /\ spare' = spare
  BY DEF PopStep, runVars, endVars, descVars, progVars
<1>2. /\ SchedTypeOK /\ DequeInv /\ DequeTypeOK /\ Phase(w) /\ Pushed(w) /\ opsDone \in Nat /\ opsDone <= MaxOps
      /\ MaxOps \in Nat
  BY Parts
<1>3. OthersRun(w)  BY <1>1 DEF OthersRun
<1>4. Limit(w) <= MaxOps + 1
  <2>1. Limit(w) \in Int  BY <1>2, DequeFacts
  <2> QED  BY <1>2, <2>1 DEF Pushed
<1>5. /\ DequeInv' /\ OthersOp(w) /\ dpc[w] \in PopPC /\ dpc'[w] \in {"pop_cas", "done"}
      /\ \/ Calm /\ dpc'[w] = "pop_cas"
         \/ Calm /\ dpc'[w] = "done" /\ res'[w] = Nil /\ Limit(w)' = top'[w]
         \/ \E n, x : Takes(w, w, n, x)
  BY <1>1, <1>2, <1>4, PopSteps
<1>6. SchedTypeOK'  BY <1>1, <1>2 DEF SchedTypeOK
<1>7. Phase(w)'
  <2>1. dpc[w] \notin StealPC \cup {"idle", "done"}  BY <1>5 DEF PopPC, StealPC
  <2>2. act[w] \notin {"run", "stopped", "over", "steal"}  BY <1>2, <2>1 DEF Phase
  <2>3. dpc'[w] \in PopPC \cup {"done"}  BY <1>5 DEF PopPC
  <2> QED  BY <1>1, <1>2, <2>2, <2>3 DEF Phase
<1>8. opsDone <= opsDone'  BY <1>1, <1>2
<1>9. CASE \E n, x : Takes(w, w, n, x)  BY <1>1, <1>3, <1>5, <1>6, <1>7, <1>9, TakeKept
<1>10. CASE Calm /\ (dpc'[w] = "pop_cas" \/ (dpc'[w] = "done" /\ res'[w] = Nil /\ Limit(w)' = top'[w]))
  <2>1. EmptyPop(w)'  BY <1>10 DEF EmptyPop
  <2>2. Pushed(w)'  BY <1>1, <1>2, <1>10 DEF Pushed, Calm
  <2>3. dpc'[w] = "done" => res'[w] = Nil  BY <1>10
  <2> QED  BY <1>1, <1>3, <1>5, <1>6, <1>7, <1>8, <1>10, <2>1, <2>2, <2>3, QuietStep
<1> QED  BY <1>5, <1>9, <1>10

LEMMA StealStepKept == ASSUME NoWrap, IInv, NEW w \in Worker, StealStep(w) PROVE IInv'
<1>1. /\ act[w] = "steal" /\ Steal(w, arg[w])
      /\ cur' = cur /\ rootCont' = rootCont /\ act' = act /\ arg' = arg /\ destCont' = destCont
      /\ locked' = locked /\ finished' = finished /\ joiner' = joiner
      /\ handles' = handles /\ opsDone' = opsDone /\ spare' = spare
  BY DEF StealStep, runVars, endVars, descVars, progVars
<1>2. /\ SchedTypeOK /\ DequeInv /\ DequeTypeOK /\ Phase(w) /\ Pushed(w) /\ opsDone \in Nat /\ opsDone <= MaxOps
      /\ MaxOps \in Nat /\ \A u \in Worker : Pushed(u)
  BY Parts
<1>3. OthersRun(w)  BY <1>1 DEF OthersRun
<1>4. \A u \in Worker : Limit(u) <= MaxOps + 1
  <2>1. \A u \in Worker : Limit(u) \in Int  BY <1>2, DequeFacts
  <2> QED  BY <1>2, <2>1 DEF Pushed
<1>5. /\ DequeInv' /\ OthersOp(w) /\ dpc[w] \in StealPC
      /\ \/ Calm /\ dpc'[w] \in StealPC
         \/ Calm /\ dpc'[w] = "done" /\ res'[w] = Nil
         \/ \E v, n, x : Takes(w, v, n, x)
  BY <1>1, <1>2, <1>4, StealSteps
<1>6. SchedTypeOK'  BY <1>1, <1>2 DEF SchedTypeOK
<1>7. Phase(w)'
  <2>1. dpc'[w] \in StealPC \cup {"done"}  BY <1>5 DEF Takes
  <2> QED  BY <1>1, <1>2, <2>1 DEF Phase, LeaveActs
<1>8. opsDone <= opsDone'  BY <1>1, <1>2
<1>9. CASE \E v, n, x : Takes(w, v, n, x)  BY <1>1, <1>3, <1>5, <1>6, <1>7, <1>9, TakeKept
<1>10. CASE Calm /\ (dpc'[w] \in StealPC \/ (dpc'[w] = "done" /\ res'[w] = Nil))
  <2>1. EmptyPop(w)'  BY <1>1 DEF EmptyPop
  <2>2. Pushed(w)'  BY <1>1, <1>2, <1>10 DEF Pushed, Calm
  <2>3. dpc'[w] = "done" => res'[w] = Nil  BY <1>10 DEF StealPC
  <2> QED  BY <1>1, <1>3, <1>5, <1>6, <1>7, <1>8, <1>10, <2>1, <2>2, <2>3, QuietStep
<1> QED  BY <1>5, <1>9, <1>10

\* A worker's switch: the task it ran goes to one place outside of the worker,
\* the result of the pop runs, all others stay.
LEMMA SwitchTasks ==
    ASSUME NEW w \in Worker, Once, OthersOp(w), OthersRun(w), dpc[w] = "done", dpc'[w] = "idle", cur'[w] = NextTask(w),
           NEW y \in Task, y = cur[w], NEW r \in Task \cup {Nil}, r = res[w],
           NEW k, NEW x, NEW i, k \notin {"run", "res"},
           \A u \in Worker : \A j, t : Has(u, j, t)' /\ ~ Has(u, j, t) => t = y /\ k = "deque" /\ u = x /\ j = i,
           \A d \in Desc : joiner'[d] # joiner[d] => joiner'[d] = y /\ k = "join" /\ d = x /\ i = 0,
           destCont' # destCont => destCont' = y /\ k = "dest" /\ x = Nil /\ i = 0
    PROVE  /\ Lands(y, k, x, i)
           /\ Once'
           /\ \A d \in Desc : Nowhere(d) => Nowhere(d)'
<1>1. In(y, "run", w, 0)  BY DEF In
<1>2. r \in Task => In(r, "res", w, 0)  BY DEF In
<1>3. r # y  BY <1>1, <1>2 DEF Once
<1>4. cur'[w] = (IF r = Nil THEN w ELSE r) /\ cur'[w] # y
  <2>1. w # y  BY TaskFacts
  <2> QED  BY <1>3, <2>1 DEF NextTask, PoppedRoot
<1>5. ASSUME NEW t \in Task, NEW l, NEW z, NEW h, In(t, l, z, h)', ~ In(t, l, z, h)
      PROVE  (t = r /\ l = "run" /\ z = w /\ h = 0) \/ (t = y /\ l = k /\ z = x /\ h = i)
  <2>1. \/ l = "run" /\ z = w /\ h = 0 /\ cur'[w] = t
        \/ l = "res" /\ z = w /\ h = 0 /\ dpc'[w] = "done" /\ res'[w] = t
        \/ l = "deque" /\ z \in Worker /\ Has(z, h, t)' /\ ~ Has(z, h, t)
        \/ l = "join" /\ z \in Desc /\ h = 0 /\ joiner'[z] = t /\ joiner[z] # t
        \/ l = "dest" /\ z = Nil /\ h = 0 /\ destCont' = t /\ destCont # t
    BY <1>5, NewPlaces
  <2>2. t # w  BY TaskFacts
  <2>3. CASE l = "run" /\ z = w /\ h = 0 /\ cur'[w] = t  BY <1>4, <2>2, <2>3
  <2>4. CASE l = "join" /\ z \in Desc /\ h = 0 /\ joiner'[z] = t /\ joiner[z] # t  BY <2>4
  <2>5. CASE l = "dest" /\ z = Nil /\ h = 0 /\ destCont' = t /\ destCont # t  BY <2>5
  <2>6. CASE l = "deque" /\ z \in Worker /\ Has(z, h, t)' /\ ~ Has(z, h, t)  BY <2>6
  <2>7. CASE l = "res" /\ z = w /\ h = 0 /\ dpc'[w] = "done" /\ res'[w] = t  BY <2>7
  <2> QED  BY <2>1, <2>3, <2>4, <2>5, <2>6, <2>7
<1>6. \A t \in Task \ {y, r} : Stay(t)  BY <1>5 DEF Stay
<1>7. Lands(y, k, x, i)
  <2>1. ~ In(y, "run", w, 0)'  BY <1>4 DEF In
  <2>2. \A m, z, h : In(y, m, z, h)' => In(y, m, z, h) \/ (m = k /\ z = x /\ h = i)  BY <1>3, <1>5
  <2> QED  BY <1>1, <2>1, <2>2, Moved
<1>8. ASSUME r \in Task PROVE Lands(r, "run", w, 0)
  <2>1. ~ In(r, "res", w, 0)'  BY DEF In
  <2>2. \A m, z, h : In(r, m, z, h)' => In(r, m, z, h) \/ (m = "run" /\ z = w /\ h = 0)  BY <1>3, <1>5, <1>8
  <2> QED  BY <1>2, <1>8, <2>1, <2>2, Moved
<1>9. Once'
  <2>1. \A t \in Task : Stay(t) \/ \E m, z, h : Lands(t, m, z, h)  BY <1>6, <1>7, <1>8
  <2> QED  BY <2>1, OnceKept
<1>10. \A d \in Desc : Nowhere(d) => Nowhere(d)'
  <2>1. ~ Nowhere(y) /\ (r \in Task => ~ Nowhere(r))  BY <1>1, <1>2 DEF Nowhere
  <2> QED  BY <1>6, <2>1, TaskFacts DEF Nowhere, Stay
<1> QED  BY <1>7, <1>9, <1>10

\* The state of a worker after its switch.
LEMMA SwitchWorker ==
    ASSUME NoWrap, IInv, NEW w \in Worker, act[w] \in LeaveActs, SwitchTo(w), DequeInv', opsDone' = opsDone,
           Limit(w)' <= 1 + opsDone
    PROVE  /\ WorkerOK(w)' /\ OthersRun(w) /\ dpc'[w] = "idle" /\ dpc[w] = "done"
           /\ cur[w] \in Task /\ res[w] \in Task \cup {Nil} /\ cur'[w] = NextTask(w)
           /\ cur' \in [Worker -> Task \cup Worker] /\ rootCont' \in [Worker -> BOOLEAN]
           /\ act' \in [Worker -> Acts] /\ arg' \in [Worker -> Desc \cup Worker \cup {Nil}]
           /\ OthersArg(w)
<1>1. SchedTypeOK /\ DequeTypeOK /\ Phase(w) /\ Pushed(w)  BY Parts
<1>2. /\ dpc[w] = "done" /\ Taken(w)
      /\ cur' = [cur EXCEPT ![w] = NextTask(w)] /\ rootCont' = [rootCont EXCEPT ![w] = rootCont[w] /\ ~ PoppedRoot(w)]
      /\ act' = [act EXCEPT ![w] = IF PoppedRoot(w) THEN "loop" ELSE "run"] /\ arg' = [arg EXCEPT ![w] = Nil]
  BY DEF SwitchTo
<1>3. cur[w] \in Task /\ res[w] \in Task \cup {Nil} /\ rootCont[w] /\ rootCont[w] \in BOOLEAN
  BY <1>1 DEF Phase, LeaveActs, DequeTypeOK, SchedTypeOK
<1>4. NextTask(w) \in Task \cup Worker  BY <1>3 DEF NextTask, PoppedRoot
<1>5. /\ cur' \in [Worker -> Task \cup Worker]
      /\ act' \in [Worker -> Acts] /\ arg' \in [Worker -> Desc \cup Worker \cup {Nil}]
  BY <1>1, <1>2, <1>4 DEF SchedTypeOK, Acts
<1>6. rootCont' \in [Worker -> BOOLEAN]  BY <1>1, <1>2 DEF SchedTypeOK
<1>7. cur'[w] = NextTask(w) /\ act'[w] = (IF PoppedRoot(w) THEN "loop" ELSE "run") /\ dpc'[w] = "idle"
  BY <1>1, <1>2 DEF SchedTypeOK, DequeTypeOK, Taken
<1>8. rootCont'[w] = (rootCont[w] /\ ~ PoppedRoot(w))  BY <1>1, <1>2 DEF SchedTypeOK
<1>9. OthersRun(w) /\ OthersArg(w)  BY <1>1, <1>2 DEF OthersRun, OthersArg, SchedTypeOK
<1>10. Phase(w)'
  <2>1. CASE res[w] = Nil
    <3>1. cur'[w] = w /\ act'[w] = "loop"  BY <1>7, <2>1 DEF NextTask, PoppedRoot
    <3> QED  BY <1>7, <3>1, TaskFacts DEF Phase, LeaveActs
  <2>2. CASE res[w] # Nil
    <3>1. cur'[w] \in Task /\ act'[w] = "run" /\ rootCont'[w]  BY <1>3, <1>7, <1>8, <2>2 DEF NextTask, PoppedRoot
    <3> QED  BY <1>7, <3>1 DEF Phase, LeaveActs
  <2> QED  BY <2>1, <2>2
<1>11. EmptyPop(w)'  BY <1>7 DEF EmptyPop
<1>12. Pushed(w)'  BY <1>7 DEF Pushed
<1> QED  BY <1>2, <1>3, <1>5, <1>6, <1>7, <1>9, <1>10, <1>11, <1>12 DEF WorkerOK

\* A switch without a push: where the task goes is not a deque.
LEMMA SwitchKept ==
    ASSUME NoWrap, IInv, NEW w \in Worker, act[w] \in LeaveActs, SwitchTo(w),
           top' = top, bottom' = bottom, elems' = elems, sb' = sb, own' = own, opsDone' = opsDone,
           SchedTypeOK', spare' = spare, handles' = handles,
           NEW k, NEW x, k \notin {"run", "res", "deque"},
           \A d \in Desc : joiner'[d] # joiner[d] => joiner'[d] = cur[w] /\ k = "join" /\ d = x,
           destCont' # destCont => destCont' = cur[w] /\ k = "dest" /\ x = Nil,
           \A d \in Desc : d \in finished' <=> d \in finished \/ (d = cur[w] /\ k = "none")
    PROVE  IInv'
<1>1. /\ SchedTypeOK /\ DequeInv /\ DequeTypeOK /\ Once /\ Stacks /\ opsDone \in Nat /\ Pushed(w)
      /\ \A v \in Worker : WorkerOK(v)
  BY Parts
<1>2. dpc[w] = "done" /\ Taken(w)  BY DEF SwitchTo
<1>3. OthersArg(w)  BY <1>1 DEF SwitchTo, OthersArg, SchedTypeOK
<1>4. DequeInv' /\ Calm /\ OthersOp(w)  BY <1>1, <1>2, <1>3, TakenStep
<1>5. Limit(w)' <= 1 + opsDone  BY <1>1, <1>4 DEF Calm, Pushed
<1>6. /\ WorkerOK(w)' /\ OthersRun(w) /\ dpc'[w] = "idle"
      /\ cur[w] \in Task /\ res[w] \in Task \cup {Nil} /\ cur'[w] = NextTask(w)
  BY <1>4, <1>5, SwitchWorker
<1>7. \A v \in Worker : Keeps(v) /\ Limit(v)' <= Limit(v)
  <2>1. \A v \in Worker : Limit(v) \in Int  BY <1>1, DequeFacts
  <2> QED  BY <1>4, <2>1 DEF Calm
<1>8. opsDone' \in Nat /\ opsDone <= opsDone'  BY <1>1
<1>9. \A v \in Worker : WorkerOK(v)'  BY <1>1, <1>4, <1>6, <1>7, <1>8, WorkersKept
<1>10. PICK y \in Task : y = cur[w]  BY <1>6
<1>11. PICK r \in Task \cup {Nil} : r = res[w]  BY <1>6
<1>12. /\ Lands(y, k, x, 0) /\ Once' /\ \A d \in Desc : Nowhere(d) => Nowhere(d)'
  <2>1. \A u \in Worker : \A j, t : ~ (Has(u, j, t)' /\ ~ Has(u, j, t))  BY <1>4 DEF Calm
  <2>2. \A d \in Desc : joiner'[d] # joiner[d] => joiner'[d] = y /\ k = "join" /\ d = x /\ 0 = 0  BY <1>10
  <2>3. destCont' # destCont => destCont' = y /\ k = "dest" /\ x = Nil /\ 0 = 0  BY <1>10
  <2> QED  BY <1>1, <1>2, <1>4, <1>6, <1>10, <1>11, <2>1, <2>2, <2>3, SwitchTasks
<1>13. Stacks'
  <2>1. k = "none" => Nowhere(y)'
    <3>1. \A l, z, j : In(y, l, z, j)' => l # "none"  BY DEF In
    <3> QED  BY <1>12, <3>1 DEF Lands, Nowhere
  <2>2. ASSUME NEW d \in Desc, d \in finished' PROVE Nowhere(d)'  BY <1>1, <1>10, <1>12, <2>1, <2>2 DEF Stacks
  <2>3. ASSUME NEW d \in Desc, d \in spare PROVE d \notin handles /\ Nowhere(d)'  BY <1>1, <1>12, <2>3 DEF Stacks
  <2>4. ASSUME NEW d \in Desc, d \notin spare \cup handles PROVE d \in finished'  BY <1>1, <2>4 DEF Stacks
  <2> QED  BY <2>2, <2>3, <2>4 DEF Stacks
<1> QED  BY <1>4, <1>9, <1>12, <1>13 DEF IInv

LEMMA SwitchJoinKept == ASSUME NoWrap, IInv, NEW w \in Worker, SwitchJoin(w) PROVE IInv'
<1>1. /\ act[w] = "join" /\ SwitchTo(w) /\ joiner' = [joiner EXCEPT ![arg[w]] = cur[w]] /\ locked' = locked \ {arg[w]}
      /\ top' = top /\ bottom' = bottom /\ elems' = elems /\ sb' = sb /\ own' = own
      /\ destCont' = destCont /\ finished' = finished /\ handles' = handles /\ opsDone' = opsDone /\ spare' = spare
  BY DEF SwitchJoin, endVars, progVars
<1>2. SchedTypeOK /\ DequeTypeOK /\ DequeInv /\ Phase(w) /\ Pushed(w)  BY Parts
<1>3. cur[w] = Main /\ arg[w] \in Desc /\ act[w] \in LeaveActs  BY <1>1, <1>2 DEF Phase, LeaveActs
<1>4. SchedTypeOK'
  <2>1. joiner' \in [Desc -> {Main, Nil}] /\ locked' \subseteq Desc  BY <1>1, <1>2, <1>3 DEF SchedTypeOK
  <2>2. res[w] \in Task \cup {Nil}  BY <1>2 DEF DequeTypeOK
  <2>3. /\ cur' \in [Worker -> Task \cup Worker] /\ act' \in [Worker -> Acts]
        /\ arg' \in [Worker -> Desc \cup Worker \cup {Nil}] /\ rootCont' \in [Worker -> BOOLEAN]
    BY <1>1, <1>2, <2>2 DEF SchedTypeOK, SwitchTo, NextTask, PoppedRoot, Acts
  <2> QED  BY <1>1, <1>2, <2>1, <2>3 DEF SchedTypeOK
<1>5. PICK a \in Desc : a = arg[w]  BY <1>3
<1>6. \A d \in Desc : joiner'[d] # joiner[d] => joiner'[d] = cur[w] /\ d = a  BY <1>1, <1>2, <1>5 DEF SchedTypeOK
<1> QED  BY <1>1, <1>3, <1>4, <1>6, SwitchKept

LEMMA SwitchExitKept == ASSUME NoWrap, IInv, NEW w \in Worker, SwitchExit(w) PROVE IInv'
<1>1. /\ act[w] = "exit" /\ SwitchTo(w) /\ finished' = finished \cup {cur[w]} /\ locked' = locked \ {cur[w]}
      /\ top' = top /\ bottom' = bottom /\ elems' = elems /\ sb' = sb /\ own' = own
      /\ destCont' = destCont /\ joiner' = joiner /\ handles' = handles /\ opsDone' = opsDone /\ spare' = spare
  BY DEF SwitchExit, endVars, progVars
<1>2. SchedTypeOK /\ DequeTypeOK /\ DequeInv /\ Phase(w) /\ Pushed(w)  BY Parts
<1>3. cur[w] \in Desc /\ act[w] \in LeaveActs  BY <1>1, <1>2 DEF Phase, LeaveActs
<1>4. SchedTypeOK'
  <2>1. finished' \subseteq Desc /\ locked' \subseteq Desc  BY <1>1, <1>2, <1>3 DEF SchedTypeOK
  <2>2. res[w] \in Task \cup {Nil}  BY <1>2 DEF DequeTypeOK
  <2>3. /\ cur' \in [Worker -> Task \cup Worker] /\ act' \in [Worker -> Acts]
        /\ arg' \in [Worker -> Desc \cup Worker \cup {Nil}] /\ rootCont' \in [Worker -> BOOLEAN]
    BY <1>1, <1>2, <2>2 DEF SchedTypeOK, SwitchTo, NextTask, PoppedRoot, Acts
  <2> QED  BY <1>1, <1>2, <2>1, <2>3 DEF SchedTypeOK
<1>5. PICK k : k = "none"  OBVIOUS
<1>6. k \notin {"run", "res", "deque"}  BY <1>5
<1>7. \A d \in Desc : d \in finished' <=> d \in finished \/ (d = cur[w] /\ k = "none")  BY <1>1, <1>5
<1> QED  BY <1>1, <1>3, <1>4, <1>6, <1>7, SwitchKept

LEMMA SwitchEndKept == ASSUME NoWrap, IInv, NEW w \in Worker, SwitchEnd(w) PROVE IInv'
<1>1. /\ act[w] = "end" /\ SwitchTo(w) /\ destCont' = cur[w] /\ locked' = locked /\ finished' = finished
      /\ top' = top /\ bottom' = bottom /\ elems' = elems /\ sb' = sb /\ own' = own
      /\ joiner' = joiner /\ handles' = handles /\ opsDone' = opsDone /\ spare' = spare
  BY DEF SwitchEnd, descVars, progVars
<1>2. SchedTypeOK /\ DequeTypeOK /\ DequeInv /\ Phase(w) /\ Pushed(w)  BY Parts
<1>3. cur[w] = Main /\ act[w] \in LeaveActs  BY <1>1, <1>2 DEF Phase, LeaveActs
<1>4. SchedTypeOK'
  <2>1. res[w] \in Task \cup {Nil}  BY <1>2 DEF DequeTypeOK
  <2>2. /\ cur' \in [Worker -> Task \cup Worker] /\ act' \in [Worker -> Acts]
        /\ arg' \in [Worker -> Desc \cup Worker \cup {Nil}] /\ rootCont' \in [Worker -> BOOLEAN]
    BY <1>1, <1>2, <2>1 DEF SchedTypeOK, SwitchTo, NextTask, PoppedRoot, Acts
  <2> QED  BY <1>1, <1>2, <1>3, <2>2 DEF SchedTypeOK
<1>5. \A d \in Desc : d \in finished' <=> d \in finished \/ (d = cur[w] /\ "dest" = "none")  BY <1>1
<1> QED  BY <1>1, <1>3, <1>4, <1>5, SwitchKept

LEMMA SwitchYieldKept == ASSUME NoWrap, IInv, NEW w \in Worker, SwitchYield(w) PROVE IInv'
<1>1. /\ act[w] = "yield" /\ SwitchTo(w) /\ Push(w, cur[w]) /\ destCont' = destCont /\ locked' = locked
      /\ finished' = finished /\ joiner' = joiner /\ handles' = handles /\ opsDone' = opsDone /\ spare' = spare
  BY DEF SwitchYield, endVars, descVars, progVars
<1>2. /\ SchedTypeOK /\ DequeInv /\ DequeTypeOK /\ Once /\ Stacks /\ opsDone \in Nat /\ opsDone <= MaxOps
      /\ MaxOps \in Nat /\ Phase(w) /\ Pushed(w) /\ \A v \in Worker : WorkerOK(v)
  BY Parts
<1>3. PICK y \in Task : y = cur[w]  BY <1>1, <1>2 DEF Phase
<1>4. PICK n \in Int : n = Limit(w)  BY <1>2, DequeFacts
<1>5. dpc[w] = "done" /\ Taken(w) /\ OthersArg(w)  BY <1>1, <1>2 DEF SwitchTo, OthersArg, SchedTypeOK
<1>6. Limit(w) <= MaxOps /\ n <= opsDone  BY <1>1, <1>2, <1>4 DEF Pushed
<1>7. DequeInv' /\ Adds(w, n, y) /\ OthersOp(w)
  <2>1. Push(w, y)  BY <1>1, <1>3
  <2>2. DequeInv' /\ Adds(w, Limit(w), y) /\ OthersOp(w)  BY <1>2, <1>5, <1>6, <2>1, PushStep
  <2> QED  BY <1>4, <2>2
<1>8. Limit(w)' <= 1 + opsDone  BY <1>2, <1>6, <1>7 DEF Adds
<1>9. act[w] \in LeaveActs  BY <1>1 DEF LeaveActs
<1>10. /\ WorkerOK(w)' /\ OthersRun(w) /\ dpc'[w] = "idle" /\ res[w] \in Task \cup {Nil} /\ cur'[w] = NextTask(w)
       /\ cur' \in [Worker -> Task \cup Worker] /\ rootCont' \in [Worker -> BOOLEAN]
       /\ act' \in [Worker -> Acts] /\ arg' \in [Worker -> Desc \cup Worker \cup {Nil}]
  BY <1>1, <1>7, <1>8, <1>9, SwitchWorker
<1>11. SchedTypeOK'  BY <1>1, <1>2, <1>10 DEF SchedTypeOK
<1>12. (\A v \in Worker : Keeps(v)) /\ \A v \in Worker \ {w} : Limit(v)' <= Limit(v)
  <2>1. \A v \in Worker : Limit(v) \in Int  BY <1>2, DequeFacts
  <2> QED  BY <1>7, <2>1 DEF Adds
<1>13. opsDone' \in Nat /\ opsDone <= opsDone'  BY <1>1, <1>2
<1>14. \A v \in Worker : WorkerOK(v)'  BY <1>2, <1>7, <1>10, <1>12, <1>13, WorkersKept
<1>15. PICK r \in Task \cup {Nil} : r = res[w]  BY <1>10
<1>16. Once' /\ \A d \in Desc : Nowhere(d) => Nowhere(d)'
  <2>1. \A u \in Worker : \A j, t : Has(u, j, t)' /\ ~ Has(u, j, t) => t = y /\ "deque" = "deque" /\ u = w /\ j = n
    BY <1>7 DEF Adds
  <2>2. "deque" \notin {"run", "res"}  OBVIOUS
  <2> QED  BY <1>1, <1>2, <1>3, <1>5, <1>7, <1>10, <1>15, <2>1, <2>2, SwitchTasks
<1>17. Stacks'  BY <1>1, <1>2, <1>16 DEF Stacks
<1> QED  BY <1>7, <1>11, <1>14, <1>16, <1>17 DEF IInv

LEMMA SwitchRefusedKept == ASSUME NoWrap, IInv, NEW w \in Worker, SwitchRefused(w) PROVE IInv'
<1>1. /\ act[w] = "wait" /\ PutBack(w) /\ act' = [act EXCEPT ![w] = "run"] /\ Taken(w) /\ cur' = cur /\ arg' = arg
      /\ rootCont' = rootCont /\ destCont' = destCont /\ locked' = locked /\ dpc[w] = "done"
      /\ finished' = finished /\ joiner' = joiner /\ handles' = handles /\ opsDone' = opsDone /\ spare' = spare
  BY DEF SwitchRefused, PutBack, endVars, descVars, progVars
<1>2. /\ SchedTypeOK /\ DequeInv /\ DequeTypeOK /\ Once /\ Stacks /\ opsDone \in Nat /\ opsDone <= MaxOps
      /\ MaxOps \in Nat /\ Phase(w) /\ Pushed(w) /\ \A v \in Worker : WorkerOK(v)
  BY Parts
<1>3. OthersRun(w) /\ OthersArg(w) /\ act'[w] = "run"  BY <1>1, <1>2 DEF OthersRun, OthersArg, SchedTypeOK
<1>4. SchedTypeOK'  BY <1>1, <1>2 DEF SchedTypeOK, Acts
<1>5. dpc'[w] = "idle"  BY <1>1, <1>2 DEF Taken, DequeTypeOK
<1>6. Phase(w)'  BY <1>1, <1>2, <1>3, <1>5 DEF Phase, LeaveActs
<1>7. EmptyPop(w)'  BY <1>5 DEF EmptyPop
<1>8. opsDone <= opsDone' /\ opsDone' \in Nat  BY <1>1, <1>2
<1>9. CASE res[w] = Nil
  <2>1. top' = top /\ bottom' = bottom /\ elems' = elems /\ sb' = sb /\ own' = own  BY <1>1, <1>9 DEF PutBack, PoppedRoot
  <2>2. DequeInv' /\ Calm /\ OthersOp(w)  BY <1>1, <1>2, <1>3, <2>1, TakenStep
  <2>3. Pushed(w)'  BY <1>1, <1>2, <1>3, <2>2 DEF Pushed, Calm
  <2> QED  BY <1>1, <1>3, <1>4, <1>5, <1>6, <1>7, <1>8, <2>2, <2>3, QuietStep
<1>10. CASE res[w] # Nil
  <2>1. PICK x \in Task : x = res[w]  BY <1>2, <1>10 DEF DequeTypeOK
  <2>2. PICK n \in Int : n = Limit(w)  BY <1>2, DequeFacts
  <2>3. Push(w, x)  BY <1>1, <1>10, <2>1 DEF PutBack, PoppedRoot
  <2>4. Limit(w) <= MaxOps /\ n <= opsDone  BY <1>1, <1>2, <2>2 DEF Pushed
  <2>5. DequeInv' /\ Adds(w, n, x) /\ OthersOp(w)
    <3>1. DequeInv' /\ Adds(w, Limit(w), x) /\ OthersOp(w)  BY <1>1, <1>2, <1>3, <2>3, <2>4, PushStep
    <3> QED  BY <2>2, <3>1
  <2>6. Pushed(w)'
    <3>1. Limit(w)' <= 1 + opsDone  BY <1>2, <2>4, <2>5 DEF Adds
    <3> QED  BY <1>1, <1>3, <3>1 DEF Pushed
  <2>7. WorkerOK(w)'  BY <1>6, <1>7, <2>6 DEF WorkerOK
  <2>8. (\A v \in Worker : Keeps(v)) /\ \A v \in Worker \ {w} : Limit(v)' <= Limit(v)
    <3>1. \A v \in Worker : Limit(v) \in Int  BY <1>2, DequeFacts
    <3> QED  BY <2>5, <3>1 DEF Adds
  <2>9. \A v \in Worker : WorkerOK(v)'  BY <1>2, <1>3, <1>8, <2>5, <2>7, <2>8, WorkersKept
  <2>10. ASSUME NEW t \in Task, NEW l, NEW y, NEW j, In(t, l, y, j)', ~ In(t, l, y, j)
         PROVE  t = x /\ l = "deque" /\ y = w /\ j = n
    <3>1. \/ l = "run" /\ y = w /\ j = 0 /\ cur'[w] = t
          \/ l = "res" /\ y = w /\ j = 0 /\ dpc'[w] = "done" /\ res'[w] = t
          \/ l = "deque" /\ y \in Worker /\ Has(y, j, t)' /\ ~ Has(y, j, t)
          \/ l = "join" /\ y \in Desc /\ j = 0 /\ joiner'[y] = t /\ joiner[y] # t
          \/ l = "dest" /\ y = Nil /\ j = 0 /\ destCont' = t /\ destCont # t
      BY <1>3, <2>5, <2>10, NewPlaces
    <3>2. CASE l = "run" /\ y = w /\ j = 0 /\ cur'[w] = t  BY <1>1, <2>10, <3>2 DEF In
    <3>3. CASE l = "deque" /\ y \in Worker /\ Has(y, j, t)' /\ ~ Has(y, j, t)  BY <2>5, <3>3 DEF Adds
    <3> QED  BY <1>1, <1>5, <3>1, <3>2, <3>3
  <2>11. \A t \in Task \ {x} : Stay(t)  BY <2>10 DEF Stay
  <2>12. In(x, "res", w, 0) /\ ~ In(x, "res", w, 0)'  BY <1>1, <1>5, <2>1 DEF In
  <2>13. Lands(x, "deque", w, n)  BY <1>2, <2>10, <2>12, Moved
  <2>14. Once'
    <3>1. \A t \in Task : Stay(t) \/ \E k, z, i : Lands(t, k, z, i)  BY <2>11, <2>13
    <3> QED  BY <1>2, <3>1, OnceKept
  <2>15. Stacks'
    <3>1. ~ Nowhere(x)  BY <2>12 DEF Nowhere
    <3>2. \A e \in Desc : Nowhere(e) => Nowhere(e)'  BY <2>11, <3>1, TaskFacts DEF Nowhere, Stay
    <3> QED  BY <1>1, <1>2, <3>2 DEF Stacks
  <2> QED  BY <1>4, <2>5, <2>9, <2>14, <2>15 DEF IInv
<1> QED  BY <1>9, <1>10

LEMMA ExecuteKept == ASSUME NoWrap, IInv, NEW w \in Worker, Execute(w) PROVE IInv'
<1>1. /\ act[w] \in {"loop", "steal"} /\ dpc[w] = "done" /\ res[w] # Nil /\ cur' = [cur EXCEPT ![w] = res[w]]
      /\ rootCont' = [rootCont EXCEPT ![w] = TRUE] /\ act' = [act EXCEPT ![w] = "run"] /\ arg' = [arg EXCEPT ![w] = Nil]
      /\ Taken(w) /\ top' = top /\ bottom' = bottom /\ elems' = elems /\ sb' = sb /\ own' = own
      /\ destCont' = destCont /\ locked' = locked
      /\ finished' = finished /\ joiner' = joiner /\ handles' = handles /\ opsDone' = opsDone /\ spare' = spare
  BY DEF Execute, endVars, descVars, progVars
<1>2. /\ SchedTypeOK /\ DequeInv /\ DequeTypeOK /\ Once /\ Stacks /\ opsDone \in Nat
      /\ Phase(w) /\ Pushed(w) /\ \A v \in Worker : WorkerOK(v)
  BY Parts
<1>3. PICK x \in Task : x = res[w]  BY <1>1, <1>2 DEF DequeTypeOK
<1>4. OthersRun(w) /\ OthersArg(w) /\ act'[w] = "run" /\ cur'[w] = x /\ rootCont'[w]
  BY <1>1, <1>2, <1>3 DEF OthersRun, OthersArg, SchedTypeOK
<1>5. SchedTypeOK'  BY <1>1, <1>2, <1>3 DEF SchedTypeOK, Acts
<1>6. DequeInv' /\ Calm /\ OthersOp(w) /\ dpc'[w] = "idle"  BY <1>1, <1>2, <1>4, TakenStep
<1>7. WorkerOK(w)'
  <2>1. Phase(w)'  BY <1>4, <1>6 DEF Phase, LeaveActs
  <2>2. EmptyPop(w)'  BY <1>6 DEF EmptyPop
  <2>3. Pushed(w)'  BY <1>1, <1>2, <1>4, <1>6 DEF Pushed, Calm
  <2> QED  BY <2>1, <2>2, <2>3 DEF WorkerOK
<1>8. \A v \in Worker : Keeps(v) /\ Limit(v)' <= Limit(v)
  <2>1. \A v \in Worker : Limit(v) \in Int  BY <1>2, DequeFacts
  <2> QED  BY <1>6, <2>1 DEF Calm
<1>9. opsDone' \in Nat /\ opsDone <= opsDone'  BY <1>1, <1>2
<1>10. \A v \in Worker : WorkerOK(v)'  BY <1>2, <1>4, <1>6, <1>7, <1>8, <1>9, WorkersKept
<1>11. ASSUME NEW t \in Task, NEW l, NEW y, NEW j, In(t, l, y, j)', ~ In(t, l, y, j)
       PROVE  t = x /\ l = "run" /\ y = w /\ j = 0
  <2>1. \/ l = "run" /\ y = w /\ j = 0 /\ cur'[w] = t
        \/ l = "res" /\ y = w /\ j = 0 /\ dpc'[w] = "done" /\ res'[w] = t
        \/ l = "deque" /\ y \in Worker /\ Has(y, j, t)' /\ ~ Has(y, j, t)
        \/ l = "join" /\ y \in Desc /\ j = 0 /\ joiner'[y] = t /\ joiner[y] # t
        \/ l = "dest" /\ y = Nil /\ j = 0 /\ destCont' = t /\ destCont # t
    BY <1>4, <1>6, <1>11, NewPlaces
  <2> QED  BY <1>1, <1>4, <1>6, <2>1 DEF Calm
<1>12. \A t \in Task \ {x} : Stay(t)  BY <1>11 DEF Stay
<1>13. In(x, "res", w, 0) /\ ~ In(x, "res", w, 0)'  BY <1>1, <1>3, <1>6 DEF In
<1>14. Lands(x, "run", w, 0)  BY <1>2, <1>11, <1>13, Moved
<1>15. Once'
  <2>1. \A t \in Task : Stay(t) \/ \E k, z, i : Lands(t, k, z, i)  BY <1>12, <1>14
  <2> QED  BY <1>2, <2>1, OnceKept
<1>16. Stacks'
  <2>1. ~ Nowhere(x)  BY <1>13 DEF Nowhere
  <2>2. \A e \in Desc : Nowhere(e) => Nowhere(e)'  BY <1>12, <2>1, TaskFacts DEF Nowhere, Stay
  <2> QED  BY <1>1, <1>2, <2>2 DEF Stacks
<1> QED  BY <1>5, <1>6, <1>10, <1>15, <1>16 DEF IInv

LEMMA ForkKept == ASSUME NoWrap, IInv, NEW w \in Worker, Fork(w) PROVE IInv'
<1>1. PICK d \in spare : /\ spare' = spare \ {d} /\ finished' = finished \ {d}
                         /\ cur' = [cur EXCEPT ![w] = d] /\ handles' = handles \cup {d}
  BY DEF Fork
<1>2. /\ act[w] = "run" /\ cur[w] = Main /\ opsDone < MaxOps /\ opsDone' = opsDone + 1 /\ Push(w, Main)
      /\ UNCHANGED ops /\ rootCont' = rootCont /\ act' = act /\ arg' = arg /\ destCont' = destCont
      /\ locked' = locked /\ joiner' = joiner
  BY DEF Fork, Runs, endVars
<1>3. /\ SchedTypeOK /\ DequeInv /\ DequeTypeOK /\ Once /\ Stacks /\ opsDone \in Nat /\ MaxOps \in Nat
      /\ Phase(w) /\ Pushed(w) /\ \A v \in Worker : WorkerOK(v)
  BY Parts
<1>4. d \in Desc /\ d \in Task /\ Main \in Task /\ d # Main  BY <1>3, TaskFacts DEF SchedTypeOK
<1>5. OthersRun(w) /\ OthersArg(w) /\ cur'[w] = d  BY <1>1, <1>2, <1>3 DEF OthersRun, OthersArg, SchedTypeOK
<1>6. SchedTypeOK'  BY <1>1, <1>2, <1>3, <1>4 DEF SchedTypeOK
<1>7. PICK n \in Int : n = Limit(w)  BY <1>3, DequeFacts
<1>8. Limit(w) <= MaxOps /\ n <= 1 + opsDone  BY <1>2, <1>3, <1>7 DEF Pushed
<1>9. dpc[w] = "idle"  BY <1>2, <1>3 DEF Phase
<1>10. DequeInv' /\ Adds(w, n, Main) /\ OthersOp(w)
  <2>1. DequeInv' /\ Adds(w, Limit(w), Main) /\ OthersOp(w)  BY <1>2, <1>3, <1>4, <1>5, <1>8, <1>9, PushStep
  <2> QED  BY <1>7, <2>1
<1>11. dpc'[w] = "idle" /\ res' = res  BY <1>2, <1>9 DEF ops
<1>12. WorkerOK(w)'
  <2>1. Phase(w)'  BY <1>2, <1>3, <1>4, <1>5, <1>11, TaskFacts DEF Phase, LeaveActs
  <2>2. EmptyPop(w)'  BY <1>11 DEF EmptyPop
  <2>3. Pushed(w)'
    <3>1. Limit(w)' = n + 1  BY <1>10 DEF Adds
    <3>2. n + 1 <= 1 + (opsDone + 1)  BY <1>3, <1>8
    <3> QED  BY <1>2, <3>1, <3>2 DEF Pushed
  <2> QED  BY <2>1, <2>2, <2>3 DEF WorkerOK
<1>13. (\A v \in Worker : Keeps(v)) /\ \A v \in Worker \ {w} : Limit(v)' <= Limit(v)
  <2>1. \A v \in Worker : Limit(v) \in Int  BY <1>3, DequeFacts
  <2> QED  BY <1>10, <2>1 DEF Adds
<1>14. opsDone' \in Nat /\ opsDone <= opsDone'  BY <1>2, <1>3
<1>15. \A v \in Worker : WorkerOK(v)'  BY <1>3, <1>5, <1>10, <1>12, <1>13, <1>14, WorkersKept
<1>16. ASSUME NEW t \in Task, NEW l, NEW y, NEW j, In(t, l, y, j)', ~ In(t, l, y, j)
       PROVE  (t = Main /\ l = "deque" /\ y = w /\ j = n) \/ (t = d /\ l = "run" /\ y = w /\ j = 0)
  <2>1. \/ l = "run" /\ y = w /\ j = 0 /\ cur'[w] = t
        \/ l = "res" /\ y = w /\ j = 0 /\ dpc'[w] = "done" /\ res'[w] = t
        \/ l = "deque" /\ y \in Worker /\ Has(y, j, t)' /\ ~ Has(y, j, t)
        \/ l = "join" /\ y \in Desc /\ j = 0 /\ joiner'[y] = t /\ joiner[y] # t
        \/ l = "dest" /\ y = Nil /\ j = 0 /\ destCont' = t /\ destCont # t
    BY <1>5, <1>10, <1>16, NewPlaces
  <2>2. CASE l = "deque" /\ y \in Worker /\ Has(y, j, t)' /\ ~ Has(y, j, t)  BY <1>10, <2>2 DEF Adds
  <2> QED  BY <1>2, <1>5, <1>11, <2>1, <2>2
<1>17. \A t \in Task \ {Main, d} : Stay(t)  BY <1>16 DEF Stay
<1>18. In(Main, "run", w, 0) /\ ~ In(Main, "run", w, 0)'  BY <1>2, <1>4, <1>5 DEF In
<1>19. Lands(Main, "deque", w, n)
  <2>1. \A m, z, h : In(Main, m, z, h)' => In(Main, m, z, h) \/ (m = "deque" /\ z = w /\ h = n)  BY <1>4, <1>16
  <2> QED  BY <1>3, <1>4, <1>18, <2>1, Moved
<1>20. Nowhere(d) /\ d \notin handles  BY <1>1, <1>3, <1>4 DEF Stacks
<1>21. Lands(d, "run", w, 0)  BY <1>4, <1>16, <1>20 DEF Lands, Nowhere
<1>22. Once'
  <2>1. \A t \in Task : Stay(t) \/ \E k, z, i : Lands(t, k, z, i)  BY <1>17, <1>19, <1>21
  <2> QED  BY <1>3, <2>1, OnceKept
<1>23. Stacks'
  <2>1. \A e \in Desc \ {d} : Nowhere(e) => Nowhere(e)'  BY <1>17, TaskFacts DEF Nowhere, Stay
  <2>2. ASSUME NEW e \in Desc
        PROVE  /\ e \in spare' => e \notin handles' /\ Nowhere(e)'
               /\ e \in finished' => Nowhere(e)'
               /\ e \notin spare' \cup handles' => e \in finished'
    <3>1. CASE e = d  BY <1>1, <3>1
    <3>2. CASE e # d  BY <1>1, <1>3, <2>1, <3>2 DEF Stacks
    <3> QED  BY <3>1, <3>2
  <2> QED  BY <2>2 DEF Stacks
<1> QED  BY <1>6, <1>10, <1>15, <1>22, <1>23 DEF IInv

LEMMA ExitToJoinerKept == ASSUME NoWrap, IInv, NEW w \in Worker, NEW d \in Desc, ExitToJoiner(w, d) PROVE IInv'
<1>1. /\ act[w] = "run" /\ cur[w] = d /\ joiner[d] # Nil /\ cur' = [cur EXCEPT ![w] = joiner[d]]
      /\ joiner' = [joiner EXCEPT ![d] = Nil] /\ finished' = finished \cup {d} /\ handles' = handles \ {d}
      /\ UNCHANGED dequeVars /\ rootCont' = rootCont /\ act' = act /\ arg' = arg /\ destCont' = destCont
      /\ locked' = locked /\ opsDone' = opsDone /\ spare' = spare
  BY DEF ExitToJoiner, Runs, endVars
<1>2. /\ SchedTypeOK /\ DequeInv /\ DequeTypeOK /\ Once /\ Stacks /\ opsDone \in Nat
      /\ Phase(w) /\ Pushed(w) /\ \A v \in Worker : WorkerOK(v)
  BY Parts
<1>3. joiner[d] = Main /\ Main \in Task /\ d \in Task /\ d # Main /\ Main # Nil
  BY <1>1, <1>2, TaskFacts DEF SchedTypeOK
<1>4. OthersRun(w) /\ cur'[w] = Main  BY <1>1, <1>2, <1>3 DEF OthersRun, SchedTypeOK
<1>5. SchedTypeOK'  BY <1>1, <1>2, <1>3 DEF SchedTypeOK
<1>6. DequeInv' /\ Calm /\ \A v \in Worker : SameOp(v)  BY <1>1, <1>2, StillStep
<1>7. OthersOp(w) /\ dpc'[w] = "idle"  BY <1>1, <1>2, <1>6 DEF OthersOp, SameOp, Phase
<1>8. WorkerOK(w)'
  <2>1. Phase(w)'  BY <1>1, <1>2, <1>3, <1>4, <1>7 DEF Phase, LeaveActs
  <2>2. EmptyPop(w)'  BY <1>7 DEF EmptyPop
  <2>3. Pushed(w)'  BY <1>1, <1>2, <1>6 DEF Pushed, Calm
  <2> QED  BY <2>1, <2>2, <2>3 DEF WorkerOK
<1>9. \A v \in Worker : Keeps(v) /\ Limit(v)' <= Limit(v)
  <2>1. \A v \in Worker : Limit(v) \in Int  BY <1>2, DequeFacts
  <2> QED  BY <1>6, <2>1 DEF Calm
<1>10. opsDone' \in Nat /\ opsDone <= opsDone'  BY <1>1, <1>2
<1>11. \A v \in Worker : WorkerOK(v)'  BY <1>2, <1>4, <1>6, <1>7, <1>8, <1>9, <1>10, WorkersKept
<1>12. ASSUME NEW t \in Task, NEW l, NEW y, NEW j, In(t, l, y, j)', ~ In(t, l, y, j)
       PROVE  t = Main /\ l = "run" /\ y = w /\ j = 0
  <2>1. \/ l = "run" /\ y = w /\ j = 0 /\ cur'[w] = t
        \/ l = "res" /\ y = w /\ j = 0 /\ dpc'[w] = "done" /\ res'[w] = t
        \/ l = "deque" /\ y \in Worker /\ Has(y, j, t)' /\ ~ Has(y, j, t)
        \/ l = "join" /\ y \in Desc /\ j = 0 /\ joiner'[y] = t /\ joiner[y] # t
        \/ l = "dest" /\ y = Nil /\ j = 0 /\ destCont' = t /\ destCont # t
    BY <1>4, <1>7, <1>12, NewPlaces
  <2>2. ~ (l = "join" /\ y \in Desc /\ joiner'[y] = t /\ joiner[y] # t)
    BY <1>1, <1>2, TaskFacts DEF SchedTypeOK
  <2> QED  BY <1>1, <1>4, <1>6, <1>7, <2>1, <2>2 DEF Calm
<1>13. \A t \in Task \ {Main} : Stay(t)  BY <1>12 DEF Stay
<1>14. In(Main, "join", d, 0) /\ ~ In(Main, "join", d, 0)'  BY <1>1, <1>2, <1>3 DEF In, SchedTypeOK
<1>15. Lands(Main, "run", w, 0)  BY <1>2, <1>3, <1>12, <1>14, Moved
<1>16. In(d, "run", w, 0) /\ ~ In(d, "run", w, 0)'  BY <1>1, <1>3, <1>4 DEF In
<1>17. Nowhere(d)'  BY <1>2, <1>3, <1>13, <1>16, Gone
<1>18. Once'
  <2>1. \A t \in Task : Stay(t) \/ \E k, z, i : Lands(t, k, z, i)  BY <1>13, <1>15
  <2> QED  BY <1>2, <2>1, OnceKept
<1>19. Stacks'
  <2>1. \A e \in Desc : Nowhere(e) => Nowhere(e)'  BY <1>13, TaskFacts DEF Nowhere, Stay
  <2> QED  BY <1>1, <1>2, <1>17, <2>1 DEF Stacks
<1> QED  BY <1>5, <1>6, <1>11, <1>18, <1>19 DEF IInv

LEMMA FinishKept == ASSUME NoWrap, IInv, Finish PROVE IInv'
<1>0. Root \in Worker  BY SchedAssumption
<1>1. /\ act[Root] = "stopped" /\ destCont # Nil /\ cur' = [cur EXCEPT ![Root] = destCont] /\ destCont' = Nil
      /\ act' = [act EXCEPT ![Root] = "over"] /\ UNCHANGED dequeVars /\ rootCont' = rootCont /\ arg' = arg
      /\ locked' = locked /\ finished' = finished /\ joiner' = joiner
      /\ handles' = handles /\ opsDone' = opsDone /\ spare' = spare
  BY <1>0 DEF Finish, descVars, progVars
<1>2. /\ SchedTypeOK /\ DequeInv /\ DequeTypeOK /\ Once /\ Stacks /\ opsDone \in Nat
      /\ Phase(Root) /\ Pushed(Root) /\ \A v \in Worker : WorkerOK(v)
  BY <1>0, Parts
<1>3. destCont = Main /\ Main \in Task /\ Main # Nil  BY <1>1, <1>2, TaskFacts DEF SchedTypeOK
<1>4. OthersRun(Root) /\ cur'[Root] = Main /\ act'[Root] = "over"
  BY <1>0, <1>1, <1>2, <1>3 DEF OthersRun, SchedTypeOK
<1>5. SchedTypeOK'  BY <1>0, <1>1, <1>2, <1>3 DEF SchedTypeOK, Acts
<1>6. DequeInv' /\ Calm /\ \A v \in Worker : SameOp(v)  BY <1>1, <1>2, StillStep
<1>7. OthersOp(Root) /\ dpc'[Root] = "idle"  BY <1>0, <1>1, <1>2, <1>6 DEF OthersOp, SameOp, Phase
<1>8. WorkerOK(Root)'
  <2>1. Phase(Root)'  BY <1>3, <1>4, <1>7 DEF Phase, LeaveActs
  <2>2. EmptyPop(Root)'  BY <1>7 DEF EmptyPop
  <2>3. Pushed(Root)'  BY <1>0, <1>1, <1>2, <1>4, <1>6 DEF Pushed, Calm
  <2> QED  BY <2>1, <2>2, <2>3 DEF WorkerOK
<1>9. \A v \in Worker : Keeps(v) /\ Limit(v)' <= Limit(v)
  <2>1. \A v \in Worker : Limit(v) \in Int  BY <1>2, DequeFacts
  <2> QED  BY <1>6, <2>1 DEF Calm
<1>10. opsDone' \in Nat /\ opsDone <= opsDone'  BY <1>1, <1>2
<1>11. \A v \in Worker : WorkerOK(v)'  BY <1>0, <1>2, <1>4, <1>6, <1>7, <1>8, <1>9, <1>10, WorkersKept
<1>12. ASSUME NEW t \in Task, NEW l, NEW y, NEW j, In(t, l, y, j)', ~ In(t, l, y, j)
       PROVE  t = Main /\ l = "run" /\ y = Root /\ j = 0
  <2>1. \/ l = "run" /\ y = Root /\ j = 0 /\ cur'[Root] = t
        \/ l = "res" /\ y = Root /\ j = 0 /\ dpc'[Root] = "done" /\ res'[Root] = t
        \/ l = "deque" /\ y \in Worker /\ Has(y, j, t)' /\ ~ Has(y, j, t)
        \/ l = "join" /\ y \in Desc /\ j = 0 /\ joiner'[y] = t /\ joiner[y] # t
        \/ l = "dest" /\ y = Nil /\ j = 0 /\ destCont' = t /\ destCont # t
    BY <1>0, <1>4, <1>7, <1>12, NewPlaces
  <2>2. t # Nil  BY TaskFacts
  <2> QED  BY <1>1, <1>4, <1>6, <1>7, <2>1, <2>2 DEF Calm
<1>13. \A t \in Task \ {Main} : Stay(t)  BY <1>12 DEF Stay
<1>14. In(Main, "dest", Nil, 0) /\ ~ In(Main, "dest", Nil, 0)'  BY <1>1, <1>3 DEF In
<1>15. Lands(Main, "run", Root, 0)  BY <1>2, <1>3, <1>12, <1>14, Moved
<1>16. Once'
  <2>1. \A t \in Task : Stay(t) \/ \E k, z, i : Lands(t, k, z, i)  BY <1>13, <1>15
  <2> QED  BY <1>2, <2>1, OnceKept
<1>17. Stacks'
  <2>1. \A e \in Desc : Nowhere(e) => Nowhere(e)'  BY <1>13, TaskFacts DEF Nowhere, Stay
  <2> QED  BY <1>1, <1>2, <2>1 DEF Stacks
<1> QED  BY <1>5, <1>6, <1>11, <1>16, <1>17 DEF IInv

----------------------------------------------------------------------------
(* The invariant *)

LEMMA InitIInv == ASSUME NoWrap, Init PROVE IInv
<1>0. /\ Root \in Worker /\ MaxOps \in Nat /\ Size \in Nat /\ Size > 0
      /\ 0 \in Small /\ 1 \in Small /\ 0 \in Ix /\ 1 \in Ix /\ Val(0) = 0 /\ Val(1) = 1
  BY SchedAssumption, IxFacts DEF Small, Val
<1>1. /\ \A w \in Worker : /\ top[w] = 0 /\ sb[w] = <<>> /\ dpc[w] = "idle" /\ lb[w] = 0 /\ lt[w] = 0 /\ res[w] = Nil
                           /\ own[w] = bottom[w] /\ bottom[w] = (IF w = Root THEN 1 ELSE 0)
                           /\ cur[w] = w /\ act[w] = "loop"
      /\ destCont = Nil /\ finished = {} /\ handles = {} /\ opsDone = 0 /\ spare = Desc
      /\ \A d \in Desc : joiner[d] = Nil
  BY DEF Init, DequeInit
<1>11. \A w \in Worker : \A s \in 0 .. (Size - 1) : elems[w][s] = (IF w = Root /\ s = 0 THEN Main ELSE Nil)
  BY DEF Init, DequeInit
<1>2. DequeTypeOK
  <2>3. <<>> \in Seq(Stores) /\ "idle" \in DequePC  BY DEF DequePC
  <2>4. /\ top = [w \in Worker |-> 0] /\ own = bottom
        /\ bottom = [w \in Worker |-> IF w = Root THEN 1 ELSE 0]
        /\ elems = [w \in Worker |-> [s \in 0 .. (Size - 1) |-> IF w = Root /\ s = 0 THEN Main ELSE Nil]]
        /\ sb = [w \in Worker |-> <<>>] /\ dpc = [w \in Worker |-> "idle"] /\ lb = [w \in Worker |-> 0]
        /\ lt = [w \in Worker |-> 0] /\ res = [w \in Worker |-> Nil]
    BY DEF Init, DequeInit
  <2>5. bottom \in [Worker -> Ix]  BY <1>0, <2>4
  <2>6. elems \in [Worker -> [0 .. (Size - 1) -> Task \cup {Nil}]]  BY <2>4, TaskFacts
  <2> QED  BY <1>0, <2>3, <2>4, <2>5, <2>6 DEF DequeTypeOK
<1>3. ASSUME NEW w \in Worker
      PROVE  /\ Limit(w) = (IF w = Root THEN 1 ELSE 0) /\ DOMAIN sb[w] = {}
             /\ \A i, t : Has(w, i, t) <=> w = Root /\ i = 0 /\ t = Main
  <2>1. Limit(w) = (IF w = Root THEN 1 ELSE 0)  BY <1>0, <1>1 DEF Limit, PopPC
  <2>2. DOMAIN sb[w] = {}  BY <1>1
  <2>3. \A i : Settled(w, i)  BY <2>2 DEF Settled
  <2>4. Slot(0) = 0  BY <1>0 DEF Slot
  <2>5. \A i, t : Has(w, i, t) <=> i \in Int /\ 0 <= i /\ i < Limit(w) /\ elems[w][Slot(i)] = t
    BY <1>1, <2>2, <2>3 DEF Has
  <2>6. CASE w # Root
    <3>1. \A i \in Int : ~ (0 <= i /\ i < Limit(w))  BY <2>1, <2>6
    <3> QED  BY <2>1, <2>2, <2>5, <2>6, <3>1
  <2>7. CASE w = Root
    <3>1. \A i : (i \in Int /\ 0 <= i /\ i < Limit(w)) <=> i = 0  BY <2>1, <2>7
    <3>2. elems[w][Slot(0)] = Main
      <4>1. 0 \in 0 .. (Size - 1)  BY <1>0
      <4> QED  BY <1>11, <2>4, <2>7, <4>1
    <3> QED  BY <2>1, <2>2, <2>5, <2>7, <3>1, <3>2
  <2> QED  BY <2>6, <2>7
<1>4. ASSUME NEW w \in Worker PROVE DequeOK(w) /\ Stealing(w)
  <2>1. Val(bottom[w]) = Limit(w)  BY <1>0, <1>1, <1>3
  <2>2. Bounds(w)  BY <1>0, <1>1, <1>3, <2>1 DEF Bounds
  <2>3. LastStore(w) /\ Order(w)  BY <1>1, <1>3 DEF LastStore, Order
  <2>4. Filled(w)
    <3>1. ASSUME NEW i \in Int, 0 <= i, i < Limit(w) PROVE Has(w, i, Main)  BY <1>3, <3>1
    <3> QED  BY <1>1, <3>1, TaskFacts DEF Filled
  <2>5. Popping(w)  BY <1>1 DEF Popping, PopPC
  <2>6. Stealing(w)  BY <1>1 DEF Stealing, StealPC
  <2> QED  BY <2>2, <2>3, <2>4, <2>5, <2>6 DEF DequeOK
<1>5. DequeInv  BY <1>2, <1>4 DEF DequeInv
<1>6. SchedTypeOK  BY <1>0 DEF SchedTypeOK, Init, Acts, Task
<1>7. \A w \in Worker : WorkerOK(w)
  <2>1. \A w \in Worker : Phase(w)  BY <1>1, TaskFacts DEF Phase, LeaveActs
  <2>2. \A w \in Worker : EmptyPop(w)  BY <1>1 DEF EmptyPop
  <2>3. \A w \in Worker : Pushed(w)  BY <1>1, <1>3 DEF Pushed
  <2> QED  BY <2>1, <2>2, <2>3 DEF WorkerOK
<1>8. \A t \in Task : \A k, x, i : In(t, k, x, i) => t = Main /\ k = "deque" /\ x = Root /\ i = 0
  <2>1. ASSUME NEW t \in Task, NEW k, NEW x, NEW i, In(t, k, x, i) PROVE t = Main /\ k = "deque" /\ x = Root /\ i = 0
    <3>1. t # Nil /\ t \notin Worker  BY TaskFacts
    <3> QED  BY <1>1, <1>3, <2>1, <3>1 DEF In
  <2> QED  BY <2>1
<1>9. Once  BY <1>8 DEF Once
<1>10. Stacks  BY <1>1, <1>8, TaskFacts DEF Stacks, Nowhere
<1> QED  BY <1>5, <1>6, <1>7, <1>9, <1>10 DEF IInv

LEMMA StepIInv == ASSUME NoWrap, IInv, [Next]_vars PROVE IInv'
<1>1. ASSUME NEW w \in Worker, Loop(w) PROVE IInv'
  BY <1>1, LoopPopKept, LoopStopKept, LoopStealKept, StealStepKept, LoopAgainKept, ExecuteKept DEF Loop
<1>2. ASSUME NEW w \in Worker, Run(w) PROVE IInv'
  BY <1>2, ForkKept, PauseKept, EndKept, JoinFinishedKept, JoinBlockKept, ExitToSchedKept, ExitToJoinerKept DEF Run
<1>3. ASSUME NEW w \in Worker, Switch(w) PROVE IInv'
  BY <1>3, SwitchYieldKept, SwitchJoinKept, SwitchExitKept, SwitchEndKept, SwitchRefusedKept DEF Switch
<1>4. ASSUME NEW w \in Worker, PopStep(w) \/ FlushStep(w) PROVE IInv'  BY <1>4, PopStepKept, FlushKept
<1>5. CASE Finish  BY <1>5, FinishKept
<1>6. CASE UNCHANGED vars
  <2>1. /\ UNCHANGED dequeVars /\ cur' = cur /\ rootCont' = rootCont /\ act' = act /\ arg' = arg /\ destCont' = destCont
        /\ locked' = locked /\ finished' = finished /\ joiner' = joiner
        /\ handles' = handles /\ opsDone' = opsDone /\ spare' = spare
    BY <1>6 DEF vars, runVars, endVars, descVars, progVars
  <2>2. Root \in Worker  BY SchedAssumption
  <2>3. SchedTypeOK /\ DequeInv /\ Phase(Root) /\ EmptyPop(Root) /\ Pushed(Root) /\ opsDone \in Nat  BY <2>2, Parts
  <2>4. DequeInv' /\ Calm /\ \A v \in Worker : SameOp(v)  BY <2>1, <2>3, StillStep
  <2>5. OthersOp(Root) /\ OthersRun(Root) /\ dpc' = dpc /\ res' = res /\ top' = top
    BY <2>1, <2>4 DEF OthersOp, OthersRun, dequeVars, ops
  <2>6. SchedTypeOK'  BY <2>1, <2>3 DEF SchedTypeOK
  <2>7. Phase(Root)'  BY <2>1, <2>3, <2>5 DEF Phase
  <2>8. EmptyPop(Root)' /\ Pushed(Root)'  BY <2>1, <2>2, <2>3, <2>4, <2>5 DEF EmptyPop, Pushed, Calm
  <2>9. opsDone <= opsDone'  BY <2>1, <2>3
  <2> QED  BY <2>1, <2>2, <2>4, <2>5, <2>6, <2>7, <2>8, <2>9, QuietStep
<1> QED  BY <1>1, <1>2, <1>3, <1>4, <1>5, <1>6 DEF Next, WorkerStep, Over

\* The deques and the places of the tasks stay as the parts above say.
THEOREM SchedulerInvariant == ASSUME NoWrap PROVE Spec => []IInv
<1>1. Init => IInv  BY InitIInv
<1>2. IInv /\ [Next]_vars => IInv'  BY StepIInv
<1> QED  BY <1>1, <1>2, PTL DEF Spec

----------------------------------------------------------------------------
(* What follows *)

\* A deque holds each of its tasks once, so that it has no more elements than
\* there are tasks to be in it.
LEMMA DequeCount ==
    ASSUME NoWrap, IInv, NEW w \in Worker, NEW S, IsFiniteSet(S), \A i, t : t \in Task /\ Has(w, i, t) => t \in S
    PROVE  Limit(w) - top[w] <= Cardinality(S)
<1>1. DequeInv /\ DequeTypeOK /\ Once  BY Parts
<1>2. PICK T \in Nat, L \in Int : T = top[w] /\ L = Limit(w)  BY <1>1, DequeFacts
<1>3. T <= L  BY <1>1, <1>2 DEF DequeInv, DequeOK, Bounds
<1> DEFINE I == T .. (L - 1)
           f == [i \in I |-> CHOOSE t \in Task : Has(w, i, t)]
<1>4. ASSUME NEW i \in I PROVE f[i] \in Task /\ Has(w, i, f[i])
  <2>1. i \in Int /\ top[w] <= i /\ i < Limit(w)  BY <1>2
  <2>2. \E t \in Task : Has(w, i, t)  BY <1>1, <2>1 DEF DequeInv, DequeOK, Filled
  <2>3. f[i] = CHOOSE t \in Task : Has(w, i, t)  OBVIOUS
  <2> HIDE DEF f
  <2> QED  BY <2>2, <2>3
<1>5. f \in [I -> S]
  <2>1. \A i \in I : f[i] \in S  BY <1>4
  <2> QED  BY <2>1
<1>6. ASSUME NEW i \in I, NEW j \in I, f[i] = f[j] PROVE i = j
  <2>1. f[i] \in Task /\ Has(w, i, f[i]) /\ Has(w, j, f[i])  BY <1>4, <1>6
  <2>2. In(f[i], "deque", w, i) /\ In(f[i], "deque", w, j)  BY <2>1 DEF In
  <2> QED  BY <1>1, <2>1, <2>2 DEF Once
<1>7. f \in Injection(I, S)
  <2>1. DOMAIN f = I  OBVIOUS
  <2> HIDE DEF f, I
  <2> QED  BY <1>5, <1>6, <2>1 DEF Injection, IsInjective
<1>8. Cardinality(I) <= Cardinality(S)
  <2> HIDE DEF f, I
  <2> QED  BY <1>7, FS_Injection
<1>9. Cardinality(I) = L - T
  <2>1. L - 1 \in Int /\ T \in Int  BY <1>2
  <2>2. Cardinality(T .. (L - 1)) = IF T > L - 1 THEN 0 ELSE (L - 1) - T + 1  BY <2>1, FS_Interval
  <2> QED  BY <1>2, <1>3, <2>2
<1> QED  BY <1>2, <1>8, <1>9

\* A push finds room: all other tasks would fit.
LEMMA NeverFullFacts == ASSUME NoWrap, IInv PROVE NeverFull
<1>1. SUFFICES ASSUME Cardinality(Desc) <= Size, NEW w \in Worker, Pushes(w) PROVE ~ Full(w)  BY DEF NeverFull
<1>2. /\ SchedTypeOK /\ DequeInv /\ DequeTypeOK /\ Once /\ Stacks /\ Phase(w) /\ EmptyPop(w)  BY Parts
<1>3. IsFiniteSet(Desc) /\ Cardinality(Desc) \in Nat /\ Size \in Nat /\ Size > 0
  BY SchedAssumption, FS_CardinalityType, IxFacts
<1>4. dpc[w] \notin PopPC  BY <1>1, <1>2 DEF Pushes, Runs, Phase, PopPC
<1>5. Limit(w) \in Int /\ top[w] \in Nat /\ top[w] \in Small /\ own[w] \in Ix  BY <1>2, DequeFacts
<1>6. Diff(own[w], top[w]) = Limit(w) - top[w]
  <2>1. Limit(w) = Val(own[w])  BY <1>4 DEF Limit
  <2> QED  BY <1>5, <2>1, DiffFacts
<1>7. Limit(w) - top[w] <= Size - 1
  <2>1. CASE Runs(w, Main) /\ Cardinality(handles) < Cardinality(Desc)
    <3>1. IsFiniteSet(handles) /\ Cardinality(handles) \in Nat
      BY <1>2, <1>3, FS_Subset, FS_CardinalityType DEF SchedTypeOK
    <3>2. ASSUME NEW i, NEW t, t \in Task, Has(w, i, t) PROVE t \in handles
      <4>1. In(t, "deque", w, i)  BY <3>2 DEF In
      <4>2. In(Main, "run", w, 0)  BY <2>1 DEF In, Runs
      <4>3. t \in Desc
        <5>1. t # Main  BY <1>2, <4>1, <4>2, TaskFacts DEF Once
        <5> QED  BY <3>2, <5>1 DEF Task
      <4>4. ~ Nowhere(t)  BY <4>1 DEF Nowhere
      <4> QED  BY <1>2, <4>3, <4>4 DEF Stacks
    <3>3. Limit(w) - top[w] <= Cardinality(handles)  BY <3>1, <3>2, DequeCount
    <3> QED  BY <1>1, <1>3, <1>5, <2>1, <3>1, <3>3
  <2>2. CASE act[w] \in {"yield", "wait"} /\ dpc[w] = "done" /\ res[w] = Nil
    <3>1. Limit(w) = top[w]  BY <1>2, <2>2 DEF EmptyPop
    <3> QED  BY <1>3, <1>5, <3>1
  <2>3. CASE act[w] \in {"yield", "wait"} /\ dpc[w] = "done" /\ res[w] # Nil
    <3>1. PICK y \in Task, x \in Task : y = cur[w] /\ x = res[w]  BY <1>2, <2>3 DEF Phase, DequeTypeOK
    <3>2. In(y, "run", w, 0) /\ In(x, "res", w, 0)  BY <2>3, <3>1 DEF In
    <3>3. x # y  BY <1>2, <3>2 DEF Once
    <3> DEFINE S == (Task \ {x}) \ {y}
    <3>4. IsFiniteSet(S) /\ Cardinality(S) = Cardinality(Desc) - 1
      <4>1. IsFiniteSet(Task) /\ Cardinality(Task) = Cardinality(Desc) + 1
        BY <1>3, FS_AddElement, TaskFacts DEF Task
      <4>2. IsFiniteSet(Task \ {x}) /\ Cardinality(Task \ {x}) = Cardinality(Desc)
        <5>1. IsFiniteSet(Task \ {x}) /\ Cardinality(Task \ {x}) = Cardinality(Task) - 1  BY <4>1, FS_RemoveElement
        <5> QED  BY <1>3, <4>1, <5>1
      <4>3. y \in Task \ {x}  BY <3>3
      <4> QED  BY <1>3, <4>2, <4>3, FS_RemoveElement
    <3>5. ASSUME NEW i, NEW t, t \in Task, Has(w, i, t) PROVE t \in S
      <4>1. In(t, "deque", w, i)  BY <3>5 DEF In
      <4>2. t # x /\ t # y  BY <1>2, <3>2, <4>1 DEF Once
      <4> QED  BY <3>5, <4>2
    <3>6. Limit(w) - top[w] <= Cardinality(S)
      <4> HIDE DEF S
      <4> QED  BY <3>4, <3>5, DequeCount
    <3> QED  BY <1>1, <1>3, <1>5, <3>4, <3>6
  <2> QED  BY <1>1, <2>1, <2>2, <2>3 DEF Pushes
<1> QED  BY <1>3, <1>5, <1>6, <1>7 DEF Full

LEMMA TypeFacts == ASSUME NoWrap, IInv PROVE TypeOK
<1>1. SchedTypeOK /\ DequeTypeOK  BY Parts
<1>2. Small \subseteq Index /\ Ix \subseteq Index  BY IxFacts
<1> QED  BY <1>1, <1>2 DEF TypeOK, SchedTypeOK, DequeTypeOK

LEMMA RunsOnceFacts == ASSUME NoWrap, IInv PROVE RunsOnce
<1>1. SUFFICES ASSUME NEW w \in Worker, cur[w] \in Task
               PROVE  /\ \A v \in Worker \ {w} : cur[v] # cur[w]
                      /\ \A d \in Desc : joiner[d] # cur[w]
                      /\ cur[w] \notin finished
                      /\ act[w] \notin {"loop", "steal"}
  BY DEF RunsOnce
<1>2. Once /\ Phase(w) /\ Stacks /\ SchedTypeOK  BY Parts
<1>3. In(cur[w], "run", w, 0)  BY DEF In
<1>4. ASSUME NEW v \in Worker \ {w}, cur[v] = cur[w] PROVE FALSE
  <2>1. In(cur[w], "run", v, 0)  BY <1>4 DEF In
  <2> QED  BY <1>1, <1>2, <1>3, <2>1 DEF Once
<1>5. ASSUME NEW d \in Desc, joiner[d] = cur[w] PROVE FALSE
  <2>1. In(cur[w], "join", d, 0)  BY <1>5 DEF In
  <2> QED  BY <1>1, <1>2, <1>3, <2>1 DEF Once
<1>6. act[w] \notin {"loop", "steal"}  BY <1>1, <1>2, TaskFacts DEF Phase
<1>7. ASSUME cur[w] \in finished PROVE FALSE
  <2>1. cur[w] \in Desc  BY <1>2, <1>7 DEF SchedTypeOK
  <2>2. Nowhere(cur[w])  BY <1>2, <1>7, <2>1 DEF Stacks
  <2> QED  BY <1>3, <2>2 DEF Nowhere
<1> QED  BY <1>4, <1>5, <1>6, <1>7

LEMMA RootAtHomeFacts == ASSUME NoWrap, IInv PROVE RootAtHome
<1>1. SUFFICES ASSUME NEW w \in Worker
               PROVE  /\ cur[w] \in Worker \cup Task /\ (cur[w] \in Worker => cur[w] = w \/ act[w] = "over")
                      /\ cur[w] \in Task /\ act[w] # "over" => rootCont[w]
                      /\ \A i \in DOMAIN elems[w] : elems[w][i] \notin Worker
  BY DEF RootAtHome
<1>2. SchedTypeOK /\ DequeTypeOK /\ Phase(w)  BY Parts
<1>3. Nil \notin Worker  BY DequeAssumption
<1>4. \A i \in DOMAIN elems[w] : elems[w][i] \in Task \cup {Nil}
  <2>1. elems[w] \in [0 .. (Size - 1) -> Task \cup {Nil}]  BY <1>2 DEF DequeTypeOK
  <2> QED  BY <2>1
<1> QED  BY <1>2, <1>3, <1>4, TaskFacts DEF Phase, SchedTypeOK

LEMMA StackIsSafeFacts == ASSUME NoWrap, IInv PROVE StackIsSafe
<1>1. Stacks /\ SchedTypeOK  BY Parts
<1>2. ASSUME NEW d \in Desc, Nowhere(d), NEW w \in Worker PROVE cur[w] # d  BY <1>2 DEF Nowhere, In
<1> QED  BY <1>1, <1>2 DEF StackIsSafe, StackLeft, JoinedIsFinished, Stacks, SchedTypeOK

\* Every variable of the scheduler and its deques keeps its type.
THEOREM TypeCorrect == ASSUME NoWrap PROVE Spec => []TypeOK
<1>1. IInv => TypeOK  BY TypeFacts
<1> QED  BY <1>1, SchedulerInvariant, PTL

\* No task runs on two workers, while it waits for a join, after it has finished,
\* or in the scheduler loop: every continuation is taken from a deque once, whatever the
\* owner and the thieves see of its stores.
THEOREM RunsOnceHolds == ASSUME NoWrap PROVE Spec => []RunsOnce
<1>1. IInv => RunsOnce  BY RunsOnceFacts
<1> QED  BY <1>1, SchedulerInvariant, PTL

\* local_pop_top_or_root finds the root of its own worker, and never in a deque.
THEOREM RootAtHomeHolds == ASSUME NoWrap PROVE Spec => []RootAtHome
<1>1. IInv => RootAtHome  BY RootAtHomeFacts
<1> QED  BY <1>1, SchedulerInvariant, PTL

\* local_push_top does not throw if the deque has a slot for every descriptor.
THEOREM NeverFullHolds == ASSUME NoWrap PROVE Spec => []NeverFull
<1>1. IInv => NeverFull  BY NeverFullFacts
<1> QED  BY <1>1, SchedulerInvariant, PTL

\* exit, join and the task pool free the stack of a task only when it has left it.
THEOREM StackIsSafeHolds == ASSUME NoWrap PROVE Spec => []StackIsSafe
<1>1. IInv => StackIsSafe  BY StackIsSafeFacts
<1> QED  BY <1>1, SchedulerInvariant, PTL
=============================================================================
