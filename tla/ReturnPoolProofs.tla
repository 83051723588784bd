-------------------------- MODULE ReturnPoolProofs --------------------------
(***************************************************************************)
(* Proofs about ReturnPool for any workers, nodes and threshold.           *)
(*                                                                         *)
(* That no node is lost or in two places needs that the nodes come home:   *)
(* a list that is spliced onto another one, or handed over as a whole,     *)
(* must not share a node with it, and the lists of two workers are kept    *)
(* apart by the workers that allocated their nodes.                        *)
(***************************************************************************)
EXTENDS ReturnPool, SequenceTheorems, TLAPS

Injective(s) == \A i, j \in DOMAIN s : s[i] = s[j] => i = j

\* A node is in use or unborn or in a list.
Kept(n) ==
    \/ n \in fresh \/ n \in held
    \/ \E w \in Worker : n \in Elements(local[w]) \/ n \in Elements(remote[w])
    \/ \E w, v \in Worker : n \in Elements(pros[w][v])

\* The lists hold no node twice, and the lists of nodes of one worker share none.
Apart ==
    /\ \A w \in Worker : Injective(local[w]) /\ Injective(remote[w])
    /\ \A w, v \in Worker : Injective(pros[w][v])
    /\ \A w \in Worker : \A n \in Elements(local[w]) : n \notin Elements(remote[w])
    /\ \A w, v \in Worker : \A n \in Elements(pros[w][v]) :
         /\ n \notin Elements(local[v]) /\ n \notin Elements(remote[v])
         /\ \A u \in Worker : u # w => n \notin Elements(pros[u][v])

\* What is in use or unborn is in no list.
Outside ==
    \A n \in fresh \cup held :
        /\ \A w \in Worker : n \notin Elements(local[w]) /\ n \notin Elements(remote[w])
        /\ \A w, v \in Worker : n \notin Elements(pros[w][v])

IInv ==
    /\ TypeOK /\ ComesHome /\ Apart /\ Outside
    /\ fresh \cap held = {}
    /\ \A n \in Node : Kept(n)

----------------------------------------------------------------------------
(* Lists *)

\* The nodes of a list are in the pool.
LEMMA ElementsType ==
    ASSUME NEW s \in Seq(Node)
    PROVE  Elements(s) \subseteq Node
BY DEF Elements

\* An empty list has no nodes.
LEMMA ElementsEmpty == Elements(<<>>) = {} /\ Injective(<<>>)
BY DEF Elements, Injective

\* A node that is put in front of a list.
LEMMA ElementsCons ==
    ASSUME NEW s \in Seq(Node), NEW n \in Node
    PROVE  /\ <<n>> \o s \in Seq(Node)
           /\ Len(<<n>> \o s) = Len(s) + 1
           /\ Elements(<<n>> \o s) = {n} \cup Elements(s)
           /\ Injective(s) /\ n \notin Elements(s) => Injective(<<n>> \o s)
<1> DEFINE c == <<n>> \o s
<1>1. /\ c \in Seq(Node) /\ Len(c) = Len(s) + 1 /\ Len(s) \in Nat
      /\ DOMAIN c = 1..(Len(s) + 1) /\ DOMAIN s = 1..Len(s)
      /\ c[1] = n
      /\ \A i \in 2..(Len(s) + 1) : c[i] = s[i - 1]
  OBVIOUS
<1> HIDE DEF c
<1>2. \A i \in DOMAIN s : i + 1 \in DOMAIN c /\ c[i + 1] = s[i]
  BY <1>1
<1>3. \A i \in DOMAIN c : i = 1 \/ (i - 1 \in DOMAIN s /\ c[i] = s[i - 1])
  BY <1>1
<1>4. Elements(c) = {n} \cup Elements(s)
  BY <1>1, <1>2, <1>3 DEF Elements
<1>5. ASSUME Injective(s), n \notin Elements(s)
      PROVE  Injective(c)
  <2> SUFFICES ASSUME NEW i \in DOMAIN c, NEW j \in DOMAIN c, c[i] = c[j]
               PROVE  i = j
    BY DEF Injective
  <2>1. CASE i = 1
    BY <2>1, <1>1, <1>3, <1>5 DEF Elements
  <2>2. CASE j = 1
    BY <2>2, <1>1, <1>3, <1>5 DEF Elements
  <2>3. CASE i # 1 /\ j # 1
    BY <2>3, <1>1, <1>3, <1>5 DEF Injective
  <2> QED
    BY <2>1, <2>2, <2>3
<1> QED
  BY <1>1, <1>4, <1>5 DEF c

\* A list without its first node.
LEMMA ElementsTail ==
    ASSUME NEW s \in Seq(Node), s # <<>>
    PROVE  /\ Head(s) \in Elements(s) /\ Tail(s) \in Seq(Node)
           /\ Injective(s) => Injective(Tail(s))
           /\ Injective(s) => Elements(Tail(s)) = Elements(s) \ {Head(s)}
<1> DEFINE c == Tail(s)
<1>1. /\ c \in Seq(Node) /\ Len(s) \in Nat \ {0}
      /\ DOMAIN c = 1..(Len(s) - 1) /\ DOMAIN s = 1..Len(s)
      /\ Head(s) = s[1]
      /\ \A i \in 1..(Len(s) - 1) : c[i] = s[i + 1]
  OBVIOUS
<1> HIDE DEF c
<1>2. \A i \in DOMAIN c : i + 1 \in DOMAIN s /\ i + 1 # 1 /\ c[i] = s[i + 1]
  BY <1>1
<1>3. \A i \in DOMAIN s : i = 1 \/ (i - 1 \in DOMAIN c /\ c[i - 1] = s[i])
  BY <1>1
<1>4. Head(s) \in Elements(s)
  BY <1>1 DEF Elements
<1>5. ASSUME Injective(s)
      PROVE  Injective(c) /\ Elements(c) = Elements(s) \ {Head(s)}
  <2>1. Injective(c)
    BY <1>1, <1>2, <1>5 DEF Injective
  <2>2. 1 \in DOMAIN s
    BY <1>1
  <2>3. ASSUME NEW n \in Elements(c)
        PROVE  n \in Elements(s) \ {Head(s)}
    <3>1. PICK i \in DOMAIN c : n = c[i]
      BY DEF Elements
    <3> QED
      BY <3>1, <1>1, <1>2, <1>5, <2>2 DEF Elements, Injective
  <2>4. ASSUME NEW n \in Elements(s) \ {Head(s)}
        PROVE  n \in Elements(c)
    BY <1>1, <1>3 DEF Elements
  <2> QED
    BY <2>1, <2>3, <2>4
<1> QED
  BY <1>1, <1>4, <1>5 DEF c

\* A list that is spliced in front of another one.
LEMMA ElementsConcat ==
    ASSUME NEW s \in Seq(Node), NEW t \in Seq(Node)
    PROVE  /\ s \o t \in Seq(Node)
           /\ Elements(s \o t) = Elements(s) \cup Elements(t)
           /\ Injective(s) /\ Injective(t) /\ (\A n \in Elements(s) : n \notin Elements(t))
                => Injective(s \o t)
<1> DEFINE c == s \o t
<1>1. /\ c \in Seq(Node) /\ Len(s) \in Nat /\ Len(t) \in Nat
      /\ DOMAIN c = 1..(Len(s) + Len(t)) /\ DOMAIN s = 1..Len(s) /\ DOMAIN t = 1..Len(t)
      /\ \A i \in DOMAIN c : c[i] = IF i <= Len(s) THEN s[i] ELSE t[i - Len(s)]
  BY ConcatProperties, LenProperties
<1> HIDE DEF c
<1>2. /\ \A i \in DOMAIN s : i \in DOMAIN c /\ c[i] = s[i]
      /\ \A i \in DOMAIN t : i + Len(s) \in DOMAIN c /\ c[i + Len(s)] = t[i]
  BY <1>1
<1>3. \A i \in DOMAIN c : \/ i \in DOMAIN s /\ c[i] = s[i]
                          \/ i \notin DOMAIN s /\ i - Len(s) \in DOMAIN t /\ c[i] = t[i - Len(s)]
  BY <1>1
<1>4. Elements(c) = Elements(s) \cup Elements(t)
  <2>1. \A n \in Elements(c) : n \in Elements(s) \/ n \in Elements(t)
    BY <1>3 DEF Elements
  <2>2. \A n \in Elements(s) : n \in Elements(c)
    BY <1>2 DEF Elements
  <2>3. \A n \in Elements(t) : n \in Elements(c)
    BY <1>2 DEF Elements
  <2> QED
    BY <2>1, <2>2, <2>3
<1>5. ASSUME Injective(s), Injective(t), \A n \in Elements(s) : n \notin Elements(t)
      PROVE  Injective(c)
  <2> SUFFICES ASSUME NEW i \in DOMAIN c, NEW j \in DOMAIN c, c[i] = c[j]
               PROVE  i = j
    BY DEF Injective
  <2>1. CASE i \in DOMAIN s /\ j \in DOMAIN s
    BY <2>1, <1>2, <1>5 DEF Injective
  <2>2. CASE i \notin DOMAIN s /\ j \notin DOMAIN s
    BY <2>2, <1>1, <1>3, <1>5 DEF Injective
  <2>3. CASE i \in DOMAIN s /\ j \notin DOMAIN s
    BY <2>3, <1>3, <1>5 DEF Elements
  <2>4. CASE i \notin DOMAIN s /\ j \in DOMAIN s
    BY <2>4, <1>3, <1>5 DEF Elements
  <2> QED
    BY <2>1, <2>2, <2>3, <2>4
<1> QED
  BY <1>1, <1>4, <1>5 DEF c

----------------------------------------------------------------------------
(* The inductive invariant *)

\* All nodes are unborn at first.
LEMMA InitInv == Init => IInv
<1> SUFFICES ASSUME Init PROVE IInv
  OBVIOUS
<1>1. (CHOOSE w \in Worker : TRUE) \in Worker
  BY PoolAssumption
<1>2. /\ \A w \in Worker : local[w] = <<>> /\ remote[w] = <<>>
      /\ \A w, v \in Worker : pros[w][v] = <<>>
  BY DEF Init
<1>3. TypeOK
  <2>1. /\ local \in [Worker -> Seq(Node)] /\ remote \in [Worker -> Seq(Node)]
        /\ pros \in [Worker -> [Worker -> Seq(Node)]]
    BY DEF Init
  <2>2. \A w, v \in Worker : Len(pros[w][v]) <= Threshold
    BY <1>2, PoolAssumption
  <2>3. allocWk \in [Node -> Worker]
    BY <1>1 DEF Init
  <2> QED
    BY <2>1, <2>2, <2>3 DEF Init, TypeOK
<1> QED
  BY <1>2, <1>3, ElementsEmpty DEF IInv, ComesHome, Apart, Outside, Kept, Init

\* A node is taken from the front of the worker's own list.
LEMMA AllocateLocalInv ==
    ASSUME IInv, NEW w \in Worker, NEW n \in Node, Allocate(w, n), AllocateLocal(w, n)
    PROVE  IInv'
<1> USE DEF IInv
<1>1. /\ local[w] \in Seq(Node) /\ local[w] # <<>> /\ n = Head(local[w])
      /\ Injective(local[w])
  BY DEF AllocateLocal, TypeOK, Apart
<1>2. /\ n \in Elements(local[w]) /\ Tail(local[w]) \in Seq(Node)
      /\ Injective(Tail(local[w]))
      /\ Elements(Tail(local[w])) = Elements(local[w]) \ {n}
  BY <1>1, ElementsTail
<1>3. /\ \A v \in Worker : local'[v] = IF v = w THEN Tail(local[w]) ELSE local[v]
      /\ remote' = remote /\ pros' = pros /\ fresh' = fresh
      /\ held' = held \cup {n}
  BY <1>2 DEF Allocate, AllocateLocal, TypeOK
<1>4. allocWk[n] = w /\ allocWk' = allocWk
  <2>1. allocWk[n] = w
    BY <1>2 DEF ComesHome
  <2> QED
    BY <2>1 DEF Allocate, TypeOK
<1>5. \A v \in Worker : Elements(local'[v]) = Elements(local[v]) \ {n}
  <2> SUFFICES ASSUME NEW v \in Worker PROVE Elements(local'[v]) = Elements(local[v]) \ {n}
    OBVIOUS
  <2>1. CASE v = w
    BY <2>1, <1>2, <1>3
  <2>2. CASE v # w
    <3>1. n \notin Elements(local[v])
      BY <2>2, <1>2, <1>4 DEF ComesHome
    <3> QED
      BY <2>2, <3>1, <1>3
  <2> QED
    BY <2>1, <2>2
<1>6. /\ \A v \in Worker : n \notin Elements(remote[v])
      /\ \A u, v \in Worker : n \notin Elements(pros[u][v])
  <2>1. ASSUME NEW v \in Worker, n \in Elements(remote[v])
        PROVE  FALSE
    <3>1. v = w
      BY <2>1, <1>4 DEF ComesHome
    <3> QED
      BY <2>1, <3>1, <1>2 DEF Apart
  <2>2. ASSUME NEW u \in Worker, NEW v \in Worker, n \in Elements(pros[u][v])
        PROVE  FALSE
    <3>1. v = w
      BY <2>2, <1>4 DEF ComesHome
    <3> QED
      BY <2>2, <3>1, <1>2 DEF Apart
  <2> QED
    BY <2>1, <2>2
<1>7. TypeOK'
  <2>1. local' \in [Worker -> Seq(Node)]
    BY <1>2 DEF Allocate, AllocateLocal, TypeOK
  <2> QED
    BY <2>1, <1>2, <1>3, <1>4 DEF TypeOK
<1>8. ComesHome'
  BY <1>3, <1>4, <1>5 DEF ComesHome
<1>9. \A v \in Worker : Injective(local'[v])
  BY <1>2, <1>3 DEF Apart
<1>10. Apart'
  BY <1>3, <1>5, <1>9 DEF Apart
<1>11. Outside'
  BY <1>3, <1>5, <1>6 DEF Outside
<1>12. (fresh \cap held = {})'
  BY <1>2, <1>3 DEF Outside
<1>13. \A m \in Node : Kept(m)'
  BY <1>3, <1>5 DEF Kept
<1> QED
  BY <1>7, <1>8, <1>10, <1>11, <1>12, <1>13

\* The returned nodes become the worker's own list.
LEMMA AllocateRemoteInv ==
    ASSUME IInv, NEW w \in Worker, NEW n \in Node, Allocate(w, n), AllocateRemote(w, n)
    PROVE  IInv'
<1> USE DEF IInv
<1>1. /\ remote[w] \in Seq(Node) /\ remote[w] # <<>> /\ n = Head(remote[w])
      /\ Injective(remote[w]) /\ local[w] = <<>>
  BY DEF AllocateRemote, TypeOK, Apart
<1>2. /\ n \in Elements(remote[w]) /\ Tail(remote[w]) \in Seq(Node)
      /\ Injective(Tail(remote[w]))
      /\ Elements(Tail(remote[w])) = Elements(remote[w]) \ {n}
  BY <1>1, ElementsTail
<1>3. /\ \A v \in Worker : local'[v] = IF v = w THEN Tail(remote[w]) ELSE local[v]
      /\ \A v \in Worker : remote'[v] = IF v = w THEN <<>> ELSE remote[v]
      /\ pros' = pros /\ fresh' = fresh
      /\ held' = held \cup {n}
  BY <1>2 DEF Allocate, AllocateRemote, ClearRemote, TypeOK
<1>4. allocWk[n] = w /\ allocWk' = allocWk
  <2>1. allocWk[n] = w
    BY <1>2 DEF ComesHome
  <2> QED
    BY <2>1 DEF Allocate, TypeOK
<1>5. /\ Elements(local'[w]) = Elements(remote[w]) \ {n}
      /\ Elements(remote'[w]) = {} /\ Elements(local[w]) = {}
      /\ \A v \in Worker : v # w => local'[v] = local[v] /\ remote'[v] = remote[v]
  BY <1>1, <1>2, <1>3, ElementsEmpty
<1>6. /\ \A v \in Worker : n \notin Elements(local[v])
      /\ \A v \in Worker : v # w => n \notin Elements(remote[v])
      /\ \A u, v \in Worker : n \notin Elements(pros[u][v])
  <2>1. ASSUME NEW v \in Worker, n \in Elements(local[v])
        PROVE  FALSE
    <3>1. v = w
      BY <2>1, <1>4 DEF ComesHome
    <3> QED
      BY <2>1, <3>1, <1>2 DEF Apart
  <2>2. ASSUME NEW u \in Worker, NEW v \in Worker, n \in Elements(pros[u][v])
        PROVE  FALSE
    <3>1. v = w
      BY <2>2, <1>4 DEF ComesHome
    <3> QED
      BY <2>2, <3>1, <1>2 DEF Apart
  <2>3. \A v \in Worker : v # w => n \notin Elements(remote[v])
    BY <1>4 DEF ComesHome
  <2> QED
    BY <2>1, <2>2, <2>3
<1>7. TypeOK'
  <2>1. local' \in [Worker -> Seq(Node)] /\ remote' \in [Worker -> Seq(Node)]
    BY <1>2 DEF Allocate, AllocateRemote, ClearRemote, TypeOK
  <2> QED
    BY <2>1, <1>3, <1>4 DEF TypeOK
<1>8. ComesHome'
  BY <1>3, <1>4, <1>5 DEF ComesHome
<1>9. \A v \in Worker : Injective(local'[v]) /\ Injective(remote'[v])
  BY <1>2, <1>3, ElementsEmpty DEF Apart
<1>10. Apart'
  <2>1. \A v \in Worker : \A m \in Elements(local'[v]) : m \notin Elements(remote'[v])
    BY <1>5 DEF Apart
  <2>2. \A u, v \in Worker : \A m \in Elements(pros[u][v]) :
            m \notin Elements(local'[v]) /\ m \notin Elements(remote'[v])
    BY <1>5 DEF Apart
  <2> QED
    BY <1>3, <1>9, <2>1, <2>2 DEF Apart
<1>11. Outside'
  BY <1>3, <1>5, <1>6 DEF Outside
<1>12. (fresh \cap held = {})'
  BY <1>2, <1>3 DEF Outside
<1>13. \A m \in Node : Kept(m)'
  BY <1>3, <1>5 DEF Kept
<1> QED
  BY <1>7, <1>8, <1>10, <1>11, <1>12, <1>13

\* A node is created.
LEMMA AllocateNewInv ==
    ASSUME IInv, NEW w \in Worker, NEW n \in Node, Allocate(w, n), AllocateNew(w, n)
    PROVE  IInv'
<1> USE DEF IInv
<1>1. /\ n \in fresh /\ fresh' = fresh \ {n} /\ held' = held \cup {n}
      /\ local' = local /\ remote' = remote /\ pros' = pros
      /\ allocWk' = [allocWk EXCEPT ![n] = w]
  BY DEF Allocate, AllocateNew
<1>2. /\ allocWk' \in [Node -> Worker]
      /\ \A m \in Node : m # n => allocWk'[m] = allocWk[m]
  BY <1>1 DEF TypeOK
<1>3. TypeOK'
  BY <1>1, <1>2 DEF TypeOK
<1>4. ComesHome'
  <2>1. \A v \in Worker : Elements(local[v]) \subseteq Node /\ Elements(remote[v]) \subseteq Node
    BY ElementsType DEF TypeOK
  <2>2. \A u, v \in Worker : Elements(pros[u][v]) \subseteq Node
    BY ElementsType DEF TypeOK
  <2> QED
    BY <2>1, <2>2, <1>1, <1>2 DEF ComesHome, Outside
<1>5. Apart'
  BY <1>1 DEF Apart
<1>6. Outside' /\ (fresh \cap held = {})'
  BY <1>1 DEF Outside
<1>7. \A m \in Node : Kept(m)'
  BY <1>1 DEF Kept
<1> QED
  BY <1>3, <1>4, <1>5, <1>6, <1>7

\* A node is freed where it was allocated.
LEMMA DeallocateLocalInv ==
    ASSUME IInv, NEW w \in Worker, NEW n \in Node, Deallocate(w, n), DeallocateLocal(w, n)
    PROVE  IInv'
<1> USE DEF IInv
<1>1. n \in held /\ allocWk[n] = w /\ local[w] \in Seq(Node)
  BY DEF Deallocate, DeallocateLocal, IsHome, TypeOK
<1>2. /\ n \notin fresh
      /\ \A v \in Worker : n \notin Elements(local[v]) /\ n \notin Elements(remote[v])
      /\ \A u, v \in Worker : n \notin Elements(pros[u][v])
  BY <1>1 DEF Outside
<1>3. /\ <<n>> \o local[w] \in Seq(Node)
      /\ Elements(<<n>> \o local[w]) = {n} \cup Elements(local[w])
      /\ Injective(<<n>> \o local[w])
  BY <1>1, <1>2, ElementsCons DEF Apart
<1>4. /\ \A v \in Worker : local'[v] = IF v = w THEN <<n>> \o local[w] ELSE local[v]
      /\ remote' = remote /\ pros' = pros /\ fresh' = fresh /\ allocWk' = allocWk
      /\ held' = held \ {n}
  BY <1>3 DEF Deallocate, DeallocateLocal, TypeOK
<1>5. /\ Elements(local'[w]) = {n} \cup Elements(local[w])
      /\ \A v \in Worker : v # w => local'[v] = local[v]
  BY <1>3, <1>4
<1>6. TypeOK'
  <2>1. local' \in [Worker -> Seq(Node)]
    BY <1>3 DEF Deallocate, DeallocateLocal, TypeOK
  <2> QED
    BY <2>1, <1>4 DEF TypeOK
<1>7. ComesHome'
  BY <1>1, <1>4, <1>5 DEF ComesHome
<1>8. Apart'
  <2>1. \A v \in Worker : Injective(local'[v])
    BY <1>3, <1>4 DEF Apart
  <2> QED
    BY <1>2, <1>4, <1>5, <2>1 DEF Apart
<1>9. Outside' /\ (fresh \cap held = {})'
  BY <1>2, <1>4, <1>5 DEF Outside
<1>10. \A m \in Node : Kept(m)'
  BY <1>4, <1>5 DEF Kept
<1> QED
  BY <1>6, <1>7, <1>8, <1>9, <1>10

\* A node of another worker joins the collection for that worker.
LEMMA CollectInv ==
    ASSUME IInv, NEW w \in Worker, NEW n \in Node, Deallocate(w, n), ~IsHome(w, n),
           Collect(w, allocWk[n], n)
    PROVE  IInv'
<1> USE DEF IInv
<1> DEFINE h == allocWk[n]
<1>1. n \in held /\ h # w /\ h \in Worker /\ pros[w][h] \in Seq(Node)
  BY DEF Deallocate, IsHome, TypeOK
<1>2. /\ n \notin fresh
      /\ \A v \in Worker : n \notin Elements(local[v]) /\ n \notin Elements(remote[v])
      /\ \A u, v \in Worker : n \notin Elements(pros[u][v])
  BY <1>1 DEF Outside
<1>3. /\ <<n>> \o pros[w][h] \in Seq(Node)
      /\ Len(<<n>> \o pros[w][h]) = Len(pros[w][h]) + 1
      /\ Elements(<<n>> \o pros[w][h]) = {n} \cup Elements(pros[w][h])
      /\ Injective(<<n>> \o pros[w][h])
  BY <1>1, <1>2, ElementsCons DEF Apart
<1>4. /\ \A u, v \in Worker :
            pros'[u][v] = IF u = w /\ v = h THEN <<n>> \o pros[w][h] ELSE pros[u][v]
      /\ remote' = remote /\ local' = local /\ fresh' = fresh /\ allocWk' = allocWk
      /\ held' = held \ {n}
  BY <1>1, <1>3 DEF Deallocate, Collect, HasRoom, TypeOK
<1>a. pros' \in [Worker -> [Worker -> Seq(Node)]] /\ Len(pros[w][h]) < Threshold
  BY <1>1, <1>3 DEF Collect, HasRoom, TypeOK
<1> HIDE DEF h
<1>5. /\ Elements(pros'[w][h]) = {n} \cup Elements(pros[w][h])
      /\ \A u, v \in Worker : u # w \/ v # h => pros'[u][v] = pros[u][v]
  BY <1>1, <1>3, <1>4
<1>6. TypeOK'
  <2>1. \A u, v \in Worker : Len(pros'[u][v]) <= Threshold
    <3>1. Len(pros[w][h]) \in Nat /\ Len(<<n>> \o pros[w][h]) <= Threshold
      BY <1>1, <1>3, <1>a, PoolAssumption
    <3> QED
      BY <3>1, <1>4 DEF TypeOK
  <2> QED
    BY <1>4, <1>a, <2>1 DEF TypeOK
<1>7. ComesHome'
  <2>1. \A u, v \in Worker : \A m \in Elements(pros'[u][v]) : allocWk[m] = v /\ v # u
    BY <1>1, <1>4, <1>5 DEF ComesHome, h
  <2> QED
    BY <1>4, <2>1 DEF ComesHome
<1>8. Apart'
  <2>1. \A u, v \in Worker : Injective(pros'[u][v])
    BY <1>3, <1>4 DEF Apart
  <2>2. \A u, v \in Worker : \A m \in Elements(pros'[u][v]) :
            m = n \/ m \in Elements(pros[u][v])
    BY <1>5
  <2>3. \A u, v \in Worker : \A m \in Elements(pros'[u][v]) :
          /\ m \notin Elements(local[v]) /\ m \notin Elements(remote[v])
          /\ \A x \in Worker : x # u => m \notin Elements(pros'[x][v])
    BY <1>2, <1>5, <2>2 DEF Apart
  <2> QED
    BY <1>4, <2>1, <2>3 DEF Apart
<1>9. Outside' /\ (fresh \cap held = {})'
  BY <1>2, <1>4, <1>5 DEF Outside
<1>10. \A m \in Node : Kept(m)'
  BY <1>1, <1>4, <1>5 DEF Kept
<1> QED
  BY <1>6, <1>7, <1>8, <1>9, <1>10

\* A full collection is sent to its worker and a new one begun.
LEMMA SendBackInv ==
    ASSUME IInv, NEW w \in Worker, NEW n \in Node, Deallocate(w, n), ~IsHome(w, n),
           SendBack(w, allocWk[n], n)
    PROVE  IInv'
<1> USE DEF IInv
<1> DEFINE h == allocWk[n]
<1>1. /\ n \in held /\ h # w /\ h \in Worker
      /\ pros[w][h] \in Seq(Node) /\ remote[h] \in Seq(Node)
  BY DEF Deallocate, IsHome, TypeOK
<1>2. /\ n \notin fresh
      /\ \A v \in Worker : n \notin Elements(local[v]) /\ n \notin Elements(remote[v])
      /\ \A u, v \in Worker : n \notin Elements(pros[u][v])
  BY <1>1 DEF Outside
<1>3. /\ pros[w][h] \o remote[h] \in Seq(Node)
      /\ Elements(pros[w][h] \o remote[h]) = Elements(pros[w][h]) \cup Elements(remote[h])
      /\ Injective(pros[w][h] \o remote[h])
  BY <1>1, ElementsConcat DEF Apart
<1>4. /\ <<n>> \in Seq(Node) /\ Len(<<n>>) = 1
      /\ Elements(<<n>>) = {n} /\ Injective(<<n>>)
  BY DEF Elements, Injective
<1>5. /\ \A u, v \in Worker : pros'[u][v] = IF u = w /\ v = h THEN <<n>> ELSE pros[u][v]
      /\ \A v \in Worker : remote'[v] = IF v = h THEN pros[w][h] \o remote[h] ELSE remote[v]
      /\ local' = local /\ fresh' = fresh /\ allocWk' = allocWk
      /\ held' = held \ {n}
  BY <1>1, <1>3, <1>4 DEF Deallocate, SendBack, Return, TypeOK
<1>a. pros' \in [Worker -> [Worker -> Seq(Node)]] /\ remote' \in [Worker -> Seq(Node)]
  BY <1>1, <1>3, <1>4 DEF SendBack, Return, TypeOK
<1> HIDE DEF h
<1>6. /\ Elements(pros'[w][h]) = {n}
      /\ Elements(remote'[h]) = Elements(pros[w][h]) \cup Elements(remote[h])
      /\ \A u, v \in Worker : u # w \/ v # h => pros'[u][v] = pros[u][v]
      /\ \A v \in Worker : v # h => remote'[v] = remote[v]
  BY <1>1, <1>3, <1>4, <1>5
<1>7. TypeOK'
  <2>1. \A u, v \in Worker : Len(pros'[u][v]) <= Threshold
    <3>1. Len(<<n>>) <= Threshold
      BY <1>4, PoolAssumption
    <3> QED
      BY <3>1, <1>5 DEF TypeOK
  <2> QED
    BY <1>5, <1>a, <2>1 DEF TypeOK
<1>8. ComesHome'
  <2>1. \A u, v \in Worker : \A m \in Elements(pros'[u][v]) : allocWk[m] = v /\ v # u
    BY <1>1, <1>6 DEF ComesHome, h
  <2>2. \A v \in Worker : \A m \in Elements(remote'[v]) : allocWk[m] = v
    BY <1>1, <1>6 DEF ComesHome
  <2> QED
    BY <1>5, <2>1, <2>2 DEF ComesHome
<1>9. Apart'
  <2>1. /\ \A u, v \in Worker : Injective(pros'[u][v])
        /\ \A v \in Worker : Injective(local'[v]) /\ Injective(remote'[v])
    BY <1>3, <1>4, <1>5 DEF Apart
  <2>2. \A v \in Worker : \A m \in Elements(local[v]) : m \notin Elements(remote'[v])
    BY <1>1, <1>6 DEF Apart
  <2>3. ASSUME NEW u \in Worker, NEW v \in Worker, NEW m \in Elements(pros'[u][v])
        PROVE  /\ m \notin Elements(local[v]) /\ m \notin Elements(remote'[v])
               /\ \A x \in Worker : x # u => m \notin Elements(pros'[x][v])
    <3>1. CASE u = w /\ v = h
      <4>1. m = n
        BY <3>1, <2>3, <1>6
      <4>2. \A x \in Worker : x # u => m \notin Elements(pros'[x][v])
        BY <4>1, <3>1, <1>2, <1>6
      <4> QED
        BY <4>1, <4>2, <3>1, <1>1, <1>2, <1>6
    <3>2. CASE u # w \/ v # h
      <4>1. m \in Elements(pros[u][v])
        BY <3>2, <2>3, <1>6
      <4>2. m # n
        BY <4>1, <1>2
      <4>3. m \notin Elements(remote'[v])
        BY <4>1, <3>2, <1>1, <1>6 DEF Apart
      <4>4. \A x \in Worker : x # u => m \notin Elements(pros'[x][v])
        BY <4>1, <4>2, <3>2, <1>6 DEF Apart
      <4> QED
        BY <4>1, <4>3, <4>4 DEF Apart
    <3> QED
      BY <3>1, <3>2
  <2> QED
    BY <1>5, <2>1, <2>2, <2>3 DEF Apart
<1>10. Outside' /\ (fresh \cap held = {})'
  BY <1>1, <1>2, <1>5, <1>6 DEF Outside
<1>11. \A m \in Node : Kept(m)'
  BY <1>1, <1>5, <1>6 DEF Kept
<1> QED
  BY <1>7, <1>8, <1>9, <1>10, <1>11

\* Every step keeps the invariant.
LEMMA NextInv == IInv /\ [Next]_vars => IInv'
<1> SUFFICES ASSUME IInv, [Next]_vars PROVE IInv'
  OBVIOUS
<1>1. ASSUME NEW w \in Worker, NEW n \in Node, Allocate(w, n)
      PROVE  IInv'
  BY <1>1, AllocateLocalInv, AllocateRemoteInv, AllocateNewInv DEF Allocate
<1>2. ASSUME NEW w \in Worker, NEW n \in Node, Deallocate(w, n)
      PROVE  IInv'
  BY <1>2, DeallocateLocalInv, CollectInv, SendBackInv DEF Deallocate
<1>3. CASE UNCHANGED vars
  BY <1>3 DEF vars, IInv, TypeOK, ComesHome, Apart, Outside, Kept, Elements, Injective
<1> QED
  BY <1>1, <1>2, <1>3 DEF Next

\* The invariant holds always.
THEOREM InvHolds == Spec => []IInv
BY InitInv, NextInv, PTL DEF Spec

\* The pool's state is well-typed, and no worker collects more than Threshold
\* nodes for another one.
THEOREM TypeCorrect == Spec => []TypeOK
BY InvHolds, PTL DEF IInv

\* A freed node only comes back to the worker that allocated it.
THEOREM ComesHomeHolds == Spec => []ComesHome
BY InvHolds, PTL DEF IInv

----------------------------------------------------------------------------
(* One place for every node *)

\* The lists under their names.
LEMMA ListsUnfold ==
    /\ DOMAIN Lists = {"local", "remote", "pros"} \X Worker \X Worker
    /\ \A w, v \in Worker : Lists[<<"pros", w, v>>] = pros[w][v]
    /\ \A w \in Worker : Lists[<<"local", w, w>>] = local[w] /\ Lists[<<"remote", w, w>>] = remote[w]
    /\ \A w, v \in Worker : w # v =>
          Lists[<<"local", w, v>>] = <<>> /\ Lists[<<"remote", w, v>>] = <<>>
BY DEF Lists

\* Every list is one of these, or has no nodes.
LEMMA ListCases ==
    ASSUME NEW k \in DOMAIN Lists
    PROVE  \/ Lists[k] = <<>>
           \/ \E w \in Worker : k = <<"local", w, w>> /\ Lists[k] = local[w]
           \/ \E w \in Worker : k = <<"remote", w, w>> /\ Lists[k] = remote[w]
           \/ \E w, v \in Worker : k = <<"pros", w, v>> /\ Lists[k] = pros[w][v]
<1>1. PICK c \in {"local", "remote", "pros"}, w \in Worker, v \in Worker : k = <<c, w, v>>
  BY ListsUnfold
<1>2. CASE c = "local"
  <2>1. k = <<"local", w, v>>
    BY <1>1, <1>2
  <2>2. CASE w = v
    <3>1. k = <<"local", w, w>>
      BY <2>1, <2>2
    <3>2. Lists[k] = local[w]
      BY <3>1, ListsUnfold
    <3> QED
      BY <3>1, <3>2
  <2>3. CASE w # v
    BY <2>1, <2>3, ListsUnfold
  <2> QED
    BY <2>2, <2>3
<1>3. CASE c = "remote"
  <2>1. k = <<"remote", w, v>>
    BY <1>1, <1>3
  <2>2. CASE w = v
    <3>1. k = <<"remote", w, w>>
      BY <2>1, <2>2
    <3>2. Lists[k] = remote[w]
      BY <3>1, ListsUnfold
    <3> QED
      BY <3>1, <3>2
  <2>3. CASE w # v
    BY <2>1, <2>3, ListsUnfold
  <2> QED
    BY <2>2, <2>3
<1>4. CASE c = "pros"
  <2>1. k = <<"pros", w, v>>
    BY <1>1, <1>4
  <2> QED
    BY <2>1, ListsUnfold
<1> QED
  BY <1>1, <1>2, <1>3, <1>4

\* The nodes in lists, list by list.
LEMMA ListedUnfold ==
    ASSUME NEW n
    PROVE  n \in Listed <=>
             \/ \E w \in Worker : n \in Elements(local[w]) \/ n \in Elements(remote[w])
             \/ \E w, v \in Worker : n \in Elements(pros[w][v])
<1>1. ASSUME n \in Listed
      PROVE  \/ \E w \in Worker : n \in Elements(local[w]) \/ n \in Elements(remote[w])
             \/ \E w, v \in Worker : n \in Elements(pros[w][v])
  <2>1. PICK k \in DOMAIN Lists : n \in Elements(Lists[k])
    BY <1>1 DEF Listed
  <2> QED
    BY <2>1, ListCases, ElementsEmpty
<1>2. ASSUME NEW w \in Worker, n \in Elements(local[w])
      PROVE  n \in Listed
  <2>1. <<"local", w, w>> \in DOMAIN Lists /\ n \in Elements(Lists[<<"local", w, w>>])
    BY <1>2, ListsUnfold
  <2> QED
    BY <2>1 DEF Listed
<1>3. ASSUME NEW w \in Worker, n \in Elements(remote[w])
      PROVE  n \in Listed
  <2>1. <<"remote", w, w>> \in DOMAIN Lists /\ n \in Elements(Lists[<<"remote", w, w>>])
    BY <1>3, ListsUnfold
  <2> QED
    BY <2>1 DEF Listed
<1>4. ASSUME NEW w \in Worker, NEW v \in Worker, n \in Elements(pros[w][v])
      PROVE  n \in Listed
  <2>1. <<"pros", w, v>> \in DOMAIN Lists /\ n \in Elements(Lists[<<"pros", w, v>>])
    BY <1>4, ListsUnfold
  <2> QED
    BY <2>1 DEF Listed
<1> QED
  BY <1>1, <1>2, <1>3, <1>4

\* The invariant says that every node is in one place.
LEMMA InvInOnePlace == IInv => InOnePlace
<1> SUFFICES ASSUME IInv PROVE InOnePlace
  OBVIOUS
<1> USE DEF IInv
<1>1. ASSUME NEW k \in DOMAIN Lists
      PROVE  Injective(Lists[k])
  BY ListCases, ElementsEmpty DEF Apart
<1>2. ASSUME NEW k \in DOMAIN Lists, NEW l \in DOMAIN Lists,
             NEW n \in Elements(Lists[k]), n \in Elements(Lists[l])
      PROVE  k = l
  <2>1. Lists[k] # <<>> /\ Lists[l] # <<>>
    BY <1>2, ElementsEmpty
  <2>2. ASSUME NEW w \in Worker, k = <<"local", w, w>>, Lists[k] = local[w]
        PROVE  k = l
    <3>1. n \in Elements(local[w]) /\ allocWk[n] = w
      BY <2>2, <1>2 DEF ComesHome
    <3>2. ASSUME NEW v \in Worker, l = <<"local", v, v>>, Lists[l] = local[v]
          PROVE  v = w
      BY <3>1, <3>2, <1>2 DEF ComesHome
    <3>3. ASSUME NEW v \in Worker, l = <<"remote", v, v>>, Lists[l] = remote[v]
          PROVE  FALSE
      BY <3>1, <3>3, <1>2 DEF ComesHome, Apart
    <3>4. ASSUME NEW u \in Worker, NEW v \in Worker, l = <<"pros", u, v>>, Lists[l] = pros[u][v]
          PROVE  FALSE
      BY <3>1, <3>4, <1>2 DEF ComesHome, Apart
    <3> QED
      BY <2>1, <2>2, <3>2, <3>3, <3>4, ListCases
  <2>3. ASSUME NEW w \in Worker, k = <<"remote", w, w>>, Lists[k] = remote[w]
        PROVE  k = l
    <3>1. n \in Elements(remote[w]) /\ allocWk[n] = w
      BY <2>3, <1>2 DEF ComesHome
    <3>2. ASSUME NEW v \in Worker, l = <<"local", v, v>>, Lists[l] = local[v]
          PROVE  FALSE
      BY <3>1, <3>2, <1>2 DEF ComesHome, Apart
    <3>3. ASSUME NEW v \in Worker, l = <<"remote", v, v>>, Lists[l] = remote[v]
          PROVE  v = w
      BY <3>1, <3>3, <1>2 DEF ComesHome
    <3>4. ASSUME NEW u \in Worker, NEW v \in Worker, l = <<"pros", u, v>>, Lists[l] = pros[u][v]
          PROVE  FALSE
      BY <3>1, <3>4, <1>2 DEF ComesHome, Apart
    <3> QED
      BY <2>1, <2>3, <3>2, <3>3, <3>4, ListCases
  <2>4. ASSUME NEW x \in Worker, NEW w \in Worker, k = <<"pros", x, w>>, Lists[k] = pros[x][w]
        PROVE  k = l
    <3>1. n \in Elements(pros[x][w]) /\ allocWk[n] = w
      BY <2>4, <1>2 DEF ComesHome
    <3>2. ASSUME NEW v \in Worker, l = <<"local", v, v>>, Lists[l] = local[v]
          PROVE  FALSE
      BY <3>1, <3>2, <1>2 DEF ComesHome, Apart
    <3>3. ASSUME NEW v \in Worker, l = <<"remote", v, v>>, Lists[l] = remote[v]
          PROVE  FALSE
      BY <3>1, <3>3, <1>2 DEF ComesHome, Apart
    <3>4. ASSUME NEW u \in Worker, NEW v \in Worker, l = <<"pros", u, v>>, Lists[l] = pros[u][v]
          PROVE  u = x /\ v = w
      BY <3>1, <3>4, <1>2 DEF ComesHome, Apart
    <3> QED
      BY <2>1, <2>4, <3>2, <3>3, <3>4, ListCases
  <2> QED
    BY <2>1, <2>2, <2>3, <2>4, ListCases
<1>3. (fresh \cup held) \cap Listed = {}
  BY ListedUnfold DEF Outside
<1>4. Node \subseteq fresh \cup held \cup Listed
  BY ListedUnfold DEF Kept
<1>5. fresh \cup held \cup Listed \subseteq Node
  <2>1. \A w, v \in Worker : /\ Elements(local[w]) \subseteq Node
                             /\ Elements(remote[w]) \subseteq Node
                             /\ Elements(pros[w][v]) \subseteq Node
    BY ElementsType DEF TypeOK
  <2> QED
    BY <2>1, ListedUnfold DEF TypeOK
<1>6. \A k \in DOMAIN Lists : \A i, j \in DOMAIN Lists[k] : Lists[k][i] = Lists[k][j] => i = j
  BY <1>1 DEF Injective
<1>7. \A k, l \in DOMAIN Lists : k # l => Elements(Lists[k]) \cap Elements(Lists[l]) = {}
  BY <1>2
<1> QED
  BY <1>3, <1>4, <1>5, <1>6, <1>7 DEF InOnePlace

\* The same of the next state.
LEMMA InvInOnePlaceNext == IInv' => InOnePlace'
BY InvInOnePlace, PTL

\* No node is lost, handed out while it is in a list, or listed twice, whatever
\* the interleaving of allocate and deallocate.
THEOREM InOnePlaceHolds == Spec => []InOnePlace
BY InvHolds, InvInOnePlace, PTL

----------------------------------------------------------------------------
(* Refinement *)

\* The partition of the nodes, which InOnePlace states.
LEMMA Partition ==
    ASSUME InOnePlace
    PROVE  fresh \cup Listed = Node \ held /\ held \subseteq Node
BY DEF InOnePlace

\* The pool implements Pool: every step hands out a spare node, or takes back
\* one that is in use.
THEOREM PoolRefined == Spec => RefinesPool
<1> DEFINE sp == fresh \cup Listed
<1>1. Init => AbstractPool!Init
  <2> SUFFICES ASSUME Init PROVE held = {} /\ sp = Node
    BY DEF AbstractPool!Init
  <2>1. InOnePlace
    BY InitInv, InvInOnePlace
  <2> QED
    BY <2>1, Partition DEF Init
<1>2. IInv /\ IInv' /\ [Next]_vars => [AbstractPool!Next]_<<held, sp>>
  <2> SUFFICES ASSUME IInv, IInv', [Next]_vars
               PROVE  [AbstractPool!Next]_<<held, sp>>
    OBVIOUS
  <2>1. sp = Node \ held /\ held \subseteq Node /\ sp' = Node \ held'
    <3>1. InOnePlace /\ InOnePlace'
      BY InvInOnePlace, InvInOnePlaceNext
    <3>2. (fresh \cup Listed = Node \ held)'
      BY <3>1 DEF InOnePlace
    <3> QED
      BY <3>1, <3>2, Partition
  <2> HIDE DEF sp
  <2>2. ASSUME NEW w \in Worker, NEW n \in Node, Allocate(w, n)
        PROVE  AbstractPool!Allocate(n)
    <3>1. n \notin held
      <4>1. CASE AllocateLocal(w, n)
        <5>1. local[w] \in Seq(Node) /\ local[w] # <<>> /\ n = Head(local[w])
          BY <4>1 DEF AllocateLocal, IInv, TypeOK
        <5> QED
          BY <5>1, ElementsTail DEF IInv, Outside
      <4>2. CASE AllocateRemote(w, n)
        <5>1. remote[w] \in Seq(Node) /\ remote[w] # <<>> /\ n = Head(remote[w])
          BY <4>2 DEF AllocateRemote, IInv, TypeOK
        <5> QED
          BY <5>1, ElementsTail DEF IInv, Outside
      <4>3. CASE AllocateNew(w, n)
        BY <4>3 DEF AllocateNew, IInv
      <4> QED
        BY <2>2, <4>1, <4>2, <4>3 DEF Allocate
    <3>2. held' = held \cup {n}
      BY <2>2 DEF Allocate
    <3> QED
      BY <2>1, <3>1, <3>2 DEF AbstractPool!Allocate, sp
  <2>3. ASSUME NEW w \in Worker, NEW n \in Node, Deallocate(w, n)
        PROVE  AbstractPool!Deallocate(n)
    BY <2>3, <2>1 DEF Deallocate, AbstractPool!Deallocate, sp
  <2>4. CASE UNCHANGED vars
    BY <2>4, <2>1 DEF vars
  <2> QED
    BY <2>2, <2>3, <2>4 DEF Next, AbstractPool!Next
<1> QED
  BY <1>1, <1>2, InvHolds, PTL DEF Spec, RefinesPool, AbstractPool!Spec
=============================================================================
