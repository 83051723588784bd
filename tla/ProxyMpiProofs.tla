-------------------------- MODULE ProxyMpiProofs --------------------------
(***************************************************************************)
(* Proofs about ProxyMpi, and with it about the Delegator, for any number  *)
(* of threads and nodes and any size of the request holder.                *)
(*                                                                         *)
(* The invariant has five parts.  The token: who has the lock.  The queue: *)
(* whose node is where.  What the nodes hold, and how far the head has     *)
(* been executed.  The requests: each is in one place until its thread     *)
(* knows that it is finished.  The destructor: it finds nothing to do.     *)
(***************************************************************************)
EXTENDS ProxyMpi, FiniteSetTheorems, TLAPS

QueuePC == {"save", "link"}
FuncOps == {"nb", "block", "noreq"}

\* The lock has one holder, a thread or the consumer, and the consumer is parked
\* while it is a thread.  A lock that is free is not held.
Token ==
    /\ \A t, u \in Thread : pc[t] \in HolderPC /\ pc[u] \in HolderPC => t = u
    /\ \A t \in Thread : pc[t] \in HolderPC \cup {"notify"} => pc[Con] = "parked"
    /\ conSth <=> pc[Con] \in {"parked", "con_unlock"}
    /\ tail = Nil => \A t \in Thread : pc[t] \notin HolderPC
    /\ tail = Nil /\ ~finished => pc[Con] = "parked"
    /\ finished => pc[Con] \in {"parked", "consume", "exited"}

----------------------------------------------------------------------------
\* The two ends of the queue.
Ends ==
    /\ tail = Nil <=> head = Nil
    /\ tail \notin free /\ head \notin free
    /\ tail # Nil => next[tail] = Nil

\* A thread that is about to link its node behind another one.
Queueing ==
    /\ \A t \in Thread : pc[t] \in QueuePC =>
        /\ node[t] \in Node /\ node[t] \notin free /\ node[t] # head
        /\ pred[t] \in Node /\ pred[t] \notin free /\ pred[t] # tail
        /\ next[pred[t]] = Nil
    /\ \A t, u \in Thread : pc[t] \in QueuePC /\ pc[u] \in QueuePC /\ t # u =>
        node[t] # node[u] /\ pred[t] # pred[u]

\* A linked node has one node in front of it, and no thread any more.
Links ==
    /\ \A m \in Node : next[m] # Nil =>
        /\ m \notin free /\ next[m] \notin free /\ next[m] # head
        /\ \A t \in Thread : pc[t] \in QueuePC => node[t] # next[m]
    /\ \A m, n \in Node : next[m] # Nil /\ next[m] = next[n] => m = n

\* A thread is suspended in its own node until the node is the head.
Suspended ==
    /\ \A n \in Node : sth[n] # Nil =>
        /\ n \notin free /\ n # head
        /\ pc[sth[n]] \in {"link", "blocked"}
        /\ pc[sth[n]] = "link" => node[sth[n]] = n
        /\ op[sth[n]] \in {"probe", "stop"}
    /\ \A m, n \in Node : sth[n] # Nil /\ sth[n] = sth[m] => n = m

QueueInv == Ends /\ Queueing /\ Links /\ Suspended

----------------------------------------------------------------------------
\* What a node holds: a thread or a function, once it is saved.
Contents ==
    /\ \A n \in free : func[n] = Nil
    /\ \A t \in Thread : pc[t] = "save" => sth[node[t]] = Nil /\ func[node[t]] = Nil
    /\ \A t \in Thread : pc[t] = "link" =>
        IF op[t] \in FuncOps
        THEN sth[node[t]] = Nil /\ func[node[t]] = [op |-> op[t], by |-> t]
        ELSE sth[node[t]] = t /\ func[node[t]] = Nil
    /\ \A m \in Node : next[m] # Nil => (sth[next[m]] # Nil <=> func[next[m]] = Nil)
    /\ \A t \in Thread : pc[t] \in HolderPC => func[head] = Nil

\* A head that the consumer has to execute is a function.
HeadToExecute ==
    /\ pc[Con] = "consume" /\ ~finished /\ ~isExec => func[head] # Nil
    /\ pc[Con] \in {"progress", "finish"} /\ ~conEx => func[head] # Nil
    /\ pc[Con] = "con_unlock" => isExec
    /\ pc[Con] \notin {"progress", "finish"} => conEx
    /\ \A t \in Thread : pc[t] \in {"follow", "follow_wait"} => isExec

\* No request is ongoing when the lock is free or about to be.
Idle ==
    /\ tail = Nil => holder = <<>>
    /\ pc[Con] = "con_unlock" => holder = <<>>
    /\ \A t \in Thread : pc[t] = "cs" /\ op[t] \in FuncOps => holder = <<>>

DeviceInv == Contents /\ HeadToExecute /\ Idle

----------------------------------------------------------------------------
\* The operation a thread is in, and what it knows of its request.
PhaseOf(t) ==
    /\ pc[t] \in {"idle", "wait"} => op[t] = Nil
    /\ pc[t] \in {"lock", "save", "link", "cs", "unlock", "follow"} => op[t] \in Ops
    /\ pc[t] \in {"unlock_wait", "follow_wait"} => op[t] = "block" /\ reqSt[t] = "waiting"
    /\ pc[t] \in {"notify", "join", "stopped"} => op[t] = "stop"
    /\ pc[t] = "ret" => op[t] \in {Nil, "block"}
    /\ pc[t] = "wait" => reqSt[t] \in {"created", "finished"} /\ reqSth[t]
    /\ pc[t] \in {"unlock", "follow"} /\ op[t] = "block" => reqSt[t] = "finished"

\* How a thread waits for its request.
WaitOf(t) ==
    /\ reqSt[t] = "waiting" =>
        /\ pc[t] \in {"link", "blocked", "unlock_wait", "follow_wait", "ret"}
        /\ op[t] \in {Nil, "block"}
        /\ pc[t] \in {"link", "blocked"} /\ awake # t => reqSth[t]
    /\ reqSth[t] =>
        /\ pc[t] \in {"link", "wait", "blocked"}
        /\ op[t] \in {Nil, "block"}
    /\ awake = t =>
        /\ pc[t] = "blocked" /\ reqSt[t] = "waiting" /\ ~reqSth[t]
        /\ pc[Con] \in {"finish", "con_unlock"}

\* The threads whose request is delegated, the ones whose request has been given away.
Carries(n, t) == func[n].by = t /\ HasRequest(func[n].op)
Delegated == {t \in Thread : \E n \in Pending : Carries(n, t)}
Given == Range(holder) \cup Delegated

\* A request is in one place.
Places ==
    /\ \A n, m \in Pending, t \in Thread : Carries(n, t) /\ Carries(m, t) => n = m
    /\ \A i, j \in DOMAIN holder : holder[i] = holder[j] => i = j
    /\ Range(holder) \cap Delegated = {}

\* A request is new, given away, or over.
Fresh(t) == pc[t] \in {"lock", "save", "cs"} /\ op[t] \in {"nb", "block"}
StandingOf(t) ==
    /\ t \in Given => reqSt[t] \in {"created", "waiting"} /\ pc[t] # "ret" /\ awake # t
    /\ Fresh(t) => reqSt[t] = "created" /\ t \notin Given
    /\ reqSt[t] = "created" /\ ~Fresh(t) => t \in Given
    /\ reqSt[t] = "waiting" /\ pc[t] # "ret" /\ awake # t => t \in Given

Phases == \A t \in Thread : PhaseOf(t)
Waits == \A t \in Thread : WaitOf(t)
Standing == \A t \in Thread : StandingOf(t)

RequestInv == Phases /\ Waits /\ Places /\ Standing

----------------------------------------------------------------------------
StopPC == {"lock", "save", "link", "blocked", "cs", "unlock", "notify", "join", "stopped"}

\* The destructor: everybody else is idle, nothing is ongoing, its node is the last one.
Stopping ==
    /\ \A t \in Thread : op[t] = "stop" =>
        /\ \A u \in Thread : reqSt[u] = "none" /\ (u # t => pc[u] = "idle")
        /\ pc[t] \in StopPC
        /\ pc[t] \in QueuePC => node[t] = tail
        /\ pc[t] = "blocked" => tail # Nil /\ sth[tail] = t
        /\ pc[t] \in {"cs", "unlock"} => head = tail
        /\ finished <=> pc[t] \in {"unlock", "notify", "join", "stopped"}
    /\ finished => \E t \in Thread : op[t] = "stop"

IInv == TypeOK /\ Token /\ QueueInv /\ DeviceInv /\ RequestInv /\ Stopping

\* Who sleeps in a request is woken from it, if MPI gives the consumer no null request.
Sleeping == \A t \in Thread : pc[t] \in {"link", "blocked"} /\ reqSth[t] => reqSt[t] = "waiting"

----------------------------------------------------------------------------
(* Facts that the steps use *)

LEMMA Nils == Nil \notin Node /\ Nil \notin Thread /\ Con \notin Thread /\ Nil \notin Ops /\ Nil \notin Func
BY NodeAssumption, ThreadAssumption, NilAssumption

\* What the state is like while a thread has the lock.
LEMMA HolderFacts ==
    ASSUME IInv, NEW t \in Thread, pc[t] \in HolderPC
    PROVE  /\ head \in Node /\ tail \in Node /\ head \notin free
           /\ pc[Con] = "parked" /\ conSth /\ conEx /\ func[head] = Nil
           /\ \A u \in Thread : pc[u] \in HolderPC => u = t
           /\ \A u \in Thread : awake # u
<1>1. tail # Nil /\ head # Nil /\ head \notin free
  BY DEF IInv, Token, QueueInv, Ends
<1>2. head \in Node /\ tail \in Node
  BY <1>1 DEF IInv, TypeOK, CoreTypeOK
<1>3. pc[Con] = "parked"
  BY DEF IInv, Token
<1>4. conSth
  BY <1>3 DEF IInv, Token
<1>5. conEx
  BY <1>3 DEF IInv, DeviceInv, HeadToExecute
<1>6. func[head] = Nil
  BY DEF IInv, DeviceInv, Contents
<1>7. \A u \in Thread : pc[u] \in HolderPC => u = t
  BY DEF IInv, Token
<1>8. \A u \in Thread : awake # u
  BY <1>3 DEF IInv, RequestInv, Waits, WaitOf
<1> QED
  BY <1>1, <1>2, <1>3, <1>4, <1>5, <1>6, <1>7, <1>8

\* What the state is like while the consumer has the lock.
LEMMA ConsumerFacts ==
    ASSUME IInv, ConHolding, ~finished
    PROVE  /\ head \in Node /\ tail \in Node /\ head \notin free
           /\ \A u \in Thread : pc[u] \notin HolderPC /\ pc[u] # "notify"
<1>1. pc[Con] # "parked"
  BY DEF ConHolding
<1>2. tail # Nil /\ head # Nil /\ head \notin free
  BY <1>1 DEF IInv, Token, QueueInv, Ends
<1>3. head \in Node /\ tail \in Node
  BY <1>2 DEF IInv, TypeOK, CoreTypeOK
<1>4. \A u \in Thread : pc[u] \notin HolderPC /\ pc[u] # "notify"
  BY <1>1 DEF IInv, Token
<1> QED
  BY <1>2, <1>3, <1>4

\* Nodes that are free, and nodes in which a thread is suspended.
LEMMA NodeFacts ==
    ASSUME IInv
    PROVE  /\ \A n \in Node : sth[n] # Nil => sth[n] \in Thread
           /\ \A n \in free : n \in Node /\ sth[n] = Nil /\ next[n] = Nil /\ func[n] = Nil
           /\ \A m \in Node : next[m] # Nil => next[m] \in Node
           /\ \A m \in Node : next[m] # Nil /\ sth[next[m]] # Nil =>
                sth[next[m]] \in Thread /\ pc[sth[next[m]]] = "blocked"
<1>1. \A n \in Node : sth[n] # Nil => sth[n] \in Thread
  BY DEF IInv, TypeOK
<1>2. \A n \in free : n \in Node
  BY DEF IInv, TypeOK, CoreTypeOK
<1>3. \A n \in free : sth[n] = Nil /\ next[n] = Nil /\ func[n] = Nil
  BY <1>2 DEF IInv, QueueInv, Suspended, Links, DeviceInv, Contents
<1>4. \A m \in Node : next[m] # Nil => next[m] \in Node
  BY DEF IInv, TypeOK, CoreTypeOK
<1>5. ASSUME NEW m \in Node, next[m] # Nil, sth[next[m]] # Nil
      PROVE  sth[next[m]] \in Thread /\ pc[sth[next[m]]] = "blocked"
  <2>1. PICK n \in Node : n = next[m]
    BY <1>4, <1>5
  <2>2. PICK u \in Thread : u = sth[n]
    BY <1>1, <1>5, <2>1
  <2>3. pc[u] \in {"link", "blocked"} /\ (pc[u] = "link" => node[u] = n)
    BY <1>5, <2>1, <2>2 DEF IInv, QueueInv, Suspended
  <2>4. pc[u] # "link"
    BY <1>5, <2>1, <2>3 DEF IInv, QueueInv, Links, QueuePC
  <2> QED
    BY <2>1, <2>2, <2>3, <2>4
<1> QED
  BY <1>1, <1>2, <1>3, <1>4, <1>5

----------------------------------------------------------------------------
(* The queue *)

\* Nothing in the queue changes.
LEMMA SameQueue ==
    ASSUME IInv, tail' = tail, head' = head, next' = next, free' = free,
           node' = node, pred' = pred, sth' = sth,
           \A u \in Thread : pc'[u] \in QueuePC <=> pc[u] \in QueuePC,
           \A n \in Node : sth[n] # Nil => pc'[sth[n]] = pc[sth[n]] /\ op'[sth[n]] = op[sth[n]]
    PROVE  QueueInv'
<1>1. Ends'
  BY DEF IInv, QueueInv, Ends
<1>2. Queueing'
  BY DEF IInv, QueueInv, Queueing
<1>3. Links'
  BY DEF IInv, QueueInv, Links
<1>4. Suspended'
  BY DEF IInv, QueueInv, Suspended
<1> QED
  BY <1>1, <1>2, <1>3, <1>4 DEF QueueInv

\* The head is given back, and nobody is behind it.
LEMMA EmptiedQueue ==
    ASSUME IInv, head \in Node, head \notin free, tail = head, tail' = Nil, head' = Nil,
           free' = free \cup {head}, next' = [next EXCEPT ![head] = Nil],
           node' = node, pred' = pred, sth' = sth,
           \A u \in Thread : pc'[u] \in QueuePC <=> pc[u] \in QueuePC,
           \A n \in Node : sth[n] # Nil => pc'[sth[n]] = pc[sth[n]] /\ op'[sth[n]] = op[sth[n]]
    PROVE  QueueInv'
<1>1. next[head] = Nil /\ next' = next
  <2>1. next[head] = Nil
    BY Nils DEF IInv, QueueInv, Ends
  <2> QED
    BY <2>1 DEF IInv, TypeOK, CoreTypeOK
<1>2. Ends'
  BY Nils DEF Ends, IInv, TypeOK, CoreTypeOK
<1>3. Queueing'
  BY <1>1, Nils DEF IInv, QueueInv, Queueing
<1>4. Links'
  <2>1. \A m \in Node : next[m] # Nil => m # head /\ next[m] # head
    BY <1>1 DEF IInv, QueueInv, Links
  <2> QED
    BY <1>1, <2>1 DEF IInv, QueueInv, Links
<1>5. Suspended'
  BY Nils DEF IInv, QueueInv, Suspended
<1> QED
  BY <1>2, <1>3, <1>4, <1>5 DEF QueueInv

\* The head is given back and its successor becomes the head.
LEMMA MovedQueue ==
    ASSUME IInv, head \in Node, head \notin free, Successor # Nil,
           tail' = tail, head' = Successor,
           free' = free \cup {head}, next' = [next EXCEPT ![head] = Nil],
           node' = node, pred' = pred, sth'[Successor] = Nil,
           \A n \in Node \ {Successor} : sth'[n] = sth[n],
           \A u \in Thread : pc'[u] \in QueuePC <=> pc[u] \in QueuePC,
           \A n \in Node \ {Successor} : sth[n] # Nil => pc'[sth[n]] = pc[sth[n]] /\ op'[sth[n]] = op[sth[n]]
    PROVE  QueueInv'
<1> DEFINE s == Successor
<1>1. /\ s \in Node /\ s \notin free /\ s # head
      /\ \A t \in Thread : pc[t] \in QueuePC => node[t] # s
      /\ \A m \in Node : next[m] = s => m = head
  BY NodeFacts DEF IInv, QueueInv, Links, Successor
<1>2. /\ next'[head] = Nil
      /\ \A m \in Node \ {head} : next'[m] = next[m]
  BY DEF IInv, TypeOK, CoreTypeOK
<1>3. tail # Nil /\ tail # head /\ tail \notin free /\ tail \in Node
  <2>1. tail # Nil
    BY Nils DEF IInv, QueueInv, Ends
  <2> QED
    BY <2>1 DEF IInv, QueueInv, Ends, Successor, TypeOK, CoreTypeOK
<1>4. Ends'
  BY <1>1, <1>2, <1>3, Nils DEF IInv, QueueInv, Ends
<1>5. Queueing'
  <2>1. ASSUME NEW t \in Thread, pc'[t] \in QueuePC
        PROVE  /\ node'[t] \in Node /\ node'[t] \notin free' /\ node'[t] # head'
               /\ pred'[t] \in Node /\ pred'[t] \notin free' /\ pred'[t] # tail'
               /\ next'[pred'[t]] = Nil
    <3>1. /\ node[t] \in Node /\ node[t] \notin free /\ node[t] # head
          /\ pred[t] \in Node /\ pred[t] \notin free /\ pred[t] # tail
          /\ next[pred[t]] = Nil /\ node[t] # s
      BY <1>1, <2>1 DEF IInv, QueueInv, Queueing
    <3>2. pred[t] # head
      BY <3>1 DEF Successor
    <3> QED
      BY <1>2, <3>1, <3>2
  <2>2. \A t, u \in Thread : pc'[t] \in QueuePC /\ pc'[u] \in QueuePC /\ t # u =>
            node'[t] # node'[u] /\ pred'[t] # pred'[u]
    BY DEF IInv, QueueInv, Queueing
  <2> QED
    BY <2>1, <2>2 DEF Queueing
<1>6. Links'
  <2>1. ASSUME NEW m \in Node, next'[m] # Nil
        PROVE  /\ m \notin free' /\ next'[m] \notin free' /\ next'[m] # head'
               /\ \A t \in Thread : pc'[t] \in QueuePC => node'[t] # next'[m]
    <3>1. m # head /\ next'[m] = next[m]
      BY <1>2, <2>1
    <3> QED
      BY <1>1, <2>1, <3>1 DEF IInv, QueueInv, Links
  <2>2. \A m, n \in Node : next'[m] # Nil /\ next'[m] = next'[n] => m = n
    BY <1>2 DEF IInv, QueueInv, Links
  <2> QED
    BY <2>1, <2>2 DEF Links
<1>7. Suspended'
  <2>1. \A n \in Node : sth'[n] # Nil => n # s /\ sth'[n] = sth[n]
    BY <1>1
  <2>2. head' = s
    OBVIOUS
  <2> HIDE DEF s
  <2>3. ASSUME NEW n \in Node, sth'[n] # Nil
        PROVE  /\ n \notin free' /\ n # head'
               /\ pc'[sth'[n]] \in {"link", "blocked"}
               /\ pc'[sth'[n]] = "link" => node'[sth'[n]] = n
               /\ op'[sth'[n]] \in {"probe", "stop"}
    <3>1. n # s /\ sth'[n] = sth[n]
      BY <2>1, <2>3
    <3>2. /\ n \notin free /\ n # head
          /\ pc[sth[n]] \in {"link", "blocked"}
          /\ pc[sth[n]] = "link" => node[sth[n]] = n
          /\ op[sth[n]] \in {"probe", "stop"}
      BY <2>3, <3>1 DEF IInv, QueueInv, Suspended
    <3>3. pc'[sth[n]] = pc[sth[n]] /\ op'[sth[n]] = op[sth[n]]
      BY <2>3, <3>1 DEF s
    <3> QED
      BY <2>2, <3>1, <3>2, <3>3
  <2>4. \A m, n \in Node : sth'[n] # Nil /\ sth'[n] = sth'[m] => n = m
    BY <2>1 DEF IInv, QueueInv, Suspended
  <2> QED
    BY <2>3, <2>4 DEF Suspended
<1> QED
  BY <1>4, <1>5, <1>6, <1>7 DEF QueueInv

----------------------------------------------------------------------------
(* Requests that do not move *)

\* The pending functions depend on what is executed only if the head is a function.
LEMMA SamePending ==
    ASSUME IInv, head' = head, free' = free, func' = func,
           Executing' = Executing \/ (head \in Node => func[head] = Nil)
    PROVE  Pending' = Pending
<1>1. CASE Executing' = Executing
  BY <1>1 DEF Pending
<1>2. CASE head \in Node => func[head] = Nil
  BY <1>2 DEF Pending
<1> QED
  BY <1>1, <1>2

\* A head that is given back and is not pending.
LEMMA MovedPending ==
    ASSUME IInv, head \in Node, head \notin Pending,
           free' = free \cup {head}, func' = [func EXCEPT ![head] = Nil],
           head' \in Node /\ func[head'] # Nil => head' \notin free /\ head' # head /\ ~Executing'
    PROVE  Pending' = Pending /\ \A n \in Pending : func'[n] = func[n]
<1>1. func'[head] = Nil /\ \A n \in Node \ {head} : func'[n] = func[n]
  BY DEF IInv, TypeOK
<1>2. ASSUME NEW n \in Pending'
      PROVE  n \in Pending
  <2>1. n \in Node /\ n \notin free /\ n # head /\ func[n] # Nil
    BY <1>1 DEF Pending
  <2> QED
    BY <2>1 DEF Pending
<1>3. ASSUME NEW n \in Pending
      PROVE  n \in Pending'
  <2>1. n \in Node /\ n \notin free /\ n # head /\ func[n] # Nil
    BY DEF Pending
  <2>2. n \in Node \ free' /\ func'[n] # Nil
    BY <1>1, <2>1
  <2>3. ~(n = head' /\ Executing')
    BY <2>1
  <2> QED
    BY <2>2, <2>3 DEF Pending
<1> QED
  BY <1>1, <1>2, <1>3 DEF Pending

LEMMA GivenAreThreads ==
    ASSUME TypeOK
    PROVE  Given \subseteq Thread /\ Range(holder) \subseteq Thread
<1>1. \A i \in DOMAIN holder : holder[i] \in Thread
  BY DEF TypeOK
<1> QED
  BY <1>1 DEF Given, Delegated, Range

\* No request moves.
LEMMA SamePlaces ==
    ASSUME Places, holder' = holder, Pending' = Pending,
           \A n \in Pending : func'[n] = func[n]
    PROVE  Places' /\ Given' = Given
<1>1. \A n \in Pending, u \in Thread : Carries(n, u)' <=> Carries(n, u)
  BY DEF Carries
<1>2. Delegated' = Delegated
  BY <1>1 DEF Delegated
<1>3. Given' = Given /\ Range(holder)' = Range(holder)
  BY <1>2 DEF Given, Range
<1>4. \A n, m \in Pending', u \in Thread : Carries(n, u)' /\ Carries(m, u)' => n = m
  BY <1>1 DEF Places
<1> QED
  BY <1>2, <1>3, <1>4 DEF Places

\* The step does not concern this thread and its request.
LEMMA SameThread ==
    ASSUME IInv, NEW u \in Thread,
           pc'[u] = pc[u], op'[u] = op[u], reqSt'[u] = reqSt[u], reqSth'[u] = reqSth[u],
           awake' = u <=> awake = u, awake = u => pc'[Con] \in {"finish", "con_unlock"},
           u \in Given' <=> u \in Given
    PROVE  PhaseOf(u)' /\ WaitOf(u)' /\ StandingOf(u)'
<1>1. PhaseOf(u) /\ WaitOf(u) /\ StandingOf(u)
  BY DEF IInv, RequestInv, Phases, Waits, Standing
<1>2. PhaseOf(u)'
  BY <1>1 DEF PhaseOf
<1>3. WaitOf(u)'
  BY <1>1 DEF WaitOf
<1>4. StandingOf(u)'
  BY <1>1 DEF StandingOf, Fresh
<1> QED
  BY <1>2, <1>3, <1>4

----------------------------------------------------------------------------
(* Classes of steps *)

\* A thread outside the queue and without the lock takes a step of its own.
LEMMA QuietThread ==
    ASSUME IInv, NEW t \in Thread,
           UNCHANGED <<core, queueArgs, isExec, conSth, conLocals, finished, holder>>,
           \A u \in Thread \ {t} : pc'[u] = pc[u] /\ op'[u] = op[u], pc'[Con] = pc[Con],
           pc[t] \notin HolderPC \cup QueuePC \cup {"blocked"},
           pc'[t] \notin HolderPC \cup QueuePC \cup {"notify"}
    PROVE  Token' /\ QueueInv' /\ DeviceInv' /\ Pending' = Pending
<1>1. /\ tail' = tail /\ head' = head /\ next' = next /\ free' = free
      /\ node' = node /\ pred' = pred /\ sth' = sth /\ func' = func
      /\ isExec' = isExec /\ conSth' = conSth /\ conEx' = conEx /\ awake' = awake
      /\ finished' = finished /\ holder' = holder
  BY DEF core, queueArgs, conLocals
<1>2. \A u \in Thread : (pc'[u] \in HolderPC <=> pc[u] \in HolderPC)
                        /\ (pc'[u] \in QueuePC <=> pc[u] \in QueuePC)
  OBVIOUS
<1>3. Token'
  BY <1>1, <1>2 DEF IInv, Token
<1>4. QueueInv'
  <2>1. \A n \in Node : sth[n] # Nil => sth[n] \in Thread /\ sth[n] # t
    BY NodeFacts DEF IInv, QueueInv, Suspended, QueuePC
  <2>2. \A n \in Node : sth[n] # Nil => pc'[sth[n]] = pc[sth[n]] /\ op'[sth[n]] = op[sth[n]]
    BY <2>1
  <2> QED
    BY <1>1, <1>2, <2>2, SameQueue
<1>5. DeviceInv'
  <2>1. Contents'
    <3>1. \A u \in Thread : pc'[u] \in QueuePC => u # t
      OBVIOUS
    <3> QED
      BY <1>1, <1>2, <3>1 DEF IInv, DeviceInv, Contents, QueuePC
  <2>2. HeadToExecute'
    BY <1>1 DEF IInv, DeviceInv, HeadToExecute, HolderPC
  <2>3. Idle'
    BY <1>1 DEF IInv, DeviceInv, Idle, HolderPC
  <2> QED
    BY <2>1, <2>2, <2>3 DEF DeviceInv
<1>6. Pending' = Pending
  BY <1>1 DEF Pending, Executing
<1> QED
  BY <1>3, <1>4, <1>5, <1>6

\* The holder goes on with the lock.
LEMMA HolderStep ==
    ASSUME IInv, NEW t \in Thread,
           UNCHANGED <<core, queueArgs, conSth, conLocals, op>>,
           pc[t] \in HolderPC, pc'[t] \in HolderPC \ {"cs"},
           \A u \in Thread \ {t} : pc'[u] = pc[u], pc'[Con] = pc[Con],
           finished => finished', pc'[t] \in {"follow", "follow_wait"} => isExec'
    PROVE  Token' /\ QueueInv' /\ DeviceInv' /\ Pending' = Pending
<1>1. /\ tail' = tail /\ head' = head /\ next' = next /\ free' = free
      /\ node' = node /\ pred' = pred /\ sth' = sth /\ func' = func
      /\ conSth' = conSth /\ conEx' = conEx /\ awake' = awake /\ op' = op
  BY DEF core, queueArgs, conLocals
<1>2. \A u \in Thread : (pc'[u] \in HolderPC <=> pc[u] \in HolderPC)
                        /\ (pc'[u] \in QueuePC <=> pc[u] \in QueuePC)
  BY DEF HolderPC, QueuePC
<1>3. /\ head \in Node /\ tail # Nil /\ pc[Con] = "parked" /\ conEx /\ func[head] = Nil
      /\ \A u \in Thread : pc[u] \in HolderPC => u = t
  BY HolderFacts, Nils
<1>4. Token'
  BY <1>1, <1>2, <1>3 DEF IInv, Token, HolderPC
<1>5. QueueInv'
  <2>1. pc[t] \notin {"link", "blocked"}
    BY DEF HolderPC
  <2>2. \A n \in Node : sth[n] # Nil => sth[n] \in Thread /\ sth[n] # t
    BY <2>1, NodeFacts DEF IInv, QueueInv, Suspended
  <2>3. \A n \in Node : sth[n] # Nil => pc'[sth[n]] = pc[sth[n]] /\ op'[sth[n]] = op[sth[n]]
    BY <1>1, <2>2
  <2> QED
    BY <1>1, <1>2, <2>3, SameQueue
<1>6. DeviceInv'
  <2>1. Contents'
    <3>1. \A u \in Thread : pc'[u] \in QueuePC => pc'[u] = pc[u]
      BY <1>2 DEF HolderPC, QueuePC
    <3> QED
      BY <1>1, <1>2, <3>1 DEF IInv, DeviceInv, Contents, QueuePC
  <2>2. HeadToExecute'
    BY <1>1, <1>3 DEF HeadToExecute, HolderPC
  <2>3. Idle'
    BY <1>1, <1>3 DEF Idle, HolderPC
  <2> QED
    BY <2>1, <2>2, <2>3 DEF DeviceInv
<1>7. Pending' = Pending
  BY <1>1, <1>3, SamePending
<1> QED
  BY <1>4, <1>5, <1>6, <1>7

\* No node changes what it holds.
LEMMA SameContents ==
    ASSUME IInv, head' = head, next' = next, free' = free, node' = node, sth' = sth, func' = func,
           \A u \in Thread : pc'[u] \in QueuePC => pc[u] = pc'[u] /\ op'[u] = op[u],
           \A u \in Thread : pc'[u] \in HolderPC => func[head] = Nil
    PROVE  Contents'
<1>1. \A u \in Thread : pc'[u] = "save" => sth'[node'[u]] = Nil /\ func'[node'[u]] = Nil
  BY DEF IInv, DeviceInv, Contents, QueuePC
<1>2. \A u \in Thread : pc'[u] = "link" =>
        IF op'[u] \in FuncOps
        THEN sth'[node'[u]] = Nil /\ func'[node'[u]] = [op |-> op'[u], by |-> u]
        ELSE sth'[node'[u]] = u /\ func'[node'[u]] = Nil
  BY DEF IInv, DeviceInv, Contents, QueuePC
<1>3. /\ \A n \in free' : func'[n] = Nil
      /\ \A m \in Node : next'[m] # Nil => (sth'[next'[m]] # Nil <=> func'[next'[m]] = Nil)
  BY DEF IInv, DeviceInv, Contents
<1> QED
  BY <1>1, <1>2, <1>3 DEF Contents

\* What the nodes hold, after the head has been given back.
LEMMA EmptiedContents ==
    ASSUME IInv, head \in Node, tail = head, head' = Nil,
           free' = free \cup {head}, next' = [next EXCEPT ![head] = Nil],
           func' = [func EXCEPT ![head] = Nil], node' = node, sth' = sth,
           \A u \in Thread : pc'[u] \in QueuePC => pc[u] = pc'[u] /\ op'[u] = op[u],
           \A u \in Thread : pc'[u] \notin HolderPC
    PROVE  Contents'
<1>1. func'[head] = Nil /\ \A n \in Node \ {head} : func'[n] = func[n]
  BY DEF IInv, TypeOK
<1>2. next[head] = Nil /\ next' = next
  <2>1. next[head] = Nil
    BY Nils DEF IInv, QueueInv, Ends
  <2> QED
    BY <2>1 DEF IInv, TypeOK, CoreTypeOK
<1>3. \A n \in free' : func'[n] = Nil
  BY <1>1, NodeFacts DEF IInv, DeviceInv, Contents
<1>4. \A u \in Thread : pc'[u] \in QueuePC => node[u] \in Node \ {head}
  BY DEF IInv, QueueInv, Queueing
<1>5. \A u \in Thread : pc'[u] = "save" => sth'[node'[u]] = Nil /\ func'[node'[u]] = Nil
  BY <1>1, <1>4 DEF IInv, DeviceInv, Contents, QueuePC
<1>6. \A u \in Thread : pc'[u] = "link" =>
        IF op'[u] \in FuncOps
        THEN sth'[node'[u]] = Nil /\ func'[node'[u]] = [op |-> op'[u], by |-> u]
        ELSE sth'[node'[u]] = u /\ func'[node'[u]] = Nil
  BY <1>1, <1>4 DEF IInv, DeviceInv, Contents, QueuePC
<1>7. \A m \in Node : next'[m] # Nil => (sth'[next'[m]] # Nil <=> func'[next'[m]] = Nil)
  <2>1. \A m \in Node : next[m] # Nil => next[m] \in Node \ {head}
    BY NodeFacts DEF IInv, QueueInv, Links
  <2> QED
    BY <1>1, <1>2, <2>1 DEF IInv, DeviceInv, Contents
<1> QED
  BY <1>3, <1>5, <1>6, <1>7 DEF Contents

\* The same, with a new head.
LEMMA MovedContents ==
    ASSUME IInv, head \in Node, Successor # Nil, head' = Successor,
           free' = free \cup {head}, next' = [next EXCEPT ![head] = Nil],
           func' = [func EXCEPT ![head] = Nil], node' = node, sth'[Successor] = Nil,
           \A n \in Node \ {Successor} : sth'[n] = sth[n],
           \A u \in Thread : pc'[u] \in QueuePC => pc[u] = pc'[u] /\ op'[u] = op[u],
           \A u \in Thread : pc'[u] \in HolderPC => func[Successor] = Nil
    PROVE  Contents' /\ \A n \in Node \ {head} : func'[n] = func[n]
<1> DEFINE s == Successor
<1>1. func'[head] = Nil /\ \A n \in Node \ {head} : func'[n] = func[n]
  BY DEF IInv, TypeOK
<1>2. /\ next'[head] = Nil
      /\ \A m \in Node \ {head} : next'[m] = next[m]
  BY DEF IInv, TypeOK, CoreTypeOK
<1>3. /\ s \in Node /\ s # head
      /\ \A t \in Thread : pc[t] \in QueuePC => node[t] # s
      /\ \A m \in Node : next[m] = s => m = head
  BY NodeFacts DEF IInv, QueueInv, Links, Successor
<1>4. \A n \in free' : func'[n] = Nil
  BY <1>1, NodeFacts DEF IInv, DeviceInv, Contents
<1>5. \A u \in Thread : pc'[u] \in QueuePC => node[u] \in Node /\ node[u] # head /\ node[u] # s
  BY <1>3 DEF IInv, QueueInv, Queueing
<1>6. \A u \in Thread : pc'[u] \in QueuePC => func'[node[u]] = func[node[u]] /\ sth'[node[u]] = sth[node[u]]
  BY <1>1, <1>5
<1>7. \A u \in Thread : pc'[u] = "save" => sth'[node'[u]] = Nil /\ func'[node'[u]] = Nil
  BY <1>6 DEF IInv, DeviceInv, Contents, QueuePC
<1>8. \A u \in Thread : pc'[u] = "link" =>
        IF op'[u] \in FuncOps
        THEN sth'[node'[u]] = Nil /\ func'[node'[u]] = [op |-> op'[u], by |-> u]
        ELSE sth'[node'[u]] = u /\ func'[node'[u]] = Nil
  BY <1>6 DEF IInv, DeviceInv, Contents, QueuePC
<1>9. ASSUME NEW m \in Node, next'[m] # Nil
      PROVE  sth'[next'[m]] # Nil <=> func'[next'[m]] = Nil
  <2>1. m # head /\ next'[m] = next[m]
    BY <1>2, <1>9
  <2>2. next[m] \in Node /\ next[m] # head /\ next[m] # s
    BY <1>3, <1>9, <2>1, NodeFacts DEF IInv, QueueInv, Links
  <2>3. sth[next[m]] # Nil <=> func[next[m]] = Nil
    BY <1>9, <2>1 DEF IInv, DeviceInv, Contents
  <2> QED
    BY <1>1, <2>1, <2>2, <2>3
<1>10. \A u \in Thread : pc'[u] \in HolderPC => func'[head'] = Nil
  BY <1>1, <1>3
<1> QED
  BY <1>1, <1>4, <1>7, <1>8, <1>9, <1>10 DEF Contents

----------------------------------------------------------------------------
(* The holder passes the lock on *)

\* A thread has the lock.
LEMMA ParkedToken ==
    ASSUME pc'[Con] = "parked", conSth', tail' # Nil,
           \A v, w \in Thread : pc'[v] \in HolderPC /\ pc'[w] \in HolderPC => v = w
    PROVE  Token'
BY DEF Token

\* The consumer has the lock.
LEMMA ConsumerToken ==
    ASSUME ConHolding', conSth' <=> pc'[Con] = "con_unlock", tail' # Nil, ~finished',
           \A v \in Thread : pc'[v] \notin HolderPC /\ pc'[v] # "notify"
    PROVE  Token'
<1>1. pc'[Con] # "parked"
  BY DEF ConHolding
<1> QED
  BY <1>1 DEF Token

\* Nothing is queued or ongoing: the lock is free.
LEMMA ReleaseStep ==
    ASSUME IInv, NEW t \in Thread, pc[t] = "unlock",
           ~Active, tail = head, EmptyQueue, DeallocateHead,
           UNCHANGED <<node, pred, sth, conSth, conLocals, finished, holder>>,
           pc'[t] \in {"idle", "ret", "notify"},
           \A u \in Thread \ {t} : pc'[u] = pc[u] /\ op'[u] = op[u], pc'[Con] = pc[Con]
    PROVE  /\ Token' /\ QueueInv' /\ DeviceInv'
           /\ Pending' = Pending /\ \A n \in Pending : func'[n] = func[n]
<1>1. /\ tail' = Nil /\ head' = Nil /\ free' = free \cup {head}
      /\ next' = [next EXCEPT ![head] = Nil] /\ func' = [func EXCEPT ![head] = Nil]
      /\ node' = node /\ pred' = pred /\ sth' = sth /\ conSth' = conSth /\ conEx' = conEx
      /\ finished' = finished /\ holder' = holder
  BY DEF EmptyQueue, DeallocateHead, conLocals
<1>2. pc[t] \in HolderPC /\ pc'[t] \notin HolderPC /\ pc'[t] \notin QueuePC /\ pc[t] \notin QueuePC
  BY DEF HolderPC, QueuePC
<1>3. /\ head \in Node /\ head \notin free /\ pc[Con] = "parked" /\ conSth /\ conEx /\ func[head] = Nil
      /\ \A u \in Thread : pc[u] \in HolderPC => u = t
  BY <1>2, HolderFacts
<1>4. \A u \in Thread : pc'[u] \notin HolderPC
  BY <1>2, <1>3
<1>5. Token'
  BY <1>1, <1>3, <1>4 DEF IInv, Token
<1>6. QueueInv'
  <2>1. \A n \in Node : sth[n] # Nil => sth[n] \in Thread /\ sth[n] # t
    BY NodeFacts DEF IInv, QueueInv, Suspended
  <2>2. \A n \in Node : sth[n] # Nil => pc'[sth[n]] = pc[sth[n]] /\ op'[sth[n]] = op[sth[n]]
    BY <2>1
  <2>3. \A u \in Thread : pc'[u] \in QueuePC <=> pc[u] \in QueuePC
    BY <1>2
  <2> QED
    BY <1>1, <1>3, <2>2, <2>3, EmptiedQueue
<1>7. Contents'
  <2>1. \A u \in Thread : pc'[u] \in QueuePC => pc[u] = pc'[u] /\ op'[u] = op[u]
    BY <1>2
  <2> QED
    BY <1>1, <1>3, <1>4, <2>1, EmptiedContents
<1>8. HeadToExecute'
  BY <1>1, <1>3, <1>4 DEF HeadToExecute, HolderPC
<1>9. Idle'
  <2>1. holder = <<>>
    BY DEF Active, IInv, TypeOK
  <2> QED
    BY <1>1, <1>3, <2>1 DEF Idle
<1>10. Pending' = Pending /\ \A n \in Pending : func'[n] = func[n]
  <2>1. head \notin Pending /\ head' \notin Node
    BY <1>1, <1>3, Nils DEF Pending
  <2> QED
    BY <1>1, <1>3, <2>1, MovedPending
<1> QED
  BY <1>5, <1>6, <1>7, <1>8, <1>9, <1>10 DEF DeviceInv

\* The next thread is waiting for the lock.
LEMMA FollowThread ==
    ASSUME IInv, NEW t \in Thread, NEW l \in {"idle", "ret", "blocked"},
           pc[t] \in {"follow", "follow_wait"}, Successor # Nil,
           FollowTo(t, l), sth[Successor] # Nil,
           UNCHANGED <<node, pred, conLocals, finished, holder>>,
           \A u \in Thread \ {t} : op'[u] = op[u]
    PROVE  /\ Token' /\ QueueInv' /\ DeviceInv'
           /\ Pending' = Pending /\ \A n \in Pending : func'[n] = func[n]
           /\ \E u \in Thread \ {t} :
                /\ pc[u] = "blocked" /\ op[u] \in {"probe", "stop"} /\ u = sth[Successor]
                /\ pc'[t] = l /\ pc'[u] = "cs"
                /\ \A v \in Thread \ {t, u} : pc'[v] = pc[v]
                /\ pc'[Con] = pc[Con]
<1>1. /\ tail' = tail /\ head' = Successor /\ free' = free \cup {head}
      /\ next' = [next EXCEPT ![head] = Nil] /\ func' = [func EXCEPT ![head] = Nil]
      /\ node' = node /\ pred' = pred /\ sth' = [sth EXCEPT ![Successor] = Nil]
      /\ conSth' = conSth /\ conEx' = conEx /\ isExec' = FALSE
      /\ finished' = finished /\ holder' = holder
      /\ pc' = [pc EXCEPT ![t] = l, ![sth[Successor]] = "cs"]
  BY DEF FollowTo, FollowHead, DeallocateHead, HeadIsNew, GotoAndWake, conLocals
<1>2. pc[t] \in HolderPC /\ l \notin HolderPC /\ l \notin QueuePC /\ pc[t] \notin QueuePC
  BY DEF HolderPC, QueuePC
<1>3. /\ head \in Node /\ head \notin free /\ tail # Nil
      /\ pc[Con] = "parked" /\ conSth /\ conEx /\ func[head] = Nil
      /\ \A u \in Thread : pc[u] \in HolderPC => u = t
  BY <1>2, HolderFacts, Nils
<1>4. Successor \in Node /\ Successor # head /\ Successor \notin free
  BY <1>3, NodeFacts DEF Successor, IInv, QueueInv, Links
<1>5. PICK u \in Thread \ {t} : u = sth[Successor] /\ pc[u] = "blocked" /\ op[u] \in {"probe", "stop"}
  <2>1. sth[Successor] \in Thread /\ pc[sth[Successor]] = "blocked"
    BY <1>3, NodeFacts DEF Successor
  <2>2. op[sth[Successor]] \in {"probe", "stop"}
    BY <1>4 DEF IInv, QueueInv, Suspended
  <2> QED
    BY <2>1, <2>2
<1>6. /\ pc'[t] = l /\ pc'[u] = "cs" /\ pc'[Con] = pc[Con]
      /\ \A v \in Thread \ {t, u} : pc'[v] = pc[v]
  BY <1>1, <1>5, Nils DEF IInv, TypeOK
<1>7. /\ sth'[Successor] = Nil
      /\ \A n \in Node \ {Successor} : sth'[n] = sth[n]
  BY <1>1, <1>4 DEF IInv, TypeOK
<1>8. \A v \in Thread : pc'[v] \in HolderPC <=> v = u
  BY <1>2, <1>3, <1>6 DEF HolderPC
<1>9. \A v \in Thread : (pc'[v] \in QueuePC <=> pc[v] \in QueuePC) /\ (pc'[v] \in QueuePC => v # t /\ v # u)
  BY <1>2, <1>5, <1>6 DEF QueuePC
<1>10. func[Successor] = Nil
  BY <1>3, <1>5, Nils DEF Successor, IInv, DeviceInv, Contents
<1>11. Token'
  <2>1. \A v, w \in Thread : pc'[v] \in HolderPC /\ pc'[w] \in HolderPC => v = w
    BY <1>8
  <2>2. conSth' /\ pc'[Con] = "parked" /\ tail' # Nil
    BY <1>1, <1>3, <1>6
  <2> QED
    BY <2>1, <2>2, ParkedToken
<1>12. QueueInv'
  <2>1. \A n \in Node \ {Successor} : sth[n] # Nil => sth[n] \in Thread /\ sth[n] # t /\ sth[n] # u
    <3>1. \A n \in Node : sth[n] # Nil => sth[n] \in Thread /\ sth[n] # t
      BY NodeFacts DEF IInv, QueueInv, Suspended
    <3>2. \A n \in Node \ {Successor} : sth[n] # u
      BY <1>4, <1>5, Nils DEF IInv, QueueInv, Suspended
    <3> QED
      BY <3>1, <3>2
  <2>2. \A n \in Node \ {Successor} : sth[n] # Nil => pc'[sth[n]] = pc[sth[n]] /\ op'[sth[n]] = op[sth[n]]
    BY <1>6, <2>1
  <2> QED
    BY <1>1, <1>3, <1>7, <1>9, <2>2, MovedQueue
<1>13. Contents'
  <2>1. \A v \in Thread : pc'[v] \in QueuePC => pc[v] = pc'[v] /\ op'[v] = op[v]
    BY <1>6, <1>9
  <2> QED
    BY <1>1, <1>3, <1>7, <1>10, <2>1, MovedContents
<1>14. HeadToExecute'
  <2>1. \A v \in Thread : pc'[v] \notin {"follow", "follow_wait"}
    BY <1>6, <1>8 DEF HolderPC
  <2> QED
    BY <1>1, <1>3, <1>6, <2>1 DEF HeadToExecute
<1>15. Idle'
  <2>1. \A v \in Thread : pc'[v] = "cs" => op'[v] \notin FuncOps
    BY <1>5, <1>8 DEF HolderPC, FuncOps
  <2> QED
    BY <1>1, <1>3, <1>6, <2>1 DEF Idle
<1>16. Pending' = Pending /\ \A n \in Pending : func'[n] = func[n]
  <2>1. head \notin Pending
    BY <1>3 DEF Pending
  <2> QED
    BY <1>1, <1>3, <1>10, <2>1, MovedPending
<1> QED
  BY <1>5, <1>6, <1>11, <1>12, <1>13, <1>14, <1>15, <1>16 DEF DeviceInv

\* While somebody is busy otherwise, the destructor has not been called.
LEMMA NotStopping ==
    ASSUME IInv, NEW t \in Thread, pc[t] \notin StopPC \cup {"idle"}
    PROVE  ~finished /\ (\A u \in Thread : op[u] # "stop" /\ pc[u] # "notify")
<1>1. \A u \in Thread : op[u] # "stop"
  BY DEF IInv, Stopping
<1>2. ~finished
  BY <1>1 DEF IInv, Stopping
<1>3. \A u \in Thread : pc[u] # "notify"
  BY <1>1 DEF IInv, RequestInv, Phases, PhaseOf
<1> QED
  BY <1>1, <1>2, <1>3

\* The next node is a function: the consumer gets the lock with it.
LEMMA FollowConsumer ==
    ASSUME IInv, NEW t \in Thread, NEW l \in {"idle", "ret", "blocked"},
           pc[t] \in {"follow", "follow_wait"}, Successor # Nil,
           FollowTo(t, l), sth[Successor] = Nil,
           UNCHANGED <<node, pred, conLocals, finished, holder>>,
           \A u \in Thread \ {t} : op'[u] = op[u]
    PROVE  /\ Token' /\ QueueInv' /\ DeviceInv'
           /\ Pending' = Pending /\ \A n \in Pending : func'[n] = func[n]
           /\ pc'[t] = l /\ pc'[Con] = "consume"
           /\ \A v \in Thread \ {t} : pc'[v] = pc[v]
<1>1. /\ tail' = tail /\ head' = Successor /\ free' = free \cup {head}
      /\ next' = [next EXCEPT ![head] = Nil] /\ func' = [func EXCEPT ![head] = Nil]
      /\ node' = node /\ pred' = pred /\ sth' = sth
      /\ conSth' = FALSE /\ conEx' = conEx /\ isExec' = FALSE
      /\ finished' = finished /\ holder' = holder
      /\ pc' = [pc EXCEPT ![t] = l, ![Con] = "consume"]
  BY DEF FollowTo, FollowHead, DeallocateHead, HeadIsNew, GotoAndWake, conLocals
<1>2. pc[t] \in HolderPC /\ l \notin HolderPC /\ l \notin QueuePC /\ pc[t] \notin QueuePC
  BY DEF HolderPC, QueuePC
<1>3. /\ head \in Node /\ head \notin free /\ tail # Nil
      /\ pc[Con] = "parked" /\ conEx /\ func[head] = Nil
      /\ \A u \in Thread : pc[u] \in HolderPC => u = t
  BY <1>2, HolderFacts, Nils
<1>4. Successor \in Node /\ Successor # head /\ Successor \notin free
  BY <1>3, NodeFacts DEF Successor, IInv, QueueInv, Links
<1>5. pc'[t] = l /\ pc'[Con] = "consume" /\ \A v \in Thread \ {t} : pc'[v] = pc[v]
  BY <1>1, Nils DEF IInv, TypeOK
<1>6. ~finished /\ \A v \in Thread : pc[v] # "notify"
  BY NotStopping DEF StopPC
<1>7. \A v \in Thread : pc'[v] \notin HolderPC /\ pc'[v] # "notify"
  BY <1>2, <1>3, <1>5, <1>6
<1>8. \A v \in Thread : (pc'[v] \in QueuePC <=> pc[v] \in QueuePC) /\ (pc'[v] \in QueuePC => v # t)
  BY <1>2, <1>5
<1>9. func[Successor] # Nil
  BY <1>3 DEF Successor, IInv, DeviceInv, Contents
<1>10. Token'
  <2>1. ConHolding' /\ (conSth' <=> pc'[Con] = "con_unlock")
    BY <1>1, <1>5 DEF ConHolding
  <2>2. tail' # Nil /\ ~finished'
    BY <1>1, <1>3, <1>6
  <2> QED
    BY <1>7, <2>1, <2>2, ConsumerToken
<1>11. QueueInv'
  <2>1. \A n \in Node : sth[n] # Nil => sth[n] \in Thread /\ sth[n] # t
    BY NodeFacts DEF IInv, QueueInv, Suspended
  <2>2. \A n \in Node \ {Successor} : sth[n] # Nil => pc'[sth[n]] = pc[sth[n]] /\ op'[sth[n]] = op[sth[n]]
    BY <1>5, <2>1
  <2> QED
    BY <1>1, <1>3, <1>8, <2>2, MovedQueue
<1>12. Contents' /\ \A n \in Node \ {head} : func'[n] = func[n]
  <2>1. \A v \in Thread : pc'[v] \in QueuePC => pc[v] = pc'[v] /\ op'[v] = op[v]
    BY <1>5, <1>8
  <2> QED
    BY <1>1, <1>3, <1>7, <2>1, MovedContents
<1>13. HeadToExecute'
  <2>1. func'[head'] # Nil
    BY <1>1, <1>4, <1>9, <1>12
  <2> QED
    BY <1>1, <1>3, <1>5, <1>7, <2>1 DEF HeadToExecute, HolderPC
<1>14. Idle'
  BY <1>1, <1>3, <1>5, <1>7 DEF Idle, HolderPC
<1>15. Pending' = Pending /\ \A n \in Pending : func'[n] = func[n]
  <2>1. head \notin Pending
    BY <1>3 DEF Pending
  <2>2. ~Executing'
    BY <1>1, <1>5 DEF Executing
  <2> QED
    BY <1>1, <1>3, <1>4, <2>1, <2>2, MovedPending
<1> QED
  BY <1>5, <1>10, <1>11, <1>12, <1>13, <1>14, <1>15 DEF DeviceInv

\* Nobody is linked yet: the consumer gets the lock with an executed head.
LEMMA HandStep ==
    ASSUME IInv, NEW t \in Thread, NEW l \in {"idle", "ret", "blocked"},
           pc[t] \in {"follow", "follow_wait"},
           HandToConsumer(t, l),
           UNCHANGED <<node, pred, conLocals, finished, holder>>,
           \A u \in Thread \ {t} : op'[u] = op[u]
    PROVE  /\ Token' /\ QueueInv' /\ DeviceInv' /\ Pending' = Pending
           /\ pc'[t] = l /\ pc'[Con] = "consume"
           /\ \A v \in Thread \ {t} : pc'[v] = pc[v]
<1>1. /\ tail' = tail /\ head' = head /\ free' = free /\ next' = next /\ func' = func
      /\ node' = node /\ pred' = pred /\ sth' = sth
      /\ conSth' = FALSE /\ conEx' = conEx /\ isExec' = isExec
      /\ finished' = finished /\ holder' = holder
      /\ pc' = [pc EXCEPT ![t] = l, ![Con] = "consume"]
  BY DEF HandToConsumer, GotoAndWake, conLocals, core
<1>2. pc[t] \in HolderPC /\ l \notin HolderPC /\ l \notin QueuePC /\ pc[t] \notin QueuePC
  BY DEF HolderPC, QueuePC
<1>3. /\ head \in Node /\ tail # Nil
      /\ pc[Con] = "parked" /\ conEx /\ func[head] = Nil
      /\ \A u \in Thread : pc[u] \in HolderPC => u = t
  BY <1>2, HolderFacts, Nils
<1>4. isExec
  BY DEF IInv, DeviceInv, HeadToExecute
<1>5. pc'[t] = l /\ pc'[Con] = "consume" /\ \A v \in Thread \ {t} : pc'[v] = pc[v]
  BY <1>1, Nils DEF IInv, TypeOK
<1>6. ~finished /\ \A v \in Thread : pc[v] # "notify"
  BY NotStopping DEF StopPC
<1>7. \A v \in Thread : pc'[v] \notin HolderPC /\ pc'[v] # "notify"
  BY <1>2, <1>3, <1>5, <1>6
<1>8. \A v \in Thread : (pc'[v] \in QueuePC <=> pc[v] \in QueuePC) /\ (pc'[v] \in QueuePC => v # t)
  BY <1>2, <1>5
<1>9. Token'
  <2>1. ConHolding' /\ (conSth' <=> pc'[Con] = "con_unlock")
    BY <1>1, <1>5 DEF ConHolding
  <2>2. tail' # Nil /\ ~finished'
    BY <1>1, <1>3, <1>6
  <2> QED
    BY <1>7, <2>1, <2>2, ConsumerToken
<1>10. QueueInv'
  <2>1. \A n \in Node : sth[n] # Nil => sth[n] \in Thread /\ sth[n] # t
    BY NodeFacts DEF IInv, QueueInv, Suspended
  <2>2. \A n \in Node : sth[n] # Nil => pc'[sth[n]] = pc[sth[n]] /\ op'[sth[n]] = op[sth[n]]
    BY <1>5, <2>1
  <2> QED
    BY <1>1, <1>8, <2>2, SameQueue
<1>11. Contents'
  <2>1. \A v \in Thread : pc'[v] \in QueuePC => pc[v] = pc'[v] /\ op'[v] = op[v]
    BY <1>5, <1>8
  <2> QED
    BY <1>1, <1>7, <2>1, SameContents
<1>12. HeadToExecute' /\ Idle'
  BY <1>1, <1>3, <1>4, <1>5, <1>7 DEF HeadToExecute, Idle, HolderPC
<1>13. Pending' = Pending
  BY <1>1, <1>3, SamePending
<1> QED
  BY <1>5, <1>9, <1>10, <1>11, <1>12, <1>13 DEF DeviceInv

----------------------------------------------------------------------------
(* The consumer *)

\* The consumer comes to a function: the head of the queue if it is not executed,
\* or else the node behind it.
LEMMA TakenHead ==
    ASSUME IInv, ConHolds("consume"), ~CurExec, sth[CurHead] = Nil, TakeHead,
           UNCHANGED <<node, pred, sth, op>>, \A u \in Thread : pc'[u] = pc[u]
    PROVE  /\ QueueInv' /\ Contents' /\ tail' = tail /\ tail # Nil
           /\ CurHead \in Pending /\ func[CurHead] \in Func
           /\ head' = CurHead /\ func'[CurHead] = func[CurHead]
           /\ \A n \in Pending : func'[n] = func[n]
           /\ Pending' = IF Executing' THEN Pending \ {CurHead} ELSE Pending
<1>1. pc[Con] = "consume" /\ ~finished /\ ConHolding
  BY DEF ConHolds, ConHolding
<1>2. /\ head \in Node /\ head \notin free /\ tail # Nil
      /\ \A u \in Thread : pc[u] \notin HolderPC
  BY <1>1, ConsumerFacts, Nils
<1>3. /\ node' = node /\ pred' = pred /\ sth' = sth /\ op' = op
      /\ \A u \in Thread : pc'[u] \in QueuePC => pc[u] = pc'[u] /\ op'[u] = op[u]
      /\ \A u \in Thread : pc'[u] \in QueuePC <=> pc[u] \in QueuePC
      /\ \A u \in Thread : pc'[u] \notin HolderPC
  BY <1>2
<1>4. \A n \in Node : sth[n] # Nil => pc'[sth[n]] = pc[sth[n]] /\ op'[sth[n]] = op[sth[n]]
  BY <1>3, NodeFacts
<1>5. Executing = isExec
  BY <1>1 DEF Executing
<1>6. CASE ~MovesOn
  <2>1. CurHead = head /\ ~isExec
    BY <1>6 DEF CurHead, CurExec
  <2>2. tail' = tail /\ head' = head /\ next' = next /\ free' = free /\ func' = func
    BY <1>6 DEF TakeHead, core
  <2>3. func[head] # Nil /\ func[head] \in Func
    BY <1>1, <1>2, <2>1 DEF IInv, DeviceInv, HeadToExecute, TypeOK
  <2>4. QueueInv'
    BY <1>3, <1>4, <2>2, SameQueue
  <2>5. Contents'
    BY <1>3, <2>2, SameContents
  <2>6. head \in Pending
    BY <1>2, <1>5, <2>1, <2>3 DEF Pending
  <2>7. Pending' = IF Executing' THEN Pending \ {head} ELSE Pending
    BY <1>2, <1>5, <2>1, <2>2, <2>6 DEF Pending
  <2> QED
    BY <1>2, <2>1, <2>2, <2>3, <2>4, <2>5, <2>6, <2>7
<1>7. CASE MovesOn
  <2>1. CurHead = Successor /\ isExec /\ Successor # Nil
    BY <1>7 DEF CurHead, MovesOn
  <2>2. /\ tail' = tail /\ head' = Successor /\ free' = free \cup {head}
        /\ next' = [next EXCEPT ![head] = Nil] /\ func' = [func EXCEPT ![head] = Nil]
    BY <1>7 DEF TakeHead, FollowHead, DeallocateHead
  <2>3. Successor \in Node /\ Successor # head /\ Successor \notin free
    BY <1>2, <2>1, NodeFacts DEF Successor, IInv, QueueInv, Links
  <2>4. func[Successor] # Nil /\ func[Successor] \in Func
    BY <1>2, <2>1, <2>3 DEF Successor, IInv, DeviceInv, Contents, TypeOK
  <2>5. sth'[Successor] = Nil /\ \A n \in Node \ {Successor} : sth'[n] = sth[n]
    BY <1>3, <2>1
  <2>6. QueueInv'
    BY <1>2, <1>3, <1>4, <2>1, <2>2, <2>5, MovedQueue
  <2>7. Contents' /\ \A n \in Node \ {head} : func'[n] = func[n]
    BY <1>2, <1>3, <2>1, <2>2, <2>5, MovedContents
  <2>8. head \notin Pending
    BY <1>5, <2>1 DEF Pending
  <2>9. Successor \in Pending
    BY <2>3, <2>4 DEF Pending
  <2>10. func'[head] = Nil
    BY <1>2, <2>2 DEF IInv, TypeOK
  <2>11. \A n \in Pending : func'[n] = func[n]
    BY <2>7, <2>8 DEF Pending
  <2>12. Pending' = IF Executing' THEN Pending \ {Successor} ELSE Pending
    <3>1. \A n \in Node : n \in Pending' <=>
            n \notin free /\ n # head /\ func[n] # Nil /\ ~(n = Successor /\ Executing')
      BY <2>2, <2>7, <2>10 DEF Pending
    <3>2. \A n \in Node : n \in Pending <=> n \notin free /\ n # head /\ func[n] # Nil
      BY <1>5, <2>1 DEF Pending
    <3>3. Pending \subseteq Node /\ Pending' \subseteq Node
      BY DEF Pending
    <3> QED
      BY <3>1, <3>2, <3>3
  <2> QED
    BY <1>2, <2>1, <2>2, <2>4, <2>6, <2>7, <2>9, <2>11, <2>12
<1> QED
  BY <1>6, <1>7

\* The consumer comes to a thread that waits for the lock, and parks.
LEMMA LockerStep ==
    ASSUME IInv, ConsumeLock
    PROVE  /\ Token' /\ QueueInv' /\ DeviceInv'
           /\ Pending' = Pending /\ \A n \in Pending : func'[n] = func[n]
           /\ head' = Successor /\ tail' = tail /\ sth[Successor] # Nil /\ Successor \in Node
           /\ \E u \in Thread :
                /\ pc[u] = "blocked" /\ op[u] \in {"probe", "stop"} /\ u = sth[Successor]
                /\ pc'[u] = "cs" /\ pc'[Con] = "parked"
                /\ \A v \in Thread \ {u} : pc'[v] = pc[v]
<1>1. /\ pc[Con] = "consume" /\ ~finished /\ ConHolding /\ ~CurExec /\ sth[CurHead] # Nil
      /\ TakeHead /\ conSth' /\ pc' = [pc EXCEPT ![Con] = "parked", ![sth[CurHead]] = "cs"]
      /\ sth' = [sth EXCEPT ![CurHead] = Nil]
      /\ node' = node /\ pred' = pred /\ isExec' = isExec /\ conEx' = conEx /\ awake' = awake
      /\ finished' = finished /\ op' = op /\ holder' = holder
  BY DEF ConsumeLock, ConsumeLocker, ConHolds, ConHolding, SwapTo, GotoAndWake, conLocals, reqVars
<1>2. /\ head \in Node /\ head \notin free /\ tail # Nil
      /\ \A u \in Thread : pc[u] \notin HolderPC /\ pc[u] # "notify"
  BY <1>1, ConsumerFacts, Nils
<1>3. MovesOn
  <2>1. sth[head] = Nil
    BY <1>2 DEF IInv, QueueInv, Suspended
  <2> QED
    BY <1>1, <2>1 DEF CurHead
<1>4. CurHead = Successor /\ isExec /\ Successor # Nil
  BY <1>3 DEF CurHead, MovesOn
<1>5. /\ tail' = tail /\ head' = Successor /\ free' = free \cup {head}
      /\ next' = [next EXCEPT ![head] = Nil] /\ func' = [func EXCEPT ![head] = Nil]
  BY <1>1, <1>3 DEF TakeHead, FollowHead, DeallocateHead
<1>6. Successor \in Node /\ Successor # head /\ Successor \notin free
  BY <1>2, <1>4, NodeFacts DEF Successor, IInv, QueueInv, Links
<1>7. PICK u \in Thread : u = sth[Successor] /\ pc[u] = "blocked" /\ op[u] \in {"probe", "stop"}
  <2>1. sth[Successor] \in Thread /\ pc[sth[Successor]] = "blocked"
    BY <1>1, <1>2, <1>4, NodeFacts DEF Successor
  <2>2. op[sth[Successor]] \in {"probe", "stop"}
    BY <1>1, <1>4, <1>6 DEF IInv, QueueInv, Suspended
  <2> QED
    BY <2>1, <2>2
<1>8. /\ pc'[u] = "cs" /\ pc'[Con] = "parked"
      /\ \A v \in Thread \ {u} : pc'[v] = pc[v]
  BY <1>1, <1>4, <1>7, Nils DEF IInv, TypeOK
<1>9. sth'[Successor] = Nil /\ \A n \in Node \ {Successor} : sth'[n] = sth[n]
  BY <1>1, <1>4, <1>6 DEF IInv, TypeOK
<1>10. \A v \in Thread : pc'[v] \in HolderPC <=> v = u
  BY <1>2, <1>8 DEF HolderPC
<1>11. \A v \in Thread : (pc'[v] \in QueuePC <=> pc[v] \in QueuePC) /\ (pc'[v] \in QueuePC => v # u)
  BY <1>7, <1>8 DEF QueuePC
<1>12. func[Successor] = Nil
  BY <1>2, <1>4, <1>7, Nils DEF Successor, IInv, DeviceInv, Contents
<1>13. Token'
  <2>1. \A v, w \in Thread : pc'[v] \in HolderPC /\ pc'[w] \in HolderPC => v = w
    BY <1>10
  <2>2. conSth' /\ pc'[Con] = "parked" /\ tail' # Nil
    BY <1>1, <1>2, <1>5, <1>8
  <2> QED
    BY <2>1, <2>2, ParkedToken
<1>14. QueueInv'
  <2>1. \A n \in Node \ {Successor} : sth[n] # Nil => sth[n] \in Thread /\ sth[n] # u
    <3>1. \A n \in Node : sth[n] # Nil => sth[n] \in Thread
      BY NodeFacts
    <3>2. \A n \in Node \ {Successor} : sth[n] # u
      BY <1>6, <1>7, Nils DEF IInv, QueueInv, Suspended
    <3> QED
      BY <3>1, <3>2
  <2>2. \A n \in Node \ {Successor} : sth[n] # Nil => pc'[sth[n]] = pc[sth[n]] /\ op'[sth[n]] = op[sth[n]]
    BY <1>1, <1>8, <2>1
  <2> QED
    BY <1>1, <1>2, <1>4, <1>5, <1>9, <1>11, <2>2, MovedQueue
<1>15. Contents'
  <2>1. \A v \in Thread : pc'[v] \in QueuePC => pc[v] = pc'[v] /\ op'[v] = op[v]
    BY <1>1, <1>8, <1>11
  <2> QED
    BY <1>1, <1>2, <1>4, <1>5, <1>9, <1>12, <2>1, MovedContents
<1>16. HeadToExecute'
  <2>1. \A v \in Thread : pc'[v] \notin {"follow", "follow_wait"}
    BY <1>8, <1>10 DEF HolderPC
  <2>2. conEx
    BY <1>1 DEF IInv, DeviceInv, HeadToExecute
  <2> QED
    BY <1>1, <1>8, <2>1, <2>2 DEF HeadToExecute
<1>17. Idle'
  <2>1. \A v \in Thread : pc'[v] = "cs" => op'[v] \notin FuncOps
    BY <1>1, <1>7, <1>10 DEF HolderPC, FuncOps
  <2> QED
    BY <1>2, <1>5, <1>8, <2>1 DEF Idle
<1>18. Pending' = Pending /\ \A n \in Pending : func'[n] = func[n]
  <2>1. head \notin Pending
    BY <1>1, <1>4 DEF Pending, Executing
  <2> QED
    BY <1>2, <1>5, <1>12, <2>1, MovedPending
<1> QED
  BY <1>1, <1>4, <1>5, <1>6, <1>7, <1>8, <1>13, <1>14, <1>15, <1>16, <1>17, <1>18 DEF DeviceInv

\* The consumer has the lock and leaves the queue alone; it may wake threads that
\* wait for their requests.
LEMMA WakingStep ==
    ASSUME IInv, ConHolding, ~finished, UNCHANGED <<core, queueArgs, op>>,
           \A u \in Thread : \/ pc'[u] = pc[u]
                             \/ pc[u] = "blocked" /\ pc'[u] = "ret" /\ reqSt[u] = "waiting"
    PROVE  /\ QueueInv' /\ Contents' /\ tail' # Nil
           /\ \A u \in Thread : pc'[u] \notin HolderPC /\ pc'[u] # "notify"
<1>1. /\ tail' = tail /\ head' = head /\ next' = next /\ free' = free
      /\ node' = node /\ pred' = pred /\ sth' = sth /\ func' = func /\ op' = op
  BY DEF core, queueArgs
<1>2. tail # Nil /\ \A u \in Thread : pc[u] \notin HolderPC /\ pc[u] # "notify"
  BY ConsumerFacts, Nils
<1>3. \A u \in Thread : pc'[u] \notin HolderPC /\ pc'[u] # "notify"
  BY <1>2 DEF HolderPC
<1>4. \A u \in Thread : /\ pc'[u] \in QueuePC <=> pc[u] \in QueuePC
                        /\ pc'[u] \in QueuePC => pc[u] = pc'[u] /\ op'[u] = op[u]
  BY <1>1 DEF QueuePC
<1>5. \A n \in Node : sth[n] # Nil => pc'[sth[n]] = pc[sth[n]] /\ op'[sth[n]] = op[sth[n]]
  <2>1. \A u \in Thread : reqSt[u] = "waiting" => op[u] \notin {"probe", "stop"}
    BY Nils DEF IInv, RequestInv, Waits, WaitOf, Ops
  <2>2. \A n \in Node : sth[n] # Nil => sth[n] \in Thread /\ op[sth[n]] \in {"probe", "stop"}
    BY NodeFacts DEF IInv, QueueInv, Suspended
  <2> QED
    BY <1>1, <2>1, <2>2
<1>6. QueueInv'
  BY <1>1, <1>4, <1>5, SameQueue
<1>7. Contents'
  BY <1>1, <1>3, <1>4, SameContents
<1> QED
  BY <1>1, <1>2, <1>3, <1>6, <1>7

LEMMA WakeFromEffect ==
    ASSUME IInv, NEW l, WakeFrom(l)
    PROVE  /\ awake' = Nil /\ pc'[Con] = l
           /\ \A u \in Thread : pc'[u] = IF u = awake THEN "ret" ELSE pc[u]
<1>1. CASE awake = Nil
  BY <1>1, Nils DEF WakeFrom, Goto, IInv, TypeOK
<1>2. CASE awake # Nil
  BY <1>2, Nils DEF WakeFrom, GotoAndWake, IInv, TypeOK
<1> QED
  BY <1>1, <1>2

\* Everything queued is executed.
LEMMA ConsumeIdleDevice ==
    ASSUME IInv, ConsumeIdle
    PROVE  /\ Token' /\ QueueInv' /\ DeviceInv' /\ Pending' = Pending
           /\ \A u \in Thread : pc'[u] = pc[u]
<1>1. /\ pc[Con] = "consume" /\ ~finished /\ ConHolding /\ isExec /\ conEx' /\ isExec' = isExec
      /\ conSth' = conSth /\ finished' = finished /\ op' = op /\ holder' = holder
      /\ UNCHANGED <<core, queueArgs>> /\ head' = head /\ free' = free /\ func' = func
      /\ pc' = [pc EXCEPT ![Con] = IF Active THEN "progress" ELSE "finish"]
  BY DEF ConsumeIdle, ConsumeNothing, ConHolds, ConHolding, CurExec, Goto, reqVars, queueArgs, core
<1>2. /\ pc'[Con] \in {"progress", "finish"}
      /\ \A u \in Thread : pc'[u] = pc[u]
  BY <1>1, Nils DEF IInv, TypeOK
<1>3. /\ QueueInv' /\ Contents' /\ tail' # Nil
      /\ \A u \in Thread : pc'[u] \notin HolderPC /\ pc'[u] # "notify"
  BY <1>1, <1>2, WakingStep
<1>4. Token'
  <2>1. ~conSth
    BY <1>1 DEF IInv, Token
  <2>2. ConHolding' /\ (conSth' <=> pc'[Con] = "con_unlock") /\ ~finished'
    BY <1>1, <1>2, <2>1 DEF ConHolding
  <2> QED
    BY <1>3, <2>2, ConsumerToken
<1>5. HeadToExecute' /\ Idle'
  BY <1>1, <1>2, <1>3 DEF HeadToExecute, Idle, HolderPC
<1>6. Pending' = Pending
  <2>1. Executing' = Executing
    BY <1>1, <1>2 DEF Executing, IInv, TypeOK
  <2> QED
    BY <1>1, <2>1, SamePending
<1> QED
  BY <1>2, <1>3, <1>4, <1>5, <1>6 DEF DeviceInv

\* A function is executed.
LEMMA ConsumeCallDevice ==
    ASSUME IInv, ConsumeCall
    PROVE  /\ Token' /\ QueueInv' /\ DeviceInv' /\ pc' = pc /\ tail' = tail
           /\ CurHead \in Pending /\ func[CurHead] \in Func
           /\ \A n \in Pending : func'[n] = func[n]
           /\ Pending' = Pending \ {CurHead}
<1>1. /\ ConHolds("consume") /\ ~CurExec /\ sth[CurHead] = Nil /\ TakeHead /\ isExec'
      /\ pc' = pc /\ node' = node /\ pred' = pred /\ sth' = sth /\ conSth' = conSth
      /\ conEx' = conEx /\ finished' = finished /\ op' = op
  BY DEF ConsumeCall, ConsumeFunc, Executed, conLocals
<1>2. pc[Con] = "consume" /\ ~finished /\ ConHolding
  BY <1>1 DEF ConHolds, ConHolding
<1>3. Executing'
  BY <1>1, <1>2 DEF Executing
<1>4. /\ QueueInv' /\ Contents' /\ tail' = tail /\ tail # Nil
      /\ CurHead \in Pending /\ func[CurHead] \in Func
      /\ \A n \in Pending : func'[n] = func[n]
      /\ Pending' = Pending \ {CurHead}
  BY <1>1, <1>3, TakenHead
<1>5. \A u \in Thread : pc'[u] \notin HolderPC /\ pc'[u] # "notify"
  BY <1>1, <1>2, ConsumerFacts
<1>6. Token'
  BY <1>1, <1>4 DEF IInv, Token
<1>7. HeadToExecute'
  BY <1>1, <1>2, <1>5 DEF IInv, DeviceInv, HeadToExecute, HolderPC
<1>8. Idle'
  BY <1>1, <1>2, <1>4, <1>5 DEF Idle, HolderPC
<1> QED
  BY <1>1, <1>4, <1>6, <1>7, <1>8 DEF DeviceInv

\* A function has to wait for room in the holder.
LEMMA ConsumeRetryDevice ==
    ASSUME IInv, ConsumeRetry
    PROVE  /\ Token' /\ QueueInv' /\ DeviceInv' /\ tail' = tail
           /\ Pending' = Pending /\ \A n \in Pending : func'[n] = func[n]
           /\ \A u \in Thread : pc'[u] = pc[u]
<1>1. /\ ConHolds("consume") /\ ~CurExec /\ sth[CurHead] = Nil /\ TakeHead /\ ~conEx'
      /\ pc' = [pc EXCEPT ![Con] = "progress"]
      /\ node' = node /\ pred' = pred /\ sth' = sth /\ conSth' = conSth
      /\ isExec' = isExec /\ finished' = finished /\ op' = op
  BY DEF ConsumeRetry, ConsumeFull, Goto
<1>2. pc[Con] = "consume" /\ ~finished /\ ConHolding
  BY <1>1 DEF ConHolds, ConHolding
<1>3. pc'[Con] = "progress" /\ \A u \in Thread : pc'[u] = pc[u]
  BY <1>1, Nils DEF IInv, TypeOK
<1>4. ~Executing'
  BY <1>1, <1>3 DEF Executing
<1>5. /\ QueueInv' /\ Contents' /\ tail' = tail /\ tail # Nil
      /\ CurHead \in Pending /\ head' = CurHead
      /\ \A n \in Pending : func'[n] = func[n]
      /\ Pending' = Pending
  BY <1>1, <1>3, <1>4, TakenHead
<1>6. \A u \in Thread : pc'[u] \notin HolderPC /\ pc'[u] # "notify"
  BY <1>2, <1>3, ConsumerFacts
<1>7. Token'
  <2>1. ~conSth
    BY <1>2 DEF IInv, Token
  <2>2. ConHolding' /\ (conSth' <=> pc'[Con] = "con_unlock") /\ ~finished' /\ tail' # Nil
    BY <1>1, <1>2, <1>3, <1>5, <2>1 DEF ConHolding
  <2> QED
    BY <1>6, <2>2, ConsumerToken
<1>8. HeadToExecute'
  <2>1. func'[head'] # Nil
    BY <1>5 DEF Pending
  <2> QED
    BY <1>3, <1>6, <2>1 DEF HeadToExecute, HolderPC
<1>9. Idle'
  BY <1>3, <1>5, <1>6 DEF Idle, HolderPC
<1> QED
  BY <1>3, <1>5, <1>7, <1>8, <1>9 DEF DeviceInv

\* The consumer has polled MPI: it goes on, or saves itself to unlock.
LEMMA FinishDevice ==
    ASSUME IInv, Finish(Active), UNCHANGED <<op, reqVars>>
    PROVE  /\ Token' /\ QueueInv' /\ DeviceInv' /\ Pending' = Pending
           /\ \/ awake' = Nil /\ (\A u \in Thread : pc'[u] = IF u = awake THEN "ret" ELSE pc[u])
              \/ awake' = awake /\ pc'[Con] = "con_unlock" /\ (\A u \in Thread : pc'[u] = pc[u])
<1>1. /\ pc[Con] = "finish" /\ isExec' = conEx /\ conEx' /\ UNCHANGED <<core, queueArgs>>
      /\ finished' = finished /\ op' = op /\ holder' = holder
      /\ head' = head /\ free' = free /\ func' = func
  BY DEF Finish, StoreExec, core, queueArgs, reqVars
<1>2. ConHolding /\ ~finished /\ ~conSth
  BY <1>1 DEF ConHolding, IInv, Token
<1>3. \/ /\ ~Active /\ conEx /\ conSth' /\ pc'[Con] = "con_unlock" /\ awake' = awake
         /\ \A u \in Thread : pc'[u] = pc[u]
      \/ /\ ~conSth' /\ pc'[Con] = "consume" /\ awake' = Nil
         /\ \A u \in Thread : pc'[u] = IF u = awake THEN "ret" ELSE pc[u]
  <2>1. CASE ~Active /\ conEx /\ Unlockable
    BY <2>1, Nils DEF Finish, Park, Goto, IInv, TypeOK
  <2>2. CASE ~(~Active /\ conEx /\ Unlockable)
    <3>1. conSth' = conSth /\ WakeFrom("consume")
      BY <2>2 DEF Finish
    <3> QED
      BY <1>2, <3>1, WakeFromEffect
  <2> QED
    BY <2>1, <2>2
<1>4. \A u \in Thread : \/ pc'[u] = pc[u]
                        \/ pc[u] = "blocked" /\ pc'[u] = "ret" /\ reqSt[u] = "waiting"
  BY <1>3 DEF IInv, RequestInv, Waits, WaitOf
<1>5. /\ QueueInv' /\ Contents' /\ tail' # Nil
      /\ \A u \in Thread : pc'[u] \notin HolderPC /\ pc'[u] # "notify"
  BY <1>1, <1>2, <1>4, WakingStep
<1>6. Token'
  <2>1. ConHolding' /\ (conSth' <=> pc'[Con] = "con_unlock") /\ ~finished'
    BY <1>1, <1>2, <1>3 DEF ConHolding
  <2> QED
    BY <1>5, <2>1, ConsumerToken
<1>7. HeadToExecute'
  <2>1. ~conEx => func[head] # Nil
    BY <1>1 DEF IInv, DeviceInv, HeadToExecute
  <2> QED
    BY <1>1, <1>3, <1>5, <2>1 DEF HeadToExecute, HolderPC
<1>8. Idle'
  <2>1. ~Active => holder = <<>>
    BY DEF Active, IInv, TypeOK
  <2> QED
    BY <1>1, <1>3, <1>5, <2>1 DEF Idle, HolderPC
<1>9. Pending' = Pending
  <2>1. Executing' = Executing
    BY <1>1, <1>3 DEF Executing
  <2> QED
    BY <1>1, <2>1, SamePending
<1> QED
  BY <1>3, <1>5, <1>6, <1>7, <1>8, <1>9 DEF DeviceInv

\* The saved consumer unlocks, or finds that somebody has queued up.
LEMMA ConUnlockDevice ==
    ASSUME IInv, ConUnlock, UNCHANGED <<op, reqVars>>
    PROVE  /\ Token' /\ QueueInv' /\ DeviceInv'
           /\ Pending' = Pending /\ \A n \in Pending : func'[n] = func[n]
           /\ awake' = Nil /\ \A u \in Thread : pc'[u] = IF u = awake THEN "ret" ELSE pc[u]
<1>1. /\ pc[Con] = "con_unlock" /\ isExec' = isExec /\ conEx' = conEx
      /\ node' = node /\ pred' = pred /\ sth' = sth
      /\ finished' = finished /\ op' = op /\ holder' = holder
  BY DEF ConUnlock, reqVars
<1>2. ConHolding /\ ~finished /\ conSth /\ isExec /\ conEx /\ holder = <<>>
  BY <1>1 DEF ConHolding, IInv, Token, DeviceInv, HeadToExecute, Idle
<1>3. /\ head \in Node /\ head \notin free
      /\ \A u \in Thread : pc[u] \notin HolderPC /\ pc[u] # "notify"
  BY <1>2, ConsumerFacts
<1>4. awake' = Nil /\ \A u \in Thread : pc'[u] = IF u = awake THEN "ret" ELSE pc[u]
  BY WakeFromEffect DEF ConUnlock
<1>5. \A u \in Thread : \/ pc'[u] = pc[u]
                        \/ pc[u] = "blocked" /\ pc'[u] = "ret" /\ reqSt[u] = "waiting"
  BY <1>4 DEF IInv, RequestInv, Waits, WaitOf
<1>6. CASE Unlockable
  <2>1. /\ tail = head /\ tail' = Nil /\ head' = Nil /\ free' = free \cup {head}
        /\ next' = [next EXCEPT ![head] = Nil] /\ func' = [func EXCEPT ![head] = Nil]
        /\ conSth' = conSth /\ pc'[Con] = "parked"
    BY <1>6, WakeFromEffect DEF ConUnlock, Unlockable, EmptyQueue, DeallocateHead
  <2>2. \A u \in Thread : pc'[u] \notin HolderPC /\ pc'[u] # "notify"
    BY <1>3, <1>5 DEF HolderPC
  <2>3. \A u \in Thread : /\ pc'[u] \in QueuePC <=> pc[u] \in QueuePC
                          /\ pc'[u] \in QueuePC => pc[u] = pc'[u] /\ op'[u] = op[u]
    BY <1>1, <1>5 DEF QueuePC
  <2>4. \A n \in Node : sth[n] # Nil => pc'[sth[n]] = pc[sth[n]] /\ op'[sth[n]] = op[sth[n]]
    <3>1. \A u \in Thread : reqSt[u] = "waiting" => op[u] \notin {"probe", "stop"}
      BY Nils DEF IInv, RequestInv, Waits, WaitOf, Ops
    <3>2. \A n \in Node : sth[n] # Nil => sth[n] \in Thread /\ op[sth[n]] \in {"probe", "stop"}
      BY NodeFacts DEF IInv, QueueInv, Suspended
    <3> QED
      BY <1>1, <1>5, <3>1, <3>2
  <2>5. QueueInv'
    BY <1>1, <1>3, <2>1, <2>3, <2>4, EmptiedQueue
  <2>6. Contents'
    BY <1>1, <1>3, <2>1, <2>2, <2>3, EmptiedContents
  <2>7. Token'
    BY <1>2, <2>1, <2>2 DEF Token
  <2>8. HeadToExecute' /\ Idle'
    BY <1>1, <1>2, <2>1, <2>2 DEF HeadToExecute, Idle, HolderPC
  <2>9. Pending' = Pending /\ \A n \in Pending : func'[n] = func[n]
    <3>1. head \notin Pending /\ head' \notin Node
      BY <1>1, <1>2, <2>1, Nils DEF Pending, Executing
    <3> QED
      BY <1>3, <2>1, <3>1, MovedPending
  <2> QED
    BY <1>4, <2>5, <2>6, <2>7, <2>8, <2>9 DEF DeviceInv
<1>7. CASE ~Unlockable
  <2>1. /\ ~conSth' /\ UNCHANGED <<core, queueArgs>> /\ pc'[Con] = "consume"
        /\ head' = head /\ free' = free /\ func' = func
    BY <1>7, WakeFromEffect DEF ConUnlock, core, queueArgs
  <2>2. /\ QueueInv' /\ Contents' /\ tail' # Nil
        /\ \A u \in Thread : pc'[u] \notin HolderPC /\ pc'[u] # "notify"
    BY <1>1, <1>2, <1>5, <2>1, WakingStep
  <2>3. Token'
    <3>1. ConHolding' /\ (conSth' <=> pc'[Con] = "con_unlock") /\ ~finished'
      BY <1>1, <1>2, <2>1 DEF ConHolding
    <3> QED
      BY <2>2, <3>1, ConsumerToken
  <2>4. HeadToExecute' /\ Idle'
    BY <1>1, <1>2, <2>1, <2>2 DEF HeadToExecute, Idle, HolderPC
  <2>5. Pending' = Pending
    <3>1. Executing' = Executing
      BY <1>1, <2>1 DEF Executing
    <3> QED
      BY <2>1, <3>1, SamePending
  <2> QED
    BY <1>4, <2>1, <2>2, <2>3, <2>4, <2>5 DEF DeviceInv
<1> QED
  BY <1>6, <1>7

\* The holder keeps the requests that are not complete, each once.
LEMMA Compacted ==
    ASSUME TypeOK, \A i, j \in DOMAIN holder : holder[i] = holder[j] => i = j, Compact
    PROVE  /\ holder' \in Seq(Thread)
           /\ Range(holder)' = Range(holder) \ Completed
           /\ \A i, j \in DOMAIN holder' : holder'[i] = holder'[j] => i = j
<1> DEFINE kept == {i \in DOMAIN holder : holder[i] \notin Completed}
<1>1. PICK from \in Bijection(1..Cardinality(kept), kept) :
        holder' = [i \in DOMAIN from |-> holder[from[i]]]
  BY DEF Compact
<1>2. /\ DOMAIN holder = 1..Len(holder) /\ Len(holder) \in Nat
      /\ \A i \in DOMAIN holder : holder[i] \in Thread
  BY DEF TypeOK
<1>3. Cardinality(kept) \in Nat
  <2>1. IsFiniteSet(1..Len(holder))
    BY <1>2, FS_Interval
  <2>2. IsFiniteSet(kept)
    BY <1>2, <2>1, FS_Subset
  <2> QED
    BY <2>2, FS_CardinalityType
<1> DEFINE n == Cardinality(kept)
<1>4. /\ from \in [1..n -> kept]
      /\ \A a, b \in DOMAIN from : from[a] = from[b] => a = b
      /\ \A k \in kept : \E i \in 1..n : from[i] = k
  BY <1>1 DEF Bijection, Injection, Surjection, IsInjective
<1>5. n \in Nat
  BY <1>3
<1> HIDE DEF kept, n
<1>6. \A i \in 1..n : holder'[i] = holder[from[i]] /\ from[i] \in DOMAIN holder /\ holder[from[i]] \notin Completed
  BY <1>1, <1>4 DEF kept
<1>7. DOMAIN holder' = 1..n
  BY <1>1, <1>4
<1>8. holder' \in Seq(Thread)
  <2>1. holder' \in [1..n -> Thread]
    BY <1>1, <1>2, <1>4, <1>6
  <2> QED
    BY <1>5, <2>1
<1>9. ASSUME NEW t \in Range(holder)'
      PROVE  t \in Range(holder) \ Completed
  BY <1>6, <1>7 DEF Range
<1>10. ASSUME NEW t \in Range(holder) \ Completed
       PROVE  t \in Range(holder)'
  <2>1. PICK k \in DOMAIN holder : holder[k] = t
    BY DEF Range
  <2>2. k \in kept
    BY <2>1 DEF kept
  <2>3. PICK i \in 1..n : from[i] = k
    BY <1>4, <2>2
  <2> QED
    BY <1>6, <1>7, <2>1, <2>3 DEF Range
<1>11. ASSUME NEW i \in DOMAIN holder', NEW j \in DOMAIN holder', holder'[i] = holder'[j]
       PROVE  i = j
  <2>1. from[i] = from[j]
    BY <1>6, <1>7, <1>11
  <2> QED
    BY <1>4, <1>7, <2>1
<1> QED
  BY <1>8, <1>9, <1>10, <1>11

\* Who waits in the holder while MPI is polled is asleep in its request.
LEMMA WokenAreBlocked ==
    ASSUME IInv, ConHolding, ~finished, NEW u \in Woken
    PROVE  u \in Thread /\ pc[u] = "blocked" /\ reqSt[u] = "waiting" /\ u \in Completed
<1>1. u \in Range(holder) /\ reqSt[u] = "waiting" /\ u \in Completed
  BY DEF Woken, Completed, Waiting
<1>2. u \in Thread
  BY <1>1, GivenAreThreads DEF IInv
<1>3. pc[u] \in {"link", "blocked", "unlock_wait", "follow_wait", "ret"} /\ op[u] \in {Nil, "block"}
  BY <1>1, <1>2 DEF IInv, RequestInv, Waits, WaitOf
<1>4. pc[u] \notin {"unlock_wait", "follow_wait"}
  BY <1>2, ConsumerFacts DEF HolderPC
<1>5. pc[u] # "ret"
  BY <1>1, <1>2 DEF IInv, RequestInv, Standing, StandingOf, Given
<1>6. pc[u] # "link"
  <2>1. SUFFICES ASSUME pc[u] = "link" PROVE FALSE
    OBVIOUS
  <2>2. op[u] = "block"
    BY <1>2, <1>3, <2>1, Nils DEF IInv, RequestInv, Phases, PhaseOf
  <2>3. func[node[u]] = [op |-> "block", by |-> u]
    BY <1>2, <2>1, <2>2 DEF IInv, DeviceInv, Contents, FuncOps
  <2>4. [op |-> "block", by |-> u] \in Func
    BY <1>2 DEF Func
  <2>5. node[u] \in Node /\ node[u] \notin free /\ node[u] # head
    BY <1>2, <2>1 DEF IInv, QueueInv, Queueing, QueuePC
  <2>6. node[u] \in Pending
    BY <2>3, <2>4, <2>5, Nils DEF Pending
  <2>7. u \in Delegated
    BY <1>2, <2>3, <2>6 DEF Delegated, Carries, HasRequest
  <2> QED
    BY <1>1, <2>7 DEF IInv, RequestInv, Places
<1> QED
  BY <1>1, <1>2, <1>3, <1>4, <1>5, <1>6

\* MPI is polled.
LEMMA ProgressDevice ==
    ASSUME IInv, Progress
    PROVE  /\ Token' /\ QueueInv' /\ DeviceInv' /\ Pending' = Pending
           /\ pc'[Con] = "finish" /\ func' = func /\ op' = op
           /\ \A u \in Thread :
                /\ reqSt'[u] = IF u \in Completed \ Woken THEN "finished" ELSE reqSt[u]
                /\ reqSth'[u] = IF u \in Woken THEN FALSE ELSE reqSth[u]
                /\ pc'[u] = IF u \in Woken /\ u # awake' THEN "ret" ELSE pc[u]
           /\ awake' = Nil \/ awake' \in Woken
<1>1. /\ pc[Con] = "progress" /\ UNCHANGED <<core, queueArgs>> /\ isExec' = isExec
      /\ conSth' = conSth /\ conEx' = conEx /\ finished' = finished /\ op' = op
      /\ head' = head /\ free' = free /\ func' = func /\ tail' = tail
  BY DEF Progress, core, queueArgs
<1>2. ConHolding /\ ~finished /\ ~conSth
  BY <1>1 DEF ConHolding, IInv, Token
<1>3. PICK last \in (IF Woken = {} THEN {Nil} ELSE Woken) :
        /\ awake' = last
        /\ pc' = [a \in Thread \cup {Con} |->
               IF a = Con THEN "finish"
               ELSE IF a \in Woken \ {last} THEN "ret" ELSE pc[a]]
  BY DEF Progress
<1>4. awake' = Nil \/ awake' \in Woken
  BY <1>3
<1>5. /\ pc'[Con] = "finish"
      /\ \A u \in Thread : pc'[u] = IF u \in Woken /\ u # awake' THEN "ret" ELSE pc[u]
  BY <1>3, Nils
<1>6. \A u \in Thread :
        /\ reqSt'[u] = IF u \in Completed \ Woken THEN "finished" ELSE reqSt[u]
        /\ reqSth'[u] = IF u \in Woken THEN FALSE ELSE reqSth[u]
  BY DEF Progress
<1>7. \A u \in Thread : \/ pc'[u] = pc[u]
                        \/ pc[u] = "blocked" /\ pc'[u] = "ret" /\ reqSt[u] = "waiting"
  BY <1>2, <1>5, WokenAreBlocked
<1>8. /\ QueueInv' /\ Contents' /\ tail' # Nil
      /\ \A u \in Thread : pc'[u] \notin HolderPC /\ pc'[u] # "notify"
  BY <1>1, <1>2, <1>7, WakingStep
<1>9. Token'
  <2>1. ConHolding' /\ (conSth' <=> pc'[Con] = "con_unlock") /\ ~finished'
    BY <1>1, <1>2, <1>5 DEF ConHolding
  <2> QED
    BY <1>8, <2>1, ConsumerToken
<1>10. HeadToExecute' /\ Idle'
  <2>1. ~conEx => func[head] # Nil
    BY <1>1 DEF IInv, DeviceInv, HeadToExecute
  <2> QED
    BY <1>1, <1>5, <1>8, <2>1 DEF HeadToExecute, Idle, HolderPC
<1>11. Pending' = Pending
  <2>1. Executing' = Executing
    BY <1>1, <1>5 DEF Executing
  <2> QED
    BY <1>1, <2>1, SamePending
<1> QED
  BY <1>1, <1>4, <1>5, <1>6, <1>8, <1>9, <1>10, <1>11 DEF DeviceInv

----------------------------------------------------------------------------
(* Into the queue *)

\* A thread that is about to lock has not come too late.
LEMMA LockerNotFinished ==
    ASSUME IInv, NEW t \in Thread, pc[t] \in {"lock", "save", "link", "blocked", "cs"}
    PROVE  ~finished
<1>1. SUFFICES ASSUME finished PROVE FALSE
  OBVIOUS
<1>2. PICK s \in Thread : op[s] = "stop"
  BY <1>1 DEF IInv, Stopping
<1>3. s = t
  BY <1>2 DEF IInv, Stopping
<1> QED
  BY <1>1, <1>2, <1>3 DEF IInv, Stopping

\* A node is enqueued, and with it the lock taken if the queue was empty.
LEMMA EnterDevice ==
    ASSUME IInv, NEW t \in Thread, Enter(t)
    PROVE  /\ Token' /\ QueueInv' /\ DeviceInv' /\ Pending' = Pending /\ func' = func /\ sth' = sth
           /\ pc[t] = "lock" /\ pc'[t] \in {"cs", "save"} /\ pc'[Con] = pc[Con]
           /\ \A u \in Thread \ {t} : pc'[u] = pc[u]
           /\ pc'[t] = "cs" => head' = tail'
           /\ pc'[t] = "save" => node'[t] = tail'
<1>1. PICK n \in free :
        /\ free' = free \ {n} /\ next' = [next EXCEPT ![n] = Nil] /\ tail' = n
        /\ head' = (IF tail = Nil THEN n ELSE head)
        /\ node' = [node EXCEPT ![t] = IF tail = Nil THEN Nil ELSE n]
  BY DEF Enter, StartLock, Enqueue
<1>2. /\ pc[t] = "lock" /\ pred' = [pred EXCEPT ![t] = tail]
      /\ pc' = [pc EXCEPT ![t] = IF tail = Nil THEN "cs" ELSE "save"]
      /\ sth' = sth /\ func' = func /\ isExec' = isExec /\ conSth' = conSth /\ conEx' = conEx
      /\ awake' = awake /\ finished' = finished /\ op' = op /\ holder' = holder
  BY DEF Enter, StartLock, Goto, conLocals, reqVars
<1>3. n \in Node /\ n # Nil /\ sth[n] = Nil /\ next[n] = Nil /\ func[n] = Nil
  BY NodeFacts, Nils
<1>4. next' = next
  BY <1>1, <1>3 DEF IInv, TypeOK, CoreTypeOK
<1>5. /\ pc'[t] = (IF tail = Nil THEN "cs" ELSE "save") /\ pc'[Con] = pc[Con]
      /\ node'[t] = (IF tail = Nil THEN Nil ELSE n) /\ pred'[t] = tail
      /\ \A u \in Thread \ {t} : pc'[u] = pc[u] /\ node'[u] = node[u] /\ pred'[u] = pred[u]
  BY <1>1, <1>2, Nils DEF IInv, TypeOK
<1>6. /\ n # head /\ n # tail
      /\ \A m \in Node : next[m] # n
      /\ \A u \in Thread : pc[u] \in QueuePC => node[u] # n /\ pred[u] # n
      /\ \A m \in Node : sth[m] # Nil => m # n
  BY <1>3 DEF IInv, QueueInv, Ends, Links, Queueing
<1>7. \A m \in Node : sth[m] # Nil => sth[m] \in Thread /\ sth[m] # t
  BY <1>2, NodeFacts DEF IInv, QueueInv, Suspended
<1>8. Pending' = Pending
  <2>1. head' # head => head' = n /\ head \notin Node
    BY <1>1, Nils DEF IInv, QueueInv, Ends
  <2>2. Executing' = Executing
    BY <1>2, <1>5 DEF Executing
  <2> QED
    BY <1>1, <1>2, <1>3, <2>1, <2>2 DEF Pending
<1>9. CASE tail = Nil
  <2>1. head = Nil /\ head' = n /\ pc'[t] = "cs"
    BY <1>1, <1>5, <1>9 DEF IInv, QueueInv, Ends
  <2>2. pc[Con] = "parked" /\ conSth /\ conEx /\ holder = <<>>
    <3>1. ~finished
      BY <1>2, LockerNotFinished
    <3>2. pc[Con] = "parked" /\ holder = <<>>
      BY <1>9, <3>1 DEF IInv, Token, DeviceInv, Idle
    <3> QED
      BY <3>2 DEF IInv, Token, DeviceInv, HeadToExecute
  <2>3. \A u \in Thread : pc'[u] \in HolderPC => u = t
    BY <1>5, <1>9 DEF IInv, Token
  <2>4. Token'
    <3>1. pc'[Con] = "parked" /\ conSth' /\ tail' # Nil
      BY <1>1, <1>2, <1>3, <1>5, <2>2
    <3> QED
      BY <2>3, <3>1, ParkedToken
  <2>5. \A u \in Thread : pc'[u] \in QueuePC => u # t /\ pc[u] = pc'[u]
    BY <1>5, <2>1 DEF QueuePC
  <2>6. Ends'
    BY <1>1, <1>3, <1>4, <2>1 DEF Ends
  <2>7. Queueing'
    BY <1>1, <1>4, <1>5, <1>6, <2>1, <2>5 DEF IInv, QueueInv, Queueing
  <2>8. Links'
    BY <1>1, <1>4, <1>5, <1>6, <2>1, <2>5 DEF IInv, QueueInv, Links
  <2>9. Suspended'
    BY <1>1, <1>2, <1>5, <1>6, <1>7, <2>1 DEF IInv, QueueInv, Suspended
  <2>10. Contents'
    <3>1. \A u \in Thread : pc'[u] \in HolderPC => func'[head'] = Nil
      BY <1>2, <1>3, <2>1
    <3>2. \A u \in Thread : pc'[u] = "save" => sth'[node'[u]] = Nil /\ func'[node'[u]] = Nil
      BY <1>2, <1>5, <2>5 DEF IInv, DeviceInv, Contents, QueuePC
    <3>3. \A u \in Thread : pc'[u] = "link" =>
            IF op'[u] \in FuncOps
            THEN sth'[node'[u]] = Nil /\ func'[node'[u]] = [op |-> op'[u], by |-> u]
            ELSE sth'[node'[u]] = u /\ func'[node'[u]] = Nil
      BY <1>2, <1>5, <2>5 DEF IInv, DeviceInv, Contents, QueuePC
    <3>4. /\ \A m \in free' : func'[m] = Nil
          /\ \A m \in Node : next'[m] # Nil => (sth'[next'[m]] # Nil <=> func'[next'[m]] = Nil)
      BY <1>1, <1>2, <1>4 DEF IInv, DeviceInv, Contents
    <3> QED
      BY <3>1, <3>2, <3>3, <3>4 DEF Contents
  <2>11. HeadToExecute' /\ Idle'
    BY <1>1, <1>2, <1>3, <1>5, <2>1, <2>2, <2>3 DEF HeadToExecute, Idle, HolderPC
  <2> QED
    BY <1>1, <1>2, <1>5, <1>8, <2>1, <2>4, <2>6, <2>7, <2>8, <2>9, <2>10, <2>11 DEF QueueInv, DeviceInv
<1>10. CASE tail # Nil
  <2>1. /\ head' = head /\ pc'[t] = "save" /\ node'[t] = n /\ tail \in Node
        /\ tail \notin free /\ next[tail] = Nil /\ head # Nil /\ head \notin free
    BY <1>1, <1>5, <1>10 DEF IInv, QueueInv, Ends, TypeOK, CoreTypeOK
  <2>2. \A u \in Thread : pc'[u] \in HolderPC <=> pc[u] \in HolderPC
    BY <1>2, <1>5, <2>1 DEF HolderPC
  <2>3. Token'
    <3>1. \A u \in Thread : pc'[u] = "notify" => pc[u] = "notify"
      BY <1>5, <2>1
    <3> QED
      BY <1>1, <1>2, <1>3, <1>5, <1>10, <2>2, <3>1 DEF IInv, Token
  <2>4. Ends'
    BY <1>1, <1>3, <1>4, <2>1 DEF Ends
  <2>5. Queueing'
    <3>1. \A u \in Thread : pc'[u] \in QueuePC =>
            /\ node'[u] \in Node /\ node'[u] \notin free' /\ node'[u] # head'
            /\ pred'[u] \in Node /\ pred'[u] \notin free' /\ pred'[u] # tail'
            /\ next'[pred'[u]] = Nil
      BY <1>1, <1>3, <1>4, <1>5, <1>6, <2>1 DEF IInv, QueueInv, Queueing
    <3>2. \A u \in Thread \ {t} : pc[u] \in QueuePC => node[u] # n /\ pred[u] # tail
      BY <1>6 DEF IInv, QueueInv, Queueing
    <3>3. \A u, v \in Thread : pc'[u] \in QueuePC /\ pc'[v] \in QueuePC /\ u # v =>
            node'[u] # node'[v] /\ pred'[u] # pred'[v]
      BY <1>5, <2>1, <3>2 DEF IInv, QueueInv, Queueing
    <3> QED
      BY <3>1, <3>3 DEF Queueing
  <2>6. Links'
    BY <1>1, <1>4, <1>5, <1>6, <2>1 DEF IInv, QueueInv, Links
  <2>7. Suspended'
    BY <1>1, <1>2, <1>5, <1>6, <1>7, <2>1 DEF IInv, QueueInv, Suspended
  <2>8. Contents'
    <3>1. \A u \in Thread : pc'[u] = "save" => sth'[node'[u]] = Nil /\ func'[node'[u]] = Nil
      BY <1>2, <1>3, <1>5, <2>1 DEF IInv, DeviceInv, Contents
    <3>2. \A u \in Thread : pc'[u] = "link" =>
            IF op'[u] \in FuncOps
            THEN sth'[node'[u]] = Nil /\ func'[node'[u]] = [op |-> op'[u], by |-> u]
            ELSE sth'[node'[u]] = u /\ func'[node'[u]] = Nil
      BY <1>2, <1>5, <2>1 DEF IInv, DeviceInv, Contents
    <3>3. /\ \A m \in free' : func'[m] = Nil
          /\ \A m \in Node : next'[m] # Nil => (sth'[next'[m]] # Nil <=> func'[next'[m]] = Nil)
          /\ \A u \in Thread : pc'[u] \in HolderPC => func'[head'] = Nil
      BY <1>1, <1>2, <1>4, <2>1, <2>2 DEF IInv, DeviceInv, Contents
    <3> QED
      BY <3>1, <3>2, <3>3 DEF Contents
  <2>9. HeadToExecute' /\ Idle'
    BY <1>1, <1>2, <1>3, <1>5, <2>1 DEF IInv, DeviceInv, HeadToExecute, Idle
  <2> QED
    BY <1>1, <1>2, <1>5, <1>8, <2>1, <2>3, <2>4, <2>5, <2>6, <2>7, <2>8, <2>9 DEF QueueInv, DeviceInv
<1> QED
  BY <1>9, <1>10

\* A thread leaves itself or its function in its node.
LEMMA DelegateDevice ==
    ASSUME IInv, NEW t \in Thread, Delegate(t)
    PROVE  /\ Token' /\ QueueInv' /\ DeviceInv'
           /\ pc[t] = "save" /\ pc'[t] = "link" /\ pc'[Con] = pc[Con]
           /\ \A u \in Thread \ {t} : pc'[u] = pc[u]
           /\ \A n \in Pending : func'[n] = func[n]
           /\ IF op[t] \in FuncOps
              THEN Pending' = Pending \cup {node[t]} /\ node[t] \notin Pending
                   /\ func'[node[t]] = [op |-> op[t], by |-> t]
              ELSE Pending' = Pending
<1>1. /\ pc[t] = "save" /\ pc' = [pc EXCEPT ![t] = "link"]
      /\ tail' = tail /\ head' = head /\ next' = next /\ free' = free
      /\ node' = node /\ pred' = pred /\ isExec' = isExec /\ conSth' = conSth /\ conEx' = conEx
      /\ finished' = finished /\ op' = op /\ holder' = holder
  BY DEF Delegate, Goto, core, conLocals
<1>2. PICK n \in Node : n = node[t] /\ n \notin free /\ n # head
  BY <1>1 DEF IInv, QueueInv, Queueing, QueuePC
<1>3. /\ \A m \in Node : next[m] # Nil => next[m] # n
      /\ \A u \in Thread \ {t} : pc[u] \in QueuePC => node[u] # n
      /\ sth[n] = Nil /\ func[n] = Nil
  BY <1>1, <1>2 DEF IInv, QueueInv, Links, Queueing, DeviceInv, Contents, QueuePC
<1>4. pc'[t] = "link" /\ pc'[Con] = pc[Con] /\ \A u \in Thread \ {t} : pc'[u] = pc[u]
  BY <1>1, Nils DEF IInv, TypeOK
<1>5. op[t] \in Ops
  BY <1>1 DEF IInv, RequestInv, Phases, PhaseOf
<1>6. IF op[t] \in FuncOps
      THEN sth' = sth /\ func' = [func EXCEPT ![n] = [op |-> op[t], by |-> t]]
      ELSE op[t] \in {"probe", "stop"} /\ sth' = [sth EXCEPT ![n] = t] /\ func' = func
  BY <1>2, <1>5 DEF Delegate, SaveInNode, SaveFunc, FuncOps, Ops
<1>7. /\ \A m \in Node \ {n} : sth'[m] = sth[m] /\ func'[m] = func[m]
      /\ IF op[t] \in FuncOps
         THEN sth'[n] = Nil /\ func'[n] = [op |-> op[t], by |-> t]
         ELSE sth'[n] = t /\ func'[n] = Nil
  BY <1>3, <1>6 DEF IInv, TypeOK
<1>8. \A u \in Thread : /\ pc'[u] \in QueuePC <=> pc[u] \in QueuePC
                        /\ pc'[u] \in HolderPC <=> pc[u] \in HolderPC
                        /\ pc'[u] = "notify" <=> pc[u] = "notify"
  BY <1>1, <1>4 DEF QueuePC, HolderPC
<1>9. Token'
  BY <1>1, <1>4, <1>8 DEF IInv, Token
<1>10. Ends' /\ Queueing' /\ Links'
  BY <1>1, <1>8 DEF IInv, QueueInv, Ends, Queueing, Links
<1>11. Suspended'
  <2>1. \A m \in Node : sth[m] # Nil => sth[m] \in Thread /\ sth[m] # t /\ m # n
    BY <1>1, <1>3, NodeFacts DEF IInv, QueueInv, Suspended
  <2>2. ASSUME NEW m \in Node, sth'[m] # Nil
        PROVE  /\ m \notin free' /\ m # head'
               /\ pc'[sth'[m]] \in {"link", "blocked"}
               /\ pc'[sth'[m]] = "link" => node'[sth'[m]] = m
               /\ op'[sth'[m]] \in {"probe", "stop"}
    <3>1. CASE m = n
      BY <1>1, <1>2, <1>4, <1>6, <1>7, <2>2, <3>1
    <3>2. CASE m # n
      BY <1>1, <1>4, <1>7, <2>1, <2>2, <3>2 DEF IInv, QueueInv, Suspended
    <3> QED
      BY <3>1, <3>2
  <2>3. \A k, m \in Node : sth'[m] # Nil /\ sth'[m] = sth'[k] => m = k
    BY <1>3, <1>7, <2>1 DEF IInv, QueueInv, Suspended
  <2> QED
    BY <2>2, <2>3 DEF Suspended
<1>12. Contents'
  <2>1. \A u \in Thread \ {t} : pc[u] \in QueuePC => node[u] \in Node \ {n}
    BY <1>3 DEF IInv, QueueInv, Queueing
  <2>2. \A u \in Thread : pc'[u] = "save" => sth'[node'[u]] = Nil /\ func'[node'[u]] = Nil
    BY <1>1, <1>4, <1>7, <2>1 DEF IInv, DeviceInv, Contents, QueuePC
  <2>3. \A u \in Thread : pc'[u] = "link" =>
          IF op'[u] \in FuncOps
          THEN sth'[node'[u]] = Nil /\ func'[node'[u]] = [op |-> op'[u], by |-> u]
          ELSE sth'[node'[u]] = u /\ func'[node'[u]] = Nil
    <3>1. IF op'[t] \in FuncOps
          THEN sth'[node'[t]] = Nil /\ func'[node'[t]] = [op |-> op'[t], by |-> t]
          ELSE sth'[node'[t]] = t /\ func'[node'[t]] = Nil
      BY <1>1, <1>2, <1>7
    <3>2. \A u \in Thread \ {t} : pc'[u] = "link" =>
          IF op'[u] \in FuncOps
          THEN sth'[node'[u]] = Nil /\ func'[node'[u]] = [op |-> op'[u], by |-> u]
          ELSE sth'[node'[u]] = u /\ func'[node'[u]] = Nil
      BY <1>1, <1>4, <1>7, <2>1 DEF IInv, DeviceInv, Contents, QueuePC
    <3> QED
      BY <3>1, <3>2
  <2>4. \A m \in free' : func'[m] = Nil
    BY <1>1, <1>2, <1>7, NodeFacts
  <2>5. \A m \in Node : next'[m] # Nil => (sth'[next'[m]] # Nil <=> func'[next'[m]] = Nil)
    BY <1>1, <1>3, <1>7, NodeFacts DEF IInv, DeviceInv, Contents
  <2>6. \A u \in Thread : pc'[u] \in HolderPC => func'[head'] = Nil
    <3>1. \A u \in Thread : pc[u] \in HolderPC => func[head] = Nil /\ head \in Node
      BY HolderFacts
    <3> QED
      BY <1>1, <1>2, <1>7, <1>8, <3>1
  <2> QED
    BY <2>2, <2>3, <2>4, <2>5, <2>6 DEF Contents
<1>13. HeadToExecute'
  <2>1. head \in Node => func'[head'] = func[head]
    BY <1>1, <1>2, <1>7
  <2>2. pc[Con] \in {"consume", "progress", "finish"} /\ ~finished => head \in Node
    BY ConsumerFacts DEF ConHolding
  <2>3. ~finished
    BY <1>1, LockerNotFinished
  <2>4. \A u \in Thread : pc'[u] \in {"follow", "follow_wait"} => pc[u] \in {"follow", "follow_wait"}
    BY <1>4
  <2> QED
    BY <1>1, <1>4, <2>1, <2>2, <2>3, <2>4 DEF IInv, DeviceInv, HeadToExecute
<1>14. Idle'
  <2>1. \A u \in Thread : pc'[u] = "cs" => pc[u] = "cs"
    BY <1>4
  <2> QED
    BY <1>1, <1>4, <2>1 DEF IInv, DeviceInv, Idle
<1>15. n \notin Pending
  BY <1>3 DEF Pending
<1>16. Executing' = Executing
  BY <1>1, <1>4 DEF Executing
<1>17. CASE op[t] \in FuncOps
  <2>1. func'[n] # Nil
    <3>1. [op |-> op[t], by |-> t] \in Func
      BY <1>17 DEF Func, FuncOps
    <3> QED
      BY <1>7, <1>17, <3>1, Nils
  <2>2. Pending' = Pending \cup {n}
    BY <1>1, <1>2, <1>7, <1>16, <2>1 DEF Pending
  <2> QED
    BY <1>1, <1>2, <1>4, <1>7, <1>9, <1>10, <1>11, <1>12, <1>13, <1>14, <1>15, <1>17, <2>2
    DEF QueueInv, DeviceInv, Pending
<1>18. CASE op[t] \notin FuncOps
  <2>1. func' = func
    BY <1>6, <1>18
  <2>2. Pending' = Pending
    BY <1>1, <1>16, <2>1 DEF Pending
  <2> QED
    BY <1>1, <1>4, <1>9, <1>10, <1>11, <1>12, <1>13, <1>14, <1>18, <2>1, <2>2
    DEF QueueInv, DeviceInv
<1> QED
  BY <1>17, <1>18

\* A thread links its node.
LEMMA PublishDevice ==
    ASSUME IInv, NEW t \in Thread, Publish(t)
    PROVE  /\ Token' /\ QueueInv' /\ DeviceInv' /\ Pending' = Pending /\ func' = func
           /\ pc[t] = "link" /\ pc'[Con] = pc[Con] /\ op[t] \in Ops
           /\ IF op[t] \in {"nb", "noreq"} THEN pc'[t] = "idle" /\ op'[t] = Nil
              ELSE pc'[t] = "blocked" /\ op'[t] = op[t]
           /\ \A u \in Thread \ {t} : pc'[u] = pc[u] /\ op'[u] = op[u]
<1>1. /\ pc[t] = "link"
      /\ tail' = tail /\ head' = head /\ free' = free
      /\ next' = [next EXCEPT ![pred[t]] = node[t]]
      /\ node' = [node EXCEPT ![t] = Nil] /\ pred' = [pred EXCEPT ![t] = Nil]
      /\ sth' = sth /\ func' = func /\ isExec' = isExec /\ conSth' = conSth /\ conEx' = conEx
      /\ finished' = finished /\ holder' = holder
  BY DEF Publish, Link, SetNext, conLocals, reqVars
<1>2. PICK n \in Node : n = node[t] /\ n \notin free /\ n # head
  BY <1>1 DEF IInv, QueueInv, Queueing, QueuePC
<1>3. PICK p \in Node : p = pred[t] /\ p \notin free /\ p # tail /\ next[p] = Nil
  BY <1>1 DEF IInv, QueueInv, Queueing, QueuePC
<1>4. op[t] \in Ops
  BY <1>1 DEF IInv, RequestInv, Phases, PhaseOf
<1>5. /\ pc'[Con] = pc[Con]
      /\ IF op[t] \in {"nb", "noreq"} THEN pc'[t] = "idle" /\ op'[t] = Nil
         ELSE pc'[t] = "blocked" /\ op'[t] = op[t]
      /\ \A u \in Thread \ {t} : pc'[u] = pc[u] /\ op'[u] = op[u]
  BY Nils DEF Publish, Link, Goto, EndIfIdle, IInv, TypeOK
<1>6. /\ next'[p] = n
      /\ \A m \in Node \ {p} : next'[m] = next[m]
      /\ \A u \in Thread \ {t} : node'[u] = node[u] /\ pred'[u] = pred[u]
  BY <1>1, <1>2, <1>3 DEF IInv, TypeOK, CoreTypeOK
<1>7. \A u \in Thread : /\ pc'[u] \in QueuePC <=> pc[u] \in QueuePC /\ u # t
                        /\ pc'[u] \in HolderPC <=> pc[u] \in HolderPC
                        /\ pc'[u] = "notify" <=> pc[u] = "notify"
  BY <1>1, <1>5 DEF QueuePC, HolderPC
<1>8. /\ \A m \in Node : next[m] # n
      /\ \A u \in Thread \ {t} : pc[u] \in QueuePC => node[u] # n /\ pred[u] # p
  <2>1. pc[t] \in QueuePC
    BY <1>1 DEF QueuePC
  <2> QED
    BY <1>2, <1>3, <2>1, Nils DEF IInv, QueueInv, Links, Queueing
<1>9. Token'
  BY <1>1, <1>5, <1>7 DEF IInv, Token
<1>10. Ends'
  BY <1>1, <1>3, <1>6 DEF IInv, QueueInv, Ends, TypeOK, CoreTypeOK
<1>11. Queueing'
  <2>1. ASSUME NEW u \in Thread, pc'[u] \in QueuePC
        PROVE  /\ node'[u] \in Node /\ node'[u] \notin free' /\ node'[u] # head'
               /\ pred'[u] \in Node /\ pred'[u] \notin free' /\ pred'[u] # tail'
               /\ next'[pred'[u]] = Nil
    <3>1. u # t /\ pc[u] \in QueuePC
      BY <1>7, <2>1
    <3>2. /\ node[u] \in Node /\ node[u] \notin free /\ node[u] # head
          /\ pred[u] \in Node /\ pred[u] \notin free /\ pred[u] # tail
          /\ next[pred[u]] = Nil /\ pred[u] # p
      BY <1>8, <3>1 DEF IInv, QueueInv, Queueing
    <3> QED
      BY <1>1, <1>6, <3>1, <3>2
  <2>2. \A u, v \in Thread : pc'[u] \in QueuePC /\ pc'[v] \in QueuePC /\ u # v =>
          node'[u] # node'[v] /\ pred'[u] # pred'[v]
    BY <1>6, <1>7 DEF IInv, QueueInv, Queueing
  <2> QED
    BY <2>1, <2>2 DEF Queueing
<1>12. Links'
  <2>1. ASSUME NEW m \in Node, next'[m] # Nil
        PROVE  /\ m \notin free' /\ next'[m] \notin free' /\ next'[m] # head'
               /\ \A u \in Thread : pc'[u] \in QueuePC => node'[u] # next'[m]
    <3>1. CASE m = p
      BY <1>1, <1>2, <1>3, <1>6, <1>7, <1>8, <3>1
    <3>2. CASE m # p
      BY <1>1, <1>6, <1>7, <2>1, <3>2 DEF IInv, QueueInv, Links
    <3> QED
      BY <3>1, <3>2
  <2>2. \A m, k \in Node : next'[m] # Nil /\ next'[m] = next'[k] => m = k
    BY <1>6, <1>8 DEF IInv, QueueInv, Links
  <2> QED
    BY <2>1, <2>2 DEF Links
<1>13. Suspended'
  <2>1. ASSUME NEW m \in Node, sth[m] # Nil
        PROVE  /\ pc'[sth[m]] \in {"link", "blocked"}
               /\ pc'[sth[m]] = "link" => node'[sth[m]] = m
               /\ op'[sth[m]] \in {"probe", "stop"}
    <3>1. /\ sth[m] \in Thread /\ pc[sth[m]] \in {"link", "blocked"}
          /\ pc[sth[m]] = "link" => node[sth[m]] = m
          /\ op[sth[m]] \in {"probe", "stop"}
      BY <2>1, NodeFacts DEF IInv, QueueInv, Suspended
    <3>2. CASE sth[m] = t
      BY <1>5, <3>1, <3>2
    <3>3. CASE sth[m] # t
      BY <1>5, <1>6, <3>1, <3>3
    <3> QED
      BY <3>2, <3>3
  <2> QED
    BY <1>1, <2>1 DEF IInv, QueueInv, Suspended
<1>14. Contents'
  <2>1. sth[n] # Nil <=> func[n] = Nil
    <3>1. CASE op[t] \in FuncOps
      <4>1. [op |-> op[t], by |-> t] \in Func
        BY <3>1 DEF Func, FuncOps
      <4> QED
        BY <1>1, <1>2, <3>1, <4>1, Nils DEF IInv, DeviceInv, Contents
    <3>2. CASE op[t] \notin FuncOps
      BY <1>1, <1>2, <3>2, Nils DEF IInv, DeviceInv, Contents
    <3> QED
      BY <3>1, <3>2
  <2>2. \A m \in Node : next'[m] # Nil => (sth'[next'[m]] # Nil <=> func'[next'[m]] = Nil)
    BY <1>1, <1>6, <2>1 DEF IInv, DeviceInv, Contents
  <2>3. \A u \in Thread : pc'[u] \in QueuePC => u # t /\ pc[u] = pc'[u] /\ op'[u] = op[u] /\ node'[u] = node[u]
    BY <1>5, <1>6, <1>7
  <2>4. \A u \in Thread : pc'[u] = "save" => sth'[node'[u]] = Nil /\ func'[node'[u]] = Nil
    BY <1>1, <2>3 DEF IInv, DeviceInv, Contents, QueuePC
  <2>5. \A u \in Thread : pc'[u] = "link" =>
          IF op'[u] \in FuncOps
          THEN sth'[node'[u]] = Nil /\ func'[node'[u]] = [op |-> op'[u], by |-> u]
          ELSE sth'[node'[u]] = u /\ func'[node'[u]] = Nil
    BY <1>1, <2>3 DEF IInv, DeviceInv, Contents, QueuePC
  <2>6. /\ \A m \in free' : func'[m] = Nil
        /\ \A u \in Thread : pc'[u] \in HolderPC => func'[head'] = Nil
    BY <1>1, <1>7 DEF IInv, DeviceInv, Contents
  <2> QED
    BY <2>2, <2>4, <2>5, <2>6 DEF Contents
<1>15. HeadToExecute'
  <2>1. \A u \in Thread : pc'[u] \in {"follow", "follow_wait"} => pc[u] \in {"follow", "follow_wait"}
    BY <1>5
  <2> QED
    BY <1>1, <1>5, <2>1 DEF IInv, DeviceInv, HeadToExecute
<1>16. Idle'
  <2>1. \A u \in Thread : pc'[u] = "cs" => pc[u] = "cs" /\ op'[u] = op[u]
    BY <1>5
  <2> QED
    BY <1>1, <1>5, <2>1 DEF IInv, DeviceInv, Idle
<1>17. Pending' = Pending
  <2>1. Executing' = Executing
    BY <1>1, <1>5 DEF Executing
  <2> QED
    BY <1>1, <2>1, SamePending
<1> QED
  BY <1>1, <1>4, <1>5, <1>9, <1>10, <1>11, <1>12, <1>13, <1>14, <1>15, <1>16, <1>17 DEF QueueInv, DeviceInv

----------------------------------------------------------------------------
(* Requests *)

\* A step that concerns the threads of S only.
LEMMA StepOf ==
    ASSUME IInv, NEW S, Places',
           \A u \in Thread \ S :
               /\ pc'[u] = pc[u] /\ op'[u] = op[u] /\ reqSt'[u] = reqSt[u] /\ reqSth'[u] = reqSth[u]
               /\ awake' = u <=> awake = u
               /\ awake = u => pc'[Con] \in {"finish", "con_unlock"}
               /\ u \in Given' <=> u \in Given,
           \A u \in Thread \cap S : PhaseOf(u)' /\ WaitOf(u)' /\ StandingOf(u)'
    PROVE  RequestInv'
<1>1. ASSUME NEW u \in Thread
      PROVE  PhaseOf(u)' /\ WaitOf(u)' /\ StandingOf(u)'
  <2>1. CASE u \in S
    BY <2>1
  <2>2. CASE u \notin S
    BY <2>2, SameThread
  <2> QED
    BY <2>1, <2>2
<1> QED
  BY <1>1 DEF RequestInv, Phases, Waits, Standing

\* The same for a step of one thread that leaves the consumer and the requests where they are.
LEMMA StepOfOne ==
    ASSUME IInv, NEW t \in Thread, Places', Given' = Given, awake' = awake, pc'[Con] = pc[Con],
           \A u \in Thread \ {t} :
               pc'[u] = pc[u] /\ op'[u] = op[u] /\ reqSt'[u] = reqSt[u] /\ reqSth'[u] = reqSth[u],
           PhaseOf(t)', WaitOf(t)', StandingOf(t)'
    PROVE  RequestInv'
<1>1. \A u \in Thread : awake = u => pc[Con] \in {"finish", "con_unlock"}
  BY DEF IInv, RequestInv, Waits, WaitOf
<1>2. \A u \in Thread \ {t} :
        /\ pc'[u] = pc[u] /\ op'[u] = op[u] /\ reqSt'[u] = reqSt[u] /\ reqSth'[u] = reqSth[u]
        /\ awake' = u <=> awake = u
        /\ awake = u => pc'[Con] \in {"finish", "con_unlock"}
        /\ u \in Given' <=> u \in Given
  BY <1>1
<1>3. \A u \in Thread \cap {t} : PhaseOf(u)' /\ WaitOf(u)' /\ StandingOf(u)'
  OBVIOUS
<1> QED
  BY <1>2, <1>3, StepOf

\* What is known of one thread.
LEMMA Own ==
    ASSUME IInv, NEW t \in Thread
    PROVE  PhaseOf(t) /\ WaitOf(t) /\ StandingOf(t) /\ Places
BY DEF IInv, RequestInv, Phases, Waits, Standing

LEMMA StartRequests ==
    ASSUME IInv, NEW t \in Thread, NEW k \in Ops, Start(t, k)
    PROVE  Token' /\ QueueInv' /\ DeviceInv' /\ RequestInv'
<1>1. /\ pc[t] = "idle" /\ pc' = [pc EXCEPT ![t] = "lock"] /\ op' = [op EXCEPT ![t] = k]
      /\ reqSt' = (IF HasRequest(k) THEN [reqSt EXCEPT ![t] = "created"] ELSE reqSt)
      /\ HasRequest(k) => reqSt[t] = "none"
      /\ UNCHANGED <<core, queueArgs, isExec, conSth, conLocals, finished, holder>>
      /\ reqSth' = reqSth /\ holder' = holder /\ awake' = awake /\ func' = func
  BY DEF Start, Goto, conLocals, queueArgs
<1>2. /\ pc'[t] = "lock" /\ op'[t] = k /\ pc'[Con] = pc[Con]
      /\ reqSt'[t] = (IF HasRequest(k) THEN "created" ELSE reqSt[t])
      /\ \A u \in Thread \ {t} : pc'[u] = pc[u] /\ op'[u] = op[u] /\ reqSt'[u] = reqSt[u]
  BY <1>1, Nils DEF IInv, TypeOK
<1>3. Token' /\ QueueInv' /\ DeviceInv' /\ Pending' = Pending
  <2>1. pc[t] \notin HolderPC \cup QueuePC \cup {"blocked"} /\ pc'[t] \notin HolderPC \cup QueuePC \cup {"notify"}
    BY <1>1, <1>2 DEF HolderPC, QueuePC
  <2> QED
    BY <1>1, <1>2, <2>1, QuietThread
<1>4. Places' /\ Given' = Given
  BY <1>1, <1>3, Own, SamePlaces
<1>5. PhaseOf(t) /\ WaitOf(t) /\ StandingOf(t)
  BY Own
<1>6. reqSt[t] # "waiting" /\ ~reqSth[t] /\ awake # t
  BY <1>1, <1>5 DEF WaitOf
<1>7. PhaseOf(t)' /\ WaitOf(t)'
  BY <1>1, <1>2, <1>6 DEF PhaseOf, WaitOf
<1>8. StandingOf(t)'
  <2>1. HasRequest(k) => t \notin Given
    BY <1>1, <1>5 DEF StandingOf
  <2> QED
    BY <1>1, <1>2, <1>4, <1>5, <1>6, <2>1 DEF StandingOf, Fresh, HasRequest
<1>9. RequestInv'
  BY <1>1, <1>2, <1>4, <1>7, <1>8, StepOfOne
<1> QED
  BY <1>3, <1>9

LEMMA EnterRequests ==
    ASSUME IInv, NEW t \in Thread, Enter(t)
    PROVE  RequestInv'
<1>1. /\ op' = op /\ reqSt' = reqSt /\ reqSth' = reqSth /\ holder' = holder /\ awake' = awake
  BY DEF Enter, StartLock, conLocals, reqVars
<1>2. /\ Pending' = Pending /\ func' = func
      /\ pc[t] = "lock" /\ pc'[t] \in {"cs", "save"} /\ pc'[Con] = pc[Con]
      /\ \A u \in Thread \ {t} : pc'[u] = pc[u]
  BY EnterDevice
<1>3. Places' /\ Given' = Given
  BY <1>1, <1>2, Own, SamePlaces
<1>4. PhaseOf(t) /\ WaitOf(t) /\ StandingOf(t)
  BY Own
<1>5. PhaseOf(t)' /\ WaitOf(t)'
  BY <1>1, <1>2, <1>4 DEF PhaseOf, WaitOf
<1>6. StandingOf(t)'
  BY <1>1, <1>2, <1>3, <1>4 DEF StandingOf, Fresh
<1> QED
  BY <1>1, <1>2, <1>3, <1>5, <1>6, StepOfOne

LEMMA DelegateRequests ==
    ASSUME IInv, NEW t \in Thread, Delegate(t)
    PROVE  RequestInv'
<1>1. /\ op' = op /\ holder' = holder /\ awake' = awake
      /\ IF op[t] = "block"
         THEN reqSt' = [reqSt EXCEPT ![t] = "waiting"] /\ reqSth' = [reqSth EXCEPT ![t] = TRUE]
         ELSE reqSt' = reqSt /\ reqSth' = reqSth
  BY DEF Delegate, conLocals
<1>2. /\ pc[t] = "save" /\ pc'[t] = "link" /\ pc'[Con] = pc[Con]
      /\ \A u \in Thread \ {t} : pc'[u] = pc[u]
      /\ \A n \in Pending : func'[n] = func[n]
      /\ IF op[t] \in FuncOps
         THEN Pending' = Pending \cup {node[t]} /\ node[t] \notin Pending
              /\ func'[node[t]] = [op |-> op[t], by |-> t]
         ELSE Pending' = Pending
  BY DelegateDevice
<1>3. /\ op[t] = "block" => reqSt'[t] = "waiting" /\ reqSth'[t]
      /\ op[t] # "block" => reqSt'[t] = reqSt[t] /\ reqSth'[t] = reqSth[t]
      /\ \A u \in Thread \ {t} : reqSt'[u] = reqSt[u] /\ reqSth'[u] = reqSth[u]
  BY <1>1 DEF IInv, TypeOK
<1>4. PhaseOf(t) /\ WaitOf(t) /\ StandingOf(t) /\ Places
  BY Own
<1>5. op[t] \in Ops /\ reqSt[t] # "waiting" /\ ~reqSth[t] /\ awake # t
  BY <1>2, <1>4 DEF PhaseOf, WaitOf
<1>6. op[t] \in {"nb", "block"} => reqSt[t] = "created" /\ t \notin Given
  BY <1>2, <1>4 DEF StandingOf, Fresh
<1>7. CASE op[t] \in {"nb", "block"}
  <2>1. PICK n : n = node[t]
    OBVIOUS
  <2>2. Pending' = Pending \cup {n} /\ n \notin Pending /\ func'[n] = [op |-> op[t], by |-> t]
    BY <1>2, <1>7, <2>1 DEF FuncOps
  <2>3. \A m \in Pending, u \in Thread : Carries(m, u)' <=> Carries(m, u)
    BY <1>2 DEF Carries
  <2>4. \A u \in Thread : Carries(n, u)' <=> u = t
    BY <1>7, <2>2 DEF Carries, HasRequest
  <2>5. Delegated' = Delegated \cup {t}
    BY <2>2, <2>3, <2>4 DEF Delegated
  <2>6. Given' = Given \cup {t} /\ Range(holder)' = Range(holder)
    BY <1>1, <2>5 DEF Given, Range
  <2>7. \A k, m \in Pending', u \in Thread : Carries(k, u)' /\ Carries(m, u)' => k = m
    <3>1. \A m \in Pending : ~Carries(m, t)
      BY <1>6, <1>7 DEF Given, Delegated
    <3> QED
      BY <1>4, <2>2, <2>3, <2>4, <3>1 DEF Places
  <2>8. Places'
    <3>1. t \notin Range(holder)
      BY <1>6, <1>7 DEF Given
    <3> QED
      BY <1>1, <1>4, <2>5, <2>6, <2>7, <3>1 DEF Places
  <2>9. PhaseOf(t)' /\ WaitOf(t)'
    BY <1>1, <1>2, <1>3, <1>5, <1>7 DEF PhaseOf, WaitOf
  <2>10. StandingOf(t)'
    BY <1>1, <1>2, <1>3, <1>5, <1>6, <1>7, <2>6 DEF StandingOf, Fresh
  <2>11. \A u \in Thread \ {t} :
        /\ pc'[u] = pc[u] /\ op'[u] = op[u] /\ reqSt'[u] = reqSt[u] /\ reqSth'[u] = reqSth[u]
        /\ awake' = u <=> awake = u
        /\ awake = u => pc'[Con] \in {"finish", "con_unlock"}
        /\ u \in Given' <=> u \in Given
    <3>1. \A u \in Thread : awake = u => pc[Con] \in {"finish", "con_unlock"}
      BY Own DEF WaitOf
    <3> QED
      BY <1>1, <1>2, <1>3, <2>6, <3>1
  <2>12. \A u \in Thread \cap {t} : PhaseOf(u)' /\ WaitOf(u)' /\ StandingOf(u)'
    BY <2>9, <2>10
  <2> QED
    BY <2>8, <2>11, <2>12, StepOf
<1>8. CASE op[t] \notin {"nb", "block"}
  <2>1. Places' /\ Given' = Given
    <3>1. CASE op[t] \notin FuncOps
      BY <1>1, <1>2, <1>4, <3>1, SamePlaces
    <3>2. CASE op[t] = "noreq"
      <4>1. PICK n : n = node[t]
        OBVIOUS
      <4>2. Pending' = Pending \cup {n} /\ n \notin Pending /\ func'[n] = [op |-> op[t], by |-> t]
        BY <1>2, <3>2, <4>1 DEF FuncOps
      <4>3. \A m \in Pending, u \in Thread : Carries(m, u)' <=> Carries(m, u)
        BY <1>2 DEF Carries
      <4>4. \A u \in Thread : ~Carries(n, u)'
        BY <3>2, <4>2 DEF Carries, HasRequest
      <4>5. Delegated' = Delegated
        BY <4>2, <4>3, <4>4 DEF Delegated
      <4>6. Given' = Given /\ Range(holder)' = Range(holder)
        BY <1>1, <4>5 DEF Given, Range
      <4>7. \A k, m \in Pending', u \in Thread : Carries(k, u)' /\ Carries(m, u)' => k = m
        BY <1>4, <4>2, <4>3, <4>4 DEF Places
      <4> QED
        BY <1>1, <1>4, <4>5, <4>6, <4>7 DEF Places
    <3> QED
      BY <1>8, <3>1, <3>2 DEF FuncOps
  <2>2. PhaseOf(t)' /\ WaitOf(t)'
    BY <1>1, <1>2, <1>3, <1>5, <1>8 DEF PhaseOf, WaitOf
  <2>3. StandingOf(t)'
    BY <1>1, <1>2, <1>3, <1>4, <1>5, <1>8, <2>1 DEF StandingOf, Fresh
  <2> QED
    BY <1>1, <1>2, <1>3, <2>1, <2>2, <2>3, StepOfOne
<1> QED
  BY <1>7, <1>8

LEMMA PublishRequests ==
    ASSUME IInv, NEW t \in Thread, Publish(t)
    PROVE  RequestInv'
<1>1. /\ reqSt' = reqSt /\ reqSth' = reqSth /\ holder' = holder /\ awake' = awake
  BY DEF Publish, Link, conLocals, reqVars
<1>2. /\ Pending' = Pending /\ func' = func
      /\ pc[t] = "link" /\ pc'[Con] = pc[Con] /\ op[t] \in Ops
      /\ IF op[t] \in {"nb", "noreq"} THEN pc'[t] = "idle" /\ op'[t] = Nil
         ELSE pc'[t] = "blocked" /\ op'[t] = op[t]
      /\ \A u \in Thread \ {t} : pc'[u] = pc[u] /\ op'[u] = op[u]
  BY PublishDevice
<1>3. Places' /\ Given' = Given
  BY <1>1, <1>2, Own, SamePlaces
<1>4. PhaseOf(t) /\ WaitOf(t) /\ StandingOf(t)
  BY Own
<1>5. reqSt[t] = "waiting" \/ reqSth[t] => op[t] = "block"
  BY <1>2, <1>4, Nils DEF WaitOf
<1>6. awake # t
  BY <1>2, <1>4 DEF WaitOf
<1>7. PhaseOf(t)' /\ WaitOf(t)'
  BY <1>1, <1>2, <1>4, <1>5, <1>6 DEF PhaseOf, WaitOf
<1>8. StandingOf(t)'
  BY <1>1, <1>2, <1>3, <1>4 DEF StandingOf, Fresh
<1> QED
  BY <1>1, <1>2, <1>3, <1>7, <1>8, StepOfOne

LEMMA ExecuteRequests ==
    ASSUME IInv, NEW t \in Thread, ExecuteImm(t)
    PROVE  Token' /\ QueueInv' /\ DeviceInv' /\ RequestInv'
<1>1. PICK null \in Nulls("self") :
        /\ Call(op[t], t, null, op[t] = "block")
        /\ Goto(t, IF op[t] = "block" /\ ~null THEN "unlock_wait" ELSE "unlock")
  BY DEF ExecuteImm
<1>2. /\ pc[t] = "cs" /\ op[t] \in FuncOps /\ isExec'
      /\ UNCHANGED <<core, queueArgs, conSth, conLocals, op>> /\ finished' = finished
      /\ op' = op /\ reqSth' = reqSth /\ awake' = awake /\ func' = func
  BY DEF ExecuteImm, FuncOps, conLocals, queueArgs
<1>3. /\ pc'[t] = (IF op[t] = "block" /\ ~null THEN "unlock_wait" ELSE "unlock")
      /\ pc'[Con] = pc[Con] /\ \A u \in Thread \ {t} : pc'[u] = pc[u]
  BY <1>1, Nils DEF Goto, IInv, TypeOK
<1>4. Token' /\ QueueInv' /\ DeviceInv' /\ Pending' = Pending
  <2>1. pc[t] \in HolderPC /\ pc'[t] \in HolderPC \ {"cs"} /\ pc'[t] \notin {"follow", "follow_wait"}
    BY <1>2, <1>3 DEF HolderPC
  <2> QED
    BY <1>2, <1>3, <2>1, HolderStep
<1>5. PhaseOf(t) /\ WaitOf(t) /\ StandingOf(t) /\ Places
  BY Own
<1>6. holder = <<>>
  BY <1>2 DEF IInv, DeviceInv, Idle
<1>7. reqSt[t] # "waiting" /\ ~reqSth[t] /\ awake # t
  BY <1>2, <1>5 DEF WaitOf
<1>8. HasRequest(op[t]) <=> op[t] \in {"nb", "block"}
  BY DEF HasRequest
<1>9. op[t] \in {"nb", "block"} => reqSt[t] = "created" /\ t \notin Given
  BY <1>2, <1>5 DEF StandingOf, Fresh
<1>10. CASE op[t] = "noreq"
  <2>1. holder' = holder /\ reqSt' = reqSt
    BY <1>1, <1>8, <1>10 DEF Call
  <2>2. Places' /\ Given' = Given
    BY <1>2, <1>4, <1>5, <2>1, SamePlaces
  <2>3. PhaseOf(t)' /\ WaitOf(t)' /\ StandingOf(t)'
    BY <1>2, <1>3, <1>5, <1>7, <1>10, <2>1, <2>2 DEF PhaseOf, WaitOf, StandingOf, Fresh, Ops
  <2>4. RequestInv'
    BY <1>2, <1>3, <2>1, <2>2, <2>3, StepOfOne
  <2> QED
    BY <1>4, <2>4
<1>11. CASE op[t] \in {"nb", "block"} /\ null
  <2>1. holder' = holder /\ reqSt' = [reqSt EXCEPT ![t] = "finished"]
    BY <1>1, <1>8, <1>11 DEF Call
  <2>2. reqSt'[t] = "finished" /\ \A u \in Thread \ {t} : reqSt'[u] = reqSt[u]
    BY <2>1 DEF IInv, TypeOK
  <2>3. Places' /\ Given' = Given
    BY <1>2, <1>4, <1>5, <2>1, SamePlaces
  <2>4. PhaseOf(t)' /\ WaitOf(t)' /\ StandingOf(t)'
    BY <1>2, <1>3, <1>7, <1>9, <1>11, <2>2, <2>3 DEF PhaseOf, WaitOf, StandingOf, Fresh, Ops
  <2>5. RequestInv'
    BY <1>2, <1>3, <2>2, <2>3, <2>4, StepOfOne
  <2> QED
    BY <1>4, <2>5
<1>12. CASE op[t] \in {"nb", "block"} /\ ~null
  <2>1. /\ holder' = Append(holder, t)
        /\ reqSt' = (IF op[t] = "block" THEN [reqSt EXCEPT ![t] = "waiting"] ELSE reqSt)
    BY <1>1, <1>8, <1>12 DEF Call
  <2>2. /\ reqSt'[t] = (IF op[t] = "block" THEN "waiting" ELSE "created")
        /\ \A u \in Thread \ {t} : reqSt'[u] = reqSt[u]
    BY <1>9, <1>12, <2>1 DEF IInv, TypeOK
  <2>3. DOMAIN holder' = {1} /\ holder'[1] = t
    BY <1>6, <2>1
  <2>4. Range(holder)' = {t} /\ Range(holder) = {}
    BY <1>6, <2>3 DEF Range
  <2>5. \A n \in Pending, u \in Thread : Carries(n, u)' <=> Carries(n, u)
    BY <1>2 DEF Carries
  <2>6. Delegated' = Delegated
    BY <1>4, <2>5 DEF Delegated
  <2>7. Given' = Given \cup {t}
    BY <2>4, <2>6 DEF Given
  <2>8. Places'
    <3>1. \A n, m \in Pending', u \in Thread : Carries(n, u)' /\ Carries(m, u)' => n = m
      BY <1>4, <1>5, <2>5 DEF Places
    <3>2. t \notin Delegated'
      BY <1>9, <1>12, <2>6 DEF Given
    <3> QED
      BY <2>3, <2>4, <3>1, <3>2 DEF Places
  <2>9. PhaseOf(t)' /\ WaitOf(t)' /\ StandingOf(t)'
    BY <1>2, <1>3, <1>7, <1>12, <2>2, <2>7 DEF PhaseOf, WaitOf, StandingOf, Fresh, Ops
  <2>10. \A u \in Thread \ {t} :
        /\ pc'[u] = pc[u] /\ op'[u] = op[u] /\ reqSt'[u] = reqSt[u] /\ reqSth'[u] = reqSth[u]
        /\ awake' = u <=> awake = u
        /\ awake = u => pc'[Con] \in {"finish", "con_unlock"}
        /\ u \in Given' <=> u \in Given
    <3>1. \A u \in Thread : awake = u => pc[Con] \in {"finish", "con_unlock"}
      BY Own DEF WaitOf
    <3> QED
      BY <1>2, <1>3, <2>2, <2>7, <3>1
  <2>11. \A u \in Thread \cap {t} : PhaseOf(u)' /\ WaitOf(u)' /\ StandingOf(u)'
    BY <2>9
  <2>12. RequestInv'
    BY <2>8, <2>10, <2>11, StepOf
  <2> QED
    BY <1>4, <2>12
<1> QED
  BY <1>2, <1>10, <1>11, <1>12 DEF FuncOps

LEMMA CallLockedRequests ==
    ASSUME IInv, NEW t \in Thread, CallLocked(t)
    PROVE  /\ Token' /\ QueueInv' /\ DeviceInv' /\ RequestInv'
           /\ op[t] \in {"probe", "stop"} /\ pc[t] = "cs" /\ pc'[t] = "unlock"
           /\ \A u \in Thread \ {t} : pc'[u] = pc[u]
           /\ finished' <=> (finished \/ op[t] = "stop")
<1>1. /\ pc[t] = "cs" /\ op[t] \in {"probe", "stop"} /\ pc' = [pc EXCEPT ![t] = "unlock"]
      /\ UNCHANGED <<core, queueArgs, conSth, conLocals, op>>
      /\ op' = op /\ reqSt' = reqSt /\ reqSth' = reqSth /\ holder' = holder /\ awake' = awake /\ func' = func
  BY DEF CallLocked, SetFinished, Goto, conLocals, queueArgs, reqVars
<1>2. finished' <=> (finished \/ op[t] = "stop")
  BY DEF CallLocked, SetFinished
<1>3. pc'[t] = "unlock" /\ pc'[Con] = pc[Con] /\ \A u \in Thread \ {t} : pc'[u] = pc[u]
  BY <1>1, Nils DEF IInv, TypeOK
<1>4. Token' /\ QueueInv' /\ DeviceInv' /\ Pending' = Pending
  <2>1. pc[t] \in HolderPC /\ pc'[t] \in HolderPC \ {"cs"} /\ pc'[t] \notin {"follow", "follow_wait"}
    BY <1>1, <1>3 DEF HolderPC
  <2> QED
    BY <1>1, <1>2, <1>3, <2>1, HolderStep
<1>5. PhaseOf(t) /\ WaitOf(t) /\ StandingOf(t) /\ Places
  BY Own
<1>6. Places' /\ Given' = Given
  BY <1>1, <1>4, <1>5, SamePlaces
<1>7. PhaseOf(t)' /\ WaitOf(t)' /\ StandingOf(t)'
  BY <1>1, <1>3, <1>5, <1>6 DEF PhaseOf, WaitOf, StandingOf, Fresh, Ops
<1>8. RequestInv'
  BY <1>1, <1>3, <1>6, <1>7, StepOfOne
<1> QED
  BY <1>1, <1>2, <1>3, <1>4, <1>8

\* unlock, and unlock_and_wait, up to the search for a successor.
LEMMA LeaveRequests ==
    ASSUME IInv, NEW t \in Thread, Leave(t)
    PROVE  /\ Token' /\ QueueInv' /\ DeviceInv' /\ RequestInv'
           /\ pc'[Con] = pc[Con]
           /\ \A u \in Thread \ {t} : pc'[u] = pc[u] /\ op'[u] = op[u]
<1>1. /\ reqSt' = reqSt /\ reqSth' = reqSth /\ holder' = holder /\ awake' = awake
  BY DEF Leave, Unlock, UnlockAndWait, conLocals, reqVars
<1>2. PhaseOf(t) /\ WaitOf(t) /\ StandingOf(t) /\ Places
  BY Own
<1>3. CASE Unlock(t, Active, AfterUnlock(t)) /\ EndIfIdle(t, pc'[t]) /\ Release(t, Active)
  <2>1. /\ pc[t] = "unlock" /\ ~Active /\ tail = head /\ EmptyQueue /\ DeallocateHead
        /\ pc' = [pc EXCEPT ![t] = AfterUnlock(t)] /\ op' = (IF pc'[t] = "idle" THEN [op EXCEPT ![t] = Nil] ELSE op)
        /\ UNCHANGED <<node, pred, sth, conSth, conLocals, finished, holder>>
    BY <1>1, <1>3 DEF Unlock, Release, Unlockable, Goto, EndIfIdle
  <2>2. op[t] \in Ops
    BY <1>2, <2>1 DEF PhaseOf
  <2>3. pc'[t] = AfterUnlock(t) /\ pc'[Con] = pc[Con] /\ \A u \in Thread \ {t} : pc'[u] = pc[u]
    BY <2>1, Nils DEF IInv, TypeOK
  <2>4. /\ op'[t] = (IF pc'[t] = "idle" THEN Nil ELSE op[t])
        /\ \A u \in Thread \ {t} : op'[u] = op[u]
    BY <2>1 DEF IInv, TypeOK
  <2>5. \/ op[t] = "stop" /\ pc'[t] = "notify"
        \/ op[t] = "block" /\ pc'[t] = "ret"
        \/ op[t] \notin {"stop", "block"} /\ pc'[t] = "idle"
    BY <2>3 DEF AfterUnlock
  <2>6. /\ Token' /\ QueueInv' /\ DeviceInv'
        /\ Pending' = Pending /\ \A n \in Pending : func'[n] = func[n]
    <3>1. pc'[t] \in {"idle", "ret", "notify"}
      BY <2>5
    <3> QED
      BY <2>1, <2>3, <2>4, <3>1, ReleaseStep
  <2>7. Places' /\ Given' = Given
    BY <1>1, <1>2, <2>6, SamePlaces
  <2>8. reqSt[t] # "waiting" /\ ~reqSth[t] /\ awake # t
    BY <1>2, <2>1 DEF WaitOf
  <2>9. op[t] = "block" => reqSt[t] = "finished"
    BY <1>2, <2>1 DEF PhaseOf
  <2>10. PhaseOf(t)' /\ WaitOf(t)' /\ StandingOf(t)'
    BY <1>1, <1>2, <2>1, <2>4, <2>5, <2>7, <2>8, <2>9 DEF PhaseOf, WaitOf, StandingOf, Fresh
  <2>11. RequestInv'
    BY <1>1, <2>3, <2>4, <2>7, <2>10, StepOfOne
  <2> QED
    BY <2>3, <2>4, <2>6, <2>11
<1>4. CASE \/ Unlock(t, Active, AfterUnlock(t)) /\ EndIfIdle(t, pc'[t]) /\ ~Release(t, Active)
           \/ UnlockAndWait(t, Active) /\ op' = op
  <2>1. /\ \/ pc[t] = "unlock" /\ pc' = [pc EXCEPT ![t] = "follow"]
           \/ pc[t] = "unlock_wait" /\ pc' = [pc EXCEPT ![t] = "follow_wait"]
        /\ isExec' /\ finished' = finished
        /\ UNCHANGED <<core, queueArgs, conSth, conLocals>>
        /\ func' = func
    BY <1>4 DEF Unlock, UnlockAndWait, Goto, queueArgs
  <2>2. /\ \/ pc[t] = "unlock" /\ pc'[t] = "follow"
           \/ pc[t] = "unlock_wait" /\ pc'[t] = "follow_wait"
        /\ pc'[Con] = pc[Con] /\ \A u \in Thread \ {t} : pc'[u] = pc[u]
    BY <2>1, Nils DEF IInv, TypeOK
  <2>3. op' = op
    BY <1>4, <2>2 DEF EndIfIdle
  <2>4. Token' /\ QueueInv' /\ DeviceInv' /\ Pending' = Pending
    <3>1. pc[t] \in HolderPC /\ pc'[t] \in HolderPC \ {"cs"}
      BY <2>2 DEF HolderPC
    <3> QED
      BY <2>1, <2>2, <2>3, <3>1, HolderStep
  <2>5. Places' /\ Given' = Given
    BY <1>1, <1>2, <2>1, <2>4, SamePlaces
  <2>6. PhaseOf(t)' /\ WaitOf(t)' /\ StandingOf(t)'
    BY <1>1, <1>2, <2>2, <2>3, <2>5 DEF PhaseOf, WaitOf, StandingOf, Fresh
  <2>7. RequestInv'
    BY <1>1, <2>2, <2>3, <2>5, <2>6, StepOfOne
  <2> QED
    BY <2>2, <2>3, <2>4, <2>7
<1> QED
  BY <1>3, <1>4 DEF Leave

\* The lock is passed on, to the next thread or to the consumer.
LEMMA LeaveToNextRequests ==
    ASSUME IInv, NEW t \in Thread, LeaveToNext(t)
    PROVE  Token' /\ QueueInv' /\ DeviceInv' /\ RequestInv'
<1>1. PhaseOf(t) /\ WaitOf(t) /\ StandingOf(t) /\ Places
  BY Own
<1>2. pc[t] \in {"follow", "follow_wait"} /\ reqSt' = reqSt /\ holder' = holder /\ awake' = awake
  BY DEF LeaveToNext, Follow, conLocals, reqVars
<1>3. \A u \in Thread : op[u] # "stop"
  BY <1>2, NotStopping DEF StopPC
<1>4. PICK l \in {"idle", "ret", "blocked"} :
        /\ Follow(t, l)
        /\ op'[t] = (IF l = "idle" THEN Nil ELSE op[t])
        /\ \A u \in Thread \ {t} : op'[u] = op[u] /\ reqSth'[u] = reqSth[u]
        /\ l = "ret" => pc[t] = "follow" /\ op[t] = "block" /\ reqSth'[t] = reqSth[t]
        /\ l = "idle" => pc[t] = "follow" /\ reqSth'[t] = reqSth[t]
        /\ l = "blocked" => pc[t] = "follow_wait" /\ reqSth'[t]
  <2>1. CASE pc[t] = "follow"
    <3>1. Follow(t, AfterUnlock(t)) /\ EndIfIdle(t, AfterUnlock(t)) /\ reqSth' = reqSth
      BY <2>1 DEF LeaveToNext, reqVars
    <3>2. PICK l \in {"idle", "ret"} : l = AfterUnlock(t) /\ (l = "ret" => op[t] = "block")
      BY <1>3 DEF AfterUnlock
    <3>3. op'[t] = (IF l = "idle" THEN Nil ELSE op[t]) /\ \A u \in Thread \ {t} : op'[u] = op[u]
      BY <3>1, <3>2 DEF EndIfIdle, IInv, TypeOK
    <3> QED
      BY <2>1, <3>1, <3>2, <3>3
  <2>2. CASE pc[t] = "follow_wait"
    <3>1. Follow(t, "blocked") /\ reqSth' = [reqSth EXCEPT ![t] = TRUE] /\ op' = op
      BY <2>2 DEF LeaveToNext
    <3>2. reqSth'[t] /\ \A u \in Thread \ {t} : reqSth'[u] = reqSth[u]
      BY <3>1 DEF IInv, TypeOK
    <3> QED
      BY <2>2, <3>1, <3>2
  <2> QED
    BY <1>2, <2>1, <2>2
<1>5. UNCHANGED <<node, pred, conLocals, finished, holder>> /\ \A u \in Thread \ {t} : op'[u] = op[u]
  BY <1>2, <1>4 DEF Follow
<1>6. \A u \in Thread : awake # u
  <2>1. pc[t] \in HolderPC
    BY <1>2 DEF HolderPC
  <2> QED
    BY <2>1, HolderFacts
<1>7. ASSUME pc'[t] = l, Given' = Given
      PROVE  PhaseOf(t)' /\ WaitOf(t)' /\ StandingOf(t)'
  <2>1. l # "blocked" => reqSt[t] # "waiting" /\ ~reqSth[t]
    BY <1>1, <1>4 DEF WaitOf
  <2>2. l = "ret" => reqSt[t] = "finished"
    BY <1>1, <1>4 DEF PhaseOf
  <2>3. l = "blocked" => reqSt[t] = "waiting" /\ op[t] = "block"
    BY <1>1, <1>4 DEF PhaseOf
  <2> QED
    BY <1>1, <1>2, <1>4, <1>6, <1>7, <2>1, <2>2, <2>3 DEF PhaseOf, WaitOf, StandingOf, Fresh
<1>8. CASE Successor # Nil /\ sth[Successor] # Nil
  <2>1. FollowTo(t, l)
    BY <1>4, <1>8 DEF Follow
  <2>2. /\ Token' /\ QueueInv' /\ DeviceInv'
        /\ Pending' = Pending /\ \A n \in Pending : func'[n] = func[n]
    BY <1>2, <1>5, <1>8, <2>1, FollowThread
  <2>3. PICK u \in Thread \ {t} :
          /\ pc[u] = "blocked" /\ op[u] \in {"probe", "stop"}
          /\ pc'[t] = l /\ pc'[u] = "cs"
          /\ \A v \in Thread \ {t, u} : pc'[v] = pc[v]
    BY <1>2, <1>5, <1>8, <2>1, FollowThread
  <2>4. Places' /\ Given' = Given
    BY <1>1, <1>2, <2>2, SamePlaces
  <2>5. PhaseOf(t)' /\ WaitOf(t)' /\ StandingOf(t)'
    BY <1>7, <2>3, <2>4
  <2>6. PhaseOf(u)' /\ WaitOf(u)' /\ StandingOf(u)'
    <3>1. PhaseOf(u) /\ WaitOf(u) /\ StandingOf(u)
      BY Own
    <3>2. reqSt[u] # "waiting" /\ ~reqSth[u]
      BY <2>3, <3>1, Nils DEF WaitOf, Ops
    <3> QED
      BY <1>2, <1>4, <1>6, <2>3, <2>4, <3>1, <3>2 DEF PhaseOf, WaitOf, StandingOf, Fresh, Ops
  <2>7. \A v \in Thread \ {t, u} :
        /\ pc'[v] = pc[v] /\ op'[v] = op[v] /\ reqSt'[v] = reqSt[v] /\ reqSth'[v] = reqSth[v]
        /\ awake' = v <=> awake = v
        /\ awake = v => pc'[Con] \in {"finish", "con_unlock"}
        /\ v \in Given' <=> v \in Given
    BY <1>2, <1>4, <1>6, <2>3, <2>4
  <2>8. \A v \in Thread \cap {t, u} : PhaseOf(v)' /\ WaitOf(v)' /\ StandingOf(v)'
    BY <2>5, <2>6
  <2>9. RequestInv'
    BY <2>4, <2>7, <2>8, StepOf
  <2> QED
    BY <2>2, <2>9
<1>9. CASE Successor = Nil \/ sth[Successor] = Nil
  <2>1. /\ Token' /\ QueueInv' /\ DeviceInv'
        /\ Pending' = Pending /\ \A n \in Pending : func'[n] = func[n]
        /\ pc'[t] = l
        /\ \A v \in Thread \ {t} : pc'[v] = pc[v]
    <3>1. CASE Successor # Nil
      <4>1. FollowTo(t, l)
        BY <1>4, <3>1 DEF Follow
      <4> QED
        BY <1>2, <1>5, <1>9, <3>1, <4>1, FollowConsumer
    <3>2. CASE Successor = Nil
      <4>1. HandToConsumer(t, l)
        BY <1>4, <3>2 DEF Follow
      <4>2. func' = func
        BY <4>1 DEF HandToConsumer
      <4> QED
        BY <1>2, <1>5, <4>1, <4>2, HandStep
    <3> QED
      BY <3>1, <3>2
  <2>2. Places' /\ Given' = Given
    BY <1>1, <1>2, <2>1, SamePlaces
  <2>3. \A v \in Thread \ {t} :
        /\ pc'[v] = pc[v] /\ op'[v] = op[v] /\ reqSt'[v] = reqSt[v] /\ reqSth'[v] = reqSth[v]
        /\ awake' = v <=> awake = v
        /\ awake = v => pc'[Con] \in {"finish", "con_unlock"}
        /\ v \in Given' <=> v \in Given
    BY <1>2, <1>4, <1>6, <2>1, <2>2
  <2>4. \A v \in Thread \cap {t} : PhaseOf(v)' /\ WaitOf(v)' /\ StandingOf(v)'
    BY <1>7, <2>1, <2>2
  <2>5. RequestInv'
    BY <2>2, <2>3, <2>4, StepOf
  <2> QED
    BY <2>1, <2>5
<1> QED
  BY <1>8, <1>9

\* The destructor wakes the consumer, which is parked, and joins it.
LEMMA StopRequests ==
    ASSUME IInv, NEW t \in Thread, Stop(t)
    PROVE  /\ Token' /\ QueueInv' /\ DeviceInv' /\ RequestInv'
           /\ \/ pc[t] = "notify" /\ pc'[t] = "join"
              \/ pc[t] = "join" /\ pc'[t] = "stopped"
           /\ \A u \in Thread \ {t} : pc'[u] = pc[u]
<1>1. /\ UNCHANGED <<core, queueArgs, isExec, conLocals, finished, holder>>
      /\ tail' = tail /\ head' = head /\ next' = next /\ free' = free
      /\ node' = node /\ pred' = pred /\ sth' = sth /\ func' = func
      /\ isExec' = isExec /\ conEx' = conEx /\ awake' = awake /\ finished' = finished
      /\ op' = op /\ reqSt' = reqSt /\ reqSth' = reqSth /\ holder' = holder
  BY DEF Stop, NotifyConsumer, Join, core, queueArgs, conLocals, reqVars
<1>2. PhaseOf(t) /\ WaitOf(t) /\ StandingOf(t) /\ Places
  BY Own
<1>3. ASSUME Pending' = Pending, pc[t] \in {"notify", "join"}, pc'[t] \in {"join", "stopped"},
             \A u \in Thread \ {t} : pc'[u] = pc[u],
             \A u \in Thread : awake # u
      PROVE  RequestInv'
  <2>1. Places' /\ Given' = Given
    BY <1>1, <1>2, <1>3, SamePlaces
  <2>2. PhaseOf(t)' /\ WaitOf(t)' /\ StandingOf(t)'
    BY <1>1, <1>2, <1>3, <2>1 DEF PhaseOf, WaitOf, StandingOf, Fresh
  <2>3. \A v \in Thread \ {t} :
        /\ pc'[v] = pc[v] /\ op'[v] = op[v] /\ reqSt'[v] = reqSt[v] /\ reqSth'[v] = reqSth[v]
        /\ awake' = v <=> awake = v
        /\ awake = v => pc'[Con] \in {"finish", "con_unlock"}
        /\ v \in Given' <=> v \in Given
    BY <1>1, <1>3, <2>1
  <2>4. \A v \in Thread \cap {t} : PhaseOf(v)' /\ WaitOf(v)' /\ StandingOf(v)'
    BY <2>2
  <2> QED
    BY <2>1, <2>3, <2>4, StepOf
<1>4. ASSUME pc[t] \in {"notify", "join"}
      PROVE  /\ op[t] = "stop" /\ finished /\ pc[Con] \in {"parked", "consume", "exited"}
             /\ \A u \in Thread : awake # u
  <2>1. op[t] = "stop"
    BY <1>2, <1>4 DEF PhaseOf
  <2>2. finished
    BY <1>4, <2>1 DEF IInv, Stopping
  <2>3. pc[Con] \in {"parked", "consume", "exited"}
    BY <2>2 DEF IInv, Token
  <2>4. \A u \in Thread : awake # u
    BY <2>3, Own DEF WaitOf
  <2> QED
    BY <2>1, <2>2, <2>3, <2>4
<1>5. CASE NotifyConsumer(t)
  <2>1. pc[t] = "notify" /\ conSth' = FALSE /\ pc' = [pc EXCEPT ![t] = "join", ![Con] = "consume"]
    BY <1>5 DEF NotifyConsumer, GotoAndWake
  <2>2. pc'[t] = "join" /\ pc'[Con] = "consume" /\ \A u \in Thread \ {t} : pc'[u] = pc[u]
    BY <2>1, Nils DEF IInv, TypeOK
  <2>3. pc[Con] = "parked" /\ conEx
    BY <2>1 DEF IInv, Token, DeviceInv, HeadToExecute
  <2>4. finished /\ op[t] = "stop" /\ \A u \in Thread : awake # u
    BY <1>4, <2>1
  <2>5. \A u \in Thread \ {t} : pc[u] = "idle"
    BY <2>4 DEF IInv, Stopping
  <2>6. \A u \in Thread : pc'[u] \in {"idle", "join"}
    BY <2>2, <2>5
  <2>7. Token'
    <3>1. \A u \in Thread : pc'[u] \notin HolderPC /\ pc'[u] # "notify"
      BY <2>6 DEF HolderPC
    <3>2. finished' /\ ~conSth'
      BY <1>1, <2>1, <2>4
    <3> QED
      BY <2>2, <3>1, <3>2 DEF Token
  <2>8. QueueInv'
    <3>1. \A n \in Node : sth[n] # Nil => sth[n] \in Thread /\ sth[n] # t
      BY <2>1, NodeFacts DEF IInv, QueueInv, Suspended
    <3>2. \A n \in Node : sth[n] # Nil => pc'[sth[n]] = pc[sth[n]] /\ op'[sth[n]] = op[sth[n]]
      BY <1>1, <2>2, <3>1
    <3>3. \A u \in Thread : pc'[u] \in QueuePC <=> pc[u] \in QueuePC
      BY <2>1, <2>2 DEF QueuePC
    <3> QED
      BY <1>1, <3>2, <3>3, SameQueue
  <2>9. Contents'
    <3>1. \A u \in Thread : pc'[u] \notin QueuePC /\ pc'[u] \notin HolderPC
      BY <2>6 DEF QueuePC, HolderPC
    <3> QED
      BY <1>1, <3>1, SameContents
  <2>10. HeadToExecute' /\ Idle'
    BY <1>1, <2>2, <2>3, <2>4, <2>6 DEF IInv, DeviceInv, HeadToExecute, Idle
  <2>11. Pending' = Pending
    <3>1. Executing' = Executing
      BY <1>1, <2>2, <2>3 DEF Executing
    <3> QED
      BY <1>1, <3>1, SamePending
  <2>12. RequestInv'
    BY <1>3, <2>1, <2>2, <2>4, <2>11
  <2> QED
    BY <2>1, <2>2, <2>7, <2>8, <2>9, <2>10, <2>12 DEF DeviceInv
<1>6. CASE Join(t)
  <2>1. pc[t] = "join" /\ pc' = [pc EXCEPT ![t] = "stopped"] /\ conSth' = conSth
    BY <1>6 DEF Join, Goto
  <2>2. pc'[t] = "stopped" /\ pc'[Con] = pc[Con] /\ \A u \in Thread \ {t} : pc'[u] = pc[u]
    BY <2>1, Nils DEF IInv, TypeOK
  <2>3. Token' /\ QueueInv' /\ DeviceInv' /\ Pending' = Pending
    <3>1. pc[t] \notin HolderPC \cup QueuePC \cup {"blocked"} /\ pc'[t] \notin HolderPC \cup QueuePC \cup {"notify"}
      BY <2>1, <2>2 DEF HolderPC, QueuePC
    <3> QED
      BY <1>1, <2>1, <2>2, <3>1, QuietThread
  <2>4. RequestInv'
    BY <1>3, <1>4, <2>1, <2>2, <2>3
  <2> QED
    BY <2>1, <2>2, <2>3, <2>4
<1> QED
  BY <1>5, <1>6 DEF Stop

\* wait and test, up to the return.
LEMMA WaitRequests ==
    ASSUME IInv, NEW t \in Thread, SeeFinished(t) \/ WaitStart(t) \/ WaitFunc(t) \/ Return(t)
    PROVE  /\ Token' /\ QueueInv' /\ DeviceInv' /\ RequestInv'
           /\ \/ pc[t] = "idle" /\ reqSt[t] # "none"
              \/ pc[t] = "wait"
              \/ pc[t] = "ret"
<1>1. /\ UNCHANGED <<core, queueArgs, isExec, conSth, conLocals, finished, holder>>
      /\ holder' = holder /\ awake' = awake /\ func' = func
  BY DEF SeeFinished, WaitStart, WaitFunc, Return, conLocals, queueArgs, reqVars
<1>2. PhaseOf(t) /\ WaitOf(t) /\ StandingOf(t) /\ Places
  BY Own
<1>3. /\ pc'[Con] = pc[Con]
      /\ \A u \in Thread \ {t} :
           pc'[u] = pc[u] /\ op'[u] = op[u] /\ reqSt'[u] = reqSt[u] /\ reqSth'[u] = reqSth[u]
  <2>1. CASE SeeFinished(t) \/ WaitStart(t)
    BY <2>1, Nils DEF SeeFinished, WaitStart, Goto, reqVars, IInv, TypeOK
  <2>2. CASE WaitFunc(t)
    BY <2>2, Nils DEF WaitFunc, Goto, IInv, TypeOK
  <2>3. CASE Return(t)
    BY <2>3, Nils DEF Return, Goto, EndIfIdle, IInv, TypeOK
  <2> QED
    BY <2>1, <2>2, <2>3
<1>4. \/ /\ pc[t] = "idle" /\ reqSt[t] = "finished" /\ pc'[t] = "ret"
         /\ reqSt'[t] = reqSt[t] /\ reqSth'[t] = reqSth[t] /\ op'[t] = op[t]
      \/ /\ pc[t] = "idle" /\ reqSt[t] = "created" /\ pc'[t] = "wait"
         /\ reqSt'[t] = reqSt[t] /\ reqSth'[t] /\ op'[t] = op[t]
      \/ /\ pc[t] = "wait" /\ reqSt[t] = "created" /\ pc'[t] = "blocked"
         /\ reqSt'[t] = "waiting" /\ reqSth'[t] = reqSth[t] /\ op'[t] = op[t]
      \/ /\ pc[t] = "wait" /\ reqSt[t] # "created" /\ pc'[t] = "ret"
         /\ reqSt'[t] = reqSt[t] /\ ~reqSth'[t] /\ op'[t] = op[t]
      \/ /\ pc[t] = "ret" /\ pc'[t] = "idle"
         /\ reqSt'[t] = "none" /\ reqSth'[t] = reqSth[t] /\ op'[t] = Nil
  <2>1. CASE SeeFinished(t) \/ WaitStart(t)
    BY <2>1 DEF SeeFinished, WaitStart, Goto, reqVars, IInv, TypeOK
  <2>2. CASE WaitFunc(t)
    BY <2>2 DEF WaitFunc, WaitBlocks, Goto, IInv, TypeOK
  <2>3. CASE Return(t)
    BY <2>3 DEF Return, Goto, EndIfIdle, IInv, TypeOK
  <2> QED
    BY <2>1, <2>2, <2>3
<1>5. Token' /\ QueueInv' /\ DeviceInv' /\ Pending' = Pending
  <2>1. pc[t] \notin HolderPC \cup QueuePC \cup {"blocked"} /\ pc'[t] \notin HolderPC \cup QueuePC \cup {"notify"}
    BY <1>4 DEF HolderPC, QueuePC
  <2> QED
    BY <1>1, <1>3, <2>1, QuietThread
<1>6. Places' /\ Given' = Given
  BY <1>1, <1>2, <1>5, SamePlaces
<1>7. awake # t
  BY <1>2, <1>4 DEF WaitOf
<1>8. PhaseOf(t)'
  BY <1>2, <1>4 DEF PhaseOf
<1>9. WaitOf(t)'
  BY <1>1, <1>2, <1>4, <1>7 DEF WaitOf, PhaseOf
<1>10. StandingOf(t)'
  BY <1>1, <1>2, <1>4, <1>6, <1>7 DEF StandingOf, PhaseOf, Fresh
<1>11. RequestInv'
  BY <1>1, <1>3, <1>6, <1>8, <1>9, <1>10, StepOfOne
<1> QED
  BY <1>4, <1>5, <1>11

----------------------------------------------------------------------------
(* The requests, when the consumer takes a step *)

\* At most the thread that consume() was about to wake is concerned.
LEMMA AwakeRequests ==
    ASSUME IInv, Places', Given' = Given, awake' = Nil,
           op' = op, reqSt' = reqSt, reqSth' = reqSth,
           \A u \in Thread : pc'[u] = IF u = awake THEN "ret" ELSE pc[u]
    PROVE  RequestInv'
<1>1. ASSUME NEW u \in Thread, u = awake
      PROVE  PhaseOf(u)' /\ WaitOf(u)' /\ StandingOf(u)'
  <2>1. PhaseOf(u) /\ WaitOf(u) /\ StandingOf(u)
    BY Own
  <2>2. /\ pc[u] = "blocked" /\ reqSt[u] = "waiting" /\ ~reqSth[u]
        /\ op[u] \in {Nil, "block"} /\ u \notin Given
    BY <1>1, <2>1 DEF WaitOf, StandingOf
  <2>3. pc'[u] = "ret" /\ awake' # u
    BY <1>1, Nils
  <2> QED
    BY <2>2, <2>3 DEF PhaseOf, WaitOf, StandingOf, Fresh
<1>2. \A u \in Thread \ {awake} :
        /\ pc'[u] = pc[u] /\ op'[u] = op[u] /\ reqSt'[u] = reqSt[u] /\ reqSth'[u] = reqSth[u]
        /\ awake' = u <=> awake = u
        /\ awake = u => pc'[Con] \in {"finish", "con_unlock"}
        /\ u \in Given' <=> u \in Given
  BY Nils
<1>3. \A u \in Thread \cap {awake} : PhaseOf(u)' /\ WaitOf(u)' /\ StandingOf(u)'
  BY <1>1
<1> QED
  BY <1>2, <1>3, StepOf

\* Before progress() nobody is about to be woken.
LEMMA NobodyAwake ==
    ASSUME IInv, pc[Con] \notin {"finish", "con_unlock"}
    PROVE  awake = Nil
<1>1. \A u \in Thread : awake # u
  BY Own DEF WaitOf
<1> QED
  BY <1>1 DEF IInv, TypeOK

LEMMA ConsumeIdleRequests ==
    ASSUME IInv, ConsumeIdle
    PROVE  RequestInv'
<1>1. /\ pc[Con] = "consume" /\ awake' = awake /\ func' = func
      /\ op' = op /\ reqSt' = reqSt /\ reqSth' = reqSth /\ holder' = holder
  BY DEF ConsumeIdle, ConsumeNothing, ConHolds, queueArgs, reqVars
<1>2. Pending' = Pending /\ \A u \in Thread : pc'[u] = pc[u]
  BY ConsumeIdleDevice
<1>3. awake = Nil
  BY <1>1, NobodyAwake
<1>4. Places' /\ Given' = Given
  BY <1>1, <1>2, SamePlaces DEF IInv, RequestInv
<1>5. \A u \in Thread : pc'[u] = IF u = awake THEN "ret" ELSE pc[u]
  BY <1>2, <1>3, Nils
<1> QED
  BY <1>1, <1>3, <1>4, <1>5, AwakeRequests

LEMMA ConsumeRetryRequests ==
    ASSUME IInv, ConsumeRetry
    PROVE  RequestInv'
<1>1. /\ pc[Con] = "consume" /\ awake' = awake
      /\ op' = op /\ reqSt' = reqSt /\ reqSth' = reqSth /\ holder' = holder
  BY DEF ConsumeRetry, ConsumeFull, ConHolds, reqVars
<1>2. /\ Pending' = Pending /\ \A n \in Pending : func'[n] = func[n]
      /\ \A u \in Thread : pc'[u] = pc[u]
  BY ConsumeRetryDevice
<1>3. awake = Nil
  BY <1>1, NobodyAwake
<1>4. Places' /\ Given' = Given
  BY <1>1, <1>2, SamePlaces DEF IInv, RequestInv
<1>5. \A u \in Thread : pc'[u] = IF u = awake THEN "ret" ELSE pc[u]
  BY <1>2, <1>3, Nils
<1> QED
  BY <1>1, <1>3, <1>4, <1>5, AwakeRequests

LEMMA ConsumeLockRequests ==
    ASSUME IInv, ConsumeLock
    PROVE  RequestInv'
<1>1. /\ pc[Con] = "consume" /\ awake' = awake
      /\ op' = op /\ reqSt' = reqSt /\ reqSth' = reqSth /\ holder' = holder
  BY DEF ConsumeLock, ConsumeLocker, ConHolds, conLocals, reqVars
<1>2. Pending' = Pending /\ \A n \in Pending : func'[n] = func[n]
  BY LockerStep
<1>3. PICK u \in Thread :
        /\ pc[u] = "blocked" /\ op[u] \in {"probe", "stop"} /\ pc'[u] = "cs"
        /\ \A v \in Thread \ {u} : pc'[v] = pc[v]
  BY LockerStep
<1>4. awake = Nil
  BY <1>1, NobodyAwake
<1>5. Places' /\ Given' = Given
  BY <1>1, <1>2, SamePlaces DEF IInv, RequestInv
<1>6. PhaseOf(u)' /\ WaitOf(u)' /\ StandingOf(u)'
  <2>1. PhaseOf(u) /\ WaitOf(u) /\ StandingOf(u)
    BY Own
  <2>2. reqSt[u] # "waiting" /\ ~reqSth[u] /\ awake' # u
    BY <1>1, <1>3, <1>4, <2>1, Nils DEF WaitOf, Ops
  <2> QED
    BY <1>1, <1>3, <1>5, <2>1, <2>2 DEF PhaseOf, WaitOf, StandingOf, Fresh, Ops
<1>7. \A v \in Thread \ {u} :
        /\ pc'[v] = pc[v] /\ op'[v] = op[v] /\ reqSt'[v] = reqSt[v] /\ reqSth'[v] = reqSth[v]
        /\ awake' = v <=> awake = v
        /\ awake = v => pc'[Con] \in {"finish", "con_unlock"}
        /\ v \in Given' <=> v \in Given
  BY <1>1, <1>3, <1>4, <1>5, Nils
<1>8. \A v \in Thread \cap {u} : PhaseOf(v)' /\ WaitOf(v)' /\ StandingOf(v)'
  BY <1>6
<1> QED
  BY <1>5, <1>7, <1>8, StepOf

LEMMA ConsumeEndRequests ==
    ASSUME IInv, ConsumeEnd
    PROVE  /\ Token' /\ QueueInv' /\ DeviceInv' /\ RequestInv'
           /\ \A u \in Thread : pc'[u] = pc[u] \/ (pc[u] = "blocked" /\ reqSt[u] = "waiting" /\ pc'[u] = "ret")
<1>1. op' = op /\ reqSt' = reqSt /\ reqSth' = reqSth /\ holder' = holder /\ UNCHANGED <<op, reqVars>>
  BY DEF ConsumeEnd, reqVars
<1>2. Places
  BY DEF IInv, RequestInv
<1>3. \A u \in Thread : u = awake => pc[u] = "blocked" /\ reqSt[u] = "waiting"
  BY Own DEF WaitOf
<1>4. CASE Finish(Active)
  <2>1. /\ Token' /\ QueueInv' /\ DeviceInv' /\ Pending' = Pending /\ func' = func
    BY <1>1, <1>4, FinishDevice DEF Finish, queueArgs
  <2>2. Places' /\ Given' = Given
    BY <1>1, <1>2, <2>1, SamePlaces
  <2>3. CASE awake' = Nil /\ \A u \in Thread : pc'[u] = IF u = awake THEN "ret" ELSE pc[u]
    <3>1. RequestInv'
      BY <1>1, <2>2, <2>3, AwakeRequests
    <3> QED
      BY <1>3, <2>1, <2>3, <3>1
  <2>4. CASE awake' = awake /\ pc'[Con] = "con_unlock" /\ \A u \in Thread : pc'[u] = pc[u]
    <3>1. \A u \in Thread \ {} :
            /\ pc'[u] = pc[u] /\ op'[u] = op[u] /\ reqSt'[u] = reqSt[u] /\ reqSth'[u] = reqSth[u]
            /\ awake' = u <=> awake = u
            /\ awake = u => pc'[Con] \in {"finish", "con_unlock"}
            /\ u \in Given' <=> u \in Given
      BY <1>1, <2>2, <2>4
    <3>2. \A u \in Thread \cap {} : PhaseOf(u)' /\ WaitOf(u)' /\ StandingOf(u)'
      OBVIOUS
    <3>3. RequestInv'
      BY <2>2, <3>1, <3>2, StepOf
    <3> QED
      BY <2>1, <2>4, <3>3
  <2> QED
    BY <1>1, <1>4, <2>3, <2>4, FinishDevice
<1>5. CASE ConUnlock
  <2>1. /\ Token' /\ QueueInv' /\ DeviceInv'
        /\ Pending' = Pending /\ \A n \in Pending : func'[n] = func[n]
        /\ awake' = Nil /\ \A u \in Thread : pc'[u] = IF u = awake THEN "ret" ELSE pc[u]
    BY <1>1, <1>5, ConUnlockDevice
  <2>2. Places' /\ Given' = Given
    BY <1>1, <1>2, <2>1, SamePlaces
  <2>3. RequestInv'
    BY <1>1, <2>1, <2>2, AwakeRequests
  <2> QED
    BY <1>3, <2>1, <2>3
<1>6. CASE ConExit
  <2>1. /\ pc[Con] = "consume" /\ finished /\ pc' = [pc EXCEPT ![Con] = "exited"]
        /\ tail' = tail /\ head' = head /\ next' = next /\ free' = free
        /\ node' = node /\ pred' = pred /\ sth' = sth /\ func' = func
        /\ isExec' = isExec /\ conSth' = conSth /\ conEx' = conEx /\ awake' = awake
        /\ finished' = finished
    BY <1>6 DEF ConExit, Goto, core, queueArgs, conLocals
  <2>2. pc'[Con] = "exited" /\ \A u \in Thread : pc'[u] = pc[u]
    BY <2>1, Nils DEF IInv, TypeOK
  <2>3. awake = Nil /\ conEx /\ ~conSth /\ \A u \in Thread : pc[u] \notin HolderPC /\ pc[u] # "notify"
    <3>1. awake = Nil
      BY <2>1, NobodyAwake
    <3>2. conEx /\ ~conSth
      BY <2>1 DEF IInv, Token, DeviceInv, HeadToExecute
    <3>3. \A u \in Thread : pc[u] \notin HolderPC /\ pc[u] # "notify"
      BY <2>1 DEF IInv, Token
    <3> QED
      BY <3>1, <3>2, <3>3
  <2>4. Token'
    <3>1. finished' /\ ~conSth' /\ \A u \in Thread : pc'[u] \notin HolderPC /\ pc'[u] # "notify"
      BY <2>1, <2>2, <2>3
    <3> QED
      BY <2>2, <3>1 DEF Token
  <2>5. QueueInv'
    <3>1. \A n \in Node : sth[n] # Nil => pc'[sth[n]] = pc[sth[n]] /\ op'[sth[n]] = op[sth[n]]
      BY <1>1, <2>2, NodeFacts
    <3> QED
      BY <2>1, <2>2, <3>1, SameQueue
  <2>6. Contents'
    BY <1>1, <2>1, <2>2, <2>3, SameContents
  <2>7. HeadToExecute' /\ Idle'
    <3>1. \A u \in Thread : pc'[u] \notin {"follow", "follow_wait", "cs"}
      BY <2>2, <2>3 DEF HolderPC
    <3> QED
      BY <1>1, <2>1, <2>2, <2>3, <3>1 DEF IInv, DeviceInv, HeadToExecute, Idle
  <2>8. Pending' = Pending
    <3>1. Executing' = Executing
      BY <2>1, <2>2 DEF Executing
    <3> QED
      BY <2>1, <3>1, SamePending
  <2>9. Places' /\ Given' = Given
    BY <1>1, <1>2, <2>1, <2>8, SamePlaces
  <2>10. \A u \in Thread : pc'[u] = IF u = awake THEN "ret" ELSE pc[u]
    BY <2>2, <2>3, Nils
  <2>11. RequestInv'
    BY <1>1, <2>1, <2>3, <2>9, <2>10, AwakeRequests
  <2> QED
    BY <2>2, <2>4, <2>5, <2>6, <2>7, <2>11 DEF DeviceInv
<1> QED
  BY <1>4, <1>5, <1>6 DEF ConsumeEnd

\* A function with a request leaves the queue: its request is not delegated any more.
LEMMA TakenRequest ==
    ASSUME IInv, NEW n \in Pending, NEW b \in Thread, Carries(n, b),
           Pending' = Pending \ {n}, \A m \in Pending : func'[m] = func[m]
    PROVE  /\ Delegated' = Delegated \ {b} /\ b \in Delegated
           /\ b \notin Range(holder) /\ b \in Given
           /\ \A m, k \in Pending', u \in Thread : Carries(m, u)' /\ Carries(k, u)' => m = k
<1>1. Places
  BY DEF IInv, RequestInv
<1>2. \A m \in Pending, u \in Thread : Carries(m, u)' <=> Carries(m, u)
  BY DEF Carries
<1>3. b \in Delegated
  BY DEF Delegated
<1>4. b \notin Range(holder) /\ b \in Given
  BY <1>1, <1>3 DEF Places, Given
<1>5. \A m, k \in Pending', u \in Thread : Carries(m, u)' /\ Carries(k, u)' => m = k
  BY <1>1, <1>2 DEF Places
<1>6. \A u \in Thread : Carries(n, u) <=> u = b
  BY DEF Carries
<1>7. ASSUME NEW u \in Thread
      PROVE  u \in Delegated' <=> (u \in Delegated /\ u # b)
  <2>1. CASE u = b
    <3>1. \A m \in Pending : Carries(m, b) => m = n
      BY <1>1 DEF Places
    <3>2. ~ \E m \in Pending' : Carries(m, b)'
      BY <1>2, <3>1
    <3> QED
      BY <2>1, <3>2 DEF Delegated
  <2>2. CASE u # b
    <3>1. (\E m \in Pending' : Carries(m, u)') <=> (\E m \in Pending : Carries(m, u))
      BY <1>2, <1>6, <2>2
    <3> QED
      BY <2>2, <3>1 DEF Delegated
  <2> QED
    BY <2>1, <2>2
<1>8. Delegated' = Delegated \ {b}
  BY <1>7 DEF Delegated
<1> QED
  BY <1>3, <1>4, <1>5, <1>8

\* The consumer starts the request of a delegated call, or finds it finished.
LEMMA ConsumeCallRequests ==
    ASSUME IInv, ConsumeCall
    PROVE  RequestInv'
<1>1. PICK null \in Nulls("consumer") : Call(func[CurHead].op, func[CurHead].by, null, FALSE)
  BY DEF ConsumeCall
<1>2. pc[Con] = "consume" /\ ~finished /\ awake' = awake /\ op' = op /\ reqSth' = reqSth
  BY DEF ConsumeCall, ConsumeFunc, ConHolds, conLocals
<1>3. /\ pc' = pc /\ CurHead \in Pending /\ func[CurHead] \in Func
      /\ \A n \in Pending : func'[n] = func[n]
      /\ Pending' = Pending \ {CurHead}
  BY ConsumeCallDevice
<1>4. PICK n \in Pending : n = CurHead
  BY <1>3
<1>5. PICK b \in Thread, k \in FuncOps : b = func[n].by /\ k = func[n].op
  BY <1>3, <1>4 DEF Func, FuncOps
<1>6. awake = Nil /\ Places
  BY <1>2, NobodyAwake DEF IInv, RequestInv
<1>7. \A u \in Thread : pc'[u] = IF u = awake THEN "ret" ELSE pc[u]
  BY <1>3, <1>6, Nils
<1>8. CASE k = "noreq"
  <2>1. reqSt' = reqSt /\ holder' = holder
    BY <1>1, <1>4, <1>5, <1>8 DEF Call, HasRequest
  <2>2. \A u \in Thread : ~Carries(n, u)
    BY <1>5, <1>8 DEF Carries, HasRequest
  <2>3. \A m \in Pending, u \in Thread : Carries(m, u)' <=> Carries(m, u)
    BY <1>3 DEF Carries
  <2>4. Delegated' = Delegated
    BY <1>3, <1>4, <2>2, <2>3 DEF Delegated
  <2>5. Given' = Given /\ Range(holder)' = Range(holder)
    BY <2>1, <2>4 DEF Given, Range
  <2>6. \A m, j \in Pending', u \in Thread : Carries(m, u)' /\ Carries(j, u)' => m = j
    BY <1>3, <1>6, <2>3 DEF Places
  <2>7. Places'
    BY <1>6, <2>1, <2>4, <2>5, <2>6 DEF Places
  <2> QED
    BY <1>2, <1>6, <1>7, <2>1, <2>5, <2>7, AwakeRequests
<1>9. ASSUME k # "noreq"
      PROVE  /\ Delegated' = Delegated \ {b} /\ b \in Delegated
             /\ b \notin Range(holder) /\ b \in Given
             /\ \A m, j \in Pending', u \in Thread : Carries(m, u)' /\ Carries(j, u)' => m = j
             /\ HasRequest(k)
  <2>1. HasRequest(k) /\ Carries(n, b)
    BY <1>5, <1>9 DEF FuncOps, HasRequest, Carries
  <2> QED
    BY <1>3, <1>4, <2>1, TakenRequest
<1>10. CASE k # "noreq" /\ null
  <2>1. reqSt' = [reqSt EXCEPT ![b] = "finished"] /\ holder' = holder
    BY <1>1, <1>4, <1>5, <1>9, <1>10 DEF Call
  <2>2. reqSt'[b] = "finished" /\ \A u \in Thread \ {b} : reqSt'[u] = reqSt[u]
    BY <2>1 DEF IInv, TypeOK
  <2>3. Range(holder)' = Range(holder)
    BY <2>1 DEF Range
  <2>4. Given' = Given \ {b}
    BY <1>9, <1>10, <2>3 DEF Given
  <2>5. Places'
    BY <1>6, <1>9, <1>10, <2>1, <2>3 DEF Places
  <2>6. PhaseOf(b)' /\ WaitOf(b)' /\ StandingOf(b)'
    <3>1. PhaseOf(b) /\ WaitOf(b) /\ StandingOf(b)
      BY Own
    <3>2. pc[b] \notin HolderPC
      BY <1>2, ConsumerFacts DEF ConHolding
    <3>3. pc'[b] = pc[b] /\ op'[b] = op[b] /\ reqSth'[b] = reqSth[b] /\ awake' # b /\ b \notin Given'
      BY <1>2, <1>3, <1>6, <2>4, Nils
    <3>4. ~Fresh(b)'
      BY <1>9, <1>10, <3>1, <3>3 DEF StandingOf, Fresh
    <3>5. PhaseOf(b)'
      BY <2>2, <3>1, <3>2, <3>3 DEF PhaseOf, HolderPC
    <3>6. WaitOf(b)'
      BY <2>2, <3>1, <3>3 DEF WaitOf
    <3>7. StandingOf(b)'
      BY <2>2, <3>3, <3>4 DEF StandingOf
    <3> QED
      BY <3>5, <3>6, <3>7
  <2>7. \A u \in Thread \ {b} :
        /\ pc'[u] = pc[u] /\ op'[u] = op[u] /\ reqSt'[u] = reqSt[u] /\ reqSth'[u] = reqSth[u]
        /\ awake' = u <=> awake = u
        /\ awake = u => pc'[Con] \in {"finish", "con_unlock"}
        /\ u \in Given' <=> u \in Given
    BY <1>2, <1>3, <1>6, <2>2, <2>4, Nils
  <2>8. \A u \in Thread \cap {b} : PhaseOf(u)' /\ WaitOf(u)' /\ StandingOf(u)'
    BY <2>6
  <2> QED
    BY <2>5, <2>7, <2>8, StepOf
<1>11. CASE k # "noreq" /\ ~null
  <2>1. reqSt' = reqSt /\ holder' = Append(holder, b)
    BY <1>1, <1>4, <1>5, <1>9, <1>11 DEF Call
  <2>2. /\ DOMAIN holder = 1..Len(holder) /\ Len(holder) \in Nat
        /\ DOMAIN holder' = 1..(Len(holder) + 1)
        /\ holder'[Len(holder) + 1] = b
        /\ \A i \in DOMAIN holder : holder'[i] = holder[i]
    BY <2>1 DEF IInv, TypeOK
  <2>3. Range(holder)' = Range(holder) \cup {b}
    <3>1. \A u \in Range(holder)' : u \in Range(holder) \/ u = b
      BY <2>2 DEF Range
    <3>2. \A u \in Range(holder) \cup {b} : u \in Range(holder)'
      BY <2>2 DEF Range
    <3> QED
      BY <3>1, <3>2
  <2>4. Given' = Given
    BY <1>9, <1>11, <2>3 DEF Given
  <2>5. \A i, j \in DOMAIN holder' : holder'[i] = holder'[j] => i = j
    <3>1. \A i \in DOMAIN holder : holder[i] # b
      BY <1>9, <1>11 DEF Range
    <3>2. \A i \in DOMAIN holder' : i \in DOMAIN holder \/ i = Len(holder) + 1
      BY <2>2
    <3> QED
      BY <1>6, <2>2, <3>1, <3>2 DEF Places
  <2>6. Places'
    <3>1. Range(holder)' \cap Delegated' = {}
      BY <1>6, <1>9, <1>11, <2>3 DEF Places
    <3> QED
      BY <1>9, <1>11, <2>5, <3>1 DEF Places
  <2> QED
    BY <1>2, <1>6, <1>7, <2>1, <2>4, <2>6, AwakeRequests
<1> QED
  BY <1>8, <1>10, <1>11

\* MPI is polled: what is complete leaves the holder.
LEMMA ProgressRequests ==
    ASSUME IInv, Progress
    PROVE  RequestInv'
<1>1. pc[Con] = "progress" /\ Compact
  BY DEF Progress
<1>2. /\ Pending' = Pending /\ pc'[Con] = "finish" /\ func' = func /\ op' = op
      /\ awake' = Nil \/ awake' \in Woken
  BY ProgressDevice
<1>3. \A u \in Thread :
        /\ reqSt'[u] = IF u \in Completed \ Woken THEN "finished" ELSE reqSt[u]
        /\ reqSth'[u] = IF u \in Woken THEN FALSE ELSE reqSth[u]
        /\ pc'[u] = IF u \in Woken /\ u # awake' THEN "ret" ELSE pc[u]
  BY ProgressDevice
<1>4. awake = Nil /\ Places /\ ConHolding /\ ~finished
  <2>1. awake = Nil
    BY <1>1, NobodyAwake
  <2> QED
    BY <1>1, <2>1 DEF IInv, RequestInv, ConHolding, Token
<1>5. /\ Range(holder)' = Range(holder) \ Completed
      /\ \A i, j \in DOMAIN holder' : holder'[i] = holder'[j] => i = j
  BY <1>1, <1>4, Compacted DEF IInv, Places
<1>6. \A n \in Pending, u \in Thread : Carries(n, u)' <=> Carries(n, u)
  BY <1>2 DEF Carries
<1>7. Delegated' = Delegated
  BY <1>2, <1>6 DEF Delegated
<1>8. Completed \subseteq Range(holder) /\ Woken \subseteq Completed
  BY DEF Completed, Woken
<1>9. Given' = Given \ Completed
  BY <1>4, <1>5, <1>7, <1>8 DEF Given, Places
<1>10. Places'
  <2>1. \A n, m \in Pending', u \in Thread : Carries(n, u)' /\ Carries(m, u)' => n = m
    BY <1>2, <1>4, <1>6 DEF Places
  <2>2. Range(holder)' \cap Delegated' = {}
    BY <1>4, <1>5, <1>7 DEF Places
  <2> QED
    BY <1>5, <2>1, <2>2 DEF Places
<1>11. ASSUME NEW u \in Thread, u \in Completed
       PROVE  PhaseOf(u)' /\ WaitOf(u)' /\ StandingOf(u)'
  <2>1. PhaseOf(u) /\ WaitOf(u) /\ StandingOf(u)
    BY Own
  <2>2. u \in Given /\ u \notin Given' /\ op'[u] = op[u] /\ pc[u] \notin HolderPC
    BY <1>2, <1>4, <1>8, <1>9, <1>11, ConsumerFacts DEF Given
  <2>3. ~Fresh(u)
    BY <2>1, <2>2 DEF StandingOf
  <2>4. CASE u \notin Woken
    <3>1. /\ reqSt'[u] = "finished" /\ reqSth'[u] = reqSth[u] /\ pc'[u] = pc[u] /\ awake' # u
      BY <1>2, <1>3, <1>11, <2>4, Nils
    <3>2. PhaseOf(u)'
      BY <2>1, <2>2, <3>1 DEF PhaseOf, HolderPC
    <3>3. WaitOf(u)'
      BY <2>1, <2>2, <3>1 DEF WaitOf
    <3>4. StandingOf(u)'
      BY <2>2, <2>3, <3>1 DEF StandingOf, Fresh
    <3> QED
      BY <3>2, <3>3, <3>4
  <2>5. CASE u \in Woken
    <3>1. pc[u] = "blocked" /\ reqSt[u] = "waiting"
      BY <1>4, <2>5, WokenAreBlocked
    <3>2. reqSt'[u] = "waiting" /\ ~reqSth'[u] /\ pc'[u] = (IF awake' = u THEN "blocked" ELSE "ret")
      BY <1>3, <2>5, <3>1
    <3>3. op[u] \in {Nil, "block"}
      BY <2>1, <3>1 DEF WaitOf
    <3> QED
      BY <1>2, <2>2, <3>2, <3>3 DEF PhaseOf, WaitOf, StandingOf, Fresh
  <2> QED
    BY <2>4, <2>5
<1>12. \A u \in Thread \ Completed :
        /\ pc'[u] = pc[u] /\ op'[u] = op[u] /\ reqSt'[u] = reqSt[u] /\ reqSth'[u] = reqSth[u]
        /\ awake' = u <=> awake = u
        /\ awake = u => pc'[Con] \in {"finish", "con_unlock"}
        /\ u \in Given' <=> u \in Given
  BY <1>2, <1>3, <1>4, <1>8, <1>9, Nils
<1>13. \A u \in Thread \cap Completed : PhaseOf(u)' /\ WaitOf(u)' /\ StandingOf(u)'
  BY <1>11
<1> QED
  BY <1>10, <1>12, <1>13, StepOf

----------------------------------------------------------------------------
(* Types *)

PcType ==
    /\ DOMAIN pc = Thread \cup {Con}
    /\ \A t \in Thread : pc[t] \in ThreadPC
    /\ pc[Con] \in ConPC

QueueType ==
    /\ CoreTypeOK
    /\ node \in [Thread -> Node \cup {Nil}]
    /\ pred \in [Thread -> Node \cup {Nil}]
    /\ sth \in [Node -> Thread \cup {Nil}]
    /\ func \in [Node -> Func \cup {Nil}]

FlagType ==
    /\ isExec \in BOOLEAN /\ conSth \in BOOLEAN /\ conEx \in BOOLEAN /\ finished \in BOOLEAN
    /\ awake \in Thread \cup {Nil}

RequestType ==
    /\ op \in [Thread -> Ops \cup {Nil}]
    /\ reqSt \in [Thread -> {"none", "created", "waiting", "finished"}]
    /\ reqSth \in [Thread -> BOOLEAN]
    /\ holder \in Seq(Thread)
    /\ mpi \in [Thread -> {"none", "ongoing", "done"}]

LEMMA TypeParts ==
    /\ TypeOK <=> PcType /\ QueueType /\ FlagType /\ RequestType
    /\ TypeOK' <=> PcType' /\ QueueType' /\ FlagType' /\ RequestType'
BY DEF TypeOK, PcType, QueueType, FlagType, RequestType

LEMMA GotoType ==
    ASSUME PcType, NEW t \in Thread, NEW l \in ThreadPC, Goto(t, l)
    PROVE  PcType'
BY Nils DEF PcType, Goto

LEMMA GotoConType ==
    ASSUME PcType, NEW l \in ConPC, Goto(Con, l)
    PROVE  PcType'
BY Nils DEF PcType, Goto

LEMMA GotoAndWakeType ==
    ASSUME PcType, NEW t, NEW u, NEW l, NEW m, GotoAndWake(t, l, u, m),
           \/ t \in Thread /\ l \in ThreadPC
           \/ t = Con /\ l \in ConPC,
           \/ u \in Thread /\ m \in ThreadPC
           \/ u = Con /\ m \in ConPC
    PROVE  PcType'
<1>1. pc' = [pc EXCEPT ![t] = l, ![u] = m]
  BY DEF GotoAndWake
<1>2. DOMAIN pc' = Thread \cup {Con}
  BY <1>1 DEF PcType
<1>3. \A a \in Thread \cup {Con} : pc'[a] = IF a = u THEN m ELSE IF a = t THEN l ELSE pc[a]
  BY <1>1 DEF PcType
<1>4. \A a \in Thread : pc'[a] \in ThreadPC
  BY <1>3, Nils DEF PcType
<1>5. pc'[Con] \in ConPC
  BY <1>3, Nils DEF PcType
<1> QED
  BY <1>2, <1>4, <1>5 DEF PcType

\* The head is given back, and replaced by s.
LEMMA GivenBackType ==
    ASSUME QueueType, head \in Node, DeallocateHead, tail' \in Node \cup {Nil}, head' \in Node \cup {Nil},
           node' = node, pred' = pred, sth' \in [Node -> Thread \cup {Nil}]
    PROVE  QueueType'
<1>1. free' \in SUBSET Node /\ next' \in [Node -> Node \cup {Nil}] /\ func' \in [Node -> Func \cup {Nil}]
  BY DEF QueueType, CoreTypeOK, DeallocateHead
<1> QED
  BY <1>1 DEF QueueType, CoreTypeOK

LEMMA SameQueueType ==
    ASSUME QueueType, UNCHANGED <<core, queueArgs>>
    PROVE  QueueType'
BY DEF QueueType, CoreTypeOK, core, queueArgs

LEMMA CallType ==
    ASSUME RequestType, NEW k, NEW t \in Thread, NEW null \in BOOLEAN, NEW waits \in BOOLEAN,
           Call(k, t, null, waits), op' = op, reqSth' = reqSth
    PROVE  RequestType'
<1>1. CASE HasRequest(k)
  <2>1. holder' \in Seq(Thread)
    <3>1. holder' = holder \/ holder' = Append(holder, t)
      BY <1>1 DEF Call
    <3> QED
      BY <3>1 DEF RequestType
  <2>2. reqSt' \in [Thread -> {"none", "created", "waiting", "finished"}]
    BY <1>1 DEF Call, RequestType
  <2>3. mpi' \in [Thread -> {"none", "ongoing", "done"}]
    BY <1>1 DEF Call, RequestType
  <2> QED
    BY <2>1, <2>2, <2>3 DEF RequestType
<1>2. CASE ~HasRequest(k)
  BY <1>2 DEF Call, RequestType
<1> QED
  BY <1>1, <1>2

LEMMA ThreadTypes ==
    ASSUME IInv, NEW t \in Thread,
           \/ \E k \in Ops : Start(t, k)
           \/ SeeFinished(t) \/ WaitStart(t) \/ WaitFunc(t) \/ Return(t) \/ CallLocked(t) \/ Stop(t)
           \/ ExecuteImm(t)
    PROVE  TypeOK'
<1>1. PcType /\ QueueType /\ FlagType /\ RequestType
  BY TypeParts DEF IInv
<1>2. QueueType'
  <2>1. UNCHANGED <<core, queueArgs>>
    BY DEF Start, SeeFinished, WaitStart, WaitFunc, Return, CallLocked, SetFinished, Stop,
           NotifyConsumer, Join, ExecuteImm
  <2> QED
    BY <1>1, <2>1, SameQueueType
<1>3. CASE \E k \in Ops : Start(t, k)
  <2>1. PICK k \in Ops : Start(t, k)
    BY <1>3
  <2>2. Goto(t, "lock") /\ "lock" \in ThreadPC
    BY <2>1 DEF Start, ThreadPC
  <2>3. PcType'
    BY <1>1, <2>2, GotoType
  <2>4. FlagType' /\ RequestType'
    BY <1>1, <2>1 DEF Start, FlagType, RequestType, conLocals
  <2> QED
    BY <1>2, <2>3, <2>4, TypeParts
<1>4. CASE SeeFinished(t) \/ WaitStart(t) \/ WaitFunc(t) \/ Return(t)
  <2>1. \E l \in {"ret", "wait", "blocked", "idle"} : Goto(t, l)
    BY <1>4 DEF SeeFinished, WaitStart, WaitFunc, Return
  <2>2. PcType'
    BY <1>1, <2>1, GotoType DEF ThreadPC
  <2>3. FlagType'
    BY <1>1, <1>4 DEF SeeFinished, WaitStart, WaitFunc, Return, FlagType, conLocals
  <2>4. RequestType'
    BY <1>1, <1>4 DEF SeeFinished, WaitStart, WaitFunc, Return, EndIfIdle, RequestType, reqVars
  <2> QED
    BY <1>2, <2>2, <2>3, <2>4, TypeParts
<1>5. CASE CallLocked(t)
  <2>1. Goto(t, "unlock") /\ "unlock" \in ThreadPC
    BY <1>5 DEF CallLocked, SetFinished, ThreadPC
  <2>2. PcType'
    BY <1>1, <2>1, GotoType
  <2>3. FlagType' /\ RequestType'
    BY <1>1, <1>5 DEF CallLocked, SetFinished, FlagType, RequestType, conLocals, reqVars
  <2> QED
    BY <1>2, <2>2, <2>3, TypeParts
<1>6. CASE Stop(t)
  <2>1. ASSUME NotifyConsumer(t)
        PROVE  PcType'
    <3>1. GotoAndWake(t, "join", Con, "consume") /\ "join" \in ThreadPC /\ "consume" \in ConPC
      BY <2>1 DEF NotifyConsumer, ThreadPC, ConPC
    <3> QED
      BY <1>1, <3>1, GotoAndWakeType
  <2>2. ASSUME Join(t)
        PROVE  PcType'
    <3>1. Goto(t, "stopped") /\ "stopped" \in ThreadPC
      BY <2>2 DEF Join, ThreadPC
    <3> QED
      BY <1>1, <3>1, GotoType
  <2>3. PcType'
    BY <1>6, <2>1, <2>2 DEF Stop
  <2>4. FlagType' /\ RequestType'
    BY <1>1, <1>6 DEF Stop, NotifyConsumer, Join, FlagType, RequestType, conLocals, reqVars
  <2> QED
    BY <1>2, <2>3, <2>4, TypeParts
<1>7. CASE ExecuteImm(t)
  <2>1. PICK null \in Nulls("self") :
        /\ Call(op[t], t, null, op[t] = "block")
        /\ Goto(t, IF op[t] = "block" /\ ~null THEN "unlock_wait" ELSE "unlock")
    BY <1>7 DEF ExecuteImm
  <2>2. PcType'
    <3>1. \E l \in {"unlock_wait", "unlock"} : Goto(t, l)
      BY <2>1
    <3> QED
      BY <1>1, <3>1, GotoType DEF ThreadPC
  <2>3. FlagType'
    BY <1>1, <1>7 DEF ExecuteImm, FlagType, conLocals
  <2>4. RequestType'
    <3>1. op' = op /\ reqSth' = reqSth
      BY <1>7 DEF ExecuteImm
    <3>2. null \in BOOLEAN /\ (op[t] = "block") \in BOOLEAN
      BY DEF Nulls
    <3> QED
      BY <1>1, <2>1, <3>1, <3>2, CallType
  <2> QED
    BY <1>2, <2>2, <2>3, <2>4, TypeParts
<1> QED
  BY <1>3, <1>4, <1>5, <1>6, <1>7

LEMMA QueueingTypes ==
    ASSUME IInv, NEW t \in Thread, Enter(t) \/ Delegate(t) \/ Publish(t)
    PROVE  TypeOK'
<1>1. PcType /\ QueueType /\ FlagType /\ RequestType
  BY TypeParts DEF IInv
<1>2. FlagType'
  BY <1>1 DEF Enter, StartLock, Delegate, Publish, Link, FlagType, conLocals
<1>3. CASE Enter(t)
  <2>1. \E l \in {"cs", "save"} : Goto(t, l)
    BY <1>3 DEF Enter, StartLock
  <2>2. PcType'
    BY <1>1, <2>1, GotoType DEF ThreadPC
  <2>3. QueueType'
    BY <1>1, <1>3 DEF Enter, StartLock, Enqueue, QueueType, CoreTypeOK
  <2>4. RequestType'
    BY <1>1, <1>3 DEF Enter, RequestType, reqVars
  <2> QED
    BY <1>2, <2>2, <2>3, <2>4, TypeParts
<1>4. CASE Delegate(t)
  <2>1. Goto(t, "link") /\ "link" \in ThreadPC /\ pc[t] = "save"
    BY <1>4 DEF Delegate, ThreadPC
  <2>2. PcType'
    BY <1>1, <2>1, GotoType
  <2>3. op[t] \in Ops /\ (op[t] \notin {"probe", "stop"} => [op |-> op[t], by |-> t] \in Func)
    BY <2>1, Own DEF PhaseOf, Ops, Func
  <2>4. tail' = tail /\ head' = head /\ next' = next /\ free' = free /\ node' = node /\ pred' = pred
    BY <1>4 DEF Delegate, core
  <2>5. func' \in [Node -> Func \cup {Nil}] /\ sth' \in [Node -> Thread \cup {Nil}]
    <3>1. CASE op[t] \in {"probe", "stop"}
      BY <1>1, <1>4, <3>1 DEF Delegate, SaveInNode, QueueType
    <3>2. CASE op[t] \notin {"probe", "stop"}
      <4>1. func' = [func EXCEPT ![node[t]] = [op |-> op[t], by |-> t]] /\ sth' = sth
        BY <1>4, <3>2 DEF Delegate, SaveFunc
      <4>2. PICK f \in Func : f = [op |-> op[t], by |-> t]
        BY <2>3, <3>2
      <4>3. func' = [func EXCEPT ![node[t]] = f]
        BY <4>1, <4>2
      <4> QED
        BY <1>1, <4>1, <4>3 DEF QueueType
    <3> QED
      BY <3>1, <3>2
  <2>6. QueueType'
    BY <1>1, <2>4, <2>5 DEF QueueType, CoreTypeOK
  <2>7. RequestType'
    BY <1>1, <1>4 DEF Delegate, RequestType
  <2> QED
    BY <1>2, <2>2, <2>6, <2>7, TypeParts
<1>5. CASE Publish(t)
  <2>1. \E l \in {"idle", "blocked"} : Goto(t, l)
    BY <1>5 DEF Publish, Link
  <2>2. PcType'
    BY <1>1, <2>1, GotoType DEF ThreadPC
  <2>3. QueueType'
    BY <1>1, <1>5 DEF Publish, Link, SetNext, QueueType, CoreTypeOK
  <2>4. RequestType'
    BY <1>1, <1>5 DEF Publish, EndIfIdle, RequestType, reqVars
  <2> QED
    BY <1>2, <2>2, <2>3, <2>4, TypeParts
<1> QED
  BY <1>3, <1>4, <1>5

LEMMA LeavingTypes ==
    ASSUME IInv, NEW t \in Thread, Leave(t) \/ LeaveToNext(t)
    PROVE  TypeOK'
<1>1. PcType /\ QueueType /\ FlagType /\ RequestType
  BY TypeParts DEF IInv
<1>2. pc[t] \in HolderPC
  BY DEF Leave, Unlock, UnlockAndWait, LeaveToNext, HolderPC
<1>3. head \in Node /\ conSth
  BY <1>2, HolderFacts
<1>4. RequestType'
  BY <1>1 DEF Leave, LeaveToNext, EndIfIdle, RequestType, reqVars
<1>5. PICK l \in {"idle", "ret", "notify", "blocked"} :
        Leave(t) \/ (LeaveToNext(t) /\ Follow(t, l))
  <2>1. PICK m \in {"idle", "ret", "notify"} : m = AfterUnlock(t)
    BY DEF AfterUnlock
  <2>2. CASE LeaveToNext(t) /\ pc[t] = "follow"
    BY <2>1, <2>2 DEF LeaveToNext
  <2>3. CASE LeaveToNext(t) /\ pc[t] = "follow_wait"
    BY <2>3 DEF LeaveToNext
  <2> QED
    BY <2>1, <2>2, <2>3 DEF LeaveToNext
<1>6. l \in ThreadPC /\ "follow" \in ThreadPC /\ "follow_wait" \in ThreadPC /\ "cs" \in ThreadPC /\ "consume" \in ConPC
  BY DEF ThreadPC, ConPC
<1>7. CASE Leave(t)
  <2>1. PcType'
    <3>1. Goto(t, AfterUnlock(t)) \/ Goto(t, "follow") \/ Goto(t, "follow_wait")
      BY <1>7 DEF Leave, Unlock, UnlockAndWait
    <3>2. AfterUnlock(t) \in ThreadPC
      BY DEF AfterUnlock, ThreadPC
    <3> QED
      BY <1>1, <1>6, <3>1, <3>2, GotoType
  <2>2. FlagType'
    BY <1>1, <1>7 DEF Leave, Unlock, UnlockAndWait, FlagType, conLocals
  <2>3. QueueType'
    <3>1. CASE EmptyQueue /\ DeallocateHead /\ UNCHANGED <<node, pred, sth>>
      <4>1. tail' \in Node \cup {Nil} /\ head' \in Node \cup {Nil} /\ sth' \in [Node -> Thread \cup {Nil}]
        BY <1>1, <3>1 DEF EmptyQueue, QueueType
      <4> QED
        BY <1>1, <1>3, <3>1, <4>1, GivenBackType
    <3>2. CASE UNCHANGED <<core, queueArgs>>
      BY <1>1, <3>2, SameQueueType
    <3> QED
      BY <1>7, <3>1, <3>2 DEF Leave, Unlock, UnlockAndWait, queueArgs
  <2> QED
    BY <1>4, <2>1, <2>2, <2>3, TypeParts
<1>8. CASE LeaveToNext(t) /\ Follow(t, l)
  <2>1. CASE Successor # Nil /\ sth[Successor] # Nil
    <3>1. FollowTo(t, l)
      BY <1>8, <2>1 DEF Follow
    <3>2. Successor \in Node
      BY <1>1, <1>3, <2>1 DEF Successor, QueueType, CoreTypeOK
    <3>3. sth[Successor] \in Thread
      BY <1>1, <2>1, <3>2 DEF QueueType
    <3>4. GotoAndWake(t, l, sth[Successor], "cs")
      BY <2>1, <3>1 DEF FollowTo
    <3>5. PcType'
      BY <1>1, <1>6, <3>3, <3>4, GotoAndWakeType
    <3>6. QueueType'
      <4>1. /\ tail' = tail /\ head' = Successor /\ DeallocateHead /\ node' = node /\ pred' = pred
            /\ sth' = [sth EXCEPT ![Successor] = Nil]
        BY <1>8, <2>1, <3>1 DEF FollowTo, FollowHead, Follow
      <4>2. sth' \in [Node -> Thread \cup {Nil}] /\ tail' \in Node \cup {Nil} /\ head' \in Node \cup {Nil}
        BY <1>1, <3>2, <4>1 DEF QueueType, CoreTypeOK
      <4> QED
        BY <1>1, <1>3, <4>1, <4>2, GivenBackType
    <3>7. FlagType'
      BY <1>1, <1>8, <2>1, <3>1 DEF Follow, FollowTo, HeadIsNew, FlagType, conLocals
    <3> QED
      BY <1>4, <3>5, <3>6, <3>7, TypeParts
  <2>2. CASE Successor # Nil /\ sth[Successor] = Nil
    <3>1. FollowTo(t, l)
      BY <1>8, <2>2 DEF Follow
    <3>2. Successor \in Node
      BY <1>1, <1>3, <2>2 DEF Successor, QueueType, CoreTypeOK
    <3>3. GotoAndWake(t, l, Con, "consume")
      BY <2>2, <3>1 DEF FollowTo
    <3>4. PcType'
      BY <1>1, <1>6, <3>3, GotoAndWakeType
    <3>5. QueueType'
      <4>1. /\ tail' = tail /\ head' = Successor /\ DeallocateHead /\ node' = node /\ pred' = pred
            /\ sth' = sth
        BY <1>8, <2>2, <3>1 DEF FollowTo, FollowHead, Follow
      <4>2. sth' \in [Node -> Thread \cup {Nil}] /\ tail' \in Node \cup {Nil} /\ head' \in Node \cup {Nil}
        BY <1>1, <3>2, <4>1 DEF QueueType, CoreTypeOK
      <4> QED
        BY <1>1, <1>3, <4>1, <4>2, GivenBackType
    <3>6. FlagType'
      BY <1>1, <1>8, <2>2, <3>1 DEF Follow, FollowTo, HeadIsNew, FlagType, conLocals
    <3> QED
      BY <1>4, <3>4, <3>5, <3>6, TypeParts
  <2>3. CASE Successor = Nil
    <3>1. HandToConsumer(t, l)
      BY <1>8, <2>3 DEF Follow
    <3>2. PcType'
      BY <1>1, <1>6, <3>1, GotoAndWakeType DEF HandToConsumer
    <3>3. QueueType'
      BY <1>1, <1>8, <3>1, SameQueueType DEF HandToConsumer, Follow, queueArgs
    <3>4. FlagType'
      BY <1>1, <1>8, <3>1 DEF Follow, HandToConsumer, FlagType, conLocals
    <3> QED
      BY <1>4, <3>2, <3>3, <3>4, TypeParts
  <2> QED
    BY <2>1, <2>2, <2>3
<1> QED
  BY <1>5, <1>7, <1>8

LEMMA TakenType ==
    ASSUME QueueType, head \in Node, TakeHead, node' = node, pred' = pred,
           sth' \in [Node -> Thread \cup {Nil}]
    PROVE  QueueType' /\ CurHead \in Node
<1>1. CASE MovesOn
  <2>1. Successor \in Node /\ CurHead = Successor
    BY <1>1 DEF MovesOn, CurHead, Successor, QueueType, CoreTypeOK
  <2>2. tail' = tail /\ head' = Successor /\ DeallocateHead
    BY <1>1 DEF TakeHead, FollowHead
  <2>3. tail' \in Node \cup {Nil} /\ head' \in Node \cup {Nil}
    BY <2>1, <2>2 DEF QueueType, CoreTypeOK
  <2> QED
    BY <2>1, <2>2, <2>3, GivenBackType
<1>2. CASE ~MovesOn
  BY <1>2 DEF TakeHead, CurHead, QueueType, CoreTypeOK, core
<1> QED
  BY <1>1, <1>2

LEMMA WakeFromType ==
    ASSUME PcType, FlagType, NEW l \in ConPC, WakeFrom(l)
    PROVE  PcType' /\ awake' \in Thread \cup {Nil}
<1>1. "ret" \in ThreadPC
  BY DEF ThreadPC
<1>2. CASE awake = Nil
  BY <1>2, GotoConType DEF WakeFrom
<1>3. CASE awake # Nil
  <2>1. awake \in Thread /\ GotoAndWake(Con, l, awake, "ret")
    BY <1>3 DEF WakeFrom, FlagType
  <2>2. PcType'
    BY <1>1, <2>1, GotoAndWakeType
  <2> QED
    BY <2>2 DEF WakeFrom
<1> QED
  BY <1>2, <1>3

LEMMA ConsumeTypes ==
    ASSUME IInv, ConsumeIdle \/ ConsumeLock \/ ConsumeCall \/ ConsumeRetry
    PROVE  TypeOK'
<1>1. PcType /\ QueueType /\ FlagType /\ RequestType
  BY TypeParts DEF IInv
<1>2. ConHolds("consume")
  BY DEF ConsumeIdle, ConsumeNothing, ConsumeLock, ConsumeLocker, ConsumeCall, ConsumeFunc,
         ConsumeRetry, ConsumeFull
<1>3. head \in Node
  BY <1>2, ConsumerFacts DEF ConHolds, ConHolding
<1>4. "progress" \in ConPC /\ "finish" \in ConPC /\ "parked" \in ConPC /\ "cs" \in ThreadPC
  BY DEF ConPC, ThreadPC
<1>5. CASE ConsumeIdle
  <2>1. PcType'
    <3>1. Goto(Con, "progress") \/ Goto(Con, "finish")
      BY <1>5 DEF ConsumeIdle, ConsumeNothing
    <3> QED
      BY <1>1, <1>4, <3>1, GotoConType
  <2>2. QueueType'
    BY <1>1, <1>5, SameQueueType DEF ConsumeIdle, ConsumeNothing
  <2>3. FlagType' /\ RequestType'
    BY <1>1, <1>5 DEF ConsumeIdle, ConsumeNothing, FlagType, RequestType, reqVars
  <2> QED
    BY <2>1, <2>2, <2>3, TypeParts
<1>6. CASE ConsumeLock
  <2>1. /\ TakeHead /\ sth[CurHead] # Nil /\ SwapTo(sth[CurHead]) /\ node' = node /\ pred' = pred
        /\ sth' = [sth EXCEPT ![CurHead] = Nil]
    BY <1>6 DEF ConsumeLock, ConsumeLocker
  <2>2. sth' \in [Node -> Thread \cup {Nil}]
    BY <1>1, <2>1 DEF QueueType
  <2>3. QueueType' /\ CurHead \in Node
    BY <1>1, <1>3, <2>1, <2>2, TakenType
  <2>4. sth[CurHead] \in Thread
    BY <1>1, <2>1, <2>3 DEF QueueType
  <2>5. PcType'
    BY <1>1, <1>4, <2>1, <2>4, GotoAndWakeType DEF SwapTo
  <2>6. FlagType' /\ RequestType'
    BY <1>1, <1>6, <2>1 DEF ConsumeLock, ConsumeLocker, SwapTo, FlagType, RequestType, conLocals, reqVars
  <2> QED
    BY <2>3, <2>5, <2>6, TypeParts
<1>7. CASE ConsumeCall
  <2>1. TakeHead /\ node' = node /\ pred' = pred /\ sth' = sth /\ pc' = pc
    BY <1>7 DEF ConsumeCall, ConsumeFunc
  <2>2. QueueType'
    BY <1>1, <1>3, <2>1, TakenType DEF QueueType
  <2>3. PcType'
    BY <1>1, <2>1 DEF PcType
  <2>4. FlagType'
    BY <1>1, <1>7 DEF ConsumeCall, ConsumeFunc, Executed, FlagType, conLocals
  <2>5. PICK null \in BOOLEAN : Call(func[CurHead].op, func[CurHead].by, null, FALSE)
    BY <1>7 DEF ConsumeCall, Nulls
  <2>6. func[CurHead].by \in Thread
    BY <1>7, ConsumeCallDevice DEF Func
  <2>7. op' = op /\ reqSth' = reqSth /\ FALSE \in BOOLEAN
    BY <1>7 DEF ConsumeCall
  <2>8. RequestType'
    BY <1>1, <2>5, <2>6, <2>7, CallType
  <2> QED
    BY <2>2, <2>3, <2>4, <2>8, TypeParts
<1>8. CASE ConsumeRetry
  <2>1. TakeHead /\ node' = node /\ pred' = pred /\ sth' = sth /\ Goto(Con, "progress")
    BY <1>8 DEF ConsumeRetry, ConsumeFull
  <2>2. QueueType'
    BY <1>1, <1>3, <2>1, TakenType DEF QueueType
  <2>3. PcType'
    BY <1>1, <1>4, <2>1, GotoConType
  <2>4. FlagType' /\ RequestType'
    BY <1>1, <1>8 DEF ConsumeRetry, ConsumeFull, FlagType, RequestType, reqVars
  <2> QED
    BY <2>2, <2>3, <2>4, TypeParts
<1> QED
  BY <1>5, <1>6, <1>7, <1>8

LEMMA PollTypes ==
    ASSUME IInv, Progress \/ ConsumeEnd
    PROVE  TypeOK'
<1>1. PcType /\ QueueType /\ FlagType /\ RequestType
  BY TypeParts DEF IInv
<1>2. "finish" \in ConPC /\ "consume" \in ConPC /\ "con_unlock" \in ConPC /\ "parked" \in ConPC
      /\ "exited" \in ConPC /\ "ret" \in ThreadPC
  BY DEF ConPC, ThreadPC
<1>3. CASE Progress
  <2>1. PICK last \in (IF Woken = {} THEN {Nil} ELSE Woken) :
          /\ awake' = last
          /\ pc' = [a \in Thread \cup {Con} |->
                 IF a = Con THEN "finish"
                 ELSE IF a \in Woken \ {last} THEN "ret" ELSE pc[a]]
    BY <1>3 DEF Progress
  <2>2. PcType'
    BY <1>1, <1>2, <2>1, Nils DEF PcType
  <2>3. QueueType'
    BY <1>1, <1>3, SameQueueType DEF Progress
  <2>4. Woken \subseteq Thread
    BY GivenAreThreads DEF Woken, Completed, IInv
  <2>5. FlagType'
    BY <1>1, <1>3, <2>1, <2>4 DEF Progress, FlagType
  <2>6. holder' \in Seq(Thread)
    BY <1>3, Compacted DEF Progress, IInv, RequestInv, Places
  <2>7. /\ reqSt' \in [Thread -> {"none", "created", "waiting", "finished"}]
        /\ mpi' \in [Thread -> {"none", "ongoing", "done"}]
        /\ reqSth' \in [Thread -> BOOLEAN] /\ op' = op
    BY <1>1, <1>3 DEF Progress, RequestType
  <2>8. RequestType'
    BY <1>1, <2>6, <2>7 DEF RequestType
  <2> QED
    BY <2>2, <2>3, <2>5, <2>8, TypeParts
<1>4. ASSUME ConsumeEnd
      PROVE  RequestType'
  BY <1>1, <1>4 DEF ConsumeEnd, RequestType, reqVars
<1>5. CASE ConsumeEnd /\ Finish(Active)
  <2>1. QueueType'
    BY <1>1, <1>5, SameQueueType DEF Finish
  <2>2. PcType' /\ awake' \in Thread \cup {Nil}
    <3>1. CASE Goto(Con, "con_unlock") /\ awake' = awake
      BY <1>1, <1>2, <3>1, GotoConType DEF FlagType
    <3>2. CASE WakeFrom("consume")
      BY <1>1, <1>2, <3>2, WakeFromType
    <3> QED
      BY <1>5, <3>1, <3>2 DEF Finish
  <2>3. FlagType'
    BY <1>1, <1>5, <2>2 DEF Finish, StoreExec, Park, FlagType
  <2> QED
    BY <1>4, <1>5, <2>1, <2>2, <2>3, TypeParts
<1>6. CASE ConsumeEnd /\ ConUnlock
  <2>1. pc[Con] = "con_unlock"
    BY <1>6 DEF ConUnlock
  <2>2. ~finished
    BY <2>1 DEF IInv, Token
  <2>3. head \in Node
    BY <2>1, <2>2, ConsumerFacts DEF ConHolding
  <2>4. PcType' /\ awake' \in Thread \cup {Nil}
    BY <1>1, <1>2, <1>6, WakeFromType DEF ConUnlock
  <2>5. FlagType'
    BY <1>1, <1>6, <2>4 DEF ConUnlock, FlagType
  <2>6. QueueType'
    <3>1. CASE EmptyQueue /\ DeallocateHead
      <4>1. tail' \in Node \cup {Nil} /\ head' \in Node \cup {Nil}
        BY <3>1 DEF EmptyQueue
      <4>2. node' = node /\ pred' = pred /\ sth' = sth
        BY <1>6 DEF ConUnlock
      <4>3. sth' \in [Node -> Thread \cup {Nil}]
        BY <1>1, <4>2 DEF QueueType
      <4> QED
        BY <1>1, <2>3, <3>1, <4>1, <4>2, <4>3, GivenBackType
    <3>2. CASE UNCHANGED <<core, func>>
      <4>1. UNCHANGED <<core, queueArgs>>
        BY <1>6, <3>2 DEF ConUnlock, queueArgs
      <4> QED
        BY <1>1, <4>1, SameQueueType
    <3> QED
      BY <1>6, <3>1, <3>2 DEF ConUnlock
  <2> QED
    BY <1>4, <1>6, <2>4, <2>5, <2>6, TypeParts
<1>7. CASE ConsumeEnd /\ ConExit
  <2>1. QueueType'
    BY <1>1, <1>7, SameQueueType DEF ConExit
  <2>2. PcType'
    BY <1>1, <1>2, <1>7, GotoConType DEF ConExit
  <2>3. FlagType'
    BY <1>1, <1>7 DEF ConExit, FlagType, conLocals
  <2> QED
    BY <1>4, <1>7, <2>1, <2>2, <2>3, TypeParts
<1> QED
  BY <1>3, <1>5, <1>6, <1>7 DEF ConsumeEnd

----------------------------------------------------------------------------
(* The destructor *)

\* What is the case while the destructor runs.
LEMMA StopFacts ==
    ASSUME IInv, NEW s \in Thread, op[s] = "stop"
    PROVE  /\ holder = <<>> /\ (\A u \in Thread : reqSt[u] = "none")
           /\ \A u \in Thread : pc[u] # "idle" => u = s
           /\ \A n \in Pending, u \in Thread : ~Carries(n, u)
<1>1. \A u \in Thread : reqSt[u] = "none" /\ (pc[u] # "idle" => u = s)
  BY DEF IInv, Stopping
<1>2. \A u \in Thread : u \notin Given
  BY <1>1, Own DEF StandingOf
<1>3. holder = <<>>
  <2>1. \A i \in DOMAIN holder : holder[i] \in Range(holder) /\ holder[i] \in Thread
    BY DEF Range, IInv, TypeOK
  <2>2. DOMAIN holder = {}
    BY <1>2, <2>1 DEF Given
  <2> QED
    BY <2>2 DEF IInv, TypeOK
<1>4. \A n \in Pending, u \in Thread : ~Carries(n, u)
  BY <1>2 DEF Given, Delegated
<1> QED
  BY <1>1, <1>3, <1>4

\* Nobody has called the destructor.
LEMMA NoStop ==
    ASSUME IInv, finished' = finished, \A u \in Thread : op[u] # "stop" /\ op'[u] # "stop"
    PROVE  Stopping'
BY DEF IInv, Stopping

\* The destructor's own step.
LEMMA OwnStop ==
    ASSUME IInv, NEW t \in Thread, op[t] = "stop", op'[t] = "stop",
           \A u \in Thread \ {t} : pc'[u] = pc[u] /\ op'[u] = op[u],
           \A u \in Thread : reqSt'[u] = reqSt[u],
           /\ pc'[t] \in StopPC
           /\ pc'[t] \in QueuePC => node'[t] = tail'
           /\ pc'[t] = "blocked" => tail' # Nil /\ sth'[tail'] = t
           /\ pc'[t] \in {"cs", "unlock"} => head' = tail'
           /\ finished' <=> pc'[t] \in {"unlock", "notify", "join", "stopped"}
    PROVE  Stopping'
<1>1. \A u \in Thread : reqSt'[u] = "none" /\ (u # t => pc'[u] = "idle")
  BY DEF IInv, Stopping
<1>2. \A u \in Thread : op[u] = "stop" => u = t
  <2>1. pc[t] # "idle"
    BY Nils, Own DEF PhaseOf, Ops
  <2> QED
    BY <2>1 DEF IInv, Stopping
<1>3. \A u \in Thread : op'[u] = "stop" => u = t
  BY <1>2
<1> QED
  BY <1>1, <1>3 DEF Stopping

\* A step of the consumer that wakes nobody who queues for the lock.
LEMMA ConsumerStop ==
    ASSUME IInv, pc[Con] # "parked", op' = op, finished' = finished, node' = node, sth' = sth,
           \A u \in Thread : pc'[u] = pc[u] \/ reqSt[u] = "waiting",
           (\A u \in Thread : reqSt[u] = "none") => (\A u \in Thread : reqSt'[u] = "none"),
           tail' = tail \/ tail = head
    PROVE  Stopping'
<1>1. ASSUME NEW s \in Thread, op'[s] = "stop"
      PROVE  /\ \A u \in Thread : reqSt'[u] = "none" /\ (u # s => pc'[u] = "idle")
             /\ pc'[s] \in StopPC
             /\ pc'[s] \in QueuePC => node'[s] = tail'
             /\ pc'[s] = "blocked" => tail' # Nil /\ sth'[tail'] = s
             /\ pc'[s] \in {"cs", "unlock"} => head' = tail'
             /\ finished' <=> pc'[s] \in {"unlock", "notify", "join", "stopped"}
  <2>1. op[s] = "stop"
    BY <1>1
  <2>2. /\ \A u \in Thread : reqSt[u] = "none" /\ (u # s => pc[u] = "idle")
        /\ pc[s] \in StopPC
        /\ pc[s] \in QueuePC => node[s] = tail
        /\ pc[s] = "blocked" => tail # Nil /\ sth[tail] = s
        /\ finished <=> pc[s] \in {"unlock", "notify", "join", "stopped"}
    BY <2>1 DEF IInv, Stopping
  <2>3. \A u \in Thread : pc'[u] = pc[u]
    BY <2>2
  <2>4. pc[s] \notin {"cs", "unlock"}
    BY DEF IInv, Token, HolderPC
  <2>5. pc[s] \in QueuePC \cup {"blocked"} => tail' = tail
    <3>1. pc[s] \in QueuePC => node[s] # head
      BY DEF IInv, QueueInv, Queueing
    <3>2. pc[s] = "blocked" => tail # head
      BY <2>2, Nils DEF IInv, TypeOK, CoreTypeOK, QueueInv, Suspended
    <3> QED
      BY <2>2, <3>1, <3>2
  <2> QED
    BY <2>2, <2>3, <2>4, <2>5
<1>2. finished' => \E s \in Thread : op'[s] = "stop"
  BY DEF IInv, Stopping
<1> QED
  BY <1>1, <1>2 DEF Stopping

\* The steps of a thread.
LEMMA ThreadStop ==
    ASSUME IInv, NEW t \in Thread,
           \/ \E k \in Ops : Start(t, k)
           \/ SeeFinished(t) \/ WaitStart(t) \/ Proceed(t)
    PROVE  Stopping'
<1>2. CASE \E k \in Ops : Start(t, k)
  <2>1. PICK k \in Ops : Start(t, k)
    BY <1>2
  <2>2. /\ \A u \in Thread : op[u] # "stop"
        /\ k = "stop" => Quiescent
        /\ op' = [op EXCEPT ![t] = k] /\ pc' = [pc EXCEPT ![t] = "lock"]
        /\ reqSt' = (IF HasRequest(k) THEN [reqSt EXCEPT ![t] = "created"] ELSE reqSt)
        /\ finished' = finished
    BY <2>1 DEF Start, Goto
  <2>3. op'[t] = k /\ \A u \in Thread \ {t} : op'[u] = op[u]
    BY <2>2 DEF IInv, TypeOK
  <2>4. ~finished
    BY <2>2 DEF IInv, Stopping
  <2>5. CASE k = "stop"
    <3>1. reqSt' = reqSt /\ \A u \in Thread : pc[u] = "idle" /\ reqSt[u] = "none"
      BY <2>2, <2>5 DEF HasRequest, Quiescent
    <3>2. pc'[t] = "lock" /\ \A u \in Thread \ {t} : pc'[u] = "idle"
      BY <2>2, <3>1 DEF IInv, TypeOK
    <3>3. \A u \in Thread : op'[u] = "stop" <=> u = t
      BY <2>2, <2>3, <2>5
    <3> QED
      BY <2>2, <2>4, <3>1, <3>2, <3>3 DEF Stopping, StopPC, QueuePC
  <2>6. CASE k # "stop"
    <3>1. \A u \in Thread : op'[u] # "stop"
      BY <2>2, <2>3, <2>6
    <3> QED
      BY <2>2, <3>1, NoStop
  <2> QED
    BY <2>5, <2>6
<1>3. CASE SeeFinished(t) \/ WaitStart(t) \/ WaitFunc(t) \/ Return(t)
  <2>1. \A u \in Thread : op[u] # "stop"
    <3>1. \/ pc[t] = "idle" /\ reqSt[t] # "none"
          \/ pc[t] \in {"wait", "ret"}
      BY <1>3, WaitRequests
    <3> QED
      BY <3>1 DEF IInv, Stopping, StopPC
  <2>2. finished' = finished /\ (op' = op \/ op' = [op EXCEPT ![t] = Nil])
    BY <1>3 DEF SeeFinished, WaitStart, WaitFunc, Return, EndIfIdle
  <2>3. \A u \in Thread : op'[u] # "stop"
    BY <2>1, <2>2, Nils DEF IInv, TypeOK, Ops
  <2> QED
    BY <2>1, <2>2, <2>3, NoStop
<1>4. CASE Enter(t)
  <2>1. /\ pc[t] = "lock" /\ pc'[t] \in {"cs", "save"}
        /\ \A u \in Thread \ {t} : pc'[u] = pc[u]
        /\ pc'[t] = "cs" => head' = tail'
        /\ pc'[t] = "save" => node'[t] = tail'
    BY <1>4, EnterDevice
  <2>2. op' = op /\ reqSt' = reqSt /\ finished' = finished /\ ~finished
    BY <1>4, <2>1, LockerNotFinished DEF Enter, StartLock, reqVars
  <2>3. CASE op[t] = "stop"
    BY <2>1, <2>2, <2>3, OwnStop DEF StopPC, QueuePC
  <2>4. CASE op[t] # "stop"
    <3>1. \A u \in Thread : op[u] # "stop"
      BY <2>1, <2>4, StopFacts
    <3> QED
      BY <2>2, <3>1, NoStop
  <2> QED
    BY <2>3, <2>4
<1>5. CASE Delegate(t)
  <2>1. /\ pc[t] = "save" /\ pc'[t] = "link"
        /\ \A u \in Thread \ {t} : pc'[u] = pc[u]
    BY <1>5, DelegateDevice
  <2>2. /\ op' = op /\ (op[t] = "stop" => reqSt' = reqSt) /\ finished' = finished /\ ~finished
        /\ tail' = tail /\ node' = node
    BY <1>5, <2>1, LockerNotFinished DEF Delegate, core
  <2>3. CASE op[t] = "stop"
    <3>1. node[t] = tail
      BY <2>1, <2>3 DEF IInv, Stopping, QueuePC
    <3> QED
      BY <2>1, <2>2, <2>3, <3>1, OwnStop DEF StopPC, QueuePC
  <2>4. CASE op[t] # "stop"
    <3>1. \A u \in Thread : op[u] # "stop"
      BY <2>1, <2>4, StopFacts
    <3> QED
      BY <2>2, <3>1, NoStop
  <2> QED
    BY <2>3, <2>4
<1>6. CASE Publish(t)
  <2>1. /\ pc[t] = "link"
        /\ IF op[t] \in {"nb", "noreq"} THEN pc'[t] = "idle" /\ op'[t] = Nil
           ELSE pc'[t] = "blocked" /\ op'[t] = op[t]
        /\ \A u \in Thread \ {t} : pc'[u] = pc[u] /\ op'[u] = op[u]
    BY <1>6, PublishDevice
  <2>2. reqSt' = reqSt /\ finished' = finished /\ ~finished /\ tail' = tail /\ sth' = sth
    BY <1>6, <2>1, LockerNotFinished DEF Publish, Link, reqVars
  <2>3. CASE op[t] = "stop"
    <3>1. node[t] = tail /\ node[t] \in Node
      BY <2>1, <2>3 DEF IInv, Stopping, QueueInv, Queueing, QueuePC
    <3>2. sth[node[t]] = t
      BY <2>1, <2>3 DEF IInv, DeviceInv, Contents, FuncOps
    <3> QED
      BY <2>1, <2>2, <2>3, <3>1, <3>2, Nils, OwnStop DEF StopPC, QueuePC
  <2>4. CASE op[t] # "stop"
    <3>1. \A u \in Thread : op[u] # "stop"
      BY <2>1, <2>4, StopFacts
    <3>2. \A u \in Thread : op'[u] # "stop"
      BY <2>1, <3>1, Nils DEF Ops
    <3> QED
      BY <2>2, <3>1, <3>2, NoStop
  <2> QED
    BY <2>3, <2>4
<1>7. CASE ExecuteImm(t)
  <2>1. pc[t] = "cs" /\ op[t] # "stop" /\ op' = op /\ finished' = finished
    BY <1>7 DEF ExecuteImm
  <2>2. \A u \in Thread : op[u] # "stop"
    BY <2>1, StopFacts
  <2> QED
    BY <2>1, <2>2, NoStop
<1>8. CASE CallLocked(t)
  <2>1. /\ pc[t] = "cs" /\ pc'[t] = "unlock"
        /\ \A u \in Thread \ {t} : pc'[u] = pc[u]
        /\ finished' <=> (finished \/ op[t] = "stop")
    BY <1>8, CallLockedRequests
  <2>2. op' = op /\ reqSt' = reqSt /\ head' = head /\ tail' = tail
    BY <1>8 DEF CallLocked, SetFinished, core, reqVars
  <2>3. CASE op[t] = "stop"
    <3>1. head = tail
      BY <2>1, <2>3 DEF IInv, Stopping
    <3> QED
      BY <2>1, <2>2, <2>3, <3>1, OwnStop DEF StopPC, QueuePC
  <2>4. CASE op[t] # "stop"
    <3>1. \A u \in Thread : op[u] # "stop"
      BY <2>1, <2>4, StopFacts
    <3>2. finished' = finished
      BY <1>8, <2>4 DEF CallLocked
    <3> QED
      BY <2>2, <3>1, <3>2, NoStop
  <2> QED
    BY <2>3, <2>4
<1>9. CASE Leave(t)
  <2>1. \A u \in Thread \ {t} : pc'[u] = pc[u] /\ op'[u] = op[u]
    BY <1>9, LeaveRequests
  <2>2. /\ pc[t] \in {"unlock", "unlock_wait"} /\ finished' = finished /\ reqSt' = reqSt
        /\ op' = op \/ op' = [op EXCEPT ![t] = Nil]
    BY <1>9 DEF Leave, Unlock, UnlockAndWait, EndIfIdle, reqVars
  <2>3. CASE op[t] = "stop"
    <3>1. holder = <<>>
      BY <2>3, StopFacts
    <3>2. pc[t] = "unlock" /\ head = tail /\ finished
      BY <2>2, <2>3 DEF IInv, Stopping, StopPC
    <3>3. Release(t, Active)
      BY <3>1, <3>2 DEF Release, Active, Unlockable
    <3>4. pc' = [pc EXCEPT ![t] = AfterUnlock(t)] /\ EndIfIdle(t, pc'[t])
      BY <1>9, <3>2, <3>3 DEF Leave, Unlock, UnlockAndWait, Goto
    <3>5. pc'[t] = "notify"
      BY <2>3, <3>4 DEF AfterUnlock, IInv, TypeOK
    <3>6. op'[t] = op[t]
      BY <3>4, <3>5 DEF EndIfIdle
    <3> QED
      BY <2>1, <2>2, <2>3, <3>2, <3>5, <3>6, OwnStop DEF StopPC, QueuePC
  <2>4. CASE op[t] # "stop"
    <3>1. \A u \in Thread : op[u] # "stop"
      BY <2>2, <2>4, StopFacts
    <3>2. \A u \in Thread : op'[u] # "stop"
      BY <2>2, <3>1, Nils DEF IInv, TypeOK, Ops
    <3> QED
      BY <2>2, <3>1, <3>2, NoStop
  <2> QED
    BY <2>3, <2>4
<1>10. CASE LeaveToNext(t)
  <2>1. /\ pc[t] \in {"follow", "follow_wait"} /\ finished' = finished
        /\ op' = op \/ op' = [op EXCEPT ![t] = Nil]
    BY <1>10 DEF LeaveToNext, Follow, EndIfIdle
  <2>2. \A u \in Thread : op[u] # "stop"
    BY <2>1, NotStopping DEF StopPC
  <2>3. \A u \in Thread : op'[u] # "stop"
    BY <2>1, <2>2, Nils DEF IInv, TypeOK, Ops
  <2> QED
    BY <2>1, <2>2, <2>3, NoStop
<1>11. CASE Stop(t)
  <2>1. /\ \/ pc[t] = "notify" /\ pc'[t] = "join"
           \/ pc[t] = "join" /\ pc'[t] = "stopped"
        /\ \A u \in Thread \ {t} : pc'[u] = pc[u]
    BY <1>11, StopRequests
  <2>2. op' = op /\ reqSt' = reqSt /\ finished' = finished
    BY <1>11 DEF Stop, NotifyConsumer, Join, reqVars
  <2>3. op[t] = "stop"
    BY <2>1, Own DEF PhaseOf
  <2>4. finished
    BY <2>1, <2>3 DEF IInv, Stopping
  <2> QED
    BY <2>1, <2>2, <2>3, <2>4, OwnStop DEF StopPC, QueuePC
<1> QED
  BY <1>2, <1>3, <1>4, <1>5, <1>6, <1>7, <1>8, <1>9, <1>10, <1>11 DEF Proceed

\* The steps of the consumer.
LEMMA ConsumeStop ==
    ASSUME IInv, Consume
    PROVE  Stopping'
<1>1. op' = op /\ finished' = finished /\ node' = node
  BY DEF Consume, ConsumeIdle, ConsumeNothing, ConsumeLock, ConsumeLocker, ConsumeCall, ConsumeFunc,
         ConsumeRetry, ConsumeFull, Progress, ConsumeEnd, Finish, ConUnlock, ConExit, queueArgs
<1>2. pc[Con] # "parked"
  BY DEF Consume, ConsumeIdle, ConsumeNothing, ConsumeLock, ConsumeLocker, ConsumeCall, ConsumeFunc,
         ConsumeRetry, ConsumeFull, Progress, ConsumeEnd, Finish, ConUnlock, ConExit, ConHolds
<1>3. CASE ConsumeIdle
  <2>1. sth' = sth /\ reqSt' = reqSt /\ tail' = tail
    BY <1>3 DEF ConsumeIdle, ConsumeNothing, queueArgs, core, reqVars
  <2>2. \A u \in Thread : pc'[u] = pc[u]
    BY <1>3, ConsumeIdleDevice
  <2> QED
    BY <1>1, <1>2, <2>1, <2>2, ConsumerStop
<1>4. CASE ConsumeRetry
  <2>1. sth' = sth /\ reqSt' = reqSt
    BY <1>4 DEF ConsumeRetry, ConsumeFull, reqVars
  <2>2. tail' = tail /\ \A u \in Thread : pc'[u] = pc[u]
    BY <1>4, ConsumeRetryDevice
  <2> QED
    BY <1>1, <1>2, <2>1, <2>2, ConsumerStop
<1>5. CASE ConsumeCall
  <2>1. sth' = sth
    BY <1>5 DEF ConsumeCall, ConsumeFunc
  <2>2. tail' = tail /\ pc' = pc /\ CurHead \in Pending /\ func[CurHead] \in Func
    BY <1>5, ConsumeCallDevice
  <2>3. ASSUME \A u \in Thread : reqSt[u] = "none"
        PROVE  \A u \in Thread : reqSt'[u] = "none"
    <3>1. PICK n \in Pending : n = CurHead
      BY <2>2
    <3>2. PICK b \in Thread : b = func[n].by
      BY <2>2, <3>1 DEF Func
    <3>3. b \notin Given
      BY <2>3, Own DEF StandingOf
    <3>4. ~HasRequest(func[n].op)
      BY <3>2, <3>3 DEF Given, Delegated, Carries
    <3>5. reqSt' = reqSt
      BY <1>5, <3>1, <3>4 DEF ConsumeCall, Call
    <3> QED
      BY <2>3, <3>5
  <2> QED
    BY <1>1, <1>2, <2>1, <2>2, <2>3, ConsumerStop
<1>6. CASE Progress
  <2>1. sth' = sth /\ tail' = tail
    BY <1>6 DEF Progress, queueArgs, core
  <2>2. \A u \in Thread :
          /\ reqSt'[u] = IF u \in Completed \ Woken THEN "finished" ELSE reqSt[u]
          /\ pc'[u] = IF u \in Woken /\ u # awake' THEN "ret" ELSE pc[u]
    BY <1>6, ProgressDevice
  <2>3. \A u \in Woken : reqSt[u] = "waiting"
    BY DEF Woken, Waiting
  <2>4. ASSUME \A u \in Thread : reqSt[u] = "none"
        PROVE  \A u \in Thread : reqSt'[u] = "none"
    <3>1. \A u \in Thread : u \notin Given
      BY <2>4, Own DEF StandingOf
    <3>2. \A u \in Thread : u \notin Completed
      BY <3>1 DEF Completed, Given
    <3> QED
      BY <2>2, <2>4, <3>2
  <2>5. \A u \in Thread : pc'[u] = pc[u] \/ reqSt[u] = "waiting"
    BY <2>2, <2>3
  <2> QED
    BY <1>1, <1>2, <2>1, <2>4, <2>5, ConsumerStop
<1>7. CASE ConsumeEnd
  <2>1. sth' = sth /\ reqSt' = reqSt
    BY <1>7 DEF ConsumeEnd, Finish, ConUnlock, ConExit, queueArgs, reqVars
  <2>2. tail' = tail \/ tail = head
    BY <1>7 DEF ConsumeEnd, Finish, ConUnlock, ConExit, Unlockable, core
  <2>3. \A u \in Thread : pc'[u] = pc[u] \/ reqSt[u] = "waiting"
    BY <1>7, ConsumeEndRequests
  <2> QED
    BY <1>1, <1>2, <2>1, <2>2, <2>3, ConsumerStop
<1>8. CASE ConsumeLock
  <2>1. reqSt' = reqSt /\ pc[Con] = "consume" /\ ~finished
    BY <1>8 DEF ConsumeLock, ConsumeLocker, ConHolds, reqVars
  <2>2. head' = Successor /\ tail' = tail /\ sth[Successor] # Nil /\ Successor \in Node
    BY <1>8, LockerStep
  <2>3. PICK u \in Thread :
          /\ pc[u] = "blocked" /\ op[u] \in {"probe", "stop"} /\ u = sth[Successor]
          /\ pc'[u] = "cs" /\ \A v \in Thread \ {u} : pc'[v] = pc[v]
    BY <1>8, LockerStep
  <2>4. CASE op[u] = "stop"
    <3>1. tail # Nil /\ sth[tail] = u
      BY <2>3, <2>4 DEF IInv, Stopping
    <3>2. tail \in Node
      BY <3>1 DEF IInv, TypeOK, CoreTypeOK
    <3>3. Successor = tail
      BY <2>2, <2>3, <3>1, <3>2 DEF IInv, QueueInv, Suspended
    <3> QED
      BY <1>1, <2>1, <2>2, <2>3, <2>4, <3>3, OwnStop DEF StopPC, QueuePC
  <2>5. CASE op[u] # "stop"
    <3>1. \A v \in Thread : op[v] # "stop"
      BY <2>3, <2>5, StopFacts
    <3> QED
      BY <1>1, <3>1, NoStop
  <2> QED
    BY <2>4, <2>5
<1> QED
  BY <1>3, <1>4, <1>5, <1>6, <1>7, <1>8 DEF Consume

----------------------------------------------------------------------------
(* The invariant *)

LEMMA InitHolds == Init => IInv
<1> SUFFICES ASSUME Init PROVE IInv
  OBVIOUS
<1>1. PICK n \in Node :
        /\ tail = n /\ head = n /\ free = Node \ {n}
        /\ next = [m \in Node |-> Nil]
        /\ pc = [a \in Thread \cup {Con} |-> IF a = Con THEN "consume" ELSE "idle"]
        /\ node = [t \in Thread |-> Nil]
        /\ pred = [t \in Thread |-> Nil]
        /\ sth = [m \in Node |-> Nil]
        /\ func = [m \in Node |-> Nil]
        /\ isExec = TRUE /\ conSth = FALSE /\ conEx = TRUE /\ awake = Nil /\ finished = FALSE
  BY DEF Init, DelInit
<1>2. /\ op = [t \in Thread |-> Nil]
      /\ reqSt = [t \in Thread |-> "none"]
      /\ reqSth = [t \in Thread |-> FALSE]
      /\ holder = <<>>
      /\ mpi = [t \in Thread |-> "none"]
  BY DEF Init
<1>3. pc[Con] = "consume" /\ \A t \in Thread : pc[t] = "idle"
  BY <1>1, Nils
<1>4. TypeOK
  <2>1. PcType
    BY <1>1, <1>3 DEF PcType, ThreadPC, ConPC
  <2>2. QueueType
    BY <1>1 DEF QueueType, CoreTypeOK
  <2>3. FlagType
    BY <1>1 DEF FlagType
  <2>4. RequestType
    BY <1>2 DEF RequestType
  <2> QED
    BY <2>1, <2>2, <2>3, <2>4, TypeParts
<1>5. Token
  BY <1>1, <1>3, Nils DEF Token, HolderPC
<1>6. QueueInv
  <2>1. Ends
    BY <1>1, Nils DEF Ends
  <2>2. Queueing
    BY <1>3 DEF Queueing, QueuePC
  <2>3. Links /\ Suspended
    BY <1>1 DEF Links, Suspended
  <2> QED
    BY <2>1, <2>2, <2>3 DEF QueueInv
<1>7. DeviceInv
  <2>1. Contents
    BY <1>1, <1>3 DEF Contents, HolderPC
  <2>2. HeadToExecute
    BY <1>1, <1>3 DEF HeadToExecute
  <2>3. Idle
    BY <1>2, <1>3 DEF Idle
  <2> QED
    BY <2>1, <2>2, <2>3 DEF DeviceInv
<1>8. RequestInv
  <2>1. Pending = {}
    BY <1>1 DEF Pending
  <2>2. Range(holder) = {} /\ DOMAIN holder = {}
    BY <1>2 DEF Range
  <2>3. Delegated = {}
    BY <2>1 DEF Delegated
  <2>4. Given = {}
    BY <2>2, <2>3 DEF Given
  <2>5. Places
    BY <2>1, <2>2, <2>3 DEF Places
  <2>6. \A t \in Thread : awake # t /\ op[t] = Nil /\ reqSt[t] = "none" /\ ~reqSth[t]
    BY <1>1, <1>2, Nils
  <2>7. Phases
    BY <1>3, <2>6 DEF Phases, PhaseOf
  <2>8. Waits
    BY <2>6 DEF Waits, WaitOf
  <2>9. Standing
    BY <1>3, <2>4, <2>6 DEF Standing, StandingOf, Fresh
  <2> QED
    BY <2>5, <2>7, <2>8, <2>9 DEF RequestInv
<1>9. Stopping
  BY <1>1, <1>2, Nils DEF Stopping, Ops
<1> QED
  BY <1>4, <1>5, <1>6, <1>7, <1>8, <1>9 DEF IInv

\* What does not depend on what MPI did.
LEMMA SameInv ==
    ASSUME IInv, UNCHANGED <<delVars, op, reqSt, reqSth, holder>>,
           mpi' \in [Thread -> {"none", "ongoing", "done"}]
    PROVE  IInv'
<1>1. /\ tail' = tail /\ head' = head /\ next' = next /\ free' = free /\ pc' = pc
      /\ node' = node /\ pred' = pred /\ sth' = sth /\ func' = func
      /\ isExec' = isExec /\ conSth' = conSth /\ conEx' = conEx /\ awake' = awake
      /\ finished' = finished /\ op' = op /\ reqSt' = reqSt /\ reqSth' = reqSth /\ holder' = holder
  BY DEF delVars, core
<1>2. TypeOK'
  BY <1>1 DEF IInv, TypeOK, CoreTypeOK
<1>3. Token'
  BY <1>1 DEF IInv, Token
<1>4. QueueInv'
  BY <1>1 DEF IInv, QueueInv, Ends, Queueing, Links, Suspended
<1>5. DeviceInv'
  BY <1>1 DEF IInv, DeviceInv, Contents, HeadToExecute, Idle
<1>6. Pending' = Pending
  BY <1>1 DEF Pending, Executing
<1>7. Places' /\ Given' = Given
  BY <1>1, <1>6, SamePlaces DEF IInv, RequestInv
<1>8. Phases' /\ Waits' /\ Standing'
  BY <1>1, <1>7 DEF IInv, RequestInv, Phases, PhaseOf, Waits, WaitOf, Standing, StandingOf, Fresh
<1>9. Stopping'
  BY <1>1 DEF IInv, Stopping
<1> QED
  BY <1>2, <1>3, <1>4, <1>5, <1>7, <1>8, <1>9 DEF IInv, RequestInv

LEMMA ThreadInv ==
    ASSUME IInv, NEW t \in Thread,
           \/ \E k \in Ops : Start(t, k)
           \/ SeeFinished(t) \/ WaitStart(t) \/ Proceed(t)
    PROVE  IInv'
<1>1. Stopping'
  BY ThreadStop
<1>2. CASE \E k \in Ops : Start(t, k)
  BY <1>1, <1>2, StartRequests, ThreadTypes DEF IInv
<1>3. CASE SeeFinished(t) \/ WaitStart(t) \/ WaitFunc(t) \/ Return(t)
  BY <1>1, <1>3, WaitRequests, ThreadTypes DEF IInv
<1>4. CASE Enter(t)
  BY <1>1, <1>4, EnterDevice, EnterRequests, QueueingTypes DEF IInv
<1>5. CASE Delegate(t)
  BY <1>1, <1>5, DelegateDevice, DelegateRequests, QueueingTypes DEF IInv
<1>6. CASE Publish(t)
  BY <1>1, <1>6, PublishDevice, PublishRequests, QueueingTypes DEF IInv
<1>7. CASE ExecuteImm(t)
  BY <1>1, <1>7, ExecuteRequests, ThreadTypes DEF IInv
<1>8. CASE CallLocked(t)
  BY <1>1, <1>8, CallLockedRequests, ThreadTypes DEF IInv
<1>9. CASE Leave(t)
  BY <1>1, <1>9, LeaveRequests, LeavingTypes DEF IInv
<1>10. CASE LeaveToNext(t)
  BY <1>1, <1>10, LeaveToNextRequests, LeavingTypes DEF IInv
<1>11. CASE Stop(t)
  BY <1>1, <1>11, StopRequests, ThreadTypes DEF IInv
<1> QED
  BY <1>2, <1>3, <1>4, <1>5, <1>6, <1>7, <1>8, <1>9, <1>10, <1>11 DEF Proceed

LEMMA ConsumeInv ==
    ASSUME IInv, Consume
    PROVE  IInv'
<1>1. Stopping'
  BY ConsumeStop
<1>2. CASE ConsumeIdle
  BY <1>1, <1>2, ConsumeIdleDevice, ConsumeIdleRequests, ConsumeTypes DEF IInv
<1>3. CASE ConsumeLock
  BY <1>1, <1>3, LockerStep, ConsumeLockRequests, ConsumeTypes DEF IInv
<1>4. CASE ConsumeCall
  BY <1>1, <1>4, ConsumeCallDevice, ConsumeCallRequests, ConsumeTypes DEF IInv
<1>5. CASE ConsumeRetry
  BY <1>1, <1>5, ConsumeRetryDevice, ConsumeRetryRequests, ConsumeTypes DEF IInv
<1>6. CASE Progress
  BY <1>1, <1>6, ProgressDevice, ProgressRequests, PollTypes DEF IInv
<1>7. CASE ConsumeEnd
  BY <1>1, <1>7, ConsumeEndRequests, PollTypes DEF IInv
<1> QED
  BY <1>2, <1>3, <1>4, <1>5, <1>6, <1>7 DEF Consume

LEMMA NextKeeps == IInv /\ [Next]_vars => IInv'
<1> SUFFICES ASSUME IInv, [Next]_vars PROVE IInv'
  OBVIOUS
<1>1. CASE UNCHANGED vars
  BY <1>1, SameInv DEF vars, reqVars, IInv, TypeOK
<1>2. CASE Next
  <2>1. ASSUME NEW t \in Thread, MpiComplete(t)
        PROVE  IInv'
    BY <2>1, SameInv DEF MpiComplete, IInv, TypeOK
  <2>2. ASSUME Stopped
        PROVE  IInv'
    BY <1>1, <2>2 DEF Stopped
  <2> QED
    BY <1>2, <2>1, <2>2, ThreadInv, ConsumeInv DEF Next
<1> QED
  BY <1>1, <1>2

\* The invariant: lock, queue, device, requests and the destructor.
THEOREM InvHolds == Spec => []IInv
BY InitHolds, NextKeeps, PTL DEF Spec

\* Types are kept.
THEOREM TypeCorrect == Spec => []TypeOK
<1>1. IInv => TypeOK
  BY DEF IInv
<1> QED
  BY <1>1, InvHolds, PTL

\* MPI is entered by one thread at a time: callers, threads that were woken with
\* the lock, and the consumer (lock_or_delegate, unlock, consume).
THEOREM MpiSerializedHolds == Spec => []MpiSerialized
<1>1. IInv => MpiSerialized
  BY DEF IInv, Token, MpiSerialized, ConHolding
<1> QED
  BY <1>1, InvHolds, PTL

\* Whoever holds the lock finds the consumer suspended in con_sth_.
THEOREM ConsumerParkedHolds == Spec => []ConsumerParked
<1>1. IInv => ConsumerParked
  BY DEF IInv, Token, ConsumerParked
<1> QED
  BY <1>1, InvHolds, PTL

\* The node in front is not given back before set_next.
THEOREM PredecessorAliveHolds == Spec => []PredecessorAlive
<1>1. IInv => PredecessorAlive
  BY DEF IInv, QueueInv, Queueing, PredecessorAlive, QueuePC
<1> QED
  BY <1>1, InvHolds, PTL

\* A lock that is free, or was taken at once, has a device without requests.
THEOREM FreeLockMeansIdleHolds == Spec => []FreeLockMeansIdle
<1>1. ASSUME IInv
      PROVE  FreeLockMeansIdle
  <2>1. holder = <<>> => Available
    BY ProxyAssumption DEF Available
  <2> QED
    BY <1>1, <2>1 DEF IInv, DeviceInv, Idle, FreeLockMeansIdle, FuncOps
<1> QED
  BY <1>1, InvHolds, PTL

\* The request holder lists a request once, and only until it is finished.
THEOREM StartedOnceHolds == Spec => []StartedOnce
<1>1. ASSUME IInv
      PROVE  StartedOnce
  <2>1. \A i \in DOMAIN holder : holder[i] \in Thread /\ holder[i] \in Given
    BY <1>1, GivenAreThreads DEF IInv, Given, Range
  <2>2. \A i \in DOMAIN holder : reqSt[holder[i]] \in {"created", "waiting"}
    BY <1>1, <2>1, Own DEF StandingOf
  <2> QED
    BY <1>1, <2>2 DEF IInv, RequestInv, Places, StartedOnce
<1> QED
  BY <1>1, InvHolds, PTL

----------------------------------------------------------------------------
(* Who sleeps in a request is woken *)

\* A null request that MPI gave to the consumer would be finished without its
\* waiter being told: execute_delegated only stores the state.  Therefore these
\* facts have the hypothesis that MPI gives no null request to the consumer.

SleepOf(t) == pc[t] \in {"link", "blocked"} /\ reqSth[t] => reqSt[t] = "waiting"

LEMMA ThreadSleep ==
    ASSUME IInv, Sleeping, NEW t \in Thread,
           \/ \E k \in Ops : Start(t, k)
           \/ SeeFinished(t) \/ WaitStart(t) \/ Proceed(t)
    PROVE  Sleeping'
<1>1. \A u \in Thread : SleepOf(u)
  BY DEF Sleeping, SleepOf
<1>2. PhaseOf(t) /\ WaitOf(t) /\ StandingOf(t)
  BY Own
<1>3. \A u \in Thread \ {t} : reqSt'[u] = reqSt[u] /\ reqSth'[u] = reqSth[u]
  BY DEF Start, SeeFinished, WaitStart, Proceed, Enter, Delegate, Publish, ExecuteImm, Call, CallLocked,
         Leave, LeaveToNext, Stop, WaitFunc, Return, reqVars, IInv, TypeOK
<1>4. ASSUME NEW u \in Thread \ {t}, pc'[u] \in {"link", "blocked"}
      PROVE  pc'[u] = pc[u]
  <2>1. CASE LeaveToNext(t)
    <3>1. PICK l : Follow(t, l)
      BY <2>1 DEF LeaveToNext
    <3>2. \/ pc' = [pc EXCEPT ![t] = l, ![sth[Successor]] = "cs"]
          \/ pc' = [pc EXCEPT ![t] = l, ![Con] = "consume"]
      BY <3>1 DEF Follow, FollowTo, HandToConsumer, GotoAndWake
    <3> QED
      BY <1>4, <3>2, Nils DEF IInv, TypeOK
  <2>2. CASE Stop(t)
    BY <1>4, <2>2, StopRequests
  <2>3. CASE ~LeaveToNext(t) /\ ~Stop(t)
    <3>1. \E l : Goto(t, l)
      BY <2>3 DEF Start, SeeFinished, WaitStart, Proceed, Enter, StartLock, Delegate, Publish, Link,
         ExecuteImm, CallLocked, SetFinished, Leave, Unlock, UnlockAndWait, WaitFunc, Return
    <3> QED
      BY <3>1 DEF Goto, IInv, TypeOK
  <2> QED
    BY <2>1, <2>2, <2>3
<1>5. SleepOf(t)'
  <2>1. CASE \E k \in Ops : Start(t, k)
    <3>1. pc'[t] = "lock"
      BY <2>1 DEF Start, Goto, IInv, TypeOK
    <3> QED
      BY <3>1 DEF SleepOf
  <2>2. CASE Delegate(t)
    <3>1. pc[t] = "save"
      BY <2>2 DEF Delegate
    <3>2. CASE op[t] = "block"
      <4>1. reqSt'[t] = "waiting"
        BY <2>2, <3>2 DEF Delegate, IInv, TypeOK
      <4> QED
        BY <4>1 DEF SleepOf
    <3>3. CASE op[t] # "block"
      <4>1. ~reqSth'[t]
        BY <1>2, <2>2, <3>1, <3>3 DEF Delegate, WaitOf
      <4> QED
        BY <4>1 DEF SleepOf
    <3> QED
      BY <3>2, <3>3
  <2>3. CASE Publish(t)
    <3>1. pc[t] = "link" /\ reqSt' = reqSt /\ reqSth' = reqSth
      BY <2>3 DEF Publish, Link, reqVars
    <3> QED
      BY <1>1, <3>1 DEF SleepOf
  <2>4. CASE LeaveToNext(t)
    <3>1. CASE pc[t] = "follow_wait"
      <4>1. reqSt[t] = "waiting" /\ reqSt' = reqSt
        BY <1>2, <2>4, <3>1 DEF LeaveToNext, PhaseOf, reqVars
      <4> QED
        BY <4>1 DEF SleepOf
    <3>2. CASE pc[t] = "follow"
      <4>1. ~reqSth'[t]
        BY <1>2, <2>4, <3>2 DEF LeaveToNext, WaitOf, reqVars
      <4> QED
        BY <4>1 DEF SleepOf
    <3> QED
      BY <2>4, <3>1, <3>2 DEF LeaveToNext
  <2>5. CASE WaitFunc(t)
    BY <2>5 DEF WaitFunc, Goto, SleepOf, IInv, TypeOK
  <2>6. CASE \/ SeeFinished(t) \/ WaitStart(t) \/ Return(t) \/ Enter(t)
             \/ ExecuteImm(t) \/ CallLocked(t) \/ Leave(t)
    <3>1. AfterUnlock(t) \in {"notify", "ret", "idle"}
      BY DEF AfterUnlock
    <3>2. pc'[t] \notin {"link", "blocked"}
      BY <2>6, <3>1 DEF SeeFinished, WaitStart, Return, Enter, StartLock, ExecuteImm, CallLocked,
         SetFinished, Leave, Unlock, UnlockAndWait, Goto, IInv, TypeOK
    <3> QED
      BY <3>2 DEF SleepOf
  <2>7. CASE Stop(t)
    <3>1. pc'[t] \in {"join", "stopped"}
      BY <2>7, StopRequests
    <3> QED
      BY <3>1 DEF SleepOf
  <2> QED
    BY <2>1, <2>2, <2>3, <2>4, <2>5, <2>6, <2>7 DEF Proceed
<1>6. \A u \in Thread \ {t} : SleepOf(u)'
  BY <1>1, <1>3, <1>4 DEF SleepOf
<1> QED
  BY <1>5, <1>6 DEF Sleeping, SleepOf

LEMMA ConsumeSleep ==
    ASSUME IInv, Sleeping, Consume, "consumer" \notin NullBy
    PROVE  Sleeping'
<1>1. CASE Progress
  <2>1. \A u \in Thread :
          /\ reqSt'[u] = IF u \in Completed \ Woken THEN "finished" ELSE reqSt[u]
          /\ reqSth'[u] = IF u \in Woken THEN FALSE ELSE reqSth[u]
          /\ pc'[u] = IF u \in Woken /\ u # awake' THEN "ret" ELSE pc[u]
    BY <1>1, ProgressDevice
  <2>2. ASSUME NEW u \in Thread, pc'[u] \in {"link", "blocked"}, reqSth'[u]
        PROVE  reqSt'[u] = "waiting"
    <3>1. u \notin Woken /\ reqSth[u] /\ pc'[u] = pc[u]
      BY <2>1, <2>2
    <3>2. reqSt[u] = "waiting"
      BY <2>2, <3>1 DEF Sleeping
    <3>3. u \notin Completed
      BY <3>1, <3>2 DEF Woken, Waiting
    <3> QED
      BY <2>1, <3>2, <3>3
  <2> QED
    BY <2>2 DEF Sleeping
<1>2. ASSUME reqSt' = reqSt, reqSth' = reqSth,
             \A u \in Thread : pc'[u] \in {"link", "blocked"} => pc'[u] = pc[u]
      PROVE  Sleeping'
  BY <1>2 DEF Sleeping
<1>3. CASE ConsumeIdle
  BY <1>2, <1>3, ConsumeIdleDevice DEF ConsumeIdle, reqVars
<1>4. CASE ConsumeRetry
  BY <1>2, <1>4, ConsumeRetryDevice DEF ConsumeRetry, reqVars
<1>5. CASE ConsumeLock
  <2>1. PICK u \in Thread : pc'[u] = "cs" /\ \A v \in Thread \ {u} : pc'[v] = pc[v]
    BY <1>5, LockerStep
  <2>2. \A v \in Thread : pc'[v] \in {"link", "blocked"} => pc'[v] = pc[v]
    BY <2>1
  <2> QED
    BY <1>2, <1>5, <2>2 DEF ConsumeLock, reqVars
<1>6. CASE ConsumeCall
  <2>1. pc' = pc /\ reqSth' = reqSth
    BY <1>6 DEF ConsumeCall, ConsumeFunc
  <2>2. reqSt' = reqSt
    <3>1. Nulls("consumer") = {FALSE}
      BY DEF Nulls
    <3>2. Call(func[CurHead].op, func[CurHead].by, FALSE, FALSE)
      BY <1>6, <3>1 DEF ConsumeCall
    <3> QED
      BY <3>2 DEF Call
  <2> QED
    BY <1>2, <2>1, <2>2
<1>7. CASE ConsumeEnd
  <2>1. \A u \in Thread : pc'[u] \in {"link", "blocked"} => pc'[u] = pc[u]
    BY <1>7, ConsumeEndRequests
  <2> QED
    BY <1>2, <1>7, <2>1 DEF ConsumeEnd, reqVars
<1> QED
  BY <1>1, <1>3, <1>4, <1>5, <1>6, <1>7 DEF Consume

LEMMA SleepKept ==
    ASSUME "consumer" \notin NullBy
    PROVE  IInv /\ Sleeping /\ [Next]_vars => Sleeping'
<1> SUFFICES ASSUME IInv, Sleeping, [Next]_vars PROVE Sleeping'
  OBVIOUS
<1>1. ASSUME pc' = pc, reqSt' = reqSt, reqSth' = reqSth
      PROVE  Sleeping'
  BY <1>1 DEF Sleeping
<1>2. CASE UNCHANGED vars
  BY <1>1, <1>2 DEF vars, delVars, reqVars
<1>3. ASSUME NEW t \in Thread, MpiComplete(t)
      PROVE  Sleeping'
  BY <1>1, <1>3 DEF MpiComplete, delVars
<1>4. CASE Next
  BY <1>2, <1>3, <1>4, ThreadSleep, ConsumeSleep DEF Next, Stopped
<1> QED
  BY <1>2, <1>4

\* A request is served, and served once, unless MPI gives the consumer a null
\* request: it is in the holder or its function is queued until it completes, and
\* whoever sleeps in it is woken by complete_request.
THEOREM RequestIsServedOnceHolds ==
    ASSUME "consumer" \notin NullBy
    PROVE  Spec => []RequestIsServedOnce
<1>1. Init => Sleeping
  BY DEF Init, Sleeping
<1>2. IInv /\ Sleeping /\ [Next]_vars => Sleeping'
  BY SleepKept
<1>3. ASSUME IInv, Sleeping
      PROVE  RequestIsServed
  <2>1. ASSUME NEW t \in Thread,
               \/ pc[t] \in {"idle", "wait"} /\ reqSt[t] = "created"
               \/ pc[t] = "blocked" /\ reqSth[t]
        PROVE  \/ t \in Range(holder)
               \/ \E n \in Pending : func[n].by = t /\ HasRequest(func[n].op)
               \/ awake = t
    <3>1. StandingOf(t)
      BY <1>3, Own
    <3>2. t \in Given \/ awake = t
      BY <1>3, <2>1, <3>1 DEF StandingOf, Fresh, Sleeping
    <3> QED
      BY <3>2 DEF Given, Delegated, Carries
  <2> QED
    BY <2>1 DEF RequestIsServed
<1>4. StartedOnce /\ RequestIsServed => RequestIsServedOnce
  BY DEF RequestIsServedOnce
<1> QED
  BY <1>1, <1>2, <1>3, <1>4, InvHolds, StartedOnceHolds, PTL DEF Spec
=============================================================================
