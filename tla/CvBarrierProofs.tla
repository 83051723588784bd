-------------------------- MODULE CvBarrierProofs --------------------------
(***************************************************************************)
(* Proofs about CvBarrier, and with it about McsMutex, for any number of   *)
(* threads, nodes and rounds.                                              *)
(*                                                                         *)
(* The invariant has three parts.  The queue: whose node is where, that    *)
(* nodes are not shared, and that a node somebody queued up behind is      *)
(* neither the tail, nor free, nor about to be freed.  The condition       *)
(* variable: its entries form a chain that nobody enters twice, whose      *)
(* entries behind the first one are all asleep.  The barrier: what each    *)
(* thread has counted, relative to the generation.                         *)
(***************************************************************************)
EXTENDS CvBarrier, FiniteSetTheorems, TLAPS

HolderPC == MutexPC \cup {"take"}
HeadPC == MutexPC \ {"cas", "uw_cas"}
SpinPC == {"spin", "uw_spin", "uw_clear"}
DeadPC == {"dealloc", "asleep", "uw_dealloc"}
CurPC == {"take", "save", "link", "cas", "uw_cas"} \cup SpinPC \cup DeadPC

\* The nodes that have left the queue and are not given back yet.
Dead == {n \in Node : \E t \in Thread : pc[t] \in DeadPC /\ cur[t] = n}

\* A thread is suspended in n and its own node linked behind n.
Linked(n) == sth[n] \in Thread /\ pc[sth[n]] = "blocked"

\* One thread has the mutex or is about to; the queue is empty if none has.
OneHolder ==
    /\ \A t, u \in Thread : pc[t] \in HolderPC /\ pc[u] \in HolderPC => t = u
    /\ tail = Nil => head = Nil /\ \A t \in Thread : pc[t] \notin HolderPC

\* head_ and cur by the phase of the thread.
Phases ==
    \A t \in Thread :
        /\ pc[t] \in CurPC <=> cur[t] # Nil
        /\ pc[t] \in {"take", "cas", "uw_cas"} => head = Nil
        /\ pc[t] \in HeadPC => head # Nil
        /\ pc[t] \in SpinPC => head = cur[t]

\* A node belongs to one thread: to the one that has it in cur, to the holder as
\* head_, or to the suspended thread whose node is linked.
NoSharing ==
    /\ \A t, u \in Thread : cur[t] # Nil /\ cur[t] = cur[u] => t = u
    /\ \A t \in Thread : head # Nil /\ cur[t] = head => pc[t] \in SpinPC
    /\ \A n \in Node : Linked(n) => next[n] # Nil /\ next[n] # head
    /\ \A n \in Node, t \in Thread : Linked(n) => next[n] # cur[t]
    /\ \A n, m \in Node : Linked(n) /\ Linked(m) /\ next[n] = next[m] => n = m

\* No thread has a node that the pool may hand out.
NotFree ==
    /\ tail \notin free /\ head \notin free
    /\ \A t \in Thread : cur[t] \notin free
    /\ \A n \in Node : Linked(n) => next[n] \notin free

\* A node that somebody is queueing up behind.
Queueing ==
    /\ \A t \in Thread : pc[t] \in {"save", "link"} =>
        /\ pred[t] \in Node /\ pred[t] # tail /\ pred[t] \notin free
        /\ pred[t] \notin Dead /\ next[pred[t]] = Nil
    /\ \A t \in Thread : pc[t] = "save" => sth[pred[t]] = Nil
    /\ \A t \in Thread : pc[t] = "link" => sth[pred[t]] = t
    /\ \A t, u \in Thread :
        pc[t] \in {"save", "link"} /\ pc[u] \in {"save", "link"} /\ pred[t] = pred[u] => t = u

\* A node that somebody is suspended in.
Suspended ==
    /\ \A n \in Node : sth[n] # Nil =>
        /\ pc[sth[n]] \in {"link", "blocked"}
        /\ pc[sth[n]] = "link" => pred[sth[n]] = n
        /\ n # tail /\ n \notin free /\ n \notin Dead
    /\ \A n, m \in Node : sth[n] # Nil /\ sth[n] = sth[m] => n = m

\* The tail and the next pointers.
Links ==
    /\ tail # Nil => next[tail] = Nil /\ tail \notin Dead
    /\ \A n \in Node : next[n] # Nil => Linked(n) \/ n \in Dead

QueueInv == OneHolder /\ Phases /\ NoSharing /\ NotFree /\ Queueing /\ Suspended /\ Links

----------------------------------------------------------------------------
EntryPC == {"uw", "uw_clear", "uw_cas", "uw_spin", "asleep"}
NotifyPC == {"na_wake", "na_next", "na_done"}

\* Entries of the condition variable: the ones of waiting threads, each in front
\* of one that is asleep, and the one notify_all is reading.
Entries ==
    /\ \A t \in Thread : esth[t] <=> pc[t] \in {"uw_clear", "uw_cas", "asleep"}
    /\ \A t \in Thread : pc[t] \in EntryPC => inLoop[t]
    /\ \A t \in Thread : pc[t] \in EntryPC /\ enext[t] # Nil => pc[enext[t]] = "asleep"
    /\ \A t, u \in Thread :
        pc[t] \in EntryPC /\ pc[u] \in EntryPC /\ enext[t] # Nil /\ enext[t] = enext[u] => t = u
    /\ waiting # Nil /\ (\A t \in Thread : pc[t] \notin NotifyPC) =>
        /\ pc[waiting] \in EntryPC
        /\ \A t \in Thread : pc[t] \in EntryPC => enext[t] # waiting

\* notify_all has come to an entry: nobody else leads to what it reads next.
Notifying ==
    \A t \in Thread :
        /\ pc[t] = "na_wake" =>
            /\ we # Nil /\ pc[we] = "asleep"
            /\ \A u \in Thread : pc[u] \in EntryPC => enext[u] # we
        /\ pc[t] = "na_next" =>
            /\ we # Nil /\ inLoop[we]
            /\ pc[we] \in {"uw_dealloc", "lock", "save", "link", "blocked"}
            /\ enext[we] # Nil => pc[enext[we]] = "asleep"
            /\ \A u \in Thread : pc[u] \in EntryPC /\ enext[we] # Nil => enext[u] # enext[we]

CvInv == Entries /\ Notifying

----------------------------------------------------------------------------
\* The threads that wait for the generation to change, and the ones that have
\* called but not been counted yet.
Waiters == {t \in Thread : inLoop[t] /\ myGen[t] = gen}
ComingPC == {"lock", "take", "save", "link", "blocked", "in"}
Coming(t) == pc[t] \in ComingPC /\ ~inLoop[t]

\* Nobody is more than a round away from the generation.
Rounds ==
    /\ count = Cardinality(Waiters)
    /\ \A t \in Thread :
        /\ arrived[t] = IF t \in Waiters \/ Coming(t) THEN gen + 1 ELSE gen
        /\ arrived[t] = IF pc[t] = "out" THEN left[t] ELSE left[t] + 1
        /\ inLoop[t] => pc[t] \in ComingPC \cup EntryPC \cup {"uw_dealloc"}
        /\ pc[t] = "uw_dealloc" => inLoop[t]

IInv == TypeOK /\ QueueInv /\ CvInv /\ Rounds

----------------------------------------------------------------------------
(* The queue *)

\* Two phases that the queue cannot tell apart.
SamePhase(k, l) ==
    \A S \in {HolderPC, CurPC, {"take", "cas", "uw_cas"}, HeadPC, SpinPC, DeadPC,
              {"save"}, {"link"}, {"blocked"}} : k \in S <=> l \in S

\* A step that leaves the queue alone.
LEMMA QuietStep ==
    ASSUME MtxTypeOK, QueueInv, UNCHANGED <<core, nodeVars>>,
           \A u \in Thread : SamePhase(pc[u], pc'[u])
    PROVE  QueueInv'
<1>1. /\ tail' = tail /\ head' = head /\ next' = next /\ free' = free
      /\ cur' = cur /\ pred' = pred /\ sth' = sth
  BY DEF core, nodeVars
<1>2. \A u \in Thread :
        /\ pc[u] \in HolderPC <=> pc'[u] \in HolderPC
        /\ pc[u] \in CurPC <=> pc'[u] \in CurPC
        /\ pc[u] \in {"take", "cas", "uw_cas"} <=> pc'[u] \in {"take", "cas", "uw_cas"}
        /\ pc[u] \in HeadPC <=> pc'[u] \in HeadPC
        /\ pc[u] \in SpinPC <=> pc'[u] \in SpinPC
        /\ pc[u] \in DeadPC <=> pc'[u] \in DeadPC
        /\ pc[u] = "save" <=> pc'[u] = "save"
        /\ pc[u] = "link" <=> pc'[u] = "link"
        /\ pc[u] = "blocked" <=> pc'[u] = "blocked"
  BY DEF SamePhase
<1>3. Dead' = Dead
  BY <1>1, <1>2 DEF Dead
<1>4. \A n \in Node : Linked(n)' <=> Linked(n)
  BY <1>1, <1>2 DEF Linked
<1>5. OneHolder' /\ Phases'
  BY <1>1, <1>2 DEF QueueInv, OneHolder, Phases
<1>6. NoSharing' /\ NotFree' /\ Links'
  BY <1>1, <1>2, <1>3, <1>4 DEF QueueInv, NoSharing, NotFree, Links
<1>7. Queueing'
  BY <1>1, <1>2, <1>3 DEF QueueInv, Queueing
<1>8. Suspended'
  <2>1. \A n \in Node : sth[n] # Nil => sth[n] \in Thread
    BY DEF MtxTypeOK
  <2> QED
    BY <1>1, <1>2, <1>3, <2>1 DEF QueueInv, Suspended
<1> QED
  BY <1>5, <1>6, <1>7, <1>8 DEF QueueInv

\* Facts about the queue that the steps use.
LEMMA QueueFacts ==
    ASSUME MtxTypeOK, QueueInv
    PROVE  /\ \A n \in Node : sth[n] # Nil => sth[n] \in Thread
           /\ \A t \in Thread : cur[t] # Nil => cur[t] \in Node
           /\ \A n \in free : n \in Node /\ sth[n] = Nil /\ n \notin Dead /\ ~Linked(n) /\ next[n] = Nil
           /\ Nil \notin Node
<1>1. \A n \in Node : sth[n] # Nil => sth[n] \in Thread
  BY DEF MtxTypeOK
<1>2. \A t \in Thread : cur[t] # Nil => cur[t] \in Node
  BY DEF MtxTypeOK
<1>3. ASSUME NEW n \in free
      PROVE  n \in Node /\ sth[n] = Nil /\ n \notin Dead /\ ~Linked(n) /\ next[n] = Nil
  <2>1. n \in Node
    BY DEF MtxTypeOK, CoreTypeOK
  <2>2. sth[n] = Nil
    BY <2>1 DEF QueueInv, Suspended
  <2>3. ~Linked(n)
    BY <2>2, ThreadAssumption DEF Linked
  <2>4. n \notin Dead
    BY DEF Dead, QueueInv, NotFree
  <2> QED
    BY <2>1, <2>2, <2>3, <2>4 DEF QueueInv, Links
<1> QED
  BY <1>1, <1>2, <1>3, NodeAssumption

\* A node is enqueued.
LEMMA LockStartQueue ==
    ASSUME MtxTypeOK, QueueInv, NEW t \in Thread, LockStart(t)
    PROVE  QueueInv'
<1>1. PICK n \in free :
        /\ free' = free \ {n}
        /\ next' = [next EXCEPT ![n] = Nil]
        /\ tail' = n
        /\ cur' = [cur EXCEPT ![t] = n]
  BY DEF LockStart
<1>2. /\ n \in Node /\ n # Nil /\ sth[n] = Nil /\ n \notin Dead /\ ~Linked(n) /\ next[n] = Nil
  BY QueueFacts
<1>3. /\ next' = next /\ head' = head /\ sth' = sth
      /\ pc[t] = "lock" /\ pc'[t] = (IF tail = Nil THEN "take" ELSE "save")
      /\ cur'[t] = n /\ pred'[t] = tail
      /\ \A u \in Thread \ {t} : pc'[u] = pc[u] /\ cur'[u] = cur[u] /\ pred'[u] = pred[u]
      /\ cur[t] = Nil
  <2>1. next' = next
    BY <1>1, <1>2 DEF MtxTypeOK, CoreTypeOK
  <2>2. cur[t] = Nil
    BY DEF LockStart, QueueInv, Phases, CurPC, SpinPC, DeadPC
  <2> QED
    BY <1>1, <2>1, <2>2 DEF LockStart, Goto, WasFree, MtxTypeOK
<1>4. Dead' = Dead
  <2>1. pc[t] \notin DeadPC /\ pc'[t] \notin DeadPC
    BY <1>3 DEF DeadPC
  <2> QED
    BY <1>3, <2>1 DEF Dead
<1>5. \A m \in Node : Linked(m)' <=> Linked(m)
  BY <1>3 DEF Linked
<1>6. OneHolder'
  <2>1. pc'[t] \in HolderPC => tail = Nil
    BY <1>3 DEF HolderPC, MutexPC
  <2>2. \A u \in Thread \ {t} : pc'[u] \in HolderPC => pc[u] \in HolderPC
    BY <1>3
  <2> QED
    BY <1>1, <1>2, <2>1, <2>2 DEF QueueInv, OneHolder
<1>7. Phases'
  <2>1. /\ pc'[t] \in CurPC /\ cur'[t] # Nil
        /\ pc'[t] \in {"take", "cas", "uw_cas"} => head' = Nil
        /\ pc'[t] \notin HeadPC /\ pc'[t] \notin SpinPC
    BY <1>2, <1>3 DEF QueueInv, OneHolder, CurPC, HeadPC, MutexPC, SpinPC
  <2>2. \A u \in Thread \ {t} :
        /\ pc'[u] \in CurPC <=> cur'[u] # Nil
        /\ pc'[u] \in {"take", "cas", "uw_cas"} => head' = Nil
        /\ pc'[u] \in HeadPC => head' # Nil
        /\ pc'[u] \in SpinPC => head' = cur'[u]
    BY <1>3 DEF QueueInv, Phases
  <2> QED
    BY <2>1, <2>2 DEF Phases
<1>8. NoSharing'
  <2>1. \A u \in Thread : cur[u] # n
    BY DEF QueueInv, NotFree
  <2>2. n # head /\ \A m \in Node : Linked(m) => next[m] # n
    BY DEF QueueInv, NotFree
  <2>3. \A u \in Thread : head' # Nil /\ cur'[u] = head' => pc'[u] \in SpinPC
    BY <1>3, <2>2 DEF QueueInv, NoSharing
  <2>4. \A u, v \in Thread : cur'[u] # Nil /\ cur'[u] = cur'[v] => u = v
    BY <1>3, <2>1 DEF QueueInv, NoSharing
  <2>5. \A m \in Node, u \in Thread : Linked(m)' => next'[m] # cur'[u]
    BY <1>3, <1>5, <2>2 DEF QueueInv, NoSharing
  <2>6. /\ \A m \in Node : Linked(m)' => next'[m] # Nil /\ next'[m] # head'
        /\ \A k, m \in Node : Linked(k)' /\ Linked(m)' /\ next'[k] = next'[m] => k = m
    BY <1>3, <1>5 DEF QueueInv, NoSharing
  <2> QED
    BY <2>3, <2>4, <2>5, <2>6 DEF NoSharing
<1>9. NotFree'
  BY <1>1, <1>3, <1>5 DEF QueueInv, NotFree
<1>10. Queueing'
  <2>1. pc'[t] = "save" => /\ tail # Nil /\ tail \in Node
                           /\ tail # n /\ tail \notin free /\ tail \notin Dead /\ next[tail] = Nil
                           /\ sth[tail] = Nil
    BY <1>3 DEF QueueInv, Links, NotFree, Suspended, MtxTypeOK, CoreTypeOK
  <2>2. pc'[t] # "link"
    BY <1>3
  <2>3. \A u \in Thread : pc'[u] \in {"save", "link"} =>
            /\ pred'[u] \in Node /\ pred'[u] # tail' /\ pred'[u] \notin free'
            /\ pred'[u] \notin Dead' /\ next'[pred'[u]] = Nil
    <3>1. CASE pc'[t] # "save"
      BY <1>1, <1>3, <1>4, <2>2, <3>1 DEF QueueInv, Queueing
    <3>2. CASE pc'[t] = "save"
      BY <1>1, <1>3, <1>4, <2>1, <3>2 DEF QueueInv, Queueing
    <3> QED
      BY <3>1, <3>2
  <2>4. \A u \in Thread : pc'[u] = "save" => sth'[pred'[u]] = Nil
    BY <1>3, <2>1 DEF QueueInv, Queueing
  <2>5. \A u, v \in Thread :
          pc'[u] \in {"save", "link"} /\ pc'[v] \in {"save", "link"} /\ pred'[u] = pred'[v] => u = v
    BY <1>3, <2>2 DEF QueueInv, Queueing
  <2>6. \A u \in Thread : pc'[u] = "link" => sth'[pred'[u]] = u
    BY <1>3, <2>2 DEF QueueInv, Queueing
  <2> QED
    BY <2>3, <2>4, <2>5, <2>6 DEF Queueing
<1>11. Suspended'
  <2>1. \A m \in Node : sth[m] # Nil => sth[m] # t /\ sth[m] \in Thread
    BY <1>3, QueueFacts DEF QueueInv, Suspended
  <2> QED
    BY <1>1, <1>2, <1>3, <1>4, <2>1 DEF QueueInv, Suspended
<1>12. Links'
  BY <1>1, <1>2, <1>3, <1>4, <1>5 DEF QueueInv, Links
<1> QED
  BY <1>6, <1>7, <1>8, <1>9, <1>10, <1>11, <1>12 DEF QueueInv

\* The first node becomes head_.
LEMMA LockTakeQueue ==
    ASSUME MtxTypeOK, QueueInv, NEW t \in Thread, LockTake(t)
    PROVE  QueueInv'
<1>1. /\ tail' = tail /\ next' = next /\ free' = free /\ pred' = pred /\ sth' = sth
      /\ head' = cur[t] /\ cur'[t] = Nil /\ pc[t] = "take" /\ pc'[t] = "in"
      /\ \A u \in Thread \ {t} : pc'[u] = pc[u] /\ cur'[u] = cur[u]
  BY DEF LockTake, Goto, MtxTypeOK
<1>2. cur[t] # Nil /\ cur[t] \in Node /\ head = Nil
  BY <1>1, QueueFacts DEF QueueInv, Phases, CurPC
<1>3. Dead' = Dead
  <2>1. pc[t] \notin DeadPC /\ pc'[t] \notin DeadPC
    BY <1>1 DEF DeadPC
  <2> QED
    BY <1>1, <2>1 DEF Dead
<1>4. \A m \in Node : Linked(m)' <=> Linked(m)
  BY <1>1 DEF Linked
<1>5. \A u \in Thread : pc[u] \in HolderPC <=> pc'[u] \in HolderPC
  BY <1>1 DEF HolderPC, MutexPC
<1>6. \A u \in Thread \ {t} : pc[u] \notin HolderPC
  BY <1>1 DEF QueueInv, OneHolder, HolderPC
<1>7. OneHolder'
  BY <1>1, <1>2, <1>5 DEF QueueInv, OneHolder, HolderPC
<1>8. Phases'
  <2>1. pc'[t] \notin CurPC /\ pc'[t] \notin {"take", "cas", "uw_cas"} /\ pc'[t] \notin SpinPC
    BY <1>1 DEF CurPC, SpinPC, DeadPC
  <2>2. \A u \in Thread \ {t} : pc'[u] \notin {"take", "cas", "uw_cas"} /\ pc'[u] \notin HeadPC
                                /\ pc'[u] \notin SpinPC
    BY <1>1, <1>6 DEF HolderPC, HeadPC, MutexPC, SpinPC
  <2> QED
    BY <1>1, <1>2, <2>1, <2>2 DEF QueueInv, Phases
<1>9. NoSharing'
  BY <1>1, <1>2, <1>4 DEF QueueInv, NoSharing
<1>10. NotFree'
  BY <1>1, <1>2, <1>4, QueueFacts DEF QueueInv, NotFree
<1>11. Queueing'
  BY <1>1, <1>3 DEF QueueInv, Queueing
<1>12. Suspended'
  <2>1. \A m \in Node : sth[m] # Nil => sth[m] # t /\ sth[m] \in Thread
    BY <1>1, QueueFacts DEF QueueInv, Suspended
  <2> QED
    BY <1>1, <1>3, <2>1 DEF QueueInv, Suspended
<1>13. Links'
  BY <1>1, <1>3, <1>4 DEF QueueInv, Links
<1> QED
  BY <1>7, <1>8, <1>9, <1>10, <1>11, <1>12, <1>13 DEF QueueInv

\* The continuation is saved in the predecessor's node.
LEMMA LockSaveQueue ==
    ASSUME MtxTypeOK, QueueInv, NEW t \in Thread, LockSave(t)
    PROVE  QueueInv'
<1>1. /\ tail' = tail /\ head' = head /\ next' = next /\ free' = free /\ pred' = pred /\ cur' = cur
      /\ pc[t] = "save" /\ pc'[t] = "link"
      /\ \A u \in Thread \ {t} : pc'[u] = pc[u]
  BY DEF LockSave, Goto, MtxTypeOK, core
<1>2. /\ pred[t] \in Node /\ pred[t] # tail /\ pred[t] \notin free /\ pred[t] \notin Dead
      /\ sth[pred[t]] = Nil
  BY <1>1 DEF QueueInv, Queueing
<1>3. sth'[pred[t]] = t /\ \A n \in Node \ {pred[t]} : sth'[n] = sth[n]
  BY <1>2 DEF LockSave, Suspend, MtxTypeOK
<1>4. \A m \in Node : sth[m] # Nil => sth[m] # t /\ sth[m] \in Thread
  BY <1>1, QueueFacts DEF QueueInv, Suspended
<1>5. Dead' = Dead
  <2>1. pc[t] \notin DeadPC /\ pc'[t] \notin DeadPC
    BY <1>1 DEF DeadPC
  <2> QED
    BY <1>1, <2>1 DEF Dead
<1>6. \A m \in Node : Linked(m)' <=> Linked(m)
  BY <1>1, <1>2, <1>3, <1>4, ThreadAssumption DEF Linked
<1>7. /\ pc[t] \notin HolderPC /\ pc'[t] \notin HolderPC /\ pc[t] \in CurPC /\ pc'[t] \in CurPC
      /\ pc'[t] \notin {"take", "cas", "uw_cas"} /\ pc'[t] \notin HeadPC /\ pc'[t] \notin SpinPC
      /\ pc[t] \notin SpinPC
  BY <1>1 DEF HolderPC, MutexPC, CurPC, HeadPC, SpinPC
<1>8. OneHolder' /\ Phases'
  BY <1>1, <1>7 DEF QueueInv, OneHolder, Phases
<1>9. NoSharing'
  BY <1>1, <1>6, <1>7 DEF QueueInv, NoSharing
<1>10. NotFree'
  BY <1>1, <1>6 DEF QueueInv, NotFree
<1>11. Queueing'
  <2>1. \A u \in Thread : pc'[u] = "save" => sth'[pred'[u]] = Nil
    BY <1>1, <1>3 DEF QueueInv, Queueing
  <2>2. \A u \in Thread : pc'[u] = "link" => sth'[pred'[u]] = u
    BY <1>1, <1>3 DEF QueueInv, Queueing
  <2> QED
    BY <1>1, <1>5, <2>1, <2>2 DEF QueueInv, Queueing
<1>12. Suspended'
  <2>1. \A m \in Node : sth'[m] # Nil =>
        /\ pc'[sth'[m]] \in {"link", "blocked"}
        /\ pc'[sth'[m]] = "link" => pred'[sth'[m]] = m
        /\ m # tail' /\ m \notin free' /\ m \notin Dead'
    BY <1>1, <1>2, <1>3, <1>4, <1>5 DEF QueueInv, Suspended
  <2>2. \A n, m \in Node : sth'[n] # Nil /\ sth'[n] = sth'[m] => n = m
    BY <1>3, <1>4 DEF QueueInv, Suspended
  <2> QED
    BY <2>1, <2>2 DEF Suspended
<1>13. Links'
  BY <1>1, <1>5, <1>6 DEF QueueInv, Links
<1> QED
  BY <1>8, <1>9, <1>10, <1>11, <1>12, <1>13 DEF QueueInv

\* The node is linked behind the predecessor.
LEMMA LockLinkQueue ==
    ASSUME MtxTypeOK, QueueInv, NEW t \in Thread, LockLink(t)
    PROVE  QueueInv'
<1>1. /\ tail' = tail /\ head' = head /\ free' = free /\ sth' = sth
      /\ pc[t] = "link" /\ pc'[t] = "blocked" /\ cur'[t] = Nil
      /\ \A u \in Thread \ {t} : pc'[u] = pc[u] /\ cur'[u] = cur[u] /\ pred'[u] = pred[u]
  BY DEF LockLink, Goto, MtxTypeOK
<1>2. PICK p \in Node :
      /\ p = pred[t] /\ p # tail /\ p \notin free /\ p \notin Dead
      /\ next[p] = Nil /\ sth[p] = t
  BY <1>1 DEF QueueInv, Queueing
<1>3. PICK c \in Node : c = cur[t] /\ c # Nil
  BY <1>1, QueueFacts DEF QueueInv, Phases, CurPC
<1>4. next'[p] = c /\ \A n \in Node \ {p} : next'[n] = next[n]
  BY <1>2, <1>3 DEF LockLink, SetNext, MtxTypeOK, CoreTypeOK
<1>5. \A m \in Node : sth[m] # Nil => sth[m] \in Thread /\ (sth[m] = t => m = p)
  BY <1>1, <1>2, QueueFacts DEF QueueInv, Suspended
<1>6. Dead' = Dead
  <2>1. pc[t] \notin DeadPC /\ pc'[t] \notin DeadPC
    BY <1>1 DEF DeadPC
  <2> QED
    BY <1>1, <2>1 DEF Dead
<1>7. \A m \in Node \ {p} : Linked(m)' <=> Linked(m)
  BY <1>1, <1>5, ThreadAssumption DEF Linked
<1>8. ~Linked(p)
  BY <1>1, <1>2 DEF Linked
<1>9. /\ pc[t] \notin HolderPC /\ pc'[t] \notin HolderPC /\ pc'[t] \notin CurPC
      /\ pc'[t] \notin {"take", "cas", "uw_cas"} /\ pc'[t] \notin HeadPC /\ pc'[t] \notin SpinPC
      /\ pc[t] \notin SpinPC
  BY <1>1 DEF HolderPC, MutexPC, CurPC, HeadPC, SpinPC, DeadPC
<1>10. OneHolder' /\ Phases'
  BY <1>1, <1>9 DEF QueueInv, OneHolder, Phases
<1>11. NoSharing'
  <2>1. c # head
    BY <1>3, <1>9 DEF QueueInv, NoSharing
  <2>2. /\ \A u \in Thread \ {t} : cur[u] # c
        /\ \A m \in Node : Linked(m) => next[m] # c
    BY <1>3 DEF QueueInv, NoSharing
  <2>3. \A m \in Node : Linked(m)' => next'[m] # Nil /\ next'[m] # head'
    BY <1>1, <1>3, <1>4, <1>7, <2>1 DEF QueueInv, NoSharing
  <2>4. \A m \in Node, u \in Thread : Linked(m)' => next'[m] # cur'[u]
    BY <1>1, <1>3, <1>4, <1>7, <2>2, <2>3 DEF QueueInv, NoSharing
  <2>5. \A n, m \in Node : Linked(n)' /\ Linked(m)' /\ next'[n] = next'[m] => n = m
    BY <1>4, <1>7, <2>2 DEF QueueInv, NoSharing
  <2>6. /\ \A u, v \in Thread : cur'[u] # Nil /\ cur'[u] = cur'[v] => u = v
        /\ \A u \in Thread : head' # Nil /\ cur'[u] = head' => pc'[u] \in SpinPC
    BY <1>1 DEF QueueInv, NoSharing
  <2> QED
    BY <2>3, <2>4, <2>5, <2>6 DEF NoSharing
<1>12. NotFree'
  BY <1>1, <1>3, <1>4, <1>7, NodeAssumption, QueueFacts DEF QueueInv, NotFree
<1>13. Queueing'
  BY <1>1, <1>2, <1>4, <1>6 DEF QueueInv, Queueing
<1>14. Suspended'
  <2>1. \A m \in Node : sth'[m] # Nil =>
        /\ pc'[sth'[m]] \in {"link", "blocked"}
        /\ pc'[sth'[m]] = "link" => pred'[sth'[m]] = m
        /\ m # tail' /\ m \notin free' /\ m \notin Dead'
    BY <1>1, <1>5, <1>6 DEF QueueInv, Suspended
  <2> QED
    BY <1>1, <2>1 DEF QueueInv, Suspended
<1>15. Links'
  <2>1. Linked(p)'
    BY <1>1, <1>2 DEF Linked
  <2> QED
    BY <1>1, <1>2, <1>4, <1>6, <1>7, <2>1 DEF QueueInv, Links, MtxTypeOK, CoreTypeOK
<1> QED
  BY <1>10, <1>11, <1>12, <1>13, <1>14, <1>15 DEF QueueInv

\* A step of the holder that moves its node from head_ to cur, from cur to head_,
\* or does not move it: unlock and unlock_and_wait up to the compare-and-swap.
LEMMA HolderQueue ==
    ASSUME MtxTypeOK, QueueInv, NEW t \in Thread,
           UNCHANGED <<tail, next, free, pred, sth>>,
           pc[t] \in MutexPC, pc'[t] \in MutexPC,
           \A u \in Thread \ {t} : pc'[u] = pc[u] /\ cur'[u] = cur[u],
           head' \in {head, cur[t], Nil}, cur'[t] \in {cur[t], head}, cur'[t] # Nil,
           pc[t] \in CurPC => cur'[t] = cur[t],
           \/ pc'[t] \in SpinPC /\ head' = cur'[t]
           \/ pc'[t] \in {"cas", "uw_cas"} /\ head' = Nil
    PROVE  QueueInv'
<1>1. pc'[t] \in CurPC /\ pc[t] \in HolderPC /\ pc'[t] \in HolderPC /\ pc'[t] \notin DeadPC
      /\ pc[t] \notin DeadPC /\ pc[t] # "blocked" /\ pc[t] \notin {"save", "link"}
      /\ pc'[t] # "blocked" /\ pc'[t] \notin {"save", "link"}
  BY DEF CurPC, HolderPC, MutexPC, SpinPC, DeadPC
<1>2. \A u \in Thread \ {t} : pc[u] \notin HolderPC
  BY <1>1 DEF QueueInv, OneHolder
<1>3. \A u \in Thread \ {t} : /\ pc'[u] \notin {"take", "cas", "uw_cas"} /\ pc'[u] \notin HeadPC
                              /\ pc'[u] \notin SpinPC
  BY <1>2 DEF HolderPC, HeadPC, MutexPC, SpinPC
<1>4. Dead' = Dead
  BY <1>1 DEF Dead
<1>5. \A m \in Node : Linked(m)' <=> Linked(m)
  BY <1>1 DEF Linked
<1>6. /\ \A u \in Thread \ {t} : cur'[t] # cur[u]
      /\ \A m \in Node : Linked(m) => next[m] # cur'[t]
      /\ cur'[t] \notin free
  <2>1. CASE cur'[t] = cur[t]
    BY <2>1 DEF QueueInv, NoSharing, NotFree
  <2>2. CASE cur'[t] = head
    <3>1. \A u \in Thread \ {t} : pc[u] \notin SpinPC
      BY <1>3
    <3> QED
      BY <2>2, <3>1 DEF QueueInv, NoSharing, NotFree
  <2> QED
    BY <2>1, <2>2
<1>7. head' = Nil \/ head' = cur'[t]
  OBVIOUS
<1>8. OneHolder'
  BY <1>1 DEF QueueInv, OneHolder
<1>9. Phases'
  <2>1. pc'[t] \in {"cas", "uw_cas"} => pc'[t] \notin HeadPC /\ pc'[t] \notin SpinPC
    BY DEF HeadPC, SpinPC
  <2>2. pc'[t] \in SpinPC => pc'[t] \notin {"take", "cas", "uw_cas"}
    BY DEF SpinPC
  <2> QED
    BY <1>1, <1>3, <2>1, <2>2 DEF QueueInv, Phases
<1>10. NoSharing'
  <2>1. \A u, v \in Thread : cur'[u] # Nil /\ cur'[u] = cur'[v] => u = v
    BY <1>6 DEF QueueInv, NoSharing
  <2>2. \A u \in Thread : head' # Nil /\ cur'[u] = head' => pc'[u] \in SpinPC
    BY <1>6, <1>7
  <2>3. \A m \in Node : Linked(m)' => next'[m] # Nil /\ next'[m] # head'
    BY <1>5, <1>6, <1>7 DEF QueueInv, NoSharing
  <2>4. \A m \in Node, u \in Thread : Linked(m)' => next'[m] # cur'[u]
    BY <1>5, <1>6 DEF QueueInv, NoSharing
  <2>5. \A n, m \in Node : Linked(n)' /\ Linked(m)' /\ next'[n] = next'[m] => n = m
    BY <1>5 DEF QueueInv, NoSharing
  <2> QED
    BY <2>1, <2>2, <2>3, <2>4, <2>5 DEF NoSharing
<1>11. NotFree'
  BY <1>5, <1>6, <1>7, NodeAssumption, QueueFacts DEF QueueInv, NotFree
<1>12. Queueing'
  BY <1>1, <1>4 DEF QueueInv, Queueing
<1>13. Suspended'
  <2>1. \A m \in Node : sth[m] # Nil => sth[m] # t /\ sth[m] \in Thread
    BY <1>1, QueueFacts DEF QueueInv, Suspended
  <2> QED
    BY <1>1, <1>4, <2>1 DEF QueueInv, Suspended
<1>14. Links'
  BY <1>4, <1>5 DEF QueueInv, Links
<1> QED
  BY <1>8, <1>9, <1>10, <1>11, <1>12, <1>13, <1>14 DEF QueueInv

\* The compare-and-swap of try_unlock succeeds: the queue is empty.
LEMMA EmptyQueueStep ==
    ASSUME MtxTypeOK, QueueInv, NEW t \in Thread,
           UNCHANGED <<next, free, head, cur, pred, sth>>, tail' = Nil, tail = cur[t],
           pc[t] \in {"cas", "uw_cas"}, pc'[t] \in DeadPC,
           \A u \in Thread \ {t} : pc'[u] = pc[u]
    PROVE  QueueInv'
<1>1. /\ pc[t] \in HolderPC /\ pc'[t] \notin HolderPC /\ pc'[t] \in CurPC /\ pc[t] \in CurPC
      /\ pc[t] \notin DeadPC /\ pc[t] # "blocked" /\ pc[t] \notin {"save", "link"}
      /\ pc[t] \notin SpinPC /\ pc'[t] \notin {"take", "cas", "uw_cas"}
      /\ pc'[t] # "blocked" /\ pc'[t] \notin {"save", "link"}
      /\ pc'[t] \notin HeadPC /\ pc'[t] \notin SpinPC
  BY DEF CurPC, HolderPC, HeadPC, MutexPC, SpinPC, DeadPC
<1>2. \A u \in Thread : pc'[u] \notin HolderPC
  BY <1>1 DEF QueueInv, OneHolder
<1>3. head = Nil /\ tail # Nil /\ tail \in Node
  BY <1>1, QueueFacts DEF QueueInv, Phases
<1>4. Dead' = Dead \cup {tail}
  BY <1>1, <1>3 DEF Dead
<1>5. \A m \in Node : Linked(m)' <=> Linked(m)
  BY <1>1 DEF Linked
<1>6. OneHolder' /\ Phases'
  BY <1>1, <1>2, <1>3 DEF QueueInv, OneHolder, Phases
<1>7. NoSharing'
  BY <1>1, <1>3, <1>5 DEF QueueInv, NoSharing
<1>8. NotFree'
  BY <1>5, QueueFacts DEF QueueInv, NotFree
<1>9. Queueing'
  <2>1. \A u \in Thread : pc'[u] \in {"save", "link"} =>
        /\ pred'[u] \in Node /\ pred'[u] # tail' /\ pred'[u] \notin free'
        /\ pred'[u] \notin Dead' /\ next'[pred'[u]] = Nil
    BY <1>1, <1>4, NodeAssumption DEF QueueInv, Queueing
  <2> QED
    BY <1>1, <2>1 DEF QueueInv, Queueing
<1>10. Suspended'
  <2>1. \A m \in Node : sth[m] # Nil => sth[m] # t /\ sth[m] \in Thread
    BY <1>1, QueueFacts DEF QueueInv, Suspended
  <2>2. \A m \in Node : m # tail'
    BY NodeAssumption
  <2> QED
    BY <1>1, <1>4, <2>1, <2>2 DEF QueueInv, Suspended
<1>11. Links'
  BY <1>4, <1>5 DEF QueueInv, Links
<1> QED
  BY <1>6, <1>7, <1>8, <1>9, <1>10, <1>11 DEF QueueInv

\* An unlocker that follows the link of its node finds the suspended thread.
LEMMA SuccessorIsSaved ==
    ASSUME MtxTypeOK, QueueInv, NEW t \in Thread, pc[t] \in SpinPC, next[cur[t]] # Nil
    PROVE  cur[t] \in Node /\ Linked(cur[t])
<1>1. cur[t] # Nil /\ cur[t] \in Node
  BY QueueFacts DEF QueueInv, Phases, CurPC
<1>2. cur[t] \notin Dead
  <2> SUFFICES ASSUME NEW u \in Thread, pc[u] \in DeadPC, cur[u] = cur[t] PROVE FALSE
    BY DEF Dead
  <2>1. u = t
    BY <1>1 DEF QueueInv, NoSharing
  <2> QED
    BY <2>1 DEF SpinPC, DeadPC
<1> QED
  BY <1>1, <1>2 DEF QueueInv, Links

\* The mutex is handed to the suspended successor.
LEMMA PassOnQueue ==
    ASSUME MtxTypeOK, QueueInv, NEW t \in Thread, pc[t] \in {"spin", "uw_spin"},
           NEW l \in DeadPC, PassOn(t, l)
    PROVE  QueueInv'
<1>1. PICK c \in Node : c = cur[t] /\ Linked(c) /\ next[c] # Nil
  BY SuccessorIsSaved DEF PassOn, SpinPC
<1>2. PICK u \in Thread : u = sth[c] /\ pc[u] = "blocked"
  BY <1>1 DEF Linked
<1>3. u # t
  BY <1>2
<1>4. /\ UNCHANGED <<tail, next, free, cur, pred>> /\ head' = next[c]
      /\ sth'[c] = Nil /\ (\A n \in Node \ {c} : sth'[n] = sth[n])
      /\ pc'[t] = l /\ pc'[u] = "in"
      /\ \A v \in Thread \ {t, u} : pc'[v] = pc[v]
  BY <1>1, <1>2, <1>3 DEF PassOn, GotoAndWake, MtxTypeOK
<1>5. /\ pc[t] \in HolderPC /\ pc'[t] \notin HolderPC /\ pc'[t] \in CurPC /\ pc[t] \in CurPC
      /\ pc[t] \notin DeadPC /\ pc[t] # "blocked" /\ pc[t] \notin {"save", "link"}
      /\ pc'[t] \notin {"take", "cas", "uw_cas"} /\ pc'[t] \in DeadPC
      /\ pc'[t] # "blocked" /\ pc'[t] \notin {"save", "link"}
      /\ pc'[t] \notin HeadPC /\ pc'[t] \notin SpinPC
  BY <1>4 DEF CurPC, HolderPC, HeadPC, MutexPC, SpinPC, DeadPC
<1>6. /\ pc'[u] \in HolderPC /\ pc[u] \notin CurPC /\ pc'[u] \notin CurPC
      /\ pc'[u] \notin DeadPC /\ pc'[u] # "blocked" /\ pc'[u] \notin {"save", "link"}
      /\ pc'[u] \notin {"take", "cas", "uw_cas"} /\ pc'[u] \in HeadPC /\ pc'[u] \notin SpinPC
      /\ pc[u] \notin DeadPC
  BY <1>2, <1>4 DEF CurPC, HolderPC, HeadPC, MutexPC, SpinPC, DeadPC
<1>7. \A v \in Thread \ {t} : pc[v] \notin HolderPC
  BY <1>5 DEF QueueInv, OneHolder
<1>8. \A v \in Thread \ {t, u} : /\ pc'[v] \notin HolderPC /\ pc'[v] \notin {"take", "cas", "uw_cas"}
                                 /\ pc'[v] \notin HeadPC /\ pc'[v] \notin SpinPC
  BY <1>4, <1>7 DEF HolderPC, HeadPC, MutexPC, SpinPC
<1>9. Dead' = Dead \cup {c}
  BY <1>1, <1>4, <1>5, <1>6 DEF Dead
<1>10. \A n \in Node : sth[n] # Nil => sth[n] \in Thread /\ sth[n] # t /\ (sth[n] = u => n = c)
  BY <1>1, <1>2, <1>5, QueueFacts, ThreadAssumption DEF QueueInv, Suspended
<1>11. \A n \in Node : Linked(n)' <=> n # c /\ Linked(n)
  <2>1. ~Linked(c)'
    BY <1>4, ThreadAssumption DEF Linked
  <2>2. \A n \in Node \ {c} : Linked(n)' <=> Linked(n)
    BY <1>4, <1>10, ThreadAssumption DEF Linked
  <2> QED
    BY <2>1, <2>2
<1>12. OneHolder'
  <2>1. tail # Nil
    BY <1>5 DEF QueueInv, OneHolder
  <2> QED
    BY <1>4, <1>5, <1>8, <2>1 DEF OneHolder
<1>13. Phases'
  BY <1>1, <1>4, <1>5, <1>6, <1>8 DEF QueueInv, Phases
<1>14. NoSharing'
  <2>1. \A v \in Thread : cur[v] # next[c]
    BY <1>1 DEF QueueInv, NoSharing
  <2>2. \A n \in Node : Linked(n) /\ n # c => next[n] # next[c]
    BY <1>1 DEF QueueInv, NoSharing
  <2> QED
    BY <1>4, <1>11, <2>1, <2>2 DEF QueueInv, NoSharing
<1>15. NotFree'
  BY <1>1, <1>4, <1>11 DEF QueueInv, NotFree
<1>16. Queueing'
  <2>1. \A v \in Thread : pc'[v] \in {"save", "link"} => v # t /\ v # u /\ pc[v] = pc'[v]
    BY <1>4, <1>5, <1>6
  <2>2. \A v \in Thread : pc'[v] \in {"save", "link"} => pred[v] # c
    BY <1>1, <2>1 DEF QueueInv, Queueing
  <2>3. \A v \in Thread : pc'[v] \in {"save", "link"} => pred[v] \in Node
    BY <2>1 DEF QueueInv, Queueing
  <2>4. \A v \in Thread : pc'[v] \in {"save", "link"} => sth'[pred[v]] = sth[pred[v]]
    BY <1>4, <2>2, <2>3
  <2> QED
    BY <1>4, <1>9, <2>1, <2>2, <2>4 DEF QueueInv, Queueing
<1>17. Suspended'
  <2>1. \A n \in Node : sth'[n] # Nil => n # c /\ sth'[n] = sth[n] /\ pc'[sth[n]] = pc[sth[n]]
    BY <1>4, <1>10
  <2> QED
    BY <1>4, <1>9, <2>1 DEF QueueInv, Suspended
<1>18. Links'
  <2>1. tail # Nil => tail # c
    BY <1>1 DEF QueueInv, Links
  <2> QED
    BY <1>4, <1>9, <1>11, <2>1 DEF QueueInv, Links
<1> QED
  BY <1>12, <1>13, <1>14, <1>15, <1>16, <1>17, <1>18 DEF QueueInv

\* A node goes back to the pool.
LEMMA DeallocateQueue ==
    ASSUME MtxTypeOK, QueueInv, NEW t \in Thread,
           NEW k \in DeadPC, NEW l \in {"out", "lock"}, Deallocate(t, k, l)
    PROVE  QueueInv'
<1>1. /\ pc[t] \in DeadPC /\ pc'[t] = l /\ UNCHANGED <<tail, head, pred, sth>>
      /\ cur'[t] = Nil
      /\ \A u \in Thread \ {t} : pc'[u] = pc[u] /\ cur'[u] = cur[u]
  BY DEF Deallocate, Goto, MtxTypeOK
<1>2. PICK c \in Node : c = cur[t] /\ c # Nil /\ c \in Dead
  BY <1>1, QueueFacts DEF QueueInv, Phases, CurPC, Dead
<1>3. /\ free' = free \cup {c}
      /\ next'[c] = Nil /\ \A n \in Node \ {c} : next'[n] = next[n]
  BY <1>2 DEF Deallocate, MtxTypeOK, CoreTypeOK
<1>4. /\ pc[t] \notin HolderPC /\ pc'[t] \notin HolderPC /\ pc'[t] \notin CurPC /\ pc[t] \in CurPC
      /\ pc'[t] \notin DeadPC /\ pc[t] # "blocked" /\ pc[t] \notin {"save", "link"}
      /\ pc[t] \notin SpinPC /\ pc'[t] \notin {"take", "cas", "uw_cas"}
      /\ pc'[t] # "blocked" /\ pc'[t] \notin {"save", "link"}
      /\ pc'[t] \notin HeadPC /\ pc'[t] \notin SpinPC
  BY <1>1 DEF CurPC, HolderPC, HeadPC, MutexPC, SpinPC, DeadPC
<1>5. /\ \A u \in Thread \ {t} : cur[u] # c
      /\ c # head /\ c # tail
      /\ \A m \in Node : Linked(m) => next[m] # c
      /\ sth[c] = Nil
  <2>1. c # head
    BY <1>2, <1>4 DEF QueueInv, NoSharing
  <2>2. sth[c] = Nil /\ c # tail
    BY <1>2 DEF QueueInv, Suspended, Links
  <2> QED
    BY <1>2, <2>1, <2>2 DEF QueueInv, NoSharing
<1>6. Dead' = Dead \ {c}
  BY <1>1, <1>2, <1>4, <1>5 DEF Dead
<1>7. \A m \in Node : Linked(m)' <=> Linked(m)
  BY <1>1, <1>4 DEF Linked
<1>8. ~Linked(c)
  BY <1>5, ThreadAssumption DEF Linked
<1>9. OneHolder' /\ Phases'
  BY <1>1, <1>4 DEF QueueInv, OneHolder, Phases
<1>10. NoSharing'
  BY <1>1, <1>3, <1>4, <1>7, <1>8 DEF QueueInv, NoSharing
<1>11. NotFree'
  BY <1>1, <1>2, <1>3, <1>5, <1>7, <1>8, QueueFacts DEF QueueInv, NotFree
<1>12. Queueing'
  <2>1. \A v \in Thread : pc'[v] \in {"save", "link"} => pc[v] = pc'[v] /\ pred[v] # c /\ pred[v] \in Node
    BY <1>1, <1>2, <1>4 DEF QueueInv, Queueing
  <2> QED
    BY <1>1, <1>3, <1>6, <2>1 DEF QueueInv, Queueing
<1>13. Suspended'
  <2>1. \A m \in Node : sth[m] # Nil => sth[m] # t /\ sth[m] \in Thread /\ m # c
    BY <1>1, <1>4, <1>5, QueueFacts DEF QueueInv, Suspended, DeadPC
  <2> QED
    BY <1>1, <1>3, <1>6, <2>1 DEF QueueInv, Suspended
<1>14. Links'
  BY <1>1, <1>3, <1>5, <1>6, <1>7 DEF QueueInv, Links, MtxTypeOK, CoreTypeOK
<1> QED
  BY <1>9, <1>10, <1>11, <1>12, <1>13, <1>14 DEF QueueInv

\* Every step keeps the queue sound.
LEMMA QueueStep ==
    ASSUME MtxTypeOK, QueueInv, CvInv, NEW t \in Thread, Call(t) \/ Proceed(t)
    PROVE  QueueInv'
<1> DEFINE Neutral == {"out", "lock"}
<1> DEFINE Busy == {"in", "unlock", "uw", "na_wake", "na_next", "na_done"}
<1>1. /\ \A k, l \in Neutral : SamePhase(k, l)
      /\ \A k, l \in Busy : SamePhase(k, l)
      /\ SamePhase("asleep", "uw_dealloc") /\ \A k : SamePhase(k, k)
  BY DEF SamePhase, HolderPC, CurPC, HeadPC, MutexPC, SpinPC, DeadPC
<1>2. ASSUME NEW l \in Busy, pc[t] \in Busy, Goto(t, l), UNCHANGED <<core, nodeVars>>
      PROVE  QueueInv'
  <2>1. \A u \in Thread : pc'[u] = IF u = t THEN l ELSE pc[u]
    BY <1>2 DEF Goto, MtxTypeOK
  <2>2. \A u \in Thread : SamePhase(pc[u], pc'[u])
    BY <1>1, <1>2, <2>1
  <2> QED
    BY <1>2, <2>2, QuietStep
<1>3. CASE Call(t)
  <2>1. \A u \in Thread : pc'[u] = IF u = t THEN "lock" ELSE pc[u]
    BY <1>3 DEF Call, Goto, MtxTypeOK
  <2>2. pc[t] = "out" /\ UNCHANGED <<core, nodeVars>>
    BY <1>3 DEF Call
  <2>3. \A u \in Thread : SamePhase(pc[u], pc'[u])
    BY <1>1, <2>1, <2>2
  <2> QED
    BY <2>2, <2>3, QuietStep
<1>4. CASE ArriveFirst(t)
  BY <1>2, <1>4 DEF ArriveFirst, PushEntry
<1>5. CASE ArriveLast(t)
  BY <1>2, <1>5 DEF ArriveLast, NotifyAll
<1>6. CASE Recheck(t)
  BY <1>2, <1>6 DEF Recheck, PushEntry
<1>7. CASE Return(t)
  BY <1>7, DeallocateQueue DEF Return, DeadPC
<1>8. CASE Relock(t)
  BY <1>8, DeallocateQueue DEF Relock, DeadPC
<1>9. CASE LockStart(t)
  BY <1>9, LockStartQueue
<1>10. CASE LockTake(t)
  BY <1>10, LockTakeQueue
<1>11. CASE LockSave(t)
  BY <1>11, LockSaveQueue
<1>12. CASE LockLink(t)
  BY <1>12, LockLinkQueue
<1>13. CASE UnlockClear(t)
  <2>1. /\ UNCHANGED <<tail, next, free, pred, sth>> /\ pc[t] = "unlock" /\ pc'[t] = "cas"
        /\ \A u \in Thread \ {t} : pc'[u] = pc[u] /\ cur'[u] = cur[u]
        /\ head' = Nil /\ cur'[t] = head
    BY <1>13 DEF UnlockClear, Goto, MtxTypeOK
  <2>2. /\ pc[t] \in MutexPC /\ pc'[t] \in MutexPC /\ pc[t] \notin CurPC /\ pc[t] \in HeadPC
    BY <2>1 DEF MutexPC, CurPC, SpinPC, DeadPC, HeadPC
  <2>3. head # Nil
    BY <2>2 DEF QueueInv, Phases
  <2> QED
    BY <2>1, <2>2, <2>3, HolderQueue
<1>14. CASE UnlockCas(t)
  <2>1. /\ pc[t] = "cas" /\ UNCHANGED <<next, free, cur, pred, sth>>
        /\ \A u \in Thread \ {t} : pc'[u] = pc[u]
    BY <1>14 DEF UnlockCas, Goto, nodeVars, MtxTypeOK
  <2>2. CASE tail = cur[t]
    <3>1. tail' = Nil /\ head' = head /\ pc'[t] = "dealloc"
      BY <1>14, <2>2 DEF UnlockCas, IsTail, Goto, MtxTypeOK
    <3> QED
      BY <2>1, <2>2, <3>1, EmptyQueueStep DEF DeadPC
  <2>3. CASE tail # cur[t]
    <3>1. tail' = tail /\ head' = cur[t] /\ pc'[t] = "spin"
      BY <1>14, <2>3 DEF UnlockCas, IsTail, Restore, Goto, MtxTypeOK
    <3>2. pc[t] \in MutexPC /\ pc'[t] \in MutexPC /\ pc'[t] \in SpinPC /\ pc[t] \in CurPC
      BY <2>1, <3>1 DEF MutexPC, SpinPC, CurPC
    <3>3. cur[t] # Nil
      BY <3>2 DEF QueueInv, Phases
    <3>4. /\ head' \in {head, cur[t], Nil} /\ cur'[t] \in {cur[t], head} /\ cur'[t] # Nil
          /\ pc'[t] \in SpinPC /\ head' = cur'[t] /\ cur'[t] = cur[t]
          /\ \A u \in Thread \ {t} : pc'[u] = pc[u] /\ cur'[u] = cur[u]
      BY <2>1, <3>1, <3>2, <3>3
    <3> QED
      BY <2>1, <3>1, <3>2, <3>4, HolderQueue
  <2> QED
    BY <2>2, <2>3
<1>15. CASE UnlockSpin(t)
  BY <1>15, PassOnQueue DEF UnlockSpin, DeadPC
<1>16. CASE UwCheck(t)
  <2>1. /\ UNCHANGED <<tail, head, next, free, pred, sth>> /\ pc[t] = "uw"
        /\ pc'[t] \in {"uw_clear", "uw_spin"}
        /\ \A u \in Thread \ {t} : pc'[u] = pc[u] /\ cur'[u] = cur[u]
        /\ cur'[t] = head
    BY <1>16 DEF UwCheck, Goto, MtxTypeOK, core
  <2>2. /\ pc[t] \in MutexPC /\ pc'[t] \in MutexPC /\ pc[t] \notin CurPC /\ pc[t] \in HeadPC
        /\ pc'[t] \in SpinPC
    BY <2>1 DEF MutexPC, CurPC, SpinPC, DeadPC, HeadPC
  <2>3. head # Nil
    BY <2>2 DEF QueueInv, Phases
  <2>4. /\ head' \in {head, cur[t], Nil} /\ cur'[t] \in {cur[t], head} /\ cur'[t] # Nil
        /\ head' = cur'[t]
    BY <2>1, <2>3
  <2> QED
    BY <2>1, <2>2, <2>4, HolderQueue
<1>17. CASE UwClear(t)
  <2>1. /\ UNCHANGED <<tail, next, free, cur, pred, sth>> /\ pc[t] = "uw_clear" /\ pc'[t] = "uw_cas"
        /\ \A u \in Thread \ {t} : pc'[u] = pc[u]
        /\ head' = Nil
    BY <1>17 DEF UwClear, Goto, MtxTypeOK, nodeVars
  <2>2. pc[t] \in MutexPC /\ pc'[t] \in MutexPC /\ pc[t] \in CurPC
    BY <2>1 DEF MutexPC, CurPC, SpinPC
  <2>3. cur[t] # Nil
    BY <2>2 DEF QueueInv, Phases
  <2> QED
    BY <2>1, <2>2, <2>3, HolderQueue
<1>18. CASE UwCas(t)
  <2>1. /\ pc[t] = "uw_cas" /\ UNCHANGED <<next, free, cur, pred, sth>>
        /\ \A u \in Thread \ {t} : pc'[u] = pc[u]
    BY <1>18 DEF UwCas, Goto, nodeVars, MtxTypeOK
  <2>2. CASE tail = cur[t]
    <3>1. tail' = Nil /\ head' = head /\ pc'[t] = "asleep"
      BY <1>18, <2>2 DEF UwCas, IsTail, Goto, MtxTypeOK
    <3> QED
      BY <2>1, <2>2, <3>1, EmptyQueueStep DEF DeadPC
  <2>3. CASE tail # cur[t]
    <3>1. tail' = tail /\ head' = cur[t] /\ pc'[t] = "uw_spin"
      BY <1>18, <2>3 DEF UwCas, IsTail, Restore, Goto, MtxTypeOK
    <3>2. pc[t] \in MutexPC /\ pc'[t] \in MutexPC /\ pc'[t] \in SpinPC /\ pc[t] \in CurPC
      BY <2>1, <3>1 DEF MutexPC, SpinPC, CurPC
    <3>3. cur[t] # Nil
      BY <3>2 DEF QueueInv, Phases
    <3>4. /\ head' \in {head, cur[t], Nil} /\ cur'[t] \in {cur[t], head} /\ cur'[t] # Nil
          /\ pc'[t] \in SpinPC /\ head' = cur'[t] /\ cur'[t] = cur[t]
          /\ \A u \in Thread \ {t} : pc'[u] = pc[u] /\ cur'[u] = cur[u]
      BY <2>1, <3>1, <3>2, <3>3
    <3> QED
      BY <2>1, <3>1, <3>2, <3>4, HolderQueue
  <2> QED
    BY <2>2, <2>3
<1>19. CASE UwSpin(t)
  BY <1>19, PassOnQueue DEF UwSpin, DeadPC
<1>20. CASE NaWake(t)
  <2>1. we \in Thread /\ pc[we] = "asleep" /\ pc[t] = "na_wake"
    BY <1>20 DEF NaWake, CvInv, Notifying, MtxTypeOK
  <2>2. /\ UNCHANGED <<core, nodeVars>>
        /\ pc' = [pc EXCEPT ![t] = "na_next", ![we] = "uw_dealloc"]
    BY <1>20 DEF NaWake, GotoAndWake
  <2>3. pc \in [Thread -> MtxPC]
    BY DEF MtxTypeOK
  <2>4. \A u \in Thread : pc'[u] = IF u = we THEN "uw_dealloc" ELSE IF u = t THEN "na_next" ELSE pc[u]
    BY <2>1, <2>2, <2>3
  <2>5. \A u \in Thread : SamePhase(pc[u], pc'[u])
    BY <1>1, <2>1, <2>4
  <2> QED
    BY <2>2, <2>5, QuietStep
<1>21. CASE NaNext(t)
  BY <1>2, <1>21 DEF NaNext
<1>22. CASE NaDone(t)
  BY <1>2, <1>22 DEF NaDone
<1> QED
  BY <1>3, <1>4, <1>5, <1>6, <1>7, <1>8, <1>9, <1>10, <1>11, <1>12, <1>13, <1>14, <1>15,
     <1>16, <1>17, <1>18, <1>19, <1>20, <1>21, <1>22
     DEF Proceed, MutexStep, Lock, Unlock, UnlockAndWait, Notify

----------------------------------------------------------------------------
(* The condition variable *)

AwakePC == {"uw_dealloc", "lock", "save", "link", "blocked"}

\* A step of threads that have no entry and do not notify.
LEMMA CvQuiet ==
    ASSUME MtxTypeOK, CvInv, UNCHANGED cvVars,
           \A u \in Thread :
             \/ pc'[u] = pc[u] /\ inLoop'[u] = inLoop[u]
             \/ pc[u] \notin EntryPC \cup NotifyPC /\ pc'[u] \notin EntryPC \cup NotifyPC,
           (\E u \in Thread : pc[u] = "na_next") => pc'[we] \in AwakePC /\ inLoop'[we]
    PROVE  CvInv'
<1>1. waiting' = waiting /\ enext' = enext /\ esth' = esth /\ we' = we
  BY DEF cvVars
<1>2. \A u \in Thread :
        /\ pc[u] \in EntryPC <=> pc'[u] \in EntryPC
        /\ pc[u] \in NotifyPC <=> pc'[u] \in NotifyPC
        /\ pc[u] \in {"uw_clear", "uw_cas", "asleep"} <=> pc'[u] \in {"uw_clear", "uw_cas", "asleep"}
        /\ pc[u] = "asleep" <=> pc'[u] = "asleep"
        /\ pc[u] = "na_wake" <=> pc'[u] = "na_wake"
        /\ pc[u] = "na_next" <=> pc'[u] = "na_next"
        /\ pc[u] \in EntryPC => inLoop'[u] = inLoop[u]
  BY DEF EntryPC, NotifyPC
<1>3. /\ \A u \in Thread : enext[u] # Nil => enext[u] \in Thread
      /\ waiting # Nil => waiting \in Thread
      /\ we # Nil => we \in Thread
  BY DEF MtxTypeOK
<1>4. Entries'
  BY <1>1, <1>2, <1>3 DEF CvInv, Entries
<1>5. Notifying'
  <2> SUFFICES ASSUME NEW u \in Thread
               PROVE  /\ pc'[u] = "na_wake" =>
                         /\ we # Nil /\ pc'[we] = "asleep"
                         /\ \A v \in Thread : pc'[v] \in EntryPC => enext[v] # we
                      /\ pc'[u] = "na_next" =>
                         /\ we # Nil /\ inLoop'[we]
                         /\ pc'[we] \in AwakePC
                         /\ enext[we] # Nil => pc'[enext[we]] = "asleep"
                         /\ \A v \in Thread : pc'[v] \in EntryPC /\ enext[we] # Nil => enext[v] # enext[we]
    BY <1>1 DEF Notifying, AwakePC
  <2>1. CASE pc'[u] = "na_wake"
    BY <2>1, <1>2, <1>3 DEF CvInv, Notifying
  <2>2. CASE pc'[u] = "na_next"
    BY <2>2, <1>2, <1>3 DEF CvInv, Notifying
  <2> QED
    BY <2>1, <2>2
<1> QED
  BY <1>4, <1>5 DEF CvInv

\* The holder has no notifier beside it.
LEMMA NoOtherHolder ==
    ASSUME QueueInv, NEW t \in Thread, pc[t] \in MutexPC, NEW u \in Thread, u # t
    PROVE  /\ pc[u] \notin MutexPC /\ pc[u] \notin NotifyPC
           /\ pc[u] \in EntryPC => pc[u] = "asleep"
<1>1. pc[u] \notin MutexPC
  BY DEF QueueInv, OneHolder, HolderPC
<1> QED
  BY <1>1 DEF MutexPC, NotifyPC, EntryPC

\* A thread that has pushed its entry goes on to sleep.
LEMMA CvWait ==
    ASSUME MtxTypeOK, QueueInv, CvInv, NEW t \in Thread, UNCHANGED <<waiting, enext, we, inLoop>>,
           pc[t] \in {"uw", "uw_clear", "uw_cas", "uw_spin"}, pc'[t] \in EntryPC,
           esth'[t] <=> pc'[t] \in {"uw_clear", "uw_cas", "asleep"},
           \A u \in Thread \ {t} :
             esth'[u] = esth[u] /\ (pc'[u] = pc[u] \/ (pc[u] = "blocked" /\ pc'[u] = "in"))
    PROVE  CvInv'
<1>1. pc[t] \in MutexPC /\ pc[t] \in EntryPC /\ pc[t] # "asleep" /\ pc'[t] \notin NotifyPC
      /\ pc[t] \notin NotifyPC
  BY DEF MutexPC, EntryPC, NotifyPC
<1>2. \A u \in Thread : pc[u] \notin NotifyPC
  BY <1>1, NoOtherHolder
<1>3. \A u \in Thread :
        /\ pc[u] \in EntryPC <=> pc'[u] \in EntryPC
        /\ pc'[u] \notin NotifyPC
        /\ pc[u] = "asleep" => pc'[u] = "asleep"
  BY <1>1, <1>2 DEF EntryPC, NotifyPC
<1>4. /\ \A u \in Thread : enext[u] # Nil => enext[u] \in Thread
      /\ waiting # Nil => waiting \in Thread
  BY DEF MtxTypeOK
<1>5. \A u \in Thread : esth'[u] <=> pc'[u] \in {"uw_clear", "uw_cas", "asleep"}
  <2> SUFFICES ASSUME NEW u \in Thread, u # t
               PROVE  esth'[u] <=> pc'[u] \in {"uw_clear", "uw_cas", "asleep"}
    OBVIOUS
  <2>1. esth[u] <=> pc[u] \in {"uw_clear", "uw_cas", "asleep"}
    BY DEF CvInv, Entries
  <2> QED
    BY <2>1
<1>6. Entries'
  BY <1>2, <1>3, <1>4, <1>5 DEF CvInv, Entries
<1>7. Notifying'
  BY <1>3 DEF Notifying, NotifyPC
<1> QED
  BY <1>6, <1>7 DEF CvInv

\* A new entry is pushed in front of the others.
LEMMA CvPush ==
    ASSUME MtxTypeOK, QueueInv, CvInv, NEW t \in Thread, pc[t] = "in", PushEntry(t),
           inLoop'[t], \A u \in Thread \ {t} : inLoop'[u] = inLoop[u]
    PROVE  CvInv'
<1>1. /\ enext'[t] = waiting /\ waiting' = t /\ pc'[t] = "uw" /\ esth' = esth /\ we' = we
      /\ \A u \in Thread \ {t} : enext'[u] = enext[u] /\ pc'[u] = pc[u]
  BY DEF PushEntry, Goto, MtxTypeOK
<1>2. \A u \in Thread \ {t} : pc[u] \notin NotifyPC /\ (pc[u] \in EntryPC => pc[u] = "asleep")
  BY NoOtherHolder DEF MutexPC
<1>3. /\ pc[t] \notin NotifyPC /\ pc[t] \notin EntryPC /\ pc'[t] \notin NotifyPC
      /\ pc'[t] \in EntryPC /\ pc[t] # "asleep"
  BY <1>1 DEF EntryPC, NotifyPC
<1>4. /\ \A u \in Thread : enext[u] # Nil => enext[u] \in Thread
      /\ waiting # Nil => waiting \in Thread
      /\ t # Nil
  BY ThreadAssumption DEF MtxTypeOK
<1>5. waiting # Nil => /\ pc[waiting] \in EntryPC
                       /\ \A u \in Thread : pc[u] \in EntryPC => enext[u] # waiting
  BY <1>2, <1>3 DEF CvInv, Entries
<1>6. waiting # Nil => waiting # t /\ pc[waiting] = "asleep"
  BY <1>2, <1>3, <1>4, <1>5
<1>7. Entries'
  <2>1. \A u \in Thread : esth'[u] <=> pc'[u] \in {"uw_clear", "uw_cas", "asleep"}
    BY <1>1 DEF CvInv, Entries
  <2>2. \A u \in Thread : pc'[u] \in EntryPC => inLoop'[u]
    BY <1>1 DEF CvInv, Entries
  <2>3. \A u \in Thread : pc'[u] \in EntryPC /\ enext'[u] # Nil => pc'[enext'[u]] = "asleep"
    BY <1>1, <1>3, <1>4, <1>6 DEF CvInv, Entries
  <2>4. \A u, v \in Thread :
          pc'[u] \in EntryPC /\ pc'[v] \in EntryPC /\ enext'[u] # Nil /\ enext'[u] = enext'[v] => u = v
    BY <1>1, <1>5 DEF CvInv, Entries
  <2>5. /\ pc'[waiting'] \in EntryPC
        /\ \A u \in Thread : pc'[u] \in EntryPC => enext'[u] # waiting'
    BY <1>1, <1>3, <1>4, <1>6 DEF CvInv, Entries
  <2> QED
    BY <2>1, <2>2, <2>3, <2>4, <2>5 DEF Entries
<1>8. Notifying'
  BY <1>1, <1>2, <1>3 DEF Notifying, NotifyPC
<1> QED
  BY <1>7, <1>8 DEF CvInv

\* notify_all begins with the latest entry.
LEMMA CvNotifyAll ==
    ASSUME MtxTypeOK, QueueInv, CvInv, NEW t \in Thread, pc[t] = "in", NotifyAll(t),
           inLoop' = inLoop
    PROVE  CvInv'
<1>1. /\ UNCHANGED <<waiting, enext, esth>> /\ we' = waiting
      /\ pc'[t] = (IF waiting = Nil THEN "na_done" ELSE "na_wake")
      /\ \A u \in Thread \ {t} : pc'[u] = pc[u]
  BY DEF NotifyAll, Goto, MtxTypeOK
<1>2. \A u \in Thread \ {t} : pc[u] \notin NotifyPC /\ (pc[u] \in EntryPC => pc[u] = "asleep")
  BY NoOtherHolder DEF MutexPC
<1>3. /\ pc[t] \notin NotifyPC /\ pc[t] \notin EntryPC /\ pc'[t] \in NotifyPC
      /\ pc'[t] \notin EntryPC /\ pc[t] # "asleep"
  BY <1>1 DEF EntryPC, NotifyPC
<1>4. /\ \A u \in Thread : enext[u] # Nil => enext[u] \in Thread
      /\ waiting # Nil => waiting \in Thread
  BY DEF MtxTypeOK
<1>5. waiting # Nil => /\ pc[waiting] \in EntryPC
                       /\ \A u \in Thread : pc[u] \in EntryPC => enext[u] # waiting
  BY <1>2, <1>3 DEF CvInv, Entries
<1>6. waiting # Nil => waiting # t /\ pc'[waiting] = "asleep"
  BY <1>1, <1>2, <1>3, <1>4, <1>5
<1>7. \A u \in Thread : pc'[u] \in EntryPC <=> pc[u] \in EntryPC
  BY <1>1, <1>3
<1>8. Entries'
  <2>1. \A u \in Thread : esth'[u] <=> pc'[u] \in {"uw_clear", "uw_cas", "asleep"}
    BY <1>1 DEF CvInv, Entries
  <2>2. \A u \in Thread : pc'[u] \in EntryPC /\ enext'[u] # Nil => pc'[enext'[u]] = "asleep"
    BY <1>1, <1>3, <1>4, <1>7 DEF CvInv, Entries
  <2> QED
    BY <1>1, <1>3, <1>7, <2>1, <2>2 DEF CvInv, Entries
<1>9. Notifying'
  <2>1. \A u \in Thread : pc'[u] # "na_next" /\ (pc'[u] = "na_wake" => waiting # Nil)
    BY <1>1, <1>2 DEF NotifyPC
  <2> QED
    BY <1>1, <1>5, <1>6, <1>7, <2>1 DEF Notifying
<1> QED
  BY <1>8, <1>9 DEF CvInv

\* notify_all wakes the thread of an entry.
LEMMA CvWake ==
    ASSUME MtxTypeOK, QueueInv, CvInv, NEW t \in Thread, NaWake(t), inLoop' = inLoop
    PROVE  CvInv'
<1>1. /\ pc[t] = "na_wake" /\ we # Nil /\ pc[we] = "asleep" /\ we \in Thread
      /\ \A u \in Thread : pc[u] \in EntryPC => enext[u] # we
  BY DEF NaWake, CvInv, Notifying, MtxTypeOK
<1>2. we # t
  BY <1>1
<1>3. pc' = [pc EXCEPT ![t] = "na_next", ![we] = "uw_dealloc"] /\ pc \in [Thread -> MtxPC]
      /\ esth \in [Thread -> BOOLEAN]
  BY DEF NaWake, GotoAndWake, MtxTypeOK
<1>4. /\ UNCHANGED <<waiting, enext, we>> /\ esth' = [esth EXCEPT ![we] = FALSE]
      /\ pc'[t] = "na_next" /\ pc'[we] = "uw_dealloc"
      /\ \A u \in Thread \ {t, we} : pc'[u] = pc[u]
  BY <1>1, <1>2, <1>3 DEF NaWake
<1>5. \A u \in Thread : /\ pc'[u] \in EntryPC <=> pc[u] \in EntryPC /\ u # we
                        /\ pc'[u] = "asleep" <=> pc[u] = "asleep" /\ u # we
  BY <1>1, <1>2, <1>4 DEF EntryPC
<1>6. /\ \A u \in Thread : enext[u] # Nil => enext[u] \in Thread
      /\ pc[we] \in EntryPC
  BY <1>1 DEF MtxTypeOK, EntryPC
<1>7. Entries'
  <2>1. \A u \in Thread : esth'[u] <=> pc'[u] \in {"uw_clear", "uw_cas", "asleep"}
    <3> SUFFICES ASSUME NEW u \in Thread
                 PROVE  esth'[u] <=> pc'[u] \in {"uw_clear", "uw_cas", "asleep"}
      OBVIOUS
    <3>1. esth[u] <=> pc[u] \in {"uw_clear", "uw_cas", "asleep"}
      BY DEF CvInv, Entries
    <3>2. CASE u = we
      BY <3>2, <1>3, <1>4
    <3>3. CASE u = t
      BY <3>1, <3>3, <1>1, <1>2, <1>3, <1>4
    <3>4. CASE u # t /\ u # we
      BY <3>1, <3>4, <1>3, <1>4
    <3> QED
      BY <3>2, <3>3, <3>4
  <2>2. \A u \in Thread : pc'[u] \in EntryPC /\ enext'[u] # Nil => pc'[enext'[u]] = "asleep"
    BY <1>1, <1>4, <1>5, <1>6 DEF CvInv, Entries
  <2>3. pc'[t] \in NotifyPC
    BY <1>4 DEF NotifyPC
  <2> QED
    BY <1>4, <1>5, <2>1, <2>2, <2>3 DEF CvInv, Entries
<1>8. Notifying'
  <2>1. \A u \in Thread : pc'[u] # "na_wake"
    <3>1. \A u \in Thread \ {t} : pc[u] \notin NotifyPC
      BY <1>1, NoOtherHolder DEF MutexPC
    <3> QED
      BY <1>1, <1>4, <3>1 DEF NotifyPC
  <2>2. inLoop[we]
    BY <1>1, <1>6 DEF CvInv, Entries
  <2>3. enext[we] # Nil => pc[enext[we]] = "asleep" /\ enext[we] # we
    BY <1>1, <1>6 DEF CvInv, Entries
  <2>4. enext[we] # Nil => pc'[enext[we]] = "asleep"
    BY <1>1, <1>5, <1>6, <2>3
  <2>5. \A u \in Thread : pc'[u] \in EntryPC /\ enext[we] # Nil => enext[u] # enext[we]
    BY <1>1, <1>5, <1>6 DEF CvInv, Entries
  <2> QED
    BY <1>1, <1>4, <2>1, <2>2, <2>4, <2>5 DEF Notifying
<1> QED
  BY <1>7, <1>8 DEF CvInv

\* notify_all goes on to the next entry.
LEMMA CvNext ==
    ASSUME MtxTypeOK, QueueInv, CvInv, NEW t \in Thread, NaNext(t), inLoop' = inLoop
    PROVE  CvInv'
<1>1. /\ pc[t] = "na_next" /\ we # Nil /\ we \in Thread
      /\ enext[we] # Nil => pc[enext[we]] = "asleep"
      /\ \A u \in Thread : pc[u] \in EntryPC /\ enext[we] # Nil => enext[u] # enext[we]
  BY DEF NaNext, CvInv, Notifying, MtxTypeOK
<1>2. /\ UNCHANGED <<waiting, enext, esth>> /\ we' = enext[we]
      /\ pc'[t] = (IF enext[we] = Nil THEN "na_done" ELSE "na_wake")
      /\ \A u \in Thread \ {t} : pc'[u] = pc[u]
  BY DEF NaNext, Goto, MtxTypeOK
<1>3. \A u \in Thread \ {t} : pc[u] \notin NotifyPC
  BY <1>1, NoOtherHolder DEF MutexPC
<1>4. /\ pc[t] \notin EntryPC /\ pc'[t] \in NotifyPC
      /\ pc'[t] \notin EntryPC /\ pc[t] # "asleep"
  BY <1>1, <1>2 DEF EntryPC, NotifyPC
<1>5. /\ \A u \in Thread : enext[u] # Nil => enext[u] \in Thread
  BY DEF MtxTypeOK
<1>6. \A u \in Thread : pc'[u] \in EntryPC <=> pc[u] \in EntryPC
  BY <1>2, <1>4
<1>7. Entries'
  <2>1. \A u \in Thread : esth'[u] <=> pc'[u] \in {"uw_clear", "uw_cas", "asleep"}
    BY <1>1, <1>2 DEF CvInv, Entries
  <2>2. \A u \in Thread : pc'[u] \in EntryPC /\ enext'[u] # Nil => pc'[enext'[u]] = "asleep"
    BY <1>2, <1>4, <1>5, <1>6 DEF CvInv, Entries
  <2> QED
    BY <1>2, <1>4, <1>6, <2>1, <2>2 DEF CvInv, Entries
<1>8. Notifying'
  <2>1. \A u \in Thread : pc'[u] # "na_next" /\ (pc'[u] = "na_wake" => enext[we] # Nil)
    BY <1>2, <1>3 DEF NotifyPC
  <2>2. enext[we] # Nil => pc'[enext[we]] = "asleep"
    BY <1>1, <1>2, <1>4, <1>5
  <2> QED
    BY <1>1, <1>2, <1>6, <2>1, <2>2 DEF Notifying
<1> QED
  BY <1>7, <1>8 DEF CvInv

\* notify_all ends with an empty list.
LEMMA CvDone ==
    ASSUME MtxTypeOK, QueueInv, CvInv, NEW t \in Thread, NaDone(t), inLoop' = inLoop
    PROVE  CvInv'
<1>1. /\ UNCHANGED <<enext, esth, we>> /\ waiting' = Nil
      /\ pc[t] = "na_done" /\ pc'[t] = "unlock"
      /\ \A u \in Thread \ {t} : pc'[u] = pc[u]
  BY DEF NaDone, Goto, MtxTypeOK
<1>2. \A u \in Thread \ {t} : pc[u] \notin NotifyPC
  BY <1>1, NoOtherHolder DEF MutexPC
<1>3. pc[t] \notin EntryPC /\ pc'[t] \notin EntryPC /\ pc[t] # "asleep" /\ pc'[t] \notin NotifyPC
  BY <1>1 DEF EntryPC, NotifyPC
<1>4. \A u \in Thread : enext[u] # Nil => enext[u] \in Thread
  BY DEF MtxTypeOK
<1>5. \A u \in Thread : pc'[u] \in EntryPC <=> pc[u] \in EntryPC
  BY <1>1, <1>3
<1>6. Entries'
  <2>1. \A u \in Thread : esth'[u] <=> pc'[u] \in {"uw_clear", "uw_cas", "asleep"}
    BY <1>1 DEF CvInv, Entries
  <2>2. \A u \in Thread : pc'[u] \in EntryPC /\ enext'[u] # Nil => pc'[enext'[u]] = "asleep"
    BY <1>1, <1>3, <1>4, <1>5 DEF CvInv, Entries
  <2> QED
    BY <1>1, <1>5, <2>1, <2>2 DEF CvInv, Entries
<1>7. Notifying'
  BY <1>1, <1>2, <1>3 DEF Notifying, NotifyPC
<1> QED
  BY <1>6, <1>7 DEF CvInv

\* Every step keeps the entries sound.
LEMMA CvStep ==
    ASSUME TypeOK, QueueInv, CvInv, NEW t \in Thread, Call(t) \/ Proceed(t)
    PROVE  CvInv'
<1> MtxTypeOK /\ inLoop \in [Thread -> BOOLEAN]
  BY DEF TypeOK
<1>1. (\E u \in Thread : pc[u] = "na_next") =>
        we \in Thread /\ pc[we] \in AwakePC /\ inLoop[we] /\ tail # Nil
        /\ \A u \in Thread : pc[u] \in MutexPC => pc[u] = "na_next"
  <2> SUFFICES ASSUME NEW u \in Thread, pc[u] = "na_next"
               PROVE  we \in Thread /\ pc[we] \in AwakePC /\ inLoop[we] /\ tail # Nil
                      /\ \A v \in Thread : pc[v] \in MutexPC => pc[v] = "na_next"
    OBVIOUS
  <2>1. we \in Thread /\ pc[we] \in AwakePC /\ inLoop[we]
    BY DEF CvInv, Notifying, MtxTypeOK, AwakePC
  <2>2. pc[u] \in HolderPC /\ pc[u] \in MutexPC
    BY DEF HolderPC, MutexPC
  <2> QED
    BY <2>1, <2>2, NoOtherHolder DEF QueueInv, OneHolder
\* A step of one thread outside the condition variable.
<1>2. ASSUME NEW l, Goto(t, l), UNCHANGED cvVars, UNCHANGED inLoop,
             pc[t] \notin EntryPC \cup NotifyPC, l \notin EntryPC \cup NotifyPC,
             pc[t] \in AwakePC => l \in AwakePC \/ tail = Nil
      PROVE  CvInv'
  <2>1. \A u \in Thread : pc'[u] = IF u = t THEN l ELSE pc[u]
    BY <1>2 DEF Goto, MtxTypeOK
  <2>2. (\E u \in Thread : pc[u] = "na_next") => pc'[we] \in AwakePC /\ inLoop'[we]
    BY <1>1, <1>2, <2>1
  <2> QED
    BY <1>2, <2>1, <2>2, CvQuiet
<1>3. CASE Call(t)
  BY <1>2, <1>3 DEF Call, EntryPC, NotifyPC, AwakePC, barVars
<1>4. CASE ArriveFirst(t)
  BY <1>4, CvPush DEF ArriveFirst
<1>5. CASE ArriveLast(t)
  BY <1>5, CvNotifyAll DEF ArriveLast
<1>6. CASE Recheck(t)
  <2>1. CASE GenChanged(t)
    <3>1. /\ UNCHANGED cvVars /\ pc[t] = "in" /\ pc'[t] = "unlock"
          /\ \A u \in Thread \ {t} : pc'[u] = pc[u] /\ inLoop'[u] = inLoop[u]
      BY <1>6, <2>1 DEF Recheck, Goto, MtxTypeOK
    <3>2. (\E u \in Thread : pc[u] = "na_next") => pc'[we] \in AwakePC /\ inLoop'[we]
      BY <1>1, <3>1 DEF MutexPC, AwakePC
    <3>3. pc[t] \notin EntryPC \cup NotifyPC /\ pc'[t] \notin EntryPC \cup NotifyPC
      BY <3>1 DEF EntryPC, NotifyPC
    <3> QED
      BY <3>1, <3>2, <3>3, CvQuiet
  <2>2. CASE ~GenChanged(t)
    BY <1>6, <2>2, CvPush DEF Recheck
  <2> QED
    BY <2>1, <2>2
<1>7. CASE Return(t)
  BY <1>2, <1>7 DEF Return, Deallocate, EntryPC, NotifyPC, AwakePC, barVars
<1>8. CASE Relock(t)
  BY <1>2, <1>8 DEF Relock, Deallocate, EntryPC, NotifyPC, AwakePC, barVars
<1>9. CASE MutexStep(t)
  <2>1. inLoop' = inLoop
    BY <1>9 DEF MutexStep, barVars
  <2>2. CASE LockStart(t)
    BY <1>2, <2>1, <2>2 DEF LockStart, WasFree, EntryPC, NotifyPC, AwakePC
  <2>3. CASE LockTake(t)
    BY <1>2, <2>1, <2>3 DEF LockTake, EntryPC, NotifyPC, AwakePC
  <2>4. CASE LockSave(t)
    BY <1>2, <2>1, <2>4 DEF LockSave, EntryPC, NotifyPC, AwakePC
  <2>5. CASE LockLink(t)
    BY <1>2, <2>1, <2>5 DEF LockLink, EntryPC, NotifyPC, AwakePC
  <2>6. CASE UnlockClear(t)
    BY <1>2, <2>1, <2>6 DEF UnlockClear, EntryPC, NotifyPC, AwakePC
  <2>7. CASE UnlockCas(t)
    BY <1>2, <2>1, <2>7 DEF UnlockCas, EntryPC, NotifyPC, AwakePC
  \* What PassOn does to the phases.
  <2>8. ASSUME NEW l \in DeadPC, PassOn(t, l), pc[t] \in {"spin", "uw_spin"}
        PROVE  \E u \in Thread : /\ pc[u] = "blocked" /\ u # t /\ pc'[t] = l /\ pc'[u] = "in"
                                 /\ \A v \in Thread \ {t, u} : pc'[v] = pc[v]
    <3>1. cur[t] \in Node /\ sth[cur[t]] \in Thread /\ pc[sth[cur[t]]] = "blocked"
      BY <2>8, SuccessorIsSaved DEF PassOn, SpinPC, Linked
    <3>2. sth[cur[t]] # t
      BY <2>8, <3>1
    <3> QED
      BY <2>8, <3>1, <3>2 DEF PassOn, GotoAndWake, MtxTypeOK
  <2>9. CASE UnlockSpin(t)
    <3>1. PICK u \in Thread : /\ pc[u] = "blocked" /\ u # t /\ pc'[t] = "dealloc" /\ pc'[u] = "in"
                              /\ \A v \in Thread \ {t, u} : pc'[v] = pc[v]
      BY <2>8, <2>9 DEF UnlockSpin, DeadPC
    <3>2. UNCHANGED cvVars /\ pc[t] = "spin"
      BY <2>9 DEF UnlockSpin
    <3>3. ~ \E v \in Thread : pc[v] = "na_next"
      BY <1>1, <3>2 DEF MutexPC
    <3>4. \A v \in {t, u} : pc[v] \notin EntryPC \cup NotifyPC /\ pc'[v] \notin EntryPC \cup NotifyPC
      BY <3>1, <3>2 DEF EntryPC, NotifyPC
    <3> QED
      BY <2>1, <3>1, <3>2, <3>3, <3>4, CvQuiet
  <2>10. CASE UwCheck(t)
    <3>1. /\ UNCHANGED <<waiting, enext, we>> /\ pc[t] = "uw"
          /\ \/ pc'[t] = "uw_clear" /\ esth' = [esth EXCEPT ![t] = TRUE]
             \/ pc'[t] = "uw_spin" /\ esth' = esth
          /\ \A u \in Thread \ {t} : pc'[u] = pc[u]
      BY <2>10 DEF UwCheck, SaveEntry, Goto, MtxTypeOK
    <3>2. esth \in [Thread -> BOOLEAN] /\ ~esth[t]
      BY <3>1 DEF CvInv, Entries, MtxTypeOK
    <3>3. /\ esth'[t] <=> pc'[t] \in {"uw_clear", "uw_cas", "asleep"}
          /\ \A u \in Thread \ {t} : esth'[u] = esth[u]
      BY <3>1, <3>2
    <3> QED
      BY <2>1, <3>1, <3>3, CvWait DEF EntryPC
  <2>11. CASE UwClear(t)
    <3>1. /\ UNCHANGED cvVars /\ pc[t] = "uw_clear" /\ pc'[t] = "uw_cas"
          /\ \A u \in Thread \ {t} : pc'[u] = pc[u]
      BY <2>11 DEF UwClear, Goto, MtxTypeOK
    <3>2. esth[t]
      BY <3>1 DEF CvInv, Entries
    <3> QED
      BY <2>1, <3>1, <3>2, CvWait DEF EntryPC, cvVars
  <2>12. CASE UwCas(t)
    <3>1. /\ UNCHANGED <<waiting, enext, we>> /\ pc[t] = "uw_cas"
          /\ \/ pc'[t] = "asleep" /\ esth' = esth
             \/ pc'[t] = "uw_spin" /\ esth' = [esth EXCEPT ![t] = FALSE]
          /\ \A u \in Thread \ {t} : pc'[u] = pc[u]
      BY <2>12 DEF UwCas, Goto, MtxTypeOK
    <3>2. esth \in [Thread -> BOOLEAN] /\ esth[t]
      BY <3>1 DEF CvInv, Entries, MtxTypeOK
    <3>3. /\ esth'[t] <=> pc'[t] \in {"uw_clear", "uw_cas", "asleep"}
          /\ \A u \in Thread \ {t} : esth'[u] = esth[u]
      BY <3>1, <3>2
    <3> QED
      BY <2>1, <3>1, <3>3, CvWait DEF EntryPC
  <2>13. CASE UwSpin(t)
    <3>1. PICK u \in Thread : /\ pc[u] = "blocked" /\ u # t /\ pc'[t] = "asleep" /\ pc'[u] = "in"
                              /\ \A v \in Thread \ {t, u} : pc'[v] = pc[v]
      BY <2>8, <2>13 DEF UwSpin, DeadPC
    <3>2. /\ UNCHANGED <<waiting, enext, we>> /\ pc[t] = "uw_spin"
          /\ esth' = [esth EXCEPT ![t] = TRUE] /\ esth \in [Thread -> BOOLEAN]
      BY <2>13 DEF UwSpin, MtxTypeOK
    <3>3. /\ esth'[t] <=> pc'[t] \in {"uw_clear", "uw_cas", "asleep"}
          /\ \A v \in Thread \ {t} : esth'[v] = esth[v]
      BY <3>1, <3>2
    <3> QED
      BY <2>1, <3>1, <3>2, <3>3, CvWait DEF EntryPC
  <2>14. CASE NaWake(t)
    BY <2>1, <2>14, CvWake
  <2>15. CASE NaNext(t)
    BY <2>1, <2>15, CvNext
  <2>16. CASE NaDone(t)
    BY <2>1, <2>16, CvDone
  <2> QED
    BY <1>9, <2>2, <2>3, <2>4, <2>5, <2>6, <2>7, <2>9, <2>10, <2>11, <2>12, <2>13, <2>14,
       <2>15, <2>16 DEF MutexStep, Lock, Unlock, UnlockAndWait, Notify
<1> QED
  BY <1>3, <1>4, <1>5, <1>6, <1>7, <1>8, <1>9 DEF Proceed

----------------------------------------------------------------------------
(* The barrier *)

\* A step that counts nothing.
LEMMA RoundsQuiet ==
    ASSUME Rounds, UNCHANGED <<barVars, arrived, left>>,
           \A u \in Thread :
             \/ pc'[u] = pc[u]
             \/ pc[u] \in ComingPC /\ pc'[u] \in ComingPC
             \/ inLoop[u] /\ pc'[u] \in ComingPC \cup EntryPC \cup {"uw_dealloc"} /\ pc[u] # "out"
             \/ /\ pc[u] \notin ComingPC \cup EntryPC \cup {"out", "uw_dealloc"}
                /\ pc'[u] \notin ComingPC \cup EntryPC \cup {"out", "uw_dealloc"}
    PROVE  Rounds'
<1>1. UNCHANGED <<count, gen, myGen, inLoop, arrived, left>>
  BY DEF barVars
<1>2. Waiters' = Waiters
  BY <1>1 DEF Waiters
<1>3. \A u \in Thread :
        /\ Coming(u)' <=> Coming(u)
        /\ pc'[u] = "out" <=> pc[u] = "out"
        /\ inLoop'[u] => pc'[u] \in ComingPC \cup EntryPC \cup {"uw_dealloc"}
        /\ pc'[u] = "uw_dealloc" => inLoop'[u]
  <2> SUFFICES ASSUME NEW u \in Thread
               PROVE  /\ Coming(u)' <=> Coming(u)
                      /\ pc'[u] = "out" <=> pc[u] = "out"
                      /\ inLoop'[u] => pc'[u] \in ComingPC \cup EntryPC \cup {"uw_dealloc"}
                      /\ pc'[u] = "uw_dealloc" => inLoop'[u]
    OBVIOUS
  <2>1. CASE pc'[u] = pc[u]
    BY <1>1, <2>1 DEF Rounds, Coming
  <2>2. CASE pc[u] \in ComingPC /\ pc'[u] \in ComingPC
    BY <1>1, <2>2 DEF Coming, ComingPC
  <2>3. CASE inLoop[u] /\ pc'[u] \in ComingPC \cup EntryPC \cup {"uw_dealloc"} /\ pc[u] # "out"
    BY <1>1, <2>3 DEF Coming, ComingPC, EntryPC
  <2>4. CASE /\ pc[u] \notin ComingPC \cup EntryPC \cup {"out", "uw_dealloc"}
             /\ pc'[u] \notin ComingPC \cup EntryPC \cup {"out", "uw_dealloc"}
    BY <1>1, <2>4 DEF Rounds, Coming
  <2> QED
    BY <2>1, <2>2, <2>3, <2>4
<1> QED
  BY <1>1, <1>2, <1>3 DEF Rounds

\* The waiting threads are finitely many.
LEMMA WaitersFinite ==
    IsFiniteSet(Waiters) /\ Cardinality(Waiters) \in Nat /\ Cardinality(Thread) \in Nat
<1>1. Waiters \subseteq Thread
  BY DEF Waiters
<1> QED
  BY <1>1, RoundAssumption, FS_Subset, FS_CardinalityType

\* Every step keeps the rounds together.
LEMMA RoundsStep ==
    ASSUME TypeOK, QueueInv, CvInv, Rounds, NEW t \in Thread, Call(t) \/ Proceed(t)
    PROVE  Rounds'
<1> /\ MtxTypeOK /\ inLoop \in [Thread -> BOOLEAN] /\ gen \in Nat /\ myGen \in [Thread -> Nat]
    /\ arrived \in [Thread -> 0..MaxRound] /\ left \in [Thread -> 0..MaxRound] /\ MaxRound \in Nat
  BY RoundAssumption DEF TypeOK
<1>1. ASSUME NEW l, pc' = [pc EXCEPT ![t] = l]
      PROVE  pc'[t] = l /\ \A u \in Thread \ {t} : pc'[u] = pc[u]
  BY <1>1 DEF MtxTypeOK
<1>2. CASE Call(t)
  <2>1. /\ pc[t] = "out" /\ pc'[t] = "lock" /\ \A u \in Thread \ {t} : pc'[u] = pc[u]
    BY <1>1, <1>2 DEF Call, Goto
  <2>2. /\ arrived'[t] = arrived[t] + 1 /\ \A u \in Thread \ {t} : arrived'[u] = arrived[u]
        /\ UNCHANGED <<count, gen, myGen, inLoop, left>>
    BY <1>2 DEF Call, barVars
  <2>3. ~inLoop[t]
    BY <2>1 DEF Rounds, ComingPC, EntryPC
  <2>4. Waiters' = Waiters
    BY <2>2 DEF Waiters
  <2>5. t \notin Waiters /\ ~Coming(t) /\ Coming(t)'
    BY <2>1, <2>2, <2>3 DEF Waiters, Coming, ComingPC
  <2>6. \A u \in Thread \ {t} : Coming(u)' <=> Coming(u)
    BY <2>1, <2>2 DEF Coming
  <2>7. /\ arrived'[t] = gen' + 1 /\ arrived'[t] = left'[t] + 1
    BY <2>1, <2>2, <2>5 DEF Rounds
  <2>8. count' = Cardinality(Waiters')
    BY <2>2, <2>4 DEF Rounds
  <2> QED
    BY <2>1, <2>2, <2>3, <2>4, <2>5, <2>6, <2>7, <2>8 DEF Rounds
<1>3. CASE ArriveFirst(t)
  <2>1. /\ pc[t] = "in" /\ pc'[t] = "uw" /\ \A u \in Thread \ {t} : pc'[u] = pc[u]
    BY <1>1, <1>3 DEF ArriveFirst, PushEntry, Goto
  <2>2. /\ ~inLoop[t] /\ inLoop'[t] /\ myGen'[t] = gen /\ gen' = gen /\ count' = count + 1
        /\ arrived' = arrived /\ left' = left
        /\ \A u \in Thread \ {t} : inLoop'[u] = inLoop[u] /\ myGen'[u] = myGen[u]
    BY <1>3 DEF ArriveFirst
  <2>3. Waiters' = Waiters \cup {t} /\ t \notin Waiters
    BY <2>2 DEF Waiters
  <2>4. Coming(t) /\ pc'[t] \in EntryPC
    BY <2>1, <2>2 DEF Coming, ComingPC, EntryPC
  <2>5. count' = Cardinality(Waiters')
    BY <2>2, <2>3, WaitersFinite, FS_AddElement DEF Rounds
  <2>6. \A u \in Thread \ {t} : Coming(u)' <=> Coming(u)
    BY <2>1, <2>2 DEF Coming
  <2> QED
    BY <2>1, <2>2, <2>3, <2>4, <2>5, <2>6 DEF Rounds
<1>4. CASE ArriveLast(t)
  <2>1. /\ pc[t] = "in" /\ pc'[t] \in {"na_done", "na_wake"}
        /\ \A u \in Thread \ {t} : pc'[u] = pc[u]
    BY <1>1, <1>4 DEF ArriveLast, NotifyAll, Goto
  <2>2. /\ ~inLoop[t] /\ inLoop' = inLoop /\ myGen' = myGen /\ gen' = gen + 1 /\ count' = 0
        /\ arrived' = arrived /\ left' = left /\ count + 1 >= Cardinality(Thread)
    BY <1>4 DEF ArriveLast, ResetCount, IsLast
  <2>3. Waiters = Thread \ {t}
    <3>1. Waiters \subseteq Thread \ {t}
      BY <2>2 DEF Waiters
    <3>2. IsFiniteSet(Thread \ {t}) /\ Cardinality(Thread \ {t}) = Cardinality(Thread) - 1
      BY RoundAssumption, FS_RemoveElement
    <3>3. Cardinality(Waiters) >= Cardinality(Thread) - 1
      BY <2>2, WaitersFinite DEF Rounds
    <3> QED
      BY <3>1, <3>2, <3>3, WaitersFinite, FS_Subset
  <2>4. Waiters' = {}
    BY <2>2, <2>3 DEF Waiters
  <2>5. count' = Cardinality(Waiters')
    BY <2>2, <2>4, FS_EmptySet
  <2>6. \A u \in Thread : ~Coming(u)' /\ arrived[u] = gen + 1
    <3>1. Coming(t) /\ ~Coming(t)'
      BY <2>1, <2>2 DEF Coming, ComingPC
    <3>2. \A u \in Thread \ {t} : ~Coming(u)'
      BY <2>2, <2>3 DEF Coming, Waiters
    <3> QED
      BY <2>3, <3>1, <3>2 DEF Rounds
  <2> QED
    BY <2>1, <2>2, <2>4, <2>5, <2>6 DEF Rounds
<1>5. CASE Recheck(t)
  <2>1. /\ pc[t] = "in" /\ inLoop[t] /\ UNCHANGED <<count, gen, myGen, arrived, left>>
    BY <1>5 DEF Recheck
  <2>2. CASE GenChanged(t)
    <3>1. /\ pc'[t] = "unlock" /\ ~inLoop'[t]
          /\ \A u \in Thread \ {t} : pc'[u] = pc[u] /\ inLoop'[u] = inLoop[u]
      BY <1>1, <1>5, <2>2 DEF Recheck, Goto
    <3>2. Waiters' = Waiters /\ t \notin Waiters
      BY <2>1, <2>2, <3>1 DEF Waiters, GenChanged
    <3>3. ~Coming(t) /\ ~Coming(t)' /\ \A u \in Thread \ {t} : Coming(u)' <=> Coming(u)
      BY <2>1, <3>1 DEF Coming, ComingPC
    <3>4. count' = Cardinality(Waiters')
      BY <2>1, <3>2 DEF Rounds
    <3> QED
      BY <2>1, <3>1, <3>2, <3>3, <3>4 DEF Rounds
  <2>3. CASE ~GenChanged(t)
    <3>1. /\ pc'[t] = "uw" /\ inLoop' = inLoop
          /\ \A u \in Thread \ {t} : pc'[u] = pc[u]
      BY <1>1, <1>5, <2>3 DEF Recheck, PushEntry, Goto
    <3> QED
      BY <2>1, <3>1, RoundsQuiet DEF barVars, EntryPC
  <2> QED
    BY <2>2, <2>3
<1>6. CASE Return(t)
  <2>1. /\ pc[t] = "dealloc" /\ pc'[t] = "out" /\ \A u \in Thread \ {t} : pc'[u] = pc[u]
    BY <1>1, <1>6 DEF Return, Deallocate, Goto
  <2>2. /\ UNCHANGED <<count, gen, myGen, inLoop, arrived>>
        /\ left'[t] = left[t] + 1 /\ \A u \in Thread \ {t} : left'[u] = left[u]
    BY <1>6 DEF Return, barVars
  <2>3. Waiters' = Waiters
    BY <2>2 DEF Waiters
  <2>4. ~Coming(t) /\ ~Coming(t)' /\ \A u \in Thread \ {t} : Coming(u)' <=> Coming(u)
    BY <2>1, <2>2 DEF Coming, ComingPC
  <2>5. ~inLoop[t]
    BY <2>1 DEF Rounds, ComingPC, EntryPC
  <2>6. arrived'[t] = left'[t]
    BY <2>1, <2>2 DEF Rounds
  <2>7. count' = Cardinality(Waiters')
    BY <2>2, <2>3 DEF Rounds
  <2> QED
    BY <2>1, <2>2, <2>3, <2>4, <2>5, <2>6, <2>7 DEF Rounds
<1>7. CASE Relock(t)
  <2>1. /\ pc[t] = "uw_dealloc" /\ pc'[t] = "lock" /\ \A u \in Thread \ {t} : pc'[u] = pc[u]
    BY <1>1, <1>7 DEF Relock, Deallocate, Goto
  <2>2. inLoop[t] /\ pc'[t] \in ComingPC
    BY <2>1 DEF Rounds, ComingPC
  <2>3. UNCHANGED <<barVars, arrived, left>>
    BY <1>7 DEF Relock
  <2> QED
    BY <2>1, <2>2, <2>3, RoundsQuiet
<1>8. CASE MutexStep(t)
  <2>1. UNCHANGED <<barVars, arrived, left>>
    BY <1>8 DEF MutexStep
  <2>2. CASE Lock(t)
    <3>1. pc[t] \in ComingPC /\ pc'[t] \in ComingPC /\ \A u \in Thread \ {t} : pc'[u] = pc[u]
      BY <1>1, <2>2 DEF Lock, LockStart, LockTake, LockSave, LockLink, Goto, ComingPC
    <3> QED
      BY <2>1, <3>1, RoundsQuiet
  <2>3. CASE UnlockClear(t) \/ UnlockCas(t) \/ NaNext(t) \/ NaDone(t)
    <3>1. /\ pc[t] \in {"unlock", "cas", "na_next", "na_done"}
          /\ pc'[t] \in {"cas", "dealloc", "spin", "na_wake", "na_done", "unlock"}
          /\ \A u \in Thread \ {t} : pc'[u] = pc[u]
      BY <1>1, <2>3 DEF UnlockClear, UnlockCas, NaNext, NaDone, Goto
    <3>2. /\ pc[t] \notin ComingPC \cup EntryPC \cup {"out", "uw_dealloc"}
          /\ pc'[t] \notin ComingPC \cup EntryPC \cup {"out", "uw_dealloc"}
      BY <3>1 DEF ComingPC, EntryPC
    <3> QED
      BY <2>1, <3>1, <3>2, RoundsQuiet
  <2>4. CASE UwCheck(t) \/ UwClear(t) \/ UwCas(t)
    <3>1. /\ pc[t] \in {"uw", "uw_clear", "uw_cas"}
          /\ pc'[t] \in {"uw_clear", "uw_cas", "uw_spin", "asleep"}
          /\ \A u \in Thread \ {t} : pc'[u] = pc[u]
      BY <1>1, <2>4 DEF UwCheck, UwClear, UwCas, Goto
    <3>2. inLoop[t] /\ pc'[t] \in EntryPC /\ pc[t] # "out"
      BY <3>1 DEF CvInv, Entries, EntryPC
    <3> QED
      BY <2>1, <3>1, <3>2, RoundsQuiet
  <2>5. ASSUME NEW l \in DeadPC, PassOn(t, l), pc[t] \in {"spin", "uw_spin"}
        PROVE  \E u \in Thread : /\ pc[u] = "blocked" /\ u # t /\ pc'[t] = l /\ pc'[u] = "in"
                                 /\ \A v \in Thread \ {t, u} : pc'[v] = pc[v]
    <3>1. cur[t] \in Node /\ sth[cur[t]] \in Thread /\ pc[sth[cur[t]]] = "blocked"
      BY <2>5, SuccessorIsSaved DEF PassOn, SpinPC, Linked
    <3>2. sth[cur[t]] # t
      BY <2>5, <3>1
    <3> QED
      BY <2>5, <3>1, <3>2 DEF PassOn, GotoAndWake, MtxTypeOK
  <2>6. CASE UnlockSpin(t)
    <3>1. PICK u \in Thread : /\ pc[u] = "blocked" /\ u # t /\ pc'[t] = "dealloc" /\ pc'[u] = "in"
                              /\ \A v \in Thread \ {t, u} : pc'[v] = pc[v]
      BY <2>5, <2>6 DEF UnlockSpin, DeadPC
    <3>2. pc[t] = "spin"
      BY <2>6 DEF UnlockSpin
    <3>3. /\ pc[t] \notin ComingPC \cup EntryPC \cup {"out", "uw_dealloc"}
          /\ pc'[t] \notin ComingPC \cup EntryPC \cup {"out", "uw_dealloc"}
          /\ pc[u] \in ComingPC /\ pc'[u] \in ComingPC
      BY <3>1, <3>2 DEF ComingPC, EntryPC
    <3> QED
      BY <2>1, <3>1, <3>3, RoundsQuiet
  <2>7. CASE UwSpin(t)
    <3>1. PICK u \in Thread : /\ pc[u] = "blocked" /\ u # t /\ pc'[t] = "asleep" /\ pc'[u] = "in"
                              /\ \A v \in Thread \ {t, u} : pc'[v] = pc[v]
      BY <2>5, <2>7 DEF UwSpin, DeadPC
    <3>2. pc[t] = "uw_spin"
      BY <2>7 DEF UwSpin
    <3>3. /\ inLoop[t] /\ pc'[t] \in EntryPC /\ pc[t] # "out"
          /\ pc[u] \in ComingPC /\ pc'[u] \in ComingPC
      BY <3>1, <3>2 DEF ComingPC, EntryPC, CvInv, Entries
    <3> QED
      BY <2>1, <3>1, <3>3, RoundsQuiet
  <2>8. CASE NaWake(t)
    <3>1. we \in Thread /\ pc[we] = "asleep" /\ pc[t] = "na_wake" /\ we # t
      BY <2>8 DEF NaWake, CvInv, Notifying, MtxTypeOK
    <3>2. /\ pc'[t] = "na_next" /\ pc'[we] = "uw_dealloc"
          /\ \A u \in Thread \ {t, we} : pc'[u] = pc[u]
      BY <2>8, <3>1 DEF NaWake, GotoAndWake, MtxTypeOK
    <3>3. /\ inLoop[we] /\ pc[we] # "out"
          /\ pc[t] \notin ComingPC \cup EntryPC \cup {"out", "uw_dealloc"}
          /\ pc'[t] \notin ComingPC \cup EntryPC \cup {"out", "uw_dealloc"}
      BY <3>1, <3>2 DEF CvInv, Entries, ComingPC, EntryPC
    <3> QED
      BY <2>1, <3>2, <3>3, RoundsQuiet
  <2> QED
    BY <1>8, <2>2, <2>3, <2>4, <2>6, <2>7, <2>8 DEF MutexStep, Unlock, UnlockAndWait, Notify
<1> QED
  BY <1>2, <1>3, <1>4, <1>5, <1>6, <1>7, <1>8 DEF Proceed

----------------------------------------------------------------------------
(* Types, and the theorems *)

\* Every step of the mutex keeps the types.
LEMMA MtxTypeStep ==
    ASSUME TypeOK, QueueInv, CvInv, NEW t \in Thread, Call(t) \/ Proceed(t)
    PROVE  MtxTypeOK'
<1> USE DEF MtxTypeOK, CoreTypeOK
<1> MtxTypeOK
  BY DEF TypeOK
<1>1. /\ cur[t] # Nil => cur[t] \in Node
      /\ pc[t] \in SpinPC => cur[t] \in Node
      /\ pc[t] \in {"na_wake", "na_next"} => we \in Thread
  BY QueueFacts DEF QueueInv, Phases, CurPC, CvInv, Notifying
<1>2. ASSUME NEW l \in MtxPC, Goto(t, l)
      PROVE  pc' \in [Thread -> MtxPC]
  BY <1>2 DEF Goto
<1>3. ASSUME NEW l \in MtxPC, NEW m \in MtxPC, NEW u, GotoAndWake(t, l, u, m)
      PROVE  pc' \in [Thread -> MtxPC]
  BY <1>3 DEF GotoAndWake
<1>4. CASE Call(t)
  <2>1. pc' \in [Thread -> MtxPC]
    BY <1>2, <1>4 DEF Call, MtxPC
  <2> QED
    BY <1>4, <2>1 DEF Call, core, nodeVars, cvVars
<1>5. CASE ArriveFirst(t)
  <2>1. pc' \in [Thread -> MtxPC]
    BY <1>2, <1>5 DEF ArriveFirst, PushEntry, MtxPC
  <2> QED
    BY <1>5, <2>1 DEF ArriveFirst, PushEntry, core, nodeVars
<1>6. CASE ArriveLast(t)
  <2>1. pc' \in [Thread -> MtxPC]
    BY <1>2, <1>6 DEF ArriveLast, NotifyAll, MtxPC
  <2> QED
    BY <1>6, <2>1 DEF ArriveLast, NotifyAll, core, nodeVars
<1>7. CASE Recheck(t)
  <2>1. pc' \in [Thread -> MtxPC]
    BY <1>2, <1>7 DEF Recheck, PushEntry, MtxPC
  <2> QED
    BY <1>7, <2>1 DEF Recheck, PushEntry, core, nodeVars, cvVars
<1>8. CASE Return(t) \/ Relock(t)
  <2>1. pc[t] \in CurPC
    BY <1>8 DEF Return, Relock, Deallocate, CurPC, DeadPC
  <2>2. cur[t] \in Node
    BY <1>1, <2>1 DEF QueueInv, Phases
  <2>3. pc' \in [Thread -> MtxPC]
    BY <1>2, <1>8 DEF Return, Relock, Deallocate, MtxPC
  <2> QED
    BY <1>8, <2>2, <2>3 DEF Return, Relock, Deallocate, cvVars
<1>9. CASE Lock(t)
  <2>1. pc' \in [Thread -> MtxPC]
    BY <1>2, <1>9 DEF Lock, LockStart, LockTake, LockSave, LockLink, MtxPC
  <2>2. CASE LockStart(t)
    BY <2>1, <2>2 DEF LockStart, cvVars
  <2>3. CASE LockTake(t)
    BY <2>1, <2>3 DEF LockTake, cvVars
  <2>4. CASE LockSave(t)
    BY <2>1, <2>4 DEF LockSave, Suspend, core, cvVars
  <2>5. CASE LockLink(t)
    BY <2>1, <2>5 DEF LockLink, SetNext, cvVars
  <2> QED
    BY <1>9, <2>2, <2>3, <2>4, <2>5 DEF Lock
<1>10. CASE UnlockClear(t)
  <2>1. pc' \in [Thread -> MtxPC]
    BY <1>2, <1>10 DEF UnlockClear, MtxPC
  <2> QED
    BY <1>10, <2>1 DEF UnlockClear, cvVars
<1>11. CASE UnlockCas(t)
  <2>1. pc' \in [Thread -> MtxPC]
    BY <1>2, <1>11 DEF UnlockCas, MtxPC
  <2> QED
    BY <1>11, <2>1 DEF UnlockCas, Restore, nodeVars, cvVars
<1>12. CASE UnlockSpin(t)
  <2>1. pc' \in [Thread -> MtxPC]
    BY <1>3, <1>12 DEF UnlockSpin, PassOn, MtxPC
  <2> QED
    BY <1>1, <1>12, <2>1 DEF UnlockSpin, PassOn, cvVars, SpinPC
<1>13. CASE UwCheck(t)
  <2>1. pc' \in [Thread -> MtxPC]
    BY <1>2, <1>13 DEF UwCheck, MtxPC
  <2> QED
    BY <1>13, <2>1 DEF UwCheck, SaveEntry, core
<1>14. CASE UwClear(t)
  <2>1. pc' \in [Thread -> MtxPC]
    BY <1>2, <1>14 DEF UwClear, MtxPC
  <2> QED
    BY <1>14, <2>1 DEF UwClear, nodeVars, cvVars
<1>15. CASE UwCas(t)
  <2>1. pc' \in [Thread -> MtxPC]
    BY <1>2, <1>15 DEF UwCas, MtxPC
  <2> QED
    BY <1>15, <2>1 DEF UwCas, Restore, nodeVars
<1>16. CASE UwSpin(t)
  <2>1. pc' \in [Thread -> MtxPC]
    BY <1>3, <1>16 DEF UwSpin, PassOn, MtxPC
  <2> QED
    BY <1>1, <1>16, <2>1 DEF UwSpin, PassOn, SpinPC
<1>17. CASE NaWake(t)
  <2>1. pc' \in [Thread -> MtxPC]
    BY <1>3, <1>17 DEF NaWake, MtxPC
  <2> QED
    BY <1>17, <2>1 DEF NaWake, core, nodeVars
<1>18. CASE NaNext(t)
  <2>1. pc' \in [Thread -> MtxPC]
    BY <1>2, <1>18 DEF NaNext, MtxPC
  <2> QED
    BY <1>1, <1>18, <2>1 DEF NaNext, core, nodeVars
<1>19. CASE NaDone(t)
  <2>1. pc' \in [Thread -> MtxPC]
    BY <1>2, <1>19 DEF NaDone, MtxPC
  <2> QED
    BY <1>19, <2>1 DEF NaDone, core, nodeVars
<1> QED
  BY <1>4, <1>5, <1>6, <1>7, <1>8, <1>9, <1>10, <1>11, <1>12, <1>13, <1>14, <1>15, <1>16,
     <1>17, <1>18, <1>19 DEF Proceed, MutexStep, Unlock, UnlockAndWait, Notify

\* Every step of the barrier keeps the types.
LEMMA TypeStep ==
    ASSUME IInv, NEW t \in Thread, Call(t) \/ Proceed(t)
    PROVE  TypeOK'
<1> TypeOK /\ Rounds
  BY DEF IInv
<1>1. MtxTypeOK'
  BY MtxTypeStep DEF IInv
<1>2. /\ count \in 0..(Cardinality(Thread) - 1) /\ Cardinality(Thread) \in Nat
      /\ gen \in Nat /\ myGen \in [Thread -> Nat] /\ inLoop \in [Thread -> BOOLEAN]
      /\ arrived \in [Thread -> 0..MaxRound] /\ left \in [Thread -> 0..MaxRound] /\ MaxRound \in Nat
  BY RoundAssumption, FS_CardinalityType DEF TypeOK
<1>3. CASE Call(t)
  <2>1. arrived' \in [Thread -> 0..MaxRound]
    BY <1>2, <1>3 DEF Call
  <2> QED
    BY <1>1, <1>2, <1>3, <2>1 DEF Call, TypeOK, barVars
<1>4. CASE ArriveFirst(t)
  <2>1. count' \in 0..(Cardinality(Thread) - 1)
    BY <1>2, <1>4 DEF ArriveFirst, IsLast
  <2> QED
    BY <1>1, <1>2, <1>4, <2>1 DEF ArriveFirst, TypeOK
<1>5. CASE ArriveLast(t)
  BY <1>1, <1>2, <1>5 DEF ArriveLast, ResetCount, TypeOK
<1>6. CASE Recheck(t)
  BY <1>1, <1>2, <1>6 DEF Recheck, TypeOK
<1>7. CASE Return(t)
  <2>1. pc[t] # "out"
    BY <1>7 DEF Return, Deallocate
  <2>2. left[t] + 1 = arrived[t]
    BY <2>1 DEF Rounds
  <2>3. left[t] + 1 \in 0..MaxRound
    BY <1>2, <2>2
  <2>4. left' \in [Thread -> 0..MaxRound]
    BY <1>2, <1>7, <2>3 DEF Return
  <2> QED
    BY <1>1, <1>2, <1>7, <2>4 DEF Return, TypeOK, barVars
<1>8. CASE Relock(t) \/ MutexStep(t)
  BY <1>1, <1>2, <1>8 DEF Relock, MutexStep, TypeOK, barVars
<1> QED
  BY <1>3, <1>4, <1>5, <1>6, <1>7, <1>8 DEF Proceed

\* Nobody has the mutex and nobody has arrived at first.
LEMMA InitInv == Init => IInv
<1> SUFFICES ASSUME Init PROVE IInv
  OBVIOUS
<1>1. Cardinality(Thread) \in Nat \ {0}
  BY RoundAssumption, FS_CardinalityType, FS_EmptySet
<1>2. TypeOK
  <2>1. MtxTypeOK
    BY DEF Init, MtxInit, MtxTypeOK, CoreTypeOK, MtxPC
  <2> QED
    BY <1>1, <2>1, RoundAssumption DEF Init, TypeOK
<1>3. QueueInv
  <2>1. Dead = {}
    BY DEF Init, MtxInit, Dead, DeadPC
  <2>2. \A n \in Node : ~Linked(n)
    BY ThreadAssumption DEF Init, MtxInit, Linked
  <2>3. OneHolder
    BY DEF Init, MtxInit, OneHolder, HolderPC, MutexPC
  <2>4. Phases
    BY DEF Init, MtxInit, Phases, CurPC, SpinPC, DeadPC, HeadPC, MutexPC
  <2>5. NoSharing /\ NotFree /\ Links
    BY <2>1, <2>2, NodeAssumption DEF Init, MtxInit, NoSharing, NotFree, Links
  <2>6. Queueing /\ Suspended
    BY DEF Init, MtxInit, Queueing, Suspended
  <2> QED
    BY <2>3, <2>4, <2>5, <2>6 DEF QueueInv
<1>4. CvInv
  BY DEF Init, MtxInit, CvInv, Entries, Notifying, EntryPC
<1>5. Rounds
  <2>1. Waiters = {} /\ \A t \in Thread : ~Coming(t)
    BY DEF Init, MtxInit, Waiters, Coming, ComingPC
  <2> QED
    BY <2>1, FS_EmptySet DEF Init, MtxInit, Rounds
<1> QED
  BY <1>2, <1>3, <1>4, <1>5 DEF IInv

\* Every step keeps the invariant.
LEMMA NextInv == IInv /\ [Next]_vars => IInv'
<1> SUFFICES ASSUME IInv, [Next]_vars PROVE IInv'
  OBVIOUS
<1>1. TypeOK /\ MtxTypeOK /\ QueueInv /\ CvInv /\ Rounds
  BY DEF IInv, TypeOK
<1>2. ASSUME NEW t \in Thread, Call(t) \/ Proceed(t)
      PROVE  IInv'
  <2>1. TypeOK'
    BY <1>2, TypeStep
  <2>2. QueueInv'
    BY <1>1, <1>2, QueueStep
  <2>3. CvInv'
    BY <1>1, <1>2, CvStep
  <2>4. Rounds'
    BY <1>1, <1>2, RoundsStep
  <2> QED
    BY <2>1, <2>2, <2>3, <2>4 DEF IInv
<1>3. CASE UNCHANGED vars
  <2>1. UNCHANGED <<mtxVars, barVars, arrived, left>>
    BY <1>3 DEF vars
  <2>2. UNCHANGED <<core, pc, nodeVars, cvVars>>
    BY <2>1 DEF mtxVars
  <2>3. TypeOK'
    BY <1>1, <2>1, <2>2
       DEF TypeOK, MtxTypeOK, CoreTypeOK, core, nodeVars, cvVars, barVars
  <2>4. QueueInv'
    <3>1. \A u \in Thread : SamePhase(pc[u], pc'[u])
      BY <2>2 DEF SamePhase
    <3> QED
      BY <1>1, <2>2, <3>1, QuietStep
  <2>5. CvInv'
    <3>1. (\E u \in Thread : pc[u] = "na_next") => pc'[we] \in AwakePC /\ inLoop'[we]
      BY <1>1, <2>1, <2>2 DEF CvInv, Notifying, AwakePC, barVars
    <3>2. inLoop' = inLoop /\ pc' = pc
      BY <2>1, <2>2 DEF barVars
    <3> QED
      BY <1>1, <2>2, <3>1, <3>2, CvQuiet
  <2>6. Rounds'
    BY <1>1, <2>1, <2>2, RoundsQuiet
  <2> QED
    BY <2>3, <2>4, <2>5, <2>6 DEF IInv
<1> QED
  BY <1>2, <1>3 DEF Next, Done

\* The invariant holds always.
THEOREM InvHolds == Spec => []IInv
BY InitInv, NextInv, PTL DEF Spec

\* The state of the mutex, the condition variable and the barrier is well-typed,
\* and the count of arrived threads stays below their number.
THEOREM TypeCorrect == Spec => []TypeOK
BY InvHolds, PTL DEF IInv

\* The mutex has one holder, whoever is queueing up, unlocking or waiting.
THEOREM MutualExclusionHolds == Spec => []MutualExclusion
<1>1. IInv => MutualExclusion
  BY DEF IInv, QueueInv, OneHolder, HolderPC, MutualExclusion
<1> QED
  BY <1>1, InvHolds, PTL

\* The invariant says that the queue is sound.
LEMMA InvQueueIsSound == IInv => QueueIsSound
<1> SUFFICES ASSUME IInv PROVE QueueIsSound
  OBVIOUS
<1>1. MtxTypeOK /\ QueueInv
  BY DEF IInv, TypeOK
<1>2. HeadIsHolders
  <2>1. \A t \in Thread : pc[t] \in MutexPC \ {"cas", "uw_cas"} => head # Nil
    BY <1>1 DEF QueueInv, Phases, HeadPC
  <2>2. head \notin free
    BY <1>1 DEF QueueInv, NotFree
  <2>3. \A t \in Thread : pc[t] = "take" => head = Nil
    BY <1>1 DEF QueueInv, Phases
  <2>4. \A t \in Thread : pc[t] \in {"spin", "uw_spin", "uw_clear"} => head = cur[t]
    BY <1>1 DEF QueueInv, Phases, SpinPC
  <2> QED
    BY <2>1, <2>2, <2>3, <2>4 DEF HeadIsHolders
<1>3. PredecessorAlive
  BY <1>1 DEF QueueInv, Queueing, PredecessorAlive
<1>4. LinkedIsSaved
  BY <1>1, SuccessorIsSaved, ThreadAssumption DEF LinkedIsSaved, Linked, SpinPC
<1> QED
  BY <1>2, <1>3, <1>4 DEF QueueIsSound

\* head_ is the holder's, no node is reused while somebody is on the way to it,
\* and an unlocker that sees a link finds a suspended thread.
THEOREM QueueIsSoundHolds == Spec => []QueueIsSound
BY InvHolds, InvQueueIsSound, PTL

\* notify_all only reads entries of threads that have not returned from wait().
THEOREM EntryAliveHolds == Spec => []EntryAlive
<1>1. IInv => EntryAlive
  BY DEF IInv, CvInv, Entries, Notifying, EntryAlive, TypeOK, MtxTypeOK
<1> QED
  BY <1>1, InvHolds, PTL

\* The barrier implements the safety part of Barrier: nobody leaves a round
\* before everybody has arrived at it, and nobody arrives twice.
BarrierSafety == BarrierSpec!Init /\ [][BarrierSpec!Next]_<<arrived, left>>

THEOREM BarrierRefined == Spec => BarrierSafety
<1>1. Init => BarrierSpec!Init
  BY DEF Init, BarrierSpec!Init
<1>2. IInv /\ [Next]_vars => [BarrierSpec!Next]_<<arrived, left>>
  <2> SUFFICES ASSUME IInv, [Next]_vars PROVE [BarrierSpec!Next]_<<arrived, left>>
    OBVIOUS
  <2>1. /\ Rounds /\ gen \in Nat
        /\ arrived \in [Thread -> 0..MaxRound] /\ left \in [Thread -> 0..MaxRound] /\ MaxRound \in Nat
    BY RoundAssumption DEF IInv, TypeOK
  <2>2. ASSUME NEW t \in Thread, Call(t)
        PROVE  BarrierSpec!Arrive(t)
    BY <2>1, <2>2 DEF Call, Rounds, BarrierSpec!Arrive
  <2>3. ASSUME NEW t \in Thread, Return(t)
        PROVE  BarrierSpec!Leave(t)
    <3>1. pc[t] = "dealloc"
      BY <2>3 DEF Return, Deallocate
    <3>2. t \notin Waiters /\ ~Coming(t)
      BY <2>1, <3>1 DEF Rounds, Waiters, Coming, ComingPC, EntryPC
    <3>3. arrived[t] = gen /\ arrived[t] = left[t] + 1
      BY <2>1, <3>1, <3>2 DEF Rounds
    <3>4. \A u \in Thread : arrived[u] >= arrived[t]
      BY <2>1, <3>3 DEF Rounds
    <3> QED
      BY <2>1, <2>3, <3>3, <3>4 DEF Return, BarrierSpec!Leave
  <2>4. ASSUME NEW t \in Thread,
               ArriveFirst(t) \/ ArriveLast(t) \/ Recheck(t) \/ Relock(t) \/ MutexStep(t)
        PROVE  UNCHANGED <<arrived, left>>
    BY <2>4 DEF ArriveFirst, ArriveLast, Recheck, Relock, MutexStep
  <2>5. CASE UNCHANGED vars
    BY <2>5 DEF vars
  <2> QED
    BY <2>2, <2>3, <2>4, <2>5 DEF Next, Proceed, Done, BarrierSpec!Next
<1> QED
  BY <1>1, <1>2, InvHolds, PTL DEF Spec, BarrierSafety
=============================================================================
