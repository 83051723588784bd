-------------------------- MODULE QueueLockProofs --------------------------
(***************************************************************************)
(* Proofs about QueueLock for any number of processes and any LAD values.  *)
(*                                                                         *)
(* Mutual exclusion is not inductive by itself: the lock is a token that   *)
(* rests in an owned word, is held by a process, or travels in a message,  *)
(* and the invariant has to say that there is never more than one.  The    *)
(* word of a process has to be tied to its phase (a locked word is never   *)
(* left behind), a word that was linked while its process was busy to the  *)
(* process that waits for it, and the LAD to the token.                    *)
(***************************************************************************)
EXTENDS QueueLock, TLAPS

\* At most one token: owned word, holder or message.
OneToken ==
    /\ \A p, q \in Proc : Holding(p) /\ Holding(q) => p = q
    /\ \A p, q \in Proc : glk[p] = Owned /\ glk[q] = Owned => p = q
    /\ \A p, q \in Proc : ~(glk[p] = Owned /\ Holding(q))
    /\ \A m \in msgs : \A p \in Proc : ~Holding(p) /\ glk[p] # Owned
    /\ \A m, n \in msgs : m = n

\* A locked word belongs to a busy process, an owned one to an idle process.
PhaseInv ==
    \A p \in Proc :
        /\ pc[p] \in {"idle", "cas1", "store"} => glk[p] # Locked
        /\ pc[p] \in {"cas2", "cas3", "recv"} => glk[p] # Owned
        /\ pc[p] = "store" => glk[p] = linkVal[p] /\ glk[p] # Owned
        /\ pc[p] = "write_lad" /\ glk[p] = Locked => linkVal[p] = Locked
        /\ pc[p] = "send" => glk[p] = linkVal[p] /\ glk[p] # Locked
        /\ pc[p] = "write_lad" /\ linkVal[p] # Locked => glk[p] = linkVal[p]

\* The word of a busy process links to the process that waits for it.
Busy(p) == pc[p] \in {"cas2", "cas3", "recv"} \/ Holding(p)

LinkInv ==
    /\ \A p, q \in Proc :
            Busy(q) /\ glk[q] = Linked(p) => pc[p] = "recv" /\ proc[p] = q
    /\ \A m \in msgs : m.from # m.to
    /\ \A m \in msgs : ~(Busy(m.from) /\ glk[m.from] = Linked(m.to))
    /\ MessageIsExpected

\* The LAD travels with the token.
LadInv ==
    /\ \A p \in Proc :
        /\ glk[p] = Owned => lads[p] = last
        /\ pc[p] = "copy_lad" => lads[p] = last
        /\ pc[p] = "read_lad" => lads[proc[p]] = last
        /\ pc[p] \in {"held", "write_lad"} => ladBuf[p] = last
        /\ pc[p] = "cas_unlock" => lads[p] = ladBuf[p]
    /\ \A m \in msgs : m.lad = last

\* Where the lock has to come from before p can have it: the process p waits
\* for or is looking at, or, when p is not asking, the one its word points to.
\* The place of the token has no such process.
NoProc == -1

HasToken(p) == Holding(p) \/ glk[p] = Owned \/ \E m \in msgs : m.to = p

Source(p) ==
    IF HasToken(p) THEN NoProc
    ELSE IF pc[p] \in {"cas2", "cas3", "recv"} THEN proc[p]
    ELSE ProbableOwner(p, glk[p])

\* Nobody can go round in circles: no set of processes is closed under Source.
AcyclicInv ==
    \A S \in SUBSET Proc : (\A p \in S : Source(p) \in S) => S = {}

IInv == TypeOK /\ OneToken /\ PhaseInv /\ LinkInv /\ LadInv /\ AcyclicInv

----------------------------------------------------------------------------
\* The lock words are pairwise distinct, and a link leads to a process.
LEMMA LockValFacts ==
    /\ \A v \in LockVal : \A p \in Proc : ProbableOwner(p, v) \in Proc
    /\ \A p \in Proc : Linked(p) \in LockVal /\ Linked(p) # Owned /\ Linked(p) # Locked
    /\ \A p, q \in Proc : Linked(p) = Linked(q) => p = q
    /\ \A v \in LockVal : \A p \in Proc :
          v # Owned /\ v # Locked => v = Linked(ProbableOwner(p, v))
    /\ \A p \in Proc : ProbableOwner(p, Owned) = p /\ ProbableOwner(p, Locked) = p
    /\ Owned \in LockVal /\ Locked \in LockVal /\ Owned # Locked
BY NumProcsAssumption DEF LockVal, Proc, Linked, Owned, Locked, ProbableOwner

\* The initial words hold exactly one token, at the initial owner.
LEMMA InitIInv == Init => IInv
<1> SUFFICES ASSUME Init PROVE IInv
  OBVIOUS
<1>1. InitOwner \in Proc
  BY InitOwnerAssumption DEF Proc
<1>2. TypeOK
  BY <1>1, LockValFacts DEF Init, TypeOK
<1>3. OneToken /\ PhaseInv /\ LinkInv /\ LadInv
  BY <1>1, LockValFacts
  DEF Init, OneToken, PhaseInv, LinkInv, LadInv, Busy, MessageIsExpected, Holding
<1>4. \A p \in Proc : Source(p) \in {NoProc, InitOwner} /\ Source(InitOwner) = NoProc
  BY <1>1, LockValFacts DEF Init, Source, HasToken, Holding, ProbableOwner, Linked, Owned, Proc
<1>5. NoProc \notin Proc
  BY DEF NoProc, Proc
<1>6. AcyclicInv
  BY <1>1, <1>4, <1>5 DEF AcyclicInv
<1> QED BY <1>2, <1>3, <1>6 DEF IInv

LEMMA TypeOKStep == IInv /\ [Next]_vars => TypeOK'
<1> SUFFICES ASSUME IInv, [Next]_vars PROVE TypeOK'
  OBVIOUS
<1> USE LockValFacts DEF IInv
<1>1. ASSUME NEW p \in Proc, LockRead(p) PROVE TypeOK'
  BY <1>1 DEF LockRead, TypeOK
<1>2. ASSUME NEW p \in Proc, LockCas1(p) PROVE TypeOK'
  BY <1>2 DEF LockCas1, CompareAndSwap, TypeOK
<1>3. ASSUME NEW p \in Proc, LockCopyLad(p) PROVE TypeOK'
  BY <1>3 DEF LockCopyLad, TypeOK
<1>4. ASSUME NEW p \in Proc, LockStore(p) PROVE TypeOK'
  BY <1>4 DEF LockStore, TypeOK
<1>5. ASSUME NEW p \in Proc, LockCas2(p) PROVE TypeOK'
  BY <1>5 DEF LockCas2, CompareAndSwap, TypeOK
<1>6. ASSUME NEW p \in Proc, LockReadLad(p) PROVE TypeOK'
  BY <1>6 DEF LockReadLad, TypeOK
<1>7. ASSUME NEW p \in Proc, LockCas3(p) PROVE TypeOK'
  BY <1>7 DEF LockCas3, CompareAndSwap, TypeOK
<1>8. ASSUME NEW p \in Proc, LockRecv(p) PROVE TypeOK'
  BY <1>8 DEF LockRecv, TypeOK
<1>9. ASSUME NEW p \in Proc, UnlockRead(p) PROVE TypeOK'
  BY <1>9 DEF UnlockRead, TypeOK
<1>10. ASSUME NEW p \in Proc, UnlockWriteLad(p) PROVE TypeOK'
  BY <1>10 DEF UnlockWriteLad, TypeOK
<1>11. ASSUME NEW p \in Proc, UnlockCas(p) PROVE TypeOK'
  BY <1>11 DEF UnlockCas, CompareAndSwap, TypeOK
<1>12. ASSUME NEW p \in Proc, UnlockSend(p) PROVE TypeOK'
  BY <1>12 DEF UnlockSend, TypeOK
<1>13. CASE UNCHANGED vars
  BY <1>13 DEF vars, TypeOK
<1> QED
  BY <1>1, <1>2, <1>3, <1>4, <1>5, <1>6, <1>7, <1>8, <1>9, <1>10, <1>11, <1>12, <1>13
  DEF Next, Lock, Unlock

LEMMA OneTokenStep == IInv /\ [Next]_vars => OneToken'
<1> SUFFICES ASSUME IInv, [Next]_vars PROVE OneToken'
  OBVIOUS
<1> USE LockValFacts DEF IInv
<1>1. ASSUME NEW p \in Proc, LockRead(p) PROVE OneToken'
  BY <1>1 DEF LockRead, TypeOK, OneToken, Holding
<1>2. ASSUME NEW p \in Proc, LockCas1(p) PROVE OneToken'
  BY <1>2 DEF LockCas1, CompareAndSwap, TypeOK, OneToken, Holding
<1>3. ASSUME NEW p \in Proc, LockCopyLad(p) PROVE OneToken'
  BY <1>3 DEF LockCopyLad, TypeOK, OneToken, Holding
<1>4. ASSUME NEW p \in Proc, LockStore(p) PROVE OneToken'
  BY <1>4 DEF LockStore, TypeOK, OneToken, Holding
<1>5. ASSUME NEW p \in Proc, LockCas2(p) PROVE OneToken'
  BY <1>5 DEF LockCas2, CompareAndSwap, TypeOK, OneToken, Holding
<1>6. ASSUME NEW p \in Proc, LockReadLad(p) PROVE OneToken'
  BY <1>6 DEF LockReadLad, TypeOK, OneToken, Holding
<1>7. ASSUME NEW p \in Proc, LockCas3(p) PROVE OneToken'
  BY <1>7 DEF LockCas3, CompareAndSwap, TypeOK, OneToken, Holding
<1>8. ASSUME NEW p \in Proc, LockRecv(p) PROVE OneToken'
  BY <1>8 DEF LockRecv, TypeOK, OneToken, Holding
<1>9. ASSUME NEW p \in Proc, UnlockRead(p) PROVE OneToken'
  BY <1>9 DEF UnlockRead, TypeOK, OneToken, Holding
<1>10. ASSUME NEW p \in Proc, UnlockWriteLad(p) PROVE OneToken'
  BY <1>10 DEF UnlockWriteLad, TypeOK, OneToken, Holding
<1>11. ASSUME NEW p \in Proc, UnlockCas(p) PROVE OneToken'
  BY <1>11 DEF UnlockCas, CompareAndSwap, TypeOK, OneToken, Holding
<1>12. ASSUME NEW p \in Proc, UnlockSend(p) PROVE OneToken'
  BY <1>12 DEF UnlockSend, TypeOK, OneToken, Holding
<1>13. CASE UNCHANGED vars
  BY <1>13 DEF vars, TypeOK, OneToken, Holding
<1> QED
  BY <1>1, <1>2, <1>3, <1>4, <1>5, <1>6, <1>7, <1>8, <1>9, <1>10, <1>11, <1>12, <1>13
  DEF Next, Lock, Unlock

LEMMA PhaseInvStep == IInv /\ [Next]_vars => PhaseInv'
<1> SUFFICES ASSUME IInv, [Next]_vars PROVE PhaseInv'
  OBVIOUS
<1> USE LockValFacts DEF IInv
<1>1. ASSUME NEW p \in Proc, LockRead(p) PROVE PhaseInv'
  BY <1>1 DEF LockRead, TypeOK, OneToken, PhaseInv, Holding
<1>2. ASSUME NEW p \in Proc, LockCas1(p) PROVE PhaseInv'
  BY <1>2 DEF LockCas1, CompareAndSwap, TypeOK, OneToken, PhaseInv, Holding
<1>3. ASSUME NEW p \in Proc, LockCopyLad(p) PROVE PhaseInv'
  BY <1>3 DEF LockCopyLad, TypeOK, OneToken, PhaseInv, Holding
<1>4. ASSUME NEW p \in Proc, LockStore(p) PROVE PhaseInv'
  BY <1>4 DEF LockStore, TypeOK, OneToken, PhaseInv, Holding
<1>5. ASSUME NEW p \in Proc, LockCas2(p) PROVE PhaseInv'
  BY <1>5 DEF LockCas2, CompareAndSwap, TypeOK, OneToken, PhaseInv, Holding
<1>6. ASSUME NEW p \in Proc, LockReadLad(p) PROVE PhaseInv'
  BY <1>6 DEF LockReadLad, TypeOK, OneToken, PhaseInv, Holding
<1>7. ASSUME NEW p \in Proc, LockCas3(p) PROVE PhaseInv'
  BY <1>7 DEF LockCas3, CompareAndSwap, TypeOK, OneToken, PhaseInv, Holding
<1>8. ASSUME NEW p \in Proc, LockRecv(p) PROVE PhaseInv'
  BY <1>8 DEF LockRecv, TypeOK, OneToken, PhaseInv, Holding
<1>9. ASSUME NEW p \in Proc, UnlockRead(p) PROVE PhaseInv'
  BY <1>9 DEF UnlockRead, TypeOK, OneToken, PhaseInv, Holding
<1>10. ASSUME NEW p \in Proc, UnlockWriteLad(p) PROVE PhaseInv'
  BY <1>10 DEF UnlockWriteLad, TypeOK, OneToken, PhaseInv, Holding
<1>11. ASSUME NEW p \in Proc, UnlockCas(p) PROVE PhaseInv'
  BY <1>11 DEF UnlockCas, CompareAndSwap, TypeOK, OneToken, PhaseInv, Holding
<1>12. ASSUME NEW p \in Proc, UnlockSend(p) PROVE PhaseInv'
  BY <1>12 DEF UnlockSend, TypeOK, OneToken, PhaseInv, Holding
<1>13. CASE UNCHANGED vars
  BY <1>13 DEF vars, TypeOK, OneToken, PhaseInv, Holding
<1> QED
  BY <1>1, <1>2, <1>3, <1>4, <1>5, <1>6, <1>7, <1>8, <1>9, <1>10, <1>11, <1>12, <1>13
  DEF Next, Lock, Unlock

LEMMA LinkInvStep == IInv /\ [Next]_vars => LinkInv'
<1> SUFFICES ASSUME IInv, [Next]_vars PROVE LinkInv'
  OBVIOUS
<1> USE LockValFacts DEF IInv
<1>1. ASSUME NEW p \in Proc, LockRead(p) PROVE LinkInv'
  BY <1>1 DEF LockRead, TypeOK, OneToken, PhaseInv, LinkInv, Busy, Holding, MessageIsExpected
<1>2. ASSUME NEW p \in Proc, LockCas1(p) PROVE LinkInv'
  BY <1>2 DEF LockCas1, CompareAndSwap, TypeOK, OneToken, PhaseInv, LinkInv, Busy, Holding, MessageIsExpected
<1>3. ASSUME NEW p \in Proc, LockCopyLad(p) PROVE LinkInv'
  BY <1>3 DEF LockCopyLad, TypeOK, OneToken, PhaseInv, LinkInv, Busy, Holding, MessageIsExpected
<1>4. ASSUME NEW p \in Proc, LockStore(p) PROVE LinkInv'
  BY <1>4 DEF LockStore, TypeOK, OneToken, PhaseInv, LinkInv, Busy, Holding, MessageIsExpected
<1>5. ASSUME NEW p \in Proc, LockCas2(p) PROVE LinkInv'
  BY <1>5 DEF LockCas2, CompareAndSwap, TypeOK, OneToken, PhaseInv, LinkInv, Busy, Holding, MessageIsExpected
<1>6. ASSUME NEW p \in Proc, LockReadLad(p) PROVE LinkInv'
  BY <1>6 DEF LockReadLad, TypeOK, OneToken, PhaseInv, LinkInv, Busy, Holding, MessageIsExpected
<1>7. ASSUME NEW p \in Proc, LockCas3(p) PROVE LinkInv'
  BY <1>7 DEF LockCas3, CompareAndSwap, TypeOK, OneToken, PhaseInv, LinkInv, Busy, Holding, MessageIsExpected
<1>8. ASSUME NEW p \in Proc, LockRecv(p) PROVE LinkInv'
  BY <1>8 DEF LockRecv, TypeOK, OneToken, PhaseInv, LinkInv, Busy, Holding, MessageIsExpected
<1>9. ASSUME NEW p \in Proc, UnlockRead(p) PROVE LinkInv'
  BY <1>9 DEF UnlockRead, TypeOK, OneToken, PhaseInv, LinkInv, Busy, Holding, MessageIsExpected
<1>10. ASSUME NEW p \in Proc, UnlockWriteLad(p) PROVE LinkInv'
  BY <1>10 DEF UnlockWriteLad, TypeOK, OneToken, PhaseInv, LinkInv, Busy, Holding, MessageIsExpected
<1>11. ASSUME NEW p \in Proc, UnlockCas(p) PROVE LinkInv'
  BY <1>11 DEF UnlockCas, CompareAndSwap, TypeOK, OneToken, PhaseInv, LinkInv, Busy, Holding, MessageIsExpected
<1>12. ASSUME NEW p \in Proc, UnlockSend(p) PROVE LinkInv'
  BY <1>12 DEF UnlockSend, TypeOK, OneToken, PhaseInv, LinkInv, Busy, Holding, MessageIsExpected
<1>13. CASE UNCHANGED vars
  BY <1>13 DEF vars, TypeOK, OneToken, PhaseInv, LinkInv, Busy, Holding, MessageIsExpected
<1> QED
  BY <1>1, <1>2, <1>3, <1>4, <1>5, <1>6, <1>7, <1>8, <1>9, <1>10, <1>11, <1>12, <1>13
  DEF Next, Lock, Unlock

LEMMA LadInvStep == IInv /\ [Next]_vars => LadInv'
<1> SUFFICES ASSUME IInv, [Next]_vars PROVE LadInv'
  OBVIOUS
<1> USE LockValFacts DEF IInv
<1>1. ASSUME NEW p \in Proc, LockRead(p) PROVE LadInv'
  BY <1>1 DEF LockRead, TypeOK, OneToken, PhaseInv, LadInv, Holding
<1>2. ASSUME NEW p \in Proc, LockCas1(p) PROVE LadInv'
  BY <1>2 DEF LockCas1, CompareAndSwap, TypeOK, OneToken, PhaseInv, LadInv, Holding
<1>3. ASSUME NEW p \in Proc, LockCopyLad(p) PROVE LadInv'
  BY <1>3 DEF LockCopyLad, TypeOK, OneToken, PhaseInv, LadInv, Holding
<1>4. ASSUME NEW p \in Proc, LockStore(p) PROVE LadInv'
  BY <1>4 DEF LockStore, TypeOK, OneToken, PhaseInv, LadInv, Holding
<1>5. ASSUME NEW p \in Proc, LockCas2(p) PROVE LadInv'
  BY <1>5 DEF LockCas2, CompareAndSwap, TypeOK, OneToken, PhaseInv, LadInv, Holding
<1>6. ASSUME NEW p \in Proc, LockReadLad(p) PROVE LadInv'
  BY <1>6 DEF LockReadLad, TypeOK, OneToken, PhaseInv, LadInv, Holding
<1>7. ASSUME NEW p \in Proc, LockCas3(p) PROVE LadInv'
  BY <1>7 DEF LockCas3, CompareAndSwap, TypeOK, OneToken, PhaseInv, LadInv, Holding
<1>8. ASSUME NEW p \in Proc, LockRecv(p) PROVE LadInv'
  BY <1>8 DEF LockRecv, TypeOK, OneToken, PhaseInv, LadInv, Holding
<1>9. ASSUME NEW p \in Proc, UnlockRead(p) PROVE LadInv'
  BY <1>9 DEF UnlockRead, TypeOK, OneToken, PhaseInv, LadInv, Holding
<1>10. ASSUME NEW p \in Proc, UnlockWriteLad(p) PROVE LadInv'
  BY <1>10 DEF UnlockWriteLad, TypeOK, OneToken, PhaseInv, LadInv, Holding
<1>11. ASSUME NEW p \in Proc, UnlockCas(p) PROVE LadInv'
  BY <1>11 DEF UnlockCas, CompareAndSwap, TypeOK, OneToken, PhaseInv, LadInv, Holding
<1>12. ASSUME NEW p \in Proc, UnlockSend(p) PROVE LadInv'
  BY <1>12 DEF UnlockSend, TypeOK, OneToken, PhaseInv, LadInv, Holding
<1>13. CASE UNCHANGED vars
  BY <1>13 DEF vars, TypeOK, OneToken, PhaseInv, LadInv, Holding
<1> QED
  BY <1>1, <1>2, <1>3, <1>4, <1>5, <1>6, <1>7, <1>8, <1>9, <1>10, <1>11, <1>12, <1>13
  DEF Next, Lock, Unlock

\* A chaser that follows the link of the word it looked at: the set that is
\* closed afterwards was closed before, or becomes so with the word's process.
LEMMA FollowLink ==
  ASSUME IInv,
         NEW p \in Proc, pc[p] \in {"cas2", "cas3"},
         glk[proc[p]] # Owned, glk[proc[p]] # Locked,
         NEW S \in SUBSET Proc,
         \A x \in S \ {p} : Source(x) \in S,
         p \in S => ProbableOwner(proc[p], glk[proc[p]]) \in S
  PROVE  S = {}
<1> DEFINE q == proc[p]
           y == ProbableOwner(q, glk[q])
<1> USE DEF IInv
<1>1. q \in Proc /\ y \in Proc /\ glk[q] = Linked(y)
  BY LockValFacts DEF TypeOK
<1>2. Source(p) = q
  BY DEF Source, HasToken, Holding, PhaseInv, LinkInv, MessageIsExpected
<1>3. CASE p \notin S
  BY <1>3 DEF AcyclicInv
<1>4. CASE p \in S /\ Busy(q)
  <2>1. pc[y] = "recv" /\ proc[y] = q
    BY <1>1, <1>4 DEF LinkInv
  <2>2. \A m \in msgs : m.to # y
    BY <1>1, <1>4, <2>1 DEF LinkInv, MessageIsExpected
  <2>3. Source(y) = q
    BY <1>1, <2>1, <2>2 DEF Source, HasToken, Holding, PhaseInv
  <2>4. y \in S /\ y # p
    BY <1>4, <2>1
  <2>5. q \in S
    BY <2>3, <2>4
  <2> QED BY <1>2, <2>5 DEF AcyclicInv
<1>5. CASE p \in S /\ ~Busy(q)
  <2>1. ~HasToken(q)
    BY <1>1, <1>5 DEF HasToken, Busy, LinkInv, MessageIsExpected
  <2>2. Source(q) = y
    BY <1>5, <2>1 DEF Source, Busy
  <2>3. \A x \in S \cup {q} : Source(x) \in S \cup {q}
    BY <1>2, <1>5, <2>2
  <2>4. S \cup {q} \in SUBSET Proc
    BY <1>1
  <2> QED BY <2>3, <2>4 DEF AcyclicInv
<1> QED BY <1>3, <1>4, <1>5

LEMMA AcyclicInvStep == IInv /\ [Next]_vars => AcyclicInv'
<1> SUFFICES ASSUME IInv, [Next]_vars PROVE AcyclicInv'
  OBVIOUS
<1> USE LockValFacts DEF IInv
<1>0. NoProc \notin Proc
  BY DEF NoProc, Proc
<1>1. ASSUME NEW p \in Proc, LockRead(p) PROVE AcyclicInv'
  <2>1. \A x \in Proc : Source(x)' = Source(x)
    BY <1>1 DEF LockRead, Source, HasToken, Holding, TypeOK, PhaseInv, OneToken, LinkInv, MessageIsExpected
  <2> QED BY <2>1 DEF AcyclicInv
<1>2. ASSUME NEW p \in Proc, LockCas1(p) PROVE AcyclicInv'
  <2>1. \A x \in Proc : Source(x)' = Source(x)
    BY <1>2 DEF LockCas1, CompareAndSwap, Source, HasToken, Holding, TypeOK, PhaseInv, OneToken, LinkInv, MessageIsExpected
  <2> QED BY <2>1 DEF AcyclicInv
<1>3. ASSUME NEW p \in Proc, LockCopyLad(p) PROVE AcyclicInv'
  <2>1. \A x \in Proc : Source(x)' = Source(x)
    BY <1>3 DEF LockCopyLad, Source, HasToken, Holding, TypeOK, PhaseInv, OneToken, LinkInv, MessageIsExpected
  <2> QED BY <2>1 DEF AcyclicInv
<1>4. ASSUME NEW p \in Proc, LockStore(p) PROVE AcyclicInv'
  <2>1. \A x \in Proc : Source(x)' = Source(x)
    BY <1>4 DEF LockStore, Source, HasToken, Holding, TypeOK, PhaseInv, OneToken, LinkInv, MessageIsExpected
  <2> QED BY <2>1 DEF AcyclicInv
<1>5. ASSUME NEW p \in Proc, LockCas2(p) PROVE AcyclicInv'
  <2>0. PICK q \in Proc : q = proc[p]
    BY DEF TypeOK
  <2>1. CASE glk[q] = Owned
    <3>1. Source(p)' = NoProc
      BY <1>5, <2>0, <2>1 DEF LockCas2, CompareAndSwap, Source, HasToken, Holding, TypeOK, PhaseInv, OneToken, LinkInv, MessageIsExpected
    <3>2. Source(q)' = p
      BY <1>5, <2>0, <2>1 DEF LockCas2, CompareAndSwap, Source, HasToken, Holding, TypeOK, PhaseInv, OneToken, LinkInv, MessageIsExpected, Linked, ProbableOwner, Proc
    <3>3. \A x \in Proc \ {p, q} : Source(x)' = Source(x)
      BY <1>5, <2>0, <2>1 DEF LockCas2, CompareAndSwap, Source, HasToken, Holding, TypeOK, PhaseInv, OneToken, LinkInv, MessageIsExpected
    <3>4. SUFFICES ASSUME NEW S \in SUBSET Proc, \A x \in S : Source(x)' \in S
                   PROVE  S = {}
      BY DEF AcyclicInv
    <3>5. p \notin S /\ q \notin S
      BY <1>0, <3>1, <3>2, <3>4
    <3> QED BY <3>3, <3>4, <3>5 DEF AcyclicInv
  <2>2. CASE glk[q] = Locked
    <3>1. \A x \in Proc : Source(x)' = Source(x)
      BY <1>5, <2>0, <2>2 DEF LockCas2, CompareAndSwap, Source, HasToken, Holding, TypeOK, PhaseInv, OneToken, LinkInv, MessageIsExpected
    <3> QED BY <3>1 DEF AcyclicInv
  <2>3. CASE glk[q] # Owned /\ glk[q] # Locked
    <3>1. Source(p)' = ProbableOwner(q, glk[q])
      BY <1>5, <2>0, <2>3 DEF LockCas2, CompareAndSwap, Source, HasToken, Holding, TypeOK, PhaseInv, OneToken, LinkInv, MessageIsExpected
    <3>2. \A x \in Proc \ {p} : Source(x)' = Source(x)
      BY <1>5, <2>0, <2>3 DEF LockCas2, CompareAndSwap, Source, HasToken, Holding, TypeOK, PhaseInv, OneToken, LinkInv, MessageIsExpected
    <3>3. pc[p] \in {"cas2", "cas3"}
      BY <1>5 DEF LockCas2
    <3>4. SUFFICES ASSUME NEW S \in SUBSET Proc, \A x \in S : Source(x)' \in S
                   PROVE  S = {}
      BY DEF AcyclicInv
    <3> QED BY <2>0, <2>3, <3>1, <3>2, <3>3, <3>4, FollowLink
  <2> QED BY <2>1, <2>2, <2>3
<1>6. ASSUME NEW p \in Proc, LockReadLad(p) PROVE AcyclicInv'
  <2>1. \A x \in Proc : Source(x)' = Source(x)
    BY <1>6 DEF LockReadLad, Source, HasToken, Holding, TypeOK, PhaseInv, OneToken, LinkInv, MessageIsExpected
  <2> QED BY <2>1 DEF AcyclicInv
<1>7. ASSUME NEW p \in Proc, LockCas3(p) PROVE AcyclicInv'
  <2>0. PICK q \in Proc : q = proc[p]
    BY DEF TypeOK
  <2>1. CASE glk[q] = Locked
    <3>1. \A x \in Proc : Source(x)' = Source(x)
      BY <1>7, <2>0, <2>1 DEF LockCas3, CompareAndSwap, Source, HasToken, Holding, TypeOK, PhaseInv, OneToken, LinkInv, MessageIsExpected
    <3> QED BY <3>1 DEF AcyclicInv
  <2>2. CASE glk[q] = Owned
    <3>1. \A x \in Proc : Source(x)' = Source(x)
      BY <1>7, <2>0, <2>2 DEF LockCas3, CompareAndSwap, Source, HasToken, Holding, TypeOK, PhaseInv, OneToken, LinkInv, MessageIsExpected
    <3> QED BY <3>1 DEF AcyclicInv
  <2>3. CASE glk[q] # Owned /\ glk[q] # Locked
    <3>1. Source(p)' = ProbableOwner(q, glk[q])
      BY <1>7, <2>0, <2>3 DEF LockCas3, CompareAndSwap, Source, HasToken, Holding, TypeOK, PhaseInv, OneToken, LinkInv, MessageIsExpected
    <3>2. \A x \in Proc \ {p} : Source(x)' = Source(x)
      BY <1>7, <2>0, <2>3 DEF LockCas3, CompareAndSwap, Source, HasToken, Holding, TypeOK, PhaseInv, OneToken, LinkInv, MessageIsExpected
    <3>3. pc[p] \in {"cas2", "cas3"}
      BY <1>7 DEF LockCas3
    <3>4. SUFFICES ASSUME NEW S \in SUBSET Proc, \A x \in S : Source(x)' \in S
                   PROVE  S = {}
      BY DEF AcyclicInv
    <3> QED BY <2>0, <2>3, <3>1, <3>2, <3>3, <3>4, FollowLink
  <2> QED BY <2>1, <2>2, <2>3
<1>8. ASSUME NEW p \in Proc, LockRecv(p) PROVE AcyclicInv'
  <2>1. \A x \in Proc : Source(x)' = Source(x)
    BY <1>8 DEF LockRecv, Source, HasToken, Holding, TypeOK, PhaseInv, OneToken, LinkInv, MessageIsExpected
  <2> QED BY <2>1 DEF AcyclicInv
<1>9. ASSUME NEW p \in Proc, UnlockRead(p) PROVE AcyclicInv'
  <2>1. \A x \in Proc : Source(x)' = Source(x)
    BY <1>9 DEF UnlockRead, Source, HasToken, Holding, TypeOK, PhaseInv, OneToken, LinkInv, MessageIsExpected
  <2> QED BY <2>1 DEF AcyclicInv
<1>10. ASSUME NEW p \in Proc, UnlockWriteLad(p) PROVE AcyclicInv'
  <2>1. \A x \in Proc : Source(x)' = Source(x)
    BY <1>10 DEF UnlockWriteLad, Source, HasToken, Holding, TypeOK, PhaseInv, OneToken, LinkInv, MessageIsExpected
  <2> QED BY <2>1 DEF AcyclicInv
<1>11. ASSUME NEW p \in Proc, UnlockCas(p) PROVE AcyclicInv'
  <2>1. \A x \in Proc : Source(x)' = Source(x)
    BY <1>11 DEF UnlockCas, CompareAndSwap, Source, HasToken, Holding, TypeOK, PhaseInv, OneToken, LinkInv, MessageIsExpected
  <2> QED BY <2>1 DEF AcyclicInv
<1>12. ASSUME NEW p \in Proc, UnlockSend(p) PROVE AcyclicInv'
  <2>a. PICK r \in Proc : r = ProbableOwner(p, linkVal[p])
    BY DEF TypeOK
  <2>0. r \in Proc /\ glk[p] = Linked(r) /\ pc[r] = "recv" /\ r # p
    <3>1. pc[p] = "send" /\ glk[p] # Locked /\ glk[p] # Owned /\ glk[p] = linkVal[p]
      BY <1>12 DEF UnlockSend, PhaseInv, OneToken, Holding
    <3>2. r \in Proc /\ glk[p] = Linked(r)
      BY <2>a, <3>1 DEF TypeOK
    <3> QED BY <3>1, <3>2 DEF LinkInv, Busy, Holding
  <2>1. Source(r)' = NoProc
    <3> DEFINE m == [from |-> p, to |-> r, lad |-> ladBuf[p]]
    <3>1. m \in msgs' /\ m.to = r
      BY <1>12, <2>a DEF UnlockSend
    <3>2. HasToken(r)'
      BY <3>1 DEF HasToken
    <3> QED BY <3>2 DEF Source
  <2>2. Source(p)' = r
    BY <1>12, <2>a, <2>0 DEF UnlockSend, Source, HasToken, Holding, TypeOK, PhaseInv, OneToken, LinkInv, MessageIsExpected
  <2>3. \A x \in Proc \ {p, r} : Source(x)' = Source(x)
    BY <1>12, <2>a, <2>0 DEF UnlockSend, Source, HasToken, Holding, TypeOK, PhaseInv, OneToken, LinkInv, MessageIsExpected
  <2>4. SUFFICES ASSUME NEW S \in SUBSET Proc, \A x \in S : Source(x)' \in S
                 PROVE  S = {}
    BY DEF AcyclicInv
  <2>5. p \notin S /\ r \notin S
    BY <1>0, <2>1, <2>2, <2>4
  <2> QED BY <2>3, <2>4, <2>5 DEF AcyclicInv
<1>13. CASE UNCHANGED vars
  <2>1. \A x \in Proc : Source(x)' = Source(x)
    BY <1>13 DEF vars, Source, HasToken, Holding, TypeOK, PhaseInv, OneToken, LinkInv, MessageIsExpected
  <2> QED BY <2>1 DEF AcyclicInv
<1> QED
  BY <1>1, <1>2, <1>3, <1>4, <1>5, <1>6, <1>7, <1>8, <1>9, <1>10, <1>11, <1>12, <1>13
  DEF Next, Lock, Unlock

----------------------------------------------------------------------------
\* The strengthened invariant of lock_global / unlock_global holds throughout.
THEOREM Invariance == Spec => []IInv
<1>1. Init => IInv
  BY InitIInv
<1>2. IInv /\ [Next]_vars => IInv'
  BY TypeOKStep, OneTokenStep, PhaseInvStep, LinkInvStep, LadInvStep, AcyclicInvStep
  DEF IInv
<1> QED BY <1>1, <1>2, PTL DEF Spec

\* The words and buffers of the table keep their types (a word is never 0 or
\* a link to a process that does not exist).
THEOREM TypeCorrect == Spec => []TypeOK
<1>1. IInv => TypeOK
  BY DEF IInv
<1> QED BY <1>1, Invariance, PTL

\* lock_global admits one process at a time, for any number of processes.
THEOREM MutualExclusionHolds == Spec => []MutualExclusion
<1>1. IInv => MutualExclusion
  BY DEF IInv, OneToken, MutualExclusion
<1> QED BY <1>1, Invariance, PTL

\* Whoever gets the lock gets the LAD of the last unlock_global with it.
THEOREM LadIsLatestHolds == Spec => []LadIsLatest
<1>1. IInv => LadIsLatest
  BY DEF IInv, LadInv, LadIsLatest
<1> QED BY <1>1, Invariance, PTL

\* The assertions of lock_global, unlock_global and check_owned on the word.
THEOREM WordMatchesPhaseHolds == Spec => []WordMatchesPhase
<1>1. IInv => WordMatchesPhase
  BY DEF IInv, PhaseInv, OneToken, Holding, WordMatchesPhase
<1> QED BY <1>1, Invariance, PTL

\* A message of unlock_global always meets the process that waits for it.
THEOREM MessageIsExpectedHolds == Spec => []MessageIsExpected
<1>1. IInv => MessageIsExpected
  BY DEF IInv, LinkInv
<1> QED BY <1>1, Invariance, PTL

\* The assertion at line 205 of lock_global: a chaser never meets itself.
THEOREM NoSelfWaitHolds == Spec => []NoSelfWait
<1>1. ASSUME IInv, NEW p \in Proc, pc[p] \in {"cas3", "recv"} PROVE proc[p] # p
  <2>1. CASE pc[p] = "recv" /\ \E m \in msgs : m.to = p
    BY <1>1, <2>1 DEF IInv, LinkInv, MessageIsExpected
  <2>2. CASE ~(pc[p] = "recv" /\ \E m \in msgs : m.to = p)
    <3>1. Source(p) = proc[p]
      BY <1>1, <2>2
      DEF Source, HasToken, Holding, IInv, PhaseInv, LinkInv, MessageIsExpected
    <3>2. {p} \in SUBSET Proc /\ {p} # {}
      OBVIOUS
    <3>3. \E x \in {p} : Source(x) \notin {p}
      BY <1>1, <3>2 DEF IInv, AcyclicInv
    <3> QED BY <3>1, <3>3
  <2> QED BY <2>1, <2>2
<1>2. IInv => NoSelfWait
  BY <1>1 DEF NoSelfWait
<1> QED BY <1>2, Invariance, PTL

\* The assertions of the queue lock cannot fail.
THEOREM AssertsHoldHolds == Spec => []AssertsHold
<1>1. WordMatchesPhase /\ NoSelfWait /\ MessageIsExpected => AssertsHold
  BY DEF AssertsHold
<1> QED BY <1>1, WordMatchesPhaseHolds, NoSelfWaitHolds, MessageIsExpectedHolds, PTL

\* The table implements the lock with data that LadLock specifies: the three
\* ways to get the LAD (own copy, RMA, message) all return the one the previous
\* holder handed over, and the two ways to give the lock up publish it.
THEOREM Refinement == Spec => RefinesLadLock
<1> USE DEF LL!Init, LL!Next, LL!vars
<1>1. Init => LL!Init
  BY DEF Init, Returned
<1>2. ASSUME IInv, [Next]_vars PROVE [LL!Next]_(LL!vars)
  <2> DEFINE H == {x \in Proc : Returned(x)}
  <2>0. TypeOK /\ OneToken /\ LadInv
    BY <1>2 DEF IInv
  <2>1. ASSUME NEW p \in Proc, LockRead(p) PROVE [LL!Next]_(LL!vars)
    <3>1. H' = H /\ last' = last /\ ladBuf' = ladBuf
      BY <2>0, <2>1 DEF LockRead, CompareAndSwap, TypeOK, Returned
    <3> QED BY <3>1
  <2>2. ASSUME NEW p \in Proc, LockCas1(p) PROVE [LL!Next]_(LL!vars)
    <3>1. H' = H /\ last' = last /\ ladBuf' = ladBuf
      BY <2>0, <2>2 DEF LockCas1, CompareAndSwap, TypeOK, Returned
    <3> QED BY <3>1
  <2>3. ASSUME NEW p \in Proc, LockCopyLad(p) PROVE [LL!Next]_(LL!vars)
    <3>1. H = {} /\ H' = {p} /\ last' = last
      BY <2>0, <2>3 DEF LockCopyLad, TypeOK, OneToken, Holding, Returned
    <3>2. ladBuf' = [ladBuf EXCEPT ![p] = last]
      BY <2>0, <2>3 DEF LockCopyLad, LadInv
    <3> QED BY <3>1, <3>2 DEF LL!Lock
  <2>4. ASSUME NEW p \in Proc, LockStore(p) PROVE [LL!Next]_(LL!vars)
    <3>1. H' = H /\ last' = last /\ ladBuf' = ladBuf
      BY <2>0, <2>4 DEF LockStore, CompareAndSwap, TypeOK, Returned
    <3> QED BY <3>1
  <2>5. ASSUME NEW p \in Proc, LockCas2(p) PROVE [LL!Next]_(LL!vars)
    <3>1. H' = H /\ last' = last /\ ladBuf' = ladBuf
      BY <2>0, <2>5 DEF LockCas2, CompareAndSwap, TypeOK, Returned
    <3> QED BY <3>1
  <2>6. ASSUME NEW p \in Proc, LockReadLad(p) PROVE [LL!Next]_(LL!vars)
    <3>1. H = {} /\ H' = {p} /\ last' = last
      BY <2>0, <2>6 DEF LockReadLad, TypeOK, OneToken, Holding, Returned
    <3>2. ladBuf' = [ladBuf EXCEPT ![p] = last]
      BY <2>0, <2>6 DEF LockReadLad, LadInv
    <3> QED BY <3>1, <3>2 DEF LL!Lock
  <2>7. ASSUME NEW p \in Proc, LockCas3(p) PROVE [LL!Next]_(LL!vars)
    <3>1. H' = H /\ last' = last /\ ladBuf' = ladBuf
      BY <2>0, <2>7 DEF LockCas3, CompareAndSwap, TypeOK, Returned
    <3> QED BY <3>1
  <2>8. ASSUME NEW p \in Proc, LockRecv(p) PROVE [LL!Next]_(LL!vars)
    <3>1. H = {} /\ H' = {p} /\ last' = last
      BY <2>0, <2>8 DEF LockRecv, TypeOK, OneToken, Holding, Returned
    <3>2. ladBuf' = [ladBuf EXCEPT ![p] = last]
      BY <2>0, <2>8 DEF LockRecv, LadInv
    <3> QED BY <3>1, <3>2 DEF LL!Lock
  <2>9. ASSUME NEW p \in Proc, UnlockRead(p) PROVE [LL!Next]_(LL!vars)
    <3>1. H' = H /\ last' = last /\ ladBuf' = ladBuf
      BY <2>0, <2>9 DEF UnlockRead, CompareAndSwap, TypeOK, Returned
    <3> QED BY <3>1
  <2>10. ASSUME NEW p \in Proc, UnlockWriteLad(p) PROVE [LL!Next]_(LL!vars)
    <3>1. H = {p} /\ H' = H /\ last' = last
      BY <2>0, <2>10 DEF UnlockWriteLad, TypeOK, OneToken, Holding, Returned
    <3>2. \E lad \in LAD : ladBuf' = [ladBuf EXCEPT ![p] = lad]
      BY <2>10 DEF UnlockWriteLad
    <3> QED BY <3>1, <3>2 DEF LL!Update
  <2>11. ASSUME NEW p \in Proc, UnlockCas(p) PROVE [LL!Next]_(LL!vars)
    <3>1. CASE glk[p] = Locked
      <4>1. H = {p} /\ H' = {} /\ last' = ladBuf[p] /\ ladBuf' = ladBuf
        BY <2>0, <2>11, <3>1 DEF UnlockCas, CompareAndSwap, TypeOK, OneToken, Holding, Returned
      <4> QED BY <4>1 DEF LL!Unlock
    <3>2. CASE glk[p] # Locked
      <4>1. H' = H /\ last' = last /\ ladBuf' = ladBuf
        BY <2>0, <2>11, <3>2 DEF UnlockCas, CompareAndSwap, TypeOK, Returned
      <4> QED BY <4>1
    <3> QED BY <3>1, <3>2
  <2>12. ASSUME NEW p \in Proc, UnlockSend(p) PROVE [LL!Next]_(LL!vars)
    <3>1. H = {p} /\ H' = {} /\ last' = ladBuf[p] /\ ladBuf' = ladBuf
      BY <2>0, <2>12 DEF UnlockSend, TypeOK, OneToken, Holding, Returned
    <3> QED BY <3>1 DEF LL!Unlock
  <2>13. CASE UNCHANGED vars
    BY <2>13 DEF vars, Returned
  <2> QED
    BY <1>2, <2>1, <2>2, <2>3, <2>4, <2>5, <2>6, <2>7, <2>8, <2>9, <2>10, <2>11, <2>12, <2>13
    DEF Next, Lock, Unlock
<1> QED BY <1>1, <1>2, Invariance, PTL DEF Spec, RefinesLadLock, LL!Spec

=============================================================================
