------------------------ MODULE ConnectionGateProofs ------------------------
(***************************************************************************)
(* Proofs about ConnectionGate, for every set of operations, every subset  *)
(* of them that may be cancelled, and every number of attempts.            *)
(***************************************************************************)
EXTENDS ConnectionGate, SequenceTheorems, WellFoundedInduction, TLAPS

-----------------------------------------------------------------------------
(* Types.                                                                  *)

\* Taking one future out of the deque leaves a deque of tasks.
LEMMA DequeueType ==
    ASSUME NEW o \in Ops, waiters \in Seq(Ops), Dequeue(o)
    PROVE  waiters' \in Seq(Ops)
<1>1. PICK i \in DOMAIN waiters : waiters' = RemoveAt(waiters, i)
  BY DEF Dequeue
<1>2. i \in 1..Len(waiters)
  BY <1>1
<1>3. SubSeq(waiters, 1, i - 1) \in Seq(Ops)
  BY <1>2, SubSeqProperties
<1>4. SubSeq(waiters, i + 1, Len(waiters)) \in Seq(Ops)
  BY <1>2, SubSeqProperties
<1> QED BY <1>1, <1>3, <1>4, ConcatProperties DEF RemoveAt

\* The semaphore's operations keep the types of its state.
LEMMA ReleaseType ==
    ASSUME TypeOK, NEW o \in Ops, NEW next \in {"idle", "queued"}, Release(o, next)
    PROVE  value' \in Nat /\ pc' \in [Ops -> {"idle"} \cup Waiting \cup Holding]
BY DEF TypeOK, Release, Waiting

\* So does acquire().
LEMMA AcquireType ==
    ASSUME TypeOK, NEW o \in Ops, NEW free \in Nat, Acquire(o, free)
    PROVE  /\ value' \in Nat
           /\ waiters' \in Seq(Ops)
           /\ pc' \in [Ops -> {"idle"} \cup Waiting \cup Holding]
<1>1. CASE /\ free # 0
           /\ value' = free - 1
           /\ pc' = [pc EXCEPT ![o] = "connecting"]
           /\ UNCHANGED waiters
  BY <1>1 DEF TypeOK, Holding, Timed
<1>2. CASE /\ value' = free
           /\ pc' = [pc EXCEPT ![o] = "queued"]
           /\ waiters' = Append(waiters, o)
  BY <1>2, AppendProperties DEF TypeOK, Waiting
<1> QED BY <1>1, <1>2 DEF Acquire

\* The end of an attempt keeps every type ...
LEMMA ConcludeType ==
    ASSUME TypeOK, NEW o \in Ops, NEW e \in Endings, Conclude(o, e),
           link' \in [Ops -> BOOLEAN]
    PROVE  TypeOK'
<1>1. CASE /\ e = "failed" /\ attempt[o] < MaxAttempts
           /\ attempt' = [attempt EXCEPT ![o] = @ + 1]
           /\ ending' = [ending EXCEPT ![o] = "none"]
           /\ ReleaseAndAcquire(o)
  <2>1. attempt' \in [Ops -> 0..MaxAttempts] /\ ending' \in [Ops -> Endings]
    BY <1>1, MaxAttemptsAssumption DEF TypeOK, Endings
  <2>2. CASE Release(o, "queued") /\ waiters' = Append(waiters, o)
    BY <2>1, <2>2, ReleaseType DEF TypeOK
  <2>3. CASE Acquire(o, value + 1)
    BY <2>1, <2>3, AcquireType DEF TypeOK
  <2> QED BY <1>1, <2>2, <2>3 DEF ReleaseAndAcquire
<1>2. CASE /\ attempt' = [attempt EXCEPT ![o] = IF e = "failed" THEN MaxAttempts ELSE @]
           /\ ending' = [ending EXCEPT ![o] = e]
           /\ Release(o, "idle")
           /\ UNCHANGED waiters
  <2>1. attempt' \in [Ops -> 0..MaxAttempts] /\ ending' \in [Ops -> Endings]
    BY <1>2, MaxAttemptsAssumption DEF TypeOK
  <2> QED BY <1>2, <2>1, ReleaseType DEF TypeOK
<1> QED BY <1>1, <1>2 DEF Conclude

\* ... and so does leaving the timeout scope, with a teardown to come or without.
LEMMA LeaveScopeType ==
    ASSUME TypeOK, NEW o \in Ops, NEW e \in Endings, LeaveScope(o, e)
    PROVE  TypeOK'
<1>1. CASE link[o]
  BY <1>1 DEF TypeOK, LeaveScope, Holding
<1>2. CASE ~link[o]
  BY <1>2, ConcludeType DEF TypeOK, LeaveScope
<1> QED BY <1>1, <1>2

\* Every variable keeps its type in every behaviour.
THEOREM TypeCorrect == Spec => []TypeOK
<1>1. Init => TypeOK
  BY MaxAttemptsAssumption DEF Init, TypeOK, InitialPermits, Endings
<1>2. TypeOK /\ [Next]_vars => TypeOK'
  <2> SUFFICES ASSUME TypeOK, [Next]_vars PROVE TypeOK'
    OBVIOUS
  <2>1. CASE UNCHANGED vars
    BY <2>1 DEF TypeOK, vars
  <2> SUFFICES ASSUME NEW o \in Ops,
                      \/ Start(o)         \/ ResumeGranted(o) \/ ResumeCancelled(o)
                      \/ LinkUp(o)        \/ HandshakeDone(o) \/ KeyRejected(o)
                      \/ OpReturns(o)     \/ AttemptFails(o)  \/ DisconnectReturns(o)
                      \/ Cancel(o)        \/ LinkLost(o)
               PROVE  TypeOK'
    BY <2>1 DEF Next
  <2>2. CASE Start(o)
    <3>1. CASE /\ attempt' = [attempt EXCEPT ![o] = 1]
               /\ ending' = [ending EXCEPT ![o] = "none"]
               /\ Acquire(o, value)
      <4>1. attempt' \in [Ops -> 0..MaxAttempts] /\ ending' \in [Ops -> Endings]
        BY <3>1, MaxAttemptsAssumption DEF TypeOK, Endings
      <4>2. value \in Nat
        BY DEF TypeOK
      <4> QED BY <2>2, <3>1, <4>1, <4>2, AcquireType DEF Start, TypeOK
    <3>2. CASE /\ attempt' = [attempt EXCEPT ![o] = MaxAttempts]
               /\ ending' = [ending EXCEPT ![o] = "failed"]
               /\ UNCHANGED <<value, waiters, pc>>
      BY <2>2, <3>2, MaxAttemptsAssumption DEF Start, TypeOK, Endings
    <3> QED BY <2>2, <3>1, <3>2 DEF Start
  <2>3. CASE ResumeGranted(o)
    BY <2>3, DequeueType DEF ResumeGranted, TypeOK, Holding, Timed
  <2>4. CASE ResumeCancelled(o)
    <3>1. value' \in Nat /\ pc' \in [Ops -> {"idle"} \cup Waiting \cup Holding]
      BY <2>4, ReleaseType DEF ResumeCancelled, TypeOK
    <3>2. ending' \in [Ops -> Endings]
      BY <2>4 DEF ResumeCancelled, TypeOK, Endings
    <3> QED BY <2>4, <3>1, <3>2, DequeueType DEF ResumeCancelled, TypeOK
  <2>5. CASE LinkUp(o)
    BY <2>5 DEF LinkUp, TypeOK, Holding, Timed
  <2>6. CASE HandshakeDone(o)
    BY <2>6 DEF HandshakeDone, TypeOK, Holding, Timed
  <2>7. CASE KeyRejected(o)
    BY <2>7, LeaveScopeType DEF KeyRejected, Endings
  <2>8. CASE OpReturns(o)
    BY <2>8, LeaveScopeType DEF OpReturns, Endings
  <2>9. CASE AttemptFails(o)
    BY <2>9, LeaveScopeType DEF AttemptFails, Endings
  <2>10. CASE DisconnectReturns(o)
    <3>1. ending[o] \in Endings /\ link' \in [Ops -> BOOLEAN]
      BY <2>10 DEF DisconnectReturns, TypeOK
    <3> QED BY <2>10, <3>1, ConcludeType DEF DisconnectReturns
  <2>11. CASE Cancel(o)
    <3>1. CASE pc[o] \in Timed /\ LeaveScope(o, "cancelled")
      BY <3>1, LeaveScopeType DEF Endings
    <3>2. CASE Conclude(o, "cancelled") /\ UNCHANGED link
      <4>1. link' \in [Ops -> BOOLEAN]
        BY <3>2 DEF TypeOK
      <4> QED BY <3>2, <4>1, ConcludeType DEF Endings
    <3>3. CASE /\ pc' = [pc EXCEPT ![o] = "queuedCancelled"]
               /\ UNCHANGED <<value, waiters, attempt, ending, link>>
      BY <3>3 DEF TypeOK, Waiting
    <3>4. CASE /\ pc' = [pc EXCEPT ![o] = "grantedCancelled"]
               /\ UNCHANGED <<value, waiters, attempt, ending, link>>
      BY <3>4 DEF TypeOK, Waiting
    <3> QED BY <2>11, <3>1, <3>2, <3>3, <3>4 DEF Cancel
  <2>12. CASE LinkLost(o)
    BY <2>12 DEF LinkLost, TypeOK
  <2> QED BY <2>2, <2>3, <2>4, <2>5, <2>6, <2>7, <2>8, <2>9, <2>10, <2>11, <2>12
<1> QED BY <1>1, <1>2, PTL DEF Spec, Safety

-----------------------------------------------------------------------------
(* The permit.  SlotExclusive alone is not inductive: that nobody else has *)
(* the permit when the counter lets a task in is what PermitConserved says. *)

PermitInv == TypeOK /\ SlotExclusive /\ PermitConserved

\* A step that moves no task into or out of the permit, nor the counter.
LEMMA PermitUntouched ==
    ASSUME PermitInv, value' = value,
           \A p \in Ops : HasPermit(p)' <=> HasPermit(p)
    PROVE  SlotExclusive' /\ PermitConserved'
BY DEF PermitInv, SlotExclusive, PermitConserved

\* Releasing hands the permit to exactly one task, or to the counter.
LEMMA ReleaseMovesPermit ==
    ASSUME PermitInv, NEW o \in Ops, HasPermit(o),
           NEW next \in {"idle", "queued"}, Release(o, next)
    PROVE  SlotExclusive' /\ PermitConserved'
<1> USE DEF PermitInv, TypeOK, HasPermit, Holding, Timed
<1>1. value = 0 /\ \A p \in Ops : HasPermit(p) => p = o
  BY DEF SlotExclusive, PermitConserved
<1>2. ASSUME NEW w \in Ops, NextInLine(w), UNCHANGED value,
             pc' = [pc EXCEPT ![o] = next, ![w] = "granted"]
      PROVE  SlotExclusive' /\ PermitConserved'
  <2>1. pc[w] = "queued" /\ w # o
    BY <1>2 DEF NextInLine
  <2>2. HasPermit(w)' /\ \A p \in Ops : HasPermit(p)' => p = w
    BY <1>1, <1>2, <2>1
  <2> QED BY <1>1, <1>2, <2>2 DEF SlotExclusive, PermitConserved
<1>3. CASE pc' = [pc EXCEPT ![o] = next] /\ value' = value + 1
  <2>1. \A p \in Ops : ~HasPermit(p)'
    BY <1>1, <1>3
  <2> QED BY <1>1, <1>3, <2>1 DEF SlotExclusive, PermitConserved
<1> QED BY <1>2, <1>3 DEF Release

\* Acquiring takes the permit only from a counter that has it.
LEMMA AcquireTakesPermit ==
    ASSUME PermitInv, NEW o \in Ops, NEW free \in Nat, Acquire(o, free),
           free = IF \E p \in Ops \ {o} : HasPermit(p) THEN 0 ELSE 1
    PROVE  SlotExclusive' /\ PermitConserved'
<1> USE DEF PermitInv, TypeOK, HasPermit, Holding, Timed
<1>1. CASE /\ free # 0
           /\ value' = free - 1
           /\ pc' = [pc EXCEPT ![o] = "connecting"]
  <2>1. HasPermit(o)' /\ \A p \in Ops : HasPermit(p)' => p = o
    BY <1>1
  <2>2. value' = 0
    BY <1>1
  <2> QED BY <2>1, <2>2 DEF SlotExclusive, PermitConserved
<1>2. CASE value' = free /\ pc' = [pc EXCEPT ![o] = "queued"]
  <2>1. ~HasPermit(o)' /\ \A p \in Ops \ {o} : HasPermit(p)' <=> HasPermit(p)
    BY <1>2
  <2> QED BY <1>2, <2>1 DEF SlotExclusive, PermitConserved
<1> QED BY <1>1, <1>2 DEF Acquire

\* The end of an attempt moves the permit to one task, or to the counter.
LEMMA ConcludeMovesPermit ==
    ASSUME PermitInv, NEW o \in Ops, HasPermit(o), NEW e, Conclude(o, e)
    PROVE  SlotExclusive' /\ PermitConserved'
<1>1. CASE Release(o, "idle")
  BY <1>1, ReleaseMovesPermit
<1>2. CASE Release(o, "queued")
  BY <1>2, ReleaseMovesPermit
<1>3. CASE Acquire(o, value + 1)
  <2>1. value = 0 /\ \A p \in Ops \ {o} : ~HasPermit(p)
    BY DEF PermitInv, SlotExclusive, PermitConserved
  <2> QED BY <1>3, <2>1, AcquireTakesPermit
<1> QED BY <1>1, <1>2, <1>3 DEF Conclude, ReleaseAndAcquire

\* So does leaving the timeout scope, unless a teardown keeps the permit.
LEMMA LeaveScopeMovesPermit ==
    ASSUME PermitInv, NEW o \in Ops, HasPermit(o), NEW e, LeaveScope(o, e)
    PROVE  SlotExclusive' /\ PermitConserved'
<1>1. CASE Conclude(o, e)
  BY <1>1, ConcludeMovesPermit
<1>2. CASE pc' = [pc EXCEPT ![o] = "closing"] /\ UNCHANGED value
  <2>1. \A p \in Ops : HasPermit(p)' <=> HasPermit(p)
    BY <1>2 DEF PermitInv, TypeOK, HasPermit, Holding, Timed
  <2> QED BY <1>2, <2>1, PermitUntouched
<1> QED BY <1>1, <1>2 DEF LeaveScope

\* Every step keeps the permit at one task, or in the counter.
LEMMA PermitInvInductive == PermitInv /\ TypeOK' /\ [Next]_vars => PermitInv'
<1> SUFFICES ASSUME PermitInv, TypeOK', [Next]_vars
             PROVE  SlotExclusive' /\ PermitConserved'
  BY DEF PermitInv
<1>1. CASE UNCHANGED vars
  BY <1>1 DEF vars, PermitInv, SlotExclusive, PermitConserved, HasPermit
<1> SUFFICES ASSUME NEW o \in Ops,
                    \/ Start(o)         \/ ResumeGranted(o) \/ ResumeCancelled(o)
                    \/ LinkUp(o)        \/ HandshakeDone(o) \/ KeyRejected(o)
                    \/ OpReturns(o)     \/ AttemptFails(o)  \/ DisconnectReturns(o)
                    \/ Cancel(o)        \/ LinkLost(o)
             PROVE  SlotExclusive' /\ PermitConserved'
  BY <1>1 DEF Next
<1>0. TypeOK /\ pc \in [Ops -> {"idle"} \cup Waiting \cup Holding]
  BY DEF PermitInv, TypeOK
<1> DEFINE Stays == value' = value /\ \A p \in Ops : HasPermit(p)' <=> HasPermit(p)
<1>2. CASE Start(o)
  <2>1. CASE Acquire(o, value)
    <3>1. ~HasPermit(o)
      BY <1>2 DEF Start, HasPermit, Holding, Timed
    <3>2. value = IF \E p \in Ops \ {o} : HasPermit(p) THEN 0 ELSE 1
      BY <3>1 DEF PermitInv, PermitConserved
    <3> QED BY <2>1, <3>2, <1>0, AcquireTakesPermit DEF TypeOK
  <2>2. CASE UNCHANGED <<value, waiters, pc>>
    <3>1. Stays
      BY <2>2 DEF HasPermit
    <3> QED BY <3>1, PermitUntouched
  <2> QED BY <1>2, <2>1, <2>2 DEF Start
<1>3. CASE ResumeGranted(o)
  <2>1. Stays
    BY <1>0, <1>3 DEF ResumeGranted, HasPermit, Holding, Timed
  <2> QED BY <2>1, PermitUntouched
<1>4. CASE ResumeCancelled(o)
  <2>1. CASE pc[o] = "queuedCancelled" /\ pc' = [pc EXCEPT ![o] = "idle"] /\ UNCHANGED value
    <3>1. Stays
      BY <1>0, <2>1 DEF HasPermit, Holding, Timed
    <3> QED BY <3>1, PermitUntouched
  <2>2. CASE pc[o] = "grantedCancelled" /\ Release(o, "idle")
    <3>1. HasPermit(o)
      BY <2>2 DEF HasPermit
    <3> QED BY <2>2, <3>1, ReleaseMovesPermit
  <2> QED BY <1>4, <2>1, <2>2 DEF ResumeCancelled
<1>5. CASE LinkUp(o)
  <2>1. Stays
    BY <1>0, <1>5 DEF LinkUp, HasPermit, Holding, Timed
  <2> QED BY <2>1, PermitUntouched
<1>6. CASE HandshakeDone(o)
  <2>1. Stays
    BY <1>0, <1>6 DEF HandshakeDone, HasPermit, Holding, Timed
  <2> QED BY <2>1, PermitUntouched
<1>7. CASE KeyRejected(o)
  BY <1>7, LeaveScopeMovesPermit DEF KeyRejected, HasPermit, Holding, Timed
<1>8. CASE OpReturns(o)
  BY <1>8, LeaveScopeMovesPermit DEF OpReturns, HasPermit, Holding, Timed
<1>9. CASE AttemptFails(o)
  BY <1>9, LeaveScopeMovesPermit DEF AttemptFails, HasPermit, Holding, Timed
<1>10. CASE DisconnectReturns(o)
  BY <1>10, ConcludeMovesPermit DEF DisconnectReturns, HasPermit, Holding, Timed
<1>11. CASE Cancel(o)
  <2>1. CASE pc[o] = "queued" /\ pc' = [pc EXCEPT ![o] = "queuedCancelled"] /\ UNCHANGED value
    <3>1. Stays
      BY <1>0, <2>1 DEF HasPermit, Holding, Timed
    <3> QED BY <3>1, PermitUntouched
  <2>2. CASE pc[o] = "granted" /\ pc' = [pc EXCEPT ![o] = "grantedCancelled"] /\ UNCHANGED value
    <3>1. Stays
      BY <1>0, <2>2 DEF HasPermit, Holding, Timed
    <3> QED BY <3>1, PermitUntouched
  <2>3. CASE pc[o] \in Timed /\ LeaveScope(o, "cancelled")
    BY <2>3, LeaveScopeMovesPermit DEF HasPermit, Holding
  <2>4. CASE pc[o] = "closing" /\ Conclude(o, "cancelled")
    BY <2>4, ConcludeMovesPermit DEF HasPermit, Holding
  <2> QED BY <1>11, <2>1, <2>2, <2>3, <2>4 DEF Cancel
<1>12. CASE LinkLost(o)
  <2>1. Stays
    BY <1>12 DEF LinkLost, HasPermit
  <2> QED BY <2>1, PermitUntouched
<1> QED BY <1>2, <1>3, <1>4, <1>5, <1>6, <1>7, <1>8, <1>9, <1>10, <1>11, <1>12

\* The permit is at one task, or in the counter, in every state.
LEMMA PermitInvariant == Spec => []PermitInv
<1>1. Init /\ TypeOK => PermitInv
  BY DEF Init, InitialPermits, PermitInv, SlotExclusive, PermitConserved, HasPermit,
         Holding, Timed
<1> QED BY <1>1, PermitInvInductive, TypeCorrect, PTL DEF Spec, Safety

\* The semaphore with its cancellations, retries and teardowns is exclusive:
\* at most one task, of any number, has the permit.
THEOREM SlotExclusiveAlways == Spec => []SlotExclusive
<1>1. PermitInv => SlotExclusive
  BY DEF PermitInv
<1> QED BY <1>1, PermitInvariant, PTL

\* No permit is lost or duplicated, whichever tasks are cancelled and when.
THEOREM PermitConservedAlways == Spec => []PermitConserved
<1>1. PermitInv => PermitConserved
  BY DEF PermitInv
<1> QED BY <1>1, PermitInvariant, PTL

-----------------------------------------------------------------------------
(* The queue, and the wake-ups.                                            *)

QueueInv == PermitInv /\ QueueMatchesTasks /\ NoLostWakeup

\* Every nonempty set of naturals has a least element.
LEMMA LeastElement ==
    ASSUME NEW T \in SUBSET Nat, T # {}
    PROVE  \E m \in T : \A n \in T : m <= n
<1>1. \E m \in T : \A n \in T : ~(<<n, m>> \in OpToRel(<, Nat))
  BY NatLessThanWellFounded, WFMin, Zenon
<1>2. PICK m \in T : \A n \in T : ~(<<n, m>> \in OpToRel(<, Nat))
  BY <1>1
<1>3. \A n \in T : ~(n < m)
  BY <1>2 DEF OpToRel
<1> QED BY <1>3

\* If anybody sleeps in the queue, somebody is next in line.
LEMMA SomebodyNextInLine ==
    ASSUME TypeOK, QueueMatchesTasks, NEW o \in Ops, pc[o] = "queued"
    PROVE  \E w \in Ops : NextInLine(w)
<1> DEFINE T == {i \in DOMAIN waiters : pc[waiters[i]] = "queued"}
<1>1. DOMAIN waiters = 1..Len(waiters) /\ Len(waiters) \in Nat
  BY DEF TypeOK
<1>2. T \in SUBSET Nat /\ T # {}
  BY <1>1 DEF QueueMatchesTasks, Waiting
<1>3. PICK m \in T : \A n \in T : m <= n
  BY <1>2, LeastElement
<1>4. waiters[m] \in Ops
  BY <1>1, <1>3, ElementOfSeq DEF TypeOK
<1>5. \A j \in 1..(m - 1) : pc[waiters[j]] # "queued"
  BY <1>1, <1>3
<1>6. NextInLine(waiters[m])
  BY <1>3, <1>5 DEF NextInLine
<1> QED BY <1>4, <1>6

\* Removing the future at i: the positions after it move down by one.
LEMMA RemoveAtProperties ==
    ASSUME NEW S, NEW s \in Seq(S), NEW i \in 1..Len(s)
    PROVE  /\ RemoveAt(s, i) \in Seq(S)
           /\ Len(RemoveAt(s, i)) = Len(s) - 1
           /\ \A j \in 1..(Len(s) - 1) :
                RemoveAt(s, i)[j] = IF j < i THEN s[j] ELSE s[j + 1]
<1>1. Len(s) \in Nat /\ \A j \in 1..Len(s) : s[j] \in S
  BY ElementOfSeq, LenProperties
<1> DEFINE a == SubSeq(s, 1, i - 1)
           b == SubSeq(s, i + 1, Len(s))
<1>2. /\ a \in Seq(S) /\ Len(a) = i - 1
      /\ \A j \in 1..(i - 1) : a[j] = s[j]
  <2>1. \A j \in 1..(i - 1) : s[j] \in S
    BY <1>1
  <2> QED BY <1>1, <2>1, SubSeqProperties
<1>3. /\ b \in Seq(S) /\ Len(b) = Len(s) - i
      /\ \A j \in 1..(Len(s) - i) : b[j] = s[i + j]
  <2>1. \A j \in (i + 1)..Len(s) : s[j] \in S
    BY <1>1
  <2> QED BY <1>1, <2>1, SubSeqProperties
<1> HIDE DEF a, b
<1>4. /\ a \o b \in Seq(S)
      /\ Len(a \o b) = Len(s) - 1
      /\ \A j \in 1..(Len(s) - 1) : (a \o b)[j] = IF j <= i - 1 THEN a[j] ELSE b[j - (i - 1)]
  <2>1. /\ a \o b \in Seq(S)
        /\ Len(a \o b) = Len(a) + Len(b)
        /\ \A j \in 1..(Len(a) + Len(b)) :
             (a \o b)[j] = IF j <= Len(a) THEN a[j] ELSE b[j - Len(a)]
    BY <1>2, <1>3, ConcatProperties, Zenon
  <2>2. Len(a) + Len(b) = Len(s) - 1
    BY <1>1, <1>2, <1>3
  <2> QED BY <1>2, <2>1, <2>2, Zenon
<1>5. ASSUME NEW j \in 1..(Len(s) - 1)
      PROVE  (a \o b)[j] = IF j < i THEN s[j] ELSE s[j + 1]
  <2>1. CASE j < i
    BY <1>1, <1>2, <1>4, <2>1
  <2>2. CASE ~(j < i)
    <3>1. j - (i - 1) \in 1..(Len(s) - i) /\ i + (j - (i - 1)) = j + 1
      BY <1>1, <2>2
    <3> QED BY <1>1, <1>3, <1>4, <2>2, <3>1
  <2> QED BY <2>1, <2>2
<1> QED BY <1>4, <1>5 DEF RemoveAt, a, b

\* A task that leaves the queue takes its one entry out of the deque.
LEMMA DequeueKeepsMatch ==
    ASSUME TypeOK, QueueMatchesTasks, NEW o \in Ops, Dequeue(o),
           pc'[o] \notin Waiting,
           \A p \in Ops \ {o} : pc'[p] \in Waiting <=> pc[p] \in Waiting
    PROVE  QueueMatchesTasks'
<1>1. PICK i \in DOMAIN waiters : waiters[i] = o /\ waiters' = RemoveAt(waiters, i)
  BY DEF Dequeue
<1>2. waiters \in Seq(Ops) /\ Len(waiters) \in Nat /\ DOMAIN waiters = 1..Len(waiters)
  BY DEF TypeOK
<1> DEFINE n == Len(waiters)
<1>3. /\ waiters' \in Seq(Ops)
      /\ Len(waiters') = n - 1
      /\ \A j \in 1..(n - 1) : waiters'[j] = IF j < i THEN waiters[j] ELSE waiters[j + 1]
  BY <1>1, <1>2, RemoveAtProperties
<1>4. DOMAIN waiters' = 1..(n - 1)
  BY <1>2, <1>3
<1>5. \A j, k \in 1..n : waiters[j] = waiters[k] => j = k
  BY <1>2 DEF QueueMatchesTasks
<1>6. ASSUME NEW j \in 1..(n - 1), NEW k \in 1..(n - 1), waiters'[j] = waiters'[k]
      PROVE  j = k
  BY <1>1, <1>2, <1>3, <1>5, <1>6
<1>7. ASSUME NEW p \in Ops
      PROVE  pc'[p] \in Waiting <=> \E j \in 1..(n - 1) : waiters'[j] = p
  <2>1. CASE p = o
    <3>1. \A j \in 1..(n - 1) : waiters'[j] # o
      BY <1>1, <1>2, <1>3, <1>5
    <3> QED BY <2>1, <3>1
  <2>2. CASE p # o
    <3>1. pc'[p] \in Waiting <=> \E j \in 1..n : waiters[j] = p
      BY <1>2, <2>2 DEF QueueMatchesTasks
    <3>2. ASSUME NEW j \in 1..n, waiters[j] = p
          PROVE  \E k \in 1..(n - 1) : waiters'[k] = p
      <4>1. j # i
        BY <1>1, <2>2, <3>2
      <4>2. CASE j < i
        <5>1. j \in 1..(n - 1) /\ waiters'[j] = p
          BY <1>1, <1>2, <1>3, <3>2, <4>2
        <5> QED BY <5>1
      <4>3. CASE j > i
        <5>1. j - 1 \in 1..(n - 1) /\ waiters'[j - 1] = p
          BY <1>1, <1>2, <1>3, <3>2, <4>3
        <5> QED BY <5>1
      <4> QED BY <1>1, <1>2, <4>1, <4>2, <4>3
    <3>3. ASSUME NEW k \in 1..(n - 1), waiters'[k] = p
          PROVE  \E j \in 1..n : waiters[j] = p
      <4>1. k \in 1..n /\ k + 1 \in 1..n /\ (waiters[k] = p \/ waiters[k + 1] = p)
        BY <1>2, <1>3, <3>3
      <4> QED BY <4>1
    <3> QED BY <3>1, <3>2, <3>3
  <2> QED BY <2>1, <2>2
<1> QED BY <1>4, <1>6, <1>7 DEF QueueMatchesTasks

\* A task that starts to wait gets one entry at the end of the deque.
LEMMA AppendKeepsMatch ==
    ASSUME TypeOK, QueueMatchesTasks, NEW o \in Ops, pc[o] \notin Waiting,
           pc'[o] \in Waiting, waiters' = Append(waiters, o),
           \A p \in Ops \ {o} : pc'[p] \in Waiting <=> pc[p] \in Waiting
    PROVE  QueueMatchesTasks'
<1> DEFINE n == Len(waiters)
<1>1. n \in Nat /\ DOMAIN waiters = 1..n /\ waiters \in Seq(Ops)
  BY DEF TypeOK
<1>2. /\ waiters' \in Seq(Ops) /\ Len(waiters') = n + 1
      /\ \A j \in 1..n : waiters'[j] = waiters[j]
      /\ waiters'[n + 1] = o
  BY <1>1, AppendProperties
<1>3. DOMAIN waiters' = 1..(n + 1)
  BY <1>1, <1>2
<1>4. \A j \in 1..n : waiters[j] # o
  BY <1>1 DEF QueueMatchesTasks
<1>5. \A j, k \in 1..n : waiters[j] = waiters[k] => j = k
  BY <1>1 DEF QueueMatchesTasks
<1>6. ASSUME NEW j \in 1..(n + 1), NEW k \in 1..(n + 1), waiters'[j] = waiters'[k]
      PROVE  j = k
  <2>1. (j \in 1..n \/ j = n + 1) /\ (k \in 1..n \/ k = n + 1)
    BY <1>1
  <2> QED BY <1>2, <1>4, <1>5, <1>6, <2>1
<1>7. ASSUME NEW p \in Ops
      PROVE  pc'[p] \in Waiting <=> \E j \in 1..(n + 1) : waiters'[j] = p
  <2>1. CASE p = o
    BY <1>1, <1>2, <2>1
  <2>2. CASE p # o
    <3>1. pc'[p] \in Waiting <=> \E j \in 1..n : waiters[j] = p
      BY <1>1, <2>2 DEF QueueMatchesTasks
    <3>2. (\E j \in 1..n : waiters[j] = p) <=> \E j \in 1..(n + 1) : waiters'[j] = p
      BY <1>1, <1>2, <2>2
    <3> QED BY <3>1, <3>2
  <2> QED BY <2>1, <2>2
<1> QED BY <1>3, <1>6, <1>7 DEF QueueMatchesTasks

\* Neither a link, an ending nor an attempt is of interest to the queue.
LEMMA QueueUntouched ==
    ASSUME QueueInv, TypeOK', waiters' = waiters, value' = value,
           \A p \in Ops : /\ pc'[p] \in Waiting <=> pc[p] \in Waiting
                          /\ pc'[p] = "queued" => pc[p] = "queued"
    PROVE  QueueMatchesTasks' /\ NoLostWakeup'
BY DEF QueueInv, QueueMatchesTasks, NoLostWakeup

\* release() while others wait wakes one of them, so the counter stays 0;
\* with nobody in line nobody is asleep, so the counter may become 1.
LEMMA ReleaseWakes ==
    ASSUME QueueInv, NEW o \in Ops, HasPermit(o), Release(o, "idle")
    PROVE  /\ NoLostWakeup'
           /\ pc'[o] = "idle"
           /\ \A p \in Ops \ {o} : pc'[p] \in Waiting <=> pc[p] \in Waiting
<1> USE DEF QueueInv, PermitInv, TypeOK
<1>1. value = 0
  BY DEF PermitConserved
<1>2. pc[o] # "queued"
  BY DEF HasPermit, Holding, Timed
<1>3. ASSUME NEW w \in Ops, NextInLine(w), UNCHANGED value,
             pc' = [pc EXCEPT ![o] = "idle", ![w] = "granted"]
      PROVE  /\ NoLostWakeup'
             /\ pc'[o] = "idle"
             /\ \A p \in Ops \ {o} : pc'[p] \in Waiting <=> pc[p] \in Waiting
  <2>1. pc[w] = "queued" /\ w # o
    BY <1>2, <1>3 DEF NextInLine
  <2> QED BY <1>1, <1>3, <2>1 DEF NoLostWakeup, Waiting
<1>4. CASE /\ \A w \in Ops : ~NextInLine(w)
           /\ pc' = [pc EXCEPT ![o] = "idle"]
           /\ value' = value + 1
  <2>1. \A p \in Ops : pc[p] # "queued"
    BY <1>4, SomebodyNextInLine
  <2> QED BY <1>4, <2>1 DEF NoLostWakeup, Waiting
<1> QED BY <1>3, <1>4 DEF Release

\* acquire() queues the task only while somebody else has the permit.
LEMMA AcquireQueues ==
    ASSUME QueueInv, TypeOK', NEW o \in Ops, pc[o] \notin Waiting,
           NEW free \in Nat, Acquire(o, free),
           free > 0 => \A p \in Ops \ {o} : ~HasPermit(p) /\ pc[p] # "queued"
    PROVE  QueueMatchesTasks' /\ NoLostWakeup'
<1> USE DEF QueueInv, PermitInv
<1>1. CASE /\ ~(free = 0 \/ ~AllWaitersCancelled)
           /\ value' = free - 1
           /\ pc' = [pc EXCEPT ![o] = "connecting"]
           /\ UNCHANGED waiters
  <2>1. /\ pc'[o] = "connecting" /\ pc'[o] \notin Waiting
        /\ \A p \in Ops \ {o} : pc'[p] = pc[p]
    BY <1>1 DEF TypeOK, Waiting
  <2>2. \A p \in Ops : pc'[p] \in Waiting <=> pc[p] \in Waiting
    BY <2>1
  <2>3. \A p \in Ops : pc'[p] # "queued"
    BY <1>1, <2>1
  <2> QED BY <1>1, <2>2, <2>3 DEF QueueMatchesTasks, NoLostWakeup
<1>2. CASE /\ free = 0 \/ ~AllWaitersCancelled
           /\ value' = free
           /\ pc' = [pc EXCEPT ![o] = "queued"]
           /\ waiters' = Append(waiters, o)
  <2>1. pc'[o] = "queued" /\ \A p \in Ops \ {o} : pc'[p] = pc[p]
    BY <1>2 DEF TypeOK
  <2>2. QueueMatchesTasks'
    BY <1>2, <2>1, AppendKeepsMatch DEF Waiting
  <2>3. free = 0
    <3>1. SUFFICES ASSUME free > 0 PROVE AllWaitersCancelled
      BY <1>2
    <3>2. ASSUME NEW i \in DOMAIN waiters PROVE pc[waiters[i]] = "queuedCancelled"
      <4>1. waiters[i] \in Ops
        BY <3>2, ElementOfSeq DEF TypeOK
      <4>2. pc[waiters[i]] \in Waiting /\ waiters[i] # o
        BY <3>2, <4>1 DEF QueueMatchesTasks
      <4> QED BY <3>1, <4>1, <4>2 DEF Waiting, HasPermit
    <3> QED BY <3>2 DEF AllWaitersCancelled
  <2> QED BY <1>2, <2>2, <2>3 DEF NoLostWakeup
<1> QED BY <1>1, <1>2 DEF Acquire

\* The end of an attempt leaves nobody asleep beside a free permit ...
LEMMA ConcludeKeepsQueue ==
    ASSUME QueueInv, TypeOK', NEW o \in Ops, pc[o] \in Holding, NEW e, Conclude(o, e)
    PROVE  QueueMatchesTasks' /\ NoLostWakeup'
<1> USE DEF QueueInv, PermitInv
<1>1. HasPermit(o) /\ pc[o] \notin Waiting
  BY DEF HasPermit, Holding, Timed, Waiting
<1>2. value = 0 /\ \A p \in Ops : HasPermit(p) => p = o
  BY <1>1 DEF SlotExclusive, PermitConserved
<1>3. CASE Release(o, "idle") /\ UNCHANGED waiters
  <2>1. pc'[o] \notin Waiting
    BY <1>1, <1>3, ReleaseWakes DEF Waiting
  <2>2. \A p \in Ops : pc'[p] \in Waiting <=> pc[p] \in Waiting
    BY <1>1, <1>3, <2>1, ReleaseWakes
  <2> QED BY <1>1, <1>3, <2>2, ReleaseWakes DEF QueueMatchesTasks
<1>4. CASE /\ \E w \in Ops : NextInLine(w)
           /\ Release(o, "queued")
           /\ waiters' = Append(waiters, o)
  <2>1. PICK w \in Ops : /\ NextInLine(w)
                         /\ pc' = [pc EXCEPT ![o] = "queued", ![w] = "granted"]
                         /\ UNCHANGED value
    BY <1>4 DEF Release
  <2>2. pc[w] = "queued" /\ w # o
    BY <1>1, <2>1 DEF NextInLine, Waiting
  <2>3. /\ pc'[o] \in Waiting
        /\ \A p \in Ops \ {o} : pc'[p] \in Waiting <=> pc[p] \in Waiting
    BY <2>1, <2>2 DEF TypeOK, Waiting
  <2>4. QueueMatchesTasks'
    BY <1>1, <1>4, <2>3, AppendKeepsMatch
  <2> QED BY <1>2, <2>1, <2>4 DEF NoLostWakeup
<1>5. CASE (\A w \in Ops : ~NextInLine(w)) /\ Acquire(o, value + 1)
  <2>1. \A p \in Ops : pc[p] # "queued"
    BY <1>5, SomebodyNextInLine
  <2> QED BY <1>1, <1>2, <1>5, <2>1, AcquireQueues
<1> QED BY <1>3, <1>4, <1>5 DEF Conclude, ReleaseAndAcquire

\* ... nor does leaving the timeout scope.
LEMMA LeaveScopeKeepsQueue ==
    ASSUME QueueInv, TypeOK', NEW o \in Ops, pc[o] \in Holding, NEW e, LeaveScope(o, e)
    PROVE  QueueMatchesTasks' /\ NoLostWakeup'
<1>1. CASE Conclude(o, e)
  BY <1>1, ConcludeKeepsQueue
<1>2. CASE pc' = [pc EXCEPT ![o] = "closing"] /\ UNCHANGED <<value, waiters>>
  <2>1. \A p \in Ops : /\ pc'[p] \in Waiting <=> pc[p] \in Waiting
                       /\ pc'[p] = "queued" => pc[p] = "queued"
    BY <1>2 DEF QueueInv, PermitInv, TypeOK, Holding, Timed, Waiting
  <2> QED BY <1>2, <2>1, QueueUntouched
<1> QED BY <1>1, <1>2 DEF LeaveScope

\* Every step keeps the deque, the tasks and the counter in agreement.
LEMMA QueueInvInductive == QueueInv /\ PermitInv' /\ [Next]_vars => QueueInv'
<1> SUFFICES ASSUME QueueInv, PermitInv', [Next]_vars
             PROVE  QueueMatchesTasks' /\ NoLostWakeup'
  BY DEF QueueInv
<1>0. TypeOK /\ TypeOK' /\ pc \in [Ops -> {"idle"} \cup Waiting \cup Holding]
  BY DEF QueueInv, PermitInv, TypeOK
<1> DEFINE Stays == /\ waiters' = waiters /\ value' = value
                    /\ \A p \in Ops : /\ pc'[p] \in Waiting <=> pc[p] \in Waiting
                                      /\ pc'[p] = "queued" => pc[p] = "queued"
<1>1. CASE UNCHANGED vars
  BY <1>0, <1>1, QueueUntouched DEF vars
<1> SUFFICES ASSUME NEW o \in Ops,
                    \/ Start(o)         \/ ResumeGranted(o) \/ ResumeCancelled(o)
                    \/ LinkUp(o)        \/ HandshakeDone(o) \/ KeyRejected(o)
                    \/ OpReturns(o)     \/ AttemptFails(o)  \/ DisconnectReturns(o)
                    \/ Cancel(o)        \/ LinkLost(o)
             PROVE  QueueMatchesTasks' /\ NoLostWakeup'
  BY <1>1 DEF Next
<1>2. CASE Start(o)
  <2>1. CASE Acquire(o, value)
    <3>1. value > 0 => \A p \in Ops : ~HasPermit(p) /\ pc[p] # "queued"
      BY DEF QueueInv, PermitInv, PermitConserved, NoLostWakeup
    <3>2. pc[o] \notin Waiting /\ value \in Nat
      BY <1>0, <1>2 DEF Start, Waiting, TypeOK
    <3> QED BY <1>0, <2>1, <3>1, <3>2, AcquireQueues
  <2>2. CASE UNCHANGED <<value, waiters, pc>>
    BY <1>0, <2>2, QueueUntouched
  <2> QED BY <1>2, <2>1, <2>2 DEF Start
<1>3. CASE ResumeGranted(o)
  <2>1. /\ pc'[o] \notin Waiting
        /\ \A p \in Ops \ {o} : pc'[p] = pc[p]
        /\ value' = value /\ Dequeue(o)
    BY <1>0, <1>3 DEF ResumeGranted, Waiting
  <2>2. value = 0
    BY <1>0, <1>3 DEF ResumeGranted, QueueInv, PermitInv, PermitConserved, HasPermit
  <2> QED BY <1>0, <2>1, <2>2, DequeueKeepsMatch DEF QueueInv, NoLostWakeup
<1>4. CASE ResumeCancelled(o)
  <2>1. CASE /\ pc[o] = "queuedCancelled"
             /\ pc' = [pc EXCEPT ![o] = "idle"]
             /\ UNCHANGED value
    <3>1. pc'[o] = "idle" /\ \A p \in Ops \ {o} : pc'[p] = pc[p]
      BY <1>0, <2>1
    <3>2. NoLostWakeup'
      BY <2>1, <3>1 DEF QueueInv, NoLostWakeup
    <3> QED BY <1>0, <1>4, <3>1, <3>2, DequeueKeepsMatch DEF ResumeCancelled, QueueInv, Waiting
  <2>2. CASE pc[o] = "grantedCancelled" /\ Release(o, "idle")
    <3>1. HasPermit(o)
      BY <2>2 DEF HasPermit
    <3>2. /\ NoLostWakeup' /\ pc'[o] \notin Waiting
          /\ \A p \in Ops \ {o} : pc'[p] \in Waiting <=> pc[p] \in Waiting
      BY <2>2, <3>1, ReleaseWakes DEF Waiting
    <3> QED BY <1>0, <1>4, <3>2, DequeueKeepsMatch DEF ResumeCancelled, QueueInv
  <2> QED BY <1>4, <2>1, <2>2 DEF ResumeCancelled
<1>5. CASE LinkUp(o)
  <2>1. Stays
    BY <1>0, <1>5 DEF LinkUp, Waiting
  <2> QED BY <1>0, <2>1, QueueUntouched
<1>6. CASE HandshakeDone(o)
  <2>1. Stays
    BY <1>0, <1>6 DEF HandshakeDone, Waiting
  <2> QED BY <1>0, <2>1, QueueUntouched
<1>7. CASE KeyRejected(o)
  BY <1>0, <1>7, LeaveScopeKeepsQueue DEF KeyRejected, Holding, Timed
<1>8. CASE OpReturns(o)
  BY <1>0, <1>8, LeaveScopeKeepsQueue DEF OpReturns, Holding, Timed
<1>9. CASE AttemptFails(o)
  BY <1>0, <1>9, LeaveScopeKeepsQueue DEF AttemptFails, Holding
<1>10. CASE DisconnectReturns(o)
  BY <1>0, <1>10, ConcludeKeepsQueue DEF DisconnectReturns, Holding
<1>11. CASE Cancel(o)
  <2>1. CASE /\ pc[o] \in {"queued", "granted"}
             /\ \/ pc' = [pc EXCEPT ![o] = "queuedCancelled"]
                \/ pc' = [pc EXCEPT ![o] = "grantedCancelled"]
             /\ UNCHANGED <<value, waiters>>
    <3>1. Stays
      BY <1>0, <2>1 DEF Waiting
    <3> QED BY <1>0, <3>1, QueueUntouched
  <2>2. CASE pc[o] \in Timed /\ LeaveScope(o, "cancelled")
    BY <1>0, <2>2, LeaveScopeKeepsQueue DEF Holding
  <2>3. CASE pc[o] = "closing" /\ Conclude(o, "cancelled")
    BY <1>0, <2>3, ConcludeKeepsQueue DEF Holding
  <2> QED BY <1>11, <2>1, <2>2, <2>3 DEF Cancel
<1>12. CASE LinkLost(o)
  BY <1>0, <1>12, QueueUntouched DEF LinkLost
<1> QED BY <1>2, <1>3, <1>4, <1>5, <1>6, <1>7, <1>8, <1>9, <1>10, <1>11, <1>12

\* The deque, the tasks and the counter agree in every state.
LEMMA QueueInvariant == Spec => []QueueInv
<1>1. Init /\ PermitInv => QueueInv
  <2> SUFFICES ASSUME Init, PermitInv PROVE QueueMatchesTasks /\ NoLostWakeup
    BY DEF QueueInv
  <2>1. DOMAIN waiters = {}
    BY EmptySeq DEF Init
  <2> QED BY <2>1 DEF Init, QueueMatchesTasks, NoLostWakeup, Waiting
<1> QED BY <1>1, QueueInvInductive, PermitInvariant, PTL DEF Spec, Safety

\* Nobody sleeps in the queue while the permit is free.
THEOREM NoLostWakeupAlways == Spec => []NoLostWakeup
<1>1. QueueInv => NoLostWakeup
  BY DEF QueueInv
<1> QED BY <1>1, QueueInvariant, PTL

-----------------------------------------------------------------------------
(* The links.                                                              *)

\* LinkNeedsPermit as it survives every step: the exception is a task that is
\* over, and was cancelled.
LinkInv ==
    /\ TypeOK
    /\ \A o \in Ops : link[o] => \/ pc[o] \in Holding
                                 \/ pc[o] = "idle" /\ ending[o] = "cancelled"

\* What a step does to the tasks it is not a step of.
OthersKeepLinks(o) ==
    \A p \in Ops \ {o} : /\ link'[p] = link[p] /\ ending'[p] = ending[p]
                         /\ pc'[p] = pc[p] \/ (pc[p] = "queued" /\ pc'[p] = "granted")

\* It is enough to look at the task whose step it is.
LEMMA OthersLinkInv ==
    ASSUME LinkInv, TypeOK', NEW o \in Ops, OthersKeepLinks(o),
           link'[o] => \/ pc'[o] \in Holding
                       \/ pc'[o] = "idle" /\ ending'[o] = "cancelled"
    PROVE  LinkInv'
<1>1. ASSUME NEW p \in Ops \ {o}, link'[p]
      PROVE  pc'[p] \in Holding \/ (pc'[p] = "idle" /\ ending'[p] = "cancelled")
  <2>1. link[p] /\ (pc[p] \in Holding \/ (pc[p] = "idle" /\ ending[p] = "cancelled"))
    BY <1>1 DEF OthersKeepLinks, LinkInv
  <2>2. pc[p] # "queued"
    BY <2>1 DEF Holding, Timed
  <2> QED BY <2>1, <2>2 DEF OthersKeepLinks
<1> QED BY <1>1 DEF LinkInv

\* What release() does to the tasks.
LEMMA ReleaseOthers ==
    ASSUME TypeOK, NEW o \in Ops, NEW next \in {"idle", "queued"}, Release(o, next)
    PROVE  /\ pc[o] # "queued" => pc'[o] = next
           /\ \A p \in Ops \ {o} : pc'[p] = pc[p] \/ (pc[p] = "queued" /\ pc'[p] = "granted")
<1>1. ASSUME NEW w \in Ops, NextInLine(w), pc' = [pc EXCEPT ![o] = next, ![w] = "granted"]
      PROVE  /\ pc[o] # "queued" => pc'[o] = next
             /\ \A p \in Ops \ {o} : pc'[p] = pc[p] \/ (pc[p] = "queued" /\ pc'[p] = "granted")
  <2>1. pc[w] = "queued"
    BY <1>1 DEF NextInLine
  <2> QED BY <1>1, <2>1 DEF TypeOK
<1>2. CASE pc' = [pc EXCEPT ![o] = next]
  BY <1>2 DEF TypeOK
<1> QED BY <1>1, <1>2 DEF Release

\* What acquire() does to the tasks.
LEMMA AcquireOthers ==
    ASSUME TypeOK, NEW o \in Ops, NEW free, Acquire(o, free)
    PROVE  /\ pc'[o] \in {"connecting", "queued"}
           /\ \A p \in Ops \ {o} : pc'[p] = pc[p]
BY DEF TypeOK, Acquire

\* The end of an attempt: another one begins, or the task is over with e.
LEMMA ConcludeOthers ==
    ASSUME TypeOK, NEW o \in Ops, pc[o] \in Holding, NEW e \in Endings, Conclude(o, e)
    PROVE  /\ \/ pc'[o] = "idle" /\ ending'[o] = e
              \/ pc'[o] \in {"connecting", "queued"} /\ e = "failed"
           /\ \A p \in Ops \ {o} :
                /\ ending'[p] = ending[p]
                /\ pc'[p] = pc[p] \/ (pc[p] = "queued" /\ pc'[p] = "granted")
<1>0. pc[o] # "queued"
  BY DEF Holding, Timed
<1>1. CASE Release(o, "idle") /\ ending' = [ending EXCEPT ![o] = e]
  BY <1>0, <1>1, ReleaseOthers DEF TypeOK
<1>2. CASE Release(o, "queued") /\ e = "failed" /\ ending' = [ending EXCEPT ![o] = "none"]
  BY <1>0, <1>2, ReleaseOthers DEF TypeOK
<1>3. CASE Acquire(o, value + 1) /\ e = "failed" /\ ending' = [ending EXCEPT ![o] = "none"]
  BY <1>3, AcquireOthers DEF TypeOK
<1> QED BY <1>1, <1>2, <1>3 DEF Conclude, ReleaseAndAcquire

\* A task that leaves the scope with its link up keeps the permit.
LEMMA LeaveScopeLinks ==
    ASSUME LinkInv, TypeOK', NEW o \in Ops, pc[o] \in Holding,
           NEW e \in Endings, LeaveScope(o, e)
    PROVE  LinkInv'
<1>1. CASE ~link[o] /\ Conclude(o, e)
  BY <1>1, ConcludeOthers, OthersLinkInv DEF LeaveScope, OthersKeepLinks, LinkInv
<1>2. CASE pc' = [pc EXCEPT ![o] = "closing"] /\ ending' = [ending EXCEPT ![o] = e]
  <2>1. pc'[o] \in Holding /\ OthersKeepLinks(o)
    BY <1>2 DEF LeaveScope, OthersKeepLinks, LinkInv, TypeOK, Holding
  <2> QED BY <2>1, OthersLinkInv
<1> QED BY <1>1, <1>2 DEF LeaveScope

\* Every step keeps links with the permit, or with a cancelled task.
LEMMA LinkInvInductive == LinkInv /\ TypeOK' /\ [Next]_vars => LinkInv'
<1> SUFFICES ASSUME LinkInv, TypeOK', [Next]_vars PROVE LinkInv'
  OBVIOUS
<1>0. TypeOK
  BY DEF LinkInv
<1>1. CASE UNCHANGED vars
  BY <1>1 DEF vars, LinkInv
<1> SUFFICES ASSUME NEW o \in Ops,
                    \/ Start(o)         \/ ResumeGranted(o) \/ ResumeCancelled(o)
                    \/ LinkUp(o)        \/ HandshakeDone(o) \/ KeyRejected(o)
                    \/ OpReturns(o)     \/ AttemptFails(o)  \/ DisconnectReturns(o)
                    \/ Cancel(o)        \/ LinkLost(o)
             PROVE  LinkInv'
  BY <1>1 DEF Next
<1>2. CASE Start(o)
  <2>1. ~link'[o]
    BY <1>2 DEF Start
  <2>2. OthersKeepLinks(o)
    BY <1>0, <1>2, AcquireOthers DEF Start, OthersKeepLinks, TypeOK
  <2> QED BY <2>1, <2>2, OthersLinkInv
<1>3. CASE ResumeGranted(o)
  BY <1>0, <1>3, OthersLinkInv DEF ResumeGranted, OthersKeepLinks, TypeOK, Holding, Timed
<1>4. CASE ResumeCancelled(o)
  <2>1. ~link'[o]
    BY <1>4 DEF ResumeCancelled, LinkInv, Holding, Timed
  <2>2. OthersKeepLinks(o)
    BY <1>0, <1>4, ReleaseOthers DEF ResumeCancelled, OthersKeepLinks, TypeOK
  <2> QED BY <2>1, <2>2, OthersLinkInv
<1>5. CASE LinkUp(o)
  BY <1>0, <1>5, OthersLinkInv DEF LinkUp, OthersKeepLinks, TypeOK, Holding, Timed
<1>6. CASE HandshakeDone(o)
  BY <1>0, <1>6, OthersLinkInv DEF HandshakeDone, OthersKeepLinks, TypeOK, Holding, Timed
<1>7. CASE KeyRejected(o)
  BY <1>7, LeaveScopeLinks DEF KeyRejected, Holding, Timed, Endings
<1>8. CASE OpReturns(o)
  BY <1>8, LeaveScopeLinks DEF OpReturns, Holding, Timed, Endings
<1>9. CASE AttemptFails(o)
  BY <1>9, LeaveScopeLinks DEF AttemptFails, Holding, Endings
<1>10. CASE DisconnectReturns(o)
  <2>1. ending[o] \in Endings /\ pc[o] \in Holding
    BY <1>0, <1>10 DEF DisconnectReturns, TypeOK, Holding
  <2>2. ~link'[o] /\ OthersKeepLinks(o)
    BY <1>0, <1>10, <2>1, ConcludeOthers DEF DisconnectReturns, OthersKeepLinks, TypeOK
  <2> QED BY <2>2, OthersLinkInv
<1>11. CASE Cancel(o)
  <2>1. CASE /\ pc[o] \in {"queued", "granted"}
             /\ \/ pc' = [pc EXCEPT ![o] = "queuedCancelled"]
                \/ pc' = [pc EXCEPT ![o] = "grantedCancelled"]
             /\ UNCHANGED <<ending, link>>
    <3>1. ~link'[o]
      BY <2>1 DEF LinkInv, Holding, Timed
    <3>2. OthersKeepLinks(o)
      BY <1>0, <2>1 DEF OthersKeepLinks, TypeOK
    <3> QED BY <3>1, <3>2, OthersLinkInv
  <2>2. CASE pc[o] \in Timed /\ LeaveScope(o, "cancelled")
    BY <2>2, LeaveScopeLinks DEF Holding, Endings
  <2>3. CASE pc[o] = "closing" /\ Conclude(o, "cancelled") /\ UNCHANGED link
    <3>1. pc[o] \in Holding /\ "cancelled" \in Endings
      BY <2>3 DEF Holding, Endings
    <3>2. pc'[o] = "idle" /\ ending'[o] = "cancelled" /\ OthersKeepLinks(o)
      BY <1>0, <2>3, <3>1, ConcludeOthers DEF OthersKeepLinks
    <3> QED BY <3>2, OthersLinkInv
  <2> QED BY <1>11, <2>1, <2>2, <2>3 DEF Cancel
<1>12. CASE LinkLost(o)
  BY <1>0, <1>12, OthersLinkInv DEF LinkLost, OthersKeepLinks, TypeOK
<1> QED BY <1>2, <1>3, <1>4, <1>5, <1>6, <1>7, <1>8, <1>9, <1>10, <1>11, <1>12

\* Only a cancelled task can leave a link behind.
THEOREM LinkNeedsPermitAlways == Spec => []LinkNeedsPermit
<1>1. Init /\ TypeOK => LinkInv
  BY DEF Init, LinkInv
<1>2. LinkInv => LinkNeedsPermit
  BY DEF LinkInv, LinkNeedsPermit
<1> QED BY <1>1, <1>2, LinkInvInductive, TypeCorrect, PTL DEF Spec, Safety

\* Where nobody cancels, nothing ends as cancelled.
NobodyCancelled ==
    \A o \in Ops : /\ ending[o] # "cancelled"
                   /\ pc[o] \notin {"queuedCancelled", "grantedCancelled"}

\* An attempt that was not cancelled ends as something else ...
LEMMA ConcludeUncancelled ==
    ASSUME TypeOK, NobodyCancelled, NEW o \in Ops, pc[o] \in Holding,
           NEW e \in Endings \ {"cancelled"}, Conclude(o, e)
    PROVE  NobodyCancelled'
<1>1. ending'[o] # "cancelled"
  BY DEF Conclude, TypeOK
<1>2. ASSUME NEW p \in Ops
      PROVE  ending'[p] # "cancelled" /\ pc'[p] \notin {"queuedCancelled", "grantedCancelled"}
  BY <1>1, ConcludeOthers DEF NobodyCancelled
<1> QED BY <1>2 DEF NobodyCancelled

\* ... whether there is a teardown or not.
LEMMA LeaveScopeUncancelled ==
    ASSUME TypeOK, NobodyCancelled, NEW o \in Ops, pc[o] \in Holding,
           NEW e \in Endings \ {"cancelled"}, LeaveScope(o, e)
    PROVE  NobodyCancelled'
<1>1. CASE Conclude(o, e)
  BY <1>1, ConcludeUncancelled
<1>2. CASE pc' = [pc EXCEPT ![o] = "closing"] /\ ending' = [ending EXCEPT ![o] = e]
  BY <1>2 DEF NobodyCancelled, TypeOK
<1> QED BY <1>1, <1>2 DEF LeaveScope

\* With nobody cancellable nobody ever is cancelled.
LEMMA UncancelledInductive ==
    ASSUME Cancellable = {}
    PROVE  TypeOK /\ NobodyCancelled /\ [Next]_vars => NobodyCancelled'
<1> SUFFICES ASSUME TypeOK, NobodyCancelled, [Next]_vars PROVE NobodyCancelled'
  OBVIOUS
<1>1. CASE UNCHANGED vars
  BY <1>1 DEF vars, NobodyCancelled
<1> SUFFICES ASSUME NEW o \in Ops,
                    \/ Start(o)         \/ ResumeGranted(o) \/ ResumeCancelled(o)
                    \/ LinkUp(o)        \/ HandshakeDone(o) \/ KeyRejected(o)
                    \/ OpReturns(o)     \/ AttemptFails(o)  \/ DisconnectReturns(o)
                    \/ Cancel(o)        \/ LinkLost(o)
             PROVE  NobodyCancelled'
  BY <1>1 DEF Next
<1>2. CASE Start(o)
  <2>1. \A p \in Ops : ending'[p] # "cancelled"
    BY <1>2 DEF Start, TypeOK, NobodyCancelled
  <2>2. \A p \in Ops : pc'[p] \notin {"queuedCancelled", "grantedCancelled"}
    BY <1>2, AcquireOthers DEF Start, NobodyCancelled
  <2> QED BY <2>1, <2>2 DEF NobodyCancelled
<1>3. CASE ResumeGranted(o)
  BY <1>3 DEF ResumeGranted, NobodyCancelled, TypeOK
<1>4. CASE ResumeCancelled(o)
  BY <1>4 DEF ResumeCancelled, NobodyCancelled
<1>5. CASE LinkUp(o)
  BY <1>5 DEF LinkUp, NobodyCancelled, TypeOK
<1>6. CASE HandshakeDone(o)
  BY <1>6 DEF HandshakeDone, NobodyCancelled, TypeOK
<1>7. CASE KeyRejected(o)
  BY <1>7, LeaveScopeUncancelled DEF KeyRejected, Holding, Timed, Endings
<1>8. CASE OpReturns(o)
  BY <1>8, LeaveScopeUncancelled DEF OpReturns, Holding, Timed, Endings
<1>9. CASE AttemptFails(o)
  BY <1>9, LeaveScopeUncancelled DEF AttemptFails, Holding, Endings
<1>10. CASE DisconnectReturns(o)
  <2>1. ending[o] \in Endings \ {"cancelled"} /\ pc[o] \in Holding
    BY <1>10 DEF DisconnectReturns, TypeOK, NobodyCancelled, Holding
  <2> QED BY <1>10, <2>1, ConcludeUncancelled DEF DisconnectReturns
<1>11. CASE Cancel(o)
  BY <1>11 DEF Cancel
<1>12. CASE LinkLost(o)
  BY <1>12 DEF LinkLost, NobodyCancelled
<1> QED BY <1>2, <1>3, <1>4, <1>5, <1>6, <1>7, <1>8, <1>9, <1>10, <1>11, <1>12

\* While no setpoint edit cancels another, two links are never up at once.
THEOREM OneLinkWhileUncancelled ==
    ASSUME Cancellable = {}
    PROVE  Spec => []OneLinkAtATime
<1>1. Init => NobodyCancelled
  BY DEF Init, NobodyCancelled
<1>2. PermitInv /\ LinkNeedsPermit /\ NobodyCancelled => OneLinkAtATime
  BY DEF PermitInv, SlotExclusive, HasPermit, LinkNeedsPermit, NobodyCancelled, OneLinkAtATime
<1>3. TypeOK /\ NobodyCancelled /\ [Next]_vars => NobodyCancelled'
  BY UncancelledInductive
<1> QED BY <1>1, <1>2, <1>3, TypeCorrect, PermitInvariant, LinkNeedsPermitAlways, PTL
        DEF Spec, Safety

-----------------------------------------------------------------------------
(* The refinement.                                                         *)

Asking == {o \in Ops : pc[o] \in Waiting}
Holders == {o \in Ops : pc[o] \in Holding}

\* The end of an attempt: the slot is left, given up for the next attempt, or kept.
LEMMA ConcludeRefines ==
    ASSUME PermitInv, NEW o \in Ops, pc[o] \in Holding, NEW e, Conclude(o, e)
    PROVE  Slot!SlotNext \/ UNCHANGED Slot!slotVars
<1> USE DEF PermitInv
<1>0. pc[o] \notin Waiting /\ "queued" \notin Holding /\ "granted" \notin Holding
      /\ "idle" \notin Holding \cup Waiting /\ "connecting" \notin Waiting
      /\ {"queued", "granted"} \subseteq Waiting /\ "connecting" \in Holding
  BY DEF Holding, Timed, Waiting
<1>1. CASE Release(o, "idle")
  <2>1. pc'[o] = "idle"
        /\ \A p \in Ops \ {o} : pc'[p] = pc[p] \/ (pc[p] = "queued" /\ pc'[p] = "granted")
    BY <1>0, <1>1, ReleaseOthers
  <2>2. Asking' = Asking /\ Holders' = Holders \ {o} /\ o \in Holders
    BY <1>0, <2>1 DEF Asking, Holders
  <2>3. Slot!Leave(o)
    BY <2>2 DEF Slot!Leave, Asking, Holders
  <2> QED BY <2>3 DEF Slot!SlotNext
<1>2. CASE Release(o, "queued")
  <2>1. pc'[o] = "queued"
        /\ \A p \in Ops \ {o} : pc'[p] = pc[p] \/ (pc[p] = "queued" /\ pc'[p] = "granted")
    BY <1>0, <1>2, ReleaseOthers
  <2>2. Asking' = Asking \cup {o} /\ Holders' = Holders \ {o} /\ o \in Holders
    BY <1>0, <2>1 DEF Asking, Holders
  <2>3. Slot!LineUpAgain(o)
    BY <2>2 DEF Slot!LineUpAgain, Asking, Holders
  <2> QED BY <2>3 DEF Slot!SlotNext
<1>3. CASE Acquire(o, value + 1)
  <2>1. pc'[o] \in {"connecting", "queued"} /\ \A p \in Ops \ {o} : pc'[p] = pc[p]
    BY <1>3, AcquireOthers
  <2>2. CASE pc'[o] = "connecting"
    <3>1. Asking' = Asking /\ Holders' = Holders
      BY <1>0, <2>1, <2>2 DEF Asking, Holders
    <3> QED BY <3>1 DEF Slot!slotVars, Asking, Holders
  <2>3. CASE pc'[o] = "queued"
    <3>1. Asking' = Asking \cup {o} /\ Holders' = Holders \ {o} /\ o \in Holders
      BY <1>0, <2>1, <2>3 DEF Asking, Holders
    <3>2. Slot!LineUpAgain(o)
      BY <3>1 DEF Slot!LineUpAgain, Asking, Holders
    <3> QED BY <3>2 DEF Slot!SlotNext
  <2> QED BY <2>1, <2>2, <2>3
<1> QED BY <1>1, <1>2, <1>3 DEF Conclude, ReleaseAndAcquire

\* A step that moves no task between the queue, the slot and neither.
LEMMA RegionsUntouched ==
    ASSUME \A p \in Ops : /\ pc'[p] \in Waiting <=> pc[p] \in Waiting
                          /\ pc'[p] \in Holding <=> pc[p] \in Holding
    PROVE  UNCHANGED Slot!slotVars
BY DEF Slot!slotVars

\* A teardown keeps the slot.
LEMMA LeaveScopeRefines ==
    ASSUME PermitInv, NEW o \in Ops, pc[o] \in Holding, NEW e, LeaveScope(o, e)
    PROVE  Slot!SlotNext \/ UNCHANGED Slot!slotVars
<1>1. CASE Conclude(o, e)
  BY <1>1, ConcludeRefines
<1>2. CASE pc' = [pc EXCEPT ![o] = "closing"]
  <2>1. \A p \in Ops : /\ pc'[p] \in Waiting <=> pc[p] \in Waiting
                       /\ pc'[p] \in Holding <=> pc[p] \in Holding
    BY <1>2 DEF PermitInv, TypeOK, Holding, Timed, Waiting
  <2> QED BY <2>1, RegionsUntouched
<1> QED BY <1>1, <1>2 DEF LeaveScope

\* Every step of the gate is one of the slot's, or leaves it alone.
LEMMA StepRefines == PermitInv /\ [Next]_vars => [Slot!SlotNext]_(Slot!slotVars)
<1> SUFFICES ASSUME PermitInv, [Next]_vars
             PROVE  Slot!SlotNext \/ UNCHANGED Slot!slotVars
  OBVIOUS
<1>0. TypeOK /\ pc \in [Ops -> {"idle"} \cup Waiting \cup Holding]
  BY DEF PermitInv, TypeOK
<1> DEFINE Same == \A p \in Ops : /\ pc'[p] \in Waiting <=> pc[p] \in Waiting
                                  /\ pc'[p] \in Holding <=> pc[p] \in Holding
<1>1. CASE UNCHANGED vars
  BY <1>1, RegionsUntouched DEF vars
<1> SUFFICES ASSUME NEW o \in Ops,
                    \/ Start(o)         \/ ResumeGranted(o) \/ ResumeCancelled(o)
                    \/ LinkUp(o)        \/ HandshakeDone(o) \/ KeyRejected(o)
                    \/ OpReturns(o)     \/ AttemptFails(o)  \/ DisconnectReturns(o)
                    \/ Cancel(o)        \/ LinkLost(o)
             PROVE  Slot!SlotNext \/ UNCHANGED Slot!slotVars
  BY <1>1 DEF Next
<1>2. CASE Start(o)
  <2>1. CASE UNCHANGED pc
    BY <2>1, RegionsUntouched
  <2>2. CASE Acquire(o, value)
    <3>1. \A p \in Ops \ {o} : pc'[p] = pc[p]
      BY <1>0, <2>2, AcquireOthers
    <3>2. pc[o] = "idle" /\ o \notin Asking /\ o \notin Holders
      BY <1>2 DEF Start, Asking, Holders, Waiting, Holding, Timed
    <3>3. CASE pc'[o] = "connecting"
      <4>1. value # 0
        BY <1>0, <2>2, <3>3 DEF Acquire, TypeOK
      <4>2. Holders = {}
        BY <4>1 DEF PermitInv, PermitConserved, HasPermit, Holders
      <4>3. Holders' = {o} /\ Asking' = Asking \ {o}
        BY <3>1, <3>2, <3>3, <4>2 DEF Asking, Holders, Waiting, Holding, Timed
      <4>4. Slot!Enter(o)
        BY <4>2, <4>3 DEF Slot!Enter, Asking, Holders
      <4> QED BY <4>4 DEF Slot!SlotNext
    <3>4. CASE pc'[o] = "queued"
      <4>1. Holders' = Holders /\ Asking' = Asking \cup {o}
        BY <3>1, <3>2, <3>4 DEF Asking, Holders, Waiting, Holding, Timed
      <4>2. Slot!Ask(o)
        BY <3>2, <4>1 DEF Slot!Ask, Asking, Holders
      <4> QED BY <4>2 DEF Slot!SlotNext
    <3> QED BY <1>0, <2>2, <3>3, <3>4, AcquireOthers
  <2> QED BY <1>2, <2>1, <2>2 DEF Start
<1>3. CASE ResumeGranted(o)
  <2>1. pc'[o] = "connecting" /\ \A p \in Ops \ {o} : pc'[p] = pc[p]
    BY <1>0, <1>3 DEF ResumeGranted
  <2>2. Holders = {}
    BY <1>3 DEF ResumeGranted, PermitInv, SlotExclusive, HasPermit, Holders, Holding, Timed
  <2>3. Holders' = {o} /\ Asking' = Asking \ {o}
    BY <2>1, <2>2 DEF Asking, Holders, Waiting, Holding, Timed
  <2>4. Slot!Enter(o)
    BY <2>2, <2>3 DEF Slot!Enter, Asking, Holders
  <2> QED BY <2>4 DEF Slot!SlotNext
<1>4. CASE ResumeCancelled(o)
  <2>1. pc[o] \in {"queuedCancelled", "grantedCancelled"}
    BY <1>4 DEF ResumeCancelled
  <2>2. /\ pc'[o] = "idle"
        /\ \A p \in Ops \ {o} : pc'[p] = pc[p] \/ (pc[p] = "queued" /\ pc'[p] = "granted")
    BY <1>0, <1>4, <2>1, ReleaseOthers DEF ResumeCancelled
  <2>3. o \in Asking /\ Asking' = Asking \ {o} /\ Holders' = Holders
    BY <2>1, <2>2 DEF Asking, Holders, Waiting, Holding, Timed
  <2>4. Slot!Withdraw(o)
    BY <2>3 DEF Slot!Withdraw, Asking, Holders
  <2> QED BY <2>4 DEF Slot!SlotNext
<1>5. CASE LinkUp(o)
  <2>1. Same
    BY <1>0, <1>5 DEF LinkUp, Waiting, Holding, Timed
  <2> QED BY <2>1, RegionsUntouched
<1>6. CASE HandshakeDone(o)
  <2>1. Same
    BY <1>0, <1>6 DEF HandshakeDone, Waiting, Holding, Timed
  <2> QED BY <2>1, RegionsUntouched
<1>7. CASE KeyRejected(o)
  BY <1>7, LeaveScopeRefines DEF KeyRejected, Holding, Timed
<1>8. CASE OpReturns(o)
  BY <1>8, LeaveScopeRefines DEF OpReturns, Holding, Timed
<1>9. CASE AttemptFails(o)
  BY <1>9, LeaveScopeRefines DEF AttemptFails, Holding
<1>10. CASE DisconnectReturns(o)
  BY <1>10, ConcludeRefines DEF DisconnectReturns, Holding
<1>11. CASE Cancel(o)
  <2>1. CASE /\ pc[o] \in {"queued", "granted"}
             /\ \/ pc' = [pc EXCEPT ![o] = "queuedCancelled"]
                \/ pc' = [pc EXCEPT ![o] = "grantedCancelled"]
    <3>1. Same
      BY <1>0, <2>1 DEF Waiting, Holding, Timed
    <3> QED BY <3>1, RegionsUntouched
  <2>2. CASE pc[o] \in Timed /\ LeaveScope(o, "cancelled")
    BY <2>2, LeaveScopeRefines DEF Holding
  <2>3. CASE pc[o] = "closing" /\ Conclude(o, "cancelled")
    BY <2>3, ConcludeRefines DEF Holding
  <2> QED BY <1>11, <2>1, <2>2, <2>3 DEF Cancel
<1>12. CASE LinkLost(o)
  BY <1>12, RegionsUntouched DEF LinkLost
<1> QED BY <1>2, <1>3, <1>4, <1>5, <1>6, <1>7, <1>8, <1>9, <1>10, <1>11, <1>12

\* The gate implements the one-slot service: its initial state maps to the
\* service's, and each of its steps to a step of the service or a stutter.
THEOREM GateImplementsSlot == Spec => Slot!SlotSafety
<1>1. Init => Slot!SlotInit
  BY DEF Init, Slot!SlotInit, Waiting, Holding, Timed
<1> QED BY <1>1, StepRefines, PermitInvariant, PTL DEF Spec, Safety, Slot!SlotSafety

-----------------------------------------------------------------------------
(* The order of the queue.  That nobody overtakes is not inductive by      *)
(* itself: the waiter that was granted the permit leaves the queue in a    *)
(* later step, and must still be ahead of those asleep then.               *)

GrantedFirst ==
    \A i, j \in DOMAIN waiters :
        pc[waiters[i]] = "granted" /\ pc[waiters[j]] = "queued" => i < j

OrderInv == QueueInv /\ GrantedFirst

\* A step of task o moves no other task, but for the next in line, if there is one,
\* which is granted the permit.
Wakes(o) ==
    /\ \A p \in Ops \ {o} : pc'[p] # pc[p] => pc'[p] = "granted"
    /\ \/ \A p \in Ops \ {o} : pc'[p] = "granted" => pc[p] = "granted"
       \/ \E w \in Ops : /\ NextInLine(w) /\ pc'[w] = "granted"
                         /\ \A p \in Ops \ {o} : pc'[p] = "granted" => p = w

\* The task itself stays out of the queue, lines up at its end, or leaves it; and it
\* starts connecting when it was granted the permit, or when nobody is asleep.
Goes(o) ==
    /\ \/ waiters' = waiters /\ pc'[o] \notin {"queued", "granted"}
       \/ waiters' = Append(waiters, o) /\ pc'[o] = "queued" /\ pc[o] \notin Waiting
       \/ Dequeue(o) /\ pc'[o] \notin {"queued", "granted"}
    /\ Enters(o) => \/ pc[o] = "granted" /\ o \in Ops
                    \/ \A w \in Ops : pc[w] # "queued"

\* release() wakes nobody but the next in line.
LEMMA ReleaseInOrder ==
    ASSUME QueueInv, NEW o \in Ops, HasPermit(o), NEW next \in {"idle", "queued"},
           Release(o, next)
    PROVE  Wakes(o) /\ pc'[o] = next
<1>1. pc[o] # "queued" /\ \A p \in Ops : HasPermit(p) => p = o
  BY DEF QueueInv, PermitInv, SlotExclusive, HasPermit, Holding, Timed
<1>2. \A p \in Ops \ {o} : pc[p] # "granted"
  BY <1>1 DEF HasPermit
<1>3. pc \in [Ops -> {"idle"} \cup Waiting \cup Holding]
  BY DEF QueueInv, PermitInv, TypeOK
<1>4. ASSUME NEW w \in Ops, NextInLine(w), pc' = [pc EXCEPT ![o] = next, ![w] = "granted"]
      PROVE  Wakes(o) /\ pc'[o] = next
  <2>1. w # o
    BY <1>1, <1>4 DEF NextInLine
  <2>2. pc'[o] = next /\ pc'[w] = "granted" /\ \A p \in Ops \ {o, w} : pc'[p] = pc[p]
    BY <1>3, <1>4, <2>1
  <2> QED BY <1>2, <1>4, <2>2 DEF Wakes
<1>5. CASE pc' = [pc EXCEPT ![o] = next]
  BY <1>3, <1>5 DEF Wakes
<1> QED BY <1>4, <1>5 DEF Release

\* acquire() lines up behind everybody, unless all who wait are cancelled.
LEMMA AcquireInOrder ==
    ASSUME QueueInv, NEW o \in Ops, pc[o] \notin Waiting, NEW free, Acquire(o, free)
    PROVE  Wakes(o) /\ Goes(o)
<1>1. TypeOK /\ QueueMatchesTasks
  BY DEF QueueInv, PermitInv
<1>2. Wakes(o)
  BY <1>1, AcquireOthers DEF Wakes
<1>3. CASE pc' = [pc EXCEPT ![o] = "connecting"] /\ UNCHANGED waiters /\ AllWaitersCancelled
  <2>1. \A w \in Ops : pc[w] # "queued"
    BY <1>1, <1>3 DEF AllWaitersCancelled, QueueMatchesTasks, Waiting
  <2> QED BY <1>1, <1>2, <1>3, <2>1 DEF Goes, TypeOK
<1>4. CASE pc' = [pc EXCEPT ![o] = "queued"] /\ waiters' = Append(waiters, o)
  BY <1>1, <1>2, <1>4 DEF Goes, TypeOK, Enters
<1> QED BY <1>3, <1>4 DEF Acquire

\* So do the end of an attempt, and a retry after it ...
LEMMA ConcludeInOrder ==
    ASSUME QueueInv, NEW o \in Ops, pc[o] \in Holding, NEW e, Conclude(o, e)
    PROVE  Wakes(o) /\ Goes(o)
<1>1. HasPermit(o) /\ pc[o] \notin Waiting
  BY DEF HasPermit, Holding, Timed, Waiting
<1>2. CASE Release(o, "idle") /\ UNCHANGED waiters
  BY <1>1, <1>2, ReleaseInOrder DEF Goes, Enters
<1>3. CASE Release(o, "queued") /\ waiters' = Append(waiters, o)
  BY <1>1, <1>3, ReleaseInOrder DEF Goes, Enters
<1>4. CASE Acquire(o, value + 1)
  BY <1>1, <1>4, AcquireInOrder
<1> QED BY <1>2, <1>3, <1>4 DEF Conclude, ReleaseAndAcquire

\* ... with the link down or after the disconnect.
LEMMA LeaveScopeInOrder ==
    ASSUME QueueInv, NEW o \in Ops, pc[o] \in Holding, NEW e, LeaveScope(o, e)
    PROVE  Wakes(o) /\ Goes(o)
<1>1. CASE Conclude(o, e)
  BY <1>1, ConcludeInOrder
<1>2. CASE pc' = [pc EXCEPT ![o] = "closing"] /\ UNCHANGED waiters
  <2>1. pc'[o] = "closing" /\ \A p \in Ops \ {o} : pc'[p] = pc[p]
    BY <1>2 DEF QueueInv, PermitInv, TypeOK
  <2> QED BY <1>2, <2>1 DEF Wakes, Goes, Enters
<1> QED BY <1>1, <1>2 DEF LeaveScope

\* Every step is of one task, and in order.
LEMMA StepsInOrder ==
    ASSUME QueueInv, Next
    PROVE  (\E o \in Ops : Wakes(o) /\ Goes(o)) \/ UNCHANGED <<pc, waiters>>
<1> PICK o \in Ops :
       \/ Start(o)         \/ ResumeGranted(o) \/ ResumeCancelled(o)
       \/ LinkUp(o)        \/ HandshakeDone(o) \/ KeyRejected(o)
       \/ OpReturns(o)     \/ AttemptFails(o)  \/ DisconnectReturns(o)
       \/ Cancel(o)        \/ LinkLost(o)
  BY DEF Next
<1>0. pc \in [Ops -> {"idle"} \cup Waiting \cup Holding]
  BY DEF QueueInv, PermitInv, TypeOK
<1> SUFFICES ASSUME ~UNCHANGED <<pc, waiters>> PROVE Wakes(o) /\ Goes(o)
  OBVIOUS
<1> DEFINE Moves(q) == pc' = [pc EXCEPT ![o] = q] /\ q \notin {"queued", "granted", "connecting"}
<1>1. ASSUME NEW q, Moves(q) PROVE Wakes(o) /\ pc'[o] = q
  BY <1>0, <1>1 DEF Wakes
<1>2. CASE Start(o)
  <2>1. pc[o] \notin Waiting
    BY <1>2 DEF Start, Waiting
  <2> QED BY <1>2, <2>1, AcquireInOrder DEF Start
<1>3. CASE ResumeGranted(o)
  <2>1. pc'[o] = "connecting" /\ \A p \in Ops \ {o} : pc'[p] = pc[p]
    BY <1>0, <1>3 DEF ResumeGranted
  <2> QED BY <1>3, <2>1 DEF ResumeGranted, Wakes, Goes
<1>4. CASE ResumeCancelled(o)
  <2>1. CASE Moves("idle")
    BY <1>1, <1>4, <2>1 DEF ResumeCancelled, Goes, Enters
  <2>2. CASE pc[o] = "grantedCancelled" /\ Release(o, "idle")
    BY <1>4, <2>2, ReleaseInOrder DEF ResumeCancelled, HasPermit, Goes, Enters
  <2> QED BY <1>4, <2>1, <2>2 DEF ResumeCancelled
<1>5. CASE LinkUp(o)
  <2>1. Moves("handshaking") /\ UNCHANGED waiters
    BY <1>5 DEF LinkUp
  <2> QED BY <1>1, <2>1 DEF Goes, Enters
<1>6. CASE HandshakeDone(o)
  <2>1. Moves("running") /\ UNCHANGED waiters
    BY <1>6 DEF HandshakeDone
  <2> QED BY <1>1, <2>1 DEF Goes, Enters
<1>7. CASE KeyRejected(o) \/ OpReturns(o) \/ AttemptFails(o)
  BY <1>7, LeaveScopeInOrder DEF KeyRejected, OpReturns, AttemptFails, Holding, Timed
<1>8. CASE DisconnectReturns(o)
  BY <1>8, ConcludeInOrder DEF DisconnectReturns, Holding
<1>9. CASE Cancel(o)
  <2>1. CASE Moves("queuedCancelled") /\ UNCHANGED waiters
    BY <1>1, <2>1 DEF Goes, Enters
  <2>2. CASE Moves("grantedCancelled") /\ UNCHANGED waiters
    BY <1>1, <2>2 DEF Goes, Enters
  <2>3. CASE pc[o] \in Timed /\ LeaveScope(o, "cancelled")
    BY <2>3, LeaveScopeInOrder DEF Holding
  <2>4. CASE pc[o] = "closing" /\ Conclude(o, "cancelled")
    BY <2>4, ConcludeInOrder DEF Holding
  <2> QED BY <1>9, <2>1, <2>2, <2>3, <2>4 DEF Cancel
<1>10. CASE LinkLost(o)
  BY <1>10 DEF LinkLost
<1> QED BY <1>2, <1>3, <1>4, <1>5, <1>6, <1>7, <1>8, <1>9, <1>10

\* Where the other tasks are in the deque, the one just granted is first.
LEMMA WakesInOrder ==
    ASSUME OrderInv, NEW o \in Ops, Wakes(o),
           NEW i \in DOMAIN waiters, NEW j \in DOMAIN waiters,
           waiters[i] # o, waiters[j] # o,
           pc'[waiters[i]] = "granted", pc'[waiters[j]] = "queued"
    PROVE  i < j
<1>1. DOMAIN waiters = 1..Len(waiters) /\ Len(waiters) \in Nat
      /\ waiters[i] \in Ops /\ waiters[j] \in Ops
  BY ElementOfSeq DEF OrderInv, QueueInv, PermitInv, TypeOK
<1>2. pc[waiters[j]] = "queued"
  BY <1>1 DEF Wakes
<1>3. CASE pc[waiters[i]] = "granted"
  BY <1>2, <1>3 DEF OrderInv, GrantedFirst
<1>4. CASE NextInLine(waiters[i])
  <2>1. PICK k \in DOMAIN waiters : /\ waiters[k] = waiters[i]
                                    /\ \A l \in 1..(k - 1) : pc[waiters[l]] # "queued"
    BY <1>4 DEF NextInLine
  <2>2. k = i /\ i # j
    BY <2>1 DEF OrderInv, QueueInv, QueueMatchesTasks
  <2>3. j \notin 1..(i - 1)
    BY <1>2, <2>1, <2>2
  <2> QED BY <1>1, <2>2, <2>3
<1> QED BY <1>1, <1>3, <1>4 DEF Wakes

\* The deque with a task less, or one more at its end, keeps that order.
LEMMA GrantedFirstStep ==
    ASSUME OrderInv, NEW o \in Ops, Wakes(o), Goes(o)
    PROVE  GrantedFirst'
<1> DEFINE n == Len(waiters)
<1>1. waiters \in Seq(Ops) /\ n \in Nat /\ DOMAIN waiters = 1..n
  BY DEF OrderInv, QueueInv, PermitInv, TypeOK
<1>2. CASE waiters' = waiters /\ pc'[o] \notin {"queued", "granted"}
  BY <1>2, WakesInOrder DEF GrantedFirst
<1>3. CASE waiters' = Append(waiters, o) /\ pc'[o] = "queued" /\ pc[o] \notin Waiting
  <2>1. /\ DOMAIN waiters' = 1..(n + 1) /\ waiters'[n + 1] = o
        /\ \A j \in 1..n : waiters'[j] = waiters[j]
    BY <1>1, <1>3, AppendProperties
  <2>2. \A j \in 1..n : waiters[j] # o
    BY <1>1, <1>3 DEF OrderInv, QueueInv, QueueMatchesTasks
  <2> SUFFICES ASSUME NEW i \in 1..(n + 1), NEW j \in 1..(n + 1),
                      pc'[waiters'[i]] = "granted", pc'[waiters'[j]] = "queued"
               PROVE  i < j
    BY <2>1 DEF GrantedFirst
  <2>3. i \in 1..n
    BY <1>1, <1>3, <2>1
  <2>4. CASE j = n + 1
    BY <1>1, <2>3, <2>4
  <2>5. CASE j \in 1..n
    BY <1>1, <2>1, <2>2, <2>3, <2>5, WakesInOrder
  <2> QED BY <1>1, <2>4, <2>5
<1>4. CASE Dequeue(o) /\ pc'[o] \notin {"queued", "granted"}
  <2>1. PICK k \in DOMAIN waiters : waiters[k] = o /\ waiters' = RemoveAt(waiters, k)
    BY <1>4 DEF Dequeue
  <2> DEFINE Old(j) == IF j < k THEN j ELSE j + 1
  <2>2. /\ DOMAIN waiters' = 1..(n - 1)
        /\ \A j \in 1..(n - 1) : waiters'[j] = waiters[Old(j)]
    <3>1. /\ waiters' \in Seq(Ops) /\ Len(waiters') = n - 1
          /\ \A j \in 1..(n - 1) : waiters'[j] = IF j < k THEN waiters[j] ELSE waiters[j + 1]
      BY <1>1, <2>1, RemoveAtProperties
    <3> QED BY <3>1
  <2> SUFFICES ASSUME NEW i \in 1..(n - 1), NEW j \in 1..(n - 1),
                      pc'[waiters'[i]] = "granted", pc'[waiters'[j]] = "queued"
               PROVE  i < j
    BY <2>2 DEF GrantedFirst
  <2>3. Old(i) \in 1..n /\ Old(j) \in 1..n
    BY <1>1, <2>1
  <2>4. waiters[Old(i)] # o /\ waiters[Old(j)] # o
    BY <1>4, <2>2
  <2>5. pc'[waiters[Old(i)]] = "granted" /\ pc'[waiters[Old(j)]] = "queued"
    BY <2>2
  <2> HIDE DEF Old
  <2>6. Old(i) < Old(j)
    BY <1>1, <2>3, <2>4, <2>5, WakesInOrder
  <2> QED BY <1>1, <2>1, <2>6 DEF Old
<1> QED BY <1>2, <1>3, <1>4 DEF Goes

\* The waiter granted the permit is ahead of those asleep, in every state.
LEMMA OrderInvariant == Spec => []OrderInv
<1>1. Init /\ QueueInv => OrderInv
  BY EmptySeq DEF Init, OrderInv, GrantedFirst
<1>2. OrderInv /\ QueueInv' /\ [Next]_vars => OrderInv'
  <2> SUFFICES ASSUME OrderInv, [Next]_vars PROVE GrantedFirst'
    BY DEF OrderInv
  <2>1. CASE UNCHANGED <<pc, waiters>>
    BY <2>1 DEF OrderInv, GrantedFirst
  <2>2. CASE Next
    BY <2>1, <2>2, StepsInOrder, GrantedFirstStep DEF OrderInv
  <2> QED BY <2>1, <2>2 DEF vars
<1> QED BY <1>1, <1>2, QueueInvariant, PTL DEF Spec, Safety

\* First come, first served (asyncio.Semaphore): nobody, a retry of the holder included,
\* starts connecting ahead of a live waiter that was there before.
THEOREM NobodyOvertakes == Spec => NoOvertaking
<1> DEFINE Ahead == \A o, w \in Ops : Enters(o) /\ pc[w] = "queued" =>
                       \E i, j \in DOMAIN waiters : waiters[i] = o /\ waiters[j] = w /\ i < j
<1>1. ASSUME OrderInv, Next PROVE Ahead
  <2>1. CASE UNCHANGED <<pc, waiters>>
    BY <2>1 DEF Enters
  <2>2. ASSUME NEW p \in Ops, Wakes(p), Goes(p) PROVE Ahead
    <3> SUFFICES ASSUME NEW o \in Ops, NEW w \in Ops, Enters(o), pc[w] = "queued"
                 PROVE  \E i, j \in DOMAIN waiters : waiters[i] = o /\ waiters[j] = w /\ i < j
      OBVIOUS
    <3>1. o = p
      BY <2>2 DEF Enters, Wakes
    <3>2. pc[o] = "granted"
      BY <2>2, <3>1 DEF Goes
    <3>3. (\E i \in DOMAIN waiters : waiters[i] = o) /\ (\E j \in DOMAIN waiters : waiters[j] = w)
      BY <1>1, <3>2 DEF OrderInv, QueueInv, QueueMatchesTasks, Waiting
    <3> QED BY <1>1, <3>2, <3>3 DEF OrderInv, GrantedFirst
  <2> QED BY <1>1, <2>1, <2>2, StepsInOrder DEF OrderInv
<1>2. ASSUME UNCHANGED vars PROVE Ahead
  BY <1>2 DEF vars, Enters
<1>3. OrderInv /\ [Next]_vars => [Ahead]_vars
  BY <1>1
<1> QED BY <1>3, OrderInvariant, PTL DEF Spec, Safety, NoOvertaking
=============================================================================
