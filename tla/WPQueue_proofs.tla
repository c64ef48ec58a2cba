---------------------------- MODULE WPQueue_proofs ----------------------------
(***************************************************************************)
(* For every finite set of threads and every set of elements: WPQueue is   *)
(* type correct, and its Push never loses a wakeup.                        *)
(***************************************************************************)
EXTENDS WPQueue, FiniteSetTheorems, TLAPS

(***************************************************************************)
(* The variables of WPQueue (framework/include/waitable_pq.hpp:28) stay in *)
(* their types, and the queue stays finite.                                *)
(***************************************************************************)
THEOREM TypeCorrect == Spec => []TypeOK
<1>1. Init => TypeOK
  BY FS_EmptySet DEF Init, TypeOK
<1>2. TypeOK /\ [Next]_vars => TypeOK'
  <2> SUFFICES ASSUME TypeOK, [Next]_vars PROVE TypeOK'
    OBVIOUS
  <2> USE DEF TypeOK
  <2>1. ASSUME NEW e \in Elem, Push(e) PROVE TypeOK'
    <3>1. IsFiniteSet(m_queue')
      BY <2>1, FS_AddElement DEF Push
    <3>2. at' \in [Thread -> {"out", "ready", "waiting"}]
      BY <2>1 DEF Push, NotifyOne, Waiting
    <3> QED BY <2>1, <3>1, <3>2 DEF Push
  <2>2. ASSUME NEW t \in Thread, PopCall(t) PROVE TypeOK'
    BY <2>2 DEF PopCall
  <2>3. ASSUME NEW t \in Thread, PopWait(t) PROVE TypeOK'
    BY <2>3 DEF PopWait
  <2>4. ASSUME NEW t \in Thread, PopTake(t) PROVE TypeOK'
    <3>1. PICK e \in Top : m_queue' = m_queue \ {e}
      BY <2>4 DEF PopTake
    <3>2. IsFiniteSet(m_queue')
      BY <3>1, FS_RemoveElement
    <3> QED BY <2>4, <3>1, <3>2 DEF PopTake
  <2>5. ASSUME NEW t \in Thread, SpuriousWake(t) PROVE TypeOK'
    BY <2>5 DEF SpuriousWake
  <2>6. CASE UNCHANGED vars
    BY <2>6 DEF vars
  <2> QED BY <2>1, <2>2, <2>3, <2>4, <2>5, <2>6 DEF Next
<1> QED BY <1>1, <1>2, PTL DEF Spec

-----------------------------------------------------------------------------
\* Ready is finite, because there are finitely many threads.
LEMMA ReadyFinite == ASSUME TypeOK PROVE IsFiniteSet(Ready)
BY FS_Subset, WPQueueAssumption DEF Ready

\* A thread that becomes ready adds one to the ready threads.
LEMMA ReadyJoins ==
  ASSUME TypeOK, NEW t \in Thread, at[t] # "ready",
         at' = [at EXCEPT ![t] = "ready"]
  PROVE  Cardinality(Ready') = Cardinality(Ready) + 1
<1>1. Ready' = Ready \cup {t} /\ t \notin Ready
  BY DEF Ready, TypeOK
<1> QED BY <1>1, ReadyFinite, FS_AddElement

\* A thread that stops being ready takes one from them.
LEMMA ReadyLeaves ==
  ASSUME TypeOK, NEW t \in Thread, NEW where, at[t] = "ready",
         where # "ready", at' = [at EXCEPT ![t] = where]
  PROVE  Cardinality(Ready') = Cardinality(Ready) - 1
<1>1. Ready' = Ready \ {t} /\ t \in Ready
  BY DEF Ready, TypeOK
<1> QED BY <1>1, ReadyFinite, FS_RemoveElement

(***************************************************************************)
(* While a thread is blocked on m_cv, each element of the queue has a      *)
(* thread that is awake to take it (waitable_pq.hpp:50 and :66).           *)
(***************************************************************************)
THEOREM WakeupsSuffice == Spec => []NoLostWakeup
<1>1. Init => NoLostWakeup
  BY FS_EmptySet DEF Init, NoLostWakeup, Waiting
<1>2. TypeOK /\ NoLostWakeup /\ [Next]_vars => NoLostWakeup'
  <2> SUFFICES ASSUME TypeOK, NoLostWakeup, [Next]_vars,
                      Waiting' # {}
               PROVE  Cardinality(m_queue') <= Cardinality(Ready')
    BY DEF NoLostWakeup
  <2>1. /\ Cardinality(m_queue) \in Nat
        /\ Cardinality(Ready) \in Nat
    BY ReadyFinite, FS_CardinalityType DEF TypeOK
  <2>2. ASSUME NEW e \in Elem, Push(e)
        PROVE  Cardinality(m_queue') <= Cardinality(Ready')
    <3>1. Cardinality(m_queue') = Cardinality(m_queue) + 1
      BY <2>2, FS_AddElement DEF Push, TypeOK
    <3>2. PICK t \in Waiting : at' = [at EXCEPT ![t] = "ready"]
      BY <2>2 DEF Push, NotifyOne, Waiting
    <3>3. Cardinality(Ready') = Cardinality(Ready) + 1
      BY <3>2, ReadyJoins DEF Waiting
    <3>4. Cardinality(m_queue) <= Cardinality(Ready)
      BY <3>2 DEF NoLostWakeup
    <3> QED BY <2>1, <3>1, <3>3, <3>4
  <2>3. ASSUME NEW t \in Thread, PopCall(t)
        PROVE  Cardinality(m_queue') <= Cardinality(Ready')
    <3>1. Cardinality(Ready') = Cardinality(Ready) + 1
      BY <2>3, ReadyJoins DEF PopCall
    <3>2. Waiting # {}
      BY <2>3 DEF PopCall, Waiting, TypeOK
    <3> QED BY <2>1, <2>3, <3>1, <3>2 DEF PopCall, NoLostWakeup
  <2>4. ASSUME NEW t \in Thread, PopWait(t)
        PROVE  Cardinality(m_queue') <= Cardinality(Ready')
    <3>1. Cardinality(Ready') = Cardinality(Ready) - 1
      BY <2>4, ReadyLeaves DEF PopWait
    <3>2. t \in Ready
      BY <2>4 DEF PopWait, Ready
    <3>3. Cardinality(Ready) # 0
      BY <3>2, ReadyFinite, FS_EmptySet
    <3>4. Cardinality(m_queue') = 0
      BY <2>4, FS_EmptySet DEF PopWait
    <3> QED BY <2>1, <3>1, <3>3, <3>4
  <2>5. ASSUME NEW t \in Thread, PopTake(t)
        PROVE  Cardinality(m_queue') <= Cardinality(Ready')
    <3>1. PICK e \in m_queue : m_queue' = m_queue \ {e}
      BY <2>5 DEF PopTake, Top
    <3>2. Cardinality(m_queue') = Cardinality(m_queue) - 1
      BY <3>1, FS_RemoveElement DEF TypeOK
    <3>3. Cardinality(Ready') = Cardinality(Ready) - 1
      BY <2>5, ReadyLeaves DEF PopTake
    <3>4. Waiting # {}
      BY <2>5 DEF PopTake, Waiting, TypeOK
    <3> QED BY <2>1, <3>2, <3>3, <3>4 DEF NoLostWakeup
  <2>6. ASSUME NEW t \in Thread, SpuriousWake(t)
        PROVE  Cardinality(m_queue') <= Cardinality(Ready')
    <3>1. Cardinality(Ready') = Cardinality(Ready) + 1
      BY <2>6, ReadyJoins DEF SpuriousWake
    <3>2. Waiting # {}
      BY <2>6 DEF SpuriousWake, Waiting
    <3> QED BY <2>1, <2>6, <3>1, <3>2 DEF SpuriousWake, NoLostWakeup
  <2>7. CASE UNCHANGED vars
    BY <2>7 DEF vars, Waiting, Ready, NoLostWakeup
  <2> QED BY <2>2, <2>3, <2>4, <2>5, <2>6, <2>7 DEF Next
<1> QED BY <1>1, <1>2, TypeCorrect, PTL DEF Spec
=============================================================================
