------------------------------- MODULE WPQueue -------------------------------
(***************************************************************************)
(* WPQueue<T, Container, Compare> of framework/include/waitable_pq.hpp: a  *)
(* std::priority_queue behind one mutex, with a condition variable on      *)
(* which Pop blocks while the queue is empty.                              *)
(*                                                                         *)
(* Push, and the part of Pop on each side of the wait, hold m_mutex from   *)
(* beginning to end, and condition_variable_any::wait releases it and      *)
(* blocks in one step, so each is one action.  std::priority_queue is not  *)
(* stable: top() may be any of the elements of the highest priority.       *)
(***************************************************************************)
EXTENDS Integers, FiniteSets

CONSTANTS Thread,   \* the threads that call Pop
          Elem,     \* the elements: pointers to distinct objects
          Prio(_)   \* the order that Compare gives the elements

ASSUME WPQueueAssumption == /\ IsFiniteSet(Thread)
                            /\ \A e \in Elem : Prio(e) \in Int

VARIABLES m_queue,  \* the elements in the queue
          at        \* where each thread stands with respect to Pop

vars == <<m_queue, at>>

(***************************************************************************)
(* A thread is "out" of Pop, "ready" to evaluate the predicate of the wait *)
(* (it has called Pop, or m_cv has woken it), or "waiting" on m_cv.        *)
(***************************************************************************)
Ready   == {t \in Thread : at[t] = "ready"}
Waiting == {t \in Thread : at[t] = "waiting"}

Init == /\ m_queue = {}
        /\ at = [t \in Thread |-> "out"]

\* m_cv.notify_one(): one of the threads blocked on m_cv, if there is any.
NotifyOne == \/ Waiting = {} /\ UNCHANGED at
             \/ \E t \in Waiting : at' = [at EXCEPT ![t] = "ready"]

\* Faulty variants of Push: line 66 deleted; the moved-from pointer pushed.
PushSilently(e) == /\ e \notin m_queue
                   /\ m_queue' = m_queue \cup {e}
                   /\ UNCHANGED at

PushNull(e) == m_queue' = m_queue \cup {<<>>} /\ NotifyOne

Push(e) == /\ e \notin m_queue
           /\ m_queue' = m_queue \cup {e}
           /\ NotifyOne

PopCall(t) == /\ at[t] = "out"
              /\ at' = [at EXCEPT ![t] = "ready"]
              /\ UNCHANGED m_queue

\* The predicate is false: the thread releases m_mutex and blocks.
PopWait(t) == /\ at[t] = "ready"
              /\ m_queue = {}
              /\ at' = [at EXCEPT ![t] = "waiting"]
              /\ UNCHANGED m_queue

Top == {e \in m_queue : \A f \in m_queue : Prio(f) <= Prio(e)}

PopTake(t) == /\ at[t] = "ready"
              /\ \E e \in Top : m_queue' = m_queue \ {e}
              /\ at' = [at EXCEPT ![t] = "out"]

\* condition_variable_any::wait may return although nobody notified.
SpuriousWake(t) == /\ at[t] = "waiting"
                   /\ at' = [at EXCEPT ![t] = "ready"]
                   /\ UNCHANGED m_queue

Next == \/ \E e \in Elem : Push(e)
        \/ \E t \in Thread : \/ PopCall(t) \/ PopWait(t)
                             \/ PopTake(t) \/ SpuriousWake(t)

Spec == Init /\ [][Next]_vars

-----------------------------------------------------------------------------
\* The state is what the declarations of WPQueue's members allow.
TypeOK == /\ m_queue \subseteq Elem
          /\ IsFiniteSet(m_queue)
          /\ at \in [Thread -> {"out", "ready", "waiting"}]

(***************************************************************************)
(* No wakeup is lost (Push notifies one waiter only, line 66): as long as  *)
(* a thread is blocked on m_cv, every element in the queue has a thread of *)
(* its own that is awake and on its way to take it.                        *)
(***************************************************************************)
NoLostWakeup == Waiting # {} => Cardinality(m_queue) <= Cardinality(Ready)
=============================================================================
