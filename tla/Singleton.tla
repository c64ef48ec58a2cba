------------------------------ MODULE Singleton ------------------------------
(***************************************************************************)
(* Singleton<T>::GetInstance (framework/include/singleton.hpp), double-    *)
(* checked locking over an atomic pointer with relaxed loads and stores.   *)
(*                                                                         *)
(* What a thread knows is its view: the constructions and the stores that  *)
(* happen before what it does next.  A relaxed load may return the old     *)
(* value to a thread whose view lacks the store.  A release fence before   *)
(* the store attaches the view to it, an acquire fence after a load that   *)
(* returns the stored value takes that view over, and the mutex hands the  *)
(* view of the thread that unlocks to the next one.                        *)
(***************************************************************************)
EXTENDS Integers

CONSTANT Thread

VARIABLES at,          \* where a thread is in GetInstance
          tmp,         \* its tmp; instances are numbered, 0 is nullptr
          s_instance,
          s_mutex,     \* the thread that holds it, if any
          built,       \* the number of calls of new T()
          view,        \* what a thread knows
          fenced,      \* its view at its last release fence
          published,   \* the view attached to the value of s_instance
          loaded,      \* the view attached to the value a thread has loaded
          handed       \* the view of the last thread that unlocked s_mutex

vars == <<at, tmp, s_instance, s_mutex, built, view, fenced, published, loaded,
          handed>>

Construction(n) == <<"built", n>>
Store(n) == <<"stored", n>>

Init == /\ at = [t \in Thread |-> "out"]
        /\ tmp = [t \in Thread |-> 0]
        /\ s_instance = 0 /\ s_mutex = {} /\ built = 0
        /\ view = [t \in Thread |-> {}]
        /\ fenced = [t \in Thread |-> {}]
        /\ published = {}
        /\ loaded = [t \in Thread |-> {}]
        /\ handed = {}

Goes(t, from, to) == at[t] = from /\ at' = [at EXCEPT ![t] = to]

Call(t) == /\ Goes(t, "out", "load")
           /\ UNCHANGED <<tmp, s_instance, s_mutex, built, view, fenced,
                          published, loaded, handed>>

Return(t) == /\ Goes(t, "returned", "out")
             /\ UNCHANGED <<tmp, s_instance, s_mutex, built, view, fenced,
                            published, loaded, handed>>

\* A relaxed load of s_instance.
LoadRelaxed(t) ==
  /\ \/ /\ tmp' = [tmp EXCEPT ![t] = s_instance]
        /\ loaded' = [loaded EXCEPT ![t] = published]
        /\ view' = [view EXCEPT ![t] = @ \cup {Store(s_instance)}]
     \/ /\ Store(s_instance) \notin view[t]
        /\ tmp' = [tmp EXCEPT ![t] = 0]
        /\ loaded' = [loaded EXCEPT ![t] = {}]
        /\ UNCHANGED view
  /\ UNCHANGED <<s_instance, s_mutex, built, fenced, published, handed>>

Load(t) == Goes(t, "load", "acquire") /\ LoadRelaxed(t)

\* Faulty variant of Acquire: the fence is missing.
AcquireNot(t) ==
  /\ Goes(t, "acquire", IF tmp[t] = 0 THEN "lock" ELSE "returned")
  /\ UNCHANGED <<tmp, s_instance, s_mutex, built, view, fenced, published,
                 loaded, handed>>

\* The acquire fence and the first check.
Acquire(t) ==
  /\ Goes(t, "acquire", IF tmp[t] = 0 THEN "lock" ELSE "returned")
  /\ view' = [view EXCEPT ![t] = @ \cup loaded[t]]
  /\ UNCHANGED <<tmp, s_instance, s_mutex, built, fenced, published, loaded,
                 handed>>

\* Faulty variant of Lock: the lock is not there.
LockNot(t) == /\ Goes(t, "lock", "reload")
              /\ s_mutex' = s_mutex \cup {t}
              /\ view' = [view EXCEPT ![t] = @ \cup handed]
              /\ UNCHANGED <<tmp, s_instance, built, fenced, published, loaded,
                             handed>>

Lock(t) == /\ Goes(t, "lock", "reload")
           /\ s_mutex = {} /\ s_mutex' = {t}
           /\ view' = [view EXCEPT ![t] = @ \cup handed]
           /\ UNCHANGED <<tmp, s_instance, built, fenced, published, loaded,
                          handed>>

Reload(t) == Goes(t, "reload", "check") /\ LoadRelaxed(t)

\* Faulty variant of Check: who has the lock builds.
CheckNot(t) == /\ Goes(t, "check", "build")
               /\ UNCHANGED <<tmp, s_instance, s_mutex, built, view, fenced,
                              published, loaded, handed>>

Check(t) == /\ Goes(t, "check", IF tmp[t] = 0 THEN "build" ELSE "unlock")
            /\ UNCHANGED <<tmp, s_instance, s_mutex, built, view, fenced,
                           published, loaded, handed>>

Build(t) == /\ Goes(t, "build", "release")
            /\ built' = built + 1
            /\ tmp' = [tmp EXCEPT ![t] = built']
            /\ view' = [view EXCEPT ![t] = @ \cup {Construction(built')}]
            /\ UNCHANGED <<s_instance, s_mutex, fenced, published, loaded, handed>>

Release(t) == /\ Goes(t, "release", "store")
              /\ fenced' = [fenced EXCEPT ![t] = view[t]]
              /\ UNCHANGED <<tmp, s_instance, s_mutex, built, view, published,
                             loaded, handed>>

Publish(t) == /\ Goes(t, "store", "unlock")
              /\ s_instance' = tmp[t]
              /\ published' = fenced[t]
              /\ view' = [view EXCEPT ![t] = @ \cup {Store(tmp[t])}]
              /\ UNCHANGED <<tmp, s_mutex, built, fenced, loaded, handed>>

Unlock(t) == /\ Goes(t, "unlock", "returned")
             /\ s_mutex' = {} /\ handed' = view[t]
             /\ UNCHANGED <<tmp, s_instance, built, view, fenced, published,
                            loaded>>

\* The steps of GetInstance.
GetInstance(t) == \/ Load(t) \/ Acquire(t)
                  \/ Lock(t) \/ Reload(t) \/ Check(t)
                  \/ Build(t) \/ Release(t) \/ Publish(t) \/ Unlock(t)

Next == \E t \in Thread : Call(t) \/ GetInstance(t) \/ Return(t)

Spec == Init /\ [][Next]_vars

-----------------------------------------------------------------------------
\* The types of the state.
TypeOK == /\ at \in [Thread -> {"out", "load", "acquire", "lock", "reload",
                                "check", "build", "release", "store", "unlock",
                                "returned"}]
          /\ built \in Nat
          /\ tmp \in [Thread -> 0..built] /\ s_instance \in 0..built
          /\ s_mutex \in {{}} \cup {{t} : t \in Thread}

\* However many threads find no instance, one builds it.
OneInstance == built <= 1

(***************************************************************************)
(* Who gets the instance gets it built: its construction happens before    *)
(* the return, on every path, although no load is ordered by itself.       *)
(***************************************************************************)
InstanceBuilt ==
  \A t \in Thread : at[t] = "returned" =>
    tmp[t] # 0 /\ Construction(tmp[t]) \in view[t]
=============================================================================
