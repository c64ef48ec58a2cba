--------------------------- MODULE ThreadPool_proofs ---------------------------
(***************************************************************************)
(* For any number of threads, tasks and calls: ThreadPool is type correct, *)
(* Stop pushes enough StopTasks for every thread to end, and after the     *)
(* last of them no client's task starts; each task is executed once; the   *)
(* pool implements WPQueue, and no worker sleeps on while a task waits.    *)
(***************************************************************************)
EXTENDS ThreadPool, FiniteSetTheorems, TLAPS

(***************************************************************************)
(* What SetSize is about to emplace fits: the bound that Grow checks once  *)
(* still holds at each iteration of its two loops.                         *)
(***************************************************************************)
GrowFits ==
  /\ ctl = "grow" => /\ target > m_pool_size
                     /\ m_pool + (target - m_pool_size) <= MaxThreads
  /\ ctl = "emplace" => m_pool + left <= MaxThreads

TypeInv == TypeOK /\ GrowFits  \* inductive, unlike TypeOK alone

\* The constructor's threads are the first ones.
LEMMA TypeInit == Init => TypeInv
<1> SUFFICES ASSUME Init PROVE TypeInv
  OBVIOUS
<1>1. /\ pc \in [Thread -> Where]
      /\ \A t \in Thread : pc[t] = "none" <=> t > m_pool
  BY ThreadPoolAssumption DEF Init, Where, Thread
<1>2. m_in_pause \in BOOLEAN /\ task \in [Thread -> SUBSET Task]
  BY DEF Init
<1> QED
  BY <1>1, <1>2, ThreadPoolAssumption DEF Init, TypeInv, TypeOK, GrowFits

\* A notify_one moves at most one thread between two of the states in Where.
LEMMA NotifyOneType ==
  ASSUME TypeOK, NEW from, NEW to \in Where \ {"none"},
         from # "none", NotifyOne(from, to)
  PROVE  /\ pc' \in [Thread -> Where]
         /\ \A t \in Thread : pc'[t] = "none" <=> pc[t] = "none"
BY DEF NotifyOne, Blocked, TypeOK

\* The steps of the workers keep the types.
LEMMA WorkerType ==
  ASSUME TypeInv, NEW t \in Thread,
         Worker(t) \/ SpuriousWake(t) \/ SpuriousResume(t)
  PROVE  TypeInv'
<1> USE DEF TypeInv, TypeOK, GrowFits, Where, queueVars, poolVars, ctlVars
<1>1. CASE Start(t) BY <1>1 DEF Start
<1>2. CASE PopWait(t) BY <1>2 DEF PopWait
<1>3. CASE PopClient(t) BY <1>3 DEF PopClient, Top
<1>4. CASE RunReturns(t) BY <1>4 DEF RunReturns
<1>5. CASE RunThrows(t) BY <1>5 DEF RunThrows
<1>6. CASE PopStop(t) BY <1>6 DEF PopStop
<1>7. CASE PopPause(t) BY <1>7 DEF PopPause
<1>8. CASE CheckPause(t) BY <1>8 DEF CheckPause
<1>9. CASE BlockPause(t) BY <1>9 DEF BlockPause
<1>10. CASE SpuriousWake(t) BY <1>10 DEF SpuriousWake
<1>11. CASE SpuriousResume(t) BY <1>11 DEF SpuriousResume
<1> QED
  BY <1>1, <1>2, <1>3, <1>4, <1>5, <1>6, <1>7, <1>8, <1>9, <1>10, <1>11
  DEF Worker

\* AddTask keeps the types.
LEMMA AddTaskType == ASSUME TypeInv, NEW k \in Task, AddTask(k) PROVE TypeInv'
<1>1. /\ pc' \in [Thread -> Where]
      /\ \A t \in Thread : pc'[t] = "none" <=> pc[t] = "none"
  BY NotifyOneType DEF AddTask, WakePopper, TypeInv, Where
<1> QED
  BY <1>1 DEF AddTask, TypeInv, TypeOK, GrowFits, poolVars, ctlVars

\* The calls of the client's operations keep the types.
LEMMA CallsType == ASSUME TypeInv, Calls PROVE TypeInv'
<1> USE ThreadPoolAssumption
    DEF TypeInv, TypeOK, GrowFits, Call, Goto, queueVars, poolVars
<1>1. CASE PauseCall BY <1>1 DEF PauseCall
<1>2. CASE ResumeCall
  <2>1. m_in_pause' \in BOOLEAN
    BY <1>2 DEF ResumeCall
  <2> QED BY <1>2, <2>1 DEF ResumeCall
<1>3. CASE StopCall BY <1>3 DEF StopCall
<1>4. CASE StopTimed BY <1>4 DEF StopTimed
<1>5. ASSUME NEW n \in 0..MaxThreads, Shrink(n) PROVE TypeInv'
  BY <1>5 DEF Shrink
<1>6. ASSUME NEW n \in 0..MaxThreads, Grow(n) PROVE TypeInv'
  BY <1>6 DEF Grow
<1> QED BY <1>1, <1>2, <1>3, <1>4, <1>5, <1>6 DEF Calls

\* The other steps of the client's operations keep the types.
LEMMA ClientType == ASSUME TypeInv, Client PROVE TypeInv'
<1> USE ThreadPoolAssumption
    DEF TypeInv, TypeOK, GrowFits, Goto, queueVars, poolVars
<1>1. ASSUME NEW op \in {"pause", "shrink", "grow"}, PushPause(op)
      PROVE  TypeInv'
  <2>1. /\ pc' \in [Thread -> Where]
        /\ \A t \in Thread : pc'[t] = "none" <=> pc[t] = "none"
    BY <1>1, NotifyOneType DEF PushPause, WakePopper, Where
  <2> QED BY <1>1, <2>1 DEF PushPause
<1>2. CASE PauseReturn BY <1>2 DEF PauseReturn
<1>3. CASE GrowPushed BY <1>3 DEF GrowPushed
<1>4. CASE Emplace
  <2>1. /\ m_pool + 1 \in Thread
        /\ m_pool' = m_pool + 1
        /\ pc' = [pc EXCEPT ![m_pool + 1] = "start"]
    BY <1>4 DEF Emplace, Thread
  <2>2. pc' \in [Thread -> Where]
    BY <2>1 DEF Where
  <2>3. \A t \in Thread : pc'[t] = "none" <=> t > m_pool'
    BY <2>1 DEF Thread
  <2> QED BY <1>4, <2>1, <2>2, <2>3 DEF Emplace, Thread
<1>5. CASE SetSizeReturn BY <1>5 DEF SetSizeReturn
<1>6. CASE ResumeNotify
  <2>1. /\ pc' \in [Thread -> Where]
        /\ \A t \in Thread : pc'[t] = "none" <=> pc[t] = "none"
    BY <1>6, NotifyOneType DEF ResumeNotify, WakePaused, Where
  <2> QED BY <1>6, <2>1 DEF ResumeNotify
<1>7. CASE ResumeReturn BY <1>7 DEF ResumeReturn
<1>8. CASE StopPush
  <2>1. /\ pc' \in [Thread -> Where]
        /\ \A t \in Thread : pc'[t] = "none" <=> pc[t] = "none"
    BY <1>8, NotifyOneType DEF StopPush, WakePopper, Where
  <2> QED BY <1>8, <2>1 DEF StopPush
<1>9. CASE StopResume BY <1>9 DEF StopResume
<1>10. CASE StopJoin BY <1>10 DEF StopJoin
<1>11. CASE Join BY <1>11 DEF Join
<1>12. CASE StopReturn BY <1>12 DEF StopReturn
<1> QED
  BY <1>1, <1>2, <1>3, <1>4, <1>5, <1>6, <1>7, <1>8, <1>9, <1>10, <1>11, <1>12
  DEF Client

\* Every step keeps the types.
LEMMA TypeStep == TypeInv /\ [Next]_vars => TypeInv'
<1> SUFFICES ASSUME TypeInv, [Next]_vars PROVE TypeInv'
  OBVIOUS
<1>1. CASE UNCHANGED vars
  BY <1>1 DEF vars, queueVars, poolVars, ctlVars, TypeInv, TypeOK, GrowFits
<1> QED BY <1>1, CallsType, ClientType, AddTaskType, WorkerType DEF Next

(***************************************************************************)
(* The members of ThreadPool stay in their types, and no thread is created *)
(* beyond m_pool (thread_pool.cpp:123-126).                                *)
(***************************************************************************)
THEOREM TypeCorrect == Spec => []TypeOK
<1>1. Spec => []TypeInv
  BY TypeInit, TypeStep, PTL DEF Spec
<1> QED BY <1>1, PTL DEF TypeInv

-----------------------------------------------------------------------------
\* At most m_pool threads have begun and not ended.
LEMMA LiveBound ==
  ASSUME TypeInv
  PROVE  /\ IsFiniteSet(Live)
         /\ Cardinality(Live) \in Nat
         /\ Cardinality(Live) <= m_pool
<1>1. m_pool \in Nat /\ Live \subseteq 1..m_pool
  BY ThreadPoolAssumption DEF TypeInv, TypeOK, Live, Thread
<1>2. IsFiniteSet(1..m_pool) /\ Cardinality(1..m_pool) = m_pool
  BY <1>1, FS_Interval
<1> QED BY <1>1, <1>2, FS_Subset, FS_CardinalityType

\* A thread that ends leaves one thread less that has not.
LEMMA LiveLeaves ==
  ASSUME TypeInv, NEW t \in Live, pc' = [pc EXCEPT ![t] = "exit"]
  PROVE  Cardinality(Live') = Cardinality(Live) - 1
<1>1. Live' = Live \ {t}
  BY DEF Live, TypeInv, TypeOK
<1> QED BY <1>1, LiveBound, FS_RemoveElement

\* A notify_one ends no thread.
LEMMA NotifyKeepsLive ==
  ASSUME TypeInv, NEW from, NEW to \in Where \ {"none", "exit"},
         from \notin {"none", "exit"}, NotifyOne(from, to)
  PROVE  Live' = Live
BY DEF NotifyOne, Blocked, Live, TypeInv, TypeOK

\* A worker that ends took a StopTask, or leaves one to spare.
LEMMA WorkerKeepsStops ==
  ASSUME TypeInv, StopTasksSuffice, NEW t \in Thread,
         Worker(t) \/ SpuriousWake(t) \/ SpuriousResume(t)
  PROVE  StopTasksSuffice'
<1>1. left \in Int /\ stopQ \in Nat /\ Cardinality(Live) \in Nat
  BY LiveBound, ThreadPoolAssumption DEF TypeInv, TypeOK
<1>2. CASE RunThrows(t)
  <2>1. Cardinality(Live') = Cardinality(Live) - 1
    BY <1>2, LiveLeaves DEF RunThrows, Live
  <2> QED
    BY <1>1, <1>2, <2>1
    DEF RunThrows, StopTasksSuffice, queueVars, ctlVars
<1>3. CASE PopStop(t)
  <2>1. Cardinality(Live') = Cardinality(Live) - 1
    BY <1>3, LiveLeaves DEF PopStop, Live
  <2> QED BY <1>1, <1>3, <2>1 DEF PopStop, StopTasksSuffice, ctlVars
<1>4. CASE ~RunThrows(t) /\ ~PopStop(t)
  <2>1. \E where \in Where \ {"none", "exit"} :
           /\ pc[t] \in Where \ {"none", "exit"}
           /\ pc' = [pc EXCEPT ![t] = where]
    BY <1>4 DEF Worker, Start, PopWait, PopClient, RunReturns, PopPause,
                CheckPause, BlockPause, SpuriousWake, SpuriousResume, Where
  <2>2. Live' = Live
    BY <2>1 DEF Live, TypeInv, TypeOK
  <2>3. UNCHANGED <<stopQ, ctl, left>>
    BY <1>4 DEF Worker, Start, PopWait, PopClient, RunReturns, PopPause,
                CheckPause, BlockPause, SpuriousWake, SpuriousResume,
                queueVars, ctlVars
  <2> QED BY <2>2, <2>3 DEF StopTasksSuffice
<1> QED BY <1>2, <1>3, <1>4

\* Stop's loop exchanges an iteration for a StopTask.
LEMMA ClientKeepsStops ==
  ASSUME TypeInv, StopTasksSuffice, Client PROVE StopTasksSuffice'
<1>1. left \in Int /\ stopQ \in Nat /\ Cardinality(Live) \in Nat
  BY LiveBound, ThreadPoolAssumption DEF TypeInv, TypeOK
<1>2. CASE ResumeNotify
  <2>1. Live' = Live
    BY <1>2, NotifyKeepsLive DEF ResumeNotify, WakePaused, Where
  <2> QED BY <1>2, <2>1 DEF ResumeNotify, StopTasksSuffice, queueVars
<1>3. CASE StopPush
  <2>1. Live' = Live
    BY <1>3, NotifyKeepsLive DEF StopPush, WakePopper, Where
  <2> QED BY <1>1, <1>3, <2>1 DEF StopPush, StopTasksSuffice
<1>4. CASE StopResume \/ StopJoin \/ Join \/ StopReturn
  <2>1. UNCHANGED <<pc, stopQ>>
    BY <1>4 DEF StopResume, StopJoin, Join, StopReturn, queueVars
  <2>2. Live' = Live
    BY <2>1 DEF Live
  <2> QED
    BY <1>1, <1>4, <2>1, <2>2
    DEF StopResume, StopJoin, Join, StopReturn, Goto, StopTasksSuffice
<1>5. CASE ~(ResumeNotify \/ StopPush \/ StopResume \/ StopJoin \/ Join
             \/ StopReturn)
  <2>1. ctl' \notin {"stop", "stopResume", "join", "stopped"}
    BY <1>5 DEF Client, PushPause, PauseReturn, GrowPushed, Emplace,
                SetSizeReturn, ResumeReturn, Goto
  <2> QED BY <2>1 DEF StopTasksSuffice
<1> QED BY <1>2, <1>3, <1>4, <1>5

\* Stop is called with an iteration for each thread of m_pool.
LEMMA CallsKeepStops ==
  ASSUME TypeInv, Calls PROVE StopTasksSuffice'
<1>1. CASE StopCall
  <2>1. Live' = Live
    BY <1>1 DEF StopCall, Live
  <2>2. stopQ' \in Nat /\ ctl' = "stop" /\ left' = m_pool
    BY <1>1 DEF StopCall, Goto, queueVars, TypeInv, TypeOK
  <2>3. m_pool \in Nat
    BY ThreadPoolAssumption DEF TypeInv, TypeOK
  <2> QED BY <2>1, <2>2, <2>3, LiveBound DEF StopTasksSuffice
<1>2. CASE ~StopCall
  <2>1. ctl' \notin {"stop", "stopResume", "join", "stopped"}
    BY <1>2 DEF Calls, PauseCall, ResumeCall, StopTimed, Shrink, Grow, Goto
  <2> QED BY <2>1 DEF StopTasksSuffice
<1> QED BY <1>1, <1>2

\* Every step keeps enough StopTasks.
LEMMA StopsStep ==
  TypeInv /\ StopTasksSuffice /\ [Next]_vars => StopTasksSuffice'
<1> SUFFICES ASSUME TypeInv, StopTasksSuffice, [Next]_vars
             PROVE  StopTasksSuffice'
  OBVIOUS
<1>1. ASSUME NEW k \in Task, AddTask(k) PROVE StopTasksSuffice'
  <2>1. Live' = Live
    BY <1>1, NotifyKeepsLive DEF AddTask, WakePopper, Where
  <2> QED BY <1>1, <2>1 DEF AddTask, StopTasksSuffice, ctlVars
<1>2. CASE UNCHANGED vars
  BY <1>2 DEF vars, queueVars, ctlVars, StopTasksSuffice, Live
<1> QED
  BY <1>1, <1>2, CallsKeepStops, ClientKeepsStops, WorkerKeepsStops DEF Next

(***************************************************************************)
(* Stop pushes a StopTask for every thread that still runs, whatever       *)
(* SetSize, Pause and throwing tasks did before (thread_pool.cpp:146).     *)
(***************************************************************************)
THEOREM StopsSuffice == Spec => []StopTasksSuffice
<1>1. Init => StopTasksSuffice
  BY DEF Init, StopTasksSuffice
<1>2. Spec => []TypeInv
  BY TypeInit, TypeStep, PTL DEF Spec
<1> QED BY <1>1, <1>2, StopsStep, PTL DEF Spec

(***************************************************************************)
(* After its last push Stop lets no client's task start: while a thread    *)
(* can still pop, the queue holds a StopTask, whose priority is higher.    *)
(***************************************************************************)
THEOREM NothingStartsAfterStop == Spec => NoTaskStartsAfterStop
<1>1. ASSUME TypeInv, StopTasksSuffice, [Next]_vars,
             ctl \in {"stopResume", "join", "stopped"},
             NEW t \in Thread', pc'[t] = "run"
      PROVE  pc[t] = "run"
  <2>1. t \in Thread
    BY DEF Thread
  <2>2. ASSUME pc[t] = "pop" PROVE stopQ > 0
    <3>1. Live # {}
      BY <2>1, <2>2 DEF Live
    <3>2. Cardinality(Live) # 0
      BY <1>1, <3>1, LiveBound, FS_EmptySet
    <3> QED
      BY <1>1, <3>2, LiveBound DEF StopTasksSuffice, TypeInv, TypeOK
  <2>3. ASSUME NEW u \in Thread,
               Worker(u) \/ SpuriousWake(u) \/ SpuriousResume(u)
        PROVE  pc[t] = "run"
    <3>1. ~PopClient(t)
      BY <2>2 DEF PopClient, TypeInv, TypeOK
    <3> QED
      BY <1>1, <2>1, <2>3, <3>1
      DEF Worker, Start, PopWait, PopClient, RunReturns, RunThrows, PopStop,
          PopPause, CheckPause, BlockPause, SpuriousWake, SpuriousResume,
          TypeInv, TypeOK
  <2>4. ASSUME NEW from, NEW to \in Where \ {"run"}, NotifyOne(from, to)
        PROVE  pc[t] = "run"
    BY <1>1, <2>1, <2>4 DEF NotifyOne, Blocked, TypeInv, TypeOK
  <2>5. ASSUME NEW k \in Task, AddTask(k) PROVE pc[t] = "run"
    BY <2>4, <2>5 DEF AddTask, WakePopper, Where
  <2>6. CASE Client
    <3>1. CASE ResumeNotify
      BY <2>4, <3>1 DEF ResumeNotify, WakePaused, Where
    <3>2. CASE ~ResumeNotify
      <4>1. UNCHANGED pc
        BY <1>1, <2>6, <3>2
        DEF Client, PushPause, PauseReturn, GrowPushed, Emplace,
            SetSizeReturn, ResumeReturn, StopPush, StopResume, StopJoin,
            Join, StopReturn
      <4> QED BY <1>1, <4>1
    <3> QED BY <3>1, <3>2
  <2>7. CASE Calls
    BY <1>1, <2>7 DEF Calls, PauseCall, ResumeCall, StopCall, StopTimed,
                      Shrink, Grow, Call
  <2>8. CASE UNCHANGED vars
    BY <1>1, <2>8 DEF vars
  <2> QED BY <1>1, <2>3, <2>5, <2>6, <2>7, <2>8 DEF Next
<1>2. TypeInv /\ StopTasksSuffice /\ [Next]_vars =>
        [(ctl \in {"stopResume", "join", "stopped"}) =>
           \A t \in Thread : pc'[t] = "run" => pc[t] = "run"]_vars
  BY <1>1 DEF Thread
<1>3. Spec => []TypeInv
  BY TypeInit, TypeStep, PTL DEF Spec
<1> QED
  BY <1>2, <1>3, StopsSuffice, PTL DEF Spec, NoTaskStartsAfterStop

-----------------------------------------------------------------------------
\* The steps of a worker move its own task only.
LEMMA WorkerKeepsOnce ==
  ASSUME TypeInv, ExecutedOnce, NEW t \in Thread,
         Worker(t) \/ SpuriousWake(t) \/ SpuriousResume(t)
  PROVE  ExecutedOnce'
<1>1. CASE PopClient(t)
  <2>1. PICK k \in queued : /\ queued' = queued \ {k}
                            /\ task' = [task EXCEPT ![t] = {k}]
    BY <1>1 DEF PopClient, Top
  <2>2. \A u \in Thread : k \notin task[u]
    BY DEF ExecutedOnce
  <2> QED
    BY <1>1, <2>1, <2>2 DEF PopClient, ExecutedOnce, TypeInv, TypeOK, Thread
<1>2. CASE RunReturns(t) \/ RunThrows(t)
  <2>1. /\ queued' = queued
        /\ done' = done \cup task[t]
        /\ task' = [task EXCEPT ![t] = {}]
    BY <1>2 DEF RunReturns, RunThrows, queueVars
  <2> QED
    BY <2>1 DEF ExecutedOnce, TypeInv, TypeOK, Thread
<1>3. CASE ~PopClient(t) /\ ~RunReturns(t) /\ ~RunThrows(t)
  <2>1. UNCHANGED <<queued, task, done>>
    BY <1>3 DEF Worker, Start, PopWait, PopStop, PopPause, CheckPause,
                BlockPause, SpuriousWake, SpuriousResume, queueVars
  <2> QED
    BY <2>1 DEF ExecutedOnce, Thread
<1> QED
  BY <1>1, <1>2, <1>3

\* The client gives a task once, and its operations move none.
LEMMA ClientKeepsOnce ==
  ASSUME TypeInv, ExecutedOnce,
         Calls \/ Client \/ \E k \in Task : AddTask(k)
  PROVE  ExecutedOnce'
<1>1. ASSUME NEW k \in Task, AddTask(k) PROVE ExecutedOnce'
  <2>1. /\ queued' = queued \cup {k} /\ UNCHANGED <<task, done>>
        /\ k \notin done /\ \A t \in Thread : k \notin task[t]
    BY <1>1 DEF AddTask
  <2> QED
    BY <2>1 DEF ExecutedOnce, Thread
<1>2. CASE Calls
  <2>1. UNCHANGED <<queued, task, done>>
    BY <1>2 DEF Calls, PauseCall, ResumeCall, StopCall, StopTimed, Shrink, Grow,
                queueVars
  <2> QED
    BY <2>1 DEF ExecutedOnce, Thread
<1>3. CASE Client
  <2>1. UNCHANGED <<queued, task, done>>
    BY <1>3 DEF Client, PushPause, PauseReturn, GrowPushed, Emplace,
                SetSizeReturn, ResumeNotify, ResumeReturn, StopPush, StopResume,
                StopJoin, Join, StopReturn, queueVars
  <2> QED
    BY <2>1 DEF ExecutedOnce, Thread
<1> QED
  BY <1>1, <1>2, <1>3

(***************************************************************************)
(* However many workers pop and throw, no client's task is executed twice  *)
(* or by two of them (thread_pool.cpp:54-55).                              *)
(***************************************************************************)
THEOREM RunsOnce == Spec => []ExecutedOnce
<1>1. Init => ExecutedOnce
  BY DEF Init, ExecutedOnce
<1>2. TypeInv /\ ExecutedOnce /\ [Next]_vars => ExecutedOnce'
  <2>1. ASSUME ExecutedOnce, UNCHANGED vars PROVE ExecutedOnce'
    BY <2>1 DEF vars, queueVars, ExecutedOnce, Thread
  <2> QED
    BY <2>1, WorkerKeepsOnce, ClientKeepsOnce DEF Next
<1>3. Spec => []TypeInv
  BY TypeInit, TypeStep, PTL DEF Spec
<1> QED
  BY <1>1, <1>2, <1>3, PTL DEF Spec

-----------------------------------------------------------------------------
(* m_tasks is a WPQueue.                                                   *)

LEMMA Times ==
  ASSUME NEW n \in Nat, NEW m \in Nat
  PROVE  /\ n * m \in Nat /\ (n + 1) * m = n * m + m
         /\ \A k \in Nat : n <= k => n * m <= k * m
OBVIOUS

(***************************************************************************)
(* The calls' bound on the pool's own tasks: a call pushes one for each    *)
(* thread at most, and so there is a number left for the next one.         *)
(***************************************************************************)
Pauses == IF ctl \in {"pause", "shrink", "grow"} THEN pauseQ + left ELSE pauseQ
Stops == IF ctl = "stop" THEN stopQ + left ELSE stopQ

Room(n) == n * MaxThreads  \* what n calls may push

AdminFits == Pauses <= Room(calls) /\ Stops <= Room(calls)

LEMMA Sums ==
  ASSUME NEW p \in Nat, NEW q \in Nat, NEW l \in Nat
  PROVE  p + l \in Nat /\ (p <= q => p + l <= q + l)
OBVIOUS

LEMMA AdminStep ==
  ASSUME TypeInv, AdminFits, [Next]_vars
  PROVE  AdminFits'
<1>1. /\ pauseQ \in Nat /\ stopQ \in Nat /\ left \in 0..MaxThreads
      /\ MaxThreads \in Nat /\ calls \in Nat
  BY ThreadPoolAssumption DEF TypeInv, TypeOK
<1>2. Room(calls) \in Nat /\ Room(calls + 1) = Room(calls) + MaxThreads
  BY <1>1, Times DEF Room
<1>3. TypeInv'
  BY TypeStep
<1>4. /\ pauseQ' \in Nat /\ stopQ' \in Nat /\ left' \in 0..MaxThreads
  BY <1>3 DEF TypeInv, TypeOK
<1>5. Pauses \in Nat /\ Stops \in Nat /\ Pauses' \in Nat /\ Stops' \in Nat
  <2>1. left \in Nat /\ left' \in Nat
    BY <1>1, <1>4
  <2> QED
    BY <1>1, <1>4, <2>1, Sums, Zenon DEF Pauses, Stops
<1>6. CASE Calls
  <2>1. /\ calls' = calls + 1 /\ UNCHANGED <<pauseQ, stopQ>> /\ ctl = "idle"
    BY <1>6 DEF Calls, PauseCall, ResumeCall, StopCall, StopTimed, Shrink, Grow,
                Call, queueVars
  <2>2. /\ Pauses' = pauseQ \/ Pauses' = pauseQ + left'
        /\ Stops' = stopQ \/ Stops' = stopQ + left'
    BY <2>1 DEF Pauses, Stops
  <2>3. pauseQ <= Room(calls) /\ stopQ <= Room(calls)
    BY <1>1, <2>1 DEF AdminFits, Pauses, Stops
  <2>4. PICK room \in Nat : room = Room(calls)
    BY <1>2
  <2>5. Pauses' <= room + MaxThreads /\ Stops' <= room + MaxThreads
    BY <1>1, <1>4, <2>2, <2>3, <2>4
  <2>6. Room(calls)' = room + MaxThreads
    BY <1>2, <2>1, <2>4
  <2> QED
    BY <2>5, <2>6 DEF AdminFits
<1>7. CASE ~Calls
  <2> DEFINE Same == /\ calls' = calls
                     /\ Pauses' <= Pauses /\ Stops' <= Stops
  <2>1. ASSUME calls' = calls, ctl' = ctl, left' = left,
               pauseQ' <= pauseQ, stopQ' <= stopQ
        PROVE  Same
    <3>1. left \in Nat
      BY <1>1
    <3> QED
      BY <1>1, <1>4, <2>1, <3>1, Sums, Zenon DEF Pauses, Stops
  <2>2. ASSUME NEW k \in Task, AddTask(k) PROVE Same
    BY <1>1, <2>1, <2>2 DEF AddTask, ctlVars
  <2>3. ASSUME NEW t \in Thread, Worker(t) \/ SpuriousWake(t) \/ SpuriousResume(t)
        PROVE  Same
    <3>1. UNCHANGED ctlVars /\ pauseQ' <= pauseQ /\ stopQ' <= stopQ
      BY <1>1, <2>3 DEF Worker, SpuriousWake, SpuriousResume, Start, PopWait,
         PopClient, RunReturns, RunThrows, PopStop, PopPause, CheckPause,
         BlockPause, queueVars
    <3> QED
      BY <2>1, <3>1 DEF ctlVars
  <2>4. ASSUME Client PROVE Same
    <3> DEFINE Kept == /\ calls' = calls
                       /\ Pauses' \in {Pauses, pauseQ} /\ Stops' \in {Stops, stopQ}
    <3>1. Kept
      <4> USE <1>1 DEF Pauses, Stops, queueVars, poolVars, Goto
      <4>1. ASSUME NEW o \in {"pause", "shrink", "grow"}, PushPause(o)
            PROVE  Kept
        BY <4>1 DEF PushPause
      <4>2. ASSUME StopPush PROVE Kept
        BY <4>2 DEF StopPush
      <4> QED
        BY <2>4, <4>1, <4>2 DEF Client, PauseReturn, GrowPushed, Emplace,
           SetSizeReturn, ResumeNotify, ResumeReturn, StopResume, StopJoin,
           Join, StopReturn
    <3>2. /\ \A n \in {Pauses, pauseQ} : n <= Pauses
          /\ \A n \in {Stops, stopQ} : n <= Stops
      BY <1>1 DEF Pauses, Stops
    <3> QED
      BY <3>1, <3>2, Zenon
  <2>5. ASSUME UNCHANGED vars PROVE Same
    <3>1. pauseQ' <= pauseQ /\ stopQ' <= stopQ
      BY <1>1, <2>5 DEF vars, queueVars
    <3>2. calls' = calls /\ ctl' = ctl /\ left' = left
      BY <2>5 DEF vars, ctlVars
    <3> QED
      BY <2>1, <3>1, <3>2, Zenon
  <2> HIDE DEF Same
  <2>6. Same
    BY <1>7, <2>2, <2>3, <2>4, <2>5 DEF Next
  <2>7. Room(calls)' = Room(calls)
    BY <2>6 DEF Same
  <2> QED
    BY <1>2, <1>5, <2>6, <2>7 DEF AdminFits, Same
<1> QED
  BY <1>6, <1>7

\* The numbers of the pool's own tasks do not run out.
LEMMA RoomLeft ==
  ASSUME TypeInv, AdminFits
  PROVE  AdminBound \in Nat /\ Pauses <= AdminBound /\ Stops <= AdminBound
<1>1. Room(calls) \in Nat /\ AdminBound \in Nat /\ Room(calls) <= AdminBound
  BY Times, ThreadPoolAssumption DEF TypeInv, TypeOK, AdminBound, Room
<1>2. Pauses \in Nat /\ Stops \in Nat
  BY DEF TypeInv, TypeOK, Pauses, Stops
<1> QED
  BY <1>1, <1>2 DEF AdminFits

Items == ItemsIn(queued, pauseQ, stopQ)

LEMMA ItemForms ==
  ASSUME NEW c, NEW p, NEW s, NEW e
  PROVE  e \in ItemsIn(c, p, s) <=> \/ \E k \in c : e = <<"client", k>>
                                    \/ \E n \in 1..p : e = <<"PauseTask", n>>
                                    \/ \E n \in 1..s : e = <<"StopTask", n>>
BY DEF ItemsIn

\* What is pushed is new, and what is popped is the last one pushed.
LEMMA ClientMore ==
  ASSUME NEW c, NEW k, k \notin c, NEW p, NEW s
  PROVE  /\ <<"client", k>> \notin ItemsIn(c, p, s)
         /\ ItemsIn(c \cup {k}, p, s) = ItemsIn(c, p, s) \cup {<<"client", k>>}
BY DEF ItemsIn

LEMMA PauseMore ==
  ASSUME NEW c, NEW p \in Nat, NEW s
  PROVE  /\ <<"PauseTask", p + 1>> \notin ItemsIn(c, p, s)
         /\ ItemsIn(c, p + 1, s) = ItemsIn(c, p, s) \cup {<<"PauseTask", p + 1>>}
<1>1. 1..(p + 1) = (1..p) \cup {p + 1} /\ p + 1 \notin 1..p
  OBVIOUS
<1> QED
  BY <1>1 DEF ItemsIn

LEMMA StopMore ==
  ASSUME NEW c, NEW p, NEW s \in Nat
  PROVE  /\ <<"StopTask", s + 1>> \notin ItemsIn(c, p, s)
         /\ ItemsIn(c, p, s + 1) = ItemsIn(c, p, s) \cup {<<"StopTask", s + 1>>}
<1>1. 1..(s + 1) = (1..s) \cup {s + 1} /\ s + 1 \notin 1..s
  OBVIOUS
<1> QED
  BY <1>1 DEF ItemsIn

\* Where Pop has a thread that stands at w.
At(w) == CASE w = "pop"  -> "ready"
           [] w = "wait" -> "waiting"
           [] OTHER      -> "out"

LEMMA PopStates ==
  /\ PopState = [t \in Thread |-> At(pc[t])]
  /\ \A w : /\ At(w) = "ready" <=> w = "pop"
            /\ At(w) = "waiting" <=> w = "wait"
            /\ w \notin {"pop", "wait"} => At(w) = "out"
BY DEF PopState, At

LEMMA PopMoves ==
  ASSUME TypeOK, NEW t \in Thread, NEW w, pc' = [pc EXCEPT ![t] = w]
  PROVE  PopState' = [PopState EXCEPT ![t] = At(w)]
<1>1. \A u \in Thread : pc'[u] = IF u = t THEN w ELSE pc[u]
  BY DEF TypeOK
<1>2. PopState' = [u \in Thread |-> At(pc'[u])]
  BY DEF PopState, At
<1> QED
  BY <1>1, <1>2, PopStates

\* A thread that is not in Pop does something else.
LEMMA StaysOut ==
  ASSUME TypeOK, NEW t \in Thread, NEW w, pc' = [pc EXCEPT ![t] = w],
         {w, pc[t]} \cap {"pop", "wait"} = {}
  PROVE  PopState' = PopState
<1>1. PopState' = [PopState EXCEPT ![t] = At(w)]
  BY PopMoves
<1>2. At(w) = "out" /\ At(pc[t]) = "out"
  BY PopStates
<1>3. PopState[t] = "out"
  BY <1>2, PopStates
<1>4. PopState = [u \in Thread |-> PopState[u]]
  BY PopStates
<1> QED
  BY <1>1, <1>2, <1>3, <1>4

\* Push's notify_one wakes one of the threads that are blocked in Pop.
LEMMA Woken ==
  ASSUME TypeOK, NotifyOne("wait", "pop")
  PROVE  Queue!NotifyOne
<1>1. Queue!Waiting = Blocked("wait")
  BY PopStates DEF Queue!Waiting, Blocked
<1>2. CASE Blocked("wait") = {} /\ UNCHANGED pc
  <2>1. PopState' = PopState
    BY <1>2 DEF PopState
  <2> QED
    BY <1>1, <1>2, <2>1 DEF Queue!NotifyOne
<1>3. ASSUME NEW t \in Blocked("wait"), pc' = [pc EXCEPT ![t] = "pop"]
      PROVE  Queue!NotifyOne
  <2>1. t \in Thread /\ PopState' = [PopState EXCEPT ![t] = "ready"]
    <3>1. t \in Thread /\ At("pop") = "ready"
      BY PopStates DEF Blocked
    <3> QED
      BY <1>3, <3>1, PopMoves
  <2> QED
    BY <1>1, <2>1 DEF Queue!NotifyOne
<1> QED
  BY <1>2, <1>3 DEF NotifyOne

\* AddTask, Pause, SetSize and Stop push.
LEMMA PushStep ==
  ASSUME TypeInv, AdminFits,
         \/ \E k \in Task : AddTask(k)
         \/ \E o \in {"pause", "shrink", "grow"} : PushPause(o)
         \/ StopPush
  PROVE  Queue!Next
<1>1. TypeOK /\ queued \subseteq Task /\ pauseQ \in Nat /\ stopQ \in Nat
      /\ left \in Nat
  BY DEF TypeInv, TypeOK
<1>2. AdminBound \in Nat /\ Pauses <= AdminBound /\ Stops <= AdminBound
  BY RoomLeft
<1>3. ASSUME NEW e \in ItemsIn(Task, AdminBound, AdminBound), e \notin Items,
             Items' = Items \cup {e}, NotifyOne("wait", "pop")
      PROVE  Queue!Next
  <2>1. Queue!Push(e)
    BY <1>1, <1>3, Woken DEF Queue!Push, Items
  <2> QED
    BY <2>1 DEF Queue!Next
<1> HIDE DEF AdminBound
<1>4. ASSUME NEW k \in Task, AddTask(k) PROVE Queue!Next
  <2>1. <<"client", k>> \in ItemsIn(Task, AdminBound, AdminBound)
    BY ItemForms
  <2>2. <<"client", k>> \notin Items /\ Items' = Items \cup {<<"client", k>>}
    <3>1. Items' = ItemsIn(queued \cup {k}, pauseQ, stopQ)
      BY <1>4 DEF AddTask, Items, queueVars
    <3>2. Items = ItemsIn(queued, pauseQ, stopQ) /\ k \notin queued
      BY <1>4 DEF AddTask, Items
    <3> QED
      BY <3>1, <3>2, ClientMore
  <2> QED
    BY <1>3, <1>4, <2>1, <2>2 DEF AddTask, WakePopper
<1>5. ASSUME NEW o \in {"pause", "shrink", "grow"}, PushPause(o)
      PROVE  Queue!Next
  <2>1. pauseQ + 1 \in 1..AdminBound
    BY <1>1, <1>2, <1>5 DEF PushPause, Pauses
  <2>2. <<"PauseTask", pauseQ + 1>> \in ItemsIn(Task, AdminBound, AdminBound)
    BY <2>1, ItemForms
  <2>3. /\ <<"PauseTask", pauseQ + 1>> \notin Items
        /\ Items' = Items \cup {<<"PauseTask", pauseQ + 1>>}
    <3>1. Items' = ItemsIn(queued, pauseQ + 1, stopQ)
      BY <1>5 DEF PushPause, Items, queueVars
    <3>2. Items = ItemsIn(queued, pauseQ, stopQ)
      BY DEF Items
    <3> QED
      BY <1>1, <3>1, <3>2, PauseMore
  <2> QED
    BY <1>3, <1>5, <2>2, <2>3 DEF PushPause, WakePopper
<1>6. CASE StopPush
  <2>1. stopQ + 1 \in 1..AdminBound
    BY <1>1, <1>2, <1>6 DEF StopPush, Stops
  <2>2. <<"StopTask", stopQ + 1>> \in ItemsIn(Task, AdminBound, AdminBound)
    BY <2>1, ItemForms
  <2>3. /\ <<"StopTask", stopQ + 1>> \notin Items
        /\ Items' = Items \cup {<<"StopTask", stopQ + 1>>}
    <3>1. Items' = ItemsIn(queued, pauseQ, stopQ + 1)
      BY <1>6 DEF StopPush, Items, queueVars
    <3>2. Items = ItemsIn(queued, pauseQ, stopQ)
      BY DEF Items
    <3> QED
      BY <1>1, <3>1, <3>2, StopMore
  <2> QED
    BY <1>3, <1>6, <2>2, <2>3 DEF StopPush, WakePopper
<1> QED
  BY <1>4, <1>5, <1>6

\* A worker takes one of the elements that no other is above.
LEMMA TakeStep ==
  ASSUME TypeInv, NEW t \in Thread, PopClient(t) \/ PopStop(t) \/ PopPause(t)
  PROVE  Queue!Next
<1>1. /\ TypeOK /\ queued \subseteq Task /\ pauseQ \in Nat /\ stopQ \in Nat
      /\ \A k \in queued : Prio(k) \in Int /\ Prio(k) < ADMIN
  BY ThreadPoolAssumption DEF TypeInv, TypeOK
<1>2. PopState[t] = "ready"
  <2>1. pc[t] = "pop"
    BY DEF PopClient, PopStop, PopPause
  <2> QED
    BY <2>1, PopStates
<1>3. ASSUME NEW e \in Items, NEW w, \A f \in Items : ItemPrio(f) <= ItemPrio(e),
             Items' = Items \ {e},
             pc' = [pc EXCEPT ![t] = w], w \notin {"pop", "wait"}
      PROVE  Queue!Next
  <2>1. PopState' = [PopState EXCEPT ![t] = "out"]
    <3>1. At(w) = "out"
      BY <1>3, PopStates
    <3> QED
      BY <1>1, <1>3, <3>1, PopMoves
  <2>2. e \in Queue!Top
    BY <1>3 DEF Queue!Top, Items
  <2>3. Queue!PopTake(t)
    BY <1>2, <1>3, <2>1, <2>2 DEF Queue!PopTake, Items
  <2> QED
    BY <2>3 DEF Queue!Next
<1>4. ASSUME NEW f \in Items
      PROVE  \/ \E k \in queued : f = <<"client", k>> /\ ItemPrio(f) = Prio(k)
             \/ ItemPrio(f) = ADMIN
  <2>1. \/ \E k \in queued : f = <<"client", k>>
        \/ \E n \in 1..pauseQ : f = <<"PauseTask", n>>
        \/ \E n \in 1..stopQ : f = <<"StopTask", n>>
    BY ItemForms DEF Items
  <2> QED
    BY <2>1 DEF ItemPrio
<1>5. \A f \in Items : ItemPrio(f) <= ADMIN
  <2>1. ADMIN <= ADMIN
    BY DEF ADMIN
  <2>2. \A k \in queued : Prio(k) <= ADMIN
    BY <1>1 DEF ADMIN
  <2> QED
    BY <1>4, <2>1, <2>2
<1>6. CASE PopClient(t)
  <2>1. PICK k \in Top : queued' = queued \ {k}
    BY <1>6 DEF PopClient
  <2>2. /\ k \in queued /\ \A j \in queued : Prio(j) <= Prio(k)
        /\ pauseQ = 0 /\ stopQ = 0 /\ UNCHANGED <<pauseQ, stopQ>>
        /\ pc' = [pc EXCEPT ![t] = "run"]
    BY <1>6, <2>1 DEF PopClient, Top
  <2>3. <<"client", k>> \in Items /\ ItemPrio(<<"client", k>>) = Prio(k)
    BY <2>2, ItemForms DEF Items, ItemPrio
  <2>4. \A f \in Items : \E j \in queued : ItemPrio(f) = Prio(j)
    <3>1. ASSUME NEW f \in Items PROVE \E j \in queued : f = <<"client", j>>
      <4>1. 1..pauseQ = {} /\ 1..stopQ = {}
        BY <2>2
      <4> QED
        BY <4>1, ItemForms DEF Items
    <3> QED
      BY <3>1 DEF ItemPrio
  <2>5. Items' = Items \ {<<"client", k>>}
    <3>1. Items' = ItemsIn(queued \ {k}, pauseQ, stopQ)
      BY <2>1, <2>2 DEF Items
    <3>2. Items = ItemsIn((queued \ {k}) \cup {k}, pauseQ, stopQ)
      <4>1. (queued \ {k}) \cup {k} = queued
        BY <2>2
      <4> QED
        BY <4>1 DEF Items
    <3>3. PICK c : c = queued \ {k}
      OBVIOUS
    <3>4. /\ <<"client", k>> \notin ItemsIn(c, pauseQ, stopQ)
          /\ ItemsIn(c \cup {k}, pauseQ, stopQ)
               = ItemsIn(c, pauseQ, stopQ) \cup {<<"client", k>>}
      <4>1. k \notin c
        BY <3>3
      <4> QED
        BY <4>1, ClientMore
    <3>5. \A S, T, x : x \notin S /\ T = S \cup {x} => S = T \ {x}
      OBVIOUS
    <3> QED
      BY <3>1, <3>2, <3>3, <3>4, <3>5
  <2>6. PICK e : e = <<"client", k>>
    OBVIOUS
  <2>7. \A f \in Items : ItemPrio(f) <= ItemPrio(e)
    <3>1. ItemPrio(e) = Prio(k)
      BY <2>3, <2>6
    <3> QED
      BY <2>2, <2>4, <3>1
  <2>8. e \in Items /\ Items' = Items \ {e}
    BY <2>3, <2>5, <2>6
  <2>9. PICK w : w = "run"
    OBVIOUS
  <2>10. pc' = [pc EXCEPT ![t] = w] /\ w \notin {"pop", "wait"}
    BY <2>2, <2>9
  <2> QED
    BY <1>3, <2>7, <2>8, <2>10
<1>7. CASE PopPause(t)
  <2>1. /\ pauseQ - 1 \in Nat /\ pauseQ' = pauseQ - 1
        /\ UNCHANGED <<queued, stopQ>> /\ pc' = [pc EXCEPT ![t] = "check"]
    BY <1>1, <1>7 DEF PopPause
  <2>2. PICK p \in Nat : p = pauseQ - 1 /\ pauseQ = p + 1
    BY <1>1, <2>1
  <2>3. Items = ItemsIn(queued, p + 1, stopQ) /\ Items' = ItemsIn(queued, p, stopQ)
    BY <2>1, <2>2 DEF Items
  <2>4. /\ <<"PauseTask", p + 1>> \in Items
        /\ Items' = Items \ {<<"PauseTask", p + 1>>}
    BY <2>3, PauseMore
  <2>5. PICK e : e = <<"PauseTask", p + 1>>
    OBVIOUS
  <2>6. ItemPrio(e) = ADMIN
    BY <2>5 DEF ItemPrio
  <2>7. \A f \in Items : ItemPrio(f) <= ItemPrio(e)
    BY <1>5, <2>6
  <2>8. e \in Items /\ Items' = Items \ {e}
    BY <2>4, <2>5
  <2>9. PICK w : w = "check"
    OBVIOUS
  <2>10. pc' = [pc EXCEPT ![t] = w] /\ w \notin {"pop", "wait"}
    BY <2>1, <2>9
  <2> QED
    BY <1>3, <2>7, <2>8, <2>10
<1>8. CASE PopStop(t)
  <2>1. /\ stopQ - 1 \in Nat /\ stopQ' = stopQ - 1
        /\ UNCHANGED <<queued, pauseQ>> /\ pc' = [pc EXCEPT ![t] = "exit"]
    BY <1>1, <1>8 DEF PopStop
  <2>2. PICK s \in Nat : s = stopQ - 1 /\ stopQ = s + 1
    BY <1>1, <2>1
  <2>3. Items = ItemsIn(queued, pauseQ, s + 1) /\ Items' = ItemsIn(queued, pauseQ, s)
    BY <2>1, <2>2 DEF Items
  <2>4. /\ <<"StopTask", s + 1>> \in Items
        /\ Items' = Items \ {<<"StopTask", s + 1>>}
    BY <2>3, StopMore
  <2>5. PICK e : e = <<"StopTask", s + 1>>
    OBVIOUS
  <2>6. ItemPrio(e) = ADMIN
    BY <2>5 DEF ItemPrio
  <2>7. \A f \in Items : ItemPrio(f) <= ItemPrio(e)
    BY <1>5, <2>6
  <2>8. e \in Items /\ Items' = Items \ {e}
    BY <2>4, <2>5
  <2>9. PICK w : w = "exit"
    OBVIOUS
  <2>10. pc' = [pc EXCEPT ![t] = w] /\ w \notin {"pop", "wait"}
    BY <2>1, <2>9
  <2> QED
    BY <1>3, <2>7, <2>8, <2>10
<1> QED
  BY <1>6, <1>7, <1>8

\* A worker enters Pop, blocks in it, or wakes up for no reason.
LEMMA PopStep ==
  ASSUME TypeInv, NEW t \in Thread,
         \/ Start(t) \/ RunReturns(t) \/ PopWait(t) \/ SpuriousWake(t)
         \/ (CheckPause(t) /\ ~m_in_pause)
  PROVE  Queue!Next
<1>1. TypeOK /\ UNCHANGED Items
  BY DEF TypeInv, Start, RunReturns, PopWait, SpuriousWake, CheckPause, Items,
         queueVars
<1>2. CASE Start(t) \/ RunReturns(t) \/ (CheckPause(t) /\ ~m_in_pause)
  <2>1. pc' = [pc EXCEPT ![t] = "pop"] /\ pc[t] \notin {"pop", "wait"}
    BY <1>2 DEF Start, RunReturns, CheckPause
  <2>2. At("pop") = "ready" /\ At(pc[t]) = "out"
    BY <2>1, PopStates
  <2>3. PopState[t] = "out" /\ PopState' = [PopState EXCEPT ![t] = "ready"]
    <3>1. PopState[t] = At(pc[t])
      BY PopStates
    <3>2. PopState' = [PopState EXCEPT ![t] = At("pop")]
      BY <1>1, <2>1, PopMoves
    <3> QED
      BY <2>1, <2>2, <3>1, <3>2
  <2>4. Queue!PopCall(t)
    BY <1>1, <2>3 DEF Queue!PopCall, Items
  <2> QED
    BY <2>4 DEF Queue!Next
<1>3. CASE PopWait(t)
  <2>1. /\ pc' = [pc EXCEPT ![t] = "wait"] /\ pc[t] = "pop"
        /\ queued = {} /\ pauseQ = 0 /\ stopQ = 0
    BY <1>3 DEF PopWait
  <2>2. At("wait") = "waiting" /\ At("pop") = "ready"
    BY PopStates
  <2>3. PopState[t] = "ready" /\ PopState' = [PopState EXCEPT ![t] = "waiting"]
    <3>1. PopState[t] = At(pc[t])
      BY PopStates
    <3>2. PopState' = [PopState EXCEPT ![t] = At("wait")]
      BY <1>1, <2>1, PopMoves
    <3> QED
      BY <2>1, <2>2, <3>1, <3>2
  <2>4. Items = {}
    <3>1. 1..pauseQ = {} /\ 1..stopQ = {}
      BY <2>1
    <3> QED
      BY <2>1, <3>1 DEF Items, ItemsIn
  <2>5. Queue!PopWait(t)
    BY <1>1, <2>3, <2>4 DEF Queue!PopWait, Items
  <2> QED
    BY <2>5 DEF Queue!Next
<1>4. CASE SpuriousWake(t)
  <2>1. pc' = [pc EXCEPT ![t] = "pop"] /\ pc[t] = "wait"
    BY <1>4 DEF SpuriousWake
  <2>2. At("pop") = "ready" /\ At("wait") = "waiting"
    BY PopStates
  <2>3. PopState[t] = "waiting" /\ PopState' = [PopState EXCEPT ![t] = "ready"]
    <3>1. PopState[t] = At(pc[t])
      BY PopStates
    <3>2. PopState' = [PopState EXCEPT ![t] = At("pop")]
      BY <1>1, <2>1, PopMoves
    <3> QED
      BY <2>1, <2>2, <3>1, <3>2
  <2>4. Queue!SpuriousWake(t)
    BY <1>1, <2>3 DEF Queue!SpuriousWake, Items
  <2> QED
    BY <2>4 DEF Queue!Next
<1> QED
  BY <1>2, <1>3, <1>4

\* The rest leaves the queue and the threads in Pop alone.
LEMMA QueueStutter ==
  ASSUME UNCHANGED Items, PopState' = PopState
  PROVE  UNCHANGED Queue!vars
BY DEF Queue!vars, Items

LEMMA WorkerRests ==
  ASSUME TypeInv, NEW t \in Thread,
         \/ RunThrows(t) \/ BlockPause(t) \/ SpuriousResume(t)
         \/ (CheckPause(t) /\ m_in_pause)
  PROVE  UNCHANGED Queue!vars
<1>1. TypeOK /\ UNCHANGED Items
  BY DEF TypeInv, RunThrows, BlockPause, SpuriousResume, CheckPause, Items,
         queueVars
<1>2. \E w \in {"exit", "paused", "check", "gap"} : pc' = [pc EXCEPT ![t] = w]
  BY DEF RunThrows, BlockPause, SpuriousResume, CheckPause
<1>3. pc[t] \in {"run", "gap", "paused", "check"}
  BY DEF RunThrows, BlockPause, SpuriousResume, CheckPause
<1>4. PopState' = PopState
  BY <1>1, <1>2, <1>3, StaysOut
<1> QED
  BY <1>1, <1>4, QueueStutter

LEMMA ClientRests ==
  ASSUME TypeInv, Client \/ Calls,
         ~StopPush, \A o \in {"pause", "shrink", "grow"} : ~PushPause(o)
  PROVE  UNCHANGED Queue!vars
<1>1. TypeOK /\ UNCHANGED Items
  BY DEF TypeInv, Client, Calls, PauseReturn, GrowPushed, Emplace, SetSizeReturn,
         ResumeNotify, ResumeReturn, StopResume, StopJoin, Join, StopReturn,
         PauseCall, ResumeCall, StopCall, StopTimed, Shrink, Grow, Items, queueVars
<1>2. CASE Emplace
  <2>1. /\ m_pool + 1 \in Thread /\ pc[m_pool + 1] = "none"
        /\ pc' = [pc EXCEPT ![m_pool + 1] = "start"]
    <3>1. /\ ctl = "emplace" /\ left > 0
          /\ pc' = [pc EXCEPT ![m_pool + 1] = "start"]
      BY <1>2 DEF Emplace
    <3>2. /\ m_pool \in Nat /\ left \in Nat /\ m_pool + left <= MaxThreads
          /\ \A t \in Thread : pc[t] = "none" <=> t > m_pool
      BY <3>1, ThreadPoolAssumption DEF TypeInv, TypeOK, GrowFits
    <3>3. m_pool + 1 \in Thread /\ m_pool + 1 > m_pool
      BY <3>1, <3>2, ThreadPoolAssumption DEF Thread
    <3> QED
      BY <3>1, <3>2, <3>3
  <2>2. PopState' = PopState
    BY <1>1, <2>1, StaysOut
  <2> QED
    BY <1>1, <2>2, QueueStutter
<1>3. CASE ResumeNotify
  <2>1. \/ UNCHANGED pc
        \/ \E t \in Thread : /\ pc[t] = "paused"
                             /\ pc' = [pc EXCEPT ![t] = "check"]
    BY <1>3 DEF ResumeNotify, WakePaused, NotifyOne, Blocked
  <2>2. UNCHANGED pc => PopState' = PopState
    BY DEF PopState
  <2>3. PopState' = PopState
    BY <1>1, <2>1, <2>2, StaysOut
  <2> QED
    BY <1>1, <2>3, QueueStutter
<1>4. CASE ~Emplace /\ ~ResumeNotify
  <2>1. UNCHANGED pc
    BY <1>4 DEF Client, Calls, PauseReturn, GrowPushed, SetSizeReturn,
       ResumeReturn, StopResume, StopJoin, Join, StopReturn, PauseCall,
       ResumeCall, StopCall, StopTimed, Shrink, Grow
  <2>2. PopState' = PopState
    BY <2>1 DEF PopState
  <2> QED
    BY <1>1, <2>2, QueueStutter
<1> QED
  BY <1>2, <1>3, <1>4

LEMMA QueueNext ==
  ASSUME TypeInv, AdminFits, [Next]_vars
  PROVE  [Queue!Next]_(Queue!vars)
<1>1. CASE Client \/ Calls
  BY <1>1, PushStep, ClientRests
<1>2. CASE \E k \in Task : AddTask(k)
  BY <1>2, PushStep
<1>3. ASSUME NEW t \in Thread, Worker(t) \/ SpuriousWake(t) \/ SpuriousResume(t)
      PROVE  [Queue!Next]_(Queue!vars)
  BY <1>3, TakeStep, PopStep, WorkerRests DEF Worker
<1>4. CASE UNCHANGED vars
  <2>1. UNCHANGED Items /\ PopState' = PopState
    BY <1>4 DEF vars, queueVars, Items, PopState
  <2> QED
    BY <2>1, QueueStutter
<1> QED
  BY <1>1, <1>2, <1>3, <1>4 DEF Next

(***************************************************************************)
(* The pool uses m_tasks as the queue that waitable_pq.hpp promises,       *)
(* whatever is called, thrown and woken: every element is pushed with its  *)
(* notify_one, and a worker takes one of the highest priority.             *)
(***************************************************************************)
THEOREM ImplementsQueue == Spec => QueueSpec
<1>1. Init => Queue!Init
  <2> HAVE Init
  <2>1. Items = {}
    <3>1. queued = {} /\ 1..pauseQ = {} /\ 1..stopQ = {}
      BY DEF Init
    <3> QED
      BY <3>1 DEF Items, ItemsIn
  <2>2. PopState = [t \in Thread |-> "out"]
    BY DEF Init, PopState
  <2> QED
    BY <2>1, <2>2 DEF Queue!Init, Items
<1>2. Init => AdminFits
  <2> HAVE Init
  <2>1. Pauses = 0 /\ Stops = 0
    BY DEF Init, Pauses, Stops
  <2>2. Room(calls) \in Nat
    BY Times, ThreadPoolAssumption DEF Init, Room
  <2> QED
    BY <2>1, <2>2 DEF AdminFits
<1> QED
  BY <1>1, <1>2, TypeInit, TypeStep, AdminStep, QueueNext, PTL
     DEF Spec, QueueSpec

-----------------------------------------------------------------------------
(* What WPQueue_proofs shows of a queue holds of m_tasks.                  *)

QueueProofs ==
  INSTANCE WPQueue_proofs
    WITH Elem    <- ItemsIn(Task, AdminBound, AdminBound),
         Prio    <- ItemPrio,
         m_queue <- ItemsIn(queued, pauseQ, stopQ),
         at      <- PopState

\* The pool satisfies what WPQueue assumes: the elements have priorities.
LEMMA QueueAssumption ==
  /\ IsFiniteSet(Thread)
  /\ \A e \in ItemsIn(Task, AdminBound, AdminBound) : ItemPrio(e) \in Int
<1>1. IsFiniteSet(Thread)
  BY FS_Interval, ThreadPoolAssumption DEF Thread
<1>2. ADMIN \in Int /\ \A k \in Task : Prio(k) \in Int
  BY ThreadPoolAssumption DEF ADMIN
<1>3. ASSUME NEW e \in ItemsIn(Task, AdminBound, AdminBound)
      PROVE  ItemPrio(e) \in Int
  BY <1>2, <1>3, ItemForms DEF ItemPrio
<1> QED
  BY <1>1, <1>3

LEMMA QueueWakes == QueueProofs!Spec => []QueueProofs!NoLostWakeup
<1>1. /\ QueueProofs!IsFiniteSet(Thread)
      /\ \A e \in ItemsIn(Task, AdminBound, AdminBound) : ItemPrio(e) \in Int
  BY QueueAssumption DEF IsFiniteSet, QueueProofs!IsFiniteSet
<1> QED
  BY <1>1, QueueProofs!WakeupsSuffice, PTL

(***************************************************************************)
(* While a worker is blocked in Pop, each task in m_tasks, of a client or  *)
(* of the pool's own, has a worker of its own that is awake and on its way *)
(* to take one: Push's single notify_one (waitable_pq.hpp:66) is enough    *)
(* also when workers pause, end and are created.                           *)
(***************************************************************************)
THEOREM WakeupsSuffice == Spec => []Queue!NoLostWakeup
<1>1. QueueProofs!NoLostWakeup => Queue!NoLostWakeup
  <2>1. \A S : QueueProofs!Cardinality(S) = Queue!Cardinality(S)
    BY DEF QueueProofs!Cardinality, Queue!Cardinality
  <2> QED
    BY <2>1 DEF QueueProofs!NoLostWakeup, QueueProofs!Waiting, QueueProofs!Ready,
                Queue!NoLostWakeup, Queue!Waiting, Queue!Ready
<1>2. Queue!Init => QueueProofs!Init
  BY DEF QueueProofs!Init, Queue!Init
<1>3. [Queue!Next]_(Queue!vars) => [QueueProofs!Next]_(QueueProofs!vars)
  <2>1. Queue!NotifyOne => QueueProofs!NotifyOne
    BY DEF QueueProofs!NotifyOne, QueueProofs!Waiting, Queue!NotifyOne,
           Queue!Waiting
  <2>2. ASSUME NEW e, Queue!Push(e) PROVE QueueProofs!Push(e)
    BY <2>1, <2>2 DEF QueueProofs!Push, Queue!Push
  <2>3. ASSUME NEW t, \/ Queue!PopCall(t) \/ Queue!PopWait(t)
                      \/ Queue!PopTake(t) \/ Queue!SpuriousWake(t)
        PROVE  \/ QueueProofs!PopCall(t) \/ QueueProofs!PopWait(t)
               \/ QueueProofs!PopTake(t) \/ QueueProofs!SpuriousWake(t)
    BY <2>3 DEF QueueProofs!PopCall, QueueProofs!PopWait, QueueProofs!PopTake,
                QueueProofs!SpuriousWake, QueueProofs!Top, Queue!PopCall,
                Queue!PopWait, Queue!PopTake, Queue!SpuriousWake, Queue!Top
  <2> QED
    BY <2>2, <2>3 DEF QueueProofs!vars, QueueProofs!Next, Queue!vars, Queue!Next
<1> QED
  BY <1>1, <1>2, <1>3, ImplementsQueue, QueueWakes, PTL
     DEF QueueSpec, QueueProofs!Spec
=============================================================================
