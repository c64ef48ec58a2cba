------------------------------ MODULE ThreadPool ------------------------------
(***************************************************************************)
(* ThreadPool of framework/src/thread_pool.cpp: workers that pop tasks     *)
(* from a WPQueue and execute them, and one client thread that calls       *)
(* Pause, Resume, SetSize and Stop.  Any thread may call AddTask.          *)
(*                                                                         *)
(* The client's tasks are the members of Task.  The pool's own PauseTasks  *)
(* and StopTasks are interchangeable and only counted.  They have priority *)
(* ADMIN, so a worker takes a client's task only when there are none.      *)
(*                                                                         *)
(* The members m_pool, m_pool_size and m_in_pause have no lock: each loop  *)
(* iteration of the client's operations is a step of its own, and so are   *)
(* the two halves of PauseTask::Execute's wait, whose mutex is private to  *)
(* the PauseTask.                                                          *)
(***************************************************************************)
EXTENDS Integers, FiniteSets

CONSTANTS MaxThreads, \* bound: the threads SetSize may have created in all
          Task,       \* the client's task objects
          Prio(_),    \* their m_priority
          Throwing,   \* the tasks whose Execute throws a runtime_error
          InitSize,   \* the constructor's argument
          MaxCalls,   \* bound: the calls of operations other than AddTask
          Ops         \* the operations the client calls

ADMIN == 2147483647  \* __INT_MAX__, "for internal use"

ASSUME ThreadPoolAssumption ==
         /\ MaxThreads \in Nat
         /\ InitSize \in 0..MaxThreads
         /\ \A k \in Task : Prio(k) \in Int /\ Prio(k) < ADMIN
         /\ IsFiniteSet(Task)
         /\ Throwing \subseteq Task
         /\ MaxCalls \in Nat

VARIABLES m_pool,      \* m_pool.size(): threads 1..m_pool have been created
          m_pool_size,
          m_in_pause,
          queued,      \* m_tasks: the client's tasks in it,
          pauseQ,      \* the number of PauseTasks in it,
          stopQ,       \* the number of StopTasks in it
          pc,          \* where each worker stands
          task,        \* the client's task a worker executes
          done,        \* history: the client's tasks that were executed
          ctl,         \* the operation the client is in
          left,        \* iterations left of the loop it is in
          target,      \* SetSize's new_size_
          calls        \* the number of calls so far

queueVars == <<queued, pauseQ, stopQ>>
poolVars  == <<m_pool, m_pool_size, m_in_pause>>
ctlVars   == <<ctl, left, target, calls>>
vars      == <<queueVars, poolVars, pc, task, done, ctlVars>>

Thread == 1..MaxThreads

(***************************************************************************)
(* A worker is not created ("none"), created but not yet in Pop ("start"), *)
(* at the predicate of Pop's wait ("pop"), blocked in Pop ("wait"),        *)
(* executing a client's task ("run"), at the predicate of PauseTask's wait *)
(* ("check"), between a false predicate and blocking on m_cv ("gap"),      *)
(* blocked on it ("paused"), or it has left WorkerFunc ("exit").           *)
(***************************************************************************)
Where == {"none", "start", "pop", "wait", "run",
          "check", "gap", "paused", "exit"}

Live    == {t \in Thread : pc[t] \notin {"none", "exit"}}
Running == {t \in Thread : pc[t] = "run"}

Init == /\ m_pool = InitSize
        /\ m_pool_size = InitSize
        /\ m_in_pause = FALSE
        /\ queued = {} /\ pauseQ = 0 /\ stopQ = 0
        /\ pc = [t \in Thread |-> IF t <= InitSize THEN "start" ELSE "none"]
        /\ task = [t \in Thread |-> {}]
        /\ done = {}
        /\ ctl = "idle" /\ left = 0 /\ target = 0 /\ calls = 0

-----------------------------------------------------------------------------
(* The two condition variables.                                            *)

Blocked(where) == {t \in Thread : pc[t] = where}

\* notify_one() for the threads blocked at where, which go on at next.
NotifyOne(where, next) ==
  \/ Blocked(where) = {} /\ UNCHANGED pc
  \/ \E t \in Blocked(where) : pc' = [pc EXCEPT ![t] = next]

WakePopper == NotifyOne("wait", "pop")     \* in WPQueue::Push
WakePaused == NotifyOne("paused", "check") \* in Resume

-----------------------------------------------------------------------------
(* The workers.                                                            *)

\* Faulty variant of AddTask: the queue's notify_one is missing.
AddTaskSilently(k) ==
  /\ k \notin queued \cup done \cup UNION {task[t] : t \in Thread}
  /\ queued' = queued \cup {k}
  /\ UNCHANGED <<pauseQ, stopQ, poolVars, pc, task, done, ctlVars>>

AddTask(k) ==
  /\ k \notin queued \cup done \cup UNION {task[t] : t \in Thread}
  /\ queued' = queued \cup {k}
  /\ WakePopper
  /\ UNCHANGED <<pauseQ, stopQ, poolVars, task, done, ctlVars>>

\* The new thread enters WorkerFunc and calls Pop.
Start(t) == /\ pc[t] = "start"
            /\ pc' = [pc EXCEPT ![t] = "pop"]
            /\ UNCHANGED <<queueVars, poolVars, task, done, ctlVars>>

PopWait(t) == /\ pc[t] = "pop"
              /\ queued = {} /\ pauseQ = 0 /\ stopQ = 0
              /\ pc' = [pc EXCEPT ![t] = "wait"]
              /\ UNCHANGED <<queueVars, poolVars, task, done, ctlVars>>

SpuriousWake(t) == /\ pc[t] = "wait"
                   /\ pc' = [pc EXCEPT ![t] = "pop"]
                   /\ UNCHANGED <<queueVars, poolVars, task, done, ctlVars>>

Top == {k \in queued : \A other \in queued : Prio(other) <= Prio(k)}

\* Faulty variants of PopClient: ADMIN is not the highest priority; m_queue
\* is not popped.
PopClientFirst(t) ==
  /\ pc[t] = "pop"
  /\ \E k \in Top : /\ queued' = queued \ {k}
                    /\ task' = [task EXCEPT ![t] = {k}]
  /\ pc' = [pc EXCEPT ![t] = "run"]
  /\ UNCHANGED <<pauseQ, stopQ, poolVars, done, ctlVars>>

PopClientTwice(t) ==
  /\ pc[t] = "pop"
  /\ pauseQ = 0 /\ stopQ = 0
  /\ \E k \in Top : task' = [task EXCEPT ![t] = {k}]
  /\ pc' = [pc EXCEPT ![t] = "run"]
  /\ UNCHANGED <<queueVars, poolVars, done, ctlVars>>

PopClient(t) ==
  /\ pc[t] = "pop"
  /\ pauseQ = 0 /\ stopQ = 0
  /\ \E k \in Top : /\ queued' = queued \ {k}
                    /\ task' = [task EXCEPT ![t] = {k}]
  /\ pc' = [pc EXCEPT ![t] = "run"]
  /\ UNCHANGED <<pauseQ, stopQ, poolVars, done, ctlVars>>

\* Execute returns: the worker calls Pop again.
RunReturns(t) == /\ pc[t] = "run"
                 /\ task[t] \cap Throwing = {}
                 /\ pc' = [pc EXCEPT ![t] = "pop"]
                 /\ task' = [task EXCEPT ![t] = {}]
                 /\ done' = done \cup task[t]
                 /\ UNCHANGED <<queueVars, poolVars, ctlVars>>

\* WorkerFunc's catch is outside its loop: the thread ends with the task.
RunThrows(t) == /\ pc[t] = "run"
                /\ task[t] \subseteq Throwing
                /\ pc' = [pc EXCEPT ![t] = "exit"]
                /\ task' = [task EXCEPT ![t] = {}]
                /\ done' = done \cup task[t]
                /\ UNCHANGED <<queueVars, poolVars, ctlVars>>

PopStop(t) == /\ pc[t] = "pop"
              /\ stopQ > 0
              /\ stopQ' = stopQ - 1
              /\ pc' = [pc EXCEPT ![t] = "exit"]
              /\ UNCHANGED <<queued, pauseQ, poolVars, task, done, ctlVars>>

\* Faulty variant of PopPause: the predicate of Pop's wait is missing.
PopPauseUnguarded(t) ==
  /\ pc[t] = "pop"
  /\ pauseQ' = pauseQ - 1
  /\ pc' = [pc EXCEPT ![t] = "check"]
  /\ UNCHANGED <<queued, stopQ, poolVars, task, done, ctlVars>>

PopPause(t) == /\ pc[t] = "pop"
               /\ pauseQ > 0
               /\ pauseQ' = pauseQ - 1
               /\ pc' = [pc EXCEPT ![t] = "check"]
               /\ UNCHANGED <<queued, stopQ, poolVars, task, done, ctlVars>>

\* PauseTask::Execute: the predicate of the wait, then the blocking.
CheckPause(t) == /\ pc[t] = "check"
                 /\ pc' = [pc EXCEPT ![t] = IF m_in_pause THEN "gap" ELSE "pop"]
                 /\ UNCHANGED <<queueVars, poolVars, task, done, ctlVars>>

BlockPause(t) == /\ pc[t] = "gap"
                 /\ pc' = [pc EXCEPT ![t] = "paused"]
                 /\ UNCHANGED <<queueVars, poolVars, task, done, ctlVars>>

SpuriousResume(t) == /\ pc[t] = "paused"
                     /\ pc' = [pc EXCEPT ![t] = "check"]
                     /\ UNCHANGED <<queueVars, poolVars, task, done, ctlVars>>

Worker(t) == \/ Start(t) \/ PopWait(t) \/ PopClient(t) \/ RunReturns(t)
             \/ RunThrows(t) \/ PopStop(t) \/ PopPause(t) \/ CheckPause(t) \/ BlockPause(t)

-----------------------------------------------------------------------------
(* The client's operations.                                                *)

Call(op) == /\ ctl = "idle"
            /\ op \in Ops
            /\ calls < MaxCalls
            /\ calls' = calls + 1

\* The client's next step: the operation, and the iterations of its loop.
Goto(op, n) == ctl' = op /\ left' = n

\* One iteration of a loop that pushes PauseTasks.
PushPause(op) == /\ ctl = op
                 /\ left > 0
                 /\ left' = left - 1
                 /\ pauseQ' = pauseQ + 1
                 /\ WakePopper
                 /\ UNCHANGED <<queued, stopQ, poolVars, task, done,
                                ctl, target, calls>>

\* Pause: m_pool_size PauseTasks, and only then m_in_pause.
PauseCall == /\ Call("Pause")
             /\ Goto("pause", m_pool_size)
             /\ UNCHANGED <<queueVars, poolVars, pc, task, done, target>>

PauseReturn == /\ ctl = "pause" /\ left = 0
               /\ m_in_pause' = TRUE
               /\ Goto("idle", 0)
               /\ UNCHANGED <<queueVars, m_pool, m_pool_size, pc, task, done,
                              target, calls>>

\* SetSize to a smaller size: PauseTasks for the difference, if not in pause.
Shrink(n) == /\ Call("SetSize")
             /\ n < m_pool_size
             /\ target' = n
             /\ Goto("shrink", IF m_in_pause THEN 0 ELSE m_pool_size - n)
             /\ UNCHANGED <<queueVars, poolVars, pc, task, done>>

\* SetSize to a larger size: PauseTasks first, if in pause.
Grow(n) == /\ Call("SetSize")
           /\ n > m_pool_size
           /\ m_pool + (n - m_pool_size) <= MaxThreads
           /\ target' = n
           /\ Goto("grow", IF m_in_pause THEN n - m_pool_size ELSE 0)
           /\ UNCHANGED <<queueVars, poolVars, pc, task, done>>

GrowPushed == /\ ctl = "grow" /\ left = 0
              /\ Goto("emplace", target - m_pool_size)
              /\ UNCHANGED <<queueVars, poolVars, pc, task, done,
                             target, calls>>

Emplace == /\ ctl = "emplace"
           /\ left > 0
           /\ left' = left - 1
           /\ m_pool' = m_pool + 1
           /\ pc' = [pc EXCEPT ![m_pool + 1] = "start"]
           /\ UNCHANGED <<queueVars, m_pool_size, m_in_pause, task, done,
                          ctl, target, calls>>

SetSizeReturn == /\ ctl \in {"shrink", "emplace"} /\ left = 0
                 /\ m_pool_size' = target
                 /\ Goto("idle", 0)
                 /\ UNCHANGED <<queueVars, m_pool, m_in_pause, pc, task, done,
                                target, calls>>

\* Resume: m_in_pause without a lock, then m_pool_size notify_one's.
ResumeCall == /\ Call("Resume")
              /\ m_in_pause' = FALSE
              /\ Goto("resume", m_pool_size)
              /\ UNCHANGED <<queueVars, m_pool, m_pool_size, pc, task, done,
                             target>>

ResumeNotify == /\ ctl \in {"resume", "stopResume"}
                /\ left > 0
                /\ left' = left - 1
                /\ WakePaused
                /\ UNCHANGED <<queueVars, poolVars, task, done,
                               ctl, target, calls>>

ResumeReturn == /\ ctl = "resume" /\ left = 0
                /\ Goto("idle", 0)
                /\ UNCHANGED <<queueVars, poolVars, pc, task, done,
                               target, calls>>

\* Faulty variant of StopCall: a StopTask for each of m_pool_size threads.
StopCallForSize ==
  /\ Call("Stop")
  /\ Goto("stop", m_pool_size)
  /\ UNCHANGED <<queueVars, poolVars, pc, task, done, target>>

\* Stop: one StopTask for each thread ever created, Resume, then join each.
StopCall == /\ Call("Stop")
            /\ Goto("stop", m_pool)
            /\ UNCHANGED <<queueVars, poolVars, pc, task, done, target>>

StopPush == /\ ctl = "stop"
            /\ left > 0
            /\ left' = left - 1
            /\ stopQ' = stopQ + 1
            /\ WakePopper
            /\ UNCHANGED <<queued, pauseQ, poolVars, task, done,
                           ctl, target, calls>>

\* Faulty variant of StopResume: line 152 is missing.
StopResumeForSize == /\ ctl = "stop" /\ left = 0
                     /\ m_in_pause' = FALSE
                     /\ Goto("stopResume", m_pool_size)
                     /\ UNCHANGED <<queueVars, m_pool, m_pool_size, pc, task,
                                    done, target, calls>>

StopResume == /\ ctl = "stop" /\ left = 0
              /\ m_pool_size' = m_pool
              /\ m_in_pause' = FALSE
              /\ Goto("stopResume", m_pool)
              /\ UNCHANGED <<queueVars, m_pool, pc, task, done,
                             target, calls>>

StopJoin == /\ ctl = "stopResume" /\ left = 0
            /\ Goto("join", m_pool)
            /\ UNCHANGED <<queueVars, poolVars, pc, task, done,
                           target, calls>>

\* m_pool[i].join() returns when thread i has left WorkerFunc.
Join == /\ ctl = "join"
        /\ left > 0
        /\ pc[m_pool + 1 - left] = "exit"
        /\ left' = left - 1
        /\ UNCHANGED <<queueVars, poolVars, pc, task, done,
                       ctl, target, calls>>

StopReturn == /\ ctl = "join" /\ left = 0
              /\ Goto("stopped", 0)
              /\ UNCHANGED <<queueVars, poolVars, pc, task, done,
                             target, calls>>

\* Stop(timeout_): the temporary std::thread is destroyed while joinable,
\* which calls std::terminate.
StopTimed == /\ Call("StopTimed")
             /\ Goto("terminated", 0)
             /\ UNCHANGED <<queueVars, poolVars, pc, task, done, target>>

Client == \/ \E op \in {"pause", "shrink", "grow"} : PushPause(op)
          \/ PauseReturn \/ GrowPushed \/ Emplace \/ SetSizeReturn
          \/ ResumeNotify \/ ResumeReturn
          \/ StopPush \/ StopResume \/ StopJoin \/ Join \/ StopReturn

Calls == \/ PauseCall \/ ResumeCall \/ StopCall \/ StopTimed
         \/ \E n \in 0..MaxThreads : Shrink(n) \/ Grow(n)

-----------------------------------------------------------------------------
\* Once std::terminate has run nobody takes a step.
Next == /\ ctl # "terminated"
        /\ \/ Calls
           \/ Client
           \/ \E k \in Task : AddTask(k)
           \/ \E t \in Thread : Worker(t) \/ SpuriousWake(t) \/ SpuriousResume(t)

Spec == Init /\ [][Next]_vars

(***************************************************************************)
(* Threads that can run do run, and an operation once called goes on.  No  *)
(* call is owed, and neither is a spurious wakeup.                         *)
(***************************************************************************)
Fairness == /\ \A t \in Thread : WF_vars(ctl # "terminated" /\ Worker(t))
            /\ WF_vars(Client)

FairSpec == Spec /\ Fairness

-----------------------------------------------------------------------------
\* The state is what the declarations of ThreadPool's members allow.
TypeOK == /\ m_pool \in 0..MaxThreads
          /\ m_pool_size \in 0..MaxThreads
          /\ m_in_pause \in BOOLEAN
          /\ queued \subseteq Task /\ done \subseteq Task
          /\ pauseQ \in Nat /\ stopQ \in Nat
          /\ pc \in [Thread -> Where]
          /\ \A t \in Thread : pc[t] = "none" <=> t > m_pool
          /\ task \in [Thread -> SUBSET Task]
          /\ ctl \in {"idle", "pause", "shrink", "grow", "emplace", "resume",
                       "stop", "stopResume", "join", "stopped", "terminated"}
          /\ left \in 0..MaxThreads
          /\ target \in 0..MaxThreads
          /\ calls \in 0..MaxCalls

\* A task given to AddTask is in one place: queued, with one worker, or done.
\* No worker executes what another executes or has executed.
ExecutedOnce ==
  /\ queued \cap done = {}
  /\ \A t \in Thread : task[t] \cap (queued \cup done) = {}
  /\ \A t, u \in Thread : t # u => task[t] \cap task[u] = {}

(***************************************************************************)
(* Stop pushes enough StopTasks (line 146): there is one in the queue, or  *)
(* still to be pushed, for every thread that has not ended, whatever       *)
(* SetSize, Pause and throwing tasks did before.                           *)
(***************************************************************************)
StopTasksSuffice ==
  /\ ctl = "stop" => Cardinality(Live) <= stopQ + left
  /\ ctl \in {"stopResume", "join", "stopped"} => Cardinality(Live) <= stopQ

(***************************************************************************)
(* When Stop has pushed its last StopTask, no client's task starts any     *)
(* more: the tasks in the queue are discarded (ADMIN is the top priority). *)
(***************************************************************************)
NoTaskStartsAfterStop ==
  [][(ctl \in {"stopResume", "join", "stopped"}) =>
       \A t \in Thread : pc'[t] = "run" => pc[t] = "run"]_vars

(***************************************************************************)
(* m_tasks is used as the WPQueue of waitable_pq.hpp: the pool's steps are *)
(* Push, Pop's and stutters of it, with PauseTasks and StopTasks numbered. *)
(***************************************************************************)
AdminBound == MaxCalls * MaxThreads
ItemsIn(clients, pauses, stops) == ({"client"} \X clients)
                                   \cup ({"PauseTask"} \X (1..pauses))
                                   \cup ({"StopTask"} \X (1..stops))
ItemPrio(e) == IF e[1] = "client" THEN Prio(e[2]) ELSE ADMIN
PopState == [t \in Thread |-> CASE pc[t] = "pop"  -> "ready"
                                 [] pc[t] = "wait" -> "waiting"
                                 [] OTHER          -> "out"]

Queue == INSTANCE WPQueue
           WITH Elem    <- ItemsIn(Task, AdminBound, AdminBound),
                Prio    <- ItemPrio,
                m_queue <- ItemsIn(queued, pauseQ, stopQ),
                at      <- PopState

\* Every step of the pool is a step of the queue or leaves it unchanged.
QueueSpec == Queue!Init /\ [][Queue!Next]_(Queue!vars)

(***************************************************************************)
(* "join threads gracefully" (thread_pool.cpp:157): Stop returns.          *)
(***************************************************************************)
StopReturns == ctl = "stop" ~> ctl = "stopped"

(***************************************************************************)
(* Nothing else keeps Stop from returning, whatever pauses, sizes and      *)
(* throwing tasks came before: if it joins a thread for ever, a worker has *)
(* blocked in a PauseTask after the last notification.                     *)
(***************************************************************************)
StopReturnsOrMissed ==
  ctl = "stop" ~> \/ ctl = "stopped"
                  \/ ctl = "join" /\ \E t \in Thread : pc[t] = "paused"

(***************************************************************************)
(* A worker that is blocked in a PauseTask when Stop clears m_in_pause is  *)
(* woken and ends, though notify_one may choose other workers that block   *)
(* only later, and though SetSize may have changed m_pool_size (line 152). *)
(***************************************************************************)
StopWakesBlocked ==
  \A t \in Thread :
    ctl = "stopResume" /\ left = m_pool_size /\ pc[t] = "paused"
      ~> pc[t] = "exit"

\* A task in the queue is executed unless the client calls Stop or a worker
\* is in a PauseTask, when fewer tasks throw than there are threads.
TasksRun ==
  \A k \in Task :
    k \in queued ~> \/ k \in done
                   \/ ctl \in {"stop", "stopResume", "join", "stopped"}
                   \/ \E t \in Thread : pc[t] \in {"check", "gap", "paused"}
=============================================================================
