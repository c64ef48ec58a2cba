---------------------------- MODULE RequestEngine ----------------------------
(***************************************************************************)
(* RequestEngine of framework/include/re_fw.hpp as main/netspace.cpp uses  *)
(* it: the reactor thread waits in epoll for the closing pipe and the two  *)
(* sources, reads a source and adds its task to the pool; workers execute  *)
(* the tasks; the main thread is in the destructor from Run on.            *)
(*                                                                         *)
(* Epoll is level-triggered, and StdinSrc::Read consumes nothing: it is    *)
(* StdinTask that reads the key, blocking its worker when there is none.   *)
(* At 'q' that task calls Stop, so Stop runs in a worker, concurrently     *)
(* with the reactor and with the destructor.                               *)
(*                                                                         *)
(* The pool is what ThreadPool is shown to be: a task is executed once,    *)
(* and a worker that finds a StopTask takes it first and ends.             *)
(***************************************************************************)
EXTENDS Integers, Sequences, FiniteSets

CONSTANTS Worker,
          MaxKeys,      \* bound: the keys that the user presses
          MaxRequests,  \* bound: the requests that the kernel sends
          MaxTasks      \* bound: the StdinTasks in the queue

ASSUME RequestEngineAssumption ==
         /\ IsFiniteSet(Worker)
         /\ MaxKeys \in Nat /\ MaxRequests \in Nat /\ MaxTasks \in Nat

Source == {"NBD", "STDIN"}
Event  == Source \cup {"pipe"}

VARIABLES epoll,    \* the sources registered in m_epoll_fd
          open,     \* the descriptors that are open
          pipe,     \* there is a byte in the closing pipe
          stdin,    \* the keys pressed and not read
          typed,    \* the number of keys pressed
          socket,   \* the number of requests sent and not received
          sent,     \* the number of requests sent
          up,       \* the kernel has not shut its connection down
          reactor,  \* "wait" in epoll_wait, at its "events", or "ended"
          events,   \* the events of this turn that are not yet handled
          queue,    \* the number of tasks in the pool, by key
          stops,    \* the number of StopTasks in the pool
          worker,   \* what each worker does
          todo,     \* the entries of m_request_srcs before its iterator
          main,     \* where the destructor stands
          left,     \* the StopTasks still to be pushed
          garbage,  \* history: a request was made of a read that failed
          replied,  \* history: the number of requests replied to
          assertion,\* history: the assertion that failed, if any
          crashed   \* the process has ended by std::terminate or abort

kernelVars  == <<epoll, open, pipe>>
inputVars   == <<stdin, typed, socket, sent, up>>
reactorVars == <<reactor, events>>
poolVars    == <<queue, stops>>
workerVars  == <<worker, todo>>
mainVars    == <<main, left>>
endVars     == <<garbage, replied, assertion, crashed>>
vars == <<kernelVars, inputVars, reactorVars, poolVars, workerVars, mainVars,
          endVars>>

Init == /\ epoll = Source /\ open = Event /\ pipe = FALSE
        /\ stdin = <<>> /\ typed = 0 /\ socket = 0 /\ sent = 0
        /\ up = TRUE
        /\ reactor = "wait" /\ events = {}
        /\ queue = [s \in Source |-> 0] /\ stops = 0
        /\ worker = [w \in Worker |-> "pop"]
        /\ todo = [w \in Worker |-> {}]
        /\ main = "join" /\ left = 0
        /\ garbage = FALSE /\ replied = 0
        /\ assertion = "none" /\ crashed = FALSE

-----------------------------------------------------------------------------
(* The user and the kernel.                                                *)

Press(key) == /\ typed < MaxKeys
              /\ typed' = typed + 1
              /\ stdin' = Append(stdin, key)
              /\ UNCHANGED <<kernelVars, socket, sent, up, reactorVars, poolVars,
                             workerVars, mainVars, endVars>>

SendRequest == /\ sent < MaxRequests
               /\ up /\ "NBD" \in open
               /\ sent' = sent + 1 /\ socket' = socket + 1
               /\ UNCHANGED <<kernelVars, stdin, typed, up, reactorVars, poolVars,
                              workerVars, mainVars, endVars>>

\* NBD_DISCONNECT, or a reply that the kernel does not expect (NbdService has
\* those whose bytes are mixed): what was sent can still be read.
ShutDown == /\ up
            /\ up' = FALSE
            /\ UNCHANGED <<kernelVars, stdin, typed, socket, sent, reactorVars,
                           poolVars, workerVars, mainVars, endVars>>

-----------------------------------------------------------------------------
(* ReactorThread.                                                          *)

Ready == {e \in epoll \cup {"pipe"} :
            \/ e = "pipe" /\ pipe
            \/ e = "NBD" /\ (socket > 0 \/ ~up)
            \/ e = "STDIN" /\ stdin # <<>> /\ queue["STDIN"] < MaxTasks}

\* epoll_wait returns all that is ready; the order is not specified.
EpollWait == /\ reactor = "wait"
             /\ Ready # {}
             /\ reactor' = "events"
             /\ events' = Ready
             /\ UNCHANGED <<kernelVars, inputVars, poolVars, workerVars,
                            mainVars, endVars>>

\* The next turn begins when the last event is handled.
Handled(e) == /\ e \in events
              /\ events' = events \ {e}
              /\ reactor' = IF events = {e} THEN "wait" ELSE reactor

HandlePipe == /\ "pipe" \in events
              /\ reactor' = "ended"
              /\ events' = {}
              /\ UNCHANGED <<kernelVars, inputVars, poolVars, workerVars,
                             mainVars, endVars>>

AddTask(s) == queue' = [queue EXCEPT ![s] = @ + 1]

\* StdinSrc::Read returns at once, and leaves the key where it is.
HandleStdin == /\ Handled("STDIN")
               /\ AddTask("STDIN")
               /\ UNCHANGED <<kernelVars, inputVars, stops, workerVars,
                              mainVars, endVars>>

\* Faulty variant of HandleNbd: the task is not added.
HandleNbdDrop == /\ Handled("NBD")
                 /\ socket > 0
                 /\ socket' = socket - 1
                 /\ UNCHANGED <<kernelVars, stdin, typed, sent, up, poolVars,
                                workerVars, mainVars, endVars>>

\* NBDSrc::Read: ReceiveRequest consumes the request.
HandleNbd == /\ Handled("NBD")
             /\ "NBD" \in open /\ socket > 0
             /\ socket' = socket - 1
             /\ AddTask("NBD")
             /\ UNCHANGED <<kernelVars, stdin, typed, sent, up, stops, workerVars,
                            mainVars, endVars>>

(***************************************************************************)
(* At the end of the stream the NBDError "bad read" leaves the reactor.    *)
(* If the last request is a WRITE whose data the kernel did not get to     *)
(* send, the read_all of its data fails its assertion.                     *)
(***************************************************************************)
HandleNbdEof == /\ "NBD" \in events
                /\ "NBD" \in open /\ ~up
                /\ crashed' = TRUE
                /\ \/ socket = 0 /\ UNCHANGED assertion
                   \/ socket = 1 /\ assertion' = "read_all"
                /\ UNCHANGED <<kernelVars, inputVars, reactorVars, poolVars,
                               workerVars, mainVars, garbage, replied>>

(***************************************************************************)
(* Stop has closed the descriptor since epoll_wait returned: read gives    *)
(* -1, which a size_t holds as a number above 0, and ReceiveRequest goes   *)
(* on with an uninitialised request.  If that looks like a WRITE of some   *)
(* length, the read_all of its data fails its assertion.                   *)
(***************************************************************************)
HandleNbdClosed == /\ Handled("NBD")
                   /\ "NBD" \notin open
                   /\ garbage' = TRUE
                   /\ \/ AddTask("NBD") /\ UNCHANGED <<assertion, crashed>>
                      \/ /\ assertion' = "read_all" /\ crashed' = TRUE
                         /\ UNCHANGED queue
                   /\ UNCHANGED <<kernelVars, inputVars, stops, workerVars,
                                  mainVars, replied>>

Reactor == \/ EpollWait \/ HandlePipe \/ HandleStdin
           \/ HandleNbd \/ HandleNbdEof \/ HandleNbdClosed

-----------------------------------------------------------------------------
(* The workers.                                                            *)

Goto(w, where) == worker' = [worker EXCEPT ![w] = where]

\* Faulty variant of PopTask: a task is taken from an empty queue.
PopTaskEmpty(w, s) == /\ worker[w] = "pop"
                      /\ stops = 0
                      /\ queue' = [queue EXCEPT ![s] = @ - 1]
                      /\ Goto(w, s)
                      /\ UNCHANGED <<kernelVars, inputVars, reactorVars, stops,
                                     todo, mainVars, endVars>>

PopTask(w, s) == /\ worker[w] = "pop"
                 /\ stops = 0
                 /\ queue[s] > 0
                 /\ queue' = [queue EXCEPT ![s] = @ - 1]
                 /\ Goto(w, s)
                 /\ UNCHANGED <<kernelVars, inputVars, reactorVars, stops, todo,
                                mainVars, endVars>>

PopStop(w) == /\ worker[w] = "pop"
              /\ stops > 0
              /\ stops' = stops - 1
              /\ Goto(w, "exit")
              /\ UNCHANGED <<kernelVars, inputVars, reactorVars, queue, todo,
                             mainVars, endVars>>

\* NBDTask::Execute.  The assertion of write_all fails on a socket that Stop
\* has closed, and on one that the kernel has shut down.
RunNbd(w) == /\ worker[w] = "NBD"
             /\ Goto(w, "pop")
             /\ IF "NBD" \in open /\ up
                  THEN replied' = replied + 1 /\ UNCHANGED <<assertion, crashed>>
                  ELSE /\ assertion' = "write_all" /\ crashed' = TRUE
                       /\ UNCHANGED replied
             /\ UNCHANGED <<kernelVars, inputVars, reactorVars, poolVars, todo,
                            mainVars, garbage>>

\* StdinTask::Execute: a key is read, now or by a read that was blocked.
ReadKey(w) == /\ \/ worker[w] = "STDIN" /\ "STDIN" \in open
                 \/ worker[w] = "blocked"
              /\ stdin # <<>>
              /\ stdin' = Tail(stdin)
              /\ Goto(w, IF Head(stdin) = "q" THEN "stop" ELSE "pop")
              /\ UNCHANGED <<kernelVars, typed, socket, sent, up, reactorVars,
                             poolVars, todo, mainVars, endVars>>

ReadBlocks(w) == /\ worker[w] = "STDIN"
                 /\ "STDIN" \in open
                 /\ stdin = <<>>
                 /\ Goto(w, "blocked")
                 /\ UNCHANGED <<kernelVars, inputVars, reactorVars, poolVars,
                                todo, mainVars, endVars>>

ReadFails(w) == /\ worker[w] = "STDIN"
                /\ "STDIN" \notin open
                /\ Goto(w, "pop")
                /\ UNCHANGED <<kernelVars, inputVars, reactorVars, poolVars,
                               todo, mainVars, endVars>>

\* Faulty variant of StopWrite: the reactor is not told.
StopSilently(w) == /\ worker[w] = "stop"
                   /\ "pipe" \in open
                   /\ Goto(w, "sources")
                   /\ todo' = [todo EXCEPT ![w] = Source]
                   /\ UNCHANGED <<kernelVars, inputVars, reactorVars, poolVars,
                                  mainVars, endVars>>

\* RequestEngine::Stop: the byte in the pipe comes first.
StopWrite(w) == /\ worker[w] = "stop"
                /\ "pipe" \in open
                /\ pipe' = TRUE
                /\ Goto(w, "sources")
                /\ todo' = [todo EXCEPT ![w] = Source]
                /\ UNCHANGED <<epoll, open, inputVars, reactorVars, poolVars,
                               mainVars, endVars>>

\* The destructor has closed the pipe: "write error" ends the worker.
StopWriteFails(w) == /\ worker[w] = "stop"
                     /\ "pipe" \notin open
                     /\ Goto(w, "exit")
                     /\ UNCHANGED <<kernelVars, inputVars, reactorVars, poolVars,
                                    todo, mainVars, endVars>>

\* The destructor has freed m_close_epoll_fd too, so that the number written to
\* is any: the write fails, as above, or succeeds elsewhere, or Stop crashes.
StopWriteFreed(w) == /\ worker[w] = "stop"
                     /\ main = "pool"
                     /\ \/ /\ Goto(w, "sources")
                           /\ \E rest \in SUBSET Source : todo' = [todo EXCEPT ![w] = rest]
                           /\ UNCHANGED crashed
                        \/ crashed' = TRUE /\ UNCHANGED workerVars
                     /\ UNCHANGED <<kernelVars, inputVars, reactorVars, poolVars,
                                    mainVars, garbage, replied, assertion>>

\* Then each source leaves epoll and is closed.
StopSource(w) == /\ worker[w] = "sources"
                 /\ \E s \in todo[w] :
                      /\ todo' = [todo EXCEPT ![w] = @ \ {s}]
                      /\ epoll' = epoll \ {s}
                      /\ open' = open \ {s}
                 /\ UNCHANGED <<pipe, inputVars, reactorVars, poolVars, worker,
                                mainVars, endVars>>

\* The destructor has destroyed m_request_srcs: the iterator dangles.
StopDangling(w) == /\ worker[w] = "sources"
                   /\ main \in {"pool", "returned"}
                   /\ crashed' = TRUE
                   /\ UNCHANGED <<kernelVars, inputVars, reactorVars, poolVars,
                                  workerVars, mainVars, garbage, replied,
                                  assertion>>

\* NBDriverCommunicator::Disconnect, which may throw and end the worker.
Disconnect(w) == /\ worker[w] = "sources"
                 /\ todo[w] = {}
                 /\ \/ Goto(w, "pop")
                    \/ Goto(w, "exit")
                 /\ UNCHANGED <<kernelVars, inputVars, reactorVars, poolVars,
                                todo, mainVars, endVars>>

Execute(w) == \/ \E s \in Source : PopTask(w, s)
              \/ PopStop(w) \/ RunNbd(w)
              \/ ReadKey(w) \/ ReadBlocks(w) \/ ReadFails(w)
              \/ StopWrite(w) \/ StopWriteFails(w) \/ StopWriteFreed(w)
              \/ StopSource(w) \/ StopDangling(w) \/ Disconnect(w)

-----------------------------------------------------------------------------
(* The main thread: ~RequestEngine, then its members in reverse order.     *)

\* Faulty variant of JoinReactor: the reactor is not waited for.
SkipJoin == /\ main = "join"
            /\ pipe
            /\ main' = "close"
            /\ UNCHANGED <<kernelVars, inputVars, reactorVars, poolVars,
                           workerVars, left, endVars>>

JoinReactor == /\ main = "join"
               /\ reactor = "ended"
               /\ main' = "close"
               /\ UNCHANGED <<kernelVars, inputVars, reactorVars, poolVars,
                              workerVars, left, endVars>>

ClosePipe == /\ main = "close"
             /\ open' = open \ {"pipe"}
             /\ main' = "members"
             /\ UNCHANGED <<epoll, pipe, inputVars, reactorVars, poolVars,
                            workerVars, left, endVars>>

\* m_request_srcs is destroyed; then ~ThreadPool calls Stop.
DestroySources == /\ main = "members"
                  /\ main' = "pool"
                  /\ left' = Cardinality(Worker)
                  /\ UNCHANGED <<kernelVars, inputVars, reactorVars, poolVars,
                                 workerVars, endVars>>

PushStop == /\ main = "pool"
            /\ left > 0
            /\ left' = left - 1
            /\ stops' = stops + 1
            /\ UNCHANGED <<kernelVars, inputVars, reactorVars, queue, workerVars,
                           main, endVars>>

JoinWorkers == /\ main = "pool"
               /\ left = 0
               /\ \A w \in Worker : worker[w] = "exit"
               /\ main' = "returned"
               /\ UNCHANGED <<kernelVars, inputVars, reactorVars, poolVars,
                              workerVars, left, endVars>>

Main == \/ JoinReactor \/ ClosePipe \/ DestroySources
        \/ PushStop \/ JoinWorkers

Next == /\ ~crashed
        /\ \/ \E key \in {"q", "x"} : Press(key)
           \/ SendRequest \/ ShutDown
           \/ Reactor \/ Main
           \/ \E w \in Worker : Execute(w)

Spec == Init /\ [][Next]_vars

\* The threads run; keys and requests may never come, nor the end of the
\* connection.
Fairness == /\ WF_vars(~crashed /\ Reactor)
            /\ WF_vars(~crashed /\ Main)
            /\ \A w \in Worker : WF_vars(~crashed /\ Execute(w))

FairSpec == Spec /\ Fairness

-----------------------------------------------------------------------------
Flags == pipe \in BOOLEAN /\ up \in BOOLEAN /\ garbage \in BOOLEAN /\ crashed \in BOOLEAN

Values ==
  /\ epoll \subseteq Source /\ open \subseteq Event
  /\ stdin \in Seq({"q", "x"})
  /\ typed \in 0..MaxKeys /\ sent \in 0..MaxRequests /\ socket \in 0..MaxRequests
  /\ reactor \in {"wait", "events", "ended"} /\ events \subseteq Event
  /\ queue \in [Source -> Nat] /\ stops \in Nat
  /\ worker \in [Worker -> {"pop", "NBD", "STDIN", "blocked", "stop",
                            "sources", "exit"}]
  /\ todo \in [Worker -> SUBSET Source]
  /\ main \in {"join", "close", "members", "pool", "returned"} /\ left \in Nat
  /\ replied \in Nat /\ assertion \in {"none", "read_all", "write_all"}

\* The types of the engine's state and of its environment: no queue, counter
\* or set of descriptors leaves its range.
TypeOK == Flags /\ Values

\* A worker has closed the sources, or is about to close those still open.
SourcesClosed ==
  \/ open \cap Source = {}
  \/ \E w \in Worker : worker[w] = "sources" /\ open \cap Source \subseteq todo[w]

(***************************************************************************)
(* ~RequestEngine gets to the members only when the reactor, which uses    *)
(* them and alone adds tasks, has ended, and when some worker closes the   *)
(* sources; at its end every worker has ended and all is closed, though    *)
(* nobody waits for Stop itself.                                           *)
(***************************************************************************)
OrderlyEnd ==
  /\ main # "join" => reactor = "ended" /\ events = {} /\ SourcesClosed
  /\ main = "returned" => open = {} /\ \A w \in Worker : worker[w] = "exit"

(***************************************************************************)
(* When a worker is told to quit, the process comes to the end of the      *)
(* destructor, through reactor, sources and pool, or it crashes, or a      *)
(* worker is blocked in read(STDIN): nothing else holds it up.             *)
(***************************************************************************)
QuitReturns ==
  (\E w \in Worker : worker[w] = "stop")
    ~> \/ main = "returned" \/ crashed
       \/ \E w \in Worker : worker[w] = "blocked"

(***************************************************************************)
(* The requests that the kernel has sent are received, executed and        *)
(* replied to, unless somebody quits or every worker is blocked in         *)
(* read(STDIN), or the connection ends, which the process does not survive *)
(* either: a request is never just left there.                             *)
(***************************************************************************)
RequestsServed ==
  \A n \in 1..MaxRequests :
    sent = n ~> \/ replied >= n
                \/ pipe \/ crashed
                \/ \A w \in Worker : worker[w] = "blocked"

(***************************************************************************)
(* Whatever keys and requests come, only a Stop makes a request of a read  *)
(* that failed, and a process in which no Stop has written its byte does   *)
(* not crash, by an assertion, an exception or a dangling iterator, unless *)
(* the kernel has shut the connection down, after which the reactor is at  *)
(* the end of the stream and a reply fails the assertion of write_all.     *)
(***************************************************************************)
SoundUntilQuit == /\ garbage => pipe
                  /\ crashed => pipe \/ ~up
=============================================================================
