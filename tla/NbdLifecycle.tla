----------------------------- MODULE NbdLifecycle -----------------------------
(***************************************************************************)
(* The life of NBDriverCommunicator (src/nbd_driver_communicator.cpp) in   *)
(* netspace: the main thread sets the device up, starts the listener       *)
(* thread, which stays in ioctl(NBD_DO_IT), and takes over SIGINT and      *)
(* SIGTERM; the reactor receives, workers reply, a worker quits, and the   *)
(* main thread destroys the communicator at the end.                       *)
(*                                                                         *)
(* Of the engine there is only what closes the socket and what ends the    *)
(* threads or holds them up.  RequestEngine has the rest: a Stop that is   *)
(* not atomic, and a second 'q', of which this module has only one (two    *)
(* workers in Disconnect would join one std::thread, which is undefined).  *)
(* The kernel is modelled from how the code uses it.  It shuts the socket  *)
(* down when it finds an unexpected reply or the other end closed, and it  *)
(* may refuse NBD_DISCONNECT when no connection is up.                     *)
(***************************************************************************)
EXTENDS Integers, Sequences, FileDescriptor

CONSTANTS PoolSize,     \* the workers of the pool
          MaxRequests,  \* bound: the requests that the kernel sends
          MaxSignals    \* bound: the signals sent to the process

ASSUME NbdLifecycleAssumption ==
         PoolSize \in Nat /\ MaxRequests \in Nat /\ MaxSignals \in Nat

VARIABLES main,       \* where the main thread stands
          m_sp,       \* the socket pair: "app" and "sock"
          m_nbd_fd,
          open,       \* the program's open descriptors
          listener,   \* where ListenerTask stands
          joinable,   \* m_listener.joinable()
          reactor,    \* "none", "run" or "ended"
          told,       \* RequestEngine::Stop has run
          disc,       \* Disconnect in a worker and in the destructor
          tasks,      \* the number of NBDTasks in the pool, by command
          blocked,    \* the number of workers in read(STDIN)
          ended,      \* the number of workers that an exception has ended
          conn,       \* the kernel's connection
          stream,     \* the commands in the socket, "request" or "disc"
          sent,       \* the number of requests sent
          unexpected, \* the kernel has a reply to NBD_CMD_DISC to read
          pending,    \* a signal is pending
          signals,    \* the number of signals sent
          refused,    \* history: the callers that an NBDError took out of Disconnect
          unset,      \* history: setting the engine up failed
          crash       \* what ended the process, or "none"

fdVars     == <<m_sp, m_nbd_fd, open>>
threadVars == <<listener, joinable, reactor, told>>
poolVars   == <<tasks, blocked, ended>>
kernelVars == <<conn, stream, sent, unexpected>>
signalVars == <<pending, signals>>
historyVars == <<refused, unset>>
vars == <<main, fdVars, threadVars, disc, poolVars, kernelVars, signalVars,
          historyVars, crash>>

Caller  == {"worker", "main"}
Command == {"request", "disc"}

Init == /\ main = "start"
        /\ m_sp = [app |-> Make(None), sock |-> Make(None)]
        /\ m_nbd_fd = Make(None)
        /\ open = {}
        /\ listener = "none" /\ joinable = FALSE
        /\ reactor = "none" /\ told = FALSE
        /\ disc = [p \in Caller |-> "idle"]
        /\ tasks = [k \in Command |-> 0] /\ blocked = 0 /\ ended = 0
        /\ conn = "none" /\ stream = <<>> /\ sent = 0 /\ unexpected = FALSE
        /\ pending = FALSE /\ signals = 0
        /\ refused = {} /\ unset = FALSE
        /\ crash = "none"

-----------------------------------------------------------------------------
(* The main thread: the constructor, then the engine.                      *)

SetSockets ==
  /\ main = "start"
  /\ main' = "sockets"
  /\ m_sp' = [app |-> Assigned(m_sp.app, "app"), sock |-> Assigned(m_sp.sock, "sock")]
  /\ open' = open \cup {"app", "sock"}
  /\ UNCHANGED <<m_nbd_fd, threadVars, disc, poolVars, kernelVars, signalVars,
                 historyVars, crash>>

\* FDError derives privately from runtime_error: no handler of main takes it.
OpenDevice ==
  /\ main = "sockets"
  /\ \/ /\ main' = "opened"
        /\ m_nbd_fd' = Make("dev") /\ open' = open \cup {"dev"}
        /\ UNCHANGED crash
     \/ crash' = "uncaught" /\ UNCHANGED <<main, m_nbd_fd, open>>
  /\ UNCHANGED <<m_sp, threadVars, disc, poolVars, kernelVars, signalVars, historyVars>>

\* The members m_nbd_fd and m_sp are destroyed.
DestroyDescriptors ==
  /\ open' = OpenAfterClose(m_sp.app, OpenAfterClose(m_sp.sock,
                 OpenAfterClose(m_nbd_fd, open)))
  /\ UNCHANGED <<m_sp, m_nbd_fd>>

\* An NBDError leaves the constructor; main catches it and returns.
NBDSetup ==
  /\ main = "opened"
  /\ \/ main' = "setup" /\ UNCHANGED fdVars
     \/ main' = "returned" /\ DestroyDescriptors
  /\ UNCHANGED <<threadVars, disc, poolVars, kernelVars, signalVars, historyVars, crash>>

MainStep(from, to) == main = from /\ main' = to

BlockSignals == /\ MainStep("setup", "blocked")
                /\ UNCHANGED <<fdVars, threadVars, disc, poolVars, kernelVars,
                               signalVars, historyVars, crash>>

\* The listener inherits the mask, and keeps every signal blocked.
StartNBDThread == /\ MainStep("blocked", "started")
                  /\ listener' = "set_sock" /\ joinable' = TRUE
                  /\ UNCHANGED <<fdVars, reactor, told, disc, poolVars, kernelVars,
                                 signalVars, historyVars, crash>>

\* SetSignalHandlerForApp unblocks SIGINT and SIGTERM first ...
UnblockSignals == /\ MainStep("started", "unblocked")
                  /\ UNCHANGED <<fdVars, threadVars, disc, poolVars, kernelVars,
                                 signalVars, historyVars, crash>>

\* ... and sets their handler then.
SetSigaction == /\ MainStep("unblocked", "handling")
                /\ UNCHANGED <<fdVars, threadVars, disc, poolVars, kernelVars,
                               signalVars, historyVars, crash>>

\* The engine is built and runs, or the standard input is a file, which epoll
\* does not take, and ConfigInputSrc throws.
SetEngineUp ==
  /\ main = "handling"
  /\ \/ main' = "run" /\ reactor' = "run" /\ UNCHANGED <<disc, unset>>
     \/ main' = "dtor" /\ disc' = [disc EXCEPT !["main"] = "ioctl"]
        /\ unset' = TRUE /\ UNCHANGED reactor
  /\ UNCHANGED <<fdVars, listener, joinable, told, poolVars, kernelVars, signalVars,
                 refused, crash>>

\* ~RequestEngine has joined the reactor, and ~ThreadPool every worker: one in
\* Disconnect takes its StopTask after it, one in read(STDIN) after a key.
DestroyEngine ==
  /\ MainStep("run", "dtor")
  /\ reactor = "ended" /\ disc["worker"] = "done" /\ blocked = 0
  /\ disc' = [disc EXCEPT !["main"] = "ioctl"]
  /\ UNCHANGED <<fdVars, threadVars, poolVars, kernelVars, signalVars, historyVars,
                 crash>>

\* After Disconnect the members go: a thread not joined is std::terminate.
DestroyCommunicator ==
  /\ main = "dtor" /\ disc["main"] = "done"
  /\ IF joinable THEN crash' = "joinable" /\ UNCHANGED <<main, fdVars>>
                 ELSE main' = "returned" /\ DestroyDescriptors /\ UNCHANGED crash
  /\ UNCHANGED <<threadVars, disc, poolVars, kernelVars, signalVars, historyVars>>

Main == \/ SetSockets \/ OpenDevice \/ NBDSetup \/ BlockSignals \/ StartNBDThread
        \/ UnblockSignals \/ SetSigaction \/ SetEngineUp
        \/ DestroyEngine \/ DestroyCommunicator

-----------------------------------------------------------------------------
(* The listener thread.                                                    *)

\* An NBDError that leaves the thread is std::terminate.
SetSock == /\ listener = "set_sock"
           /\ \/ listener' = "do_it" /\ conn' = "set" /\ UNCHANGED crash
              \/ crash' = "listener" /\ UNCHANGED <<listener, conn>>
           /\ UNCHANGED <<main, fdVars, joinable, reactor, told, disc, poolVars,
                          stream, sent, unexpected, signalVars, historyVars>>

\* The ioctl blocks while the connection is up.  Its result is not looked at.
DoIt == /\ \/ listener = "do_it" /\ listener' = "in kernel" /\ conn' = "up"
           \/ listener = "do_it" /\ listener' = "clear" /\ UNCHANGED conn
           \/ listener = "in kernel" /\ conn = "down" /\ listener' = "clear"
              /\ UNCHANGED conn
        /\ UNCHANGED <<main, fdVars, joinable, reactor, told, disc, poolVars, stream,
                       sent, unexpected, signalVars, historyVars, crash>>

\* NBD_CLEAR_QUE and NBD_CLEAR_SOCK.
Clear == /\ listener = "clear"
         /\ \/ /\ listener' = "ended"
               /\ conn' = IF conn = "down" THEN "clear" ELSE "none"
               /\ UNCHANGED crash
            \/ crash' = "listener" /\ UNCHANGED <<listener, conn>>
         /\ UNCHANGED <<main, fdVars, joinable, reactor, told, disc, poolVars, stream,
                        sent, unexpected, signalVars, historyVars>>

Listener == SetSock \/ DoIt \/ Clear

-----------------------------------------------------------------------------
(* The reactor and the workers.                                            *)

Receive == /\ reactor = "run" /\ "app" \in open
           /\ stream # <<>>
           /\ stream' = Tail(stream)
           /\ tasks' = [tasks EXCEPT ![Head(stream)] = @ + 1]
           /\ UNCHANGED <<main, fdVars, threadVars, disc, blocked, ended, conn,
                          sent, unexpected, signalVars, historyVars, crash>>

\* Faulty variant of ReceiveEof: the reactor goes on.
IgnoreEof == FALSE /\ UNCHANGED vars

\* "bad read": the NBDError leaves the reactor thread.
ReceiveEof == /\ reactor = "run" /\ "app" \in open
              /\ stream = <<>> /\ conn \in {"down", "clear"}
              /\ crash' = "eof"
              /\ UNCHANGED <<main, fdVars, threadVars, disc, poolVars, kernelVars,
                             signalVars, historyVars>>

StopReactor == /\ reactor = "run" /\ told
               /\ reactor' = "ended"
               /\ UNCHANGED <<main, fdVars, listener, joinable, told, disc, poolVars,
                              kernelVars, signalVars, historyVars, crash>>

Disconnecting(p) == disc[p] \in {"ioctl", "close", "join"}

\* The worker that quits is in Disconnect.
Quitting == Disconnecting("worker")

\* The workers that do not wait for a task.
Busy == blocked + ended + (IF Quitting THEN 1 ELSE 0)

\* A worker takes the next task.
Free == Busy < PoolSize

\* All that are left of the workers are in read(STDIN).
AllBlocked == blocked + ended = PoolSize

(***************************************************************************)
(* The reactor adds a StdinTask at every turn in which a key is not yet    *)
(* read, and those that find none hold their workers until the next key.   *)
(* After Stop has closed the standard input their read fails at once.      *)
(***************************************************************************)
ReadBlocks == /\ main = "run" /\ ~told /\ Free
              /\ blocked' = blocked + 1
              /\ UNCHANGED <<main, fdVars, threadVars, disc, tasks, ended,
                             kernelVars, signalVars, historyVars, crash>>

\* A key other than 'q' comes.
ReadKey == /\ blocked > 0
           /\ blocked' = blocked - 1
           /\ UNCHANGED <<main, fdVars, threadVars, disc, tasks, ended,
                          kernelVars, signalVars, historyVars, crash>>

(***************************************************************************)
(* NBDTask::Execute and SendReply.  NBD_CMD_DISC passes for a WRITE of     *)
(* nothing, and is replied to.  SIGPIPE is blocked in every thread, so a   *)
(* socket that is closed or shut down fails the assertion of write_all.    *)
(***************************************************************************)
SendReply(k) ==
  /\ main = "run" /\ tasks[k] > 0 /\ Free
  /\ tasks' = [tasks EXCEPT ![k] = @ - 1]
  /\ IF "app" \notin open \/ conn \in {"down", "clear"}
       THEN crash' = "reply" /\ UNCHANGED unexpected
       ELSE unexpected' = (unexpected \/ k = "disc") /\ UNCHANGED crash
  /\ UNCHANGED <<main, fdVars, threadVars, disc, blocked, ended, conn, stream,
                 sent, signalVars, historyVars>>

\* 'q' is read by a worker that takes its StdinTask now, or by a blocked one.
ReadsQ == \/ Free /\ UNCHANGED blocked
          \/ blocked > 0 /\ blocked' = blocked - 1

\* Faulty variant of Quit: the reactor is not told.
QuitSilently == /\ main = "run" /\ disc["worker"] = "idle" /\ ReadsQ
                /\ open' = open \ {"app"}
                /\ disc' = [disc EXCEPT !["worker"] = "ioctl"]
                /\ UNCHANGED <<main, m_sp, m_nbd_fd, threadVars, tasks, ended,
                               kernelVars, signalVars, historyVars, crash>>

\* 'q': RequestEngine::Stop closes the socket by its number; then Disconnect.
Quit == /\ main = "run" /\ disc["worker"] = "idle" /\ ReadsQ
        /\ told' = TRUE
        /\ open' = open \ {"app"}
        /\ disc' = [disc EXCEPT !["worker"] = "ioctl"]
        /\ UNCHANGED <<main, m_sp, m_nbd_fd, listener, joinable, reactor, tasks,
                       ended, kernelVars, signalVars, historyVars, crash>>

-----------------------------------------------------------------------------
(* Disconnect.                                                             *)

Attached == conn \in {"set", "up"}

\* ioctl(NBD_DISCONNECT): the kernel sends NBD_CMD_DISC on its connection.
Accepted == stream' = IF Attached THEN Append(stream, "disc") ELSE stream
Refused  == ~Attached /\ UNCHANGED stream

Goto(p, where) == disc' = [disc EXCEPT ![p] = where]

\* The NBDError of disconnect_nbd ends the worker, or is caught by the destructor.
Denied(p) == /\ Goto(p, "done") /\ refused' = refused \cup {p}
             /\ ended' = IF p = "worker" THEN ended + 1 ELSE ended

RequestDisconnect(p) ==
  /\ disc[p] = "ioctl"
  /\ \/ Accepted /\ Goto(p, "close") /\ UNCHANGED <<refused, ended>>
     \/ Refused /\ Denied(p)
  /\ UNCHANGED <<main, fdVars, threadVars, tasks, blocked, conn, sent, unexpected,
                 signalVars, unset, crash>>

\* The two CloseFD; the second is not reached when the first throws.
CloseDescriptors(p) ==
  /\ disc[p] = "close"
  /\ IF CloseThrows(m_sp.app, open)
       THEN Goto(p, "join") /\ UNCHANGED fdVars
       ELSE LET left == OpenAfterClose(m_sp.app, open) IN
            /\ m_sp' = [m_sp EXCEPT !.app = AfterClose(@)]
            /\ IF CloseThrows(m_nbd_fd, left)
                 THEN Goto(p, "join") /\ open' = left /\ UNCHANGED m_nbd_fd
                 ELSE /\ Goto(p, "done")
                      /\ open' = OpenAfterClose(m_nbd_fd, left)
                      /\ m_nbd_fd' = AfterClose(m_nbd_fd)
  /\ UNCHANGED <<main, threadVars, poolVars, kernelVars, signalVars, historyVars, crash>>

\* Faulty variant of JoinListener: the listener is not waited for.
DetachListener(p) ==
  /\ disc[p] = "join"
  /\ joinable' = FALSE /\ Goto(p, "done")
  /\ UNCHANGED <<main, fdVars, listener, reactor, told, poolVars, kernelVars,
                 signalVars, historyVars, crash>>

\* Faulty variant of JoinListener: the handler does nothing.
LeaveListener(p) ==
  /\ disc[p] = "join"
  /\ Goto(p, "done")
  /\ UNCHANGED <<main, fdVars, threadVars, poolVars, kernelVars, signalVars,
                 historyVars, crash>>

\* The handler of the FDError.  Its system("nbd-client -d /dev/nbd0") comes after
\* the listener has cleared the connection, which it does nothing to.
JoinListener(p) ==
  /\ disc[p] = "join"
  /\ joinable => listener = "ended"
  /\ joinable' = FALSE /\ Goto(p, "done")
  /\ UNCHANGED <<main, fdVars, listener, reactor, told, poolVars, kernelVars,
                 signalVars, historyVars, crash>>

Disconnect(p) == RequestDisconnect(p) \/ CloseDescriptors(p) \/ JoinListener(p)

-----------------------------------------------------------------------------
(* Signals.                                                                *)

Signal == /\ signals < MaxSignals /\ main # "returned"
          /\ signals' = signals + 1 /\ pending' = TRUE
          /\ UNCHANGED <<main, fdVars, threadVars, disc, poolVars, kernelVars,
                         historyVars, crash>>

\* Faulty variant of Masked: BlockSignals is left out.
MaskedNever == FALSE

Masked  == main \in {"blocked", "started"}
Handled == main \in {"handling", "run", "dtor"}

\* The default action.
SignalKills == /\ pending /\ main # "returned"
               /\ ~Masked /\ ~Handled
               /\ crash' = "killed"
               /\ UNCHANGED <<main, fdVars, threadVars, disc, poolVars, kernelVars,
                              signalVars, historyVars>>

(***************************************************************************)
(* disconnect_nbd as a handler.  Its NBDError may meet a handler of the    *)
(* code that it interrupts: WorkerFunc's, which ends the worker with the   *)
(* task or the Disconnect that it is in, the destructor's around           *)
(* Disconnect, or main's while the engine is set up.                       *)
(***************************************************************************)
SignalEndsWorker ==
  /\ main = "run"
  /\ \/ /\ Quitting /\ Denied("worker")
        /\ UNCHANGED <<tasks, blocked>>
     \/ /\ blocked > 0 /\ blocked' = blocked - 1 /\ ended' = ended + 1
        /\ UNCHANGED <<tasks, disc, refused>>
     \/ /\ Free /\ ended' = ended + 1
        /\ \/ UNCHANGED tasks
           \/ \E k \in Command : /\ tasks[k] > 0
                                /\ tasks' = [tasks EXCEPT ![k] = @ - 1]
        /\ UNCHANGED <<blocked, disc, refused>>
  /\ UNCHANGED <<main, unset>>

SignalCaughtByMain ==
  /\ \/ /\ main = "dtor" /\ Disconnecting("main") /\ Denied("main")
        /\ UNCHANGED <<main, unset>>
     \/ /\ main = "handling"
        /\ main' = "dtor" /\ Goto("main", "ioctl") /\ unset' = TRUE
        /\ UNCHANGED <<refused, ended>>
  /\ UNCHANGED <<tasks, blocked>>

(***************************************************************************)
(* Elsewhere, in the reactor or at a noexcept function, the NBDError is    *)
(* std::terminate.  SA_RESTART does not restart epoll_wait: its EINTR is   *)
(* an exception that leaves the reactor.                                   *)
(***************************************************************************)
HandleSignal(thread) ==
  /\ pending /\ Handled
  /\ thread = "reactor" => reactor = "run"
  /\ pending' = FALSE
  /\ \/ /\ Refused /\ crash' = "handler"
        /\ UNCHANGED <<main, disc, poolVars, refused, unset>>
     \/ /\ Refused /\ UNCHANGED crash
        /\ \/ thread = "worker" /\ SignalEndsWorker
           \/ thread = "main" /\ SignalCaughtByMain
     \/ /\ Accepted
        /\ IF thread = "reactor" THEN crash' = "eintr" ELSE UNCHANGED crash
        /\ UNCHANGED <<main, disc, poolVars, refused, unset>>
  /\ UNCHANGED <<fdVars, threadVars, conn, sent, unexpected, signals>>

-----------------------------------------------------------------------------
(* The kernel.                                                             *)

SendRequest == /\ conn = "up" /\ sent < MaxRequests
               /\ sent' = sent + 1 /\ stream' = Append(stream, "request")
               /\ UNCHANGED <<main, fdVars, threadVars, disc, poolVars, conn,
                              unexpected, signalVars, historyVars, crash>>

ShutDown == /\ conn = "up"
            /\ conn' = "down"
            /\ UNCHANGED <<main, fdVars, threadVars, disc, poolVars, stream, sent,
                           unexpected, signalVars, historyVars, crash>>

\* The kernel must end the connection; without a reason, it may.
EndConnection == (unexpected \/ "app" \notin open) /\ ShutDown

Next == /\ crash = "none"
        /\ \/ Main \/ Listener
           \/ Receive \/ ReceiveEof \/ StopReactor
           \/ \E k \in Command : SendReply(k)
           \/ ReadBlocks \/ ReadKey \/ Quit
           \/ \E p \in Caller : Disconnect(p)
           \/ Signal \/ SignalKills
           \/ \E thread \in {"main", "reactor", "worker"} : HandleSignal(thread)
           \/ SendRequest \/ ShutDown

Spec == Init /\ [][Next]_vars

\* The threads run and the kernel ends a connection that is over; a key that
\* would release a blocked worker need not come.
Fairness ==
  LET Running(A) == crash = "none" /\ A IN
  /\ WF_vars(Running(Main)) /\ WF_vars(Running(Listener))
  /\ WF_vars(Running(Receive \/ ReceiveEof)) /\ WF_vars(Running(StopReactor))
  /\ \A k \in Command : WF_vars(Running(SendReply(k)))
  /\ \A p \in Caller : WF_vars(Running(Disconnect(p)))
  /\ WF_vars(Running(EndConnection))

FairSpec == Spec /\ Fairness

-----------------------------------------------------------------------------
\* The types of the members, of the threads' places and of the kernel's state.
TypeOK ==
  /\ main \in {"start", "sockets", "opened", "setup", "blocked", "started",
               "unblocked", "handling", "run", "dtor", "returned"}
  /\ open \subseteq {"app", "sock", "dev"}
  /\ \A o \in {m_sp.app, m_sp.sock, m_nbd_fd} :
       o.count \in 0..1 /\ o.fd \in {None, "app", "sock", "dev"}
  /\ listener \in {"none", "set_sock", "do_it", "in kernel", "clear", "ended"}
  /\ reactor \in {"none", "run", "ended"}
  /\ disc \in [Caller -> {"idle", "ioctl", "close", "join", "done"}]
  /\ \A k \in Command : tasks[k] \in Nat
  /\ blocked \in Nat /\ ended \in Nat /\ blocked + ended <= PoolSize
  /\ conn \in {"none", "set", "up", "down", "clear"}
  /\ stream \in Seq(Command)
  /\ sent \in 0..MaxRequests /\ signals \in 0..MaxSignals
  /\ {joinable, told, unexpected, pending, unset} \subseteq BOOLEAN
  /\ refused \subseteq Caller
  /\ crash \in {"none", "uncaught", "joinable", "listener", "eof", "reply",
                "killed", "handler", "eintr"}

(***************************************************************************)
(* When main returns, the device is free again: the listener has cleared   *)
(* it and has been joined, and both ends of the socket pair are closed.    *)
(***************************************************************************)
CleanReturn ==
  main = "returned" => /\ listener \in {"none", "ended"} /\ ~joinable
                       /\ conn \in {"none", "clear"}
                       /\ open \subseteq {"dev"}

(***************************************************************************)
(* Disconnect joins the listener only in the handler of an FDError, yet    *)
(* the destructor finds it joined unless the engine was never set up, so   *)
(* that nobody closed the socket before, or the kernel refused both the    *)
(* worker's NBD_DISCONNECT and the destructor's.                           *)
(***************************************************************************)
ListenerJoined == crash = "joinable" => unset \/ refused = Caller

(***************************************************************************)
(* A signal kills the process only while there is no listener, thanks to   *)
(* BlockSignals, or in the moment when SetSignalHandlerForApp has unblocked*)
(* the signals and not yet set their handler.                              *)
(***************************************************************************)
KilledDetached == crash = "killed" => listener = "none" \/ main = "unblocked"

Ended == main = "returned" \/ crash # "none"

(***************************************************************************)
(* Once a worker has begun to quit, the process comes to an end, unless    *)
(* another worker is blocked in read(STDIN), whose join in ~ThreadPool     *)
(* waits for a key that need not come.                                     *)
(***************************************************************************)
QuitEnds == disc["worker"] = "ioctl" ~> Ended \/ blocked > 0

(***************************************************************************)
(* A disconnection that the kernel announces, on a signal or on Disconnect,*)
(* ends the process, unless NBD_DO_IT itself failed, in which case the     *)
(* program waits for requests that never come, or the workers that are     *)
(* left are all blocked in read(STDIN), so that nobody replies to          *)
(* NBD_CMD_DISC, or one of them is so when somebody has quit.              *)
(***************************************************************************)
DisconnectEnds ==
  (\E n \in DOMAIN stream : stream[n] = "disc")
    ~> \/ Ended \/ conn = "none"
       \/ AllBlocked \/ (told /\ blocked > 0)
=============================================================================
