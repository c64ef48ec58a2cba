------------------------- MODULE RequestEngine_proofs -------------------------
(***************************************************************************)
(* Theorems of RequestEngine for any number of workers, keys and requests: *)
(* its types, and the order in which the engine comes apart.               *)
(***************************************************************************)
EXTENDS RequestEngine, FiniteSetTheorems, TLAPS

\* No more requests are in the socket than were sent.
Received == socket <= sent

\* The reactor has ended when the destructor is past the join.
JoinedFirst == main # "join" => reactor = "ended"

\* Only the byte that Stop writes ends the reactor.
EndedByPipe == reactor = "ended" \/ "pipe" \in events => pipe

\* Only a reactor in the middle of a turn has events.
EventsInTurn == events # {} => reactor = "events"

\* Whoever wrote the byte closes the sources.
PipeCloses == pipe => SourcesClosed

PipeClosed == main \notin {"join", "close"} => "pipe" \notin open

AllEnded == main = "returned" => \A w \in Worker : worker[w] = "exit"

IInv == /\ TypeOK /\ Received /\ JoinedFirst /\ EndedByPipe /\ EventsInTurn
        /\ PipeCloses /\ PipeClosed /\ AllEnded

USE DEF Source, Event

\* The engine starts with everything open and nothing to do.
LEMMA InitIInv == Init => IInv
<1> HAVE Init
<1>1. Flags
  BY DEF Init, Flags
<1>2. Values
  BY RequestEngineAssumption DEF Init, Values
<1>3. Received
  BY DEF Init, Received
<1> QED
  BY <1>1, <1>2, <1>3
     DEF Init, IInv, TypeOK, JoinedFirst, EndedByPipe, EventsInTurn,
         PipeCloses, PipeClosed, AllEnded

\* The invariant is strong enough for the order of destruction.
LEMMA InvImplies == IInv => OrderlyEnd
<1> HAVE IInv
<1> USE DEF IInv
<1>1. main # "join" => reactor = "ended" /\ events = {} /\ SourcesClosed
  BY DEF JoinedFirst, EndedByPipe, EventsInTurn, PipeCloses
<1>2. main = "returned" => open = {} /\ \A w \in Worker : worker[w] = "exit"
  <2> HAVE main = "returned"
  <2>1. \A w \in Worker : worker[w] = "exit"
    BY DEF AllEnded
  <2>2. open \cap Source = {}
    BY <1>1, <2>1 DEF SourcesClosed
  <2>3. "pipe" \notin open
    BY DEF PipeClosed
  <2> QED
    BY <2>1, <2>2, <2>3 DEF TypeOK, Values
<1> QED
  BY <1>1, <1>2 DEF OrderlyEnd

\* Keys and requests arrive without touching the engine.
LEMMA InputsStep ==
  ASSUME IInv, (\E key \in {"q", "x"} : Press(key)) \/ SendRequest \/ ShutDown
  PROVE  IInv'
<1> USE DEF IInv, vars, kernelVars, reactorVars, poolVars, workerVars, mainVars,
            endVars
<1>1. Flags' /\ Values' /\ Received'
  <2>1. Flags'
    BY DEF TypeOK, Flags, Press, SendRequest, ShutDown
  <2>2. Values' /\ Received'
    <3>1. ASSUME NEW key \in {"q", "x"}, Press(key)
          PROVE  Values' /\ Received'
      BY <3>1, RequestEngineAssumption DEF TypeOK, Values, Received, Press
    <3>2. CASE SendRequest
      BY <3>2, RequestEngineAssumption DEF TypeOK, Values, Received, SendRequest
    <3>3. CASE ShutDown
      BY <3>3 DEF TypeOK, Values, Received, ShutDown
    <3> QED
      BY <3>1, <3>2, <3>3
  <2> QED
    BY <2>1, <2>2
<1>2. UNCHANGED <<open, pipe, reactor, events, worker, todo, main>>
  BY DEF Press, SendRequest, ShutDown
<1> QED
  BY <1>1, <1>2 DEF TypeOK, JoinedFirst, EndedByPipe, EventsInTurn, PipeCloses,
                    SourcesClosed, PipeClosed, AllEnded

\* A turn of the reactor: it moves only by its events.
LEMMA ReactorStep == ASSUME IInv, Reactor PROVE IInv'
<1> USE DEF IInv, kernelVars, inputVars, poolVars, workerVars, mainVars, endVars
<1>1. UNCHANGED <<open, pipe, worker, todo, main>>
  BY DEF Reactor, EpollWait, HandlePipe, HandleStdin, HandleNbd, HandleNbdEof,
         HandleNbdClosed
<1>2. PipeCloses' /\ PipeClosed' /\ AllEnded'
  BY <1>1 DEF PipeCloses, SourcesClosed, PipeClosed, AllEnded
<1>3. reactor # "ended"
  BY DEF Reactor, EpollWait, HandlePipe, HandleStdin, HandleNbd,
         HandleNbdEof, HandleNbdClosed, Handled, EventsInTurn
<1>4. main = "join"
  BY <1>3 DEF JoinedFirst
<1>0. Flags'
  BY DEF TypeOK, Flags, Reactor, EpollWait, HandlePipe, HandleStdin, HandleNbd,
         HandleNbdEof, HandleNbdClosed
<1>5. CASE EpollWait
  <2>1. Values' /\ Received'
    BY <1>5 DEF EpollWait, Ready, TypeOK, Values, Received
  <2> QED
    BY <1>0, <1>1, <1>2, <1>4, <1>5, <2>1
       DEF TypeOK, EpollWait, Ready, JoinedFirst, EndedByPipe, EventsInTurn
<1>6. CASE HandlePipe
  <2>1. Values' /\ Received'
    BY <1>6 DEF HandlePipe, TypeOK, Values, Received
  <2> QED
    BY <1>0, <1>1, <1>2, <1>4, <1>6, <2>1
       DEF TypeOK, HandlePipe, JoinedFirst, EndedByPipe, EventsInTurn
<1>8. CASE HandleNbdEof
  <2>1. Values' /\ Received'
    BY <1>8 DEF HandleNbdEof, reactorVars, TypeOK, Values, Received
  <2> QED
    BY <1>0, <1>1, <1>2, <1>4, <1>8, <2>1
       DEF TypeOK, HandleNbdEof, reactorVars, JoinedFirst, EndedByPipe, EventsInTurn
<1>7. CASE HandleStdin \/ HandleNbd \/ HandleNbdClosed
  <2>1. PICK e \in {"NBD", "STDIN"} : Handled(e)
    BY <1>7 DEF HandleStdin, HandleNbd, HandleNbdClosed
  <2>2. reactor = "events"
    BY <2>1 DEF Handled, EventsInTurn
  <2>3. EndedByPipe' /\ EventsInTurn' /\ JoinedFirst'
    BY <1>1, <1>4, <2>1, <2>2
       DEF Handled, EndedByPipe, EventsInTurn, JoinedFirst
  <2>4. Values'
    <3>1. events' \subseteq Event /\ reactor' \in {"wait", "events", "ended"}
      BY <2>1 DEF Handled, TypeOK, Values
    <3>2. socket' \in 0..MaxRequests
      BY <1>7, RequestEngineAssumption
         DEF HandleStdin, HandleNbd, HandleNbdClosed, Handled, Received, TypeOK,
             Values
    <3>3. assertion' \in {"none", "read_all", "write_all"}
      BY <1>7 DEF HandleStdin, HandleNbd, HandleNbdClosed, TypeOK, Values
    <3>4. queue' = queue \/ \E s \in Source : AddTask(s)
      BY <1>7 DEF HandleStdin, HandleNbd, HandleNbdClosed
    <3>5. queue' \in [Source -> Nat]
      BY <3>4 DEF AddTask, TypeOK, Values
    <3> QED
      BY <1>7, <3>1, <3>2, <3>3, <3>5
         DEF HandleStdin, HandleNbd, HandleNbdClosed, TypeOK, Values
  <2>5. Received'
    BY <1>7 DEF HandleStdin, HandleNbd, HandleNbdClosed, Handled, Received,
                TypeOK, Values
  <2> QED
    BY <1>0, <1>2, <2>3, <2>4, <2>5 DEF TypeOK
<1> QED
  BY <1>5, <1>6, <1>7, <1>8 DEF Reactor

\* A worker that executes a task or ends does not touch the descriptors.
LEMMA TaskStep ==
  ASSUME IInv, NEW w \in Worker,
         \/ \E s \in Source : PopTask(w, s)
         \/ PopStop(w) \/ RunNbd(w)
         \/ ReadKey(w) \/ ReadBlocks(w) \/ ReadFails(w)
         \/ StopWriteFails(w)
  PROVE  IInv'
<1> USE DEF IInv, kernelVars, inputVars, reactorVars, poolVars, workerVars,
            mainVars, endVars
<1>1. UNCHANGED <<open, pipe, reactor, events, socket, sent, todo, main>>
  BY DEF PopTask, PopStop, RunNbd, ReadKey, ReadBlocks, ReadFails,
         StopWriteFails
<1>2. worker[w] \notin {"sources", "exit"}
  BY DEF PopTask, PopStop, RunNbd, ReadKey, ReadBlocks, ReadFails,
         StopWriteFails
<1>3. /\ worker' \in [Worker -> {"pop", "NBD", "STDIN", "blocked", "stop",
                                "sources", "exit"}]
      /\ \A v \in Worker \ {w} : worker'[v] = worker[v]
  BY DEF PopTask, PopStop, RunNbd, ReadKey, ReadBlocks, ReadFails,
         StopWriteFails, Goto, TypeOK, Values
<1>0. Flags'
  BY DEF PopTask, PopStop, RunNbd, ReadKey, ReadBlocks, ReadFails,
         StopWriteFails, TypeOK, Flags
<1>4. Values'
  <2>1. queue' \in [Source -> Nat] /\ stops' \in Nat
    BY DEF PopTask, PopStop, RunNbd, ReadKey, ReadBlocks, ReadFails,
           StopWriteFails, TypeOK, Values
  <2>2. stdin' \in Seq({"q", "x"}) /\ typed' = typed
    <3>1. CASE ReadKey(w)
      BY <3>1 DEF ReadKey, TypeOK, Values
    <3>2. CASE ~ReadKey(w)
      BY <3>2 DEF PopTask, PopStop, RunNbd, ReadBlocks, ReadFails,
                  StopWriteFails, TypeOK, Values
    <3> QED
      BY <3>1, <3>2
  <2>3. /\ replied' \in Nat
        /\ assertion' \in {"none", "read_all", "write_all"}
        /\ epoll' = epoll /\ left' = left
    <3>1. CASE RunNbd(w)
      BY <3>1 DEF RunNbd, TypeOK, Values
    <3>2. CASE ~RunNbd(w)
      BY <3>2 DEF PopTask, PopStop, ReadKey, ReadBlocks, ReadFails,
                  StopWriteFails, TypeOK, Values
    <3> QED
      BY <3>1, <3>2
  <2> QED
    BY <1>1, <1>3, <2>1, <2>2, <2>3 DEF TypeOK, Values
<1>5. PipeCloses'
  <2> SUFFICES ASSUME pipe, ~(open \cap Source = {}) PROVE SourcesClosed'
    BY <1>1 DEF PipeCloses, SourcesClosed
  <2>1. PICK v \in Worker : /\ worker[v] = "sources"
                            /\ open \cap Source \subseteq todo[v]
    BY DEF PipeCloses, SourcesClosed
  <2> QED
    BY <1>1, <1>2, <1>3, <2>1 DEF SourcesClosed
<1>6. AllEnded'
  BY <1>1, <1>2 DEF AllEnded
<1> QED
  BY <1>0, <1>1, <1>4, <1>5, <1>6
     DEF TypeOK, Received, JoinedFirst, EndedByPipe, EventsInTurn, PipeClosed

\* RequestEngine::Stop: who writes the byte has the sources to close.
LEMMA StopStep ==
  ASSUME IInv, NEW w \in Worker,
         \/ StopWrite(w) \/ StopWriteFreed(w)
         \/ StopSource(w) \/ StopDangling(w) \/ Disconnect(w)
  PROVE  IInv'
<1> USE DEF IInv, kernelVars, inputVars, reactorVars, poolVars, workerVars,
            mainVars, endVars
<1>1. /\ UNCHANGED <<reactor, events, socket, sent, main>>
      /\ pipe => pipe'
      /\ open' \subseteq open
  BY DEF StopWrite, StopWriteFreed, StopSource, StopDangling, Disconnect
<1>2. worker[w] # "exit"
  BY DEF StopWrite, StopWriteFreed, StopSource, StopDangling, Disconnect
<1>0. Flags'
  BY DEF StopWrite, StopWriteFreed, StopSource, StopDangling, Disconnect, TypeOK, Flags
<1>3. Values'
  <2>1. CASE StopWrite(w)
    BY <2>1 DEF StopWrite, Goto, TypeOK, Values
  <2>2. CASE StopSource(w)
    BY <2>2 DEF StopSource, TypeOK, Values
  <2>3. CASE StopDangling(w)
    BY <2>3 DEF StopDangling, TypeOK, Values
  <2>4. CASE Disconnect(w)
    BY <2>4 DEF Disconnect, Goto, TypeOK, Values
  <2>5. CASE StopWriteFreed(w)
    <3>1. UNCHANGED <<epoll, open, stdin, typed, sent, socket, reactor, events, queue,
                      stops, main, left, replied, assertion>>
      BY <2>5 DEF StopWriteFreed, kernelVars, inputVars, reactorVars, poolVars, mainVars
    <3>2. \/ UNCHANGED <<worker, todo>>
          \/ /\ worker' = [worker EXCEPT ![w] = "sources"]
             /\ \E rest \in SUBSET Source : todo' = [todo EXCEPT ![w] = rest]
      BY <2>5 DEF StopWriteFreed, Goto, workerVars
    <3> HIDE DEF Source
    <3>3. worker' \in [Worker -> {"pop", "NBD", "STDIN", "blocked", "stop",
                                  "sources", "exit"}]
      BY <3>2 DEF TypeOK, Values
    <3>4. todo' \in [Worker -> SUBSET Source]
      BY <3>2 DEF TypeOK, Values
    <3> QED
      BY <3>1, <3>3, <3>4 DEF TypeOK, Values
  <2> QED
    BY <2>1, <2>2, <2>3, <2>4, <2>5
<1>4. PipeCloses'
  <2>1. CASE StopWrite(w)
    BY <2>1 DEF StopWrite, Goto, TypeOK, Values, PipeCloses, SourcesClosed
  <2>2. CASE StopSource(w)
    BY <2>2 DEF StopSource, TypeOK, Values, PipeCloses, SourcesClosed
  <2>3. CASE StopDangling(w)
    BY <2>3 DEF StopDangling, PipeCloses, SourcesClosed
  <2>4. CASE Disconnect(w)
    BY <2>4 DEF Disconnect, Goto, TypeOK, Values, PipeCloses, SourcesClosed
  <2>5. CASE StopWriteFreed(w)
    BY <2>5 DEF StopWriteFreed, Goto, TypeOK, Values, PipeCloses, SourcesClosed
  <2> QED
    BY <2>1, <2>2, <2>3, <2>4, <2>5
<1>5. AllEnded'
  BY <1>1, <1>2 DEF AllEnded
<1> QED
  BY <1>0, <1>1, <1>3, <1>4, <1>5
     DEF TypeOK, Received, JoinedFirst, EndedByPipe, EventsInTurn, PipeClosed

\* The destructor goes from one member to the next.
LEMMA MainStep == ASSUME IInv, Main PROVE IInv'
<1> USE DEF IInv, kernelVars, inputVars, reactorVars, poolVars, workerVars,
            mainVars, endVars
<1>1. /\ UNCHANGED <<pipe, reactor, events, socket, sent, worker, todo>>
      /\ open' \cap Source = open \cap Source
  BY DEF Main, JoinReactor, ClosePipe, DestroySources, PushStop, JoinWorkers
<1>0. Flags'
  BY DEF Main, JoinReactor, ClosePipe, DestroySources, PushStop, JoinWorkers,
         TypeOK, Flags
<1>2. Values'
  <2>1. Cardinality(Worker) \in Nat
    BY FS_CardinalityType, RequestEngineAssumption
  <2>2. CASE JoinReactor \/ ClosePipe \/ JoinWorkers
    BY <2>2 DEF JoinReactor, ClosePipe, JoinWorkers, TypeOK, Values
  <2>3. CASE DestroySources
    BY <2>1, <2>3 DEF DestroySources, TypeOK, Values
  <2>4. CASE PushStop
    BY <2>4 DEF PushStop, TypeOK, Values
  <2> QED
    BY <2>2, <2>3, <2>4 DEF Main
<1>3. JoinedFirst' /\ PipeClosed' /\ AllEnded'
  BY DEF Main, JoinReactor, ClosePipe, DestroySources, PushStop, JoinWorkers,
         JoinedFirst, PipeClosed, AllEnded
<1>4. PipeCloses'
  BY <1>1 DEF PipeCloses, SourcesClosed
<1> QED
  BY <1>0, <1>1, <1>2, <1>3, <1>4 DEF TypeOK, Received, EndedByPipe, EventsInTurn

\* The invariant of the engine.
THEOREM Invariance == Spec => []IInv
<1>1. IInv /\ UNCHANGED vars => IInv'
  BY DEF IInv, vars, kernelVars, inputVars, reactorVars, poolVars, workerVars,
         mainVars, endVars, TypeOK, Flags, Values, Received, JoinedFirst, EndedByPipe,
         EventsInTurn, PipeCloses, SourcesClosed, PipeClosed, AllEnded
<1>2. IInv /\ Next => IInv'
  BY InputsStep, ReactorStep, TaskStep, StopStep, MainStep DEF Next, Execute
<1> QED
  BY InitIInv, <1>1, <1>2, PTL DEF Spec

\* The state of the engine and of its environment has its types, for any
\* number of workers, keys and requests.
THEOREM TypeCorrect == Spec => []TypeOK
<1>1. IInv => TypeOK
  BY DEF IInv
<1> QED
  BY Invariance, <1>1, PTL

\* ~RequestEngine destroys its members after the reactor has ended, and leaves
\* no source open and no worker behind, although it does not wait for Stop.
THEOREM EndsInOrder == Spec => []OrderlyEnd
BY Invariance, InvImplies, PTL

\* Until somebody quits everything is open, and nothing has failed but what the
\* end of the connection makes fail.
UntilQuit ==
  ~pipe => /\ open = Event
           /\ ~garbage /\ (crashed => ~up)
           /\ \A w \in Worker : worker[w] # "sources"

\* Without a byte in the pipe no step closes, misreads or crashes.
LEMMA UntilQuitStep ==
  ASSUME IInv, UntilQuit, Next
  PROVE  UntilQuit'
<1> USE DEF kernelVars, inputVars, reactorVars, poolVars, workerVars, mainVars,
            endVars
<1> SUFFICES ASSUME ~pipe' PROVE UntilQuit'
  BY DEF UntilQuit
<1>1. ~pipe
  BY DEF Next, Press, SendRequest, ShutDown, Reactor, EpollWait, HandlePipe, HandleStdin,
         HandleNbd, HandleNbdEof, HandleNbdClosed, Main, JoinReactor, ClosePipe,
         DestroySources, PushStop, JoinWorkers, Execute, PopTask, PopStop,
         RunNbd, ReadKey, ReadBlocks, ReadFails, StopWrite, StopWriteFails,
         StopWriteFreed, StopSource, StopDangling, Disconnect
<1>2. /\ open = Event /\ ~garbage /\ ~crashed
      /\ \A w \in Worker : worker[w] # "sources"
      /\ main = "join" /\ reactor # "ended"
  BY <1>1 DEF UntilQuit, IInv, EndedByPipe, JoinedFirst, Next
<1>3. CASE (\E key \in {"q", "x"} : Press(key)) \/ SendRequest \/ ShutDown
  BY <1>2, <1>3 DEF Press, SendRequest, ShutDown, UntilQuit
<1>4. CASE Reactor
  BY <1>2, <1>4 DEF Reactor, EpollWait, HandlePipe, HandleStdin, HandleNbd,
                    HandleNbdEof, HandleNbdClosed, UntilQuit
<1>5. CASE Main
  BY <1>2, <1>5 DEF Main, JoinReactor, ClosePipe, DestroySources, PushStop,
                    JoinWorkers
<1>6. ASSUME NEW w \in Worker, Execute(w) PROVE UntilQuit'
  <2>1. /\ ~StopWrite(w) /\ ~StopWriteFreed(w) /\ ~StopSource(w)
        /\ ~StopDangling(w) /\ ~Disconnect(w)
    BY <1>2 DEF StopWrite, StopWriteFreed, StopSource, StopDangling, Disconnect
  <2>2. UNCHANGED <<open, garbage, up>> /\ (crashed' => ~up)
    BY <1>2, <1>6, <2>1 DEF Execute, PopTask, PopStop, RunNbd, ReadKey,
                            ReadBlocks, ReadFails, StopWriteFails
  <2>3. \A v \in Worker : worker'[v] # "sources"
    BY <1>2, <1>6, <2>1
       DEF Execute, PopTask, PopStop, RunNbd, ReadKey, ReadBlocks, ReadFails,
           StopWriteFails, Goto, IInv, TypeOK, Values
  <2> QED
    BY <1>2, <2>2, <2>3 DEF UntilQuit
<1> QED
  BY <1>3, <1>4, <1>5, <1>6 DEF Next

(***************************************************************************)
(* Whatever keys and requests come, before a Stop has written its byte no  *)
(* failed read becomes a request, and nothing ends the process unless the  *)
(* kernel has shut the connection down (re_fw.hpp:147-160 and 170-185,     *)
(* nbd_driver_communicator.cpp:66-80 and 266-277).                         *)
(***************************************************************************)
THEOREM SoundBeforeStop == Spec => []SoundUntilQuit
<1>1. Init => UntilQuit
  BY DEF Init, UntilQuit
<1>2. IInv /\ UntilQuit /\ [Next]_vars => UntilQuit'
  BY UntilQuitStep
     DEF vars, kernelVars, inputVars, workerVars, endVars, UntilQuit
<1>3. UntilQuit => SoundUntilQuit
  BY DEF UntilQuit, SoundUntilQuit
<1> QED
  BY Invariance, <1>1, <1>2, <1>3, PTL DEF Spec
=============================================================================
