------------------------- MODULE NbdLifecycle_proofs -------------------------
(***************************************************************************)
(* For any number of requests and of signals: what main leaves behind when *)
(* it returns, who has joined the listener, and when a signal kills.       *)
(***************************************************************************)
EXTENDS NbdLifecycle, SequenceTheorems, TLAPS

(***************************************************************************)
(* The types, in the parts that an action leaves alone or not.             *)
(***************************************************************************)
Places ==
  /\ main \in {"start", "sockets", "opened", "setup", "blocked", "started",
               "unblocked", "handling", "run", "dtor", "returned"}
  /\ listener \in {"none", "set_sock", "do_it", "in kernel", "clear", "ended"}
  /\ reactor \in {"none", "run", "ended"}
  /\ disc \in [Caller -> {"idle", "ioctl", "close", "join", "done"}]

Objects ==
  /\ open \subseteq {"app", "sock", "dev"}
  /\ \A o \in {m_sp.app, m_sp.sock, m_nbd_fd} :
       o.count \in 0..1 /\ o.fd \in {None, "app", "sock", "dev"}

Flags == {joinable, told, unexpected, pending, unset} \subseteq BOOLEAN

Kernel == /\ conn \in {"none", "set", "up", "down", "clear"}
          /\ stream \in Seq(Command) /\ sent \in 0..MaxRequests

Ends == /\ refused \subseteq Caller
        /\ crash \in {"none", "uncaught", "joinable", "listener", "eof", "reply",
                      "killed", "handler", "eintr"}

Signals == signals \in 0..MaxSignals

Tasks == tasks \in [Command -> Nat] /\ blocked \in Nat /\ ended \in Nat

Types == /\ Places /\ Objects /\ Flags /\ Kernel /\ Ends /\ Signals /\ Tasks

\* A descriptor that Assigned has given its number, or that was closed since.
Held(fd) == [fd |-> fd, count |-> 0]

(***************************************************************************)
(* The socket pair is closed by its objects; the device never is, since    *)
(* the count of a FileDescriptor that open made stays 1.  An object of the *)
(* application's end without a number is one that was closed.              *)
(***************************************************************************)
Descriptors ==
  /\ m_nbd_fd \in {Make(None), Make("dev")}
  /\ main = "start" => m_sp = [app |-> Make(None), sock |-> Make(None)] /\ open = {}
  /\ main # "start" => m_sp \in [app : {Held("app"), Held(None)}, sock : {Held("sock")}]
  /\ main # "start" /\ m_sp.app = Held(None) => "app" \notin open

\* The listener sets the kernel's connection up and clears it.
Connection ==
  /\ listener \in {"none", "set_sock"} => conn = "none"
  /\ listener = "do_it" => conn = "set"
  /\ listener = "in kernel" => conn \in {"up", "down"}
  /\ listener = "clear" => conn \in {"set", "down"}
  /\ listener = "ended" => conn \in {"none", "clear"}

\* Who starts the listener, and that it is joined only when it has ended.
Joined ==
  /\ main \in {"start", "sockets", "opened", "setup", "blocked"} => listener = "none"
  /\ main \in {"started", "unblocked", "handling", "run", "dtor"} => listener # "none"
  /\ joinable => listener # "none"
  /\ ~joinable => listener \in {"none", "ended"}

(***************************************************************************)
(* A worker that quits has closed the socket by its number, under the      *)
(* object that still holds it, before it disconnects: that is why the      *)
(* object's CloseFD throws, and why the handler joins the listener.        *)
(***************************************************************************)
QuitCloses ==
  /\ disc["worker"] # "idle" => m_sp.app = Held("app") /\ "app" \notin open
  /\ main # "start" /\ m_sp.app # Held("app") => unset

\* The worker disconnects in Run; the destructor after it, if there was a Run.
Turns == /\ disc["worker"] # "idle" => main \in {"run", "dtor", "returned"} /\ ~unset
         /\ disc["main"] # "idle" => main \in {"dtor", "returned"}
         /\ unset => main \in {"dtor", "returned"}
         /\ main = "dtor" => unset \/ disc["worker"] = "done"
         /\ main = "returned" => \A p \in Caller : disc[p] \in {"idle", "done"}

\* No more workers are blocked, ended or in Disconnect than there are.
Occupied == Busy <= PoolSize

\* Disconnect has joined the listener, unless the kernel refused.
Disconnected ==
  \A p \in Caller : disc[p] = "done" => unset \/ p \in refused \/ ~joinable

Safe == CleanReturn /\ ListenerJoined /\ KilledDetached

IInv == /\ Types /\ Descriptors /\ Connection /\ Joined /\ QuitCloses
        /\ Turns /\ Occupied /\ Disconnected /\ Safe

LEMMA TypeParts == Types /\ Occupied => TypeOK
<1>1. ASSUME NEW b \in Nat, NEW e \in Nat, NEW q \in 0..1, b + e + q <= PoolSize
      PROVE  b + e <= PoolSize
  BY <1>1, NbdLifecycleAssumption
<1>2. Types /\ Occupied => blocked + ended <= PoolSize
  BY <1>1 DEF Types, Tasks, Occupied, Busy
<1> QED
  BY <1>2 DEF Types, Places, Objects, Flags, Kernel, Ends, Signals, Tasks, TypeOK

USE DEF poolVars, Disconnecting, fdVars, threadVars, kernelVars, signalVars, historyVars

\* What the descriptors can be is within their types.
LEMMA DescriptorTypes ==
  ASSUME NEW a \in {Held("app"), Held(None), Make(None)},
         NEW s \in {Held("sock"), Make(None)}, NEW d \in {Make(None), Make("dev")}
  PROVE  \A o \in {a, s, d} :
           o.count \in 0..1 /\ o.fd \in {None, "app", "sock", "dev"}
BY DEF Held, Make

\* The socket is a queue.
LEMMA Queue ==
  ASSUME NEW T, NEW q \in Seq(T)
  PROVE  /\ q # <<>> => Head(q) \in T /\ Tail(q) \in Seq(T)
         /\ \A e \in T : Append(q, e) \in Seq(T)
OBVIOUS

LEMMA Counted ==
  ASSUME NEW m \in Nat, NEW c \in 0..m, c < m
  PROVE  c + 1 \in 0..m
OBVIOUS

\* Who stays as it is, or leaves Disconnect, takes no worker.
LEMMA StillOccupied ==
  ASSUME Tasks, Occupied, UNCHANGED <<blocked, ended>>, Quitting' => Quitting
  PROVE  Occupied'
<1>1. ASSUME NEW b \in Nat, NEW e \in Nat, b + e + 1 <= PoolSize
      PROVE  b + e + 0 <= PoolSize
  BY <1>1, NbdLifecycleAssumption
<1>2. PICK b \in Nat, e \in Nat : b = blocked /\ e = ended
  BY DEF Tasks
<1>3. b = blocked' /\ e = ended'
  BY <1>2
<1> QED
  BY <1>1, <1>2, <1>3 DEF Occupied, Busy

\* The destructors of the members close both ends of the socket pair.
LEMMA Destroyed ==
  ASSUME Objects, Descriptors, main # "start", DestroyDescriptors
  PROVE  open' \subseteq {"dev"}
<1>1. OpenAfterClose(m_nbd_fd, open) = open
  BY DEF Descriptors, OpenAfterClose, Closes, Make
<1>2. OpenAfterClose(m_sp.sock, open) = open \ {"sock"}
  BY DEF Descriptors, OpenAfterClose, Closes, Held, None
<1>3. "app" \notin OpenAfterClose(m_sp.app, open \ {"sock"})
      /\ OpenAfterClose(m_sp.app, open \ {"sock"}) \subseteq open \ {"sock"}
  BY DEF Descriptors, OpenAfterClose, Closes, Held
<1> QED
  BY <1>1, <1>2, <1>3 DEF Objects, DestroyDescriptors

LEMMA SetSocketsKeeps ==
  ASSUME IInv, crash = "none", SetSockets
  PROVE  IInv'
<1> USE DEF IInv, Types, SetSockets, Assigned, Make, None
<1>1. (Flags /\ Kernel /\ Ends /\ Signals)'
  BY DEF Flags, Kernel, Ends, Signals
<1>2. (Tasks)'
  BY DEF Tasks
<1>3. (Connection /\ Disconnected)'
  BY DEF Connection, Disconnected
<1>4. Places'
  BY DEF Places
<1>5. Descriptors'
  <2>1. m_sp = [app |-> Make(None), sock |-> Make(None)] /\ main' = "sockets"
    BY DEF Descriptors
  <2>2. m_sp' = [app |-> Held("app"), sock |-> Held("sock")]
    BY <2>1 DEF Held
  <2> QED
    BY <2>1, <2>2 DEF Descriptors, Held
<1>6. Objects'
  <2>1. (\A o \in {m_sp.app, m_sp.sock, m_nbd_fd} :
           o.count \in 0..1 /\ o.fd \in {None, "app", "sock", "dev"})'
    BY <1>5, DescriptorTypes DEF Descriptors
  <2> QED
    BY <2>1 DEF Objects
<1>7. Joined'
  BY DEF Joined
<1>8. QuitCloses'
  <2>1. m_sp'.app = Held("app")
    BY DEF Descriptors, Held
  <2>2. disc'["worker"] = "idle"
    BY DEF Turns
  <2> QED
    BY <2>1, <2>2 DEF QuitCloses
<1>9. Turns'
  BY DEF Turns
<1>10. Safe'
  BY DEF Safe, CleanReturn, ListenerJoined, KilledDetached
<1>11. Occupied'
  BY DEF Occupied, Busy, Quitting
<1> QED
  BY <1>1, <1>2, <1>3, <1>4, <1>5, <1>6, <1>7, <1>8, <1>9, <1>10, <1>11

LEMMA OpenDeviceKeeps ==
  ASSUME IInv, crash = "none", OpenDevice
  PROVE  IInv'
<1> USE DEF IInv, Types, OpenDevice
<1>1. (Flags /\ Kernel /\ Signals /\ Tasks)'
  BY DEF Flags, Kernel, Signals, Tasks
<1>2. (Connection /\ Disconnected)'
  BY DEF Connection, Disconnected
<1>3. Places'
  BY DEF Places
<1>4. Ends'
  BY DEF Ends
<1>5. Descriptors'
  BY DEF Descriptors
<1>6. Objects'
  <2>1. (\A o \in {m_sp.app, m_sp.sock, m_nbd_fd} :
           o.count \in 0..1 /\ o.fd \in {None, "app", "sock", "dev"})'
    BY <1>5, DescriptorTypes DEF Descriptors
  <2> QED
    BY <2>1 DEF Objects
<1>7. Joined'
  BY DEF Joined
<1>8. QuitCloses'
  BY DEF QuitCloses
<1>9. Turns'
  BY DEF Turns
<1>10. Safe'
  BY DEF Safe, CleanReturn, ListenerJoined, KilledDetached
<1>11. Occupied'
  BY DEF Occupied, Busy, Quitting
<1> QED
  BY <1>1, <1>2, <1>3, <1>4, <1>5, <1>6, <1>7, <1>8, <1>9, <1>10, <1>11

LEMMA NBDSetupKeeps ==
  ASSUME IInv, crash = "none", NBDSetup
  PROVE  IInv'
<1> USE DEF IInv, Types, NBDSetup, DestroyDescriptors, OpenAfterClose, Closes
<1>1. (Flags /\ Kernel /\ Ends /\ Signals)'
  BY DEF Flags, Kernel, Ends, Signals
<1>2. (Tasks)'
  BY DEF Tasks
<1>3. (Connection /\ Disconnected)'
  BY DEF Connection, Disconnected
<1>4. Places'
  BY DEF Places
<1>5. Descriptors'
  BY DEF Descriptors
<1>6. Objects'
  BY DEF Objects
<1>7. Joined'
  BY DEF Joined
<1>8. QuitCloses'
  BY DEF QuitCloses
<1>9. Turns'
  BY DEF Turns, Caller
<1>10. Safe'
  <2>1. main' = "returned" => open' \subseteq {"dev"}
    BY Destroyed
  <2>2. main' = "returned" => listener' \in {"none", "ended"} /\ ~joinable'
    BY DEF Joined
  <2>3. main' = "returned" => conn' \in {"none", "clear"}
    BY <2>2 DEF Connection
  <2>4. CleanReturn'
    BY <2>1, <2>2, <2>3 DEF CleanReturn
  <2>5. ListenerJoined'
    BY DEF ListenerJoined
  <2>6. KilledDetached'
    BY DEF KilledDetached
  <2> QED
    BY <2>4, <2>5, <2>6 DEF Safe
<1>11. Occupied'
  BY DEF Occupied, Busy, Quitting
<1> QED
  BY <1>1, <1>2, <1>3, <1>4, <1>5, <1>6, <1>7, <1>8, <1>9, <1>10, <1>11

LEMMA BlockSignalsKeeps ==
  ASSUME IInv, crash = "none", BlockSignals
  PROVE  IInv'
<1> USE DEF IInv, Types, BlockSignals, MainStep
<1>1. (Flags /\ Kernel /\ Ends /\ Signals)'
  BY DEF Flags, Kernel, Ends, Signals
<1>2. (Tasks /\ Objects)'
  BY DEF Tasks, Objects
<1>3. (Connection /\ Disconnected)'
  BY DEF Connection, Disconnected
<1>4. Places'
  BY DEF Places
<1>5. Descriptors'
  BY DEF Descriptors
<1>6. Joined'
  BY DEF Joined
<1>7. QuitCloses'
  BY DEF QuitCloses
<1>8. Turns'
  BY DEF Turns
<1>9. Safe'
  BY DEF Safe, CleanReturn, ListenerJoined, KilledDetached
<1>10. Occupied'
  BY DEF Occupied, Busy, Quitting
<1> QED
  BY <1>1, <1>2, <1>3, <1>4, <1>5, <1>6, <1>7, <1>8, <1>9, <1>10

LEMMA StartNBDThreadKeeps ==
  ASSUME IInv, crash = "none", StartNBDThread
  PROVE  IInv'
<1> USE DEF IInv, Types, StartNBDThread, MainStep
<1>1. (Kernel /\ Ends /\ Signals /\ Tasks)'
  BY DEF Kernel, Ends, Signals, Tasks
<1>2. (Objects)'
  BY DEF Objects
<1>3. Places'
  BY DEF Places
<1>4. Flags'
  BY DEF Flags
<1>5. Descriptors'
  BY DEF Descriptors
<1>6. Connection'
  BY DEF Connection, Joined
<1>7. Joined'
  BY DEF Joined
<1>8. QuitCloses'
  BY DEF QuitCloses
<1>9. Turns'
  BY DEF Turns
<1>10. Disconnected'
  BY DEF Disconnected, Turns, Caller
<1>11. Safe'
  BY DEF Safe, CleanReturn, ListenerJoined, KilledDetached
<1>12. Occupied'
  BY DEF Occupied, Busy, Quitting
<1> QED
  BY <1>1, <1>2, <1>3, <1>4, <1>5, <1>6, <1>7, <1>8, <1>9, <1>10, <1>11, <1>12

LEMMA UnblockSignalsKeeps ==
  ASSUME IInv, crash = "none", UnblockSignals
  PROVE  IInv'
<1> USE DEF IInv, Types, UnblockSignals, MainStep
<1>1. (Flags /\ Kernel /\ Ends /\ Signals)'
  BY DEF Flags, Kernel, Ends, Signals
<1>2. (Tasks /\ Objects)'
  BY DEF Tasks, Objects
<1>3. (Connection /\ Disconnected)'
  BY DEF Connection, Disconnected
<1>4. Places'
  BY DEF Places
<1>5. Descriptors'
  BY DEF Descriptors
<1>6. Joined'
  BY DEF Joined
<1>7. QuitCloses'
  BY DEF QuitCloses
<1>8. Turns'
  BY DEF Turns
<1>9. Safe'
  BY DEF Safe, CleanReturn, ListenerJoined, KilledDetached
<1>10. Occupied'
  BY DEF Occupied, Busy, Quitting
<1> QED
  BY <1>1, <1>2, <1>3, <1>4, <1>5, <1>6, <1>7, <1>8, <1>9, <1>10

LEMMA SetSigactionKeeps ==
  ASSUME IInv, crash = "none", SetSigaction
  PROVE  IInv'
<1> USE DEF IInv, Types, SetSigaction, MainStep
<1>1. (Flags /\ Kernel /\ Ends /\ Signals)'
  BY DEF Flags, Kernel, Ends, Signals
<1>2. (Tasks /\ Objects)'
  BY DEF Tasks, Objects
<1>3. (Connection /\ Disconnected)'
  BY DEF Connection, Disconnected
<1>4. Places'
  BY DEF Places
<1>5. Descriptors'
  BY DEF Descriptors
<1>6. Joined'
  BY DEF Joined
<1>7. QuitCloses'
  BY DEF QuitCloses
<1>8. Turns'
  BY DEF Turns
<1>9. Safe'
  BY DEF Safe, CleanReturn, ListenerJoined, KilledDetached
<1>10. Occupied'
  BY DEF Occupied, Busy, Quitting
<1> QED
  BY <1>1, <1>2, <1>3, <1>4, <1>5, <1>6, <1>7, <1>8, <1>9, <1>10

LEMMA SetEngineUpKeeps ==
  ASSUME IInv, crash = "none", SetEngineUp
  PROVE  IInv'
<1> USE DEF IInv, Types, SetEngineUp
<1>1. (Kernel /\ Ends /\ Signals /\ Tasks)'
  BY DEF Kernel, Ends, Signals, Tasks
<1>2. (Objects)'
  BY DEF Objects
<1>3. (Connection)'
  BY DEF Connection
<1>4. Places'
  BY DEF Places
<1>5. Flags'
  BY DEF Flags
<1>6. Descriptors'
  BY DEF Descriptors
<1>7. Joined'
  BY DEF Joined
<1>8. QuitCloses'
  BY DEF QuitCloses, Caller, Places
<1>9. Turns'
  <2>1. disc["worker"] = "idle" /\ ~unset
    BY DEF Turns
  <2>2. disc'["worker"] = "idle"
    BY <2>1 DEF Places, Caller
  <2>3. main' = "run" => disc' = disc /\ ~unset'
    BY <2>1
  <2>4. main' = "dtor" => unset'
    OBVIOUS
  <2> QED
    BY <2>2, <2>3, <2>4 DEF Turns
<1>10. Disconnected'
  BY DEF Disconnected
<1>11. Safe'
  BY DEF Safe, CleanReturn, ListenerJoined, KilledDetached
<1>12. Occupied'
  BY DEF Occupied, Busy, Quitting, Places, Caller
<1> QED
  BY <1>1, <1>2, <1>3, <1>4, <1>5, <1>6, <1>7, <1>8, <1>9, <1>10, <1>11, <1>12

LEMMA DestroyEngineKeeps ==
  ASSUME IInv, crash = "none", DestroyEngine
  PROVE  IInv'
<1> USE DEF IInv, Types, DestroyEngine, MainStep
<1>1. (Flags /\ Kernel /\ Ends /\ Signals)'
  BY DEF Flags, Kernel, Ends, Signals
<1>2. (Tasks /\ Objects)'
  BY DEF Tasks, Objects
<1>3. (Connection)'
  BY DEF Connection
<1>4. Places'
  BY DEF Places
<1>5. Descriptors'
  BY DEF Descriptors
<1>6. Joined'
  BY DEF Joined
<1>7. QuitCloses'
  BY DEF QuitCloses
<1>8. Turns'
  BY DEF Turns, Caller
<1>9. Disconnected'
  BY DEF Disconnected
<1>10. Safe'
  BY DEF Safe, CleanReturn, ListenerJoined, KilledDetached
<1>11. Occupied'
  BY DEF Occupied, Busy, Quitting, Places, Caller
<1> QED
  BY <1>1, <1>2, <1>3, <1>4, <1>5, <1>6, <1>7, <1>8, <1>9, <1>10, <1>11

LEMMA DestroyCommunicatorKeeps ==
  ASSUME IInv, crash = "none", DestroyCommunicator
  PROVE  IInv'
<1> USE DEF IInv, Types, DestroyCommunicator, DestroyDescriptors, OpenAfterClose,
            Closes
<1>1. (Flags /\ Kernel /\ Signals /\ Tasks)'
  BY DEF Flags, Kernel, Signals, Tasks
<1>2. (Connection /\ Disconnected)'
  BY DEF Connection, Disconnected
<1>3. Places'
  BY DEF Places
<1>4. Ends'
  BY DEF Ends
<1>5. Descriptors'
  BY DEF Descriptors
<1>6. Objects'
  BY DEF Objects
<1>7. Joined'
  BY DEF Joined
<1>8. QuitCloses'
  BY DEF QuitCloses
<1>9. Turns'
  BY DEF Turns, Caller
<1>10. Safe'
  <2>1. main' = "returned" => open' \subseteq {"dev"}
    BY Destroyed
  <2>2. main' = "returned" => listener' \in {"none", "ended"} /\ ~joinable'
    BY DEF Joined
  <2>3. main' = "returned" => conn' \in {"none", "clear"}
    BY <2>2 DEF Connection
  <2>4. CleanReturn'
    BY <2>1, <2>2, <2>3 DEF CleanReturn
  <2>5. ListenerJoined'
    <3>1. CASE joinable /\ ~unset
      <4>1. "main" \in refused /\ "worker" \in refused
        BY <3>1 DEF Disconnected, Turns, Caller
      <4>2. refused' = Caller
        BY <4>1 DEF Ends, Caller
      <4> QED
        BY <4>2 DEF ListenerJoined
    <3>2. CASE unset
      BY <3>2 DEF ListenerJoined
    <3>3. CASE ~joinable
      BY <3>3 DEF ListenerJoined
    <3> QED
      BY <3>1, <3>2, <3>3
  <2>6. KilledDetached'
    BY DEF KilledDetached
  <2> QED
    BY <2>4, <2>5, <2>6 DEF Safe
<1>11. Occupied'
  BY DEF Occupied, Busy, Quitting
<1> QED
  BY <1>1, <1>2, <1>3, <1>4, <1>5, <1>6, <1>7, <1>8, <1>9, <1>10, <1>11

LEMMA SetSockKeeps ==
  ASSUME IInv, crash = "none", SetSock
  PROVE  IInv'
<1> USE DEF IInv, Types, SetSock
<1>1. (Flags /\ Signals /\ Tasks /\ Objects)'
  BY DEF Flags, Signals, Tasks, Objects
<1>2. (Descriptors /\ QuitCloses /\ Turns /\ Disconnected)'
  BY DEF Descriptors, QuitCloses, Turns, Disconnected
<1>3. Places'
  BY DEF Places
<1>4. Kernel'
  BY DEF Kernel
<1>5. Ends'
  BY DEF Ends
<1>6. Connection'
  BY DEF Connection
<1>7. Joined'
  BY DEF Joined
<1>8. Safe'
  BY DEF Safe, CleanReturn, ListenerJoined, KilledDetached
<1>9. Occupied'
  BY DEF Occupied, Busy, Quitting
<1> QED
  BY <1>1, <1>2, <1>3, <1>4, <1>5, <1>6, <1>7, <1>8, <1>9

LEMMA DoItKeeps ==
  ASSUME IInv, crash = "none", DoIt
  PROVE  IInv'
<1> USE DEF IInv, Types, DoIt
<1>1. (Flags /\ Ends /\ Signals /\ Tasks)'
  BY DEF Flags, Ends, Signals, Tasks
<1>2. (Objects)'
  BY DEF Objects
<1>3. (Descriptors /\ QuitCloses /\ Turns /\ Disconnected)'
  BY DEF Descriptors, QuitCloses, Turns, Disconnected
<1>4. Places'
  BY DEF Places
<1>5. Kernel'
  BY DEF Kernel
<1>6. Connection'
  BY DEF Connection
<1>7. Joined'
  BY DEF Joined
<1>8. Safe'
  BY DEF Safe, CleanReturn, ListenerJoined, KilledDetached
<1>9. Occupied'
  BY DEF Occupied, Busy, Quitting
<1> QED
  BY <1>1, <1>2, <1>3, <1>4, <1>5, <1>6, <1>7, <1>8, <1>9

LEMMA ClearKeeps ==
  ASSUME IInv, crash = "none", Clear
  PROVE  IInv'
<1> USE DEF IInv, Types, Clear
<1>1. (Flags /\ Signals /\ Tasks /\ Objects)'
  BY DEF Flags, Signals, Tasks, Objects
<1>2. (Descriptors /\ QuitCloses /\ Turns /\ Disconnected)'
  BY DEF Descriptors, QuitCloses, Turns, Disconnected
<1>3. Places'
  BY DEF Places
<1>4. Kernel'
  BY DEF Kernel
<1>5. Ends'
  BY DEF Ends
<1>6. Connection'
  BY DEF Connection
<1>7. Joined'
  BY DEF Joined
<1>8. Safe'
  BY DEF Safe, CleanReturn, ListenerJoined, KilledDetached
<1>9. Occupied'
  BY DEF Occupied, Busy, Quitting
<1> QED
  BY <1>1, <1>2, <1>3, <1>4, <1>5, <1>6, <1>7, <1>8, <1>9

LEMMA ReceiveKeeps ==
  ASSUME IInv, crash = "none", Receive
  PROVE  IInv'
<1> USE DEF IInv, Types, Receive
<1>1. (Places /\ Flags /\ Ends /\ Signals)'
  BY DEF Places, Flags, Ends, Signals
<1>2. (Objects)'
  BY DEF Objects
<1>3. (Descriptors /\ Connection /\ Joined /\ QuitCloses)'
  BY DEF Descriptors, Connection, Joined, QuitCloses
<1>4. (Turns /\ Disconnected /\ Safe)'
  BY DEF Turns, Disconnected, Safe, CleanReturn, ListenerJoined, KilledDetached
<1>5. Kernel'
  BY Queue DEF Kernel
<1>6. Tasks'
  <2>1. Head(stream) \in Command
    BY Queue DEF Kernel
  <2> QED
    BY <2>1 DEF Tasks
<1>7. Occupied'
  BY DEF Occupied, Busy, Quitting
<1> QED
  BY <1>1, <1>2, <1>3, <1>4, <1>5, <1>6, <1>7

LEMMA ReceiveEofKeeps ==
  ASSUME IInv, crash = "none", ReceiveEof
  PROVE  IInv'
<1> USE DEF IInv, Types, ReceiveEof
<1>1. (Places /\ Flags /\ Kernel /\ Signals)'
  BY DEF Places, Flags, Kernel, Signals
<1>2. (Tasks /\ Objects)'
  BY DEF Tasks, Objects
<1>3. (Descriptors /\ Connection /\ Joined /\ QuitCloses)'
  BY DEF Descriptors, Connection, Joined, QuitCloses
<1>4. (Turns /\ Disconnected)'
  BY DEF Turns, Disconnected
<1>5. Ends'
  BY DEF Ends
<1>6. Safe'
  BY DEF Safe, CleanReturn, ListenerJoined, KilledDetached
<1>7. Occupied'
  BY DEF Occupied, Busy, Quitting
<1> QED
  BY <1>1, <1>2, <1>3, <1>4, <1>5, <1>6, <1>7

LEMMA StopReactorKeeps ==
  ASSUME IInv, crash = "none", StopReactor
  PROVE  IInv'
<1> USE DEF IInv, Types, StopReactor
<1>1. (Flags /\ Kernel /\ Ends /\ Signals)'
  BY DEF Flags, Kernel, Ends, Signals
<1>2. (Tasks /\ Objects)'
  BY DEF Tasks, Objects
<1>3. (Descriptors /\ Connection /\ Joined /\ QuitCloses)'
  BY DEF Descriptors, Connection, Joined, QuitCloses
<1>4. (Turns /\ Disconnected /\ Safe)'
  BY DEF Turns, Disconnected, Safe, CleanReturn, ListenerJoined, KilledDetached
<1>5. Places'
  BY DEF Places
<1>6. Occupied'
  BY DEF Occupied, Busy, Quitting
<1> QED
  BY <1>1, <1>2, <1>3, <1>4, <1>5, <1>6

LEMMA SendReplyKeeps ==
  ASSUME IInv, crash = "none", NEW k \in Command, SendReply(k)
  PROVE  IInv'
<1> USE DEF IInv, Types, SendReply
<1>1. (Places /\ Kernel /\ Signals /\ Objects)'
  BY DEF Places, Kernel, Signals, Objects
<1>2. (Descriptors /\ Connection /\ Joined /\ QuitCloses)'
  BY DEF Descriptors, Connection, Joined, QuitCloses
<1>3. (Turns /\ Disconnected)'
  BY DEF Turns, Disconnected
<1>4. Flags'
  BY DEF Flags
<1>5. Ends'
  BY DEF Ends
<1>6. Tasks'
  BY DEF Tasks
<1>7. Safe'
  BY DEF Safe, CleanReturn, ListenerJoined, KilledDetached
<1>8. Occupied'
  BY DEF Occupied, Busy, Quitting
<1> QED
  BY <1>1, <1>2, <1>3, <1>4, <1>5, <1>6, <1>7, <1>8

LEMMA StdinKeeps ==
  ASSUME IInv, crash = "none", ReadBlocks \/ ReadKey
  PROVE  IInv'
<1> USE DEF IInv, Types
<1>0. UNCHANGED <<main, fdVars, threadVars, disc, tasks, ended, kernelVars,
                  signalVars, historyVars, crash>>
  BY DEF ReadBlocks, ReadKey
<1>1. (Places /\ Kernel /\ Signals /\ Objects)'
  BY <1>0 DEF Places, Kernel, Signals, Objects
<1>2. (Flags /\ Ends)'
  BY <1>0 DEF Flags, Ends
<1>3. (Descriptors /\ Connection /\ Joined /\ QuitCloses)'
  BY <1>0 DEF Descriptors, Connection, Joined, QuitCloses
<1>4. (Turns /\ Disconnected /\ Safe)'
  BY <1>0 DEF Turns, Disconnected, Safe, CleanReturn, ListenerJoined, KilledDetached
<1>5. Tasks' /\ Occupied'
  <2>1. PICK b \in Nat, e \in Nat, q \in 0..1 :
          b = blocked /\ e = ended /\ q = IF Quitting THEN 1 ELSE 0
    BY DEF Tasks
  <2>2. Busy = b + e + q
    BY <2>1 DEF Busy
  <2>3. ended' = e /\ q = IF Quitting' THEN 1 ELSE 0
    BY <1>0, <2>1 DEF Quitting
  <2>4. CASE ReadBlocks
    <3>1. blocked' = b + 1 /\ b + e + q < PoolSize
      BY <2>1, <2>2, <2>4 DEF ReadBlocks, Free
    <3>2. Busy' = (b + 1) + e + q
      BY <2>3, <3>1 DEF Busy
    <3>3. (b + 1) + e + q <= PoolSize
      BY <3>1, NbdLifecycleAssumption
    <3> QED
      BY <1>0, <2>3, <3>1, <3>2, <3>3 DEF Tasks, Occupied
  <2>5. CASE ReadKey
    <3>1. blocked' = b - 1 /\ b > 0 /\ b + e + q <= PoolSize
      BY <2>1, <2>2, <2>5 DEF ReadKey, Occupied
    <3>2. Busy' = (b - 1) + e + q
      BY <2>3, <3>1 DEF Busy
    <3>3. (b - 1) + e + q <= PoolSize
      BY <3>1, NbdLifecycleAssumption
    <3> QED
      BY <1>0, <2>3, <3>1, <3>2, <3>3 DEF Tasks, Occupied
  <2> QED
    BY <2>4, <2>5
<1> QED
  BY <1>1, <1>2, <1>3, <1>4, <1>5

LEMMA QuitKeeps ==
  ASSUME IInv, crash = "none", Quit
  PROVE  IInv'
<1> USE DEF IInv, Types, Quit
<1>1. (Kernel /\ Ends /\ Signals)'
  BY DEF Kernel, Ends, Signals
<1>2. (Connection /\ Joined)'
  BY DEF Connection, Joined
<1>3. Places'
  BY DEF Places
<1>4. Flags'
  BY DEF Flags
<1>5. Descriptors'
  BY DEF Descriptors
<1>6. Objects'
  BY DEF Objects
<1>7. QuitCloses'
  BY DEF QuitCloses, Turns
<1>8. Turns'
  BY DEF Turns, Caller
<1>9. Disconnected'
  BY DEF Disconnected
<1>10. Safe'
  BY DEF Safe, CleanReturn, ListenerJoined, KilledDetached
<1>11. Tasks' /\ Occupied'
  <2>1. PICK b \in Nat, e \in Nat : b = blocked /\ e = ended
    BY DEF Tasks
  <2>2. ~Quitting /\ Quitting' /\ ended' = e
    BY <2>1 DEF Quitting, Places, Caller
  <2>3. Busy = b + e + 0 /\ Busy' = blocked' + e + 1
    BY <2>1, <2>2 DEF Busy
  <2>4. CASE Free /\ UNCHANGED blocked
    <3>1. b + e + 0 < PoolSize
      BY <2>3, <2>4 DEF Free
    <3>2. b + e + 1 <= PoolSize
      BY <3>1, NbdLifecycleAssumption
    <3> QED
      BY <2>1, <2>2, <2>3, <2>4, <3>2 DEF Tasks, Occupied
  <2>5. CASE blocked > 0 /\ blocked' = blocked - 1
    <3>1. b > 0 /\ blocked' = b - 1 /\ b + e + 0 <= PoolSize
      BY <2>1, <2>3, <2>5 DEF Occupied
    <3>2. b - 1 \in Nat /\ (b - 1) + e + 1 <= PoolSize
      BY <3>1, NbdLifecycleAssumption
    <3> QED
      BY <2>1, <2>2, <2>3, <3>1, <3>2 DEF Tasks, Occupied
  <2> QED
    BY <2>4, <2>5 DEF ReadsQ
<1> QED
  BY <1>1, <1>2, <1>3, <1>4, <1>5, <1>6, <1>7, <1>8, <1>9, <1>10, <1>11

\* A worker that an NBDError takes out of Disconnect counts as ended then.
LEMMA DeniedKeeps ==
  ASSUME Types, Turns, Disconnected, Occupied, NEW p \in Caller, Denied(p),
         disc[p] \in {"ioctl", "close", "join"}, p = "worker" => main # "dtor",
         UNCHANGED <<main, tasks, blocked, joinable, unset>>
  PROVE  /\ disc' \in [Caller -> {"idle", "ioctl", "close", "join", "done"}]
         /\ refused' \subseteq Caller /\ refused \subseteq refused'
         /\ Tasks' /\ Turns' /\ Occupied' /\ Disconnected'
         /\ disc'["worker"] # "idle" <=> disc["worker"] # "idle"
<1> USE DEF Types, Denied, Goto
<1>1. /\ disc' \in [Caller -> {"idle", "ioctl", "close", "join", "done"}]
      /\ refused' \subseteq Caller /\ refused \subseteq refused'
      /\ disc'["worker"] # "idle" <=> disc["worker"] # "idle"
  BY DEF Places, Ends, Caller
<1>2. Tasks'
  BY DEF Tasks
<1>3. Turns'
  BY DEF Turns, Places, Caller
<1>4. Disconnected'
  BY DEF Disconnected, Places, Caller
<1>5. Occupied'
  <2>1. CASE p = "main"
    BY <2>1, StillOccupied DEF Quitting, Places, Caller
  <2>2. CASE p = "worker"
    <3>1. PICK b \in Nat, e \in Nat : b = blocked /\ e = ended
      BY DEF Tasks
    <3>2. Quitting /\ ~Quitting' /\ blocked' = b /\ ended' = e + 1
      BY <2>2, <3>1 DEF Quitting, Places, Caller
    <3>3. b + e + 1 <= PoolSize
      BY <3>1, <3>2 DEF Occupied, Busy
    <3>4. b + (e + 1) + 0 <= PoolSize
      BY <3>3, NbdLifecycleAssumption
    <3> QED
      BY <3>2, <3>4 DEF Occupied, Busy
  <2> QED
    BY <2>1, <2>2 DEF Caller
<1> QED
  BY <1>1, <1>2, <1>3, <1>4, <1>5


LEMMA RequestDisconnectKeeps ==
  ASSUME IInv, crash = "none", NEW p \in Caller, RequestDisconnect(p)
  PROVE  IInv'
<1> USE DEF IInv, Types, RequestDisconnect
<1>1. (Flags /\ Signals /\ Objects)'
  BY DEF Flags, Signals, Objects
<1>2. (Descriptors /\ Connection /\ Joined)'
  BY DEF Descriptors, Connection, Joined
<1>3. Kernel'
  <2>1. stream \in Seq(Command) /\ Append(stream, "disc") \in Seq(Command)
    BY Queue DEF Kernel, Command
  <2>2. stream' \in Seq(Command)
    BY <2>1 DEF Accepted, Refused
  <2> QED
    BY <2>2 DEF Kernel
<1>4. Safe'
  <2>1. refused \subseteq refused'
    BY DEF Denied
  <2> QED
    BY <2>1 DEF Safe, CleanReturn, ListenerJoined, KilledDetached
<1>5. CASE Goto(p, "close") /\ UNCHANGED <<refused, ended>>
  <2>1. (Tasks /\ Ends)'
    BY <1>5 DEF Tasks, Ends
  <2>2. Places' /\ QuitCloses' /\ Turns'
    BY <1>5 DEF Goto, QuitCloses, Turns, Caller, Places
  <2>3. Disconnected'
    BY <1>5 DEF Goto, Disconnected, Places
  <2>4. Quitting' => Quitting
    BY <1>5 DEF Goto, Quitting, Places, Caller
  <2> QED
    BY <1>1, <1>2, <1>3, <1>4, <1>5, <2>1, <2>2, <2>3, <2>4, StillOccupied
<1>6. CASE Denied(p)
  <2>1. p = "worker" => main # "dtor"
    BY DEF Turns, Caller
  <2>2. /\ disc' \in [Caller -> {"idle", "ioctl", "close", "join", "done"}]
        /\ refused' \subseteq Caller
        /\ Tasks' /\ Turns' /\ Occupied' /\ Disconnected'
        /\ disc'["worker"] # "idle" <=> disc["worker"] # "idle"
    BY <1>6, <2>1, DeniedKeeps
  <2>3. Places' /\ Ends' /\ QuitCloses'
    BY <2>2 DEF Places, Ends, QuitCloses
  <2> QED
    BY <1>1, <1>2, <1>3, <1>4, <2>2, <2>3
<1> QED
  BY <1>5, <1>6

\* What CloseFD does to the application's end decides whether the second is reached.
LEMMA CloseOutcome ==
  ASSUME IInv, NEW p \in Caller, CloseDescriptors(p)
  PROVE  \/ /\ m_sp.app = Held("app") /\ "app" \notin open
            /\ Goto(p, "join") /\ UNCHANGED fdVars
         \/ /\ m_sp.app = Held("app") /\ "app" \in open
            /\ Goto(p, "done") /\ m_sp' = [m_sp EXCEPT !.app = Held(None)]
            /\ open' = open \ {"app"} /\ m_nbd_fd' = m_nbd_fd
         \/ m_sp.app = Held(None) /\ Goto(p, "done") /\ UNCHANGED fdVars
<1> USE DEF IInv, Types
<1>1. main # "start"
  BY DEF Turns, CloseDescriptors, Caller
<1>2. ~Closes(m_nbd_fd)
  BY DEF Descriptors, Closes, Make
<1>3. CASE m_sp.app = Held("app") /\ "app" \notin open
  <2>1. CloseThrows(m_sp.app, open)
    BY <1>3 DEF CloseThrows, Closes, Held, None
  <2> QED
    BY <1>3, <2>1 DEF CloseDescriptors
<1>4. CASE m_sp.app = Held("app") /\ "app" \in open
  <2>1. ~CloseThrows(m_sp.app, open) /\ OpenAfterClose(m_sp.app, open) = open \ {"app"}
    BY <1>4 DEF CloseThrows, OpenAfterClose, Closes, Held, None
  <2>2. AfterClose(m_sp.app) = Held(None)
    BY <1>4 DEF AfterClose, Closes, Held
  <2> QED
    BY <1>2, <1>4, <2>1, <2>2
    DEF CloseDescriptors, CloseThrows, OpenAfterClose, AfterClose
<1>5. CASE m_sp.app = Held(None)
  <2>1. ~Closes(m_sp.app)
    BY <1>5 DEF Closes, Held
  <2>2. [m_sp EXCEPT !.app = m_sp.app] = m_sp
    BY <1>1 DEF Descriptors
  <2> QED
    BY <1>2, <1>5, <2>1, <2>2
    DEF CloseDescriptors, CloseThrows, OpenAfterClose, AfterClose
<1> QED
  BY <1>1, <1>3, <1>4, <1>5 DEF Descriptors

LEMMA CloseDescriptorsKeeps ==
  ASSUME IInv, crash = "none", NEW p \in Caller, CloseDescriptors(p)
  PROVE  IInv'
<1> USE DEF IInv, Types
<1>1. UNCHANGED <<main, listener, joinable, poolVars, conn, refused, unset, crash>>
      /\ disc[p] = "close"
  BY DEF CloseDescriptors
<1>2. main \in {"dtor", "run"} /\ (p = "main" => main = "dtor")
  BY <1>1 DEF Turns, Caller
<1>3. \/ Goto(p, "join") /\ UNCHANGED fdVars
      \/ /\ p = "main" /\ unset
         /\ m_sp.app = Held("app") /\ "app" \in open /\ Goto(p, "done")
         /\ m_sp' = [m_sp EXCEPT !.app = Held(None)]
         /\ open' = open \ {"app"} /\ m_nbd_fd' = m_nbd_fd
      \/ unset /\ Goto(p, "done") /\ UNCHANGED fdVars
  <2>1. p = "worker" => m_sp.app = Held("app") /\ "app" \notin open
    BY <1>1 DEF QuitCloses
  <2>2. p = "main" /\ "app" \in open => unset
    BY <1>2 DEF Turns, QuitCloses
  <2>3. m_sp.app = Held(None) => unset
    BY <1>2 DEF QuitCloses, Held, None
  <2> QED
    BY <2>1, <2>2, <2>3, CloseOutcome DEF Caller
<1>4. Tasks' /\ Connection' /\ Joined'
  BY <1>1 DEF Tasks, Connection, Joined
<1>5. Descriptors'
  BY <1>1, <1>2, <1>3 DEF Descriptors
<1>6. disc' \in [Caller -> {"idle", "ioctl", "close", "join", "done"}]
  BY <1>3 DEF Places, Goto
<1>7. QuitCloses'
  <2>1. disc'["worker"] # "idle" => disc["worker"] # "idle"
    BY <1>1, <1>3 DEF Goto, Places, Caller
  <2>2. CASE UNCHANGED fdVars
    BY <1>1, <2>1, <2>2 DEF QuitCloses
  <2>3. CASE unset /\ m_sp' = [m_sp EXCEPT !.app = Held(None)] /\ "app" \in open
    BY <1>1, <2>1, <2>3 DEF QuitCloses
  <2> QED
    BY <1>3, <2>2, <2>3
<1>8. Turns'
  BY <1>1, <1>2, <1>3 DEF Turns, Goto, Places, Caller
<1>9. Disconnected'
  BY <1>1, <1>3 DEF Disconnected, Goto, Places
<1>10. Safe'
  BY <1>1, <1>2 DEF Safe, CleanReturn, ListenerJoined, KilledDetached
<1>11. Places' /\ Flags' /\ Kernel' /\ Ends' /\ Signals'
  <2>1. Places'
    BY <1>1, <1>6 DEF Places, CloseDescriptors
  <2>2. Flags' /\ Kernel'
    BY DEF Flags, Kernel, CloseDescriptors
  <2>3. Ends' /\ Signals'
    BY DEF Ends, Signals, CloseDescriptors
  <2> QED
    BY <2>1, <2>2, <2>3
<1>12. Objects'
  <2>1. (\A o \in {m_sp.app, m_sp.sock, m_nbd_fd} :
           o.count \in 0..1 /\ o.fd \in {None, "app", "sock", "dev"})'
    BY <1>5, DescriptorTypes DEF Descriptors
  <2>2. open' \subseteq {"app", "sock", "dev"}
    BY <1>3 DEF Objects
  <2> QED
    BY <2>1, <2>2 DEF Objects
<1>13. Occupied'
  <2>1. Quitting' => Quitting
    BY <1>1, <1>3 DEF Goto, Places, Caller, Quitting
  <2> QED
    BY <1>1, <2>1, StillOccupied
<1> QED
  BY <1>4, <1>5, <1>7, <1>8, <1>9, <1>10, <1>11, <1>12, <1>13

LEMMA JoinListenerKeeps ==
  ASSUME IInv, crash = "none", NEW p \in Caller, JoinListener(p)
  PROVE  IInv'
<1> USE DEF IInv, Types, JoinListener, Goto
<1>1. (Kernel /\ Ends /\ Signals /\ Tasks)'
  BY DEF Kernel, Ends, Signals, Tasks
<1>2. (Objects)'
  BY DEF Objects
<1>3. (Descriptors /\ Connection)'
  BY DEF Descriptors, Connection
<1>4. Places'
  BY DEF Places
<1>5. Flags'
  BY DEF Flags
<1>6. Joined'
  BY DEF Joined
<1>7. QuitCloses'
  BY DEF QuitCloses, Caller
<1>8. Turns'
  BY DEF Turns, Caller
<1>9. Disconnected'
  BY DEF Disconnected
<1>10. Safe'
  BY DEF Safe, CleanReturn, ListenerJoined, KilledDetached
<1>11. Occupied'
  <2>1. Quitting' => Quitting
    BY DEF Places, Caller, Quitting
  <2> QED
    BY <2>1, StillOccupied
<1> QED
  BY <1>1, <1>2, <1>3, <1>4, <1>5, <1>6, <1>7, <1>8, <1>9, <1>10, <1>11

LEMMA SignalKeeps ==
  ASSUME IInv, crash = "none", Signal
  PROVE  IInv'
<1> USE DEF IInv, Types, Signal
<1>1. (Places /\ Kernel)'
  BY DEF Places, Kernel
<1>2. (Ends /\ Tasks)'
  BY DEF Ends, Tasks
<1>3. (Objects)'
  BY DEF Objects
<1>4. (Descriptors /\ Connection /\ Joined /\ QuitCloses)'
  BY DEF Descriptors, Connection, Joined, QuitCloses
<1>5. (Turns /\ Disconnected /\ Safe)'
  BY DEF Turns, Disconnected, Safe, CleanReturn, ListenerJoined, KilledDetached
<1>6. Flags'
  BY DEF Flags
<1>7. Signals'
  BY NbdLifecycleAssumption, Counted DEF Signals
<1>8. Occupied'
  BY DEF Occupied, Busy, Quitting
<1> QED
  BY <1>1, <1>2, <1>3, <1>4, <1>5, <1>6, <1>7, <1>8

LEMMA SignalKillsKeeps ==
  ASSUME IInv, crash = "none", SignalKills
  PROVE  IInv'
<1> USE DEF IInv, Types, SignalKills, Masked, Handled
<1>1. (Places /\ Flags /\ Kernel /\ Signals)'
  BY DEF Places, Flags, Kernel, Signals
<1>2. (Tasks /\ Objects)'
  BY DEF Tasks, Objects
<1>3. (Descriptors /\ Connection /\ Joined /\ QuitCloses)'
  BY DEF Descriptors, Connection, Joined, QuitCloses
<1>4. (Turns /\ Disconnected)'
  BY DEF Turns, Disconnected
<1>5. Ends'
  BY DEF Ends
<1>6. Safe'
  BY DEF Safe, CleanReturn, ListenerJoined, KilledDetached, Joined, Places
<1>7. Occupied'
  BY DEF Occupied, Busy, Quitting
<1> QED
  BY <1>1, <1>2, <1>3, <1>4, <1>5, <1>6, <1>7

\* The handler of WorkerFunc ends the worker in whichever place it was.
LEMMA SignalEndsWorkerKeeps ==
  ASSUME IInv, SignalEndsWorker, UNCHANGED joinable
  PROVE  /\ disc' \in [Caller -> {"idle", "ioctl", "close", "join", "done"}]
         /\ refused' \subseteq Caller /\ refused \subseteq refused'
         /\ Tasks' /\ Turns' /\ Occupied' /\ Disconnected'
         /\ disc'["worker"] # "idle" <=> disc["worker"] # "idle"
<1> USE DEF IInv, Types, SignalEndsWorker
<1>1. CASE Quitting /\ Denied("worker") /\ UNCHANGED <<tasks, blocked>>
  BY <1>1, DeniedKeeps DEF Quitting, Caller
<1>2. CASE /\ UNCHANGED <<disc, refused>>
           /\ \/ /\ blocked > 0 /\ blocked' = blocked - 1 /\ ended' = ended + 1
                 /\ UNCHANGED tasks
              \/ /\ Free /\ ended' = ended + 1 /\ UNCHANGED blocked
                 /\ \/ UNCHANGED tasks
                    \/ \E k \in Command : /\ tasks[k] > 0
                                         /\ tasks' = [tasks EXCEPT ![k] = @ - 1]
  <2>1. /\ disc' \in [Caller -> {"idle", "ioctl", "close", "join", "done"}]
        /\ refused' \subseteq Caller /\ refused \subseteq refused'
        /\ Turns' /\ Disconnected'
        /\ disc'["worker"] # "idle" <=> disc["worker"] # "idle"
    BY <1>2 DEF Places, Ends, Turns, Disconnected
  <2>2. PICK b \in Nat, e \in Nat, q \in 0..1 :
          b = blocked /\ e = ended /\ q = IF Quitting THEN 1 ELSE 0
    BY DEF Tasks
  <2>3. Busy = b + e + q /\ q = IF Quitting' THEN 1 ELSE 0
    BY <1>2, <2>2 DEF Busy, Quitting
  <2>4. CASE /\ blocked > 0 /\ blocked' = blocked - 1 /\ ended' = ended + 1
             /\ UNCHANGED tasks
    <3>1. b > 0 /\ blocked' = b - 1 /\ ended' = e + 1 /\ b + e + q <= PoolSize
      BY <2>2, <2>3, <2>4 DEF Occupied
    <3>2. b - 1 \in Nat /\ e + 1 \in Nat /\ (b - 1) + (e + 1) + q <= PoolSize
      BY <3>1, NbdLifecycleAssumption
    <3>3. Busy' = (b - 1) + (e + 1) + q
      BY <2>3, <3>1 DEF Busy
    <3> QED
      BY <2>1, <2>4, <3>1, <3>2, <3>3 DEF Tasks, Occupied
  <2>5. CASE /\ Free /\ ended' = ended + 1 /\ UNCHANGED blocked
             /\ \/ UNCHANGED tasks
                \/ \E k \in Command : /\ tasks[k] > 0
                                     /\ tasks' = [tasks EXCEPT ![k] = @ - 1]
    <3>1. blocked' = b /\ ended' = e + 1 /\ b + e + q < PoolSize
      BY <2>2, <2>3, <2>5 DEF Free
    <3>2. e + 1 \in Nat /\ b + (e + 1) + q <= PoolSize
      BY <3>1, NbdLifecycleAssumption
    <3>3. Busy' = b + (e + 1) + q
      BY <2>3, <3>1 DEF Busy
    <3>4. tasks' \in [Command -> Nat]
      BY <2>5 DEF Tasks
    <3> QED
      BY <2>1, <3>1, <3>2, <3>3, <3>4 DEF Tasks, Occupied
  <2> QED
    BY <1>2, <2>4, <2>5, <2>1, <2>2
<1> QED
  BY <1>1, <1>2

LEMMA HandleSignalKeeps ==
  ASSUME IInv, crash = "none", NEW thread \in {"main", "reactor", "worker"},
         HandleSignal(thread)
  PROVE  IInv'
<1> USE DEF IInv, Types, HandleSignal, Handled
<1>1. (Signals /\ Objects)'
  BY DEF Signals, Objects
<1>2. Connection'
  BY DEF Connection
<1>3. Kernel'
  <2>1. stream \in Seq(Command) /\ Append(stream, "disc") \in Seq(Command)
    BY Queue DEF Kernel, Command
  <2>2. stream' \in Seq(Command)
    BY <2>1 DEF Accepted, Refused
  <2> QED
    BY <2>2 DEF Kernel
<1>4. CASE UNCHANGED <<main, disc, poolVars, refused, unset>>
  <2>1. (Places /\ Tasks /\ Flags)'
    BY <1>4 DEF Places, Tasks, Flags
  <2>2. (Descriptors /\ Joined /\ QuitCloses)'
    BY <1>4 DEF Descriptors, Joined, QuitCloses
  <2>3. (Turns /\ Disconnected /\ Occupied)'
    BY <1>4 DEF Turns, Disconnected, Occupied, Busy, Quitting
  <2>4. Ends'
    BY <1>4 DEF Ends
  <2>5. Safe'
    BY <1>4 DEF Safe, CleanReturn, ListenerJoined, KilledDetached
  <2> QED
    BY <1>1, <1>2, <1>3, <2>1, <2>2, <2>3, <2>4, <2>5
<1>5. CASE UNCHANGED crash /\ SignalEndsWorker
  <2>1. UNCHANGED <<main, unset, joinable>>
    BY <1>5 DEF SignalEndsWorker
  <2>2. /\ disc' \in [Caller -> {"idle", "ioctl", "close", "join", "done"}]
        /\ refused' \subseteq Caller /\ refused \subseteq refused'
        /\ Tasks' /\ Turns' /\ Occupied' /\ Disconnected'
        /\ disc'["worker"] # "idle" <=> disc["worker"] # "idle"
    BY <1>5, <2>1, SignalEndsWorkerKeeps
  <2>3. Places' /\ Flags'
    BY <2>1, <2>2 DEF Places, Flags
  <2>4. Ends'
    BY <1>5, <2>2 DEF Ends
  <2>5. (Descriptors /\ Joined /\ QuitCloses)'
    BY <2>1, <2>2 DEF Descriptors, Joined, QuitCloses
  <2>6. Safe'
    BY <1>5, <2>1 DEF Safe, CleanReturn, ListenerJoined, KilledDetached
  <2> QED
    BY <1>1, <1>2, <1>3, <2>2, <2>3, <2>4, <2>5, <2>6
<1>6. CASE UNCHANGED crash /\ SignalCaughtByMain
  <2>1. CASE /\ main = "dtor" /\ Disconnecting("main") /\ Denied("main")
             /\ UNCHANGED <<main, unset, tasks, blocked>>
    <3>1. disc["main"] \in {"ioctl", "close", "join"}
      BY <2>1
    <3>2. /\ disc' \in [Caller -> {"idle", "ioctl", "close", "join", "done"}]
          /\ refused' \subseteq Caller /\ refused \subseteq refused'
          /\ Tasks' /\ Turns' /\ Occupied' /\ Disconnected'
          /\ disc'["worker"] # "idle" <=> disc["worker"] # "idle"
      BY <2>1, <3>1, DeniedKeeps DEF Caller
    <3>3. Places' /\ Flags'
      BY <2>1, <3>2 DEF Places, Flags
    <3>4. Ends'
      BY <1>6, <3>2 DEF Ends
    <3>5. (Descriptors /\ Joined /\ QuitCloses)'
      BY <2>1, <3>2 DEF Descriptors, Joined, QuitCloses
    <3>6. Safe'
      BY <1>6, <2>1 DEF Safe, CleanReturn, ListenerJoined, KilledDetached
    <3> QED
      BY <1>1, <1>2, <1>3, <3>2, <3>3, <3>4, <3>5, <3>6
  <2>2. CASE /\ main = "handling"
             /\ main' = "dtor" /\ Goto("main", "ioctl") /\ unset' = TRUE
             /\ UNCHANGED <<refused, ended, tasks, blocked>>
    <3>1. disc["worker"] = "idle" /\ disc'["worker"] = "idle"
      BY <2>2 DEF Goto, Turns, Places, Caller
    <3>2. Places' /\ Flags' /\ Tasks'
      BY <2>2 DEF Goto, Places, Flags, Tasks
    <3>3. Ends'
      BY <1>6, <2>2 DEF Ends
    <3>4. (Descriptors /\ Joined /\ QuitCloses)'
      BY <2>2, <3>1 DEF Descriptors, Joined, QuitCloses
    <3>5. Turns' /\ Disconnected'
      BY <2>2, <3>1 DEF Turns, Disconnected
    <3>6. Occupied'
      BY <2>2, <3>1 DEF Occupied, Busy, Quitting
    <3>7. Safe'
      BY <1>6, <2>2 DEF Safe, CleanReturn, ListenerJoined, KilledDetached
    <3> QED
      BY <1>1, <1>2, <1>3, <3>2, <3>3, <3>4, <3>5, <3>6, <3>7
  <2> QED
    BY <1>6, <2>1, <2>2 DEF SignalCaughtByMain
<1> QED
  BY <1>4, <1>5, <1>6

LEMMA SendRequestKeeps ==
  ASSUME IInv, crash = "none", SendRequest
  PROVE  IInv'
<1> USE DEF IInv, Types, SendRequest
<1>1. (Places /\ Flags /\ Ends /\ Signals)'
  BY DEF Places, Flags, Ends, Signals
<1>2. (Tasks /\ Objects)'
  BY DEF Tasks, Objects
<1>3. (Descriptors /\ Connection /\ Joined /\ QuitCloses)'
  BY DEF Descriptors, Connection, Joined, QuitCloses
<1>4. (Turns /\ Disconnected /\ Safe)'
  BY DEF Turns, Disconnected, Safe, CleanReturn, ListenerJoined, KilledDetached
<1>5. Kernel'
  <2>1. stream' \in Seq(Command)
    BY Queue DEF Kernel, Command
  <2>2. sent' \in 0..MaxRequests
    BY NbdLifecycleAssumption, Counted DEF Kernel
  <2> QED
    BY <2>1, <2>2 DEF Kernel
<1>6. Occupied'
  BY DEF Occupied, Busy, Quitting
<1> QED
  BY <1>1, <1>2, <1>3, <1>4, <1>5, <1>6

LEMMA ShutDownKeeps ==
  ASSUME IInv, crash = "none", ShutDown
  PROVE  IInv'
<1> USE DEF IInv, Types, ShutDown
<1>1. (Places /\ Flags /\ Ends /\ Signals)'
  BY DEF Places, Flags, Ends, Signals
<1>2. (Tasks /\ Objects)'
  BY DEF Tasks, Objects
<1>3. (Descriptors /\ Joined /\ QuitCloses /\ Turns)'
  BY DEF Descriptors, Joined, QuitCloses, Turns
<1>4. (Disconnected)'
  BY DEF Disconnected
<1>5. Kernel'
  BY DEF Kernel
<1>6. Connection'
  BY DEF Connection
<1>7. Safe'
  BY DEF Safe, CleanReturn, ListenerJoined, KilledDetached
<1>8. Occupied'
  BY DEF Occupied, Busy, Quitting
<1> QED
  BY <1>1, <1>2, <1>3, <1>4, <1>5, <1>6, <1>7, <1>8

-----------------------------------------------------------------------------
(* The whole program.                                                      *)

LEMMA InitIInv == Init => IInv
<1> HAVE Init
<1>1. Types
  <2>1. Kernel
    BY NbdLifecycleAssumption DEF Init, Kernel
  <2>2. Signals
    BY NbdLifecycleAssumption DEF Init, Signals
  <2>3. Objects
    BY DescriptorTypes DEF Init, Objects
  <2>4. Places /\ Flags /\ Ends /\ Tasks
    BY DEF Init, Places, Flags, Ends, Tasks
  <2> QED
    BY <2>1, <2>2, <2>3, <2>4 DEF Types
<1>2. Descriptors /\ Connection /\ Joined
  BY DEF Init, Descriptors, Connection, Joined
<1>3. QuitCloses /\ Turns /\ Disconnected
  BY DEF Init, QuitCloses, Turns, Disconnected, Caller
<1>5. Occupied
  <2>1. Busy = 0
    BY DEF Init, Busy, Quitting, Caller
  <2> QED
    BY <2>1, NbdLifecycleAssumption DEF Occupied
<1>4. Safe
  BY DEF Init, Safe, CleanReturn, ListenerJoined, KilledDetached
<1> QED
  BY <1>1, <1>2, <1>3, <1>4, <1>5 DEF IInv

LEMMA StutterKeeps == ASSUME IInv, UNCHANGED vars PROVE IInv'
<1>1. /\ UNCHANGED <<main, m_sp, m_nbd_fd, open, listener, joinable, reactor, told>>
      /\ UNCHANGED <<disc, tasks, blocked, ended, conn, stream, sent, unexpected>>
      /\ UNCHANGED <<pending, signals, refused, unset, crash>>
  BY DEF vars
<1> USE DEF IInv, Types
<1>2. Types'
  <2>1. Places' /\ Objects'
    BY <1>1 DEF Places, Objects
  <2>2. Flags'
    BY <1>1 DEF Flags
  <2>3. Kernel' /\ Ends' /\ Signals' /\ Tasks'
    BY <1>1 DEF Kernel, Ends, Signals, Tasks
  <2> QED
    BY <2>1, <2>2, <2>3
<1>3. Descriptors' /\ Connection' /\ Joined'
  BY <1>1 DEF Descriptors, Connection, Joined
<1>4. QuitCloses' /\ Turns' /\ Occupied' /\ Disconnected'
  BY <1>1 DEF QuitCloses, Turns, Occupied, Busy, Quitting, Disconnected
<1>5. Safe'
  BY <1>1 DEF Safe, CleanReturn, ListenerJoined, KilledDetached
<1> QED
  BY <1>2, <1>3, <1>4, <1>5

\* The invariant is inductive.
LEMMA NextIInv == IInv /\ [Next]_vars => IInv'
<1> SUFFICES ASSUME IInv, [Next]_vars PROVE IInv'
  OBVIOUS
<1>1. CASE crash = "none" /\ Main
  BY <1>1, SetSocketsKeeps, OpenDeviceKeeps, NBDSetupKeeps, BlockSignalsKeeps,
     StartNBDThreadKeeps, UnblockSignalsKeeps, SetSigactionKeeps, SetEngineUpKeeps,
     DestroyEngineKeeps, DestroyCommunicatorKeeps DEF Main
<1>2. CASE crash = "none" /\ Listener
  BY <1>2, SetSockKeeps, DoItKeeps, ClearKeeps DEF Listener
<1>3. CASE /\ crash = "none"
           /\ \/ Receive \/ ReceiveEof \/ StopReactor
              \/ ReadBlocks \/ ReadKey \/ Quit
              \/ \E k \in Command : SendReply(k)
  BY <1>3, ReceiveKeeps, ReceiveEofKeeps, StopReactorKeeps, StdinKeeps,
       QuitKeeps, SendReplyKeeps
<1>4. CASE crash = "none" /\ \E p \in Caller : Disconnect(p)
  BY <1>4, RequestDisconnectKeeps, CloseDescriptorsKeeps, JoinListenerKeeps
  DEF Disconnect
<1>5. CASE /\ crash = "none"
           /\ \/ Signal \/ SignalKills
              \/ \E thread \in {"main", "reactor", "worker"} : HandleSignal(thread)
  BY <1>5, SignalKeeps, SignalKillsKeeps, HandleSignalKeeps
<1>6. CASE crash = "none" /\ (SendRequest \/ ShutDown)
  BY <1>6, SendRequestKeeps, ShutDownKeeps
<1>7. CASE UNCHANGED vars
  BY <1>7, StutterKeeps
<1> QED
  BY <1>1, <1>2, <1>3, <1>4, <1>5, <1>6, <1>7 DEF Next

LEMMA Inductive == Spec => []IInv
BY InitIInv, NextIInv, PTL DEF Spec

-----------------------------------------------------------------------------
(***************************************************************************)
(* The descriptors' objects, the threads' places and the kernel's state    *)
(* stay within their types, however many requests and signals there are.   *)
(***************************************************************************)
THEOREM TypeCorrect == Spec => []TypeOK
<1>1. IInv => TypeOK
  BY TypeParts DEF IInv
<1> QED
  BY Inductive, <1>1, PTL

(***************************************************************************)
(* main returns only with the listener over and joined, the connection     *)
(* cleared and both ends of the socket pair closed, on the path of a setup *)
(* that failed as on that of the destructor.                               *)
(***************************************************************************)
THEOREM ReturnsClean == Spec => []CleanReturn
<1>1. IInv => CleanReturn
  BY DEF IInv, Safe
<1> QED
  BY Inductive, <1>1, PTL

(***************************************************************************)
(* The destructor meets a listener that nobody joined only if the engine   *)
(* was never set up or the kernel refused both disconnections.             *)
(***************************************************************************)
THEOREM JoinedOrRefused == Spec => []ListenerJoined
<1>1. IInv => ListenerJoined
  BY DEF IInv, Safe
<1> QED
  BY Inductive, <1>1, PTL

(***************************************************************************)
(* A signal that kills comes before there is a listener, or between the    *)
(* two halves of SetSignalHandlerForApp.                                   *)
(***************************************************************************)
THEOREM KillsDetached == Spec => []KilledDetached
<1>1. IInv => KilledDetached
  BY DEF IInv, Safe
<1> QED
  BY Inductive, <1>1, PTL
=============================================================================
