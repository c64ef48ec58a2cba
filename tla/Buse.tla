--------------------------------- MODULE Buse ---------------------------------
(***************************************************************************)
(* BUSE (buse/buse.c), the C library from which netspace's communicator    *)
(* comes, with its two programs buse/busexmp.c and buse/loopback.c.  The   *)
(* parent process serves the requests one after the other; a child that    *)
(* it forks attaches the socket to the device and stays in ioctl(NBD_DO_IT)*)
(* until the connection is down; SIGINT and SIGTERM ask for that.          *)
(*                                                                         *)
(* sp[0] is the end that the parent reads, sp[1] the one that the child    *)
(* gives to the kernel.  Both processes have both ends after the fork, and *)
(* an end is closed when nobody holds it.  Streams and bytes are those of  *)
(* module NbdService; a header carries the error besides.  The kernel is   *)
(* modelled from how the code uses it: it reads no data after a header     *)
(* with an error, and may refuse NBD_DISCONNECT when it has no connection. *)
(***************************************************************************)
EXTENDS Integers, Sequences, FiniteSets

CONSTANTS Request,      \* the requests, by their handle
          Type(_),      \* "read", "write", "flush" or "trim"
          Offset(_), Length(_),
          StorageSize,
          Zero,         \* the content of a new storage
          Fails,        \* the requests whose operation may fail
          MaxSignals    \* bound: the signals that are sent

Reads == {r \in Request : Type(r) = "read"}

Span(r) == Offset(r) .. Offset(r) + Length(r) - 1

ASSUME BuseAssumption ==
         /\ IsFiniteSet(Request) /\ Zero \notin Request /\ "disc" \notin Request
         /\ StorageSize \in Nat /\ MaxSignals \in Nat
         /\ Fails \subseteq Request
         /\ \A r \in Request :
              /\ Type(r) \in {"read", "write", "flush", "trim"}
              /\ Offset(r) \in Nat /\ Length(r) \in Nat
              /\ Offset(r) + Length(r) <= StorageSize
              /\ Type(r) \in {"flush", "trim"} => Length(r) = 0

\* The operations of the two programs, and those of a program whose operations
\* may return an error, for which the library provides.
Busexmp  == {"read", "write", "disc", "flush", "trim"}
Loopback == {"read", "write"}
Other    == {"read", "write", "flush"}

VARIABLES aop,         \* the operations of the program that runs
          parent,      \* where the parent stands in buse_main
          status,      \* its exit status: "0", "1", "killed", or "none" yet
          device,      \* nbd_dev_to_disconnect # -1
          child,       \* where the child stands
          outcome,     \* its end: "ok", "failed", "killed", or "none" yet
          sp0, sp1,    \* the processes that hold the ends of the socket
          conn,        \* the kernel's connection
          requests,    \* the stream to the parent
          replies,     \* the stream to the kernel
          serving,     \* the request that serve_nbd is at, if any
          signals,     \* the number of signals sent
          op, prec, i, m_storage, m_data,      \* as in NbdService
          parsing, received, broken            \* as in NbdService

parentVars == <<aop, parent, status, device>>
childVars  == <<child, outcome>>
dataVars   == <<i, m_storage, m_data>>
kernelVars == <<op, prec, parsing, received, broken>>
vars == <<parentVars, childVars, sp0, sp1, conn, requests, replies, serving,
          signals, dataVars, kernelVars>>

Byte == 0 .. StorageSize - 1

Init == /\ aop \in {Busexmp, Loopback, Other}
        /\ parent = "start" /\ status = "none" /\ device = FALSE
        /\ child = "none" /\ outcome = "none"
        /\ sp0 = {} /\ sp1 = {} /\ conn = "none"
        /\ requests = <<>> /\ replies = <<>> /\ serving = {}
        /\ signals = 0
        /\ op = [r \in Request |-> "new"]
        /\ prec = [r \in Request |-> {}]
        /\ i = [r \in Request |-> 0]
        /\ m_storage = [b \in Byte |-> Zero]
        /\ m_data = [r \in Reads |-> [b \in Byte |-> Zero]]
        /\ parsing = {} /\ received = [r \in Request |-> <<>>]
        /\ broken = FALSE

-----------------------------------------------------------------------------
(* The parent.                                                             *)

\* A process that ends gives up its ends of the socket.
ExitParent(s) == /\ parent' = "exited" /\ status' = s
                 /\ sp0' = sp0 \ {"parent"} /\ sp1' = sp1 \ {"parent"}

\* buse_main up to the fork; the device may not open.
Fork == /\ parent = "start"
        /\ \/ /\ parent' = "forked" /\ child' = "forked"
              /\ sp0' = {"parent", "child"} /\ sp1' = {"parent", "child"}
              /\ UNCHANGED status
           \/ ExitParent(IF aop = Loopback THEN "0" ELSE "1") /\ UNCHANGED child
        /\ UNCHANGED <<aop, device, outcome, conn, requests, replies, serving,
                       signals, dataVars, kernelVars>>

ParentStep(from, to) == parent = from /\ parent' = to

SetDevice == /\ ParentStep("forked", "armed")
             /\ device' = TRUE
             /\ UNCHANGED <<aop, status, childVars, sp0, sp1, conn, requests,
                            replies, serving, signals, dataVars, kernelVars>>

SetHandlers == /\ ParentStep("armed", "handling")
               /\ UNCHANGED <<aop, status, device, childVars, sp0, sp1, conn,
                              requests, replies, serving, signals, dataVars,
                              kernelVars>>

\* Faulty variant of CloseKernelEnd: the parent keeps sp[1] open.
KeepKernelEnd == /\ ParentStep("handling", "serve")
                 /\ UNCHANGED <<aop, status, device, childVars, sp0, sp1, conn,
                                requests, replies, serving, signals, dataVars,
                                kernelVars>>

\* Without this the parent would not see that the child is gone.
CloseKernelEnd == /\ ParentStep("handling", "serve")
                  /\ sp1' = sp1 \ {"parent"}
                  /\ UNCHANGED <<aop, status, device, childVars, sp0, conn,
                                 requests, replies, serving, signals, dataVars,
                                 kernelVars>>

-----------------------------------------------------------------------------
(* serve_nbd.                                                              *)

\* The connection is shut down, or nobody holds the other end.
Eof == requests = <<>> /\ (conn \in {"down", "clear"} \/ (sp1 = {} /\ conn = "none"))

\* Faulty variant of TakeRequest: the loop does not wait for the operation.
TakeNext == /\ parent = "serve"
            /\ requests # <<>> /\ Head(requests) \in Request
            /\ requests' = Tail(requests)
            /\ serving' = serving \cup {Head(requests)}
            /\ UNCHANGED <<parentVars, childVars, sp0, sp1, conn, replies,
                           signals, dataVars, kernelVars>>

TakeRequest == /\ parent = "serve" /\ serving = {}
               /\ requests # <<>> /\ Head(requests) \in Request
               /\ requests' = Tail(requests)
               /\ serving' = {Head(requests)}
               /\ UNCHANGED <<parentVars, childVars, sp0, sp1, conn, replies,
                              signals, dataVars, kernelVars>>

\* The operation returns an error, or there is none.
Error(r) == \/ r \in Fails /\ aop = Other /\ Type(r) \in aop
            \/ Type(r) \in {"read", "write"} \ aop

\* A byte of xmp_read and xmp_write, of loopback_read and loopback_write.
CopyByte == \E r \in serving :
  LET b == Offset(r) + i[r] IN
  /\ ~Error(r) /\ i[r] < Length(r)
  /\ i' = [i EXCEPT ![r] = @ + 1]
  /\ IF r \in Reads
       THEN m_data' = [m_data EXCEPT ![r][b] = m_storage[b]] /\ UNCHANGED m_storage
       ELSE m_storage' = [m_storage EXCEPT ![b] = r] /\ UNCHANGED m_data
  /\ UNCHANGED <<parentVars, childVars, sp0, sp1, conn, requests, replies,
                 serving, signals, kernelVars>>

\* An error of loopback's device fails the assertion on read and write.
Abort == \E r \in serving :
  /\ aop = Loopback /\ r \in Fails /\ i[r] < Length(r)
  /\ ExitParent("killed")
  /\ serving' = {}
  /\ UNCHANGED <<aop, device, childVars, conn, requests, replies, signals,
                 dataVars, kernelVars>>

Data(r) == IF r \in Reads
             THEN [n \in 1..Length(r) |-> <<"data", m_data[r][Offset(r) + n - 1]>>]
             ELSE <<>>

\* Faulty variant of Reply: the data of a READ precede their header.
ReplyDataFirst(r) == Data(r) \o <<<<"header", r, Error(r)>>>>

\* The data of a READ follow the header, error or not.
Reply(r) == <<<<"header", r, Error(r)>>>> \o Data(r)

\* Faulty variant of WriteReply: the reply does not wait for the operation.
WriteReplyFirst == \E r \in serving :
  /\ conn \in {"set", "up"}
  /\ replies' = replies \o Reply(r)
  /\ serving' = {}
  /\ UNCHANGED <<parentVars, childVars, sp0, sp1, conn, requests, signals,
                 dataVars, kernelVars>>

\* On a connection that is down the write raises SIGPIPE.
WriteReply == \E r \in serving :
  /\ i[r] = Length(r) \/ Error(r)
  /\ serving' = {}
  /\ IF conn \in {"set", "up"}
       THEN replies' = replies \o Reply(r) /\ UNCHANGED <<parent, status, sp0, sp1>>
       ELSE ExitParent("killed") /\ UNCHANGED replies
  /\ UNCHANGED <<aop, device, childVars, conn, requests, signals, dataVars,
                 kernelVars>>

\* Faulty variant of ServeDisc: the command passes for another request.
IgnoreDisc == /\ parent = "serve" /\ serving = {}
              /\ requests # <<>> /\ Head(requests) = "disc"
              /\ requests' = Tail(requests)
              /\ UNCHANGED <<parentVars, childVars, sp0, sp1, conn, replies,
                             serving, signals, dataVars, kernelVars>>

ServeDisc == /\ serving = {} /\ requests # <<>> /\ Head(requests) = "disc"
             /\ ParentStep("serve", "close")
             /\ requests' = Tail(requests)
             /\ UNCHANGED <<aop, status, device, childVars, sp0, sp1, conn,
                            replies, serving, signals, dataVars, kernelVars>>

\* The read returns 0, or -1: then buse_main returns without waiting.
ServeEof == /\ serving = {} /\ Eof
            /\ \/ ParentStep("serve", "close") /\ UNCHANGED <<status, sp0, sp1>>
               \/ /\ parent = "serve"
                  /\ ExitParent(IF aop = Loopback THEN "0" ELSE "1")
            /\ UNCHANGED <<aop, device, childVars, conn, requests, replies,
                           serving, signals, dataVars, kernelVars>>

CloseServerEnd == /\ ParentStep("close", "wait")
                  /\ sp0' = sp0 \ {"parent"}
                  /\ UNCHANGED <<aop, status, device, childVars, sp1, conn,
                                 requests, replies, serving, signals, dataVars,
                                 kernelVars>>

\* WEXITSTATUS of a child that a signal has killed is 0, and loopback's main
\* returns 0 whatever buse_main does.
ExitStatus == IF outcome = "failed" /\ aop # Loopback THEN "1" ELSE "0"

\* Faulty variant of WaitChild: the parent does not wait.
WaitNot == /\ parent = "wait"
           /\ ExitParent(ExitStatus)
           /\ UNCHANGED <<aop, device, childVars, conn, requests, replies,
                          serving, signals, dataVars, kernelVars>>

WaitChild == /\ parent = "wait" /\ child = "exited"
             /\ ExitParent(ExitStatus)
             /\ UNCHANGED <<aop, device, childVars, conn, requests, replies,
                            serving, signals, dataVars, kernelVars>>

Parent == \/ Fork \/ SetDevice \/ SetHandlers \/ CloseKernelEnd
          \/ TakeRequest \/ CopyByte \/ Abort \/ WriteReply \/ ServeDisc \/ ServeEof
          \/ CloseServerEnd \/ WaitChild

-----------------------------------------------------------------------------
(* The child.                                                              *)

ExitChild(how) == /\ child' = "exited" /\ outcome' = how
                  /\ sp0' = sp0 \ {"child"} /\ sp1' = sp1 \ {"child"}

ChildUnchanged == UNCHANGED <<parentVars, requests, replies, serving, signals,
                              dataVars, kernelVars>>

MaskSignals == /\ child = "forked"
               /\ child' = "masked"
               /\ UNCHANGED <<outcome, sp0, sp1, conn>> /\ ChildUnchanged

\* Faulty variant of CloseOtherEnd: the child keeps sp[0] open.
KeepOtherEnd == /\ child = "masked"
                /\ child' = "set_sock"
                /\ UNCHANGED <<outcome, sp0, sp1, conn>> /\ ChildUnchanged

\* Without this the kernel would not see that the parent is gone.
CloseOtherEnd == /\ child = "masked"
                 /\ child' = "set_sock"
                 /\ sp0' = sp0 \ {"child"}
                 /\ UNCHANGED <<outcome, sp1, conn>> /\ ChildUnchanged

SetSock == /\ child = "set_sock"
           /\ \/ /\ child' = "set_flags" /\ conn' = "set"
                 /\ UNCHANGED <<outcome, sp0, sp1>>
              \/ ExitChild("failed") /\ UNCHANGED conn
           /\ ChildUnchanged

SetFlags == /\ child = "set_flags"
            /\ \/ child' = "do_it" /\ UNCHANGED <<outcome, sp0, sp1>>
               \/ ExitChild("failed")
            /\ UNCHANGED conn /\ ChildUnchanged

\* NBD_DO_IT returns when the connection is down, with an error or without.
DoIt == /\ \/ /\ child = "do_it" /\ child' = "in kernel" /\ conn' = "up"
              /\ UNCHANGED <<outcome, sp0, sp1>>
           \/ /\ child = "do_it" \/ (child = "in kernel" /\ conn = "down")
              /\ ExitChild("failed") /\ UNCHANGED conn
           \/ /\ child = "in kernel" /\ conn = "down"
              /\ child' = "clear" /\ UNCHANGED <<outcome, sp0, sp1, conn>>
        /\ ChildUnchanged

Clear == /\ child = "clear"
         /\ \/ conn' = "clear" /\ ExitChild("ok")
            \/ ExitChild("failed") /\ UNCHANGED conn
         /\ ChildUnchanged

Child == MaskSignals \/ CloseOtherEnd \/ SetSock \/ SetFlags \/ DoIt \/ Clear

-----------------------------------------------------------------------------
(* Signals.                                                                *)

\* disconnect_nbd, or the default action while it is not installed.
SignalParent ==
  /\ signals < MaxSignals /\ parent # "exited"
  /\ signals' = signals + 1
  /\ IF parent \in {"start", "forked", "armed"}
       THEN ExitParent("killed") /\ UNCHANGED <<device, requests>>
       ELSE /\ \/ /\ device /\ device' = FALSE
                  /\ requests' = IF conn \in {"set", "up"}
                                   THEN Append(requests, "disc") ELSE requests
               \/ /\ ~device \/ conn \notin {"set", "up"}
                  /\ UNCHANGED <<device, requests>>
            /\ UNCHANGED <<parent, status, sp0, sp1>>
  /\ UNCHANGED <<aop, childVars, conn, replies, serving, dataVars, kernelVars>>

\* The child has no handler, and blocks signals from MaskSignals on.
SignalChild == /\ signals < MaxSignals /\ child = "forked"
               /\ signals' = signals + 1
               /\ ExitChild("killed")
               /\ UNCHANGED <<parentVars, conn, requests, replies, serving,
                              dataVars, kernelVars>>

-----------------------------------------------------------------------------
(* The kernel.                                                             *)

KernelUnchanged == UNCHANGED <<parentVars, childVars, sp0, sp1, serving, signals,
                               dataVars>>

SendRequest(r) == /\ conn = "up" /\ op[r] = "new"
                  /\ op' = [op EXCEPT ![r] = "open"]
                  /\ prec' = [prec EXCEPT ![r] = {q \in Request : op[q] = "done"}]
                  /\ requests' = Append(requests, r)
                  /\ UNCHANGED <<conn, replies, parsing, received, broken>>
                  /\ KernelUnchanged

HeaderIn == /\ conn = "up" /\ ~broken /\ parsing = {} /\ replies # <<>>
            /\ replies' = Tail(replies)
            /\ LET unit == Head(replies) IN
               IF unit[1] = "data" THEN broken' = TRUE /\ UNCHANGED <<op, parsing>>
               ELSE /\ UNCHANGED broken
                    /\ IF unit[3] \/ Data(unit[2]) = <<>>
                         THEN /\ op' = [op EXCEPT ![unit[2]] =
                                          IF unit[3] THEN "failed" ELSE "done"]
                              /\ UNCHANGED parsing
                         ELSE parsing' = {unit[2]} /\ UNCHANGED op
            /\ UNCHANGED <<conn, requests, prec, received>> /\ KernelUnchanged

DataIn == \E r \in parsing :
            /\ conn = "up" /\ replies # <<>>
            /\ replies' = Tail(replies)
            /\ received' = [received EXCEPT ![r] = Append(@, Head(replies))]
            /\ IF Len(received[r]) + 1 = Length(r)
                 THEN parsing' = {} /\ op' = [op EXCEPT ![r] = "done"]
                 ELSE UNCHANGED <<parsing, op>>
            /\ UNCHANGED <<conn, requests, prec, broken>> /\ KernelUnchanged

ShutDown == /\ conn = "up"
            /\ conn' = "down"
            /\ UNCHANGED <<requests, replies, kernelVars>> /\ KernelUnchanged

\* The kernel must end the connection; without a reason, it may.
EndConnection == (broken \/ sp0 = {}) /\ ShutDown

Next == \/ Parent \/ Child \/ SignalParent \/ SignalChild
        \/ \E r \in Request : SendRequest(r)
        \/ HeaderIn \/ DataIn \/ ShutDown

Spec == Init /\ [][Next]_vars

\* Both processes run, and the kernel sees the end of the stream.
FairSpec == Spec /\ WF_vars(Parent) /\ WF_vars(Child) /\ WF_vars(EndConnection)

-----------------------------------------------------------------------------
\* The types of the processes' states and of the streams.
TypeOK ==
  /\ parent \in {"start", "forked", "armed", "handling", "serve", "close",
                 "wait", "exited"}
  /\ status \in {"none", "killed", "0", "1"}
  /\ child \in {"none", "forked", "masked", "set_sock", "set_flags", "do_it",
                "in kernel", "clear", "exited"}
  /\ outcome \in {"none", "ok", "failed", "killed"}
  /\ conn \in {"none", "set", "up", "down", "clear"}
  /\ sp0 \subseteq {"parent", "child"} /\ sp1 \subseteq {"parent", "child"}
  /\ requests \in Seq(Request \cup {"disc"})
  /\ serving \in {{}} \cup {{r} : r \in Request}
  /\ op \in [Request -> {"new", "open", "done", "failed"}]
  /\ \A r \in Request : i[r] \in 0..Length(r)
  /\ m_storage \in [Byte -> Request \cup {Zero}]
  /\ parsing \in {{}} \cup {{r} : r \in Reads}
  /\ {device, broken} \subseteq BOOLEAN

(***************************************************************************)
(* "Exit code should be 0" (buse/test/signal_termination.sh): busexmp does *)
(* not say 0 unless the child has released the device, or was killed by a  *)
(* signal before it had blocked them, for which buse_main does not look.   *)
(***************************************************************************)
ZeroMeansReleased ==
  status = "0" /\ aop # Loopback =>
    \/ outcome = "ok" /\ conn = "clear"
    \/ outcome = "killed" /\ conn = "none"

\* The service implements the device, with the same promise as netspace.  A
\* request that failed remains open.
Device == INSTANCE BlockDevice
            WITH applied <- [r \in Request |-> Offset(r) .. Offset(r) + i[r] - 1],
                     op      <- [r \in Request |-> IF op[r] = "failed" THEN "open"
                                                                   ELSE op[r]]

\* BUSE's server, programs and kernel interface implement BlockDevice.
DeviceSpec == Device!Spec

(***************************************************************************)
(* The kernel finds a header where it expects one until a READ has failed: *)
(* then its data follow a header with an error.  It completes a READ with  *)
(* what was read for it.                                                   *)
(***************************************************************************)
RepliesIntact == /\ broken => \E r \in Reads : op[r] = "failed"
                 /\ \A r \in Reads : op[r] = "done" => received[r] = Data(r)

\* A disconnection that the kernel announces ends the parent.
DisconnectEnds == (\E n \in DOMAIN requests : requests[n] = "disc") ~> parent = "exited"

\* When the parent ends, however it does, the child does not stay in the kernel.
OrphanEnds == parent = "exited" ~> child \in {"none", "exited"}

(***************************************************************************)
(* The parent learns that its child has ended, and ends too, unless the    *)
(* child failed between NBD_SET_SOCK and NBD_DO_IT, when it leaves the     *)
(* socket with the kernel and nobody shuts it down.                        *)
(***************************************************************************)
ParentFollows == child = "exited" ~> parent = "exited" \/ conn = "set"
=============================================================================
