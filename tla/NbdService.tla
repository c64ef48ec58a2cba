------------------------------ MODULE NbdService ------------------------------
(***************************************************************************)
(* The way of a request through netspace: the kernel's NBD driver writes   *)
(* it to a socket, the reactor thread receives it and adds an NBDTask to   *)
(* the thread pool, a worker copies its bytes from or to RAMStorage and    *)
(* writes the reply to the same socket, where the kernel parses it.        *)
(*                                                                         *)
(* The pool gives each task to one worker (modules WPQueue, ThreadPool);   *)
(* all NBDTasks have the priority MEDIUM, so it may be any of them.        *)
(* RAMStorage has no lock, so a byte is copied at a time.  A write r has   *)
(* the value r in all its bytes.  A reply is a sequence of units in the    *)
(* socket's stream: <<"header", r>>, and for a READ a <<"data", v>> for    *)
(* each byte.  The kernel sees no more than these units.                   *)
(***************************************************************************)
EXTENDS Integers, Sequences, FiniteSets

CONSTANTS Request,    \* the requests, by their m_handle
          Reads,      \* those of type NBD_CMD_READ
          Offset(_),  \* m_offset
          Length(_),    \* m_len
          StorageSize,
          Worker,     \* the threads of the pool
          Zero        \* the content of a new storage

ASSUME NbdServiceAssumption ==
         /\ StorageSize \in Nat
         /\ Reads \subseteq Request
         /\ IsFiniteSet(Request)
         /\ Zero \notin Request
         /\ \A r \in Request : /\ Offset(r) \in Nat /\ Length(r) \in Nat
                               /\ Offset(r) + Length(r) <= StorageSize

VARIABLES op,        \* the kernel: "new", "open" or "done"
          prec,      \* history: the requests done when r was sent
          requests,  \* the stream of requests in the socket
          tasks,     \* the NBDTasks in the thread pool's queue
          cur,       \* the task that a worker executes, at most one
          i,         \* its progress in RAMStorage::Read or Write
          held,      \* the mutexes that are locked
          sent,      \* the units of the reply it has written
          m_storage,
          m_data,    \* the buffers of the reads
          replies,   \* the stream of replies in the socket
          parsing,   \* the kernel: the READ whose data it expects
          received,  \* the kernel: the data it got for each request
          broken,    \* the kernel found no header where it expected one
          mixed      \* history: a worker wrote while another one was in between

kernelVars == <<op, prec, parsing, received, broken>>
workVars   == <<cur, i, held, sent>>
dataVars   == <<m_storage, m_data>>
vars       == <<kernelVars, workVars, dataVars, requests, tasks, replies, mixed>>

Byte    == 0 .. StorageSize - 1
Span(r) == Offset(r) .. Offset(r) + Length(r) - 1
None    == {}

Init == /\ op = [r \in Request |-> "new"]
        /\ prec = [r \in Request |-> {}]
        /\ requests = <<>> /\ replies = <<>> /\ tasks = {}
        /\ cur = [w \in Worker |-> None]
        /\ i = [r \in Request |-> 0]
        /\ held = {}
        /\ sent = [r \in Request |-> 0]
        /\ m_storage = [b \in Byte |-> Zero]
        /\ m_data = [r \in Reads |-> [b \in Byte |-> Zero]]
        /\ parsing = None
        /\ received = [r \in Request |-> <<>>]
        /\ broken = FALSE /\ mixed = FALSE

-----------------------------------------------------------------------------
\* The kernel writes a request, and the data of a WRITE, to the socket.
Send(r) == /\ op[r] = "new"
           /\ op' = [op EXCEPT ![r] = "open"]
           /\ prec' = [prec EXCEPT ![r] = {q \in Request : op[q] = "done"}]
           /\ requests' = Append(requests, r)
           /\ UNCHANGED <<parsing, received, broken, workVars, dataVars,
                          tasks, replies, mixed>>

\* Faulty variant of Receive: the reactor forgets AddTask for a READ.
ReceiveDrop == /\ requests # <<>>
               /\ requests' = Tail(requests)
               /\ tasks' = tasks \cup ({Head(requests)} \ Reads)
               /\ UNCHANGED <<kernelVars, workVars, dataVars, replies, mixed>>

\* The reactor: NBDSrc::Read with ReceiveRequest, then AddTask.
Receive == /\ requests # <<>>
           /\ requests' = Tail(requests)
           /\ tasks' = tasks \cup {Head(requests)}
           /\ UNCHANGED <<kernelVars, workVars, dataVars, replies, mixed>>

-----------------------------------------------------------------------------
(* NBDTask::Execute in worker w.                                           *)

\* Faulty variant of Take: a second task before the first is finished.
TakeSecond(w) == /\ \E r \in tasks : /\ cur' = [cur EXCEPT ![w] = @ \cup {r}]
                                     /\ tasks' = tasks \ {r}
                 /\ UNCHANGED <<kernelVars, i, held, sent, dataVars, requests,
                                replies, mixed>>

Take(w) == /\ cur[w] = None
           /\ \E r \in tasks : /\ cur' = [cur EXCEPT ![w] = {r}]
                               /\ tasks' = tasks \ {r}
           /\ UNCHANGED <<kernelVars, i, held, sent, dataVars, requests,
                          replies, mixed>>

\* One iteration of the loop of RAMStorage::Read or RAMStorage::Write.
CopyByte(w) ==
  \E r \in cur[w] :
    LET b == Offset(r) + i[r] IN
    /\ i[r] < Length(r)
    /\ i' = [i EXCEPT ![r] = @ + 1]
    /\ IF r \in Reads
         THEN m_data' = [m_data EXCEPT ![r][b] = m_storage[b]]
              /\ UNCHANGED m_storage
         ELSE m_storage' = [m_storage EXCEPT ![b] = r]
              /\ UNCHANGED m_data
    /\ UNCHANGED <<kernelVars, cur, held, sent, requests, tasks, replies, mixed>>

\* m_mutex is a member of the NBDTask: each request has its own.
Mutex(r) == r

\* Faulty variant of Lock: the reply does not wait for the storage.
LockEarly(w) == \E r \in cur[w] :
  /\ Mutex(r) \notin held
  /\ held' = held \cup {Mutex(r)}
  /\ UNCHANGED <<kernelVars, cur, i, sent, dataVars, requests, tasks, replies,
                 mixed>>

Lock(w) == \E r \in cur[w] :
  /\ i[r] = Length(r)
  /\ Mutex(r) \notin held
  /\ held' = held \cup {Mutex(r)}
  /\ UNCHANGED <<kernelVars, cur, i, sent, dataVars, requests, tasks, replies,
                 mixed>>

\* The units of r's reply: the header, and a READ's data.
Reply(r) == <<<<"header", r>>>> \o
            IF r \in Reads
              THEN [n \in 1..Length(r) |-> <<"data", m_data[r][Offset(r) + n - 1]>>]
              ELSE <<>>

\* w writes when another worker has written a part of its reply.
Mix(w) == mixed' = (mixed \/ \E v \in Worker \ {w} : \E r \in cur[v] :
                               sent[r] > 0 /\ sent[r] < Len(Reply(r)))

\* Faulty variant of Write: the data goes before the header.
WriteDataFirst(w) == \E r \in cur[w] :
  /\ Mutex(r) \in held
  /\ sent[r] < Len(Reply(r))
  /\ sent' = [sent EXCEPT ![r] = @ + 1]
  /\ replies' = Append(replies, Reply(r)[Len(Reply(r)) - sent[r]])
  /\ Mix(w)
  /\ UNCHANGED <<kernelVars, cur, i, held, dataVars, requests, tasks>>

(***************************************************************************)
(* SendReply: write_all of the header, then of the data.  A write accepts  *)
(* the header as a whole, and of the data as much as the socket has room   *)
(* for: write_all calls it again for the rest.                             *)
(***************************************************************************)
Write(w) == \E r \in cur[w] :
  /\ Mutex(r) \in held
  /\ \E n \in (sent[r] + 1) .. Len(Reply(r)) :
       /\ sent[r] = 0 => n = 1
       /\ sent' = [sent EXCEPT ![r] = n]
       /\ replies' = replies \o SubSeq(Reply(r), sent[r] + 1, n)
  /\ Mix(w)
  /\ UNCHANGED <<kernelVars, cur, i, held, dataVars, requests, tasks>>

Finish(w) == \E r \in cur[w] :
  /\ sent[r] = Len(Reply(r))
  /\ held' = held \ {Mutex(r)}
  /\ cur' = [cur EXCEPT ![w] = None]
  /\ UNCHANGED <<kernelVars, i, sent, dataVars, requests, tasks, replies, mixed>>

Execute(w) == Take(w) \/ CopyByte(w) \/ Lock(w) \/ Write(w) \/ Finish(w)

-----------------------------------------------------------------------------
(* The kernel's receiving thread.  It completes a WRITE at its header, and *)
(* a READ when it has m_len units after its header, whatever they are.     *)

HeaderIn == /\ parsing = None
            /\ replies # <<>>
            /\ replies' = Tail(replies)
            /\ LET unit == Head(replies)
                   r    == unit[2] IN
               \/ /\ unit[1] = "header"
                  /\ r \in Reads /\ Length(r) > 0
                  /\ parsing' = {r}
                  /\ UNCHANGED <<op, broken>>
               \/ /\ unit[1] = "header"
                  /\ ~(r \in Reads /\ Length(r) > 0)
                  /\ op' = [op EXCEPT ![r] = "done"]
                  /\ UNCHANGED <<parsing, broken>>
               \/ /\ unit[1] = "data"
                  /\ broken' = TRUE
                  /\ UNCHANGED <<op, parsing>>
            /\ UNCHANGED <<prec, received, workVars, dataVars, requests, tasks, mixed>>

DataIn == \E r \in parsing :
            /\ replies # <<>>
            /\ replies' = Tail(replies)
            /\ received' = [received EXCEPT ![r] = Append(@, Head(replies))]
            /\ IF Len(received[r]) + 1 = Length(r)
                 THEN parsing' = None /\ op' = [op EXCEPT ![r] = "done"]
                 ELSE UNCHANGED <<parsing, op>>
            /\ UNCHANGED <<prec, broken, workVars, dataVars, requests, tasks, mixed>>

\* After a bad header the kernel shuts the socket down.
Next == /\ ~broken
        /\ \/ \E r \in Request : Send(r)
           \/ Receive \/ HeaderIn \/ DataIn
           \/ \E w \in Worker : Execute(w)

Spec == Init /\ [][Next]_vars

\* The threads run.  The kernel owes no request.
Fairness == /\ WF_vars(~broken /\ Receive)
            /\ WF_vars(~broken /\ (HeaderIn \/ DataIn))
            /\ \A w \in Worker : WF_vars(~broken /\ Execute(w))

FairSpec == Spec /\ Fairness

-----------------------------------------------------------------------------
\* The types of the members, of the streams and of the kernel's state.
Unit == ({"header"} \X Request) \cup ({"data"} \X (Request \cup {Zero}))

TypeOK ==
  /\ op \in [Request -> {"new", "open", "done"}]
  /\ prec \in [Request -> SUBSET Request]
  /\ requests \in Seq(Request) /\ replies \in Seq(Unit)
  /\ tasks \subseteq Request /\ held \subseteq Request
  /\ cur \in [Worker -> {None} \cup {{r} : r \in Request}]
  /\ \A r \in Request : /\ i[r] \in 0..Length(r)
                        /\ sent[r] \in 0..(Length(r) + 1)
                        /\ received[r] \in Seq(Unit)
  /\ m_storage \in [Byte -> Request \cup {Zero}]
  /\ m_data \in [Reads -> [Byte -> Request \cup {Zero}]]
  /\ parsing \in {None} \cup {{r} : r \in Reads}
  /\ broken \in BOOLEAN /\ mixed \in BOOLEAN

(***************************************************************************)
(* netspace is a BlockDevice: between submission and completion as the     *)
(* kernel sees them, each request passes its bytes once, whatever workers  *)
(* interleave.  (Of the data in the replies this says nothing.)            *)
(***************************************************************************)
Device == INSTANCE BlockDevice
            WITH applied <- [r \in Request |->
                               Offset(r) .. Offset(r) + i[r] - 1]

DeviceSpec == Device!Spec

(***************************************************************************)
(* "protect with mutex" (netspace.cpp:150): the kernel finds whole replies *)
(* in the stream, and completes a READ with the data that was read for it. *)
(***************************************************************************)
RepliesIntact ==
  /\ ~broken
  /\ \A r \in Reads : op[r] = "done" => <<<<"header", r>>>> \o received[r] = Reply(r)

\* Nothing but that comes between: the replies are whole, and the stream in
\* step, as long as no worker writes between two writes of another one.
WholeUnlessMixed == mixed \/ RepliesIntact

(***************************************************************************)
(* Every request that the kernel sends is completed, from socket to socket *)
(* through reactor, pool and storage, unless replies were mixed.           *)
(***************************************************************************)
EveryRequestCompleted == \A r \in Request : op[r] = "open" ~> op[r] = "done" \/ mixed
=============================================================================
