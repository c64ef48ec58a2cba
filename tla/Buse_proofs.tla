------------------------------ MODULE Buse_proofs ------------------------------
(***************************************************************************)
(* For any requests, with or without operations that fail, any signals and *)
(* any of the programs: an exit status of 0 is true, the programs of BUSE  *)
(* implement BlockDevice, and the replies are intact until a READ fails.   *)
(***************************************************************************)
EXTENDS Buse, SequenceTheorems, TLAPS

-----------------------------------------------------------------------------
(* The processes.                                                          *)

\* The child leads the connection through its states, and says how it ends.
Attaching ==
  /\ parent = "start" => child = "none"
  /\ child \in {"none", "forked", "masked", "set_sock"} => conn = "none"
  /\ child \in {"set_flags", "do_it"} => conn = "set"
  /\ child = "in kernel" => conn \in {"up", "down"}
  /\ child = "clear" => conn = "down"
  /\ child = "exited" <=> outcome # "none"
  /\ outcome = "ok" => conn = "clear"
  /\ outcome = "killed" => conn = "none"

\* Only a parent that has ended has a status.
Status == /\ status # "none" => parent = "exited"
          /\ ZeroMeansReleased

-----------------------------------------------------------------------------
(* The requests.                                                           *)

Value == Request \cup {Zero}

Header(r) == <<"header", r, Error(r)>>
Unit == {Header(r) : r \in Request} \cup {<<"data", v>> : v \in Value}

InStream(r) == \E n \in 1..Len(requests) : requests[n] = r
HeaderAt(r, n) == n \in 1..Len(replies) /\ replies[n] = Header(r)

\* A request whose reply the server has not written yet.
Waiting(r) == InStream(r) \/ r \in serving

\* The operation is over: every byte was copied, or it returned an error.
Served(r) == i[r] = Length(r) \/ Error(r)

Places ==
  /\ parent \in {"start", "forked", "armed", "handling", "serve", "close",
                 "wait", "exited"}
  /\ status \in {"none", "killed", "0", "1"}
  /\ child \in {"none", "forked", "masked", "set_sock", "set_flags", "do_it",
                "in kernel", "clear", "exited"}
  /\ outcome \in {"none", "ok", "failed", "killed"}
  /\ conn \in {"none", "set", "up", "down", "clear"}

Ends == /\ sp0 \subseteq {"parent", "child"}
        /\ sp1 \subseteq {"parent", "child"}
        /\ {device, broken} \subseteq BOOLEAN

Storage == /\ i \in [Request -> Nat] /\ \A r \in Request : i[r] \in 0..Length(r)
           /\ m_storage \in [Byte -> Value]
           /\ m_data \in [Reads -> [Byte -> Value]]

Streams == /\ requests \in Seq(Request \cup {"disc"})
           /\ replies \in Seq(Unit)
           /\ received \in [Request -> Seq(Unit)]

Serving == /\ serving \in {{}} \cup {{r} : r \in Request}
           /\ op \in [Request -> {"new", "open", "done", "failed"}]
           /\ parsing \in {{}} \cup {{r} : r \in Reads}

\* The stream and the server have each request once.
OnePlace ==
  /\ \A r \in Request, m, n \in 1..Len(requests) :
       requests[m] = r /\ requests[n] = r => m = n
  /\ \A r \in serving : ~InStream(r)

\* A request is in the stream of requests or with the server, or its header in
\* the stream of replies, or the kernel is at its data, or has completed it.
WaitingOpen ==
  /\ \A r \in Request : op[r] = "new" => i[r] = 0 /\ ~Waiting(r)
  /\ \A r \in Request : InStream(r) => i[r] = 0
  /\ \A r \in Request : Waiting(r) => /\ op[r] = "open" /\ r \notin parsing
                                      /\ received[r] = <<>>

HeaderOnce ==
  /\ \A r \in Request, m, n \in 1..Len(replies) :
       HeaderAt(r, m) /\ HeaderAt(r, n) => m = n
  /\ \A r \in Request, n \in 1..Len(replies) :
       HeaderAt(r, n) => /\ op[r] = "open" /\ ~Waiting(r) /\ Served(r)
                         /\ r \notin parsing /\ received[r] = <<>>

Parsed ==
  /\ \A r \in parsing : /\ op[r] = "open" /\ ~Waiting(r)
                        /\ i[r] = Length(r) /\ ~Error(r)
                        /\ Len(received[r]) < Length(r)
  /\ \A r \in Request : op[r] = "done" => i[r] = Length(r) /\ ~Error(r)
  /\ \A r \in Request : op[r] = "new" => received[r] = <<>>

-----------------------------------------------------------------------------
(* The stream of replies.                                                  *)

\* r's reply begins at place p, which is not above 0 once the kernel has read
\* the header.
Begins(r, p) == HeaderAt(r, p) \/ (r \in parsing /\ p = -Len(received[r]))

IsHeader(unit) == unit[1] = "header"

\* The rest of r's reply is there, and what follows it is another one.
Whole(r, p) ==
  /\ p + Len(Data(r)) <= Len(replies)
  /\ \A j \in 1..Len(Data(r)) : p + j > 0 => replies[p + j] = Data(r)[j]
  /\ p + Len(Data(r)) < Len(replies) => IsHeader(replies[p + Len(Data(r)) + 1])

Got(r) == \A j \in 1..Len(received[r]) : received[r][j] = Data(r)[j]

ReadFailed == \E r \in Reads : op[r] = "failed"

\* The kernel is at a header when it expects one.
InStep ==
  /\ broken => ReadFailed /\ parsing = {}
  /\ parsing = {} /\ replies # <<>> => IsHeader(replies[1]) \/ ReadFailed
  /\ \A r \in Request, p \in Int : Begins(r, p) => Whole(r, p)
  /\ \A r \in Request : Got(r)
  /\ \A r \in Reads : op[r] = "done" => Len(received[r]) = Length(r)

Control == Places /\ Ends /\ Attaching /\ Status

Service == /\ Storage /\ Streams /\ Serving
           /\ OnePlace /\ WaitingOpen /\ HeaderOnce /\ Parsed /\ InStep

IInv == Control /\ Service

USE DEF parentVars, childVars, dataVars, kernelVars

-----------------------------------------------------------------------------
(* Headers and data.                                                       *)

LEMMA Numbers ==
  ASSUME NEW r \in Request
  PROVE  /\ Length(r) \in Nat /\ Offset(r) \in Nat
         /\ \A n \in 0..(Length(r) - 1) : Offset(r) + n \in Byte
<1>1. Length(r) \in Nat /\ Offset(r) \in Nat /\ StorageSize \in Nat
      /\ Offset(r) + Length(r) <= StorageSize
  BY BuseAssumption
<1> QED
  BY <1>1 DEF Byte

LEMMA HeaderParts ==
  ASSUME NEW r \in Request
  PROVE  /\ Header(r) \in Unit /\ IsHeader(Header(r))
         /\ Header(r)[2] = r /\ (Header(r)[3] <=> Error(r))
         /\ \A q \in Request : Header(q) = Header(r) => q = r
<1>1. \A q \in Request : Header(q)[2] = q
  BY DEF Header
<1>2. Header(r)[1] = "header"
  BY DEF Header
<1>3. Header(r)[3] <=> Error(r)
  BY DEF Header
<1>4. Header(r) \in Unit
  BY DEF Unit
<1> QED
  BY <1>1, <1>2, <1>3, <1>4 DEF IsHeader

LEMMA UnitParts ==
  ASSUME NEW u \in Unit
  PROVE  /\ ~(u[1] = "data") => \E r \in Request : u = Header(r)
         /\ u[1] = "data" <=> ~IsHeader(u)
<1>1. CASE \E r \in Request : u = Header(r)
  BY <1>1, HeaderParts DEF IsHeader
<1>2. CASE \E v \in Value : u = <<"data", v>>
  BY <1>2 DEF IsHeader
<1> QED
  BY <1>1, <1>2 DEF Unit

LEMMA DataParts ==
  ASSUME Storage, NEW r \in Request
  PROVE  /\ Len(Data(r)) = IF r \in Reads THEN Length(r) ELSE 0
         /\ Data(r) \in Seq(Unit)
         /\ \A j \in 1..Len(Data(r)) : Data(r)[j] \in Unit /\ ~IsHeader(Data(r)[j])
<1>1. CASE r \in Reads
  <2>1. Length(r) \in Nat
    BY Numbers
  <2>2. Data(r) = [n \in 1..Length(r) |-> <<"data", m_data[r][Offset(r) + n - 1]>>]
    BY <1>1 DEF Data
  <2>3. ASSUME NEW n \in 1..Length(r)
        PROVE  Data(r)[n] \in Unit /\ ~IsHeader(Data(r)[n])
    <3>1. Offset(r) + (n - 1) \in Byte
      BY <2>1, Numbers
    <3>2. Offset(r) + n - 1 = Offset(r) + (n - 1)
      BY <2>1, Numbers
    <3>3. m_data[r][Offset(r) + n - 1] \in Value
      BY <1>1, <3>1, <3>2 DEF Storage
    <3>4. Data(r)[n] = <<"data", m_data[r][Offset(r) + n - 1]>>
      BY <2>2
    <3>5. Data(r)[n] \in Unit
      BY <3>3, <3>4 DEF Unit
    <3> QED
      BY <3>4, <3>5 DEF IsHeader
  <2>4. Data(r) \in Seq(Unit) /\ Len(Data(r)) = Length(r)
    BY <2>1, <2>2, <2>3
  <2> QED
    BY <1>1, <2>3, <2>4
<1>2. CASE r \notin Reads
  BY <1>2 DEF Data
<1> QED
  BY <1>1, <1>2

\* A program keeps its operations.
LEMMA SameErrors ==
  ASSUME aop' = aop
  PROVE  \A r \in Request : (Error(r)' <=> Error(r)) /\ Header(r)' = Header(r)
BY DEF Error, Header

LEMMA SameUnits ==
  ASSUME aop' = aop
  PROVE  Unit' = Unit
BY SameErrors DEF Unit

LEMMA SameData ==
  ASSUME NEW r \in Request, r \in Reads => m_data'[r] = m_data[r]
  PROVE  Data(r)' = Data(r)
BY DEF Data

-----------------------------------------------------------------------------
(* The processes, step by step.                                            *)

LEMMA ParentControl ==
  ASSUME Control, Parent
  PROVE  Control'
<1> USE DEF Control, Places, Ends, Attaching, Status, ZeroMeansReleased
<1>1. CASE Fork
  BY <1>1 DEF Fork, ExitParent
<1>2. CASE SetDevice
  BY <1>2 DEF SetDevice, ParentStep
<1>3. CASE SetHandlers
  BY <1>3 DEF SetHandlers, ParentStep
<1>4. CASE CloseKernelEnd
  BY <1>4 DEF CloseKernelEnd, ParentStep
<1>5. CASE TakeRequest
  BY <1>5 DEF TakeRequest
<1>6. CASE CopyByte
  BY <1>6 DEF CopyByte
<1>7. CASE Abort
  BY <1>7 DEF Abort, ExitParent
<1>8. CASE WriteReply
  BY <1>8 DEF WriteReply, ExitParent
<1>9. CASE ServeDisc
  BY <1>9 DEF ServeDisc, ParentStep
<1>10. CASE ServeEof
  BY <1>10 DEF ServeEof, ParentStep, ExitParent
<1>11. CASE CloseServerEnd
  BY <1>11 DEF CloseServerEnd, ParentStep
<1>12. CASE WaitChild
  BY <1>12 DEF WaitChild, ExitParent, ExitStatus
<1> QED
  BY <1>1, <1>2, <1>3, <1>4, <1>5, <1>6, <1>7, <1>8, <1>9, <1>10, <1>11, <1>12
     DEF Parent

LEMMA ChildControl ==
  ASSUME Control, Child
  PROVE  Control'
<1> USE DEF Control, Places, Ends, Attaching, Status, ZeroMeansReleased,
            ChildUnchanged
<1>1. CASE MaskSignals
  BY <1>1 DEF MaskSignals
<1>2. CASE CloseOtherEnd
  BY <1>2 DEF CloseOtherEnd
<1>3. CASE SetSock
  BY <1>3 DEF SetSock, ExitChild
<1>4. CASE SetFlags
  BY <1>4 DEF SetFlags, ExitChild
<1>5. CASE DoIt
  BY <1>5 DEF DoIt, ExitChild
<1>6. CASE Clear
  BY <1>6 DEF Clear, ExitChild
<1> QED
  BY <1>1, <1>2, <1>3, <1>4, <1>5, <1>6 DEF Child

LEMMA SignalsControl ==
  ASSUME Control, SignalParent \/ SignalChild \/ HeaderIn \/ DataIn \/ ShutDown
                  \/ \E r \in Request : SendRequest(r)
  PROVE  Control'
<1> USE DEF Control, Places, Ends, Attaching, Status, ZeroMeansReleased
<1>1. CASE SignalParent
  BY <1>1 DEF SignalParent, ExitParent
<1>2. CASE SignalChild
  BY <1>2 DEF SignalChild, ExitChild
<1>3. ASSUME NEW r \in Request, SendRequest(r) PROVE Control'
  BY <1>3 DEF SendRequest, KernelUnchanged
<1>4. CASE HeaderIn
  BY <1>4 DEF HeaderIn, KernelUnchanged
<1>5. CASE DataIn
  BY <1>5 DEF DataIn, KernelUnchanged
<1>6. CASE ShutDown
  BY <1>6 DEF ShutDown, KernelUnchanged
<1> QED
  BY <1>1, <1>2, <1>3, <1>4, <1>5, <1>6

-----------------------------------------------------------------------------
(* The requests and the replies, step by step.                             *)

\* A step that does not touch the replies, nor the data of a request that the
\* server has written one for.
LEMMA InStepKept ==
  ASSUME Service, aop' = aop, UNCHANGED <<replies, parsing, received, broken>>,
         \A r \in Request : op[r] = "failed" => op'[r] = "failed",
         \A r \in Request : op'[r] = "done" => op[r] = "done",
         \A r \in Reads : ~Waiting(r) => m_data'[r] = m_data[r]
  PROVE  InStep'
<1> USE DEF Service
<1>1. ASSUME NEW r \in Request, ~Waiting(r) PROVE Data(r)' = Data(r)
  BY <1>1, SameData
<1>2. ASSUME NEW r \in Request, NEW p \in Int, Begins(r, p)' PROVE Whole(r, p)'
  <2>1. HeaderAt(r, p)' => HeaderAt(r, p)
    BY SameErrors DEF HeaderAt
  <2>2. Begins(r, p)
    BY <1>2, <2>1 DEF Begins
  <2>3. ~Waiting(r)
    BY <2>2 DEF Begins, HeaderOnce, HeaderAt, Parsed
  <2>4. Whole(r, p)
    BY <2>2 DEF InStep
  <2>5. Data(r)' = Data(r)
    BY <1>1, <2>3
  <2> QED
    BY <2>4, <2>5 DEF Whole
<1>3. ASSUME NEW r \in Request PROVE Got(r)'
  <2>1. CASE Waiting(r)
    <3>1. received'[r] = <<>>
      BY <2>1 DEF WaitingOpen
    <3> QED
      BY <3>1 DEF Got
  <2>2. CASE ~Waiting(r)
    BY <1>1, <2>2 DEF InStep, Got
  <2> QED
    BY <2>1, <2>2
<1>4. ReadFailed => ReadFailed'
  BY DEF ReadFailed, Reads
<1>5. \A r \in Reads : op'[r] = "done" => Len(received'[r]) = Length(r)
  BY DEF InStep, Reads
<1>6. broken' => ReadFailed' /\ parsing' = {}
  BY <1>4 DEF InStep
<1>7. parsing' = {} /\ replies' # <<>> => IsHeader(replies'[1]) \/ ReadFailed'
  BY <1>4 DEF InStep
<1> QED
  BY <1>2, <1>3, <1>5, <1>6, <1>7 DEF InStep

\* The server is at less, or nothing happens to the requests.
LEMMA ServiceRests ==
  ASSUME Service, serving' \in {serving, {}},
         UNCHANGED <<aop, requests, replies, dataVars, kernelVars>>
  PROVE  Service'
<1> USE DEF Service
<1>1. Storage'
  BY DEF Storage
<1>2. Streams'
  BY SameUnits DEF Streams
<1>3. Serving'
  BY DEF Serving
<1>4. \A r \in Request : /\ InStream(r)' <=> InStream(r)
                         /\ Waiting(r)' => Waiting(r)
  BY DEF InStream, Waiting
<1>5. \A r \in Request, n \in Int : HeaderAt(r, n)' <=> HeaderAt(r, n)
  BY SameErrors DEF HeaderAt
<1>6. OnePlace'
  BY <1>4 DEF OnePlace, InStream
<1>7. WaitingOpen'
  BY <1>4 DEF WaitingOpen
<1>8. HeaderOnce'
  BY <1>4, <1>5, SameErrors DEF HeaderOnce, Served
<1>9. Parsed'
  BY <1>4, SameErrors DEF Parsed, Serving, Reads
<1>10. InStep'
  BY InStepKept
<1> QED
  BY <1>1, <1>2, <1>3, <1>6, <1>7, <1>8, <1>9, <1>10

\* The server takes the first of the stream, if that is a request.
LEMMA ServiceTakes ==
  ASSUME Service, serving = {}, requests # <<>>, requests' = Tail(requests),
         serving' = IF Head(requests) \in Request THEN {Head(requests)} ELSE {},
         UNCHANGED <<aop, replies, dataVars, kernelVars>>
  PROVE  Service'
<1> USE DEF Service
<1> DEFINE h == Head(requests)
<1>1. /\ requests' \in Seq(Request \cup {"disc"})
      /\ Len(requests) \in Nat \ {0} /\ Len(requests') = Len(requests) - 1
      /\ h = requests[1]
      /\ \A n \in 1..Len(requests') : requests'[n] = requests[n + 1]
  BY HeadTailProperties, LenProperties, EmptySeq DEF Streams
<1> HIDE DEF h
<1>2. \A n \in 1..Len(requests') : n + 1 \in 1..Len(requests) /\ n + 1 # 1
  BY <1>1
<1>3. 1 \in 1..Len(requests)
  BY <1>1
<1>4. ASSUME NEW r \in Request, InStream(r)' PROVE InStream(r) /\ r # h
  <2>1. PICK n \in 1..Len(requests') : requests'[n] = r
    BY <1>4 DEF InStream
  <2>2. n + 1 \in 1..Len(requests) /\ n + 1 # 1 /\ requests[n + 1] = r
    BY <1>1, <1>2, <2>1
  <2>3. r # h
    BY <1>1, <1>3, <2>2 DEF OnePlace
  <2> QED
    BY <2>2, <2>3 DEF InStream
<1>5. h \in Request => InStream(h) /\ serving' = {h}
  BY <1>1, <1>3 DEF InStream, h
<1>6. h \notin Request => serving' = {}
  BY DEF h
<1>7. \A r \in Request : Waiting(r)' => Waiting(r)
  BY <1>4, <1>5, <1>6 DEF Waiting
<1>8. Storage'
  BY DEF Storage
<1>9. Streams'
  BY <1>1, SameUnits DEF Streams
<1>10. Serving'
  BY <1>5, <1>6 DEF Serving
<1>11. OnePlace'
  <2>1. ASSUME NEW r \in Request, NEW m \in 1..Len(requests'),
               NEW n \in 1..Len(requests'), requests'[m] = r, requests'[n] = r
        PROVE  m = n
    <3>1. m + 1 = n + 1
      BY <1>1, <1>2, <2>1 DEF OnePlace
    <3> QED
      BY <3>1
  <2>2. \A r \in serving' : ~InStream(r)'
    BY <1>4, <1>5, <1>6
  <2> QED
    BY <2>1, <2>2 DEF OnePlace
<1>12. \A r \in Request, n \in Int : HeaderAt(r, n)' <=> HeaderAt(r, n)
  BY SameErrors DEF HeaderAt
<1>13. WaitingOpen'
  BY <1>4, <1>7 DEF WaitingOpen
<1>14. HeaderOnce'
  BY <1>7, <1>12, SameErrors DEF HeaderOnce, Served
<1>15. Parsed'
  BY <1>7, SameErrors DEF Parsed, Serving, Reads
<1>16. InStep'
  BY InStepKept
<1> QED
  BY <1>8, <1>9, <1>10, <1>11, <1>13, <1>14, <1>15, <1>16

LEMMA Appended ==
  ASSUME Streams, NEW x \in Request \cup {"disc"}, requests' = Append(requests, x)
  PROVE  /\ requests' \in Seq(Request \cup {"disc"})
         /\ Len(requests) \in Nat /\ Len(requests') = Len(requests) + 1
         /\ \A n \in 1..Len(requests) : requests'[n] = requests[n]
         /\ requests'[Len(requests) + 1] = x
BY AppendProperties, LenProperties DEF Streams

\* NBD_CMD_DISC is no request that waits.
LEMMA ServiceDisc ==
  ASSUME Service, requests' = Append(requests, "disc"),
         UNCHANGED <<aop, replies, serving, dataVars, kernelVars>>
  PROVE  Service'
<1> USE DEF Service
<1>1. /\ requests' \in Seq(Request \cup {"disc"})
      /\ Len(requests) \in Nat /\ Len(requests') = Len(requests) + 1
      /\ \A n \in 1..Len(requests) : requests'[n] = requests[n]
      /\ requests'[Len(requests) + 1] = "disc"
  BY Appended
<1>2. ASSUME NEW r \in Request, NEW n \in 1..Len(requests'), requests'[n] = r
      PROVE  n \in 1..Len(requests) /\ requests[n] = r
  <2>1. n # Len(requests) + 1
    BY <1>1, <1>2, BuseAssumption
  <2>2. n \in 1..Len(requests)
    BY <1>1, <2>1
  <2> QED
    BY <1>1, <1>2, <2>2
<1>3. \A r \in Request : InStream(r)' => InStream(r)
  BY <1>2 DEF InStream
<1>4. \A r \in Request : Waiting(r)' => Waiting(r)
  BY <1>3 DEF Waiting
<1>5. Storage'
  BY DEF Storage
<1>6. Streams'
  BY <1>1, SameUnits DEF Streams
<1>7. Serving'
  BY DEF Serving
<1>8. OnePlace'
  <2>1. \A r \in Request, m, n \in 1..Len(requests') :
          requests'[m] = r /\ requests'[n] = r => m = n
    BY <1>2 DEF OnePlace
  <2>2. \A r \in serving' : ~InStream(r)'
    BY <1>3 DEF OnePlace, Serving
  <2> QED
    BY <2>1, <2>2 DEF OnePlace
<1>9. \A r \in Request, n \in Int : HeaderAt(r, n)' <=> HeaderAt(r, n)
  BY SameErrors DEF HeaderAt
<1>10. WaitingOpen'
  BY <1>3, <1>4 DEF WaitingOpen
<1>11. HeaderOnce'
  BY <1>4, <1>9, SameErrors DEF HeaderOnce, Served
<1>12. Parsed'
  BY <1>4, SameErrors DEF Parsed, Serving, Reads
<1>13. InStep'
  BY InStepKept
<1> QED
  BY <1>5, <1>6, <1>7, <1>8, <1>10, <1>11, <1>12, <1>13

\* A new request waits, and has no reply.
LEMMA ServiceSends ==
  ASSUME Service, NEW s \in Request, op[s] = "new",
         op' = [op EXCEPT ![s] = "open"], requests' = Append(requests, s),
         UNCHANGED <<aop, replies, serving, dataVars, parsing, received, broken>>
  PROVE  Service'
<1> USE DEF Service
<1>1. /\ requests' \in Seq(Request \cup {"disc"})
      /\ Len(requests) \in Nat /\ Len(requests') = Len(requests) + 1
      /\ \A n \in 1..Len(requests) : requests'[n] = requests[n]
      /\ requests'[Len(requests) + 1] = s
  BY Appended
<1>2. /\ op' \in [Request -> {"new", "open", "done", "failed"}]
      /\ op'[s] = "open" /\ \A r \in Request : r # s => op'[r] = op[r]
  BY DEF Serving
<1>3. ~InStream(s) /\ s \notin serving /\ i[s] = 0 /\ received[s] = <<>>
  BY DEF WaitingOpen, Waiting, Parsed
<1>4. s \notin parsing /\ \A n \in 1..Len(replies) : ~HeaderAt(s, n)
  BY DEF Parsed, HeaderOnce
<1>5. ASSUME NEW r \in Request, r # s,
             NEW n \in 1..Len(requests'), requests'[n] = r
      PROVE  n \in 1..Len(requests) /\ requests[n] = r
  <2>1. n # Len(requests) + 1
    BY <1>1, <1>5
  <2>2. n \in 1..Len(requests)
    BY <1>1, <2>1
  <2> QED
    BY <1>1, <1>5, <2>2
<1>6. ASSUME NEW n \in 1..Len(requests'), requests'[n] = s
      PROVE  n = Len(requests) + 1
  <2>1. CASE n \in 1..Len(requests)
    BY <1>1, <1>3, <1>6, <2>1 DEF InStream
  <2>2. CASE n \notin 1..Len(requests)
    BY <1>1, <1>6, <2>2
  <2> QED
    BY <2>1, <2>2
<1>7. \A r \in Request : InStream(r)' => InStream(r) \/ r = s
  BY <1>5 DEF InStream
<1>8. \A r \in Request : Waiting(r)' => Waiting(r) \/ r = s
  BY <1>7 DEF Waiting
<1>9. Storage'
  BY DEF Storage
<1>10. Streams'
  BY <1>1, SameUnits DEF Streams
<1>11. Serving'
  BY <1>2 DEF Serving
<1>12. OnePlace'
  <2>1. ASSUME NEW r \in Request, NEW m \in 1..Len(requests'),
               NEW n \in 1..Len(requests'), requests'[m] = r, requests'[n] = r
        PROVE  m = n
    <3>1. CASE r = s
      BY <1>6, <2>1, <3>1
    <3>2. CASE r # s
      BY <1>5, <2>1, <3>2 DEF OnePlace
    <3> QED
      BY <3>1, <3>2
  <2>2. \A r \in serving' : ~InStream(r)'
    BY <1>3, <1>7 DEF OnePlace, Serving
  <2> QED
    BY <2>1, <2>2 DEF OnePlace
<1>13. \A r \in Request, n \in Int : HeaderAt(r, n)' <=> HeaderAt(r, n)
  BY SameErrors DEF HeaderAt
<1>14. WaitingOpen'
  <2>1. \A r \in Request : op'[r] = "new" => i[r] = 0 /\ ~Waiting(r)'
    BY <1>2, <1>8 DEF WaitingOpen
  <2>2. \A r \in Request : InStream(r)' => i[r] = 0
    BY <1>3, <1>7 DEF WaitingOpen
  <2>3. \A r \in Request : Waiting(r)' => /\ op'[r] = "open" /\ r \notin parsing
                                          /\ received[r] = <<>>
    BY <1>2, <1>3, <1>4, <1>8 DEF WaitingOpen
  <2> QED
    BY <2>1, <2>2, <2>3 DEF WaitingOpen
<1>15. HeaderOnce'
  <2>1. \A r \in Request, n \in 1..Len(replies) : HeaderAt(r, n) => r # s
    BY <1>4
  <2>2. \A r \in Request, m, n \in 1..Len(replies) :
          HeaderAt(r, m)' /\ HeaderAt(r, n)' => m = n
    BY <1>13 DEF HeaderOnce
  <2>3. \A r \in Request, n \in 1..Len(replies) :
          HeaderAt(r, n)' => /\ op'[r] = "open" /\ ~Waiting(r)' /\ Served(r)'
                             /\ r \notin parsing /\ received[r] = <<>>
    BY <1>2, <1>8, <1>13, <2>1, SameErrors DEF HeaderOnce, Served
  <2> QED
    BY <2>2, <2>3 DEF HeaderOnce
<1>16. Parsed'
  <2>1. \A r \in parsing : r \in Request /\ r # s
    BY <1>4 DEF Serving, Reads
  <2> QED
    BY <1>2, <1>8, <2>1, SameErrors DEF Parsed
<1>17. InStep'
  BY <1>2, InStepKept
<1> QED
  BY <1>9, <1>10, <1>11, <1>12, <1>14, <1>15, <1>16, <1>17

\* A byte is copied for the request that the server is at: nobody else looks
\* at its progress or its data.
LEMMA ServiceCopies ==
  ASSUME Service, CopyByte
  PROVE  Service'
<1> USE DEF Service
<1>1. PICK r \in serving :
        LET b == Offset(r) + i[r] IN
        /\ i[r] < Length(r)
        /\ i' = [i EXCEPT ![r] = @ + 1]
        /\ IF r \in Reads
             THEN /\ m_data' = [m_data EXCEPT ![r][b] = m_storage[b]]
                  /\ UNCHANGED m_storage
             ELSE /\ m_storage' = [m_storage EXCEPT ![b] = r]
                  /\ UNCHANGED m_data
  BY DEF CopyByte
<1>2. UNCHANGED <<aop, requests, replies, serving, kernelVars>>
  BY DEF CopyByte
<1>3. r \in Request /\ Waiting(r) /\ ~InStream(r) /\ op[r] = "open"
  BY <1>1 DEF Serving, Waiting, OnePlace, WaitingOpen
<1>4. i[r] \in Nat /\ i[r] + 1 \in 0..Length(r) /\ Offset(r) + i[r] \in Byte
  <2>1. i[r] \in 0..Length(r) /\ Length(r) \in Nat
    BY <1>3, Numbers DEF Storage
  <2>2. i[r] \in 0..(Length(r) - 1)
    BY <1>1, <2>1
  <2> QED
    BY <1>3, <2>1, <2>2, Numbers
<1>5. /\ i' \in [Request -> Nat] /\ i'[r] = i[r] + 1
      /\ \A q \in Request : q # r => i'[q] = i[q]
  BY <1>1, <1>3, <1>4 DEF Storage
<1>6. /\ m_storage' \in [Byte -> Value] /\ m_data' \in [Reads -> [Byte -> Value]]
      /\ \A q \in Reads : q # r => m_data'[q] = m_data[q]
  <2>1. CASE r \in Reads
    <3> DEFINE d == [m_data[r] EXCEPT ![Offset(r) + i[r]] =
                                        m_storage[Offset(r) + i[r]]]
    <3>1. m_data' = [m_data EXCEPT ![r] = d] /\ m_storage' = m_storage
      BY <1>1, <2>1
    <3>2. d \in [Byte -> Value]
      BY <1>4, <2>1 DEF Storage
    <3> QED
      BY <2>1, <3>1, <3>2 DEF Storage
  <2>2. CASE r \notin Reads
    <3>1. m_storage' = [m_storage EXCEPT ![Offset(r) + i[r]] = r] /\ m_data' = m_data
      BY <1>1, <2>2
    <3> QED
      BY <1>3, <1>4, <3>1 DEF Storage, Value
  <2> QED
    BY <2>1, <2>2
<1>7. Storage'
  BY <1>4, <1>5, <1>6 DEF Storage
<1>8. Streams'
  BY <1>2, SameUnits DEF Streams
<1>9. Serving'
  BY <1>2 DEF Serving
<1>10. \A q \in Request : /\ InStream(q)' <=> InStream(q)
                          /\ Waiting(q)' <=> Waiting(q)
  BY <1>2 DEF InStream, Waiting
<1>11. \A q \in Request, n \in Int : HeaderAt(q, n)' <=> HeaderAt(q, n)
  BY <1>2, SameErrors DEF HeaderAt
<1>12. OnePlace'
  BY <1>2, <1>10 DEF OnePlace, Serving
<1>13. WaitingOpen'
  BY <1>2, <1>3, <1>5, <1>10 DEF WaitingOpen
<1>14. HeaderOnce'
  <2>1. \A q \in Request, n \in 1..Len(replies) : HeaderAt(q, n) => q # r
    BY <1>3 DEF HeaderOnce
  <2> QED
    BY <1>2, <1>5, <1>10, <1>11, <2>1, SameErrors DEF HeaderOnce, Served
<1>15. Parsed'
  <2>1. \A q \in parsing : q \in Request /\ q # r
    BY <1>3 DEF Parsed, Serving, Reads
  <2> QED
    BY <1>2, <1>3, <1>5, <1>10, <2>1, SameErrors DEF Parsed
<1>16. InStep'
  BY <1>2, <1>3, <1>6, InStepKept
<1> QED
  BY <1>7, <1>8, <1>9, <1>12, <1>13, <1>14, <1>15, <1>16

LEMMA Replied ==
  ASSUME Storage, replies \in Seq(Unit), NEW r \in Request,
         replies' = replies \o Reply(r)
  PROVE  /\ replies' \in Seq(Unit)
         /\ Len(replies) \in Nat /\ Len(Data(r)) \in Nat
         /\ Len(replies') = Len(replies) + 1 + Len(Data(r))
         /\ \A n \in 1..Len(replies) : replies'[n] = replies[n]
         /\ replies'[Len(replies) + 1] = Header(r)
         /\ \A j \in 1..Len(Data(r)) : replies'[Len(replies) + 1 + j] = Data(r)[j]
<1>1. Data(r) \in Seq(Unit) /\ Len(Data(r)) \in Nat /\ Len(replies) \in Nat
  BY DataParts, LenProperties
<1>2. <<Header(r)>> \in Seq(Unit) /\ Len(<<Header(r)>>) = 1
  BY HeaderParts
<1>3. Reply(r) = <<Header(r)>> \o Data(r)
  BY DEF Reply, Header
<1>4. /\ Reply(r) \in Seq(Unit) /\ Len(Reply(r)) = 1 + Len(Data(r))
      /\ Reply(r)[1] = Header(r)
      /\ \A j \in 1..Len(Data(r)) : Reply(r)[1 + j] = Data(r)[j]
  BY <1>1, <1>2, <1>3, ConcatProperties
<1> DEFINE s == Reply(r)
<1> HIDE DEF s
<1>5. s \in Seq(Unit) /\ replies' = replies \o s
  BY <1>4 DEF s
<1>6. /\ replies' \in Seq(Unit) /\ Len(replies') = Len(replies) + Len(s)
      /\ \A n \in 1..(Len(replies) + Len(s)) :
           replies'[n] = IF n <= Len(replies) THEN replies[n]
                                              ELSE s[n - Len(replies)]
  BY <1>5, ConcatProperties
<1>7. /\ Len(s) = 1 + Len(Data(r)) /\ s[1] = Header(r)
      /\ \A j \in 1..Len(Data(r)) : s[1 + j] = Data(r)[j]
  BY <1>4 DEF s
<1>8. replies'[Len(replies) + 1] = Header(r)
  BY <1>1, <1>6, <1>7
<1>9. \A j \in 1..Len(Data(r)) : replies'[Len(replies) + 1 + j] = Data(r)[j]
  BY <1>1, <1>6, <1>7
<1> QED
  BY <1>1, <1>6, <1>7, <1>8, <1>9

\* Where r's reply may begin, its end is not before the next place to be read.
LEMMA Beginning ==
  ASSUME Service, NEW r \in Request, NEW p \in Int, Begins(r, p)
  PROVE  /\ ~Waiting(r) /\ op[r] = "open" /\ Len(Data(r)) \in Nat
         /\ p + Len(Data(r)) >= 1 /\ Len(replies) \in Nat
<1> USE DEF Service
<1>1. Len(Data(r)) \in Nat /\ Len(replies) \in Nat
  BY DataParts, LenProperties DEF Streams
<1>2. CASE HeaderAt(r, p)
  BY <1>1, <1>2 DEF HeaderOnce, HeaderAt
<1>3. CASE r \in parsing /\ p = -Len(received[r])
  <2>1. r \in Reads /\ Len(received[r]) \in Nat /\ Len(received[r]) < Length(r)
    BY <1>3, LenProperties DEF Serving, Parsed, Streams, Reads
  <2>2. Len(Data(r)) = Length(r) /\ Length(r) \in Nat
    BY <2>1, DataParts, Numbers
  <2> QED
    BY <1>1, <1>3, <2>1, <2>2 DEF Parsed
<1> QED
  BY <1>2, <1>3 DEF Begins

\* The server writes a reply after the others, and no part of it comes late.
LEMMA ServiceReplies ==
  ASSUME Service, NEW r \in serving, Served(r), serving' = {},
         replies' = replies \o Reply(r),
         UNCHANGED <<aop, requests, dataVars, kernelVars>>
  PROVE  Service'
<1> USE DEF Service
<1>1. r \in Request /\ Waiting(r) /\ ~InStream(r)
  BY DEF Serving, Waiting, OnePlace
<1>2. op[r] = "open" /\ r \notin parsing /\ received[r] = <<>>
  BY <1>1 DEF WaitingOpen
<1>3. /\ replies' \in Seq(Unit)
      /\ Len(replies) \in Nat /\ Len(Data(r)) \in Nat
      /\ Len(replies') = Len(replies) + 1 + Len(Data(r))
      /\ \A n \in 1..Len(replies) : replies'[n] = replies[n]
      /\ replies'[Len(replies) + 1] = Header(r)
      /\ \A j \in 1..Len(Data(r)) : replies'[Len(replies) + 1 + j] = Data(r)[j]
  BY <1>1, Replied DEF Streams
<1>4. \A q \in Request : /\ InStream(q)' <=> InStream(q)
                         /\ Waiting(q)' => Waiting(q) /\ q # r
  BY <1>1 DEF InStream, Waiting
<1>5. \A q \in Request : /\ Data(q)' = Data(q) /\ Header(q)' = Header(q)
                         /\ Served(q)' <=> Served(q)
  BY SameData, SameErrors DEF Served
<1>6. ASSUME NEW q \in Request, NEW n \in Int, HeaderAt(q, n)'
      PROVE  HeaderAt(q, n) \/ (q = r /\ n = Len(replies) + 1)
  <2>1. n \in 1..Len(replies') /\ replies'[n] = Header(q)
    BY <1>5, <1>6 DEF HeaderAt
  <2>2. CASE n <= Len(replies)
    BY <1>3, <2>1, <2>2 DEF HeaderAt
  <2>3. CASE n = Len(replies) + 1
    BY <1>1, <1>3, <2>1, <2>3, HeaderParts
  <2>4. CASE n > Len(replies) + 1
    <3>1. n - Len(replies) - 1 \in 1..Len(Data(r))
          /\ n = Len(replies) + 1 + (n - Len(replies) - 1)
      BY <1>3, <2>1, <2>4
    <3>2. replies'[n] = Data(r)[n - Len(replies) - 1]
      BY <1>3, <3>1
    <3>3. ~IsHeader(replies'[n])
      BY <1>1, <3>1, <3>2, DataParts
    <3> QED
      BY <2>1, <3>3, HeaderParts
  <2> QED
    BY <1>3, <2>1, <2>2, <2>3, <2>4
<1>7. \A n \in Int : ~HeaderAt(r, n)
  BY <1>1 DEF HeaderOnce, HeaderAt
<1>8. Storage'
  BY DEF Storage
<1>9. Streams'
  BY <1>3, SameUnits DEF Streams
<1>10. Serving'
  BY DEF Serving
<1>11. OnePlace'
  BY <1>4 DEF OnePlace
<1>12. WaitingOpen'
  BY <1>4 DEF WaitingOpen
<1>13. HeaderOnce'
  <2>1. ASSUME NEW q \in Request, NEW m \in Int, NEW n \in Int,
               HeaderAt(q, m)', HeaderAt(q, n)'
        PROVE  m = n
    <3>1. CASE q = r
      BY <1>6, <1>7, <2>1, <3>1
    <3>2. CASE q # r
      BY <1>6, <2>1, <3>2 DEF HeaderOnce, HeaderAt
    <3> QED
      BY <3>1, <3>2
  <2>2. ASSUME NEW q \in Request, NEW n \in Int, HeaderAt(q, n)'
        PROVE  /\ op[q] = "open" /\ ~Waiting(q)' /\ Served(q)'
               /\ q \notin parsing /\ received[q] = <<>>
    <3>1. CASE q = r
      BY <1>2, <1>4, <1>5, <3>1
    <3>2. CASE q # r
      BY <1>4, <1>5, <1>6, <2>2, <3>2 DEF HeaderOnce, HeaderAt
    <3> QED
      BY <3>1, <3>2
  <2>3. /\ \A q \in Request, m, n \in 1..Len(replies') :
             HeaderAt(q, m)' /\ HeaderAt(q, n)' => m = n
        /\ \A q \in Request, n \in 1..Len(replies') :
             HeaderAt(q, n)' => /\ op'[q] = "open" /\ ~Waiting(q)' /\ Served(q)'
                                /\ q \notin parsing' /\ received'[q] = <<>>
    BY <2>1, <2>2
  <2> QED
    BY <2>3 DEF HeaderOnce
<1>14. Parsed'
  BY <1>4, SameErrors DEF Parsed, Serving, Reads
<1>15. ASSUME NEW q \in Request, NEW p \in Int, Begins(q, p)' PROVE Whole(q, p)'
  <2> DEFINE e == p + Len(Data(q))
  <2>1. CASE Begins(q, p)
    <3>1. /\ e \in Int /\ e >= 1 /\ Len(Data(q)) \in Nat
      BY <2>1, Beginning
    <3>2. /\ e <= Len(replies)
          /\ \A j \in 1..Len(Data(q)) : p + j > 0 => replies[p + j] = Data(q)[j]
          /\ e < Len(replies) => IsHeader(replies[e + 1])
      BY <2>1 DEF InStep, Whole
    <3>3. \A j \in 1..Len(Data(q)) : p + j > 0 => replies'[p + j] = Data(q)[j]
      BY <1>3, <3>1, <3>2
    <3>4. CASE e < Len(replies)
      <4>1. IsHeader(replies'[e + 1])
        BY <1>3, <3>1, <3>2, <3>4
      <4>2. e <= Len(replies')
        BY <1>3, <3>1, <3>4
      <4> HIDE DEF e
      <4>3. e = p + Len(Data(q)')
        BY <1>5 DEF e
      <4> QED
        BY <1>5, <3>3, <4>1, <4>2, <4>3 DEF Whole
    <3>5. CASE e = Len(replies)
      <4>1. IsHeader(replies'[e + 1])
        BY <1>1, <1>3, <3>5, HeaderParts
      <4>2. e <= Len(replies')
        BY <1>3, <3>1, <3>5
      <4> HIDE DEF e
      <4>3. e = p + Len(Data(q)')
        BY <1>5 DEF e
      <4> QED
        BY <1>5, <3>3, <4>1, <4>2, <4>3 DEF Whole
    <3> QED
      BY <1>3, <3>1, <3>2, <3>4, <3>5
  <2>2. CASE q = r /\ p = Len(replies) + 1
    BY <1>3, <1>5, <2>2 DEF Whole
  <2>3. Begins(q, p) \/ (q = r /\ p = Len(replies) + 1)
    BY <1>6, <1>15 DEF Begins
  <2> QED
    BY <2>1, <2>2, <2>3
<1>16. parsing' = {} /\ replies' # <<>> => IsHeader(replies'[1]) \/ ReadFailed'
  <2>1. CASE replies = <<>>
    BY <1>1, <1>3, <2>1, HeaderParts
  <2>2. CASE replies # <<>>
    <3>1. 1 \in 1..Len(replies)
      BY <1>3, <2>2, EmptySeq DEF Streams
    <3>2. replies'[1] = replies[1]
      BY <1>3, <3>1
    <3> QED
      BY <2>2, <3>2 DEF InStep, ReadFailed
  <2> QED
    BY <2>1, <2>2
<1>17. InStep'
  BY <1>5, <1>15, <1>16 DEF InStep, Got, ReadFailed
<1> QED
  BY <1>8, <1>9, <1>10, <1>11, <1>12, <1>13, <1>14, <1>17

LEMMA Tailed ==
  ASSUME replies \in Seq(Unit), replies # <<>>, replies' = Tail(replies)
  PROVE  /\ replies' \in Seq(Unit)
         /\ Len(replies) \in Nat \ {0} /\ Len(replies') = Len(replies) - 1
         /\ Head(replies) = replies[1] /\ replies[1] \in Unit
         /\ \A n \in 1..Len(replies') : replies'[n] = replies[n + 1]
<1>1. /\ replies' \in Seq(Unit) /\ Head(replies) \in Unit
      /\ Len(replies) \in Nat \ {0} /\ Len(replies') = Len(replies) - 1
      /\ Head(replies) = replies[1]
  BY HeadTailProperties, LenProperties, EmptySeq
<1> QED
  BY <1>1, HeadTailProperties

\* The kernel reads a header or a block: what follows moves up by one.
LEMMA UnitRead ==
  ASSUME Service, replies # <<>>, replies' = Tail(replies),
         UNCHANGED <<aop, requests, serving, dataVars>>
  PROVE  /\ Storage' /\ OnePlace'
         /\ \A q \in Request : /\ InStream(q)' <=> InStream(q)
                               /\ Waiting(q)' <=> Waiting(q)
                               /\ Served(q)' <=> Served(q)
                               /\ Error(q)' <=> Error(q)
                               /\ Data(q)' = Data(q)
         /\ requests' \in Seq(Request \cup {"disc"}) /\ replies' \in Seq(Unit')
         /\ \A q \in Request, n \in Int : HeaderAt(q, n)' => HeaderAt(q, n + 1)
         /\ \A q \in Request, p \in Int : Begins(q, p) => Whole(q, p - 1)'
<1> USE DEF Service
<1>1. /\ replies' \in Seq(Unit)
      /\ Len(replies) \in Nat \ {0} /\ Len(replies') = Len(replies) - 1
      /\ \A n \in 1..Len(replies') : replies'[n] = replies[n + 1]
  BY Tailed DEF Streams
<1>2. \A q \in Request : /\ InStream(q)' <=> InStream(q)
                         /\ Waiting(q)' <=> Waiting(q)
  BY DEF InStream, Waiting
<1>3. \A q \in Request : /\ Served(q)' <=> Served(q)
                         /\ Error(q)' <=> Error(q)
                         /\ Data(q)' = Data(q) /\ Header(q)' = Header(q)
  BY SameErrors, SameData DEF Served
<1>4. Storage'
  BY DEF Storage
<1>5. OnePlace'
  BY <1>2 DEF OnePlace, Serving
<1>6. requests' \in Seq(Request \cup {"disc"}) /\ replies' \in Seq(Unit')
  BY <1>1, SameUnits DEF Streams
<1>7. ASSUME NEW q \in Request, NEW n \in Int, HeaderAt(q, n)'
      PROVE  HeaderAt(q, n + 1)
  <2>1. n \in 1..Len(replies') /\ replies'[n] = Header(q)
    BY <1>3, <1>7 DEF HeaderAt
  <2>2. n + 1 \in 1..Len(replies) /\ replies[n + 1] = Header(q)
    BY <1>1, <2>1
  <2> QED
    BY <2>2 DEF HeaderAt
<1>8. ASSUME NEW q \in Request, NEW p \in Int, Begins(q, p)
      PROVE  Whole(q, p - 1)'
  <2> DEFINE e == p - 1 + Len(Data(q))
  <2>1. e \in Int /\ e >= 0 /\ Len(Data(q)) \in Nat
    BY <1>8, Beginning
  <2>2. Whole(q, p)
    BY <1>8 DEF InStep
  <2>3. e <= Len(replies')
    BY <1>1, <2>1, <2>2 DEF Whole
  <2>4. ASSUME NEW j \in 1..Len(Data(q)), p - 1 + j > 0
        PROVE  replies'[p - 1 + j] = Data(q)[j]
    <3>1. p - 1 + j \in 1..Len(replies') /\ p - 1 + j + 1 = p + j
      BY <2>1, <2>3, <2>4
    <3>2. replies[p + j] = Data(q)[j]
      BY <2>1, <2>2, <2>4 DEF Whole
    <3>3. replies'[p - 1 + j] = replies[p - 1 + j + 1]
      BY <1>1, <3>1
    <3> QED
      BY <3>1, <3>2, <3>3
  <2>5. ASSUME e < Len(replies') PROVE IsHeader(replies'[e + 1])
    <3>1. e + 1 \in 1..Len(replies') /\ e + 1 = p + Len(Data(q))
      BY <1>1, <2>1, <2>5
    <3>2. IsHeader(replies[e + 1 + 1])
      BY <1>1, <2>1, <2>2, <2>5, <3>1 DEF Whole
    <3>3. replies'[e + 1] = replies[e + 1 + 1]
      BY <1>1, <3>1
    <3> QED
      BY <3>2, <3>3
  <2>6. e = p - 1 + Len(Data(q)')
    BY <1>3
  <2> HIDE DEF e
  <2> QED
    BY <1>3, <2>3, <2>4, <2>5, <2>6 DEF Whole
<1> QED
  BY <1>2, <1>3, <1>4, <1>5, <1>6, <1>7, <1>8

\* The headers that the kernel has not read keep what is said of their
\* requests.
LEMMA HeadersMove ==
  ASSUME Service, NEW D \in SUBSET Request, aop' = aop,
         \A q \in Request, n \in Int :
           HeaderAt(q, n)' => HeaderAt(q, n + 1) /\ q \notin D,
         \A q \in Request \ D : /\ op'[q] = op[q] /\ received'[q] = received[q]
                                /\ Waiting(q)' => Waiting(q)
                                /\ Served(q)' <=> Served(q)
                                /\ q \in parsing' => q \in parsing
  PROVE  HeaderOnce'
<1> USE DEF Service
<1>1. ASSUME NEW q \in Request, NEW m \in Int, NEW n \in Int,
             HeaderAt(q, m)', HeaderAt(q, n)'
      PROVE  m = n
  <2>1. HeaderAt(q, m + 1) /\ HeaderAt(q, n + 1)
    BY <1>1
  <2>2. m + 1 = n + 1
    BY <2>1 DEF HeaderOnce, HeaderAt
  <2> QED
    BY <2>2
<1>2. ASSUME NEW q \in Request, NEW n \in Int, HeaderAt(q, n)'
      PROVE  /\ op'[q] = "open" /\ ~Waiting(q)' /\ Served(q)'
             /\ q \notin parsing' /\ received'[q] = <<>>
  <2>1. HeaderAt(q, n + 1) /\ q \notin D
    BY <1>2
  <2>2. n + 1 \in 1..Len(replies)
    BY <2>1 DEF HeaderAt
  <2>3. /\ op[q] = "open" /\ ~Waiting(q) /\ Served(q)
        /\ q \notin parsing /\ received[q] = <<>>
    BY <2>1, <2>2 DEF HeaderOnce
  <2> QED
    BY <2>1, <2>3
<1>3. /\ \A q \in Request, m, n \in 1..Len(replies') :
           HeaderAt(q, m)' /\ HeaderAt(q, n)' => m = n
      /\ \A q \in Request, n \in 1..Len(replies') :
           HeaderAt(q, n)' => /\ op'[q] = "open" /\ ~Waiting(q)' /\ Served(q)'
                              /\ q \notin parsing' /\ received'[q] = <<>>
  BY <1>1, <1>2
<1> QED
  BY <1>3 DEF HeaderOnce

\* The kernel reads a block where it expects a header: a READ has failed.
LEMMA ServiceBreaks ==
  ASSUME Service, parsing = {}, replies # <<>>, replies' = Tail(replies),
         Head(replies)[1] = "data", broken' = TRUE,
         UNCHANGED <<aop, requests, serving, dataVars, op, parsing, received>>
  PROVE  Service'
<1> USE DEF Service
<1>1. Head(replies) = replies[1] /\ replies[1] \in Unit
  BY Tailed DEF Streams
<1>2. ReadFailed
  BY <1>1, UnitParts DEF InStep
<1>3. /\ Storage' /\ OnePlace'
      /\ \A q \in Request : /\ InStream(q)' <=> InStream(q)
                            /\ Waiting(q)' <=> Waiting(q)
                            /\ Served(q)' <=> Served(q)
                            /\ Error(q)' <=> Error(q)
                            /\ Data(q)' = Data(q)
      /\ requests' \in Seq(Request \cup {"disc"}) /\ replies' \in Seq(Unit')
      /\ \A q \in Request, n \in Int : HeaderAt(q, n)' => HeaderAt(q, n + 1)
      /\ \A q \in Request, p \in Int : Begins(q, p) => Whole(q, p - 1)'
  BY UnitRead
<1>4. Streams'
  BY <1>3, SameUnits DEF Streams
<1>5. Serving'
  BY DEF Serving
<1>6. WaitingOpen'
  BY <1>3 DEF WaitingOpen
<1>7. HeaderOnce'
  BY <1>3, HeadersMove, {} \in SUBSET Request
<1>8. Parsed'
  BY <1>3 DEF Parsed, Serving, Reads
<1>9. ASSUME NEW q \in Request, NEW p \in Int, Begins(q, p)' PROVE Whole(q, p)'
  <2>1. Begins(q, p + 1)
    BY <1>3, <1>9 DEF Begins
  <2>2. Whole(q, p + 1 - 1)'
    BY <1>3, <2>1
  <2> QED
    BY <2>2
<1>10. InStep'
  BY <1>2, <1>3, <1>9 DEF InStep, Got, ReadFailed
<1> QED
  BY <1>3, <1>4, <1>5, <1>6, <1>7, <1>8, <1>10

LEMMA HeaderRead ==
  ASSUME Service, replies # <<>>, ~(Head(replies)[1] = "data")
  PROVE  \E r \in Request :
           /\ Head(replies) = Header(r) /\ HeaderAt(r, 1)
           /\ Head(replies)[2] = r /\ (Head(replies)[3] <=> Error(r))
           /\ op[r] = "open" /\ ~Waiting(r) /\ Served(r)
           /\ r \notin parsing /\ received[r] = <<>>
           /\ \A n \in Int : HeaderAt(r, n + 1) => n = 0
<1> USE DEF Service
<1>1. /\ Len(replies) \in Nat \ {0}
      /\ Head(replies) = replies[1] /\ replies[1] \in Unit
  BY HeadTailProperties, LenProperties, EmptySeq DEF Streams
<1>2. PICK r \in Request : Head(replies) = Header(r)
  BY <1>1, UnitParts
<1>3. 1 \in 1..Len(replies) /\ HeaderAt(r, 1)
  BY <1>1, <1>2 DEF HeaderAt
<1>4. /\ op[r] = "open" /\ ~Waiting(r) /\ Served(r)
      /\ r \notin parsing /\ received[r] = <<>>
  BY <1>3 DEF HeaderOnce
<1>5. ASSUME NEW n \in Int, HeaderAt(r, n + 1) PROVE n = 0
  <2>1. n + 1 = 1
    BY <1>3, <1>5 DEF HeaderOnce, HeaderAt
  <2> QED
    BY <2>1
<1>6. Head(replies)[2] = r /\ (Head(replies)[3] <=> Error(r))
  BY <1>2, HeaderParts
<1> QED
  BY <1>2, <1>3, <1>4, <1>5, <1>6

\* The kernel reads a header that no data follow for it: r is done or failed.
LEMMA ServiceAnswers ==
  ASSUME Service, parsing = {}, ~broken, replies # <<>>, replies' = Tail(replies),
         NEW r \in Request, Head(replies) = Header(r), HeaderAt(r, 1),
         op[r] = "open", ~Waiting(r), Served(r), received[r] = <<>>,
         \A n \in Int : HeaderAt(r, n + 1) => n = 0,
         Error(r) \/ Data(r) = <<>>,
         op' = [op EXCEPT ![r] = IF Error(r) THEN "failed" ELSE "done"],
         UNCHANGED <<aop, requests, serving, dataVars, parsing, received, broken>>
  PROVE  Service'
<1> USE DEF Service
<1>1. /\ Storage' /\ OnePlace'
      /\ \A q \in Request : /\ InStream(q)' <=> InStream(q)
                            /\ Waiting(q)' <=> Waiting(q)
                            /\ Served(q)' <=> Served(q)
                            /\ Error(q)' <=> Error(q)
                            /\ Data(q)' = Data(q)
      /\ requests' \in Seq(Request \cup {"disc"}) /\ replies' \in Seq(Unit')
      /\ \A q \in Request, n \in Int : HeaderAt(q, n)' => HeaderAt(q, n + 1)
      /\ \A q \in Request, p \in Int : Begins(q, p) => Whole(q, p - 1)'
  BY UnitRead
<1>2. /\ op' \in [Request -> {"new", "open", "done", "failed"}]
      /\ op'[r] = IF Error(r) THEN "failed" ELSE "done"
      /\ \A q \in Request : q # r => op'[q] = op[q]
  BY DEF Serving
<1>3. \A n \in Int : ~HeaderAt(r, n)'
  <2>1. \A n \in Int : HeaderAt(r, n)' => n = 0
    BY <1>1
  <2>2. ~HeaderAt(r, 0)'
    BY DEF HeaderAt
  <2> QED
    BY <2>1, <2>2
<1>4. Streams'
  BY <1>1, SameUnits DEF Streams
<1>5. Serving'
  BY <1>2 DEF Serving
<1>6. WaitingOpen'
  BY <1>1, <1>2 DEF WaitingOpen
<1>7. HeaderOnce'
  <2>1. \A q \in Request, n \in Int :
          HeaderAt(q, n)' => HeaderAt(q, n + 1) /\ q \notin {r}
    BY <1>1, <1>3
  <2>2. \A q \in Request \ {r} : /\ op'[q] = op[q] /\ received'[q] = received[q]
                                 /\ Waiting(q)' => Waiting(q)
                                 /\ Served(q)' <=> Served(q)
                                 /\ q \in parsing' => q \in parsing
    BY <1>1, <1>2
  <2> QED
    BY <2>1, <2>2, HeadersMove, {r} \in SUBSET Request
<1>8. Parsed'
  BY <1>1, <1>2 DEF Parsed, Served
<1>9. ASSUME NEW q \in Request, NEW p \in Int, Begins(q, p)' PROVE Whole(q, p)'
  <2>1. Begins(q, p + 1)
    BY <1>1, <1>9 DEF Begins
  <2>2. Whole(q, p + 1 - 1)'
    BY <1>1, <2>1
  <2> QED
    BY <2>2
<1>10. ReadFailed => ReadFailed'
  <2>1. \A q \in Reads : op[q] = "failed" => op'[q] = "failed"
    BY <1>2 DEF Reads
  <2> QED
    BY <2>1 DEF ReadFailed
<1>11. replies' # <<>> => IsHeader(replies'[1]) \/ ReadFailed'
  <2>1. CASE r \in Reads /\ Error(r)
    BY <1>2, <2>1 DEF ReadFailed
  <2>2. CASE ~(r \in Reads /\ Error(r))
    <3>1. Len(Data(r)) = 0
      <4>1. Data(r) = <<>>
        BY <2>2 DEF Data
      <4> QED
        BY <4>1
    <3>2. Whole(r, 0)'
      <4>1. Whole(r, 1 - 1)'
        BY <1>1 DEF Begins
      <4> QED
        BY <4>1
    <3>3. replies' # <<>> => Len(replies') \in Nat /\ Len(replies') > 0
      BY <1>1, LenProperties, EmptySeq
    <3>4. 0 < Len(replies') => IsHeader(replies'[1])
      BY <1>1, <3>1, <3>2 DEF Whole
    <3> QED
      BY <3>3, <3>4
  <2> QED
    BY <2>1, <2>2
<1>12. \A q \in Reads : op'[q] = "done" => Len(received'[q]) = Length(q)
  <2>1. r \in Reads /\ op'[r] = "done" => Len(received'[r]) = Length(r)
    BY <1>2, DataParts
  <2> QED
    BY <1>2, <2>1 DEF InStep, Reads
<1>13. InStep'
  BY <1>1, <1>9, <1>10, <1>11, <1>12 DEF InStep, Got
<1> QED
  BY <1>1, <1>4, <1>5, <1>6, <1>7, <1>8, <1>13

\* The kernel reads the header of a READ, and is at its data.
LEMMA ServiceParses ==
  ASSUME Service, parsing = {}, ~broken, replies # <<>>, replies' = Tail(replies),
         NEW r \in Request, HeaderAt(r, 1), op[r] = "open", ~Waiting(r),
         Served(r), received[r] = <<>>,
         \A n \in Int : HeaderAt(r, n + 1) => n = 0,
         ~Error(r), Data(r) # <<>>, parsing' = {r},
         UNCHANGED <<aop, requests, serving, dataVars, op, received, broken>>
  PROVE  Service'
<1> USE DEF Service
<1>1. /\ Storage' /\ OnePlace'
      /\ \A q \in Request : /\ InStream(q)' <=> InStream(q)
                            /\ Waiting(q)' <=> Waiting(q)
                            /\ Served(q)' <=> Served(q)
                            /\ Error(q)' <=> Error(q)
                            /\ Data(q)' = Data(q)
      /\ requests' \in Seq(Request \cup {"disc"}) /\ replies' \in Seq(Unit')
      /\ \A q \in Request, n \in Int : HeaderAt(q, n)' => HeaderAt(q, n + 1)
      /\ \A q \in Request, p \in Int : Begins(q, p) => Whole(q, p - 1)'
  BY UnitRead
<1>2. r \in Reads /\ Len(Data(r)) = Length(r) /\ Length(r) \in Nat \ {0}
  <2>1. r \in Reads /\ Data(r) \in Seq(Unit)
    BY DataParts DEF Data
  <2>2. Len(Data(r)) = Length(r) /\ Length(r) \in Nat
    BY <2>1, DataParts, Numbers
  <2> QED
    BY <2>1, <2>2, EmptySeq
<1>3. \A n \in Int : ~HeaderAt(r, n)'
  <2>1. \A n \in Int : HeaderAt(r, n)' => n = 0
    BY <1>1
  <2>2. ~HeaderAt(r, 0)'
    BY DEF HeaderAt
  <2> QED
    BY <2>1, <2>2
<1>4. Len(received[r]) = 0
  OBVIOUS
<1>5. Streams'
  BY <1>1, SameUnits DEF Streams
<1>6. Serving'
  BY <1>2 DEF Serving
<1>7. WaitingOpen'
  BY <1>1 DEF WaitingOpen
<1>8. HeaderOnce'
  <2>1. \A q \in Request, n \in Int :
          HeaderAt(q, n)' => HeaderAt(q, n + 1) /\ q \notin {r}
    BY <1>1, <1>3
  <2>2. \A q \in Request \ {r} : /\ op'[q] = op[q] /\ received'[q] = received[q]
                                 /\ Waiting(q)' => Waiting(q)
                                 /\ Served(q)' <=> Served(q)
                                 /\ q \in parsing' => q \in parsing
    BY <1>1
  <2> QED
    BY <2>1, <2>2, HeadersMove, {r} \in SUBSET Request
<1>9. Parsed'
  BY <1>1, <1>2, <1>4 DEF Parsed, Served
<1>10. ASSUME NEW q \in Request, NEW p \in Int, Begins(q, p)' PROVE Whole(q, p)'
  <2>1. Begins(q, p + 1)
    <3>1. CASE HeaderAt(q, p)'
      BY <1>1, <3>1 DEF Begins
    <3>2. CASE q = r /\ p = 0
      BY <3>2 DEF Begins
    <3> QED
      BY <1>4, <1>10, <3>1, <3>2 DEF Begins
  <2>2. Whole(q, p + 1 - 1)'
    BY <1>1, <2>1
  <2> QED
    BY <2>2
<1>11. InStep'
  BY <1>1, <1>10 DEF InStep, Got, ReadFailed
<1> QED
  BY <1>1, <1>5, <1>6, <1>7, <1>8, <1>9, <1>11

\* The kernel reads a block of a READ, the last of them or not.
LEMMA ServiceReceives ==
  ASSUME Service, DataIn
  PROVE  Service'
<1> USE DEF Service
<1>1. PICK r \in parsing :
        /\ replies # <<>> /\ replies' = Tail(replies)
        /\ received' = [received EXCEPT ![r] = Append(@, Head(replies))]
        /\ IF Len(received[r]) + 1 = Length(r)
             THEN parsing' = {} /\ op' = [op EXCEPT ![r] = "done"]
             ELSE UNCHANGED <<parsing, op>>
  BY DEF DataIn
<1>2. UNCHANGED <<aop, requests, serving, dataVars, broken>>
  BY DEF DataIn, KernelUnchanged
<1>3. /\ Storage' /\ OnePlace'
      /\ \A q \in Request : /\ InStream(q)' <=> InStream(q)
                            /\ Waiting(q)' <=> Waiting(q)
                            /\ Served(q)' <=> Served(q)
                            /\ Error(q)' <=> Error(q)
                            /\ Data(q)' = Data(q)
      /\ requests' \in Seq(Request \cup {"disc"}) /\ replies' \in Seq(Unit')
      /\ \A q \in Request, n \in Int : HeaderAt(q, n)' => HeaderAt(q, n + 1)
      /\ \A q \in Request, p \in Int : Begins(q, p) => Whole(q, p - 1)'
  BY <1>1, <1>2, UnitRead
<1>4. /\ Len(replies) \in Nat \ {0} /\ Len(replies') = Len(replies) - 1
      /\ Head(replies) = replies[1] /\ replies[1] \in Unit
      /\ \A n \in 1..Len(replies') : replies'[n] = replies[n + 1]
  BY <1>1, Tailed DEF Streams
<1>5. r \in Request /\ r \in Reads /\ parsing = {r} /\ op[r] = "open"
      /\ ~Waiting(r) /\ i[r] = Length(r) /\ ~Error(r)
  BY DEF Serving, Reads, Parsed
<1>6. /\ Len(received[r]) \in Nat /\ received[r] \in Seq(Unit)
      /\ Len(Data(r)) = Length(r) /\ Length(r) \in Nat
      /\ Len(received[r]) < Length(r)
  BY <1>5, DataParts, Numbers, LenProperties DEF Streams, Parsed
<1>7. /\ received'[r] \in Seq(Unit) /\ Len(received'[r]) = Len(received[r]) + 1
      /\ \A j \in 1..Len(received[r]) : received'[r][j] = received[r][j]
      /\ received'[r][Len(received[r]) + 1] = replies[1]
      /\ \A q \in Request : q # r => received'[q] = received[q]
  <2>1. received'[r] = Append(received[r], replies[1])
    BY <1>1, <1>4, <1>5 DEF Streams
  <2>2. \A q \in Request : q # r => received'[q] = received[q]
    BY <1>1 DEF Streams
  <2> QED
    BY <1>4, <1>6, <2>1, <2>2, AppendProperties
<1>8. received' \in [Request -> Seq(Unit)]
  BY <1>1, <1>5, <1>7 DEF Streams
<1>9. /\ op' \in [Request -> {"new", "open", "done", "failed"}]
      /\ op'[r] = IF Len(received[r]) + 1 = Length(r) THEN "done" ELSE "open"
      /\ \A q \in Request : q # r => op'[q] = op[q]
      /\ parsing' = IF Len(received[r]) + 1 = Length(r) THEN {} ELSE {r}
  BY <1>1, <1>5 DEF Serving
<1>10. Streams'
  BY <1>2, <1>3, <1>8, SameUnits DEF Streams
<1>11. Serving'
  BY <1>2, <1>5, <1>9 DEF Serving
<1>12. WaitingOpen'
  BY <1>2, <1>3, <1>5, <1>7, <1>9 DEF WaitingOpen
<1>13. \A n \in Int : ~HeaderAt(r, n)
  BY <1>5 DEF HeaderOnce, HeaderAt
<1>14. HeaderOnce'
  <2>1. \A q \in Request, n \in Int :
          HeaderAt(q, n)' => HeaderAt(q, n + 1) /\ q \notin {r}
    <3>1. \A n \in Int : ~HeaderAt(r, n)'
      <4>1. \A n \in Int : HeaderAt(r, n)' => HeaderAt(r, n + 1)
        BY <1>3, <1>5
      <4> QED
        BY <1>13, <4>1
    <3> QED
      BY <1>3, <3>1
  <2>2. \A q \in Request \ {r} : /\ op'[q] = op[q] /\ received'[q] = received[q]
                                 /\ Waiting(q)' => Waiting(q)
                                 /\ Served(q)' <=> Served(q)
                                 /\ q \in parsing' => q \in parsing
    BY <1>3, <1>5, <1>7, <1>9
  <2> QED
    BY <1>2, <1>5, <2>1, <2>2, HeadersMove, {r} \in SUBSET Request
<1>15. Parsed'
  <2>1. \A q \in parsing' : q = r /\ Len(received[r]) + 1 # Length(r)
    BY <1>9
  <2>2. \A q \in parsing' : /\ op'[q] = "open" /\ ~Waiting(q)'
                            /\ i'[q] = Length(q) /\ ~Error(q)'
                            /\ Len(received'[q]) < Length(q)
    BY <1>2, <1>3, <1>5, <1>6, <1>7, <1>9, <2>1
  <2>3. \A q \in Request : op'[q] = "done" => i'[q] = Length(q) /\ ~Error(q)'
    BY <1>2, <1>3, <1>5, <1>9 DEF Parsed
  <2>4. \A q \in Request : op'[q] = "new" => received'[q] = <<>>
    BY <1>7, <1>9 DEF Parsed
  <2> QED
    BY <2>2, <2>3, <2>4 DEF Parsed
<1>16. ASSUME NEW q \in Request, NEW p \in Int, Begins(q, p)' PROVE Whole(q, p)'
  <2>1. Begins(q, p + 1)
    <3>1. CASE HeaderAt(q, p)'
      BY <1>3, <3>1 DEF Begins
    <3>2. CASE q = r /\ p = -(Len(received[r]) + 1)
      BY <1>5, <1>6, <3>2 DEF Begins
    <3>3. q \in parsing' /\ p = -Len(received'[q]) =>
            q = r /\ p = -(Len(received[r]) + 1)
      BY <1>7, <1>9
    <3> QED
      BY <1>16, <3>1, <3>2, <3>3 DEF Begins
  <2>2. Whole(q, p + 1 - 1)'
    BY <1>3, <2>1
  <2> QED
    BY <2>2
<1>17. Whole(r, -Len(received[r]))
  BY <1>5, <1>6 DEF InStep, Begins
<1>18. ASSUME NEW q \in Request PROVE Got(q)'
  <2>1. CASE q # r
    BY <1>3, <1>7, <2>1 DEF InStep, Got
  <2>2. ASSUME NEW j \in 1..Len(received'[r])
        PROVE  received'[r][j] = Data(r)[j]
    <3>1. CASE j \in 1..Len(received[r])
      BY <1>5, <1>7, <3>1 DEF InStep, Got
    <3>2. CASE j = Len(received[r]) + 1
      <4>1. j \in 1..Len(Data(r)) /\ -Len(received[r]) + j = 1
        BY <1>6, <3>2
      <4>2. replies[-Len(received[r]) + j] = Data(r)[j]
        BY <1>17, <4>1 DEF Whole
      <4> QED
        BY <1>7, <3>2, <4>1, <4>2
    <3> QED
      BY <1>6, <1>7, <3>1, <3>2
  <2> QED
    BY <1>3, <1>5, <2>1, <2>2 DEF Got
<1>20. broken' => ReadFailed' /\ parsing' = {}
  BY <1>2, <1>5 DEF InStep
<1>21. parsing' = {} /\ replies' # <<>> => IsHeader(replies'[1]) \/ ReadFailed'
  <2> SUFFICES ASSUME parsing' = {}, replies' # <<>> PROVE IsHeader(replies'[1])
    OBVIOUS
  <2>1. Len(received[r]) + 1 = Length(r)
    BY <1>9
  <2>2. Len(replies') \in Nat /\ 0 < Len(replies')
    BY <1>3, LenProperties, EmptySeq
  <2>3. PICK p \in Int : p = -Len(received[r])
    BY <1>6
  <2>4. Whole(r, p - 1)'
    BY <1>3, <1>5, <2>3 DEF Begins
  <2>5. p - 1 + Len(Data(r)) = 0 /\ Data(r)' = Data(r)
    BY <1>3, <1>5, <1>6, <2>1, <2>3
  <2> QED
    BY <2>2, <2>4, <2>5 DEF Whole
<1>22. \A q \in Reads : op'[q] = "done" => Len(received'[q]) = Length(q)
  <2>1. op'[r] = "done" => Len(received'[r]) = Length(r)
    BY <1>7, <1>9
  <2> QED
    BY <1>7, <1>9, <2>1 DEF InStep, Reads
<1>23. InStep'
  BY <1>16, <1>18, <1>20, <1>21, <1>22 DEF InStep
<1> QED
  BY <1>3, <1>10, <1>11, <1>12, <1>14, <1>15, <1>23

LEMMA ServiceHeader ==
  ASSUME Service, HeaderIn
  PROVE  Service'
<1>1. parsing = {} /\ ~broken /\ replies # <<>> /\ replies' = Tail(replies)
  BY DEF HeaderIn
<1>2. UNCHANGED <<aop, requests, serving, dataVars, received>>
  BY DEF HeaderIn, KernelUnchanged
<1>3. CASE Head(replies)[1] = "data"
  <2>1. broken' = TRUE /\ UNCHANGED <<op, parsing>>
    BY <1>3 DEF HeaderIn
  <2> QED
    BY <1>1, <1>2, <1>3, <2>1, ServiceBreaks
<1>4. CASE ~(Head(replies)[1] = "data")
  <2>1. PICK r \in Request :
          /\ Head(replies) = Header(r) /\ HeaderAt(r, 1)
          /\ Head(replies)[2] = r /\ (Head(replies)[3] <=> Error(r))
          /\ op[r] = "open" /\ ~Waiting(r) /\ Served(r)
          /\ r \notin parsing /\ received[r] = <<>>
          /\ \A n \in Int : HeaderAt(r, n + 1) => n = 0
    BY <1>1, <1>4, HeaderRead
  <2>2. /\ UNCHANGED broken
        /\ IF Error(r) \/ Data(r) = <<>>
             THEN /\ op' = [op EXCEPT ![r] = IF Error(r) THEN "failed" ELSE "done"]
                  /\ UNCHANGED parsing
             ELSE parsing' = {r} /\ UNCHANGED op
    BY <1>4, <2>1 DEF HeaderIn
  <2>3. CASE Error(r) \/ Data(r) = <<>>
    BY <1>1, <1>2, <2>1, <2>2, <2>3, ServiceAnswers
  <2>4. CASE ~(Error(r) \/ Data(r) = <<>>)
    BY <1>1, <1>2, <2>1, <2>2, <2>4, ServiceParses
  <2> QED
    BY <2>3, <2>4
<1> QED
  BY <1>3, <1>4

LEMMA ParentService ==
  ASSUME Service, Parent
  PROVE  Service'
<1>1. CASE Fork \/ SetDevice \/ SetHandlers \/ CloseKernelEnd \/ ServeEof
           \/ CloseServerEnd \/ WaitChild
  <2>1. UNCHANGED <<aop, requests, replies, serving, dataVars, kernelVars>>
    BY <1>1 DEF Fork, SetDevice, SetHandlers, CloseKernelEnd, ServeEof,
                CloseServerEnd, WaitChild
  <2> QED
    BY <2>1, ServiceRests
<1>2. CASE TakeRequest
  BY <1>2, ServiceTakes DEF TakeRequest
<1>3. CASE CopyByte
  BY <1>3, ServiceCopies
<1>4. CASE Abort
  <2>1. serving' = {} /\ UNCHANGED <<aop, requests, replies, dataVars, kernelVars>>
    BY <1>4 DEF Abort
  <2> QED
    BY <2>1, ServiceRests
<1>5. CASE WriteReply
  <2>1. PICK r \in serving :
          /\ i[r] = Length(r) \/ Error(r)
          /\ replies' = replies \o Reply(r) \/ UNCHANGED replies
    BY <1>5 DEF WriteReply
  <2>2. serving' = {} /\ UNCHANGED <<aop, requests, dataVars, kernelVars>>
    BY <1>5 DEF WriteReply
  <2>3. Served(r)
    BY <2>1 DEF Served
  <2>4. CASE replies' = replies \o Reply(r)
    BY <2>2, <2>3, <2>4, ServiceReplies
  <2>5. CASE UNCHANGED replies
    BY <2>2, <2>5, ServiceRests
  <2> QED
    BY <2>1, <2>4, <2>5
<1>6. CASE ServeDisc
  BY <1>6, ServiceTakes, BuseAssumption DEF ServeDisc
<1> QED
  BY <1>1, <1>2, <1>3, <1>4, <1>5, <1>6 DEF Parent

LEMMA OthersService ==
  ASSUME Service, Child \/ SignalParent \/ SignalChild \/ HeaderIn \/ DataIn
                  \/ ShutDown \/ \E r \in Request : SendRequest(r)
  PROVE  Service'
<1>1. CASE Child
  <2>1. ChildUnchanged
    BY <1>1 DEF Child, MaskSignals, CloseOtherEnd, SetSock, SetFlags, DoIt, Clear
  <2> QED
    BY <2>1, ServiceRests DEF ChildUnchanged
<1>2. CASE SignalParent
  <2>1. UNCHANGED <<aop, replies, serving, dataVars, kernelVars>>
    BY <1>2 DEF SignalParent
  <2>2. requests' = Append(requests, "disc") \/ UNCHANGED requests
    BY <1>2 DEF SignalParent
  <2> QED
    BY <2>1, <2>2, ServiceDisc, ServiceRests
<1>3. CASE SignalChild
  BY <1>3, ServiceRests DEF SignalChild
<1>4. ASSUME NEW r \in Request, SendRequest(r) PROVE Service'
  <2>1. op[r] = "new" /\ op' = [op EXCEPT ![r] = "open"]
        /\ requests' = Append(requests, r)
    BY <1>4 DEF SendRequest
  <2>2. UNCHANGED <<aop, replies, serving, dataVars, parsing, received, broken>>
    BY <1>4 DEF SendRequest, KernelUnchanged
  <2> QED
    BY <2>1, <2>2, ServiceSends
<1>5. CASE HeaderIn
  BY <1>5, ServiceHeader
<1>6. CASE DataIn
  BY <1>6, ServiceReceives
<1>7. CASE ShutDown
  BY <1>7, ServiceRests DEF ShutDown, KernelUnchanged
<1> QED
  BY <1>1, <1>2, <1>3, <1>4, <1>5, <1>6, <1>7

-----------------------------------------------------------------------------
(* The invariant.                                                          *)

LEMMA InitIInv == Init => IInv
<1> HAVE Init
<1>1. Control
  BY DEF Init, Control, Places, Ends, Attaching, Status, ZeroMeansReleased
<1>2. Storage
  <2>1. \A r \in Request : Length(r) \in Nat
    BY Numbers
  <2> QED
    BY <2>1 DEF Init, Storage, Value
<1>3. Streams /\ Serving
  BY DEF Init, Streams, Serving
<1>4. \A r \in Request : ~Waiting(r) /\ ~InStream(r)
  BY DEF Init, Waiting, InStream
<1>5. \A r \in Request, n \in Int : ~HeaderAt(r, n)
  BY DEF Init, HeaderAt
<1>6. OnePlace
  BY <1>4 DEF Init, OnePlace
<1>7. WaitingOpen /\ Parsed
  BY <1>4 DEF Init, WaitingOpen, Parsed
<1>8. HeaderOnce
  BY <1>5 DEF HeaderOnce
<1>9. InStep
  <2>1. \A r \in Request, p \in Int : ~Begins(r, p)
    BY <1>5 DEF Init, Begins
  <2>2. \A r \in Request : Got(r) /\ op[r] # "done"
    BY DEF Init, Got
  <2> QED
    BY <2>1, <2>2 DEF Init, InStep, Reads
<1> QED
  BY <1>1, <1>2, <1>3, <1>6, <1>7, <1>8, <1>9 DEF IInv, Service

LEMMA NextIInv ==
  ASSUME IInv, [Next]_vars
  PROVE  IInv'
<1>1. CASE Parent
  BY <1>1, ParentControl, ParentService DEF IInv
<1>2. CASE Child
  BY <1>2, ChildControl, OthersService DEF IInv
<1>3. CASE SignalParent \/ SignalChild \/ HeaderIn \/ DataIn \/ ShutDown
           \/ \E r \in Request : SendRequest(r)
  BY <1>3, SignalsControl, OthersService DEF IInv
<1>4. CASE UNCHANGED vars
  <2>1. Control'
    BY <1>4 DEF IInv, vars, Control, Places, Ends, Attaching, Status,
                ZeroMeansReleased
  <2>2. Service'
    BY <1>4, ServiceRests DEF IInv, vars
  <2> QED
    BY <2>1, <2>2 DEF IInv
<1> QED
  BY <1>1, <1>2, <1>3, <1>4 DEF Next

LEMMA Inductive == Spec => []IInv
BY InitIInv, NextIInv, PTL DEF Spec

\* The processes, the connection, the streams and the requests have the types
\* of buse_main's and serve_nbd's state, in every run.
THEOREM TypeCorrect == Spec => []TypeOK
<1>1. IInv => TypeOK
  BY DEF IInv, TypeOK, Control, Service, Places, Ends, Storage, Streams, Serving,
         Value
<1> QED
  BY <1>1, Inductive, PTL

\* A status of 0 says that the device was released, or that a signal killed the
\* child before it had given the socket to the kernel.
THEOREM ZeroIsReleased == Spec => []ZeroMeansReleased
<1>1. IInv => ZeroMeansReleased
  BY DEF IInv, Control, Status
<1> QED
  BY <1>1, Inductive, PTL

(***************************************************************************)
(* The kernel loses its place in the replies only after a READ has failed, *)
(* and completes a READ with the bytes that serve_nbd had copied for it.   *)
(***************************************************************************)
THEOREM Intact == Spec => []RepliesIntact
<1>1. ASSUME IInv PROVE RepliesIntact
  <2>1. broken => \E r \in Reads : op[r] = "failed"
    BY <1>1 DEF IInv, Service, InStep, ReadFailed
  <2>2. ASSUME NEW r \in Reads, op[r] = "done" PROVE received[r] = Data(r)
    <3>1. r \in Request
      BY DEF Reads
    <3>2. /\ Len(received[r]) = Length(r) /\ Len(Data(r)) = Length(r)
          /\ received[r] \in Seq(Unit) /\ Data(r) \in Seq(Unit)
      BY <1>1, <2>2, <3>1, DataParts DEF IInv, Service, InStep, Streams
    <3>3. \A j \in 1..Len(received[r]) : received[r][j] = Data(r)[j]
      BY <1>1, <3>1 DEF IInv, Service, InStep, Got
    <3> QED
      BY <3>2, <3>3, SeqEqual
  <2> QED
    BY <2>1, <2>2 DEF RepliesIntact
<1> QED
  BY <1>1, Inductive, PTL

-----------------------------------------------------------------------------
(* The programs of BUSE implement BlockDevice.                             *)

\* The bytes that a request has passed, and its state, as BlockDevice has them.
Applied == [r \in Request |-> Offset(r) .. Offset(r) + i[r] - 1]
Op == [r \in Request |-> IF op[r] = "failed" THEN "open" ELSE op[r]]

LEMMA DeviceStutter ==
  ASSUME UNCHANGED <<m_storage, m_data, i, prec>>, Op' = Op
  PROVE  UNCHANGED Device!vars
BY DEF Device!vars, Op

\* A byte is copied inside the request, and only once.
LEMMA CopyByteStep ==
  ASSUME Service, CopyByte
  PROVE  Device!Next
<1> USE DEF Service
<1>1. PICK r \in serving :
        LET b == Offset(r) + i[r] IN
        /\ i[r] < Length(r)
        /\ i' = [i EXCEPT ![r] = @ + 1]
        /\ IF r \in Reads
             THEN /\ m_data' = [m_data EXCEPT ![r][b] = m_storage[b]]
                  /\ UNCHANGED m_storage
             ELSE /\ m_storage' = [m_storage EXCEPT ![b] = r]
                  /\ UNCHANGED m_data
  BY DEF CopyByte
<1>2. r \in Request /\ op[r] = "open" /\ UNCHANGED <<op, prec>>
  BY <1>1 DEF CopyByte, Serving, Waiting, WaitingOpen
<1>3. /\ i \in [Request -> Nat] /\ i[r] \in Nat
      /\ Offset(r) \in Nat /\ Length(r) \in Nat
  BY <1>2, Numbers DEF Storage
<1>4. PICK b \in Byte : b = Offset(r) + i[r]
  <2>1. i[r] \in 0..(Length(r) - 1)
    BY <1>1, <1>3
  <2> QED
    BY <1>2, <2>1, Numbers
<1>5. b \in Span(r) /\ b \notin Applied[r]
  BY <1>1, <1>2, <1>3, <1>4 DEF Span, Applied
<1>6. Applied' = [Applied EXCEPT ![r] = @ \cup {b}]
  <2>1. Offset(r) .. Offset(r) + (i[r] + 1) - 1 =
          (Offset(r) .. Offset(r) + i[r] - 1) \cup {b}
    BY <1>3, <1>4
  <2>2. \A q \in Request : i'[q] = IF q = r THEN i[r] + 1 ELSE i[q]
    BY <1>1, <1>2, <1>3
  <2>3. \A q \in Request :
          Applied'[q] = IF q = r THEN Applied[r] \cup {b} ELSE Applied[q]
    BY <1>2, <2>1, <2>2 DEF Applied
  <2> QED
    BY <1>2, <2>3 DEF Applied
<1>7. Op' = Op /\ Op[r] = "open"
  BY <1>2 DEF Op
<1>8. Device!ReadByte(r, b) \/ Device!WriteByte(r, b)
  <2>1. CASE r \in Reads
    BY <1>1, <1>2, <1>4, <1>5, <1>6, <1>7, <2>1 DEF Device!ReadByte, Applied, Op
  <2>2. CASE r \notin Reads
    BY <1>1, <1>2, <1>4, <1>5, <1>6, <1>7, <2>2
       DEF Device!WriteByte, Device!Writes, Applied, Op
  <2> QED
    BY <2>1, <2>2
<1> QED
  BY <1>2, <1>8 DEF Device!Next

\* Only what has passed all its bytes is completed.
LEMMA CompleteStep ==
  ASSUME NEW r \in Request, op[r] = "open", op' = [op EXCEPT ![r] = "done"],
         op \in [Request -> {"new", "open", "done", "failed"}],
         i[r] = Length(r), UNCHANGED <<m_storage, m_data, i, prec>>
  PROVE  Device!Next
<1>1. Op[r] = "open" /\ Op' = [Op EXCEPT ![r] = "done"]
  BY DEF Op
<1>2. Applied[r] = Span(r) /\ Applied' = Applied
  BY DEF Applied, Span
<1>3. Device!Complete(r)
  BY <1>1, <1>2 DEF Device!Complete, Applied, Op
<1> QED
  BY <1>3 DEF Device!Next

\* Every step of BUSE is a step of BlockDevice or a stutter.
LEMMA DeviceNext ==
  ASSUME IInv, [Next]_vars
  PROVE  [Device!Next]_(Device!vars)
<1> USE DEF IInv
<1>1. CASE CopyByte
  BY <1>1, CopyByteStep
<1>2. ASSUME NEW r \in Request, SendRequest(r) PROVE Device!Next
  <2>1. /\ op[r] = "new" /\ op' = [op EXCEPT ![r] = "open"]
        /\ prec' = [prec EXCEPT ![r] = {q \in Request : op[q] = "done"}]
        /\ UNCHANGED <<m_storage, m_data, i>>
    BY <1>2 DEF SendRequest, KernelUnchanged
  <2>2. Op[r] = "new" /\ Op' = [Op EXCEPT ![r] = "open"]
    BY <2>1 DEF Op, Service, Serving
  <2>3. {q \in Request : op[q] = "done"} = {q \in Request : Op[q] = "done"}
    BY DEF Op
  <2>4. Device!Submit(r)
    BY <2>1, <2>2, <2>3 DEF Device!Submit, Op
  <2> QED
    BY <2>4 DEF Device!Next
<1>3. CASE HeaderIn
  <2>1. UNCHANGED <<m_storage, m_data, i, prec>>
    BY <1>3 DEF HeaderIn, KernelUnchanged
  <2>2. CASE op' = op
    BY <2>1, <2>2, DeviceStutter DEF Op
  <2>3. CASE op' # op
    <3>1. replies # <<>> /\ ~(Head(replies)[1] = "data")
      BY <1>3, <2>3 DEF HeaderIn
    <3>2. PICK r \in Request :
            /\ Head(replies)[2] = r /\ (Head(replies)[3] <=> Error(r))
            /\ op[r] = "open" /\ Served(r)
      BY <3>1, HeaderRead
    <3>3. op' = [op EXCEPT ![r] = IF Error(r) THEN "failed" ELSE "done"]
      BY <1>3, <2>3, <3>1, <3>2 DEF HeaderIn
    <3>4. CASE Error(r)
      <4>1. Op' = Op
        BY <3>2, <3>3, <3>4 DEF Op, Service, Serving
      <4> QED
        BY <2>1, <4>1, DeviceStutter
    <3>5. CASE ~Error(r)
      BY <2>1, <3>2, <3>3, <3>5, CompleteStep DEF Served, Service, Serving
    <3> QED
      BY <3>4, <3>5
  <2> QED
    BY <2>2, <2>3
<1>4. CASE DataIn
  <2>1. PICK r \in parsing : op' = op \/ op' = [op EXCEPT ![r] = "done"]
    BY <1>4 DEF DataIn
  <2>2. UNCHANGED <<m_storage, m_data, i, prec>>
    BY <1>4 DEF DataIn, KernelUnchanged
  <2>3. r \in Request /\ op[r] = "open" /\ i[r] = Length(r)
    BY DEF Service, Serving, Parsed, Reads
  <2>4. CASE op' = op
    BY <2>2, <2>4, DeviceStutter DEF Op
  <2>5. CASE op' = [op EXCEPT ![r] = "done"]
    BY <2>2, <2>3, <2>5, CompleteStep DEF Service, Serving
  <2> QED
    BY <2>1, <2>4, <2>5
<1>5. CASE UNCHANGED <<m_storage, m_data, i, op, prec>>
  BY <1>5, DeviceStutter DEF Op
<1>6. \/ UNCHANGED <<m_storage, m_data, i, op, prec>>
      \/ CopyByte \/ HeaderIn \/ DataIn \/ \E r \in Request : SendRequest(r)
  <2>1. CASE Parent
    BY <2>1 DEF Parent, Fork, SetDevice, SetHandlers, CloseKernelEnd, TakeRequest,
       Abort, WriteReply, ServeDisc, ServeEof, CloseServerEnd, WaitChild
  <2>2. CASE Child
    BY <2>2 DEF Child, ChildUnchanged, MaskSignals, CloseOtherEnd, SetSock,
                SetFlags, DoIt, Clear
  <2>3. CASE SignalParent \/ SignalChild \/ ShutDown \/ UNCHANGED vars
    BY <2>3 DEF SignalParent, SignalChild, ShutDown, KernelUnchanged, vars
  <2> QED
    BY <2>1, <2>2, <2>3 DEF Next
<1> QED
  BY <1>1, <1>2, <1>3, <1>4, <1>5, <1>6

(***************************************************************************)
(* The programs of BUSE are a BlockDevice, whatever the requests, the      *)
(* operations that fail and the signals: each byte of a request is copied  *)
(* once, between its submission and its completion as the kernel sees them. *)
(***************************************************************************)
THEOREM ImplementsDevice == Spec => DeviceSpec
<1>1. Init => Device!Init
  <2> HAVE Init
  <2>1. \A r \in Request : Offset(r) .. Offset(r) + i[r] - 1 = {}
    BY Numbers DEF Init
  <2> QED
    BY <2>1 DEF Init, Device!Init
<1> QED
  BY <1>1, Inductive, DeviceNext, PTL DEF Spec, DeviceSpec, Device!Spec

-----------------------------------------------------------------------------
(* What BlockDevice_proofs shows of a device holds of this one.            *)

DeviceProofs ==
  INSTANCE BlockDevice_proofs
    WITH applied <- [r \in Request |-> Offset(r) .. Offset(r) + i[r] - 1],
         op      <- [r \in Request |-> IF op[r] = "failed" THEN "open"
                                                           ELSE op[r]]

LEMMA DeviceFresh == DeviceProofs!Spec => []DeviceProofs!ReadsFresh
<1>1. /\ Reads \subseteq Request
      /\ \A r \in Request : Span(r) \subseteq Byte
      /\ Zero \notin Request
  BY BuseAssumption DEF Reads, Span, Byte
<1> QED
  BY <1>1, DeviceProofs!ReadsSeeCompletedWrites, PTL

(***************************************************************************)
(* A read of a BUSE device sees the writes that had been completed when it *)
(* was sent, also when other operations have failed: of their bytes it     *)
(* returns neither the initial content nor what they had replaced.         *)
(***************************************************************************)
THEOREM ReadsSeeCompletedWrites == Spec => []Device!ReadsFresh
<1>1. DeviceProofs!ReadsFresh => Device!ReadsFresh
  BY DEF DeviceProofs!ReadsFresh, Device!ReadsFresh, DeviceProofs!Writes,
         Device!Writes
<1>2. Device!Init => DeviceProofs!Init
  BY DEF Device!Init, DeviceProofs!Init
<1>3. [Device!Next]_(Device!vars) => [DeviceProofs!Next]_(DeviceProofs!vars)
  BY DEF Device!Next, Device!vars, Device!Submit, Device!Complete,
         Device!ReadByte, Device!WriteByte, Device!Writes,
         DeviceProofs!Next, DeviceProofs!vars, DeviceProofs!Submit,
         DeviceProofs!Complete, DeviceProofs!ReadByte, DeviceProofs!WriteByte,
         DeviceProofs!Writes
<1> QED
  BY <1>1, <1>2, <1>3, ImplementsDevice, DeviceFresh, PTL
     DEF DeviceSpec, Device!Spec, DeviceProofs!Spec
=============================================================================
