--------------------------- MODULE NbdService_proofs ---------------------------
(***************************************************************************)
(* For any requests, workers, offsets and lengths: netspace implements     *)
(* BlockDevice, and the stream of replies stays in step as long as no      *)
(* worker writes between two writes of another one.                        *)
(***************************************************************************)
EXTENDS NbdService, SequenceTheorems, TLAPS

-----------------------------------------------------------------------------
(* The invariant.  First, where a request is.                              *)

InStream(r) == r \in Range(requests)
Busy(r)     == \E w \in Worker : r \in cur[w]
Waiting(r)  == InStream(r) \/ r \in tasks

\* The reply of r begins at place n of the stream.
HeaderAt(r, n) == n \in 1..Len(replies) /\ replies[n] = <<"header", r>>

Types == /\ TypeOK
         /\ i \in [Request -> Nat] /\ sent \in [Request -> Nat]
         /\ received \in [Request -> Seq(Unit)]

\* The stream, the pool and the workers have each request once.
OnePlace ==
  /\ IsInjective(requests)
  /\ \A r \in Request : InStream(r) => r \notin tasks
  /\ \A r \in Request : Waiting(r) => ~Busy(r)
  /\ \A v, w \in Worker : \A r \in cur[v] : r \in cur[w] => v = w

\* What the kernel has not sent is nowhere.
NewNowhere == \A r \in Request : op[r] = "new" => ~Waiting(r) /\ ~Busy(r)

\* No work is done before a worker has the request.
Untouched ==
  \A r \in Request : op[r] = "new" \/ Waiting(r)
                       => i[r] = 0 /\ sent[r] = 0 /\ r \notin held

\* The mutex is taken, and the reply begun, after the last byte.
CopiedFirst ==
  \A r \in Request : sent[r] > 0 \/ r \in held => i[r] = Length(r)

\* A header is in the stream once, before the kernel has seen it.
HeaderOnce ==
  /\ \A r \in Request, m, n \in 1..Len(replies) :
       HeaderAt(r, m) /\ HeaderAt(r, n) => m = n
  /\ \A r \in Request, n \in 1..Len(replies) :
       HeaderAt(r, n) => /\ sent[r] > 0 /\ op[r] = "open"
                         /\ r \notin parsing /\ received[r] = <<>>

\* What the kernel parses or has completed, a worker has replied to.
Answered ==
  /\ \A r \in Request : op[r] = "done" => sent[r] > 0
  /\ \A r \in Request : sent[r] = 0 => received[r] = <<>>
  /\ \A r \in parsing : /\ sent[r] > 0 /\ op[r] = "open"
                        /\ Len(received[r]) < Length(r)

IInv == /\ Types /\ OnePlace /\ NewNowhere /\ Untouched
        /\ CopiedFirst /\ HeaderOnce /\ Answered

-----------------------------------------------------------------------------
(* Second, the stream while nothing is mixed.                              *)

\* r's reply begins at place p, which is not above 0 once the kernel has read
\* the header.
Begins(r, p) == \/ p > 0 /\ HeaderAt(r, p)
                \/ r \in parsing /\ p = -Len(received[r])

IsHeader(unit) == unit[1] = "header"

\* What was sent of r's reply is there in one piece, and what follows it is
\* another reply.  Nothing follows a reply that is not complete.
Whole(r, p) ==
  /\ p + sent[r] \in 1 .. (Len(replies) + 1)
  /\ \A j \in 1..sent[r] : p + j > 1 => replies[p + j - 1] = Reply(r)[j]
  /\ sent[r] < Len(Reply(r)) => p + sent[r] = Len(replies) + 1
  /\ p + sent[r] <= Len(replies) => IsHeader(replies[p + sent[r]])

Incomplete(r) == sent[r] > 0 /\ sent[r] < Len(Reply(r))

\* The kernel has got the data that was sent.
Got(r) == \A j \in 1..Len(received[r]) : received[r][j] = Reply(r)[j + 1]

InStep ==
  /\ ~broken
  /\ \A r \in Request : sent[r] <= Len(Reply(r))
  /\ \A r \in Request, p \in Int : Begins(r, p) => Whole(r, p)
  /\ parsing = None /\ replies # <<>> => IsHeader(replies[1])
  /\ \A r \in Request : Incomplete(r) => Busy(r) /\ \E p \in Int : Begins(r, p)
  /\ \A r \in Request : Got(r)
  /\ \A r \in Reads : op[r] = "done" => Len(received[r]) = Length(r)

StepInv == mixed \/ InStep

-----------------------------------------------------------------------------
(* Streams.                                                                *)

\* A stream that grows: its elements and its places.
LEMMA AppendStream ==
  ASSUME NEW S, NEW q \in Seq(S), NEW e \in S
  PROVE  /\ Append(q, e) \in Seq(S)
         /\ Range(Append(q, e)) = Range(q) \cup {e}
         /\ IsInjective(q) /\ e \notin Range(q) => IsInjective(Append(q, e))
<1>1. /\ Append(q, e) \in Seq(S)
      /\ DOMAIN q = 1..Len(q) /\ Len(q) \in Nat
      /\ DOMAIN Append(q, e) = 1..(Len(q) + 1)
      /\ \A n \in 1..Len(q) : Append(q, e)[n] = q[n]
      /\ Append(q, e)[Len(q) + 1] = e
  BY AppendProperties, LenProperties
<1>2. Range(Append(q, e)) \subseteq Range(q) \cup {e}
  BY <1>1 DEF Range
<1>3. Range(q) \subseteq Range(Append(q, e))
  <2> SUFFICES ASSUME NEW x \in Range(q) PROVE x \in Range(Append(q, e))
    OBVIOUS
  <2>1. PICK n \in 1..Len(q) : q[n] = x
    BY <1>1 DEF Range
  <2>2. n \in DOMAIN Append(q, e) /\ Append(q, e)[n] = x
    BY <1>1, <2>1
  <2> QED BY <2>2 DEF Range
<1>4. e \in Range(Append(q, e))
  <2>1. Len(q) + 1 \in DOMAIN Append(q, e)
    BY <1>1
  <2> QED BY <1>1, <2>1 DEF Range
<1>5. ASSUME IsInjective(q), e \notin Range(q) PROVE IsInjective(Append(q, e))
  <2>1. \A n \in 1..Len(q) : q[n] # e
    BY <1>1, <1>5 DEF Range
  <2> QED BY <1>1, <1>5, <2>1 DEF IsInjective
<1> QED BY <1>1, <1>2, <1>3, <1>4, <1>5

\* A stream that is read: its first element is gone.
LEMMA TailStream ==
  ASSUME NEW S, NEW q \in Seq(S), q # <<>>
  PROVE  /\ Head(q) \in S /\ Head(q) \in Range(q)
         /\ Tail(q) \in Seq(S)
         /\ Range(Tail(q)) \subseteq Range(q)
         /\ IsInjective(q) => /\ IsInjective(Tail(q))
                              /\ Range(Tail(q)) = Range(q) \ {Head(q)}
<1>1. /\ Head(q) \in S /\ Head(q) = q[1]
      /\ Tail(q) \in Seq(S)
      /\ DOMAIN q = 1..Len(q) /\ Len(q) \in Nat \ {0}
      /\ DOMAIN Tail(q) = 1..(Len(q) - 1)
      /\ \A n \in 1..(Len(q) - 1) : Tail(q)[n] = q[n + 1]
  BY HeadTailProperties, LenProperties, EmptySeq
<1>2. Head(q) \in Range(q)
  BY <1>1 DEF Range
<1>3. Range(Tail(q)) \subseteq Range(q)
  BY <1>1 DEF Range
<1>4. ASSUME IsInjective(q)
      PROVE  /\ IsInjective(Tail(q))
             /\ Head(q) \notin Range(Tail(q))
  <2>1. \A n \in 1..(Len(q) - 1) : Tail(q)[n] # Head(q)
    BY <1>1, <1>4 DEF IsInjective
  <2> QED BY <1>1, <1>4, <2>1 DEF IsInjective, Range
<1>5. Range(q) \ {Head(q)} \subseteq Range(Tail(q))
  <2> SUFFICES ASSUME NEW x \in Range(q), x # Head(q)
               PROVE  x \in Range(Tail(q))
    OBVIOUS
  <2>1. PICK n \in 1..Len(q) : q[n] = x
    BY <1>1 DEF Range
  <2>2. n - 1 \in DOMAIN Tail(q) /\ Tail(q)[n - 1] = x
    BY <1>1, <2>1
  <2> QED BY <2>2 DEF Range
<1> QED BY <1>1, <1>2, <1>3, <1>4, <1>5

\* A first element put before a stream.
LEMMA ConsStream ==
  ASSUME NEW S, NEW q \in Seq(S), NEW e \in S
  PROVE  /\ <<e>> \o q \in Seq(S) /\ Len(<<e>> \o q) = Len(q) + 1
         /\ (<<e>> \o q)[1] = e
         /\ \A n \in 1..Len(q) : (<<e>> \o q)[n + 1] = q[n]
<1> DEFINE h == <<e>>
<1>1. h \in Seq(S) /\ Len(h) = 1 /\ h[1] = e /\ Len(q) \in Nat
  BY LenProperties
<1> HIDE DEF h
<1>2. /\ h \o q \in Seq(S) /\ Len(h \o q) = 1 + Len(q)
      /\ \A n \in 1 .. 1 + Len(q) :
           (h \o q)[n] = IF n <= 1 THEN h[n] ELSE q[n - 1]
  <2>1. /\ h \o q \in Seq(S) /\ Len(h \o q) = Len(h) + Len(q)
        /\ \A n \in 1 .. Len(h) + Len(q) :
             (h \o q)[n] = IF n <= Len(h) THEN h[n] ELSE q[n - Len(h)]
    BY <1>1, ConcatProperties, Zenon
  <2> QED
    BY <1>1, <2>1
<1>3. \A n \in 1..Len(q) : (h \o q)[n + 1] = q[n]
  <2> TAKE n \in 1..Len(q)
  <2>1. n + 1 \in 1 .. 1 + Len(q) /\ ~(n + 1 <= 1) /\ (n + 1) - 1 = n
    BY <1>1
  <2> QED
    BY <1>2, <2>1
<1>4. (h \o q)[1] = e
  BY <1>1, <1>2
<1> QED
  BY <1>1, <1>2, <1>3, <1>4 DEF h

\* The places k + 1 to n of one stream put behind another one.
LEMMA ChunkStream ==
  ASSUME NEW S, NEW q \in Seq(S), NEW u \in Seq(S),
         NEW k \in Nat, NEW n \in (k + 1) .. Len(u)
  PROVE  /\ q \o SubSeq(u, k + 1, n) \in Seq(S)
         /\ Len(q \o SubSeq(u, k + 1, n)) = Len(q) + n - k
         /\ \A j \in 1..Len(q) : (q \o SubSeq(u, k + 1, n))[j] = q[j]
         /\ \A j \in (k + 1) .. n :
              (q \o SubSeq(u, k + 1, n))[Len(q) + j - k] = u[j]
<1> DEFINE p == SubSeq(u, k + 1, n)
           c == q \o p
<1>1. /\ k + 1 \in Int /\ n \in Int
      /\ Len(q) \in Nat /\ Len(u) \in Nat /\ n \in Nat
      /\ \A j \in k + 1 .. n : u[j] \in S
  BY LenProperties, ElementOfSeq
<1>2. /\ p \in Seq(S) /\ Len(p) = n - k
      /\ \A j \in 1..(n - k) : p[j] = u[k + j]
  <2>1. /\ p \in Seq(S)
        /\ Len(p) = IF k + 1 <= n THEN n - (k + 1) + 1 ELSE 0
        /\ \A j \in 1 .. n - (k + 1) + 1 : p[j] = u[(k + 1) + j - 1]
    BY <1>1, SubSeqProperties
  <2> HIDE DEF p
  <2>2. k + 1 <= n /\ n - (k + 1) + 1 = n - k
    BY <1>1
  <2>3. \A j \in 1..(n - k) : (k + 1) + j - 1 = k + j
    OBVIOUS
  <2>4. \A j \in 1..(n - k) : p[j] = u[k + j]
    BY <2>1, <2>2, <2>3
  <2> QED
    BY <2>1, <2>2, <2>4
<1> HIDE DEF p
<1>3. /\ c \in Seq(S) /\ Len(c) = Len(q) + Len(p)
      /\ \A j \in 1 .. Len(q) + Len(p) :
           c[j] = IF j <= Len(q) THEN q[j] ELSE p[j - Len(q)]
  BY <1>2, ConcatProperties, Zenon
<1> HIDE DEF c
<1>4. \A j \in 1..Len(q) : c[j] = q[j]
  <2> TAKE j \in 1..Len(q)
  <2>1. j \in 1 .. Len(q) + Len(p) /\ j <= Len(q)
    BY <1>1, <1>2
  <2> QED
    BY <1>3, <2>1
<1>5. \A j \in (k + 1) .. n : c[Len(q) + j - k] = u[j]
  <2> TAKE j \in (k + 1) .. n
  <2> DEFINE m == Len(q) + j - k
  <2>1. /\ m \in 1 .. Len(q) + Len(p) /\ ~(m <= Len(q))
        /\ m - Len(q) = j - k /\ j - k \in 1..(n - k) /\ k + (j - k) = j
    BY <1>1, <1>2
  <2>2. c[m] = p[j - k]
    BY <1>3, <2>1
  <2> QED
    BY <1>2, <2>1, <2>2
<1> QED
  BY <1>1, <1>2, <1>3, <1>4, <1>5 DEF c, p

-----------------------------------------------------------------------------
(* Where a request is: one lemma for each step.                            *)

\* A new service holds no request.
LEMMA InitIInv == Init => IInv
<1> HAVE Init
<1>1. Types
  <2>1. /\ op \in [Request -> {"new", "open", "done"}]
        /\ prec \in [Request -> SUBSET Request]
        /\ cur \in [Worker -> {None} \cup {{r} : r \in Request}]
        /\ tasks \subseteq Request /\ held \subseteq Request
        /\ parsing \in {None} \cup {{r} : r \in Reads}
        /\ broken \in BOOLEAN /\ mixed \in BOOLEAN
    BY DEF Init
  <2>2. /\ requests \in Seq(Request) /\ replies \in Seq(Unit)
        /\ received \in [Request -> Seq(Unit)]
    BY DEF Init
  <2>3. /\ m_storage \in [Byte -> Request \cup {Zero}]
        /\ m_data \in [Reads -> [Byte -> Request \cup {Zero}]]
    BY DEF Init
  <2>4. /\ i \in [Request -> Nat] /\ sent \in [Request -> Nat]
        /\ \A r \in Request : /\ i[r] \in 0..Length(r)
                              /\ sent[r] \in 0..(Length(r) + 1)
                              /\ received[r] \in Seq(Unit)
    BY <2>2, NbdServiceAssumption DEF Init
  <2> QED
    BY <2>1, <2>2, <2>3, <2>4 DEF Types, TypeOK
<1>2. \A r \in Request : ~Waiting(r) /\ ~Busy(r)
  BY DEF Init, Waiting, InStream, Range, Busy, None
<1>3. \A r \in Request, n \in Int : ~HeaderAt(r, n)
  BY DEF Init, HeaderAt
<1>4. OnePlace
  BY <1>2 DEF Init, OnePlace, IsInjective, Waiting, None
<1>5. NewNowhere /\ Untouched /\ CopiedFirst
  BY <1>2 DEF Init, NewNowhere, Untouched, CopiedFirst
<1>6. HeaderOnce /\ Answered
  BY <1>3 DEF Init, HeaderOnce, Answered, None
<1> QED
  BY <1>1, <1>4, <1>5, <1>6 DEF IInv

\* Only a request that is nowhere is sent.
LEMMA SendInv == ASSUME IInv, NEW s \in Request, Send(s) PROVE IInv'
<1> USE DEF IInv, dataVars, workVars
<1>1. Types'
  BY DEF Send, Types, TypeOK
<1>2. ~InStream(s)
  BY DEF Send, NewNowhere, Waiting
<1>3. /\ Range(requests') = Range(requests) \cup {s}
      /\ IsInjective(requests')
  BY <1>2, AppendStream DEF Send, InStream, OnePlace, Types, TypeOK
<1>4. \A r \in Request : /\ InStream(r)' <=> InStream(r) \/ r = s
                         /\ Busy(r)' <=> Busy(r)
  BY <1>3 DEF Send, InStream, Busy
<1>5. \A r \in Request : Waiting(r)' <=> Waiting(r) \/ r = s
  BY <1>4 DEF Waiting, Send
<1>6. OnePlace'
  BY <1>3, <1>4, <1>5 DEF Send, OnePlace, NewNowhere, Waiting
<1>7. \A r \in Request : op'[r] = IF r = s THEN "open" ELSE op[r]
  BY DEF Send, Types, TypeOK
<1>8. NewNowhere' /\ Untouched'
  BY <1>4, <1>5, <1>7 DEF Send, NewNowhere, Untouched
<1>9. op[s] = "new"
  BY DEF Send
<1>10. HeaderOnce' /\ Answered' /\ CopiedFirst'
  BY <1>7, <1>9 DEF Send, HeaderOnce, HeaderAt, Answered, CopiedFirst
<1> QED
  BY <1>1, <1>6, <1>8, <1>10

\* The reactor moves a request from the stream to the pool.
LEMMA ReceiveInv == ASSUME IInv, Receive PROVE IInv'
<1> USE DEF IInv, dataVars, workVars, kernelVars
<1> DEFINE s == Head(requests)
<1>1. Types'
  BY DEF Receive, Types, TypeOK
<1>2. /\ s \in Request /\ s \in Range(requests)
      /\ Range(requests') = Range(requests) \ {s}
      /\ IsInjective(requests')
  BY TailStream DEF Receive, OnePlace, Types, TypeOK
<1>3. /\ \A r \in Request : InStream(r)' <=> InStream(r) /\ r # s
      /\ InStream(s)
  BY <1>2 DEF InStream
<1>4. \A r \in Request : /\ Waiting(r)' <=> Waiting(r)
                         /\ Busy(r)' <=> Busy(r)
  BY <1>3 DEF Receive, Waiting, Busy
<1>5. OnePlace'
  BY <1>2, <1>3, <1>4 DEF Receive, OnePlace
<1>6. NewNowhere' /\ Untouched'
  BY <1>4 DEF Receive, NewNowhere, Untouched
<1>7. HeaderOnce' /\ Answered' /\ CopiedFirst'
  BY DEF Receive, HeaderOnce, HeaderAt, Answered, CopiedFirst
<1> QED
  BY <1>1, <1>5, <1>6, <1>7

\* A free worker moves a request from the pool to itself.
LEMMA TakeInv == ASSUME IInv, NEW w \in Worker, Take(w) PROVE IInv'
<1> USE DEF IInv, dataVars, kernelVars
<1>1. PICK s \in tasks : /\ cur' = [cur EXCEPT ![w] = {s}]
                         /\ tasks' = tasks \ {s}
  BY DEF Take
<1>2. /\ s \in Request /\ Waiting(s) /\ ~Busy(s) /\ ~InStream(s)
      /\ cur[w] = {}
  <2>1. s \in Request
    BY DEF Types, TypeOK
  <2>2. cur[w] = {}
    BY DEF Take, None
  <2> QED
    BY <2>1, <2>2 DEF Waiting, OnePlace
<1>3. Types'
  BY <1>1, <1>2 DEF Take, Types, TypeOK
<1>4. /\ \A v \in Worker : cur'[v] = IF v = w THEN {s} ELSE cur[v]
      /\ UNCHANGED <<op, requests, i, sent, held>>
  BY <1>1 DEF Take, Types, TypeOK
<1>5. \A r \in Request : /\ InStream(r)' <=> InStream(r)
                         /\ Waiting(r)' <=> Waiting(r) /\ r # s
                         /\ Busy(r)' <=> Busy(r) \/ r = s
  BY <1>1, <1>2, <1>4 DEF InStream, Waiting, Busy
<1>6. OnePlace'
  <2>1. \A v, u \in Worker : \A r \in cur'[v] : r \in cur'[u] => v = u
    BY <1>2, <1>4 DEF OnePlace, Busy
  <2> QED
    BY <1>1, <1>2, <1>4, <1>5, <2>1 DEF OnePlace
<1>7. NewNowhere' /\ Untouched'
  BY <1>2, <1>4, <1>5 DEF NewNowhere, Untouched
<1>8. HeaderOnce' /\ Answered' /\ CopiedFirst'
  BY DEF Take, HeaderOnce, HeaderAt, Answered, CopiedFirst
<1> QED
  BY <1>3, <1>6, <1>7, <1>8

\* What a worker has is neither new nor waiting; while bytes are missing it is
\* not replied to.
LEMMA InHand ==
  ASSUME IInv, NEW w \in Worker, NEW r \in cur[w]
  PROVE  /\ r \in Request /\ cur[w] = {r} /\ Busy(r) /\ ~Waiting(r)
         /\ op[r] # "new"
         /\ i[r] < Length(r) => op[r] = "open" /\ sent[r] = 0
<1>1. r \in Request /\ cur[w] = {r}
  <2>1. cur[w] \in {None} \cup {{q} : q \in Request}
    BY DEF IInv, Types, TypeOK
  <2> QED
    BY <2>1 DEF None
<1>2. Busy(r) /\ ~Waiting(r) /\ op[r] # "new"
  BY <1>1 DEF IInv, Busy, OnePlace, NewNowhere
<1>3. ASSUME i[r] < Length(r) PROVE sent[r] = 0 /\ op[r] = "open"
  <2>1. i[r] # Length(r) /\ sent[r] \in Nat
    BY <1>1, <1>3, NbdServiceAssumption DEF IInv, Types
  <2>2. sent[r] = 0
    BY <1>1, <2>1 DEF IInv, CopiedFirst
  <2>3. op[r] # "done"
    BY <1>1, <2>2 DEF IInv, Answered
  <2>4. op[r] \in {"new", "open", "done"}
    BY <1>1 DEF IInv, Types, TypeOK
  <2> QED
    BY <1>2, <2>2, <2>3, <2>4
<1> QED
  BY <1>1, <1>2, <1>3

\* A worker copies a byte: only its own request moves.
LEMMA CopyByteInv == ASSUME IInv, NEW w \in Worker, CopyByte(w) PROVE IInv'
<1> USE DEF IInv, kernelVars
<1>1. PICK s \in cur[w] :
        /\ i[s] < Length(s) /\ i' = [i EXCEPT ![s] = @ + 1]
        /\ IF s \in Reads
             THEN /\ m_data' = [m_data EXCEPT ![s][Offset(s) + i[s]] =
                                                m_storage[Offset(s) + i[s]]]
                  /\ UNCHANGED m_storage
             ELSE /\ m_storage' = [m_storage EXCEPT ![Offset(s) + i[s]] = s]
                  /\ UNCHANGED m_data
        /\ UNCHANGED <<kernelVars, cur, held, sent, requests, tasks, replies, mixed>>
  BY DEF CopyByte
<1>2. /\ s \in Request /\ ~Waiting(s) /\ op[s] # "new" /\ sent[s] = 0
      /\ i[s] \in Nat /\ Length(s) \in Nat /\ s \notin held
  <2>1. s \in Request /\ ~Waiting(s) /\ op[s] # "new" /\ sent[s] = 0
    BY <1>1, InHand
  <2>2. i[s] \in Nat /\ Length(s) \in Nat
    BY <2>1, NbdServiceAssumption DEF Types
  <2> QED
    BY <1>1, <2>1, <2>2 DEF CopiedFirst
<1>3. Offset(s) + i[s] \in Byte
  BY <1>1, <1>2, NbdServiceAssumption DEF Byte
<1>4. /\ i' \in [Request -> Nat]
      /\ \A r \in Request : i'[r] = IF r = s THEN i[s] + 1 ELSE i[r]
  BY <1>1, <1>2 DEF Types, TypeOK
<1>5. Types'
  <2>1. /\ m_data' \in [Reads -> [Byte -> Request \cup {Zero}]]
        /\ m_storage' \in [Byte -> Request \cup {Zero}]
    <3>1. /\ m_data \in [Reads -> [Byte -> Request \cup {Zero}]]
          /\ m_storage \in [Byte -> Request \cup {Zero}]
      BY DEF Types, TypeOK
    <3>2. CASE s \in Reads
      BY <1>1, <1>3, <3>1, <3>2
    <3>3. CASE s \notin Reads
      BY <1>1, <1>2, <1>3, <3>1, <3>3
    <3> QED
      BY <3>2, <3>3
  <2>2. \A r \in Request : i'[r] \in 0..Length(r)
    <3>1. \A r \in Request : i[r] \in 0..Length(r)
      BY DEF Types, TypeOK
    <3> QED
      BY <1>1, <1>2, <1>4, <3>1
  <2> QED
    BY <1>1, <1>4, <2>1, <2>2 DEF Types, TypeOK
<1>6. \A r \in Request : /\ InStream(r)' <=> InStream(r)
                         /\ Waiting(r)' <=> Waiting(r)
                         /\ Busy(r)' <=> Busy(r)
  BY <1>1 DEF InStream, Waiting, Busy
<1>7. OnePlace' /\ NewNowhere'
  BY <1>1, <1>6 DEF OnePlace, NewNowhere
<1>8. Untouched' /\ CopiedFirst'
  BY <1>1, <1>2, <1>4, <1>6 DEF Untouched, CopiedFirst
<1>9. HeaderOnce' /\ Answered'
  BY <1>1 DEF HeaderOnce, HeaderAt, Answered
<1> QED
  BY <1>5, <1>7, <1>8, <1>9

\* A worker takes its request's mutex.
LEMMA LockInv == ASSUME IInv, NEW w \in Worker, Lock(w) PROVE IInv'
<1> USE DEF IInv, kernelVars, dataVars
<1>1. PICK s \in cur[w] :
        /\ i[s] = Length(s) /\ held' = held \cup {s}
        /\ UNCHANGED <<kernelVars, cur, i, sent, dataVars, requests, tasks,
                       replies, mixed>>
  BY DEF Lock, Mutex
<1>2. s \in Request /\ ~Waiting(s) /\ op[s] # "new"
  BY InHand
<1>3. Types'
  BY <1>1, <1>2 DEF Types, TypeOK
<1>4. \A r \in Request : /\ InStream(r)' <=> InStream(r)
                         /\ Waiting(r)' <=> Waiting(r)
                         /\ Busy(r)' <=> Busy(r)
  BY <1>1 DEF InStream, Waiting, Busy
<1>5. OnePlace' /\ NewNowhere' /\ Untouched' /\ CopiedFirst'
  BY <1>1, <1>2, <1>4
     DEF OnePlace, NewNowhere, Untouched, CopiedFirst
<1>6. HeaderOnce' /\ Answered'
  BY <1>1 DEF HeaderOnce, HeaderAt, Answered
<1> QED
  BY <1>3, <1>5, <1>6

\* A worker that has written the whole reply is free again.
LEMMA FinishInv == ASSUME IInv, NEW w \in Worker, Finish(w) PROVE IInv'
<1> USE DEF IInv, kernelVars, dataVars
<1>1. PICK s \in cur[w] :
        /\ sent[s] = Len(Reply(s)) /\ held' = held \ {s}
        /\ cur' = [cur EXCEPT ![w] = None]
        /\ UNCHANGED <<kernelVars, i, sent, dataVars, requests, tasks, replies,
                       mixed>>
  BY DEF Finish, Mutex
<1>2. s \in Request /\ cur[w] = {s}
  BY InHand
<1>3. Types'
  BY <1>1, <1>2 DEF Types, TypeOK
<1>4. \A v \in Worker : cur'[v] = IF v = w THEN None ELSE cur[v]
  BY <1>1 DEF Types, TypeOK
<1>5. /\ \A v \in Worker : cur'[v] \subseteq cur[v]
      /\ \A r \in Request : /\ InStream(r)' <=> InStream(r)
                            /\ Waiting(r)' <=> Waiting(r)
                            /\ Busy(r)' => Busy(r)
  BY <1>1, <1>4 DEF InStream, Waiting, Busy, None
<1>6. OnePlace' /\ NewNowhere' /\ Untouched' /\ CopiedFirst'
  <2>1. OnePlace'
    BY <1>1, <1>5 DEF OnePlace
  <2> QED
    BY <1>1, <1>5, <2>1 DEF NewNowhere, Untouched, CopiedFirst
<1>7. HeaderOnce' /\ Answered'
  BY <1>1 DEF HeaderOnce, HeaderAt, Answered
<1> QED
  BY <1>3, <1>6, <1>7

\* What a reply consists of.
LEMMA ReplyUnits ==
  ASSUME Types, NEW r \in Request
  PROVE  /\ Reply(r) \in Seq(Unit)
         /\ Len(Reply(r)) = IF r \in Reads THEN Length(r) + 1 ELSE 1
         /\ Reply(r)[1] = <<"header", r>>
         /\ \A j \in 2..Len(Reply(r)) : ~IsHeader(Reply(r)[j])
<1> DEFINE data == [n \in 1..Length(r) |-> <<"data", m_data[r][Offset(r) + n - 1]>>]
           head == <<"header", r>>
<1>1. head \in Unit
  BY DEF Unit
<1>2. CASE r \in Reads
  <2>1. \A n \in 1..Length(r) : data[n] \in Unit /\ ~IsHeader(data[n])
    <3> TAKE n \in 1..Length(r)
    <3>1. Offset(r) + n - 1 \in Byte
      BY NbdServiceAssumption DEF Byte
    <3>2. m_data[r][Offset(r) + n - 1] \in Request \cup {Zero}
      BY <1>2, <3>1 DEF Types, TypeOK
    <3> QED
      BY <3>2 DEF Unit, IsHeader
  <2>2. /\ data \in Seq(Unit) /\ Len(data) = Length(r)
        /\ Length(r) \in Nat
    <3>1. Length(r) \in Nat
      BY NbdServiceAssumption
    <3>2. data \in [1..Length(r) -> Unit]
      BY <2>1
    <3> HIDE DEF data
    <3> QED
      BY <3>1, <3>2, SeqDef, LenProperties
  <2>3. Reply(r) = <<head>> \o data
    BY <1>2 DEF Reply
  <2> HIDE DEF data, head
  <2>4. /\ Reply(r) \in Seq(Unit) /\ Len(Reply(r)) = Length(r) + 1
        /\ Reply(r)[1] = head
        /\ \A n \in 1..Length(r) : Reply(r)[n + 1] = data[n]
    BY <1>1, <2>2, <2>3, ConsStream
  <2>5. \A j \in 2 .. Length(r) + 1 : ~IsHeader(Reply(r)[j])
    <3> TAKE j \in 2 .. Length(r) + 1
    <3>1. j - 1 \in 1..Length(r) /\ j = (j - 1) + 1
      BY <2>2
    <3>2. Reply(r)[j] = data[j - 1]
      BY <2>4, <3>1
    <3> QED
      BY <2>1, <3>1, <3>2
  <2> QED
    BY <1>2, <2>4, <2>5 DEF head
<1>3. CASE r \notin Reads
  <2>1. Reply(r) = <<head>> \o <<>>
    BY <1>3 DEF Reply
  <2>2. <<>> \in Seq(Unit) /\ Len(<<>>) = 0
    OBVIOUS
  <2>3. Reply(r) \in Seq(Unit) /\ Len(Reply(r)) = 1 /\ Reply(r)[1] = head
    BY <1>1, <2>1, <2>2, ConsStream
  <2> QED
    BY <1>3, <2>3
<1> QED
  BY <1>2, <1>3

\* w writes the units of s's reply up to the n-th.
Writes(w, s, n) ==
  /\ s \in cur[w] /\ s \in held /\ n \in (sent[s] + 1) .. Len(Reply(s))
  /\ sent[s] = 0 => n = 1
  /\ sent' = [sent EXCEPT ![s] = n]
  /\ replies' \in Seq(Unit) /\ Len(replies') = Len(replies) + n - sent[s]
  /\ \A j \in 1..Len(replies) : replies'[j] = replies[j]
  /\ \A j \in (sent[s] + 1) .. n : replies'[Len(replies) + j - sent[s]] = Reply(s)[j]
  /\ Mix(w)
  /\ UNCHANGED <<kernelVars, cur, i, held, dataVars, requests, tasks>>

LEMMA WriteStep ==
  ASSUME IInv, NEW w \in Worker, Write(w)
  PROVE  \E s \in Request : \E n \in Nat : Writes(w, s, n)
<1>1. PICK s \in cur[w] :
        /\ s \in held
        /\ \E n \in (sent[s] + 1) .. Len(Reply(s)) :
             /\ sent[s] = 0 => n = 1
             /\ sent' = [sent EXCEPT ![s] = n]
             /\ replies' = replies \o SubSeq(Reply(s), sent[s] + 1, n)
        /\ Mix(w)
        /\ UNCHANGED <<kernelVars, cur, i, held, dataVars, requests, tasks>>
  BY DEF Write, Mutex
<1>2. s \in Request
  BY InHand
<1>3. PICK n \in (sent[s] + 1) .. Len(Reply(s)) :
        /\ sent[s] = 0 => n = 1
        /\ sent' = [sent EXCEPT ![s] = n]
        /\ replies' = replies \o SubSeq(Reply(s), sent[s] + 1, n)
  BY <1>1
<1>4. /\ replies \in Seq(Unit) /\ Reply(s) \in Seq(Unit)
      /\ sent[s] \in Nat
  BY <1>2, ReplyUnits DEF IInv, Types, TypeOK
<1>5. /\ replies' \in Seq(Unit) /\ Len(replies') = Len(replies) + n - sent[s]
      /\ \A j \in 1..Len(replies) : replies'[j] = replies[j]
      /\ \A j \in (sent[s] + 1) .. n :
           replies'[Len(replies) + j - sent[s]] = Reply(s)[j]
  <2> DEFINE k == sent[s]
             u == Reply(s)
  <2>1. /\ replies \in Seq(Unit) /\ u \in Seq(Unit) /\ k \in Nat
        /\ n \in (k + 1) .. Len(u)
    BY <1>3, <1>4
  <2> HIDE DEF k, u
  <2> DEFINE c == replies \o SubSeq(u, k + 1, n)
  <2>2. /\ c \in Seq(Unit) /\ Len(c) = Len(replies) + n - k
        /\ \A j \in 1..Len(replies) : c[j] = replies[j]
        /\ \A j \in (k + 1) .. n : c[Len(replies) + j - k] = u[j]
    BY <2>1, ChunkStream
  <2>3. replies' = c
    BY <1>3 DEF k, u
  <2> HIDE DEF c
  <2> QED
    BY <2>2, <2>3 DEF k, u
<1>6. n \in Nat
  BY <1>4, LenProperties
<1>7. Writes(w, s, n)
  BY <1>1, <1>3, <1>5 DEF Writes
<1> QED
  BY <1>2, <1>6, <1>7

\* The header is the only new one in the stream, and only at the beginning.
LEMMA WriteHeaders ==
  ASSUME IInv, NEW w \in Worker, NEW s \in Request, NEW n \in Nat, Writes(w, s, n)
  PROVE  \A r \in Request, m \in Int :
           HeaderAt(r, m)' <=> \/ HeaderAt(r, m)
                               \/ sent[s] = 0 /\ r = s /\ m = Len(replies) + 1
<1>1. /\ sent[s] \in Nat /\ Len(replies) \in Nat
      /\ replies \in Seq(Unit)
  BY LenProperties DEF IInv, Types, TypeOK
<1>0. /\ n \in (sent[s] + 1) .. Len(Reply(s)) /\ (sent[s] = 0 => n = 1)
      /\ Len(replies') = Len(replies) + n - sent[s]
      /\ \A j \in 1..Len(replies) : replies'[j] = replies[j]
      /\ \A j \in (sent[s] + 1) .. n :
           replies'[Len(replies) + j - sent[s]] = Reply(s)[j]
  BY DEF Writes
<1>2. /\ Reply(s)[1] = <<"header", s>>
      /\ \A j \in 2..Len(Reply(s)) : ~IsHeader(Reply(s)[j])
      /\ Len(Reply(s)) \in Nat
  BY ReplyUnits, LenProperties DEF IInv
<1> SUFFICES ASSUME NEW r \in Request, NEW m \in Int
             PROVE  HeaderAt(r, m)' <=> \/ HeaderAt(r, m)
                                        \/ sent[s] = 0 /\ r = s /\ m = Len(replies) + 1
  OBVIOUS
<1>3. CASE m \in 1..Len(replies)
  <2>1. m \in 1..Len(replies') /\ replies'[m] = replies[m] /\ m # Len(replies) + 1
    BY <1>1, <1>0, <1>3
  <2> QED
    BY <1>3, <2>1 DEF HeaderAt
<1>4. CASE m \in (Len(replies) + 1) .. Len(replies')
  <2> DEFINE j == m - Len(replies) + sent[s]
  <2>1. /\ j \in (sent[s] + 1) .. n /\ m = Len(replies) + j - sent[s]
        /\ j \in 1..Len(Reply(s))
    <3>1. PICK k \in Nat, l \in Nat, d \in Nat :
            k = sent[s] /\ l = Len(replies) /\ d = Len(Reply(s))
      BY <1>1, <1>2
    <3>2. n \in (k + 1) .. d /\ Len(replies') = l + n - k
      BY <1>0, <3>1
    <3>3. m \in (l + 1) .. (l + n - k)
      BY <1>4, <3>1, <3>2
    <3>4. /\ m - l + k \in (k + 1) .. n /\ m = l + (m - l + k) - k
          /\ m - l + k \in 1..d
      BY <3>2, <3>3
    <3> QED
      BY <3>1, <3>4
  <2>2. replies'[m] = Reply(s)[j]
    BY <1>0, <2>1
  <2>3. ~HeaderAt(r, m)
    BY <1>1, <1>4 DEF HeaderAt
  <2>4. CASE sent[s] = 0
    <3>1. j = 1 /\ m = Len(replies) + 1 /\ replies'[m] = <<"header", s>>
      BY <1>1, <1>0, <1>2, <2>1, <2>2, <2>4
    <3>2. m \in 1..Len(replies')
      BY <1>1, <1>4
    <3> QED
      BY <2>3, <2>4, <3>1, <3>2 DEF HeaderAt
  <2>5. CASE sent[s] # 0
    <3>1. j \in 2..Len(Reply(s))
      BY <1>1, <2>1, <2>5
    <3>2. ~IsHeader(replies'[m])
      BY <1>2, <2>2, <3>1
    <3> QED
      BY <2>3, <2>5, <3>2 DEF HeaderAt, IsHeader
  <2> QED
    BY <2>4, <2>5
<1>5. CASE m \notin 1..Len(replies')
  <2>1. m \notin 1..Len(replies)
    BY <1>1, <1>0, <1>2, <1>5
  <2>2. ~(sent[s] = 0 /\ m = Len(replies) + 1)
    BY <1>1, <1>0, <1>2, <1>5
  <2> QED
    BY <1>5, <2>1, <2>2 DEF HeaderAt
<1>6. Len(replies') \in Nat
  BY LenProperties DEF Writes
<1> QED
  BY <1>1, <1>3, <1>4, <1>5, <1>6

\* A worker writes a part of the reply.
LEMMA WriteInv == ASSUME IInv, NEW w \in Worker, Write(w) PROVE IInv'
<1> USE DEF kernelVars, dataVars
<1>1. PICK s \in Request, n \in Nat : Writes(w, s, n)
  BY WriteStep
<1>2. /\ s \in cur[w] /\ s \in held /\ ~Waiting(s)
      /\ op[s] # "new" /\ i[s] = Length(s) /\ n > 0
      /\ sent[s] \in Nat /\ n <= Length(s) + 1
  <2>1. s \in cur[w] /\ s \in held /\ n \in (sent[s] + 1) .. Len(Reply(s))
    BY <1>1 DEF Writes
  <2>2. sent[s] \in Nat /\ i[s] = Length(s)
    BY <2>1 DEF IInv, Types, CopiedFirst
  <2>3. Len(Reply(s)) <= Length(s) + 1 /\ Len(Reply(s)) \in Nat
    BY ReplyUnits, NbdServiceAssumption DEF IInv
  <2>4. ~Waiting(s) /\ op[s] # "new"
    BY <2>1, InHand
  <2>5. n > 0 /\ n <= Length(s) + 1
    BY <2>1, <2>2, <2>3, NbdServiceAssumption
  <2> QED
    BY <2>1, <2>2, <2>4, <2>5
<1>3. \A r \in Request : sent'[r] = IF r = s THEN n ELSE sent[r]
  BY <1>1 DEF Writes, IInv, Types
<1>4. Types'
  <2>1. \A r \in Request : sent'[r] \in 0..(Length(r) + 1)
    <3>1. n \in 0..(Length(s) + 1)
      BY <1>2, NbdServiceAssumption
    <3> QED
      BY <1>3, <3>1 DEF IInv, Types, TypeOK
  <2>2. sent' \in [Request -> Nat] /\ replies' \in Seq(Unit) /\ mixed' \in BOOLEAN
    BY <1>1 DEF Writes, IInv, Types, TypeOK, Mix
  <2> QED
    BY <1>1, <2>1, <2>2 DEF Writes, IInv, Types, TypeOK
<1>5. \A r \in Request : /\ InStream(r)' <=> InStream(r)
                         /\ Waiting(r)' <=> Waiting(r)
                         /\ Busy(r)' <=> Busy(r)
  BY <1>1 DEF Writes, InStream, Waiting, Busy
<1>6. OnePlace' /\ NewNowhere' /\ Untouched' /\ CopiedFirst'
  BY <1>1, <1>2, <1>3, <1>5
     DEF Writes, IInv, OnePlace, NewNowhere, Untouched, CopiedFirst
<1>7. \A r \in Request : sent[r] > 0 => sent'[r] > 0
  BY <1>2, <1>3
<1>8. sent[s] = 0 => op[s] = "open" /\ s \notin parsing /\ received[s] = <<>>
  BY <1>2 DEF IInv, Types, TypeOK, Answered
<1>9. Answered'
  <2>1. \A r \in Request : sent'[r] = 0 => sent[r] = 0
    BY <1>2, <1>3
  <2> QED
    BY <1>1, <1>7, <2>1 DEF Writes, IInv, Answered
<1>10. HeaderOnce'
  <2>1. \A r \in Request, m \in Int :
          HeaderAt(r, m)' <=> \/ HeaderAt(r, m)
                              \/ sent[s] = 0 /\ r = s /\ m = Len(replies) + 1
    BY <1>1, WriteHeaders
  <2>2. /\ \A r \in Request, m, k \in Int :
             HeaderAt(r, m) /\ HeaderAt(r, k) => m = k
        /\ \A r \in Request, m \in Int :
             HeaderAt(r, m) => /\ sent[r] > 0 /\ op[r] = "open"
                               /\ r \notin parsing /\ received[r] = <<>>
    BY DEF IInv, HeaderOnce, HeaderAt
  <2>3. \A r \in Request, m \in Int :
          HeaderAt(r, m)' => /\ sent'[r] > 0 /\ op'[r] = "open"
                             /\ r \notin parsing' /\ received'[r] = <<>>
    BY <1>1, <1>2, <1>3, <1>8, <2>1, <2>2 DEF Writes
  <2>4. \A r \in Request, m, k \in Int :
          HeaderAt(r, m)' /\ HeaderAt(r, k)' => m = k
    BY <2>1, <2>2
  <2>5. Len(replies') \in Nat
    BY <1>4, LenProperties DEF Types, TypeOK
  <2> QED
    BY <2>3, <2>4, <2>5 DEF HeaderOnce
<1> QED
  BY <1>4, <1>6, <1>9, <1>10 DEF IInv

\* The kernel takes the first unit from the stream: all others move up.
LEMMA Drained ==
  ASSUME IInv, replies # <<>>, replies' = Tail(replies)
  PROVE  /\ replies' \in Seq(Unit) /\ Head(replies) = replies[1]
         /\ Len(replies) \in Nat \ {0} /\ Len(replies') = Len(replies) - 1
         /\ \A j \in 1..Len(replies') : replies'[j] = replies[j + 1]
         /\ \A r \in Request, m \in Int :
              HeaderAt(r, m)' <=> m > 0 /\ HeaderAt(r, m + 1)
<1>1. replies \in Seq(Unit)
  BY DEF IInv, Types, TypeOK
<1>2. /\ replies' \in Seq(Unit) /\ Head(replies) = replies[1]
      /\ Len(replies) \in Nat \ {0} /\ Len(replies') = Len(replies) - 1
      /\ \A j \in 1..Len(replies') : replies'[j] = replies[j + 1]
  BY <1>1, HeadTailProperties, LenProperties, EmptySeq
<1>3. \A r \in Request, m \in Int : HeaderAt(r, m)' <=> m > 0 /\ HeaderAt(r, m + 1)
  <2> TAKE r \in Request, m \in Int
  <2>1. m \in 1..Len(replies') <=> m > 0 /\ m + 1 \in 1..Len(replies)
    BY <1>2
  <2> QED
    BY <1>2, <2>1 DEF HeaderAt
<1> QED
  BY <1>2, <1>3

\* The kernel parses one request at a time, a READ.
LEMMA Parses ==
  ASSUME IInv, NEW r \in parsing
  PROVE  parsing = {r} /\ r \in Reads /\ r \in Request
<1>1. parsing \in {None} \cup {{q} : q \in Reads} /\ Reads \subseteq Request
  BY NbdServiceAssumption DEF IInv, Types, TypeOK
<1> QED
  BY <1>1 DEF None

\* The kernel reads a header: it expects data, or completes the request.
LEMMA HeaderInInv == ASSUME IInv, HeaderIn PROVE IInv'
<1> USE DEF workVars, dataVars
<1> DEFINE unit == Head(replies)
           s    == unit[2]
<1>1. /\ replies' = Tail(replies) /\ replies # <<>> /\ parsing = {}
      /\ UNCHANGED <<prec, received, workVars, dataVars, requests, tasks, mixed>>
  BY DEF HeaderIn, None
<1>2. /\ replies' \in Seq(Unit) /\ unit = replies[1] /\ unit \in Unit
      /\ 1 \in 1..Len(replies) /\ Len(replies') \in Nat
      /\ \A r \in Request, m \in Int :
           HeaderAt(r, m)' <=> m > 0 /\ HeaderAt(r, m + 1)
  <2>1. replies \in Seq(Unit)
    BY DEF IInv, Types, TypeOK
  <2>2. unit \in Unit
    BY <1>1, <2>1, HeadTailProperties
  <2>3. /\ replies' \in Seq(Unit) /\ unit = replies[1]
        /\ Len(replies) \in Nat \ {0} /\ Len(replies') = Len(replies) - 1
    BY <1>1, Drained
  <2>4. \A r \in Request, m \in Int :
          HeaderAt(r, m)' <=> m > 0 /\ HeaderAt(r, m + 1)
    BY <1>1, Drained
  <2> QED
    BY <2>2, <2>3, <2>4
<1>3. \/ /\ unit[1] = "header" /\ s \in Reads /\ Length(s) > 0
         /\ parsing' = {s} /\ UNCHANGED <<op, broken>>
      \/ /\ unit[1] = "header" /\ op' = [op EXCEPT ![s] = "done"]
         /\ UNCHANGED <<parsing, broken>>
      \/ /\ broken' = TRUE /\ UNCHANGED <<op, parsing>>
  BY DEF HeaderIn
<1>4. ASSUME unit[1] = "header"
      PROVE  s \in Request /\ HeaderAt(s, 1)
  BY <1>2, <1>4 DEF Unit, HeaderAt
<1>5. /\ \A r \in Request, m, k \in Int :
           HeaderAt(r, m) /\ HeaderAt(r, k) => m = k
      /\ \A r \in Request, m \in Int :
           HeaderAt(r, m) => /\ sent[r] > 0 /\ op[r] = "open"
                             /\ r \notin parsing /\ received[r] = <<>>
  BY DEF IInv, HeaderOnce, HeaderAt
<1> HIDE DEF unit, s
<1>6. \A r \in Request : /\ InStream(r)' <=> InStream(r)
                         /\ Waiting(r)' <=> Waiting(r)
                         /\ Busy(r)' <=> Busy(r)
  BY <1>1 DEF InStream, Waiting, Busy
<1>7. /\ op' \in [Request -> {"new", "open", "done"}]
      /\ \A r \in Request : \/ op'[r] = op[r]
                            \/ r = s /\ unit[1] = "header" /\ op'[r] = "done"
  <2>1. op \in [Request -> {"new", "open", "done"}]
    BY DEF IInv, Types, TypeOK
  <2> QED
    BY <1>3, <1>4, <2>1
<1>8. Types'
  <2>1. parsing' \in {None} \cup {{r} : r \in Reads} /\ broken' \in BOOLEAN
    BY <1>3 DEF IInv, Types, TypeOK
  <2> QED
    BY <1>1, <1>2, <1>7, <2>1 DEF IInv, Types, TypeOK
<1>9. OnePlace' /\ NewNowhere' /\ Untouched' /\ CopiedFirst'
  <2>1. \A r \in Request : op'[r] = "new" => op[r] = "new"
    BY <1>7
  <2> QED
    BY <1>1, <1>6, <2>1 DEF IInv, OnePlace, NewNowhere, Untouched, CopiedFirst
<1>10. \A r \in Request, m \in Int :
         HeaderAt(r, m)' => HeaderAt(r, m + 1) /\ ~(unit[1] = "header" /\ r = s)
  BY <1>2, <1>4, <1>5
<1>11. HeaderOnce'
  <2>1. \A r \in Request, m, k \in Int :
          HeaderAt(r, m)' /\ HeaderAt(r, k)' => m = k
    BY <1>5, <1>10
  <2>2. \A r \in Request, m \in Int :
          HeaderAt(r, m)' => /\ sent'[r] > 0 /\ op'[r] = "open"
                             /\ r \notin parsing' /\ received'[r] = <<>>
    BY <1>1, <1>3, <1>5, <1>7, <1>10
  <2> QED
    BY <1>2, <2>1, <2>2 DEF HeaderOnce
<1>12. Answered'
  <2>1. \A r \in Request : op'[r] = "done" => sent'[r] > 0
    BY <1>1, <1>4, <1>5, <1>7 DEF IInv, Answered
  <2>2. \A r \in parsing' : /\ sent'[r] > 0 /\ op'[r] = "open"
                            /\ Len(received'[r]) < Length(r)
    BY <1>1, <1>3, <1>4, <1>5
  <2> QED
    BY <1>1, <2>1, <2>2 DEF IInv, Answered
<1> QED
  BY <1>8, <1>9, <1>11, <1>12 DEF IInv

\* The kernel reads a unit of a READ's data; the last one completes the READ.
LEMMA DataInInv == ASSUME IInv, DataIn PROVE IInv'
<1> USE DEF workVars, dataVars
<1>1. PICK s \in parsing :
        /\ replies' = Tail(replies) /\ replies # <<>>
        /\ received' = [received EXCEPT ![s] = Append(@, Head(replies))]
        /\ IF Len(received[s]) + 1 = Length(s)
             THEN parsing' = None /\ op' = [op EXCEPT ![s] = "done"]
             ELSE UNCHANGED <<parsing, op>>
        /\ UNCHANGED <<prec, broken, workVars, dataVars, requests, tasks, mixed>>
  BY DEF DataIn
<1>2. s \in Request /\ s \in Reads /\ parsing = {s}
  BY Parses
<1>3. /\ sent[s] > 0 /\ op[s] = "open" /\ Len(received[s]) < Length(s)
      /\ Len(received[s]) \in Nat /\ Length(s) \in Nat
  BY <1>2, NbdServiceAssumption, LenProperties DEF IInv, Types, Answered
<1>4. /\ replies' \in Seq(Unit) /\ Len(replies') \in Nat
      /\ \A r \in Request, m \in Int :
           HeaderAt(r, m)' <=> m > 0 /\ HeaderAt(r, m + 1)
  BY <1>1, Drained, LenProperties
<1>5. /\ received' \in [Request -> Seq(Unit)]
      /\ Len(received'[s]) = Len(received[s]) + 1
      /\ \A r \in Request : r # s => received'[r] = received[r]
  <2>1. /\ received \in [Request -> Seq(Unit)] /\ replies \in Seq(Unit)
    BY DEF IInv, Types, TypeOK
  <2>2. Head(replies) \in Unit
    BY <1>1, <2>1, HeadTailProperties
  <2>3. received[s] \in Seq(Unit)
    BY <1>2, <2>1
  <2>4. /\ Append(received[s], Head(replies)) \in Seq(Unit)
        /\ Len(Append(received[s], Head(replies))) = Len(received[s]) + 1
    BY <2>2, <2>3, AppendProperties
  <2> QED
    BY <1>1, <1>2, <2>1, <2>4
<1>6. \A r \in Request : /\ InStream(r)' <=> InStream(r)
                         /\ Waiting(r)' <=> Waiting(r)
                         /\ Busy(r)' <=> Busy(r)
  BY <1>1 DEF InStream, Waiting, Busy
<1>7. /\ op' \in [Request -> {"new", "open", "done"}]
      /\ \A r \in Request : op'[r] = op[r] \/ (r = s /\ op'[r] = "done")
  <2>1. op \in [Request -> {"new", "open", "done"}]
    BY DEF IInv, Types, TypeOK
  <2>2. op' = op \/ op' = [op EXCEPT ![s] = "done"]
    BY <1>1
  <2> QED
    BY <1>2, <2>1, <2>2
<1>8. Types'
  <2>1. parsing' \in {None} \cup {{r} : r \in Reads}
    BY <1>1 DEF IInv, Types, TypeOK
  <2>2. \A r \in Request : received'[r] \in Seq(Unit)
    BY <1>5
  <2> QED
    BY <1>1, <1>4, <1>5, <1>7, <2>1, <2>2 DEF IInv, Types, TypeOK
<1>9. OnePlace' /\ NewNowhere' /\ Untouched' /\ CopiedFirst'
  <2>1. \A r \in Request : op'[r] = "new" => op[r] = "new"
    BY <1>7
  <2> QED
    BY <1>1, <1>6, <2>1 DEF IInv, OnePlace, NewNowhere, Untouched, CopiedFirst
<1>10. parsing' \subseteq parsing
  BY <1>1 DEF None
<1>11. HeaderOnce'
  <2>1. /\ \A r \in Request, m, k \in Int :
             HeaderAt(r, m) /\ HeaderAt(r, k) => m = k
        /\ \A r \in Request, m \in Int :
             HeaderAt(r, m) => /\ sent[r] > 0 /\ op[r] = "open"
                               /\ r \notin parsing /\ received[r] = <<>>
    BY DEF IInv, HeaderOnce, HeaderAt
  <2>2. \A r \in Request, m, k \in Int :
          HeaderAt(r, m)' /\ HeaderAt(r, k)' => m = k
    BY <1>4, <2>1
  <2>3. \A r \in Request, m \in Int :
          HeaderAt(r, m)' => /\ sent'[r] > 0 /\ op'[r] = "open"
                             /\ r \notin parsing' /\ received'[r] = <<>>
    <3> SUFFICES ASSUME NEW r \in Request, NEW m \in Int, HeaderAt(r, m)'
                 PROVE  /\ sent'[r] > 0 /\ op'[r] = "open"
                        /\ r \notin parsing' /\ received'[r] = <<>>
      OBVIOUS
    <3>1. m + 1 \in Int /\ HeaderAt(r, m + 1)
      BY <1>4
    <3>2. /\ sent[r] > 0 /\ op[r] = "open"
          /\ r \notin parsing /\ received[r] = <<>>
      BY <2>1, <3>1
    <3>3. r # s
      BY <3>2
    <3> QED
      BY <1>1, <1>5, <1>7, <1>10, <3>2, <3>3
  <2> QED
    BY <1>4, <2>2, <2>3 DEF HeaderOnce
<1>12. Answered'
  <2>1. \A r \in Request : op'[r] = "done" => sent'[r] > 0
    BY <1>1, <1>3, <1>7 DEF IInv, Answered
  <2>2. \A r \in Request : sent'[r] = 0 => received'[r] = <<>>
    BY <1>1, <1>3, <1>5 DEF IInv, Answered
  <2>3. ASSUME NEW r \in parsing'
        PROVE  sent'[r] > 0 /\ op'[r] = "open" /\ Len(received'[r]) < Length(r)
    <3>1. r = s /\ Len(received[s]) + 1 # Length(s) /\ op' = op
      BY <1>1, <1>2, <2>3 DEF None
    <3> QED
      BY <1>1, <1>3, <1>5, <3>1
  <2> QED
    BY <2>1, <2>2, <2>3 DEF Answered
<1> QED
  BY <1>8, <1>9, <1>11, <1>12 DEF IInv

-----------------------------------------------------------------------------
\* Every step preserves the invariant.
LEMMA NextInv == IInv /\ [Next]_vars => IInv'
<1> SUFFICES ASSUME IInv, [Next]_vars PROVE IInv'
  OBVIOUS
<1>1. ASSUME NEW r \in Request, Send(r) PROVE IInv'
  BY <1>1, SendInv
<1>2. CASE Receive
  BY <1>2, ReceiveInv
<1>3. CASE HeaderIn
  BY <1>3, HeaderInInv
<1>4. CASE DataIn
  BY <1>4, DataInInv
<1>5. ASSUME NEW w \in Worker, Execute(w) PROVE IInv'
  BY <1>5, TakeInv, CopyByteInv, LockInv, WriteInv, FinishInv DEF Execute
<1>6. CASE UNCHANGED vars
  BY <1>6 DEF vars, kernelVars, workVars, dataVars, IInv, Types, TypeOK, OnePlace,
              NewNowhere, Untouched, CopiedFirst, HeaderOnce, HeaderAt, Answered,
              InStream, Waiting, Busy
<1> QED
  BY <1>1, <1>2, <1>3, <1>4, <1>5, <1>6 DEF Next

\* In every reachable state, whatever the requests and the workers.
LEMMA Invariance == Spec => []IInv
<1> QED
  BY InitIInv, NextInv, PTL DEF Spec

(***************************************************************************)
(* The types of the members, of the streams and of the kernel's state:     *)
(* no reply is longer than its header and its data, no copy goes past the  *)
(* request's end, and what is parsed is a READ.                            *)
(***************************************************************************)
THEOREM TypeCorrect == Spec => []TypeOK
<1>1. IInv => TypeOK
  BY DEF IInv, Types
<1> QED
  BY <1>1, Invariance, PTL

-----------------------------------------------------------------------------
(* netspace implements BlockDevice.                                        *)

\* The bytes that a request has passed, as BlockDevice has them.
Applied == [r \in Request |-> Offset(r) .. Offset(r) + i[r] - 1]

\* A step that copies, submits and completes nothing.
LEMMA DeviceStutter ==
  ASSUME UNCHANGED <<m_storage, m_data, i, op, prec>>
  PROVE  UNCHANGED Device!vars
BY DEF Device!vars

\* A request whose reply has begun has passed all its bytes.
LEMMA AllPassed ==
  ASSUME IInv, NEW s \in Request, sent[s] > 0
  PROVE  Applied[s] = Span(s)
<1>1. i[s] = Length(s)
  BY DEF IInv, CopiedFirst
<1> QED
  BY <1>1 DEF Applied, Span

\* A byte is copied inside the request, and only once.
LEMMA CopyByteStep ==
  ASSUME IInv, NEW w \in Worker, CopyByte(w)
  PROVE  \E r \in Request : \E b \in Byte :
           Device!ReadByte(r, b) \/ Device!WriteByte(r, b)
<1>1. PICK s \in cur[w] :
        /\ i[s] < Length(s) /\ i' = [i EXCEPT ![s] = @ + 1]
        /\ IF s \in Reads
             THEN /\ m_data' = [m_data EXCEPT ![s][Offset(s) + i[s]] =
                                                m_storage[Offset(s) + i[s]]]
                  /\ UNCHANGED m_storage
             ELSE /\ m_storage' = [m_storage EXCEPT ![Offset(s) + i[s]] = s]
                  /\ UNCHANGED m_data
        /\ UNCHANGED <<op, prec>>
  BY DEF CopyByte, kernelVars
<1>2. s \in Request /\ op[s] = "open"
  BY <1>1, InHand
<1> DEFINE b == Offset(s) + i[s]
<1>3. i \in [Request -> Nat] /\ Offset(s) \in Nat /\ Length(s) \in Nat
      /\ StorageSize \in Nat /\ Offset(s) + Length(s) <= StorageSize
  BY <1>2, NbdServiceAssumption DEF IInv, Types
<1>4. b \in Byte /\ b \in Span(s) /\ b \notin Applied[s]
  BY <1>1, <1>2, <1>3 DEF Byte, Span, Applied
<1>5. Applied' = [Applied EXCEPT ![s] = @ \cup {b}]
  <2>1. Offset(s) .. Offset(s) + (i[s] + 1) - 1
          = (Offset(s) .. Offset(s) + i[s] - 1) \cup {b}
    BY <1>2, <1>3
  <2>2. \A r \in Request : i'[r] = IF r = s THEN i[s] + 1 ELSE i[r]
    BY <1>1, <1>2, <1>3
  <2>3. \A r \in Request :
          Applied'[r] = IF r = s THEN Applied[s] \cup {b} ELSE Applied[r]
    BY <2>1, <2>2, <1>2 DEF Applied
  <2> QED
    BY <1>2, <2>3 DEF Applied
<1>6. CASE s \in Reads
  BY <1>1, <1>2, <1>4, <1>5, <1>6 DEF Device!ReadByte, Device!Writes, Applied
<1>7. CASE s \notin Reads
  BY <1>1, <1>2, <1>4, <1>5, <1>7 DEF Device!WriteByte, Device!Writes, Applied
<1> QED
  BY <1>2, <1>4, <1>6, <1>7

\* Every step of netspace is a step of BlockDevice or a stutter.
LEMMA DeviceNext ==
  ASSUME IInv, [Next]_vars
  PROVE  [Device!Next]_(Device!vars)
<1>1. ASSUME NEW s \in Request, Send(s) PROVE Device!Next
  <2>1. Device!Submit(s)
    BY <1>1 DEF Send, Device!Submit, workVars, dataVars
  <2> QED
    BY <2>1 DEF Device!Next
<1>2. ASSUME NEW w \in Worker, CopyByte(w) PROVE Device!Next
  BY <1>2, CopyByteStep DEF Device!Next
<1>3. ASSUME NEW s \in Request, sent[s] > 0, op[s] = "open",
             op' = [op EXCEPT ![s] = "done"],
             UNCHANGED <<m_storage, m_data, i, prec>>
      PROVE  Device!Next
  <2>1. Device!Complete(s)
    BY <1>3, AllPassed DEF Device!Complete, Applied
  <2> QED
    BY <2>1 DEF Device!Next
<1>4. CASE HeaderIn
  <2> DEFINE s == Head(replies)[2]
  <2>1. UNCHANGED <<m_storage, m_data, i, prec>>
    BY <1>4 DEF HeaderIn, workVars, dataVars
  <2>2. \/ op' = op
        \/ Head(replies)[1] = "header" /\ op' = [op EXCEPT ![s] = "done"]
    BY <1>4 DEF HeaderIn
  <2>3. CASE op' = op
    BY <2>1, <2>3, DeviceStutter
  <2>4. CASE Head(replies)[1] = "header" /\ op' = [op EXCEPT ![s] = "done"]
    <3>1. replies # <<>> /\ replies' = Tail(replies) /\ replies \in Seq(Unit)
      BY <1>4 DEF HeaderIn, IInv, Types, TypeOK
    <3>2. Head(replies) = replies[1] /\ Len(replies) \in Nat \ {0}
      BY <3>1, Drained
    <3>3. Head(replies) \in Unit
      BY <3>1, HeadTailProperties
    <3>4. s \in Request /\ HeaderAt(s, 1) /\ 1 \in 1..Len(replies)
      BY <2>4, <3>2, <3>3 DEF Unit, HeaderAt
    <3>5. sent[s] > 0 /\ op[s] = "open"
      BY <3>4 DEF IInv, HeaderOnce
    <3> QED
      BY <1>3, <2>1, <2>4, <3>4, <3>5
  <2> QED
    BY <2>2, <2>3, <2>4
<1>5. CASE DataIn
  <2>1. PICK s \in parsing :
          /\ op' = op \/ op' = [op EXCEPT ![s] = "done"]
          /\ UNCHANGED <<m_storage, m_data, i, prec>>
    BY <1>5 DEF DataIn, workVars, dataVars
  <2>2. s \in Request /\ sent[s] > 0 /\ op[s] = "open"
    BY Parses DEF IInv, Answered
  <2> QED
    BY <1>3, <2>1, <2>2, DeviceStutter
<1>6. ASSUME NEW w \in Worker, Take(w) \/ Lock(w) \/ Write(w) \/ Finish(w)
      PROVE  UNCHANGED <<m_storage, m_data, i, op, prec>>
  BY <1>6 DEF Take, Lock, Write, Finish, kernelVars, dataVars
<1>7. CASE Receive \/ UNCHANGED vars
  <2>1. UNCHANGED <<m_storage, m_data, i, op, prec>>
    BY <1>7 DEF Receive, vars, kernelVars, workVars, dataVars
  <2> QED
    BY <2>1, DeviceStutter
<1> QED
  BY <1>1, <1>2, <1>4, <1>5, <1>6, <1>7, DeviceStutter DEF Next, Execute

(***************************************************************************)
(* netspace is a BlockDevice, whatever the requests, the workers and the   *)
(* interleaving: between a request's submission and its completion, as the *)
(* kernel sees them, each of its bytes is copied once.                     *)
(***************************************************************************)
THEOREM ImplementsDevice == Spec => DeviceSpec
<1>1. Init => Device!Init
  <2> HAVE Init
  <2>1. \A r \in Request : Offset(r) .. Offset(r) + i[r] - 1 = {}
    BY NbdServiceAssumption DEF Init
  <2> QED
    BY <2>1 DEF Init, Device!Init
<1> QED
  BY <1>1, Invariance, DeviceNext, PTL DEF Spec, DeviceSpec, Device!Spec

-----------------------------------------------------------------------------
(* The stream stays in step while nothing is mixed: one lemma for the      *)
(* steps that leave the replies alone, one for each of the others.         *)

\* What begins in the stream, or is parsed, is open and has been replied to.
LEMMA Begun ==
  ASSUME IInv, NEW r \in Request, NEW p \in Int, Begins(r, p)
  PROVE  /\ sent[r] > 0 /\ sent[r] \in Nat /\ op[r] = "open"
         /\ p <= 0 => parsing = {r}
         /\ p > 0 => HeaderAt(r, p)
<1>1. CASE p > 0 /\ HeaderAt(r, p)
  BY <1>1 DEF IInv, Types, HeaderOnce, HeaderAt
<1>2. CASE r \in parsing /\ p = -Len(received[r])
  <2>1. parsing = {r} /\ sent[r] > 0 /\ op[r] = "open"
    BY <1>2, Parses DEF IInv, Answered
  <2>2. sent[r] \in Nat /\ Len(received[r]) \in Nat
    BY LenProperties DEF IInv, Types
  <2> QED
    BY <1>2, <2>1, <2>2
<1> QED
  BY <1>1, <1>2 DEF Begins

\* A new service is in step.
LEMMA InitInStep == Init => InStep
<1> HAVE Init
<1>1. \A r \in Request : \A p \in Int : ~Begins(r, p)
  BY DEF Init, Begins, HeaderAt, None
<1>2. Types
  BY InitIInv DEF IInv
<1>3. \A r \in Request : sent[r] = 0 /\ sent[r] <= Len(Reply(r))
  BY <1>2, ReplyUnits, NbdServiceAssumption DEF Init
<1>4. \A r \in Request : Got(r) /\ op[r] # "done"
  BY DEF Init, Got
<1>5. Reads \subseteq Request
  BY NbdServiceAssumption
<1> QED
  BY <1>1, <1>3, <1>4, <1>5 DEF Init, InStep, Incomplete

\* A reply that has begun does not change.
LEMMA ReplyStable ==
  ASSUME IInv, [Next]_vars, NEW r \in Request, sent[r] > 0
  PROVE  Reply(r)' = Reply(r)
<1>1. r \in Reads => m_data'[r] = m_data[r]
  <2>1. ASSUME NEW w \in Worker, CopyByte(w) PROVE r \in Reads => m_data'[r] = m_data[r]
    <3>1. PICK s \in cur[w] :
            /\ i[s] < Length(s)
            /\ \/ m_data' = [m_data EXCEPT ![s][Offset(s) + i[s]] =
                                              m_storage[Offset(s) + i[s]]]
               \/ m_data' = m_data
      BY <2>1 DEF CopyByte
    <3>2. s # r
      BY <3>1, InHand
    <3>3. DOMAIN m_data = Reads
      BY DEF IInv, Types, TypeOK
    <3> QED
      BY <3>1, <3>2, <3>3
  <2>2. CASE UNCHANGED m_data
    BY <2>2
  <2>3. \/ UNCHANGED m_data
        \/ \E w \in Worker : CopyByte(w)
    BY DEF Next, vars, kernelVars, workVars, dataVars, Send, Receive, HeaderIn, DataIn,
           Execute, Take, Lock, Write, Finish
  <2> QED
    BY <2>1, <2>2, <2>3
<1> QED
  BY <1>1 DEF Reply

\* Steps that leave both streams of the kernel alone.
LEMMA QuietInStep ==
  ASSUME IInv, IInv', InStep, [Next]_vars,
         UNCHANGED <<replies, parsing, received, sent, broken>>,
         \A r \in Request : op'[r] = "done" => op[r] = "done",
         \A r \in Request : Incomplete(r) /\ Busy(r) => Busy(r)'
  PROVE  InStep'
<1>1. \A r \in Request : sent[r] > 0 => Reply(r)' = Reply(r)
  BY ReplyStable
<1>2. \A r \in Request : \A p \in Int : Begins(r, p)' <=> Begins(r, p)
  BY DEF Begins, HeaderAt
<1>3. \A r \in Request : \A p \in Int : Begins(r, p)' => Whole(r, p)'
  <2> SUFFICES ASSUME NEW r \in Request, NEW p \in Int, Begins(r, p)
               PROVE  Whole(r, p)'
    BY <1>2
  <2>1. Whole(r, p) /\ Reply(r)' = Reply(r)
    BY <1>1, Begun DEF InStep
  <2> QED
    BY <2>1 DEF Whole
<1>4. \A r \in Request : Incomplete(r)' <=> Incomplete(r)
  <2> TAKE r \in Request
  <2>1. CASE sent[r] > 0
    BY <1>1, <2>1 DEF Incomplete
  <2>2. CASE ~(sent[r] > 0)
    BY <2>2 DEF Incomplete
  <2> QED
    BY <2>1, <2>2
<1>5. \A r \in Request : Got(r)' /\ (sent[r] <= Len(Reply(r)))'
  <2> TAKE r \in Request
  <2>1. CASE sent[r] > 0
    BY <1>1, <2>1 DEF InStep, Got
  <2>2. CASE ~(sent[r] > 0)
    <3>1. sent[r] = 0 /\ received[r] = <<>>
      BY <2>2 DEF IInv, Types, Answered
    <3>2. Len(Reply(r)') \in Nat
      BY ReplyUnits, LenProperties, NbdServiceAssumption DEF IInv
    <3> QED
      BY <3>1, <3>2 DEF Got
  <2> QED
    BY <2>1, <2>2
<1>6. Reads \subseteq Request
  BY NbdServiceAssumption
<1>7. \A r \in Reads : op'[r] = "done" => Len(received'[r]) = Length(r)
  BY <1>6 DEF InStep
<1>8. \A r \in Request : Incomplete(r)' => Busy(r)' /\ \E p \in Int : Begins(r, p)'
  BY <1>2, <1>4 DEF InStep
<1>9. parsing' = None /\ replies' # <<>> => IsHeader(replies'[1])
  BY DEF InStep
<1> QED
  BY <1>3, <1>5, <1>7, <1>8, <1>9 DEF InStep

\* Two replies do not overlap.
LEMMA Disjoint ==
  ASSUME IInv, InStep, NEW r \in Request, NEW s \in Request,
         NEW p \in Int, NEW q \in Int, Begins(r, p), Begins(s, q),
         p <= q, q < p + sent[r]
  PROVE  r = s
<1>1. /\ sent[r] > 0 /\ sent[r] \in Nat
      /\ p <= 0 => parsing = {r}
      /\ p > 0 => HeaderAt(r, p)
      /\ q <= 0 => parsing = {s}
      /\ q > 0 => HeaderAt(s, q)
  BY Begun
<1>2. Whole(r, p)
  BY DEF InStep
<1>3. CASE q <= 0
  <2>1. parsing = {s} /\ parsing = {r}
    BY <1>1, <1>3
  <2> QED
    BY <2>1
<1>4. CASE q > 0 /\ p = q
  <2>1. <<"header", r>> = <<"header", s>>
    BY <1>1, <1>4 DEF HeaderAt
  <2> QED
    BY <2>1
<1>5. CASE q > 0 /\ p < q
  <2> DEFINE j == q - p + 1
  <2>1. j \in 2..sent[r] /\ j \in 1..sent[r] /\ p + j > 1 /\ p + j - 1 = q
    BY <1>1, <1>5
  <2> HIDE DEF j
  <2>2. replies[q] = Reply(r)[j]
    BY <1>2, <2>1 DEF Whole
  <2>3. Len(Reply(r)) \in Nat /\ sent[r] <= Len(Reply(r))
    BY ReplyUnits, LenProperties DEF IInv, InStep
  <2>4. ~IsHeader(Reply(r)[j])
    <3>1. j \in 2..Len(Reply(r))
      BY <1>1, <2>1, <2>3
    <3> QED
      BY <3>1, ReplyUnits DEF IInv
  <2>5. IsHeader(replies[q])
    BY <1>1, <1>5 DEF HeaderAt, IsHeader
  <2> QED
    BY <2>2, <2>4, <2>5
<1> QED
  BY <1>3, <1>4, <1>5

\* While nothing is mixed, only the worker that writes is in a reply.
LEMMA OnlyWriter ==
  ASSUME IInv, InStep, NEW w \in Worker, NEW s \in cur[w], Mix(w), ~mixed',
         NEW r \in Request, Incomplete(r)
  PROVE  r = s
<1>1. PICK v \in Worker : r \in cur[v]
  BY DEF InStep, Busy
<1>2. v = w
  BY <1>1 DEF Mix, Incomplete
<1> QED
  BY <1>1, <1>2, InHand

\* A worker begins a reply after the last one in the stream.
LEMMA NewReply ==
  ASSUME IInv, IInv', InStep, ~mixed', NEW w \in Worker,
         NEW s \in Request, NEW n \in Nat, Writes(w, s, n), sent[s] = 0
  PROVE  InStep'
<1>0. PICK L \in Nat : L = Len(replies)
  BY LenProperties DEF IInv, Types, TypeOK
<1>1. /\ s \in cur[w] /\ Mix(w) /\ n = 1
      /\ \A r \in Request : sent'[r] = IF r = s THEN 1 ELSE sent[r]
      /\ L = Len(replies) /\ Len(replies') = L + 1
      /\ \A j \in 1..L : replies'[j] = replies[j]
      /\ UNCHANGED <<op, parsing, received, broken, m_data, cur>>
  BY <1>0 DEF Writes, IInv, Types, TypeOK, kernelVars, dataVars
<1>2. /\ \A r \in Request : Reply(r)' = Reply(r) /\ Len(Reply(r)) \in Nat
      /\ \A r \in Request : sent[r] \in Nat
      /\ Reply(s)[1] = <<"header", s>> /\ Len(Reply(s)) >= 1
  <2>1. \A r \in Request : Reply(r)' = Reply(r)
    BY <1>1 DEF Reply
  <2>2. /\ \A r \in Request : Reply(r) \in Seq(Unit)
        /\ Reply(s)[1] = <<"header", s>>
        /\ Len(Reply(s)) = IF s \in Reads THEN Length(s) + 1 ELSE 1
    BY ReplyUnits DEF IInv
  <2>3. \A r \in Request : Len(Reply(r)) \in Nat /\ sent[r] \in Nat
    BY <2>2, LenProperties DEF IInv, Types
  <2> QED
    BY <2>1, <2>2, <2>3, NbdServiceAssumption
<1>3. replies'[L + 1] = <<"header", s>>
  <2>1. 1 \in (sent[s] + 1) .. n /\ L + 1 - sent[s] = L + 1
    BY <1>1
  <2>2. replies'[L + 1 - sent[s]] = Reply(s)[1]
    BY <1>0, <2>1 DEF Writes
  <2> QED
    BY <1>2, <2>1, <2>2
<1>4. \A r \in Request : \A p \in Int :
        Begins(r, p)' <=> Begins(r, p) \/ (r = s /\ p = L + 1)
  <2>1. \A r \in Request, m \in Int :
          HeaderAt(r, m)' <=> HeaderAt(r, m) \/ (r = s /\ m = L + 1)
    BY <1>0, WriteHeaders
  <2> QED
    BY <1>1, <2>1 DEF Begins
<1>5. \A r \in Request : Incomplete(r) => r = s
  BY <1>1, OnlyWriter
<1>6. ASSUME NEW r \in Request, NEW p \in Int, Begins(r, p)
      PROVE  Whole(r, p)'
  <2>1. r # s /\ sent[r] > 0 /\ Whole(r, p) /\ ~(sent[r] < Len(Reply(r)))
    BY <1>1, <1>5, <1>6, Begun DEF InStep, Incomplete
  <2>2. /\ p + sent[r] \in 1 .. L + 1
        /\ \A j \in 1..sent[r] : p + j > 1 => replies[p + j - 1] = Reply(r)[j]
        /\ p + sent[r] <= L => IsHeader(replies[p + sent[r]])
        /\ sent'[r] = sent[r]
    BY <1>1, <2>1 DEF Whole
  <2>3. \A j \in 1..sent[r] : p + j > 1 => replies'[p + j - 1] = Reply(r)[j]
    <3> SUFFICES ASSUME NEW j \in 1..sent[r], p + j > 1
                 PROVE  replies'[p + j - 1] = Reply(r)[j]
      OBVIOUS
    <3>1. p + j - 1 \in 1..L
      BY <1>1, <1>2, <2>2
    <3> QED
      BY <1>1, <2>2, <3>1
  <2>4. p + sent[r] <= L + 1 => IsHeader(replies'[p + sent[r]])
    <3>1. CASE p + sent[r] = L + 1
      BY <1>3, <3>1 DEF IsHeader
    <3>2. CASE p + sent[r] # L + 1
      <4>1. p + sent[r] \in 1..L
        BY <1>1, <1>2, <2>2, <3>2
      <4> QED
        BY <1>1, <2>2, <4>1
    <3> QED
      BY <3>1, <3>2
  <2>5. p + sent[r] \in 1 .. L + 1 + 1
    BY <1>1, <2>2
  <2> QED
    BY <1>1, <1>2, <2>1, <2>2, <2>3, <2>4, <2>5 DEF Whole
<1>7. Whole(s, L + 1)'
  <2>1. \A j \in 1..1 : replies'[L + 1 + j - 1] = Reply(s)[j]
    BY <1>1, <1>2, <1>3
  <2> QED
    BY <1>1, <1>2, <2>1 DEF Whole
<1>8. \A r \in Request : \A p \in Int : Begins(r, p)' => Whole(r, p)'
  BY <1>4, <1>6, <1>7
<1>9. parsing' = None /\ replies' # <<>> => IsHeader(replies'[1])
  <2>1. CASE L = 0
    BY <1>3, <2>1 DEF IsHeader
  <2>2. CASE L > 0
    <3>1. replies # <<>> /\ 1 \in 1..L
      BY <1>1, <2>2
    <3> QED
      BY <1>1, <3>1 DEF InStep
  <2> QED
    BY <1>1, <2>1, <2>2
<1>10. \A r \in Request : Incomplete(r)' => Busy(r)' /\ \E p \in Int : Begins(r, p)'
  <2> SUFFICES ASSUME NEW r \in Request, Incomplete(r)'
               PROVE  Busy(r)' /\ \E p \in Int : Begins(r, p)'
    OBVIOUS
  <2>1. r = s
    BY <1>1, <1>2, <1>5 DEF Incomplete
  <2>2. L + 1 \in Int /\ Begins(s, L + 1)'
    BY <1>1, <1>4
  <2> QED
    BY <1>1, <2>1, <2>2 DEF Busy
<1>11. \A r \in Request : Got(r)' /\ (sent[r] <= Len(Reply(r)))'
  BY <1>1, <1>2 DEF InStep, Got
<1> QED
  BY <1>1, <1>8, <1>9, <1>10, <1>11 DEF InStep

\* A worker goes on with the last reply in the stream.
LEMMA MoreOfReply ==
  ASSUME IInv, IInv', InStep, ~mixed', NEW w \in Worker,
         NEW s \in Request, NEW n \in Nat, Writes(w, s, n), sent[s] > 0
  PROVE  InStep'
<1>0. PICK L \in Nat, k \in Nat : L = Len(replies) /\ k = sent[s]
  BY LenProperties DEF IInv, Types, TypeOK
<1>1. /\ s \in cur[w] /\ Mix(w) /\ L = Len(replies)
      /\ \A r \in Request : sent'[r] = IF r = s THEN n ELSE sent[r]
      /\ UNCHANGED <<op, parsing, received, broken, m_data, cur>>
  BY <1>0 DEF Writes, IInv, Types, TypeOK, kernelVars, dataVars
<1>len. /\ k > 0 /\ k < n /\ n <= Len(Reply(s)) /\ Len(Reply(s)) \in Nat
        /\ Len(replies') = L + n - k /\ sent[s] = k
  <2>1. n \in (k + 1) .. Len(Reply(s)) /\ Len(replies') = L + n - k
    BY <1>0 DEF Writes
  <2>2. Len(Reply(s)) \in Nat
    BY ReplyUnits, LenProperties DEF IInv
  <2> QED
    BY <1>0, <2>1, <2>2
<1>units. /\ \A j \in 1..L : replies'[j] = replies[j]
          /\ \A j \in (k + 1) .. n : replies'[L + j - k] = Reply(s)[j]
  BY <1>0 DEF Writes
<1>2. /\ \A r \in Request : Reply(r)' = Reply(r) /\ Len(Reply(r)) \in Nat
      /\ \A r \in Request : sent[r] \in Nat
  BY <1>1, ReplyUnits, LenProperties DEF Reply, IInv, Types
<1>3. Incomplete(s)
  <2>1. sent[s] < Len(Reply(s))
    BY <1>len
  <2> QED
    BY <2>1 DEF Incomplete
<1>4. \A r \in Request : \A p \in Int : Begins(r, p)' <=> Begins(r, p)
  <2>1. \A r \in Request, m \in Int : HeaderAt(r, m)' <=> HeaderAt(r, m)
    BY WriteHeaders
  <2> QED
    BY <1>1, <2>1 DEF Begins
<1>5. \A r \in Request : Incomplete(r) => r = s
  BY <1>1, OnlyWriter
<1>6. PICK q \in Int : Begins(s, q)
  BY <1>3 DEF InStep
<1>7. \A p \in Int : Begins(s, p) => Whole(s, p) /\ p + k = L + 1
  BY <1>0, <1>3 DEF InStep, Whole, Incomplete
<1>8. ASSUME NEW p \in Int, Begins(s, p) PROVE Whole(s, p)'
  <2>1. p + k = L + 1
    BY <1>7, <1>8
  <2>2. \A j \in 1..n : p + j > 1 => replies'[p + j - 1] = Reply(s)[j]
    <3> SUFFICES ASSUME NEW j \in 1..n, p + j > 1
                 PROVE  replies'[p + j - 1] = Reply(s)[j]
      OBVIOUS
    <3>1. CASE j <= k
      <4>1. j \in 1..k /\ p + j - 1 \in 1..L
        BY <2>1, <3>1
      <4>2. replies[p + j - 1] = Reply(s)[j]
        BY <1>7, <1>8, <1>len, <4>1 DEF Whole
      <4> QED
        BY <1>units, <4>1, <4>2
    <3>2. CASE j > k
      <4>1. j \in (k + 1) .. n /\ p + j - 1 = L + j - k
        BY <2>1, <3>2
      <4> QED
        BY <1>units, <4>1
    <3> QED
      BY <3>1, <3>2
  <2>3. p + n = Len(replies') + 1 /\ Len(replies') \in Nat
    BY <1>len, <2>1
  <2>4. sent'[s] = n /\ Reply(s)' = Reply(s)
    BY <1>1, <1>2
  <2>5. p + n \in 1 .. Len(replies') + 1 /\ ~(p + n <= Len(replies'))
    BY <2>3
  <2> QED
    BY <2>2, <2>3, <2>4, <2>5 DEF Whole
<1>9. ASSUME NEW r \in Request, r # s, NEW p \in Int, Begins(r, p)
      PROVE  Whole(r, p)'
  <2>1. sent[r] > 0 /\ Whole(r, p) /\ ~(sent[r] < Len(Reply(r)))
    BY <1>5, <1>9, Begun DEF InStep, Incomplete
  <2>2. /\ p + sent[r] \in 1 .. L + 1
        /\ \A j \in 1..sent[r] : p + j > 1 => replies[p + j - 1] = Reply(r)[j]
        /\ p + sent[r] <= L => IsHeader(replies[p + sent[r]])
        /\ sent'[r] = sent[r]
    BY <1>1, <1>9, <2>1 DEF Whole
  <2>3. p + sent[r] # L + 1
    <3> SUFFICES ASSUME p + sent[r] = L + 1 PROVE FALSE
      OBVIOUS
    <3>1. /\ q + k = L + 1 /\ sent[s] = k /\ k > 0
          /\ sent[r] \in Nat /\ sent[r] > 0
      BY <1>2, <1>6, <1>7, <1>len, <2>1
    <3>2. CASE p <= q
      <4>1. q < p + sent[r]
        BY <3>1
      <4> QED
        BY <1>6, <1>9, <3>2, <4>1, Disjoint
    <3>3. CASE q <= p
      <4>1. p < q + sent[s]
        BY <3>1
      <4> QED
        BY <1>6, <1>9, <3>3, <4>1, Disjoint
    <3> QED
      BY <3>2, <3>3
  <2>4. p + sent[r] \in 1..L /\ L < Len(replies')
    BY <1>len, <2>2, <2>3
  <2>5. IsHeader(replies'[p + sent[r]])
    BY <1>units, <2>2, <2>4
  <2>6. \A j \in 1..sent[r] : p + j > 1 => replies'[p + j - 1] = Reply(r)[j]
    <3> SUFFICES ASSUME NEW j \in 1..sent[r], p + j > 1
                 PROVE  replies'[p + j - 1] = Reply(r)[j]
      OBVIOUS
    <3>1. sent[r] \in Nat /\ p + sent[r] <= L + 1
      BY <1>2, <2>2
    <3>2. p + j - 1 \in 1..L
      BY <3>1
    <3> QED
      BY <1>units, <2>2, <3>2
  <2>7. p + sent[r] \in 1 .. Len(replies') + 1
    BY <1>len, <2>4
  <2> QED
    BY <1>2, <2>1, <2>2, <2>5, <2>6, <2>7 DEF Whole
<1>10. \A r \in Request : \A p \in Int : Begins(r, p)' => Whole(r, p)'
  BY <1>4, <1>8, <1>9
<1>11. parsing' = None /\ replies' # <<>> => IsHeader(replies'[1])
  <2> SUFFICES ASSUME parsing = {} PROVE IsHeader(replies'[1])
    BY <1>1 DEF None
  <2>1. HeaderAt(s, q)
    BY <1>6 DEF Begins
  <2>2. 1 \in 1..L /\ replies # <<>>
    BY <1>1, <2>1 DEF HeaderAt
  <2> QED
    BY <1>1, <1>units, <2>2 DEF InStep, None
<1>12. \A r \in Request : Incomplete(r)' => Busy(r)' /\ \E p \in Int : Begins(r, p)'
  <2> SUFFICES ASSUME NEW r \in Request, Incomplete(r)'
               PROVE  Busy(r)' /\ \E p \in Int : Begins(r, p)'
    OBVIOUS
  <2>1. r # s => Incomplete(r)
    BY <1>1, <1>2 DEF Incomplete
  <2>2. Begins(s, q)'
    BY <1>4, <1>6
  <2> QED
    BY <1>1, <1>5, <2>1, <2>2 DEF Busy
<1>13. \A r \in Request : Got(r)' /\ (sent[r] <= Len(Reply(r)))'
  <2>1. \A r \in Request : Got(r)'
    BY <1>1, <1>2 DEF InStep, Got
  <2>2. n <= Len(Reply(s))
    BY <1>len
  <2>3. \A r \in Request : sent'[r] <= Len(Reply(r)')
    BY <1>1, <1>2, <2>2 DEF InStep
  <2> QED
    BY <2>1, <2>3
<1> QED
  BY <1>1, <1>10, <1>11, <1>12, <1>13 DEF InStep

\* The kernel takes a unit: a reply that it is not ahead of is still whole.
LEMMA WholeDrained ==
  ASSUME IInv, replies # <<>>, replies' = Tail(replies), UNCHANGED <<sent, m_data>>,
         NEW r \in Request, NEW p \in Int, Whole(r, p + 1), p + sent[r] >= 1
  PROVE  Whole(r, p)'
<1>1. /\ Len(replies) \in Nat \ {0} /\ Len(replies') = Len(replies) - 1
      /\ \A j \in 1..Len(replies') : replies'[j] = replies[j + 1]
  BY Drained
<1>2. Reply(r)' = Reply(r) /\ sent'[r] = sent[r] /\ sent[r] \in Nat
  BY DEF Reply, IInv, Types
<1>3. /\ (p + 1) + sent[r] \in 1 .. Len(replies) + 1
      /\ \A j \in 1..sent[r] : (p + 1) + j > 1 => replies[(p + 1) + j - 1] = Reply(r)[j]
      /\ sent[r] < Len(Reply(r)) => (p + 1) + sent[r] = Len(replies) + 1
      /\ (p + 1) + sent[r] <= Len(replies) => IsHeader(replies[(p + 1) + sent[r]])
  BY DEF Whole
<1>4. p + sent[r] \in 1 .. Len(replies') + 1
  BY <1>1, <1>2, <1>3
<1>5. sent[r] < Len(Reply(r)) => p + sent[r] = Len(replies') + 1
  BY <1>1, <1>2, <1>3
<1>6. ASSUME NEW j \in 1..sent[r], p + j > 1
      PROVE  replies'[p + j - 1] = Reply(r)[j]
  <2>1. /\ p + j - 1 \in 1..Len(replies') /\ (p + j - 1) + 1 = (p + 1) + j - 1
        /\ (p + 1) + j > 1
    BY <1>1, <1>2, <1>4, <1>6
  <2> QED
    BY <1>1, <1>3, <2>1
<1>7. ASSUME p + sent[r] <= Len(replies')
      PROVE  IsHeader(replies'[p + sent[r]])
  <2>1. /\ p + sent[r] \in 1..Len(replies')
        /\ (p + sent[r]) + 1 = (p + 1) + sent[r] /\ (p + 1) + sent[r] <= Len(replies)
    BY <1>1, <1>2, <1>4, <1>7
  <2> QED
    BY <1>1, <1>3, <2>1
<1> QED
  BY <1>2, <1>4, <1>5, <1>6, <1>7 DEF Whole

\* The kernel finds a header where it expects one.
LEMMA HeaderRead ==
  ASSUME IInv, IInv', InStep, HeaderIn
  PROVE  InStep'
<1>1. /\ replies' = Tail(replies) /\ replies # <<>> /\ parsing = {}
      /\ UNCHANGED <<received, sent, m_data, cur>>
  BY DEF HeaderIn, None, workVars, dataVars
<1>2. /\ Len(replies) \in Nat \ {0} /\ Len(replies') = Len(replies) - 1
      /\ Head(replies) = replies[1]
      /\ \A j \in 1..Len(replies') : replies'[j] = replies[j + 1]
      /\ \A r \in Request, m \in Int :
           HeaderAt(r, m)' <=> m > 0 /\ HeaderAt(r, m + 1)
  BY <1>1, Drained
<1>3. IsHeader(replies[1]) /\ replies[1] \in Unit
  <2>1. replies \in Seq(Unit)
    BY DEF IInv, Types, TypeOK
  <2> QED
    BY <1>1, <1>2, <2>1, HeadTailProperties DEF InStep, None
<1>4. PICK s \in Request : replies[1] = <<"header", s>>
  BY <1>3 DEF Unit, IsHeader
<1>5. /\ UNCHANGED broken
      /\ \/ /\ s \in Reads /\ Length(s) > 0
            /\ parsing' = {s} /\ UNCHANGED op
         \/ /\ ~(s \in Reads /\ Length(s) > 0)
            /\ op' = [op EXCEPT ![s] = "done"] /\ UNCHANGED parsing
  BY <1>2, <1>4 DEF HeaderIn
<1>6. /\ HeaderAt(s, 1) /\ Begins(s, 1) /\ Whole(s, 1)
      /\ sent[s] > 0 /\ sent[s] \in Nat /\ received[s] = <<>>
  <2>1. HeaderAt(s, 1)
    BY <1>2, <1>4 DEF HeaderAt
  <2>2. received[s] = <<>>
    BY <1>2, <2>1 DEF IInv, HeaderOnce
  <2>3. Begins(s, 1)
    BY <2>1 DEF Begins
  <2> QED
    BY <2>1, <2>2, <2>3, Begun DEF InStep
<1>7. \A r \in Request : Begins(r, 1) => r = s
  BY <1>1, <1>4 DEF Begins, HeaderAt
<1>8. /\ \A r \in Request : Reply(r)' = Reply(r)
      /\ \A r \in Request : sent[r] \in Nat
  BY <1>1 DEF Reply, IInv, Types
<1>9. \A r \in Request : \A p \in Int : Begins(r, p) => p > 0 /\ HeaderAt(r, p)
  BY <1>1 DEF Begins
<1>10. Len(received[s]) = 0
  BY <1>6
<1>11. \A r \in Request : \A p \in Int :
         Begins(r, p)' => p >= 0 /\ Begins(r, p + 1)
  <2> SUFFICES ASSUME NEW r \in Request, NEW p \in Int, Begins(r, p)'
               PROVE  p >= 0 /\ Begins(r, p + 1)
    OBVIOUS
  <2>1. CASE p > 0 /\ HeaderAt(r, p)'
    BY <1>2, <2>1 DEF Begins
  <2>2. CASE r \in parsing' /\ p = -Len(received'[r])
    <3>1. r = s /\ p = 0
      BY <1>1, <1>5, <1>10, <2>2
    <3> QED
      BY <1>6, <3>1
  <2> QED
    BY <2>1, <2>2 DEF Begins
<1>12. \A r \in Request : \A p \in Int : Begins(r, p)' => Whole(r, p)'
  <2> SUFFICES ASSUME NEW r \in Request, NEW p \in Int, Begins(r, p)'
               PROVE  Whole(r, p)'
    OBVIOUS
  <2>1. p >= 0 /\ Begins(r, p + 1) /\ p + 1 \in Int
    BY <1>11
  <2>2. Whole(r, p + 1) /\ sent[r] > 0
    BY <2>1, Begun DEF InStep
  <2>3. p + sent[r] >= 1
    BY <1>8, <2>1, <2>2
  <2> QED
    BY <1>1, <2>2, <2>3, WholeDrained
<1>13. sent[s] <= Len(Reply(s)) /\ (~(s \in Reads /\ Length(s) > 0) => sent[s] = 1)
  <2>1. /\ sent[s] <= Len(Reply(s))
        /\ Len(Reply(s)) = IF s \in Reads THEN Length(s) + 1 ELSE 1
        /\ Length(s) \in Nat
    BY ReplyUnits, NbdServiceAssumption DEF IInv, InStep
  <2> QED
    BY <1>6, <2>1
<1>14. parsing' = None /\ replies' # <<>> => IsHeader(replies'[1])
  <2> SUFFICES ASSUME parsing' = {}, replies' # <<>> PROVE IsHeader(replies'[1])
    BY DEF None
  <2>1. sent[s] = 1
    BY <1>5, <1>13
  <2>2. Len(replies') > 0
    BY <1>2, EmptySeq DEF IInv, Types, TypeOK
  <2>3. 1 \in 1..Len(replies') /\ 2 <= Len(replies)
    BY <1>2, <2>2
  <2>4. IsHeader(replies[2])
    BY <1>6, <2>1, <2>3 DEF Whole
  <2> QED
    BY <1>2, <2>3, <2>4
<1>15. ASSUME NEW r \in Request, Incomplete(r)'
       PROVE  Busy(r)' /\ \E p \in Int : Begins(r, p)'
  <2>1. Incomplete(r)
    BY <1>1, <1>8, <1>15 DEF Incomplete
  <2>2. PICK p \in Int : Begins(r, p)
    BY <2>1 DEF InStep
  <2>3. Busy(r)'
    BY <1>1, <2>1 DEF InStep, Busy
  <2>4. p > 0 /\ HeaderAt(r, p)
    BY <1>9, <2>2
  <2>5. CASE p = 1
    <3>1. r = s
      BY <1>7, <2>2, <2>5
    <3>2. s \in Reads /\ Length(s) > 0
      <4>1. sent[s] = 1 => ~Incomplete(s) \/ s \in Reads
        BY ReplyUnits DEF IInv, Incomplete
      <4>2. s \in Reads => Len(Reply(s)) = Length(s) + 1 /\ Length(s) \in Nat
        BY ReplyUnits, NbdServiceAssumption DEF IInv
      <4> QED
        BY <1>13, <2>1, <3>1, <4>1, <4>2 DEF Incomplete
    <3>3. s \in parsing' /\ 0 = -Len(received'[s])
      <4>1. s \in parsing'
        BY <1>5, <3>2
      <4>2. PICK k \in Int : k = Len(received'[s]) /\ k = 0
        BY <1>1, <1>10
      <4>3. 0 = -k
        <5>1. -k = 0 - k
          OBVIOUS
        <5> QED
          BY <4>2, <5>1
      <4> QED
        BY <4>1, <4>2, <4>3
    <3> QED
      BY <2>3, <3>1, <3>3 DEF Begins
  <2>6. CASE p # 1
    <3>1. p - 1 > 0 /\ p - 1 \in Int /\ (p - 1) + 1 = p
      BY <2>4, <2>6
    <3>2. HeaderAt(r, p - 1)'
      BY <1>2, <2>4, <3>1
    <3> QED
      BY <2>3, <3>1, <3>2 DEF Begins
  <2> QED
    BY <2>5, <2>6
<1>16. \A r \in Request : Got(r)' /\ (sent[r] <= Len(Reply(r)))'
  BY <1>1, <1>8 DEF InStep, Got
<1>17. \A r \in Reads : op'[r] = "done" => Len(received'[r]) = Length(r)
  <2> SUFFICES ASSUME NEW r \in Reads, op'[r] = "done"
               PROVE  Len(received[r]) = Length(r)
    BY <1>1
  <2>1. r \in Request /\ Length(r) \in Nat
    BY NbdServiceAssumption
  <2>2. op \in [Request -> {"new", "open", "done"}]
    BY DEF IInv, Types, TypeOK
  <2>3. CASE r = s
    BY <1>5, <1>10, <2>1, <2>3 DEF InStep
  <2>4. CASE r # s
    BY <1>5, <2>1, <2>2, <2>4 DEF InStep
  <2> QED
    BY <2>3, <2>4
<1> QED
  BY <1>5, <1>12, <1>14, <1>15, <1>16, <1>17 DEF InStep

\* The kernel finds the READ's own data where it expects it.
LEMMA DataRead ==
  ASSUME IInv, IInv', InStep, DataIn
  PROVE  InStep'
<1>1. PICK s \in parsing :
        /\ replies' = Tail(replies) /\ replies # <<>>
        /\ received' = [received EXCEPT ![s] = Append(@, Head(replies))]
        /\ \/ /\ Len(received[s]) + 1 = Length(s)
              /\ parsing' = None /\ op' = [op EXCEPT ![s] = "done"]
           \/ /\ Len(received[s]) + 1 # Length(s)
              /\ UNCHANGED <<parsing, op>>
        /\ UNCHANGED <<sent, m_data, cur, broken>>
  BY DEF DataIn, workVars, dataVars
<1>2. s \in Request /\ s \in Reads /\ parsing = {s}
  BY Parses
<1>3. PICK k \in Nat : k = Len(received[s])
  BY <1>2, LenProperties DEF IInv, Types
<1>4. /\ Len(replies) \in Nat \ {0} /\ Len(replies') = Len(replies) - 1
      /\ Head(replies) = replies[1]
      /\ \A j \in 1..Len(replies') : replies'[j] = replies[j + 1]
      /\ \A r \in Request, m \in Int :
           HeaderAt(r, m)' <=> m > 0 /\ HeaderAt(r, m + 1)
  BY <1>1, Drained
<1>5. /\ \A r \in Request : Reply(r)' = Reply(r)
      /\ \A r \in Request : sent[r] \in Nat
  BY <1>1 DEF Reply, IInv, Types
<1>6. /\ op[s] = "open" /\ k < Length(s) /\ Length(s) \in Nat
      /\ Len(Reply(s)) = Length(s) + 1 /\ sent[s] <= Length(s) + 1
  <2>1. op[s] = "open" /\ k < Length(s)
    BY <1>3 DEF IInv, Answered
  <2>2. Len(Reply(s)) = Length(s) + 1
    BY <1>2, ReplyUnits DEF IInv
  <2> QED
    BY <1>2, <2>1, <2>2, NbdServiceAssumption DEF InStep
<1>7. -k \in Int /\ Begins(s, -k) /\ Whole(s, -k)
  BY <1>2, <1>3 DEF Begins, InStep
<1>8. k + 2 <= sent[s]
  <2>1. -k + sent[s] \in 1 .. Len(replies) + 1
    BY <1>7 DEF Whole
  <2>2. sent[s] < Len(Reply(s)) => -k + sent[s] = Len(replies) + 1
    BY <1>7 DEF Whole
  <2>3. /\ sent[s] \in Nat /\ Len(replies) \in Nat \ {0}
        /\ k < Length(s) /\ Length(s) \in Nat /\ Len(Reply(s)) = Length(s) + 1
    BY <1>2, <1>4, <1>5, <1>6
  <2> QED
    BY <2>1, <2>2, <2>3
<1>9. replies[1] = Reply(s)[k + 2]
  <2>1. k + 2 \in 1..sent[s] /\ -k + (k + 2) > 1 /\ -k + (k + 2) - 1 = 1
    BY <1>2, <1>5, <1>8
  <2>2. replies[-k + (k + 2) - 1] = Reply(s)[k + 2]
    BY <1>7, <2>1 DEF Whole
  <2> QED
    BY <2>1, <2>2
<1>10. ~IsHeader(replies[1])
  <2>1. k + 2 \in 2..Len(Reply(s))
    BY <1>2, <1>5, <1>6, <1>8
  <2> QED
    BY <1>2, <1>9, <2>1, ReplyUnits DEF IInv
<1>11. /\ received[s] \in Seq(Unit) /\ Len(received'[s]) = k + 1
       /\ \A j \in 1..k : received'[s][j] = received[s][j]
       /\ received'[s][k + 1] = replies[1]
       /\ \A r \in Request : r # s => received'[r] = received[r]
  <2>1. received \in [Request -> Seq(Unit)] /\ replies \in Seq(Unit)
    BY DEF IInv, Types, TypeOK
  <2>2. Head(replies) \in Unit /\ received[s] \in Seq(Unit)
    BY <1>1, <1>2, <2>1, HeadTailProperties
  <2>3. received'[s] = Append(received[s], replies[1])
    BY <1>1, <1>2, <1>4, <2>1
  <2>4. \A r \in Request : r # s => received'[r] = received[r]
    BY <1>1, <2>1
  <2> QED
    BY <1>3, <1>4, <2>2, <2>3, <2>4, AppendProperties
<1>12. \A r \in Request : \A p \in Int :
         Begins(r, p)' => /\ Begins(r, p + 1)
                          /\ p > 0 \/ (r = s /\ p = -(k + 1))
  <2> SUFFICES ASSUME NEW r \in Request, NEW p \in Int, Begins(r, p)'
               PROVE  Begins(r, p + 1) /\ (p > 0 \/ (r = s /\ p = -(k + 1)))
    OBVIOUS
  <2>1. CASE p > 0 /\ HeaderAt(r, p)'
    BY <1>4, <2>1 DEF Begins
  <2>2. CASE r \in parsing' /\ p = -Len(received'[r])
    <3>1. r = s
      BY <1>1, <1>2, <2>2 DEF None
    <3>2. p = -(k + 1) /\ p + 1 = -k
      BY <1>11, <2>2, <3>1
    <3> QED
      BY <1>7, <3>1, <3>2
  <2> QED
    BY <2>1, <2>2 DEF Begins
<1>13. \A r \in Request : \A p \in Int : Begins(r, p)' => Whole(r, p)'
  <2> SUFFICES ASSUME NEW r \in Request, NEW p \in Int, Begins(r, p)'
               PROVE  Whole(r, p)'
    OBVIOUS
  <2>1. Begins(r, p + 1) /\ p + 1 \in Int /\ (p > 0 \/ (r = s /\ p = -(k + 1)))
    BY <1>12
  <2>2. Whole(r, p + 1) /\ sent[r] > 0
    BY <2>1, Begun DEF InStep
  <2>3. p + sent[r] >= 1
    BY <1>5, <1>8, <2>1, <2>2
  <2> QED
    BY <1>1, <2>2, <2>3, WholeDrained
<1>14. parsing' = None /\ replies' # <<>> => IsHeader(replies'[1])
  <2> SUFFICES ASSUME parsing' = {}, replies' # <<>> PROVE IsHeader(replies'[1])
    BY DEF None
  <2>1. k + 1 = Length(s)
    BY <1>1, <1>2, <1>3
  <2>2. -k + sent[s] = 2
    BY <1>2, <1>5, <1>6, <1>8, <2>1
  <2>3. Len(replies') > 0
    BY <1>4, EmptySeq DEF IInv, Types, TypeOK
  <2>4. 1 \in 1..Len(replies') /\ 2 <= Len(replies)
    BY <1>4, <2>3
  <2>5. IsHeader(replies[2])
    BY <1>7, <2>2, <2>4 DEF Whole
  <2> QED
    BY <1>4, <2>4, <2>5
<1>15. ASSUME NEW r \in Request, Incomplete(r)'
       PROVE  Busy(r)' /\ \E p \in Int : Begins(r, p)'
  <2>1. Incomplete(r)
    BY <1>1, <1>5, <1>15 DEF Incomplete
  <2>2. PICK p \in Int : Begins(r, p)
    BY <2>1 DEF InStep
  <2>3. Busy(r)'
    BY <1>1, <2>1 DEF InStep, Busy
  <2>4. CASE p > 0 /\ HeaderAt(r, p)
    <3>1. p # 1
      BY <1>10, <2>4 DEF HeaderAt, IsHeader
    <3>2. p - 1 > 0 /\ p - 1 \in Int /\ (p - 1) + 1 = p
      BY <2>4, <3>1
    <3>3. HeaderAt(r, p - 1)'
      BY <1>4, <2>4, <3>2
    <3> QED
      BY <2>3, <3>2, <3>3 DEF Begins
  <2>5. CASE r \in parsing /\ p = -Len(received[r])
    <3>1. r = s
      BY <1>2, <2>5
    <3>2. k + 1 # Length(s)
      BY <1>5, <1>6, <1>8, <2>1, <3>1 DEF Incomplete
    <3>3. s \in parsing'
      BY <1>1, <1>2, <1>3, <3>2
    <3>4. -(k + 1) \in Int /\ -(k + 1) = -Len(received'[s])
      BY <1>11
    <3>5. Begins(s, -(k + 1))'
      BY <3>3, <3>4 DEF Begins
    <3> QED
      BY <2>3, <3>1, <3>4, <3>5
  <2> QED
    BY <2>2, <2>4, <2>5 DEF Begins
<1>16. \A r \in Request : Got(r)'
  <2> TAKE r \in Request
  <2>1. CASE r # s
    BY <1>5, <1>11, <2>1 DEF InStep, Got
  <2>2. CASE r = s
    <3>1. ASSUME NEW j \in 1 .. k + 1
          PROVE  received'[s][j] = Reply(s)[j + 1]
      <4>1. CASE j = k + 1
        BY <1>9, <1>11, <4>1
      <4>2. CASE j # k + 1
        <5>1. j \in 1..k
          BY <4>2
        <5> QED
          BY <1>2, <1>3, <1>11, <5>1 DEF InStep, Got
      <4> QED
        BY <4>1, <4>2
    <3> QED
      BY <1>2, <1>5, <1>11, <2>2, <3>1 DEF Got
  <2> QED
    BY <2>1, <2>2
<1>17. \A r \in Request : (sent[r] <= Len(Reply(r)))'
  BY <1>1, <1>5 DEF InStep
<1>18. \A r \in Reads : op'[r] = "done" => Len(received'[r]) = Length(r)
  <2> SUFFICES ASSUME NEW r \in Reads, op'[r] = "done"
               PROVE  Len(received'[r]) = Length(r)
    OBVIOUS
  <2>1. r \in Request
    BY NbdServiceAssumption
  <2>2. op \in [Request -> {"new", "open", "done"}]
    BY DEF IInv, Types, TypeOK
  <2>3. CASE r = s
    BY <1>1, <1>3, <1>6, <1>11, <2>3
  <2>4. CASE r # s
    <3>1. op[r] = "done"
      BY <1>1, <2>1, <2>2, <2>4
    <3> QED
      BY <1>11, <2>1, <2>4, <3>1 DEF InStep
  <2> QED
    BY <2>3, <2>4
<1> QED
  BY <1>1, <1>13, <1>14, <1>15, <1>16, <1>17, <1>18 DEF InStep

\* A step that mixes nothing keeps the stream in step.
LEMMA NextInStep ==
  ASSUME IInv, IInv', InStep, [Next]_vars, ~mixed'
  PROVE  InStep'
<1> USE DEF kernelVars, workVars, dataVars
<1>1. ASSUME NEW s \in Request, Send(s) PROVE InStep'
  <2>1. /\ UNCHANGED <<replies, parsing, received, sent, broken, cur>>
        /\ \A r \in Request : op'[r] = "done" => op[r] = "done"
    BY <1>1 DEF Send, IInv, Types, TypeOK
  <2>2. \A r \in Request : Busy(r) => Busy(r)'
    BY <2>1 DEF Busy
  <2> QED
    BY <2>1, <2>2, QuietInStep
<1>2. CASE HeaderIn
  BY <1>2, HeaderRead
<1>3. CASE DataIn
  BY <1>3, DataRead
<1>4. ASSUME NEW w \in Worker, Write(w) PROVE InStep'
  <2>1. PICK s \in Request, n \in Nat : Writes(w, s, n)
    BY <1>4, WriteStep
  <2>2. sent[s] = 0 \/ sent[s] > 0
    BY DEF IInv, Types
  <2> QED
    BY <2>1, <2>2, NewReply, MoreOfReply
<1>5. ASSUME NEW w \in Worker, Finish(w) PROVE InStep'
  <2>1. PICK s \in cur[w] :
          /\ sent[s] = Len(Reply(s)) /\ cur' = [cur EXCEPT ![w] = None]
          /\ UNCHANGED <<op, replies, parsing, received, sent, broken>>
    BY <1>5 DEF Finish
  <2>2. s \in Request /\ cur[w] = {s} /\ ~Incomplete(s)
    <3>1. s \in Request /\ cur[w] = {s}
      BY InHand
    <3>2. sent[s] \in Nat
      BY <3>1 DEF IInv, Types
    <3> QED
      BY <2>1, <3>1, <3>2 DEF Incomplete
  <2>3. \A v \in Worker : v # w => cur'[v] = cur[v]
    BY <2>1 DEF IInv, Types, TypeOK
  <2>4. \A r \in Request : Incomplete(r) /\ Busy(r) => Busy(r)'
    BY <2>2, <2>3 DEF Busy
  <2> QED
    BY <2>1, <2>4, QuietInStep
<1>6. ASSUME NEW w \in Worker, Take(w) PROVE InStep'
  <2>1. /\ UNCHANGED <<op, replies, parsing, received, sent, broken>>
        /\ \A v \in Worker : v # w => cur'[v] = cur[v]
        /\ cur[w] = {}
    BY <1>6 DEF Take, IInv, Types, TypeOK, None
  <2>2. \A r \in Request : Busy(r) => Busy(r)'
    BY <2>1 DEF Busy
  <2> QED
    BY <2>1, <2>2, QuietInStep
<1>7. ASSUME UNCHANGED <<op, replies, parsing, received, sent, broken, cur>>
      PROVE  InStep'
  <2>1. \A r \in Request : Busy(r) => Busy(r)'
    BY <1>7 DEF Busy
  <2> QED
    BY <1>7, <2>1, QuietInStep
<1>8. ASSUME NEW w \in Worker, CopyByte(w) \/ Lock(w)
      PROVE  UNCHANGED <<op, replies, parsing, received, sent, broken, cur>>
  BY <1>8 DEF CopyByte, Lock
<1>9. CASE Receive \/ UNCHANGED vars
  <2>1. UNCHANGED <<op, replies, parsing, received, sent, broken, cur>>
    BY <1>9 DEF Receive, vars
  <2> QED
    BY <1>7, <2>1
<1> QED
  BY <1>1, <1>2, <1>3, <1>4, <1>5, <1>6, <1>7, <1>8, <1>9 DEF Next, Execute

\* What was mixed stays so.
LEMMA MixedStays == [Next]_vars /\ mixed => mixed'
BY DEF Next, vars, kernelVars, workVars, dataVars, Send, Receive, HeaderIn, DataIn,
       Execute, Take, CopyByte, Lock, Write, Mix, Finish

LEMMA StepInvariance == Spec => [](IInv /\ StepInv)
<1>1. Init => IInv /\ StepInv
  BY InitIInv, InitInStep DEF StepInv
<1>2. IInv /\ StepInv /\ [Next]_vars => (IInv /\ StepInv)'
  BY NextInv, NextInStep, MixedStays DEF StepInv
<1> QED
  BY <1>1, <1>2, PTL DEF Spec

\* In step, a completed READ has its own header and its own data.
LEMMA InStepIntact == IInv /\ InStep => RepliesIntact
<1> SUFFICES ASSUME IInv, InStep, NEW r \in Reads, op[r] = "done"
             PROVE  <<<<"header", r>>>> \o received[r] = Reply(r)
  BY DEF InStep, RepliesIntact
<1> DEFINE head == <<"header", r>>
           got == <<head>> \o received[r]
<1>1. r \in Request /\ Length(r) \in Nat
  BY NbdServiceAssumption
<1>2. /\ Reply(r) \in Seq(Unit) /\ Len(Reply(r)) = Length(r) + 1
      /\ Reply(r)[1] = head
  BY <1>1, ReplyUnits DEF IInv
<1>3. /\ received[r] \in Seq(Unit) /\ Len(received[r]) = Length(r)
      /\ \A j \in 1..Length(r) : received[r][j] = Reply(r)[j + 1]
  BY <1>1 DEF IInv, Types, InStep, Got
<1>4. head \in Unit
  BY <1>1 DEF Unit
<1> HIDE DEF head
<1>5. /\ got \in Seq(Unit) /\ Len(got) = Length(r) + 1 /\ got[1] = head
      /\ \A n \in 1..Length(r) : got[n + 1] = received[r][n]
  BY <1>3, <1>4, ConsStream
<1> HIDE DEF got
<1>6. \A j \in 1..(Length(r) + 1) : got[j] = Reply(r)[j]
  <2> TAKE j \in 1..(Length(r) + 1)
  <2>1. CASE j = 1
    BY <1>2, <1>5, <2>1
  <2>2. CASE j # 1
    <3>1. j - 1 \in 1..Length(r) /\ (j - 1) + 1 = j
      BY <1>1, <2>2
    <3> QED
      BY <1>3, <1>5, <3>1
  <2> QED
    BY <2>1, <2>2
<1>7. got = Reply(r)
  BY <1>2, <1>5, <1>6, SeqEqual
<1> QED
  BY <1>7 DEF got, head

(***************************************************************************)
(* Nothing but a mix harms the replies: whatever the requests, the workers *)
(* and the way that the socket splits the data, the kernel stays in step   *)
(* with the stream, and completes each READ with the data that was read    *)
(* for it, until a worker writes between two writes of another one.        *)
(***************************************************************************)
THEOREM WholeReplies == Spec => []WholeUnlessMixed
<1>1. IInv /\ StepInv => WholeUnlessMixed
  BY InStepIntact DEF StepInv, WholeUnlessMixed
<1> QED
  BY <1>1, StepInvariance, PTL

(***************************************************************************)
(* "protect with mutex" (netspace.cpp:150) is true of a pool of one        *)
(* thread, without any mutex: its replies are intact.  A run shows that it *)
(* is not of a pool of two.                                                *)
(***************************************************************************)
THEOREM OneWorkerIntact ==
  ASSUME \A v, w \in Worker : v = w
  PROVE  Spec => []RepliesIntact
<1>1. Init => ~mixed
  BY DEF Init
<1>2. ~mixed /\ [Next]_vars => ~mixed'
  BY DEF Next, vars, kernelVars, workVars, dataVars, Send, Receive, HeaderIn, DataIn,
         Execute, Take, CopyByte, Lock, Write, Mix, Finish
<1>3. ~mixed /\ WholeUnlessMixed => RepliesIntact
  BY DEF WholeUnlessMixed
<1> QED
  BY <1>1, <1>2, <1>3, WholeReplies, PTL DEF Spec

-----------------------------------------------------------------------------
(* What BlockDevice_proofs shows of a device holds of this one.            *)

DeviceProofs ==
  INSTANCE BlockDevice_proofs
    WITH applied <- [r \in Request |-> Offset(r) .. Offset(r) + i[r] - 1]

LEMMA DeviceFresh == DeviceProofs!Spec => []DeviceProofs!ReadsFresh
<1>1. /\ Reads \subseteq Request
      /\ \A r \in Request : Span(r) \subseteq Byte
      /\ Zero \notin Request
  BY NbdServiceAssumption DEF Span, Byte
<1> QED
  BY <1>1, DeviceProofs!ReadsSeeCompletedWrites, PTL

(***************************************************************************)
(* A READ whose data were copied sees the WRITEs whose replies the kernel  *)
(* had received when it sent the READ: of their bytes it returns neither   *)
(* the initial content nor what they had replaced, however many workers    *)
(* share RAMStorage without a lock (ram_storage.cpp:16-39).                *)
(***************************************************************************)
THEOREM ReadsSeeCompletedWrites == Spec => []Device!ReadsFresh
<1>1. DeviceProofs!ReadsFresh => Device!ReadsFresh
  BY DEF DeviceProofs!ReadsFresh, Device!ReadsFresh, DeviceProofs!Writes,
         Device!Writes
<1>2. Device!Init => DeviceProofs!Init
  BY DEF Device!Init, DeviceProofs!Init
<1>3. [Device!Next]_(Device!vars) => [DeviceProofs!Next]_(DeviceProofs!vars)
  BY DEF Device!Next, Device!vars, Device!Submit, Device!Complete,
         Device!ReadByte, Device!WriteByte, Device!Writes,
         DeviceProofs!Next, DeviceProofs!vars, DeviceProofs!Submit,
         DeviceProofs!Complete, DeviceProofs!ReadByte, DeviceProofs!WriteByte,
         DeviceProofs!Writes
<1> QED
  BY <1>1, <1>2, <1>3, ImplementsDevice, DeviceFresh, PTL
     DEF DeviceSpec, Device!Spec, DeviceProofs!Spec
=============================================================================
