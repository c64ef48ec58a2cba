-------------------------- MODULE BlockDevice_proofs --------------------------
(***************************************************************************)
(* For every set of requests, addresses and spans: a read returns what the *)
(* writes completed before it left, or something newer.                    *)
(***************************************************************************)
EXTENDS BlockDevice, TLAPS

\* A completed request has passed all its bytes, a new one none.
Progress == /\ \A r \in Request : op[r] = "done" => applied[r] = Span(r)
            /\ \A r \in Request : op[r] = "new" => applied[r] = {}

\* The requests that precede a submitted one are completed.
PrecDone == \A r \in Request : \A q \in prec[r] : op[q] = "done"

Inv == TypeOK /\ Progress /\ PrecDone /\ StoreFresh /\ ReadsFresh

\* A new device satisfies the invariant: nothing has been submitted.
LEMMA InitInv == Init => Inv
<1> SUFFICES ASSUME Init PROVE Inv
  OBVIOUS
<1>1. TypeOK
  BY DEF Init, TypeOK, Value
<1>2. \A r \in Request : applied[r] = {} /\ prec[r] = {} /\ op[r] = "new"
  BY DEF Init
<1>3. \A r \in Reads : applied[r] = {}
  BY <1>2, BlockDeviceAssumption
<1> QED
  BY <1>1, <1>2, <1>3 DEF Inv, Progress, PrecDone, StoreFresh, ReadsFresh,
                          Writes

\* Submitting a request starts its history and touches no data.
LEMMA SubmitInv == ASSUME Inv, NEW s \in Request, Submit(s) PROVE Inv'
<1> USE BlockDeviceAssumption DEF Inv, Writes
<1>1. TypeOK'
  BY DEF TypeOK, Submit
<1>2. applied[s] = {}
  BY DEF Submit, Progress
<1>3. \A r \in Request : /\ r # s => op'[r] = op[r] /\ prec'[r] = prec[r]
                         /\ op[r] = "done" => r # s
  BY DEF Submit, TypeOK
<1>4. op'[s] = "open" /\ \A q \in prec'[s] : q \in Request /\ op[q] = "done"
  BY DEF Submit, TypeOK
<1>5. Progress'
  BY <1>3, <1>4 DEF Progress, Submit
<1>6. PrecDone'
  BY <1>3, <1>4 DEF PrecDone, TypeOK
<1>7. StoreFresh'
  BY <1>2, <1>3 DEF StoreFresh, Submit
<1>8. ReadsFresh'
  <2> SUFFICES ASSUME NEW r \in Reads, NEW b \in Byte, NEW w \in Writes,
                      b \in applied[r], w \in prec'[r], b \in Span(w)
               PROVE  m_data[r][b] \notin prec'[w] \cup {Zero}
    BY DEF ReadsFresh, Submit
  <2>1. r # s
    BY <1>2
  <2>2. w \in prec[r] /\ w # s
    BY <1>3, <2>1 DEF PrecDone
  <2> QED BY <1>3, <2>2 DEF ReadsFresh
<1> QED BY <1>1, <1>5, <1>6, <1>7, <1>8

\* A read finds in the storage what StoreFresh says of the writes before it.
LEMMA ReadByteInv ==
  ASSUME Inv, NEW s \in Request, NEW a \in Byte, ReadByte(s, a) PROVE Inv'
<1> USE BlockDeviceAssumption DEF Inv, Writes
<1>1. TypeOK'
  BY DEF TypeOK, ReadByte
<1>2. \A r \in Request : r # s => applied'[r] = applied[r]
  BY DEF ReadByte, TypeOK
<1>3. s \in Reads /\ op[s] = "open" /\ applied'[s] = applied[s] \cup {a}
  BY DEF ReadByte, TypeOK
<1>4. Progress'
  BY <1>2, <1>3 DEF Progress, ReadByte
<1>5. PrecDone'
  BY DEF PrecDone, ReadByte
<1>6. StoreFresh'
  BY <1>2, <1>3 DEF StoreFresh, ReadByte
<1>7. ReadsFresh'
  <2> SUFFICES ASSUME NEW r \in Reads, NEW b \in Byte, NEW w \in Writes,
                      b \in applied'[r], w \in prec[r], b \in Span(w)
               PROVE  m_data'[r][b] \notin prec[w] \cup {Zero}
    BY DEF ReadsFresh, ReadByte
  <2>1. CASE r = s /\ b = a
    <3>1. m_data'[r][b] = m_storage[b]
      BY <2>1, <1>3 DEF ReadByte, TypeOK
    <3>2. b \in applied[w]
      BY DEF PrecDone, Progress
    <3> QED BY <3>1, <3>2 DEF StoreFresh
  <2>2. CASE ~(r = s /\ b = a)
    <3>1. b \in applied[r]
      BY <2>2, <1>2, <1>3
    <3>2. m_data'[r][b] = m_data[r][b]
      BY <2>2, <1>3 DEF ReadByte, TypeOK
    <3> QED BY <3>1, <3>2 DEF ReadsFresh
  <2> QED BY <2>1, <2>2
<1> QED BY <1>1, <1>4, <1>5, <1>6, <1>7

\* A write that is open precedes no request, so it makes no byte stale.
LEMMA WriteByteInv ==
  ASSUME Inv, NEW s \in Request, NEW a \in Byte, WriteByte(s, a) PROVE Inv'
<1> USE BlockDeviceAssumption DEF Inv, Writes
<1>1. TypeOK'
  BY DEF TypeOK, WriteByte, Value
<1>2. \A r \in Request : r # s => applied'[r] = applied[r]
  BY DEF WriteByte, TypeOK
<1>3. s \in Writes /\ op[s] = "open" /\ applied'[s] = applied[s] \cup {a}
  BY DEF WriteByte, TypeOK
<1>4. Progress'
  BY <1>2, <1>3 DEF Progress, WriteByte
<1>5. PrecDone'
  BY DEF PrecDone, WriteByte
<1>6. StoreFresh'
  <2> SUFFICES ASSUME NEW w \in Writes, NEW b \in Byte, b \in applied'[w]
               PROVE  m_storage'[b] \notin prec[w] \cup {Zero}
    BY DEF StoreFresh, WriteByte
  <2>1. CASE b = a
    <3>1. m_storage'[b] = s
      BY <2>1 DEF WriteByte, TypeOK
    <3> QED BY <3>1, <1>3 DEF PrecDone
  <2>2. CASE b # a
    <3>1. m_storage'[b] = m_storage[b] /\ b \in applied[w]
      BY <2>2, <1>2, <1>3 DEF WriteByte, TypeOK
    <3> QED BY <3>1 DEF StoreFresh
  <2> QED BY <2>1, <2>2
<1>7. ReadsFresh'
  BY <1>2, <1>3 DEF ReadsFresh, WriteByte
<1> QED BY <1>1, <1>4, <1>5, <1>6, <1>7

\* Completing a request changes only op: all its bytes were passed before.
LEMMA CompleteInv == ASSUME Inv, NEW s \in Request, Complete(s) PROVE Inv'
BY DEF Inv, Complete, TypeOK, Progress, PrecDone, StoreFresh, ReadsFresh

\* Every step preserves the invariant.
LEMMA NextInv == Inv /\ [Next]_vars => Inv'
<1> SUFFICES ASSUME Inv, [Next]_vars PROVE Inv'
  OBVIOUS
<1>1. CASE UNCHANGED vars
  BY <1>1 DEF vars, Inv, TypeOK, Progress, PrecDone, StoreFresh, ReadsFresh
<1> QED
  BY <1>1, SubmitInv, CompleteInv, ReadByteInv, WriteByteInv DEF Next

\* The invariant holds in every reachable state.
THEOREM Invariance == Spec => []Inv
BY InitInv, NextInv, PTL DEF Spec

\* The storage, the buffers and the history keep their types.
THEOREM TypeCorrect == Spec => []TypeOK
BY Invariance, PTL DEF Inv

(***************************************************************************)
(* Where a write has passed, the storage never holds a value that was      *)
(* complete before the write was submitted (ram_storage.cpp:32-43).        *)
(***************************************************************************)
THEOREM StorageStaysFresh == Spec => []StoreFresh
BY Invariance, PTL DEF Inv

(***************************************************************************)
(* A read returns the writes completed before it was submitted, or newer   *)
(* ones, though neither takes a lock (ram_storage.cpp:18-43).              *)
(***************************************************************************)
THEOREM ReadsSeeCompletedWrites == Spec => []ReadsFresh
BY Invariance, PTL DEF Inv
=============================================================================
