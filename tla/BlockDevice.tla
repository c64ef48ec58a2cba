----------------------------- MODULE BlockDevice -----------------------------
(***************************************************************************)
(* What netspace promises to the kernel's block layer: a memory whose      *)
(* requests may be outstanding together and take effect byte by byte, in   *)
(* any order, but only between their submission and their completion.      *)
(* RAMStorage (src/ram_storage.cpp) has no lock, so a request is no more   *)
(* atomic than this.  NbdService implements this specification.            *)
(*                                                                         *)
(* A write r writes the value r to its bytes, so that a value read tells   *)
(* which write it comes from.                                              *)
(***************************************************************************)
CONSTANTS Request,  \* the requests, each used once
          Reads,    \* those of type READ; the others are WRITEs
          Byte,     \* the addresses
          Span(_),  \* the addresses from m_offset to m_offset + m_len - 1
          Zero      \* what a new storage holds

ASSUME BlockDeviceAssumption == /\ Reads \subseteq Request
                                /\ \A r \in Request : Span(r) \subseteq Byte
                                /\ Zero \notin Request

Writes == Request \ Reads

VARIABLES m_storage,  \* RAMStorage::m_storage
          m_data,     \* DriverData::m_data of each read
          applied,    \* the bytes that a request has read or written
          op,         \* "new", "open" once submitted, "done" once completed
          prec        \* history: the requests done when r was submitted

vars == <<m_storage, m_data, applied, op, prec>>

Value == Request \cup {Zero}

Init == /\ m_storage = [b \in Byte |-> Zero]
        /\ m_data = [r \in Reads |-> [b \in Byte |-> Zero]]
        /\ applied = [r \in Request |-> {}]
        /\ op = [r \in Request |-> "new"]
        /\ prec = [r \in Request |-> {}]

Submit(r) == /\ op[r] = "new"
             /\ op' = [op EXCEPT ![r] = "open"]
             /\ prec' = [prec EXCEPT ![r] = {q \in Request : op[q] = "done"}]
             /\ UNCHANGED <<m_storage, m_data, applied>>

\* Faulty variant of ReadByte: the address in place of its content.
ReadAddress(r, b) == /\ op[r] = "open"
                     /\ r \in Reads
                     /\ b \in Span(r) \ applied[r]
                     /\ m_data' = [m_data EXCEPT ![r][b] = b]
                     /\ applied' = [applied EXCEPT ![r] = @ \cup {b}]
                     /\ UNCHANGED <<m_storage, op, prec>>

ReadByte(r, b) == /\ op[r] = "open"
                  /\ r \in Reads
                  /\ b \in Span(r) \ applied[r]
                  /\ m_data' = [m_data EXCEPT ![r][b] = m_storage[b]]
                  /\ applied' = [applied EXCEPT ![r] = @ \cup {b}]
                  /\ UNCHANGED <<m_storage, op, prec>>

\* Faulty variant of WriteByte: a task that is executed a second time.
WriteAgain(r, b) == /\ op[r] # "new"
                    /\ r \in Writes
                    /\ b \in Span(r)
                    /\ m_storage' = [m_storage EXCEPT ![b] = r]
                    /\ applied' = [applied EXCEPT ![r] = @ \cup {b}]
                    /\ UNCHANGED <<m_data, op, prec>>

WriteByte(r, b) == /\ op[r] = "open"
                   /\ r \in Writes
                   /\ b \in Span(r) \ applied[r]
                   /\ m_storage' = [m_storage EXCEPT ![b] = r]
                   /\ applied' = [applied EXCEPT ![r] = @ \cup {b}]
                   /\ UNCHANGED <<m_data, op, prec>>

\* Faulty variant of Complete: the reply does not wait for the storage.
CompleteEarly(r) == /\ op[r] = "open"
                    /\ op' = [op EXCEPT ![r] = "done"]
                    /\ UNCHANGED <<m_storage, m_data, applied, prec>>

Complete(r) == /\ op[r] = "open"
               /\ applied[r] = Span(r)
               /\ op' = [op EXCEPT ![r] = "done"]
               /\ UNCHANGED <<m_storage, m_data, applied, prec>>

Next == \E r \in Request : \/ Submit(r) \/ Complete(r)
                           \/ \E b \in Byte : ReadByte(r, b) \/ WriteByte(r, b)

Spec == Init /\ [][Next]_vars

-----------------------------------------------------------------------------
\* The state has the types of the members; requests have their history.
TypeOK == /\ m_storage \in [Byte -> Value]
          /\ m_data \in [Reads -> [Byte -> Value]]
          /\ applied \in [Request -> SUBSET Byte]
          /\ op \in [Request -> {"new", "open", "done"}]
          /\ prec \in [Request -> SUBSET Request]

(***************************************************************************)
(* A byte that is written stays written: where a write has passed, storage *)
(* holds neither the initial value nor that of a write completed before it *)
(* was submitted.  It may hold that of a concurrent or a later write.      *)
(***************************************************************************)
StoreFresh ==
  \A w \in Writes, b \in Byte :
    b \in applied[w] => m_storage[b] \notin prec[w] \cup {Zero}

(***************************************************************************)
(* A read sees the writes completed before it was submitted: of a byte     *)
(* that such a write covers it returns neither the initial value nor one   *)
(* that this write had already replaced.                                   *)
(***************************************************************************)
ReadsFresh ==
  \A r \in Reads, b \in Byte, w \in Writes :
    b \in applied[r] /\ w \in prec[r] /\ b \in Span(w)
      => m_data[r][b] \notin prec[w] \cup {Zero}
=============================================================================
