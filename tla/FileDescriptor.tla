---------------------------- MODULE FileDescriptor ----------------------------
(***************************************************************************)
(* The class of src/file_descriptor.cpp as a value: the number that it     *)
(* holds and the count that its pointer leads to.  Assignment takes the    *)
(* other's number but keeps the own counter, so that no two of the         *)
(* objects that the program makes share one.                               *)
(***************************************************************************)
EXTENDS Integers

None == "none"   \* the number -1

\* The constructors, from a number or from open(path).
Make(fd) == [fd |-> fd, count |-> 1]

\* Faulty variant of Assigned: the temporary's counter is shared.
AssignedShared(o, fd) == [fd |-> fd, count |-> 2]

\* o = FileDescriptor(fd), after which the temporary is gone.
Assigned(o, fd) == [fd |-> fd, count |-> o.count - 1]

\* CloseFD calls close.
Closes(o) == o.count = 0 /\ o.fd # None

\* CloseFD throws, when the program's open descriptors are these.
CloseThrows(o, open) == Closes(o) /\ o.fd \notin open

\* The object after a CloseFD that does not throw.
AfterClose(o) == IF Closes(o) THEN [o EXCEPT !.fd = None] ELSE o

\* What CloseFD, or the destructor, leaves open.
OpenAfterClose(o, open) == IF Closes(o) THEN open \ {o.fd} ELSE open
=============================================================================
