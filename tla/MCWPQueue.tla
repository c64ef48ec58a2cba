------------------------------ MODULE MCWPQueue ------------------------------
(* Tasks as in i_task.hpp: two of priority MEDIUM, which the queue may give *)
(* in either order, and one of priority HIGH, which it gives first.         *)
EXTENDS WPQueue

CONSTANTS nbdTask, stdinTask, urgentTask

MEDIUM == 1
HIGH   == 2

MCPrio(task) == IF task = urgentTask THEN HIGH ELSE MEDIUM
=============================================================================
