------------------------------- MODULE Plugins -------------------------------
(***************************************************************************)
(* Plug and play (framework/src/pnp.cpp, framework/include/msg_broker.hpp) *)
(* and the factory that its libraries extend (framework/include/           *)
(* factory.hpp), in the two programs that use them: a RequestEngine        *)
(* (framework/include/re_fw.hpp) and framework/test/pnp_test.cpp.  Main    *)
(* builds the loader, uses its factory, and destroys the loader; the       *)
(* monitor's thread reads the directory's events, notifies the loader, and *)
(* runs in dlopen the constructor of the library (framework/dynamic_libs/  *)
(* new_task.cpp).  Nothing is locked but GetInstance.                      *)
(*                                                                         *)
(* A library asks for Singleton<Factory<ITask, int, int>>, as pnp_test     *)
(* does; an engine asks for Singleton<Factory<IRETask, KEY, ARGS>>.  The   *)
(* singleton and the `added' functions below are those of the libraries,   *)
(* which main shares in pnp_test alone (linked with -rdynamic, as the      *)
(* framework's Makefile does): the engine's factory never has them.        *)
(*                                                                         *)
(* `fault' says which undefined behaviour or uncaught exception was        *)
(* reached; the model ends there.  An unlocked access that meets another   *)
(* one may also go well.  In pnp_test the "reactor" is main itself.        *)
(***************************************************************************)
EXTENDS Integers, Sequences, FiniteSets

CONSTANTS Library,   \* the files written to the directory, each once
          Loadable,  \* those that dlopen finds by the name without directory
          BufEvents  \* the events that one read of the buffer may return

ASSUME PluginsAssumption == /\ IsFiniteSet(Library) /\ Loadable \subseteq Library
                            /\ BufEvents \in Nat \ {0}

VARIABLES program,     \* "engine" or "pnp_test"
          main,        \* where main is
          monitor,     \* where the monitor's thread is
          open, watch, \* the inotify descriptor is open, the watch is there
          events,      \* the inotify queue
          written,     \* the files written so far
          subscribed,  \* m_subscribers holds the loader's m_call_back
          file,        \* the argument of NotifyAll
          handles,     \* m_handles; NULL for a dlopen that failed
          closing,     \* the handles closed by ~SOLoader
          mapped,      \* the libraries whose code is mapped
          adding,      \* a library is in Factory::Add
          added,       \* the libraries whose function is in its m_operations
          reactor,     \* "off", "on" or "ended"
          tasks,       \* the libraries of which tasks exist
          fault,
          at, tmp, s_instance, s_mutex, built, view, fenced, published,
          loaded, handed       \* as in Singleton, for the libraries' factory

S == INSTANCE Singleton WITH Thread <- {"main", "monitor"}

inotify   == <<open, watch, events>>
loader    == <<subscribed, handles, closing>>
factory   == <<mapped, adding, added>>
singleton == <<at, tmp, s_instance, s_mutex, built, view, fenced, published,
               loaded, handed>>
vars == <<program, main, monitor, inotify, written, loader, file, factory,
          reactor, tasks, fault, singleton>>

NULL == "NULL"

Init == /\ program \in {"engine", "pnp_test"}
        /\ main = IF program = "engine" THEN "factory" ELSE "start monitor"
        /\ monitor = "none"
        /\ open = FALSE /\ watch = FALSE /\ events = <<>> /\ written = {}
        /\ subscribed = FALSE /\ handles = <<>> /\ closing = 0
        /\ file = NULL
        /\ mapped = {} /\ adding = FALSE /\ added = {}
        /\ reactor = "off" /\ tasks = {} /\ fault = "none"
        /\ S!Init

Fault(f) == fault' = f
MainStep(from, to) == main = from /\ main' = to

-----------------------------------------------------------------------------
(* Construction.                                                           *)

\* The engine asks for its own factory, alone, before it has a loader;
\* pnp_test for the libraries' one, after.
GetFactory ==
  /\ main = "factory"
  /\ \/ program = "engine" /\ main' = "start monitor" /\ UNCHANGED singleton
     \/ program = "pnp_test" /\ S!Call("main") /\ UNCHANGED main
     \/ S!Return("main") /\ main' = "run"
  /\ UNCHANGED <<program, monitor, inotify, written, loader, file, factory,
                 reactor, tasks, fault>>

\* The new thread knows what main knows.
StartMonitor ==
  /\ MainStep("start monitor", "register")
  /\ monitor' = "watch" /\ open' = TRUE
  /\ view' = [view EXCEPT !["monitor"] = @ \cup view["main"]]
  /\ UNCHANGED <<program, watch, events, written, loader, file, factory,
                 reactor, tasks, fault, at, tmp, s_instance, s_mutex,
                 built, fenced, published, loaded, handed>>

\* The base's constructor registers an object that is not a CallBack yet.
Register == /\ MainStep("register", "bind")
            /\ subscribed' = TRUE
            /\ UNCHANGED <<program, monitor, inotify, written, handles, closing,
                           file, factory, reactor, tasks, fault, singleton>>

\* The rest of CallBack; then m_handles; then the end of the constructors.
Bind == /\ \/ MainStep("bind", "handles")
           \/ MainStep("handles",
                       IF program = "engine" THEN "config" ELSE "factory")
        /\ UNCHANGED <<program, monitor, inotify, written, loader, file, factory,
                       reactor, tasks, fault, singleton>>

\* ConfigTask writes the map of the engine's factory, and Run follows.
ConfigTask == /\ MainStep("config", "run")
              /\ UNCHANGED <<program, monitor, inotify, written, loader, file,
                             factory, reactor, tasks, fault, singleton>>

Run == /\ main = "run" /\ reactor = "off"
       /\ reactor' = "on"
       /\ UNCHANGED <<program, main, monitor, inotify, written, loader, file,
                      factory, tasks, fault, singleton>>

-----------------------------------------------------------------------------
(* The monitor's thread.                                                   *)

AddWatch == /\ monitor = "watch" /\ monitor' = "read"
            /\ watch' = open
            /\ UNCHANGED <<program, main, open, events, written, loader, file,
                           factory, reactor, tasks, fault, singleton>>

\* A read takes what fits; the events behind the first are lost.
Took(n) == /\ monitor' = "notify"
           /\ file' = Head(events)
           /\ events' = SubSeq(events, n + 1, Len(events))

\* Faulty variant of Read: the descriptor blocks, as a comment expects.
ReadBlocking ==
  /\ monitor = "read"
  /\ events # <<>>
  /\ Took(IF Len(events) < BufEvents THEN Len(events) ELSE BufEvents)
  /\ UNCHANGED <<program, main, open, watch, written, loader, factory, reactor,
                 tasks, fault, singleton>>

\* IN_NONBLOCK: without an event the read fails, and the thread ends.
Read ==
  /\ monitor = "read"
  /\ IF open /\ events # <<>>
       THEN Took(IF Len(events) < BufEvents THEN Len(events) ELSE BufEvents)
       ELSE monitor' = "ended" /\ UNCHANGED <<file, events>>
  /\ UNCHANGED <<program, main, open, watch, written, loader, factory, reactor,
                 tasks, fault, singleton>>

\* The dispatcher, then the call through the vtable of m_call_back.
NotifyAll ==
  /\ monitor = "notify"
  /\ IF main \in {"destroy pool", "gone"}
       THEN Fault("destroyed dispatcher") /\ UNCHANGED monitor
     ELSE IF ~subscribed THEN monitor' = "read" /\ UNCHANGED fault
     ELSE IF main \in {"bind", "unregister"}
       THEN Fault("pure virtual call") /\ UNCHANGED monitor
     ELSE monitor' = "dlopen" /\ UNCHANGED fault
  /\ UNCHANGED <<program, main, inotify, written, loader, file, factory,
                 reactor, tasks, singleton>>

\* SOLoader::Load up to the constructor of the library.
Dlopen == /\ monitor = "dlopen"
          /\ IF file \in Loadable
               THEN /\ mapped' = mapped \cup {file}
                    /\ monitor' = "factory"
                    /\ UNCHANGED file
               ELSE /\ file' = NULL
                    /\ monitor' = "push"
                    /\ UNCHANGED mapped
          /\ UNCHANGED <<program, main, inotify, written, loader, adding, added,
                         reactor, tasks, fault, singleton>>

\* my_init of the library, which asks for the same factory in both programs.
LibraryGetsFactory == /\ monitor = "factory"
                      /\ \/ S!Call("monitor") /\ UNCHANGED <<monitor, adding>>
                         \/ /\ S!Return("monitor")
                            /\ monitor' = "add" /\ adding' = TRUE
                      /\ UNCHANGED <<program, main, inotify, written, loader,
                                     file, mapped, added, reactor, tasks,
                                     fault>>

Add == /\ monitor = "add" /\ monitor' = "push"
       /\ added' = added \cup {file} /\ adding' = FALSE
       /\ UNCHANGED <<program, main, inotify, written, loader, file, mapped,
                      reactor, tasks, fault, singleton>>

\* m_handles.push_back, whatever has become of m_handles.
Push ==
  /\ monitor = "push" /\ monitor' = "read"
  /\ handles' = Append(handles, file)
  /\ \/ main \in {"config", "factory", "run", "dlclose", "free"} /\ UNCHANGED fault
     \/ main \in {"bind", "handles"} /\ Fault("m_handles is not constructed")
     \/ main = "dlclose" /\ Fault("m_handles changed under ~SOLoader")
     \/ main \in {"unregister", "rm watch", "close", "join", "destroy pool", "gone"}
        /\ Fault("m_handles is destroyed")
  /\ UNCHANGED <<program, main, inotify, written, subscribed, closing, file,
                 factory, reactor, tasks, singleton>>

Monitor == \/ AddWatch \/ Read \/ NotifyAll \/ Dlopen \/ LibraryGetsFactory
           \/ Add \/ Push

-----------------------------------------------------------------------------
(* The factory's users.                                                    *)

\* Factory::Create of main's factory, in the reactor, with a library's key.
Create(l) ==
  /\ reactor = "on"
  /\ \/ /\ program = "pnp_test" /\ adding
        /\ Fault("race on m_operations") /\ UNCHANGED tasks
     \/ /\ program = "engine" \/ l \notin added
        /\ Fault("out_of_range") /\ UNCHANGED tasks
     \/ /\ program = "pnp_test" /\ l \in added
        /\ IF l \in mapped
             THEN tasks' = tasks \cup {l} /\ UNCHANGED fault
             ELSE Fault("function of a closed library") /\ UNCHANGED tasks
  /\ UNCHANGED <<program, main, monitor, inotify, written, loader, file, factory,
                 reactor, singleton>>

\* A worker executes and destroys a task.
Execute(l) == /\ l \in tasks
              /\ IF l \in mapped THEN tasks' = tasks \ {l} /\ UNCHANGED fault
                                 ELSE Fault("task of a closed library")
                                      /\ UNCHANGED tasks
              /\ UNCHANGED <<program, main, monitor, inotify, written, loader,
                             file, factory, reactor, singleton>>

StopReactor == /\ reactor = "on" /\ reactor' = "ended"
               /\ UNCHANGED <<program, main, monitor, inotify, written, loader,
                              file, factory, tasks, fault, singleton>>

-----------------------------------------------------------------------------
(* Destruction: of the reactor's thread, SOLoader, DirMonitor, Dispatcher, *)
(* and of the pool, which the engine declares before the loader.  The      *)
(* tasks of pnp_test are destroyed first of all.                           *)

DestroyUnchanged == UNCHANGED <<program, written, file, reactor, singleton>>

JoinReactor == /\ MainStep("run", "dlclose")
               /\ reactor = "ended"
               /\ program = "pnp_test" => tasks = {}
               /\ UNCHANGED <<monitor, inotify, loader, factory, tasks, fault>>
               /\ DestroyUnchanged

\* An iteration of ~SOLoader, or the end of its loop.
CloseLibraries ==
  /\ IF closing = Len(handles) THEN /\ MainStep("dlclose", "free")
                                    /\ UNCHANGED <<closing, mapped, fault>>
     ELSE /\ main = "dlclose" /\ UNCHANGED main
          /\ closing' = closing + 1
          /\ mapped' = mapped \ {handles[closing']}
          /\ IF handles[closing'] = NULL THEN Fault("dlclose of NULL")
                                         ELSE UNCHANGED fault
  /\ UNCHANGED <<monitor, inotify, subscribed, handles, adding, added, tasks>>
  /\ DestroyUnchanged

\* The members of SOLoader: first m_handles, then m_call_back.
FreeHandles == /\ MainStep("free", "unregister")
               /\ UNCHANGED <<monitor, inotify, loader, factory, tasks, fault>>
               /\ DestroyUnchanged

Unregister == /\ MainStep("unregister", "rm watch")
              /\ subscribed' = FALSE
              /\ UNCHANGED <<monitor, inotify, handles, closing, factory, tasks,
                             fault>>
              /\ DestroyUnchanged

\* inotify_rm_watch leaves an event of its own.
RmWatch == /\ MainStep("rm watch", "close")
           /\ watch' = FALSE
           /\ events' = IF watch THEN Append(events, "ignored") ELSE events
           /\ UNCHANGED <<monitor, open, loader, factory, tasks, fault>>
           /\ DestroyUnchanged

CloseInotify == /\ MainStep("close", "join")
                /\ open' = FALSE /\ watch' = FALSE /\ events' = <<>>
                /\ UNCHANGED <<monitor, loader, factory, tasks, fault>>
                /\ DestroyUnchanged

\* Faulty variant of JoinMonitor: the thread is left to itself.
JoinMonitorNot == /\ MainStep("join", "destroy pool")
                  /\ UNCHANGED <<monitor, inotify, loader, factory, tasks, fault>>
                  /\ DestroyUnchanged

JoinMonitor == /\ MainStep("join", "destroy pool")
               /\ monitor = "ended"
               /\ UNCHANGED <<monitor, inotify, loader, factory, tasks, fault>>
               /\ DestroyUnchanged

\* The pool destroys the tasks that are left.
DestroyPool == /\ MainStep("destroy pool", "gone")
               /\ tasks' = {}
               /\ IF tasks \subseteq mapped THEN UNCHANGED fault
                                            ELSE Fault("task of a closed library")
               /\ UNCHANGED <<monitor, inotify, loader, factory>>
               /\ DestroyUnchanged

Construct == GetFactory \/ StartMonitor \/ Register \/ Bind \/ ConfigTask \/ Run
Destroy == \/ JoinReactor \/ CloseLibraries \/ FreeHandles \/ Unregister
           \/ RmWatch \/ CloseInotify \/ JoinMonitor \/ DestroyPool

-----------------------------------------------------------------------------
\* Someone writes a file to the directory.
WriteFile(l) == /\ l \notin written
                /\ written' = written \cup {l}
                /\ events' = IF watch THEN Append(events, l) ELSE events
                /\ UNCHANGED <<program, main, monitor, open, watch, loader, file,
                               factory, reactor, tasks, fault, singleton>>

GetInstance(t) == S!GetInstance(t)
                  /\ UNCHANGED <<program, main, monitor, inotify, written, loader,
                                 file, factory, reactor, tasks, fault>>

MainThread    == Construct \/ Destroy \/ GetInstance("main")
MonitorThread == Monitor \/ GetInstance("monitor")

Next == /\ fault = "none"
        /\ \/ MainThread \/ MonitorThread \/ StopReactor
           \/ \E l \in Library : WriteFile(l) \/ Create(l) \/ Execute(l)

Spec == Init /\ [][Next]_vars

\* Both threads run, and workers execute their tasks.
FairSpec == /\ Spec
            /\ WF_vars(fault = "none" /\ MainThread)
            /\ WF_vars(fault = "none" /\ MonitorThread)
            /\ \A l \in Library : WF_vars(fault = "none" /\ Execute(l))

-----------------------------------------------------------------------------
\* The types of the state, and where the threads can be.
TypeOK ==
  /\ program \in {"engine", "pnp_test"}
  /\ main \in {"factory", "start monitor", "register", "bind", "handles",
               "config", "run", "dlclose", "free", "unregister", "rm watch",
               "close", "join", "destroy pool", "gone"}
  /\ monitor \in {"none", "watch", "read", "notify", "dlopen", "factory", "add",
                  "push", "ended"}
  /\ events \in Seq(Library \cup {"ignored"})
  /\ file \in Library \cup {"ignored", NULL}
  /\ handles \in Seq(Library \cup {NULL}) /\ closing \in 0..Len(handles)
  /\ mapped \subseteq Loadable /\ added \subseteq Loadable
  /\ tasks \subseteq added
  /\ S!TypeOK

(***************************************************************************)
(* The libraries and pnp_test's main extend one factory, and it is         *)
(* constructed when they do, whichever thread asks for it first            *)
(* (singleton.hpp:34-71).  It is not the engine's: there the libraries     *)
(* alone ask for it, from the monitor's thread.                            *)
(***************************************************************************)
OneFactory == S!OneInstance
FactoryBuilt == S!InstanceBuilt

(***************************************************************************)
(* Three lifetimes are right however the threads are timed: ~DirMonitor    *)
(* joins the thread before the dispatcher is destroyed; pnp_test calls no  *)
(* function of a library that ~SOLoader has closed; and no task outlives   *)
(* the library it comes from, though the engine's pool outlives the loader *)
(* (re_fw.hpp:56-57): pnp_test's is destroyed first, and the engine's      *)
(* factory makes none.  (Those of m_handles and of the callback are not    *)
(* right: see the faults.)                                                 *)
(***************************************************************************)
UsersOutlived == fault \notin {"destroyed dispatcher",
                              "function of a closed library",
                              "task of a closed library"}

\* The destructors end: the monitor's thread does not stay in read.
DestructorEnds == main = "dlclose" ~> main = "gone" \/ fault # "none"

(***************************************************************************)
(* "this will cause read to unblock" (pnp.cpp:63): the thread reads until  *)
(* the destructor removes the watch.                                       *)
(***************************************************************************)
ListensUntilDestroyed ==
  monitor = "ended" => main \in {"close", "join", "destroy pool", "gone"}
=============================================================================
