# netspace in TLA+

netspace serves a block device from memory: the Linux kernel's NBD driver sends
requests over a socket, a reactor thread turns each into a task, the workers of a
thread pool execute the tasks on a byte array and write the replies back.  The
repository also keeps BUSE, the C library from which the communicator comes.  This
directory holds TLA+ modules of both, TLC configurations that check them on small
instances, and TLAPS proofs.  Paths are relative to the repository's root.

Contents: 1. inventory, 2. modules, 3. runs, 4. fairness, 5. proofs, 6. where the
code disagrees with its own comments, 7. what is not modelled, 8. plan.

## 1. Inventory

The `Makefile` builds `main/netspace.cpp` with `src/driver_data.cpp`,
`src/file_descriptor.cpp`, `src/nbd_driver_communicator.cpp`, `src/ram_storage.cpp`
and `framework/src/{pnp,logger,thread_pool}.cpp`, without `NDEBUG`.

| component | state | operations | interacts with | hard behaviour, and what makes it correct |
|---|---|---|---|---|
| **WPQueue** `framework/include/waitable_pq.hpp` | a priority queue, a mutex, a condition variable | `Push`, `Pop`, `IsEmpty`, `Size` | the pool's workers and everyone who adds a task | one `notify_one` per `Push`, spurious wakeups; no thread may sleep while an element is there for it |
| **ThreadPool** `framework/src/thread_pool.cpp` | `m_pool`, `m_pool_size`, `m_in_pause`, `is_stopeed`, `m_cv`, a WPQueue | `AddTask`, `SetSize`, `Pause`, `Resume`, `Stop`, `Stop(timeout_)`, destructor | the engine (`AddTask`), client tasks | unlocked members read by PauseTasks, sizes that differ after `SetSize`, tasks that throw; `Stop` must reach and join every thread, tasks must run once, nothing may start after `Stop` |
| **RequestEngine** `framework/include/re_fw.hpp` | the epoll set, the closing pipe, `m_request_srcs`, the reactor thread, the pool, the factory, the plug-in loader | `ConfigInputSrc`, `ConfigTask`, `Run`, `Stop`, destructor | sources (`Read` in the reactor), pool, factory | `Stop` runs in a worker against the reactor and the destructor |
| **netspace** `main/netspace.cpp` | the engine, storage and communicator | `StdinSrc::Read`, `StdinTask::Execute`, `NBDSrc::Read`, `NBDTask::Execute`, `main` | everything | replies of several workers on one socket; a standard input that floods the pool; order of destruction |
| **NBDriverCommunicator** `src/nbd_driver_communicator.cpp` | a socket pair, the device's descriptor, the listener thread, signal handlers | constructor, `ReceiveRequest`, `SendReply`, `Disconnect`, destructor | the kernel, the reactor, the workers | partial reads and writes, ends of file, signals, a `Disconnect` that depends on a close that fails |
| **DriverData** `src/driver_data.cpp` | one request | conversion from `nbd_request` | communicator, storage | whatever is not `NBD_CMD_READ` is a WRITE |
| **RAMStorage** `src/ram_storage.cpp` | a vector of bytes | `Read`, `Write` | the workers | no lock, a byte at a time: which guarantees remain for overlapping requests |
| **FileDescriptor** `src/file_descriptor.cpp` | a descriptor, a shared count | copy, assignment, `CloseFD`, destructor | communicator | closing once, and not before the last user |
| **Singleton** `framework/include/singleton.hpp` | the instance, a mutex | `GetInstance` | logger, factory | double-checked locking |
| **Factory** `framework/include/factory.hpp` | a map of functions | `Add`, `Create` | engine, plug-ins | unlocked |
| **PlugNPlay, Dispatcher, CallBack** `framework/src/pnp.cpp`, `framework/include/msg_broker.hpp` | an inotify thread, subscribers, loaded libraries | notify, register, unregister, load | engine | registration and destruction against the thread; a nonblocking read |
| **Logger** `framework/src/logger.cpp` | a level, a stream, a mutex | `Log` | all | level and `ctime` outside the lock |
| **BUSE** `buse/buse.c`, `busexmp.c`, `loopback.c` | two processes, a socket pair, the exit statuses | `buse_main`, `serve_nbd`, the signal handler, the programs' operations | the kernel, `buse/test/*.sh` | ends of the socket held by two processes, a child that fails at any point, signals; the exit status must tell whether the device is free |
| network headers, `src/master.cpp`, `src/slave.cpp`, `fsq.cpp` | - | - | - | copies, and sketches that do not compile: not built |

Threads: the main thread, the reactor, four workers, the listener (inside the
kernel in `NBD_DO_IT`), the directory monitor.  Calls between them: the reactor
calls `AddTask`; workers call storage, `SendReply`, and through `StdinTask` also
`RequestEngine::Stop` and `Disconnect`; the main thread runs the destructors.

`PROJECT.json` lists under "hazards" each place where this is hard to test, with
the property that covers it or the reason why none does.

## 2. Modules

| module | models | 
|---|---|
| `WPQueue` | the queue: `Push`, and `Pop` with its wait |
| `ThreadPool` | the pool: workers, PauseTasks, StopTasks, one client thread; implements `WPQueue` |
| `BlockDevice` | abstract: what netspace promises the kernel's block layer about the bytes |
| `NbdService` | the way of a request: kernel, socket, reactor, pool, worker, storage, reply, kernel; implements `BlockDevice` |
| `RequestEngine` | the engine's life: epoll loop, standard input, `Stop` in a worker, the destructor |
| `FileDescriptor` | the class as a value: number and count, and what `CloseFD` and the destructor close |
| `NbdLifecycle` | the communicator's life: constructor, listener, signals, `Disconnect`, destructor; uses `FileDescriptor` |
| `Singleton` | `GetInstance`: double-checked locking on relaxed atomics and fences |
| `Plugins` | the monitor's thread, dispatcher, loader and factory, in the engine and in `pnp_test`; contains `Singleton` |
| `Buse` | BUSE's two processes and its two programs; implements `BlockDevice` |
| `MC*` | values for the constants of the TLC runs |
| `*_proofs` | theorems about the module they are named after |

**WPQueue.**  `m_queue` is the set of elements (pointers to distinct objects) and
`at[t]` says whether a thread is out of `Pop`, ready to evaluate the predicate of the
wait, or blocked on `m_cv`.  All code runs under `m_mutex`, so `Push` is one action
and `Pop` is `PopCall`, then `PopWait` or `PopTake`.  `notify_one` picks any blocked
thread.  A `std::priority_queue` does not keep the order of equal elements, so
`PopTake` takes any element of the highest priority.

**ThreadPool.**  Worker `t` is the thread `m_pool[t-1]`; `pc[t]` is where it stands in
`WorkerFunc` and in the tasks it executes.  PauseTasks and StopTasks are counted
(`pauseQ`, `stopQ`), the client's tasks are the set `queued`.  `ctl` is the operation
the client thread is in, `left` the iterations left of its loop: pushing, notifying,
emplacing and joining are one action per iteration, because nothing locks them
against the workers.  `PauseTask::Execute` is `CheckPause` (the predicate) and
`BlockPause` (falling asleep): its mutex is private to the task, so that another
thread can act in between.  A StopTask throws, and `WorkerFunc` catches outside its
loop, so `PopStop` and `RunThrows` end the thread.  The destructor is `Stop`.
`Stop(timeout_)` destroys a joinable `std::thread`, which calls `std::terminate`:
`StopTimed` ends the behaviour.  (The detour through one `std::condition_variable`
with several mutexes, which the standard does not allow, is taken to work as it does
in the C library.)

`QueueSpec` is the refinement: `m_tasks` is seen as a WPQueue whose elements are the
client's tasks and numbered PauseTasks and StopTasks, and whose waiting threads are
those with `pc[t] = "wait"`.

**BlockDevice.**  Requests are submitted, pass their bytes in any order, and are
completed when they have passed them all.  A write stores its own identity, so a
value tells where it comes from.  `prec[r]`, a history variable, holds the requests
completed when `r` was submitted.

**NbdService.**  The request stream and the reply stream of the socket are sequences.
`Receive` is the reactor's whole turn (`NBDSrc::Read`, `ReceiveRequest`, `AddTask`).
A worker takes a task, copies it byte by byte (`CopyByte`), locks the task's mutex,
and appends the reply to the stream: the header in one write, the data of a READ in
as many writes as the socket asks for (`write_all` repeats).  The kernel (modelled
from how the code uses it) reads a header, then for a READ `m_len` units, and breaks
the connection when it finds no header where one must be.  The kernel sends
no other commands: the program never sets the NBD flags that would allow flush and
trim.  `mixed`, a history variable, is set when a worker writes to the socket between
two writes of another one's reply.  `applied` of BlockDevice is mapped to the bytes before the loop index; the
other variables keep their names.

**RequestEngine.**  The state after `Run`: both sources in epoll, the main thread
already in `~RequestEngine`.  `epoll` and `open` are the registered and the open
descriptors, `pipe` the byte in the closing pipe, `events` what is left of the array
that `epoll_wait` returned; the handlers take the events in any order, and
`HandlePipe` drops the rest, as the `break` does.  `StdinSrc::Read` consumes nothing,
so `Ready` offers the standard input again at every turn until a worker has read the
key (`ReadKey`); a worker that finds none blocks (`ReadBlocks`), and stays blocked when
the descriptor is closed under it.  `Stop` is `StopWrite`, then `StopSource` for each
source, then `Disconnect`, in the worker that read the 'q' and again in the next one.
Between these steps the reactor may read a closed socket (`HandleNbdClosed`), a
pending NBDTask may write to it (`RunNbd`), and the destructor may close the pipe
(`StopWriteFails`), free the vector that holds its numbers (`StopWriteFreed`: the write
fails, or succeeds elsewhere, or `Stop` crashes) or destroy the map that `Stop` iterates
over (`StopDangling`: of the outcomes of that undefined behaviour the model has a crash,
and going on).  `up` is the kernel's end of the connection, which it may shut down at any
time (`ShutDown`: on `NBD_DISCONNECT`, or on a reply that it does not expect, as those
that `NbdService` mixes).  What was sent before can be read; then the reactor is at the
end of the stream and "bad read" leaves its thread (`HandleNbdEof`), and a reply that a
worker writes after the end fails `write_all`'s assertion (`RunNbd`).  The pool is reduced to what `ThreadPool` is shown to be: a bag of tasks taken in any order,
StopTasks first.

**FileDescriptor and NbdLifecycle.**  Assignment copies the number and decrements both
counts, but keeps its own counter, so `m_sp`'s descriptors have the count 0 and
`m_nbd_fd` has 1: `CloseFD` closes the former and leaves the latter.  A descriptor is
represented by its role; `open` is the set of those the process has open, and
`CloseFD` throws when the number is not in it.  `main` walks through the constructor,
`SetEngineUp` and the destructor; `listener` through `ListenerTask`; `disc[p]` through
`Disconnect`, called by a worker and by the destructor.  Each statement that another
thread, a signal or the kernel can come before is an action.  `CloseDescriptors` is
one action, since the two `CloseFD` touch nothing that others change meanwhile.
`JoinListener` is the handler of the FDError, the only place that joins the listener:
the worker's `Disconnect` finds the socket closed by `RequestEngine::Stop` and gets
there.  `crash` names how the process ends when it does not return from `main`.

Of the pool there is what can hold up an end: `tasks` to be executed, the workers
`blocked` in `read(STDIN)` and those that an exception has `ended`.  A worker blocks
(`ReadBlocks`) and comes back with a key (`ReadKey`, or `Quit` for a 'q'); a reply needs a
worker that is `Free`, and `DestroyEngine`, the join of all workers included, needs that
none is blocked.  A signal runs the handler in the reactor, where it also ends
`epoll_wait`, in a worker, or in the main thread.  The NBDError with which the handler
answers a refused `NBD_DISCONNECT` is `std::terminate` where no handler is around the
interrupted code, but in a worker `WorkerFunc` may catch it, which ends that worker with
what it was doing (`SignalEndsWorker`), and in the main thread `~NBDriverCommunicator` or
`main` itself (`SignalCaughtByMain`).  `Stop` is one step here, and there is one 'q'; both
are in full in `RequestEngine`.  The `nbd-client -d` that follows the join
does nothing to a connection that the listener has cleared.

**Singleton.**  A step of `GetInstance` is a load, a store, a fence, a lock or the
construction.  Memory is modelled by views: what happens before a thread's next step
is a set of constructions and stores.  A relaxed load may return the old value to a
thread whose view lacks the store; the fences and the mutex pass views on.

**Plugins.**  `main` walks through the construction of `DirMonitor`, `CallBack` and
`SOLoader` and through their destruction in reverse; `monitor` through
`ListenerThread`, `NotifyAll`, `Load` and the constructor of the library, which calls
`GetInstance` and `Add`.  `fault` names the undefined behaviour or the exception that was
reached, and ends the behaviour; where an unlocked access may also go well, both
outcomes are there.

There are two factories.  A library extends `Singleton<Factory<ITask, int, int>>`
(`framework/dynamic_libs/new_task.cpp:38`), and so does `pnp_test`'s main; an engine creates
its tasks from `Singleton<Factory<IRETask, KEY, ARGS>>` (`framework/include/re_fw.hpp:95`).
The singleton, the map and the functions of the module are the libraries'.  In `pnp_test`
main and the monitor's thread can be first to ask for it (the program has to be linked with
`-rdynamic`, as `framework/Makefile` does and the root `Makefile` does not, or main has an
instance of its own).  In the engine the monitor's thread alone asks for it: what
libraries add there reaches nobody, `ConfigTask` and `Create` work on the other map, and a
request with a library's key throws `out_of_range` in the reactor.  (That `dlclose`
unmaps a library is the model's assumption; the dynamic linker may keep it.)

**Buse.**  `parent` walks through `buse_main` and `serve_nbd`, `child` through the branch
after the fork.  `sp0` and `sp1` are the processes that hold each end of the socket,
which is how an end of file comes about or does not.  `aop` is the set of operations
of the program: `busexmp`, `loopback`, or another one whose operations may fail.  Byte copies,
streams and the kernel's parser are those of `NbdService`, with an error in the header.

## 3. Runs

Each property has a mutant: a named faulty variant of an action, next to it in the
module, under which the property fails in the same run.

| run (cfg) | bounds | shows |
|---|---|---|
| `MCWPQueue` | 3 threads, 3 elements, 2 priorities | types; no lost wakeup (`NoLostWakeup`) |
| `ThreadPool_all` | 2 threads growing to at most 3, 2 tasks (one throws), 3 calls of any operation | a task is in one place (`ExecutedOnce`); enough StopTasks (`StopTasksSuffice`); nothing starts after `Stop` (`NoTaskStartsAfterStop`); the pool implements the queue (`QueueSpec`) |
| `ThreadPool_live` | 2 threads, 2 tasks (one throws), 3 calls of `Pause`, `SetSize`, `Stop` | `Stop` returns, unless a worker blocks after the last notification (`StopReturnsOrMissed`); who is blocked when `Stop` resumes is woken and ends (`StopWakesBlocked`); tasks run (`TasksRun`) |
| `BlockDevice` | 3 overlapping writes, 1 read, 2 bytes | `StoreFresh`, `ReadsFresh` |
| `NbdService_pool` | 2 workers, 2 overlapping writes, 1 read, 2 bytes | the service implements the device (`DeviceSpec`), and so its reads are fresh; unless a worker wrote inside another's reply, replies are whole (`WholeUnlessMixed`) and every request completes (`EveryRequestCompleted`) |
| `RequestEngine` | 2 workers, 2 keys, 2 requests, 2 StdinTasks queued | the engine comes apart in order (`OrderlyEnd`); before somebody quits no failed read passes for a request, and nothing ends the process but the end of the kernel's connection (`SoundUntilQuit`); quitting gets to the end of the destructor (`QuitReturns`) and requests are replied to (`RequestsServed`), with the exceptions named below |
| `NbdLifecycle` | 2 workers, 2 requests, 2 signals | a return from `main` leaves the device cleared and no descriptor open but that of the device file (`CleanReturn`); the listener is joined (`ListenerJoined`); a signal does not kill an attached process (`KilledDetached`), with exceptions; quitting and a disconnection end the process (`QuitEnds`, `DisconnectEnds`), with the exceptions named below |
| `Plugins` | 2 files, 1 of which loads, reads of 2 events | the libraries' factory is one, built before anyone uses it (`OneFactory`, `FactoryBuilt`); the dispatcher outlives the monitor, and a library the calls of its function and its tasks (`UsersOutlived`); the destructors end (`DestructorEnds`) |
| `Buse` | 1 write, 1 read that may fail, 1 flush, 2 bytes, 2 signals, 3 programs | implements the device (`DeviceSpec`); the stream is in step until a READ fails (`RepliesIntact`); a status of 0 means that the device is free (`ZeroMeansReleased`); parent and child end with each other and on a disconnection (`ParentFollows`, `OrphanEnds`, `DisconnectEnds`) |
| `ThreadPool_lostresume`, `NbdService_frames`, `Plugins_listens` | 2 threads; as `Plugins` | section 6 |

Why the bounds are enough.  A lost wakeup needs two threads and two elements; the
third of each lets one be busy meanwhile.  Three calls allow "shrink, grow, stop" and
"pause, shrink, stop", after which the pool's two sizes differ; three threads allow
one more than the pool was built with.  Two bytes are the least on which requests
can overlap in part, and a request of two bytes is the least that another one can
divide.  Two keys are a 'q' and another, or two 'q's, of which the second finds the
sources closed or the pipe gone; two workers are one that stops the engine and one
that holds a request or blocks.  `MaxTasks` bounds the StdinTasks that one unread
key piles up.  `MaxThreads` and `MaxCalls` are bounds of the model and appear in the guards
of `Grow` and `Call`; `Grow` is not enabled where it would create more threads.
`MaxRequests` and `MaxSignals` bound what the kernel and users send; two requests let one be
in the stream while another is in the pool, two signals let one come before the
handler and one after.  `PoolSize` is 2 in `NbdLifecycle`: one worker quits or replies and
the other is blocked, or both are.  Two files make one read return two events, or one be loaded
while the other comes; one that does not load gives a null handle.
Deadlock is not checked where the client or the kernel may stop calling, where the
process ends or the pool has stopped, and in `RequestEngine`, where neither keys nor
requests need come.
Growth of the pool is in `ThreadPool_all` only.

The exceptions of `QuitReturns` and `RequestsServed` are behaviours of the code.  A
worker in `read(STDIN)` takes no StopTask, and nobody wakes it, so the destructor
waits for the next key; and one key can put every worker into `read(STDIN)`, since
the reactor adds StdinTasks until the first of them has read it.

So are the exceptions of the other modules' properties:

* `ListenerJoined`: when `SetEngineUp` throws (a standard input that epoll does not take) nobody
  has closed the socket, `CloseFD` does not throw, the listener is not joined and its
  destruction terminates the process; the same when the kernel refuses both
  `NBD_DISCONNECT`s, whose NBDError skips the closing.
* `KilledDetached`: `SetSignalHandlerForApp` unblocks the signals before it sets their handler.
* `SoundUntilQuit`: when the kernel has shut its connection down the process does not survive
  it: the reactor's "bad read" or the assertion of a read or a reply ends it.
* `QuitEnds`: a worker blocked in `read(STDIN)`, as for `QuitReturns`: `~ThreadPool` joins it
  and nobody wakes it.
* `DisconnectEnds` of `NbdLifecycle`: when `NBD_DO_IT` fails the connection is gone while the
  reactor waits for requests; when all workers that are left are in `read(STDIN)` nobody
  replies to `NBD_CMD_DISC`, on which the kernel would end the connection; and when
  somebody has quit besides, one blocked worker is enough to hold the destructor up.
* `UsersOutlived` leaves out the other faults: the loader's handles and callback are used
  by the monitor while they are built and destroyed, the map is read and written without
  a lock in `pnp_test`, and an unknown key throws.
* `RepliesIntact` of `Buse`: `serve_nbd` writes the data of a READ after an error, too.
* `ZeroMeansReleased`: `WEXITSTATUS` of a child that a signal has killed is 0.  `loopback`
  always returns 0 and is left out.
* `ParentFollows`: a child that fails between `NBD_SET_SOCK` and `NBD_DO_IT` leaves the socket with the
  kernel, and the parent waits in `read`.

## 4. Fairness

Weak fairness of each worker: the operating system runs its threads, tasks return,
and there are finitely many tasks, so that no thread is kept from a mutex for ever.
Weak fairness of the client's operation once it is called (its loops are
straight-line code) and of the reactor and the kernel's receiver.  No fairness for
calls, for requests, or for spurious wakeups: they may never come.

`RequestEngine`: weak fairness of the reactor, the main thread and each worker; none for
keys, requests, or the end of the connection.
`NbdLifecycle`: weak fairness of the main thread, the listener, the reactor, each kind of
task while a worker is free for it, each caller of `Disconnect`, and of the kernel ending a
connection that has a reason to end; none for keys (so that a blocked worker may stay so
for ever), signals, requests, or a connection that ends without a reason.
`Plugins`: weak fairness of the main and the monitor's threads, and of the tasks; none
for files, for `Create`, or for the reactor's end.  `Buse`: weak fairness of both
processes and of the kernel ending its connection; none for signals and requests.

## 5. Proofs

TLAPS checks these for all values of the constants, from the assumptions named in
the modules (`...Assumption`: what is counted is finite, and a request is within the
device).  Every invariant and action property that a passing run
checks is a theorem, and so are the three refinements.  Each proof module names its
inductive invariant, `IInv` where there is only one.

* `WPQueue_proofs`: `TypeCorrect`; `WakeupsSuffice` (`NoLostWakeup`).  The invariant
  compares two cardinalities and is inductive with the types.  The lemmas say how the
  set of ready threads changes.  The delicate steps are `Push` (the queue and the ready
  threads grow together, because some thread is waiting) and `PopTake`.
* `ThreadPool_proofs`: `TypeCorrect` needs `GrowFits`, that what `SetSize` is about to
  emplace still fits, since `Grow` checks the bound long before the last `Emplace`.
  `StopsSuffice` compares the threads that have not ended with the StopTasks queued
  and to come: `Stop` starts with one for each thread of `m_pool`, a thread that ends
  takes at most one.  `NothingStartsAfterStop` follows: a thread that can pop has not
  ended, so a StopTask is in the queue and comes first.  `RunsOnce` (`ExecutedOnce`)
  needs no strengthening beyond the types.
  `ImplementsQueue` (`QueueSpec`) maps each step to one of the queue or to a stutter.  It
  needs `AdminFits`: the numbers of the PauseTasks and StopTasks, those still to be pushed
  included, stay within what the calls made so far may push.  With the theorem of
  `WPQueue_proofs`, instantiated for `m_tasks`, follows `WakeupsSuffice`: no worker stays
  blocked while a task has no awake worker to take it.
* `BlockDevice_proofs`: `TypeCorrect`, `StorageStaysFresh` and `ReadsSeeCompletedWrites`.  The
  invariant adds that completed requests have passed all their bytes (`Progress`) and
  that what precedes a request is completed (`PrecDone`).  A write that stores a byte is
  open, so it precedes no one and makes nothing stale; a read finds each write that
  precedes it already past the byte.
* `NbdService_proofs`: `TypeCorrect`; `ImplementsDevice` (`DeviceSpec`), from an invariant that
  has each request in one place (stream, pool, worker, stream of replies, parser) and the
  header of a reply after the last byte.  With the theorem of `BlockDevice_proofs`,
  instantiated for the service, follows `ReadsSeeCompletedWrites`.  `WholeReplies`
  (`WholeUnlessMixed`) needs `InStep` besides: what is in the stream after the header at
  which a reply begins is the part of that reply that was written, and only the last
  reply of the stream is unfinished.  `OneWorkerIntact`: with one worker nothing is ever
  mixed, and so `RepliesIntact` holds; the run `NbdService_frames` violates it with two.
* `RequestEngine_proofs`: `TypeCorrect` and `EndsInOrder` (`OrderlyEnd`), from one invariant,
  `IInv`.  Nobody waits for `Stop`, so that the sources are closed at the end has to be
  carried through: only the byte in the pipe ends the reactor (`EndedByPipe`), whoever
  wrote it has in `todo` every source still open (`PipeCloses`), and `JoinWorkers` waits
  for that worker.  `EventsInTurn` and `Received` say that an event held by the reactor
  stands for something that is still there.  `SoundBeforeStop` (`SoundUntilQuit`) adds
  `UntilQuit`: without a byte in the pipe everything is open and no worker is past it, so
  that only the kernel's end of the connection can make a read or a reply fail.
* `NbdLifecycle_proofs`: `TypeCorrect`, `ReturnsClean` (`CleanReturn`), `JoinedOrRefused`
  (`ListenerJoined`), `KillsDetached` (`KilledDetached`).  The invariant follows the objects
  (`Descriptors`), the kernel's connection through the listener's places (`Connection`,
  `Joined`), and who disconnects when (`Turns`).  `QuitCloses` is why the listener is joined
  at all: a worker that quits has closed the socket by its number, under the object that
  still holds the number, so `CloseFD` throws and the handler of its error joins.
  `Occupied` bounds the workers that are blocked, ended or quitting by the pool's size.
* `Plugins_proofs`, for the factory's `Singleton` as well: `TypeCorrect`; `BuiltOnce`
  (`OneFactory`) and `SeenBuilt` (`FactoryBuilt`), from what a thread knows at each place of
  `GetInstance` (`Place`), what the mutex hands on (`HandedOver`), and that the one store
  publishes the construction (`StoreKnown`); `NoneOutlived` (`UsersOutlived`), from the joins
  in the two destructors and from the engine having no task of a library (`Outlived`).
* `Buse_proofs`: `TypeCorrect`; `ZeroIsReleased` (`ZeroMeansReleased`), from the child's walk
  through the states of the connection (`Attaching`); `Intact` (`RepliesIntact`), from an
  `InStep` as in `NbdService` in which each reply is whole, because one process writes
  them; `ImplementsDevice` (`DeviceSpec`), and from it `ReadsSeeCompletedWrites`.
  `BuseAssumption` has that no request is the disconnection (`"disc"`), which is another
  type of the same message.

Four theorems state no property of a passing run: `OneWorkerIntact`, and the two
`ReadsSeeCompletedWrites` and the `WakeupsSuffice` that follow from a refinement and the
abstract module's theorem.

Only model-checked: everything about liveness (`StopReturnsOrMissed`, `StopWakesBlocked`,
`TasksRun`, `EveryRequestCompleted`, `QuitReturns`, `RequestsServed`, `QuitEnds`,
`DisconnectEnds`, `OrphanEnds`, `ParentFollows`, `DestructorEnds`), since the prover does not
reason about fairness.

## 6. Where the code disagrees with its own comments

* `ThreadPool_lostresume` (`StopReturns` fails).  `Pause`, then `Stop`: a worker has
  found `m_in_pause` true and is about to block; `Resume` clears the flag and notifies,
  without the mutex of the wait; the worker blocks and `Stop` joins it for ever.
  The comments say "then resume all" and "join threads gracefully"
  (`framework/src/thread_pool.cpp:154`, `:157`).
* `NbdService_frames` (`RepliesIntact` fails).  The mutex that is to protect `SendReply`
  belongs to the task, so it excludes nobody: with two workers the header of one
  reply can land between the header and the data of another.  The comment says
  "protect with mutex" (`main/netspace.cpp:150`).
* `Plugins_listens` (`ListensUntilDestroyed` fails).  The inotify descriptor is opened with
  `IN_NONBLOCK`, so the thread's first `read` without an event fails and ends its loop: a
  library that is written later is never loaded.  The destructor's comment says
  "this will cause read to unblock" (`framework/src/pnp.cpp:63`).

Three more behaviours are in the modules, without a run of their own.  `Pause` sets
`m_in_pause` after it has pushed the PauseTasks, so that a worker that executes one
earlier is not paused (`ThreadPool`; the test says "pause all tasks",
`framework/test/thread_pool_test.cpp:47`).  `ReceiveRequest` keeps the result of `read` in a
`size_t`, so that the -1 of a descriptor that `Stop` has just closed passes the check
"bad read" (`src/nbd_driver_communicator.cpp:274`), and a reply to a request that is
in the pool when `Stop` closes the socket fails `assert(bytes_written > 0)` (`:75`).  Both are in
`RequestEngine`, and `SoundUntilQuit` says that the first needs a `Stop`; the assertion also
fails when the kernel has shut its connection down.

## 7. Not modelled

* The logger: its text goes to a file and decides nothing.
* `src/master.cpp` is nearly a copy of `main/netspace.cpp`; `src/slave.cpp` and `fsq.cpp` do not
  compile; the network headers, configuration and file storage are not built.
* `IsEmpty` and `Size` of the queue, which change and decide nothing.  The copy
  constructor of `FileDescriptor` and the callback's stop function, which nothing calls.
  Argument parsing.  `TimedStopper` itself, which has no time to run.
* `NbdService` has only the reactor's turn for an NBD event, and of the socket neither its
  errors nor its end, which are in `RequestEngine` and `NbdLifecycle` (closed by the
  program, or shut down by the kernel).
* A second 'q' in `NbdLifecycle`: `RequestEngine` has its `Stop`, but that two workers are in
  `Disconnect` at once, where both may join the one `std::thread` of the listener, which is
  undefined behaviour, is in no module.
* `nbd-client -d /dev/nbd0` of `Disconnect`, which names that device whatever device the program
  serves: it can only end a connection that is not this program's.
* A partial read of a request's header, which `ReceiveRequest` does not check.  (The data of a
  WRITE is read by `read_all`, which goes on until it has all.)
* The end of the standard input, the reuse of a closed descriptor's number, requests
  beyond the device's end (the kernel sends none), and `loopback`'s target device beyond
  its bytes and its errors.

## 8. Plan

All modules of the first plan are written: `WPQueue`, `ThreadPool`, `BlockDevice`, `NbdService`,
`RequestEngine`, `NbdLifecycle`, `FileDescriptor`, `Singleton`, `Plugins`, `Buse`; and
eight modules of proofs, which cover every safety property and refinement of the runs.
(`fsq.cpp` is left out: it has no behaviour.)

What could follow, in this order:

1. That a worker which takes a task finds it as the queue promises: `RequestEngine`'s bag of
   tasks as a refinement of the pool's, so that both modules meet in a theorem.
2. `NoTaskStartsAfterStop` and `StopTasksSuffice` as facts of an abstract pool that `ThreadPool`
   implements and `RequestEngine` uses.
3. `Singleton` for any number of threads (`Plugins_proofs` has the two of the program).
