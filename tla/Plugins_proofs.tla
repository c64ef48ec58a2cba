---------------------------- MODULE Plugins_proofs ----------------------------
(***************************************************************************)
(* For any libraries and any timing of the two threads: the libraries'     *)
(* factory is constructed once and seen constructed, and three of the      *)
(* lifetimes hold.                                                         *)
(***************************************************************************)
EXTENDS Plugins, SequenceTheorems, TLAPS

-----------------------------------------------------------------------------
(* GetInstance.  The two threads, and who has the lock.                    *)

Thread == {"main", "monitor"}

Holds(t) == at[t] \in {"reload", "check", "build", "release", "store", "unlock"}

\* What a thread must know of the one instance before it may use it.
Known == {S!Construction(1), S!Store(1)}

OneLock == /\ \A t \in Thread : t \in s_mutex <=> Holds(t)
           /\ \A t, u \in Thread : Holds(t) /\ Holds(u) => t = u

\* Who has the lock knows what the last one knew.
HandedOver == \A t \in Thread : Holds(t) => handed \subseteq view[t]

\* An instance that is built is stored, or its builder is about to store it.
StoredOrHeld ==
  /\ built <= 1 /\ s_instance <= built
  /\ built # s_instance => \E t \in Thread : at[t] \in {"release", "store"}

\* A stored instance is known to the last thread that had the lock, unless the
\* one that has it is about to unlock; and the store publishes its construction.
StoreKnown ==
  s_instance = 1 => /\ S!Construction(1) \in published
                    /\ Known \subseteq handed \/ \E t \in Thread : at[t] = "unlock"

\* What a thread knows at each place of GetInstance.
Place(t) ==
  /\ at[t] = "acquire" /\ tmp[t] # 0 => S!Construction(tmp[t]) \in loaded[t]
  /\ at[t] = "check" => tmp[t] = s_instance
  /\ at[t] = "build" => built = 0
  /\ at[t] \in {"release", "store"} =>
       /\ tmp[t] = 1 /\ built = 1 /\ s_instance = 0
       /\ S!Construction(1) \in view[t]
  /\ at[t] = "store" => S!Construction(1) \in fenced[t]
  /\ at[t] = "unlock" => tmp[t] = 1 /\ s_instance = 1 /\ Known \subseteq view[t]
  /\ at[t] = "returned" => tmp[t] # 0 /\ S!Construction(tmp[t]) \in view[t]

Views == /\ view = [t \in Thread |-> view[t]]
         /\ fenced = [t \in Thread |-> fenced[t]]
         /\ loaded = [t \in Thread |-> loaded[t]]

FactoryInv == /\ S!TypeOK /\ Views /\ OneLock /\ HandedOver /\ StoredOrHeld
              /\ StoreKnown /\ \A t \in Thread : Place(t)

-----------------------------------------------------------------------------
(* The files and the lifetimes.                                            *)

\* Before ~SOLoader begins.
Building == main \in {"factory", "start monitor", "register", "bind", "handles",
                      "config", "run"}

\* What the monitor has in hand.
InHand == /\ monitor \in {"factory", "add"} => file \in Loadable
          /\ monitor = "push" => file \in Library \cup {NULL}

\* No library is closed while the reactor may call its functions or there are
\* tasks, which the engine never has of one; and the dispatcher outlives the
\* monitor's thread.
Outlived == /\ program = "engine" => tasks = {}
            /\ ~Building => reactor = "ended" /\ tasks = {}
            /\ Building => added \subseteq mapped
            /\ Building /\ monitor \in {"factory", "add"} => file \in mapped
            /\ main \in {"destroy pool", "gone"} => monitor = "ended"

IInv == TypeOK /\ FactoryInv /\ InHand /\ Outlived /\ UsersOutlived

-----------------------------------------------------------------------------

LEMMA CallStep ==
  ASSUME NEW t \in Thread, FactoryInv, S!Call(t)
  PROVE  FactoryInv'
<1> USE DEF FactoryInv
<1>1. S!TypeOK'
  BY DEF S!TypeOK, S!Call, S!Goes
<1>2. Views'
  BY DEF Views, S!Call
<1>3. OneLock'
  BY DEF OneLock, Holds, S!Call, S!Goes
<1>4. HandedOver'
  BY DEF HandedOver, Holds, S!Call, S!Goes
<1>5. StoredOrHeld'
  BY DEF StoredOrHeld, S!Call, S!Goes
<1>6. StoreKnown'
  BY DEF StoreKnown, S!Call, S!Goes
<1>7. ASSUME NEW u \in Thread PROVE Place(u)'
  BY DEF Place, S!Call, S!Goes
<1> QED
  BY <1>1, <1>2, <1>3, <1>4, <1>5, <1>6, <1>7

LEMMA ReturnStep ==
  ASSUME NEW t \in Thread, FactoryInv, S!Return(t)
  PROVE  FactoryInv'
<1> USE DEF FactoryInv
<1>1. S!TypeOK'
  BY DEF S!TypeOK, S!Return, S!Goes
<1>2. Views'
  BY DEF Views, S!Return
<1>3. OneLock'
  BY DEF OneLock, Holds, S!Return, S!Goes
<1>4. HandedOver'
  BY DEF HandedOver, Holds, S!Return, S!Goes
<1>5. StoredOrHeld'
  BY DEF StoredOrHeld, S!Return, S!Goes
<1>6. StoreKnown'
  BY DEF StoreKnown, S!Return, S!Goes
<1>7. ASSUME NEW u \in Thread PROVE Place(u)'
  BY DEF Place, S!Return, S!Goes
<1> QED
  BY <1>1, <1>2, <1>3, <1>4, <1>5, <1>6, <1>7

LEMMA LoadStep ==
  ASSUME NEW t \in Thread, FactoryInv, S!Load(t)
  PROVE  FactoryInv'
<1> USE DEF FactoryInv
<1>1. S!TypeOK'
  BY DEF Thread, S!TypeOK, S!Load, S!LoadRelaxed, S!Goes
<1>2. Views'
  BY DEF Views, S!Load, S!LoadRelaxed
<1>3. OneLock'
  BY DEF OneLock, Holds, S!Load, S!LoadRelaxed, S!Goes
<1>4. HandedOver'
  BY DEF HandedOver, Holds, Views, S!Load, S!LoadRelaxed, S!Goes
<1>5. StoredOrHeld'
  BY DEF StoredOrHeld, S!Load, S!LoadRelaxed, S!Goes
<1>6. StoreKnown'
  BY DEF StoreKnown, S!Load, S!LoadRelaxed, S!Goes
<1>7. ASSUME NEW u \in Thread PROVE Place(u)'
  <2>1. CASE u = t
    <3>1. at'[t] = "acquire"
      BY DEF Thread, S!TypeOK, S!Load, S!Goes
    <3>2. tmp'[t] = 0 \/ (tmp'[t] = s_instance /\ loaded'[t] = published)
      BY DEF Views, Thread, S!TypeOK, S!Load, S!LoadRelaxed
    <3>3. s_instance # 0 => s_instance = 1
      BY DEF StoredOrHeld, S!TypeOK
    <3> QED
      BY <2>1, <3>1, <3>2, <3>3 DEF Place, StoreKnown
  <2>2. CASE u # t
    <3>1. /\ at'[u] = at[u] /\ tmp'[u] = tmp[u] /\ loaded'[u] = loaded[u]
          /\ view'[u] = view[u]
      BY <2>2 DEF Views, Thread, S!TypeOK, S!Load, S!LoadRelaxed, S!Goes
    <3>2. UNCHANGED <<s_instance, built, fenced>>
      BY DEF S!Load, S!LoadRelaxed
    <3> QED
      BY <3>1, <3>2 DEF Place
  <2> QED
    BY <2>1, <2>2
<1> QED
  BY <1>1, <1>2, <1>3, <1>4, <1>5, <1>6, <1>7

LEMMA AcquireStep ==
  ASSUME NEW t \in Thread, FactoryInv, S!Acquire(t)
  PROVE  FactoryInv'
<1> USE DEF FactoryInv
<1>1. S!TypeOK'
  BY DEF S!TypeOK, S!Acquire, S!Goes
<1>2. Views'
  BY DEF Views, S!Acquire
<1>3. OneLock'
  BY DEF OneLock, Holds, S!Acquire, S!Goes
<1>4. HandedOver'
  BY DEF HandedOver, Holds, S!Acquire, S!Goes
<1>5. StoredOrHeld'
  BY DEF StoredOrHeld, S!Acquire, S!Goes
<1>6. StoreKnown'
  BY DEF StoreKnown, S!Acquire, S!Goes
<1>7. ASSUME NEW u \in Thread PROVE Place(u)'
  BY DEF Place, Views, S!Acquire, S!Goes
<1> QED
  BY <1>1, <1>2, <1>3, <1>4, <1>5, <1>6, <1>7

LEMMA LockStep ==
  ASSUME NEW t \in Thread, FactoryInv, S!Lock(t)
  PROVE  FactoryInv'
<1> USE DEF FactoryInv
<1>1. S!TypeOK'
  BY DEF Thread, S!TypeOK, S!Lock, S!Goes
<1>2. Views'
  BY DEF Views, S!Lock
<1>3. OneLock'
  <2>1. \A u \in Thread : ~Holds(u)
    BY DEF OneLock, S!Lock
  <2>2. \A u \in Thread : Holds(u)' <=> u = t
    BY <2>1 DEF Holds, Thread, S!TypeOK, S!Lock, S!Goes
  <2>3. s_mutex' = {t}
    BY DEF S!Lock
  <2> QED
    BY <2>2, <2>3 DEF OneLock
<1>4. HandedOver'
  BY DEF HandedOver, Holds, Views, S!Lock, S!Goes
<1>5. StoredOrHeld'
  BY DEF StoredOrHeld, S!Lock, S!Goes
<1>6. StoreKnown'
  BY DEF StoreKnown, S!Lock, S!Goes
<1>7. ASSUME NEW u \in Thread PROVE Place(u)'
  BY DEF Place, S!Lock, S!Goes
<1> QED
  BY <1>1, <1>2, <1>3, <1>4, <1>5, <1>6, <1>7

LEMMA ReloadStep ==
  ASSUME NEW t \in Thread, FactoryInv, S!Reload(t)
  PROVE  FactoryInv'
<1> USE DEF FactoryInv
<1>1. S!TypeOK'
  BY DEF Thread, S!TypeOK, S!Reload, S!LoadRelaxed, S!Goes
<1>2. Views'
  BY DEF Views, S!Reload, S!LoadRelaxed
<1>3. OneLock'
  BY DEF OneLock, Holds, S!Reload, S!LoadRelaxed, S!Goes
<1>4. HandedOver'
  BY DEF HandedOver, Holds, Views, S!Reload, S!LoadRelaxed, S!Goes
<1>5. StoredOrHeld'
  BY DEF StoredOrHeld, S!Reload, S!LoadRelaxed, S!Goes
<1>6. StoreKnown'
  BY DEF StoreKnown, S!Reload, S!LoadRelaxed, S!Goes
<1>7. ASSUME NEW u \in Thread PROVE Place(u)'
  <2>1. CASE u = t
    <3>1. at'[t] = "check" /\ s_instance' = s_instance
      BY DEF Thread, S!TypeOK, S!Reload, S!LoadRelaxed, S!Goes
    <3>2. s_instance \in {0, 1}
      BY DEF StoredOrHeld, S!TypeOK
    <3>3. s_instance = 1 => S!Store(1) \in view[t]
      BY DEF StoreKnown, Known, HandedOver, OneLock, Holds, S!Reload, S!Goes
    <3>4. tmp'[t] = s_instance
      BY <3>2, <3>3 DEF Thread, S!TypeOK, S!Reload, S!LoadRelaxed
    <3> QED
      BY <2>1, <3>1, <3>4 DEF Place
  <2>2. CASE u # t
    <3>1. /\ at'[u] = at[u] /\ tmp'[u] = tmp[u] /\ loaded'[u] = loaded[u]
          /\ view'[u] = view[u]
      BY <2>2 DEF Views, Thread, S!TypeOK, S!Reload, S!LoadRelaxed, S!Goes
    <3>2. UNCHANGED <<s_instance, built, fenced>>
      BY DEF S!Reload, S!LoadRelaxed
    <3> QED
      BY <3>1, <3>2 DEF Place
  <2> QED
    BY <2>1, <2>2
<1> QED
  BY <1>1, <1>2, <1>3, <1>4, <1>5, <1>6, <1>7

LEMMA CheckStep ==
  ASSUME NEW t \in Thread, FactoryInv, S!Check(t)
  PROVE  FactoryInv'
<1> USE DEF FactoryInv
<1>1. S!TypeOK'
  BY DEF S!TypeOK, S!Check, S!Goes
<1>2. Views'
  BY DEF Views, S!Check
<1>3. OneLock'
  BY DEF OneLock, Holds, S!Check, S!Goes
<1>4. HandedOver'
  BY DEF HandedOver, Holds, S!Check, S!Goes
<1>5. StoredOrHeld'
  BY DEF StoredOrHeld, S!Check, S!Goes
<1>6. StoreKnown'
  BY DEF StoreKnown, S!Check, S!Goes
<1>7. ASSUME NEW u \in Thread PROVE Place(u)'
  BY DEF Place, OneLock, Holds, StoredOrHeld, HandedOver, StoreKnown, S!TypeOK,
         S!Check, S!Goes
<1> QED
  BY <1>1, <1>2, <1>3, <1>4, <1>5, <1>6, <1>7

LEMMA BuildStep ==
  ASSUME NEW t \in Thread, FactoryInv, S!Build(t)
  PROVE  FactoryInv'
<1> USE DEF FactoryInv
<1>1. S!TypeOK'
  BY DEF Thread, S!TypeOK, S!Build, S!Goes
<1>2. Views'
  BY DEF Views, S!Build
<1>3. OneLock'
  BY DEF OneLock, Holds, S!Build, S!Goes
<1>4. HandedOver'
  BY DEF HandedOver, Holds, S!Build, S!Goes
<1>5. StoredOrHeld'
  BY DEF StoredOrHeld, Place, Thread, S!TypeOK, S!Build, S!Goes
<1>6. StoreKnown'
  BY DEF StoreKnown, S!Build, S!Goes
<1>7. ASSUME NEW u \in Thread PROVE Place(u)'
  <2>1. CASE u = t
    <3>1. built = 0 /\ s_instance = 0
      BY DEF Place, StoredOrHeld, S!Build, S!Goes
    <3>2. built' = 1 /\ s_instance' = 0 /\ tmp'[t] = 1 /\ at'[t] = "release"
      BY <3>1 DEF Thread, S!TypeOK, S!Build, S!Goes
    <3>3. S!Construction(1) \in view'[t]
      BY <3>1 DEF Views, S!Build
    <3> QED
      BY <2>1, <3>2, <3>3 DEF Place
  <2>2. CASE u # t
    <3>1. ~Holds(u) /\ at'[u] = at[u] /\ tmp'[u] = tmp[u] /\ view'[u] = view[u]
          /\ loaded' = loaded
      BY <2>2 DEF OneLock, Holds, S!Build, S!Goes
    <3> QED
      BY <3>1 DEF Place, Holds
  <2> QED
    BY <2>1, <2>2
<1> QED
  BY <1>1, <1>2, <1>3, <1>4, <1>5, <1>6, <1>7

LEMMA ReleaseStep ==
  ASSUME NEW t \in Thread, FactoryInv, S!Release(t)
  PROVE  FactoryInv'
<1> USE DEF FactoryInv
<1>1. S!TypeOK'
  BY DEF S!TypeOK, S!Release, S!Goes
<1>2. Views'
  BY DEF Views, S!Release
<1>3. OneLock'
  BY DEF OneLock, Holds, S!Release, S!Goes
<1>4. HandedOver'
  BY DEF HandedOver, Holds, S!Release, S!Goes
<1>5. StoredOrHeld'
  BY DEF StoredOrHeld, S!Release, S!Goes
<1>6. StoreKnown'
  BY DEF StoreKnown, S!Release, S!Goes
<1>7. ASSUME NEW u \in Thread PROVE Place(u)'
  BY DEF Place, Views, S!Release, S!Goes
<1> QED
  BY <1>1, <1>2, <1>3, <1>4, <1>5, <1>6, <1>7

LEMMA PublishStep ==
  ASSUME NEW t \in Thread, FactoryInv, S!Publish(t)
  PROVE  FactoryInv'
<1> USE DEF FactoryInv
<1>1. S!TypeOK'
  BY DEF Thread, S!TypeOK, S!Publish, S!Goes
<1>2. Views'
  BY DEF Views, S!Publish
<1>3. OneLock'
  BY DEF OneLock, Holds, S!Publish, S!Goes
<1>4. HandedOver'
  BY DEF HandedOver, Holds, S!Publish, S!Goes
<1>5. StoredOrHeld'
  BY DEF StoredOrHeld, Place, S!Publish, S!Goes
<1>6. StoreKnown'
  <2>1. S!Construction(1) \in published'
    BY DEF Place, S!Publish, S!Goes
  <2>2. at'[t] = "unlock"
    BY DEF Thread, S!TypeOK, S!Publish, S!Goes
  <2> QED
    BY <2>1, <2>2 DEF StoreKnown
<1>7. ASSUME NEW u \in Thread PROVE Place(u)'
  BY DEF Place, OneLock, Holds, Known, Views, S!TypeOK, S!Publish, S!Goes
<1> QED
  BY <1>1, <1>2, <1>3, <1>4, <1>5, <1>6, <1>7

LEMMA UnlockStep ==
  ASSUME NEW t \in Thread, FactoryInv, S!Unlock(t)
  PROVE  FactoryInv'
<1> USE DEF FactoryInv
<1>1. S!TypeOK'
  BY DEF S!TypeOK, S!Unlock, S!Goes
<1>2. Views'
  BY DEF Views, S!Unlock
<1>3. OneLock'
  BY DEF OneLock, Holds, S!TypeOK, S!Unlock, S!Goes
<1>4. HandedOver'
  BY DEF HandedOver, OneLock, Holds, S!Unlock, S!Goes
<1>5. StoredOrHeld'
  BY DEF StoredOrHeld, S!Unlock, S!Goes
<1>6. StoreKnown'
  BY DEF StoreKnown, Place, S!Unlock, S!Goes
<1>7. ASSUME NEW u \in Thread PROVE Place(u)'
  BY DEF Place, Known, S!Unlock, S!Goes
<1> QED
  BY <1>1, <1>2, <1>3, <1>4, <1>5, <1>6, <1>7

LEMMA GetInstanceStep ==
  ASSUME NEW t \in Thread, FactoryInv, S!GetInstance(t)
  PROVE  FactoryInv'
BY LoadStep, AcquireStep, LockStep, ReloadStep, CheckStep, BuildStep, ReleaseStep,
   PublishStep, UnlockStep DEF S!GetInstance

\* The factory's users leave the singleton as it is.
LEMMA FactoryStutters ==
  ASSUME FactoryInv, UNCHANGED singleton
  PROVE  FactoryInv'
<1> USE DEF FactoryInv, singleton
<1>1. S!TypeOK'
  BY DEF S!TypeOK
<1>2. Views' /\ OneLock' /\ HandedOver'
  BY DEF Views, OneLock, Holds, HandedOver
<1>3. StoredOrHeld' /\ StoreKnown'
  BY DEF StoredOrHeld, StoreKnown, Known, S!Construction, S!Store
<1>4. \A t \in Thread : Place(t)'
  BY DEF Place, Known, S!Construction, S!Store
<1> QED
  BY <1>1, <1>2, <1>3, <1>4

\* The monitor starts with what main knows: a view only grows.
LEMMA FactoryStarts ==
  ASSUME FactoryInv, StartMonitor
  PROVE  FactoryInv'
<1> USE DEF FactoryInv
<1>1. UNCHANGED <<at, tmp, s_instance, s_mutex, built, fenced, published, loaded,
                  handed>>
  BY DEF StartMonitor
<1>2. view' = [view EXCEPT !["monitor"] = @ \cup view["main"]]
  BY DEF StartMonitor
<1>3. Views'
  BY <1>1, <1>2 DEF Views
<1>4. \A t \in Thread : view[t] \subseteq view'[t]
  BY <1>2 DEF Views, Thread
<1>5. S!TypeOK'
  BY <1>1 DEF S!TypeOK
<1>6. OneLock' /\ HandedOver'
  BY <1>1, <1>4 DEF OneLock, Holds, HandedOver
<1>7. StoredOrHeld' /\ StoreKnown'
  BY <1>1 DEF StoredOrHeld, StoreKnown, Known, S!Construction, S!Store
<1>8. \A t \in Thread : Place(t)'
  BY <1>1, <1>4 DEF Place, Known, S!Construction, S!Store
<1> QED
  BY <1>3, <1>5, <1>6, <1>7, <1>8

\* Every step of the program keeps the factory as it should be.
LEMMA FactoryStep ==
  ASSUME FactoryInv, Next
  PROVE  FactoryInv'
<1>1. "main" \in Thread /\ "monitor" \in Thread
  BY DEF Thread
<1>2. CASE GetFactory \/ LibraryGetsFactory
  BY <1>1, <1>2, CallStep, ReturnStep, FactoryStutters
  DEF GetFactory, LibraryGetsFactory
<1>3. CASE StartMonitor
  BY <1>3, FactoryStarts
<1>4. CASE GetInstance("main") \/ GetInstance("monitor")
  BY <1>1, <1>4, GetInstanceStep DEF GetInstance
<1>5. CASE Register \/ Bind \/ ConfigTask \/ Run
  BY <1>5, FactoryStutters DEF Register, Bind, ConfigTask, Run
<1>6. CASE AddWatch \/ Read \/ NotifyAll \/ Dlopen \/ Add \/ Push
  BY <1>6, FactoryStutters DEF AddWatch, Read, NotifyAll, Dlopen, Add, Push
<1>7. CASE Destroy
  <2>1. UNCHANGED singleton
    BY <1>7 DEF Destroy, JoinReactor, CloseLibraries, FreeHandles, Unregister,
                RmWatch, CloseInotify, JoinMonitor, DestroyPool, DestroyUnchanged
  <2> QED
    BY <2>1, FactoryStutters
<1>8. CASE StopReactor \/ \E l \in Library : WriteFile(l) \/ Create(l) \/ Execute(l)
  BY <1>8, FactoryStutters DEF StopReactor, WriteFile, Create, Execute
<1> QED
  BY <1>2, <1>3, <1>4, <1>5, <1>6, <1>7, <1>8
  DEF Next, MainThread, MonitorThread, Construct, Monitor

-----------------------------------------------------------------------------
(* The queues of events and of handles.                                    *)

LEMMA Empty ==
  ASSUME NEW T
  PROVE  <<>> \in Seq(T) /\ 0 \in 0..Len(<<>>)
OBVIOUS

LEMMA Appended ==
  ASSUME NEW T, NEW q \in Seq(T), NEW e \in T
  PROVE  Append(q, e) \in Seq(T) /\ Len(Append(q, e)) = Len(q) + 1
OBVIOUS

\* A read takes the first event and drops those behind it.
LEMMA Taken ==
  ASSUME NEW T, NEW q \in Seq(T), q # <<>>, NEW b \in Nat \ {0}
  PROVE  LET n == IF Len(q) < b THEN Len(q) ELSE b IN
         Head(q) \in T /\ SubSeq(q, n + 1, Len(q)) \in Seq(T)
<1> DEFINE n == IF Len(q) < b THEN Len(q) ELSE b
<1>1. Len(q) \in Nat /\ Len(q) # 0 /\ Head(q) \in T
  OBVIOUS
<1>2. n \in 1..Len(q)
  BY <1>1
<1> HIDE DEF n
<1>3. SubSeq(q, n + 1, Len(q)) \in Seq(T)
  BY <1>1, <1>2
<1> QED
  BY <1>1, <1>3 DEF n

\* ~SOLoader stays within m_handles, which may still grow.
LEMMA Within ==
  ASSUME NEW T, NEW q \in Seq(T), NEW c \in 0..Len(q)
  PROVE  c \in 0..(Len(q) + 1) /\ (c # Len(q) => c + 1 \in 0..Len(q))
<1>1. Len(q) \in Nat
  OBVIOUS
<1> QED
  BY <1>1

-----------------------------------------------------------------------------
(* The whole program.                                                      *)

\* Nothing is built, loaded or started.
LEMMA InitIInv == Init => IInv
<1> HAVE Init
<1>1. FactoryInv
  <2>1. S!Init
    BY DEF Init
  <2>2. S!TypeOK
    BY <2>1 DEF S!Init, S!TypeOK
  <2>3. Views /\ OneLock /\ HandedOver
    BY <2>1 DEF S!Init, Views, OneLock, Holds, HandedOver, Thread
  <2>4. StoredOrHeld /\ StoreKnown /\ \A t \in Thread : Place(t)
    BY <2>1 DEF S!Init, StoredOrHeld, StoreKnown, Place, Thread
  <2> QED
    BY <2>2, <2>3, <2>4 DEF FactoryInv
<1>2. S!TypeOK
  BY <1>1 DEF FactoryInv
<1>3. TypeOK
  <2>1. events = <<>> /\ handles = <<>> /\ closing = 0
    BY DEF Init
  <2>2. /\ events \in Seq(Library \cup {"ignored"})
        /\ handles \in Seq(Library \cup {NULL}) /\ closing \in 0..Len(handles)
    BY <2>1, Empty
  <2>3. main \in {"factory", "start monitor"}
    BY DEF Init
  <2> QED
    BY <1>2, <2>2, <2>3 DEF Init, TypeOK
<1>4. InHand /\ Outlived /\ UsersOutlived
  BY DEF Init, InHand, Outlived, Building, UsersOutlived
<1> QED
  BY <1>1, <1>3, <1>4 DEF IInv

LEMMA Pushed ==
  ASSUME TypeOK, file \in Library \cup {NULL},
         handles' = Append(handles, file), closing' = closing
  PROVE  handles' \in Seq(Library \cup {NULL}) /\ closing' \in 0..Len(handles')
<1>1. handles \in Seq(Library \cup {NULL}) /\ closing \in 0..Len(handles)
  BY DEF TypeOK
<1>2. /\ Append(handles, file) \in Seq(Library \cup {NULL})
      /\ Len(Append(handles, file)) = Len(handles) + 1
  BY <1>1, Appended
<1>3. closing \in 0..(Len(handles) + 1)
  BY <1>1, Within
<1> QED
  BY <1>2, <1>3

\* The types and the lifetimes, for a step that keeps the factory.
Kept == TypeOK /\ InHand /\ Outlived /\ UsersOutlived

LEMMA ConstructKept ==
  ASSUME IInv, S!TypeOK', Construct, fault = "none"
  PROVE  Kept'
<1> USE DEF IInv, inotify, loader, factory, MainStep, Fault
<1>1. CASE GetFactory
  <2>1. /\ main = "factory" /\ main' \in {"factory", "start monitor", "run"}
        /\ UNCHANGED <<program, monitor, events, file, handles, closing, mapped,
                       added, reactor, tasks, fault>>
    BY <1>1 DEF GetFactory
  <2>2. TypeOK'
    BY <2>1 DEF TypeOK
  <2>3. (InHand /\ Outlived /\ UsersOutlived)'
    BY <2>1 DEF InHand, Outlived, Building, UsersOutlived
  <2> QED
    BY <2>2, <2>3 DEF Kept
<1>2. CASE StartMonitor
  <2>1. TypeOK'
    BY <1>2 DEF StartMonitor, TypeOK
  <2>2. (InHand /\ Outlived /\ UsersOutlived)'
    BY <1>2 DEF StartMonitor, InHand, Outlived, Building, UsersOutlived
  <2> QED
    BY <2>1, <2>2 DEF Kept
<1>3. CASE Register
  <2>1. TypeOK'
    BY <1>3 DEF Register, TypeOK
  <2>2. (InHand /\ Outlived /\ UsersOutlived)'
    BY <1>3 DEF Register, InHand, Outlived, Building, UsersOutlived
  <2> QED
    BY <2>1, <2>2 DEF Kept
<1>4. CASE Bind
  <2>1. TypeOK'
    BY <1>4 DEF Bind, TypeOK
  <2>2. (InHand /\ Outlived /\ UsersOutlived)'
    BY <1>4 DEF Bind, InHand, Outlived, Building, UsersOutlived
  <2> QED
    BY <2>1, <2>2 DEF Kept
<1>5. CASE ConfigTask
  <2>1. TypeOK'
    BY <1>5 DEF ConfigTask, TypeOK
  <2>2. (InHand /\ Outlived /\ UsersOutlived)'
    BY <1>5 DEF ConfigTask, InHand, Outlived, Building, UsersOutlived
  <2> QED
    BY <2>1, <2>2 DEF Kept
<1>6. CASE Run
  <2>1. TypeOK'
    BY <1>6 DEF Run, TypeOK
  <2>2. (InHand /\ Outlived /\ UsersOutlived)'
    BY <1>6 DEF Run, InHand, Outlived, Building, UsersOutlived
  <2> QED
    BY <2>1, <2>2 DEF Kept
<1> QED
  BY <1>1, <1>2, <1>3, <1>4, <1>5, <1>6 DEF Construct

LEMMA MonitorKept ==
  ASSUME IInv, S!TypeOK', Monitor, fault = "none"
  PROVE  Kept'
<1> USE DEF IInv, inotify, loader, factory, Fault
<1>1. CASE AddWatch
  <2>1. TypeOK'
    BY <1>1 DEF AddWatch, TypeOK
  <2>2. (InHand /\ Outlived /\ UsersOutlived)'
    BY <1>1 DEF AddWatch, InHand, Outlived, Building, UsersOutlived
  <2> QED
    BY <2>1, <2>2 DEF Kept
<1>2. CASE Read
  <2>1. CASE open /\ events # <<>>
    <3> DEFINE n == IF Len(events) < BufEvents THEN Len(events) ELSE BufEvents
    <3>1. BufEvents \in Nat \ {0} /\ events \in Seq(Library \cup {"ignored"})
      BY PluginsAssumption DEF TypeOK
    <3>2. Head(events) \in Library \cup {"ignored"}
          /\ SubSeq(events, n + 1, Len(events)) \in Seq(Library \cup {"ignored"})
      BY <2>1, <3>1, Taken
    <3>3. Took(n)
      BY <1>2, <2>1 DEF Read
    <3> HIDE DEF n
    <3>4. TypeOK'
      BY <1>2, <3>2, <3>3 DEF Read, Took, TypeOK
    <3>5. (InHand /\ Outlived /\ UsersOutlived)'
      BY <1>2, <3>3 DEF Read, Took, InHand, Outlived, Building, UsersOutlived
    <3> QED
      BY <3>4, <3>5 DEF Kept
  <2>2. CASE ~(open /\ events # <<>>)
    <3>1. TypeOK'
      BY <1>2, <2>2 DEF Read, TypeOK
    <3>2. (InHand /\ Outlived /\ UsersOutlived)'
      BY <1>2, <2>2 DEF Read, InHand, Outlived, Building, UsersOutlived
    <3> QED
      BY <3>1, <3>2 DEF Kept
  <2> QED
    BY <2>1, <2>2
<1>3. CASE NotifyAll
  <2>1. TypeOK'
    BY <1>3 DEF NotifyAll, TypeOK
  <2>2. (InHand /\ Outlived /\ UsersOutlived)'
    BY <1>3 DEF NotifyAll, InHand, Outlived, Building, UsersOutlived
  <2> QED
    BY <2>1, <2>2 DEF Kept
<1>4. CASE Dlopen
  <2>1. TypeOK'
    BY <1>4, PluginsAssumption DEF Dlopen, TypeOK
  <2>2. (InHand /\ Outlived /\ UsersOutlived)'
    BY <1>4, PluginsAssumption DEF Dlopen, InHand, Outlived, Building, UsersOutlived
  <2> QED
    BY <2>1, <2>2 DEF Kept
<1>5. CASE LibraryGetsFactory
  <2>1. TypeOK'
    BY <1>5 DEF LibraryGetsFactory, TypeOK
  <2>2. (InHand /\ Outlived /\ UsersOutlived)'
    BY <1>5 DEF LibraryGetsFactory, InHand, Outlived, Building, UsersOutlived
  <2> QED
    BY <2>1, <2>2 DEF Kept
<1>6. CASE Add
  <2>1. /\ monitor = "add" /\ monitor' = "push" /\ added' = added \cup {file}
        /\ UNCHANGED <<program, main, events, file, handles, closing, mapped,
                       reactor, tasks, fault>>
    BY <1>6 DEF Add
  <2>2. file \in Loadable /\ file \in Library
    BY <2>1, PluginsAssumption DEF InHand
  <2>3. added' \subseteq Loadable /\ tasks' \subseteq added'
    BY <2>1, <2>2 DEF TypeOK
  <2>4. TypeOK'
    BY <2>1, <2>3 DEF TypeOK
  <2>5. (InHand /\ UsersOutlived)'
    BY <2>1, <2>2 DEF InHand, UsersOutlived
  <2>6. Outlived'
    BY <2>1 DEF Outlived, Building
  <2> QED
    BY <2>4, <2>5, <2>6 DEF Kept
<1>7. CASE Push
  <2>1. file \in Library \cup {NULL}
    BY <1>7 DEF Push, InHand
  <2>2. handles' = Append(handles, file) /\ closing' = closing
    BY <1>7 DEF Push
  <2>3. handles' \in Seq(Library \cup {NULL}) /\ closing' \in 0..Len(handles')
    BY <2>1, <2>2, Pushed
  <2>4. fault' \notin {"destroyed dispatcher", "function of a closed library",
                      "task of a closed library"}
    BY <1>7 DEF Push
  <2>5. TypeOK'
    BY <1>7, <2>3 DEF Push, TypeOK
  <2>6. (InHand /\ Outlived /\ UsersOutlived)'
    BY <1>7, <2>4 DEF Push, InHand, Outlived, Building, UsersOutlived
  <2> QED
    BY <2>5, <2>6 DEF Kept
<1> QED
  BY <1>1, <1>2, <1>3, <1>4, <1>5, <1>6, <1>7 DEF Monitor

LEMMA DestroyKept ==
  ASSUME IInv, S!TypeOK', Destroy, fault = "none"
  PROVE  Kept'
<1> USE DEF IInv, TypeOK, InHand, Outlived, UsersOutlived, Building, inotify, loader,
            factory, MainStep, Fault, Kept, DestroyUnchanged
<1>1. CASE JoinReactor
  BY <1>1 DEF JoinReactor
<1>2. CASE CloseLibraries
  <2>1. CASE closing = Len(handles)
    BY <1>2, <2>1 DEF CloseLibraries
  <2>2. CASE closing # Len(handles)
    <3>1. closing' = closing + 1 /\ handles' = handles
      BY <1>2, <2>2 DEF CloseLibraries
    <3>2. closing + 1 \in 0..Len(handles)
      BY <2>2, Within
    <3>3. closing' \in 0..Len(handles')
      BY <3>1, <3>2
    <3>4. /\ mapped' \subseteq mapped /\ main' = "dlclose" /\ main = "dlclose"
          /\ fault' \in {"none", "dlclose of NULL"}
      BY <1>2, <2>2 DEF CloseLibraries
    <3> QED
      BY <1>2, <3>1, <3>3, <3>4 DEF CloseLibraries
  <2> QED
    BY <2>1, <2>2
<1>3. CASE FreeHandles
  BY <1>3 DEF FreeHandles
<1>4. CASE Unregister
  BY <1>4 DEF Unregister
<1>5. CASE RmWatch
  <2>1. Append(events, "ignored") \in Seq(Library \cup {"ignored"})
    BY Appended
  <2>2. events' \in Seq(Library \cup {"ignored"})
    BY <1>5, <2>1 DEF RmWatch
  <2> QED
    BY <1>5, <2>2 DEF RmWatch
<1>6. CASE CloseInotify
  BY <1>6 DEF CloseInotify
<1>7. CASE JoinMonitor
  BY <1>7 DEF JoinMonitor
<1>8. CASE DestroyPool
  BY <1>8 DEF DestroyPool
<1> QED
  BY <1>1, <1>2, <1>3, <1>4, <1>5, <1>6, <1>7, <1>8 DEF Destroy

LEMMA UsersKept ==
  ASSUME IInv, S!TypeOK', fault = "none",
         \/ StopReactor
         \/ \E l \in Library : WriteFile(l) \/ Create(l) \/ Execute(l)
         \/ \E t \in Thread : GetInstance(t)
  PROVE  Kept'
<1> USE DEF IInv, inotify, loader, factory, Fault
<1>1. CASE StopReactor
  <2>1. TypeOK'
    BY <1>1 DEF StopReactor, TypeOK
  <2>2. (InHand /\ Outlived /\ UsersOutlived)'
    BY <1>1 DEF StopReactor, InHand, Outlived, Building, UsersOutlived
  <2> QED
    BY <2>1, <2>2 DEF Kept
<1>2. ASSUME NEW l \in Library, WriteFile(l) PROVE Kept'
  <2>1. Append(events, l) \in Seq(Library \cup {"ignored"})
    BY Appended DEF TypeOK
  <2>2. events' \in Seq(Library \cup {"ignored"})
    BY <1>2, <2>1 DEF WriteFile, TypeOK
  <2>3. TypeOK'
    BY <1>2, <2>2 DEF WriteFile, TypeOK
  <2>4. (InHand /\ Outlived /\ UsersOutlived)'
    BY <1>2 DEF WriteFile, InHand, Outlived, Building, UsersOutlived
  <2> QED
    BY <2>3, <2>4 DEF Kept
<1>3. ASSUME NEW l \in Library, Create(l) PROVE Kept'
  <2>1. tasks' \subseteq added
    BY <1>3 DEF Create, TypeOK
  <2>2. TypeOK'
    BY <1>3, <2>1 DEF Create, TypeOK
  <2>3. /\ Building /\ (l \in added => l \in mapped)
        /\ program = "engine" => tasks' = {}
    BY <1>3 DEF Create, Outlived
  <2>4. (InHand /\ Outlived /\ UsersOutlived)'
    BY <1>3, <2>3 DEF Create, InHand, Outlived, Building, UsersOutlived
  <2> QED
    BY <2>2, <2>4 DEF Kept
<1>4. ASSUME NEW l \in Library, Execute(l) PROVE Kept'
  <2>1. tasks' \subseteq added
    BY <1>4 DEF Execute, TypeOK
  <2>2. TypeOK'
    BY <1>4, <2>1 DEF Execute, TypeOK
  <2>3. l \in mapped /\ program # "engine" /\ Building
    BY <1>4 DEF Execute, Outlived, TypeOK
  <2>4. (InHand /\ Outlived /\ UsersOutlived)'
    BY <1>4, <2>3 DEF Execute, InHand, Outlived, Building, UsersOutlived
  <2> QED
    BY <2>2, <2>4 DEF Kept
<1>5. ASSUME NEW t \in Thread, GetInstance(t) PROVE Kept'
  <2>1. TypeOK'
    BY <1>5 DEF GetInstance, TypeOK
  <2>2. (InHand /\ Outlived /\ UsersOutlived)'
    BY <1>5 DEF GetInstance, InHand, Outlived, Building, UsersOutlived
  <2> QED
    BY <2>1, <2>2 DEF Kept
<1> QED
  BY <1>1, <1>2, <1>3, <1>4, <1>5

\* The invariant is inductive.
LEMMA NextIInv == IInv /\ [Next]_vars => IInv'
<1> SUFFICES ASSUME IInv, [Next]_vars PROVE IInv'
  OBVIOUS
<1>1. CASE Next
  <2>1. FactoryInv'
    BY <1>1, FactoryStep DEF IInv
  <2>2. S!TypeOK'
    BY <2>1 DEF FactoryInv
  <2>3. Kept'
    BY <1>1, <2>2, ConstructKept, MonitorKept, DestroyKept, UsersKept
    DEF Next, MainThread, MonitorThread, Thread
  <2> QED
    BY <2>1, <2>3 DEF IInv, Kept
<1>2. CASE UNCHANGED vars
  <2>1. FactoryInv'
    BY <1>2, FactoryStutters DEF vars, IInv
  <2>2. S!TypeOK'
    BY <2>1 DEF FactoryInv
  <2>3. Kept'
    <3>1. UNCHANGED <<program, main, monitor, events, file, handles, closing, mapped, added,
                      reactor, tasks, fault>>
      BY <1>2 DEF vars, inotify, loader, factory
    <3>2. TypeOK'
      BY <2>2, <3>1 DEF IInv, TypeOK
    <3>3. (InHand /\ Outlived /\ UsersOutlived)'
      BY <3>1 DEF IInv, InHand, Outlived, Building, UsersOutlived
    <3> QED
      BY <3>2, <3>3 DEF Kept
  <2> QED
    BY <2>1, <2>3 DEF IInv, Kept
<1> QED
  BY <1>1, <1>2

LEMMA Inductive == Spec => []IInv
BY InitIInv, NextIInv, PTL DEF Spec

-----------------------------------------------------------------------------
(***************************************************************************)
(* The state of the two threads, of the loader and of the factory stays    *)
(* within its types, for any libraries.                                    *)
(***************************************************************************)
THEOREM TypeCorrect == Spec => []TypeOK
<1>1. IInv => TypeOK
  BY DEF IInv
<1> QED
  BY Inductive, <1>1, PTL

(***************************************************************************)
(* Main and the monitor's thread may ask for the libraries' factory at any *)
(* time and in any order: it is built once.                                *)
(***************************************************************************)
THEOREM BuiltOnce == Spec => []OneFactory
<1>1. IInv => OneFactory
  BY DEF IInv, FactoryInv, StoredOrHeld, OneFactory, S!OneInstance
<1> QED
  BY Inductive, <1>1, PTL

(***************************************************************************)
(* Whoever returns from GetInstance knows of the construction of what it   *)
(* got, on the fast path, with its one relaxed load and its fence, as on   *)
(* the path through the mutex.                                             *)
(***************************************************************************)
THEOREM SeenBuilt == Spec => []FactoryBuilt
<1>1. IInv => FactoryBuilt
  BY DEF IInv, FactoryInv, Place, Thread, FactoryBuilt, S!InstanceBuilt
<1> QED
  BY Inductive, <1>1, PTL

(***************************************************************************)
(* The monitor's thread never calls a dispatcher that is destroyed, main   *)
(* and the reactor never a function of a library that ~SOLoader has        *)
(* closed, and no task is destroyed after its library.                     *)
(***************************************************************************)
THEOREM NoneOutlived == Spec => []UsersOutlived
<1>1. IInv => UsersOutlived
  BY DEF IInv
<1> QED
  BY Inductive, <1>1, PTL
=============================================================================
