-------------------------- MODULE LifecycleProofs ---------------------------
(***************************************************************************)
(* For every failure of a bind or of a thread creation and every order of  *)
(* steps: the threads use only what exists, and the destructor releases    *)
(* everything.                                                             *)
(***************************************************************************)
EXTENDS Lifecycle, TLAPS

Idle == {"none", "ended"}
Needed == {"udpControlSocket", "udpDataSocket", "udpMutex", "dataAvailable",
           "writeBufferMutex", "dataWriteAvailable"}

\* Where the driver and where a thread may be.
Mains == {"bind control", "bind data", "initialize", "create", "ready", "join",
          "suspended", "release", "destroyed"}
Places == {"none", "test", "wait", "work", "ended"}

Types ==
  /\ main \in Mains
  /\ count \in 0 .. 9
  /\ threadId \subseteq Threads
  /\ pc \in [Threads -> Places]
  /\ live \subseteq Resources
  /\ handle = live

\* Before the first thread is created none runs; what they need is there as long as one
\* does, and the driver holds the id of each that does.
Running ==
  /\ main \in {"bind control", "bind data", "initialize"} =>
       count = 0 /\ \A t \in Threads : pc[t] = "none"
  /\ main = "create" => Needed \subseteq live /\ count \in 0 .. 4
  /\ main = "ready" => count = 0
  /\ main = "join" => count \in 0 .. 4
  /\ main \notin {"release", "destroyed"} =>
       \A t \in Threads : pc[t] # "none" => Needed \subseteq live
  /\ \A t \in Threads : pc[t] \notin Idle => t \in threadId

\* Threads are joined before anything is released, and what was released stays so.
Leaving ==
  /\ main = "join" => \A i \in 1 .. count : pc[ThreadOrder[i]] \in Idle
  /\ main \in {"release", "destroyed"} => \A t \in Threads : pc[t] \in Idle
  /\ main = "release" => \A i \in 1 .. count : ReleaseOrder[i] \notin live
  /\ main = "destroyed" => live = {}

LifeInv == Types /\ Running /\ Leaving

-----------------------------------------------------------------------------
\* The four threads are those of ThreadOrder.
LEMMA OrderOfThreads ==
  /\ Len(ThreadOrder) = 4
  /\ \A i \in 1 .. 4 : ThreadOrder[i] \in Threads
  /\ \A t \in Threads : \E i \in 1 .. 4 : t = ThreadOrder[i]
<1>1. /\ ThreadOrder[1] = "udpControl" /\ ThreadOrder[2] = "udpData"
      /\ ThreadOrder[3] = "dataProcessing" /\ ThreadOrder[4] = "dataWrite"
      /\ Len(ThreadOrder) = 4
  BY DEF ThreadOrder
<1>2. \A i \in 1 .. 4 : i = 1 \/ i = 2 \/ i = 3 \/ i = 4
  OBVIOUS
<1>3. 1 \in 1 .. 4 /\ 2 \in 1 .. 4 /\ 3 \in 1 .. 4 /\ 4 \in 1 .. 4
  OBVIOUS
<1> QED
  BY <1>1, <1>2, <1>3, Zenon DEF Threads

\* Every resource is released somewhere in ReleaseOrder.
LEMMA OrderOfRelease ==
  /\ Len(ReleaseOrder) = 9
  /\ \A r \in Resources : \E i \in 1 .. 9 : r = ReleaseOrder[i]
<1>1. /\ ReleaseOrder[1] = "dataFile" /\ ReleaseOrder[2] = "udpControlSocket"
      /\ ReleaseOrder[3] = "udpDataSocket" /\ ReleaseOrder[4] = "udpMutex"
      /\ ReleaseOrder[5] = "dataAvailable" /\ ReleaseOrder[6] = "writeBufferMutex"
      /\ ReleaseOrder[7] = "dataWriteAvailable" /\ Len(ReleaseOrder) = 9
  BY DEF ReleaseOrder
<1>2. /\ 1 \in 1 .. 9 /\ 2 \in 1 .. 9 /\ 3 \in 1 .. 9 /\ 4 \in 1 .. 9 /\ 5 \in 1 .. 9
      /\ 6 \in 1 .. 9 /\ 7 \in 1 .. 9
  OBVIOUS
<1> QED
  BY <1>1, <1>2, Zenon DEF Resources

\* What the threads use is among what is created before them.
LEMMA UsesNeeded == \A t \in Threads : Uses(t) \subseteq Needed
  BY DEF Threads, Uses, Needed

\* Nothing is there in the beginning.
LEMMA InitLife == Init => LifeInv
<1> SUFFICES ASSUME Init PROVE LifeInv
  OBVIOUS
<1>1. pc = [t \in Threads |-> "none"] /\ main = "bind control" /\ count = 0
  BY DEF Init
<1>5. count = 0
  BY <1>1
<1>2. Types
  <2>1. pc \in [Threads -> Places]
    BY <1>1 DEF Places
  <2>2. main \in Mains
    BY <1>1, Zenon DEF Mains
  <2>5. count \in 0 .. 9
    BY <1>5
  <2>3. threadId = {} /\ live = {} /\ handle = {}
    BY DEF Init
  <2>4. threadId \subseteq Threads /\ live \subseteq Resources /\ handle = live
    BY <2>3
  <2> QED
    BY <2>1, <2>2, <2>4, <2>5 DEF Types
<1>3. Running
  BY <1>1 DEF Running, Idle
<1>4. Leaving
  BY <1>1 DEF Leaving
<1> QED
  BY <1>2, <1>3, <1>4 DEF LifeInv

-----------------------------------------------------------------------------
\* A thread that runs takes a step of its own: only its place changes, and the write
\* thread may open a data file.
LEMMA ThreadStep ==
  ASSUME LifeInv, NEW t \in Threads, NEW place \in Places \ {"none"},
         pc[t] \notin Idle, pc' = [pc EXCEPT ![t] = place],
         place = "ended" \/ place \notin Idle,
         UNCHANGED <<main, count, udpInitialized, threadsRunning, threadId>>,
         \/ UNCHANGED resources
         \/ t = "dataWrite" /\ Acquire({"dataFile"})
  PROVE  LifeInv'
<1> USE DEF LifeInv
<1>1. Types'
  BY DEF Types, resources, Acquire, Resources
<1>2. main \notin {"release", "destroyed"}
  BY DEF Leaving
<1>3. pc \in [Threads -> Places] /\ live \subseteq live'
  BY DEF Types, resources, Acquire
<1>4. \A u \in Threads : u # t => pc'[u] = pc[u]
  BY <1>3
<1>5. pc'[t] = place
  BY <1>3
<1>6. Running'
  <2>1. t \in threadId /\ Needed \subseteq live
    BY <1>2 DEF Running, Idle
  <2>2. main \notin {"bind control", "bind data", "initialize"}
    BY DEF Running, Idle
  <2> QED
    BY <1>2, <1>3, <1>4, <1>5, <2>1, <2>2 DEF Running
<1>7. Leaving'
  <2>1. main = "join" => \A i \in 1 .. count : pc'[ThreadOrder[i]] \in Idle
    <3> SUFFICES ASSUME main = "join", NEW i \in 1 .. count
                 PROVE pc'[ThreadOrder[i]] \in Idle
      OBVIOUS
    <3>1. i \in 1 .. 4
      BY DEF Running
    <3>2. ThreadOrder[i] \in Threads /\ pc[ThreadOrder[i]] \in Idle
      BY <3>1, OrderOfThreads DEF Leaving
    <3> QED
      BY <3>2, <1>4
  <2> QED
    BY <1>2, <2>1 DEF Leaving
<1> QED
  BY <1>1, <1>6, <1>7

\* Every step keeps LifeInv.
LEMMA NextLife == LifeInv /\ [Next]_vars => LifeInv'
<1> SUFFICES ASSUME LifeInv, [Next]_vars PROVE LifeInv'
  OBVIOUS
<1> USE DEF LifeInv, Types, Running, Leaving, Mains, Places, Idle
<1>1. CASE BindControl
  BY <1>1 DEF BindControl, Acquire, Resources, resources
<1>2. CASE BindData
  BY <1>2 DEF BindData, Acquire, Resources, resources
<1>3. CASE InitializeFailed
  BY <1>3 DEF InitializeFailed, resources
<1>4. CASE Initialize
  BY <1>4 DEF Initialize, Acquire, Resources, Needed, resources
<1>5. CASE CreateThread
  BY <1>5, OrderOfThreads DEF CreateThread, resources
<1>6. CASE Constructed
  BY <1>6, OrderOfThreads DEF Constructed, resources
<1>7. CASE Destroy
  BY <1>7 DEF Destroy, resources
<1>8. CASE Join
  BY <1>8, OrderOfThreads DEF Join, resources
<1>16. CASE JoinFails
  BY <1>16 DEF JoinFails, resources
<1>9. CASE Joined
  BY <1>9, OrderOfThreads DEF Joined, resources
<1>10. CASE Release
  BY <1>10, OrderOfRelease DEF Release
<1>11. CASE Destroyed
  BY <1>11, OrderOfRelease DEF Destroyed, resources
<1>12. ASSUME NEW t \in Threads, TestRunning(t) PROVE LifeInv'
  <2>1. pc[t] = "test" /\ UNCHANGED resources
    BY <1>12 DEF TestRunning
  <2>2. PICK place \in {"wait", "ended"} : pc' = [pc EXCEPT ![t] = place]
    BY <1>12 DEF TestRunning
  <2> HIDE DEF LifeInv, Types, Running, Leaving
  <2> QED
    BY <1>12, <2>1, <2>2, ThreadStep DEF TestRunning
<1>13. ASSUME NEW t \in Threads, Wait(t) PROVE LifeInv'
  <2> HIDE DEF LifeInv, Types, Running, Leaving
  <2> QED
    BY <1>13, ThreadStep DEF Wait
<1>14. ASSUME NEW t \in Threads, Work(t) PROVE LifeInv'
  <2> HIDE DEF LifeInv, Types, Running, Leaving
  <2> QED
    BY <1>14, ThreadStep DEF Work
<1>15. CASE UNCHANGED vars
  BY <1>15 DEF vars
<1> HIDE DEF LifeInv
<1> QED
  BY <1>1, <1>2, <1>3, <1>4, <1>5, <1>6, <1>7, <1>8, <1>9, <1>10, <1>11, <1>12, <1>13,
     <1>14, <1>15, <1>16 DEF Next, Construct, Destruct, Run

\* The driver's handles are exactly what exists; threads run only between the creation
\* of what they need and the join, in every state (germaniumDetector.cpp).
THEOREM LifeAlways == Spec => []LifeInv
  BY InitLife, NextLife, PTL DEF Spec

\* The threads never use what does not exist yet or no longer (the constructor creates
\* everything before the first thread, the destructor releases nothing before every join
\* has returned), whichever bind or thread creation failed.
THEOREM ThreadsSafe == Spec => []SafeUse
<1>1. LifeInv => SafeUse
  BY UsesNeeded DEF LifeInv, Types, Running, Leaving, Idle, SafeUse
<1> QED
  BY <1>1, LifeAlways, PTL

\* Nothing that was opened or created is left when the destructor is done, if it comes
\* that far (closeCurrentDataFile, closeUDPSockets and ~germaniumDetector).
THEOREM AllReleased == Spec => []NothingLeaks
<1>1. LifeInv => NothingLeaks
  BY DEF LifeInv, Leaving, NothingLeaks
<1> QED
  BY <1>1, LifeAlways, PTL

\* A handle that is held is that of something that exists, so what closeUDPSockets
\* released is not released again by ~germaniumDetector.
THEOREM NoDanglingHandle == Spec => []HandlesValid
<1>1. LifeInv => HandlesValid
  BY DEF LifeInv, Types, HandlesValid
<1> QED
  BY <1>1, LifeAlways, PTL

\* Flags are flags, and the ids held are those of threads that were created: the
\* constructor keeps an id only when epicsThreadCreate gave one.
Ids ==
  /\ udpInitialized \in BOOLEAN
  /\ threadsRunning \in BOOLEAN
  /\ \A t \in threadId : pc[t] # "none"

\* A thread that was created is never uncreated.
LEMMA NextIds == LifeInv /\ Ids /\ [Next]_vars => Ids'
<1> SUFFICES ASSUME LifeInv, Ids, [Next]_vars PROVE Ids'
  OBVIOUS
<1> USE DEF Ids
<1>1. pc \in [Threads -> Places] /\ threadId \subseteq Threads
  BY DEF LifeInv, Types
<1>2. CASE Construct
  <2>1. CASE CreateThread
    <3>1. count \in 0 .. 4 /\ count < 4
      BY <2>1, OrderOfThreads DEF CreateThread, LifeInv, Running
    <3>2. count + 1 \in 1 .. 4
      BY <3>1
    <3>3. PICK t \in Threads : t = ThreadOrder[count + 1]
      BY <3>2, OrderOfThreads
    <3>4. \/ threadId' = threadId \cup {t} /\ pc' = [pc EXCEPT ![t] = "test"]
          \/ UNCHANGED <<threadId, pc>>
      BY <2>1, <3>3 DEF CreateThread
    <3> QED
      BY <1>1, <2>1, <3>4 DEF CreateThread
  <2>2. CASE ~CreateThread
    BY <1>2, <2>2 DEF Construct, BindControl, BindData, InitializeFailed, Initialize,
                      Constructed
  <2> QED
    BY <2>1, <2>2
<1>3. CASE Destroy \/ Destruct
  BY <1>3 DEF Destroy, Destruct, Join, JoinFails, Joined, Release, Destroyed
<1>4. ASSUME NEW t \in Threads, Run(t) PROVE Ids'
  <2>1. PICK place \in Places \ {"none"} : pc' = [pc EXCEPT ![t] = place]
    BY <1>4 DEF Run, TestRunning, Wait, Work, Places
  <2>2. UNCHANGED <<udpInitialized, threadsRunning, threadId>>
    BY <1>4 DEF Run, TestRunning, Wait, Work
  <2> QED
    BY <1>1, <2>1, <2>2
<1>5. CASE UNCHANGED vars
  BY <1>5 DEF vars
<1> QED
  BY <1>2, <1>3, <1>4, <1>5 DEF Next

\* Every variable has its type, and the destructor tries to join only threads that were
\* created, whichever creation failed (germaniumDetector.cpp).
THEOREM LifeTypes == Spec => []TypeOK
<1>1. Init => Ids
  BY DEF Init, Ids
<1>2. LifeInv /\ Ids => TypeOK
  BY DEF LifeInv, Types, Mains, Places, Ids, TypeOK
<1> QED
  BY <1>1, <1>2, LifeAlways, NextIds, PTL DEF Spec
=============================================================================
