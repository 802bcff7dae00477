----------------------------- MODULE Lifecycle ------------------------------
(***************************************************************************)
(* The life of the driver: its constructor opens sockets, creates a mutex  *)
(* and an event for the network and others for the write buffer, and       *)
(* starts four threads; its destructor tells the threads to stop, joins    *)
(* them, and releases everything (germaniumDetector.cpp,                   *)
(* germaniumDetectorNetwork.cpp).                                          *)
(*                                                                         *)
(* What is opened or created is a resource.  The driver refers to it by a  *)
(* handle (a descriptor or a pointer), which may outlive it.  Of each      *)
(* thread's loop there remain its test of threadsRunning, its wait, with   *)
(* the time limit of the code, and its work.  The handlers of the port     *)
(* thread, which use some of the resources too, are not modelled here.     *)
(*                                                                         *)
(* epicsThreadCreate and epicsThreadMustJoin are external.  The first may  *)
(* fail and return no id; the threads it makes are not joinable.  The      *)
(* second, given a thread that is not joinable, suspends its caller for    *)
(* ever, or, when the thread has ended and its record was freed, goes by   *)
(* what it reads there, and may return.                                    *)
(***************************************************************************)
EXTENDS Integers, Sequences

Threads == {"udpControl", "udpData", "dataProcessing", "dataWrite"}

\* Threads are created, and joined, in this order.
ThreadOrder == <<"udpControl", "udpData", "dataProcessing", "dataWrite">>

Resources == {"udpControlSocket", "udpDataSocket", "udpMutex", "dataAvailable",
              "writeBufferMutex", "dataWriteAvailable", "dataFile"}

VARIABLES
  main,              \* where the constructor or the destructor is
  count,             \* the loop over ThreadOrder or ReleaseOrder: entries done
  live,              \* the resources that exist
  handle,            \* the resources the driver has a handle of
  udpInitialized,
  threadsRunning,
  threadId,          \* the threads whose id the driver holds
  pc                 \* [Threads -> where each is]

vars == <<main, count, live, handle, udpInitialized, threadsRunning, threadId, pc>>
resources == <<live, handle>>

Init ==
  /\ main = "bind control"
  /\ count = 0
  /\ live = {}
  /\ handle = {}
  /\ udpInitialized = FALSE
  /\ threadsRunning = FALSE
  /\ threadId = {}
  /\ pc = [t \in Threads |-> "none"]

Acquire(rs) == live' = live \cup rs /\ handle' = handle \cup rs

-----------------------------------------------------------------------------
(* The constructor.                                                        *)

\* make_udp_bind gives a socket or none; the second is tried whatever the first gave.
BindControl ==
  /\ main = "bind control"
  /\ main' = "bind data"
  /\ Acquire({"udpControlSocket"}) \/ UNCHANGED resources
  /\ UNCHANGED <<count, udpInitialized, threadsRunning, threadId, pc>>

BindData ==
  /\ main = "bind data"
  /\ main' = "initialize"
  /\ Acquire({"udpDataSocket"}) \/ UNCHANGED resources
  /\ UNCHANGED <<count, udpInitialized, threadsRunning, threadId, pc>>

\* initializeUDPSockets fails when a socket is missing, and keeps the other one.
InitializeFailed ==
  /\ main = "initialize"
  /\ ~({"udpControlSocket", "udpDataSocket"} \subseteq handle)
  /\ main' = "ready"
  /\ UNCHANGED <<count, resources, udpInitialized, threadsRunning, threadId, pc>>

\* Everything the threads use is created before the first of them.
Initialize ==
  /\ main = "initialize"
  /\ {"udpControlSocket", "udpDataSocket"} \subseteq handle
  /\ Acquire({"udpMutex", "dataAvailable", "writeBufferMutex", "dataWriteAvailable"})
  /\ udpInitialized' = TRUE
  /\ threadsRunning' = TRUE
  /\ main' = "create"
  /\ UNCHANGED <<count, threadId, pc>>

\* Fault: an id is kept for a thread that could not be created.
CreateThreadUnchecked ==
  /\ main = "create"
  /\ count < Len(ThreadOrder)
  /\ LET t == ThreadOrder[count + 1]
     IN  /\ threadId' = threadId \cup {t}
         /\ pc' = [pc EXCEPT ![t] = "test"] \/ UNCHANGED pc
  /\ count' = count + 1
  /\ UNCHANGED <<main, resources, udpInitialized, threadsRunning>>

\* The next thread is created and runs at once, or cannot be created.
CreateThread ==
  /\ main = "create"
  /\ count < Len(ThreadOrder)
  /\ LET t == ThreadOrder[count + 1]
     IN  \/ threadId' = threadId \cup {t} /\ pc' = [pc EXCEPT ![t] = "test"]
         \/ UNCHANGED <<threadId, pc>>
  /\ count' = count + 1
  /\ UNCHANGED <<main, resources, udpInitialized, threadsRunning>>

Constructed ==
  /\ main = "create"
  /\ count = Len(ThreadOrder)
  /\ main' = "ready"
  /\ count' = 0
  /\ UNCHANGED <<resources, udpInitialized, threadsRunning, threadId, pc>>

-----------------------------------------------------------------------------
(* The threads.                                                            *)

\* What a thread uses in its wait and in its work.
Uses(t) ==
  [udpControl |-> {"udpControlSocket"},
   udpData |-> {"udpDataSocket"},
   dataProcessing |-> {"dataAvailable"},
   dataWrite |-> {"dataWriteAvailable", "writeBufferMutex"}][t]

\* The loop goes on while threadsRunning.
TestRunning(t) ==
  /\ pc[t] = "test"
  /\ pc' = [pc EXCEPT ![t] = IF threadsRunning THEN "wait" ELSE "ended"]
  /\ UNCHANGED <<main, count, resources, udpInitialized, threadsRunning, threadId>>

\* Fault: the wait of the data processing thread has no time limit; nobody ever
\* signals dataAvailable.
WaitForever(t) ==
  /\ pc[t] = "wait"
  /\ t # "dataProcessing"
  /\ pc' = [pc EXCEPT ![t] = "work"]
  /\ UNCHANGED <<main, count, resources, udpInitialized, threadsRunning, threadId>>

\* Each wait ends after a second at the latest.
Wait(t) ==
  /\ pc[t] = "wait"
  /\ pc' = [pc EXCEPT ![t] = "work"]
  /\ UNCHANGED <<main, count, resources, udpInitialized, threadsRunning, threadId>>

\* The write thread may open a data file, or close one to open the next.
Work(t) ==
  /\ pc[t] = "work"
  /\ pc' = [pc EXCEPT ![t] = "test"]
  /\ \/ UNCHANGED resources
     \/ t = "dataWrite" /\ Acquire({"dataFile"})
  /\ UNCHANGED <<main, count, udpInitialized, threadsRunning, threadId>>

-----------------------------------------------------------------------------
(* The destructor.                                                         *)

Destroy ==
  /\ main = "ready"
  /\ threadsRunning' = FALSE
  /\ main' = "join"
  /\ UNCHANGED <<count, resources, udpInitialized, threadId, pc>>

\* Fault: the threads are not joined.
JoinNone ==
  /\ main = "join"
  /\ count < Len(ThreadOrder)
  /\ threadId' = threadId \ {ThreadOrder[count + 1]}
  /\ count' = count + 1
  /\ UNCHANGED <<main, resources, udpInitialized, threadsRunning, pc>>

\* The next thread was not created, or has ended and the join returns.
Join ==
  /\ main = "join"
  /\ count < Len(ThreadOrder)
  /\ LET t == ThreadOrder[count + 1]
     IN  /\ t \in threadId => pc[t] = "ended"
         /\ threadId' = threadId \ {t}
  /\ count' = count + 1
  /\ UNCHANGED <<main, resources, udpInitialized, threadsRunning, pc>>

\* The thread is not joinable: the join suspends the destructor, whether the thread has
\* ended or not.
JoinFails ==
  /\ main = "join"
  /\ count < Len(ThreadOrder)
  /\ ThreadOrder[count + 1] \in threadId
  /\ main' = "suspended"
  /\ UNCHANGED <<count, resources, udpInitialized, threadsRunning, threadId, pc>>

Joined ==
  /\ main = "join"
  /\ count = Len(ThreadOrder)
  /\ main' = "release"
  /\ count' = 0
  /\ udpInitialized' = FALSE
  /\ UNCHANGED <<resources, threadsRunning, threadId, pc>>

\* Fault: closeUDPSockets forgets one socket.
ReleaseOrderShort ==
  <<"dataFile", "udpControlSocket", "udpMutex", "dataAvailable", "writeBufferMutex",
    "dataWriteAvailable", "udpMutex", "dataAvailable">>

\* closeCurrentDataFile, closeUDPSockets, and the destructor itself, which comes back
\* to two resources that closeUDPSockets has released.
ReleaseOrder ==
  <<"dataFile", "udpControlSocket", "udpDataSocket", "udpMutex", "dataAvailable",
    "writeBufferMutex", "dataWriteAvailable", "udpMutex", "dataAvailable">>

\* Fault: the handle of what is released is kept.
ReleaseDangling ==
  /\ main = "release"
  /\ count < Len(ReleaseOrder)
  /\ LET r == ReleaseOrder[count + 1]
     IN  live' = IF r \in handle THEN live \ {r} ELSE live
  /\ count' = count + 1
  /\ UNCHANGED <<main, handle, udpInitialized, threadsRunning, threadId, pc>>

\* A resource whose handle is held is released, and the handle cleared.
Release ==
  /\ main = "release"
  /\ count < Len(ReleaseOrder)
  /\ LET r == ReleaseOrder[count + 1]
     IN  /\ live' = IF r \in handle THEN live \ {r} ELSE live
         /\ handle' = handle \ {r}
  /\ count' = count + 1
  /\ UNCHANGED <<main, udpInitialized, threadsRunning, threadId, pc>>

Destroyed ==
  /\ main = "release"
  /\ count = Len(ReleaseOrder)
  /\ main' = "destroyed"
  /\ UNCHANGED <<count, resources, udpInitialized, threadsRunning, threadId, pc>>

-----------------------------------------------------------------------------
Construct ==
  \/ BindControl \/ BindData \/ InitializeFailed \/ Initialize \/ CreateThread
  \/ Constructed

Destruct == Join \/ JoinFails \/ Joined \/ Release \/ Destroyed

Run(t) == TestRunning(t) \/ Wait(t) \/ Work(t)

Next == Construct \/ Destroy \/ Destruct \/ \E t \in Threads : Run(t)

Spec == Init /\ [][Next]_vars

\* Every thread that can run is run at last; whether the driver is ever destroyed is
\* up to its owner.
Fairness ==
  /\ WF_vars(Construct)
  /\ WF_vars(Destruct)
  /\ \A t \in Threads : WF_vars(Run(t))

FairSpec == Spec /\ Fairness

-----------------------------------------------------------------------------
(* Properties.                                                             *)

\* Every variable has its type, and an id is that of a thread that was created.
TypeOK ==
  /\ main \in {"bind control", "bind data", "initialize", "create", "ready", "join",
               "suspended", "release", "destroyed"}
  /\ count \in 0 .. 9
  /\ live \subseteq Resources
  /\ handle \subseteq Resources
  /\ udpInitialized \in BOOLEAN
  /\ threadsRunning \in BOOLEAN
  /\ threadId \subseteq {t \in Threads : pc[t] # "none"}
  /\ pc \in [Threads -> {"none", "test", "wait", "work", "ended"}]

\* None of the four threads waits on, receives from or locks anything that does not exist
\* yet or no longer, from its first step to its last, whichever bind or thread creation
\* failed and whichever join returned.
SafeUse ==
  \A t \in Threads : pc[t] \in {"wait", "work"} => Uses(t) \subseteq live \cap handle

\* No handle outlives its resource: closeUDPSockets and the destructor both release
\* udpMutex and dataAvailable, and release them once.
HandlesValid == handle \subseteq live

\* Nothing is left behind by a destructor that comes to its end, also when one of two
\* sockets could not be bound and the constructor gave up half-way.
NothingLeaks == main = "destroyed" => live = {}

\* The threads end once the destructor has told them to, although nobody wakes them up
\* and the destructor itself may be suspended: each leaves its wait, within its time
\* limit, and sees threadsRunning.
ThreadsEnd == main = "join" ~> \A t \in Threads : pc[t] \in {"none", "ended"}

\* "Wait for threads to finish and destroy them": the destructor comes to its end.
DestructorEnds == main = "join" ~> main = "destroyed"
=============================================================================
