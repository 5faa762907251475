----------------------------- MODULE MCHostSide -----------------------------
(***************************************************************************)
(* What runs on the host's side of the C ABI, against the promises made to *)
(* the application: the Node.js, Kotlin, Python and Swift bindings and the *)
(* PC/SC transport.  A process uses one binding; the transport is one      *)
(* component more.  One of them runs, and the variables of the others stay *)
(* in their initial state.                                                 *)
(***************************************************************************)
EXTENDS Integers, Sequences

CONSTANTS
    Hosts,                  \* the components explored
    worker, second, manager,\* threads
    handle,                 \* a connection to a card
    NodeSessions, NodeTasks, MaxFrames, MaxCalls,
    KotlinThreads, KotlinEntries(_),
    PythonCards, PythonTasks, PythonInterruptions, SwiftInterruptions,
    ReaderLists, Malformed, MaxActivations

VARIABLE host

VARIABLES nodeOwner, nodeSession, nodeTask, nodeWorker, nodeMail, nodeMeet, nodeIo,
          nodeCalls, nodeCrashes
VARIABLES kotlinGate, kotlinEntry, kotlinRegistered, kotlinContext, kotlinProviders,
          kotlinCall
VARIABLES pythonOwner, pythonCard, pythonQueue, pythonWorker, pythonTask, pythonBridge,
          pythonJobs, pythonInterruptions
VARIABLES swiftCard, swiftLock, swiftQueue, swiftWorker, swiftOp, swiftDirects
VARIABLES pcscContext, pcscProvider, pcscConnection, pcscCard, pcscActivations,
          pcscAttached, pcscCall, pcscAnswered

nodeVars == <<nodeOwner, nodeSession, nodeTask, nodeWorker, nodeMail, nodeMeet, nodeIo,
              nodeCalls, nodeCrashes>>
kotlinVars == <<kotlinGate, kotlinEntry, kotlinRegistered, kotlinContext,
                kotlinProviders, kotlinCall>>
pythonVars == <<pythonOwner, pythonCard, pythonQueue, pythonWorker, pythonTask,
                pythonBridge, pythonJobs, pythonInterruptions>>
swiftVars == <<swiftCard, swiftLock, swiftQueue, swiftWorker, swiftOp, swiftDirects>>
pcscVars == <<pcscContext, pcscProvider, pcscConnection, pcscCard, pcscActivations,
              pcscAttached, pcscCall, pcscAnswered>>
vars == <<host, nodeVars, kotlinVars, pythonVars, swiftVars, pcscVars>>

-----------------------------------------------------------------------------
\* The Node.js binding: sessions for one reader, one worker exit.
Node ==
    INSTANCE NodeSession WITH
        Sessions <- NodeSessions, Tasks <- NodeTasks, MaxFrames <- MaxFrames, MaxCalls <- MaxCalls,
        MaxCrashes <- 1,
        owner <- nodeOwner, session <- nodeSession, task <- nodeTask,
        worker <- nodeWorker, mail <- nodeMail, meet <- nodeMeet, io <- nodeIo,
        calls <- nodeCalls, crashes <- nodeCrashes

\* The Kotlin binding and its JNI bridge.
Kotlin ==
    INSTANCE JniBridge WITH
        Threads <- KotlinThreads, Entries <- KotlinEntries, MayManage <- {worker, manager} \intersect KotlinThreads,
        MaxFrames <- MaxFrames,
        gate <- kotlinGate, entry <- kotlinEntry, registered <- kotlinRegistered,
        context <- kotlinContext, providers <- kotlinProviders, call <- kotlinCall

\* The Python binding: cards for one reader.
Python ==
    INSTANCE PythonCard WITH
        Cards <- PythonCards, Tasks <- PythonTasks,
        MaxInterruptions <- PythonInterruptions,
        owner <- pythonOwner, card <- pythonCard, queue <- pythonQueue,
        worker <- pythonWorker, task <- pythonTask, bridge <- pythonBridge,
        jobs <- pythonJobs, interruptions <- pythonInterruptions

\* The Swift binding.
Swift ==
    INSTANCE SwiftCard WITH
        Ops <- {1, 2}, MaxKeys <- 1, MaxInterruptions <- SwiftInterruptions,
        card <- swiftCard, lock <- swiftLock, queue <- swiftQueue,
        worker <- swiftWorker, op <- swiftOp, directs <- swiftDirects

\* The PC/SC transport: two threads on a connection to a card others may reset...
Pcsc ==
    INSTANCE PcscTransport WITH
        Threads <- {worker, second}, Connections <- {handle}, ReaderLists <- {<<>>},
        Malformed <- {}, Nobody <- manager, MaxActivations <- MaxActivations,
        MaxGeneration <- MaxActivations,
        context <- pcscContext, provider <- pcscProvider, connection <- pcscConnection,
        card <- pcscCard, activations <- pcscActivations, attached <- pcscAttached,
        call <- pcscCall, answered <- pcscAnswered

\* ... and listing readers that come and go.
Readers ==
    INSTANCE PcscTransport WITH
        Threads <- {worker, second}, Connections <- {handle}, ReaderLists <- ReaderLists,
        Malformed <- Malformed, Nobody <- manager, MaxActivations <- 1,
        MaxGeneration <- 1,
        context <- pcscContext, provider <- pcscProvider, connection <- pcscConnection,
        card <- pcscCard, activations <- pcscActivations, attached <- pcscAttached,
        call <- pcscCall, answered <- pcscAnswered

ASSUME BoundsAssumption ==
    /\ Node!ConstantsAssumption /\ Kotlin!ConstantsAssumption /\ Python!ConstantsAssumption
    /\ Swift!ConstantsAssumption /\ Pcsc!ConstantsAssumption /\ Readers!ConstantsAssumption

-----------------------------------------------------------------------------
Init ==
    /\ host \in Hosts
    /\ Node!Init /\ Kotlin!Init /\ Python!Init /\ Swift!Init
    /\ IF host = "readers" THEN Readers!Init ELSE Pcsc!Init

\* Host h runs: the others' variables stay.
OnlyNode == host = "node" /\ UNCHANGED <<host, kotlinVars, pythonVars, swiftVars, pcscVars>>
OnlyKotlin == host = "kotlin" /\ UNCHANGED <<host, nodeVars, pythonVars, swiftVars, pcscVars>>
OnlyPython == host = "python" /\ UNCHANGED <<host, nodeVars, kotlinVars, swiftVars, pcscVars>>
OnlySwift == host = "swift" /\ UNCHANGED <<host, nodeVars, kotlinVars, pythonVars, pcscVars>>
OnlyPcsc == host = "pcsc" /\ UNCHANGED <<host, nodeVars, kotlinVars, pythonVars, swiftVars>>
OnlyReaders == host = "readers" /\ UNCHANGED <<host, nodeVars, kotlinVars, pythonVars, swiftVars>>

NodeSteps == OnlyNode /\ Node!Next
KotlinSteps == OnlyKotlin /\ Kotlin!Next
PythonSteps == OnlyPython /\ Python!Next
SwiftSteps == OnlySwift /\ Swift!Next
PcscSteps == OnlyPcsc /\ Pcsc!Next
ReadersSteps == OnlyReaders /\ Readers!Next

Next == NodeSteps \/ KotlinSteps \/ PythonSteps \/ SwiftSteps \/ PcscSteps \/ ReadersSteps

Spec == Init /\ [][Next]_vars

KotlinThread == <<worker, second, manager>>

\* The fairness each binding's module justifies, for the one that runs.
FairSpec ==
    /\ Spec
    /\ \A s \in NodeSessions :
         /\ WF_nodeVars(host = "node" /\ Node!EventLoop(s))
         /\ WF_nodeVars(host = "node" /\ Node!WorkerThread(s))
         /\ WF_nodeVars(host = "node" /\ Node!Provider(s))
    /\ \A t \in KotlinThreads : WF_kotlinVars(host = "kotlin" /\ Kotlin!Runs(t))
    /\ \A c \in PythonCards : WF_pythonVars(host = "python" /\ Python!Worker(c))
    /\ \A t \in PythonTasks : WF_pythonVars(host = "python" /\ Python!Loop(t))
    /\ WF_pythonVars(host = "python" /\ Python!Canceller)
    /\ WF_swiftVars(host = "swift" /\ Swift!Worker)
    /\ WF_swiftVars(host = "swift" /\ Swift!DirectReturns)
    /\ WF_swiftVars(host = "swift" /\ Swift!EnqueueClose)
    /\ \A o \in {1, 2} :
         /\ WF_swiftVars(host = "swift" /\ Swift!Task(o))
         /\ WF_swiftVars(host = "swift" /\ Swift!Handler(o))
         /\ WF_swiftVars(host = "swift" /\ Swift!Stops(o))

-----------------------------------------------------------------------------
\* The state of each component has the shape the code gives it; queues hold
\* exactly the work that is pending, and the active operation is the one inside.
HostTypeOK ==
    /\ host = "node" => Node!TypeOK
    /\ host = "kotlin" => Kotlin!TypeOK
    /\ host = "python" => Python!TypeOK
    /\ host = "swift" => Swift!TypeOK
    /\ host = "pcsc" => Pcsc!TypeOK
    /\ host = "readers" => Readers!TypeOK


\* Callbacks and service calls find what they use alive: the transport context,
\* the retained reader, the SCARDCONTEXT; a cancellation reaches its own operation
\* only; what has closed or returned has no call, no job and no handle left.
HostCallbacksAreSafe ==
    /\ host = "node" => Node!ClosedQuiet /\ Node!OneReaderCall
    /\ host = "kotlin" => Kotlin!CallbackInLiveContext /\ Kotlin!OpenHasContext /\ Kotlin!NothingKept
    /\ host = "python" => Python!QuietOnReturn /\ Python!ClosedIsDrained
    /\ host = "swift" => Swift!CallbackInLiveContext /\ Swift!CancelIsOwn /\ Swift!CancelNotLost
    /\ host \in {"pcsc", "readers"} =>
         Pcsc!ContextOutlivesHandles /\ Pcsc!NoHandleLeaked /\ Pcsc!OneCallPerHandle

\* An answer is used for the call that asked for it, however late an interrupted
\* one arrives, and under a generation only of one activation of the card; a list
\* of readers is what the service wrote.
HostAnswersAreOwn ==
    /\ host = "node" => Node!AnswerIsOwn
    /\ host = "pcsc" => Pcsc!GenerationIsActivation
    /\ host = "readers" => Readers!ListingIsWhole

\* In Node.js (while no worker has exited by itself) and Kotlin, no copy of a key the
\* binding made outlives the operation it was resolved for; in Kotlin and Swift a key
\* whose resolution was cancelled is never used.  Of the rest, the Swift copies are not
\* always wiped (BindingCopiesWiped), a cancelled Python resolution may be used all the
\* same (HookIsRight), and the Python copies are not modelled.
HostKeysWiped ==
    /\ host = "node" => Node!KeysWiped
    /\ host = "kotlin" => Kotlin!KeysWiped /\ Kotlin!CancelStopsKeyUse
    /\ host = "swift" => Swift!CancelStopsKeyUse

\* One session, card or queue at a time has the reader, and none that was let in
\* finds it gone (Node.js while no worker has exited: see LeaseHeld there); no frame
\* goes to a reader for a call that was given up before.
HostReaderIsExclusive ==
    /\ [](host = "node" => Node!OneReaderCall /\ (nodeCrashes = 0 => Node!LeaseHeld))
    /\ [](host = "kotlin" => Kotlin!OneAtATime /\ Kotlin!AdmittedNeverStale)
    /\ [](host = "python" => Python!OpenOwnsReader)
    /\ Node!NoGhostFrame

\* The calls that have to return, and those that have, as each binding promises it:
\* see EveryTaskSettles, EveryCallReturns and CancelledReturns there.
Owed(k) ==
    \/ host = "node" /\ Node!Owed(k)
    \/ host = "kotlin" /\ Kotlin!Owed(KotlinThread[k])
    \/ host = "python" /\ Python!Owed(k)
    \/ host = "swift" /\ Swift!Owed(k)

Discharged(k) ==
    \/ host = "node" /\ Node!Discharged(k)
    \/ host = "kotlin" /\ Kotlin!Discharged(KotlinThread[k])
    \/ host = "python" /\ Python!Discharged(k)
    \/ host = "swift" /\ Swift!Discharged(k)

\* Operations end: in Node.js though the reader never settles and the worker
\* exits, in Kotlin and Swift though callbacks call back and close() drains, in
\* Python and Swift though a key provider only ends when it is cancelled.
HostCallsReturn == \A k \in 1..3 : Owed(k) ~> Discharged(k)

-----------------------------------------------------------------------------
(* Values for the constants.                                               *)

Everything == {"node", "kotlin", "python", "swift", "pcsc", "readers"}
Bindings == {"node", "kotlin", "python", "swift"}

\* The entry points of the JNI bridge, as values of KotlinEntries.
Names ==
    INSTANCE JniBridge WITH
        Threads <- {}, Entries <- LAMBDA t : {}, MayManage <- {}, MaxFrames <- 1,
        gate <- kotlinGate, entry <- kotlinEntry, registered <- kotlinRegistered,
        context <- kotlinContext, providers <- kotlinProviders, call <- kotlinCall

\* Every entry point on one thread; the other opens, cancels and closes.
EveryEntry(t) == IF t = worker THEN Names!AllEntries ELSE {}

\* Two threads that operate, one of which also manages.
QueuedEntries(t) ==
    CASE t = worker -> {Names!Native_invoke, Names!RawNative_invoke}
      [] t = second -> {Names!Native_setDefaultAesKeyProvider,
                        Names!RawNative_authenticateDirect}
      [] OTHER -> {}

\* No reader, one, two of which the second has a longer name.
Lists == {<<>>, << <<1>> >>, << <<2>>, <<1, 2>> >>}

\* Not terminated, data after the end, a missing or a spare last NUL, empty.
Faulty == {<<1, 2>>, <<1, 0, 0, 2, 0>>, <<1, 2, 0>>, <<1, 0, 0, 0>>, <<0>>, <<>>}

NoList == {<<>>}

=============================================================================
