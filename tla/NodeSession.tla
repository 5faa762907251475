----------------------------- MODULE NodeSession -----------------------------
(***************************************************************************)
(* The Node.js binding: class Session of sdk/node/src/index.mjs on the     *)
(* application's event loop, its worker thread (worker.mjs with the N-API  *)
(* addon, native/addon.cpp), and the host's reader and key providers.      *)
(*                                                                         *)
(* The event loop runs one handler at a time, with the promise reactions   *)
(* it causes: such a handler is one action.  The worker is a second        *)
(* thread: it blocks in Atomics.wait() on a rendezvous of its own for each *)
(* reader call, and gives up on its own clock.  Messages between the two   *)
(* wait in a queue.  A reader call is a promise of the host that may       *)
(* settle at any time, long after its timeout, or never; the evidence in   *)
(* what it rejects with is true.                                           *)
(*                                                                         *)
(* The worker waits a second longer than the deadline that the event loop  *)
(* reads.  The two clocks are taken to agree: Date.now() is wall time and  *)
(* Atomics.wait() is not, and a wall clock set back by more than a second  *)
(* would let an abandoned message pass for one in time (see Expired).      *)
(*                                                                         *)
(* All sessions here want the same reader.  Calls from inside a reader or  *)
(* provider callback are refused with Busy and change nothing: left out.   *)
(***************************************************************************)
EXTENDS Integers, Sequences, FiniteSets

CONSTANTS
    Sessions,     \* Session objects, all connecting to the same reader
    Tasks,        \* operations the application may ask for
    MaxFrames,    \* reader calls of one native operation
    MaxCalls,     \* bound on the reader calls explored
    MaxCrashes    \* bound on the worker exits explored

ConstantsAssumption ==
    /\ Tasks \subseteq Nat \ {0}
    /\ MaxFrames \in Nat \ {0} /\ MaxCalls \in Nat /\ MaxCrashes \in Nat

VARIABLES
    owner,     \* the session readerOwners has for the reader
    session,   \* per session: its private fields on the event loop
    task,      \* per operation: stage, signal, keys, and how it settled
    worker,    \* per session: the worker thread
    mail,      \* per session: messages from the worker to the event loop
    meet,      \* the rendezvous of each reader call
    io,        \* reader promises that have not settled
    calls,     \* reader calls made so far
    crashes    \* worker exits so far

vars == <<owner, session, task, worker, mail, meet, io, calls, crashes>>

None == 0
NoTask == 0
CloseTask == -1
Numbers == 1..MaxCalls

(***************************************************************************)
(* State.                                                                  *)
(***************************************************************************)
NoActive == [id |-> NoTask, cancelled |-> FALSE]

\* phase: "new", "opening", "open", "closed"; serving: the reader call that races
\* its timer; release: #failWorker() waits for the reader before it gives it up.
NewSession ==
    [phase |-> "new", closing |-> FALSE, failed |-> FALSE, queue |-> <<>>, active |-> NoActive,
     busy |-> FALSE, quiescing |-> FALSE, serving |-> None, release |-> FALSE]

\* heard: a reader call is over and does not rule out that the card heard its frame.
NewTask ==
    [stage |-> "none", of |-> None, kind |-> "none", aborted |-> FALSE, needs |-> 0, held |-> 0,
     asking |-> FALSE, late |-> FALSE, outcome |-> "none", heard |-> FALSE, answers |-> {}]

\* inbox: messages of the event loop that the worker has not taken; keys: copies of
\* keys in the message it has.
NewWorker == [phase |-> "none", inbox |-> <<>>, task |-> NoTask, call |-> None, frames |-> 0,
              keys |-> 0, native |-> "none"]

NewMeeting == [state |-> 0, outcome |-> "none", data |-> None]

Init ==
    /\ owner = None
    /\ session = [s \in Sessions |-> NewSession]
    /\ task = [t \in Tasks |-> NewTask]
    /\ worker = [s \in Sessions |-> NewWorker]
    /\ mail = [s \in Sessions |-> <<>>]
    /\ meet = [n \in Numbers |-> NewMeeting]
    /\ io = {}
    /\ calls = 0
    /\ crashes = 0

Post(s, message) == mail' = [mail EXCEPT ![s] = Append(@, message)]

\* A task leaves the queue with its result; the copies of its keys are wiped.
Settled(t, outcome) ==
    [task EXCEPT ![t].stage = "settled", ![t].outcome = outcome, ![t].held = 0]

\* Mutation: the operation stays the active one.
DequeuedActive(s) == [session[s] EXCEPT !.queue = Tail(@)]

Dequeued(s) == [session[s] EXCEPT !.queue = Tail(@), !.active = NoActive]

(***************************************************************************)
(* Connecting.                                                             *)
(***************************************************************************)
\* Mutation: the registry of readers is not consulted.
ReaderAvailableAlways == TRUE

\* readerOwners.has(reader)
ReaderAvailable == owner = None

\* Session._connect(): claims the reader and has the worker open the handle.
Connect(s) ==
    /\ session[s].phase = "new"
    /\ ReaderAvailable
    /\ owner' = s
    /\ session' = [session EXCEPT ![s].phase = "opening"]
    /\ worker' = [worker EXCEPT ![s].phase = "opening"]
    /\ UNCHANGED <<task, mail, meet, io, calls, crashes>>

\* open_context() and the manifest check of processMessage(): no reader call is made.
WorkerOpens(s, ok) ==
    /\ worker[s].phase = "opening"
    /\ worker' = [worker EXCEPT ![s].phase = "idle", ![s].native = IF ok THEN "open" ELSE "none"]
    /\ Post(s, [type |-> "opened", ok |-> ok])
    /\ UNCHANGED <<owner, session, task, meet, io, calls, crashes>>

\* The thread ends; ~Context() closes a handle that is still open.  Nothing wipes the
\* copies of keys the thread had.
Terminated(s) == [worker[s] EXCEPT !.phase = "dead", !.task = NoTask,
                                   !.native = IF @ = "open" THEN "closed" ELSE @]

Opened(s) ==
    /\ mail[s] # <<>> /\ Head(mail[s]).type = "opened"
    /\ mail' = [mail EXCEPT ![s] = Tail(@)]
    /\ IF Head(mail[s]).ok
       THEN /\ session' = [session EXCEPT ![s].phase = "open"]
            /\ UNCHANGED <<owner, worker>>
       ELSE /\ session' = [session EXCEPT ![s].phase = "closed"]
            /\ owner' = None
            /\ worker' = [worker EXCEPT ![s] = Terminated(s)]
    /\ UNCHANGED <<task, meet, io, calls, crashes>>

(***************************************************************************)
(* The queue of operations.                                                *)
(***************************************************************************)
Usable(s) == session[s].phase = "open" /\ ~session[s].closing

\* _invoke(), _invokeProvider() and #lifecycle(): checked, copied and queued.
Invoke(s, t, kind, needs) ==
    /\ Usable(s)
    /\ task[t].stage = "none"
    /\ \A u \in Tasks : u < t => task[u].stage # "none"
    /\ task' = [task EXCEPT ![t].stage = "queued", ![t].of = s, ![t].kind = kind,
                            ![t].needs = needs]
    /\ session' = [session EXCEPT ![s].queue = Append(@, t)]
    /\ UNCHANGED <<owner, worker, mail, meet, io, calls, crashes>>

\* #dispatch(): refused once the worker failed, and the arguments are wiped; else
\* the copies of the keys go to the worker's inbox.
Dispatch(s, t, held) ==
    IF session[s].failed
    THEN /\ task' = Settled(t, "unknown")
         /\ session' = [session EXCEPT ![s] = Dequeued(s)]
         /\ UNCHANGED worker
    ELSE /\ task' = [task EXCEPT ![t].stage = "dispatched", ![t].held = held, ![t].asking = FALSE]
         /\ session' = [session EXCEPT ![s].active = [id |-> t, cancelled |-> FALSE]]
         /\ worker' = [worker EXCEPT ![s].inbox = Append(@, [task |-> t, keys |-> held])]

\* The head of the queue starts: its signal, the quiescing reader (operations without
\* a key source only), then the keys or the worker.
Begin(s) ==
    /\ session[s].queue # <<>>
    /\ LET t == Head(session[s].queue) IN
       /\ task[t].stage = "queued"
       /\ \/ /\ (task[t].aborted /\ task[t].kind # "lifecycle")
                \/ (session[s].quiescing /\ task[t].kind = "direct")
             /\ task' = Settled(t, "not_sent")
             /\ session' = [session EXCEPT ![s] = Dequeued(s)]
             /\ UNCHANGED worker
          \/ /\ ~task[t].aborted \/ task[t].kind = "lifecycle"
             /\ ~(session[s].quiescing /\ task[t].kind = "direct")
             /\ IF task[t].kind = "provider"
                THEN /\ task' = [task EXCEPT ![t].stage = "resolving", ![t].asking = TRUE]
                     /\ UNCHANGED <<session, worker>>
                ELSE Dispatch(s, t, 0)
    /\ UNCHANGED <<owner, mail, meet, io, calls, crashes>>

\* resolveKeySource(): one source after the other; a key is a copy of its own.
ResolveKey(s, t) ==
    /\ task[t].stage = "resolving" /\ task[t].of = s
    /\ IF task[t].held + 1 < task[t].needs
       THEN task' = [task EXCEPT ![t].held = @ + 1] /\ UNCHANGED <<session, worker>>
       ELSE Dispatch(s, t, task[t].held + 1)
    /\ UNCHANGED <<owner, mail, meet, io, calls, crashes>>

\* The provider fails or its key is of the wrong kind: nothing was sent.
ResolveFails(s, t) ==
    /\ task[t].stage = "resolving" /\ task[t].of = s
    /\ task' = [Settled(t, "not_sent") EXCEPT ![t].asking = FALSE]
    /\ session' = [session EXCEPT ![s] = Dequeued(s)]
    /\ UNCHANGED <<owner, worker, mail, meet, io, calls, crashes>>

\* Mutation: nobody waits for the key of a cancelled resolution.
LateKeyKept == 1

\* cancellableResolution(): a key that comes after the cancellation is closed.
LateKeyHeld == 0

LateKey(t) ==
    /\ task[t].late
    /\ task' = [task EXCEPT ![t].late = FALSE, ![t].asking = FALSE, ![t].held = LateKeyHeld]
    /\ UNCHANGED <<owner, session, worker, mail, meet, io, calls, crashes>>

(***************************************************************************)
(* The reader call: a rendezvous for each, state 0 open, 1 answered, 2     *)
(* abandoned.                                                              *)
(***************************************************************************)
\* Mutation: one shared buffer serves every call of the worker.
SharedMeeting(n) == 1

\* readerCall() makes a new shared buffer for each call.
Meeting(n) == n

\* reply(): nothing if the rendezvous is not open any more.
Reply(n, outcome, data) ==
    meet' = IF meet[Meeting(n)].state # 0 THEN meet
            ELSE [meet EXCEPT ![Meeting(n)] = [state |-> 1, outcome |-> outcome, data |-> data]]

\* processMessage(), which has finished with the message before.
WorkerTakes(s) ==
    /\ worker[s].phase = "idle" /\ worker[s].inbox # <<>>
    /\ worker' = [worker EXCEPT ![s].phase = "running", ![s].inbox = Tail(@), ![s].frames = 0,
                                ![s].task = Head(worker[s].inbox).task,
                                ![s].keys = Head(worker[s].inbox).keys]
    /\ UNCHANGED <<owner, session, task, mail, meet, io, calls, crashes>>

\* readerCall() of the worker, from the addon's exchange() or reset().
WorkerCalls(s) ==
    /\ worker[s].phase = "running" /\ worker[s].task # CloseTask
    /\ worker[s].frames < MaxFrames /\ calls < MaxCalls
    /\ calls' = calls + 1
    /\ worker' = [worker EXCEPT ![s].phase = "waiting", ![s].call = calls + 1, ![s].frames = @ + 1]
    /\ meet' = [meet EXCEPT ![Meeting(calls + 1)] = NewMeeting]
    /\ Post(s, [type |-> "reader", n |-> calls + 1, id |-> worker[s].task])
    /\ UNCHANGED <<owner, session, task, io, crashes>>

\* Mutation: the deadline in the message is not looked at.
ExpiredNever(n) == FALSE

\* Date.now() >= message.deadline: so it is for every call the worker gave up, which
\* waits a second longer on a clock that agrees.
Expired(n) == meet[Meeting(n)].state = 2

\* Mutation: only the message's own operation is looked at.
ReaderBusyIgnored(s) == FALSE

\* An earlier reader promise of this session has not settled.
ReaderBusy(s) == session[s].busy

\* #serviceReader() up to the call of the reader.
Service(s, stale) ==
    /\ mail[s] # <<>> /\ Head(mail[s]).type = "reader"
    /\ LET m == Head(mail[s])
           refused == \/ session[s].active.id # m.id \/ session[s].active.cancelled
                      \/ Expired(m.n) \/ stale
       IN IF refused \/ ReaderBusy(s)
          THEN /\ Reply(m.n, "not_sent", None)
               /\ UNCHANGED <<session, io>>
          ELSE /\ session' = [session EXCEPT ![s].busy = TRUE, ![s].serving = m.n]
               /\ io' = io \cup {[s |-> s, n |-> m.n, id |-> m.id]}
               /\ UNCHANGED meet
    /\ mail' = [mail EXCEPT ![s] = Tail(@)]
    /\ UNCHANGED <<owner, task, worker, calls, crashes>>

\* Mutation: what was interrupted counts as not transmitted.
InterruptedUnsent == "not_sent"

InterruptedOutcome == "unknown"

\* The timer or an abort wins the race: the worker gets its answer, the reader's
\* promise goes on and the session waits for it.
Interrupted(s) == [session[s] EXCEPT !.serving = None, !.quiescing = TRUE]

TimeOut(s) ==
    /\ session[s].serving # None
    /\ Reply(session[s].serving, InterruptedOutcome, None)
    /\ session' = [session EXCEPT ![s] = Interrupted(s)]
    /\ UNCHANGED <<owner, task, worker, mail, io, calls, crashes>>

\* What the reader's promise tells: bytes; that the frame was not sent, and then the card
\* has not heard it; or nothing of the kind ("unknown", which stands for the verdicts
\* rejected and succeeded as well).
Evidence == {"completed", "not_sent", "unknown"}

\* The reader's promise settles: with bytes, or readerFailure() keeps the outcome of a
\* DesfireError and makes any other exception and too many bytes "unknown".  After an
\* interruption nobody listens.
ReaderSettles(i, evidence) ==
    /\ i \in io
    /\ io' = io \ {i}
    /\ session' = [session EXCEPT ![i.s].busy = FALSE, ![i.s].quiescing = FALSE,
                                  ![i.s].serving = None, ![i.s].release = FALSE]
    /\ owner' = IF session[i.s].release THEN None ELSE owner
    /\ IF session[i.s].serving = i.n
       THEN Reply(i.n, evidence, IF evidence = "completed" THEN i.n ELSE None)
       ELSE UNCHANGED meet
    /\ task' = [task EXCEPT ![i.id].heard = @ \/ evidence # "not_sent"]
    /\ UNCHANGED <<worker, mail, calls, crashes>>

\* The native operation is over: its outcome is that of its last reader call, but
\* not "not_sent" if an earlier frame went out (the core's after-send rule, external).
Finish(s, outcome) ==
    /\ Post(s, [type |-> "result", id |-> worker[s].task,
                outcome |-> IF outcome = "not_sent" /\ worker[s].frames > 1 THEN "unknown"
                            ELSE outcome])
    /\ worker' = [worker EXCEPT ![s].phase = "wiping", ![s].call = None]

\* Atomics.wait() ends: answered, or the worker's own time is over.
WorkerAnswered(s) ==
    /\ worker[s].phase = "waiting" /\ meet[Meeting(worker[s].call)].state = 1
    /\ LET m == meet[Meeting(worker[s].call)] IN
       IF m.outcome = "completed"
       THEN /\ worker' = [worker EXCEPT ![s].phase = "running"]
            /\ task' = [task EXCEPT ![worker[s].task].answers = @ \cup {<<worker[s].call, m.data>>}]
            /\ UNCHANGED mail
       ELSE Finish(s, m.outcome) /\ UNCHANGED task
    /\ UNCHANGED <<owner, session, meet, io, calls, crashes>>

WorkerGivesUp(s) ==
    /\ worker[s].phase = "waiting" /\ meet[Meeting(worker[s].call)].state = 0
    /\ meet' = [meet EXCEPT ![Meeting(worker[s].call)].state = 2]
    /\ Finish(s, "unknown")
    /\ UNCHANGED <<owner, session, task, io, calls, crashes>>

\* The native operation ends without another reader call: done, or refused before I/O.
WorkerFinishes(s) ==
    /\ worker[s].phase = "running" /\ worker[s].task # CloseTask
    /\ \/ Finish(s, "completed")
       \/ worker[s].frames = 0 /\ Finish(s, "not_sent")
    /\ UNCHANGED <<owner, session, task, meet, io, calls, crashes>>

\* The finally of processMessage(): the worker's copies are wiped after the post.
WorkerWipes(s) ==
    /\ worker[s].phase = "wiping"
    /\ worker' = [worker EXCEPT ![s].phase = "idle", ![s].task = NoTask, ![s].keys = 0]
    /\ UNCHANGED <<owner, session, task, mail, meet, io, calls, crashes>>

\* #onMessage(): the result settles the promise of its operation.
OnResult(s) ==
    /\ mail[s] # <<>> /\ Head(mail[s]).type = "result"
    /\ session[s].active.id = Head(mail[s]).id /\ Head(mail[s]).id # CloseTask
    /\ task' = Settled(Head(mail[s]).id, Head(mail[s]).outcome)
    /\ session' = [session EXCEPT ![s] = Dequeued(s)]
    /\ mail' = [mail EXCEPT ![s] = Tail(@)]
    /\ UNCHANGED <<owner, worker, meet, io, calls, crashes>>

(***************************************************************************)
(* Cancellation, failure of the worker, closing.                           *)
(***************************************************************************)
\* cancel(), also the listener on the signal of the active operation.
Cancel(s) ==
    /\ Usable(s)
    /\ session[s].active.id # NoTask
    /\ ~session[s].active.cancelled
    /\ session' = [session EXCEPT ![s] =
           [(IF session[s].serving # None THEN Interrupted(s) ELSE session[s])
               EXCEPT !.active.cancelled = TRUE]]
    /\ IF session[s].serving # None
       THEN Reply(session[s].serving, InterruptedOutcome, None) ELSE UNCHANGED meet
    /\ UNCHANGED <<owner, task, worker, mail, io, calls, crashes>>

\* The signal of a waiting operation, or cancel() while its keys are being resolved.
Abort(s, t) ==
    /\ task[t].of = s
    /\ \/ /\ task[t].stage = "queued" /\ ~task[t].aborted
          /\ task' = [task EXCEPT ![t].aborted = TRUE]
          /\ UNCHANGED session
       \/ /\ task[t].stage = "resolving"
          /\ task' = [Settled(t, "not_sent") EXCEPT ![t].late = TRUE]
          /\ session' = [session EXCEPT ![s] = Dequeued(s)]
    /\ UNCHANGED <<owner, worker, mail, meet, io, calls, crashes>>

\* The worker exits: an exception outside processMessage(), a crash of the addon.
Crash(s) ==
    /\ crashes < MaxCrashes
    /\ session[s].phase = "open" /\ worker[s].phase # "dead"
    /\ crashes' = crashes + 1
    /\ worker' = [worker EXCEPT ![s] = Terminated(s)]
    /\ UNCHANGED <<owner, session, task, mail, meet, io, calls>>

\* Mutation: what was dispatched is forgotten.
RejectedNone(s) == task

\* Every pending operation is rejected.
RejectedPending(s) ==
    IF session[s].active.id \in Tasks THEN Settled(session[s].active.id, "unknown") ELSE task

\* #failWorker(), after the messages posted before the exit.  The reader is given up
\* when its promise has settled.  A close() in progress fails and may be repeated.
FailWorker(s) ==
    /\ worker[s].phase = "dead" /\ mail[s] = <<>>
    /\ session[s].phase = "open" /\ ~session[s].failed
    /\ task' = RejectedPending(s)
    /\ LET was == session[s]
           left == IF was.serving # None THEN Interrupted(s) ELSE was
       IN session' = [session EXCEPT ![s] =
              [left EXCEPT !.failed = TRUE, !.active = NoActive, !.release = was.busy,
                           !.queue = IF was.active.id \in Tasks THEN Tail(@) ELSE @,
                           !.closing = IF was.active.id = CloseTask THEN FALSE ELSE @]]
    /\ owner' = IF session[s].busy THEN owner ELSE None
    /\ UNCHANGED <<worker, mail, meet, io, calls, crashes>>

Close(s) ==
    /\ Usable(s)
    /\ session' = [session EXCEPT ![s].closing = TRUE]
    /\ UNCHANGED <<owner, task, worker, mail, meet, io, calls, crashes>>

\* Mutation: the promise of the reader is not waited for.
DrainedQueue(s) == session[s].queue = <<>>

\* this.#tail.then(() => this.#readerSettled)
Drained(s) == session[s].queue = <<>> /\ ~session[s].busy

\* readerOwners.delete(reader), whoever has it now.
Closed(s) ==
    /\ session' = [session EXCEPT ![s].phase = "closed", ![s].active = NoActive]
    /\ owner' = None
    /\ worker' = [worker EXCEPT ![s] = Terminated(s)]

CloseDrained(s) ==
    /\ session[s].phase = "open" /\ session[s].closing
    /\ Drained(s) /\ session[s].active.id = NoTask
    /\ IF session[s].failed
       THEN Closed(s)
       ELSE /\ session' = [session EXCEPT ![s].active = [id |-> CloseTask, cancelled |-> FALSE]]
            /\ worker' = [worker EXCEPT ![s].inbox = Append(@, [task |-> CloseTask, keys |-> 0])]
            /\ UNCHANGED owner
    /\ UNCHANGED <<task, mail, meet, io, calls, crashes>>

\* close() of the addon: the handle is closed, or stays if the C ABI refuses.
WorkerCloses(s, ok) ==
    /\ worker[s].phase = "running" /\ worker[s].task = CloseTask
    /\ worker' = [worker EXCEPT ![s].phase = "wiping",
                                ![s].native = IF ok THEN "closed" ELSE @]
    /\ Post(s, [type |-> "result", id |-> CloseTask,
                outcome |-> IF ok THEN "completed" ELSE "not_sent"])
    /\ UNCHANGED <<owner, session, task, meet, io, calls, crashes>>

OnClosed(s) ==
    /\ mail[s] # <<>> /\ Head(mail[s]).type = "result" /\ Head(mail[s]).id = CloseTask
    /\ mail' = [mail EXCEPT ![s] = Tail(@)]
    /\ IF Head(mail[s]).outcome = "completed"
       THEN Closed(s)
       ELSE /\ session' = [session EXCEPT ![s].closing = FALSE, ![s].active = NoActive]
            /\ UNCHANGED <<owner, worker>>
    /\ UNCHANGED <<task, meet, io, calls, crashes>>

(***************************************************************************)
(* The specification.                                                      *)
(***************************************************************************)
Application(s) ==
    \/ Connect(s) \/ Cancel(s) \/ Close(s)
    \/ \E t \in Tasks :
        \/ Abort(s, t)
        \/ \E k \in {"direct", "lifecycle"} : Invoke(s, t, k, 0)
        \/ \E needs \in 1..2 : Invoke(s, t, "provider", needs)

EventLoop(s) ==
    \/ Opened(s) \/ Begin(s) \/ Service(s, FALSE) \/ TimeOut(s) \/ OnResult(s)
    \/ FailWorker(s) \/ CloseDrained(s) \/ OnClosed(s)

WorkerThread(s) ==
    \/ WorkerOpens(s, TRUE) \/ WorkerTakes(s)
    \/ WorkerAnswered(s) \/ WorkerGivesUp(s) \/ WorkerFinishes(s) \/ WorkerWipes(s)
    \/ WorkerCloses(s, TRUE)

Provider(s) == \E t \in Tasks : ResolveKey(s, t) \/ ResolveFails(s, t)

Next ==
    \/ \E s \in Sessions :
        \/ Application(s) \/ EventLoop(s) \/ WorkerThread(s) \/ Provider(s)
        \/ Crash(s) \/ Service(s, TRUE) \/ WorkerOpens(s, FALSE)
        \/ WorkerCalls(s) \/ WorkerCloses(s, FALSE)
    \/ \E t \in Tasks : LateKey(t)
    \/ \E i \in io, evidence \in Evidence : ReaderSettles(i, evidence)

\* The event loop and the worker run on, timers fire, providers answer.  Nothing is
\* assumed of the reader: its promises may never settle.
Fairness ==
    \A s \in Sessions : WF_vars(EventLoop(s)) /\ WF_vars(WorkerThread(s)) /\ WF_vars(Provider(s))

Spec == Init /\ [][Next]_vars
FairSpec == Spec /\ Fairness

(***************************************************************************)
(* Properties.                                                             *)
(***************************************************************************)
\* The type invariant; with it, the event loop never has a second operation at the
\* worker: the queue is strictly one after the other.
TypeOK ==
    /\ owner \in Sessions \cup {None}
    /\ \A s \in Sessions :
        /\ session[s].phase \in {"new", "opening", "open", "closed"}
        /\ session[s].active.id \in Tasks \cup {NoTask, CloseTask}
        /\ session[s].serving \in Numbers \cup {None}
        /\ worker[s].phase \in {"none", "opening", "idle", "running", "waiting", "wiping", "dead"}
        /\ worker[s].frames \in 0..MaxFrames
        /\ session[s].active.id \in Tasks =>
               session[s].queue # <<>> /\ session[s].active.id = Head(session[s].queue)
    /\ \A t \in Tasks : task[t].outcome \in Evidence \cup {"none"} /\ task[t].held \in 0..2
    /\ calls \in 0..MaxCalls

\* Bytes that a native operation uses are those the reader produced for that very
\* call, however late an interrupted call before it settles.
AnswerIsOwn == \A t \in Tasks : \A a \in task[t].answers : a[1] = a[2]

\* Of an operation that fails with NotSent the card hears nothing, neither before nor
\* after, whichever of signal, timer, busy reader, the reader's own evidence and native
\* checks ended it.
NotSentUntouched ==
    \A t \in Tasks :
        task[t].stage = "settled" /\ task[t].outcome = "not_sent" =>
            /\ ~task[t].heard
            /\ \A i \in io : i.id # t

\* The reader is never called while an earlier call of it is still going on.
OneReaderCall == Cardinality(io) <= 1

\* No frame goes out for a call the worker has given up: the application has been told
\* of a timeout, and a frame after that would be a surprise.
NoGhostFrame == [][\A i \in io' \ io : meet[i.n].state = 0]_vars

\* A closed session has drained: no reader promise, no operation, no open handle.
ClosedQuiet ==
    \A s \in Sessions : session[s].phase = "closed" =>
        /\ \A i \in io : i.s # s
        /\ session[s].queue = <<>>
        /\ worker[s].native # "open"

\* When an operation has settled and its worker and providers are at rest, no copy of
\* a key it resolved is left, cancelled resolutions and closed sessions included.  A
\* worker that exits by itself wipes nothing: it is left out.
KeysWiped ==
    /\ \A t \in Tasks : task[t].stage = "settled" => task[t].held = 0
    /\ \A s \in Sessions :
        /\ worker[s].phase = "idle" => worker[s].keys = 0
        /\ worker[s].phase = "dead" /\ crashes = 0 =>
               worker[s].keys = 0 /\ worker[s].inbox = <<>>

\* A session that works holds the lease of the reader ("exclusively leased by one SDK
\* session", sdk/node/src/index.d.ts).
LeaseHeld ==
    \A s \in Sessions : session[s].phase = "open" /\ ~session[s].failed => owner = s

Owed(t) == t \in Tasks /\ task[t].stage = "queued"
Discharged(t) == t \in Tasks /\ task[t].stage = "settled"

\* Every operation settles, even if the reader's promises never do and even if the
\* worker exits.
EveryTaskSettles == \A t \in Tasks : Owed(t) ~> Discharged(t)

=============================================================================
