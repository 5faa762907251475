------------------------------ MODULE PythonCard ------------------------------
(***************************************************************************)
(* The Python binding: AsyncCard of async_card.py over Card of _card.py    *)
(* and card.py, with the claims on readers and the bridge to asynchronous  *)
(* key providers.                                                          *)
(*                                                                         *)
(* Three kinds of threads meet.  The event loop runs tasks from one await  *)
(* to the next, and the key provider's coroutine; such a stretch is one    *)
(* action.  Each card has one worker, which constructs the Card, runs the  *)
(* operations in the order of submission and closes it.  The threads of    *)
(* the loop's default executor call Card.cancel().  All cards here want    *)
(* the same reader.                                                        *)
(*                                                                         *)
(* An operation makes one reader call here: what the core makes of several *)
(* frames is NativeChannel's subject.  The evidence the reader raises is   *)
(* true.  The copies of keys are left out: a bytearray is overwritten in   *)
(* the finally clauses of card.py, the bytes objects a provider returns    *)
(* are the interpreter's.                                                  *)
(*                                                                         *)
(* Only the worker operates on the Card of an AsyncCard, so the tickets of *)
(* _enter_operation() never wait here.  Calls from inside a callback are   *)
(* refused with BUSY and change nothing: left out.                         *)
(***************************************************************************)
EXTENDS Integers, Sequences, FiniteSets

CONSTANTS
    Cards,        \* AsyncCards, all over the same reader
    Tasks,        \* awaited operations
    MaxInterruptions   \* bound on cancellations of tasks and calls of cancel() and close()

ConstantsAssumption ==
    /\ Cards \subseteq Nat \ {0} /\ Tasks \subseteq Nat \ {0}
    /\ MaxInterruptions \in Nat

VARIABLES
    owner,     \* the card _READER_OWNERS has for the reader
    card,      \* per card: AsyncCard and Card
    queue,     \* per card: work submitted to its executor and not started
    worker,    \* per card: what its thread is doing
    task,      \* per operation: the coroutine _run() and its concurrent future
    bridge,    \* per operation: _AsyncProviderBridge and the provider's future
    jobs,      \* calls of Card.cancel() in progress
    interruptions   \* cancellations of tasks and calls of cancel() and close() so far

vars == <<owner, card, queue, worker, task, bridge, jobs, interruptions>>

None == 0
NoTask == 0

(***************************************************************************)
(* State.                                                                  *)
(***************************************************************************)
\* phase: "new", "opening", "open", "closed", "failed"; handle and registered: the
\* handle of the Card and its entry in the library; attempt: close() calls so far;
\* waiting: one of them awaits its work; verdict: how that work ended; abandoned:
\* the task that connects was cancelled.
NewCard ==
    [phase |-> "new", handle |-> FALSE, registered |-> FALSE, closing |-> FALSE, attempt |-> 0,
     waiting |-> FALSE, verdict |-> "none", abandoned |-> FALSE]

\* sent: the library has called the reader; heard: the card may have heard the frame.
NewTask ==
    [stage |-> "none", of |-> None, kind |-> "none", work |-> "none", outcome |-> "none",
     result |-> "none", cancels |-> 0, promised |-> FALSE, sent |-> FALSE, heard |-> FALSE]

NewBridge == [stored |-> FALSE, future |-> "none", asked |-> FALSE, finished |-> FALSE]

NewWorker == [at |-> "idle", task |-> NoTask]

Init ==
    /\ owner = None
    /\ card = [c \in Cards |-> NewCard]
    /\ queue = [c \in Cards |-> <<>>]
    /\ worker = [c \in Cards |-> NewWorker]
    /\ task = [t \in Tasks |-> NewTask]
    /\ bridge = [t \in Tasks |-> NewBridge]
    /\ jobs = {}
    /\ interruptions = 0

Interrupt ==
    /\ interruptions < MaxInterruptions
    /\ interruptions' = interruptions + 1

\* AsyncCard.cancel() calls the reader on the event loop's own thread: nothing else
\* runs there meanwhile.
LoopFree == \A j \in jobs : j.task # NoTask

(***************************************************************************)
(* Connecting: the worker runs the constructor of Card.                    *)
(***************************************************************************)
\* connect(): a new executor constructs the Card.
Connect(c) ==
    /\ LoopFree
    /\ card[c].phase = "new"
    /\ \A d \in Cards : d < c => card[d].phase # "new"
    /\ card' = [card EXCEPT ![c].phase = "opening"]
    /\ worker' = [worker EXCEPT ![c].at = "claim"]
    /\ UNCHANGED <<owner, queue, task, bridge, jobs, interruptions>>

\* Mutation: the owners of readers are not consulted.
AvailableAlways == TRUE

\* _claim_reader(): active is None
Available == owner = None

FailedCard(c) == [card EXCEPT ![c].phase = "failed"]

\* _claim_reader(), which raises BUSY before the try of the constructor.
Claim(c) ==
    /\ worker[c].at = "claim"
    /\ IF Available
       THEN /\ owner' = c
            /\ worker' = [worker EXCEPT ![c].at = "options"]
            /\ UNCHANGED card
       ELSE /\ card' = FailedCard(c)
            /\ worker' = [worker EXCEPT ![c].at = "idle"]
            /\ UNCHANGED owner
    /\ UNCHANGED <<queue, task, bridge, jobs, interruptions>>

\* Framing() and _integer() raise ValueError outside the try: the claim stays.
CheckOptions(c, valid) ==
    /\ worker[c].at = "options"
    /\ worker' = [worker EXCEPT ![c].at = IF valid THEN "library" ELSE "idle"]
    /\ card' = IF valid THEN card ELSE FailedCard(c)
    /\ UNCHANGED <<owner, queue, task, bridge, jobs, interruptions>>

\* _release_reader(): by the owner only.
Released(c) == IF owner = c THEN None ELSE owner

\* _Library, _Callbacks and df_open, inside the try.
Open(c, ok) ==
    /\ worker[c].at = "library"
    /\ worker' = [worker EXCEPT ![c].at = "idle"]
    /\ IF ok
       THEN /\ card' = [card EXCEPT ![c].phase = "open", ![c].handle = TRUE,
                                    ![c].registered = TRUE]
            /\ UNCHANGED owner
       ELSE /\ card' = FailedCard(c)
            /\ owner' = Released(c)
    /\ UNCHANGED <<queue, task, bridge, jobs, interruptions>>

\* The task that connects is cancelled: shutdown(wait=True) lets the constructor end.
CancelConnect(c) ==
    /\ LoopFree
    /\ card[c].phase = "opening"
    /\ ~card[c].abandoned
    /\ card' = [card EXCEPT ![c].abandoned = TRUE]
    /\ UNCHANGED <<owner, queue, worker, task, bridge, jobs, interruptions>>

\* __del__ of a Card nobody received closes it.
Drop(c) ==
    /\ card[c].phase = "open" /\ card[c].abandoned /\ card[c].handle
    /\ card' = [card EXCEPT ![c].handle = FALSE, ![c].registered = FALSE, ![c].phase = "failed"]
    /\ owner' = Released(c)
    /\ UNCHANGED <<queue, worker, task, bridge, jobs, interruptions>>

(***************************************************************************)
(* Submitting and awaiting, _run().                                        *)
(***************************************************************************)
\* Mutation: only a card that is closed refuses.
AdmitsClosing(c) == card[c].phase = "open" /\ ~card[c].abandoned

\* self._closed or self._closing
Admits(c) == card[c].phase = "open" /\ ~card[c].abandoned /\ ~card[c].closing

\* An operation without a callback on the loop ("plain") or with an AsyncProvider.
Submit(c, t, kind) ==
    /\ LoopFree
    /\ Admits(c)
    /\ task[t].stage = "none"
    /\ \A u \in Tasks : u < t => task[u].stage # "none"
    /\ task' = [task EXCEPT ![t].stage = "waiting", ![t].of = c, ![t].kind = kind,
                            ![t].work = "queued"]
    /\ queue' = [queue EXCEPT ![c] = Append(@, t)]
    /\ UNCHANGED <<owner, card, worker, bridge, jobs, interruptions>>

Returned(t, result) == [task EXCEPT ![t].stage = "done", ![t].result = result]

\* The first await completes.
Resume(t) ==
    /\ LoopFree
    /\ task[t].stage = "waiting"
    /\ task[t].work = "finished"
    /\ task' = Returned(t, task[t].outcome)
    /\ UNCHANGED <<owner, card, queue, worker, bridge, jobs, interruptions>>

\* work.cancel(): Future.cancel() succeeds until the worker takes the item.
Cancellable(t) == task[t].work = "queued"

\* _AsyncProviderBridge.cancel(): TRUE means no native I/O will happen.
HookAnswer(t) ==
    /\ task[t].kind = "provider"
    /\ ~bridge[t].finished
    /\ bridge[t].stored => bridge[t].future \notin {"finished", "failed"}

Hooked(t) ==
    IF task[t].kind # "provider" \/ bridge[t].finished
    THEN bridge
    ELSE [bridge EXCEPT ![t].asked = TRUE,
                        ![t].future = IF bridge[t].stored /\ @ = "pending" THEN "cancelled" ELSE @]

Job(t, c) == [task |-> t, card |-> c, at |-> "queued"]

\* The task is cancelled in its first await.
CancelTask(t) ==
    /\ LoopFree
    /\ task[t].stage = "waiting"
    /\ Interrupt
    /\ LET c == task[t].of
           counted == [task[t] EXCEPT !.cancels = @ + 1]
       IN IF Cancellable(t)
          THEN /\ task' = [task EXCEPT ![t] = [counted EXCEPT !.stage = "done",
                                                              !.work = "cancelled",
                                                              !.result = "not_sent"]]
               /\ queue' = [queue EXCEPT ![c] = SelectSeq(@, LAMBDA w : w # t)]
               /\ UNCHANGED <<bridge, jobs>>
          ELSE /\ task' = [task EXCEPT ![t] = [counted EXCEPT !.stage = "draining",
                                                              !.promised = HookAnswer(t)]]
               /\ bridge' = Hooked(t)
               /\ jobs' = IF HookAnswer(t) THEN jobs ELSE jobs \cup {Job(t, c)}
               /\ UNCHANGED queue
    /\ UNCHANGED <<owner, card, worker>>

HasJob(t) == \E j \in jobs : j.task = t

\* Mutation: the finally clause does not wait for the cancellation.
AfterDrainingReturns(t) == "done"

\* The finally clause awaits the call of Card.cancel().
AfterDraining(t) == IF HasJob(t) THEN "joining" ELSE "done"

\* The second await completes.
Drained(t) ==
    /\ LoopFree
    /\ task[t].stage = "draining"
    /\ task[t].work = "finished"
    /\ task' = [task EXCEPT ![t].stage = AfterDraining(t), ![t].result = task[t].outcome]
    /\ UNCHANGED <<owner, card, queue, worker, bridge, jobs, interruptions>>

\* Mutation: an operation that is interrupted has no result.
InterruptedNone == "none"


\* "Active card operation was interrupted"
Interrupted == "unknown"

\* Cancelled again: the operation is given up, but its cancellation is awaited; the
\* except clause in the finally swallows any further cancellation.
CancelAgain(t) ==
    /\ LoopFree
    /\ Interrupt
    /\ \/ /\ task[t].stage = "draining"
          /\ task' = [task EXCEPT ![t].stage = AfterDraining(t), ![t].result = Interrupted,
                                  ![t].cancels = @ + 1]
       \/ /\ task[t].stage = "joining"
          /\ task' = [task EXCEPT ![t].stage = "done", ![t].cancels = @ + 1]
    /\ UNCHANGED <<owner, card, queue, worker, bridge, jobs>>

\* The cancellation has returned.
Joined(t) ==
    /\ LoopFree
    /\ task[t].stage = "joining"
    /\ ~HasJob(t)
    /\ task' = [task EXCEPT ![t].stage = "done"]
    /\ UNCHANGED <<owner, card, queue, worker, bridge, jobs, interruptions>>

(***************************************************************************)
(* The worker: operations.                                                 *)
(***************************************************************************)
\* A negative item is the Card.close() of a close() call.
TakeWork(c) ==
    /\ worker[c].at = "idle"
    /\ queue[c] # <<>>
    /\ queue' = [queue EXCEPT ![c] = Tail(@)]
    /\ LET item == Head(queue[c])
       IN IF item > 0
          THEN /\ worker' = [worker EXCEPT ![c] = [at |-> "enter", task |-> item]]
               /\ task' = [task EXCEPT ![item].work = "running"]
          ELSE /\ worker' = [worker EXCEPT ![c] = [at |-> "close", task |-> item]]
               /\ UNCHANGED task
    /\ UNCHANGED <<owner, card, bridge, jobs, interruptions>>

Finish(c, outcome) ==
    /\ task' = [task EXCEPT ![worker[c].task].work = "finished",
                            ![worker[c].task].outcome = outcome]
    /\ worker' = [worker EXCEPT ![c] = NewWorker]

\* _enter_operation(): STALE_HANDLE after close; else the key is resolved first.
EnterOperation(c) ==
    /\ worker[c].at = "enter"
    /\ IF ~card[c].handle
       THEN Finish(c, "not_sent")
       ELSE /\ worker' = [worker EXCEPT ![c].at = IF task[worker[c].task].kind = "provider"
                                                  THEN "resolve" ELSE "native"]
            /\ UNCHANGED task
    /\ UNCHANGED <<owner, card, queue, bridge, jobs, interruptions>>

\* resolve(): run_coroutine_threadsafe() starts the provider; the bridge does not
\* know its future yet.
ScheduleProvider(c) ==
    /\ worker[c].at = "resolve"
    /\ bridge' = [bridge EXCEPT ![worker[c].task].future = "pending"]
    /\ worker' = [worker EXCEPT ![c].at = "store"]
    /\ UNCHANGED <<owner, card, queue, task, jobs, interruptions>>

\* Mutation: a request that came before the future is forgotten.
StoredFutureForgets(b) == [b EXCEPT !.stored = TRUE]

\* Under the lock; future.cancel() does nothing to a future that has finished.
StoredFuture(b) ==
    [b EXCEPT !.stored = TRUE,
              !.future = IF b.asked /\ @ = "pending" THEN "cancelled" ELSE @]

StoreFuture(c) ==
    /\ worker[c].at = "store"
    /\ bridge' = [bridge EXCEPT ![worker[c].task] = StoredFuture(@)]
    /\ worker' = [worker EXCEPT ![c].at = "await"]
    /\ UNCHANGED <<owner, card, queue, task, jobs, interruptions>>

\* The provider's coroutine ends on the event loop, at any time or never.
ProviderSettles(t, ok) ==
    /\ LoopFree
    /\ bridge[t].future = "pending"
    /\ bridge' = [bridge EXCEPT ![t].future = IF ok THEN "finished" ELSE "failed"]
    /\ UNCHANGED <<owner, card, queue, worker, task, jobs, interruptions>>

\* future.result(): without a key resolve_key_source() reports not_sent.
KeyArrives(c) ==
    /\ worker[c].at = "await"
    /\ LET t == worker[c].task
       IN /\ bridge[t].future # "pending"
          /\ bridge' = [bridge EXCEPT ![t].stored = FALSE, ![t].finished = TRUE]
          /\ IF bridge[t].future = "finished"
             THEN /\ worker' = [worker EXCEPT ![c].at = "native"]
                  /\ UNCHANGED task
             ELSE Finish(c, "not_sent")
    /\ UNCHANGED <<owner, card, queue, jobs, interruptions>>

\* _invoke_admitted(): arguments are refused, or the library calls the reader.
CallNative(c, refused) ==
    /\ worker[c].at = "native"
    /\ IF refused
       THEN Finish(c, "not_sent")
       ELSE /\ worker' = [worker EXCEPT ![c].at = "exchange"]
            /\ task' = [task EXCEPT ![worker[c].task].sent = TRUE]
    /\ UNCHANGED <<owner, card, queue, bridge, jobs, interruptions>>

\* What the reader's end tells: the answer or another verdict of the card ("definite"),
\* nothing certain, or that the frame was not sent, and then the card has not heard it.
Evidence == {"definite", "not_sent", "unknown"}

\* The reader returns or raises: _callback_failure() keeps the outcome of a DesfireError
\* and makes any other exception unknown.
ReaderReturns(c, evidence) ==
    /\ worker[c].at = "exchange"
    /\ worker' = [worker EXCEPT ![c] = NewWorker]
    /\ task' = [task EXCEPT ![worker[c].task].work = "finished",
                            ![worker[c].task].outcome = evidence,
                            ![worker[c].task].heard = evidence # "not_sent"]
    /\ UNCHANGED <<owner, card, queue, bridge, jobs, interruptions>>

(***************************************************************************)
(* Card.cancel() on a thread of the default executor, or on the loop.      *)
(***************************************************************************)
\* AsyncCard.cancel()
DirectCancel(c) ==
    /\ LoopFree
    /\ card[c].phase = "open" /\ ~card[c].abandoned
    /\ Interrupt
    /\ jobs' = jobs \cup {Job(NoTask, c)}
    /\ UNCHANGED <<owner, card, queue, worker, task, bridge>>

Moved(j, at) == (jobs \ {j}) \cup {[j EXCEPT !.at = at]}

\* _lifecycle(): the handle is read under the lock.
CancelReadsHandle(j) ==
    /\ j.at = "queued"
    /\ jobs' = IF card[j.card].handle THEN Moved(j, "handle") ELSE jobs \ {j}
    /\ UNCHANGED <<owner, card, queue, worker, task, bridge, interruptions>>

\* df_cancel() pins the entry, unless the handle is stale, and calls reader.cancel().
CancelCallsReader(j) ==
    /\ j.at = "handle"
    /\ jobs' = IF card[j.card].registered THEN Moved(j, "callback") ELSE jobs \ {j}
    /\ UNCHANGED <<owner, card, queue, worker, task, bridge, interruptions>>

CancelReturns(j) ==
    /\ j.at = "callback"
    /\ jobs' = jobs \ {j}
    /\ UNCHANGED <<owner, card, queue, worker, task, bridge, interruptions>>

(***************************************************************************)
(* Closing.                                                                *)
(***************************************************************************)
\* close(): a call during another one waits until that one has ended.
Close(c) ==
    /\ LoopFree
    /\ card[c].phase = "open" /\ ~card[c].abandoned
    /\ ~card[c].closing
    /\ Interrupt
    /\ card' = [card EXCEPT ![c].closing = TRUE, ![c].waiting = TRUE, ![c].attempt = @ + 1,
                            ![c].verdict = "none"]
    /\ queue' = [queue EXCEPT ![c] = Append(@, -(card[c].attempt + 1))]
    /\ UNCHANGED <<owner, worker, task, bridge, jobs>>

\* The result of a close() nobody awaits any more is dropped.
Verdict(c, v) ==
    IF worker[c].task = -card[c].attempt /\ card[c].waiting
    THEN [card[c] EXCEPT !.verdict = v] ELSE card[c]

\* Card.close(): df_close() takes the handle out of the registry; a call of cancel()
\* that has pinned the entry goes on.
NativeClose(c, ok) ==
    /\ worker[c].at = "close"
    /\ IF card[c].handle /\ ok
       THEN /\ card' = [card EXCEPT ![c].registered = FALSE]
            /\ worker' = [worker EXCEPT ![c].at = "clear"]
       ELSE /\ card' = [card EXCEPT ![c] = Verdict(c, IF card[c].handle THEN "failed" ELSE "ok")]
            /\ worker' = [worker EXCEPT ![c] = NewWorker]
    /\ UNCHANGED <<owner, queue, task, bridge, jobs, interruptions>>

ClearHandle(c) ==
    /\ worker[c].at = "clear"
    /\ card' = [card EXCEPT ![c].handle = FALSE]
    /\ worker' = [worker EXCEPT ![c].at = "release"]
    /\ UNCHANGED <<owner, queue, task, bridge, jobs, interruptions>>

ReleaseReader(c) ==
    /\ worker[c].at = "release"
    /\ owner' = Released(c)
    /\ card' = [card EXCEPT ![c] = Verdict(c, "ok")]
    /\ worker' = [worker EXCEPT ![c] = NewWorker]
    /\ UNCHANGED <<queue, task, bridge, jobs, interruptions>>

\* close() resumes; shutdown(cancel_futures=True) ends the executor.
CloseResumes(c) ==
    /\ LoopFree
    /\ card[c].waiting /\ card[c].verdict # "none"
    /\ card' = [card EXCEPT ![c].waiting = FALSE, ![c].closing = FALSE, ![c].verdict = "none",
                            ![c].phase = IF card[c].verdict = "ok" THEN "closed" ELSE @]
    /\ UNCHANGED <<owner, queue, worker, task, bridge, jobs, interruptions>>

\* The task that closes is cancelled: the work it submitted stays in the queue.
CancelClose(c) ==
    /\ LoopFree
    /\ card[c].waiting
    /\ card' = [card EXCEPT ![c].waiting = FALSE, ![c].closing = FALSE, ![c].verdict = "none"]
    /\ UNCHANGED <<owner, queue, worker, task, bridge, jobs, interruptions>>

(***************************************************************************)
(* The specification.                                                      *)
(***************************************************************************)
Loop(t) == Resume(t) \/ Drained(t) \/ Joined(t)

Worker(c) ==
    \/ TakeWork(c) \/ EnterOperation(c) \/ ScheduleProvider(c) \/ StoreFuture(c) \/ KeyArrives(c)
    \/ \E refused \in BOOLEAN : CallNative(c, refused)
    \/ \E evidence \in Evidence : ReaderReturns(c, evidence)
    \/ \E ok \in BOOLEAN : NativeClose(c, ok)
    \/ ClearHandle(c) \/ ReleaseReader(c)

Canceller == \E j \in jobs : CancelReadsHandle(j) \/ CancelCallsReader(j) \/ CancelReturns(j)

Next ==
    \/ \E c \in Cards :
        \/ Connect(c) \/ Claim(c) \/ CancelConnect(c) \/ Drop(c)
        \/ \E valid \in BOOLEAN : CheckOptions(c, valid)
        \/ \E ok \in BOOLEAN : Open(c, ok)
        \/ \E t \in Tasks, kind \in {"plain", "provider"} : Submit(c, t, kind)
        \/ DirectCancel(c) \/ Close(c) \/ CloseResumes(c) \/ CancelClose(c)
        \/ Worker(c)
    \/ \E t \in Tasks :
        \/ Loop(t) \/ CancelTask(t) \/ CancelAgain(t)
        \/ \E ok \in BOOLEAN : ProviderSettles(t, ok)
    \/ Canceller

Spec == Init /\ [][Next]_vars

\* Threads are scheduled, the loop runs what is ready, and the reader returns from
\* its calls.  Nothing makes a key provider answer.
FairSpec ==
    /\ Spec
    /\ \A c \in Cards : WF_vars(Worker(c))
    /\ \A t \in Tasks : WF_vars(Loop(t))
    /\ WF_vars(Canceller)

(***************************************************************************)
(* Properties.                                                             *)
(***************************************************************************)
\* The states of cards, workers, futures and jobs; the work that waits in a queue is
\* exactly the work the futures call pending.
TypeOK ==
    /\ owner \in Cards \cup {None}
    /\ \A c \in Cards :
        /\ card[c].phase \in {"new", "opening", "open", "closed", "failed"}
        /\ card[c].attempt \in 0..MaxInterruptions
        /\ worker[c].at \in {"idle", "claim", "options", "library", "enter", "resolve", "store",
                             "await", "native", "exchange", "close", "clear", "release"}
        /\ {t \in Tasks : task[t].of = c /\ task[t].work = "queued"}
             = {queue[c][i] : i \in DOMAIN queue[c]} \cap Tasks
    /\ \A t \in Tasks :
        /\ task[t].stage \in {"none", "waiting", "draining", "joining", "done"}
        /\ task[t].result \in {"none", "definite", "not_sent", "unknown"}
        /\ task[t].stage = "done" => task[t].result # "none"
        /\ bridge[t].future \in {"none", "pending", "finished", "failed", "cancelled"}
    /\ \A j \in jobs : j.card \in Cards /\ j.at \in {"queued", "handle", "callback"}

\* Of an operation that was reported not_sent the card has heard nothing and hears
\* nothing later: not of one cancelled in the queue, in key resolution, during the
\* reader's call or after close(), nor of one whose reader said so itself.
NotSentUnheard ==
    \A t \in Tasks :
        task[t].stage = "done" /\ task[t].result = "not_sent" =>
            /\ ~task[t].heard
            /\ task[t].work \in {"finished", "cancelled"}

\* A task that was cancelled once returns only when its operation has ended and its
\* call of reader.cancel() has returned: the reader is quiet as far as it goes.
QuietOnReturn ==
    \A t \in Tasks :
        task[t].stage = "done" /\ task[t].cancels <= 1 =>
            /\ task[t].work # "running"
            /\ ~HasJob(t)

\* A Card with a live handle owns its reader: two cards never operate on one.
OpenOwnsReader == \A c \in Cards : card[c].handle => owner = c

\* When close() has returned, the executor has nothing left to run: whatever was
\* admitted, also while an earlier close() was cancelled, has run before.
ClosedIsDrained ==
    \A c \in Cards : card[c].phase = "closed" => queue[c] = <<>> /\ worker[c].at = "idle"

Owed(t) == t \in Tasks /\ task[t].cancels > 0
Discharged(t) == t \in Tasks /\ task[t].stage = "done"

\* A task that is cancelled returns, even if its key provider never answers.
CancelledReturns == \A t \in Tasks : Owed(t) ~> Discharged(t)

\* The reader belongs to a card that is open, being opened or being closed, as the
\* message of _claim_reader() says.
ClaimMeansOpen == owner # None => card[owner].phase \notin {"failed", "closed"}

\* When the bridge's cancel() has answered that native I/O is impossible, the
\* operation makes no reader call.
HookIsRight == \A t \in Tasks : task[t].promised => ~task[t].sent

\* A claim is released only when no callback of the card runs any more.
ClaimOutlivesCallbacks == \A j \in jobs : j.at = "callback" => owner = j.card

==============================================================================
