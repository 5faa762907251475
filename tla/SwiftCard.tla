------------------------------- MODULE SwiftCard -------------------------------
(***************************************************************************)
(* The Swift binding: class Card of Card.swift, its serial dispatch queue, *)
(* the tokens of its operations, and the asynchronous resolution of keys   *)
(* (resolveKeySource of Keys.swift) inside the queue.                      *)
(*                                                                         *)
(* An operation is a task that awaits a block of the queue.  Its           *)
(* cancellation handler runs on whichever thread cancels the task.         *)
(* Sections under stateLock or under a token's lock are one step, except   *)
(* those that call the reader's cancel(): stateLock is held all the while. *)
(* A reader's exchange() may itself use the card through a task it creates *)
(* and wait for it.  The evidence in what it throws is true.  An operation *)
(* makes one reader call here: what the core makes of several frames is    *)
(* NativeChannel's subject.                                                *)
(***************************************************************************)
EXTENDS Integers, Sequences

CONSTANTS
    Ops,          \* operations, each called at most once
    MaxKeys,      \* keys an operation may need: up to 2 in the code
    MaxInterruptions   \* bound on the calls of cancel() and close()

ConstantsAssumption ==
    /\ Ops \subseteq Nat \ {0}
    /\ MaxKeys \in 0..2 /\ MaxInterruptions \in Nat

VARIABLES
    card,      \* the fields of Card and its entry in the library
    lock,      \* stateLock: who is inside reader.cancel() with it
    queue,     \* blocks of the dispatch queue that have not started
    worker,    \* the block the queue runs
    op,        \* per operation: its task, token, cancellation handler and keys
    directs    \* calls of cancel() so far

vars == <<card, lock, queue, worker, op, directs>>

None == 0
Direct == -1     \* the thread that calls cancel()
CloseBlock == 0  \* the block of a close() in the queue

(***************************************************************************)
(* State.                                                                  *)
(***************************************************************************)
\* context: the reader is retained; marked: close() calls that set closing and have
\* not queued their block; gone: deinit has run.
NewCard ==
    [active |-> None, closing |-> FALSE, closed |-> FALSE, registered |-> TRUE,
     context |-> TRUE, closes |-> 0, marked |-> 0, gone |-> FALSE]

\* preflight: the callback that cancels the key task; provider: that task; needs and
\* held: keys to resolve and copies resolved; leaked: a copy may have been released as
\* it was; handler: the cancellation handler; signalled: it called the reader's cancel();
\* stopped: cancelled before beginNative(); heard: a reader that failed does not rule out
\* that the card heard the frame.
NewOp ==
    [stage |-> "none", needs |-> 0, cancelled |-> FALSE, native |-> FALSE, preflight |-> FALSE,
     provider |-> "none", held |-> 0, handler |-> "none", signalled |-> FALSE,
     stopped |-> FALSE, heard |-> FALSE, leaked |-> FALSE, outcome |-> "none"]

NewWorker == [at |-> "idle", op |-> None, inner |-> None]

Init ==
    /\ card = NewCard
    /\ lock = None
    /\ queue = <<>>
    /\ worker = NewWorker
    /\ op = [o \in Ops |-> NewOp]
    /\ directs = 0

(***************************************************************************)
(* Calling: performAdmitted().                                             *)
(***************************************************************************)
Fresh(o) ==
    /\ op[o].stage = "none"
    /\ \A p \in Ops : p < o => op[p].stage # "none"
    /\ ~card.gone

Call(o, needs) ==
    /\ Fresh(o)
    /\ op' = [op EXCEPT ![o].stage = "called", ![o].needs = needs]
    /\ UNCHANGED <<card, lock, queue, worker, directs>>

\* Mutation: calls from a reader callback are let through.
RejectsReentryNever == FALSE

\* rejectCallbackReentry(): the task-local identifier is the card's own.
RejectsReentry == TRUE

\* A task created by exchange() calls the card; exchange() waits for it.
CallFromReader(o) ==
    /\ worker.at = "exchange" /\ worker.inner = None
    /\ Fresh(o)
    /\ worker' = [worker EXCEPT !.inner = o]
    /\ op' = IF RejectsReentry
             THEN [op EXCEPT ![o].stage = "done", ![o].outcome = "not_sent"]
             ELSE [op EXCEPT ![o].stage = "called"]
    /\ UNCHANGED <<card, lock, queue, directs>>

\* The continuation is queued, or resumed with staleHandle.
Enqueue(o) ==
    /\ op[o].stage = "called"
    /\ lock = None
    /\ IF card.closed \/ card.closing
       THEN /\ op' = [op EXCEPT ![o].stage = "resumed", ![o].outcome = "not_sent"]
            /\ UNCHANGED queue
       ELSE /\ op' = [op EXCEPT ![o].stage = "queued"]
            /\ queue' = Append(queue, o)
    /\ UNCHANGED <<card, lock, worker, directs>>

Return(o) ==
    /\ op[o].stage = "resumed"
    /\ op' = [op EXCEPT ![o].stage = "done"]
    /\ UNCHANGED <<card, lock, queue, worker, directs>>

(***************************************************************************)
(* The block of an operation.                                              *)
(***************************************************************************)
TakeBlock ==
    /\ worker.at = "idle" /\ queue # <<>>
    /\ queue' = Tail(queue)
    /\ worker' = [worker EXCEPT !.at = IF Head(queue) = CloseBlock THEN "close" ELSE "admit",
                                !.op = Head(queue)]
    /\ UNCHANGED <<card, lock, op, directs>>

At(place) == worker.at = place
Goto(place) == worker' = [worker EXCEPT !.at = place]

\* What is left of a copy when its owner is gone: Data is copied on write, so only
\* storage with a single reference is overwritten.
Wiped(references) == references = 1

\* The references there may be to the storage of key k: its variable, the result of a
\* task of waitForPreflight() that has not ended, "if var owned = second".
References(k) == IF k = 1 THEN 2 ELSE 3

\* The defer blocks of performWithKeySource(s).
WipeKeys(r) ==
    [r EXCEPT !.held = 0, !.leaked = @ \/ \E k \in 1..r.held : ~Wiped(References(k))]

\* The continuation is resumed after the keys are wiped; activeToken is cleared
\* before it when the block throws and after it when the block returns a value.
Ends(o, outcome) ==
    op' = [op EXCEPT ![o] = [WipeKeys(@) EXCEPT !.stage = "resumed", !.outcome = outcome]]

\* The block is admitted: refused when closed or cancelled.
Admit ==
    /\ At("admit") /\ lock = None
    /\ LET o == worker.op
       IN IF card.closed \/ op[o].cancelled
          THEN /\ Ends(o, "not_sent")
               /\ worker' = NewWorker
               /\ UNCHANGED card
          ELSE /\ card' = [card EXCEPT !.active = o]
               /\ op' = [op EXCEPT ![o].stage = "running"]
               /\ Goto("keys")
    /\ UNCHANGED <<lock, queue, directs>>

\* waitForPreflight(): the task that resolves the next key is created.
StartKey ==
    /\ At("keys")
    /\ LET o == worker.op
       IN IF op[o].held = op[o].needs
          THEN /\ Goto("begin")
               /\ UNCHANGED op
          ELSE /\ op' = [op EXCEPT ![o].provider = "pending"]
               /\ Goto("register")
    /\ UNCHANGED <<card, lock, queue, directs>>

\* Mutation: a cancellation that came before is not passed on.
RegisteredOnly(r) == [r EXCEPT !.preflight = TRUE]

\* registerPreflightCancellation()
Registered(r) ==
    [r EXCEPT !.preflight = TRUE,
              !.provider = IF r.cancelled /\ @ = "pending" THEN "cancelled" ELSE @]

RegisterKey ==
    /\ At("register")
    /\ op' = [op EXCEPT ![worker.op] = Registered(@)]
    /\ Goto("wait")
    /\ UNCHANGED <<card, lock, queue, directs>>

\* The provider returns a key, or throws.
ProviderSettles(o, ok) ==
    /\ op[o].provider = "pending"
    /\ op' = [op EXCEPT ![o].provider = IF ok THEN "key" ELSE "failed"]
    /\ UNCHANGED <<card, lock, queue, worker, directs>>

\* A cancelled provider ends with CancellationError, or with a key all the same.
ProviderStops(o, ok) ==
    /\ op[o].provider = "cancelled"
    /\ op' = [op EXCEPT ![o].provider = IF ok THEN "key" ELSE "failed"]
    /\ UNCHANGED <<card, lock, queue, worker, directs>>

Throw == worker' = [worker EXCEPT !.at = "throw"]

\* result.wait(), then clearPreflightCancellation()
KeyArrives ==
    /\ At("wait")
    /\ LET o == worker.op
       IN /\ op[o].provider \in {"key", "failed"}
          /\ op' = [op EXCEPT ![o].preflight = FALSE, ![o].provider = "none",
                              ![o].held = IF op[o].provider = "key" THEN @ + 1 ELSE @]
          /\ IF op[o].provider = "key" THEN Goto("keys") ELSE Throw
    /\ UNCHANGED <<card, lock, queue, directs>>

\* Mutation: native execution begins although the operation is cancelled.
BeginRefusesNever(o) == FALSE

\* guard !cancelled
BeginRefuses(o) == op[o].cancelled

\* beginNative()
BeginNative ==
    /\ At("begin")
    /\ LET o == worker.op
       IN IF BeginRefuses(o)
          THEN Throw /\ UNCHANGED op
          ELSE /\ op' = [op EXCEPT ![o].native = TRUE, ![o].preflight = FALSE]
               /\ Goto("native")
    /\ UNCHANGED <<card, lock, queue, directs>>

\* The C call refuses its arguments, or calls exchange().
CallNative(refused) ==
    /\ At("native")
    /\ IF refused
       THEN Throw
       ELSE Goto("exchange")
    /\ UNCHANGED <<card, lock, queue, op, directs>>

\* What the end of exchange() tells: the answer; that the frame was not sent, and then
\* the card has not heard it; or nothing of the kind ("unknown", which stands for the
\* verdicts rejected and succeeded as well).
Evidence == {"ok", "not_sent", "unknown"}

\* Mutation: an error of the reader without evidence counts as not sent.
FailureOutcomeNotSent(evidence) == IF evidence = "unknown" THEN "not_sent" ELSE evidence

\* callbackFailure(): native?.outcome ?? .unknown
FailureOutcome(evidence) == evidence

\* exchange() returns; the block resumes its task with a value and only then clears
\* activeToken, or clears it first and throws.
ReaderReturns(evidence) ==
    /\ At("exchange")
    /\ worker.inner # None => op[worker.inner].stage = "done"
    /\ IF evidence = "ok"
       THEN /\ Ends(worker.op, "ok")
            /\ worker' = [worker EXCEPT !.at = "clear", !.inner = None]
       ELSE /\ op' = [op EXCEPT ![worker.op].outcome = FailureOutcome(evidence),
                               ![worker.op].heard = evidence # "not_sent"]
            /\ worker' = [worker EXCEPT !.at = "throw", !.inner = None]
    /\ UNCHANGED <<card, lock, queue, directs>>

\* defer { activeToken = nil } of a block that has resumed its task
ClearActive ==
    /\ At("clear") /\ lock = None
    /\ card' = [card EXCEPT !.active = None]
    /\ worker' = NewWorker
    /\ UNCHANGED <<lock, queue, op, directs>>

\* The same of a block that throws, before the catch resumes the task.
ThrowEnds ==
    /\ At("throw") /\ lock = None
    /\ card' = [card EXCEPT !.active = None]
    /\ Ends(worker.op, IF op[worker.op].outcome = "none" THEN "not_sent" ELSE op[worker.op].outcome)
    /\ worker' = NewWorker
    /\ UNCHANGED <<lock, queue, directs>>

(***************************************************************************)
(* Cancellation.                                                           *)
(***************************************************************************)
\* The handler's token.cancel(): before, while or after the block runs.
CancelToken(o) ==
    /\ op[o].stage \in {"called", "queued", "running", "resumed"}
    /\ op[o].handler = "none"
    /\ op' = [op EXCEPT ![o].cancelled = TRUE, ![o].handler = "token",
                        ![o].stopped = ~op[o].native,
                        ![o].provider = IF op[o].preflight /\ @ = "pending" THEN "cancelled" ELSE @]
    /\ UNCHANGED <<card, lock, queue, worker, directs>>

\* Mutation: any operation in native code is cancelled.
InterruptsAny(o) == ~card.closed /\ card.active # None /\ op[card.active].native

\* Mutation: stateLock is given up before the reader is called.
HolderNone(who) == None

\* stateLock.withLock around df_cancel()
Holder(who) == who

\* The guard of cancelIfActive(); cancelActive is set only under stateLock.
Interrupts(o) == ~card.closed /\ card.active = o /\ op[o].native

\* cancelIfActive()
CancelIfActive(o) ==
    /\ op[o].handler = "token" /\ lock = None
    /\ IF Interrupts(o)
       THEN /\ lock' = Holder(o)
            /\ op' = [op EXCEPT ![o].handler = "callback", ![o].signalled = TRUE]
       ELSE /\ op' = [op EXCEPT ![o].handler = "done"]
            /\ UNCHANGED lock
    /\ UNCHANGED <<card, queue, worker, directs>>

CancelReturns(o) ==
    /\ op[o].handler = "callback"
    /\ op' = [op EXCEPT ![o].handler = "done"]
    /\ lock' = IF lock = o THEN None ELSE lock
    /\ UNCHANGED <<card, queue, worker, directs>>

\* cancel(), refused on a closed card; concurrent calls wait for the lock.
DirectCancel ==
    /\ ~card.gone
    /\ lock = None /\ ~card.closed
    /\ directs + card.closes < MaxInterruptions
    /\ directs' = directs + 1
    /\ lock' = Direct
    /\ UNCHANGED <<card, queue, worker, op>>

DirectReturns ==
    /\ lock = Direct
    /\ lock' = None
    /\ UNCHANGED <<card, queue, worker, op, directs>>

(***************************************************************************)
(* Closing.                                                                *)
(***************************************************************************)
\* close(): closing is set under the lock, the block is queued after it.
Close ==
    /\ lock = None
    /\ ~card.closed /\ ~card.gone
    /\ directs + card.closes < MaxInterruptions
    /\ card' = [card EXCEPT !.closing = TRUE, !.closes = @ + 1, !.marked = @ + 1]
    /\ UNCHANGED <<lock, queue, worker, op, directs>>

EnqueueClose ==
    /\ card.marked > 0
    /\ card' = [card EXCEPT !.marked = @ - 1]
    /\ queue' = Append(queue, CloseBlock)
    /\ UNCHANGED <<lock, worker, op, directs>>

\* df_close() and the release of the reader, under the lock.
CloseRuns(ok) ==
    /\ At("close") /\ lock = None
    /\ card' = IF card.closed THEN card
               ELSE IF ok
               THEN [card EXCEPT !.registered = FALSE, !.closed = TRUE, !.context = FALSE]
               ELSE [card EXCEPT !.closing = FALSE]
    /\ worker' = NewWorker
    /\ UNCHANGED <<lock, queue, op, directs>>

\* deinit: nothing refers to the card any more; a close that fails keeps the reader.
Deinit(ok) ==
    /\ ~card.gone /\ ~card.closed
    /\ lock = None /\ worker.at = "idle" /\ queue = <<>> /\ card.marked = 0
    /\ \A o \in Ops : op[o].stage \in {"none", "done"} /\ op[o].handler \in {"none", "done"}
    /\ card' = [card EXCEPT !.gone = TRUE, !.registered = ~ok, !.context = ~ok]
    /\ UNCHANGED <<lock, queue, worker, op, directs>>

(***************************************************************************)
(* The specification.                                                      *)
(***************************************************************************)
Worker ==
    \/ TakeBlock \/ Admit \/ StartKey \/ RegisterKey \/ KeyArrives \/ BeginNative
    \/ \E refused \in BOOLEAN : CallNative(refused)
    \/ \E evidence \in Evidence : ReaderReturns(evidence)
    \/ \E ok \in BOOLEAN : CloseRuns(ok)
    \/ ClearActive \/ ThrowEnds

Task(o) == Enqueue(o) \/ Return(o)

Handler(o) == CancelIfActive(o) \/ CancelReturns(o)

Stops(o) == \E ok \in BOOLEAN : ProviderStops(o, ok)

Next ==
    \/ \E o \in Ops :
        \/ \E needs \in 0..MaxKeys : Call(o, needs)
        \/ CallFromReader(o) \/ Task(o)
        \/ CancelToken(o) \/ Handler(o) \/ Stops(o)
        \/ \E ok \in BOOLEAN : ProviderSettles(o, ok)
    \/ Worker
    \/ DirectCancel \/ DirectReturns
    \/ Close \/ EnqueueClose \/ \E ok \in BOOLEAN : Deinit(ok)

Spec == Init /\ [][Next]_vars

\* Threads and tasks are scheduled, the reader returns from its calls, and a key
\* provider ends when it is cancelled.  Nothing makes it end before.
FairSpec ==
    /\ Spec
    /\ WF_vars(Worker) /\ WF_vars(DirectReturns) /\ WF_vars(EnqueueClose)
    /\ \A o \in Ops : WF_vars(Task(o)) /\ WF_vars(Handler(o)) /\ WF_vars(Stops(o))

(***************************************************************************)
(* Properties.                                                             *)
(***************************************************************************)
\* The states of the card, the queue and the operations; an operation is the active
\* one exactly while its block is between admission and the end of its defer.
TypeOK ==
    /\ lock \in Ops \cup {None, Direct}
    /\ card.closes \in 0..MaxInterruptions /\ card.marked \in 0..card.closes
    /\ \A i \in DOMAIN queue : queue[i] \in Ops \cup {CloseBlock}
    /\ card.active = IF worker.at \in {"idle", "admit", "close"} THEN None ELSE worker.op
    /\ \A o \in Ops :
        /\ op[o].stage \in {"none", "called", "queued", "running", "resumed", "done"}
        /\ op[o].handler \in {"none", "token", "callback", "done"}
        /\ op[o].outcome \in Evidence \cup {"none"}
        /\ op[o].held \in 0..MaxKeys

\* While reader.cancel() runs for a cancelled task, no other operation is in the
\* reader, and none gets there before it returns.
CancelIsOwn ==
    \A o \in Ops :
        op[o].handler = "callback" /\ worker.at \in {"native", "exchange"} => worker.op = o

\* When the cancellation handler of a task is through, its operation is not in
\* native code without reader.cancel() having been called for it.
CancelNotLost ==
    \A o \in Ops :
        op[o].handler = "done" /\ worker.op = o /\ worker.at \in {"native", "exchange"}
            => op[o].signalled

\* Every callback of the library finds the reader retained.
CallbackInLiveContext ==
    (lock = Direct \/ At("exchange") \/ \E o \in Ops : op[o].handler = "callback") => card.context

\* Of an operation reported not_sent the card has heard nothing and will hear nothing,
\* whether the queue, a cancellation, the key or the reader itself said so.
NotSentUnheard ==
    \A o \in Ops :
        op[o].stage \in {"resumed", "done"} /\ op[o].outcome = "not_sent" =>
            /\ ~op[o].heard
            /\ worker.op = o => ~At("exchange")

\* A call is owed its return from the start; the exception is an admitted operation
\* that asks for a key and is not cancelled, which waits for its provider and keeps
\* the queue.
Owed(o) == o \in Ops /\ op[o].stage \in {"called", "running"}
Discharged(o) ==
    \/ o \in Ops /\ op[o].stage = "done"
    \/ \E p \in Ops : op[p].stage = "running" /\ op[p].needs > 0 /\ ~op[p].cancelled

\* Every call returns unless somebody's key provider never does: not even a reader that
\* uses its own card and waits for it stops the queue, and a cancelled operation ends
\* also when its provider ends only because of the cancellation.
EveryCallReturns == \A o \in Ops : Owed(o) ~> Discharged(o)

\* A cancellation that comes before native execution stops it: the keys that were
\* resolved, or are still to come, are never used.
CancelStopsKeyUse == \A o \in Ops : op[o].stopped => ~op[o].native

\* The binding's copies of keys are overwritten before they are released.
BindingCopiesWiped == \A o \in Ops : ~op[o].leaked

==============================================================================
