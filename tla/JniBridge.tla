----------------------------- MODULE JniBridge -----------------------------
(***************************************************************************)
(* The Kotlin binding of one card or raw channel: the ticket gate of       *)
(* BlockingCard.kt (BlockingRawChannel.kt repeats it) and the JNI bridge   *)
(* under sdk/kotlin/src/main/cpp.                                          *)
(*                                                                         *)
(* Threads of the application call operations, cancellation, close and the *)
(* offline helpers.  A JNI entry point is a straight line of steps, each   *)
(* of which may throw; it is modelled by the sequence of its steps and by  *)
(* what its catch (...) reports.  The C call is opaque except for its      *)
(* callbacks into Java: resolving a key, exchanging a frame, resetting and *)
(* cancelling, during which the other threads go on.  The C ABI itself is  *)
(* the subject of ManagedApi, RawHandle and HandleRegistry.                *)
(*                                                                         *)
(* The C handle stores a plain pointer to the TransportContext and no      *)
(* retain callback; what keeps the context alive is the bridge's registry  *)
(* and the shared_ptr every entry point takes from it.                     *)
(***************************************************************************)
EXTENDS Integers, Sequences

CONSTANTS
    Threads,     \* threads of the application
    Entries(_),  \* the operations a thread calls
    MayManage,   \* the threads that open, cancel and close
    MaxFrames    \* bound: exchanges in one C call

ConstantsAssumption ==
    /\ MayManage \subseteq Threads
    /\ MaxFrames \in Nat \ {0}

VARIABLES
    gate,        \* BlockingCard: state and the admitted threads in ticket order
    entry,       \* the C handle: none, open or closed
    registered,  \* the bridge's registry holds the context under the handle
    context,     \* TransportContext: none, live or deleted
    providers,   \* TransportContext::providers: <<thread, provider>>
    call         \* call[t]: the JNI call of a thread

vars == <<gate, entry, registered, context, providers, call>>

-----------------------------------------------------------------------------
(* Entry points: what they act on, their steps, and the outcome that their *)
(* last catch clause reports ("dispatched": by the flag of that name).     *)

Entry(on, group, steps, caught) ==
    [on |-> on, group |-> group, steps |-> steps, caught |-> caught]

authenticate_managed_direct == <<"check", "card", "encode">>
authenticate_managed_provider == <<"check", "resolve", "card", "encode">>
authenticate_raw_direct == <<"check", "card", "encode">>
authenticate_raw_provider == <<"check", "resolve", "card", "encode">>

Native_open == Entry("managed", "open", <<"context", "descriptor", "df_open", "insert">>, "not_sent")
Native_close == Entry("managed", "close", <<"retain", "df_close", "erase">>, "unknown")
Native_cancel ==
    Entry("managed", "cancel", <<"retain", "cancel_provider", "df_cancel">>, "not_sent")

Native_invoke ==
    Entry("managed", "operation",
          <<"retain", "copy", "dispatch", "check", "card", "scalar", "take">>, "dispatched")

Native_authenticateDirect ==
    Entry("managed", "authentication",
          <<"retain", "copy", "check">> \o authenticate_managed_direct \o <<"java_bytes">>,
          "not_sent")

Native_authenticateDerived ==
    Entry("managed", "authentication",
          <<"copy", "derive", "retain", "copy", "check">> \o authenticate_managed_direct
              \o <<"java_bytes">>, "not_sent")

Native_authenticateProvider ==
    Entry("managed", "authentication",
          <<"retain", "provider", "activate", "copy", "check">>
              \o authenticate_managed_provider \o <<"java_bytes">>, "not_sent")

RawNative_open == Entry("raw", "open", <<"context", "descriptor", "df_open", "insert">>, "not_sent")
RawNative_close == Entry("raw", "close", <<"retain", "df_close", "erase">>, "unknown")
RawNative_cancel ==
    Entry("raw", "cancel", <<"retain", "cancel_provider", "df_cancel">>, "not_sent")

RawNative_invoke ==
    Entry("raw", "operation", <<"retain", "copy", "check", "card", "raw_result">>, "unknown")

RawNative_authenticateDirect ==
    Entry("raw", "authentication",
          <<"retain", "copy", "check">> \o authenticate_raw_direct \o <<"java_bytes">>,
          "not_sent")

RawNative_authenticateDerived ==
    Entry("raw", "authentication",
          <<"copy", "derive", "retain", "copy", "check">> \o authenticate_raw_direct
              \o <<"java_bytes">>, "not_sent")

RawNative_authenticateProvider ==
    Entry("raw", "authentication",
          <<"retain", "provider", "activate", "copy", "check">>
              \o authenticate_raw_provider \o <<"java_bytes">>, "not_sent")

Native_setDefaultAesKeyDirect ==
    Entry("managed", "operation", <<"check", "retain", "copy", "check", "card">>, "unknown")

Native_setDefaultAesKeyDerived ==
    Entry("managed", "operation",
          <<"check", "copy", "derive", "retain", "check", "card">>, "unknown")

Native_setDefaultAesKeyProvider ==
    Entry("managed", "operation",
          <<"check", "retain", "provider", "activate", "check", "resolve", "card">>,
          "unknown")

Native_createTransactionMacFileProvider ==
    Entry("managed", "operation",
          <<"check", "retain", "provider", "activate", "check", "resolve", "card">>,
          "unknown")

Native_changeAesKeyProvider ==
    Entry("managed", "operation",
          <<"check", "retain", "provider", "current", "activate", "activate_current",
            "check", "resolve", "resolve_current", "card">>, "unknown")

OfflineNative_deriveDirect ==
    Entry("none", "offline", <<"copy", "derive", "java_bytes">>, "not_sent")
OfflineNative_deriveProvider ==
    Entry("none", "offline", <<"provider", "resolve", "compute", "take">>, "not_sent")
OfflineNative_transactionMacDirect ==
    Entry("none", "offline", <<"check", "copy", "compute", "take">>, "not_sent")
OfflineNative_transactionMacProvider ==
    Entry("none", "offline", <<"check", "provider", "copy", "resolve", "compute", "take">>,
          "not_sent")
OfflineNative_verifyOriginality ==
    Entry("none", "offline", <<"copy", "compute">>, "not_sent")
OfflineNative_invoke ==
    Entry("none", "offline", <<"copy", "check", "compute", "take">>, "not_sent")
OfflineNative_invokeProvider ==
    Entry("none", "offline", <<"copy", "provider", "check", "resolve", "compute", "take">>,
          "not_sent")

AllEntries ==
    { Native_invoke, Native_authenticateDirect, Native_authenticateDerived,
      Native_authenticateProvider, RawNative_invoke, RawNative_authenticateDirect,
      RawNative_authenticateDerived, RawNative_authenticateProvider,
      Native_setDefaultAesKeyDirect, Native_setDefaultAesKeyDerived,
      Native_setDefaultAesKeyProvider, Native_createTransactionMacFileProvider,
      Native_changeAesKeyProvider, OfflineNative_deriveDirect,
      OfflineNative_deriveProvider, OfflineNative_transactionMacDirect,
      OfflineNative_transactionMacProvider, OfflineNative_verifyOriginality,
      OfflineNative_invoke, OfflineNative_invokeProvider }

-----------------------------------------------------------------------------
(* A call of a thread.                                                     *)

\* cancelled: ProviderContext::cancelled; stopped: those cancelled before their
\* key was there; key: native key buffers that hold a key; java_key: the Java
\* array of the provider still holds one; told: what the callbacks reported;
\* heard: the reader was given a frame; output: the df_buffer* is not null;
\* buffers: df_buffer objects allocated and not yet freed.
NoCall ==
    [phase |-> "idle", group |-> "none", steps |-> <<>>, caught |-> "none",
     held |-> FALSE, made |-> {}, cancelled |-> {}, stopped |-> {}, resolved |-> {},
     key |-> {}, java_key |-> FALSE, dispatched |-> FALSE, told |-> {}, frames |-> 0,
     heard |-> FALSE, output |-> FALSE, buffers |-> 0, code |-> "none",
     result |-> "none", nested |-> "no"]

Init ==
    /\ gate = [kind |-> "none", state |-> "none", line |-> <<>>]
    /\ entry = "none"
    /\ registered = FALSE
    /\ context = "none"
    /\ providers = {}
    /\ call = [t \in Threads |-> NoCall]

Enter(e, phase) ==
    [NoCall EXCEPT !.phase = phase, !.group = e.group, !.steps = e.steps,
                   !.caught = e.caught]

At(t, s) == call[t].phase = "running" /\ call[t].steps # <<>> /\ Head(call[t].steps) = s

\* The next step of the call; after the last one it returns.
Pass(c) == [c EXCEPT !.steps = Tail(@), !.phase = "running"]

Finish(c, result, code) ==
    [c EXCEPT !.phase = "leaving", !.steps = <<>>, !.result = result, !.code = code]

\* The C call failed: its key buffers are destroyed as it unwinds, and throw_error()
\* has the df_error it filled in.
Fail(c, outcome, code) == Finish([c EXCEPT !.key = {}], outcome, code)

\* df_buffer_free(output) of the clauses at the end of an entry point.
Freed(c) ==
    IF c.output THEN [c EXCEPT !.output = FALSE, !.buffers = @ - 1] ELSE c

Invalid(c) == Finish(Freed(c), "not_sent", "invalid_argument")
Stale(c) == Finish(Freed(c), "not_sent", "stale_handle")

\* Any other exception ends in catch (...).
Thrown(c) ==
    Finish(Freed(c),
           CASE c.caught = "dispatched" -> IF c.dispatched THEN "unknown" ELSE "not_sent"
             [] OTHER -> c.caught,
           "internal")

Set(t, c) == call' = [call EXCEPT ![t] = c]

-----------------------------------------------------------------------------
(* BlockingCard and BlockingRawChannel.                                    *)

Idle(t) == call[t].phase = "idle"
Gated == {"operation", "authentication"}

\* The next card is opened once nobody uses the last.
open(t) ==
    /\ Idle(t) /\ gate.state \in {"none", "CLOSED"} /\ t \in MayManage
    /\ \A u \in Threads : Idle(u)
    /\ \E e \in {Native_open, RawNative_open} :
          /\ Set(t, Enter(e, "running"))
          /\ gate' = [gate EXCEPT !.state = "OPENING", !.kind = e.on]
    /\ UNCHANGED <<entry, registered, context, providers>>

\* A closed or closing card refuses with closedError() before any ticket.
admit(t) ==
    /\ Idle(t) /\ gate.state = "OPEN"
    /\ \E e \in Entries(t) : e.on = gate.kind /\ Set(t, Enter(e, "waiting"))
    /\ gate' = [gate EXCEPT !.line = Append(@, t)]
    /\ UNCHANGED <<entry, registered, context, providers>>

\* Mutation: whoever was admitted goes ahead.
ServingAny(t) == TRUE

Serving(t) == Head(gate.line) = t

awaitTurn(t) ==
    /\ call[t].phase = "waiting" /\ Serving(t)
    /\ Set(t, [call[t] EXCEPT !.phase = "running"])
    /\ UNCHANGED <<gate, entry, registered, context, providers>>

offline(t) ==
    /\ Idle(t)
    /\ \E e \in Entries(t) : e.on = "none" /\ Set(t, Enter(e, "running"))
    /\ UNCHANGED <<gate, entry, registered, context, providers>>

\* The handle is read under the lock and used after it.
cancelActive(t) ==
    /\ Idle(t) /\ gate.state \in {"OPEN", "CLOSING"} /\ t \in MayManage
    /\ Set(t, Enter(IF gate.kind = "raw" THEN RawNative_cancel ELSE Native_cancel, "running"))
    /\ UNCHANGED <<gate, entry, registered, context, providers>>

\* A second closer waits for the first; a closed card returns at once.
close(t) ==
    /\ Idle(t) /\ gate.state = "OPEN" /\ t \in MayManage
    /\ Set(t, Enter(IF gate.kind = "raw" THEN RawNative_close ELSE Native_close, "draining"))
    /\ gate' = [gate EXCEPT !.state = "CLOSING"]
    /\ UNCHANGED <<entry, registered, context, providers>>

\* Mutation: close waits for the operation that runs, not for the queue.
DrainedActive == ~ \E t \in Threads : call[t].group \in Gated /\ call[t].phase # "waiting"

Drained == gate.line = <<>>

CloseDrained(t) ==
    /\ call[t].phase = "draining" /\ Drained
    /\ Set(t, [call[t] EXCEPT !.phase = "running"])
    /\ UNCHANGED <<gate, entry, registered, context, providers>>

Released(t) == Tail(gate.line)

StateAfter(t) ==
    CASE call[t].group = "open" -> IF call[t].result = "ok" THEN "OPEN" ELSE "none"
      [] call[t].group = "close" -> IF call[t].result = "ok" THEN "CLOSED" ELSE "OPEN"
      [] OTHER -> gate.state

\* releaseAdmission(), or the end of open() and close(): the application has
\* the result.
Return(t) ==
    /\ call[t].phase = "returned"
    /\ gate' = [gate EXCEPT !.state = StateAfter(t),
                            !.line = IF call[t].group \in Gated THEN Released(t) ELSE @]
    /\ Set(t, NoCall)
    /\ UNCHANGED <<entry, registered, context, providers>>

\* Mutation: the callbacks' thread is not recognised.
rejectReentryNever(t) == FALSE

\* The thread-local invoking.
rejectReentry(t) == call[t].group \in Gated

\* The application closes the card from a callback of one of its operations.
CallbackCloses(t) ==
    /\ call[t].phase \in {"resolving", "exchanging"} /\ call[t].nested = "no"
    /\ call[t].group \in Gated /\ gate.state = "OPEN" /\ t \in MayManage
    /\ IF rejectReentry(t)
         THEN Set(t, [call[t] EXCEPT !.nested = "busy"]) /\ UNCHANGED gate
         ELSE /\ Set(t, [call[t] EXCEPT !.nested = "closing"])
              /\ gate' = [gate EXCEPT !.state = "CLOSING"]
    /\ UNCHANGED <<entry, registered, context, providers>>

MayReturn(t) == call[t].nested = "closing" => Drained

-----------------------------------------------------------------------------
(* Lifetime of the context.                                                *)

\* Mutation: the context is looked up and not pinned.
PinnedByRegistry(c) == c

\* The shared_ptr a call takes from the registry.
Pinned(c) == [c EXCEPT !.held = TRUE]

retain_from(t) ==
    /\ At(t, "retain")
    /\ Set(t, IF registered THEN Pass(Pinned(call[t])) ELSE Stale(call[t]))
    /\ UNCHANGED <<gate, entry, registered, context, providers>>

make_transport_context(t) ==
    /\ At(t, "context")
    /\ \/ context' = "live" /\ Set(t, Pass([call[t] EXCEPT !.held = TRUE]))
       \/ UNCHANGED context /\ (Set(t, Invalid(call[t])) \/ Set(t, Thrown(call[t])))
    /\ UNCHANGED <<gate, entry, registered, providers>>

make_transport_descriptor(t) ==
    /\ At(t, "descriptor")
    /\ \E c \in {Pass(call[t]), Invalid(call[t])} : Set(t, c)
    /\ UNCHANGED <<gate, entry, registered, context, providers>>

df_open(t) ==
    /\ At(t, "df_open")
    /\ \/ entry' = "open" /\ Set(t, Pass(call[t]))
       \/ UNCHANGED entry /\ Set(t, Fail(call[t], "not_sent", "refused"))
    /\ UNCHANGED <<gate, registered, context, providers>>

\* Mutation: the C handle is left open when it cannot be registered.
AfterInsertFailedOpen == "open"

\* df_close() in the clause around insert_managed() and insert_raw().
AfterInsertFailed == "closed"

insert(t) ==
    /\ At(t, "insert")
    /\ \/ /\ registered' = TRUE
          /\ Set(t, Pass([call[t] EXCEPT !.held = FALSE]))
          /\ UNCHANGED entry
       \/ /\ entry' = AfterInsertFailed
          /\ Set(t, Thrown(call[t]))
          /\ UNCHANGED registered
    /\ UNCHANGED <<gate, context, providers>>

\* The operation lock is free, as the gate has drained the card: what is left
\* is an exception that boundary() turns into DF_INTERNAL.
df_close(t) ==
    /\ At(t, "df_close")
    /\ \/ entry' = "closed" /\ Set(t, Pass(call[t]))
       \/ UNCHANGED entry /\ Set(t, Fail(call[t], "unknown", "internal"))
    /\ UNCHANGED <<gate, registered, context, providers>>

erase(t) ==
    /\ At(t, "erase")
    /\ registered' = FALSE
    /\ Set(t, Pass(call[t]))
    /\ UNCHANGED <<gate, entry, context, providers>>

\* Whether something besides thread t owns the context.
Owned(t) == registered \/ \E u \in Threads \ {t} : call[u].held

\* Mutation: a provider is left to expire in the list.
Unregistered(t) == {}

\* ~ActiveProvider: clear_provider().
clear_provider(t) == {p \in providers : p[1] = t}

\* The destructors at the end of the try block, in the reverse of their
\* construction; the last owner of the context deletes its references.
Leave(t) ==
    /\ \/ call[t].phase = "leaving"
       \/ call[t].phase = "running" /\ call[t].steps = <<>>
    /\ providers' = providers \ clear_provider(t)
    /\ context' = IF context = "live" /\ ~ Owned(t) THEN "deleted" ELSE context
    /\ Set(t, [call[t] EXCEPT !.phase = "returned", !.held = FALSE, !.made = {},
                              !.result = IF @ = "none" THEN "ok" ELSE @])
    /\ UNCHANGED <<gate, entry, registered>>

-----------------------------------------------------------------------------
(* Arguments and results.                                                  *)

\* copy_input(), copy_bytes(), read_arguments().
Copy(t) ==
    /\ At(t, "copy")
    /\ \E c \in {Pass(call[t]), Invalid(call[t]), Thrown(call[t])} : Set(t, c)
    /\ UNCHANGED <<gate, entry, registered, context, providers>>

\* timeout_value(), size_value(), require_counts() and the selectors.
Check(t) ==
    /\ At(t, "check")
    /\ \E c \in {Pass(call[t]), Invalid(call[t])} : Set(t, c)
    /\ UNCHANGED <<gate, entry, registered, context, providers>>

Dispatch(t) ==
    /\ At(t, "dispatch")
    /\ Set(t, Pass([call[t] EXCEPT !.dispatched = TRUE]))
    /\ UNCHANGED <<gate, entry, registered, context, providers>>

\* The error of the derivation is kept; an allocation may fail without one.
derive_key(t) ==
    /\ At(t, "derive")
    /\ \E c \in {Pass(call[t]), Fail(call[t], "not_sent", "derivation"), Thrown(call[t])} :
          Set(t, c)
    /\ UNCHANGED <<gate, entry, registered, context, providers>>

\* encode() of the EV2 metadata and the scalar of operations.inc allocate.
Allocate(t) ==
    /\ At(t, "encode") \/ At(t, "scalar")
    /\ \E c \in {Pass(call[t]), Thrown(call[t])} : Set(t, c)
    /\ UNCHANGED <<gate, entry, registered, context, providers>>

\* NewByteArray() leaves an OutOfMemoryError pending and returns null.
to_java_bytes(c) == {Pass(c), Finish(c, "java", "out_of_memory")}

\* Mutation: the owner frees the buffer and the pointer stays.
TakenTwice(c) == IF c.output THEN [c EXCEPT !.buffers = @ - 1] ELSE c

\* The unique_ptr that takes the df_buffer from output and frees it.
Taken(c) == IF c.output THEN [c EXCEPT !.output = FALSE, !.buffers = @ - 1] ELSE c

take_output(t) ==
    /\ At(t, "take")
    /\ \E c \in to_java_bytes(Taken(call[t])) : Set(t, c)
    /\ UNCHANGED <<gate, entry, registered, context, providers>>

raw_result(t) ==
    /\ At(t, "raw_result")
    /\ \E c \in to_java_bytes(Taken(call[t])) \union {Thrown(Taken(call[t]))} : Set(t, c)
    /\ UNCHANGED <<gate, entry, registered, context, providers>>

JavaBytes(t) ==
    /\ At(t, "java_bytes")
    /\ \E c \in to_java_bytes(call[t]) : Set(t, c)
    /\ UNCHANGED <<gate, entry, registered, context, providers>>

\* An offline helper of the C ABI.
Compute(t) ==
    /\ At(t, "compute")
    /\ \E c \in {Pass([call[t] EXCEPT !.key = {}]), Fail(call[t], "not_sent", "refused")}
              \union (IF Tail(call[t].steps) = <<"take">>
                        THEN {Pass([call[t] EXCEPT !.key = {}, !.output = TRUE,
                                                   !.buffers = @ + 1])}
                        ELSE {}) : Set(t, c)
    /\ UNCHANGED <<gate, entry, registered, context, providers>>

-----------------------------------------------------------------------------
(* Key providers: 1 is the key or its replacement, 2 the current key.      *)

ProviderOf(s) == IF s \in {"current", "activate_current", "resolve_current"} THEN 2 ELSE 1
Step(t) == IF call[t].steps = <<>> THEN "none" ELSE Head(call[t].steps)
Index(t) == ProviderOf(Step(t))

\* The current key is optional.
ProviderArguments(t) ==
    /\ At(t, "provider") \/ At(t, "current")
    /\ \E c \in {Pass([call[t] EXCEPT !.made = @ \union {Index(t)}]), Invalid(call[t]),
                 Thrown(call[t])}
              \union (IF Index(t) = 2 THEN {Pass(call[t])} ELSE {}) : Set(t, c)
    /\ UNCHANGED <<gate, entry, registered, context, providers>>

set_provider(t) ==
    /\ At(t, "activate") \/ At(t, "activate_current")
    /\ \/ /\ providers' = providers \union
                          (IF Index(t) \in call[t].made THEN {<<t, Index(t)>>} ELSE {})
          /\ Set(t, Pass(call[t]))
       \/ Set(t, Thrown(call[t])) /\ UNCHANGED providers
    /\ UNCHANGED <<gate, entry, registered, context>>

\* The C ABI asks provider_cancelled() and provider_resolve() asks again; it
\* may also refuse the call before, or fail to build the Java arrays.
ResolveBegins(t) ==
    /\ At(t, "resolve") \/ At(t, "resolve_current")
    /\ \E c \in IF Index(t) \notin call[t].made THEN {Pass(call[t])}
                ELSE IF Index(t) \in call[t].cancelled
                  THEN {Fail(call[t], "not_sent", "cancelled")}
                ELSE {[call[t] EXCEPT !.phase = "resolving"],
                      Fail(call[t], "not_sent", "refused")} : Set(t, c)
    /\ UNCHANGED <<gate, entry, registered, context, providers>>

ProviderReturns(t) ==
    /\ call[t].phase = "resolving" /\ MayReturn(t)
    /\ \E c \in {[call[t] EXCEPT !.phase = "resolved", !.java_key = TRUE],
                 Fail(call[t], "not_sent", "crypto")} : Set(t, c)
    /\ UNCHANGED <<gate, entry, registered, context, providers>>

\* Mutation: cancellation is looked at before the provider is asked only.
CancelledAfterNever(t) == FALSE

CancelledAfter(t) == Index(t) \in call[t].cancelled

\* Mutation: a cancelled resolution returns before the Java array is zeroed.
WipedKeyKept(c, k) == c

WipedKey(c, k) == [c EXCEPT !.java_key = FALSE, !.key = @ \ {k}]

\* provider_resolve() after Java: the key is copied, the Java array zeroed.
provider_resolve(t) ==
    /\ call[t].phase = "resolved"
    /\ Set(t, IF CancelledAfter(t)
                THEN Fail(WipedKey(call[t], Index(t)), "not_sent", "cancelled")
                ELSE Pass([call[t] EXCEPT !.java_key = FALSE, !.key = @ \union {Index(t)},
                                          !.resolved = @ \union {Index(t)}]))
    /\ UNCHANGED <<gate, entry, registered, context, providers>>

\* Every provider of the card, whichever thread resolves it.
cancel_provider(t) ==
    /\ At(t, "cancel_provider")
    /\ call' = [u \in Threads |->
                  LET hit == {k \in 1..2 : <<u, k>> \in providers}
                  IN  IF u = t THEN Pass(call[u])
                      ELSE [call[u] EXCEPT !.cancelled = @ \union hit,
                                           !.stopped = @ \union (hit \ call[u].resolved)]]
    /\ UNCHANGED <<gate, entry, registered, context, providers>>

-----------------------------------------------------------------------------
(* The C call and its callbacks.                                           *)

Outcomes == {"not_sent", "rejected", "succeeded", "unknown"}

\* Mutation: an exception that carries no evidence counts as not sent.
callback_exception_unsent(thrown) == IF thrown \in Outcomes THEN thrown ELSE "not_sent"

\* A DesfireException with values in range keeps its outcome.
callback_exception(thrown) == IF thrown \in Outcomes THEN thrown ELSE "unknown"

\* What the Java method did: answered, answered with null or too much, or threw,
\* and whether the reader was given the frame.  The host's evidence is honest.
Answers ==
    {[does |-> "response", frame |-> TRUE], [does |-> "oversized", frame |-> TRUE]}
        \union {a \in [does : Outcomes \union {"other"}, frame : BOOLEAN] :
                   /\ a.does = "not_sent" => ~ a.frame
                   /\ a.does \in {"rejected", "succeeded"} => a.frame}

exchange_callback(a) ==
    CASE a.does = "response" -> "response"
      [] a.does = "oversized" -> "unknown"
      [] OTHER -> callback_exception(a.does)

reset_callback(a) ==
    IF a.does \in {"response", "oversized"} THEN "response" ELSE callback_exception(a.does)

Told(c, a, evidence) ==
    [c EXCEPT !.phase = "running", !.told = @ \union {evidence}, !.heard = @ \/ a.frame,
              !.nested = "no"]

\* The frame cannot be handed to Java, or the reader is asked.
Exchange(t) ==
    /\ At(t, "card") /\ call[t].told \subseteq {"response"} /\ call[t].frames < MaxFrames
    /\ \E c \in {[call[t] EXCEPT !.phase = "exchanging", !.frames = @ + 1],
                 [call[t] EXCEPT !.told = @ \union {"not_sent"}]} : Set(t, c)
    /\ UNCHANGED <<gate, entry, registered, context, providers>>

ExchangeReturns(t) ==
    /\ call[t].phase = "exchanging" /\ MayReturn(t)
    /\ \E a \in Answers : Set(t, Told(call[t], a, exchange_callback(a)))
    /\ UNCHANGED <<gate, entry, registered, context, providers>>

\* The two invoke() entry points, which dispatch any operation.
Dispatches(c) == c.steps[Len(c.steps)] \in {"take", "raw_result"}

Reset(t) ==
    /\ At(t, "card") /\ Dispatches(call[t]) /\ call[t].frames = 0 /\ call[t].told = {}
    /\ \E c \in {[call[t] EXCEPT !.phase = "resetting", !.frames = MaxFrames],
                 [call[t] EXCEPT !.told = {"not_sent"}]} : Set(t, c)
    /\ UNCHANGED <<gate, entry, registered, context, providers>>

ResetReturns(t) ==
    /\ call[t].phase = "resetting"
    /\ \E a \in Answers : Set(t, Told(call[t], a, reset_callback(a)))
    /\ UNCHANGED <<gate, entry, registered, context, providers>>

\* The C ABI fails with not_sent only while no callback reported anything else.
CardOutcomes(told) ==
    IF told \subseteq {"not_sent"} THEN {"not_sent"} ELSE {"rejected", "unknown"}

\* Operations without a frame (notify_state_change, reset_authentication) exist.
CardSucceeds(c) ==
    c.told = {"response"} \/ (c.told = {} /\ Dispatches(c))

\* A response may come in a df_buffer; the key buffers of the C ABI are wiped.
CardReturns(t) ==
    /\ At(t, "card")
    /\ LET c == [call[t] EXCEPT !.key = {}]
       IN  \/ \E outcome \in CardOutcomes(c.told) : Set(t, Fail(c, outcome, "refused"))
           \/ CardSucceeds(c) /\ Set(t, Pass(c))
           \/ /\ CardSucceeds(c) /\ Dispatches(c)
              /\ Set(t, Pass([c EXCEPT !.output = TRUE, !.buffers = @ + 1]))
    /\ UNCHANGED <<gate, entry, registered, context, providers>>

\* df_cancel() looks the handle up and calls cancel_callback() without a lock.
df_cancel(t) ==
    /\ At(t, "df_cancel")
    /\ Set(t, IF entry = "open" THEN [call[t] EXCEPT !.phase = "cancelling"]
                                ELSE Fail(call[t], "not_sent", "stale_handle"))
    /\ UNCHANGED <<gate, entry, registered, context, providers>>

cancel_callback(t) ==
    /\ call[t].phase = "cancelling"
    /\ Set(t, Pass(call[t]))
    /\ UNCHANGED <<gate, entry, registered, context, providers>>

-----------------------------------------------------------------------------
\* What the application starts.
Starts(t) ==
    open(t) \/ admit(t) \/ offline(t) \/ cancelActive(t) \/ close(t) \/ CallbackCloses(t)

\* The bridge and the callbacks into the application.
Runs(t) ==
    \/ awaitTurn(t) \/ CloseDrained(t) \/ Return(t) \/ Leave(t)
    \/ retain_from(t) \/ make_transport_context(t)
    \/ make_transport_descriptor(t) \/ df_open(t) \/ insert(t) \/ df_close(t) \/ erase(t)
    \/ Copy(t) \/ Check(t) \/ Dispatch(t) \/ derive_key(t) \/ Allocate(t)
    \/ take_output(t) \/ raw_result(t) \/ JavaBytes(t) \/ Compute(t)
    \/ ProviderArguments(t) \/ set_provider(t) \/ ResolveBegins(t) \/ ProviderReturns(t)
    \/ provider_resolve(t) \/ cancel_provider(t)
    \/ Exchange(t) \/ ExchangeReturns(t) \/ Reset(t) \/ ResetReturns(t) \/ CardReturns(t)
    \/ df_cancel(t) \/ cancel_callback(t)

Next == \E t \in Threads : Starts(t) \/ Runs(t)

Spec == Init /\ [][Next]_vars

\* Threads are scheduled, and the callbacks return, as CardTransport asks: an
\* exchange has its deadline and cancel is prompt.
FairSpec == Spec /\ \A t \in Threads : WF_vars(Runs(t))

-----------------------------------------------------------------------------
Phases == {"idle", "waiting", "draining", "running", "leaving", "returned", "resolving",
           "resolved", "exchanging", "resetting", "cancelling"}

\* The shapes of the state.
TypeOK ==
    /\ gate.kind \in {"none", "managed", "raw"}
    /\ gate.state \in {"none", "OPENING", "OPEN", "CLOSING", "CLOSED"}
    /\ gate.line \in Seq(Threads)
    /\ entry \in {"none", "open", "closed"}
    /\ registered \in BOOLEAN
    /\ context \in {"none", "live", "deleted"}
    /\ providers \subseteq Threads \X (1..2)
    /\ \A t \in Threads :
          /\ call[t].phase \in Phases
          /\ call[t].result \in Outcomes \union {"none", "ok", "java"}
          /\ call[t].buffers \in 0..1
          /\ call[t].frames \in 0..MaxFrames

\* A callback from C finds the TransportContext its plain pointer names: a cancel
\* that read the handle before a close ended still owns the context.
CallbackInLiveContext ==
    \A t \in Threads :
        call[t].phase \in {"exchanging", "resetting", "cancelling"} => context = "live"

\* A C handle that is open has a context to call, also when it could not be
\* registered and when close fails half way.
OpenHasContext == entry = "open" => context = "live"

\* When a call returns, its buffers were freed exactly once, its providers have
\* left the list and their references are gone; when the card is closed and
\* nobody is in a call, the context is gone.
NothingKept ==
    /\ \A t \in Threads :
          call[t].phase \in {"idle", "returned"} =>
              call[t].buffers = 0 /\ \A p \in providers : p[1] # t
    /\ gate.state = "CLOSED" /\ (\A t \in Threads : Idle(t)) =>
          context = "deleted" /\ ~ registered

\* "Close rejects new calls, drains admitted calls": no admitted operation finds
\* its handle closed, however close, cancel and the queue interleave.
AdmittedNeverStale ==
    \A t \in Threads : call[t].group \in Gated => call[t].code # "stale_handle"

\* One operation at a time is inside the bridge, in the order of admission.
OneAtATime ==
    \A t \in Threads :
        call[t].group \in Gated /\ call[t].phase # "waiting" => Head(gate.line) = t

\* A key whose resolution was cancelled before it ended never reaches the card.
CancelStopsKeyUse ==
    \A t \in Threads : call[t].stopped # {} => ~ call[t].heard

\* Once a resolution has ended, cancelled or not, the array the provider returned is
\* zeroed, and no call ends with a key in a buffer of the C ABI, whichever of its
\* steps failed.
KeysWiped ==
    \A t \in Threads :
        /\ call[t].phase # "resolved" => ~ call[t].java_key
        /\ call[t].phase \in {"leaving", "returned", "idle"} => call[t].key = {}

\* Except for authentication, not_sent from the bridge means that the reader was
\* given no frame of this call.
UnsentUnheard ==
    \A t \in Threads :
        call[t].phase = "returned" /\ call[t].result = "not_sent"
            /\ call[t].group # "authentication" => ~ call[t].heard

\* The same for every call: "not_sent: No card frame was transmitted".
NotSentUnheard ==
    \A t \in Threads :
        call[t].phase = "returned" /\ call[t].result = "not_sent" => ~ call[t].heard

Owed(t) == t \in Threads /\ ~ Idle(t)
Discharged(t) == t \in Threads /\ Idle(t)

\* Every call of the application returns: the queue moves on, close drains it,
\* and nobody waits for a call that waits for them.
EveryCallReturns == \A t \in Threads : Owed(t) ~> Discharged(t)
=============================================================================
