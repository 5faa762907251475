--------------------------- MODULE NativeChannel ---------------------------
(***************************************************************************)
(* The raw native channel of the SDK: RawNativeChannel and its            *)
(* Transaction (core/src/native/raw/channel.cpp).                          *)
(*                                                                         *)
(* Several callers share one channel.  A caller owns the channel's         *)
(* recursive mutex and its operation_active flag for one logical           *)
(* operation, splits the request into physical frames, and hands each      *)
(* frame to the transport.  The transport and the card are external: a     *)
(* frame may reach the card or not, the answer may be lost, the card may   *)
(* be removed (the transport advances its generation), the caller's        *)
(* deadline may pass and its stop token may fire, all at any moment.       *)
(*                                                                         *)
(* Bytes are abstracted to their number: a frame is the interval of the    *)
(* request's data that it carries, a response its status and its length.   *)
(* What the card has really heard is kept in the ghost variables `heard`   *)
(* and `chain`, so that what the channel reports can be compared with it.  *)
(***************************************************************************)
EXTENDS Integers

CONSTANTS
    Callers,          \* threads that use the channel, one operation each
    Requests,         \* requests the callers may make, see RequestType
    MaxTransmit,      \* capabilities().max_transmit
    MaxReceive,       \* capabilities().max_receive
    MaxNativeFrame,   \* capabilities().max_native_frame
    Framing,          \* "direct" or "iso_wrapped", fixed by connect()
    MaxChainFrames,   \* maximum_chain_frames (4096 in the code)
    MaxGeneration     \* bound on the card generations explored

NoBoundary == -1      \* Request::first_frame_data_size is std::nullopt

(***************************************************************************)
(* raw::Request.  An "adaptive" request stands for a caller that uses      *)
(* exchange_frame() directly (authentication, DF-name iteration) and       *)
(* decides after each response whether another frame follows; its `data`   *)
(* is then the size of each frame.                                         *)
(***************************************************************************)
RequestType ==
    [kind : {"chained", "adaptive"}, data : Nat, first : Nat \cup {NoBoundary},
     single : BOOLEAN, limit : Nat]

ASSUME ConstantsAssumption ==
    /\ Requests \subseteq RequestType
    /\ MaxTransmit \in Nat /\ MaxReceive \in Nat /\ MaxNativeFrame \in Nat
    /\ Framing \in {"direct", "iso_wrapped"}
    /\ MaxChainFrames \in Nat \ {0}
    /\ MaxGeneration \in Nat

None == "none"

ASSUME NoneAssumption == None \notin Callers

VARIABLES
    generation,       \* the transport's card generation
    lockOwner,        \* the thread that holds State::operation_mutex
    operationActive,  \* State::operation_active
    reentered,        \* a transport callback locked the recursive mutex again
    pc,               \* where each caller is in its operation
    request,          \* the request of each caller
    expired,          \* each caller's deadline has passed
    stopped,          \* each caller's stop token has fired
    tx,               \* the Transaction of lockOwner, and exchange()'s locals
    frame,            \* the frame handed to the transport
    wire,             \* the bytes the transport returned
    result,           \* what each caller's operation returned
    heard,            \* ghost: what the card heard of each caller's operation
    chain             \* ghost: the operation the card waits to be continued

chVars == <<lockOwner, operationActive, reentered>>
envVars == <<generation, expired, stopped>>
vars == <<generation, lockOwner, operationActive, reentered, pc, request,
          expired, stopped, tx, frame, wire, result, heard, chain>>

-----------------------------------------------------------------------------
Outcomes == {None, "not_sent", "rejected", "succeeded", "unknown"}
Codes == {None, "ok", "invalid", "cancelled", "busy", "timeout", "card_removed",
          "transport", "malformed"}
Status == {"done", "additional_frame"}

\* The card acted on a frame and returned a terminal status ("done", success
\* or failure alike: the raw layer passes both on) or 0xAF.
WireType == [garbled : BOOLEAN, status : Status, size : Nat]
FrameType == [command : {"command", "continue"}, from : Nat, size : Nat,
              delivered : BOOLEAN]
TxType == [generation : 0..MaxGeneration, sentAny : BOOLEAN, uploaded : Nat,
           assembled : Nat, frameIndex : Nat]
HeardType == [frames : Nat, bytes : Nat, replied : Nat, intact : BOOLEAN,
              late : Nat]
ResultType == [code : Codes, outcome : Outcomes, size : Nat]

NoFrame == [command |-> "command", from |-> 0, size |-> 0, delivered |-> FALSE]
NoResult == [code |-> None, outcome |-> None, size |-> 0]
NoWire == [garbled |-> FALSE, status |-> "done", size |-> 0]
NewTx(g) == [generation |-> g, sentAny |-> FALSE, uploaded |-> 0,
             assembled |-> 0, frameIndex |-> 0]
Unheard == [frames |-> 0, bytes |-> 0, replied |-> 0, intact |-> TRUE,
            late |-> 0]

Init ==
    /\ generation = 0
    /\ lockOwner = None
    /\ operationActive = FALSE
    /\ reentered = FALSE
    /\ pc = [c \in Callers |-> "idle"]
    /\ request \in [Callers -> Requests]
    /\ expired = [c \in Callers |-> FALSE]
    /\ stopped = [c \in Callers |-> FALSE]
    /\ tx = NewTx(0)
    /\ frame = NoFrame
    /\ wire = NoWire
    /\ result = [c \in Callers |-> NoResult]
    /\ heard = [c \in Callers |-> Unheard]
    /\ chain = None

-----------------------------------------------------------------------------
(***************************************************************************)
(* Returning from an operation: its options go with it.                    *)
(***************************************************************************)
Return(c, r) ==
    /\ result' = [result EXCEPT ![c] = r]
    /\ pc' = [pc EXCEPT ![c] = "returned"]
    /\ expired' = [expired EXCEPT ![c] = FALSE]
    /\ stopped' = [stopped EXCEPT ![c] = FALSE]

Error(code, outcome) == [code |-> code, outcome |-> outcome, size |-> 0]

\* ~Transaction(): clear the activity flag and unlock.  The transaction and
\* the locals of exchange() are gone.
Release ==
    /\ lockOwner' = None
    /\ operationActive' = FALSE
    /\ tx' = NewTx(0)
    /\ frame' = NoFrame
    /\ wire' = NoWire
    /\ UNCHANGED reentered

\* Mutation: the upgrade of a late "not sent" is forgotten.
NormalizeDeliveryNever(outcome, sentAny) == outcome

\* normalize_delivery(): a later failure before sending is not "not sent"
\* once an earlier frame of the transaction completed.
NormalizeDelivery(outcome, sentAny) ==
    IF sentAny /\ outcome = "not_sent" THEN "unknown" ELSE outcome

-----------------------------------------------------------------------------
(***************************************************************************)
(* begin(): argument checks, then the mutex, then the activity flag.       *)
(***************************************************************************)
BeginRefused(c) ==
    /\ pc[c] = "idle"
    /\ \/ Return(c, Error("invalid", "not_sent"))      \* timeout <= 0
       \/ stopped[c] /\ Return(c, Error("cancelled", "not_sent"))
    /\ UNCHANGED <<chVars, generation, request, tx, frame, wire, heard, chain>>

BeginLock(c) ==
    /\ pc[c] = "idle"
    /\ ~stopped[c]
    /\ pc' = [pc EXCEPT ![c] = "locking"]
    /\ UNCHANGED <<chVars, envVars, request, tx, frame, wire, result, heard,
                   chain>>

\* Mutation: begin() does not wait for the mutex.
BeginAdmitUnlocked(c) ==
    /\ pc[c] = "locking"
    /\ lockOwner' = c
    /\ operationActive' = TRUE
    /\ tx' = NewTx(generation)
    /\ pc' = [pc EXCEPT ![c] = "admitted"]
    /\ UNCHANGED <<envVars, reentered, request, frame, wire, result, heard,
                   chain>>

\* The deadline runs from the construction of the Transaction, so waiting
\* for the mutex does not consume it; the generation is captured here too.
BeginAdmit(c) ==
    /\ pc[c] = "locking"
    /\ lockOwner = None
    /\ ~operationActive
    /\ lockOwner' = c
    /\ operationActive' = TRUE
    /\ tx' = NewTx(generation)
    /\ pc' = [pc EXCEPT ![c] = "admitted"]
    /\ UNCHANGED <<envVars, reentered, request, frame, wire, result, heard,
                   chain>>

\* A callback of the active operation runs on the owner's thread, which may
\* lock the recursive mutex again and calls begin() or reset() ...
CallbackReenters(c) ==
    /\ pc[c] \in {"transport", "resetting"}
    /\ ~reentered
    /\ lockOwner = c
    /\ reentered' = TRUE
    /\ UNCHANGED <<lockOwner, operationActive, envVars, pc, request, tx, frame,
                   wire, result, heard, chain>>

\* Mutation: the refused reentry forgets to unlock its level.
CallbackRefusedLocked(c) ==
    /\ reentered
    /\ lockOwner = c
    /\ operationActive
    /\ UNCHANGED vars

\* ... and is refused with `busy`, releasing only its own lock level.
CallbackRefused(c) ==
    /\ reentered
    /\ lockOwner = c
    /\ operationActive
    /\ reentered' = FALSE
    /\ UNCHANGED <<lockOwner, operationActive, envVars, pc, request, tx, frame,
                   wire, result, heard, chain>>

-----------------------------------------------------------------------------
(***************************************************************************)
(* exchange(Request), before the first frame.                              *)
(***************************************************************************)
Least(a, b) == IF a < b THEN a ELSE b

FramingOverhead == IF Framing = "direct" THEN 1 ELSE 6

DataPerFrame ==
    LET fitting == Least(MaxTransmit - FramingOverhead, MaxNativeFrame - 1)
    IN  IF Framing = "direct" THEN fitting ELSE Least(fitting, 255)

Carriable(r) ==
    /\ r.limit # 0
    /\ MaxTransmit > FramingOverhead /\ MaxNativeFrame >= 2
    /\ r.first # NoBoundary =>
          r.first # 0 /\ r.first < r.data /\ r.first <= DataPerFrame
    /\ r.single =>
          r.first # NoBoundary /\ r.data - r.first <= DataPerFrame

\* encode(): command byte and data, or 90 cmd 00 00 [Lc data] 00.
EncodedSize(n) ==
    IF Framing = "direct" THEN n + 1 ELSE IF n = 0 THEN 5 ELSE n + 6

\* exchange_frame()'s own capacity checks, for a frame of n data bytes.
FrameFits(n) ==
    /\ MaxNativeFrame # 0 /\ n <= MaxNativeFrame - 1
    /\ Framing = "iso_wrapped" => n <= 255
    /\ EncodedSize(n) <= MaxTransmit

PlanExchange(c) ==
    /\ pc[c] = "admitted"
    /\ request[c].kind = "chained" => Carriable(request[c])
    /\ pc' = [pc EXCEPT ![c] = "frame"]
    /\ UNCHANGED <<chVars, envVars, request, tx, frame, wire, result, heard,
                   chain>>

PlanRefused(c) ==
    /\ pc[c] = "admitted"
    /\ request[c].kind = "chained" /\ ~Carriable(request[c])
    /\ Return(c, Error("invalid", NormalizeDelivery("not_sent", tx.sentAny)))
    /\ Release
    /\ UNCHANGED <<generation, request, heard, chain>>

-----------------------------------------------------------------------------
(***************************************************************************)
(* exchange_frame(), up to the call of the transport.                      *)
(***************************************************************************)

\* Mutation: the stop token is only consulted before the first frame.
InterruptionStopOnce(c) ==
    IF expired[c] THEN "timeout"
    ELSE IF generation # tx.generation THEN "card_removed"
    ELSE IF stopped[c] /\ ~tx.sentAny THEN "cancelled"
    ELSE "ok"

\* remaining_options(): the first reason, in the code's order, for which no
\* further frame may be sent.
Interruption(c) ==
    IF expired[c] THEN "timeout"
    ELSE IF generation # tx.generation THEN "card_removed"
    ELSE IF stopped[c] THEN "cancelled"
    ELSE "ok"

\* Mutation: the command byte is counted as data.
CurrentSizeShort(c) ==
    LET r == request[c] IN
    IF r.kind = "adaptive" THEN r.data
    ELSE Least(DataPerFrame, r.data - tx.uploaded) - 1

\* The size of the next frame of exchange()'s loop.
CurrentSize(c) ==
    LET r == request[c] IN
    IF r.kind = "adaptive" THEN r.data
    ELSE IF tx.frameIndex = 0 /\ r.first # NoBoundary THEN r.first
    ELSE Least(DataPerFrame, r.data - tx.uploaded)

FrameInterrupted(c) ==
    /\ pc[c] = "frame"
    /\ Interruption(c) # "ok"
    /\ Return(c, Error(Interruption(c),
                       IF tx.sentAny THEN "unknown" ELSE "not_sent"))
    /\ Release
    /\ UNCHANGED <<generation, request, heard, chain>>

FrameTooLarge(c) ==
    /\ pc[c] = "frame"
    /\ Interruption(c) = "ok"
    /\ ~FrameFits(CurrentSize(c))
    /\ Return(c, Error("invalid", NormalizeDelivery("not_sent", tx.sentAny)))
    /\ Release
    /\ UNCHANGED <<generation, request, heard, chain>>

FrameToTransport(c) ==
    /\ pc[c] = "frame"
    /\ Interruption(c) = "ok"
    /\ FrameFits(CurrentSize(c))
    /\ frame' = [command |-> IF tx.frameIndex = 0 THEN "command" ELSE "continue",
                 from |-> tx.uploaded, size |-> CurrentSize(c),
                 delivered |-> FALSE]
    /\ pc' = [pc EXCEPT ![c] = "transport"]
    /\ UNCHANGED <<chVars, envVars, request, tx, wire, result, heard, chain>>

-----------------------------------------------------------------------------
(***************************************************************************)
(* The transport and the card (external), inside the transport's exchange. *)
(***************************************************************************)
Cancelled(c) == expired[c] \/ stopped[c] \/ generation # tx.generation

\* The card hears the frame.  It takes a continuation as part of the
\* operation it is waiting for, and any other command as a new operation.
CardHears(c) ==
    /\ pc[c] = "transport"
    /\ ~frame.delivered /\ ~reentered
    /\ frame' = [frame EXCEPT !.delivered = TRUE]
    /\ heard' = [heard EXCEPT ![c] =
          [frames |-> @.frames + 1,
           bytes |-> @.bytes + frame.size,
           replied |-> @.replied,
           intact |-> /\ @.intact
                      /\ frame.from = @.bytes
                      /\ generation = tx.generation
                      /\ IF @.frames = 0 THEN frame.command = "command"
                         ELSE frame.command = "continue" /\ chain = c,
           late |-> IF Cancelled(c) THEN @.late + 1 ELSE @.late]]
    /\ chain' = c
    /\ UNCHANGED <<chVars, envVars, pc, request, tx, wire, result>>

\* The card answers and the answer reaches the host.
CardAnswers(c, w) ==
    /\ pc[c] = "transport"
    /\ frame.delivered /\ ~reentered
    /\ wire' = w
    /\ heard' = [heard EXCEPT ![c].replied =
                    IF w.garbled THEN @ ELSE @ + w.size]
    /\ chain' = IF w.status = "done" THEN None ELSE chain
    /\ pc' = [pc EXCEPT ![c] = "response"]
    /\ UNCHANGED <<chVars, envVars, request, tx, frame, result>>

\* The transport fails: honest about a frame that certainly was not sent,
\* unknown otherwise (a throwing transport is unknown too).
TransportFails(c, outcome) ==
    /\ pc[c] = "transport"
    /\ ~reentered
    /\ outcome = "not_sent" => ~frame.delivered
    /\ Return(c, Error("transport", NormalizeDelivery(outcome, tx.sentAny)))
    /\ Release
    /\ UNCHANGED <<generation, request, heard, chain>>

-----------------------------------------------------------------------------
(***************************************************************************)
(* exchange_frame() after the transport returned, and the body of          *)
(* exchange()'s loop.                                                      *)
(***************************************************************************)

\* What travels back: the data and the status (one byte, or 91xx); a garbled
\* answer has no valid status and decode() refuses it.
WireLength(w) ==
    IF w.garbled THEN w.size
    ELSE w.size + (IF Framing = "direct" THEN 1 ELSE 2)

\* The checks on one response; "ok" if the frame succeeded.
FrameVerdict(w) ==
    IF generation # tx.generation THEN "card_removed"
    ELSE IF WireLength(w) > MaxReceive \/ w.garbled THEN "malformed"
    ELSE "ok"

\* Mutation: a final status before the whole request is sent is accepted.
ChainVerdictEarlyEnd(r, uploaded, w) ==
    IF w.size > r.limit - tx.assembled THEN "malformed"
    ELSE IF w.status = "additional_frame" /\ tx.frameIndex + 1 = MaxChainFrames
         THEN "malformed"
    ELSE "ok"

\* Mutation: one frame too many.
ChainVerdictOneMore(r, uploaded, w) ==
    IF w.size > r.limit - tx.assembled THEN "malformed"
    ELSE IF uploaded < r.data /\ (w.size # 0 \/ w.status = "done")
         THEN "malformed"
    ELSE IF w.status = "additional_frame" /\ tx.frameIndex = MaxChainFrames
         THEN "malformed"
    ELSE "ok"

\* exchange()'s checks on a decoded response when `uploaded` bytes are sent.
ChainVerdict(r, uploaded, w) ==
    IF w.size > r.limit - tx.assembled THEN "malformed"
    ELSE IF uploaded < r.data /\ (w.size # 0 \/ w.status = "done")
         THEN "malformed"
    ELSE IF w.status = "additional_frame" /\ tx.frameIndex + 1 = MaxChainFrames
         THEN "malformed"
    ELSE "ok"

Verdict(c) ==
    IF FrameVerdict(wire) # "ok" \/ request[c].kind = "adaptive"
    THEN FrameVerdict(wire)
    ELSE ChainVerdict(request[c], tx.uploaded + frame.size, wire)

\* Transaction state after a good response.
Received ==
    [tx EXCEPT !.sentAny = TRUE,
               !.uploaded = @ + frame.size,
               !.assembled = @ + wire.size,
               !.frameIndex = @ + 1]

ResponseBad(c) ==
    /\ pc[c] = "response"
    /\ Verdict(c) # "ok"
    /\ Return(c, Error(Verdict(c), "unknown"))
    /\ Release
    /\ UNCHANGED <<generation, request, heard, chain>>

ResponseFinal(c) ==
    /\ pc[c] = "response"
    /\ Verdict(c) = "ok"
    /\ \/ wire.status = "done"
       \/ request[c].kind = "adaptive"   \* the adaptive caller stops here
    /\ Return(c, [code |-> "ok", outcome |-> "succeeded",
                  size |-> Received.assembled])
    /\ Release
    /\ UNCHANGED <<generation, request, heard, chain>>

ResponseContinue(c) ==
    /\ pc[c] = "response"
    /\ Verdict(c) = "ok"
    /\ wire.status = "additional_frame"
    /\ request[c].kind = "adaptive" => tx.frameIndex + 1 < MaxChainFrames
    /\ tx' = Received
    /\ frame' = NoFrame
    /\ wire' = NoWire
    /\ pc' = [pc EXCEPT ![c] = "frame"]
    /\ UNCHANGED <<chVars, envVars, request, result, heard, chain>>

-----------------------------------------------------------------------------
(***************************************************************************)
(* reset(): serialized with the operations by the same mutex and flag.     *)
(***************************************************************************)
ResetLock(c) ==
    /\ pc[c] = "idle"
    /\ pc' = [pc EXCEPT ![c] = "reset_locking"]
    /\ UNCHANGED <<chVars, envVars, request, tx, frame, wire, result, heard,
                   chain>>

\* Mutation: reset() takes the mutex but does not mark the channel active.
ResetAdmitUnmarked(c) ==
    /\ pc[c] = "reset_locking"
    /\ lockOwner = None
    /\ ~operationActive
    /\ lockOwner' = c
    /\ pc' = [pc EXCEPT ![c] = "resetting"]
    /\ UNCHANGED <<operationActive, envVars, reentered, request, tx, frame, wire,
                   result, heard, chain>>

ResetAdmit(c) ==
    /\ pc[c] = "reset_locking"
    /\ lockOwner = None
    /\ ~operationActive
    /\ lockOwner' = c
    /\ operationActive' = TRUE
    /\ pc' = [pc EXCEPT ![c] = "resetting"]
    /\ UNCHANGED <<envVars, reentered, request, tx, frame, wire, result, heard,
                   chain>>

ResetReturn(c) ==
    /\ pc[c] = "resetting"
    /\ ~reentered
    /\ \E outcome \in {"succeeded", "not_sent", "unknown"} :
          Return(c, [code |-> IF outcome = "succeeded" THEN "ok" ELSE "transport",
                     outcome |-> outcome, size |-> 0])
    /\ Release
    /\ UNCHANGED <<generation, request, heard, chain>>

-----------------------------------------------------------------------------
(***************************************************************************)
(* The environment.                                                        *)
(***************************************************************************)

\* The card is removed, replaced or reset: the transport advances its
\* generation and the card forgets the operation in progress.
CardChanges ==
    /\ generation < MaxGeneration
    /\ generation' = generation + 1
    /\ chain' = None
    /\ UNCHANGED <<chVars, expired, stopped, pc, request, tx, frame, wire,
                   result, heard>>

DeadlinePasses(c) ==
    /\ lockOwner = c /\ pc[c] # "resetting"
    /\ ~expired[c]
    /\ expired' = [expired EXCEPT ![c] = TRUE]
    /\ UNCHANGED <<chVars, generation, stopped, pc, request, tx, frame, wire,
                   result, heard, chain>>

StopRequested(c) ==
    /\ pc[c] \notin {"returned", "reset_locking", "resetting"}
    /\ ~stopped[c]
    /\ stopped' = [stopped EXCEPT ![c] = TRUE]
    /\ UNCHANGED <<chVars, generation, expired, pc, request, tx, frame, wire,
                   result, heard, chain>>

-----------------------------------------------------------------------------
\* The responses a card or a broken reader may return.
WireResponses ==
    {w \in [garbled : BOOLEAN, status : Status, size : 0..MaxReceive] :
        w.garbled => /\ w.status = "done"
                     /\ Framing = "direct" => w.size = 0}

ChannelStep(c) ==
    \/ BeginAdmit(c)
    \/ CallbackRefused(c)
    \/ PlanExchange(c) \/ PlanRefused(c)
    \/ FrameInterrupted(c) \/ FrameTooLarge(c) \/ FrameToTransport(c)
    \/ ResponseBad(c) \/ ResponseFinal(c) \/ ResponseContinue(c)
    \/ ResetAdmit(c)

TransportStep(c) ==
    \/ CardHears(c)
    \/ \E w \in WireResponses : CardAnswers(c, w)
    \/ \E o \in {"not_sent", "unknown"} : TransportFails(c, o)
    \/ ResetReturn(c)

CallerStep(c) ==
    \/ BeginRefused(c) \/ BeginLock(c) \/ ResetLock(c)
    \/ StopRequested(c) \/ CallbackReenters(c)

AllReturned ==
    /\ \A c \in Callers : pc[c] = "returned"
    /\ UNCHANGED vars

Next ==
    \/ \E c \in Callers :
          ChannelStep(c) \/ TransportStep(c) \/ CallerStep(c) \/ DeadlinePasses(c)
    \/ CardChanges
    \/ AllReturned

\* The scheduler runs a caller that can take a step of the channel's code.
\* The reader callback returns from every call, however often it reenters the
\* channel meanwhile: that is the transport contract, and the SDK cannot end
\* an operation whose callback never returns.  Nothing forces a caller to
\* begin, to stop, or a deadline to pass.
Fairness ==
    \A c \in Callers : WF_vars(ChannelStep(c)) /\ SF_vars(TransportStep(c))

Spec == Init /\ [][Next]_vars
FairSpec == Spec /\ Fairness

-----------------------------------------------------------------------------
(***************************************************************************)
(* Properties.                                                             *)
(***************************************************************************)

TypeOK ==
    /\ generation \in 0..MaxGeneration
    /\ lockOwner \in Callers \cup {None}
    /\ operationActive \in BOOLEAN
    /\ reentered \in BOOLEAN
    /\ pc \in [Callers -> {"idle", "locking", "admitted", "frame", "transport",
                           "response", "reset_locking", "resetting", "returned"}]
    /\ request \in [Callers -> Requests]
    /\ expired \in [Callers -> BOOLEAN]
    /\ stopped \in [Callers -> BOOLEAN]
    /\ tx \in TxType
    /\ frame \in FrameType
    /\ wire \in WireType
    /\ result \in [Callers -> ResultType]
    /\ heard \in [Callers -> HeardType]
    /\ chain \in Callers \cup {None}

\* Delivery evidence is honest: an operation that reports `not_sent` sent the
\* card nothing, on every path out of begin(), exchange_frame() and exchange()
\* and whatever the transport, deadline, stop token or card did before.
NotSentMeansUnheard ==
    \A c \in Callers :
        result[c].outcome = "not_sent" => heard[c].frames = 0

\* A response returned to the caller answers the whole request: the card heard
\* every byte exactly once and in order, as one unbroken chain, on the card
\* generation the transaction began with, and the caller gets every byte the
\* card returned, within the limit it asked for.
SuccessIsWhole ==
    \A c \in Callers :
        result[c].code = "ok" /\ heard[c].frames > 0 =>
            /\ heard[c].intact
            /\ result[c].size = heard[c].replied
            /\ request[c].kind = "chained" =>
                  /\ heard[c].bytes = request[c].data
                  /\ result[c].size <= request[c].limit

\* No frame is repeated, reordered, dropped or mixed with another caller's
\* chain while the card stays in the field: exchange() never retries, and the
\* mutex is held from the first frame to the last.
ChainUnbroken ==
    \A c \in Callers :
        lockOwner = c /\ pc[c] # "resetting" =>
            heard[c].intact \/ generation # tx.generation

\* A stop request, an expired deadline and a changed card are each noticed
\* before the next frame: at most the frame already handed to the transport
\* still reaches the card.
AtMostOneLateFrame == \A c \in Callers : heard[c].late <= 1

\* The card cannot hold the channel with endless 0xAF: a chained exchange ends
\* within maximum_chain_frames frames.
ChainBounded == \A c \in Callers : heard[c].frames <= MaxChainFrames

\* A transport callback that reenters the channel while its own operation runs
\* always finds operation_active set, so begin() and reset() refuse it.
ReentryIsRefused == reentered => operationActive

\* Every operation that begins returns, whatever the card answers.
EveryCallReturns ==
    \A c \in Callers : pc[c] # "idle" ~> pc[c] = "returned"

\* Seen from the layers above, the channel is ExchangeContract: one call at a
\* time, honest delivery evidence, nothing heard by the card once a call has
\* returned, and every call that was let in returns.
Contract ==
    INSTANCE ExchangeContract WITH
        phase <- [c \in Callers |->
                    CASE pc[c] = "returned" -> "returned"
                      [] pc[c] = "resetting" -> "reset"
                      [] pc[c] \in {"idle", "locking", "reset_locking"} -> "idle"
                      [] OTHER -> "exchange"],
        reached <- [c \in Callers |-> heard[c].frames > 0],
        outcome <- [c \in Callers |-> result[c].outcome]

ImplementsContract == Contract!FairSpec

=============================================================================
