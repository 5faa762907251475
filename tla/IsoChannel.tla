----------------------------- MODULE IsoChannel -----------------------------
(***************************************************************************)
(* The raw ISO 7816 channel: raw::Channel (core/src/iso7816/raw/           *)
(* channel.cpp), its deadline and generation Budget, and the length        *)
(* encoding of the APDU codec.                                             *)
(*                                                                         *)
(* One exchange may take several frames: a card answers 61xx and the rest  *)
(* is fetched with GET RESPONSE, or it answers 6Cxx and the command is     *)
(* sent a second time with the length the card asked for.  Data are        *)
(* abstracted to their number; the length fields of a frame are kept byte  *)
(* by byte, because the card reads the lengths out of them.                *)
(***************************************************************************)
EXTENDS Integers, Sequences

CONSTANTS
    Callers,        \* threads that use the channel, one call each
    Calls,          \* what they may call, see CallType
    MaxTransmit,    \* capabilities().max_transmit
    MaxReceive,     \* capabilities().max_receive
    Answers,        \* the responses a card or a reader returns, see WireType
    MaxGeneration   \* bound on the card generations explored

NoLe == 0           \* Apdu::le is std::nullopt
None == "none"

Encodings == {"automatic", "short_apdu", "extended"}

\* An Apdu (its data length and le) with the Limits of the call.
CallType ==
    [data : Nat, le : Nat, encoding : Encodings, limit : Nat, frames : Nat,
     correct : BOOLEAN]

\* A response: too short for a status word, or sw1, sw2 and data.
WireType == [short : BOOLEAN, sw1 : {"61", "6C", "other"}, sw2 : 0..255, size : Nat]

ASSUME ConstantsAssumption ==
    /\ Calls \subseteq CallType
    /\ Answers \subseteq WireType
    /\ MaxTransmit \in Nat /\ MaxReceive \in Nat /\ MaxGeneration \in Nat
    /\ None \notin Callers

VARIABLES
    generation,  \* the transport's card generation
    owner,       \* the thread that holds operation_mutex_
    active,      \* operation_active_
    nested,      \* a transport callback of the owner called in again
    pc,          \* where each caller is
    call,        \* what it calls
    expired,     \* its deadline has passed
    stopped,     \* its stop token has fired
    local,       \* the Budget and the locals of exchange()
    wire,        \* the card's answer on its way back, <<>> if there is none
    result,      \* what each call returned
    heard        \* ghost: what the card heard of each call

chVars == <<owner, active, nested>>
vars == <<generation, owner, active, nested, pc, call, expired, stopped, local,
          wire, result, heard>>

-----------------------------------------------------------------------------
(***************************************************************************)
(* encode_fields() of detail/codec_support.hpp.                            *)
(***************************************************************************)
NeedsExtended(a) == a.data > 255 \/ a.le > 256

Encodable(a) ==
    /\ a.data <= 65535 /\ a.le <= 65536
    /\ a.encoding = "short_apdu" => ~NeedsExtended(a)

Extended(a) == a.encoding = "extended" \/ NeedsExtended(a)

High(n) == (n \div 256) % 256
Low(n) == n % 256

Encode(a) ==
    [ins |-> "command",
     lc |-> IF a.data = 0 THEN <<>>
            ELSE IF Extended(a) THEN <<0, High(a.data), Low(a.data)>>
            ELSE <<Low(a.data)>>,
     data |-> a.data,
     le |-> IF a.le = NoLe THEN <<>>
            ELSE IF Extended(a)
                 THEN (IF a.data = 0 THEN <<0>> ELSE <<>>) \o <<High(a.le), Low(a.le)>>
            ELSE <<Low(a.le)>>]

\* 00 C0 00 00 xx.
GetResponse(sw2) == [ins |-> "get_response", lc |-> <<>>, data |-> 0, le |-> <<sw2>>]

FrameSize(f) == 4 + Len(f.lc) + f.data + Len(f.le)

(***************************************************************************)
(* How a card reads the lengths of a frame (ISO 7816-4, external): the     *)
(* number of bytes after the header and the first ones of them decide.     *)
(***************************************************************************)
ZeroMeans(n, most) == IF n = 0 THEN most ELSE n

CardReads(f) ==
    LET rest == FrameSize(f) - 4
        field == f.lc \o f.le
        word(i) == 256 * field[i] + field[i + 1]
        tail == Len(f.le)
    IN  IF rest = 0 THEN [data |-> 0, le |-> NoLe]
        ELSE IF rest = 1 THEN [data |-> 0, le |-> ZeroMeans(field[1], 256)]
        ELSE IF field[1] # 0
        THEN [data |-> field[1],
              le |-> IF rest = field[1] + 1 THEN NoLe
                     ELSE ZeroMeans(field[Len(field)], 256)]
        ELSE IF rest = 2 THEN [data |-> -1, le |-> NoLe]   \* unreadable
        ELSE IF rest = 3 THEN [data |-> 0, le |-> ZeroMeans(word(2), 65536)]
        ELSE [data |-> word(2),
              le |-> IF tail = 0 THEN NoLe
                     ELSE ZeroMeans(word(Len(field) - 1), 65536)]

-----------------------------------------------------------------------------
Outcomes == {None, "not_sent", "succeeded", "unknown"}

NoFrame == [ins |-> "command", lc |-> <<>>, data |-> 0, le |-> <<>>]

NewLocal(g) ==
    [generation |-> g, attempted |-> FALSE, sent |-> FALSE, continuation |-> FALSE,
     corrected |-> FALSE, assembled |-> 0, index |-> 0, request |-> NoFrame]

NoResult == [code |-> None, outcome |-> None, size |-> 0, sw1 |-> "other"]
Unheard == [frames |-> 0, executed |-> 0, replied |-> 0, intact |-> TRUE,
            late |-> 0, asked |-> NoLe, read |-> {}]

Init ==
    /\ generation = 0
    /\ owner = None /\ active = FALSE /\ nested = FALSE
    /\ pc = [c \in Callers |-> "idle"]
    /\ call \in [Callers -> Calls]
    /\ expired = [c \in Callers |-> FALSE]
    /\ stopped = [c \in Callers |-> FALSE]
    /\ local = NewLocal(0)
    /\ wire = <<>>
    /\ result = [c \in Callers |-> NoResult]
    /\ heard = [c \in Callers |-> Unheard]

Goto(c, label) == pc' = [pc EXCEPT ![c] = label]

\* The call returns; ActiveOperation, the lock and the call's options end.
Return(c, r) ==
    /\ result' = [result EXCEPT ![c] = r]
    /\ Goto(c, "returned")
    /\ owner' = None /\ active' = FALSE
    /\ local' = NewLocal(0)
    /\ wire' = <<>>
    /\ expired' = [expired EXCEPT ![c] = FALSE]
    /\ stopped' = [stopped EXCEPT ![c] = FALSE]
    /\ UNCHANGED <<nested, generation, call, heard>>

Error(code, outcome) == [code |-> code, outcome |-> outcome, size |-> 0, sw1 |-> "other"]

\* Mutation: a late "not sent" is passed on as it is.
AfterSendNever(outcome) == outcome

\* after_send().
AfterSend(outcome) == IF outcome = "not_sent" THEN "unknown" ELSE outcome

Evidence == IF local.sent THEN "unknown" ELSE "not_sent"

-----------------------------------------------------------------------------
(***************************************************************************)
(* exchange() and reset(): the lock, the activity flag, reentry.           *)
(***************************************************************************)
Enter(c, label) ==
    /\ pc[c] = "idle"
    /\ owner = None /\ ~active
    /\ owner' = c /\ active' = TRUE
    /\ Goto(c, label)
    /\ UNCHANGED <<nested, generation, call, expired, stopped, local, wire, result,
                   heard>>

\* A callback of the running call calls in on the thread that already owns
\* the recursive mutex, and is refused with `busy`.
Reenter(c) ==
    /\ pc[c] \in {"transport", "resetting"} /\ ~nested
    /\ nested' = TRUE
    /\ UNCHANGED <<owner, active, generation, pc, call, expired, stopped, local,
                   wire, result, heard>>

ReentryRefused ==
    /\ nested /\ active
    /\ nested' = FALSE
    /\ UNCHANGED <<owner, active, generation, pc, call, expired, stopped, local,
                   wire, result, heard>>

ResetReturns(c) ==
    /\ pc[c] = "resetting" /\ ~nested
    /\ \E o \in {"succeeded", "not_sent", "unknown"} :
          Return(c, Error(IF o = "succeeded" THEN "ok" ELSE "transport", o))

\* The checks before the Budget is made.
Sendable(a) ==
    /\ a.limit # 0 /\ a.frames # 0 /\ a.frames <= 65536
    /\ MaxReceive >= 2
    /\ Encodable(a)
    /\ FrameSize(Encode(a)) <= MaxTransmit

Refused(c) ==
    /\ pc[c] = "entered"
    /\ ~Sendable(call[c])
    /\ Return(c, Error("invalid", "not_sent"))

\* The Budget takes the generation and starts the clock.
Begin(c) ==
    /\ pc[c] = "entered"
    /\ Sendable(call[c])
    /\ local' = [NewLocal(generation) EXCEPT !.request = Encode(call[c])]
    /\ Goto(c, "frame")
    /\ UNCHANGED <<chVars, generation, call, expired, stopped, wire, result, heard>>

-----------------------------------------------------------------------------
(***************************************************************************)
(* One iteration of the loop of exchange().                                *)
(***************************************************************************)
\* Mutation: the stop token is consulted for the first frame only.
InterruptionOnce(c) ==
    IF generation # local.generation THEN "card_removed"
    ELSE IF stopped[c] /\ ~local.sent THEN "cancelled"
    ELSE IF expired[c] THEN "timeout"
    ELSE "ok"

\* Budget::next().
Interruption(c) ==
    IF generation # local.generation THEN "card_removed"
    ELSE IF stopped[c] THEN "cancelled"
    ELSE IF expired[c] THEN "timeout"
    ELSE "ok"

\* Mutation: the loop runs once more.
FramesLeftOneMore(c) == local.index <= call[c].frames

FramesLeft(c) == local.index < call[c].frames

OutOfFrames(c) ==
    /\ pc[c] = "frame" /\ ~FramesLeft(c)
    /\ Return(c, Error("malformed", "unknown"))

Interrupted(c) ==
    /\ pc[c] = "frame" /\ FramesLeft(c)
    /\ Interruption(c) # "ok"
    /\ Return(c, Error(Interruption(c), Evidence))

\* A corrected command may have grown by its Le.
TooLarge(c) ==
    /\ pc[c] = "frame" /\ FramesLeft(c)
    /\ Interruption(c) = "ok"
    /\ FrameSize(local.request) > MaxTransmit
    /\ Return(c, Error("invalid", Evidence))

ToTransport(c) ==
    /\ pc[c] = "frame" /\ FramesLeft(c)
    /\ Interruption(c) = "ok"
    /\ FrameSize(local.request) <= MaxTransmit
    /\ local' = [local EXCEPT !.attempted = TRUE]
    /\ Goto(c, "transport")
    /\ UNCHANGED <<chVars, generation, call, expired, stopped, wire, result, heard>>

\* What a card reads out of a command, beside the length it last asked for.
Reading(f, asked) ==
    [data |-> CardReads(f).data, le |-> CardReads(f).le, asked |-> asked]

\* The card hears the frame (external).  6Cxx answers a command it did not
\* execute; GET RESPONSE only fetches.
CardHears(c, w) ==
    /\ pc[c] = "transport" /\ ~nested
    /\ wire = <<>>
    /\ wire' = <<w>>
    /\ heard' = [heard EXCEPT ![c] =
          [frames |-> @.frames + 1,
           executed |-> @.executed + IF local.request.ins = "command" /\ w.sw1 # "6C"
                                     THEN 1 ELSE 0,
           replied |-> @.replied + IF w.short THEN 0 ELSE w.size,
           intact |-> @.intact /\ generation = local.generation,
           late |-> @.late + IF expired[c] \/ stopped[c] \/ generation # local.generation
                             THEN 1 ELSE 0,
           asked |-> IF local.request.ins = "command" /\ w.sw1 = "6C"
                     THEN ZeroMeans(w.sw2, 256) ELSE @.asked,
           read |-> IF local.request.ins = "command"
                    THEN @.read \cup {Reading(local.request, @.asked)} ELSE @.read]]
    /\ UNCHANGED <<chVars, generation, pc, call, expired, stopped, local, result>>

AnswerArrives(c) ==
    /\ pc[c] = "transport" /\ ~nested
    /\ wire # <<>>
    /\ Goto(c, "response")
    /\ UNCHANGED <<chVars, generation, call, expired, stopped, local, wire, result,
                   heard>>

\* The transport fails or throws; it says "not_sent" only of a frame that
\* certainly was not sent.
TransportFails(c, o) ==
    /\ pc[c] = "transport" /\ ~nested
    /\ o = "not_sent" => wire = <<>>
    /\ Return(c, Error("transport", IF local.sent THEN AfterSend(o) ELSE o))

-----------------------------------------------------------------------------
Answer == wire[1]

\* Mutation: the generation is not compared after the response.
VerdictAnyCard(c) ==
    IF Answer.short \/ Answer.size + 2 > MaxReceive THEN "malformed"
    ELSE IF Answer.sw1 = "6C" /\ Answer.size # 0 THEN "malformed"
    ELSE "ok"

\* same_card(), capacity, decode(), and a 6Cxx with data.
Verdict(c) ==
    IF generation # local.generation THEN "card_removed"
    ELSE IF Answer.short \/ Answer.size + 2 > MaxReceive THEN "malformed"
    ELSE IF Answer.sw1 = "6C" /\ Answer.size # 0 THEN "malformed"
    ELSE "ok"

\* Mutation: a 6Cxx that answers GET RESPONSE starts the command again.
CorrectsAlways(c) ==
    Answer.sw1 = "6C" /\ call[c].correct /\ ~local.corrected

Corrects(c) ==
    Answer.sw1 = "6C" /\ call[c].correct /\ ~local.continuation /\ ~local.corrected

\* Mutation: 6C00 is taken at its word and the command repeated without Le.
AdjustedPlain == Answer.sw2

Adjusted == ZeroMeans(Answer.sw2, 256)

Retry(c) == [call[c] EXCEPT !.le = Adjusted]

\* Mutation: the limit is compared with the frame instead of the aggregate.
FitsLimitFrame(c) == Answer.size <= call[c].limit

\* The checks of the aggregate limit, for an answer that is no correction.
\* 61xx at the limit is refused, because the rest could not be returned.
FitsLimit(c) ==
    /\ Answer.size <= call[c].limit - local.assembled
    /\ Answer.sw1 = "61" => local.assembled + Answer.size # call[c].limit

ResponseBad(c) ==
    /\ pc[c] = "response"
    /\ \/ Verdict(c) # "ok" /\ Return(c, Error(Verdict(c), "unknown"))
       \/ /\ Verdict(c) = "ok"
          /\ \/ Corrects(c) /\ (Adjusted > call[c].limit \/ ~Encodable(Retry(c)))
             \/ ~Corrects(c) /\ ~FitsLimit(c)
          /\ Return(c, Error("malformed", "unknown"))

\* The command is sent again with the length the card asked for.
CorrectLength(c) ==
    /\ pc[c] = "response" /\ Verdict(c) = "ok"
    /\ Corrects(c)
    /\ Adjusted <= call[c].limit /\ Encodable(Retry(c))
    /\ local' = [local EXCEPT !.sent = TRUE, !.corrected = TRUE,
                              !.index = @ + 1, !.request = Encode(Retry(c))]
    /\ wire' = <<>>
    /\ Goto(c, "frame")
    /\ UNCHANGED <<chVars, generation, call, expired, stopped, result, heard>>

FetchMore(c) ==
    /\ pc[c] = "response" /\ Verdict(c) = "ok"
    /\ ~Corrects(c) /\ FitsLimit(c)
    /\ Answer.sw1 = "61"
    /\ local' = [local EXCEPT !.sent = TRUE, !.continuation = TRUE,
                              !.assembled = @ + Answer.size, !.index = @ + 1,
                              !.request = GetResponse(Answer.sw2)]
    /\ wire' = <<>>
    /\ Goto(c, "frame")
    /\ UNCHANGED <<chVars, generation, call, expired, stopped, result, heard>>

Final(c) ==
    /\ pc[c] = "response" /\ Verdict(c) = "ok"
    /\ ~Corrects(c) /\ FitsLimit(c)
    /\ Answer.sw1 # "61"
    /\ Return(c, [code |-> "ok", outcome |-> "succeeded", sw1 |-> Answer.sw1,
                  size |-> local.assembled + Answer.size])

\* An allocation or a dependency throws: the outer catch of exchange().
Throws(c) ==
    /\ pc[c] \in {"entered", "frame", "response"}
    /\ Return(c, Error("internal", IF local.attempted THEN "unknown" ELSE "not_sent"))

-----------------------------------------------------------------------------
(***************************************************************************)
(* The environment.                                                        *)
(***************************************************************************)
CardChanges ==
    /\ generation < MaxGeneration
    /\ generation' = generation + 1
    /\ UNCHANGED <<chVars, pc, call, expired, stopped, local, wire, result, heard>>

DeadlinePasses(c) ==
    /\ pc[c] \in {"frame", "transport", "response"} /\ ~expired[c]
    /\ expired' = [expired EXCEPT ![c] = TRUE]
    /\ UNCHANGED <<chVars, generation, pc, call, stopped, local, wire, result, heard>>

StopRequested(c) ==
    /\ pc[c] \in {"entered", "frame", "transport", "response"} /\ ~stopped[c]
    /\ stopped' = [stopped EXCEPT ![c] = TRUE]
    /\ UNCHANGED <<chVars, generation, pc, call, expired, local, wire, result, heard>>

ChannelStep(c) ==
    \/ Refused(c) \/ Begin(c)
    \/ OutOfFrames(c) \/ Interrupted(c) \/ TooLarge(c) \/ ToTransport(c)
    \/ ResponseBad(c) \/ CorrectLength(c) \/ FetchMore(c) \/ Final(c)

TransportStep(c) ==
    \/ \E w \in Answers : CardHears(c, w)
    \/ AnswerArrives(c)
    \/ \E o \in {"not_sent", "unknown"} : TransportFails(c, o)
    \/ ResetReturns(c)

AllReturned ==
    /\ \A c \in Callers : pc[c] = "returned"
    /\ UNCHANGED vars

Next ==
    \/ \E c \in Callers :
          \/ Enter(c, "entered") \/ Enter(c, "resetting") \/ Reenter(c)
          \/ ChannelStep(c) \/ TransportStep(c) \/ Throws(c)
          \/ DeadlinePasses(c) \/ StopRequested(c)
    \/ ReentryRefused
    \/ CardChanges
    \/ AllReturned

\* The code runs on, and the transport returns from every call it was given.
Fairness ==
    /\ \A c \in Callers : WF_vars(ChannelStep(c)) /\ SF_vars(TransportStep(c))
    /\ WF_vars(ReentryRefused)

Spec == Init /\ [][Next]_vars
FairSpec == Spec /\ Fairness

-----------------------------------------------------------------------------
(***************************************************************************)
(* Properties.                                                             *)
(***************************************************************************)

\* The variables have their types; limits.max_response - assembled.size(), an
\* unsigned subtraction, never goes below zero.
TypeOK ==
    /\ generation \in 0..MaxGeneration
    /\ owner \in Callers \cup {None}
    /\ active \in BOOLEAN /\ nested \in BOOLEAN
    /\ pc \in [Callers -> {"idle", "entered", "frame", "transport", "response",
                           "resetting", "returned"}]
    /\ call \in [Callers -> Calls]
    /\ expired \in [Callers -> BOOLEAN] /\ stopped \in [Callers -> BOOLEAN]
    /\ local.generation \in 0..MaxGeneration
    /\ owner # None => local.assembled \in 0..call[owner].limit
    /\ local.index \in Nat
    /\ wire = <<>> \/ Answer \in Answers
    /\ \A c \in Callers : result[c].outcome \in Outcomes /\ result[c].size \in Nat

\* The card executes a command at most once, although 6Cxx has it sent again:
\* only an answer to the command itself, before anything was executed, does,
\* and only once.
ExecutedAtMostOnce == \A c \in Callers : heard[c].executed <= 1

\* What exchange() returns is everything the card returned for the one command
\* it executed, all of it on the card the call began with and within the
\* caller's limit.
AnswerIsWhole ==
    \A c \in Callers :
        result[c].code = "ok" /\ heard[c].frames > 0 =>
            /\ heard[c].intact
            /\ result[c].sw1 # "6C" => heard[c].executed = 1
            /\ result[c].size = heard[c].replied
            /\ result[c].size <= call[c].limit

\* A card or a reader that answers 61xx forever is cut off: no call exceeds
\* the number of physical frames it was allowed, the repeated command counted.
FramesBounded == \A c \in Callers : heard[c].frames <= call[c].frames

\* A stop, an expired deadline and an exchanged card each end the call before
\* the next frame.
AtMostOneLateFrame == \A c \in Callers : heard[c].late <= 1

\* What a card hears of a call is bounded, however it answers and whatever
\* happens meanwhile: one execution, the frames allowed, one frame too many.
HeardIsBounded == ExecutedAtMostOnce /\ FramesBounded /\ AtMostOneLateFrame

\* The card reads the lengths the caller meant out of every command it hears,
\* short or extended, at the boundaries of both: the data length, and the
\* expected length until the card itself asks for another one with 6Cxx, then
\* exactly that one (6C00 asks for 256), and only if the caller's limits allow
\* the correction.
CardReadsTheLengths ==
    \A c \in Callers : \A r \in heard[c].read :
        /\ r.data = call[c].data
        /\ r.le = IF r.asked = NoLe THEN call[c].le ELSE r.asked
        /\ r.asked # NoLe => call[c].correct

\* ISO calls run one at a time, "not_sent" is honest, the card hears nothing
\* after a call returned, and every call that was let in returns: the channel
\* implements ExchangeContract.
Contract ==
    INSTANCE ExchangeContract WITH
        phase <- [c \in Callers |->
                    CASE pc[c] \in {"idle", "returned"} -> pc[c]
                      [] pc[c] = "resetting" -> "reset"
                      [] OTHER -> "exchange"],
        reached <- [c \in Callers |-> heard[c].frames > 0],
        outcome <- [c \in Callers |-> result[c].outcome]

ImplementsContract == Contract!FairSpec

=============================================================================
