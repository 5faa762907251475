----------------------------- MODULE Ev2Channel -----------------------------
(***************************************************************************)
(* Secure messaging over an EV2 session: SecureNativeChannel::exchange()   *)
(* (core/src/native/secure/channel.cpp) and the security::ev2::Session it  *)
(* borrows (core/src/security/ev2/session.cpp), with the card at the other *)
(* end and a reader between them that loses frames and answers, garbles    *)
(* answers, and may return the answer of an earlier command.               *)
(*                                                                         *)
(* Cryptography is symbolic: a message under a MAC is the record of what   *)
(* the MAC covers, and verifying it is comparing the records.  `id` stands *)
(* for the session keys of one handshake, `number` for the identity of a   *)
(* command, which is not on the wire.                                      *)
(***************************************************************************)
EXTENDS Integers

CONSTANTS
    Requests,      \* secure::Request values, see RequestType
    MaxCounter,    \* std::numeric_limits<std::uint16_t>::max()
    MaxSessions    \* bound on the handshakes explored

Modes == {"plain", "mac", "full"}

\* secure::Request: the two protection modes and invalidates_session.
RequestType == [request : Modes, response : Modes, drops : BOOLEAN]

ASSUME ConstantsAssumption ==
    /\ Requests \subseteq RequestType
    /\ MaxCounter \in Nat
    /\ MaxSessions \in Nat

VARIABLES
    session,    \* the ev2::Session of the host
    card,       \* the session the card holds (external)
    pc,         \* where exchange() is
    request,    \* its request
    number,     \* the identity of the command prepared last
    message,    \* what was prepared for the wire
    answer,     \* the response frame the raw channel returned
    prepared,   \* ghost: every message prepared
    replies,    \* ghost: every response a card sent
    executed,   \* ghost: the commands a card executed
    unverified, \* ghost: a plain response was believed since the last MAC
    result      \* what exchange() returned

vars == <<session, card, pc, request, number, message, answer, prepared, replies,
          executed, unverified, result>>

-----------------------------------------------------------------------------
Phases == {"ready", "awaiting_response", "awaiting_plain_response", "invalid"}
SessionType == [phase : Phases, counter : 0..MaxCounter, id : 0..MaxSessions]
CardType == [alive : BOOLEAN, counter : Nat, id : 0..MaxSessions]
MessageType == [mac : BOOLEAN, counter : 0..MaxCounter, id : 0..MaxSessions, number : Nat]
ReplyType == [status : {"ok", "error"}, mac : BOOLEAN, counter : Nat,
              id : 0..MaxSessions, number : Nat]
Outcomes == {"none", "not_sent", "rejected", "succeeded", "unknown"}
ResultType == [outcome : Outcomes, prepared : BOOLEAN, verified : BOOLEAN,
               number : Nat, reply : Nat]
PCs == {"idle", "begun", "prepared", "sent", "answered"}

NoRequest == [request |-> "plain", response |-> "plain", drops |-> FALSE]
NoMessage == [mac |-> FALSE, counter |-> 0, id |-> 0, number |-> 0]
\* Bytes that carry no valid MAC.
Garbled == [status |-> "ok", mac |-> FALSE, counter |-> 0, id |-> 0, number |-> 0]
NoResult == [outcome |-> "none", prepared |-> FALSE, verified |-> FALSE,
             number |-> 0, reply |-> 0]
Invalid(s) == [s EXCEPT !.phase = "invalid", !.counter = 0]

Init ==
    /\ session = [phase |-> "invalid", counter |-> 0, id |-> 0]
    /\ card = [alive |-> FALSE, counter |-> 0, id |-> 0]
    /\ pc = "idle"
    /\ request = NoRequest
    /\ number = 0
    /\ message = NoMessage
    /\ answer = Garbled
    /\ prepared = {}
    /\ replies = {}
    /\ executed = {}
    /\ unverified = FALSE
    /\ result = NoResult

-----------------------------------------------------------------------------
(***************************************************************************)
(* A completed handshake.  First starts the counter, NonFirst carries the  *)
(* counter of the active session over to the new keys; the card does the   *)
(* same.                                                                   *)
(***************************************************************************)
\* Mutation: NonFirst starts the counter again.
FirstCounterAlways(first) == 0

\* Mutation: the handshake is counted as a command.
FirstCounterPlusOne(first) == IF first THEN 0 ELSE session.counter + 1

FirstCounter(first) == IF first THEN 0 ELSE session.counter

Authenticate(first) ==
    /\ pc = "idle"
    /\ session.id < MaxSessions
    /\ first \/ (session.phase = "ready" /\ card.alive /\ card.id = session.id)
    /\ session' = [phase |-> "ready", counter |-> FirstCounter(first),
                   id |-> session.id + 1]
    /\ card' = [alive |-> TRUE, counter |-> IF first THEN 0 ELSE card.counter,
                id |-> session.id + 1]
    /\ unverified' = (unverified /\ ~first)
    /\ result' = NoResult
    /\ UNCHANGED <<pc, request, number, message, answer, prepared, replies, executed>>

-----------------------------------------------------------------------------
(***************************************************************************)
(* exchange_protected().                                                   *)
(***************************************************************************)
\* exchange() returns, and leaves the session s.
Return(s, outcome, verified) ==
    /\ session' = s
    /\ pc' = "idle"
    /\ result' = [outcome |-> outcome, verified |-> verified,
                  prepared |-> pc \in {"prepared", "sent", "answered"},
                  number |-> IF pc = "begun" THEN 0 ELSE number,
                  reply |-> answer.number]
    /\ request' = NoRequest
    /\ message' = NoMessage
    /\ answer' = Garbled
    /\ unverified' = IF outcome = "succeeded" THEN ~verified ELSE unverified
    /\ UNCHANGED <<card, number, prepared, replies, executed>>

\* raw_channel.begin(); a failure of it leaves the session alone.
Begin(r) ==
    /\ pc = "idle"
    /\ session.id > 0
    /\ \/ /\ pc' = "begun"
          /\ request' = r
          /\ result' = NoResult
       \/ /\ result' = [NoResult EXCEPT !.outcome = "not_sent"]
          /\ UNCHANGED <<pc, request>>
    /\ UNCHANGED <<session, card, number, message, answer, prepared, replies,
                   executed, unverified>>

\* Mutation: the counter wraps around.
ExhaustedNever(s) == FALSE

\* No counter is left for another command.
Exhausted(s) == s.counter = MaxCounter

\* prepare_plain(), prepare_mac() or prepare_full() refuses, or a primitive
\* fails: exchange() invalidates the session.
PrepareFails ==
    /\ pc = "begun"
    /\ Return(Invalid(session), "not_sent", FALSE)

\* The counter is a 16-bit integer.
CounterAfter(s) == (s.counter + 1) % (MaxCounter + 1)

\* The message is built with the counter, and the counter moves on.
Prepare ==
    /\ pc = "begun"
    /\ session.phase = "ready"
    /\ ~Exhausted(session)
    /\ LET m == [mac |-> request.request # "plain", counter |-> session.counter,
                 id |-> session.id, number |-> number + 1]
       IN  /\ message' = m
           /\ prepared' = prepared \cup {m}
    /\ number' = number + 1
    /\ session' = [session EXCEPT
                     !.counter = CounterAfter(session),
                     !.phase = IF request.request = "plain"
                                 THEN "awaiting_plain_response" ELSE "awaiting_response"]
    /\ pc' = "prepared"
    /\ UNCHANGED <<card, request, answer, replies, executed, unverified, result>>

-----------------------------------------------------------------------------
(***************************************************************************)
(* The card and the reader (external).                                     *)
(***************************************************************************)
\* A command under a MAC is executed only with the session's keys and the
\* counter the card expects; a plain command counts too.
CardAccepts ==
    /\ pc = "prepared"
    /\ card.alive
    /\ message.mac => (message.id = card.id /\ message.counter = card.counter)
    /\ card' = [card EXCEPT !.alive = ~request.drops, !.counter = @ + 1]
    /\ executed' = executed \cup {number}
    /\ replies' = replies \cup
         {[status |-> "ok", mac |-> request.response # "plain",
           counter |-> card.counter + 1, id |-> card.id, number |-> number]}
    /\ pc' = "sent"
    /\ UNCHANGED <<session, request, number, message, answer, prepared, unverified,
                   result>>

\* An error status ends the card's session.
CardRejects ==
    /\ pc = "prepared"
    /\ card' = [card EXCEPT !.alive = FALSE]
    /\ replies' = replies \cup {[status |-> "error", mac |-> FALSE, counter |-> 0,
                                 id |-> 0, number |-> number]}
    /\ pc' = "sent"
    /\ UNCHANGED <<session, request, number, message, answer, prepared, executed,
                   unverified, result>>

\* The frame is lost, and the reader does not know.
FrameLost ==
    /\ pc = "prepared"
    /\ pc' = "sent"
    /\ UNCHANGED <<session, card, request, number, message, answer, prepared,
                   replies, executed, unverified, result>>

\* The reader returns the response, an earlier one, or rubbish.
ReaderReturns ==
    /\ pc = "sent"
    /\ answer' \in replies \cup {Garbled}
    /\ pc' = "answered"
    /\ UNCHANGED <<session, card, request, number, message, prepared, replies,
                   executed, unverified, result>>

-----------------------------------------------------------------------------
\* Mutation: the error is made anew, with the outcome it has by default.
RawFailsUnsent ==
    /\ pc \in {"prepared", "sent"}
    /\ Return(Invalid(session), "not_sent", FALSE)

\* The raw channel fails; "not_sent" is told only of an unsent frame.
RawFails ==
    \/ pc = "prepared" /\ Return(Invalid(session), "not_sent", FALSE)
    \/ pc \in {"prepared", "sent"} /\ Return(Invalid(session), "unknown", FALSE)

ResponseRejected ==
    /\ pc = "answered" /\ answer.status = "error"
    /\ Return(Invalid(session), "rejected", FALSE)

\* The phase the session must be in for the response mode.
PhaseFor(mode) ==
    IF mode = "plain" THEN "awaiting_plain_response" ELSE "awaiting_response"

\* A command that ends the session with a plain response: the response is
\* taken as it is.
Unchecked(r) == r.drops /\ r.response = "plain"

\* The session is not in the phase the response mode needs: session_invalid,
\* with the outcome an Error has when none is given.
WrongPhase ==
    /\ pc = "answered" /\ answer.status = "ok"
    /\ ~Unchecked(request)
    /\ session.phase # PhaseFor(request.response)
    /\ Return(Invalid(session), "not_sent", FALSE)

\* Mutation: the MAC is verified without the counter.
VerifiesAnyCounter(s, a) == a.mac /\ a.id = s.id

\* verify_response(): the MAC covers the counter and is made with the keys.
Verifies(s, a) == a.mac /\ a.id = s.id /\ a.counter = s.counter

\* Mutation: the response that fails verification leaves the session ready.
AfterBadResponseReady(s) == [s EXCEPT !.phase = "ready"]

AfterBadResponse(s) == Invalid(s)

\* The MAC is wrong, the padding or the length is, or a primitive fails.
ResponseBad ==
    /\ pc = "answered" /\ answer.status = "ok"
    /\ Unchecked(request) \/ session.phase = PhaseFor(request.response)
    /\ Return(AfterBadResponse(session), "unknown", FALSE)

\* accept_plain_response(), verify_response() or
\* verify_and_decrypt_full_response() succeeds, and so does the size check.
ResponseAccepted ==
    /\ pc = "answered" /\ answer.status = "ok"
    /\ Unchecked(request) \/ session.phase = PhaseFor(request.response)
    /\ request.response # "plain" => Verifies(session, answer)
    /\ Return(IF request.drops THEN Invalid(session)
                               ELSE [session EXCEPT !.phase = "ready"],
              "succeeded", request.response # "plain")

-----------------------------------------------------------------------------
Next ==
    \/ \E first \in BOOLEAN : Authenticate(first)
    \/ \E r \in Requests : Begin(r)
    \/ Prepare \/ PrepareFails
    \/ CardAccepts \/ CardRejects \/ FrameLost \/ ReaderReturns
    \/ RawFails \/ ResponseRejected \/ WrongPhase \/ ResponseBad \/ ResponseAccepted

Spec == Init /\ [][Next]_vars

-----------------------------------------------------------------------------
(***************************************************************************)
(* Properties.                                                             *)
(***************************************************************************)

\* The variables have their types.
TypeOK ==
    /\ session \in SessionType
    /\ card \in CardType
    /\ pc \in PCs
    /\ request \in Requests \cup {NoRequest}
    /\ number \in Nat
    /\ message \in MessageType
    /\ answer \in ReplyType
    /\ prepared \subseteq MessageType
    /\ replies \subseteq ReplyType
    /\ executed \subseteq Nat
    /\ unverified \in BOOLEAN
    /\ result \in ResultType

\* No two commands are ever protected with the same keys and counter, so no
\* initialisation vector and no MAC input is used twice: neither after a
\* failure, nor when the 16-bit counter runs out, nor across a NonFirst
\* handshake that carries the counter over.
NoCounterReuse ==
    \A m, n \in prepared :
        (m.mac /\ n.mac /\ m.id = n.id /\ m.counter = n.counter) => m = n

\* A response accepted under a MAC is the card's response to this very
\* command, which the card executed: never that of an earlier command or
\* session that the reader returned late.
ResponseIsFresh ==
    (result.outcome = "succeeded" /\ result.verified) =>
        result.reply = result.number /\ result.number \in executed

\* Host and card never drift apart unnoticed: between exchanges a ready
\* session has the keys and the counter of the card, since the handshake or
\* since the last response under a MAC; only a plain response, which nothing
\* verifies, can hide that a command was lost.
CountersInStep ==
    (pc = "idle" /\ session.phase = "ready" /\ ~unverified) =>
        card.alive /\ card.id = session.id /\ card.counter = session.counter

\* "Any failure after message preparation invalidates the borrowed session":
\* no command can be protected with it any more.
FailureInvalidates ==
    (pc = "idle" /\ result.prepared /\ result.outcome # "succeeded") =>
        session.phase = "invalid"

\* "not_sent" is returned only of a command no card executed.
NotSentMeansUnexecuted ==
    result.outcome = "not_sent" => result.number \notin executed

=============================================================================
