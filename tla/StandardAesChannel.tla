------------------------- MODULE StandardAesChannel -------------------------
(***************************************************************************)
(* Secure messaging over a Standard AES session: the same exchange() of    *)
(* core/src/native/secure/channel.cpp as in Ev2Channel, with the session   *)
(* of core/src/security/standard_aes/session.cpp.                          *)
(*                                                                         *)
(* This session has no counter.  Its initialisation vector is the last     *)
(* CMAC or ciphertext block of everything exchanged since the handshake,   *)
(* in both directions, whether or not it was transmitted.  The vector is   *)
(* represented by that history, a sequence; a MAC or a ciphertext by the   *)
(* history it was made with and the key `id`.                              *)
(***************************************************************************)
EXTENDS Integers, Sequences

CONSTANTS
    Requests,     \* secure::Request values, see RequestType
    Replies,      \* the sizes of data a card returns under full encryption
    MaxCommands,  \* bound on the commands explored
    MaxSessions   \* bound on the handshakes explored

Modes == {"plain", "mac", "full"}
aes_block_size == 16
crc_size == 4

\* Modes, whether there is command data, invalidates_session, and the size of
\* the response if minimum_response = maximum_response (AnySize otherwise).
AnySize == -1
RequestType == [request : Modes, response : Modes, data : BOOLEAN, drops : BOOLEAN, size : Int]

ConstantsAssumption ==
    /\ Requests \subseteq RequestType
    /\ Replies \subseteq Nat
    /\ MaxCommands \in Nat /\ MaxSessions \in Nat

VARIABLES
    session,   \* the standard_aes::Session: phase, vector, key
    card,      \* the session of the card (external)
    pc,        \* where exchange() is
    request,   \* its request
    number,    \* the identity of the command prepared last
    message,   \* what was prepared for the wire
    answer,    \* the response the raw channel returned
    vectors,   \* ghost: the vectors used to protect, with the message
    replies,   \* ghost: every response a card sent
    executed,  \* ghost: the commands a card executed
    result     \* what exchange() returned

vars == <<session, card, pc, request, number, message, answer, vectors, replies,
          executed, result>>

NoRequest == [request |-> "plain", response |-> "plain", data |-> FALSE, drops |-> FALSE,
              size |-> AnySize]
NoMessage == [protected |-> FALSE, iv |-> <<>>, id |-> 0]
\* Bytes that nobody protected with a session key.
Garbled == [status |-> "ok", mode |-> "none", iv |-> <<>>, id |-> 0, number |-> 0,
            size |-> 0, boundaries |-> {}]
NoResult == [outcome |-> "none", verified |-> FALSE, number |-> 0, reply |-> 0,
             size |-> 0, true |-> 0]

\* The vector after a message: a CMAC or last block over all before it.
Command(iv, n) == Append(iv, n)
Response(iv, n) == Append(iv, -n)

\* Mutation: the vector is wiped and the phase forgotten.
InvalidSamePhase(s) == [s EXCEPT !.iv = <<>>]

\* Mutation: the session starts again with a vector of zeros.
InvalidRestarts(s) == [s EXCEPT !.phase = "ready", !.iv = <<>>]

\* invalidate(): the key and the vector are wiped.
Invalid(s) == [s EXCEPT !.phase = "invalid", !.iv = <<>>]

Init ==
    /\ session = [phase |-> "invalid", iv |-> <<>>, id |-> 0]
    /\ card = [alive |-> FALSE, iv |-> <<>>, id |-> 0]
    /\ pc = "idle"
    /\ request = NoRequest
    /\ number = 0
    /\ message = NoMessage
    /\ answer = Garbled
    /\ vectors = {} /\ replies = {} /\ executed = {}
    /\ result = NoResult

\* A completed handshake: Session::create(), with a vector of zeros.
Authenticate ==
    /\ pc = "idle" /\ session.id < MaxSessions
    /\ session' = [phase |-> "ready", iv |-> <<>>, id |-> session.id + 1]
    /\ card' = [alive |-> TRUE, iv |-> <<>>, id |-> session.id + 1]
    /\ result' = NoResult
    /\ UNCHANGED <<pc, request, number, message, answer, vectors, replies, executed>>

-----------------------------------------------------------------------------
(***************************************************************************)
(* exchange_protected() and the preparation of a command.                  *)
(***************************************************************************)
Return(s, r) ==
    /\ session' = s
    /\ pc' = "idle"
    /\ result' = r
    /\ request' = NoRequest /\ message' = NoMessage /\ answer' = Garbled
    /\ UNCHANGED <<card, number, vectors, replies, executed>>

Fails(outcome) ==
    Return(Invalid(session),
           [NoResult EXCEPT !.outcome = outcome, !.number = IF pc = "begun" THEN 0 ELSE number])

Begin(r) ==
    /\ pc = "idle" /\ session.id > 0
    /\ pc' = "begun" /\ request' = r /\ result' = NoResult
    /\ UNCHANGED <<session, card, number, message, answer, vectors, replies, executed>>

\* The session is not ready, the sizes overflow, or a primitive fails.
PrepareFails == pc = "begun" /\ Fails("not_sent")

\* A CMAC is transmitted, or the data enciphered: only with data, and not in
\* plain mode.
Protected(r) == r.request # "plain" /\ r.data

\* Mutation: a command whose CMAC is not transmitted leaves the vector alone.
VectorAfterSent(r, iv, n) == IF Protected(r) THEN Command(iv, n) ELSE iv

\* prepare_cmac_command() and prepare_full(): the vector becomes the CMAC or
\* the last block, also when the CMAC stays at home.
VectorAfter(r, iv, n) == Command(iv, n)

Prepare ==
    /\ pc = "begun" /\ session.phase = "ready" /\ number < MaxCommands
    /\ number' = number + 1
    /\ message' = [protected |-> Protected(request), iv |-> Command(session.iv, number + 1),
                   id |-> session.id]
    /\ vectors' = vectors \cup
         {[id |-> session.id, iv |-> session.iv, number |-> number + 1]}
    /\ session' = [session EXCEPT !.phase = "awaiting_response",
                                  !.iv = VectorAfter(request, session.iv, number + 1)]
    /\ pc' = "prepared"
    /\ UNCHANGED <<card, request, answer, replies, executed, result>>

-----------------------------------------------------------------------------
(***************************************************************************)
(* The card and the reader (external).  Under full encryption the size of  *)
(* the data is found by its checksum: `boundaries` are the sizes at which  *)
(* checksum and zero padding fit, the true one and possibly another.       *)
(***************************************************************************)
Padded(n) == ((n + crc_size + aes_block_size - 1) \div aes_block_size) * aes_block_size

\* The sizes verify_and_decrypt_full_response() tries for a ciphertext.
Candidates(clear) == {n \in 0..(clear - crc_size) : clear - crc_size - n < aes_block_size}

CardAccepts ==
    /\ pc = "prepared" /\ card.alive
    /\ LET heard == Command(card.iv, number)
           sent == Response(heard, number)
       IN  /\ message.protected => message.id = card.id /\ message.iv = heard
           /\ card' = [card EXCEPT !.alive = ~request.drops, !.iv = sent]
           /\ \E n \in IF request.response = "full" THEN Replies ELSE {0} :
              \E other \in IF request.response = "full" THEN Candidates(Padded(n)) ELSE {0} :
                 replies' = replies \cup
                   {[status |-> "ok", mode |-> IF request.response = "full" THEN "full" ELSE "mac",
                     iv |-> sent, id |-> card.id, number |-> number, size |-> n,
                     boundaries |-> {n, other}]}
    /\ executed' = executed \cup {number}
    /\ pc' = "sent"
    /\ UNCHANGED <<session, request, number, message, answer, vectors, result>>

CardRejects ==
    /\ pc = "prepared"
    /\ card' = [card EXCEPT !.alive = FALSE]
    /\ replies' = replies \cup {[Garbled EXCEPT !.status = "error"]}
    /\ pc' = "sent"
    /\ UNCHANGED <<session, request, number, message, answer, vectors, executed, result>>

FrameLost ==
    /\ pc = "prepared"
    /\ pc' = "sent"
    /\ UNCHANGED <<session, card, request, number, message, answer, vectors, replies,
                   executed, result>>

\* The reader returns this response, an earlier one, or rubbish.
ReaderReturns ==
    /\ pc = "sent"
    /\ answer' \in replies \cup {Garbled}
    /\ pc' = "answered"
    /\ UNCHANGED <<session, card, request, number, message, vectors, replies, executed, result>>

RawFails ==
    \/ pc = "prepared" /\ Fails("not_sent")
    \/ pc \in {"prepared", "sent"} /\ Fails("unknown")

-----------------------------------------------------------------------------
(***************************************************************************)
(* The response.                                                           *)
(***************************************************************************)
ResponseRejected == pc = "answered" /\ answer.status = "error" /\ Fails("rejected")

\* Mutation: the response is verified with the key alone.
VerifiesAnyVector(s, a, mode) == a.mode = mode /\ a.id = s.id

\* The CMAC, or the decryption, is made with the session's key and vector.
Verifies(s, a, mode) ==
    a.mode = mode /\ a.id = s.id /\ a.iv = Response(s.iv, a.number)

\* Mutation: the longest data whose checksum fits are taken.
VerifiedSizesLongest(r, a) ==
    IF r.size # AnySize THEN {r.size} \cap a.boundaries
    ELSE {n \in a.boundaries : \A m \in a.boundaries : m <= n}

\* The one size that fits; none is accepted when two do.
VerifiedSizes(r, a) ==
    IF r.size # AnySize THEN {r.size} \cap a.boundaries
    ELSE {n \in a.boundaries : \A m \in a.boundaries : m = n}

\* A command that ends the session with a plain response: nothing is verified.
Unchecked(r) == r.drops /\ r.response = "plain"

\* Mutation: an error after the response was received is made anew.
BadOutcomeUnsent == "not_sent"

BadOutcome == "unknown"

\* The CMAC, checksum, padding or length is wrong, or a primitive fails.
ResponseBad == pc = "answered" /\ answer.status = "ok" /\ Fails(BadOutcome)

\* Mutation: only the commands move the vector.
AcceptedVectorKept(iv, n) == iv

AcceptedVector(iv, n) == Response(iv, n)

\* verify_response(), which also serves accept_plain_response(), or
\* verify_and_decrypt_full_response(); the vector moves on with the response.
ResponseAccepted ==
    LET mode == IF request.response = "full" THEN "full" ELSE "mac"
        after == IF request.drops THEN Invalid(session)
                 ELSE [session EXCEPT !.phase = "ready", !.iv = AcceptedVector(@, answer.number)]
    IN
    /\ pc = "answered" /\ answer.status = "ok"
    /\ Unchecked(request) \/ Verifies(session, answer, mode)
    /\ \E n \in IF request.response = "full" THEN VerifiedSizes(request, answer) ELSE {answer.size} :
          Return(after, [outcome |-> "succeeded", verified |-> ~Unchecked(request),
                         number |-> number, reply |-> answer.number, size |-> n,
                         true |-> IF request.size = AnySize THEN answer.size ELSE n])

Next ==
    \/ Authenticate
    \/ \E r \in Requests : Begin(r)
    \/ Prepare \/ PrepareFails
    \/ CardAccepts \/ CardRejects \/ FrameLost \/ ReaderReturns
    \/ RawFails \/ ResponseRejected \/ ResponseBad \/ ResponseAccepted

Spec == Init /\ [][Next]_vars

-----------------------------------------------------------------------------
\* The variables have their types, and no size is searched below the checksum.
TypeOK ==
    /\ session.phase \in {"ready", "awaiting_response", "invalid"}
    /\ session.id \in 0..MaxSessions /\ card.id \in 0..MaxSessions
    /\ pc \in {"idle", "begun", "prepared", "sent", "answered"}
    /\ session.phase = "awaiting_response" <=> pc \in {"prepared", "sent", "answered"}
    /\ number \in 0..MaxCommands
    /\ result.outcome \in {"none", "not_sent", "rejected", "succeeded", "unknown"}

\* Host and card chain the same vector: between exchanges a ready session has
\* the card's key and history, also after commands whose CMAC was not sent.
VectorsInStep ==
    (pc = "idle" /\ session.phase = "ready") =>
        card.alive /\ card.id = session.id /\ card.iv = session.iv

\* No false alarm: when the card executed the command and its own answer
\* arrives, it verifies, whichever commands of the session went without a CMAC.
GenuineVerifies ==
    (pc = "answered" /\ answer.status = "ok" /\ answer.number = number) =>
        Verifies(session, answer, IF request.response = "full" THEN "full" ELSE "mac")

\* No vector protects two commands of one session, neither after a failure nor
\* after commands that carried no CMAC.
NoVectorReuse ==
    \A u, v \in vectors : (u.id = v.id /\ u.iv = v.iv) => u = v

\* A verified response is the card's answer to this very command, in every
\* mode: the reader cannot pass off an earlier one, not even of a plain command.
ResponseIsFresh ==
    (result.outcome = "succeeded" /\ result.verified) =>
        result.reply = result.number /\ result.number \in executed

\* not_sent is told only of a command no card executed, whatever pair of modes
\* is asked for (unlike the EV2 session, this one has a single response phase).
NotSentMeansUnexecuted ==
    result.outcome = "not_sent" => result.number \notin executed

\* The data returned under full encryption end where the card's data ended: a
\* second boundary at which the checksum happens to fit is refused, not guessed.
BoundaryIsTrue ==
    (result.outcome = "succeeded" /\ result.verified) => result.size = result.true
=============================================================================
