-------------------------- MODULE SecureMessaging --------------------------
(***************************************************************************)
(* The layers of secure messaging against the promises they share: the     *)
(* checked commands, the Standard AES and EV2 sessions under them, their   *)
(* handshakes, and the ISO 7816 AES session.  One layer runs, over what it *)
(* assumes of the ones below, and the variables of the others stand still. *)
(***************************************************************************)
EXTENDS CheckedCommands

CONSTANTS
    StandardRequests, Replies, MaxCommands, MaxSessions,   \* see StandardAesChannel
    Ev2Requests, MaxCounter,                               \* see Ev2Channel
    Keys, CardKey, MaxNonce,                               \* see Handshake
    Identifiers, Offsets, Records, FileIds, IsoSizes, RawApdus,
    MaxGeneration, MaxHandshakes, MaxNumbers,              \* see IsoAesSession
    Unused               \* the value of a variable of a layer that does not run

VARIABLES
    layer, session, pc, request, number, message, answer, vectors, prepared, replies,
    executed, unverified, wire, nonce, made, generation, last, issued

Standard == INSTANCE StandardAesChannel WITH Requests <- StandardRequests

Ev2 == INSTANCE Ev2Channel WITH Requests <- Ev2Requests

Handshakes == INSTANCE Handshake

Iso == INSTANCE IsoAesSession WITH Sizes <- IsoSizes

\* The EV2 session picks the phase in which it awaits the response by the mode of
\* the request: the modes agree, or the response is not verified at all.
PairsOfModesAgree ==
    \A r \in Ev2Requests :
        \/ r.request = "plain" <=> r.response = "plain"
        \/ r.drops /\ r.response = "plain"

ASSUME LayersAssumption ==
    /\ Standard!ConstantsAssumption /\ Handshakes!ConstantsAssumption
    /\ Iso!ConstantsAssumption
    /\ Ev2Requests \subseteq Ev2!RequestType /\ MaxCounter \in Nat /\ PairsOfModesAgree

-----------------------------------------------------------------------------
CheckedStarts ==
    /\ layer = "checked" /\ Init
    /\ session = Unused /\ pc = Unused /\ request = Unused /\ number = Unused /\
       message = Unused /\ answer = Unused /\ vectors = Unused /\ replies = Unused /\
       executed = Unused /\ wire = Unused /\ nonce = Unused /\ made = Unused /\
       generation = Unused /\ last = Unused /\ issued = Unused /\ prepared = Unused /\
       unverified = Unused

StandardStarts ==
    /\ layer = "standard" /\ Standard!Init
    /\ host = Unused /\ call = Unused /\ reply = Unused /\ heard = Unused /\
       wire = Unused /\ nonce = Unused /\ made = Unused /\ generation = Unused /\
       last = Unused /\ issued = Unused /\ prepared = Unused /\ unverified = Unused

Ev2Starts ==
    /\ layer = "ev2" /\ Ev2!Init
    /\ host = Unused /\ call = Unused /\ reply = Unused /\ heard = Unused /\
       vectors = Unused /\ wire = Unused /\ nonce = Unused /\ made = Unused /\
       generation = Unused /\ last = Unused /\ issued = Unused

HandshakeStarts ==
    /\ layer = "handshake" /\ Handshakes!Init
    /\ call = Unused /\ reply = Unused /\ request = Unused /\ number = Unused /\
       message = Unused /\ answer = Unused /\ vectors = Unused /\ executed = Unused /\
       generation = Unused /\ last = Unused /\ issued = Unused /\ prepared = Unused /\
       unverified = Unused

IsoStarts ==
    /\ layer = "iso" /\ Iso!Init
    /\ host = Unused /\ pc = Unused /\ request = Unused /\ number = Unused /\
       message = Unused /\ answer = Unused /\ vectors = Unused /\ replies = Unused /\
       executed = Unused /\ wire = Unused /\ nonce = Unused /\ made = Unused /\
       prepared = Unused /\ unverified = Unused

SecureInit == CheckedStarts \/ StandardStarts \/ Ev2Starts \/ HandshakeStarts \/ IsoStarts

CheckedSteps ==
    /\ layer = "checked" /\ Next
    /\ UNCHANGED <<layer, session, pc, request, number, message, answer, vectors, replies,
                   executed, wire, nonce, made, generation, last, issued, prepared,
                   unverified>>

StandardSteps ==
    /\ layer = "standard" /\ Standard!Next
    /\ UNCHANGED <<layer, host, call, reply, heard, wire, nonce, made, generation, last,
                   issued, prepared, unverified>>

Ev2Steps ==
    /\ layer = "ev2" /\ Ev2!Next
    /\ UNCHANGED <<layer, host, call, reply, heard, vectors, wire, nonce, made, generation,
                   last, issued>>

HandshakeSteps ==
    /\ layer = "handshake" /\ Handshakes!Next
    /\ UNCHANGED <<layer, call, reply, request, number, message, answer, vectors, executed,
                   generation, last, issued, prepared, unverified>>

IsoSteps ==
    /\ layer = "iso" /\ Iso!Next
    /\ UNCHANGED <<layer, host, pc, request, number, message, answer, vectors, replies,
                   executed, wire, nonce, made, prepared, unverified>>

SecureNext == CheckedSteps \/ StandardSteps \/ Ev2Steps \/ HandshakeSteps \/ IsoSteps

allVars == <<layer, vars, session, pc, request, number, message, answer, vectors, prepared,
             replies, executed, unverified, wire, nonce, made, generation, last, issued>>

SecureSpec == SecureInit /\ [][SecureNext]_allVars

-----------------------------------------------------------------------------
\* The state of each layer has the shape the code gives it.
SecureTypeOK ==
    /\ layer = "checked" => TypeOK
    /\ layer = "standard" => Standard!TypeOK
    /\ layer = "handshake" => Handshakes!TypeOK
    /\ layer = "iso" => Iso!TypeOK

\* Host and card never hold different sessions and both go on: a handshake only
\* makes sessions a card made too, whatever was lost, repeated or exchanged on
\* the way; commands, failures, plain modes and ChangeKey keep vectors, keys and
\* selection in step or end the session; a genuine answer always verifies.
SecureSessionsAgree ==
    /\ layer = "checked" => SessionsAgree
    /\ layer = "standard" => Standard!VectorsInStep /\ Standard!GenuineVerifies
    /\ layer = "handshake" => Handshakes!Agreement /\ Handshakes!NoStaleSession
    /\ layer = "iso" => Iso!Agreement

\* What is returned as verified is what the card answered to this very command,
\* whole: never an earlier answer, one of another mode, or one cut at a boundary
\* where the checksum fits by chance; no vector protects twice.
SecureAnswersAreFresh ==
    /\ layer = "standard" =>
         Standard!ResponseIsFresh /\ Standard!NoVectorReuse /\ Standard!BoundaryIsTrue
    /\ layer = "iso" => Iso!ReadIsFresh

\* not_sent is told only of a command no card executed, and of a handshake of
\* which no card heard a frame: the first frame already ends the old session.
SecureNotSentUnheard ==
    /\ layer = "standard" => Standard!NotSentMeansUnexecuted
    /\ layer = "ev2" => Ev2!NotSentMeansUnexecuted
    /\ layer = "handshake" => Handshakes!NotSentUnheard
    /\ layer = "iso" => Iso!NotSentUnheard

\* The card reads out of the bytes what the caller asked for, at every edge of
\* every field, and the caller out of the answer what the card holds; what is
\* admitted can be sent; key material travels enciphered, and a key change that
\* succeeds changed the slot that was named.
SecureBytesAgree ==
    /\ layer = "checked" =>
         /\ CardReadsRequest /\ ResultIsTheCards
         /\ AdmittedIsSendable /\ SecretsEnciphered /\ KeyChangeTakesEffect
    /\ layer = "iso" => Iso!CardReadsRequest

=============================================================================
