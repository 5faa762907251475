----------------------------- MODULE Handshake ------------------------------
(***************************************************************************)
(* The native AES handshakes: Standard AES (core/src/security/             *)
(* standard_aes/authentication.cpp), EV2 First and EV2 NonFirst (core/src/ *)
(* security/ev2/authentication.cpp), between a host that may hold the      *)
(* wrong key and cards that come and go, over a reader that loses frames   *)
(* and may return an answer the card gave earlier.                         *)
(*                                                                         *)
(* Cryptography is symbolic: a ciphertext is the record of its key and its *)
(* contents, and only the key opens it.  Nonces are numbers, never used    *)
(* twice; the keys of a session are the record of what they are derived    *)
(* from.                                                                   *)
(***************************************************************************)
EXTENDS Integers

CONSTANTS
    Keys,        \* AES keys; the cards hold one of them
    CardKey,     \* the key the cards hold
    MaxNonce     \* bound on the nonces drawn

Profiles == {"standard", "first", "nonfirst"}

ConstantsAssumption == CardKey \in Keys /\ MaxNonce \in Nat

VARIABLES
    pc,       \* where authenticate*() is
    host,     \* its locals: profile, key, random_a, random_b
    session,  \* the session of the host, NoSession if it has none
    card,     \* the card in the field: its challenge and its session (external)
    wire,     \* the response frame the exchange returned
    nonce,    \* the last nonce drawn
    replies,  \* ghost: every response a card gave
    made,     \* ghost: every session a card established
    heard,    \* ghost: a card heard a frame of this handshake
    result    \* what the handshake returned

vars == <<pc, host, session, card, wire, nonce, replies, made, heard, result>>

NoSession == [profile |-> "none", key |-> CardKey, a |-> 0, b |-> 0, ti |-> 0]
NoHost == [profile |-> "none", key |-> CardKey, a |-> 0, b |-> 0]
NewCard == [asked |-> "none", b |-> 0, session |-> NoSession]
\* status, length, key and contents; `chained` is the nonce whose ciphertext
\* was the initialisation vector, 0 for a vector of zeros.
Reply(status) == [status |-> status, size |-> 16, key |-> CardKey, a |-> 0, b |-> 0,
                  ti |-> 0, echo |-> TRUE, chained |-> 0]
\* A frame of the wrong length, or bytes that no key opens to what is expected.
Garbled == Reply("garbled")
NoResult == [code |-> "none", outcome |-> "none", heard |-> FALSE]

Init ==
    /\ pc = "idle" /\ host = NoHost /\ session = NoSession /\ card = NewCard
    /\ wire = Garbled /\ nonce = 0 /\ replies = {} /\ made = {} /\ heard = FALSE
    /\ result = NoResult

-----------------------------------------------------------------------------
(***************************************************************************)
(* How a handshake ends.                                                   *)
(***************************************************************************)
\* Mutation: a failed handshake leaves the session it was to replace.
AfterFailureKept(s) == s

\* The callers drop the session before the handshake and install none after a
\* failure.
AfterFailure(s) == NoSession

\* Mutation: the nonces outlive the failure.
FailsKeepingNonces(code, outcome) ==
    /\ pc' = "idle" /\ wire' = Garbled
    /\ result' = [code |-> code, outcome |-> outcome, heard |-> heard]
    /\ session' = AfterFailure(session)
    /\ heard' = FALSE
    /\ UNCHANGED <<host, card, nonce, replies, made>>

Fails(code, outcome) ==
    /\ pc' = "idle" /\ host' = NoHost /\ wire' = Garbled
    /\ result' = [code |-> code, outcome |-> outcome, heard |-> heard]
    /\ session' = AfterFailure(session)
    /\ heard' = FALSE
    /\ UNCHANGED <<card, nonce, replies, made>>

\* Arguments are checked and the nonce drawn before the first frame; NonFirst
\* needs the EV2 session whose transaction identifier it keeps.
Authenticate(profile, key) ==
    /\ pc = "idle" /\ nonce < MaxNonce
    /\ profile = "nonfirst" => session.profile \in {"first", "nonfirst"}
    /\ host' = [profile |-> profile, key |-> key, a |-> nonce + 1, b |-> 0]
    /\ nonce' = nonce + 1
    /\ pc' = "initial" /\ result' = NoResult
    /\ UNCHANGED <<session, card, wire, replies, made, heard>>

\* crypto.random() fails: nothing was sent.
RandomFails == pc = "initial" /\ ~heard /\ Fails("crypto", "not_sent")

-----------------------------------------------------------------------------
(***************************************************************************)
(* The card (external) and the exchange.                                   *)
(***************************************************************************)
\* The first frame ends the card's session, except that NonFirst needs it.
CardChallenges ==
    /\ pc = "initial" /\ pc' = "challenged" /\ heard' = TRUE /\ nonce < MaxNonce
    /\ host.profile = "nonfirst" => card.session.profile \in {"first", "nonfirst"}
    /\ card' = [card EXCEPT !.asked = host.profile, !.b = nonce + 1,
                  !.session = IF host.profile = "nonfirst" THEN @ ELSE NoSession]
    /\ nonce' = nonce + 1
    /\ replies' = replies \cup {[Reply("af") EXCEPT !.b = nonce + 1]}
    /\ UNCHANGED <<host, session, wire, made, result>>

\* The length of the terminal answer.
TerminalSize(profile) == IF profile = "first" THEN 32 ELSE 16

\* Standard AES chains the initialisation vector, EV2 starts from zeros.
Vector(profile, b) == IF profile = "standard" THEN b ELSE 0

\* The proof opens under the card's key and vector, and names its challenge.
CardProves ==
    LET s == [profile |-> card.asked, key |-> CardKey, a |-> host.a, b |-> card.b,
              ti |-> IF card.asked = "nonfirst" THEN card.session.ti
                     ELSE IF card.asked = "first" THEN card.b ELSE 0]
    IN
    /\ pc = "proof" /\ pc' = "proved" /\ heard' = TRUE
    /\ card.asked # "none" /\ host.key = CardKey /\ host.b = card.b
    /\ Vector(host.profile, host.b) = Vector(card.asked, card.b)
    /\ card' = [NewCard EXCEPT !.session = s]
    /\ made' = made \cup {s}
    /\ \E echo \in {TRUE, card.asked # "first"} :
          replies' = replies \cup
            {[Reply("00") EXCEPT !.a = s.a, !.echo = echo,
                                 !.ti = IF card.asked = "first" THEN s.ti ELSE 0,
                                 !.size = IF card.asked = "first" THEN 32 ELSE 16,
                                 !.chained = Vector(card.asked, s.b)]}
    /\ UNCHANGED <<host, session, wire, nonce, result>>

\* The card refuses the key, the proof or the command, and forgets.
CardRefuses ==
    /\ pc \in {"initial", "proof"} /\ pc' = IF pc = "initial" THEN "challenged" ELSE "proved"
    /\ heard' = TRUE
    /\ card' = NewCard
    /\ replies' = replies \cup {Reply("error")}
    /\ UNCHANGED <<host, session, wire, nonce, made, result>>

\* The frame is lost, and the reader does not know.
FrameLost ==
    /\ pc \in {"initial", "proof"} /\ pc' = IF pc = "initial" THEN "challenged" ELSE "proved"
    /\ UNCHANGED <<host, session, card, wire, nonce, replies, made, heard, result>>

\* Another card, or the same one after a reset.
CardChanges ==
    /\ card # NewCard
    /\ card' = NewCard
    /\ UNCHANGED <<pc, host, session, wire, nonce, replies, made, heard, result>>

\* The reader returns any answer it has seen, or rubbish.
Arrives ==
    /\ pc \in {"challenged", "proved"}
    /\ pc' = IF pc = "challenged" THEN "initial_read" ELSE "proof_read"
    /\ wire' \in replies \cup {Garbled}
    /\ UNCHANGED <<host, session, card, nonce, replies, made, heard, result>>

\* Mutation: the error of the second exchange is passed on as it is.
LateOutcomePassed(outcome) == outcome

\* A later frame that was not sent does not make the handshake unsent.
LateOutcome(outcome) == IF outcome = "not_sent" THEN "unknown" ELSE outcome

ExchangeFails ==
    \/ pc = "initial" /\ Fails("transport", "not_sent")
    \/ pc = "challenged" /\ Fails("transport", "unknown")
    \/ pc = "proof" /\ Fails("transport", LateOutcome("not_sent"))
    \/ pc = "proved" /\ Fails("transport", LateOutcome("unknown"))

-----------------------------------------------------------------------------
(***************************************************************************)
(* The host.                                                               *)
(***************************************************************************)
\* require_phase(): the status and length the step expects, else rejected or malformed.
WrongPhase(expected, size) ==
    /\ wire.status # expected \/ wire.size # size
    /\ Fails(IF wire.status = "error" THEN "card_rejected" ELSE "malformed_response",
             IF wire.status = "error" THEN "rejected" ELSE "unknown")

InitialBad == pc = "initial_read" /\ WrongPhase("af", 16)

\* random_b is what the key makes of the challenge: rubbish under another key.
Prove ==
    /\ pc = "initial_read" /\ wire.status = "af"
    /\ host' = [host EXCEPT !.b = IF host.key = wire.key THEN wire.b ELSE 0]
    /\ pc' = "proof" /\ wire' = Garbled
    /\ UNCHANGED <<session, card, nonce, replies, made, heard, result>>

\* Mutation: any answer the key opens proves the card.
ProofMatchesKey == wire.key = host.key

\* The card's proof is the host's own nonce under key and vector; an EV2 First
\* answer has to echo the capabilities.
ProofMatches ==
    /\ wire.key = host.key /\ wire.a = host.a
    /\ wire.chained = Vector(host.profile, host.b)
    /\ host.profile = "first" => wire.echo

TerminalBad ==
    /\ pc = "proof_read"
    /\ \/ WrongPhase("00", TerminalSize(host.profile))
       \/ wire.status = "00" /\ wire.size = TerminalSize(host.profile) /\ ~ProofMatches /\ Fails("authentication", "unknown")

\* Mutation: NonFirst takes the identifier out of the answer, as First does.
IdentifierAnew == wire.ti

\* First takes the transaction identifier out of the answer, NonFirst keeps it.
Identifier == IF host.profile = "nonfirst" THEN session.ti ELSE wire.ti

Establish ==
    /\ pc = "proof_read" /\ wire.status = "00" /\ wire.size = TerminalSize(host.profile)
    /\ ProofMatches
    /\ session' = [profile |-> host.profile, key |-> host.key, a |-> host.a, b |-> host.b,
                   ti |-> Identifier]
    /\ result' = [code |-> "ok", outcome |-> "succeeded", heard |-> heard]
    /\ pc' = "idle" /\ host' = NoHost /\ wire' = Garbled /\ heard' = FALSE
    /\ UNCHANGED <<card, nonce, replies, made>>

\* A primitive fails, or the key derivation does, after the card was addressed.
CryptoFails ==
    /\ pc \in {"initial_read", "proof_read"}
    /\ wire.status = IF pc = "initial_read" THEN "af" ELSE "00"
    /\ Fails("crypto", "unknown")

Next ==
    \/ \E p \in Profiles, k \in Keys : Authenticate(p, k)
    \/ RandomFails \/ CardChallenges \/ CardProves \/ CardRefuses \/ FrameLost \/ CardChanges
    \/ Arrives \/ ExchangeFails \/ InitialBad \/ Prove \/ TerminalBad \/ Establish
    \/ CryptoFails

Spec == Init /\ [][Next]_vars

-----------------------------------------------------------------------------
\* The variables have their types.
TypeOK ==
    /\ pc \in {"idle", "initial", "challenged", "initial_read", "proof", "proved", "proof_read"}
    /\ host.profile \in Profiles \cup {"none"} /\ (pc = "idle") = (host = NoHost)
    /\ nonce \in 0..MaxNonce /\ host.a \in 0..nonce /\ host.b \in 0..nonce
    /\ session.profile \in Profiles \cup {"none"}
    /\ result.outcome \in {"none", "not_sent", "rejected", "unknown", "succeeded"}

\* Agreement: every session the host installs is one a card established, with
\* the same key, both nonces and the same transaction identifier; a card
\* exchanged halfway, a wrong key or a late answer never makes keys that only
\* one side holds.
Agreement == session # NoSession => session \in made

\* not_sent is told only of a handshake of which no card heard a frame: the
\* first frame has already ended the session of the card.
NotSentUnheard == result.outcome = "not_sent" => ~result.heard

\* Whenever the card goes on with the session of its last handshake and the
\* host believes it has one, they are the same: no failure leaves the host
\* with the session the handshake replaced.
NoStaleSession ==
    (pc = "idle" /\ session # NoSession /\ card.session # NoSession) => card.session = session
=============================================================================
