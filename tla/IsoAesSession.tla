---------------------------- MODULE IsoAesSession ----------------------------
(***************************************************************************)
(* ISO 7816 mutual authentication with AES, the session it makes, and the  *)
(* checked ISO commands that run in it (core/src/iso7816/checked and       *)
(* core/src/iso7816/security/aes), with the raw C ABI's way of rebuilding  *)
(* a caller's APDU as a checked command (c-api/src/raw.cpp).               *)
(*                                                                         *)
(* Commands travel in the clear; only the answer of a read carries a MAC,  *)
(* chained through the session's initialisation vector.  A MAC is the      *)
(* record of what it covers: session key, vector and payload.  Random      *)
(* numbers are fresh numbers, a session key is the pair of the host's      *)
(* first and the card's second random, and encryption under the shared key *)
(* is understood by the cards that hold it and is noise to the others.     *)
(*                                                                         *)
(* The raw ISO channel under it is represented by what IsoChannel shows:   *)
(* "not_sent" only if no frame was heard, and an answer only if the card   *)
(* generation is still the one of the start of the exchange.               *)
(***************************************************************************)
EXTENDS Integers, Sequences

CONSTANTS
    Identifiers,      \* short file identifiers
    Offsets,          \* byte offsets
    Records,          \* record numbers
    FileIds,          \* file identifiers of SELECT
    Sizes,            \* sizes of payloads and response limits
    RawApdus,         \* APDUs handed to df_raw_iso_secure_exchange
    MaxGeneration,    \* bound on the card exchanges explored
    MaxHandshakes,    \* bound on the handshakes begun
    MaxNumbers        \* bound on the answers of cards

ConstantsAssumption ==
    /\ Identifiers \subseteq Nat /\ Offsets \subseteq Nat /\ Records \subseteq Nat
    /\ FileIds \subseteq Nat /\ Sizes \subseteq Nat
    /\ \A a \in RawApdus : a.p1 \in 0..255 /\ a.p2 \in 0..255
    /\ MaxGeneration \in Nat /\ MaxHandshakes \in Nat /\ MaxNumbers \in Nat

VARIABLES
    generation,   \* the transport's card generation
    card,         \* the card in the field (external)
    session,      \* the host's Session: valid, key, vector, card generation
    call,         \* the operation in progress, and its command
    reply,        \* what the transport brought back
    last,         \* the last answer a card gave
    heard,        \* what the card read of this operation's last command
    issued,       \* host randoms and card numbers handed out so far
    result        \* what the last operation returned

vars == <<generation, card, session, call, reply, last, heard, issued, result>>

None == <<>>
NoLe == -1
maximum_expected_data == 65536

(***************************************************************************)
(* checked::Command.  A factory returns the set of the command it makes,   *)
(* or the empty set if it refuses its arguments.  `data` holds the bytes   *)
(* that matter and `size` how many there are.                              *)
(***************************************************************************)
Apdu(ins, p1, p2, data, size, le) ==
    [ins |-> ins, p1 |-> p1, p2 |-> p2, data |-> data, size |-> size, le |-> le]

\* make(): what raw::encode() refuses is not a command.
make(ins, p1, p2, data, size, le) ==
    {a \in {Apdu(ins, p1, p2, data, size, le)} :
        /\ a.size <= 65535
        /\ a.le = NoLe \/ a.le \in 1..maximum_expected_data}

\* BinaryAddress: <<P1, P2>>, {} if a part exceeds its field.
current_file(offset) ==
    IF offset > 32767 THEN {} ELSE {<<offset \div 256, offset % 256>>}

\* Mutation: the identifier where records have it, three bits up.
short_file_shifted(identifier, offset) ==
    IF identifier > 31 \/ offset > 255 THEN {}
    ELSE {<<128 + ((identifier * 8) % 128), offset>>}

short_file(identifier, offset) ==
    IF identifier > 31 \/ offset > 255 THEN {} ELSE {<<128 + identifier, offset>>}

select_file(identifier, selection, response) ==
    IF identifier > 65535 \/ response \notin {0, 12} \/ selection \notin {0, 1, 2} THEN {}
    ELSE make(164, selection, response, <<identifier \div 256, identifier % 256>>, 2,
              IF response = 0 THEN 256 ELSE NoLe)

select_df_name(size, response) ==
    IF size = 0 \/ size > 16 \/ response \notin {0, 12} THEN {}
    ELSE make(164, 4, response, <<>>, size, IF response = 0 THEN 256 ELSE NoLe)

read_binary(address, expected) == make(176, address[1], address[2], <<>>, 0, expected)

update_binary(address, size) ==
    IF size = 0 THEN {} ELSE make(214, address[1], address[2], <<>>, size, NoLe)

read_records(record, identifier, selection, expected) ==
    IF record > 255 \/ identifier > 31 \/ selection \notin {4, 5} THEN {}
    ELSE make(178, record, 8 * identifier + selection, <<>>, 0, expected)

append_record(identifier, size) ==
    IF identifier > 31 \/ size = 0 THEN {}
    ELSE make(226, 0, 8 * identifier, <<>>, size, NoLe)

update_record(ins, record, identifier, control, size) ==
    IF \/ ins \notin {220, 221} \/ record > 255 \/ identifier > 31 \/ control > 7
       \/ size = 0 \/ size > 255
    THEN {}
    ELSE make(ins, record, 8 * identifier + control, <<>>, size, NoLe)

is_read(c) == c.ins \in {176, 178}
is_write(c) == c.ins \in {214, 220, 221, 226}
is_selection(c) == c.ins = 164

\* resets_authentication(): every selection but that of an elementary file.
resets_authentication(c) ==
    (is_selection(c) /\ c.p1 # 2) \/ c.ins \in {132, 130, 136}

\* make_checked_iso_command(): a caller's APDU through the checked factories.
RebuiltAddress(a) ==
    IF a.p1 >= 128 THEN short_file((a.p1 \div 8) % 32, a.p2)
    ELSE current_file(256 * a.p1 + a.p2)

make_checked_iso_command(a) ==
    CASE a.ins = 164 /\ a.p2 \notin {0, 12} -> {}
      [] a.ins = 164 /\ a.p2 \in {0, 12} /\ a.p1 = 4 -> select_df_name(a.size, a.p2)
      [] a.ins = 164 /\ a.p2 \in {0, 12} /\ a.p1 # 4 ->
             IF a.p1 > 2 \/ a.size # 2 THEN {}
             ELSE select_file(256 * a.data[1] + a.data[2], a.p1, a.p2)
      [] a.ins = 176 ->
             IF a.le = NoLe \/ a.size # 0 THEN {}
             ELSE UNION {read_binary(x, a.le) : x \in RebuiltAddress(a)}
      [] a.ins = 214 ->
             IF a.le # NoLe THEN {}
             ELSE UNION {update_binary(x, a.size) : x \in RebuiltAddress(a)}
      [] a.ins = 178 ->
             IF a.le = NoLe \/ a.size # 0 THEN {}
             ELSE read_records(a.p1, a.p2 \div 8, a.p2 % 8, a.le)
      [] a.ins = 226 ->
             IF a.le # NoLe \/ a.p1 # 0 \/ a.p2 % 8 # 0 THEN {}
             ELSE append_record(a.p2 \div 8, a.size)
      [] a.ins \in {220, 221} ->
             IF a.le # NoLe THEN {}
             ELSE update_record(a.ins, a.p1, a.p2 \div 8, a.p2 % 8, a.size)
      [] OTHER -> {}

\* Mutation: the rebuilt form is used whatever the caller had written.
exactly_rebuilt(a) == {c \in make_checked_iso_command(a) : ~resets_authentication(c)}

\* df_raw_iso_secure_exchange(): an APDU that is not its own checked form, field for
\* field, is refused, and so is one that would end the session.  (A class or an
\* encoding that differs is refused the same way; neither is modelled.)
exactly_checked(a) ==
    {c \in make_checked_iso_command(a) : c = a /\ ~resets_authentication(c)}

(***************************************************************************)
(* The card's reading of an APDU (external): a short file identifier is    *)
(* the low five bits of P1 if its top bit is set, the high five bits of P2 *)
(* for records.                                                            *)
(***************************************************************************)
Target(c) ==
    CASE c.ins \in {176, 214} ->
             IF c.p1 >= 128 THEN <<1, c.p1 % 32, c.p2>> ELSE <<0, 256 * c.p1 + c.p2>>
      [] c.ins \in {178, 220, 221} -> <<c.p1, c.p2 \div 8, c.p2 % 8>>
      [] c.ins = 226 -> <<c.p2 \div 8>>
      [] c.ins = 164 -> <<c.p1, c.p2>> \o c.data
      [] OTHER -> <<>>

Understood(c) == Target(c) \o <<c.size, c.le>>

(***************************************************************************)
(* State.                                                                  *)
(***************************************************************************)
NoSession == [valid |-> FALSE, key |-> None, iv |-> 0, generation |-> 0]
NoCommand == Apdu(0, 0, 0, <<>>, 0, NoLe)
NoCall == [phase |-> "idle", step |-> "none", via |-> "none", asked |-> None,
           command |-> NoCommand, generation |-> 0, random |-> 0, number |-> 0]
NoReply == [step |-> "none", status |-> "none", whole |-> TRUE, payload |-> 0, mac |-> None]
NoResult == [ok |-> FALSE, outcome |-> "none", payload |-> 0]
NotHeard == [request |-> <<-1>>, payload |-> 0]

\* A new card holds no session; it may not hold the key that the host uses.
NewCard(shares) ==
    [shares |-> shares, challenge |-> 0, proven |-> 0, key |-> None, iv |-> 0]

Init ==
    /\ generation = 0
    /\ card = NewCard(TRUE)
    /\ session = NoSession
    /\ call = NoCall
    /\ reply = NoReply
    /\ last = NoReply
    /\ heard = NotHeard
    /\ issued = [randoms |-> 0, numbers |-> 0]
    /\ result = NoResult

Idle == call.phase = "idle"

Return(ok, outcome, payload) ==
    /\ result' = [ok |-> ok, outcome |-> outcome, payload |-> payload]
    /\ call' = [call EXCEPT !.phase = "returned"]

\* Mutation: only the flag goes down.
InvalidateFlag == [session EXCEPT !.valid = FALSE]

\* Session::invalidate(): the key and the vector are erased with the flag.
Invalidate == [session EXCEPT !.valid = FALSE, !.key = None, !.iv = 0]

\* The field (external): another card at any moment, with the key or without.
ReplaceCard(shares) ==
    /\ generation < MaxGeneration
    /\ generation' = generation + 1
    /\ card' = NewCard(shares)
    /\ UNCHANGED <<session, call, reply, last, heard, issued, result>>

\* The caller takes the result (external).
Take ==
    /\ call.phase = "returned"
    /\ call' = NoCall /\ reply' = NoReply /\ heard' = NotHeard /\ result' = NoResult
    /\ UNCHANGED <<generation, card, session, last, issued>>

(***************************************************************************)
(* authenticate(): GET CHALLENGE, EXTERNAL and INTERNAL AUTHENTICATE, with *)
(* Budget::next() before each of them and before the session is made.      *)
(***************************************************************************)
\* The controls, the transport, the card generation and the random source are
\* checked before the first frame; both host randoms are drawn together.  The
\* owner of the session drops the one it had.
Authenticate ==
    /\ Idle
    /\ issued.randoms < MaxHandshakes
    /\ session' = NoSession
    /\ issued' = [issued EXCEPT !.randoms = @ + 1]
    /\ \/ /\ call' = [NoCall EXCEPT !.phase = "next", !.step = "challenge", !.via = "handshake",
                                    !.generation = generation, !.random = issued.randoms + 1]
          /\ UNCHANGED result
       \/ /\ call' = [NoCall EXCEPT !.phase = "returned", !.via = "handshake"]
          /\ result' = [ok |-> FALSE, outcome |-> "not_sent", payload |-> 0]
    /\ UNCHANGED <<generation, card, reply, last, heard>>

\* Mutation: an error of a later step keeps the outcome of that step alone.
AfterSendOwn(outcome) == outcome

\* after_send() and Budget::next(true): once a frame was sent, nothing that goes
\* wrong later is "not_sent".
after_send(outcome) ==
    IF call.step # "challenge" /\ outcome = "not_sent" THEN "unknown" ELSE outcome

\* Budget::next(): same card, not cancelled, time left: the next frame goes out.
NextProof ==
    /\ call.phase = "next" /\ call.step # "done"
    /\ generation = call.generation
    /\ call' = [call EXCEPT !.phase = "wire"]
    /\ UNCHANGED <<generation, card, session, reply, last, heard, issued, result>>

\* Budget::next() finds another card, the stop token or the deadline; or the
\* crypto provider fails between two frames.
StopProof ==
    /\ call.phase = "next"
    /\ Return(FALSE, after_send("not_sent"), 0)
    /\ UNCHANGED <<generation, card, session, reply, last, heard, issued>>

\* The last Budget::next() finds the card of the beginning: the session is made
\* of the host's first and the card's second random, with a zero vector.
MakeSession ==
    /\ call.phase = "next" /\ call.step = "done"
    /\ generation = call.generation
    /\ session' = [valid |-> TRUE, key |-> <<call.random, call.number>>, iv |-> 0,
                   generation |-> call.generation]
    /\ Return(TRUE, "completed", 0)
    /\ UNCHANGED <<generation, card, reply, last, heard, issued>>

\* require_success() and the check of the card's proof, for the step answered.  The
\* proof is the second block of a CBC chain: it decrypts to the host's random only if
\* the first block, the card's random, arrived as it was sent.
StepAfter == [challenge |-> "external", external |-> "internal", internal |-> "done"]

ProofAccepted ==
    /\ reply.status = "success" /\ reply.whole
    /\ call.step = "internal" => reply.mac = <<call.random, reply.payload>>

TakeProof ==
    /\ call.phase = "answered" /\ call.via = "handshake"
    /\ IF ProofAccepted
       THEN /\ call' = [call EXCEPT !.phase = "next", !.step = StepAfter[call.step],
                            !.number = IF call.step = "external" THEN call.number
                                       ELSE reply.payload]
            /\ UNCHANGED result
       ELSE Return(FALSE, IF reply.status = "rejected" THEN "rejected" ELSE "unknown", 0)
    /\ UNCHANGED <<generation, card, session, reply, last, heard, issued>>

(***************************************************************************)
(* Session::execute().                                                     *)
(***************************************************************************)
Accepts(c) == is_read(c) \/ is_write(c) \/ (is_selection(c) /\ ~resets_authentication(c))

LimitAccepted(c, limit) == is_read(c) => limit \in 1..maximum_expected_data

\* An operation asks for `asked` through the command a factory made, if it made one.
Execute(via, asked, commands, limit) ==
    /\ Idle
    /\ LET refused == call' = [NoCall EXCEPT !.phase = "returned", !.via = via]
                      /\ result' = [ok |-> FALSE, outcome |-> "not_sent", payload |-> 0]
       IN \/ commands = {} /\ refused /\ UNCHANGED session
          \/ \E c \in commands :
               \/ /\ ~session.valid
                  /\ refused /\ UNCHANGED session
               \/ /\ session.valid /\ session.generation # generation
                  /\ refused /\ session' = Invalidate
               \/ /\ session.valid /\ session.generation = generation
                  /\ ~Accepts(c) \/ ~LimitAccepted(c, limit)
                  /\ refused /\ UNCHANGED session
               \/ /\ session.valid /\ session.generation = generation
                  /\ Accepts(c) /\ LimitAccepted(c, limit)
                  /\ call' = [NoCall EXCEPT !.phase = "wire", !.step = "command", !.via = via,
                                            !.asked = asked, !.command = c]
                  /\ UNCHANGED <<session, result>>
    /\ UNCHANGED <<generation, card, reply, last, heard, issued>>

\* Mutation: whatever the channel says, the session goes on.
KeepSession(outcome) == session

\* The channel failed: unless nothing was sent, the session ends.
AfterChannelError(outcome) == IF outcome = "not_sent" THEN session ELSE Invalidate

\* Mutation: the chaining of the vector is not verified.
VerifiesUnchained ==
    reply.mac # None /\ Len(reply.mac) = 4 /\ <<reply.mac[1], reply.mac[2]>> = session.key

\* retained_cmac() over the session key, the retained vector and the payload.
Verifies == reply.mac = session.key \o <<session.iv, reply.payload>>

\* A refused command, a write answered with data, a read without its MAC or with
\* another one, a failure of the crypto provider: the session ends.
TakeAnswer ==
    /\ call.phase = "answered" /\ call.step = "command"
    /\ \/ /\ reply.status = "rejected"
          /\ session' = Invalidate /\ Return(FALSE, "rejected", 0)
       \/ /\ reply.status = "success" /\ ~is_read(call.command)
          /\ IF is_write(call.command) /\ ~reply.whole
             THEN session' = Invalidate /\ Return(FALSE, "unknown", 0)
             ELSE Return(TRUE, "completed", 0) /\ UNCHANGED session
       \/ /\ reply.status = "success" /\ is_read(call.command)
          /\ \/ session' = Invalidate /\ Return(FALSE, "unknown", 0)
             \/ /\ reply.whole /\ Verifies
                /\ call' = [call EXCEPT !.phase = "verified"]
                /\ UNCHANGED <<session, result>>
    /\ UNCHANGED <<generation, card, reply, last, heard, issued>>

\* After the MAC: the card is still that of the session, and the vector moves on.
FinishRead ==
    /\ call.phase = "verified"
    /\ IF generation # session.generation
       THEN session' = Invalidate /\ Return(FALSE, "unknown", 0)
       ELSE session' = [session EXCEPT !.iv = reply.payload]
            /\ Return(TRUE, "completed", reply.payload)
    /\ UNCHANGED <<generation, card, reply, last, heard, issued>>

(***************************************************************************)
(* The raw channel and the field under checked::Channel::exchange().  The  *)
(* channel compares the card generation before and after; that it was      *)
(* another one before the frame than after it is one of the losses.        *)
(***************************************************************************)
\* Nothing goes out: capacity, cancellation, deadline, payload of a moved command.
ChannelRefuses ==
    /\ call.phase = "wire"
    /\ IF call.step = "command"
       THEN session' = AfterChannelError("not_sent") /\ Return(FALSE, "not_sent", 0)
       ELSE Return(FALSE, after_send("not_sent"), 0) /\ UNCHANGED session
    /\ UNCHANGED <<generation, card, reply, last, heard, issued>>

\* The frame, or the answer to it, is lost, late, too long or of another card.
ChannelFails ==
    /\ call.phase \in {"wire", "answered"}
    /\ session' = IF call.step = "command" THEN AfterChannelError("unknown") ELSE session
    /\ Return(FALSE, "unknown", 0)
    /\ UNCHANGED <<generation, card, reply, last, heard, issued>>

\* A card answers with a number of its own (external).
Number == issued.numbers + 1

Answer(status, payload, mac) ==
    [step |-> call.step, status |-> status, whole |-> TRUE, payload |-> payload, mac |-> mac]

Heard(request, payload) ==
    /\ call.phase = "wire"
    /\ issued.numbers < MaxNumbers
    /\ issued' = [issued EXCEPT !.numbers = Number]
    /\ call' = [call EXCEPT !.phase = "answered"]
    /\ heard' = [request |-> request, payload |-> payload]
    /\ UNCHANGED <<generation, session, result>>

\* The card and the proofs (external): a challenge ends what it had, EXTERNAL
\* proves that the host knows the key and the challenge, INTERNAL opens the session.
CardProves ==
    /\ call.via = "handshake"
    /\ Heard(<<0>>, Number)
    /\ \/ /\ call.step = "challenge"
          /\ card' = [card EXCEPT !.challenge = Number, !.proven = 0, !.key = None]
          /\ reply' = Answer("success", Number, None)
       \/ /\ call.step = "external"
          /\ card.shares /\ card.challenge = call.number
          /\ card' = [card EXCEPT !.challenge = 0, !.proven = call.random]
          /\ reply' = Answer("success", 0, None)
       \/ /\ call.step = "internal" /\ card.proven # 0
          /\ card' = [card EXCEPT !.proven = 0, !.key = <<card.proven, Number>>, !.iv = 0]
          /\ reply' = Answer("success", Number, <<call.random, Number>>)
       \/ /\ card' = [card EXCEPT !.challenge = 0, !.proven = 0, !.key = None]
          /\ reply' = Answer("rejected", 0, None)
    /\ last' = reply'

\* The card and a command (external): with a session the answer of a read has its
\* MAC and moves the vector; without, it has none; an error ends the session.
CardExecutes ==
    /\ call.step = "command"
    /\ Heard(Understood(call.command), Number)
    /\ \/ /\ card' = [card EXCEPT !.key = None]
          /\ reply' = Answer("rejected", 0, None)
       \/ /\ is_read(call.command) /\ card.key # None
          /\ card' = [card EXCEPT !.iv = Number]
          /\ reply' = Answer("success", Number, card.key \o <<card.iv, Number>>)
       \/ /\ ~is_read(call.command) \/ card.key = None
          /\ UNCHANGED card
          /\ reply' = Answer("success", Number, None)
    /\ last' = reply'

\* The field (external) changes the data of an answer or its length, or brings an
\* earlier answer in place of this one.
AlterAnswer ==
    /\ call.phase = "answered" /\ reply.status = "success"
    /\ reply' \in {[reply EXCEPT !.payload = 0], [reply EXCEPT !.whole = FALSE]}
    /\ UNCHANGED <<generation, card, session, call, last, heard, issued, result>>

\* `last` then is the answer that was held back.
RepeatAnswer ==
    /\ call.phase = "wire" /\ call.step = last.step /\ last.status = "success"
    /\ issued.numbers < MaxNumbers
    /\ reply' = last
    /\ call' = [call EXCEPT !.phase = "answered"]
    /\ UNCHANGED <<generation, card, session, last, heard, issued, result>>

(***************************************************************************)
(* The operations of a caller: each checked factory over its arguments,    *)
(* and a raw APDU with its limit, given to df_raw_iso_secure_exchange().   *)
(***************************************************************************)
Binary ==
    /\ Idle
    /\ \E o \in Offsets, n \in Sizes, limit \in Sizes :
        \/ Execute("checked", <<0, o, 0, n>>, UNION {read_binary(x, n) : x \in current_file(o)}, limit)
        \/ Execute("checked", <<0, o, n, NoLe>>,
                   UNION {update_binary(x, n) : x \in current_file(o)}, limit)
        \/ \E i \in Identifiers :
            \/ Execute("checked", <<1, i, o, 0, n>>,
                       UNION {read_binary(x, n) : x \in short_file(i, o)}, limit)
            \/ Execute("checked", <<1, i, o, n, NoLe>>,
                       UNION {update_binary(x, n) : x \in short_file(i, o)}, limit)

RecordFiles ==
    /\ Idle
    /\ \E r \in Records, i \in Identifiers, n \in Sizes :
        \/ \E mode \in {4, 5} :
            Execute("checked", <<r, i, mode, 0, n>>, read_records(r, i, mode, n), n)
        \/ Execute("checked", <<i, n, NoLe>>, append_record(i, n), n)
        \/ \E ins \in {220, 221}, control \in {4, 7, 8} :
            Execute("checked", <<r, i, control, n, NoLe>>, update_record(ins, r, i, control, n), n)

Selection ==
    /\ Idle
    /\ \E response \in {0, 12} :
        \/ \E f \in FileIds, kind \in {0, 1, 2} :
            Execute("checked", <<kind, response, f \div 256, f % 256, 2,
                                 IF response = 0 THEN 256 ELSE NoLe>>,
                    select_file(f, kind, response), 256)
        \/ \E n \in Sizes :
            Execute("checked", <<4, response, n>>, select_df_name(n, response), 256)

RawExchange ==
    /\ Idle
    /\ \E a \in RawApdus, limit \in Sizes : Execute("raw", Understood(a), exactly_checked(a), limit)

Next ==
    \/ \E shares \in BOOLEAN : ReplaceCard(shares)
    \/ Take
    \/ Authenticate \/ NextProof \/ StopProof \/ TakeProof \/ MakeSession
    \/ Binary \/ RecordFiles \/ Selection \/ RawExchange
    \/ TakeAnswer \/ FinishRead
    \/ ChannelRefuses \/ ChannelFails
    \/ CardProves \/ CardExecutes \/ AlterAnswer \/ RepeatAnswer

Spec == Init /\ [][Next]_vars

(***************************************************************************)
(* Properties.                                                             *)
(***************************************************************************)
Phases == {"idle", "next", "wire", "answered", "verified", "returned"}

\* The type invariant, with what Session::invalidate() and its constructor promise:
\* a key exists exactly as long as the session is valid, and no field of a command
\* on its way exceeds a byte.
TypeOK ==
    /\ generation \in 0..MaxGeneration
    /\ session.valid <=> session.key # None
    /\ session.iv \in 0..MaxNumbers /\ session.generation \in 0..generation
    /\ call.phase \in Phases /\ call.step \in {"none", "challenge", "external", "internal",
                                               "done", "command"}
    /\ call.command.p1 \in 0..255 /\ call.command.p2 \in 0..255
    /\ call.number \in 0..MaxNumbers /\ call.random \in 0..MaxHandshakes
    /\ reply.status \in {"none", "success", "rejected"}
    /\ result.outcome \in {"none", "not_sent", "completed", "rejected", "unknown"}

\* Between two operations, a valid session and the card it was made with hold the
\* same key and the same vector: whatever was lost, altered, repeated or refused on
\* the way, Session::execute() kept the session only if the card kept it as well.
Agreement ==
    Idle /\ session.valid /\ session.generation = generation
        => card.key = session.key /\ card.iv = session.iv

\* What an authenticated read returns is what the card of the session answered to
\* this very read, never an altered answer, an earlier one or that of another card.
ReadIsFresh ==
    result.ok /\ is_read(call.command) /\ call.step = "command" => result.payload = heard.payload

\* An error that claims "not_sent" is an operation of which no card heard a frame, in
\* the handshake too.
NotSentUnheard ==
    call.phase = "returned" /\ result.outcome = "not_sent" => heard = NotHeard

\* The card reads the file, offset, record and lengths the caller asked for, at every
\* edge of the fields the checked factories pack into P1 and P2; and a raw APDU that
\* is sent at all means to the card what the caller wrote, although it was taken
\* apart and rebuilt through those factories.
CardReadsRequest ==
    call.via \in {"checked", "raw"} /\ heard # NotHeard => heard.request = call.asked

\* What the checked factories make for the current file or a short file identifier,
\* df_raw_iso_secure_exchange() accepts: "The APDU must exactly match a supported
\* checked ... READ/UPDATE BINARY, ... command" (c-api/include/desfire/raw.h).
RawAcceptsChecked ==
    \A i \in Identifiers, o \in Offsets, n \in Sizes :
        \A x \in current_file(o) \cup short_file(i, o) :
            \A a \in read_binary(x, n) \cup update_binary(x, n) : exactly_checked(a) = {a}

==============================================================================
