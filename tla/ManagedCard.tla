---------------------------- MODULE ManagedCard ----------------------------
(***************************************************************************)
(* The managed Card of the SDK (core/src/managed): one object that owns    *)
(* the native and the ISO channel, at most one authenticated session, and  *)
(* what the host believes about the card: which generation it is bound to, *)
(* which application is selected, which key was authenticated.             *)
(*                                                                         *)
(* OperationGuard admits one operation at a time, so the operations are    *)
(* not interleaved with each other; they are interleaved with the card     *)
(* field (the card may be exchanged between any two steps of the host) and *)
(* with a transport that loses frames and answers.  What the card really   *)
(* holds is the variable `card`; the properties compare it with the host.  *)
(*                                                                         *)
(* The two channels are represented by what NativeChannel shows of them:   *)
(* "not_sent" is answered only if no frame was heard, a reply is believed  *)
(* only if the generation captured at the start still holds, and a frame   *)
(* sent in the meantime may have reached the wrong card.  Cryptography is  *)
(* abstract: a session is the identity of the handshake that made it.      *)
(***************************************************************************)
EXTENDS Integers, Sequences

CONSTANTS
    Applications,        \* application identifiers
    Picc,                \* the PICC level, application 0
    Keys,                \* native key selectors
    Commands,            \* checked native commands, see CommandType
    Files,               \* file numbers of transaction plans
    Plans,               \* transaction plans: the file of each mutation
    MaxGeneration,       \* bound on the card generations explored
    MaxAuthentications   \* bound on the handshakes completed by cards

Families == {"standard", "ev2", "iso"}
NoKey == "no_key"
Nowhere == "nowhere"     \* selected_application is std::nullopt
NoCard == -1

(***************************************************************************)
(* native::checked::Command, by the properties execute_locked() looks at:  *)
(* `keys` is the set of authenticated keys it is restricted to ({} if it   *)
(* is not), `drops` is invalidates_session, `effect` what it does on the   *)
(* card to a pending transaction (a mutation of a plan "stages": Mutation). *)
(***************************************************************************)
CommandType ==
    [needsAuth : BOOLEAN, needsEv2 : BOOLEAN, needsPicc : BOOLEAN,
     keys : SUBSET Keys, drops : BOOLEAN,
     effect : {"none", "commit", "abort"}]

ASSUME ConstantsAssumption ==
    /\ Picc \in Applications
    /\ Nowhere \notin Applications
    /\ NoKey \notin Keys
    /\ Commands \subseteq CommandType
    /\ Plans \subseteq (Seq(Files) \ {<<>>})
    /\ MaxGeneration \in Nat
    /\ MaxAuthentications \in Nat

VARIABLES
    generation,   \* the transport's card generation
    card,         \* what the card in the field holds (external)
    handshakes,   \* handshakes completed so far: the identity of the next one
    host,         \* CardImpl
    op,           \* the operation in progress, its locals and its history
    last          \* what the latest operation returned, and what it did

vars == <<generation, card, handshakes, host, op, last>>
fieldVars == <<generation, card, handshakes>>

-----------------------------------------------------------------------------
(***************************************************************************)
(* The card.  `staged` counts the mutations of a transaction plan that are *)
(* pending on it, `planned` the length of that plan; `torn` records that a *)
(* part of a plan was committed.                                           *)
(***************************************************************************)
NoSession == [family |-> "none", id |-> 0]
SessionType == [family : Families \cup {"none"}, id : 0..MaxAuthentications]

CardType ==
    [selected : Applications, session : SessionType, key : Keys \cup {NoKey},
     challenged : BOOLEAN, staged : Nat, planned : Nat, torn : BOOLEAN]

FreshCard ==
    [selected |-> Picc, session |-> NoSession, key |-> NoKey,
     challenged |-> FALSE, staged |-> 0, planned |-> 0, torn |-> FALSE]

(***************************************************************************)
(* CardImpl: the generation it is bound to, usable, the three session      *)
(* pointers (0 is null), authenticated_key, authentication_reset_pending   *)
(* and selected_application.                                               *)
(***************************************************************************)
HostType ==
    [usable : BOOLEAN, generation : 0..MaxGeneration,
     sessions : [Families -> 0..MaxAuthentications], key : Keys \cup {NoKey},
     pending : BOOLEAN, selected : Applications \cup {Nowhere}]

NoSessions == [f \in Families |-> 0]

NewHost ==
    [usable |-> TRUE, generation |-> 0, sessions |-> NoSessions, key |-> NoKey,
     pending |-> FALSE, selected |-> Picc]

HasNativeSession(h) == h.sessions["standard"] # 0 \/ h.sessions["ev2"] # 0
HasIsoSession(h) == h.sessions["iso"] # 0
Authenticated(h) == HasNativeSession(h) \/ HasIsoSession(h)

\* The session a command of the host is protected with.
SessionOf(h) ==
    IF \E f \in Families : h.sessions[f] # 0
      THEN LET f == CHOOSE f \in Families : h.sessions[f] # 0
           IN  [family |-> f, id |-> h.sessions[f]]
      ELSE NoSession

\* invalidate_locked()
Invalidate(h) ==
    [h EXCEPT !.usable = FALSE, !.sessions = NoSessions, !.key = NoKey,
              !.pending = FALSE, !.selected = Nowhere]

-----------------------------------------------------------------------------
(***************************************************************************)
(* An operation in progress.  `phase` is where it is: "admitted" (checks   *)
(* passed, channel not entered), "begun" (the channel captured the         *)
(* generation), "heard" (the card acted on a frame and answered `reply`),  *)
(* "answered" (the channel returned `answer`); the phases of a transaction *)
(* plan between its commands, and of reset(), are named after the step.    *)
(* `saved` is the host state at entry; `cards` is the history: the         *)
(* generations that heard a frame of the operation.                        *)
(***************************************************************************)
Names == {"plain", "select", "execute", "standard", "ev2_first", "ev2_nonfirst",
          "iso_auth", "iso_select", "iso_data", "df_names", "transaction",
          "reset_authentication", "reset"}
Phases == {"idle", "admitted", "begun", "heard", "answered", "planning",
           "staging", "committing", "returned", "resetting", "repowered"}
Answers == {"none", "succeeded", "rejected", "unknown", "not_sent"}
Replies == {"none", "succeeded", "rejected", "challenge"}

NoCommand ==
    [needsAuth |-> FALSE, needsEv2 |-> FALSE, needsPicc |-> FALSE, keys |-> {},
     drops |-> FALSE, effect |-> "none"]
GetFileSettings == NoCommand
Mutation == [NoCommand EXCEPT !.effect = "stage"]
CommitTransaction == [NoCommand EXCEPT !.effect = "commit"]

NewOp(name) ==
    [name |-> name, phase |-> "idle", command |-> NoCommand, target |-> Picc,
     key |-> NoKey, plan |-> <<>>, index |-> 1, settled |-> {}, part |-> "none",
     begun |-> NoCard, proven |-> FALSE, session |-> NoSession,
     reply |-> "none", answer |-> "none", saved |-> host, cards |-> {},
     applied |-> 0, entered |-> [generation |-> generation, card |-> card]]

NoOp ==
    [NewOp("reset") EXCEPT !.saved = NewHost,
                           !.entered = [generation |-> NoCard, card |-> FreshCard]]

NoResult ==
    [name |-> "reset", outcome |-> "none", strayed |-> FALSE, heard |-> FALSE,
     changed |-> FALSE, applied |-> 0, size |-> 0, leftover |-> FALSE]

Init ==
    /\ generation = 0
    /\ card = FreshCard
    /\ handshakes = 0
    /\ host = NewHost
    /\ op = NoOp
    /\ last = NoResult

Idle == op.phase = "idle"

\* The operation o returns `outcome` and leaves the host state h.
Return(o, h, outcome) ==
    /\ host' = h
    /\ op' = NoOp
    /\ last' = [name |-> o.name, outcome |-> outcome,
                strayed |-> \E g \in o.cards : g # o.saved.generation,
                heard |-> o.cards # {},
                changed |-> generation = o.entered.generation /\ card # o.entered.card,
                applied |-> o.applied, size |-> Len(o.plan),
                leftover |-> card.staged #
                    (IF generation = o.entered.generation THEN o.entered.card.staged ELSE 0)]
    /\ UNCHANGED fieldVars

\* The operation o is admitted with the host state h: its checks passed.
Admit(o, h) ==
    /\ op' = [o EXCEPT !.phase = "admitted"]
    /\ host' = h
    /\ last' = NoResult
    /\ UNCHANGED fieldVars

SameCard == generation = host.generation

-----------------------------------------------------------------------------
(***************************************************************************)
(* The channels, from begin() to their answer, and the card behind them.   *)
(***************************************************************************)
\* begin() captures the generation: later than the managed check.
ChannelBegins ==
    /\ op.phase = "admitted"
    /\ op' = [op EXCEPT !.phase = "begun", !.begun = generation]
    /\ UNCHANGED <<generation, card, handshakes, host, last>>

\* The card in the field hears a frame of the operation, answers `reply` and
\* becomes c.  The frame may have been sent while another card was there.
Hears(c, reply) ==
    /\ op.phase = "begun"
    /\ card' = c
    /\ op' = [op EXCEPT !.phase = "heard", !.reply = reply,
                        !.cards = @ \cup {generation}]
    /\ UNCHANGED <<generation, host, last>>

\* An error status ends the authentication the card had.
Unauthenticated(c) ==
    [c EXCEPT !.session = NoSession, !.key = NoKey, !.challenged = FALSE]

CardSelects ==
    /\ op.name \in {"select", "iso_select"}
    /\ UNCHANGED handshakes
    /\ \/ \E a \in Applications :
            /\ op.name = "select" => a = op.target
            /\ Hears([Unauthenticated(card) EXCEPT !.selected = a, !.staged = 0],
                     "succeeded")
       \/ Hears(IF op.name = "select" THEN Unauthenticated(card) ELSE card, "rejected")

\* What a command accepted by the card does to it.
Executed(c, command) ==
    LET d == IF command.drops THEN Unauthenticated(c) ELSE c IN
    CASE command.effect = "stage"  ->
           [d EXCEPT !.staged = @ + 1, !.planned = Len(op.plan)]
      [] command.effect = "commit" ->
           [d EXCEPT !.torn = @ \/ d.staged \notin {0, d.planned}, !.staged = 0]
      [] command.effect = "abort"  -> [d EXCEPT !.staged = 0]
      [] OTHER -> d

\* A command, protected by the host's session or by none.
CardExecutes ==
    /\ op.name \in {"plain", "execute", "transaction", "df_names", "iso_data"}
    /\ UNCHANGED handshakes
    /\ \/ Hears(Unauthenticated(card), "rejected")
       \/ /\ op.session = card.session
          /\ op.phase = "begun"
          /\ card' = Executed(card, op.command)
          /\ op' = [op EXCEPT !.phase = "heard", !.reply = "succeeded",
                              !.cards = @ \cup {generation},
                              !.applied = IF op.command.effect = "commit"
                                            THEN card.staged ELSE @]
          /\ UNCHANGED <<generation, host, last>>

Handshakes == {"standard", "ev2_first", "ev2_nonfirst", "iso_auth"}
FamilyOf(name) ==
    CASE name = "standard" -> "standard" [] name = "iso_auth" -> "iso" [] OTHER -> "ev2"

\* The first frame of a handshake ends the session the card had.
CardChallenges ==
    /\ op.name \in Handshakes
    /\ ~op.proven
    /\ UNCHANGED handshakes
    /\ \/ /\ op.name = "ev2_nonfirst" => card.session.family = "ev2"
          /\ Hears([Unauthenticated(card) EXCEPT !.challenged = TRUE], "challenge")
       \/ Hears(Unauthenticated(card), "rejected")

\* The proof of the host, for the challenge of this card.
CardProves ==
    /\ op.name \in Handshakes
    /\ op.proven
    /\ \/ /\ card.challenged
          /\ handshakes < MaxAuthentications
          /\ handshakes' = handshakes + 1
          /\ LET s == [family |-> FamilyOf(op.name), id |-> handshakes + 1]
             IN  Hears([card EXCEPT !.session = s, !.challenged = FALSE,
                                    !.key = op.key], "succeeded")
       \/ /\ Hears(Unauthenticated(card), "rejected")
          /\ UNCHANGED handshakes

\* The challenge arrived, from the card the channel began with: the proof is
\* the next frame.
ChallengeArrives ==
    /\ op.phase = "heard" /\ op.reply = "challenge"
    /\ generation = op.begun
    /\ op' = [op EXCEPT !.phase = "begun", !.proven = TRUE, !.reply = "none"]
    /\ UNCHANGED <<generation, card, handshakes, host, last>>

\* The channel returns: the card's reply, if the generation still is the one
\* captured; a failure before anything was delivered; or uncertainty.
ChannelReturns ==
    /\ \/ /\ op.phase = "heard" /\ op.reply \in {"succeeded", "rejected"}
          /\ generation = op.begun
          /\ op' = [op EXCEPT !.phase = "answered", !.answer = op.reply,
                              !.session = IF op.name \in Handshakes
                                            THEN card.session ELSE @]
       \/ /\ op.phase \in {"admitted", "begun"} /\ ~op.proven
          /\ op' = [op EXCEPT !.phase = "answered", !.answer = "not_sent"]
       \/ /\ op.phase \in {"begun", "heard"}
          /\ op' = [op EXCEPT !.phase = "answered", !.answer = "unknown"]
    /\ UNCHANGED <<generation, card, handshakes, host, last>>

\* The card leaves the field and another one (or the same, powered again)
\* enters it.
CardChanges ==
    /\ generation < MaxGeneration
    /\ generation' = generation + 1
    /\ card' = FreshCard
    /\ UNCHANGED <<handshakes, host, op, last>>

-----------------------------------------------------------------------------
(***************************************************************************)
(* Discovery without a session: execute_plain_locked() for get_version(),  *)
(* free_memory() and file_ids().  With a native session they are commands  *)
(* of execute_locked() below.                                              *)
(***************************************************************************)
Outcome(h, outcome) == [host |-> h, outcome |-> outcome]

\* Mutation: no check after the command.
ReplacedNever(h) == FALSE

\* The generation check that follows a command.
Replaced(h) == generation # h.generation

\* What execute_plain_locked() leaves and returns for the channel's answer.
PlainResult(h, answer) ==
    IF answer = "unknown" \/ (answer # "not_sent" /\ Replaced(h))
      THEN Outcome(Invalidate(h), "unknown")
      ELSE Outcome(h, answer)

PlainRefuses(h) == ~h.usable \/ h.pending \/ HasIsoSession(h)

CallPlain ==
    /\ Idle
    /\ ~HasNativeSession(host)
    /\ \/ PlainRefuses(host) /\ Return(NewOp("plain"), host, "not_sent")
       \/ /\ ~PlainRefuses(host) /\ ~SameCard
          /\ Return(NewOp("plain"), Invalidate(host), "not_sent")
       \/ ~PlainRefuses(host) /\ SameCard /\ Admit(NewOp("plain"), host)

PlainReturns ==
    /\ op.phase = "answered" /\ op.name = "plain"
    /\ LET r == PlainResult(host, op.answer) IN Return(op, r.host, r.outcome)

\* df_names(): one transaction of the raw channel for all the names.  The
\* generation is checked before it, and not again after it.
CallDfNames ==
    /\ Idle
    /\ LET refuses == PlainRefuses(host) \/ HasNativeSession(host) IN
       \/ refuses /\ Return(NewOp("df_names"), host, "not_sent")
       \/ /\ ~refuses /\ ~SameCard
          /\ Return(NewOp("df_names"), Invalidate(host), "not_sent")
       \/ ~refuses /\ SameCard /\ Admit(NewOp("df_names"), host)

DfNamesReturns ==
    /\ op.phase = "answered" /\ op.name = "df_names"
    /\ Return(op, IF op.answer = "unknown" THEN Invalidate(host) ELSE host, op.answer)

-----------------------------------------------------------------------------
(***************************************************************************)
(* select_application(): authentication is erased before the command.      *)
(***************************************************************************)
WithoutAuthentication(h) ==
    [h EXCEPT !.sessions = NoSessions, !.key = NoKey, !.pending = FALSE]

\* From the result r of execute_plain_locked() and the host state at entry.
SelectResult(r, saved, target) ==
    CASE r.outcome = "succeeded" ->
           Outcome([r.host EXCEPT !.selected = target], "succeeded")
      [] r.outcome # "succeeded" /\ Authenticated(saved) ->
           Outcome(Invalidate(r.host), r.outcome)
      [] r.outcome # "succeeded" /\ ~Authenticated(saved) /\ saved.pending /\ r.host.usable ->
           Outcome(IF r.outcome = "unknown" THEN Invalidate(r.host)
                                            ELSE [r.host EXCEPT !.pending = TRUE],
                   r.outcome)
      [] OTHER -> r

CallSelect(a) ==
    /\ Idle
    /\ LET o == [NewOp("select") EXCEPT !.target = a]
           h == WithoutAuthentication(host)
           Fails(g) == LET r == SelectResult(Outcome(g, "not_sent"), host, a)
                       IN  Return(o, r.host, r.outcome)
       IN  \/ Return(o, host, "not_sent")      \* bad timeout, or stopped
           \/ ~host.usable /\ Fails(h)
           \/ host.usable /\ ~SameCard /\ Fails(Invalidate(h))
           \/ host.usable /\ SameCard /\ Admit(o, h)

SelectReturns ==
    /\ op.phase = "answered" /\ op.name = "select"
    /\ LET r == SelectResult(PlainResult(host, op.answer), op.saved, op.target)
       IN  Return(op, r.host, r.outcome)

-----------------------------------------------------------------------------
(***************************************************************************)
(* execute_locked(): a checked command under the state policy.  It returns *)
(* to execute(), to a discovery operation or to a transaction plan.        *)
(***************************************************************************)
ExecuteEnds(o, h, outcome) ==
    IF o.name # "transaction"
      THEN Return(o, h, outcome)
      ELSE /\ op' = [o EXCEPT !.phase = "returned", !.answer = outcome]
           /\ host' = h
           /\ last' = NoResult
           /\ UNCHANGED fieldVars

\* Session family, selection and key, after the generation check.
Permits(h, command) ==
    /\ ~HasIsoSession(h)
    /\ command.needsAuth => HasNativeSession(h)
    /\ command.needsEv2 => h.sessions["ev2"] # 0
    /\ command.needsPicc => h.selected = Picc
    /\ command.keys # {} => h.key \in command.keys

ExecuteLocked(o) ==
    LET ready == host.usable /\ ~host.pending IN
    \/ ~ready /\ ExecuteEnds(o, host, "not_sent")
    \/ ready /\ ~SameCard /\ ExecuteEnds(o, Invalidate(host), "not_sent")
    \/ ready /\ SameCard /\ ~Permits(host, o.command) /\ ExecuteEnds(o, host, "not_sent")
    \/ /\ ready /\ SameCard /\ Permits(host, o.command)
       /\ Admit([o EXCEPT !.session = SessionOf(host), !.begun = NoCard,
                          !.reply = "none", !.answer = "none"], host)

\* A moved-from command, or one of df_names(), is refused by itself.
CallExecute(c) ==
    /\ Idle
    /\ LET o == [NewOp("execute") EXCEPT !.command = c] IN
       \/ host.usable /\ ~host.pending /\ Return(o, host, "not_sent")
       \/ ExecuteLocked(o)

\* get_version(), free_memory() and file_ids() with a native session.
CallPlainProtected ==
    Idle /\ HasNativeSession(host) /\ ExecuteLocked(NewOp("execute"))

\* A failure under a session ends the use of the card, whatever it was.
ExecuteFailed(h, answer) ==
    IF HasNativeSession(h) \/ answer = "unknown" THEN Invalidate(h) ELSE h

\* A command that invalidates_session: clear_native_session() and the key.
SessionEnded(h) ==
    [h EXCEPT !.sessions["standard"] = 0, !.sessions["ev2"] = 0, !.key = NoKey]

\* What execute_locked() leaves and returns for the channel's answer.  A reply
\* that does not verify or parse is "unknown".
ExecuteResult(h, command, answer) ==
    CASE answer # "succeeded" -> Outcome(ExecuteFailed(h, answer), answer)
      [] answer = "succeeded" /\ Replaced(h) -> Outcome(Invalidate(h), "unknown")
      [] answer = "succeeded" /\ ~Replaced(h) ->
           Outcome(IF command.drops THEN SessionEnded(h) ELSE h, answer)

ExecuteReturns ==
    /\ op.phase = "answered" /\ op.name \in {"execute", "transaction"}
    /\ LET r == ExecuteResult(host, op.command, op.answer)
       IN  ExecuteEnds(op, r.host, r.outcome)

-----------------------------------------------------------------------------
(***************************************************************************)
(* Authentication.  A native handshake sets the ISO session aside, an ISO  *)
(* handshake every session; they come back only if nothing was sent.       *)
(***************************************************************************)
PreflightRefuses(name, h) ==
    ~h.usable \/ (name = "ev2_nonfirst" /\ h.sessions["ev2"] = 0)

SetAside(name, h) ==
    IF name = "iso_auth" THEN [h EXCEPT !.sessions = NoSessions, !.key = NoKey]
                         ELSE [h EXCEPT !.sessions["iso"] = 0]

CallAuthenticate(name, k) ==
    /\ Idle
    /\ handshakes < MaxAuthentications
    /\ LET o == [NewOp(name) EXCEPT !.key = IF name = "iso_auth" THEN NoKey ELSE k] IN
       \/ PreflightRefuses(name, host) /\ Return(o, host, "not_sent")
       \/ /\ ~PreflightRefuses(name, host) /\ ~SameCard
          /\ Return(o, Invalidate(host), "not_sent")
       \/ /\ ~PreflightRefuses(name, host) /\ SameCard
          /\ name = "iso_auth" /\ host.pending
          /\ Return(o, host, "not_sent")
       \/ /\ ~PreflightRefuses(name, host) /\ SameCard
          /\ ~(name = "iso_auth" /\ host.pending)
          /\ Admit(o, SetAside(name, host))

\* The session pointers after a completed handshake of the family f.
Established(h, f, id) ==
    IF f = "iso" THEN [h.sessions EXCEPT !["iso"] = id]
                 ELSE [h.sessions EXCEPT !["standard"] = 0, !["ev2"] = 0, ![f] = id]

\* Mutation: an uncertain handshake leaves the card usable.
AuthenticateFailedUsable(h, saved, answer) ==
    IF answer \in {"not_sent", "unknown"} THEN saved ELSE Invalidate(h)

AuthenticateFailed(h, saved, answer) ==
    IF answer = "not_sent" THEN saved ELSE Invalidate(h)

AuthenticateResult(h, o, answer) ==
    CASE answer # "succeeded" -> Outcome(AuthenticateFailed(h, o.saved, answer), answer)
      [] answer = "succeeded" /\ Replaced(h) -> Outcome(Invalidate(h), "unknown")
      [] answer = "succeeded" /\ ~Replaced(h) ->
           Outcome([h EXCEPT !.sessions = Established(h, FamilyOf(o.name), o.session.id),
                             !.key = o.key, !.pending = FALSE], answer)

AuthenticateReturns ==
    /\ op.phase = "answered" /\ op.name \in Handshakes
    /\ LET r == AuthenticateResult(host, op, op.answer) IN Return(op, r.host, r.outcome)

-----------------------------------------------------------------------------
(***************************************************************************)
(* iso_command().  "iso_select" stands for the commands that reset the     *)
(* authentication, "iso_data" for reads, writes and EF selection.          *)
(***************************************************************************)
CallIso(name) ==
    /\ Idle
    /\ LET resets == name = "iso_select"
           refuses == ~host.usable \/ (host.pending /\ ~resets)
           o == [NewOp(name) EXCEPT !.session = SessionOf(host)]
       IN  \/ refuses /\ Return(o, host, "not_sent")
           \/ ~refuses /\ ~SameCard /\ Return(o, Invalidate(host), "not_sent")
           \/ /\ ~refuses /\ SameCard /\ HasNativeSession(host) /\ ~resets
              /\ Return(o, host, "not_sent")
           \/ /\ ~refuses /\ SameCard /\ ~(HasNativeSession(host) /\ ~resets)
              /\ Admit(o, IF resets THEN WithoutAuthentication(host) ELSE host)

\* Mutation: the tracked application outlives the selection.
IsoSelectedKept(h) == h

\* A selection that succeeded: the native application is not known any more.
IsoSelected(h) == [h EXCEPT !.selected = Nowhere]

\* The channel failed, or the ISO session turned a status into an error.
IsoFailed(h, o, answer) ==
    CASE answer = "not_sent" /\ o.name = "iso_select" -> o.saved
      [] (answer # "not_sent" \/ o.name # "iso_select")
           /\ (Authenticated(o.saved) \/ o.saved.pending \/ answer = "unknown") -> Invalidate(h)
      [] OTHER -> h

\* A status other than 0x9000 ("rejected") is a response, unless a session
\* protects the command.
IsoResult(h, o, answer) ==
    LET failed == \/ answer \in {"not_sent", "unknown"}
                  \/ answer = "rejected" /\ HasIsoSession(h)
    IN  CASE failed -> Outcome(IsoFailed(h, o, answer), answer)
          [] ~failed /\ Replaced(h) -> Outcome(Invalidate(h), "unknown")
          [] ~failed /\ ~Replaced(h) /\ o.name = "iso_select" ->
               Outcome(IF answer = "succeeded" THEN IsoSelected(h) ELSE o.saved, answer)
          [] OTHER -> Outcome(h, answer)

IsoReturns ==
    /\ op.phase = "answered" /\ op.name \in {"iso_select", "iso_data"}
    /\ LET r == IsoResult(host, op, op.answer) IN Return(op, r.host, r.outcome)

-----------------------------------------------------------------------------
(***************************************************************************)
(* reset_authentication() is local; reset() powers the card again.         *)
(***************************************************************************)
\* Mutation: nothing is pending after a local reset.
ResetAuthenticationClean(h) == WithoutAuthentication(h)

ResetAuthenticated(h) ==
    [WithoutAuthentication(h) EXCEPT !.pending = h.pending \/ Authenticated(h)]

CallResetAuthentication ==
    Idle /\ Return(NewOp("reset_authentication"), ResetAuthenticated(host), "succeeded")

CallReset ==
    /\ Idle
    /\ generation < MaxGeneration
    /\ op' = [NewOp("reset") EXCEPT !.phase = "resetting"]
    /\ host' = Invalidate(host)
    /\ last' = NoResult
    /\ UNCHANGED fieldVars

\* The transport powers the card again.
CardReset ==
    /\ op.phase = "resetting"
    /\ generation < MaxGeneration
    /\ generation' = generation + 1
    /\ card' = FreshCard
    /\ op' = [op EXCEPT !.phase = "repowered"]
    /\ UNCHANGED <<handshakes, host, last>>

\* Mutation: the Card binds itself to the generation after the next one.
ReboundAhead(h) ==
    [h EXCEPT !.generation = generation + 1, !.usable = TRUE, !.pending = FALSE,
              !.selected = Picc]

\* reset() binds the Card to the generation it finds after the reset.
Rebound(h) ==
    [h EXCEPT !.generation = generation, !.usable = TRUE, !.pending = FALSE,
              !.selected = Picc]

\* The transport reports success, or a failure whose outcome reset() passes on
\* as it is; "not_sent" if the card certainly was not powered again.
ResetReturns ==
    \/ /\ op.phase = "repowered"
       /\ Return(op, Rebound(host), "succeeded")
    \/ \E failure \in {"not_sent", "rejected", "unknown"} :
          /\ op.phase \in {"resetting", "repowered"}
          /\ failure = "not_sent" => op.phase = "resetting"
          /\ Return(op, host, failure)

-----------------------------------------------------------------------------
(***************************************************************************)
(* execute_transaction_locked(): query the settings of every file, stage   *)
(* every mutation, commit once.  The budget is the deadline and the stop   *)
(* token of the whole plan, looked at before every command.                *)
(***************************************************************************)
CallTransaction(plan) ==
    /\ Idle
    /\ LET o == [NewOp("transaction") EXCEPT !.plan = plan] IN
       \/ (~host.usable \/ HasIsoSession(host)) /\ Return(o, host, "not_sent")
       \/ /\ host.usable /\ ~HasIsoSession(host)
          /\ op' = [o EXCEPT !.phase = "planning"]
          /\ last' = NoResult
          /\ UNCHANGED <<host, generation, card, handshakes>>

\* The next command of the plan, or the next phase.
Advance(phase) ==
    /\ op' = IF op.index < Len(op.plan)
               THEN [op EXCEPT !.phase = phase, !.index = @ + 1]
               ELSE [op EXCEPT !.index = 1,
                               !.phase = IF phase = "planning" THEN "staging"
                                                               ELSE "committing"]
    /\ UNCHANGED <<host, last, generation, card, handshakes>>

QuerySettings ==
    /\ op.phase = "planning" /\ op.plan[op.index] \notin op.settled
    /\ \/ Return(op, host, "not_sent")             \* the budget is spent
       \/ ExecuteLocked([op EXCEPT !.part = "query", !.command = GetFileSettings])

SettingsReturned ==
    /\ op.phase = "returned" /\ op.part = "query"
    /\ \/ op.answer # "succeeded" /\ Return(op, host, op.answer)
       \/ /\ op.answer = "succeeded"
          /\ op' = [op EXCEPT !.phase = "planning",
                              !.settled = @ \cup {op.plan[op.index]}]
          /\ UNCHANGED <<host, last, generation, card, handshakes>>

\* The file's type and communication mode suit the mutation, or not.
CheckMutation ==
    /\ op.phase = "planning" /\ op.plan[op.index] \in op.settled
    /\ \/ Advance("planning")
       \/ Return(op, host, "not_sent")

\* Mutation: a failed mutation is uncertain only if its own answer was.
StageResultOwn(h, o, answer) ==
    Outcome(IF answer = "unknown" THEN Invalidate(h) ELSE h, answer)

\* How a mutation that failed ends the plan.
StageResult(h, o, answer) ==
    IF o.index > 1 \/ answer = "unknown"
      THEN Outcome(Invalidate(h), "unknown")
      ELSE Outcome(h, answer)

StageMutation ==
    /\ op.phase = "staging"
    /\ \/ LET r == StageResult(host, op, "not_sent")   \* the budget is spent
          IN  Return(op, r.host, r.outcome)
       \/ ExecuteLocked([op EXCEPT !.part = "stage", !.command = Mutation])

MutationReturned ==
    /\ op.phase = "returned" /\ op.part = "stage"
    /\ \/ /\ op.answer # "succeeded"
          /\ LET r == StageResult(host, op, op.answer) IN Return(op, r.host, r.outcome)
       \/ op.answer = "succeeded" /\ Advance("staging")

\* Mutation: a commit that failed is reported as it failed.
CommitResultPlain(h, answer) ==
    IF answer = "succeeded" THEN Outcome(h, answer) ELSE Outcome(Invalidate(h), answer)

CommitResult(h, answer) ==
    IF answer = "succeeded" THEN Outcome(h, answer) ELSE Outcome(Invalidate(h), "unknown")

Commit ==
    /\ op.phase = "committing"
    /\ \/ LET r == CommitResult(host, "not_sent")      \* the budget is spent
          IN  Return(op, r.host, r.outcome)
       \/ ExecuteLocked([op EXCEPT !.part = "commit", !.command = CommitTransaction])

CommitReturned ==
    /\ op.phase = "returned" /\ op.part = "commit"
    /\ LET r == CommitResult(host, op.answer) IN Return(op, r.host, r.outcome)

-----------------------------------------------------------------------------
Calls ==
    \/ CallPlain \/ CallPlainProtected \/ CallDfNames
    \/ \E a \in Applications : CallSelect(a)
    \/ \E c \in Commands : CallExecute(c)
    \/ \E name \in Handshakes, k \in Keys : CallAuthenticate(name, k)
    \/ \E name \in {"iso_select", "iso_data"} : CallIso(name)
    \/ \E plan \in Plans : CallTransaction(plan)
    \/ CallResetAuthentication \/ CallReset

Returns ==
    \/ PlainReturns \/ DfNamesReturns \/ SelectReturns \/ ExecuteReturns
    \/ AuthenticateReturns \/ IsoReturns \/ ResetReturns

Transaction ==
    \/ QuerySettings \/ SettingsReturned \/ CheckMutation
    \/ StageMutation \/ MutationReturned \/ Commit \/ CommitReturned

Channel == ChannelBegins \/ ChallengeArrives \/ ChannelReturns

Field ==
    \/ CardSelects \/ CardExecutes \/ CardChallenges \/ CardProves
    \/ CardChanges \/ CardReset

Next == Calls \/ Returns \/ Transaction \/ Channel \/ Field

Spec == Init /\ [][Next]_vars

-----------------------------------------------------------------------------
(***************************************************************************)
(* Properties.                                                             *)
(***************************************************************************)
OpType ==
    [name : Names, phase : Phases, command : Commands \cup {NoCommand, Mutation, CommitTransaction},
     target : Applications, key : Keys \cup {NoKey}, plan : Plans \cup {<<>>},
     index : Nat, settled : SUBSET Files, part : {"none", "query", "stage", "commit"},
     begun : 0..MaxGeneration \cup {NoCard}, proven : BOOLEAN, session : SessionType,
     reply : Replies, answer : Answers, saved : HostType,
     cards : SUBSET (0..MaxGeneration), applied : Nat,
     entered : [generation : 0..MaxGeneration \cup {NoCard}, card : CardType]]

ResultType ==
    [name : Names, outcome : Answers, strayed : BOOLEAN, heard : BOOLEAN,
     changed : BOOLEAN, applied : Nat, size : Nat, leftover : BOOLEAN]

\* The variables have their types.
TypeOK ==
    /\ generation \in 0..MaxGeneration
    /\ card \in CardType
    /\ handshakes \in 0..MaxAuthentications
    /\ host \in HostType
    /\ op \in OpType
    /\ last \in ResultType

\* Between operations, a usable Card whose card was not exchanged holds
\* exactly the session the card holds, in one family, with the key that was
\* authenticated; after a local reset it holds none and knows that the card
\* may still hold one.  (Every path that sets sessions aside, restores or
\* erases them: select, the handshakes, ISO commands, ChangeKey, failures.)
SessionAgreement ==
    (Idle /\ host.usable /\ SameCard) =>
        /\ \A f, g \in Families : host.sessions[f] # 0 /\ host.sessions[g] # 0 => f = g
        /\ IF host.pending
             THEN ~Authenticated(host)
             ELSE SessionOf(host) = card.session
        /\ host.key # NoKey => HasNativeSession(host)
        /\ HasNativeSession(host) => host.key = card.key

\* Between operations, the application a usable Card tracks is the one
\* selected on the card: needsPicc commands are sent at the PICC level only.
SelectionAgreement ==
    (Idle /\ host.usable /\ SameCard /\ host.selected # Nowhere) =>
        host.selected = card.selected

\* An operation that reports success was heard by the card the Card is bound
\* to and by no other, although the generation is checked before the channel
\* captures it (df_names, which does not check it again, is left out).
SuccessOnOwnCard ==
    (Idle /\ last.outcome = "succeeded" /\ last.name # "df_names") => ~last.strayed

\* The same for df_names(): "Managed operations check the transport generation
\* before and after I/O".
NamesFromOwnCard ==
    (Idle /\ last.outcome = "succeeded" /\ last.name = "df_names") => ~last.strayed

\* Uncertainty is never forgotten: a Card whose latest operation ended with an
\* unknown outcome refuses further commands until it is reset.
UnknownMakesUnusable ==
    (Idle /\ last.outcome = "unknown") => ~host.usable

\* What a usable Card believes of its card is true: the session, the key, the
\* selected application, and that nothing is uncertain.
BeliefsAreTrue == SessionAgreement /\ SelectionAgreement /\ UnknownMakesUnusable

\* An operation that reports "not_sent" left the card as it was: no session
\* ended, no application selected, nothing staged.
NotSentChangesNothing ==
    (Idle /\ last.outcome = "not_sent") => ~last.changed

\* What the outcome table says of "not_sent": no card frame was transmitted.
NotSentMeansUnheard ==
    (Idle /\ last.outcome = "not_sent") => ~last.heard

\* A transaction plan that reports success was applied whole by one commit;
\* one that reports "not_sent" or "rejected" applied nothing and left nothing
\* staged that a later commit would apply.
PlanAllOrNothing ==
    (Idle /\ last.name = "transaction") =>
        /\ last.outcome = "succeeded" => last.applied = last.size
        /\ last.outcome \in {"not_sent", "rejected"} =>
             last.applied = 0 /\ ~last.leftover

\* No commit, of this plan or of a later operation, ever applies a part of a
\* transaction plan.
NoPartialCommit == ~card.torn

\* Transaction plans are atomic, whatever fails in them and whatever the
\* application does afterwards.
PlansAreAtomic == PlanAllOrNothing /\ NoPartialCommit

=============================================================================
