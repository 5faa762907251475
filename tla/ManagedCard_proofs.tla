------------------------- MODULE ManagedCard_proofs -------------------------
(***************************************************************************)
(* Proofs about ManagedCard: what a usable Card believes of its card is    *)
(* true, results are of the card the Card is bound to, and transaction     *)
(* plans are atomic, for any commands, plans, keys and applications.  The  *)
(* invariants come in layers: the types and the control of an operation,   *)
(* the beliefs, the plans, the history; each is inductive given the ones   *)
(* before it.                                                              *)
(***************************************************************************)
EXTENDS ManagedCard, TLAPS

-----------------------------------------------------------------------------
(***************************************************************************)
(* Layer 1: where an operation is and what it set aside.                   *)
(***************************************************************************)
\* Where an operation can be: in the channel, between the commands of a plan,
\* or in reset().
ChannelPhases == {"admitted", "begun", "heard", "answered"}
PlanPhases == {"planning", "staging", "committing", "returned"}
ResetPhases == {"resetting", "repowered"}

InChannel == op.phase \in ChannelPhases

\* The card generation only grows, and the operation remembers its entry.
OrderInv ==
    /\ host.generation <= generation
    /\ ~Idle =>
        /\ op.saved.generation = host.generation
        /\ host.generation <= op.entered.generation
        /\ op.entered.generation <= generation
        /\ \A g \in op.cards : op.entered.generation <= g /\ g <= generation

\* The host state the operation runs with, made from the one at its entry.
RunsWith ==
    IF op.name \in {"select", "iso_select"} THEN WithoutAuthentication(op.saved)
    ELSE IF op.name \in Handshakes THEN SetAside(op.name, op.saved)
    ELSE op.saved

\* What was checked before the channel was entered.
ChannelInv ==
    InChannel =>
        /\ op.name \notin {"reset", "reset_authentication"}
        /\ op.saved.usable
        /\ op.entered.generation = host.generation
        /\ host = RunsWith
        /\ op.name \in {"plain", "df_names"} =>
             ~Authenticated(host) /\ ~host.pending /\ op.session = NoSession
        /\ op.name \in {"execute", "transaction"} =>
             ~HasIsoSession(host) /\ ~host.pending /\ op.session = SessionOf(host)
        /\ op.name = "iso_data" =>
             ~HasNativeSession(host) /\ ~host.pending /\ op.session = SessionOf(host)
        /\ op.name \notin {"execute", "transaction"} => op.command = NoCommand
        /\ op.name = "execute" => op.command.effect # "stage"
        /\ op.proven => op.name \in Handshakes
        /\ op.name = "iso_auth" => op.key = NoKey

\* The answer of the channel is the card's reply, or none was heard.
ReplyInv ==
    /\ op.phase = "admitted" => op.reply = "none" /\ ~op.proven
    /\ op.phase = "begun" => op.reply = "none"
    /\ op.phase = "heard" =>
        op.reply # "none" /\ (op.reply = "challenge" => op.name \in Handshakes)
    /\ op.phase = "answered" =>
        /\ op.answer \in {"succeeded", "rejected"} => op.reply = op.answer
        /\ op.answer = "not_sent" => op.reply = "none" /\ ~op.proven
        /\ op.answer # "none"

\* The command of each part of a plan.
CommandOf(part) ==
    IF part = "query" THEN GetFileSettings
    ELSE IF part = "stage" THEN Mutation ELSE CommitTransaction

\* Plans and resets: what their phases know.
PlanInv ==
    /\ op.phase \in PlanPhases => op.name = "transaction"
    /\ op.phase \in ResetPhases => op.name = "reset" /\ host = Invalidate(op.saved)
    /\ op.name = "transaction" /\ ~Idle =>
        /\ op.plan \in Plans /\ op.index \in 1..Len(op.plan)
        /\ ~op.proven
        /\ InChannel \/ op.phase = "returned" =>
             /\ op.part \in {"query", "stage", "commit"}
             /\ op.command = CommandOf(op.part)
        /\ op.phase \in {"planning", "staging", "committing"} => host = op.saved
        /\ op.phase = "returned" =>
             op.answer # "none" /\ (op.answer = "succeeded" => host = op.saved)

\* Layer 1.
ControlInv == OrderInv /\ ChannelInv /\ ReplyInv /\ PlanInv

-----------------------------------------------------------------------------
(***************************************************************************)
(* Layer 2: what the host believes of the card.                            *)
(***************************************************************************)
\* The host state h is true of the card c.
Agrees(h, c) ==
    /\ \A f, g \in Families : h.sessions[f] # 0 /\ h.sessions[g] # 0 => f = g
    /\ IF h.pending THEN ~Authenticated(h) ELSE SessionOf(h) = c.session
    /\ h.key # NoKey => HasNativeSession(h)
    /\ HasNativeSession(h) => h.key = c.key
    /\ h.selected # Nowhere => h.selected = c.selected

\* An unusable Card believes nothing.
Trusted(h, c) == h.usable => Agrees(h, c)

\* The host state the operation leaves if the channel answers a and the card
\* was not exchanged, by the kind of operation.
LeftBySelect(a) ==
    IF a = "succeeded" THEN [host EXCEPT !.selected = op.target]
    ELSE IF Authenticated(op.saved) THEN Invalidate(host)
    ELSE IF op.saved.pending THEN [host EXCEPT !.pending = TRUE] ELSE host

LeftByCommand(a) ==
    IF a = "succeeded" THEN IF op.command.drops THEN SessionEnded(host) ELSE host
    ELSE IF HasNativeSession(host) THEN Invalidate(host) ELSE host

LeftByHandshake(a) ==
    IF a = "succeeded"
      THEN [host EXCEPT !.sessions = Established(host, FamilyOf(op.name), card.session.id),
                        !.key = op.key, !.pending = FALSE]
    ELSE IF a = "not_sent" THEN op.saved ELSE Invalidate(host)

LeftByIsoSelect(a) == IF a = "succeeded" THEN IsoSelected(host) ELSE op.saved

LeftByIsoData(a) ==
    IF (a = "not_sent" \/ (a = "rejected" /\ HasIsoSession(host))) /\ Authenticated(op.saved)
      THEN Invalidate(host) ELSE host

Left(a) ==
    IF a = "unknown" THEN Invalidate(host)
    ELSE IF op.name \in {"plain", "df_names"} THEN host
    ELSE IF op.name = "select" THEN LeftBySelect(a)
    ELSE IF op.name \in {"execute", "transaction"} THEN LeftByCommand(a)
    ELSE IF op.name \in Handshakes THEN LeftByHandshake(a)
    ELSE IF op.name = "iso_select" THEN LeftByIsoSelect(a)
    ELSE LeftByIsoData(a)

\* The application tracked at the entry is still the selected one.
SelectedHolds == op.saved.selected # Nowhere => op.saved.selected = card.selected

\* If the card was not exchanged: the host state is true of it between
\* operations and commands, was true of it at the entry until a frame is heard,
\* and what the operation will leave is true of it once the card has answered.
BeliefInv ==
    SameCard =>
        /\ Idle \/ op.phase \in PlanPhases => Trusted(host, card)
        /\ op.phase \in {"admitted", "begun"} /\ ~op.proven => Agrees(op.saved, card)
        /\ op.phase = "heard" /\ op.reply \in {"succeeded", "rejected"} =>
             Trusted(Left(op.reply), card)
        /\ op.phase = "answered" => Trusted(Left(op.answer), card)
        /\ op.phase = "begun" /\ op.proven => SelectedHolds
        /\ op.phase = "heard" /\ op.reply = "challenge" => SelectedHolds

\* A session in answer to a handshake is the card's.
HandshakeInv ==
    /\ op.phase = "answered" /\ op.answer = "succeeded" /\ op.name \in Handshakes
       /\ SameCard => op.session = card.session
    /\ op.phase = "repowered" => card = FreshCard

\* Uncertainty ends the use of the Card.
UnknownInv ==
    /\ Idle /\ last.outcome = "unknown" => ~host.usable
    /\ op.phase = "returned" /\ op.answer = "unknown" => ~host.usable

-----------------------------------------------------------------------------
(***************************************************************************)
(* Layer 3: what a plan has staged.                                        *)
(***************************************************************************)
At(part, phase) ==
    \/ op.phase = phase
    \/ (InChannel \/ op.phase = "returned") /\ op.part = part

\* The command of the plan in progress was accepted by the card.
Accepted ==
    \/ op.phase \in {"heard", "answered"} /\ op.reply = "succeeded"
    \/ op.phase = "returned" /\ op.answer = "succeeded"

\* The mutations of the plan the card holds.
Progress ==
    IF At("query", "planning") THEN 0
    ELSE IF At("stage", "staging") THEN IF Accepted THEN op.index ELSE op.index - 1
    ELSE IF Accepted THEN 0 ELSE Len(op.plan)

\* What is staged is what the plan in progress has staged; without one,
\* nothing.  A card that was exchanged before the command has nothing staged.
StagedInv ==
    /\ ~card.torn
    /\ host.usable /\ SameCard =>
         IF Idle \/ op.name # "transaction" THEN card.staged = 0
         ELSE /\ card.staged = Progress
              /\ card.staged # 0 => card.planned = Len(op.plan)
    /\ op.phase \in {"admitted", "begun"} /\ ~SameCard /\ op.name \in {"execute", "transaction"} =>
         card.staged = 0

\* A plan that has not yet had a mutation accepted.
NothingStaged ==
    card.staged = IF generation = op.entered.generation THEN op.entered.card.staged ELSE 0

\* The first mutation has not been accepted.
EarlyStage ==
    /\ op.index = 1
    /\ \/ op.phase \in {"staging", "admitted", "begun"}
       \/ op.phase = "heard" /\ op.reply = "rejected"
       \/ op.phase \in {"answered", "returned"} /\ op.answer \in {"not_sent", "rejected"}

\* What a plan has applied at each of its parts.
AppliedInv ==
    /\ op.name = "transaction" /\ ~Idle =>
        /\ At("query", "planning") => NothingStaged /\ op.applied = 0
        /\ At("stage", "staging") =>
             op.applied = 0 /\ (EarlyStage => NothingStaged)
        /\ op.phase \in {"heard", "answered"} /\ op.part = "commit" /\ op.reply = "succeeded"
           /\ SameCard => op.applied = Len(op.plan)
        /\ op.phase = "returned" /\ op.part = "commit" /\ op.answer = "succeeded" =>
             op.applied = Len(op.plan)
    /\ PlanAllOrNothing

-----------------------------------------------------------------------------
(***************************************************************************)
(* Layer 4: which cards heard the operation, and what it changed.          *)
(***************************************************************************)
OwnCards == \A g \in op.cards : g = op.saved.generation

\* Plans go on, and operations succeed, only with the card they were given.
HistoryInv ==
    /\ op.phase \in {"planning", "staging", "committing"} => OwnCards
    /\ op.phase = "returned" /\ op.answer = "succeeded" => OwnCards
    /\ op.phase \in ResetPhases => op.cards = {}
    /\ SuccessOnOwnCard

\* The parts of a plan before anything was staged.
EarlyPart == \/ op.part = "query"
             \/ op.part = "stage" /\ op.index = 1

\* The card of the entry is as it was then.
Untouched == (generation = op.entered.generation) => (card = op.entered.card)

\* The card has heard no frame of the operation that could change it.
Unheard ==
    IF op.name # "transaction"
      THEN \/ op.phase = "resetting"
           \/ op.phase \in {"admitted", "begun"} /\ ~op.proven
           \/ op.phase = "answered" /\ op.answer = "not_sent"
      ELSE \/ op.phase = "planning"
           \/ op.phase = "staging" /\ op.index = 1
           \/ op.phase \in {"admitted", "begun"} /\ EarlyPart
           \/ op.phase = "heard" /\ op.reply = "succeeded" /\ op.part = "query"
           \/ op.phase \in {"answered", "returned"} /\ op.answer = "succeeded" /\ op.part = "query"
           \/ op.phase \in {"answered", "returned"} /\ op.answer = "not_sent" /\ EarlyPart

\* Until it could have changed the card, it has not.
UntouchedInv ==
    /\ ~Idle /\ Unheard => Untouched
    /\ NotSentChangesNothing

-----------------------------------------------------------------------------
(***************************************************************************)
(* Types.                                                                  *)
(***************************************************************************)
\* The states and records an operation starts from have their types.
LEMMA StartTypes ==
    /\ FreshCard \in CardType
    /\ NewHost \in HostType
    /\ NoSessions \in [Families -> 0..MaxAuthentications]
    /\ NoSession \in SessionType
BY ConstantsAssumption
DEF FreshCard, CardType, NewHost, HostType, NoSessions, NoSession, SessionType,
    Families

\* Every change the operations make to the host state keeps its type.
LEMMA HostTypes ==
    ASSUME NEW h \in HostType
    PROVE  /\ Invalidate(h) \in HostType
           /\ WithoutAuthentication(h) \in HostType
           /\ ResetAuthenticated(h) \in HostType
           /\ SessionEnded(h) \in HostType
           /\ IsoSelected(h) \in HostType
           /\ \A name : SetAside(name, h) \in HostType
           /\ \A a \in Applications : [h EXCEPT !.selected = a] \in HostType
           /\ [h EXCEPT !.pending = TRUE] \in HostType
<1>1. NoSessions \in [Families -> 0..MaxAuthentications] /\ 0 \in 0..MaxAuthentications
  BY StartTypes, ConstantsAssumption
<1>2. \A f \in Families : [h.sessions EXCEPT ![f] = 0] \in [Families -> 0..MaxAuthentications]
  BY <1>1 DEF HostType
<1>3. Invalidate(h) \in HostType /\ WithoutAuthentication(h) \in HostType
  BY <1>1 DEF HostType, Invalidate, WithoutAuthentication
<1>4. ResetAuthenticated(h) \in HostType
  BY <1>1 DEF HostType, ResetAuthenticated, WithoutAuthentication, Authenticated,
              HasNativeSession, HasIsoSession
<1>5. SessionEnded(h) \in HostType
  BY <1>1 DEF HostType, SessionEnded, Families
<1>6. IsoSelected(h) \in HostType
  BY DEF HostType, IsoSelected
<1>7. ASSUME NEW name PROVE SetAside(name, h) \in HostType
  BY <1>1 DEF HostType, SetAside, Families
<1>8. /\ \A a \in Applications : [h EXCEPT !.selected = a] \in HostType
      /\ [h EXCEPT !.pending = TRUE] \in HostType
  BY DEF HostType
<1> QED  BY <1>3, <1>4, <1>5, <1>6, <1>7, <1>8

\* The session of a host state is a session.
LEMMA SessionTypes ==
    ASSUME NEW h \in HostType
    PROVE  SessionOf(h) \in SessionType
BY StartTypes DEF SessionOf, HostType, SessionType

\* A new operation has the type of one.
LEMMA NewOpTypes ==
    ASSUME TypeOK, NEW name \in Names
    PROVE  NewOp(name) \in OpType
BY StartTypes, ConstantsAssumption
DEF NewOp, OpType, TypeOK, Phases, Replies, Answers

\* So has the record that says that none is in progress.
LEMMA NoOpType ==
    ASSUME TypeOK
    PROVE  NoOp \in OpType
<1>1. NewOp("reset") \in OpType
  BY NewOpTypes DEF Names
<1> QED
  BY <1>1, StartTypes, ConstantsAssumption DEF NoOp, OpType

-----------------------------------------------------------------------------
(***************************************************************************)
(* The operators the model defines by cases, as conditions.                *)
(***************************************************************************)
\* What execute_locked() leaves and returns.
LEMMA ExecuteResultIs ==
    ASSUME NEW h, NEW command, NEW a
    PROVE  ExecuteResult(h, command, a) =
             IF a # "succeeded" THEN Outcome(ExecuteFailed(h, a), a)
             ELSE IF Replaced(h) THEN Outcome(Invalidate(h), "unknown")
             ELSE Outcome(IF command.drops THEN SessionEnded(h) ELSE h, a)
<1>1. CASE a # "succeeded"  BY <1>1, Zenon DEF ExecuteResult
<1>2. CASE a = "succeeded" /\ Replaced(h)  BY <1>2, Zenon DEF ExecuteResult
<1>3. CASE a = "succeeded" /\ ~Replaced(h)  BY <1>3, Zenon DEF ExecuteResult
<1> QED  BY <1>1, <1>2, <1>3

\* What a selection leaves and returns.
LEMMA SelectResultIs ==
    ASSUME NEW r, NEW saved, NEW target
    PROVE  SelectResult(r, saved, target) =
             IF r.outcome = "succeeded"
               THEN Outcome([r.host EXCEPT !.selected = target], "succeeded")
             ELSE IF Authenticated(saved) THEN Outcome(Invalidate(r.host), r.outcome)
             ELSE IF saved.pending /\ r.host.usable
               THEN Outcome(IF r.outcome = "unknown" THEN Invalidate(r.host)
                                             ELSE [r.host EXCEPT !.pending = TRUE],
                            r.outcome)
             ELSE r
<1>1. CASE r.outcome = "succeeded"  BY <1>1, Zenon DEF SelectResult
<1>2. CASE r.outcome # "succeeded" /\ Authenticated(saved)
  BY <1>2, Zenon DEF SelectResult
<1>3. CASE r.outcome # "succeeded" /\ ~Authenticated(saved) /\ saved.pending /\ r.host.usable
  BY <1>3, Zenon DEF SelectResult
<1>4. CASE r.outcome # "succeeded" /\ ~Authenticated(saved) /\ ~(saved.pending /\ r.host.usable)
  BY <1>4, Zenon DEF SelectResult
<1> QED  BY <1>1, <1>2, <1>3, <1>4

\* What a handshake leaves and returns.
LEMMA AuthenticateResultIs ==
    ASSUME NEW h, NEW o, NEW a
    PROVE  AuthenticateResult(h, o, a) =
             IF a # "succeeded" THEN Outcome(AuthenticateFailed(h, o.saved, a), a)
             ELSE IF Replaced(h) THEN Outcome(Invalidate(h), "unknown")
             ELSE Outcome([h EXCEPT
                    !.sessions = Established(h, FamilyOf(o.name), o.session.id),
                    !.key = o.key, !.pending = FALSE], a)
<1>1. CASE a # "succeeded"  BY <1>1, Zenon DEF AuthenticateResult
<1>2. CASE a = "succeeded" /\ Replaced(h)  BY <1>2, Zenon DEF AuthenticateResult
<1>3. CASE a = "succeeded" /\ ~Replaced(h)  BY <1>3, Zenon DEF AuthenticateResult
<1> QED  BY <1>1, <1>2, <1>3

\* The family of a handshake.
LEMMA FamilyOfIs ==
    ASSUME NEW name
    PROVE  FamilyOf(name) = IF name = "standard" THEN "standard"
                            ELSE IF name = "iso_auth" THEN "iso" ELSE "ev2"
<1>1. "standard" # "iso_auth"  OBVIOUS
<1>2. CASE name = "standard"  BY <1>1, <1>2, Zenon DEF FamilyOf
<1>3. CASE name = "iso_auth"  BY <1>1, <1>3, Zenon DEF FamilyOf
<1>4. CASE name # "standard" /\ name # "iso_auth"  BY <1>4, Zenon DEF FamilyOf
<1> QED  BY <1>2, <1>3, <1>4

\* What an ISO command that failed leaves.
LEMMA IsoFailedIs ==
    ASSUME NEW h, NEW o, NEW a
    PROVE  IsoFailed(h, o, a) =
             IF a = "not_sent" /\ o.name = "iso_select" THEN o.saved
             ELSE IF Authenticated(o.saved) \/ o.saved.pending \/ a = "unknown"
               THEN Invalidate(h) ELSE h
<1>1. CASE a = "not_sent" /\ o.name = "iso_select"  BY <1>1, Zenon DEF IsoFailed
<1>2. CASE /\ a # "not_sent" \/ o.name # "iso_select"
           /\ Authenticated(o.saved) \/ o.saved.pending \/ a = "unknown"
  BY <1>2, Zenon DEF IsoFailed
<1>3. CASE /\ a # "not_sent" \/ o.name # "iso_select"
           /\ ~(Authenticated(o.saved) \/ o.saved.pending \/ a = "unknown")
  BY <1>3, Zenon DEF IsoFailed
<1> QED  BY <1>1, <1>2, <1>3

\* What an ISO command leaves and returns.
LEMMA IsoResultIs ==
    ASSUME NEW h, NEW o, NEW a
    PROVE  IsoResult(h, o, a) =
             IF a \in {"not_sent", "unknown"} \/ (a = "rejected" /\ HasIsoSession(h))
               THEN Outcome(IsoFailed(h, o, a), a)
             ELSE IF Replaced(h) THEN Outcome(Invalidate(h), "unknown")
             ELSE IF o.name = "iso_select"
               THEN Outcome(IF a = "succeeded" THEN IsoSelected(h) ELSE o.saved, a)
             ELSE Outcome(h, a)
<1> DEFINE failed == \/ a \in {"not_sent", "unknown"}
                     \/ a = "rejected" /\ HasIsoSession(h)
<1>1. CASE failed  BY <1>1, Zenon DEF IsoResult
<1>2. CASE ~failed /\ Replaced(h)  BY <1>2, Zenon DEF IsoResult
<1>3. CASE ~failed /\ ~Replaced(h) /\ o.name = "iso_select"
  BY <1>3, Zenon DEF IsoResult
<1>4. CASE ~failed /\ ~Replaced(h) /\ o.name # "iso_select"
  BY <1>4, Zenon DEF IsoResult
<1> QED  BY <1>1, <1>2, <1>3, <1>4

\* What a command does to the card.
LEMMA ExecutedIs ==
    ASSUME NEW c, NEW command
    PROVE  LET d == IF command.drops THEN Unauthenticated(c) ELSE c IN
           Executed(c, command) =
             IF command.effect = "stage"
               THEN [d EXCEPT !.staged = @ + 1, !.planned = Len(op.plan)]
             ELSE IF command.effect = "commit"
               THEN [d EXCEPT !.torn = @ \/ d.staged \notin {0, d.planned}, !.staged = 0]
             ELSE IF command.effect = "abort" THEN [d EXCEPT !.staged = 0]
             ELSE d
<1>0. "stage" # "commit" /\ "stage" # "abort" /\ "commit" # "abort"  OBVIOUS
<1>1. CASE command.effect = "stage"  BY <1>0, <1>1, Zenon DEF Executed
<1>2. CASE command.effect = "commit"  BY <1>0, <1>2, Zenon DEF Executed
<1>3. CASE command.effect = "abort"  BY <1>0, <1>3, Zenon DEF Executed
<1>4. CASE command.effect \notin {"stage", "commit", "abort"}
  <2>1. command.effect # "stage" /\ command.effect # "commit" /\ command.effect # "abort"
    BY <1>4
  <2> QED  BY <2>1, Zenon DEF Executed
<1> QED  BY <1>1, <1>2, <1>3, <1>4

\* A return leaves everything with its type.
LEMMA ReturnTypes ==
    ASSUME TypeOK, NEW o \in OpType, NEW h \in HostType, NEW x \in Answers,
           Return(o, h, x)
    PROVE  TypeOK'
<1>1. NoOp \in OpType  BY NoOpType
<1>2. Len(o.plan) \in Nat
  BY ConstantsAssumption DEF OpType
<1>3. last' \in ResultType
  BY <1>2 DEF Return, ResultType, OpType
<1> QED  BY <1>1, <1>3 DEF Return, TypeOK, fieldVars

\* So does the admission of an operation.
LEMMA AdmitTypes ==
    ASSUME TypeOK, NEW o \in OpType, NEW h \in HostType, Admit(o, h)
    PROVE  TypeOK'
<1>1. [o EXCEPT !.phase = "admitted"] \in OpType  BY DEF OpType, Phases
<1>2. NoResult \in ResultType  BY DEF NoResult, ResultType, Names, Answers
<1> QED  BY <1>1, <1>2 DEF Admit, TypeOK, fieldVars

\* And the checks of execute_locked(), whatever they find.
LEMMA ExecuteEndsTypes ==
    ASSUME TypeOK, NEW o \in OpType, NEW h \in HostType, NEW x \in Answers,
           ExecuteEnds(o, h, x)
    PROVE  TypeOK'
<1>1. [o EXCEPT !.phase = "returned", !.answer = x] \in OpType
  BY DEF OpType, Phases
<1>2. NoResult \in ResultType  BY DEF NoResult, ResultType, Names, Answers
<1>3. CASE o.name # "transaction"  BY <1>3, ReturnTypes DEF ExecuteEnds
<1>4. CASE o.name = "transaction"
  BY <1>1, <1>2, <1>4 DEF ExecuteEnds, TypeOK, fieldVars
<1> QED  BY <1>3, <1>4

\* execute_locked() keeps the types, whether it refuses or admits.
LEMMA ExecuteLockedTypes ==
    ASSUME TypeOK, NEW o \in OpType, ExecuteLocked(o)
    PROVE  TypeOK'
<1>1. host \in HostType  BY DEF TypeOK
<1>2. Invalidate(host) \in HostType  BY <1>1, HostTypes
<1>3. "not_sent" \in Answers  BY DEF Answers
<1>4. CASE ExecuteEnds(o, host, "not_sent")  BY <1>1, <1>3, <1>4, ExecuteEndsTypes
<1>5. CASE ExecuteEnds(o, Invalidate(host), "not_sent")
  BY <1>2, <1>3, <1>5, ExecuteEndsTypes
<1>6. ASSUME Admit([o EXCEPT !.session = SessionOf(host), !.begun = NoCard,
                             !.reply = "none", !.answer = "none"], host)
      PROVE  TypeOK'
  <2> DEFINE p == [o EXCEPT !.session = SessionOf(host), !.begun = NoCard,
                            !.reply = "none", !.answer = "none"]
  <2>1. SessionOf(host) \in SessionType  BY <1>1, SessionTypes
  <2>2. p \in OpType  BY <2>1 DEF OpType, Replies, Answers
  <2> QED  BY <1>1, <1>6, <2>2, AdmitTypes
<1> QED  BY <1>4, <1>5, <1>6 DEF ExecuteLocked

\* What the results of the commands leave has its type.
LEMMA ResultTypes ==
    ASSUME NEW h \in HostType, NEW a \in Answers, TypeOK
    PROVE  /\ PlainResult(h, a).host \in HostType
           /\ PlainResult(h, a).outcome \in Answers
           /\ \A command :
                /\ ExecuteResult(h, command, a).host \in HostType
                /\ ExecuteResult(h, command, a).outcome \in Answers
           /\ CommitResult(h, a).host \in HostType
           /\ CommitResult(h, a).outcome \in Answers
           /\ \A o : StageResult(h, o, a).host \in HostType /\ StageResult(h, o, a).outcome \in Answers
<1>1. /\ Invalidate(h) \in HostType
      /\ SessionEnded(h) \in HostType
      /\ "unknown" \in Answers
  BY HostTypes DEF Answers
<1>2. PlainResult(h, a).host \in HostType /\ PlainResult(h, a).outcome \in Answers
  BY <1>1 DEF PlainResult, Outcome
<1>3. ASSUME NEW command
      PROVE  /\ ExecuteResult(h, command, a).host \in HostType
             /\ ExecuteResult(h, command, a).outcome \in Answers
  <2>1. CASE a # "succeeded"
    <3>1. ExecuteResult(h, command, a) = Outcome(ExecuteFailed(h, a), a)
      BY <2>1, Zenon DEF ExecuteResult
    <3> QED  BY <1>1, <3>1 DEF ExecuteFailed, Outcome
  <2>2. CASE a = "succeeded" /\ Replaced(h)
    <3>1. ExecuteResult(h, command, a) = Outcome(Invalidate(h), "unknown")
      BY <2>2, Zenon DEF ExecuteResult
    <3> QED  BY <1>1, <3>1 DEF Outcome
  <2>3. CASE a = "succeeded" /\ ~Replaced(h)
    <3>1. ExecuteResult(h, command, a) =
            Outcome(IF command.drops THEN SessionEnded(h) ELSE h, a)
      BY <2>3, Zenon DEF ExecuteResult
    <3> QED  BY <1>1, <3>1 DEF Outcome
  <2> QED  BY <2>1, <2>2, <2>3
<1>4. CommitResult(h, a).host \in HostType /\ CommitResult(h, a).outcome \in Answers
  BY <1>1 DEF CommitResult, Outcome
<1>5. \A o : StageResult(h, o, a).host \in HostType /\ StageResult(h, o, a).outcome \in Answers
  BY <1>1 DEF StageResult, Outcome
<1> QED  BY <1>2, <1>3, <1>4, <1>5

\* The results that depend on the operation.
LEMMA OpResultTypes ==
    ASSUME TypeOK, NEW a \in Answers
    PROVE  /\ SelectResult(PlainResult(host, a), op.saved, op.target).host \in HostType
           /\ SelectResult(PlainResult(host, a), op.saved, op.target).outcome \in Answers
           /\ op.name \in Handshakes =>
                /\ AuthenticateResult(host, op, a).host \in HostType
                /\ AuthenticateResult(host, op, a).outcome \in Answers
           /\ IsoResult(host, op, a).host \in HostType
           /\ IsoResult(host, op, a).outcome \in Answers
<1>1. host \in HostType /\ op.saved \in HostType /\ op.target \in Applications
  BY DEF TypeOK, OpType
<1>2. /\ Invalidate(host) \in HostType /\ IsoSelected(host) \in HostType
      /\ "unknown" \in Answers /\ "succeeded" \in Answers
  BY <1>1, HostTypes DEF Answers
<1>3. /\ SelectResult(PlainResult(host, a), op.saved, op.target).host \in HostType
      /\ SelectResult(PlainResult(host, a), op.saved, op.target).outcome \in Answers
  <2> DEFINE r == PlainResult(host, a)
  <2>1. r.host \in HostType /\ r.outcome \in Answers  BY <1>1, ResultTypes
  <2>2. /\ Invalidate(r.host) \in HostType
        /\ [r.host EXCEPT !.selected = op.target] \in HostType
        /\ [r.host EXCEPT !.pending = TRUE] \in HostType
    BY <1>1, <2>1, HostTypes
  <2> HIDE DEF r
  <2>3. /\ SelectResult(r, op.saved, op.target).host \in HostType
        /\ SelectResult(r, op.saved, op.target).outcome \in Answers
    BY <1>2, <2>1, <2>2, SelectResultIs DEF Outcome
  <2> QED  BY <2>3 DEF r
<1>4. ASSUME op.name \in Handshakes
      PROVE  /\ AuthenticateResult(host, op, a).host \in HostType
             /\ AuthenticateResult(host, op, a).outcome \in Answers
  <2>1. FamilyOf(op.name) \in Families
    BY <1>4, FamilyOfIs DEF Handshakes, Families
  <2>2. op.session.id \in 0..MaxAuthentications /\ 0 \in 0..MaxAuthentications
    BY ConstantsAssumption DEF TypeOK, OpType, SessionType
  <2>3. Established(host, FamilyOf(op.name), op.session.id)
          \in [Families -> 0..MaxAuthentications]
    BY <1>1, <2>1, <2>2 DEF Established, HostType, Families
  <2>4. [host EXCEPT !.sessions = Established(host, FamilyOf(op.name), op.session.id),
                     !.key = op.key, !.pending = FALSE] \in HostType
    BY <1>1, <2>3 DEF HostType, TypeOK, OpType
  <2>5. AuthenticateFailed(host, op.saved, a) \in HostType
    BY <1>1, <1>2 DEF AuthenticateFailed
  <2> QED  BY <1>2, <2>4, <2>5, AuthenticateResultIs DEF Outcome
<1>5. IsoResult(host, op, a).host \in HostType /\ IsoResult(host, op, a).outcome \in Answers
  <2>1. IsoFailed(host, op, a) \in HostType  BY <1>1, <1>2, IsoFailedIs
  <2> QED  BY <1>1, <1>2, <2>1, IsoResultIs DEF Outcome
<1> QED  BY <1>3, <1>4, <1>5

\* What a transaction does to a card leaves it a card.
LEMMA StagedTypes ==
    ASSUME NEW d \in CardType, NEW n \in Nat
    PROVE  /\ [d EXCEPT !.staged = @ + 1, !.planned = n] \in CardType
           /\ [d EXCEPT !.torn = @ \/ d.staged \notin {0, d.planned}, !.staged = 0] \in CardType
           /\ [d EXCEPT !.staged = 0] \in CardType
<1>1. d.staged + 1 \in Nat  BY DEF CardType
<1>2. [d EXCEPT !.staged = @ + 1, !.planned = n] \in CardType
  BY <1>1 DEF CardType
<1>3. [d EXCEPT !.torn = @ \/ d.staged \notin {0, d.planned}, !.staged = 0] \in CardType
  BY DEF CardType
<1>4. [d EXCEPT !.staged = 0] \in CardType
  BY DEF CardType
<1> QED  BY <1>2, <1>3, <1>4

\* What the card becomes has its type.
LEMMA CardTypes ==
    ASSUME TypeOK
    PROVE  /\ FreshCard \in CardType
           /\ Unauthenticated(card) \in CardType
           /\ Executed(card, op.command) \in CardType
           /\ [Unauthenticated(card) EXCEPT !.challenged = TRUE] \in CardType
           /\ \A a \in Applications :
                [Unauthenticated(card) EXCEPT !.selected = a, !.staged = 0] \in CardType
<1>1. card \in CardType /\ Len(op.plan) \in Nat
  BY ConstantsAssumption DEF TypeOK, OpType
<1>2. Unauthenticated(card) \in CardType
  BY <1>1, StartTypes DEF Unauthenticated, CardType
<1>3. Executed(card, op.command) \in CardType
  <2> DEFINE d == IF op.command.drops THEN Unauthenticated(card) ELSE card
  <2>1. d \in CardType  BY <1>1, <1>2
  <2>2. \/ Executed(card, op.command) =
             [d EXCEPT !.staged = @ + 1, !.planned = Len(op.plan)]
        \/ Executed(card, op.command) =
             [d EXCEPT !.torn = @ \/ d.staged \notin {0, d.planned}, !.staged = 0]
        \/ Executed(card, op.command) = [d EXCEPT !.staged = 0]
        \/ Executed(card, op.command) = d
    BY ExecutedIs, Zenon
  <2> HIDE DEF d
  <2> QED  BY <1>1, <2>1, <2>2, StagedTypes, Zenon
<1>4. /\ [Unauthenticated(card) EXCEPT !.challenged = TRUE] \in CardType
      /\ \A a \in Applications :
           [Unauthenticated(card) EXCEPT !.selected = a, !.staged = 0] \in CardType
  BY <1>2 DEF CardType
<1> QED  BY <1>2, <1>3, <1>4, StartTypes

\* A frame heard leaves everything with its type.
LEMMA HearsTypes ==
    ASSUME TypeOK, NEW c \in CardType, NEW reply \in Replies, Hears(c, reply),
           handshakes' \in 0..MaxAuthentications
    PROVE  TypeOK'
<1>1. [op EXCEPT !.phase = "heard", !.reply = reply, !.cards = @ \cup {generation}] \in OpType
  BY DEF TypeOK, OpType, Phases
<1> QED  BY <1>1 DEF Hears, TypeOK

\* The changes an operation goes through leave it one.
LEMMA OpTypes ==
    ASSUME NEW o \in OpType
    PROVE  /\ \A a \in Applications : [o EXCEPT !.target = a] \in OpType
           /\ \A c \in Commands : [o EXCEPT !.command = c] \in OpType
           /\ \A k \in Keys \cup {NoKey} : [o EXCEPT !.key = k] \in OpType
           /\ \A s \in SessionType : [o EXCEPT !.session = s] \in OpType
           /\ \A plan \in Plans : [o EXCEPT !.plan = plan] \in OpType
           /\ \A phase \in Phases : [o EXCEPT !.phase = phase] \in OpType
           /\ \A phase \in Phases, i \in Nat :
                /\ [o EXCEPT !.phase = phase, !.index = i] \in OpType
                /\ [o EXCEPT !.index = i, !.phase = phase] \in OpType
           /\ \A f \in Files :
                [o EXCEPT !.phase = "planning", !.settled = @ \cup {f}] \in OpType
           /\ \A part \in {"query", "stage", "commit"},
                 c \in {GetFileSettings, Mutation, CommitTransaction} :
                [o EXCEPT !.part = part, !.command = c] \in OpType
<1>1. /\ \A a \in Applications : [o EXCEPT !.target = a] \in OpType
      /\ \A c \in Commands : [o EXCEPT !.command = c] \in OpType
      /\ \A k \in Keys \cup {NoKey} : [o EXCEPT !.key = k] \in OpType
      /\ \A s \in SessionType : [o EXCEPT !.session = s] \in OpType
      /\ \A plan \in Plans : [o EXCEPT !.plan = plan] \in OpType
      /\ \A phase \in Phases : [o EXCEPT !.phase = phase] \in OpType
  BY DEF OpType
<1>2. \A phase \in Phases, i \in Nat :
        /\ [o EXCEPT !.phase = phase, !.index = i] \in OpType
        /\ [o EXCEPT !.index = i, !.phase = phase] \in OpType
  BY DEF OpType
<1>3. \A f \in Files :
        [o EXCEPT !.phase = "planning", !.settled = @ \cup {f}] \in OpType
  BY DEF OpType, Phases
<1>4. \A part \in {"query", "stage", "commit"},
        c \in {GetFileSettings, Mutation, CommitTransaction} :
        [o EXCEPT !.part = part, !.command = c] \in OpType
  BY DEF OpType, GetFileSettings
<1> QED  BY <1>1, <1>2, <1>3, <1>4

\* The calls leave everything with its type.
LEMMA CallTypes ==
    ASSUME TypeOK, Calls
    PROVE  TypeOK'
<1>1. /\ host \in HostType
      /\ Invalidate(host) \in HostType
      /\ WithoutAuthentication(host) \in HostType
      /\ Invalidate(WithoutAuthentication(host)) \in HostType
      /\ ResetAuthenticated(host) \in HostType
      /\ \A name : SetAside(name, host) \in HostType
      /\ "not_sent" \in Answers /\ "succeeded" \in Answers
  BY HostTypes DEF TypeOK, Answers
<1>2. \A name \in Names : NewOp(name) \in OpType  BY NewOpTypes
<1>3. CASE CallPlain
  <2>1. NewOp("plain") \in OpType  BY <1>2 DEF Names
  <2> QED  BY <1>1, <1>3, <2>1, ReturnTypes, AdmitTypes DEF CallPlain
<1>4. CASE CallPlainProtected
  <2>1. NewOp("execute") \in OpType  BY <1>2 DEF Names
  <2> QED  BY <1>4, <2>1, ExecuteLockedTypes DEF CallPlainProtected
<1>5. CASE CallDfNames
  <2>1. NewOp("df_names") \in OpType  BY <1>2 DEF Names
  <2> QED  BY <1>1, <1>5, <2>1, ReturnTypes, AdmitTypes DEF CallDfNames
<1>6. ASSUME NEW a \in Applications, CallSelect(a) PROVE TypeOK'
  <2> DEFINE o == [NewOp("select") EXCEPT !.target = a]
             R(g) == SelectResult(Outcome(g, "not_sent"), host, a)
  <2>1. o \in OpType
    <3>1. NewOp("select") \in OpType  BY <1>2 DEF Names
    <3> QED  BY <3>1, OpTypes
  <2>2. \A g \in HostType : R(g).host \in HostType /\ R(g).outcome \in Answers
    <3>1. TAKE g \in HostType
    <3>2. /\ Invalidate(g) \in HostType
          /\ [g EXCEPT !.pending = TRUE] \in HostType
      BY HostTypes
    <3>3. "not_sent" # "succeeded" /\ "not_sent" # "unknown"  OBVIOUS
    <3> QED  BY <1>1, <3>2, <3>3, SelectResultIs DEF Outcome
  <2> HIDE DEF o
  <2>3. /\ R(WithoutAuthentication(host)).host \in HostType
        /\ R(WithoutAuthentication(host)).outcome \in Answers
        /\ R(Invalidate(WithoutAuthentication(host))).host \in HostType
        /\ R(Invalidate(WithoutAuthentication(host))).outcome \in Answers
    BY <1>1, <2>2
  <2> HIDE DEF R
  <2>4. \/ Return(o, host, "not_sent")
        \/ \E g \in HostType : Return(o, R(g).host, R(g).outcome)
        \/ Admit(o, WithoutAuthentication(host))
    BY <1>1, <1>6, Zenon DEF CallSelect, o, R
  <2> QED  BY <1>1, <2>1, <2>2, <2>4, ReturnTypes, AdmitTypes
<1>7. ASSUME NEW c \in Commands, CallExecute(c) PROVE TypeOK'
  <2>1. [NewOp("execute") EXCEPT !.command = c] \in OpType
    <3>1. NewOp("execute") \in OpType  BY <1>2 DEF Names
    <3> QED  BY <3>1, OpTypes
  <2>2. CASE Return([NewOp("execute") EXCEPT !.command = c], host, "not_sent")
    <3> HIDE DEF NewOp
    <3> QED  BY <1>1, <2>1, <2>2, ReturnTypes
  <2> QED  BY <1>7, <2>1, <2>2, ExecuteLockedTypes DEF CallExecute
<1>8. ASSUME NEW name \in Handshakes, NEW k \in Keys, CallAuthenticate(name, k)
      PROVE  TypeOK'
  <2> DEFINE o == [NewOp(name) EXCEPT !.key = IF name = "iso_auth" THEN NoKey ELSE k]
  <2>1. o \in OpType
    <3>1. NewOp(name) \in OpType  BY <1>2 DEF Names, Handshakes
    <3> QED  BY <3>1, OpTypes
  <2> HIDE DEF o
  <2>2. \/ Return(o, host, "not_sent")
        \/ Return(o, Invalidate(host), "not_sent")
        \/ Admit(o, SetAside(name, host))
    BY <1>8, Zenon DEF CallAuthenticate, o
  <2> QED  BY <1>1, <2>1, <2>2, ReturnTypes, AdmitTypes
<1>9. ASSUME NEW name \in {"iso_select", "iso_data"}, CallIso(name) PROVE TypeOK'
  <2> DEFINE o == [NewOp(name) EXCEPT !.session = SessionOf(host)]
  <2>1. o \in OpType
    <3>1. NewOp(name) \in OpType  BY <1>2 DEF Names
    <3>2. SessionOf(host) \in SessionType  BY <1>1, SessionTypes
    <3> QED  BY <3>1, <3>2, OpTypes
  <2> HIDE DEF o
  <2>2. \/ Return(o, host, "not_sent")
        \/ Return(o, Invalidate(host), "not_sent")
        \/ Admit(o, WithoutAuthentication(host))
        \/ Admit(o, host)
    BY <1>9, Zenon DEF CallIso, o
  <2> QED  BY <1>1, <2>1, <2>2, ReturnTypes, AdmitTypes
<1>10. ASSUME NEW plan \in Plans, CallTransaction(plan) PROVE TypeOK'
  <2> DEFINE o == [NewOp("transaction") EXCEPT !.plan = plan]
  <2>1. o \in OpType
    <3>1. NewOp("transaction") \in OpType  BY <1>2 DEF Names
    <3> QED  BY <3>1, OpTypes
  <2>2. [o EXCEPT !.phase = "planning"] \in OpType  BY <2>1, OpTypes DEF Phases
  <2>3. NoResult \in ResultType  BY DEF NoResult, ResultType, Names, Answers
  <2> HIDE DEF o
  <2>4. \/ Return(o, host, "not_sent")
        \/ /\ op' = [o EXCEPT !.phase = "planning"]
           /\ last' = NoResult
           /\ UNCHANGED <<host, generation, card, handshakes>>
    BY <1>10, Zenon DEF CallTransaction, o
  <2> QED  BY <1>1, <2>1, <2>2, <2>3, <2>4, ReturnTypes DEF TypeOK
<1>11. CASE CallResetAuthentication
  <2>1. NewOp("reset_authentication") \in OpType  BY <1>2 DEF Names
  <2> QED  BY <1>1, <1>11, <2>1, ReturnTypes DEF CallResetAuthentication
<1>12. CASE CallReset
  <2>1. NewOp("reset") \in OpType  BY <1>2 DEF Names
  <2>2. [NewOp("reset") EXCEPT !.phase = "resetting"] \in OpType
    BY <2>1, OpTypes DEF Phases
  <2>3. NoResult \in ResultType  BY DEF NoResult, ResultType, Names, Answers
  <2> QED  BY <1>1, <1>12, <2>2, <2>3 DEF CallReset, TypeOK, fieldVars
<1> QED
  BY <1>3, <1>4, <1>5, <1>6, <1>7, <1>8, <1>9, <1>10, <1>11, <1>12 DEF Calls

\* So do the returns.
LEMMA ReturnsTypes ==
    ASSUME TypeOK, Returns
    PROVE  TypeOK'
<1>1. /\ host \in HostType /\ op \in OpType /\ op.answer \in Answers
      /\ Invalidate(host) \in HostType
      /\ "unknown" \in Answers /\ "succeeded" \in Answers
  BY HostTypes DEF TypeOK, OpType, Answers
<1>2. CASE PlainReturns
  BY <1>1, <1>2, ResultTypes, ReturnTypes DEF PlainReturns
<1>3. CASE DfNamesReturns
  BY <1>1, <1>3, ReturnTypes DEF DfNamesReturns
<1>4. CASE SelectReturns
  BY <1>1, <1>4, OpResultTypes, ReturnTypes DEF SelectReturns
<1>5. CASE ExecuteReturns
  BY <1>1, <1>5, ResultTypes, ExecuteEndsTypes DEF ExecuteReturns
<1>6. CASE AuthenticateReturns
  BY <1>1, <1>6, OpResultTypes, ReturnTypes DEF AuthenticateReturns
<1>7. CASE IsoReturns
  BY <1>1, <1>7, OpResultTypes, ReturnTypes DEF IsoReturns
<1>8. CASE ResetReturns
  <2>1. Rebound(host) \in HostType
    BY ConstantsAssumption DEF TypeOK, HostType, Rebound
  <2>2. "succeeded" \in Answers /\ {"not_sent", "rejected", "unknown"} \subseteq Answers
    BY DEF Answers
  <2> QED  BY <1>1, <1>8, <2>1, <2>2, ReturnTypes DEF ResetReturns
<1> QED
  BY <1>2, <1>3, <1>4, <1>5, <1>6, <1>7, <1>8 DEF Returns

\* So do the steps of a plan.
LEMMA TransactionTypes ==
    ASSUME TypeOK, PlanInv, Transaction
    PROVE  TypeOK'
<1>1. /\ host \in HostType /\ op \in OpType /\ op.answer \in Answers
      /\ "not_sent" \in Answers
  BY DEF TypeOK, OpType, Answers
<1>2. \A phase \in {"planning", "staging"} : Advance(phase) => TypeOK'
  <2> SUFFICES ASSUME NEW phase \in {"planning", "staging"}, Advance(phase)
               PROVE  TypeOK'
    OBVIOUS
  <2>1. op' \in OpType
    <3>1. op.index + 1 \in Nat /\ 1 \in Nat  BY <1>1 DEF OpType
    <3>2. /\ phase \in Phases
          /\ (IF phase = "planning" THEN "staging" ELSE "committing") \in Phases
      BY DEF Phases
    <3> QED  BY <1>1, <3>1, <3>2, OpTypes DEF Advance
  <2> QED  BY <2>1 DEF Advance, TypeOK
<1>3. ASSUME NEW part \in {"query", "stage", "commit"},
             NEW c \in {GetFileSettings, Mutation, CommitTransaction},
             ExecuteLocked([op EXCEPT !.part = part, !.command = c])
      PROVE  TypeOK'
  <2>1. [op EXCEPT !.part = part, !.command = c] \in OpType
    BY <1>1, OpTypes
  <2> QED  BY <1>3, <2>1, ExecuteLockedTypes
<1>4. CASE QuerySettings
  BY <1>1, <1>3, <1>4, ReturnTypes DEF QuerySettings
<1>5. CASE SettingsReturned
  <2>1. CASE Return(op, host, op.answer)  BY <1>1, <2>1, ReturnTypes
  <2>2. ASSUME op' = [op EXCEPT !.phase = "planning",
                                !.settled = @ \cup {op.plan[op.index]}],
               UNCHANGED <<host, last, generation, card, handshakes>>
        PROVE  TypeOK'
    <3>1. op.plan \in Seq(Files) /\ op.index \in 1..Len(op.plan)
      BY <1>5, ConstantsAssumption DEF SettingsReturned, PlanInv, PlanPhases, Idle
    <3>2. op.plan[op.index] \in Files  BY <3>1
    <3>3. op' \in OpType  BY <1>1, <2>2, <3>2, OpTypes
    <3> QED  BY <2>2, <3>3 DEF TypeOK
  <2> QED  BY <1>5, <2>1, <2>2 DEF SettingsReturned
<1>6. CASE CheckMutation
  BY <1>1, <1>2, <1>6, ReturnTypes DEF CheckMutation
<1>7. CASE StageMutation
  BY <1>1, <1>3, <1>7, ResultTypes, ReturnTypes DEF StageMutation
<1>8. CASE MutationReturned
  BY <1>1, <1>2, <1>8, ResultTypes, ReturnTypes DEF MutationReturned
<1>9. CASE Commit
  BY <1>1, <1>3, <1>9, ResultTypes, ReturnTypes DEF Commit
<1>10. CASE CommitReturned
  BY <1>1, <1>10, ResultTypes, ReturnTypes DEF CommitReturned
<1> QED
  BY <1>4, <1>5, <1>6, <1>7, <1>8, <1>9, <1>10 DEF Transaction

\* The steps of the channel leave everything with its type.
LEMMA ChannelTypes ==
    ASSUME TypeOK, Channel
    PROVE  TypeOK'
<1>1. op \in OpType /\ generation \in 0..MaxGeneration \cup {NoCard}
  BY DEF TypeOK
<1>2. CASE ChannelBegins
  <2>1. [op EXCEPT !.phase = "begun", !.begun = generation] \in OpType
    BY <1>1 DEF OpType, Phases
  <2> QED  BY <1>2, <2>1 DEF ChannelBegins, TypeOK
<1>3. CASE ChallengeArrives
  <2>1. [op EXCEPT !.phase = "begun", !.proven = TRUE, !.reply = "none"] \in OpType
    BY <1>1 DEF OpType, Phases, Replies
  <2> QED  BY <1>3, <2>1 DEF ChallengeArrives, TypeOK
<1>4. CASE ChannelReturns
  <2>1. \A a \in Answers : [op EXCEPT !.phase = "answered", !.answer = a] \in OpType
    BY <1>1 DEF OpType, Phases
  <2>2. \A a \in Answers, s \in SessionType :
          [op EXCEPT !.phase = "answered", !.answer = a, !.session = s] \in OpType
    BY <1>1 DEF OpType, Phases
  <2>3. op.session \in SessionType /\ card.session \in SessionType
    BY DEF TypeOK, OpType, CardType
  <2>4. op.reply \in {"succeeded", "rejected"} => op.reply \in Answers
    BY DEF Answers
  <2>5. "not_sent" \in Answers /\ "unknown" \in Answers  BY DEF Answers
  <2> DEFINE s == IF op.name \in Handshakes THEN card.session ELSE op.session
  <2>6. s \in SessionType  BY <2>3
  <2>7. \/ /\ op.reply \in {"succeeded", "rejected"}
           /\ op' = [op EXCEPT !.phase = "answered", !.answer = op.reply, !.session = s]
        \/ op' = [op EXCEPT !.phase = "answered", !.answer = "not_sent"]
        \/ op' = [op EXCEPT !.phase = "answered", !.answer = "unknown"]
    BY <1>4, Zenon DEF ChannelReturns
  <2> HIDE DEF s
  <2>8. op' \in OpType  BY <2>1, <2>2, <2>4, <2>5, <2>6, <2>7
  <2> QED  BY <1>4, <2>8 DEF ChannelReturns, TypeOK
<1> QED  BY <1>2, <1>3, <1>4 DEF Channel

\* So do the steps of the card field.
LEMMA FieldTypes ==
    ASSUME TypeOK, Field
    PROVE  TypeOK'
<1>1. /\ op \in OpType /\ card \in CardType /\ handshakes \in 0..MaxAuthentications
      /\ MaxGeneration \in Nat /\ MaxAuthentications \in Nat
      /\ {"succeeded", "rejected", "challenge"} \subseteq Replies
  BY ConstantsAssumption DEF TypeOK, Replies
<1>2. CASE CardSelects
  BY <1>1, <1>2, CardTypes, HearsTypes DEF CardSelects
<1>3. CASE CardExecutes
  <2>1. CASE Hears(Unauthenticated(card), "rejected")
    BY <1>1, <1>3, <2>1, CardTypes, HearsTypes DEF CardExecutes
  <2>2. CASE ~Hears(Unauthenticated(card), "rejected")
    <3>1. \A n \in Nat : [op EXCEPT !.phase = "heard", !.reply = "succeeded",
                                    !.cards = @ \cup {generation}, !.applied = n] \in OpType
      BY <1>1 DEF OpType, Phases, Replies, TypeOK
    <3>2. (IF op.command.effect = "commit" THEN card.staged ELSE op.applied) \in Nat
      BY <1>1 DEF OpType, CardType
    <3>3. op' \in OpType  BY <1>3, <2>2, <3>1, <3>2 DEF CardExecutes
    <3>4. card' \in CardType  BY <1>3, <2>2, CardTypes DEF CardExecutes
    <3> QED  BY <1>3, <2>2, <3>3, <3>4 DEF CardExecutes, TypeOK
  <2> QED  BY <2>1, <2>2
<1>4. CASE CardChallenges
  BY <1>1, <1>4, CardTypes, HearsTypes DEF CardChallenges
<1>5. CASE CardProves
  <2>1. CASE Hears(Unauthenticated(card), "rejected") /\ UNCHANGED handshakes
    BY <1>1, <2>1, CardTypes, HearsTypes
  <2>2. CASE ~(Hears(Unauthenticated(card), "rejected") /\ UNCHANGED handshakes)
    <3> DEFINE s == [family |-> FamilyOf(op.name), id |-> handshakes + 1]
               c == [card EXCEPT !.session = s, !.challenged = FALSE, !.key = op.key]
    <3>1. handshakes + 1 \in 0..MaxAuthentications /\ handshakes' = handshakes + 1
      BY <1>1, <1>5, <2>2 DEF CardProves
    <3>2. FamilyOf(op.name) \in Families
      BY <1>5, FamilyOfIs DEF CardProves, Handshakes, Families
    <3>3. s \in SessionType  BY <3>1, <3>2 DEF SessionType
    <3>4. Hears(c, "succeeded")  BY <1>5, <2>2, Zenon DEF CardProves
    <3> HIDE DEF s
    <3>5. c \in CardType  BY <1>1, <3>3 DEF CardType, OpType
    <3> HIDE DEF c
    <3> QED  BY <1>1, <3>1, <3>4, <3>5, HearsTypes
  <2> QED  BY <2>1, <2>2
<1>6. CASE CardChanges
  BY <1>1, <1>6, StartTypes DEF CardChanges, TypeOK
<1>7. CASE CardReset
  <2>1. [op EXCEPT !.phase = "repowered"] \in OpType  BY <1>1, OpTypes DEF Phases
  <2> QED  BY <1>1, <1>7, <2>1, StartTypes DEF CardReset, TypeOK
<1> QED
  BY <1>2, <1>3, <1>4, <1>5, <1>6, <1>7 DEF Field

\* The types hold at the start.
LEMMA InitTypes == Init => TypeOK
<1> SUFFICES ASSUME Init PROVE TypeOK
  OBVIOUS
<1>1. NoOp \in OpType
  BY StartTypes, ConstantsAssumption
  DEF Init, NoOp, NewOp, OpType, Names, Phases, Replies, Answers
<1>2. NoResult \in ResultType  BY DEF NoResult, ResultType, Names, Answers
<1> QED
  BY <1>1, <1>2, StartTypes, ConstantsAssumption DEF Init, TypeOK

-----------------------------------------------------------------------------
(***************************************************************************)
(* What the groups of actions do, in the terms the invariants are about.   *)
(***************************************************************************)
\* A call that returns at once: the card is as it was, and the Card is as it
\* was, unusable, or has forgotten its authentication locally.
ReturnsAtOnce ==
    /\ UNCHANGED fieldVars
    /\ op' = NoOp
    /\ host'.generation = host.generation
    /\ \/ host' = host
       \/ ~host'.usable
       \/ host' = ResetAuthenticated(host)
    /\ last'.outcome \in {"not_sent", "succeeded"}
    /\ ~last'.strayed /\ ~last'.changed /\ ~last'.leftover
    /\ last'.applied = 0
    /\ last'.name = "transaction" => last'.outcome = "not_sent"

\* A call that goes on: the operation starts here and has done nothing yet.
Starts ==
    /\ UNCHANGED fieldVars
    /\ op'.saved = host
    /\ op'.entered = [generation |-> generation, card |-> card]
    /\ op'.cards = {} /\ op'.applied = 0 /\ ~op'.proven /\ op'.reply = "none"

\* A call that is admitted to the channel: what was checked.
EntersChannel ==
    /\ Starts
    /\ host.usable /\ SameCard
    /\ op'.phase = "admitted"
    /\ op'.name \notin {"reset", "reset_authentication", "transaction"}
    /\ host' = RunsWith'
    /\ op'.name \in {"plain", "df_names"} =>
         ~Authenticated(host) /\ ~host.pending /\ op'.session = NoSession
    /\ op'.name = "execute" =>
         ~HasIsoSession(host) /\ ~host.pending /\ op'.session = SessionOf(host)
    /\ op'.name = "iso_data" =>
         ~HasNativeSession(host) /\ ~host.pending /\ op'.session = SessionOf(host)
    /\ op'.name # "execute" => op'.command = NoCommand
    /\ op'.name = "iso_auth" => op'.key = NoKey
    /\ op'.command.effect # "stage"

\* A transaction plan starts.
StartsPlan ==
    /\ Starts
    /\ op'.phase = "planning" /\ op'.name = "transaction"
    /\ op'.plan \in Plans /\ op'.index = 1
    /\ host' = host

\* reset() starts.
StartsReset ==
    /\ Starts
    /\ op'.phase = "resetting" /\ op'.name = "reset"
    /\ host' = Invalidate(host)

\* The fields of an operation that starts.
LEMMA NewOpFields ==
    ASSUME NEW name
    PROVE  LET o == NewOp(name) IN
           /\ o.name = name /\ o.command = NoCommand /\ o.session = NoSession
           /\ o.saved = host /\ o.cards = {} /\ o.applied = 0 /\ ~o.proven
           /\ o.reply = "none" /\ o.index = 1 /\ o.plan = <<>> /\ o.key = NoKey
           /\ o.entered = [generation |-> generation, card |-> card]
BY DEF NewOp

\* None is in progress.
LEMMA NoOpFields ==
    /\ NoOp.phase = "idle" /\ NoOp.name = "reset" /\ NoOp.cards = {}
BY DEF NoOp, NewOp

\* An operation that returns before it did anything.
LEMMA ReturnAtOnce ==
    ASSUME TypeOK, NEW o \in OpType, NEW h \in HostType, NEW x,
           Return(o, h, x), x \in {"not_sent", "succeeded"},
           o.name = "transaction" => x = "not_sent",
           o.saved = host, o.cards = {}, o.applied = 0,
           o.entered = [generation |-> generation, card |-> card],
           h.generation = host.generation,
           h = host \/ ~h.usable \/ h = ResetAuthenticated(host)
    PROVE  ReturnsAtOnce
<1>1. o.entered.generation = generation /\ o.entered.card = card
  OBVIOUS
<1>2. /\ last'.outcome = x /\ last'.name = o.name /\ last'.applied = o.applied
      /\ last'.strayed = (\E g \in o.cards : g # o.saved.generation)
      /\ last'.changed = (generation = o.entered.generation /\ card # o.entered.card)
      /\ last'.leftover = (card.staged #
           (IF generation = o.entered.generation THEN o.entered.card.staged ELSE 0))
  BY DEF Return
<1> QED  BY <1>1, <1>2 DEF Return, ReturnsAtOnce

\* What an operation knows when it starts.
Fresh(o) ==
    /\ o.saved = host /\ o.cards = {} /\ o.applied = 0 /\ ~o.proven
    /\ o.reply = "none"
    /\ o.entered = [generation |-> generation, card |-> card]

\* An operation that is admitted.
LEMMA AdmitAtOnce ==
    ASSUME TypeOK, NEW o \in OpType, NEW h, Admit(o, h), Fresh(o),
           host.usable, SameCard,
           o.name \notin {"reset", "reset_authentication", "transaction"},
           h = IF o.name \in {"select", "iso_select"} THEN WithoutAuthentication(host)
               ELSE IF o.name \in Handshakes THEN SetAside(o.name, host)
               ELSE host,
           o.name \in {"plain", "df_names"} =>
             ~Authenticated(host) /\ ~host.pending /\ o.session = NoSession,
           o.name = "execute" =>
             ~HasIsoSession(host) /\ ~host.pending /\ o.session = SessionOf(host),
           o.name = "iso_data" =>
             ~HasNativeSession(host) /\ ~host.pending /\ o.session = SessionOf(host),
           o.name # "execute" => o.command = NoCommand,
           o.name = "iso_auth" => o.key = NoKey,
           o.command.effect # "stage"
    PROVE  EntersChannel
<1>1. /\ op'.phase = "admitted" /\ op'.name = o.name /\ op'.command = o.command
      /\ op'.key = o.key /\ op'.session = o.session /\ op'.saved = o.saved
      /\ op'.cards = o.cards /\ op'.applied = o.applied /\ op'.proven = o.proven
      /\ op'.reply = o.reply /\ op'.entered = o.entered
  BY DEF Admit, OpType
<1>2. RunsWith' = h
  BY <1>1 DEF Fresh, RunsWith, WithoutAuthentication, SetAside, NoSessions
<1>3. Starts  BY <1>1 DEF Admit, Starts, Fresh
<1> QED  BY <1>1, <1>2, <1>3 DEF Admit, EntersChannel

\* Of the host states a call can leave.
LEMMA Generations ==
    ASSUME NEW h \in HostType
    PROVE  /\ Invalidate(h).generation = h.generation /\ ~Invalidate(h).usable
           /\ WithoutAuthentication(h).generation = h.generation
           /\ WithoutAuthentication(h).usable = h.usable
           /\ ResetAuthenticated(h).generation = h.generation
           /\ SessionEnded(h).generation = h.generation
           /\ IsoSelected(h).generation = h.generation
           /\ \A name : SetAside(name, h).generation = h.generation
BY DEF HostType, Invalidate, WithoutAuthentication, ResetAuthenticated, SetAside,
       SessionEnded, IsoSelected

\* execute() returns at once or is admitted.
LEMMA ExecuteStarts ==
    ASSUME TypeOK, NEW o \in OpType, Fresh(o), o.name = "execute",
           o.command.effect # "stage", ExecuteLocked(o)
    PROVE  ReturnsAtOnce \/ EntersChannel
<1>1. host \in HostType /\ Invalidate(host) \in HostType
  BY HostTypes DEF TypeOK
<1>2. CASE ExecuteEnds(o, host, "not_sent")
  BY <1>1, <1>2, ReturnAtOnce DEF ExecuteEnds, Fresh
<1>3. CASE ExecuteEnds(o, Invalidate(host), "not_sent")
  BY <1>1, <1>3, ReturnAtOnce, Generations DEF ExecuteEnds, Fresh
<1>4. ASSUME host.usable, ~host.pending, SameCard, Permits(host, o.command),
             Admit([o EXCEPT !.session = SessionOf(host), !.begun = NoCard,
                             !.reply = "none", !.answer = "none"], host)
      PROVE  EntersChannel
  <2> DEFINE p == [o EXCEPT !.session = SessionOf(host), !.begun = NoCard,
                            !.reply = "none", !.answer = "none"]
  <2>1. SessionOf(host) \in SessionType  BY <1>1, SessionTypes
  <2>2. p \in OpType  BY <2>1 DEF OpType, Replies, Answers
  <2>3. /\ Fresh(p) /\ p.name = "execute" /\ p.command = o.command
        /\ p.session = SessionOf(host)
    BY DEF Fresh, OpType
  <2>4. Admit(p, host)  BY <1>4
  <2> HIDE DEF p
  <2>5. ~HasIsoSession(host)  BY <1>4 DEF Permits
  <2>6. /\ p.name \notin {"select", "iso_select"} /\ p.name \notin Handshakes
        /\ p.name \notin {"reset", "reset_authentication", "transaction"}
        /\ p.name \notin {"plain", "df_names"}
        /\ p.name # "iso_data" /\ p.name # "iso_auth"
        /\ p.command.effect # "stage"
    BY <2>3 DEF Handshakes
  <2> QED  BY <1>4, <2>2, <2>3, <2>4, <2>5, <2>6, AdmitAtOnce
<1> QED  BY <1>2, <1>3, <1>4 DEF ExecuteLocked

\* A call returns at once, enters the channel, or starts a plan or a reset.
LEMMA CallCases ==
    ASSUME TypeOK, Calls
    PROVE  ReturnsAtOnce \/ EntersChannel \/ StartsPlan \/ StartsReset
<1> DEFINE G == ReturnsAtOnce \/ EntersChannel \/ StartsPlan \/ StartsReset
<1>1. /\ host \in HostType
      /\ Invalidate(host) \in HostType
      /\ WithoutAuthentication(host) \in HostType
      /\ Invalidate(WithoutAuthentication(host)) \in HostType
      /\ ResetAuthenticated(host) \in HostType
      /\ "not_sent" \in Answers /\ "succeeded" \in Answers
  BY HostTypes DEF TypeOK, Answers
<1>2. \A name \in Names : NewOp(name) \in OpType  BY NewOpTypes
<1>3. NoCommand.effect # "stage"  BY DEF NoCommand
<1>4. \A c \in Commands : c.effect # "stage"
  BY ConstantsAssumption DEF CommandType
<1>5. CASE CallPlain
  <2> DEFINE o == NewOp("plain")
  <2>1. o \in OpType  BY <1>2 DEF Names
  <2>2. /\ Fresh(o) /\ o.name = "plain" /\ o.command = NoCommand
        /\ o.session = NoSession
    BY NewOpFields DEF Fresh
  <2> HIDE DEF o
  <2>3. CASE Return(o, host, "not_sent") \/ Return(o, Invalidate(host), "not_sent")
    BY <1>1, <2>1, <2>2, <2>3, Generations, ReturnAtOnce DEF Fresh
  <2>4. CASE ~PlainRefuses(host) /\ SameCard /\ ~HasNativeSession(host) /\ Admit(o, host)
    BY <1>3, <2>1, <2>2, <2>4, AdmitAtOnce
    DEF PlainRefuses, Authenticated, Handshakes
  <2> QED  BY <1>5, <2>3, <2>4 DEF CallPlain, o
<1>6. CASE CallPlainProtected
  <2>1. NewOp("execute") \in OpType  BY <1>2 DEF Names
  <2>2. /\ Fresh(NewOp("execute")) /\ NewOp("execute").name = "execute"
        /\ NewOp("execute").command.effect # "stage"
    BY <1>3, NewOpFields DEF Fresh
  <2> QED  BY <1>6, <2>1, <2>2, ExecuteStarts DEF CallPlainProtected
<1>7. CASE CallDfNames
  <2> DEFINE o == NewOp("df_names")
  <2>1. o \in OpType  BY <1>2 DEF Names
  <2>2. /\ Fresh(o) /\ o.name = "df_names" /\ o.command = NoCommand
        /\ o.session = NoSession
    BY NewOpFields DEF Fresh
  <2> HIDE DEF o
  <2>3. CASE Return(o, host, "not_sent") \/ Return(o, Invalidate(host), "not_sent")
    BY <1>1, <2>1, <2>2, <2>3, Generations, ReturnAtOnce DEF Fresh
  <2>4. CASE ~PlainRefuses(host) /\ SameCard /\ ~HasNativeSession(host) /\ Admit(o, host)
    BY <1>3, <2>1, <2>2, <2>4, AdmitAtOnce
    DEF PlainRefuses, Authenticated, Handshakes
  <2> QED  BY <1>7, <2>3, <2>4 DEF CallDfNames, o
<1>8. ASSUME NEW a \in Applications, CallSelect(a) PROVE G
  <2> DEFINE o == [NewOp("select") EXCEPT !.target = a]
             h == WithoutAuthentication(host)
             R(g) == SelectResult(Outcome(g, "not_sent"), host, a)
  <2>1. NewOp("select") \in OpType  BY <1>2 DEF Names
  <2>2. o \in OpType  BY <2>1, OpTypes
  <2>3. Fresh(o) /\ o.name = "select" /\ o.command = NoCommand
    BY <2>1, NewOpFields DEF Fresh, OpType
  <2>4. ASSUME NEW g \in HostType, ~g.usable
        PROVE  /\ R(g).outcome = "not_sent" /\ R(g).host \in HostType
               /\ ~R(g).host.usable /\ R(g).host.generation = g.generation
    <3>1. "not_sent" # "succeeded" /\ "not_sent" # "unknown"  OBVIOUS
    <3>2. Outcome(g, "not_sent").host = g /\ Outcome(g, "not_sent").outcome = "not_sent"
      BY DEF Outcome
    <3>3. R(g) = Outcome(Invalidate(g), "not_sent") \/ R(g) = Outcome(g, "not_sent")
      BY <2>4, <3>1, <3>2, SelectResultIs
    <3>4. /\ Invalidate(g) \in HostType /\ ~Invalidate(g).usable
          /\ Invalidate(g).generation = g.generation
      BY HostTypes, Generations
    <3> QED  BY <2>4, <3>3, <3>4 DEF Outcome
  <2>5. ASSUME NEW g \in HostType, ~g.usable, g.generation = host.generation,
               Return(o, R(g).host, R(g).outcome)
        PROVE  ReturnsAtOnce
    <3> HIDE DEF o, R
    <3> QED  BY <2>2, <2>3, <2>4, <2>5, ReturnAtOnce DEF Fresh
  <2>6. /\ h \in HostType /\ h.generation = host.generation /\ h.usable = host.usable
        /\ Invalidate(h) \in HostType /\ ~Invalidate(h).usable
        /\ Invalidate(h).generation = host.generation
    BY <1>1, Generations
  <2>7. \/ Return(o, host, "not_sent")
        \/ ~host.usable /\ Return(o, R(h).host, R(h).outcome)
        \/ Return(o, R(Invalidate(h)).host, R(Invalidate(h)).outcome)
        \/ host.usable /\ SameCard /\ Admit(o, h)
    BY <1>8, Zenon DEF CallSelect
  <2> HIDE DEF o, R
  <2>8. CASE Return(o, host, "not_sent")
    BY <1>1, <2>2, <2>3, <2>8, ReturnAtOnce DEF Fresh
  <2>9. CASE host.usable /\ SameCard /\ Admit(o, h)
    BY <1>3, <2>2, <2>3, <2>9, AdmitAtOnce DEF Handshakes
  <2> QED  BY <2>5, <2>6, <2>7, <2>8, <2>9
<1>9. ASSUME NEW c \in Commands, CallExecute(c) PROVE G
  <2> DEFINE o == [NewOp("execute") EXCEPT !.command = c]
  <2>1. NewOp("execute") \in OpType  BY <1>2 DEF Names
  <2>2. o \in OpType  BY <2>1, OpTypes
  <2>3. Fresh(o) /\ o.name = "execute" /\ o.command = c
    BY <2>1, NewOpFields DEF Fresh, OpType
  <2> HIDE DEF o
  <2>4. CASE Return(o, host, "not_sent")
    BY <1>1, <2>2, <2>3, <2>4, ReturnAtOnce DEF Fresh
  <2>5. CASE ExecuteLocked(o)
    BY <1>4, <2>2, <2>3, <2>5, ExecuteStarts
  <2> QED  BY <1>9, <2>4, <2>5 DEF CallExecute, o
<1>10. ASSUME NEW name \in Handshakes, NEW k \in Keys, CallAuthenticate(name, k)
       PROVE  G
  <2> DEFINE o == [NewOp(name) EXCEPT !.key = IF name = "iso_auth" THEN NoKey ELSE k]
  <2>1. NewOp(name) \in OpType  BY <1>2 DEF Names, Handshakes
  <2>2. o \in OpType  BY <2>1, OpTypes
  <2>3. /\ Fresh(o) /\ o.name = name /\ o.command = NoCommand
        /\ o.name = "iso_auth" => o.key = NoKey
    BY <2>1, NewOpFields DEF Fresh, OpType
  <2> HIDE DEF o
  <2>4. \/ Return(o, host, "not_sent")
        \/ Return(o, Invalidate(host), "not_sent")
        \/ ~PreflightRefuses(name, host) /\ SameCard /\ Admit(o, SetAside(name, host))
    BY <1>10, Zenon DEF CallAuthenticate, o
  <2>5. CASE Return(o, host, "not_sent") \/ Return(o, Invalidate(host), "not_sent")
    <3>1. o.name # "transaction"  BY <2>3 DEF Handshakes
    <3> QED  BY <1>1, <2>2, <2>3, <2>5, <3>1, Generations, ReturnAtOnce DEF Fresh
  <2>6. CASE ~PreflightRefuses(name, host) /\ SameCard /\ Admit(o, SetAside(name, host))
    <3>1. /\ name \notin {"select", "iso_select", "plain", "df_names", "iso_data", "execute"}
          /\ name \notin {"reset", "reset_authentication", "transaction"}
      BY DEF Handshakes
    <3>2. host.usable  BY <2>6 DEF PreflightRefuses
    <3> QED  BY <1>3, <2>2, <2>3, <2>6, <3>1, <3>2, AdmitAtOnce
  <2> QED  BY <2>4, <2>5, <2>6
<1>11. ASSUME NEW name \in {"iso_select", "iso_data"}, CallIso(name) PROVE G
  <2> DEFINE o == [NewOp(name) EXCEPT !.session = SessionOf(host)]
             h == IF name = "iso_select" THEN WithoutAuthentication(host) ELSE host
  <2>1. NewOp(name) \in OpType  BY <1>2 DEF Names
  <2>2. SessionOf(host) \in SessionType  BY <1>1, SessionTypes
  <2>3. o \in OpType  BY <2>1, <2>2, OpTypes
  <2>4. Fresh(o) /\ o.name = name /\ o.command = NoCommand /\ o.session = SessionOf(host)
    BY <2>1, NewOpFields DEF Fresh, OpType
  <2> HIDE DEF o
  <2>5. \/ Return(o, host, "not_sent")
        \/ Return(o, Invalidate(host), "not_sent")
        \/ /\ host.usable /\ SameCard
           /\ name # "iso_select" => ~host.pending /\ ~HasNativeSession(host)
           /\ Admit(o, h)
    BY <1>11, Zenon DEF CallIso, o
  <2>6. CASE Return(o, host, "not_sent") \/ Return(o, Invalidate(host), "not_sent")
    BY <1>1, <2>3, <2>4, <2>6, Generations, ReturnAtOnce DEF Fresh
  <2>7. CASE /\ host.usable /\ SameCard
             /\ name # "iso_select" => ~host.pending /\ ~HasNativeSession(host)
             /\ Admit(o, h)
    <3>1. name \notin Handshakes /\ name # "select" /\ name # "iso_auth"
      BY DEF Handshakes
    <3> QED  BY <1>3, <2>3, <2>4, <2>7, <3>1, AdmitAtOnce
  <2> QED  BY <2>5, <2>6, <2>7
<1>12. ASSUME NEW plan \in Plans, CallTransaction(plan) PROVE G
  <2> DEFINE o == [NewOp("transaction") EXCEPT !.plan = plan]
  <2>1. NewOp("transaction") \in OpType  BY <1>2 DEF Names
  <2>2. o \in OpType  BY <2>1, OpTypes
  <2>3. Fresh(o) /\ o.name = "transaction" /\ o.plan = plan /\ o.index = 1
    BY <2>1, NewOpFields DEF Fresh, OpType
  <2> HIDE DEF o
  <2>4. \/ Return(o, host, "not_sent")
        \/ /\ op' = [o EXCEPT !.phase = "planning"]
           /\ last' = NoResult
           /\ UNCHANGED <<host, generation, card, handshakes>>
    BY <1>12, Zenon DEF CallTransaction, o
  <2>5. CASE Return(o, host, "not_sent")
    BY <1>1, <2>2, <2>3, <2>5, ReturnAtOnce DEF Fresh
  <2>6. CASE /\ op' = [o EXCEPT !.phase = "planning"]
             /\ last' = NoResult
             /\ UNCHANGED <<host, generation, card, handshakes>>
    <3>1. Starts  BY <2>2, <2>3, <2>6 DEF Starts, Fresh, OpType, fieldVars
    <3> QED  BY <2>2, <2>3, <2>6, <3>1 DEF StartsPlan, OpType
  <2> QED  BY <2>4, <2>5, <2>6
<1>13. CASE CallResetAuthentication
  <2>1. NewOp("reset_authentication") \in OpType  BY <1>2 DEF Names
  <2>2. /\ Fresh(NewOp("reset_authentication"))
        /\ NewOp("reset_authentication").name = "reset_authentication"
    BY NewOpFields DEF Fresh
  <2> QED
    BY <1>1, <1>13, <2>1, <2>2, Generations, ReturnAtOnce
    DEF CallResetAuthentication, Fresh
<1>14. CASE CallReset
  <2> DEFINE o == NewOp("reset")
  <2>1. o \in OpType  BY <1>2 DEF Names
  <2>2. Fresh(o) /\ o.name = "reset"  BY NewOpFields DEF Fresh
  <2>3. /\ op' = [o EXCEPT !.phase = "resetting"] /\ host' = Invalidate(host)
        /\ last' = NoResult /\ UNCHANGED fieldVars
    BY <1>14 DEF CallReset
  <2> HIDE DEF o
  <2>4. Starts  BY <2>1, <2>2, <2>3 DEF Starts, Fresh, OpType
  <2> QED  BY <2>1, <2>2, <2>3, <2>4 DEF StartsReset, OpType
<1> QED
  BY <1>5, <1>6, <1>7, <1>8, <1>9, <1>10, <1>11, <1>12, <1>13, <1>14 DEF Calls

\* A step of a plan keeps these.
KeepsPlan ==
    /\ UNCHANGED fieldVars
    /\ op'.name = op.name /\ op'.plan = op.plan /\ op'.saved = op.saved
    /\ op'.cards = op.cards /\ op'.applied = op.applied
    /\ op'.entered = op.entered /\ op'.proven = op.proven

\* execute_locked() refuses the command of a plan.
RefusesCommand ==
    /\ op'.phase = "returned" /\ op'.answer = "not_sent"
    /\ host'.generation = host.generation
    /\ host' = host \/ ~host'.usable

\* execute_locked() admits the command of a plan.
AdmitsCommand ==
    /\ op'.phase = "admitted" /\ op'.reply = "none"
    /\ host' = host
    /\ host.usable /\ ~host.pending /\ ~HasIsoSession(host) /\ SameCard
    /\ op'.session = SessionOf(host)

\* A plan takes a command to execute_locked().
TakesCommand(phase, part) ==
    /\ op.phase = phase
    /\ KeepsPlan
    /\ op'.index = op.index /\ op'.part = part /\ op'.command = CommandOf(part)
    /\ RefusesCommand \/ AdmitsCommand

\* A plan moves on to its next command.
MovesOn(phase, index) ==
    /\ KeepsPlan
    /\ host' = host
    /\ op'.phase = phase /\ op'.index = index

\* A plan moves on in the phase it is in, or to the next phase.
AdvancesFrom(phase, next) ==
    \/ op.index < Len(op.plan) /\ MovesOn(phase, op.index + 1)
    \/ ~(op.index < Len(op.plan)) /\ MovesOn(next, 1)

\* The ways a plan ends.
EndsPlan ==
    \/ op.phase = "planning" /\ Return(op, host, "not_sent")
    \/ /\ op.phase = "returned" /\ op.part = "query" /\ op.answer # "succeeded"
       /\ Return(op, host, op.answer)
    \/ /\ op.phase = "staging"
       /\ Return(op, StageResult(host, op, "not_sent").host,
                     StageResult(host, op, "not_sent").outcome)
    \/ /\ op.phase = "returned" /\ op.part = "stage" /\ op.answer # "succeeded"
       /\ Return(op, StageResult(host, op, op.answer).host,
                     StageResult(host, op, op.answer).outcome)
    \/ op.phase = "committing" /\ Return(op, Invalidate(host), "unknown")
    \/ /\ op.phase = "returned" /\ op.part = "commit"
       /\ Return(op, CommitResult(host, op.answer).host,
                     CommitResult(host, op.answer).outcome)

\* The steps of a plan.
PlanSteps ==
    \/ TakesCommand("planning", "query")
    \/ TakesCommand("staging", "stage")
    \/ TakesCommand("committing", "commit")
    \/ /\ op.phase = "returned" /\ op.part = "query" /\ op.answer = "succeeded"
       /\ MovesOn("planning", op.index)
    \/ op.phase = "planning" /\ AdvancesFrom("planning", "staging")
    \/ /\ op.phase = "returned" /\ op.part = "stage" /\ op.answer = "succeeded"
       /\ AdvancesFrom("staging", "committing")
    \/ EndsPlan

\* The operation that execute_locked() admits.
LEMMA AdmittedFields ==
    ASSUME NEW o \in OpType, NEW s \in SessionType
    PROVE  LET p == [o EXCEPT !.session = s, !.begun = NoCard,
                              !.reply = "none", !.answer = "none"]
           IN  /\ p \in OpType
               /\ p.name = o.name /\ p.plan = o.plan /\ p.saved = o.saved
               /\ p.cards = o.cards /\ p.applied = o.applied /\ p.entered = o.entered
               /\ p.proven = o.proven /\ p.index = o.index /\ p.part = o.part
               /\ p.command = o.command /\ p.session = s /\ p.reply = "none"
<1>1. [o EXCEPT !.session = s, !.begun = NoCard, !.reply = "none", !.answer = "none"] \in OpType
  BY DEF OpType, Replies, Answers
<1> QED  BY <1>1 DEF OpType

\* Every action of a plan is one of these steps.
LEMMA TransactionCases ==
    ASSUME TypeOK, PlanInv, Transaction
    PROVE  PlanSteps
<1>1. /\ host \in HostType /\ op \in OpType
      /\ Invalidate(host) \in HostType
      /\ SessionOf(host) \in SessionType
      /\ Invalidate(host).generation = host.generation /\ ~Invalidate(host).usable
  BY HostTypes, SessionTypes, Generations DEF TypeOK
<1>2. ASSUME NEW phase \in {"planning", "staging", "committing"}, op.phase = phase,
             NEW part \in {"query", "stage", "commit"}, NEW c, c = CommandOf(part),
             ExecuteLocked([op EXCEPT !.part = part, !.command = c])
      PROVE  TakesCommand(phase, part)
  <2> DEFINE o == [op EXCEPT !.part = part, !.command = c]
  <2>1. /\ o.name = "transaction" /\ o.plan = op.plan /\ o.saved = op.saved
        /\ o.cards = op.cards /\ o.applied = op.applied /\ o.entered = op.entered
        /\ o.proven = op.proven /\ o.index = op.index /\ o.part = part /\ o.command = c
    BY <1>1, <1>2 DEF OpType, PlanInv, PlanPhases
  <2>2. o \in OpType
    BY <1>1, <1>2, OpTypes DEF CommandOf
  <2>3. op.name = "transaction"  BY <1>2 DEF PlanInv, PlanPhases
  <2>4. ExecuteLocked(o)  BY <1>2
  <2> HIDE DEF o
  <2>5. ASSUME NEW h, h = host \/ ~h.usable, h.generation = host.generation,
               ExecuteEnds(o, h, "not_sent")
        PROVE  TakesCommand(phase, part)
    <3>1. /\ op' = [o EXCEPT !.phase = "returned", !.answer = "not_sent"]
          /\ host' = h /\ last' = NoResult /\ UNCHANGED fieldVars
      BY <2>1, <2>5 DEF ExecuteEnds
    <3>2. KeepsPlan  BY <2>1, <2>2, <2>3, <3>1 DEF KeepsPlan, OpType
    <3> QED
      BY <1>2, <2>1, <2>2, <2>5, <3>1, <3>2
      DEF TakesCommand, RefusesCommand, OpType
  <2>6. ASSUME host.usable, ~host.pending, SameCard, Permits(host, o.command),
               Admit([o EXCEPT !.session = SessionOf(host), !.begun = NoCard,
                               !.reply = "none", !.answer = "none"], host)
        PROVE  TakesCommand(phase, part)
    <3> DEFINE p == [o EXCEPT !.session = SessionOf(host), !.begun = NoCard,
                              !.reply = "none", !.answer = "none"]
    <3>1. /\ p \in OpType
          /\ p.name = o.name /\ p.plan = o.plan /\ p.saved = o.saved
          /\ p.cards = o.cards /\ p.applied = o.applied /\ p.entered = o.entered
          /\ p.proven = o.proven /\ p.index = o.index /\ p.part = o.part
          /\ p.command = o.command /\ p.session = SessionOf(host) /\ p.reply = "none"
      BY <1>1, <2>2, AdmittedFields
    <3>3. Admit(p, host)  BY <2>6
    <3> HIDE DEF p
    <3>4. /\ op' = [p EXCEPT !.phase = "admitted"] /\ host' = host
          /\ last' = NoResult /\ UNCHANGED fieldVars
      BY <3>3 DEF Admit
    <3>5. KeepsPlan  BY <2>1, <2>3, <3>1, <3>4 DEF KeepsPlan, OpType
    <3>6. AdmitsCommand
      BY <2>6, <3>1, <3>4 DEF AdmitsCommand, Permits, OpType
    <3> QED
      BY <1>2, <2>1, <3>1, <3>4, <3>5, <3>6 DEF TakesCommand, OpType
  <2> QED  BY <1>1, <2>4, <2>5, <2>6 DEF ExecuteLocked
<1>3. ASSUME NEW phase \in {"planning", "staging"}, Advance(phase),
             op.phase \in {"planning", "returned"}
      PROVE  AdvancesFrom(phase, IF phase = "planning" THEN "staging" ELSE "committing")
  BY <1>1, <1>3 DEF Advance, AdvancesFrom, MovesOn, KeepsPlan, OpType, fieldVars
<1>4. CASE QuerySettings
  <2>1. CASE Return(op, host, "not_sent")
    BY <1>4, <2>1 DEF QuerySettings, PlanSteps, EndsPlan
  <2>2. CASE ExecuteLocked([op EXCEPT !.part = "query", !.command = GetFileSettings])
    <3>1. GetFileSettings = CommandOf("query") /\ op.phase = "planning"
      BY <1>4 DEF CommandOf, QuerySettings
    <3> QED  BY <1>2, <2>2, <3>1 DEF PlanSteps
  <2> QED  BY <1>4, <2>1, <2>2 DEF QuerySettings
<1>5. CASE SettingsReturned
  <2>1. CASE op.answer # "succeeded" /\ Return(op, host, op.answer)
    BY <1>5, <2>1 DEF SettingsReturned, PlanSteps, EndsPlan
  <2>2. CASE ~(op.answer # "succeeded" /\ Return(op, host, op.answer))
    <3>1. /\ op.answer = "succeeded"
          /\ op' = [op EXCEPT !.phase = "planning",
                              !.settled = @ \cup {op.plan[op.index]}]
          /\ UNCHANGED <<host, last, generation, card, handshakes>>
      BY <1>5, <2>2, Zenon DEF SettingsReturned
    <3>2. MovesOn("planning", op.index)
      BY <1>1, <3>1 DEF MovesOn, KeepsPlan, OpType, fieldVars
    <3> QED  BY <1>5, <3>1, <3>2 DEF SettingsReturned, PlanSteps
  <2> QED  BY <2>1, <2>2
<1>6. CASE CheckMutation
  BY <1>3, <1>6 DEF CheckMutation, PlanSteps, EndsPlan
<1>7. CASE StageMutation
  <2>1. CASE ExecuteLocked([op EXCEPT !.part = "stage", !.command = Mutation])
    <3>1. Mutation = CommandOf("stage") /\ op.phase = "staging"
      BY <1>7 DEF CommandOf, StageMutation
    <3> QED  BY <1>2, <2>1, <3>1 DEF PlanSteps
  <2> QED  BY <1>7, <2>1 DEF StageMutation, PlanSteps, EndsPlan
<1>8. CASE MutationReturned
  BY <1>3, <1>8 DEF MutationReturned, PlanSteps, EndsPlan
<1>9. CASE Commit
  <2>1. CASE ExecuteLocked([op EXCEPT !.part = "commit", !.command = CommitTransaction])
    <3>1. CommitTransaction = CommandOf("commit") /\ op.phase = "committing"
      BY <1>9 DEF CommandOf, Commit
    <3> QED  BY <1>2, <2>1, <3>1 DEF PlanSteps
  <2>2. /\ CommitResult(host, "not_sent").host = Invalidate(host)
        /\ CommitResult(host, "not_sent").outcome = "unknown"
    BY DEF CommitResult, Outcome
  <2> QED  BY <1>9, <2>1, <2>2 DEF Commit, PlanSteps, EndsPlan
<1>10. CASE CommitReturned
  BY <1>10 DEF CommitReturned, PlanSteps, EndsPlan
<1> QED
  BY <1>4, <1>5, <1>6, <1>7, <1>8, <1>9, <1>10 DEF Transaction

-----------------------------------------------------------------------------
(***************************************************************************)
(* Layer 1 is inductive.                                                   *)
(***************************************************************************)
\* It holds at the start.
LEMMA InitControl == Init => ControlInv
<1> SUFFICES ASSUME Init PROVE ControlInv
  OBVIOUS
<1>1. op.phase = "idle" /\ op.name = "reset"  BY NoOpFields DEF Init
<1>2. host.generation <= generation  BY DEF Init, NewHost
<1> QED
  BY <1>1, <1>2
  DEF ControlInv, OrderInv, ChannelInv, ReplyInv, PlanInv, Idle, InChannel,
      ChannelPhases, PlanPhases, ResetPhases

\* It holds after an operation returned.
LEMMA ReturnControl ==
    ASSUME NEW o, NEW h, NEW x, Return(o, h, x), h.generation <= generation
    PROVE  ControlInv'
<1>1. op'.phase = "idle" /\ host'.generation <= generation'
  BY NoOpFields DEF Return, fieldVars
<1> QED
  BY <1>1
  DEF ControlInv, OrderInv, ChannelInv, ReplyInv, PlanInv, Idle, InChannel,
      ChannelPhases, PlanPhases, ResetPhases

\* The calls keep it.
LEMMA CallControl ==
    ASSUME TypeOK, TypeOK', ControlInv, Calls
    PROVE  ControlInv'
<1>1. /\ generation \in Nat /\ host \in HostType /\ host.generation <= generation
      /\ host.generation \in Nat
  BY ConstantsAssumption DEF TypeOK, HostType, ControlInv, OrderInv
<1>2. CASE ReturnsAtOnce
  <2>1. op'.phase = "idle" /\ host'.generation <= generation'
    BY <1>1, <1>2, NoOpFields DEF ReturnsAtOnce, fieldVars
  <2> QED
    BY <2>1
    DEF ControlInv, OrderInv, ChannelInv, ReplyInv, PlanInv, Idle, InChannel,
        ChannelPhases, PlanPhases, ResetPhases
<1>3. ASSUME Starts, host'.generation = host.generation PROVE OrderInv'
  <2>1. /\ op'.entered.generation = generation /\ op'.saved = host /\ op'.cards = {}
        /\ generation' = generation
    BY <1>3 DEF Starts, fieldVars
  <2> QED  BY <1>1, <1>3, <2>1 DEF OrderInv
<1>4. CASE EntersChannel
  <2>1. host'.generation = host.generation /\ host'.usable /\ host.usable
    <3>1. op'.saved = host  BY <1>4 DEF EntersChannel, Starts
    <3>2. RunsWith'.generation = host.generation /\ RunsWith'.usable = host.usable
      BY <1>1, <3>1 DEF RunsWith, WithoutAuthentication, SetAside, HostType
    <3> QED  BY <1>4, <3>2 DEF EntersChannel
  <2>2. OrderInv'  BY <1>3, <1>4, <2>1 DEF EntersChannel
  <2>3. /\ op'.phase = "admitted" /\ op'.saved = host
        /\ op'.entered.generation = host'.generation
        /\ ~op'.proven /\ op'.reply = "none"
        /\ op'.name \notin {"reset", "reset_authentication", "transaction"}
        /\ host' = RunsWith'
    BY <1>4, <2>1 DEF EntersChannel, Starts, SameCard
  <2>4. op'.name \in {"plain", "df_names", "execute", "iso_data"} => host' = host
    BY <2>3 DEF RunsWith, Handshakes
  <2>5. ChannelInv'
    BY <1>4, <2>1, <2>3, <2>4
    DEF EntersChannel, ChannelInv, Authenticated, HasNativeSession, HasIsoSession,
        SessionOf
  <2>6. ReplyInv'  BY <2>3 DEF ReplyInv
  <2>7. PlanInv'  BY <2>3 DEF PlanInv, PlanPhases, ResetPhases
  <2> QED  BY <2>2, <2>5, <2>6, <2>7 DEF ControlInv
<1>5. CASE StartsPlan
  <2>1. OrderInv'  BY <1>3, <1>5 DEF StartsPlan
  <2>2. op'.plan \in Seq(Files) /\ op'.plan # <<>>
    BY <1>5, ConstantsAssumption DEF StartsPlan
  <2>3. 1 \in 1..Len(op'.plan)  BY <2>2
  <2>4. /\ op'.phase = "planning" /\ op'.name = "transaction" /\ op'.saved = host
        /\ host' = host /\ ~op'.proven /\ op'.index = 1 /\ op'.plan \in Plans
    BY <1>5 DEF StartsPlan, Starts
  <2> QED
    BY <2>1, <2>3, <2>4
    DEF ControlInv, ChannelInv, ReplyInv, PlanInv, InChannel, ChannelPhases,
        PlanPhases, ResetPhases
<1>6. CASE StartsReset
  <2>1. host'.generation = host.generation  BY <1>1, <1>6, Generations DEF StartsReset
  <2>2. OrderInv'  BY <1>3, <1>6, <2>1 DEF StartsReset
  <2>3. /\ op'.phase = "resetting" /\ op'.name = "reset" /\ op'.saved = host
        /\ host' = Invalidate(host)
    BY <1>6 DEF StartsReset, Starts
  <2>4. host' = Invalidate(op.saved)'
    BY <2>3 DEF Invalidate, NoSessions
  <2> QED
    BY <2>2, <2>3, <2>4
    DEF ControlInv, ChannelInv, ReplyInv, PlanInv, InChannel, ChannelPhases,
        PlanPhases, ResetPhases
<1> QED  BY <1>2, <1>4, <1>5, <1>6, CallCases

\* What every way to end an operation does to the generation it is bound to.
LEMMA ResultGenerations ==
    ASSUME TypeOK, op.saved.generation = host.generation, NEW a \in Answers
    PROVE  /\ PlainResult(host, a).host.generation = host.generation
           /\ SelectResult(PlainResult(host, a), op.saved, op.target).host.generation
                = host.generation
           /\ \A command :
                ExecuteResult(host, command, a).host.generation = host.generation
           /\ \A o : o.saved = op.saved =>
                AuthenticateResult(host, o, a).host.generation = host.generation
           /\ IsoResult(host, op, a).host.generation = host.generation
           /\ StageResult(host, op, a).host.generation = host.generation
           /\ CommitResult(host, a).host.generation = host.generation
<1>1. /\ host \in HostType /\ Invalidate(host).generation = host.generation
      /\ SessionEnded(host).generation = host.generation
      /\ IsoSelected(host).generation = host.generation
  BY Generations DEF TypeOK
<1>2. PlainResult(host, a).host.generation = host.generation
  BY <1>1 DEF PlainResult, Outcome
<1>3. SelectResult(PlainResult(host, a), op.saved, op.target).host.generation
        = host.generation
  <2> DEFINE r == PlainResult(host, a)
  <2>1. r.host \in HostType  BY <1>1, ResultTypes
  <2>2. Invalidate(r.host).generation = r.host.generation  BY <2>1, Generations
  <2>3. /\ [r.host EXCEPT !.selected = op.target].generation = r.host.generation
        /\ [r.host EXCEPT !.pending = TRUE].generation = r.host.generation
    BY <2>1 DEF HostType
  <2> HIDE DEF r
  <2>4. SelectResult(r, op.saved, op.target).host.generation = r.host.generation
    BY <2>2, <2>3, SelectResultIs DEF Outcome
  <2> QED  BY <1>2, <2>4 DEF r
<1>4. \A command : ExecuteResult(host, command, a).host.generation = host.generation
  BY <1>1, ExecuteResultIs DEF ExecuteFailed, Outcome
<1>5. ASSUME NEW o, o.saved = op.saved
      PROVE  AuthenticateResult(host, o, a).host.generation = host.generation
  <2>1. [host EXCEPT !.sessions = Established(host, FamilyOf(o.name), o.session.id),
                     !.key = o.key, !.pending = FALSE].generation = host.generation
    BY <1>1 DEF HostType
  <2> QED  BY <1>1, <1>5, <2>1, AuthenticateResultIs DEF AuthenticateFailed, Outcome
<1>6. IsoResult(host, op, a).host.generation = host.generation
  BY <1>1, IsoResultIs, IsoFailedIs DEF Outcome
<1>7. /\ StageResult(host, op, a).host.generation = host.generation
      /\ CommitResult(host, a).host.generation = host.generation
  BY <1>1 DEF StageResult, CommitResult, Outcome
<1> QED  BY <1>2, <1>3, <1>4, <1>5, <1>6, <1>7

\* The returns keep layer 1.
LEMMA ReturnsControl ==
    ASSUME TypeOK, TypeOK', ControlInv, Returns
    PROVE  ControlInv'
<1>1. /\ generation \in Nat /\ host \in HostType /\ host.generation <= generation
      /\ host.generation \in Nat /\ op \in OpType /\ op.answer \in Answers
  BY ConstantsAssumption DEF TypeOK, HostType, ControlInv, OrderInv, OpType
<1>2. ASSUME ~Idle PROVE op.saved.generation = host.generation
  BY <1>2 DEF ControlInv, OrderInv
<1>3. CASE ResetReturns
  <2>1. Rebound(host).generation = generation  BY <1>1 DEF Rebound, HostType
  <2> QED  BY <1>1, <1>3, <2>1, ReturnControl DEF ResetReturns
<1>4. CASE ~ResetReturns
  <2>1. op.phase = "answered"
    BY <1>4 DEF Returns, PlainReturns, DfNamesReturns, SelectReturns, ExecuteReturns,
                AuthenticateReturns, IsoReturns
  <2>2. op.saved.generation = host.generation  BY <1>2, <2>1 DEF Idle
  <2>3. Invalidate(host).generation = host.generation  BY <1>1, Generations
  <2>4. CASE PlainReturns \/ DfNamesReturns \/ SelectReturns
    BY <1>1, <2>2, <2>3, <2>4, ResultGenerations, ReturnControl
    DEF PlainReturns, DfNamesReturns, SelectReturns
  <2>5. CASE AuthenticateReturns \/ IsoReturns
    BY <1>1, <2>2, <2>5, ResultGenerations, ReturnControl
    DEF AuthenticateReturns, IsoReturns
  <2>6. CASE ExecuteReturns
    <3> DEFINE r == ExecuteResult(host, op.command, op.answer)
    <3>1. ExecuteEnds(op, r.host, r.outcome) /\ op.name \in {"execute", "transaction"}
      BY <2>6, Zenon DEF ExecuteReturns
    <3>2. r.host.generation = host.generation  BY <1>1, <2>2, ResultGenerations
    <3>3. r.outcome \in Answers  BY <1>1, ResultTypes
    <3>4. r.outcome = "succeeded" => r.host = host \/ op.command.drops
      BY ExecuteResultIs DEF Outcome
    <3>5. r.outcome # "none"
      <4>1. op.answer # "none"  BY <2>1 DEF ControlInv, ReplyInv
      <4> QED  BY <4>1, ExecuteResultIs DEF Outcome
    <3> HIDE DEF r
    <3>6. CASE op.name = "execute"
      BY <1>1, <3>1, <3>2, <3>6, ReturnControl DEF ExecuteEnds
    <3>7. CASE op.name = "transaction"
      <4>1. /\ op' = [op EXCEPT !.phase = "returned", !.answer = r.outcome]
            /\ host' = r.host /\ generation' = generation
        BY <3>1, <3>7 DEF ExecuteEnds, fieldVars
      <4>2. /\ op'.phase = "returned" /\ op'.answer = r.outcome
            /\ op'.name = op.name /\ op'.plan = op.plan /\ op'.index = op.index
            /\ op'.part = op.part /\ op'.command = op.command /\ op'.saved = op.saved
            /\ op'.proven = op.proven /\ op'.cards = op.cards
            /\ op'.entered = op.entered
        BY <1>1, <4>1 DEF OpType
      <4>3. InChannel /\ ~Idle  BY <2>1 DEF InChannel, ChannelPhases, Idle
      <4>4. host = op.saved
        BY <3>7, <4>3 DEF ControlInv, ChannelInv, RunsWith, Handshakes
      <4>5. ~op.command.drops
        BY <3>7, <4>3
        DEF ControlInv, PlanInv, CommandOf, GetFileSettings, Mutation,
            CommitTransaction, NoCommand
      <4>6. OrderInv'
        <5>1. generation' = generation /\ host'.generation = host.generation
          BY <3>2, <4>1
        <5> QED  BY <4>2, <4>3, <5>1 DEF ControlInv, OrderInv, Idle
      <4>7. PlanInv'
        <5>1. /\ op.plan \in Plans /\ op.index \in 1..Len(op.plan) /\ ~op.proven
              /\ op.part \in {"query", "stage", "commit"}
              /\ op.command = CommandOf(op.part)
          BY <3>7, <4>3 DEF ControlInv, PlanInv
        <5>2. op'.command = CommandOf(op.part)'
          BY <4>2, <5>1 DEF CommandOf, GetFileSettings
        <5>3. op'.answer # "none" /\ (op'.answer = "succeeded" => host' = op'.saved)
          BY <3>4, <3>5, <4>1, <4>2, <4>4, <4>5
        <5> QED
          BY <3>7, <4>2, <5>1, <5>2, <5>3
          DEF PlanInv, InChannel, ChannelPhases, PlanPhases, ResetPhases
      <4> QED
        BY <4>2, <4>6, <4>7
        DEF ControlInv, ChannelInv, ReplyInv, InChannel, ChannelPhases
    <3> QED  BY <3>1, <3>6, <3>7
  <2> QED  BY <1>4, <2>4, <2>5, <2>6, Returns DEF Returns
<1> QED  BY <1>3, <1>4

\* The steps of a plan keep layer 1.
LEMMA TransactionControl ==
    ASSUME TypeOK, TypeOK', ControlInv, Transaction
    PROVE  ControlInv'
<1>1. /\ generation \in Nat /\ host \in HostType /\ host.generation <= generation
      /\ host.generation \in Nat /\ op \in OpType /\ op.answer \in Answers
      /\ op.entered.generation \in Int /\ "not_sent" \in Answers
  <2>1. op \in OpType /\ op.answer \in Answers /\ op.entered.generation \in Int
    BY ConstantsAssumption DEF TypeOK, OpType, NoCard
  <2> QED
    BY <2>1, ConstantsAssumption DEF TypeOK, HostType, ControlInv, OrderInv, Answers
<1>2. /\ op.name = "transaction" /\ ~Idle /\ op.phase \in PlanPhases
      /\ op.saved.generation = host.generation
      /\ op.plan \in Plans /\ op.index \in 1..Len(op.plan) /\ ~op.proven
      /\ PlanInv
  BY DEF Transaction, QuerySettings, SettingsReturned, CheckMutation, StageMutation,
         MutationReturned, Commit, CommitReturned, ControlInv, OrderInv, PlanInv,
         PlanPhases, Idle
<1>3. PlanSteps  BY <1>2, TransactionCases
<1>4. ASSUME KeepsPlan, host'.generation = host.generation
      PROVE  OrderInv'
  BY <1>2, <1>4 DEF KeepsPlan, fieldVars, ControlInv, OrderInv
<1>5. CASE EndsPlan
  BY <1>1, <1>2, <1>5, Generations, ResultGenerations, ReturnControl DEF EndsPlan
<1>6. ASSUME NEW phase \in {"planning", "staging", "committing"},
             NEW part \in {"query", "stage", "commit"}, TakesCommand(phase, part)
      PROVE  ControlInv'
  <2>1. /\ op'.name = "transaction" /\ op'.plan = op.plan /\ op'.saved = op.saved
        /\ op'.cards = op.cards /\ op'.entered = op.entered /\ ~op'.proven
        /\ op'.index = op.index /\ op'.part = part /\ op'.command = CommandOf(part)
        /\ generation' = generation
    BY <1>2, <1>6 DEF TakesCommand, KeepsPlan, fieldVars
  <2>2. host = op.saved  BY <1>2, <1>6 DEF PlanInv, TakesCommand
  <2>3. op'.command = CommandOf(op.part)'
    BY <2>1 DEF CommandOf, GetFileSettings
  <2>4. CASE RefusesCommand
    <3>1. OrderInv'  BY <1>4, <1>6, <2>4 DEF TakesCommand, RefusesCommand
    <3>2. PlanInv'
      BY <1>2, <2>1, <2>3, <2>4
      DEF PlanInv, RefusesCommand, InChannel, ChannelPhases, PlanPhases, ResetPhases
    <3> QED
      BY <2>4, <3>1, <3>2
      DEF RefusesCommand, ControlInv, ChannelInv, ReplyInv, InChannel, ChannelPhases
  <2>5. CASE AdmitsCommand
    <3>1. OrderInv'  BY <1>4, <1>6, <2>5 DEF TakesCommand, AdmitsCommand
    <3>2. PlanInv'
      BY <1>2, <2>1, <2>3, <2>5
      DEF PlanInv, AdmitsCommand, InChannel, ChannelPhases, PlanPhases, ResetPhases
    <3>3. host' = RunsWith'
      BY <2>1, <2>2, <2>5 DEF AdmitsCommand, RunsWith, Handshakes
    <3>4. op'.entered.generation = host'.generation
      BY <1>1, <1>2, <2>1, <2>5 DEF AdmitsCommand, SameCard, ControlInv, OrderInv
    <3>5. op'.session = SessionOf(host)' /\ ~HasIsoSession(host)'
      BY <2>5 DEF AdmitsCommand, SessionOf, HasIsoSession
    <3>6. ChannelInv'
      BY <2>1, <2>2, <2>5, <3>3, <3>4, <3>5
      DEF ChannelInv, AdmitsCommand, Handshakes
    <3>7. ReplyInv'  BY <2>1, <2>5 DEF ReplyInv, AdmitsCommand
    <3> QED  BY <3>1, <3>2, <3>6, <3>7 DEF ControlInv
  <2> QED  BY <1>6, <2>4, <2>5 DEF TakesCommand
<1>7. ASSUME NEW phase \in {"planning", "staging", "committing"},
             NEW index \in 1..Len(op.plan), MovesOn(phase, index),
             host = op.saved
      PROVE  ControlInv'
  <2>1. /\ op'.name = "transaction" /\ op'.plan = op.plan /\ op'.saved = op.saved
        /\ ~op'.proven /\ op'.index = index /\ op'.phase = phase
        /\ host' = host
    BY <1>2, <1>7 DEF MovesOn, KeepsPlan
  <2>2. OrderInv'  BY <1>4, <1>7 DEF MovesOn
  <2>3. PlanInv'
    BY <1>2, <1>7, <2>1
    DEF PlanInv, InChannel, ChannelPhases, PlanPhases, ResetPhases
  <2> QED
    BY <2>1, <2>2, <2>3
    DEF ControlInv, ChannelInv, ReplyInv, InChannel, ChannelPhases
<1>8. /\ op.index \in 1..Len(op.plan) /\ 1 \in 1..Len(op.plan)
      /\ op.index < Len(op.plan) => op.index + 1 \in 1..Len(op.plan)
  <2>1. op.plan \in Seq(Files)  BY <1>2, ConstantsAssumption
  <2> QED  BY <1>2, <2>1
<1>9. ASSUME NEW phase \in {"planning", "staging"}, NEW next \in {"staging", "committing"},
             AdvancesFrom(phase, next), host = op.saved
      PROVE  ControlInv'
  BY <1>7, <1>8, <1>9 DEF AdvancesFrom
<1>10. /\ op.phase = "planning" => host = op.saved
       /\ op.phase = "returned" /\ op.answer = "succeeded" => host = op.saved
  BY <1>2 DEF PlanInv
<1> QED
  BY <1>3, <1>5, <1>6, <1>7, <1>8, <1>9, <1>10 DEF PlanSteps

\* What a step that stays in the channel keeps of an operation.
KeepsChannel ==
    /\ op'.name = op.name /\ op'.command = op.command /\ op'.target = op.target
    /\ op'.key = op.key /\ op'.plan = op.plan /\ op'.index = op.index
    /\ op'.part = op.part /\ op'.saved = op.saved /\ op'.entered = op.entered
    /\ host' = host

\* Such a step keeps what was checked at the entry.
LEMMA ChannelKeeps ==
    ASSUME ControlInv, InChannel, op'.phase \in ChannelPhases, KeepsChannel,
           op'.session = op.session \/ op.name \in Handshakes,
           op'.proven => op.name \in Handshakes
    PROVE  ChannelInv' /\ PlanInv'
<1>1. RunsWith' = RunsWith
  BY DEF KeepsChannel, RunsWith, WithoutAuthentication, SetAside, NoSessions
<1>2. /\ Authenticated(host)' = Authenticated(host)
      /\ HasIsoSession(host)' = HasIsoSession(host)
      /\ HasNativeSession(host)' = HasNativeSession(host)
      /\ SessionOf(host)' = SessionOf(host)
  BY DEF KeepsChannel, Authenticated, HasIsoSession, HasNativeSession, SessionOf
<1>3. op.name \in Handshakes =>
        op.name \notin {"plain", "df_names", "execute", "transaction", "iso_data"}
  BY DEF Handshakes
<1>4. ChannelInv'
  BY <1>1, <1>2, <1>3 DEF KeepsChannel, ChannelInv, ControlInv
<1>5. CommandOf(op.part)' = CommandOf(op.part)
  BY DEF KeepsChannel, CommandOf, GetFileSettings
<1>6. ~Idle  BY DEF InChannel, ChannelPhases, Idle
<1>7. op.name = "transaction" =>
        /\ op.plan \in Plans /\ op.index \in 1..Len(op.plan)
        /\ op.part \in {"query", "stage", "commit"} /\ op.command = CommandOf(op.part)
  BY <1>6 DEF PlanInv, ControlInv
<1>8. op.name = "transaction" => ~op'.proven  BY DEF Handshakes
<1>9. PlanInv'
  BY <1>5, <1>7, <1>8
  DEF KeepsChannel, PlanInv, InChannel, ChannelPhases, PlanPhases, ResetPhases
<1> QED  BY <1>4, <1>9

\* The channel returns: its answer, and the session of a handshake.
LEMMA ChannelReturnsIs ==
    ASSUME TypeOK, ChannelReturns
    PROVE  /\ KeepsChannel /\ op'.phase = "answered" /\ op'.proven = op.proven
           /\ op'.reply = op.reply /\ op'.cards = op.cards /\ op'.applied = op.applied
           /\ generation' = generation /\ card' = card
           /\ op.phase \in {"admitted", "begun", "heard"}
           /\ \/ /\ op.phase = "heard" /\ op.reply \in {"succeeded", "rejected"}
                 /\ generation = op.begun /\ op'.answer = op.reply
                 /\ op'.session = IF op.name \in Handshakes THEN card.session
                                                            ELSE op.session
              \/ /\ op.phase \in {"admitted", "begun"} /\ ~op.proven
                 /\ op'.answer = "not_sent" /\ op'.session = op.session
              \/ op'.answer = "unknown" /\ op'.session = op.session
<1> DEFINE s == IF op.name \in Handshakes THEN card.session ELSE op.session
<1>1. op \in OpType  BY DEF TypeOK
<1>2. \/ /\ op.phase = "heard" /\ op.reply \in {"succeeded", "rejected"}
         /\ generation = op.begun
         /\ op' = [op EXCEPT !.phase = "answered", !.answer = op.reply, !.session = s]
      \/ /\ op.phase \in {"admitted", "begun"} /\ ~op.proven
         /\ op' = [op EXCEPT !.phase = "answered", !.answer = "not_sent"]
      \/ /\ op.phase \in {"begun", "heard"}
         /\ op' = [op EXCEPT !.phase = "answered", !.answer = "unknown"]
  BY Zenon DEF ChannelReturns
<1>3. host' = host /\ generation' = generation /\ card' = card  BY DEF ChannelReturns
<1> HIDE DEF s
<1>4. CASE /\ op.phase = "heard" /\ op.reply \in {"succeeded", "rejected"}
           /\ generation = op.begun
           /\ op' = [op EXCEPT !.phase = "answered", !.answer = op.reply, !.session = s]
  <2>1. /\ KeepsChannel /\ op'.phase = "answered" /\ op'.proven = op.proven
        /\ op'.reply = op.reply /\ op'.cards = op.cards /\ op'.applied = op.applied
        /\ op'.answer = op.reply /\ op'.session = s
    BY <1>1, <1>3, <1>4 DEF KeepsChannel, OpType
  <2> QED  BY <1>3, <1>4, <2>1 DEF s
<1>5. CASE /\ op.phase \in {"admitted", "begun"} /\ ~op.proven
           /\ op' = [op EXCEPT !.phase = "answered", !.answer = "not_sent"]
  BY <1>1, <1>3, <1>5 DEF KeepsChannel, OpType
<1>6. CASE /\ op.phase \in {"begun", "heard"}
           /\ op' = [op EXCEPT !.phase = "answered", !.answer = "unknown"]
  BY <1>1, <1>3, <1>6 DEF KeepsChannel, OpType
<1> QED  BY <1>2, <1>4, <1>5, <1>6

\* The steps of the channel keep layer 1.
LEMMA ChannelControl ==
    ASSUME TypeOK, ControlInv, Channel
    PROVE  ControlInv'
<1>1. /\ op \in OpType /\ ReplyInv /\ OrderInv
  BY DEF TypeOK, ControlInv
<1>2. CASE ChannelBegins
  <2>1. /\ KeepsChannel /\ op'.phase = "begun" /\ op'.session = op.session
        /\ op'.proven = op.proven /\ op'.reply = op.reply /\ op'.cards = op.cards
        /\ generation' = generation /\ op.phase = "admitted"
    BY <1>1, <1>2 DEF ChannelBegins, KeepsChannel, OpType
  <2>2. ChannelInv' /\ PlanInv'
    BY <1>1, <2>1, ChannelKeeps DEF InChannel, ChannelPhases, ReplyInv
  <2>3. OrderInv'  BY <1>1, <2>1 DEF OrderInv, KeepsChannel, Idle
  <2>4. ReplyInv'  BY <1>1, <2>1 DEF ReplyInv
  <2> QED  BY <2>2, <2>3, <2>4 DEF ControlInv
<1>3. CASE ChallengeArrives
  <2>1. /\ KeepsChannel /\ op'.phase = "begun" /\ op'.session = op.session
        /\ op'.proven /\ op'.reply = "none" /\ op'.cards = op.cards
        /\ generation' = generation /\ op.phase = "heard" /\ op.reply = "challenge"
    BY <1>1, <1>3 DEF ChallengeArrives, KeepsChannel, OpType
  <2>2. op.name \in Handshakes
    BY <2>1 DEF ControlInv, ReplyInv
  <2>3. ChannelInv' /\ PlanInv'
    BY <2>1, <2>2, ChannelKeeps DEF InChannel, ChannelPhases
  <2>4. OrderInv'  BY <1>1, <2>1 DEF OrderInv, KeepsChannel, Idle
  <2>5. ReplyInv'  BY <2>1 DEF ReplyInv
  <2> QED  BY <2>3, <2>4, <2>5 DEF ControlInv
<1>4. CASE ChannelReturns
  <2>1. op.phase \in {"admitted", "begun", "heard"}  BY <1>4, ChannelReturnsIs
  <2>2. /\ KeepsChannel /\ op'.phase = "answered" /\ op'.proven = op.proven
        /\ op'.reply = op.reply /\ op'.cards = op.cards /\ generation' = generation
        /\ op'.session = op.session \/ op.name \in Handshakes
        /\ \/ op'.answer = op.reply /\ op.reply \in {"succeeded", "rejected"}
           \/ op'.answer = "not_sent" /\ op.phase \in {"admitted", "begun"} /\ ~op.proven
           \/ op'.answer = "unknown"
    BY <1>4, ChannelReturnsIs
  <2>3. op.proven => op.name \in Handshakes
    BY <2>1 DEF ControlInv, ChannelInv, InChannel, ChannelPhases
  <2>4. ChannelInv' /\ PlanInv'
    BY <2>1, <2>2, <2>3, ChannelKeeps DEF InChannel, ChannelPhases
  <2>5. OrderInv'  BY <1>1, <2>1, <2>2 DEF OrderInv, KeepsChannel, Idle
  <2>6. ReplyInv'  BY <1>1, <2>2 DEF ReplyInv
  <2> QED  BY <2>4, <2>5, <2>6 DEF ControlInv
<1> QED  BY <1>2, <1>3, <1>4 DEF Channel

\* A frame that is heard keeps layer 1.
LEMMA HeardControl ==
    ASSUME TypeOK, ControlInv, KeepsChannel, op.phase = "begun", op'.phase = "heard",
           op'.session = op.session, op'.proven = op.proven,
           op'.cards = op.cards \cup {generation}, generation' = generation,
           op'.reply # "none", op'.reply = "challenge" => op.name \in Handshakes
    PROVE  ControlInv'
<1>1. /\ generation \in Nat /\ op.entered.generation <= generation
      /\ op.proven => op.name \in Handshakes
  BY ConstantsAssumption
  DEF TypeOK, ControlInv, OrderInv, ChannelInv, InChannel, ChannelPhases, Idle
<1>2. ChannelInv' /\ PlanInv'
  BY <1>1, ChannelKeeps DEF InChannel, ChannelPhases
<1>3. OrderInv'
  BY <1>1 DEF ControlInv, OrderInv, KeepsChannel, Idle
<1>4. ReplyInv'  BY DEF ReplyInv, KeepsChannel
<1> QED  BY <1>2, <1>3, <1>4 DEF ControlInv

\* The card is exchanged while the operation stays where it is.
LEMMA ChangeControl ==
    ASSUME TypeOK, ControlInv, generation' = generation + 1, UNCHANGED <<host, op>>
    PROVE  ControlInv'
<1>1. /\ generation \in Nat /\ host.generation \in Nat /\ op \in OpType
      /\ op.entered.generation \in Int /\ op.cards \subseteq 0..MaxGeneration
      /\ MaxGeneration \in Nat
  <2>1. /\ op \in OpType /\ op.entered.generation \in Int
        /\ op.cards \subseteq 0..MaxGeneration
    BY ConstantsAssumption DEF TypeOK, OpType, NoCard
  <2> QED  BY <2>1, ConstantsAssumption DEF TypeOK, HostType
<1>2. OrderInv'
  BY <1>1 DEF ControlInv, OrderInv, Idle
<1>3. ChannelInv'
  BY DEF ControlInv, ChannelInv, InChannel, RunsWith, WithoutAuthentication, SetAside,
         NoSessions, Authenticated, HasNativeSession, HasIsoSession, SessionOf
<1>4. ReplyInv'  BY DEF ControlInv, ReplyInv
<1>5. PlanInv'
  BY DEF ControlInv, PlanInv, InChannel, CommandOf, GetFileSettings, Idle, Invalidate,
         NoSessions
<1> QED  BY <1>2, <1>3, <1>4, <1>5 DEF ControlInv

\* The steps of the card field keep layer 1.
LEMMA FieldControl ==
    ASSUME TypeOK, ControlInv, Field
    PROVE  ControlInv'
<1>1. op \in OpType  BY DEF TypeOK
<1>2. ASSUME NEW c, NEW reply, Hears(c, reply), reply # "none",
             reply = "challenge" => op.name \in Handshakes
      PROVE  ControlInv'
  <2>1. /\ KeepsChannel /\ op.phase = "begun" /\ op'.phase = "heard"
        /\ op'.session = op.session /\ op'.proven = op.proven
        /\ op'.cards = op.cards \cup {generation} /\ generation' = generation
        /\ op'.reply = reply
    BY <1>1, <1>2 DEF Hears, KeepsChannel, OpType
  <2> QED  BY <1>2, <2>1, HeardControl
<1>3. CASE CardSelects
  <2>1. \E c : Hears(c, "succeeded") \/ Hears(c, "rejected")
    BY <1>3, Zenon DEF CardSelects
  <2> QED  BY <1>2, <2>1
<1>4. CASE CardExecutes
  <2>1. CASE Hears(Unauthenticated(card), "rejected")  BY <1>2, <2>1
  <2>2. CASE ~Hears(Unauthenticated(card), "rejected")
    <3>1. /\ KeepsChannel /\ op.phase = "begun" /\ op'.phase = "heard"
          /\ op'.session = op.session /\ op'.proven = op.proven
          /\ op'.cards = op.cards \cup {generation} /\ generation' = generation
          /\ op'.reply = "succeeded"
      <4> DEFINE n == IF op.command.effect = "commit" THEN card.staged ELSE op.applied
      <4>1. /\ op.phase = "begun" /\ host' = host /\ generation' = generation
            /\ op' = [op EXCEPT !.phase = "heard", !.reply = "succeeded",
                                !.cards = @ \cup {generation}, !.applied = n]
        BY <1>4, <2>2 DEF CardExecutes
      <4> HIDE DEF n
      <4> QED  BY <1>1, <4>1 DEF KeepsChannel, OpType
    <3> QED  BY <3>1, HeardControl
  <2> QED  BY <2>1, <2>2
<1>5. CASE CardChallenges  BY <1>2, <1>5 DEF CardChallenges
<1>6. CASE CardProves
  <2>1. \E c : Hears(c, "succeeded") \/ Hears(c, "rejected")
    BY <1>6, Zenon DEF CardProves
  <2> QED  BY <1>2, <2>1
<1>7. CASE CardChanges  BY <1>7, ChangeControl DEF CardChanges
<1>8. CASE CardReset
  <2>1. /\ op'.phase = "repowered" /\ op'.name = op.name /\ op'.saved = op.saved
        /\ op'.cards = op.cards /\ op'.entered = op.entered /\ host' = host
        /\ generation' = generation + 1 /\ op.phase = "resetting"
    BY <1>1, <1>8 DEF CardReset, OpType
  <2>2. /\ generation \in Nat /\ host.generation \in Nat
        /\ op.entered.generation \in Int /\ op.cards \subseteq Nat
    <3>1. op.entered.generation \in Int /\ op.cards \subseteq Nat
      BY <1>1, ConstantsAssumption DEF OpType, NoCard
    <3> QED  BY <3>1, ConstantsAssumption DEF TypeOK, HostType
  <2>3. OrderInv'  BY <2>1, <2>2 DEF ControlInv, OrderInv, Idle
  <2>4. op.name = "reset" /\ host = Invalidate(op.saved)
    BY <2>1 DEF ControlInv, PlanInv, ResetPhases
  <2>5. PlanInv'
    BY <2>1, <2>4 DEF PlanInv, InChannel, ChannelPhases, PlanPhases, Invalidate, NoSessions
  <2> QED
    BY <2>1, <2>3, <2>5 DEF ControlInv, ChannelInv, ReplyInv, InChannel, ChannelPhases
<1> QED
  BY <1>3, <1>4, <1>5, <1>6, <1>7, <1>8 DEF Field

-----------------------------------------------------------------------------
(***************************************************************************)
(* Layer 2 is inductive.                                                   *)
(***************************************************************************)
\* The session of a host state that holds at most one.
LEMMA SessionOfNone ==
    ASSUME NEW h, ~Authenticated(h)
    PROVE  SessionOf(h) = NoSession
BY DEF SessionOf, Authenticated, HasNativeSession, HasIsoSession, Families

\* The session of a host state that holds one.
LEMMA SessionOfOne ==
    ASSUME NEW h, NEW f \in Families, h.sessions[f] # 0,
           \A g \in Families : h.sessions[g] # 0 => g = f
    PROVE  SessionOf(h) = [family |-> f, id |-> h.sessions[f]]
<1>1. (CHOOSE g \in Families : h.sessions[g] # 0) = f
  OBVIOUS
<1> QED  BY <1>1, Zenon DEF SessionOf

\* Without a session a host state is true of any card that has none.
LEMMA AgreesWithout ==
    ASSUME NEW h, NEW c, ~Authenticated(h), h.key = NoKey,
           h.pending \/ c.session = NoSession,
           h.selected # Nowhere => h.selected = c.selected
    PROVE  Agrees(h, c)
BY SessionOfNone DEF Agrees, Authenticated, HasNativeSession, HasIsoSession, Families

\* What a host state without authentication is.
LEMMA WithoutFacts ==
    ASSUME NEW h \in HostType
    PROVE  /\ ~Authenticated(WithoutAuthentication(h))
           /\ WithoutAuthentication(h).key = NoKey
           /\ ~WithoutAuthentication(h).pending
           /\ WithoutAuthentication(h).selected = h.selected
           /\ WithoutAuthentication(h).usable = h.usable
BY DEF HostType, WithoutAuthentication, NoSessions, Authenticated, HasNativeSession,
       HasIsoSession, Families

\* A local reset keeps the beliefs true.
LEMMA ResetAgrees ==
    ASSUME NEW h \in HostType, NEW c, Trusted(h, c)
    PROVE  Trusted(ResetAuthenticated(h), c)
<1> DEFINE r == ResetAuthenticated(h)
<1>1. /\ ~Authenticated(r) /\ r.key = NoKey /\ r.selected = h.selected
      /\ r.usable = h.usable /\ r.pending = (h.pending \/ Authenticated(h))
  BY DEF HostType, ResetAuthenticated, WithoutAuthentication, NoSessions, Authenticated,
         HasNativeSession, HasIsoSession, Families
<1>2. ASSUME h.usable, ~r.pending PROVE c.session = NoSession
  BY <1>1, <1>2, SessionOfNone DEF Trusted, Agrees
<1> HIDE DEF r
<1>3. r.usable => Agrees(r, c)
  <2> SUFFICES ASSUME r.usable PROVE Agrees(r, c)
    OBVIOUS
  <2>1. h.selected # Nowhere => h.selected = c.selected
    BY <1>1 DEF Trusted, Agrees
  <2> QED  BY <1>1, <1>2, <2>1, AgreesWithout
<1> QED  BY <1>3 DEF Trusted, r

\* An operation that returned: only the host state it left matters.
LEMMA IdleBelief ==
    ASSUME NEW o, NEW h, NEW x, Return(o, h, x),
           generation = h.generation => Trusted(h, card),
           x = "unknown" => ~h.usable
    PROVE  BeliefInv' /\ HandshakeInv' /\ UnknownInv'
<1>1. /\ op'.phase = "idle" /\ host' = h /\ card' = card /\ generation' = generation
      /\ last'.outcome = x
  BY NoOpFields DEF Return, fieldVars
<1>2. BeliefInv'
  BY <1>1 DEF BeliefInv, SameCard, Idle, PlanPhases, Trusted, Agrees, Authenticated,
              HasNativeSession, HasIsoSession, SessionOf
<1> QED  BY <1>1, <1>2 DEF HandshakeInv, UnknownInv

\* It holds at the start.
LEMMA InitBelief == Init => BeliefInv /\ HandshakeInv /\ UnknownInv
<1> SUFFICES ASSUME Init PROVE BeliefInv /\ HandshakeInv /\ UnknownInv
  OBVIOUS
<1>1. op.phase = "idle" /\ last.outcome = "none"  BY NoOpFields DEF Init, NoResult
<1>2. Agrees(host, card)
  <2>1. /\ ~Authenticated(host) /\ host.key = NoKey /\ card.session = NoSession
        /\ host.selected = card.selected
    BY DEF Init, NewHost, FreshCard, NoSessions, Authenticated, HasNativeSession,
           HasIsoSession, Families
  <2> QED  BY <2>1, AgreesWithout
<1> QED
  BY <1>1, <1>2 DEF BeliefInv, HandshakeInv, UnknownInv, Idle, PlanPhases, Trusted

\* The calls keep it.
LEMMA CallBelief ==
    ASSUME TypeOK, ControlInv, BeliefInv, HandshakeInv, UnknownInv, Calls
    PROVE  BeliefInv' /\ HandshakeInv' /\ UnknownInv'
<1>1. host \in HostType /\ Idle
  BY DEF TypeOK, Calls, CallPlain, CallPlainProtected, CallDfNames, CallSelect,
         CallExecute, CallAuthenticate, CallIso, CallTransaction,
         CallResetAuthentication, CallReset
<1>2. SameCard => Trusted(host, card)  BY <1>1 DEF BeliefInv
<1>3. CASE ReturnsAtOnce
  <2>1. /\ op'.phase = "idle" /\ card' = card /\ generation' = generation
        /\ host'.generation = host.generation /\ last'.outcome # "unknown"
    BY <1>3, NoOpFields DEF ReturnsAtOnce, fieldVars
  <2>2. SameCard => Trusted(host', card)
    <3>1. CASE host' = host  BY <1>2, <3>1
    <3>2. CASE ~host'.usable  BY <3>2 DEF Trusted
    <3>3. CASE host' = ResetAuthenticated(host)  BY <1>1, <1>2, <3>3, ResetAgrees
    <3> QED  BY <1>3, <3>1, <3>2, <3>3 DEF ReturnsAtOnce
  <2>3. BeliefInv'
    BY <2>1, <2>2
    DEF BeliefInv, SameCard, Idle, PlanPhases, Trusted, Agrees, Authenticated,
        HasNativeSession, HasIsoSession, SessionOf
  <2> QED  BY <2>1, <2>3 DEF HandshakeInv, UnknownInv
<1>4. CASE EntersChannel
  <2>1. /\ op'.phase = "admitted" /\ op'.saved = host /\ card' = card
        /\ ~op'.proven /\ host.usable /\ SameCard
    BY <1>4 DEF EntersChannel, Starts, fieldVars
  <2>2. Agrees(op'.saved, card')  BY <1>2, <2>1 DEF Trusted
  <2>3. BeliefInv'
    BY <2>1, <2>2
    DEF BeliefInv, Idle, PlanPhases, Agrees, Authenticated, HasNativeSession,
        HasIsoSession, SessionOf
  <2> QED  BY <2>1, <2>3 DEF HandshakeInv, UnknownInv, Idle
<1>5. CASE StartsPlan
  <2>1. /\ op'.phase = "planning" /\ host' = host /\ card' = card
        /\ generation' = generation
    BY <1>5 DEF StartsPlan, Starts, fieldVars
  <2>2. BeliefInv'
    BY <1>2, <2>1
    DEF BeliefInv, SameCard, Idle, PlanPhases, Trusted, Agrees, Authenticated,
        HasNativeSession, HasIsoSession, SessionOf
  <2> QED  BY <2>1, <2>2 DEF HandshakeInv, UnknownInv, Idle
<1>6. CASE StartsReset
  <2>1. op'.phase = "resetting"  BY <1>6 DEF StartsReset
  <2> QED  BY <2>1 DEF BeliefInv, HandshakeInv, UnknownInv, Idle, PlanPhases
<1> QED  BY <1>3, <1>4, <1>5, <1>6, CallCases

\* The steps of a plan keep it.
LEMMA TransactionBelief ==
    ASSUME TypeOK, ControlInv, BeliefInv, HandshakeInv, UnknownInv, Transaction
    PROVE  BeliefInv' /\ HandshakeInv' /\ UnknownInv'
<1>1. /\ host \in HostType /\ PlanInv /\ op.phase \in PlanPhases
      /\ op.name = "transaction" /\ ~Idle /\ ~op.proven
  BY DEF TypeOK, Transaction, QuerySettings, SettingsReturned, CheckMutation,
         StageMutation, MutationReturned, Commit, CommitReturned, ControlInv, PlanInv,
         PlanPhases, Idle
<1>2. SameCard => Trusted(host, card)  BY <1>1 DEF BeliefInv
<1>3. PlanSteps  BY <1>1, TransactionCases
<1>4. ~Invalidate(host).usable  BY <1>1, Generations
<1>5. CASE EndsPlan
  <2>1. PICK h, x : /\ Return(op, h, x)
                    /\ h = host \/ ~h.usable
                    /\ x = "unknown" => ~h.usable
                    /\ h = host => x # "unknown" \/ ~host.usable
    <3>1. /\ StageResult(host, op, "not_sent").host = host
             \/ ~StageResult(host, op, "not_sent").host.usable
          /\ StageResult(host, op, "not_sent").outcome = "unknown"
               => ~StageResult(host, op, "not_sent").host.usable
          /\ StageResult(host, op, op.answer).host = host
             \/ ~StageResult(host, op, op.answer).host.usable
          /\ StageResult(host, op, op.answer).outcome = "unknown"
               => ~StageResult(host, op, op.answer).host.usable
          /\ CommitResult(host, op.answer).host = host
             \/ ~CommitResult(host, op.answer).host.usable
          /\ CommitResult(host, op.answer).outcome = "unknown"
               => ~CommitResult(host, op.answer).host.usable
      BY <1>4 DEF StageResult, CommitResult, Outcome
    <3>2. op.phase = "returned" /\ op.answer = "unknown" => ~host.usable
      BY DEF UnknownInv
    <3> QED  BY <1>4, <1>5, <3>1, <3>2 DEF EndsPlan
  <2>2. generation = h.generation => Trusted(h, card)
    BY <1>2, <2>1 DEF Trusted, SameCard
  <2> QED  BY <2>1, <2>2, IdleBelief
<1>6. ASSUME NEW phase \in {"planning", "staging", "committing"},
             NEW part \in {"query", "stage", "commit"}, TakesCommand(phase, part)
      PROVE  BeliefInv' /\ HandshakeInv' /\ UnknownInv'
  <2>1. /\ op'.saved = op.saved /\ host = op.saved /\ ~op'.proven
        /\ card' = card /\ generation' = generation
    BY <1>1, <1>6 DEF TakesCommand, KeepsPlan, fieldVars, PlanInv
  <2>2. CASE RefusesCommand
    <3>1. /\ op'.phase = "returned" /\ op'.answer = "not_sent"
          /\ host'.generation = host.generation /\ (host' = host \/ ~host'.usable)
      BY <2>2 DEF RefusesCommand
    <3>2. SameCard => Trusted(host', card)  BY <1>2, <3>1 DEF Trusted
    <3>3. BeliefInv'
      BY <2>1, <3>1, <3>2
      DEF BeliefInv, SameCard, Idle, PlanPhases, Trusted, Agrees, Authenticated,
          HasNativeSession, HasIsoSession, SessionOf
    <3> QED  BY <3>1, <3>3 DEF HandshakeInv, UnknownInv, Idle
  <2>3. CASE AdmitsCommand
    <3>1. op'.phase = "admitted" /\ host' = host /\ host.usable /\ SameCard
      BY <2>3 DEF AdmitsCommand
    <3>2. Agrees(op'.saved, card')  BY <1>2, <2>1, <3>1 DEF Trusted
    <3>3. BeliefInv'
      BY <2>1, <3>1, <3>2
      DEF BeliefInv, Idle, PlanPhases, Agrees, Authenticated, HasNativeSession,
          HasIsoSession, SessionOf
    <3> QED  BY <3>1, <3>3 DEF HandshakeInv, UnknownInv, Idle
  <2> QED  BY <1>6, <2>2, <2>3 DEF TakesCommand
<1>7. ASSUME NEW phase \in {"planning", "staging", "committing"}, NEW index,
             MovesOn(phase, index)
      PROVE  BeliefInv' /\ HandshakeInv' /\ UnknownInv'
  <2>1. op'.phase = phase /\ host' = host /\ card' = card /\ generation' = generation
    BY <1>7 DEF MovesOn, KeepsPlan, fieldVars
  <2>2. BeliefInv'
    BY <1>2, <2>1
    DEF BeliefInv, SameCard, Idle, PlanPhases, Trusted, Agrees, Authenticated,
        HasNativeSession, HasIsoSession, SessionOf
  <2> QED  BY <2>1, <2>2 DEF HandshakeInv, UnknownInv, Idle
<1>8. ASSUME NEW phase \in {"planning", "staging"}, NEW next \in {"staging", "committing"},
             AdvancesFrom(phase, next)
      PROVE  BeliefInv' /\ HandshakeInv' /\ UnknownInv'
  BY <1>7, <1>8 DEF AdvancesFrom
<1> QED  BY <1>3, <1>5, <1>6, <1>7, <1>8 DEF PlanSteps

\* What the operation leaves is what the invariant foresaw, when the card was
\* not exchanged; an unknown outcome ends the use of the Card.
LEMMA PlainLeaves ==
    ASSUME TypeOK, NEW a \in Answers
    PROVE  LET r == PlainResult(host, a) IN
           /\ SameCard /\ op.name = "plain" => r.host = Left(a)
           /\ r.outcome = "unknown" => ~r.host.usable
<1>1. host \in HostType /\ ~Invalidate(host).usable  BY Generations DEF TypeOK
<1> QED  BY <1>1 DEF PlainResult, Outcome, Left, SameCard, Replaced

\* The same for a selection.
LEMMA SelectLeaves ==
    ASSUME TypeOK, NEW a \in Answers, op.name = "select", host.usable
    PROVE  LET r == SelectResult(PlainResult(host, a), op.saved, op.target) IN
           /\ SameCard => (r.host = Left(a) \/ ~r.host.usable)
           /\ r.outcome = "unknown" => ~r.host.usable
<1> DEFINE p == PlainResult(host, a)
           r == SelectResult(p, op.saved, op.target)
<1>1. /\ p.host \in HostType /\ ~Invalidate(p.host).usable
      /\ p.outcome = "unknown" => ~p.host.usable
      /\ SameCard /\ a # "unknown" => p.host = host /\ p.outcome = a
      /\ a = "unknown" => p.outcome = "unknown"
  <2>1. host \in HostType /\ p.host \in HostType  BY ResultTypes DEF TypeOK
  <2>2. ~Invalidate(host).usable /\ ~Invalidate(p.host).usable  BY <2>1, Generations
  <2> QED  BY <2>1, <2>2 DEF PlainResult, Outcome, SameCard, Replaced
<1> HIDE DEF p
<1>2. r.outcome = "unknown" => p.outcome = "unknown"
  BY SelectResultIs DEF Outcome
<1>3. p.outcome = "unknown" => ~r.host.usable
  BY <1>1, SelectResultIs DEF Outcome
<1>4. ASSUME SameCard, a # "unknown" PROVE r.host = Left(a)
  <2>1. p.host = host /\ p.outcome = a  BY <1>1, <1>4
  <2>2. r.host = LeftBySelect(a)
    BY <1>4, <2>1, SelectResultIs DEF Outcome, LeftBySelect
  <2> QED  BY <1>4, <2>2 DEF Left, Handshakes
<1> QED  BY <1>1, <1>2, <1>3, <1>4 DEF p

\* The same for a checked command.
LEMMA ExecuteLeaves ==
    ASSUME TypeOK, NEW a \in Answers, op.name \in {"execute", "transaction"}
    PROVE  LET r == ExecuteResult(host, op.command, a) IN
           /\ SameCard => (r.host = Left(a) \/ ~r.host.usable)
           /\ r.outcome = "unknown" => ~r.host.usable
<1>1. host \in HostType /\ ~Invalidate(host).usable  BY Generations DEF TypeOK
<1> QED
  BY <1>1, ExecuteResultIs
  DEF ExecuteFailed, Outcome, Left, LeftByCommand, SameCard, Replaced, Handshakes

\* The same for a handshake.
LEMMA HandshakeLeaves ==
    ASSUME TypeOK, NEW a \in Answers, op.name \in Handshakes,
           SameCard /\ a = "succeeded" => op.session = card.session
    PROVE  LET r == AuthenticateResult(host, op, a) IN
           /\ SameCard => (r.host = Left(a) \/ ~r.host.usable)
           /\ r.outcome = "unknown" => ~r.host.usable
<1>1. host \in HostType /\ ~Invalidate(host).usable  BY Generations DEF TypeOK
<1>2. op.name \notin {"plain", "df_names", "select", "execute", "transaction", "iso_select"}
  BY DEF Handshakes
<1>3. Left(a) = IF a = "unknown" THEN Invalidate(host) ELSE LeftByHandshake(a)
  BY <1>2 DEF Left
<1>4. CASE a # "succeeded"
  BY <1>1, <1>3, <1>4, AuthenticateResultIs
  DEF AuthenticateFailed, Outcome, LeftByHandshake
<1>5. CASE a = "succeeded"
  BY <1>1, <1>3, <1>5, AuthenticateResultIs
  DEF Outcome, LeftByHandshake, SameCard, Replaced
<1> QED  BY <1>4, <1>5

\* The same for an ISO command.
LEMMA IsoLeaves ==
    ASSUME TypeOK, NEW a \in Answers, a # "none", op.name \in {"iso_select", "iso_data"},
           op.name = "iso_select" => ~HasIsoSession(host),
           op.name = "iso_data" => host = op.saved /\ ~op.saved.pending
    PROVE  LET r == IsoResult(host, op, a) IN
           /\ SameCard => (r.host = Left(a) \/ ~r.host.usable)
           /\ r.outcome = "unknown" => ~r.host.usable
<1>1. host \in HostType /\ ~Invalidate(host).usable  BY Generations DEF TypeOK
<1>2. op.name \notin Handshakes
  BY DEF Handshakes
<1>3. a \in {"succeeded", "rejected", "unknown", "not_sent"}  BY DEF Answers
<1>4. CASE op.name = "iso_select"
  BY <1>1, <1>2, <1>3, <1>4, IsoResultIs, IsoFailedIs
  DEF Outcome, Left, LeftByIsoSelect, SameCard, Replaced
<1>5. CASE op.name = "iso_data"
  BY <1>1, <1>2, <1>3, <1>5, IsoResultIs, IsoFailedIs
  DEF Outcome, Left, LeftByIsoData, SameCard, Replaced
<1> QED  BY <1>4, <1>5

\* The returns keep layer 2.
LEMMA ReturnsBelief ==
    ASSUME TypeOK, ControlInv, BeliefInv, HandshakeInv, UnknownInv, Returns
    PROVE  BeliefInv' /\ HandshakeInv' /\ UnknownInv'
<1>1. host \in HostType /\ op \in OpType /\ op.answer \in Answers
  BY DEF TypeOK, OpType
<1>2. CASE ResetReturns
  <2>1. op.name = "reset" /\ host = Invalidate(op.saved) /\ op.saved \in HostType
    BY <1>1, <1>2 DEF ResetReturns, ControlInv, PlanInv, ResetPhases, OpType
  <2>2. ~host.usable /\ ~Authenticated(host) /\ host.key = NoKey
    BY <2>1 DEF HostType, Invalidate, NoSessions, Authenticated, HasNativeSession,
                HasIsoSession, Families
  <2>3. CASE op.phase = "repowered" /\ Return(op, Rebound(host), "succeeded")
    <3>1. card = FreshCard  BY <2>3 DEF HandshakeInv
    <3>2. Agrees(Rebound(host), card)
      <4>1. /\ ~Authenticated(Rebound(host)) /\ Rebound(host).key = NoKey
            /\ Rebound(host).selected = card.selected /\ card.session = NoSession
        BY <1>1, <2>2, <3>1
        DEF Rebound, HostType, FreshCard, Authenticated, HasNativeSession, HasIsoSession
      <4> QED  BY <4>1, AgreesWithout
    <3> QED  BY <2>3, <3>2, IdleBelief DEF Trusted
  <2>4. ASSUME NEW failure, Return(op, host, failure)
        PROVE  BeliefInv' /\ HandshakeInv' /\ UnknownInv'
    BY <2>2, <2>4, IdleBelief DEF Trusted
  <2> QED  BY <1>2, <2>3, <2>4 DEF ResetReturns
<1>3. CASE ~ResetReturns
  <2>1. op.phase = "answered" /\ InChannel /\ ~Idle
    BY <1>3 DEF Returns, PlainReturns, DfNamesReturns, SelectReturns, ExecuteReturns,
                AuthenticateReturns, IsoReturns, InChannel, ChannelPhases, Idle
  <2>2. /\ ChannelInv /\ op.saved.generation = host.generation /\ op.saved.usable
        /\ op.answer # "none" /\ host = RunsWith /\ op.saved \in HostType
    BY <1>1, <2>1 DEF ControlInv, OrderInv, ReplyInv, ChannelInv, OpType
  <2>3. SameCard => Trusted(Left(op.answer), card)
    BY <2>1 DEF BeliefInv
  <2>4. ASSUME NEW h, NEW x, Return(op, h, x), h.generation = host.generation,
               SameCard => (h = Left(op.answer) \/ ~h.usable),
               x = "unknown" => ~h.usable
        PROVE  BeliefInv' /\ HandshakeInv' /\ UnknownInv'
    <3>1. generation = h.generation => Trusted(h, card)
      BY <2>3, <2>4 DEF SameCard, Trusted
    <3> QED  BY <2>4, <3>1, IdleBelief
  <2>5. CASE PlainReturns
    BY <1>1, <2>2, <2>4, <2>5, PlainLeaves, ResultGenerations DEF PlainReturns
  <2>6. CASE DfNamesReturns
    <3>1. (IF op.answer = "unknown" THEN Invalidate(host) ELSE host) = Left(op.answer)
      BY <2>6 DEF Left, DfNamesReturns
    <3>2. Invalidate(host).generation = host.generation /\ ~Invalidate(host).usable
      BY <1>1, Generations
    <3> QED  BY <2>4, <2>6, <3>1, <3>2 DEF DfNamesReturns
  <2>7. CASE SelectReturns
    <3>1. op.name = "select"  BY <2>7 DEF SelectReturns
    <3>2. host.usable
      BY <2>2, <3>1, WithoutFacts DEF RunsWith
    <3> QED
      BY <1>1, <2>2, <2>4, <2>7, <3>1, <3>2, SelectLeaves, ResultGenerations
      DEF SelectReturns
  <2>8. CASE AuthenticateReturns
    <3>1. op.name \in Handshakes  BY <2>8 DEF AuthenticateReturns
    <3>2. SameCard /\ op.answer = "succeeded" => op.session = card.session
      BY <2>1, <3>1 DEF HandshakeInv
    <3> QED
      BY <1>1, <2>2, <2>4, <2>8, <3>1, <3>2, HandshakeLeaves, ResultGenerations
      DEF AuthenticateReturns
  <2>9. CASE IsoReturns
    <3>1. op.name \in {"iso_select", "iso_data"}  BY <2>9 DEF IsoReturns
    <3>2. op.name = "iso_select" => ~HasIsoSession(host)
      BY <2>2, WithoutFacts DEF RunsWith, Authenticated
    <3>3. op.name = "iso_data" => host = op.saved /\ ~op.saved.pending
      BY <2>1, <2>2 DEF RunsWith, Handshakes, ChannelInv
    <3> QED
      BY <1>1, <2>2, <2>4, <2>9, <3>1, <3>2, <3>3, IsoLeaves, ResultGenerations
      DEF IsoReturns
  <2>10. CASE ExecuteReturns
    <3> DEFINE r == ExecuteResult(host, op.command, op.answer)
    <3>1. /\ ExecuteEnds(op, r.host, r.outcome)
          /\ op.name \in {"execute", "transaction"}
      BY <2>10, Zenon DEF ExecuteReturns
    <3>2. /\ r.host.generation = host.generation
          /\ SameCard => (r.host = Left(op.answer) \/ ~r.host.usable)
          /\ r.outcome = "unknown" => ~r.host.usable
      BY <1>1, <2>2, <3>1, ExecuteLeaves, ResultGenerations
    <3> HIDE DEF r
    <3>3. CASE op.name = "execute"
      BY <2>4, <3>1, <3>2, <3>3 DEF ExecuteEnds
    <3>4. CASE op.name = "transaction"
      <4>1. /\ op'.phase = "returned" /\ op'.answer = r.outcome /\ host' = r.host
            /\ card' = card /\ generation' = generation
        BY <1>1, <3>1, <3>4 DEF ExecuteEnds, OpType, fieldVars
      <4>2. SameCard => Trusted(r.host, card)
        BY <2>3, <3>2 DEF Trusted
      <4>3. BeliefInv'
        BY <3>2, <4>1, <4>2
        DEF BeliefInv, SameCard, Idle, PlanPhases, Trusted, Agrees, Authenticated,
            HasNativeSession, HasIsoSession, SessionOf
      <4> QED  BY <3>2, <4>1, <4>3 DEF HandshakeInv, UnknownInv, Idle
    <3> QED  BY <3>1, <3>3, <3>4
  <2> QED  BY <1>3, <2>5, <2>6, <2>7, <2>8, <2>9, <2>10 DEF Returns
<1> QED  BY <1>2, <1>3

\* A failure before anything was sent leaves what the card still is.
LEMMA NotSentLeaves ==
    ASSUME TypeOK, ControlInv, InChannel, Agrees(op.saved, card)
    PROVE  Trusted(Left("not_sent"), card)
<1>1. /\ host \in HostType /\ op.saved \in HostType /\ host = RunsWith
      /\ ~Invalidate(host).usable /\ op.name \notin {"reset", "reset_authentication"}
      /\ op.name \in Names
  BY Generations DEF TypeOK, OpType, ControlInv, ChannelInv
<1>2. CASE op.name \in {"plain", "df_names", "execute", "transaction", "iso_data"}
  <2>1. host = op.saved  BY <1>1, <1>2 DEF RunsWith, Handshakes
  <2>2. Left("not_sent") = op.saved \/ Left("not_sent") = Invalidate(host)
    BY <1>2, <2>1 DEF Left, LeftByCommand, LeftByIsoData, Handshakes
  <2> QED  BY <1>1, <2>2 DEF Trusted
<1>3. CASE op.name = "select"
  <2>1. host = WithoutAuthentication(op.saved)  BY <1>1, <1>3 DEF RunsWith
  <2>2. /\ ~Authenticated(host) /\ host.key = NoKey /\ ~host.pending
        /\ host.selected = op.saved.selected
    BY <1>1, <2>1, WithoutFacts
  <2>3. Left("not_sent") = LeftBySelect("not_sent")  BY <1>3 DEF Left
  <2>4. op.saved.selected # Nowhere => op.saved.selected = card.selected
    BY DEF Agrees
  <2>5. CASE Authenticated(op.saved)
    BY <1>1, <2>3, <2>5 DEF LeftBySelect, Trusted
  <2>6. CASE ~Authenticated(op.saved) /\ op.saved.pending
    <3> DEFINE h == [host EXCEPT !.pending = TRUE]
    <3>1. Left("not_sent") = h  BY <2>3, <2>6 DEF LeftBySelect
    <3>2. ~Authenticated(h) /\ h.key = NoKey /\ h.pending /\ h.selected = host.selected
      BY <1>1, <2>2 DEF HostType, Authenticated, HasNativeSession, HasIsoSession
    <3> HIDE DEF h
    <3>3. Agrees(h, card)  BY <2>2, <2>4, <3>2, AgreesWithout
    <3> QED  BY <3>1, <3>3 DEF Trusted
  <2>7. CASE ~Authenticated(op.saved) /\ ~op.saved.pending
    <3>1. Left("not_sent") = host  BY <2>3, <2>7 DEF LeftBySelect
    <3>2. card.session = NoSession  BY <2>7, SessionOfNone DEF Agrees
    <3>3. Agrees(host, card)  BY <2>2, <2>4, <3>2, AgreesWithout
    <3> QED  BY <3>1, <3>3 DEF Trusted
  <2> QED  BY <2>5, <2>6, <2>7
<1>4. CASE op.name \in Handshakes \cup {"iso_select"}
  <2>1. Left("not_sent") = op.saved
    BY <1>4 DEF Left, LeftByHandshake, LeftByIsoSelect, Handshakes
  <2> QED  BY <2>1 DEF Trusted
<1> QED  BY <1>1, <1>2, <1>3, <1>4 DEF Names, Handshakes

\* An unknown outcome leaves an unusable Card.
LEMMA UnknownLeaves ==
    ASSUME TypeOK
    PROVE  ~Left("unknown").usable
BY Generations DEF TypeOK, Left

\* The steps of the channel keep layer 2.
LEMMA ChannelBelief ==
    ASSUME TypeOK, ControlInv, BeliefInv, HandshakeInv, UnknownInv, Channel
    PROVE  BeliefInv' /\ HandshakeInv' /\ UnknownInv'
<1>1. op \in OpType /\ ReplyInv  BY DEF TypeOK, ControlInv
<1>2. ASSUME op'.phase = "begun", op'.saved = op.saved, host' = host, card' = card,
             generation' = generation,
             SameCard /\ ~op'.proven => Agrees(op.saved, card),
             SameCard /\ op'.proven => SelectedHolds
      PROVE  BeliefInv' /\ HandshakeInv' /\ UnknownInv'
  <2>1. BeliefInv'
    BY <1>2
    DEF BeliefInv, SameCard, Idle, PlanPhases, Agrees, SelectedHolds, Authenticated,
        HasNativeSession, HasIsoSession, SessionOf
  <2> QED  BY <1>2, <2>1 DEF HandshakeInv, UnknownInv, Idle
<1>3. CASE ChannelBegins
  <2>1. /\ op'.phase = "begun" /\ op'.saved = op.saved /\ host' = host /\ card' = card
        /\ generation' = generation /\ op'.proven = op.proven
        /\ op.phase = "admitted" /\ ~op.proven
    BY <1>1, <1>3 DEF ChannelBegins, OpType, ReplyInv
  <2> QED  BY <1>2, <2>1 DEF BeliefInv
<1>4. CASE ChallengeArrives
  <2>1. /\ op'.phase = "begun" /\ op'.saved = op.saved /\ host' = host /\ card' = card
        /\ generation' = generation /\ op'.proven
        /\ op.phase = "heard" /\ op.reply = "challenge"
    BY <1>1, <1>4 DEF ChallengeArrives, OpType
  <2> QED  BY <1>2, <2>1 DEF BeliefInv
<1>5. CASE ChannelReturns
  <2>1. /\ KeepsChannel /\ op'.phase = "answered" /\ card' = card /\ host' = host
        /\ generation' = generation /\ InChannel
    BY <1>5, ChannelReturnsIs DEF KeepsChannel, InChannel, ChannelPhases
  <2>2. SameCard => Trusted(Left(op'.answer), card)
    <3>1. \/ /\ op.phase = "heard" /\ op.reply \in {"succeeded", "rejected"}
             /\ op'.answer = op.reply
          \/ /\ op.phase \in {"admitted", "begun"} /\ ~op.proven
             /\ op'.answer = "not_sent"
          \/ op'.answer = "unknown"
      BY <1>5, ChannelReturnsIs
    <3> QED
      BY <2>1, <3>1, NotSentLeaves, UnknownLeaves DEF BeliefInv, Trusted
  <2>3. Left(op.answer)' = Left(op'.answer)
    BY <2>1
    DEF KeepsChannel, Left, LeftBySelect, LeftByCommand, LeftByHandshake,
        LeftByIsoSelect, LeftByIsoData, Invalidate, SessionEnded, IsoSelected,
        Established, NoSessions, Authenticated, HasNativeSession, HasIsoSession
  <2>4. SameCard' => Trusted(Left(op.answer), card)'
    BY <2>1, <2>2, <2>3
    DEF SameCard, Trusted, Agrees, Authenticated, HasNativeSession, HasIsoSession,
        SessionOf
  <2>5. BeliefInv'
    BY <2>1, <2>4 DEF BeliefInv, Idle, PlanPhases
  <2>6. HandshakeInv'
    BY <1>5, <2>1, ChannelReturnsIs DEF HandshakeInv, KeepsChannel
  <2> QED  BY <2>1, <2>5, <2>6 DEF UnknownInv, Idle
<1> QED  BY <1>3, <1>4, <1>5 DEF Channel

\* What the operation would leave, once the card answered.
LEMMA LeftHeard ==
    ASSUME NEW a, KeepsChannel, op'.reply = a,
           op.name \notin Handshakes \/ a # "succeeded"
    PROVE  Left(op.reply)' = Left(a)
<1>1. /\ LeftBySelect(op.reply)' = LeftBySelect(a)
      /\ LeftByCommand(op.reply)' = LeftByCommand(a)
      /\ LeftByIsoSelect(op.reply)' = LeftByIsoSelect(a)
      /\ LeftByIsoData(op.reply)' = LeftByIsoData(a)
      /\ a # "succeeded" => LeftByHandshake(op.reply)' = LeftByHandshake(a)
  BY DEF KeepsChannel, LeftBySelect, LeftByCommand, LeftByHandshake, LeftByIsoSelect,
         LeftByIsoData, Invalidate, SessionEnded, IsoSelected, NoSessions,
         Authenticated, HasNativeSession, HasIsoSession
<1> QED  BY <1>1 DEF KeepsChannel, Left, Invalidate, NoSessions

\* A frame that the card answered keeps layer 2, if what it left is trusted.
LEMMA HeardBelief ==
    ASSUME KeepsChannel, op.phase = "begun", op'.phase = "heard",
           generation' = generation, op'.reply \in {"succeeded", "rejected"},
           NEW left, Left(op.reply)' = left, SameCard => Trusted(left, card')
    PROVE  BeliefInv' /\ HandshakeInv' /\ UnknownInv'
<1>1. SameCard' = SameCard  BY DEF KeepsChannel, SameCard
<1>2. SameCard' => Trusted(Left(op.reply), card)'
  BY <1>1
  DEF Trusted, Agrees, Authenticated, HasNativeSession, HasIsoSession, SessionOf
<1>3. BeliefInv'  BY <1>2 DEF BeliefInv, Idle, PlanPhases
<1> QED  BY <1>3 DEF HandshakeInv, UnknownInv, Idle

\* What a command without a session would leave of a card without one.
LEMMA AgreesStill ==
    ASSUME NEW h, NEW c, NEW d, Agrees(h, c), d.session = c.session, d.key = c.key,
           d.selected = c.selected
    PROVE  Agrees(h, d)
BY DEF Agrees

\* A host state without a session stays true of a card that lost its own.
LEMMA AgreesEnded ==
    ASSUME NEW h, NEW c, NEW d, Agrees(h, c), ~Authenticated(h),
           d.session = NoSession, d.selected = c.selected
    PROVE  Agrees(h, d)
<1>1. h.key = NoKey  BY DEF Agrees, Authenticated
<1>2. h.selected # Nowhere => h.selected = d.selected  BY DEF Agrees
<1> QED  BY <1>1, <1>2, AgreesWithout

\* What an error status does to the card.
LEMMA UnauthenticatedIs ==
    ASSUME NEW c \in CardType
    PROVE  /\ Unauthenticated(c).session = NoSession /\ Unauthenticated(c).key = NoKey
           /\ Unauthenticated(c).selected = c.selected
           /\ Unauthenticated(c).staged = c.staged
           /\ Unauthenticated(c).planned = c.planned
           /\ Unauthenticated(c).torn = c.torn
BY DEF CardType, Unauthenticated

\* A rejected command ends the session of the card, and of the host.
LEMMA RejectedBelief ==
    ASSUME TypeOK, ControlInv, BeliefInv, op.phase = "begun", SameCard,
           op.name \in {"plain", "execute", "transaction", "df_names", "iso_data"}
    PROVE  Trusted(Left("rejected"), Unauthenticated(card))
<1>1. /\ host \in HostType /\ op.saved \in HostType /\ host = RunsWith /\ ChannelInv
      /\ ~Invalidate(host).usable /\ card \in CardType /\ InChannel /\ ~op.proven
  BY Generations
  DEF TypeOK, OpType, ControlInv, ChannelInv, InChannel, ChannelPhases, Handshakes
<1>2. host = op.saved  BY <1>1 DEF RunsWith, Handshakes
<1>3. Agrees(host, card)  BY <1>1, <1>2 DEF BeliefInv
<1>4. ~Authenticated(host) => Agrees(host, Unauthenticated(card))
  BY <1>1, <1>3, AgreesEnded, UnauthenticatedIs
<1>5. \/ Left("rejected") = Invalidate(host)
      \/ Left("rejected") = host /\ ~Authenticated(host)
  BY <1>1, <1>2
  DEF Left, LeftByCommand, LeftByIsoData, Handshakes, ChannelInv, Authenticated
<1> QED  BY <1>1, <1>4, <1>5 DEF Trusted

\* What a command does to a card, of what the host tracks.
LEMMA ExecutedFacts ==
    ASSUME NEW c \in CardType, NEW command
    PROVE  LET d == IF command.drops THEN Unauthenticated(c) ELSE c IN
           /\ Executed(c, command).session = d.session
           /\ Executed(c, command).key = d.key
           /\ Executed(c, command).selected = d.selected
<1> DEFINE d == IF command.drops THEN Unauthenticated(c) ELSE c
<1>1. d \in CardType
  BY StartTypes DEF Unauthenticated, CardType
<1>2. \/ Executed(c, command) = [d EXCEPT !.staged = @ + 1, !.planned = Len(op.plan)]
      \/ Executed(c, command) =
           [d EXCEPT !.torn = @ \/ d.staged \notin {0, d.planned}, !.staged = 0]
      \/ Executed(c, command) = [d EXCEPT !.staged = 0]
      \/ Executed(c, command) = d
  BY ExecutedIs, Zenon
<1>3. DOMAIN d = {"selected", "session", "key", "challenged", "staged", "planned", "torn"}
  BY <1>1 DEF CardType
<1> HIDE DEF d
<1> DEFINE x == Executed(c, command)
<1> HIDE DEF x
<1>4. x.session = d.session /\ x.key = d.key /\ x.selected = d.selected
  <2>1. CASE x = [d EXCEPT !.staged = @ + 1, !.planned = Len(op.plan)]
    BY <1>3, <2>1
  <2>2. CASE x = [d EXCEPT !.torn = @ \/ d.staged \notin {0, d.planned}, !.staged = 0]
    BY <1>3, <2>2
  <2>3. CASE x = [d EXCEPT !.staged = 0]
    BY <1>3, <2>3
  <2>4. CASE x = d
    BY <2>4
  <2> QED  BY <1>2, <2>1, <2>2, <2>3, <2>4 DEF x
<1> QED  BY <1>4 DEF d, x

\* An accepted command leaves host and card with the same session.
LEMMA ExecutedBelief ==
    ASSUME TypeOK, ControlInv, BeliefInv, op.phase = "begun", SameCard,
           op.name \in {"plain", "execute", "transaction", "df_names", "iso_data"}
    PROVE  Trusted(Left("succeeded"), Executed(card, op.command))
<1>1. /\ host \in HostType /\ op.saved \in HostType /\ host = RunsWith /\ ChannelInv
      /\ card \in CardType /\ InChannel /\ ~op.proven
  BY DEF TypeOK, OpType, ControlInv, ChannelInv, InChannel, ChannelPhases, Handshakes
<1>2. host = op.saved  BY <1>1 DEF RunsWith, Handshakes
<1>3. Agrees(host, card)  BY <1>1, <1>2 DEF BeliefInv
<1>4. CASE ~op.command.drops
  <2>1. Left("succeeded") = host
    BY <1>4 DEF Left, LeftByCommand, LeftByIsoData, Handshakes
  <2>2. Agrees(host, Executed(card, op.command))
    BY <1>1, <1>3, <1>4, ExecutedFacts, AgreesStill
  <2> QED  BY <2>1, <2>2 DEF Trusted
<1>5. CASE op.command.drops
  <2>1. op.name \in {"execute", "transaction"}
    BY <1>1, <1>5 DEF ChannelInv, NoCommand
  <2>2. ~HasIsoSession(host)  BY <1>1, <2>1 DEF ChannelInv
  <2>3. Left("succeeded") = SessionEnded(host)
    BY <1>5, <2>1 DEF Left, LeftByCommand
  <2>4. /\ ~Authenticated(SessionEnded(host)) /\ SessionEnded(host).key = NoKey
        /\ SessionEnded(host).selected = host.selected
    BY <1>1, <2>2
    DEF HostType, SessionEnded, Families, Authenticated, HasNativeSession, HasIsoSession
  <2>5. /\ Executed(card, op.command).session = NoSession
        /\ Executed(card, op.command).selected = card.selected
    BY <1>1, <1>5, ExecutedFacts, UnauthenticatedIs
  <2>6. host.selected # Nowhere => host.selected = card.selected
    BY <1>3 DEF Agrees
  <2>7. Agrees(SessionEnded(host), Executed(card, op.command))
    BY <2>4, <2>5, <2>6, AgreesWithout
  <2> QED  BY <2>3, <2>7 DEF Trusted
<1> QED  BY <1>4, <1>5

\* A selection leaves host and card without authentication, or as they were.
LEMMA SelectedBelief ==
    ASSUME TypeOK, ControlInv, BeliefInv, op.phase = "begun", SameCard
    PROVE  /\ op.name = "select" =>
                /\ \A c : c.session = NoSession /\ c.selected = op.target
                     => Trusted(Left("succeeded"), c)
                /\ Trusted(Left("rejected"), Unauthenticated(card))
           /\ op.name = "iso_select" =>
                /\ \A c : c.session = NoSession => Trusted(Left("succeeded"), c)
                /\ Trusted(Left("rejected"), card)
<1>1. /\ host \in HostType /\ op.saved \in HostType /\ host = RunsWith
      /\ card \in CardType /\ ~Invalidate(host).usable /\ InChannel
      /\ op.proven => op.name \in Handshakes
  BY Generations DEF TypeOK, OpType, ControlInv, ChannelInv, InChannel, ChannelPhases
<1>2. ASSUME op.name \in {"select", "iso_select"}
      PROVE  /\ Agrees(op.saved, card)
             /\ ~Authenticated(host) /\ host.key = NoKey /\ ~host.pending
             /\ host.selected = op.saved.selected
  <2>1. host = WithoutAuthentication(op.saved)  BY <1>1, <1>2 DEF RunsWith
  <2>2. ~op.proven  BY <1>1, <1>2 DEF Handshakes
  <2> QED  BY <1>1, <2>1, <2>2, WithoutFacts DEF BeliefInv
<1>3. ASSUME op.name = "select", NEW c, c.session = NoSession, c.selected = op.target
      PROVE  Trusted(Left("succeeded"), c)
  <2> DEFINE h == [host EXCEPT !.selected = op.target]
  <2>1. Left("succeeded") = h  BY <1>3 DEF Left, LeftBySelect
  <2>2. ~Authenticated(h) /\ h.key = NoKey /\ h.selected = c.selected
    BY <1>1, <1>2, <1>3 DEF HostType, Authenticated, HasNativeSession, HasIsoSession
  <2> HIDE DEF h
  <2>3. Agrees(h, c)  BY <1>3, <2>2, AgreesWithout
  <2> QED  BY <2>1, <2>3 DEF Trusted
<1>4. ASSUME op.name = "select"
      PROVE  Trusted(Left("rejected"), Unauthenticated(card))
  <2>1. Left("rejected") = LeftBySelect("rejected")  BY <1>4 DEF Left
  <2>2. /\ Unauthenticated(card).session = NoSession
        /\ host.selected # Nowhere => host.selected = Unauthenticated(card).selected
    BY <1>1, <1>2, <1>4, UnauthenticatedIs DEF Agrees
  <2>3. CASE Authenticated(op.saved)
    BY <1>1, <2>1, <2>3 DEF LeftBySelect, Trusted
  <2>4. CASE ~Authenticated(op.saved) /\ op.saved.pending
    <3> DEFINE h == [host EXCEPT !.pending = TRUE]
    <3>1. Left("rejected") = h  BY <2>1, <2>4 DEF LeftBySelect
    <3>2. ~Authenticated(h) /\ h.key = NoKey /\ h.pending /\ h.selected = host.selected
      BY <1>1, <1>2, <1>4 DEF HostType, Authenticated, HasNativeSession, HasIsoSession
    <3> HIDE DEF h
    <3>3. Agrees(h, Unauthenticated(card))  BY <2>2, <3>2, AgreesWithout
    <3> QED  BY <3>1, <3>3 DEF Trusted
  <2>5. CASE ~Authenticated(op.saved) /\ ~op.saved.pending
    <3>1. Left("rejected") = host  BY <2>1, <2>5 DEF LeftBySelect
    <3>2. Agrees(host, Unauthenticated(card))
      BY <1>2, <1>4, <2>2, AgreesWithout
    <3> QED  BY <3>1, <3>2 DEF Trusted
  <2> QED  BY <2>3, <2>4, <2>5
<1>5. ASSUME op.name = "iso_select", NEW c, c.session = NoSession
      PROVE  Trusted(Left("succeeded"), c)
  <2>1. Left("succeeded") = IsoSelected(host)
    BY <1>5 DEF Left, LeftByIsoSelect, Handshakes
  <2>2. /\ ~Authenticated(IsoSelected(host)) /\ IsoSelected(host).key = NoKey
        /\ IsoSelected(host).selected = Nowhere
    BY <1>1, <1>2, <1>5
    DEF HostType, IsoSelected, Authenticated, HasNativeSession, HasIsoSession
  <2>3. Agrees(IsoSelected(host), c)  BY <1>5, <2>2, AgreesWithout
  <2> QED  BY <2>1, <2>3 DEF Trusted
<1>6. ASSUME op.name = "iso_select" PROVE Trusted(Left("rejected"), card)
  <2>1. Left("rejected") = op.saved
    BY <1>6 DEF Left, LeftByIsoSelect, Handshakes
  <2> QED  BY <1>2, <1>6, <2>1 DEF Trusted
<1> QED  BY <1>3, <1>4, <1>5, <1>6

\* A handshake the card refused ends the use of the Card.
LEMMA RefusedHandshake ==
    ASSUME TypeOK, op.name \in Handshakes, NEW c
    PROVE  Trusted(Left("rejected"), c)
<1>1. Left("rejected") = Invalidate(host)
  BY DEF Left, LeftByHandshake, Handshakes
<1>2. ~Invalidate(host).usable  BY Generations DEF TypeOK
<1> QED  BY <1>1, <1>2 DEF Trusted

\* A completed handshake leaves host and card with the same new session.
LEMMA ProvenBelief ==
    ASSUME TypeOK, ControlInv, op.phase = "begun", op.name \in Handshakes, SelectedHolds,
           NEW id \in Nat \ {0}, id \in 0..MaxAuthentications,
           NEW c, c.session = [family |-> FamilyOf(op.name), id |-> id],
           c.key = op.key, c.selected = card.selected
    PROVE  Trusted([host EXCEPT !.sessions = Established(host, FamilyOf(op.name), id),
                                !.key = op.key, !.pending = FALSE], c)
<1> DEFINE f == FamilyOf(op.name)
           s == Established(host, f, id)
           h == [host EXCEPT !.sessions = s, !.key = op.key, !.pending = FALSE]
<1>1. /\ host \in HostType /\ op.saved \in HostType /\ host = RunsWith
      /\ op.name = "iso_auth" => op.key = NoKey
  BY DEF TypeOK, OpType, ControlInv, ChannelInv, InChannel, ChannelPhases
<1>2. host = SetAside(op.name, op.saved)
  BY <1>1 DEF RunsWith, Handshakes
<1>3. /\ f \in Families
      /\ op.name = "iso_auth" => f = "iso"
      /\ op.name # "iso_auth" => f \in {"standard", "ev2"}
  BY FamilyOfIs DEF Handshakes, Families
<1> HIDE DEF f
<1>4. /\ host.selected = op.saved.selected
      /\ op.name = "iso_auth" => \A g \in Families : host.sessions[g] = 0
      /\ op.name # "iso_auth" => host.sessions["iso"] = 0
  BY <1>1, <1>2 DEF SetAside, HostType, NoSessions, Families
<1>5. \A g \in Families : s[g] = IF g = f THEN id ELSE 0
  BY <1>1, <1>3, <1>4 DEF Established, HostType, Families
<1> HIDE DEF s
<1>6. /\ h.sessions = s /\ h.key = op.key /\ ~h.pending
      /\ h.selected = op.saved.selected
  BY <1>1, <1>4 DEF HostType
<1> HIDE DEF h
<1>7. h.sessions[f] # 0 /\ h.sessions[f] = id /\ \A g \in Families : h.sessions[g] # 0 => g = f
  BY <1>3, <1>5, <1>6
<1>8. SessionOf(h) = c.session
  BY <1>3, <1>7, SessionOfOne DEF f
<1>9. HasNativeSession(h) <=> f \in {"standard", "ev2"}
  BY <1>3, <1>7 DEF HasNativeSession, Families
<1>10. h.key # NoKey => HasNativeSession(h)
  BY <1>1, <1>3, <1>6, <1>9
<1>11. h.selected # Nowhere => h.selected = c.selected
  BY <1>6 DEF SelectedHolds
<1>12. Agrees(h, c)
  BY <1>6, <1>7, <1>8, <1>10, <1>11 DEF Agrees
<1> QED  BY <1>12 DEF Trusted, h, s, f

\* The steps of the card field keep layer 2.
LEMMA FieldBelief ==
    ASSUME TypeOK, ControlInv, BeliefInv, HandshakeInv, UnknownInv, Field
    PROVE  BeliefInv' /\ HandshakeInv' /\ UnknownInv'
<1>1. op \in OpType /\ card \in CardType /\ host \in HostType
  BY DEF TypeOK
<1>2. ASSUME NEW c, NEW reply \in Replies, Hears(c, reply)
      PROVE  /\ KeepsChannel /\ op.phase = "begun" /\ op'.phase = "heard"
             /\ op'.reply = reply /\ generation' = generation /\ card' = c
  BY <1>1, <1>2 DEF Hears, KeepsChannel, OpType
<1>3. ASSUME NEW c, NEW reply \in {"succeeded", "rejected"}, Hears(c, reply),
             op.name \notin Handshakes \/ reply # "succeeded",
             SameCard => Trusted(Left(reply), c)
      PROVE  BeliefInv' /\ HandshakeInv' /\ UnknownInv'
  <2>1. /\ KeepsChannel /\ op.phase = "begun" /\ op'.phase = "heard"
        /\ op'.reply = reply /\ generation' = generation /\ card' = c
    BY <1>2, <1>3 DEF Replies
  <2>2. Left(op.reply)' = Left(reply)  BY <1>3, <2>1, LeftHeard
  <2> QED  BY <1>3, <2>1, <2>2, HeardBelief
<1>4. CASE CardSelects
  <2>1. op.name \in {"select", "iso_select"} /\ op.name \notin Handshakes
    BY <1>4 DEF CardSelects, Handshakes
  <2>2. ASSUME NEW a \in Applications, op.name = "select" => a = op.target,
               Hears([Unauthenticated(card) EXCEPT !.selected = a, !.staged = 0], "succeeded")
        PROVE  BeliefInv' /\ HandshakeInv' /\ UnknownInv'
    <3> DEFINE c == [Unauthenticated(card) EXCEPT !.selected = a, !.staged = 0]
    <3>1. c.session = NoSession /\ c.selected = a
      BY <1>1 DEF CardType, Unauthenticated
    <3> HIDE DEF c
    <3>2. SameCard => Trusted(Left("succeeded"), c)
      BY <2>1, <2>2, <3>1, SelectedBelief DEF Hears
    <3> QED  BY <1>3, <2>1, <2>2, <3>2 DEF c
  <2>3. ASSUME Hears(IF op.name = "select" THEN Unauthenticated(card) ELSE card, "rejected")
        PROVE  BeliefInv' /\ HandshakeInv' /\ UnknownInv'
    <3>1. op.phase = "begun"  BY <2>3 DEF Hears
    <3>2. SameCard => Trusted(Left("rejected"),
                              IF op.name = "select" THEN Unauthenticated(card) ELSE card)
      BY <2>1, <3>1, SelectedBelief
    <3> QED  BY <1>3, <2>1, <2>3, <3>2
  <2> QED  BY <1>4, <2>2, <2>3, Zenon DEF CardSelects
<1>5. CASE CardExecutes
  <2>1. /\ op.name \in {"plain", "execute", "transaction", "df_names", "iso_data"}
        /\ op.name \notin Handshakes
    BY <1>5 DEF CardExecutes, Handshakes
  <2>2. CASE Hears(Unauthenticated(card), "rejected")
    <3>1. SameCard => Trusted(Left("rejected"), Unauthenticated(card))
      BY <2>1, <2>2, RejectedBelief DEF Hears
    <3> QED  BY <1>3, <2>1, <2>2, <3>1
  <2>3. CASE ~Hears(Unauthenticated(card), "rejected")
    <3> DEFINE n == IF op.command.effect = "commit" THEN card.staged ELSE op.applied
    <3>1. /\ op.phase = "begun" /\ host' = host /\ generation' = generation
          /\ card' = Executed(card, op.command)
          /\ op' = [op EXCEPT !.phase = "heard", !.reply = "succeeded",
                              !.cards = @ \cup {generation}, !.applied = n]
      BY <1>5, <2>3 DEF CardExecutes
    <3> HIDE DEF n
    <3>2. KeepsChannel /\ op'.phase = "heard" /\ op'.reply = "succeeded"
      BY <1>1, <3>1 DEF KeepsChannel, OpType
    <3>3. SameCard => Trusted(Left("succeeded"), card')
      BY <2>1, <3>1, ExecutedBelief
    <3>4. Left(op.reply)' = Left("succeeded")  BY <2>1, <3>2, LeftHeard
    <3> QED  BY <3>1, <3>2, <3>3, <3>4, HeardBelief
  <2> QED  BY <2>2, <2>3
<1>6. CASE CardChallenges
  <2>1. CASE Hears(Unauthenticated(card), "rejected")
    BY <1>3, <1>6, <2>1, RefusedHandshake DEF CardChallenges
  <2>2. CASE ~Hears(Unauthenticated(card), "rejected")
    <3> DEFINE c == [Unauthenticated(card) EXCEPT !.challenged = TRUE]
    <3>1. Hears(c, "challenge") /\ ~op.proven  BY <1>6, <2>2 DEF CardChallenges
    <3>2. c.selected = card.selected  BY <1>1 DEF CardType, Unauthenticated
    <3> HIDE DEF c
    <3>3. /\ KeepsChannel /\ op.phase = "begun" /\ op'.phase = "heard"
          /\ op'.reply = "challenge" /\ generation' = generation /\ card' = c
      BY <1>2, <3>1 DEF Replies
    <3>4. SameCard => SelectedHolds
      BY <3>1, <3>3 DEF BeliefInv, Agrees, SelectedHolds
    <3>5. BeliefInv'
      BY <3>2, <3>3, <3>4
      DEF BeliefInv, KeepsChannel, SameCard, Idle, PlanPhases, SelectedHolds
    <3> QED  BY <3>3, <3>5 DEF HandshakeInv, UnknownInv, Idle
  <2> QED  BY <2>1, <2>2
<1>7. CASE CardProves
  <2>1. op.name \in Handshakes /\ op.proven  BY <1>7 DEF CardProves
  <2>2. CASE Hears(Unauthenticated(card), "rejected")
    BY <1>3, <2>1, <2>2, RefusedHandshake
  <2>3. CASE ~Hears(Unauthenticated(card), "rejected")
    <3> DEFINE id == handshakes + 1
               s == [family |-> FamilyOf(op.name), id |-> id]
               c == [card EXCEPT !.session = s, !.challenged = FALSE, !.key = op.key]
               left == [host EXCEPT !.sessions = Established(host, FamilyOf(op.name), id),
                                    !.key = op.key, !.pending = FALSE]
    <3>1. Hears(c, "succeeded") /\ handshakes < MaxAuthentications
      BY <1>7, <2>3, Zenon DEF CardProves
    <3>2. id \in Nat \ {0} /\ id \in 0..MaxAuthentications
      BY <3>1, ConstantsAssumption DEF TypeOK
    <3>3. s.id = id /\ s = [family |-> FamilyOf(op.name), id |-> id]  OBVIOUS
    <3> HIDE DEF id, s
    <3>4. c.session = s /\ c.key = op.key /\ c.selected = card.selected
      BY <1>1 DEF CardType
    <3> HIDE DEF c
    <3>5. /\ KeepsChannel /\ op.phase = "begun" /\ op'.phase = "heard"
          /\ op'.reply = "succeeded" /\ generation' = generation /\ card' = c
      BY <1>2, <3>1 DEF Replies
    <3>6. SameCard => SelectedHolds  BY <2>1, <3>5 DEF BeliefInv
    <3>7. SameCard => Trusted(left, c)
      BY <2>1, <3>2, <3>3, <3>4, <3>5, <3>6, ProvenBelief
    <3>8. Left(op.reply)' = left
      <4>1. op'.name = op.name /\ op'.key = op.key /\ host' = host /\ card'.session.id = id
        BY <3>3, <3>4, <3>5 DEF KeepsChannel
      <4>2. LeftByHandshake(op.reply)' = left
        BY <3>5, <4>1 DEF LeftByHandshake, Established
      <4>3. op.name \notin {"plain", "df_names", "select", "execute", "transaction"}
        BY <2>1 DEF Handshakes
      <4> HIDE DEF left
      <4> QED  BY <2>1, <3>5, <4>1, <4>2, <4>3 DEF Left
    <3> HIDE DEF left
    <3> QED  BY <3>5, <3>7, <3>8, HeardBelief
  <2> QED  BY <2>2, <2>3
<1>8. CASE CardChanges
  <2>1. /\ generation' = generation + 1 /\ host' = host /\ op' = op /\ last' = last
        /\ card' = FreshCard /\ host.generation <= generation
        /\ generation \in Nat /\ host.generation \in Nat
    BY <1>1, <1>8, ConstantsAssumption
    DEF CardChanges, ControlInv, OrderInv, TypeOK, HostType
  <2>2. ~SameCard'  BY <2>1 DEF SameCard
  <2>3. HandshakeInv'  BY <2>1, <2>2 DEF HandshakeInv, FreshCard, NoSession
  <2> QED  BY <2>1, <2>2, <2>3 DEF BeliefInv, UnknownInv, Idle
<1>9. CASE CardReset
  <2>1. /\ generation' = generation + 1 /\ host' = host /\ op'.phase = "repowered"
        /\ card' = FreshCard /\ host.generation <= generation
        /\ generation \in Nat /\ host.generation \in Nat
    BY <1>1, <1>9, ConstantsAssumption
    DEF CardReset, ControlInv, OrderInv, TypeOK, HostType, OpType
  <2>2. ~SameCard'  BY <2>1 DEF SameCard
  <2>3. HandshakeInv'  BY <2>1, <2>2 DEF HandshakeInv, FreshCard, NoSession
  <2> QED  BY <2>1, <2>2, <2>3 DEF BeliefInv, UnknownInv, Idle
<1> QED
  BY <1>4, <1>5, <1>6, <1>7, <1>8, <1>9 DEF Field

-----------------------------------------------------------------------------
(***************************************************************************)
(* Layers 3 and 4: what the answer of the channel makes of an operation.   *)
(***************************************************************************)
\* An operation in the channel has a usable Card.
LEMMA UsableInChannel ==
    ASSUME TypeOK, ControlInv, InChannel
    PROVE  host.usable
<1>1. op.saved \in HostType /\ op.saved.usable /\ host = RunsWith
  BY DEF TypeOK, OpType, ControlInv, ChannelInv
<1> QED
  BY <1>1, WithoutFacts DEF RunsWith, SetAside, HostType

\* An operation other than a plan returns what it was answered.
ReturnsAnswer ==
    /\ op.name # "transaction"
    /\ \E h, x :
         /\ Return(op, h, x)
         /\ x = "succeeded" /\ op.name # "df_names" => SameCard
         /\ x = "not_sent" => op.answer = "not_sent"
         /\ h.generation = host.generation

\* A command of a plan returns to the plan.
ReturnsToPlan ==
    /\ op.name = "transaction"
    /\ KeepsPlan
    /\ op'.phase = "returned" /\ op'.index = op.index /\ op'.part = op.part
    /\ host'.generation = host.generation
    /\ op'.answer \in {"succeeded", "rejected", "not_sent", "unknown"}
    /\ op'.answer # "unknown" => op'.answer = op.answer
    /\ op'.answer = "succeeded" => SameCard
    /\ host'.usable /\ SameCard => op'.answer = op.answer /\ op.answer # "unknown"

\* Every return from the channel is one of these.
LEMMA AnswerCases ==
    ASSUME TypeOK, ControlInv, Returns
    PROVE  \/ ResetReturns
           \/ op.phase = "answered" /\ (ReturnsAnswer \/ ReturnsToPlan)
<1>1. host \in HostType /\ op \in OpType /\ op.answer \in Answers
  BY DEF TypeOK, OpType
<1>2. SUFFICES ASSUME ~ResetReturns
               PROVE  op.phase = "answered" /\ (ReturnsAnswer \/ ReturnsToPlan)
  OBVIOUS
<1>3. op.phase = "answered" /\ ~Idle
  BY <1>2 DEF Returns, PlainReturns, DfNamesReturns, SelectReturns, ExecuteReturns,
              AuthenticateReturns, IsoReturns, Idle
<1>4. op.saved.generation = host.generation /\ op.answer # "none"
  BY <1>3 DEF ControlInv, OrderInv, ReplyInv
<1>5. ~Invalidate(host).usable /\ Invalidate(host).generation = host.generation
  BY <1>1, Generations
<1>6. CASE PlainReturns
  <2>1. /\ PlainResult(host, op.answer).outcome = "succeeded" => SameCard
        /\ PlainResult(host, op.answer).outcome = "not_sent" => op.answer = "not_sent"
    BY DEF PlainResult, Outcome, SameCard, Replaced
  <2> QED
    BY <1>1, <1>3, <1>4, <1>6, <2>1, ResultGenerations DEF PlainReturns, ReturnsAnswer
<1>7. CASE DfNamesReturns
  BY <1>1, <1>3, <1>5, <1>7 DEF DfNamesReturns, ReturnsAnswer
<1>8. CASE SelectReturns
  <2> DEFINE r == SelectResult(PlainResult(host, op.answer), op.saved, op.target)
  <2>1. /\ r.outcome = "succeeded" => SameCard
        /\ r.outcome = "not_sent" => op.answer = "not_sent"
    <3>1. /\ PlainResult(host, op.answer).outcome = "succeeded" => SameCard
          /\ PlainResult(host, op.answer).outcome = "not_sent" => op.answer = "not_sent"
      BY DEF PlainResult, Outcome, SameCard, Replaced
    <3>2. r.outcome = PlainResult(host, op.answer).outcome
      BY SelectResultIs DEF Outcome
    <3> QED  BY <3>1, <3>2
  <2>2. r.host.generation = host.generation  BY <1>1, <1>4, ResultGenerations
  <2>3. Return(op, r.host, r.outcome) /\ op.name = "select"  BY <1>8 DEF SelectReturns
  <2> HIDE DEF r
  <2> QED  BY <1>3, <2>1, <2>2, <2>3 DEF ReturnsAnswer
<1>9. CASE AuthenticateReturns
  <2> DEFINE r == AuthenticateResult(host, op, op.answer)
  <2>1. /\ r.outcome = "succeeded" => SameCard
        /\ r.outcome = "not_sent" => op.answer = "not_sent"
    BY AuthenticateResultIs DEF Outcome, SameCard, Replaced
  <2>2. r.host.generation = host.generation  BY <1>1, <1>4, ResultGenerations
  <2>3. Return(op, r.host, r.outcome) /\ op.name \in Handshakes
    BY <1>9 DEF AuthenticateReturns
  <2>4. op.name # "transaction"  BY <2>3 DEF Handshakes
  <2> HIDE DEF r
  <2> QED  BY <1>3, <2>1, <2>2, <2>3, <2>4 DEF ReturnsAnswer
<1>10. CASE IsoReturns
  <2> DEFINE r == IsoResult(host, op, op.answer)
  <2>1. /\ r.outcome = "succeeded" => SameCard
        /\ r.outcome = "not_sent" => op.answer = "not_sent"
    BY IsoResultIs DEF Outcome, SameCard, Replaced
  <2>2. r.host.generation = host.generation  BY <1>1, <1>4, ResultGenerations
  <2>3. Return(op, r.host, r.outcome) /\ op.name \in {"iso_select", "iso_data"}
    BY <1>10 DEF IsoReturns
  <2> HIDE DEF r
  <2> QED  BY <1>3, <2>1, <2>2, <2>3 DEF ReturnsAnswer
<1>11. CASE ExecuteReturns
  <2> DEFINE r == ExecuteResult(host, op.command, op.answer)
  <2>1. /\ ExecuteEnds(op, r.host, r.outcome)
        /\ op.name \in {"execute", "transaction"}
    BY <1>11, Zenon DEF ExecuteReturns
  <2>2. /\ r.host.generation = host.generation
        /\ r.outcome \in Answers
    BY <1>1, <1>4, ResultGenerations, ResultTypes
  <2>3. /\ r.outcome # "unknown" => r.outcome = op.answer
        /\ r.outcome = "succeeded" => SameCard
        /\ r.outcome # "none"
        /\ r.host.usable /\ SameCard => r.outcome = op.answer /\ op.answer # "unknown"
    BY <1>4, <1>5, ExecuteResultIs DEF ExecuteFailed, Outcome, SameCard, Replaced
  <2> HIDE DEF r
  <2>4. CASE op.name = "execute"
    BY <1>3, <2>1, <2>2, <2>3, <2>4 DEF ExecuteEnds, ReturnsAnswer
  <2>5. CASE op.name = "transaction"
    <3>1. /\ op' = [op EXCEPT !.phase = "returned", !.answer = r.outcome]
          /\ host' = r.host /\ UNCHANGED fieldVars
      BY <2>1, <2>5 DEF ExecuteEnds
    <3>2. KeepsPlan  BY <1>1, <3>1 DEF KeepsPlan, OpType
    <3>3. /\ op'.phase = "returned" /\ op'.index = op.index /\ op'.part = op.part
          /\ op'.answer = r.outcome
      BY <1>1, <3>1 DEF OpType
    <3>4. r.outcome \in {"succeeded", "rejected", "not_sent", "unknown"}
      BY <2>2, <2>3 DEF Answers
    <3> QED
      BY <1>3, <2>2, <2>3, <2>5, <3>1, <3>2, <3>3, <3>4 DEF ReturnsToPlan
  <2> QED  BY <2>1, <2>4, <2>5
<1> QED
  BY <1>2, <1>6, <1>7, <1>8, <1>9, <1>10, <1>11 DEF Returns

-----------------------------------------------------------------------------
(***************************************************************************)
(* Layer 3 is inductive.                                                   *)
(***************************************************************************)
\* Layer 3.
PlansInv == StagedInv /\ AppliedInv

\* It holds at the start.
LEMMA InitPlans == Init => PlansInv
<1> SUFFICES ASSUME Init PROVE PlansInv
  OBVIOUS
<1>1. /\ op.phase = "idle" /\ op.name = "reset" /\ last.name = "reset"
      /\ ~card.torn /\ card.staged = 0
  BY NoOpFields DEF Init, NoResult, FreshCard
<1> QED
  BY <1>1 DEF PlansInv, StagedInv, AppliedInv, PlanAllOrNothing, Idle

\* It holds after an operation returned that left nothing staged, and whose
\* result, if it is that of a plan, says what was applied.
LEMMA ReturnPlans ==
    ASSUME NEW o, NEW h, NEW x, Return(o, h, x), ~card.torn,
           h.usable /\ generation = h.generation => card.staged = 0,
           o.name = "transaction" =>
             /\ x = "succeeded" => o.applied = Len(o.plan)
             /\ x \in {"not_sent", "rejected"} => o.applied = 0 /\
                  card.staged = (IF generation = o.entered.generation
                                   THEN o.entered.card.staged ELSE 0)
    PROVE  PlansInv'
<1>1. /\ op'.phase = "idle" /\ op'.name = "reset" /\ host' = h /\ card' = card
      /\ generation' = generation
  BY NoOpFields DEF Return, fieldVars
<1>2. /\ last'.outcome = x /\ last'.name = o.name /\ last'.applied = o.applied
      /\ last'.size = Len(o.plan)
      /\ last'.leftover = (card.staged #
           (IF generation = o.entered.generation THEN o.entered.card.staged ELSE 0))
  BY DEF Return
<1>3. PlanAllOrNothing'  BY <1>2 DEF PlanAllOrNothing
<1>4. StagedInv'  BY <1>1 DEF StagedInv, Idle, SameCard
<1> QED  BY <1>1, <1>3, <1>4 DEF PlansInv, AppliedInv, Idle

\* The calls keep it.
LEMMA CallPlans ==
    ASSUME TypeOK, ControlInv, PlansInv, Calls
    PROVE  PlansInv'
<1>1. Idle /\ ~card.torn /\ host \in HostType
  BY DEF PlansInv, StagedInv, TypeOK, Calls, CallPlain, CallPlainProtected, CallDfNames,
         CallSelect, CallExecute, CallAuthenticate, CallIso, CallTransaction,
         CallResetAuthentication, CallReset
<1>2. host.usable /\ SameCard => card.staged = 0
  BY <1>1 DEF PlansInv, StagedInv
<1>3. CASE ReturnsAtOnce
  <2>1. /\ op'.phase = "idle" /\ op'.name = "reset" /\ card' = card
        /\ generation' = generation /\ host'.generation = host.generation
    BY <1>3, NoOpFields DEF ReturnsAtOnce, fieldVars
  <2>2. host'.usable => host.usable
    BY <1>1, <1>3 DEF ReturnsAtOnce, ResetAuthenticated, WithoutAuthentication, HostType
  <2>3. StagedInv'
    BY <1>1, <1>2, <2>1, <2>2 DEF StagedInv, Idle, SameCard
  <2>4. PlanAllOrNothing'
    BY <1>3 DEF ReturnsAtOnce, PlanAllOrNothing
  <2> QED  BY <2>1, <2>3, <2>4 DEF PlansInv, AppliedInv, Idle
<1>4. CASE EntersChannel
  <2>1. /\ op'.phase = "admitted" /\ op'.name # "transaction" /\ card' = card
        /\ generation' = generation /\ host.usable /\ SameCard
        /\ op'.saved = host
    BY <1>4 DEF EntersChannel, Starts, fieldVars
  <2>2. card.staged = 0  BY <1>2, <2>1
  <2>3. StagedInv'  BY <1>1, <2>1, <2>2 DEF StagedInv, Idle
  <2>4. AppliedInv'  BY <2>1 DEF AppliedInv, PlanAllOrNothing, Idle
  <2> QED  BY <2>3, <2>4 DEF PlansInv
<1>5. CASE StartsPlan
  <2>1. /\ op'.phase = "planning" /\ op'.name = "transaction" /\ card' = card
        /\ generation' = generation /\ host' = host /\ op'.applied = 0
        /\ op'.entered.generation = generation /\ op'.entered.card = card
    BY <1>5 DEF StartsPlan, Starts, fieldVars
  <2>2. StagedInv'
    BY <1>1, <1>2, <2>1 DEF StagedInv, SameCard, Idle, Progress, At
  <2>3. AppliedInv'
    BY <2>1 DEF AppliedInv, PlanAllOrNothing, Idle, At, NothingStaged, InChannel,
                ChannelPhases
  <2> QED  BY <2>2, <2>3 DEF PlansInv
<1>6. CASE StartsReset
  <2>1. /\ op'.phase = "resetting" /\ op'.name = "reset" /\ card' = card /\ ~host'.usable
    BY <1>1, <1>6, Generations DEF StartsReset, Starts, fieldVars
  <2>2. StagedInv'  BY <1>1, <2>1 DEF StagedInv
  <2>3. AppliedInv'  BY <2>1 DEF AppliedInv, PlanAllOrNothing, Idle
  <2> QED  BY <2>2, <2>3 DEF PlansInv
<1> QED  BY <1>3, <1>4, <1>5, <1>6, CallCases

\* The steps of a plan keep it.
LEMMA TransactionPlans ==
    ASSUME TypeOK, ControlInv, PlansInv, Transaction
    PROVE  PlansInv'
<1>1. /\ host \in HostType /\ PlanInv /\ op.phase \in PlanPhases
      /\ op.name = "transaction" /\ ~Idle /\ ~card.torn
      /\ op.plan \in Plans /\ op.index \in 1..Len(op.plan) /\ op.answer \in Answers
  BY DEF TypeOK, OpType, Transaction, QuerySettings, SettingsReturned, CheckMutation,
         StageMutation, MutationReturned, Commit, CommitReturned, ControlInv, PlanInv,
         PlanPhases, Idle, PlansInv, StagedInv
<1>2. /\ host.usable /\ SameCard => card.staged = Progress
      /\ host.usable /\ SameCard /\ card.staged # 0 => card.planned = Len(op.plan)
  BY <1>1 DEF PlansInv, StagedInv
<1>3. PlanSteps  BY <1>1, TransactionCases
<1>4. ~Invalidate(host).usable  BY <1>1, Generations
<1>5. /\ op.plan \in Seq(Files) /\ Len(op.plan) \in Nat /\ op.index \in Nat
  BY <1>1, ConstantsAssumption
<1>6. AppliedInv  BY DEF PlansInv
<1>7. CASE EndsPlan
  <2>1. CASE op.phase = "planning" /\ Return(op, host, "not_sent")
    <3>1. NothingStaged /\ op.applied = 0
      BY <1>1, <1>6, <2>1 DEF AppliedInv, At
    <3>2. Progress = 0  BY <2>1 DEF Progress, At
    <3> QED
      BY <1>1, <1>2, <2>1, <3>1, <3>2, ReturnPlans DEF NothingStaged, SameCard
  <2>2. CASE /\ op.phase = "returned" /\ op.part = "query" /\ op.answer # "succeeded"
             /\ Return(op, host, op.answer)
    <3>1. NothingStaged /\ op.applied = 0
      BY <1>1, <1>6, <2>2 DEF AppliedInv, At
    <3>2. Progress = 0  BY <2>2 DEF Progress, At
    <3> QED
      BY <1>1, <1>2, <2>2, <3>1, <3>2, ReturnPlans DEF NothingStaged, SameCard
  <2>3. ASSUME NEW a \in {"not_sent", "rejected", "unknown"},
               Return(op, StageResult(host, op, a).host, StageResult(host, op, a).outcome),
               \/ op.phase = "staging" /\ a = "not_sent"
               \/ op.phase = "returned" /\ op.part = "stage" /\ op.answer = a
        PROVE  PlansInv'
    <3>1. At("stage", "staging") /\ ~At("query", "planning") /\ ~Accepted
      BY <2>3 DEF At, Accepted, InChannel, ChannelPhases
    <3>2. Progress = op.index - 1  BY <3>1 DEF Progress
    <3>3. op.applied = 0 /\ (EarlyStage => NothingStaged)
      BY <1>1, <1>6, <3>1 DEF AppliedInv
    <3>4. CASE op.index > 1 \/ a = "unknown"
      <4>1. /\ StageResult(host, op, a).host = Invalidate(host)
            /\ StageResult(host, op, a).outcome = "unknown"
        BY <3>4 DEF StageResult, Outcome
      <4> QED  BY <1>1, <1>4, <2>3, <4>1, ReturnPlans
    <3>5. CASE ~(op.index > 1 \/ a = "unknown")
      <4>1. StageResult(host, op, a).host = host /\ StageResult(host, op, a).outcome = a
        BY <3>5 DEF StageResult, Outcome
      <4>2. op.index = 1  BY <1>1, <1>5, <3>5
      <4>3. NothingStaged  BY <2>3, <3>3, <3>5, <4>2 DEF EarlyStage
      <4>4. host.usable /\ SameCard => card.staged = 0  BY <1>2, <3>2, <4>2
      <4> QED
        BY <1>1, <2>3, <3>3, <3>5, <4>1, <4>3, <4>4, ReturnPlans
        DEF NothingStaged, SameCard
    <3> QED  BY <3>4, <3>5
  <2>4. CASE op.phase = "committing" /\ Return(op, Invalidate(host), "unknown")
    BY <1>1, <1>4, <2>4, ReturnPlans
  <2>5. CASE /\ op.phase = "returned" /\ op.part = "commit"
             /\ Return(op, CommitResult(host, op.answer).host,
                           CommitResult(host, op.answer).outcome)
    <3>1. CASE op.answer = "succeeded"
      <4>1. /\ CommitResult(host, op.answer).host = host
            /\ CommitResult(host, op.answer).outcome = "succeeded"
        BY <3>1 DEF CommitResult, Outcome
      <4>2. Progress = 0 /\ op.applied = Len(op.plan)
        BY <1>1, <1>6, <2>5, <3>1 DEF Progress, At, Accepted, AppliedInv
      <4> QED  BY <1>1, <1>2, <2>5, <4>1, <4>2, ReturnPlans DEF SameCard
    <3>2. CASE op.answer # "succeeded"
      <4>1. /\ CommitResult(host, op.answer).host = Invalidate(host)
            /\ CommitResult(host, op.answer).outcome = "unknown"
        BY <3>2 DEF CommitResult, Outcome
      <4> QED  BY <1>1, <1>4, <2>5, <4>1, ReturnPlans
    <3> QED  BY <3>1, <3>2
  <2>6. op.phase = "returned" => op.answer # "none"  BY <1>1 DEF PlanInv
  <2> QED  BY <1>1, <1>7, <2>1, <2>2, <2>3, <2>4, <2>5, <2>6 DEF EndsPlan, Answers
<1>8. ASSUME KeepsPlan, ~op'.phase = "idle"
      PROVE  /\ op'.name = "transaction" /\ op'.plan = op.plan /\ card' = card
             /\ generation' = generation /\ op'.applied = op.applied
             /\ op'.entered = op.entered /\ ~Idle'
             /\ PlanAllOrNothing' /\ NothingStaged' = NothingStaged
  BY <1>1, <1>8 DEF KeepsPlan, fieldVars, Idle, PlanAllOrNothing, NothingStaged
<1>9. ASSUME NEW phase, NEW part, TakesCommand(phase, part),
             <<phase, part>> \in {<<"planning", "query">>, <<"staging", "stage">>,
                                  <<"committing", "commit">>}
      PROVE  PlansInv'
  <2>1. /\ op'.phase \in {"admitted", "returned"} /\ op'.part = part
        /\ op'.index = op.index /\ op.phase = phase /\ KeepsPlan
        /\ op'.phase = "returned" => op'.answer = "not_sent"
        /\ op'.phase = "admitted" => SameCard
        /\ host'.generation = host.generation
        /\ host'.usable => host.usable
    BY <1>9 DEF TakesCommand, RefusesCommand, AdmitsCommand
  <2>2. /\ op'.name = "transaction" /\ op'.plan = op.plan /\ card' = card
        /\ generation' = generation /\ op'.applied = op.applied
        /\ op'.entered = op.entered /\ ~Idle'
        /\ PlanAllOrNothing' /\ NothingStaged' = NothingStaged
    BY <1>8, <2>1
  <2>3. ~Accepted'  BY <2>1 DEF Accepted
  <2>4. ~Accepted  BY <1>9, <2>1 DEF Accepted
  <2>5. /\ At("query", "planning")' <=> part = "query"
        /\ At("stage", "staging")' <=> part = "stage"
        /\ At("query", "planning") <=> part = "query"
        /\ At("stage", "staging") <=> part = "stage"
    BY <1>9, <2>1 DEF At, InChannel, ChannelPhases
  <2>6. Progress' = Progress
    BY <2>1, <2>2, <2>3, <2>4, <2>5 DEF Progress
  <2>7. StagedInv'
    BY <1>1, <1>2, <2>1, <2>2, <2>6 DEF StagedInv, SameCard
  <2>8. EarlyStage' /\ part = "stage" => EarlyStage
    BY <1>9, <2>1 DEF EarlyStage
  <2>9. AppliedInv'
    BY <1>1, <1>6, <2>1, <2>2, <2>5, <2>8 DEF AppliedInv
  <2> QED  BY <2>7, <2>9 DEF PlansInv
<1>10. ASSUME NEW phase \in {"planning", "staging", "committing"},
              NEW index \in Nat, MovesOn(phase, index),
              host.usable /\ SameCard => card.staged =
                (IF phase = "planning" THEN 0
                 ELSE IF phase = "staging" THEN index - 1 ELSE Len(op.plan)),
              phase = "planning" => NothingStaged /\ op.applied = 0,
              phase = "staging" => op.applied = 0 /\ (index = 1 => NothingStaged)
       PROVE  PlansInv'
  <2>1. op'.phase = phase /\ op'.index = index /\ host' = host /\ KeepsPlan
    BY <1>10 DEF MovesOn
  <2>2. /\ op'.name = "transaction" /\ op'.plan = op.plan /\ card' = card
        /\ generation' = generation /\ op'.applied = op.applied
        /\ op'.entered = op.entered /\ ~Idle'
        /\ PlanAllOrNothing' /\ NothingStaged' = NothingStaged
    BY <1>8, <2>1
  <2>3. /\ At("query", "planning")' <=> phase = "planning"
        /\ At("stage", "staging")' <=> phase = "staging"
        /\ ~Accepted'
    BY <2>1 DEF At, InChannel, ChannelPhases, Accepted
  <2>4. host.usable /\ SameCard => card.staged = Progress'
    <3>1. CASE phase = "planning"  BY <1>10, <2>3, <3>1 DEF Progress
    <3>2. CASE phase = "staging"  BY <1>10, <2>1, <2>3, <3>2 DEF Progress
    <3>3. CASE phase = "committing"  BY <1>10, <2>2, <2>3, <3>3 DEF Progress
    <3> QED  BY <3>1, <3>2, <3>3
  <2>5. StagedInv'
    BY <1>1, <1>2, <2>1, <2>2, <2>4 DEF StagedInv, SameCard
  <2>6. AppliedInv'
    BY <1>10, <2>1, <2>2, <2>3 DEF AppliedInv, EarlyStage
  <2> QED  BY <2>5, <2>6 DEF PlansInv
<1>11. CASE /\ op.phase = "returned" /\ op.part = "query" /\ op.answer = "succeeded"
            /\ MovesOn("planning", op.index)
  <2>1. At("query", "planning")  BY <1>11 DEF At
  <2>2. Progress = 0  BY <2>1 DEF Progress
  <2>3. NothingStaged /\ op.applied = 0  BY <1>1, <1>6, <2>1 DEF AppliedInv
  <2> QED  BY <1>2, <1>5, <1>10, <1>11, <2>2, <2>3
<1>12. CASE op.phase = "planning" /\ AdvancesFrom("planning", "staging")
  <2>1. At("query", "planning")  BY <1>12 DEF At
  <2>2. Progress = 0  BY <2>1 DEF Progress
  <2>3. NothingStaged /\ op.applied = 0  BY <1>1, <1>6, <2>1 DEF AppliedInv
  <2>4. CASE MovesOn("planning", op.index + 1)
    BY <1>2, <1>5, <1>10, <2>2, <2>3, <2>4
  <2>5. CASE MovesOn("staging", 1)
    BY <1>2, <1>10, <2>2, <2>3, <2>5
  <2> QED  BY <1>12, <2>4, <2>5 DEF AdvancesFrom
<1>13. CASE /\ op.phase = "returned" /\ op.part = "stage" /\ op.answer = "succeeded"
            /\ AdvancesFrom("staging", "committing")
  <2>1. At("stage", "staging") /\ ~At("query", "planning") /\ Accepted
    BY <1>13 DEF At, Accepted, InChannel, ChannelPhases
  <2>2. Progress = op.index  BY <2>1 DEF Progress
  <2>3. op.applied = 0  BY <1>1, <1>6, <2>1 DEF AppliedInv
  <2>4. CASE MovesOn("staging", op.index + 1)
    <3>1. op.index + 1 \in Nat /\ op.index + 1 # 1 /\ (op.index + 1) - 1 = op.index
      BY <1>1, <1>5
    <3> QED  BY <1>2, <1>10, <2>2, <2>3, <2>4, <3>1
  <2>5. CASE ~(op.index < Len(op.plan)) /\ MovesOn("committing", 1)
    <3>1. op.index = Len(op.plan)  BY <1>1, <1>5, <2>5
    <3> QED  BY <1>2, <1>10, <2>2, <2>5, <3>1
  <2> QED  BY <1>13, <2>4, <2>5 DEF AdvancesFrom
<1> QED
  BY <1>3, <1>7, <1>9, <1>11, <1>12, <1>13 DEF PlanSteps

\* The returns keep it.
LEMMA ReturnsPlans ==
    ASSUME TypeOK, ControlInv, HandshakeInv, PlansInv, Returns
    PROVE  PlansInv'
<1>1. /\ host \in HostType /\ op \in OpType /\ ~card.torn /\ StagedInv /\ AppliedInv
  BY DEF TypeOK, PlansInv, StagedInv
<1>2. CASE ResetReturns
  <2>1. op.name = "reset" /\ host = Invalidate(op.saved) /\ op.saved \in HostType
    BY <1>1, <1>2 DEF ResetReturns, ControlInv, PlanInv, ResetPhases, OpType
  <2>2. ~host.usable  BY <2>1, Generations
  <2>3. CASE op.phase = "repowered" /\ Return(op, Rebound(host), "succeeded")
    <3>1. card.staged = 0  BY <2>3 DEF HandshakeInv, FreshCard
    <3> QED  BY <1>1, <2>1, <2>3, <3>1, ReturnPlans
  <2>4. ASSUME NEW failure, Return(op, host, failure) PROVE PlansInv'
    BY <1>1, <2>1, <2>2, <2>4, ReturnPlans
  <2> QED  BY <1>2, <2>3, <2>4 DEF ResetReturns
<1>3. ASSUME op.phase = "answered", ReturnsAnswer PROVE PlansInv'
  <2>1. PICK h, x : Return(op, h, x) /\ h.generation = host.generation
    BY <1>3 DEF ReturnsAnswer
  <2>2. op.name # "transaction"  BY <1>3 DEF ReturnsAnswer
  <2>3. host.usable  BY <1>3, UsableInChannel DEF InChannel, ChannelPhases
  <2>4. generation = h.generation => card.staged = 0
    BY <1>1, <2>1, <2>2, <2>3 DEF StagedInv, SameCard
  <2> QED  BY <1>1, <2>1, <2>2, <2>4, ReturnPlans
<1>4. ASSUME op.phase = "answered", ReturnsToPlan PROVE PlansInv'
  <2>1. /\ op.name = "transaction" /\ op'.name = "transaction" /\ op'.plan = op.plan
        /\ op'.phase = "returned" /\ op'.index = op.index /\ op'.part = op.part
        /\ op'.applied = op.applied /\ op'.entered = op.entered
        /\ card' = card /\ generation' = generation
        /\ host'.generation = host.generation
    BY <1>4 DEF ReturnsToPlan, KeepsPlan, fieldVars
  <2>2. host.usable /\ InChannel /\ ~Idle
    BY <1>4, UsableInChannel DEF InChannel, ChannelPhases, Idle
  <2>3. op.answer \in {"succeeded", "rejected"} => op.reply = op.answer
    BY <1>4 DEF ControlInv, ReplyInv
  <2>4. op.answer = "not_sent" => op.reply = "none"
    BY <1>4 DEF ControlInv, ReplyInv
  <2>5. /\ At("query", "planning")' <=> At("query", "planning")
        /\ At("stage", "staging")' <=> At("stage", "staging")
        /\ At("stage", "staging") <=> op.part = "stage"
    BY <1>4, <2>1 DEF At, InChannel, ChannelPhases
  <2>6. host'.usable /\ SameCard => (Accepted' <=> Accepted)
    <3> SUFFICES ASSUME host'.usable, SameCard PROVE Accepted' <=> Accepted
      OBVIOUS
    <3>1. /\ op'.answer = op.answer
          /\ op'.answer \in {"succeeded", "rejected", "not_sent"}
      BY <1>4 DEF ReturnsToPlan
    <3> QED  BY <1>4, <2>1, <2>3, <2>4, <3>1 DEF Accepted
  <2>7. host'.usable /\ SameCard => Progress' = Progress
    BY <2>1, <2>5, <2>6 DEF Progress
  <2>8. StagedInv'
    BY <1>1, <2>1, <2>2, <2>7 DEF StagedInv, SameCard, Idle
  <2>9. NothingStaged' = NothingStaged  BY <2>1 DEF NothingStaged
  <2>10. EarlyStage' => EarlyStage
    BY <1>4, <2>1 DEF EarlyStage, ReturnsToPlan
  <2>11. op'.part = "commit" /\ op'.answer = "succeeded" => op'.applied = Len(op'.plan)
    <3> SUFFICES ASSUME op'.part = "commit", op'.answer = "succeeded"
                 PROVE  op'.applied = Len(op'.plan)
      OBVIOUS
    <3>1. SameCard /\ op.answer = "succeeded"  BY <1>4 DEF ReturnsToPlan
    <3>2. op.reply = "succeeded"  BY <2>3, <3>1
    <3> QED  BY <1>1, <1>4, <2>1, <2>2, <3>1, <3>2 DEF AppliedInv
  <2>12. AppliedInv'
    BY <1>1, <2>1, <2>2, <2>5, <2>9, <2>10, <2>11
    DEF AppliedInv, PlanAllOrNothing, Idle
  <2> QED  BY <2>8, <2>12 DEF PlansInv
<1> QED  BY <1>2, <1>3, <1>4, AnswerCases

\* The steps of the channel keep it.
LEMMA ChannelPlans ==
    ASSUME TypeOK, ControlInv, PlansInv, Channel
    PROVE  PlansInv'
<1>1. op \in OpType /\ StagedInv /\ AppliedInv /\ ReplyInv
  BY DEF TypeOK, PlansInv, ControlInv
<1>2. CASE ChallengeArrives
  <2>1. /\ op'.phase = "begun" /\ op'.name = op.name /\ host' = host /\ card' = card
        /\ generation' = generation /\ op.phase = "heard" /\ op.reply = "challenge"
    BY <1>1, <1>2 DEF ChallengeArrives, OpType
  <2>2. op.name \in Handshakes  BY <1>1, <2>1 DEF ReplyInv
  <2>3. op.name \notin {"transaction", "execute"}  BY <2>2 DEF Handshakes
  <2>4. StagedInv'  BY <1>1, <2>1, <2>3 DEF StagedInv, SameCard, Idle
  <2> QED  BY <2>1, <2>3, <2>4 DEF PlansInv, AppliedInv, PlanAllOrNothing, Idle
<1>3. ASSUME KeepsChannel, op'.reply = op.reply, op'.applied = op.applied,
             card' = card, generation' = generation,
             \/ op.phase = "admitted" /\ op'.phase = "begun"
             \/ /\ op.phase \in {"admitted", "begun", "heard"} /\ op'.phase = "answered"
                /\ op'.answer = "rejected" => op.phase = "heard" /\ op.reply = "rejected"
                /\ op'.answer = "not_sent" => op.phase \in {"admitted", "begun"}
      PROVE  PlansInv'
  <2>1. /\ op'.name = op.name /\ op'.plan = op.plan /\ op'.index = op.index
        /\ op'.part = op.part /\ op'.entered = op.entered /\ host' = host
    BY <1>3 DEF KeepsChannel
  <2>2. op.phase \in {"admitted", "begun"} => op.reply = "none"
    BY <1>1 DEF ReplyInv
  <2>3. /\ At("query", "planning")' <=> At("query", "planning")
        /\ At("stage", "staging")' <=> At("stage", "staging")
        /\ Accepted' <=> Accepted
    BY <1>3, <2>1, <2>2 DEF At, InChannel, ChannelPhases, Accepted
  <2>4. Progress' = Progress  BY <2>1, <2>3 DEF Progress
  <2>5. StagedInv'
    BY <1>1, <1>3, <2>1, <2>4 DEF StagedInv, SameCard, Idle
  <2>6. NothingStaged' = NothingStaged  BY <1>3, <2>1 DEF NothingStaged
  <2>7. EarlyStage' => EarlyStage  BY <1>3, <2>1 DEF EarlyStage
  <2>8. op'.phase \in {"heard", "answered"} /\ op'.reply = "succeeded" => op.phase = "heard"
    BY <1>3, <2>2
  <2>9. AppliedInv'
    BY <1>1, <1>3, <2>1, <2>3, <2>6, <2>7, <2>8
    DEF AppliedInv, PlanAllOrNothing, Idle, SameCard
  <2> QED  BY <2>5, <2>9 DEF PlansInv
<1>4. CASE ChannelBegins
  <2>1. /\ KeepsChannel /\ op'.reply = op.reply /\ op'.applied = op.applied
        /\ card' = card /\ generation' = generation
        /\ op.phase = "admitted" /\ op'.phase = "begun"
    BY <1>1, <1>4 DEF ChannelBegins, KeepsChannel, OpType
  <2> QED  BY <1>3, <2>1
<1>5. CASE ChannelReturns
  BY <1>3, <1>5, ChannelReturnsIs
<1> QED  BY <1>2, <1>4, <1>5 DEF Channel

\* What a command does to what is staged on a card.
LEMMA ExecutedStages ==
    ASSUME NEW c \in CardType, NEW command
    PROVE  LET x == Executed(c, command) IN
           /\ command.effect = "stage" =>
                x.staged = c.staged + 1 /\ x.planned = Len(op.plan) /\ x.torn = c.torn
           /\ command.effect = "commit" =>
                x.staged = 0 /\ x.torn = (c.torn \/ c.staged \notin {0, c.planned})
           /\ command.effect = "abort" => x.staged = 0 /\ x.torn = c.torn
           /\ command.effect \notin {"stage", "commit", "abort"} =>
                x.staged = c.staged /\ x.planned = c.planned /\ x.torn = c.torn
<1> DEFINE d == IF command.drops THEN Unauthenticated(c) ELSE c
           x == Executed(c, command)
<1>1. d \in CardType /\ d.staged = c.staged /\ d.planned = c.planned /\ d.torn = c.torn
  BY UnauthenticatedIs, StartTypes DEF Unauthenticated, CardType
<1>2. x = IF command.effect = "stage"
            THEN [d EXCEPT !.staged = @ + 1, !.planned = Len(op.plan)]
          ELSE IF command.effect = "commit"
            THEN [d EXCEPT !.torn = @ \/ d.staged \notin {0, d.planned}, !.staged = 0]
          ELSE IF command.effect = "abort" THEN [d EXCEPT !.staged = 0]
          ELSE d
  BY ExecutedIs, Zenon
<1>3. DOMAIN d = {"selected", "session", "key", "challenged", "staged", "planned", "torn"}
  BY <1>1 DEF CardType
<1> HIDE DEF d, x
<1>4. CASE command.effect = "stage"
  BY <1>1, <1>2, <1>3, <1>4 DEF x
<1>5. CASE command.effect = "commit"
  <2>1. x = [d EXCEPT !.torn = @ \/ d.staged \notin {0, d.planned}, !.staged = 0]
    BY <1>2, <1>5
  <2>2. x.staged = 0 /\ x.torn = (d.torn \/ d.staged \notin {0, d.planned})
    BY <1>3, <2>1
  <2> QED  BY <1>1, <1>5, <2>2 DEF x
<1>6. CASE command.effect = "abort"
  BY <1>1, <1>2, <1>3, <1>6 DEF x
<1>7. CASE command.effect \notin {"stage", "commit", "abort"}
  BY <1>1, <1>2, <1>7 DEF x
<1> QED  BY <1>4, <1>5, <1>6, <1>7

\* The card hears a frame: what must have become of the mutations it holds.
StagesAsHeard ==
    IF op.name # "transaction" THEN SameCard => card'.staged = 0
    ELSE IF op'.reply = "succeeded" /\ op.part = "stage"
      THEN /\ card'.staged = card.staged + 1 /\ card'.planned = Len(op.plan)
           /\ op'.applied = op.applied
    ELSE IF op'.reply = "succeeded" /\ op.part = "commit"
      THEN card'.staged = 0 /\ op'.applied = card.staged
    ELSE /\ card'.staged = card.staged /\ card'.planned = card.planned
         /\ op'.applied = op.applied

\* Such a step keeps it.
LEMMA HeardPlans ==
    ASSUME TypeOK, ControlInv, PlansInv, KeepsChannel, op.phase = "begun",
           op'.phase = "heard", op'.reply \in {"succeeded", "rejected", "challenge"},
           op.name = "transaction" => op'.reply # "challenge",
           generation' = generation, ~card'.torn, StagesAsHeard
    PROVE  PlansInv'
<1>1. /\ StagedInv /\ AppliedInv /\ host.usable /\ ~Idle /\ InChannel
  BY UsableInChannel DEF PlansInv, InChannel, ChannelPhases, Idle
<1>2. /\ op'.name = op.name /\ op'.plan = op.plan /\ op'.index = op.index
      /\ op'.part = op.part /\ op'.entered = op.entered /\ host' = host
  BY DEF KeepsChannel
<1>3. ~Idle' /\ PlanAllOrNothing' /\ SameCard' = SameCard
  BY <1>2 DEF Idle, PlanAllOrNothing, SameCard
<1>4. CASE op.name # "transaction"
  <2>1. StagedInv'  BY <1>1, <1>2, <1>3, <1>4 DEF StagedInv, StagesAsHeard
  <2> QED  BY <1>2, <1>3, <1>4, <2>1 DEF PlansInv, AppliedInv
<1>5. CASE op.name = "transaction"
  <2>1. /\ SameCard => card.staged = Progress
        /\ SameCard /\ card.staged # 0 => card.planned = Len(op.plan)
    BY <1>1, <1>5 DEF StagedInv
  <2>2. /\ op.part \in {"query", "stage", "commit"} /\ op.index \in Nat
        /\ card.staged \in Nat /\ Len(op.plan) \in Nat
    <3>1. op.plan \in Seq(Files)  BY <1>1, <1>5, ConstantsAssumption DEF ControlInv, PlanInv
    <3> QED  BY <1>1, <1>5, <3>1 DEF ControlInv, PlanInv, TypeOK, CardType, OpType
  <2>3. /\ At("query", "planning") <=> op.part = "query"
        /\ At("stage", "staging") <=> op.part = "stage"
        /\ At("query", "planning")' <=> op.part = "query"
        /\ At("stage", "staging")' <=> op.part = "stage"
        /\ ~Accepted
        /\ Accepted' <=> op'.reply = "succeeded"
    BY <1>1, <1>2 DEF At, InChannel, ChannelPhases, Accepted
  <2>4. /\ op.part = "query" => Progress = 0 /\ Progress' = 0
        /\ op.part = "stage" =>
             /\ Progress = op.index - 1
             /\ Progress' = IF op'.reply = "succeeded" THEN op.index ELSE op.index - 1
        /\ op.part = "commit" =>
             /\ Progress = Len(op.plan)
             /\ Progress' = IF op'.reply = "succeeded" THEN 0 ELSE Len(op.plan)
    BY <1>2, <2>3 DEF Progress
  <2>5. SameCard => card'.staged = Progress'
    BY <1>5, <2>1, <2>2, <2>4 DEF StagesAsHeard
  <2>6. SameCard /\ card'.staged # 0 => card'.planned = Len(op.plan)
    BY <1>5, <2>1, <2>2 DEF StagesAsHeard
  <2>7. StagedInv'
    BY <1>2, <1>3, <1>5, <2>5, <2>6 DEF StagedInv
  <2>8. op.part = "query" => NothingStaged' /\ op'.applied = 0
    BY <1>1, <1>2, <1>5, <2>3 DEF AppliedInv, StagesAsHeard, NothingStaged
  <2>9. op.part = "stage" => op'.applied = 0 /\ (EarlyStage' => NothingStaged')
    <3> SUFFICES ASSUME op.part = "stage"
                 PROVE  op'.applied = 0 /\ (EarlyStage' => NothingStaged')
      OBVIOUS
    <3>1. op.applied = 0 /\ (EarlyStage => NothingStaged)
      BY <1>1, <1>5, <2>3 DEF AppliedInv
    <3>2. op'.applied = 0  BY <1>5, <3>1 DEF StagesAsHeard
    <3>3. EarlyStage' => op'.reply = "rejected" /\ EarlyStage
      BY <1>2 DEF EarlyStage
    <3>4. op'.reply = "rejected" => card'.staged = card.staged
      BY <1>5 DEF StagesAsHeard
    <3> QED  BY <1>2, <3>1, <3>2, <3>3, <3>4 DEF NothingStaged
  <2>10. op.part = "commit" /\ op'.reply = "succeeded" /\ SameCard =>
           op'.applied = Len(op.plan)
    BY <1>5, <2>1, <2>4 DEF StagesAsHeard
  <2>11. AppliedInv'
    BY <1>2, <1>3, <2>3, <2>8, <2>9, <2>10 DEF AppliedInv
  <2> QED  BY <2>7, <2>11 DEF PlansInv
<1> QED  BY <1>4, <1>5

\* The steps of the card field keep it.
LEMMA FieldPlans ==
    ASSUME TypeOK, ControlInv, PlansInv, Field
    PROVE  PlansInv'
<1>1. /\ op \in OpType /\ card \in CardType /\ host \in HostType
      /\ StagedInv /\ AppliedInv /\ ~card.torn /\ ControlInv
  BY DEF TypeOK, PlansInv, StagedInv
<1>2. ASSUME NEW c, NEW reply \in Replies, Hears(c, reply)
      PROVE  /\ KeepsChannel /\ op.phase = "begun" /\ op'.phase = "heard"
             /\ op'.reply = reply /\ generation' = generation /\ card' = c
             /\ op'.applied = op.applied
  BY <1>1, <1>2 DEF Hears, KeepsChannel, OpType
<1>3. ASSUME op.phase = "begun", op.name # "transaction", SameCard
      PROVE  card.staged = 0
  <2>1. host.usable  BY <1>3, UsableInChannel DEF InChannel, ChannelPhases
  <2> QED  BY <1>1, <1>3, <2>1 DEF StagedInv
<1>4. ASSUME NEW c, NEW reply \in {"succeeded", "rejected", "challenge"}, Hears(c, reply),
             op.name = "transaction" => reply = "rejected",
             c.staged = card.staged \/ (op.name # "transaction" /\ c.staged = 0),
             c.planned = card.planned, c.torn = card.torn
      PROVE  PlansInv'
  <2>1. /\ KeepsChannel /\ op.phase = "begun" /\ op'.phase = "heard"
        /\ op'.reply = reply /\ generation' = generation /\ card' = c
        /\ op'.applied = op.applied
    BY <1>2, <1>4 DEF Replies
  <2>2. StagesAsHeard  BY <1>3, <1>4, <2>1 DEF StagesAsHeard
  <2> QED  BY <1>1, <1>4, <2>1, <2>2, HeardPlans
<1>5. /\ Unauthenticated(card).staged = card.staged
      /\ Unauthenticated(card).planned = card.planned
      /\ Unauthenticated(card).torn = card.torn
  BY <1>1, UnauthenticatedIs
<1>6. CASE CardSelects
  <2>1. op.name \in {"select", "iso_select"}  BY <1>6 DEF CardSelects
  <2>2. ASSUME NEW a,
               Hears([Unauthenticated(card) EXCEPT !.selected = a, !.staged = 0], "succeeded")
        PROVE  PlansInv'
    <3> DEFINE c == [Unauthenticated(card) EXCEPT !.selected = a, !.staged = 0]
    <3>1. c.staged = 0 /\ c.planned = card.planned /\ c.torn = card.torn
      BY <1>1 DEF CardType, Unauthenticated
    <3> HIDE DEF c
    <3> QED  BY <1>4, <2>1, <2>2, <3>1 DEF c
  <2>3. ASSUME Hears(IF op.name = "select" THEN Unauthenticated(card) ELSE card, "rejected")
        PROVE  PlansInv'
    BY <1>4, <1>5, <2>1, <2>3
  <2> QED  BY <1>6, <2>2, <2>3, Zenon DEF CardSelects
<1>7. CASE CardExecutes
  <2>1. CASE Hears(Unauthenticated(card), "rejected")
    BY <1>4, <1>5, <2>1
  <2>2. CASE ~Hears(Unauthenticated(card), "rejected")
    <3> DEFINE n == IF op.command.effect = "commit" THEN card.staged ELSE op.applied
    <3>1. /\ op.phase = "begun" /\ host' = host /\ generation' = generation
          /\ card' = Executed(card, op.command)
          /\ op' = [op EXCEPT !.phase = "heard", !.reply = "succeeded",
                              !.cards = @ \cup {generation}, !.applied = n]
      BY <1>7, <2>2 DEF CardExecutes
    <3> HIDE DEF n
    <3>2. KeepsChannel /\ op'.phase = "heard" /\ op'.reply = "succeeded" /\ op'.applied = n
      BY <1>1, <3>1 DEF KeepsChannel, OpType
    <3>3. InChannel /\ ~Idle /\ host.usable
      BY <3>1, UsableInChannel DEF InChannel, ChannelPhases, Idle
    <3>4. CASE op.name = "transaction"
      <4>1. /\ op.part \in {"query", "stage", "commit"}
            /\ op.command = CommandOf(op.part)
        BY <1>1, <3>3, <3>4 DEF ControlInv, PlanInv
      <4>2. /\ op.part = "query" => op.command.effect = "none"
            /\ op.part = "stage" => op.command.effect = "stage"
            /\ op.part = "commit" => op.command.effect = "commit"
        BY <4>1 DEF CommandOf, GetFileSettings, Mutation, CommitTransaction, NoCommand
      <4>3. StagesAsHeard
        BY <1>1, <3>1, <3>2, <3>4, <4>1, <4>2, ExecutedStages DEF StagesAsHeard, n
      <4>4. ~card'.torn
        <5>1. CASE op.part = "commit"
          <6>1. card'.torn = (card.torn \/ card.staged \notin {0, card.planned})
            BY <1>1, <3>1, <4>2, <5>1, ExecutedStages
          <6>2. card.staged \in {0, card.planned}
            <7>1. CASE SameCard
              <8>1. ~At("query", "planning") /\ ~At("stage", "staging") /\ ~Accepted
                BY <3>1, <5>1 DEF At, Accepted
              <8>2. Progress = Len(op.plan)  BY <8>1 DEF Progress
              <8> QED  BY <1>1, <3>3, <3>4, <7>1, <8>2 DEF StagedInv
            <7>2. CASE ~SameCard  BY <1>1, <3>1, <3>4, <7>2 DEF StagedInv
            <7> QED  BY <7>1, <7>2
          <6> QED  BY <1>1, <6>1, <6>2
        <5>2. CASE op.part # "commit"
          BY <1>1, <3>1, <4>1, <4>2, <5>2, ExecutedStages
        <5> QED  BY <5>1, <5>2
      <4> QED  BY <1>1, <3>1, <3>2, <4>3, <4>4, HeardPlans
    <3>5. CASE op.name # "transaction"
      <4>1. SameCard => card.staged = 0  BY <1>3, <3>1, <3>5
      <4>2. op.name = "execute" => card.staged = 0
        BY <1>1, <3>1, <4>1 DEF StagedInv
      <4>3. op.command.effect \in {"none", "commit", "abort"}
        BY <1>1, <3>3, <3>5, ConstantsAssumption
        DEF ControlInv, ChannelInv, NoCommand, OpType, CommandType, Mutation, CommitTransaction
      <4>4. op.name # "execute" => op.command.effect = "none"
        BY <1>1, <3>3, <3>5 DEF ControlInv, ChannelInv, NoCommand
      <4>5. ~card'.torn /\ (card'.staged = card.staged \/ card'.staged = 0)
        <5>1. CASE op.command.effect = "commit"
          <6>1. card'.staged = 0 /\ card'.torn = (card.torn \/ card.staged \notin {0, card.planned})
            BY <1>1, <3>1, <5>1, ExecutedStages
          <6>2. card.staged = 0  BY <4>2, <4>4, <5>1
          <6> QED  BY <1>1, <6>1, <6>2
        <5>2. CASE op.command.effect # "commit"
          BY <1>1, <3>1, <4>3, <5>2, ExecutedStages
        <5> QED  BY <5>1, <5>2
      <4>6. StagesAsHeard  BY <3>5, <4>1, <4>5 DEF StagesAsHeard
      <4> QED  BY <1>1, <3>1, <3>2, <3>5, <4>5, <4>6, HeardPlans
    <3> QED  BY <3>4, <3>5
  <2> QED  BY <2>1, <2>2
<1>8. CASE CardChallenges
  <2>1. op.name # "transaction"  BY <1>8 DEF CardChallenges, Handshakes
  <2>2. CASE Hears(Unauthenticated(card), "rejected")
    BY <1>4, <1>5, <2>2
  <2>3. CASE ~Hears(Unauthenticated(card), "rejected")
    <3> DEFINE c == [Unauthenticated(card) EXCEPT !.challenged = TRUE]
    <3>1. Hears(c, "challenge")  BY <1>8, <2>3 DEF CardChallenges
    <3>2. c.staged = card.staged /\ c.planned = card.planned /\ c.torn = card.torn
      BY <1>1 DEF CardType, Unauthenticated
    <3> HIDE DEF c
    <3> QED  BY <1>4, <2>1, <3>1, <3>2
  <2> QED  BY <2>2, <2>3
<1>9. CASE CardProves
  <2>1. op.name # "transaction"  BY <1>9 DEF CardProves, Handshakes
  <2>2. CASE Hears(Unauthenticated(card), "rejected")
    BY <1>4, <1>5, <2>2
  <2>3. CASE ~Hears(Unauthenticated(card), "rejected")
    <3> DEFINE s == [family |-> FamilyOf(op.name), id |-> handshakes + 1]
               c == [card EXCEPT !.session = s, !.challenged = FALSE, !.key = op.key]
    <3>1. Hears(c, "succeeded")  BY <1>9, <2>3, Zenon DEF CardProves
    <3> HIDE DEF s
    <3>2. c.staged = card.staged /\ c.planned = card.planned /\ c.torn = card.torn
      BY <1>1 DEF CardType
    <3> HIDE DEF c
    <3> QED  BY <1>4, <2>1, <3>1, <3>2
  <2> QED  BY <2>2, <2>3
<1>10. /\ generation \in Nat /\ host.generation \in Nat /\ host.generation <= generation
       /\ ~Idle => op.entered.generation \in Int /\ op.entered.generation <= generation
  BY <1>1, ConstantsAssumption DEF TypeOK, HostType, OpType, ControlInv, OrderInv, NoCard
<1>11. FreshCard.staged = 0 /\ ~FreshCard.torn  BY DEF FreshCard
<1>12. CASE CardChanges
  <2>1. /\ generation' = generation + 1 /\ host' = host /\ op' = op /\ last' = last
        /\ card' = FreshCard
    BY <1>12 DEF CardChanges
  <2>2. ~SameCard' /\ (~Idle => NothingStaged')
    BY <1>10, <1>11, <2>1 DEF SameCard, NothingStaged
  <2>3. StagedInv'  BY <1>11, <2>1, <2>2 DEF StagedInv
  <2>4. AppliedInv'
    BY <1>1, <2>1, <2>2
    DEF AppliedInv, PlanAllOrNothing, Idle, At, InChannel, EarlyStage
  <2> QED  BY <2>3, <2>4 DEF PlansInv
<1>13. CASE CardReset
  <2>1. /\ generation' = generation + 1 /\ host' = host /\ op'.phase = "repowered"
        /\ card' = FreshCard /\ op'.name = op.name /\ op.phase = "resetting"
    BY <1>1, <1>13 DEF CardReset, OpType
  <2>2. op.name = "reset"  BY <1>1, <2>1 DEF ControlInv, PlanInv, ResetPhases
  <2>3. ~SameCard'  BY <1>10, <2>1 DEF SameCard
  <2>4. StagedInv'  BY <1>11, <2>1, <2>3 DEF StagedInv
  <2> QED
    BY <2>1, <2>2, <2>4 DEF PlansInv, AppliedInv, PlanAllOrNothing, Idle
<1> QED
  BY <1>6, <1>7, <1>8, <1>9, <1>12, <1>13 DEF Field

-----------------------------------------------------------------------------
(***************************************************************************)
(* Layer 4 is inductive.                                                   *)
(***************************************************************************)
\* Layer 4.
EffectsInv == HistoryInv /\ UntouchedInv

\* It holds at the start.
LEMMA InitEffects == Init => EffectsInv
<1> SUFFICES ASSUME Init PROVE EffectsInv
  OBVIOUS
<1>1. op.phase = "idle" /\ last.outcome = "none"
  BY NoOpFields DEF Init, NoResult
<1> QED
  BY <1>1
  DEF EffectsInv, HistoryInv, UntouchedInv, SuccessOnOwnCard, NotSentChangesNothing,
      Idle, ResetPhases

\* It holds after an operation returned that tells the truth of its card.
LEMMA ReturnEffects ==
    ASSUME NEW o, NEW h, NEW x, Return(o, h, x),
           x = "succeeded" /\ o.name # "df_names" =>
             \A g \in o.cards : g = o.saved.generation,
           x = "not_sent" => (generation = o.entered.generation => card = o.entered.card)
    PROVE  EffectsInv'
<1>1. op'.phase = "idle"  BY NoOpFields DEF Return
<1>2. /\ last'.outcome = x /\ last'.name = o.name
      /\ last'.strayed = (\E g \in o.cards : g # o.saved.generation)
      /\ last'.changed = (generation = o.entered.generation /\ card # o.entered.card)
  BY DEF Return
<1>3. SuccessOnOwnCard'  BY <1>2 DEF SuccessOnOwnCard
<1>4. NotSentChangesNothing'  BY <1>2 DEF NotSentChangesNothing
<1> QED
  BY <1>1, <1>3, <1>4 DEF EffectsInv, HistoryInv, UntouchedInv, Idle, ResetPhases

\* The calls keep it.
LEMMA CallEffects ==
    ASSUME TypeOK, Calls
    PROVE  EffectsInv'
<1>1. CASE ReturnsAtOnce
  <2>1. /\ op'.phase = "idle" /\ ~last'.strayed /\ ~last'.changed
    BY <1>1, NoOpFields DEF ReturnsAtOnce
  <2> QED
    BY <2>1
    DEF EffectsInv, HistoryInv, UntouchedInv, SuccessOnOwnCard, NotSentChangesNothing,
        Idle, ResetPhases
<1>2. ASSUME Starts, op'.phase # "idle", op'.phase # "returned" PROVE EffectsInv'
  <2>1. /\ op'.cards = {} /\ card' = card
        /\ op'.entered = [generation |-> generation, card |-> card]
    BY <1>2 DEF Starts, fieldVars
  <2>2. Untouched'  BY <2>1 DEF Untouched
  <2> QED
    BY <1>2, <2>1, <2>2
    DEF EffectsInv, HistoryInv, UntouchedInv, OwnCards, SuccessOnOwnCard,
        NotSentChangesNothing, Idle
<1> QED
  BY <1>1, <1>2, CallCases DEF EntersChannel, StartsPlan, StartsReset

\* The steps of a plan keep it.
LEMMA TransactionEffects ==
    ASSUME TypeOK, ControlInv, EffectsInv, Transaction
    PROVE  EffectsInv'
<1>1. /\ op.name = "transaction" /\ ~Idle /\ PlanInv /\ op \in OpType
  BY DEF TypeOK, ControlInv, PlanInv, PlanPhases, Idle, Transaction, QuerySettings,
         SettingsReturned, CheckMutation, StageMutation, MutationReturned, Commit,
         CommitReturned
<1>2. PlanSteps  BY <1>1, TransactionCases
<1>3. HistoryInv /\ (Unheard => Untouched) /\ op.index \in Nat /\ op.index >= 1
  BY <1>1 DEF EffectsInv, UntouchedInv, PlanInv
<1>4. CASE EndsPlan
  <2>1. CASE op.phase = "planning" /\ Return(op, host, "not_sent")
    <3>1. Untouched  BY <1>1, <1>3, <2>1 DEF Unheard
    <3> QED  BY <2>1, <3>1, ReturnEffects DEF Untouched
  <2>2. CASE /\ op.phase = "returned" /\ op.part = "query" /\ op.answer # "succeeded"
             /\ Return(op, host, op.answer)
    <3>1. op.answer = "not_sent" => Untouched
      BY <1>1, <1>3, <2>2 DEF Unheard, EarlyPart
    <3> QED  BY <2>2, <3>1, ReturnEffects DEF Untouched
  <2>3. ASSUME NEW a \in {"not_sent", "rejected", "unknown"},
               Return(op, StageResult(host, op, a).host, StageResult(host, op, a).outcome),
               \/ op.phase = "staging" /\ a = "not_sent"
               \/ op.phase = "returned" /\ op.part = "stage" /\ op.answer = a
        PROVE  EffectsInv'
    <3>1. StageResult(host, op, a).outcome = "not_sent" => a = "not_sent" /\ op.index = 1
      BY <1>3 DEF StageResult, Outcome
    <3>2. StageResult(host, op, a).outcome # "succeeded"
      BY DEF StageResult, Outcome
    <3>3. StageResult(host, op, a).outcome = "not_sent" => Untouched
      BY <1>1, <1>3, <2>3, <3>1 DEF Unheard, EarlyPart
    <3> QED  BY <2>3, <3>2, <3>3, ReturnEffects DEF Untouched
  <2>4. CASE op.phase = "committing" /\ Return(op, Invalidate(host), "unknown")
    BY <2>4, ReturnEffects
  <2>5. CASE /\ op.phase = "returned" /\ op.part = "commit"
             /\ Return(op, CommitResult(host, op.answer).host,
                           CommitResult(host, op.answer).outcome)
    <3>1. /\ CommitResult(host, op.answer).outcome # "not_sent"
          /\ CommitResult(host, op.answer).outcome = "succeeded" => op.answer = "succeeded"
      BY DEF CommitResult, Outcome
    <3>2. op.answer = "succeeded" => OwnCards  BY <1>3, <2>5 DEF HistoryInv
    <3> QED  BY <2>5, <3>1, <3>2, ReturnEffects DEF OwnCards
  <2>6. op.phase = "returned" => op.answer # "none"  BY <1>1 DEF PlanInv
  <2>7. op.answer \in Answers  BY <1>1 DEF OpType
  <2> QED  BY <1>4, <2>1, <2>2, <2>3, <2>4, <2>5, <2>6, <2>7 DEF EndsPlan, Answers
<1>5. ASSUME KeepsPlan, op'.phase # "idle", op'.phase \notin ResetPhases,
             op'.phase \in {"planning", "staging", "committing"} => OwnCards,
             op'.phase = "returned" => op'.answer # "succeeded",
             Unheard' => Unheard
      PROVE  EffectsInv'
  <2>1. OwnCards' = OwnCards /\ Untouched' = Untouched
    BY <1>5 DEF KeepsPlan, OwnCards, Untouched, fieldVars
  <2> QED
    BY <1>3, <1>5, <2>1
    DEF EffectsInv, HistoryInv, UntouchedInv, SuccessOnOwnCard, NotSentChangesNothing, Idle
<1>6. ASSUME NEW phase, NEW part, TakesCommand(phase, part),
             <<phase, part>> \in {<<"planning", "query">>, <<"staging", "stage">>,
                                  <<"committing", "commit">>}
      PROVE  EffectsInv'
  <2>1. /\ op'.phase \in {"admitted", "returned"} /\ op'.part = part
        /\ op'.index = op.index /\ op.phase = phase /\ KeepsPlan
        /\ op'.phase = "returned" => op'.answer = "not_sent"
    BY <1>6 DEF TakesCommand, RefusesCommand, AdmitsCommand
  <2>2. op'.name = "transaction"  BY <1>1, <2>1 DEF KeepsPlan
  <2>3. Unheard' => Unheard
    BY <1>1, <1>6, <2>1, <2>2 DEF Unheard, EarlyPart
  <2> QED  BY <1>5, <2>1, <2>3 DEF ResetPhases
<1>7. ASSUME NEW phase \in {"planning", "staging", "committing"}, NEW index \in Nat,
             MovesOn(phase, index), OwnCards,
             phase = "planning" \/ (phase = "staging" /\ index = 1) => Unheard
      PROVE  EffectsInv'
  <2>1. op'.phase = phase /\ op'.index = index /\ KeepsPlan /\ op'.name = "transaction"
    BY <1>1, <1>7 DEF MovesOn, KeepsPlan
  <2>2. Unheard' => Unheard  BY <1>7, <2>1 DEF Unheard
  <2> QED  BY <1>5, <1>7, <2>1, <2>2 DEF ResetPhases
<1>8. CASE /\ op.phase = "returned" /\ op.part = "query" /\ op.answer = "succeeded"
           /\ MovesOn("planning", op.index)
  <2>1. OwnCards /\ Unheard  BY <1>1, <1>3, <1>8 DEF HistoryInv, Unheard
  <2> QED  BY <1>3, <1>7, <1>8, <2>1
<1>9. CASE op.phase = "planning" /\ AdvancesFrom("planning", "staging")
  <2>1. OwnCards /\ Unheard  BY <1>1, <1>3, <1>9 DEF HistoryInv, Unheard
  <2>2. op.index + 1 \in Nat /\ 1 \in Nat  BY <1>3
  <2> QED  BY <1>7, <1>9, <2>1, <2>2 DEF AdvancesFrom
<1>10. CASE /\ op.phase = "returned" /\ op.part = "stage" /\ op.answer = "succeeded"
            /\ AdvancesFrom("staging", "committing")
  <2>1. OwnCards  BY <1>3, <1>10 DEF HistoryInv
  <2>2. op.index + 1 \in Nat /\ op.index + 1 # 1 /\ 1 \in Nat  BY <1>3
  <2> QED  BY <1>7, <1>10, <2>1, <2>2 DEF AdvancesFrom
<1> QED  BY <1>2, <1>4, <1>6, <1>8, <1>9, <1>10 DEF PlanSteps

\* An operation in the channel whose card was not exchanged was heard by its
\* own card only.
LEMMA HeardByOwn ==
    ASSUME TypeOK, ControlInv, InChannel, SameCard
    PROVE  OwnCards
<1>1. ~Idle /\ op \in OpType  BY DEF InChannel, ChannelPhases, Idle, TypeOK
<1>2. /\ op.entered.generation = host.generation /\ op.saved.generation = host.generation
      /\ \A g \in op.cards : op.entered.generation <= g /\ g <= generation
      /\ \A g \in op.cards : g \in Nat
      /\ generation = host.generation /\ generation \in Nat
  BY <1>1, ConstantsAssumption
  DEF ControlInv, OrderInv, ChannelInv, SameCard, OpType, TypeOK
<1> QED  BY <1>2 DEF OwnCards

\* The returns keep it.
LEMMA ReturnsEffects ==
    ASSUME TypeOK, ControlInv, EffectsInv, Returns
    PROVE  EffectsInv'
<1>1. CASE ResetReturns
  <2>1. op.cards = {}  BY <1>1 DEF ResetReturns, EffectsInv, HistoryInv, ResetPhases
  <2>2. CASE Return(op, Rebound(host), "succeeded")  BY <2>1, <2>2, ReturnEffects
  <2>3. ASSUME NEW failure \in {"not_sent", "rejected", "unknown"},
               failure = "not_sent" => op.phase = "resetting",
               Return(op, host, failure)
        PROVE  EffectsInv'
    <3>1. failure = "not_sent" => Untouched
      <4>1. op.phase = "resetting" => op.name # "transaction" /\ ~Idle
        BY DEF ControlInv, PlanInv, ResetPhases, Idle
      <4> QED  BY <2>3, <4>1 DEF EffectsInv, UntouchedInv, Unheard
    <3> QED  BY <2>1, <2>3, <3>1, ReturnEffects DEF Untouched
  <2> QED  BY <1>1, <2>2, <2>3 DEF ResetReturns
<1>2. ASSUME op.phase = "answered" PROVE InChannel /\ ~Idle
  BY <1>2 DEF InChannel, ChannelPhases, Idle
<1>3. ASSUME op.phase = "answered", ReturnsAnswer PROVE EffectsInv'
  <2>1. PICK h, x : /\ Return(op, h, x)
                    /\ x = "succeeded" /\ op.name # "df_names" => SameCard
                    /\ x = "not_sent" => op.answer = "not_sent"
    BY <1>3 DEF ReturnsAnswer
  <2>2. op.name # "transaction"  BY <1>3 DEF ReturnsAnswer
  <2>3. SameCard => OwnCards  BY <1>2, <1>3, HeardByOwn
  <2>4. op.answer = "not_sent" => Untouched
    BY <1>2, <1>3, <2>2 DEF EffectsInv, UntouchedInv, Unheard
  <2> QED  BY <2>1, <2>3, <2>4, ReturnEffects DEF OwnCards, Untouched
<1>4. ASSUME op.phase = "answered", ReturnsToPlan PROVE EffectsInv'
  <2>1. /\ op.name = "transaction" /\ op'.name = "transaction" /\ op'.phase = "returned"
        /\ op'.index = op.index /\ op'.part = op.part /\ op'.cards = op.cards
        /\ op'.saved = op.saved /\ op'.entered = op.entered
        /\ card' = card /\ generation' = generation
        /\ op'.answer # "unknown" => op'.answer = op.answer
        /\ op'.answer = "succeeded" => SameCard
    BY <1>4 DEF ReturnsToPlan, KeepsPlan, fieldVars
  <2>2. op'.answer = "succeeded" => OwnCards'
    BY <1>2, <1>4, <2>1, HeardByOwn DEF OwnCards
  <2>3. Unheard' => Unheard  BY <1>4, <2>1 DEF Unheard, EarlyPart
  <2>4. Untouched' = Untouched  BY <2>1 DEF Untouched
  <2> QED
    BY <1>2, <1>4, <2>1, <2>2, <2>3, <2>4
    DEF EffectsInv, HistoryInv, UntouchedInv, SuccessOnOwnCard, NotSentChangesNothing,
        Idle, ResetPhases
<1> QED  BY <1>1, <1>3, <1>4, AnswerCases

\* The steps of the channel keep it.
LEMMA ChannelEffects ==
    ASSUME TypeOK, ControlInv, EffectsInv, Channel
    PROVE  EffectsInv'
<1>1. op \in OpType /\ ReplyInv  BY DEF TypeOK, ControlInv
<1>2. ASSUME KeepsChannel, ~Idle, op'.phase \in ChannelPhases, card' = card,
             generation' = generation, Unheard' => Unheard
      PROVE  EffectsInv'
  <2>1. Untouched' = Untouched  BY <1>2 DEF KeepsChannel, Untouched
  <2> QED
    BY <1>2, <2>1
    DEF EffectsInv, HistoryInv, UntouchedInv, SuccessOnOwnCard, NotSentChangesNothing,
        Idle, ResetPhases, ChannelPhases
<1>3. CASE ChallengeArrives
  <2>1. /\ KeepsChannel /\ op'.phase = "begun" /\ op'.proven /\ ~Idle /\ card' = card
        /\ generation' = generation /\ op.phase = "heard" /\ op.reply = "challenge"
    BY <1>1, <1>3 DEF ChallengeArrives, OpType, KeepsChannel, Idle
  <2>2. op.name # "transaction"  BY <1>1, <2>1 DEF ReplyInv, Handshakes
  <2>3. ~Unheard'  BY <2>1, <2>2 DEF Unheard, KeepsChannel
  <2> QED  BY <1>2, <2>1, <2>3 DEF ChannelPhases
<1>4. CASE ChannelBegins
  <2>1. /\ KeepsChannel /\ op'.proven = op.proven /\ card' = card
        /\ generation' = generation /\ op.phase = "admitted" /\ op'.phase = "begun"
    BY <1>1, <1>4 DEF ChannelBegins, KeepsChannel, OpType
  <2>2. Unheard' => Unheard  BY <2>1 DEF KeepsChannel, Unheard, EarlyPart
  <2> QED  BY <1>2, <2>1, <2>2 DEF ChannelPhases, Idle
<1>5. CASE ChannelReturns
  <2>1. /\ KeepsChannel /\ op'.phase = "answered" /\ card' = card
        /\ generation' = generation /\ op.phase \in {"admitted", "begun", "heard"}
        /\ \/ op.phase = "heard" /\ op.reply \in {"succeeded", "rejected"} /\ op'.answer = op.reply
           \/ op.phase \in {"admitted", "begun"} /\ ~op.proven /\ op'.answer = "not_sent"
           \/ op'.answer = "unknown"
    BY <1>5, ChannelReturnsIs
  <2>2. Unheard' => Unheard  BY <2>1 DEF KeepsChannel, Unheard, EarlyPart
  <2> QED  BY <1>2, <2>1, <2>2 DEF ChannelPhases, Idle
<1> QED  BY <1>3, <1>4, <1>5 DEF Channel

\* A query changes nothing on the card.
LEMMA QueryKeepsCard ==
    ASSUME NEW c
    PROVE  Executed(c, GetFileSettings) = c
<1>1. ~GetFileSettings.drops /\ GetFileSettings.effect = "none"
  BY DEF GetFileSettings, NoCommand
<1> QED  BY <1>1, ExecutedIs

\* The steps of the card field keep it.
LEMMA FieldEffects ==
    ASSUME TypeOK, ControlInv, EffectsInv, Field
    PROVE  EffectsInv'
<1>1. /\ op \in OpType /\ card \in CardType /\ HistoryInv /\ UntouchedInv /\ PlanInv
  BY DEF TypeOK, EffectsInv, ControlInv
<1>2. ASSUME KeepsChannel, op.phase = "begun", op'.phase = "heard",
             generation' = generation,
             op.name = "transaction" /\ op'.reply = "succeeded" /\ op.part = "query" =>
               card' = card
      PROVE  EffectsInv'
  <2>1. op'.name = op.name /\ op'.part = op.part /\ op'.entered = op.entered
    BY <1>2 DEF KeepsChannel
  <2>2. Unheard' => Unheard /\ card' = card
    BY <1>2, <2>1 DEF Unheard, EarlyPart
  <2>3. Unheard' => Untouched'
    BY <1>1, <1>2, <2>1, <2>2 DEF UntouchedInv, Untouched, Idle
  <2> QED
    BY <1>2, <2>3
    DEF EffectsInv, HistoryInv, UntouchedInv, SuccessOnOwnCard, NotSentChangesNothing,
        Idle, ResetPhases
<1>3. ASSUME NEW c, NEW reply \in Replies, Hears(c, reply),
             op.name = "transaction" => reply = "rejected"
      PROVE  EffectsInv'
  <2>1. /\ KeepsChannel /\ op.phase = "begun" /\ op'.phase = "heard"
        /\ op'.reply = reply /\ generation' = generation
    BY <1>1, <1>3 DEF Hears, KeepsChannel, OpType
  <2> QED  BY <1>2, <1>3, <2>1
<1>4. CASE CardSelects
  <2>1. op.name # "transaction"  BY <1>4 DEF CardSelects
  <2>2. \E c : \E reply \in {"succeeded", "rejected"} : Hears(c, reply)
    BY <1>4, Zenon DEF CardSelects
  <2> QED  BY <1>3, <2>1, <2>2 DEF Replies
<1>5. CASE CardExecutes
  <2>1. CASE Hears(Unauthenticated(card), "rejected")
    BY <1>3, <2>1 DEF Replies
  <2>2. CASE ~Hears(Unauthenticated(card), "rejected")
    <3> DEFINE n == IF op.command.effect = "commit" THEN card.staged ELSE op.applied
    <3>1. /\ op.phase = "begun" /\ host' = host /\ generation' = generation
          /\ card' = Executed(card, op.command)
          /\ op' = [op EXCEPT !.phase = "heard", !.reply = "succeeded",
                              !.cards = @ \cup {generation}, !.applied = n]
      BY <1>5, <2>2 DEF CardExecutes
    <3> HIDE DEF n
    <3>2. KeepsChannel /\ op'.phase = "heard" /\ op'.reply = "succeeded"
      BY <1>1, <3>1 DEF KeepsChannel, OpType
    <3>3. op.name = "transaction" /\ op.part = "query" => card' = card
      <4> SUFFICES ASSUME op.name = "transaction", op.part = "query" PROVE card' = card
        OBVIOUS
      <4>1. op.command = GetFileSettings
        BY <1>1, <3>1 DEF PlanInv, CommandOf, InChannel, ChannelPhases, Idle
      <4> QED  BY <3>1, <4>1, QueryKeepsCard
    <3> QED  BY <1>2, <3>1, <3>2, <3>3
  <2> QED  BY <2>1, <2>2
<1>6. CASE CardChallenges
  <2>1. op.name # "transaction"  BY <1>6 DEF CardChallenges, Handshakes
  <2>2. \E c : \E reply \in {"challenge", "rejected"} : Hears(c, reply)
    BY <1>6, Zenon DEF CardChallenges
  <2> QED  BY <1>3, <2>1, <2>2 DEF Replies
<1>7. CASE CardProves
  <2>1. op.name # "transaction"  BY <1>7 DEF CardProves, Handshakes
  <2>2. \E c : \E reply \in {"succeeded", "rejected"} : Hears(c, reply)
    BY <1>7, Zenon DEF CardProves
  <2> QED  BY <1>3, <2>1, <2>2 DEF Replies
<1>8. CASE CardChanges
  <2>1. generation' = generation + 1 /\ op' = op /\ last' = last
    BY <1>8 DEF CardChanges
  <2>2. /\ generation \in Nat
        /\ ~Idle => op.entered.generation \in Int /\ op.entered.generation <= generation
    BY <1>1, ConstantsAssumption DEF TypeOK, OpType, ControlInv, OrderInv, NoCard
  <2>3. ~Idle => Untouched'  BY <2>1, <2>2 DEF Untouched
  <2> QED
    BY <1>1, <2>1, <2>3
    DEF EffectsInv, HistoryInv, UntouchedInv, SuccessOnOwnCard, NotSentChangesNothing,
        Idle, OwnCards
<1>9. CASE CardReset
  <2>1. /\ op'.phase = "repowered" /\ op.phase = "resetting" /\ op'.name = op.name
        /\ op'.cards = op.cards
    BY <1>1, <1>9 DEF CardReset, OpType
  <2>2. op.name = "reset" /\ op.cards = {}
    BY <1>1, <2>1 DEF PlanInv, HistoryInv, ResetPhases
  <2>3. ~Unheard'  BY <2>1, <2>2 DEF Unheard
  <2> QED
    BY <2>1, <2>2, <2>3
    DEF EffectsInv, HistoryInv, UntouchedInv, SuccessOnOwnCard, NotSentChangesNothing, Idle
<1> QED
  BY <1>4, <1>5, <1>6, <1>7, <1>8, <1>9 DEF Field

-----------------------------------------------------------------------------
(***************************************************************************)
(* The layers together, and what they say.                                 *)
(***************************************************************************)
\* The inductive invariant.
IInv ==
    /\ TypeOK /\ ControlInv
    /\ BeliefInv /\ HandshakeInv /\ UnknownInv
    /\ PlansInv /\ EffectsInv

\* A step that changes nothing keeps the layers.
LEMMA Stutters ==
    ASSUME IInv, UNCHANGED vars
    PROVE  IInv'
<1>1. /\ generation' = generation /\ card' = card /\ handshakes' = handshakes
      /\ host' = host /\ op' = op /\ last' = last
  BY DEF vars
<1>2. TypeOK'  BY <1>1 DEF IInv, TypeOK
<1>3. ControlInv'
  BY <1>1
  DEF IInv, ControlInv, OrderInv, ChannelInv, ReplyInv, PlanInv, Idle, InChannel, RunsWith,
      SetAside, WithoutAuthentication, Invalidate, Authenticated, HasNativeSession,
      HasIsoSession, SessionOf
<1>4. /\ SameCard' = SameCard /\ Idle' = Idle /\ SelectedHolds' = SelectedHolds
      /\ Trusted(host, card)' = Trusted(host, card)
      /\ Agrees(op.saved, card)' = Agrees(op.saved, card)
  BY <1>1, Zenon
  DEF SameCard, Idle, SelectedHolds, Trusted, Agrees, Authenticated, HasNativeSession,
      HasIsoSession, SessionOf
<1>5. Left(op.reply)' = Left(op.reply) /\ Left(op.answer)' = Left(op.answer)
  <2>1. FamilyOf(op.name)' = FamilyOf(op.name)  BY <1>1, Zenon DEF FamilyOf
  <2>2. /\ LeftByHandshake(op.reply)' = LeftByHandshake(op.reply)
        /\ LeftByHandshake(op.answer)' = LeftByHandshake(op.answer)
    BY <1>1, <2>1, Zenon DEF LeftByHandshake, Established, Invalidate
  <2> QED
    BY <1>1, <2>2, Zenon
    DEF Left, LeftBySelect, LeftByCommand, LeftByIsoSelect, LeftByIsoData, Authenticated,
        HasNativeSession, HasIsoSession, Invalidate, SessionEnded, IsoSelected
<1>6. BeliefInv'  BY <1>1, <1>4, <1>5 DEF IInv, BeliefInv
<1>7. HandshakeInv' /\ UnknownInv'
  BY <1>1, <1>4 DEF IInv, HandshakeInv, UnknownInv
<1>8. PlansInv'
  BY <1>1, <1>4
  DEF IInv, PlansInv, StagedInv, AppliedInv, Progress, At, Accepted, InChannel,
      NothingStaged, EarlyStage, PlanAllOrNothing
<1>9. EffectsInv'
  BY <1>1, <1>4
  DEF IInv, EffectsInv, HistoryInv, UntouchedInv, OwnCards, EarlyPart, Untouched, Unheard,
      SuccessOnOwnCard, NotSentChangesNothing
<1> QED  BY <1>2, <1>3, <1>6, <1>7, <1>8, <1>9 DEF IInv

\* Every step keeps the layers.
LEMMA Inductive ==
    ASSUME IInv, [Next]_vars
    PROVE  IInv'
<1>1. /\ TypeOK /\ ControlInv /\ PlanInv /\ BeliefInv /\ HandshakeInv /\ UnknownInv
      /\ PlansInv /\ EffectsInv
  BY DEF IInv, ControlInv
<1>2. CASE Calls
  <2>1. TypeOK'  BY <1>1, <1>2, CallTypes
  <2>2. ControlInv'  BY <1>1, <1>2, <2>1, CallControl
  <2>3. BeliefInv' /\ HandshakeInv' /\ UnknownInv'  BY <1>1, <1>2, CallBelief
  <2>4. PlansInv' /\ EffectsInv'  BY <1>1, <1>2, CallPlans, CallEffects
  <2> QED  BY <2>1, <2>2, <2>3, <2>4 DEF IInv
<1>3. CASE Returns
  <2>1. TypeOK'  BY <1>1, <1>3, ReturnsTypes
  <2>2. ControlInv'  BY <1>1, <1>3, <2>1, ReturnsControl
  <2>3. BeliefInv' /\ HandshakeInv' /\ UnknownInv'  BY <1>1, <1>3, ReturnsBelief
  <2>4. PlansInv' /\ EffectsInv'  BY <1>1, <1>3, ReturnsPlans, ReturnsEffects
  <2> QED  BY <2>1, <2>2, <2>3, <2>4 DEF IInv
<1>4. CASE Transaction
  <2>1. TypeOK'  BY <1>1, <1>4, TransactionTypes
  <2>2. ControlInv'  BY <1>1, <1>4, <2>1, TransactionControl
  <2>3. BeliefInv' /\ HandshakeInv' /\ UnknownInv'  BY <1>1, <1>4, TransactionBelief
  <2>4. PlansInv' /\ EffectsInv'  BY <1>1, <1>4, TransactionPlans, TransactionEffects
  <2> QED  BY <2>1, <2>2, <2>3, <2>4 DEF IInv
<1>5. CASE Channel
  <2>1. TypeOK' /\ ControlInv'  BY <1>1, <1>5, ChannelTypes, ChannelControl
  <2>2. BeliefInv' /\ HandshakeInv' /\ UnknownInv'  BY <1>1, <1>5, ChannelBelief
  <2>3. PlansInv' /\ EffectsInv'  BY <1>1, <1>5, ChannelPlans, ChannelEffects
  <2> QED  BY <2>1, <2>2, <2>3 DEF IInv
<1>6. CASE Field
  <2>1. TypeOK' /\ ControlInv'  BY <1>1, <1>6, FieldTypes, FieldControl
  <2>2. BeliefInv' /\ HandshakeInv' /\ UnknownInv'  BY <1>1, <1>6, FieldBelief
  <2>3. PlansInv' /\ EffectsInv'  BY <1>1, <1>6, FieldPlans, FieldEffects
  <2> QED  BY <2>1, <2>2, <2>3 DEF IInv
<1>7. CASE UNCHANGED vars  BY <1>7, Stutters
<1> QED  BY <1>2, <1>3, <1>4, <1>5, <1>6, <1>7 DEF Next

\* The layers hold in every reachable state.
LEMMA Invariance == Spec => []IInv
<1>1. Init => IInv
  BY InitTypes, InitControl, InitBelief, InitPlans, InitEffects DEF IInv
<1> QED  BY <1>1, Inductive, PTL DEF Spec

\* Every variable has its type: no operation, failure or card exchange puts
\* CardImpl, the card or an operation's locals out of their ranges.
THEOREM TypeCorrect == Spec => []TypeOK
<1>1. IInv => TypeOK  BY DEF IInv
<1> QED  BY <1>1, Invariance, PTL

\* What a usable Card believes of its card is true between operations, for any
\* commands, keys and applications: exactly the card's session, in one family,
\* with its key; the selected application; and after an unknown outcome the
\* Card is not usable.  It covers every path of select_application(), execute(),
\* the handshakes, iso_command(), the resets and the plans, with the card
\* exchanged at any point and any frame or answer lost.
THEOREM BeliefsHold == Spec => []BeliefsAreTrue
<1>1. IInv => BeliefsAreTrue
  <2> SUFFICES ASSUME IInv PROVE BeliefsAreTrue
    OBVIOUS
  <2>1. BeliefInv /\ UnknownInv  BY DEF IInv
  <2>2. Idle /\ host.usable /\ SameCard => Agrees(host, card)
    BY <2>1 DEF BeliefInv, Trusted
  <2>3. SessionAgreement  BY <2>2 DEF SessionAgreement, Agrees
  <2>4. SelectionAgreement  BY <2>2 DEF SelectionAgreement, Agrees
  <2>5. UnknownMakesUnusable  BY <2>1 DEF UnknownInv, UnknownMakesUnusable
  <2> QED  BY <2>3, <2>4, <2>5 DEF BeliefsAreTrue
<1> QED  BY <1>1, Invariance, PTL

\* An operation that reports success (df_names() left out) was heard by the
\* card it is bound to and by no other, although the generation is checked
\* before the channel captures it.
THEOREM SuccessIsOwn == Spec => []SuccessOnOwnCard
<1>1. IInv => SuccessOnOwnCard  BY DEF IInv, EffectsInv, HistoryInv
<1> QED  BY <1>1, Invariance, PTL

\* Transaction plans of any length are atomic: success means the whole plan was
\* applied by one commit, "not_sent" and "rejected" that nothing was applied or
\* left staged, and no commit ever applies a part of a plan.
THEOREM Atomicity == Spec => []PlansAreAtomic
<1>1. IInv => PlansAreAtomic
  BY DEF IInv, PlansInv, StagedInv, AppliedInv, PlansAreAtomic, NoPartialCommit
<1> QED  BY <1>1, Invariance, PTL

\* An operation that reports "not_sent" left the card as it was, also a plan
\* whose queries had been heard before it gave up.
THEOREM NotSentIsHarmless == Spec => []NotSentChangesNothing
<1>1. IInv => NotSentChangesNothing  BY DEF IInv, EffectsInv, UntouchedInv
<1> QED  BY <1>1, Invariance, PTL

=============================================================================
