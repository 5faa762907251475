------------------------- MODULE Ev2Channel_proofs -------------------------
(***************************************************************************)
(* What Ev2Channel promises, proved for every set of requests, every width *)
(* of the command counter and any number of sessions.                      *)
(*                                                                         *)
(* None of the properties is inductive.  The invariant adds what ties the  *)
(* counters together: the keys of host and card are those of the same      *)
(* handshake; while an exchange runs, the session has moved one past the   *)
(* message it prepared; the card never counts ahead of the host; and a     *)
(* response of this session that carries the counter the host waits for    *)
(* answers the command that was just sent.                                 *)
(***************************************************************************)
EXTENDS Ev2Channel, TLAPS

Underway == pc \in {"prepared", "sent", "answered"}
Live == session.phase # "invalid"

SameKeys == card.id = session.id

\* Where exchange() is, the phase of the session, and the message prepared.
PhaseInv ==
    /\ pc \in {"idle", "begun"} => session.phase \in {"ready", "invalid"}
    /\ Underway =>
         /\ session.phase = PhaseFor(request.request)
         /\ message.mac = (request.request # "plain")
         /\ message.id = session.id
         /\ session.counter = message.counter + 1
    /\ pc = "answered" => answer \in replies \cup {Garbled}

\* Every message prepared with the keys of a live session is behind it.
PreparedInv ==
    /\ \A m \in prepared :
         /\ m.id <= session.id
         /\ Live /\ m.id = session.id => m.counter < session.counter
    /\ NoCounterReuse

\* The card counts at most as far as the host.
CardBehind ==
    Live => /\ card.counter <= session.counter
            /\ pc = "prepared" => card.counter < session.counter

\* The responses of the current session, and what one at the counter the
\* host waits for answers.
RepliesInv ==
    \A r \in replies :
        /\ r.id <= session.id
        /\ (Live /\ r.mac /\ r.id = session.id) =>
             /\ r.counter <= session.counter
             /\ pc = "prepared" => r.counter < session.counter
             /\ pc \in {"sent", "answered"} /\ r.counter = session.counter =>
                  r.number = number /\ number \in executed

\* The commands executed, and the card after it executed the current one.
ExecutedInv ==
    /\ \A n \in executed : n <= number
    /\ pc = "prepared" => number \notin executed
    /\ (pc \in {"sent", "answered"} /\ number \in executed /\ message.mac) =>
         /\ card.counter = session.counter
         /\ card.alive = ~request.drops

\* CountersInStep, for as long as nothing is prepared.
InStepInv ==
    (pc \in {"idle", "begun"} /\ session.phase = "ready" /\ ~unverified) =>
        card.alive /\ card.id = session.id /\ card.counter = session.counter

IInv ==
    /\ TypeOK
    /\ SameKeys
    /\ PhaseInv
    /\ PreparedInv
    /\ CardBehind
    /\ RepliesInv
    /\ ExecutedInv
    /\ InStepInv
    /\ FailureInvalidates
    /\ ResponseIsFresh

-----------------------------------------------------------------------------
\* The constants and the empty values are of their types.
LEMMA Values ==
    /\ MaxCounter \in Nat /\ MaxSessions \in Nat
    /\ NoMessage \in MessageType
    /\ Garbled \in ReplyType
    /\ NoResult \in ResultType
BY ConstantsAssumption
DEF NoMessage, MessageType, Garbled, ReplyType, NoResult, ResultType, Outcomes

\* Invalidating a session (invalidate()) keeps its type and its keys.
LEMMA InvalidSession ==
    ASSUME session \in SessionType
    PROVE  /\ Invalid(session) \in SessionType
           /\ Invalid(session).phase = "invalid"
           /\ Invalid(session).id = session.id
<1> DEFINE s == [session EXCEPT !.phase = "invalid", !.counter = 0]
<1>1. 0 \in 0..MaxCounter /\ "invalid" \in Phases
  BY Values DEF Phases
<1>2. s \in SessionType
  BY <1>1 DEF SessionType
<1>3. s.phase = "invalid" /\ s.id = session.id
  BY DEF SessionType
<1> QED BY <1>2, <1>3 DEF Invalid

\* Every return of exchange_protected() keeps the types.
LEMMA ReturnTypes ==
    ASSUME TypeOK, NEW s \in SessionType, NEW o \in Outcomes, NEW v \in BOOLEAN,
           Return(s, o, v)
    PROVE  TypeOK'
<1>1. result' \in ResultType
  <2>1. /\ (pc \in {"prepared", "sent", "answered"}) \in BOOLEAN
        /\ (IF pc = "begun" THEN 0 ELSE number) \in Nat
        /\ answer.number \in Nat
    BY DEF TypeOK, ReplyType
  <2> QED BY <2>1 DEF Return, ResultType
<1>2. unverified' \in BOOLEAN BY DEF Return, TypeOK
<1> QED BY <1>1, <1>2, Values DEF Return, TypeOK, PCs

\* Every step keeps the types.
LEMMA TypeStep ==
    ASSUME TypeOK, [Next]_vars
    PROVE  TypeOK'
<1> USE DEF Outcomes
<1>1. ASSUME NEW first \in BOOLEAN, Authenticate(first) PROVE TypeOK'
  <2>1. session' \in SessionType /\ card' \in CardType
    BY <1>1, Values DEF TypeOK, Authenticate, SessionType, CardType, Phases, FirstCounter
  <2> QED BY <1>1, <2>1, Values DEF TypeOK, Authenticate
<1>2. ASSUME NEW r \in Requests, Begin(r) PROVE TypeOK'
  <2>1. [NoResult EXCEPT !.outcome = "not_sent"] \in ResultType
    BY DEF NoResult, ResultType
  <2> QED BY <1>2, <2>1, Values DEF TypeOK, Begin, PCs
<1>3. CASE Prepare
  <2> DEFINE m == [mac |-> request.request # "plain", counter |-> session.counter,
                   id |-> session.id, number |-> number + 1]
  <2>1. m \in MessageType
    BY DEF TypeOK, MessageType, SessionType
  <2>2. session' \in SessionType
    <3>1. CounterAfter(session) \in 0..MaxCounter
      BY Values DEF TypeOK, SessionType, CounterAfter
    <3> QED BY <1>3, <3>1 DEF Prepare, TypeOK, SessionType, Phases
  <2>3. message' = m /\ prepared' = prepared \cup {m}
    BY <1>3 DEF Prepare
  <2> HIDE DEF m
  <2> QED BY <1>3, <2>1, <2>2, <2>3 DEF Prepare, TypeOK, PCs
<1>4. CASE PrepareFails
  BY <1>4, ReturnTypes, InvalidSession DEF PrepareFails, TypeOK
<1>5. CASE CardAccepts
  <2> DEFINE r == [status |-> "ok", mac |-> request.response # "plain",
                   counter |-> card.counter + 1, id |-> card.id, number |-> number]
  <2>1. r \in ReplyType
    BY DEF TypeOK, ReplyType, CardType
  <2>2. card' \in CardType
    <3>1. card' = [card EXCEPT !.alive = ~request.drops, !.counter = @ + 1]
      BY <1>5 DEF CardAccepts
    <3>2. (~request.drops) \in BOOLEAN
      OBVIOUS
    <3>3. card.counter + 1 \in Nat
      BY DEF TypeOK, CardType
    <3> QED BY <3>1, <3>2, <3>3 DEF TypeOK, CardType
  <2>3. replies' = replies \cup {r}
    BY <1>5 DEF CardAccepts
  <2> HIDE DEF r
  <2> QED BY <1>5, <2>1, <2>2, <2>3 DEF CardAccepts, TypeOK, PCs
<1>6. CASE CardRejects
  <2> DEFINE r == [status |-> "error", mac |-> FALSE, counter |-> 0, id |-> 0,
                   number |-> number]
  <2>1. r \in ReplyType
    BY Values DEF TypeOK, ReplyType
  <2>2. card' \in CardType
    BY <1>6 DEF CardRejects, TypeOK, CardType
  <2>3. replies' = replies \cup {r}
    BY <1>6 DEF CardRejects
  <2> HIDE DEF r
  <2> QED BY <1>6, <2>1, <2>2, <2>3 DEF CardRejects, TypeOK, PCs
<1>7. CASE FrameLost
  BY <1>7 DEF FrameLost, TypeOK, PCs
<1>8. CASE ReaderReturns
  BY <1>8, Values DEF ReaderReturns, TypeOK, PCs
<1>9. CASE RawFails
  BY <1>9, ReturnTypes, InvalidSession DEF RawFails, TypeOK
<1>10. CASE ResponseRejected
  BY <1>10, ReturnTypes, InvalidSession DEF ResponseRejected, TypeOK
<1>11. CASE WrongPhase
  BY <1>11, ReturnTypes, InvalidSession DEF WrongPhase, TypeOK
<1>12. CASE ResponseBad
  BY <1>12, ReturnTypes, InvalidSession DEF ResponseBad, AfterBadResponse, TypeOK
<1>13. CASE ResponseAccepted
  <2> DEFINE s == IF request.drops THEN Invalid(session)
                                   ELSE [session EXCEPT !.phase = "ready"]
  <2>1. s \in SessionType
    BY InvalidSession DEF TypeOK, SessionType, Phases
  <2>2. Return(s, "succeeded", request.response # "plain")
    BY <1>13 DEF ResponseAccepted
  <2>3. (request.response # "plain") \in BOOLEAN
    OBVIOUS
  <2> HIDE DEF s
  <2> QED BY <2>1, <2>2, <2>3, ReturnTypes
<1>14. CASE UNCHANGED vars
  BY <1>14 DEF vars, TypeOK
<1> QED BY <1>1, <1>2, <1>3, <1>4, <1>5, <1>6, <1>7, <1>8, <1>9, <1>10, <1>11,
           <1>12, <1>13, <1>14 DEF Next

-----------------------------------------------------------------------------
\* The numbers the invariant compares.
LEMMA Fields ==
    ASSUME TypeOK
    PROVE  /\ session.counter \in Nat /\ session.id \in Nat
           /\ session.counter <= MaxCounter /\ MaxCounter \in Nat
           /\ card.counter \in Nat /\ card.id \in Nat
           /\ message.counter \in Nat
           /\ number \in Nat
           /\ \A m \in prepared : m.counter \in Nat /\ m.id \in Nat
           /\ \A r \in replies : r.counter \in Nat /\ r.id \in Nat /\ r.number \in Nat
           /\ \A n \in executed : n \in Nat
<1> USE Values
<1>1. session.counter \in Nat /\ session.id \in Nat /\ session.counter <= MaxCounter
  BY DEF TypeOK, SessionType
<1>2. card.counter \in Nat /\ card.id \in Nat
  BY DEF TypeOK, CardType
<1>3. message.counter \in Nat /\ \A m \in prepared : m.counter \in Nat /\ m.id \in Nat
  BY DEF TypeOK, MessageType
<1>4. \A r \in replies : r.counter \in Nat /\ r.id \in Nat /\ r.number \in Nat
  BY DEF TypeOK, ReplyType
<1> QED BY <1>1, <1>2, <1>3, <1>4 DEF TypeOK

\* A return of exchange_protected() that leaves the session invalid keeps the
\* invariant, but for what it says of the result.
LEMMA ReturnInvalid ==
    ASSUME IInv, NEW o \in Outcomes, NEW v \in BOOLEAN,
           Return(Invalid(session), o, v), TypeOK'
    PROVE  /\ SameKeys' /\ PhaseInv' /\ PreparedInv' /\ CardBehind' /\ RepliesInv'
           /\ ExecutedInv' /\ InStepInv' /\ FailureInvalidates'
<1>1. /\ session'.phase = "invalid" /\ session'.id = session.id /\ pc' = "idle"
      /\ UNCHANGED <<card, number, prepared, replies, executed>>
  BY InvalidSession DEF IInv, TypeOK, Return
<1>2. ~Live' /\ ~Underway'
  BY <1>1 DEF Live, Underway
<1>3. SameKeys' /\ PhaseInv' /\ CardBehind' /\ InStepInv' /\ FailureInvalidates'
  BY <1>1, <1>2
  DEF IInv, SameKeys, PhaseInv, CardBehind, InStepInv, FailureInvalidates
<1>4. PreparedInv'
  BY <1>1, <1>2 DEF IInv, PreparedInv, NoCounterReuse
<1>5. RepliesInv'
  BY <1>1, <1>2 DEF IInv, RepliesInv
<1>6. ExecutedInv'
  BY <1>1 DEF IInv, ExecutedInv
<1> QED BY <1>3, <1>4, <1>5, <1>6

\* A failure that invalidates the session keeps the invariant.
LEMMA FailureStep ==
    ASSUME IInv, NEW o \in Outcomes \ {"succeeded"},
           Return(Invalid(session), o, FALSE)
    PROVE  IInv'
<1>1. TypeOK'
  BY ReturnTypes, InvalidSession DEF IInv, TypeOK
<1>2. result'.outcome = o
  BY DEF Return
<1> QED BY <1>1, <1>2, ReturnInvalid DEF IInv, ResponseIsFresh

\* A completed handshake: new keys, which nothing was prepared with.
LEMMA AuthenticateStep ==
    ASSUME IInv, NEW first \in BOOLEAN, Authenticate(first), TypeOK'
    PROVE  IInv'
<1>1. /\ pc = "idle" /\ pc' = "idle"
      /\ session' = [phase |-> "ready", counter |-> FirstCounter(first),
                     id |-> session.id + 1]
      /\ card' = [alive |-> TRUE, counter |-> IF first THEN 0 ELSE card.counter,
                  id |-> session.id + 1]
      /\ UNCHANGED <<number, prepared, replies, executed>>
      /\ result' = NoResult
      /\ unverified' = (unverified /\ ~first)
      /\ ~first => session.phase = "ready"
  BY DEF Authenticate
<1>2. /\ session'.id = session.id + 1 /\ card'.id = session.id + 1
      /\ session'.phase = "ready" /\ card'.alive
      /\ session'.counter = (IF first THEN 0 ELSE session.counter)
      /\ card'.counter = (IF first THEN 0 ELSE card.counter)
      /\ ~first => Live
  BY <1>1 DEF FirstCounter, Live
<1>3. SameKeys' BY <1>2 DEF SameKeys
<1>4. PhaseInv' BY <1>1, <1>2 DEF PhaseInv, Underway
<1>5. PreparedInv'
  BY <1>1, <1>2, Fields DEF IInv, PreparedInv, NoCounterReuse
<1>6. CardBehind'
  BY <1>1, <1>2, Fields DEF IInv, CardBehind
<1>7. RepliesInv'
  BY <1>1, <1>2, Fields DEF IInv, RepliesInv
<1>8. ExecutedInv'
  BY <1>1 DEF IInv, ExecutedInv
<1>9. InStepInv'
  BY <1>1, <1>2 DEF IInv, InStepInv
<1>10. FailureInvalidates' /\ ResponseIsFresh'
  BY <1>1 DEF FailureInvalidates, ResponseIsFresh, NoResult
<1> QED BY <1>3, <1>4, <1>5, <1>6, <1>7, <1>8, <1>9, <1>10 DEF IInv

\* exchange() begins, or the raw channel refuses: the session stays.
LEMMA BeginStep ==
    ASSUME IInv, NEW r \in Requests, Begin(r), TypeOK'
    PROVE  IInv'
<1>1. /\ pc = "idle" /\ pc' \in {"idle", "begun"}
      /\ UNCHANGED <<session, card, number, message, prepared, replies, executed,
                     unverified>>
      /\ result' \in {NoResult, [NoResult EXCEPT !.outcome = "not_sent"]}
  BY DEF Begin
<1>2. Live' = Live /\ ~Underway'
  BY <1>1 DEF Live, Underway
<1>3. SameKeys' /\ PhaseInv' /\ CardBehind' /\ ExecutedInv' /\ InStepInv'
  BY <1>1, <1>2
  DEF IInv, SameKeys, PhaseInv, CardBehind, ExecutedInv, InStepInv
<1>4. PreparedInv'
  BY <1>1, <1>2 DEF IInv, PreparedInv, NoCounterReuse
<1>5. RepliesInv'
  BY <1>1, <1>2 DEF IInv, RepliesInv
<1>6. FailureInvalidates' /\ ResponseIsFresh'
  BY <1>1 DEF FailureInvalidates, ResponseIsFresh, NoResult
<1> QED BY <1>3, <1>4, <1>5, <1>6 DEF IInv

\* A message is prepared with the counter nothing was prepared with before,
\* which is never the last one the type holds.
LEMMA PrepareStep ==
    ASSUME IInv, Prepare, TypeOK'
    PROVE  IInv'
<1> DEFINE m == [mac |-> request.request # "plain", counter |-> session.counter,
                 id |-> session.id, number |-> number + 1]
<1>1. /\ pc = "begun" /\ session.phase = "ready" /\ session.counter # MaxCounter
      /\ message' = m /\ prepared' = prepared \cup {m}
      /\ number' = number + 1 /\ pc' = "prepared"
      /\ UNCHANGED <<card, request, replies, executed, result>>
  BY DEF Prepare, Exhausted
<1>2. CounterAfter(session) = session.counter + 1
  <2>1. session.counter + 1 \in 0..MaxCounter
    BY <1>1, Fields DEF IInv
  <2> QED BY <2>1, Fields DEF IInv, CounterAfter
<1>3. /\ session'.counter = session.counter + 1 /\ session'.id = session.id
      /\ session'.phase = PhaseFor(request.request)
      /\ session'.phase # "invalid"
  <2>1. session' = [session EXCEPT
                     !.counter = CounterAfter(session),
                     !.phase = IF request.request = "plain"
                                 THEN "awaiting_plain_response" ELSE "awaiting_response"]
    BY DEF Prepare
  <2> QED BY <1>2, <2>1 DEF IInv, TypeOK, SessionType, PhaseFor
<1>4. /\ m.mac = (request.request # "plain") /\ m.counter = session.counter
      /\ m.id = session.id
  OBVIOUS
<1> HIDE DEF m
<1>5. Live /\ Live'
  BY <1>1, <1>3 DEF Live
<1>6. SameKeys' BY <1>1, <1>3 DEF IInv, SameKeys
<1>7. PhaseInv' BY <1>1, <1>3, <1>4 DEF PhaseInv, Underway
<1>8. PreparedInv'
  <2>1. ASSUME NEW p \in prepared'
        PROVE  p.id <= session'.id /\ (p.id = session'.id => p.counter < session'.counter)
    BY <1>1, <1>3, <1>4, <1>5, <2>1, Fields DEF IInv, PreparedInv
  <2>2. ASSUME NEW p \in prepared PROVE ~(p.id = m.id /\ p.counter = m.counter)
    BY <1>4, <1>5, <2>2, Fields DEF IInv, PreparedInv
  <2>3. NoCounterReuse'
    BY <1>1, <2>2 DEF IInv, PreparedInv, NoCounterReuse
  <2> QED BY <2>1, <2>3 DEF PreparedInv
<1>9. CardBehind'
  BY <1>1, <1>3, <1>5, Fields DEF IInv, CardBehind
<1>10. RepliesInv'
  BY <1>1, <1>3, <1>5, Fields DEF IInv, RepliesInv
<1>11. ExecutedInv'
  BY <1>1, Fields DEF IInv, ExecutedInv
<1>12. InStepInv' /\ FailureInvalidates' /\ ResponseIsFresh'
  BY <1>1 DEF IInv, InStepInv, FailureInvalidates, ResponseIsFresh
<1> QED BY <1>6, <1>7, <1>8, <1>9, <1>10, <1>11, <1>12 DEF IInv

\* The card executes the command: its response carries the counter the host
\* waits for only if the command was the one at that counter.
LEMMA CardAcceptsStep ==
    ASSUME IInv, CardAccepts, TypeOK'
    PROVE  IInv'
<1> DEFINE r == [status |-> "ok", mac |-> request.response # "plain",
                 counter |-> card.counter + 1, id |-> card.id, number |-> number]
<1>1. /\ pc = "prepared" /\ pc' = "sent"
      /\ message.mac => message.counter = card.counter
      /\ executed' = executed \cup {number}
      /\ replies' = replies \cup {r}
      /\ UNCHANGED <<session, request, number, message, prepared, unverified, result>>
  BY DEF CardAccepts
<1>2. /\ card'.counter = card.counter + 1 /\ card'.id = card.id
      /\ card'.alive = ~request.drops
  <2>1. card' = [card EXCEPT !.alive = ~request.drops, !.counter = @ + 1]
    BY DEF CardAccepts
  <2> QED BY <2>1 DEF IInv, TypeOK, CardType
<1>3. r.counter = card.counter + 1 /\ r.id = card.id /\ r.number = number
  OBVIOUS
<1> HIDE DEF r
<1>4. Live /\ Live' /\ card.counter < session.counter /\ card.id = session.id
  BY <1>1 DEF IInv, PhaseInv, Underway, PhaseFor, Live, CardBehind, SameKeys
<1>5. message.mac => session.counter = card.counter + 1
  BY <1>1 DEF IInv, PhaseInv, Underway
<1>6. SameKeys' BY <1>1, <1>2 DEF IInv, SameKeys
<1>7. PhaseInv' BY <1>1 DEF IInv, PhaseInv, Underway
<1>8. PreparedInv' BY <1>1, <1>4 DEF IInv, PreparedInv, NoCounterReuse
<1>9. CardBehind' BY <1>1, <1>2, <1>4, Fields DEF IInv, CardBehind
<1>10. RepliesInv'
  <2>1. ASSUME NEW q \in replies
        PROVE  /\ q.id <= session.id
               /\ q.mac /\ q.id = session.id => q.counter < session.counter
    BY <1>1, <1>4, <2>1 DEF IInv, RepliesInv
  <2>2. r.id <= session.id /\ r.counter <= session.counter
    BY <1>3, <1>4, Fields DEF IInv
  <2> QED BY <1>1, <1>3, <2>1, <2>2, Fields DEF IInv, RepliesInv
<1>11. ExecutedInv'
  BY <1>1, <1>2, <1>5, Fields DEF IInv, ExecutedInv
<1>12. InStepInv' /\ FailureInvalidates' BY <1>1 DEF InStepInv, FailureInvalidates
<1>13. ResponseIsFresh' BY <1>1 DEF IInv, ResponseIsFresh
<1> QED BY <1>6, <1>7, <1>8, <1>9, <1>10, <1>11, <1>12, <1>13 DEF IInv

\* The card answers with an error, or does not hear the frame.
LEMMA CardDeclinesStep ==
    ASSUME IInv, CardRejects \/ FrameLost, TypeOK'
    PROVE  IInv'
<1> DEFINE r == [status |-> "error", mac |-> FALSE, counter |-> 0, id |-> 0,
                 number |-> number]
<1>1. /\ pc = "prepared" /\ pc' = "sent"
      /\ replies' \subseteq replies \cup {r}
      /\ UNCHANGED <<session, request, number, message, prepared, executed, unverified,
                     result>>
  BY DEF CardRejects, FrameLost
<1>2. card'.counter = card.counter /\ card'.id = card.id
  BY DEF CardRejects, FrameLost, IInv, TypeOK, CardType
<1>3. ~r.mac /\ r.id = 0
  OBVIOUS
<1> HIDE DEF r
<1>4. Live' = Live BY <1>1 DEF Live
<1>5. SameKeys' BY <1>1, <1>2 DEF IInv, SameKeys
<1>6. PhaseInv' BY <1>1 DEF IInv, PhaseInv, Underway
<1>7. PreparedInv' BY <1>1, <1>4 DEF IInv, PreparedInv, NoCounterReuse
<1>8. CardBehind' BY <1>1, <1>2, <1>4 DEF IInv, CardBehind
<1>9. RepliesInv'
  <2>1. ASSUME NEW q \in replies, Live
        PROVE  q.mac /\ q.id = session.id => q.counter < session.counter
    BY <1>1, <2>1 DEF IInv, RepliesInv
  <2>2. \A q \in replies : q.id <= session.id
    BY DEF IInv, RepliesInv
  <2> QED BY <1>1, <1>3, <1>4, <2>1, <2>2, Fields DEF IInv, RepliesInv
<1>10. ExecutedInv' BY <1>1 DEF IInv, ExecutedInv
<1>11. InStepInv' /\ FailureInvalidates' BY <1>1 DEF InStepInv, FailureInvalidates
<1>12. ResponseIsFresh' BY <1>1 DEF IInv, ResponseIsFresh
<1> QED BY <1>5, <1>6, <1>7, <1>8, <1>9, <1>10, <1>11, <1>12 DEF IInv

\* The reader returns some response.
LEMMA ReaderReturnsStep ==
    ASSUME IInv, ReaderReturns, TypeOK'
    PROVE  IInv'
<1>1. /\ pc = "sent" /\ pc' = "answered" /\ answer' \in replies \cup {Garbled}
      /\ UNCHANGED <<session, card, request, number, message, prepared, replies,
                     executed, unverified, result>>
  BY DEF ReaderReturns
<1>2. Live' = Live BY <1>1 DEF Live
<1>3. SameKeys' /\ CardBehind' BY <1>1, <1>2 DEF IInv, SameKeys, CardBehind
<1>4. PhaseInv' BY <1>1 DEF IInv, PhaseInv, Underway
<1>5. PreparedInv' BY <1>1, <1>2 DEF IInv, PreparedInv, NoCounterReuse
<1>6. RepliesInv' BY <1>1, <1>2 DEF IInv, RepliesInv
<1>7. ExecutedInv' BY <1>1 DEF IInv, ExecutedInv
<1>8. InStepInv' /\ FailureInvalidates' BY <1>1 DEF InStepInv, FailureInvalidates
<1>9. ResponseIsFresh' BY <1>1 DEF IInv, ResponseIsFresh
<1> QED BY <1>3, <1>4, <1>5, <1>6, <1>7, <1>8, <1>9 DEF IInv

\* A response that verifies is the answer to the command just sent.
LEMMA VerifiedIsCurrent ==
    ASSUME IInv, pc = "answered", request.response # "plain",
           session.phase = PhaseFor(request.response), Verifies(session, answer)
    PROVE  /\ answer.number = number /\ number \in executed
           /\ card.counter = session.counter /\ card.alive = ~request.drops
<1>1. answer \in replies
  BY DEF IInv, PhaseInv, Verifies, Garbled
<1>2. Live
  BY DEF PhaseFor, Live
<1>3. answer.number = number /\ number \in executed
  BY <1>1, <1>2 DEF IInv, RepliesInv, Verifies
<1>4. message.mac
  BY DEF IInv, PhaseInv, Underway, PhaseFor
<1> QED BY <1>3, <1>4 DEF IInv, ExecutedInv

\* The response is accepted.
LEMMA AcceptedStep ==
    ASSUME IInv, ResponseAccepted, TypeOK'
    PROVE  IInv'
<1> DEFINE v == request.response # "plain"
<1>1. /\ pc = "answered" /\ pc' = "idle"
      /\ UNCHANGED <<card, number, prepared, replies, executed>>
      /\ unverified' = ~v
      /\ v => session.phase = PhaseFor(request.response) /\ Verifies(session, answer)
      /\ result'.outcome = "succeeded" /\ result'.verified = v
      /\ result'.number = number /\ result'.reply = answer.number
  BY DEF ResponseAccepted, Return, Unchecked
<1>2. ResponseIsFresh'
  BY <1>1, VerifiedIsCurrent DEF ResponseIsFresh
<1>3. CASE request.drops
  <2>1. Return(Invalid(session), "succeeded", v)
    BY <1>3 DEF ResponseAccepted
  <2>2. v \in BOOLEAN /\ "succeeded" \in Outcomes
    BY DEF Outcomes
  <2> HIDE DEF v
  <2> QED BY <1>2, <2>1, <2>2, ReturnInvalid DEF IInv
<1>4. CASE ~request.drops
  <2>1. /\ session'.phase = "ready" /\ session'.id = session.id
        /\ session'.counter = session.counter
    <3>1. session' = [session EXCEPT !.phase = "ready"]
      BY <1>4 DEF ResponseAccepted, Return
    <3> QED BY <3>1 DEF IInv, TypeOK, SessionType
  <2>2. Live /\ Live' /\ ~Underway'
    BY <1>1, <2>1 DEF IInv, PhaseInv, Underway, PhaseFor, Live
  <2>3. SameKeys' BY <1>1, <2>1 DEF IInv, SameKeys
  <2>4. PhaseInv' BY <1>1, <2>1, <2>2 DEF PhaseInv
  <2>5. PreparedInv' BY <1>1, <2>1, <2>2 DEF IInv, PreparedInv, NoCounterReuse
  <2>6. CardBehind' BY <1>1, <2>1, <2>2 DEF IInv, CardBehind
  <2>7. RepliesInv' BY <1>1, <2>1, <2>2 DEF IInv, RepliesInv
  <2>8. ExecutedInv' BY <1>1 DEF IInv, ExecutedInv
  <2>9. InStepInv'
    BY <1>1, <1>4, <2>1, VerifiedIsCurrent DEF IInv, InStepInv, SameKeys
  <2>10. FailureInvalidates' BY <1>1 DEF FailureInvalidates
  <2> QED BY <1>2, <2>3, <2>4, <2>5, <2>6, <2>7, <2>8, <2>9, <2>10 DEF IInv
<1> QED BY <1>3, <1>4

-----------------------------------------------------------------------------
\* The invariant holds of every reachable state.
THEOREM Invariance == Spec => []IInv
<1>1. Init => IInv
  <2> SUFFICES ASSUME Init PROVE IInv
    OBVIOUS
  <2>1. TypeOK
    <3>1. session \in SessionType /\ card \in CardType
      BY Values DEF Init, SessionType, CardType, Phases
    <3> QED BY <3>1, Values DEF Init, TypeOK, PCs
  <2>2. PhaseInv /\ SameKeys /\ CardBehind /\ ExecutedInv /\ InStepInv
    BY DEF Init, PhaseInv, SameKeys, CardBehind, ExecutedInv, InStepInv, Underway, Live
  <2>3. PreparedInv /\ RepliesInv
    BY DEF Init, PreparedInv, RepliesInv, NoCounterReuse
  <2>4. FailureInvalidates /\ ResponseIsFresh
    BY DEF Init, FailureInvalidates, ResponseIsFresh, NoResult
  <2> QED BY <2>1, <2>2, <2>3, <2>4 DEF IInv
<1>2. IInv /\ [Next]_vars => IInv'
  <2> SUFFICES ASSUME IInv, [Next]_vars PROVE IInv'
    OBVIOUS
  <2>1. TypeOK'
    BY TypeStep DEF IInv
  <2>2. ASSUME NEW first \in BOOLEAN, Authenticate(first) PROVE IInv'
    BY <2>1, <2>2, AuthenticateStep
  <2>3. ASSUME NEW r \in Requests, Begin(r) PROVE IInv'
    BY <2>1, <2>3, BeginStep
  <2>4. CASE Prepare
    BY <2>1, <2>4, PrepareStep
  <2>5. CASE CardAccepts
    BY <2>1, <2>5, CardAcceptsStep
  <2>6. CASE CardRejects \/ FrameLost
    BY <2>1, <2>6, CardDeclinesStep
  <2>7. CASE ReaderReturns
    BY <2>1, <2>7, ReaderReturnsStep
  <2>8. CASE PrepareFails \/ RawFails \/ ResponseRejected \/ WrongPhase \/ ResponseBad
    <3>1. \E o \in Outcomes \ {"succeeded"} : Return(Invalid(session), o, FALSE)
      BY <2>8 DEF PrepareFails, RawFails, ResponseRejected, WrongPhase, ResponseBad,
                  AfterBadResponse, Outcomes
    <3> QED BY <3>1, FailureStep
  <2>9. CASE ResponseAccepted
    BY <2>1, <2>9, AcceptedStep
  <2>10. CASE UNCHANGED vars
    <3>1. /\ UNCHANGED <<session, card, pc, request, number, message, answer, prepared,
                         replies, executed, unverified, result>>
      BY <2>10 DEF vars
    <3>2. Live' = Live /\ Underway' = Underway
      BY <3>1 DEF Live, Underway
    <3>3. SameKeys' /\ PhaseInv' /\ CardBehind' /\ ExecutedInv' /\ InStepInv'
      BY <3>1, <3>2
      DEF IInv, SameKeys, PhaseInv, CardBehind, ExecutedInv, InStepInv
    <3>4. PreparedInv' /\ RepliesInv'
      BY <3>1, <3>2 DEF IInv, PreparedInv, RepliesInv, NoCounterReuse
    <3>5. FailureInvalidates' /\ ResponseIsFresh'
      BY <3>1 DEF IInv, FailureInvalidates, ResponseIsFresh
    <3> QED BY <2>1, <3>3, <3>4, <3>5 DEF IInv
  <2> QED BY <2>2, <2>3, <2>4, <2>5, <2>6, <2>7, <2>8, <2>9, <2>10 DEF Next
<1> QED BY <1>1, <1>2, PTL DEF Spec

\* The types of the state of ev2::Session and of exchange().
THEOREM TypeCorrect == Spec => []TypeOK
<1>1. IInv => TypeOK BY DEF IInv
<1> QED BY <1>1, Invariance, PTL

\* Whatever the width of the counter, no counter protects two commands under
\* the same session keys.
THEOREM CountersNeverReused == Spec => []NoCounterReuse
<1>1. IInv => NoCounterReuse BY DEF IInv, PreparedInv
<1> QED BY <1>1, Invariance, PTL

\* verify_response() accepts only the card's response to the very command, for
\* every order in which a reader returns responses.
THEOREM ResponsesAreFresh == Spec => []ResponseIsFresh
<1>1. IInv => ResponseIsFresh BY DEF IInv
<1> QED BY <1>1, Invariance, PTL

\* Host and card count in step while every response is under a MAC.
THEOREM CountersStayInStep == Spec => []CountersInStep
<1>1. IInv => CountersInStep BY DEF IInv, InStepInv, CountersInStep
<1> QED BY <1>1, Invariance, PTL

\* A failure of exchange_protected() after preparation ends the session.
THEOREM FailuresInvalidate == Spec => []FailureInvalidates
<1>1. IInv => FailureInvalidates BY DEF IInv
<1> QED BY <1>1, Invariance, PTL

=============================================================================
