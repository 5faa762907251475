----------------------- MODULE SecureMessaging_proofs -----------------------
(***************************************************************************)
(* The promises of the layers of secure messaging, for every value of the  *)
(* constants: every set of arguments, requests, keys and identifiers, and  *)
(* every bound on commands, sessions, handshakes and generations.  Each    *)
(* layer has an inductive invariant of its own (StandardInv, Ev2Inv,       *)
(* HandshakeInv, IsoInv, CheckedInv); SecureInv puts them together.        *)
(***************************************************************************)
EXTENDS SecureMessaging, SequenceTheorems, TLAPS

-----------------------------------------------------------------------------
(***************************************************************************)
(* Standard AES: the layer of StandardAesChannel.                          *)
(***************************************************************************)
Histories == Seq(Int)

\* The fields of the sessions on both sides, in full.
StandardSession ==
    [phase : {"ready", "awaiting_response", "invalid"}, iv : Histories, id : 0..MaxSessions]
StandardCard == [alive : BOOLEAN, iv : Histories, id : 0..MaxSessions]

Underway == {"prepared", "sent", "answered"}

StandardTyped ==
    /\ session \in StandardSession /\ card \in StandardCard
    /\ pc \in {"idle", "begun"} \cup Underway
    /\ session.phase = "awaiting_response" <=> pc \in Underway
    /\ number \in 0..MaxCommands
    /\ result.outcome \in {"none", "not_sent", "rejected", "succeeded", "unknown"}

\* The card executed commands that were prepared; the one on its way has not
\* been executed, and its number is not zero.
ExecutedInv ==
    /\ executed \subseteq 1..number
    /\ pc \in Underway => number > 0
    /\ pc = "prepared" => number \notin executed

\* A ready session, and a command prepared in it, are in step with the card.
InStepInv ==
    /\ (pc \in {"idle", "begun"} /\ session.phase = "ready") =>
           card.alive /\ card.id = session.id /\ card.iv = session.iv
    /\ pc = "prepared" =>
           card.alive /\ card.id = session.id /\ session.iv = Append(card.iv, number)
    /\ pc \in Underway => \E x \in Histories : session.iv = Append(x, number)

\* The answer of a card to the command on its way, made with the session it holds.
OwnAnswer(a) ==
    /\ a.iv = Append(session.iv, -number) /\ a.id = session.id
    /\ a.mode = IF request.response = "full" THEN "full" ELSE "mac"
    /\ card.iv = a.iv /\ card.id = a.id /\ card.alive = ~request.drops

\* What a card said: rubbish and refusals have no number, an answer closes the
\* history with the number of its command and the negative of it.
Said(a) ==
    /\ a.mode = "none" => a.number = 0
    /\ a.mode # "none" =>
         /\ a.number \in executed /\ a.size \in a.boundaries
         /\ \E x \in Histories : a.iv = Append(Append(x, a.number), -a.number)

RepliesInv ==
    /\ \A a \in replies : Said(a)
    /\ \A a \in replies : a.mode # "none" /\ a.number = number /\ pc \in {"sent", "answered"}
                              => OwnAnswer(a)
    /\ answer \in replies \cup {Standard!Garbled}

\* What was protected was protected with a shorter history than the session has,
\* as long as it goes on.
VectorsInv ==
    /\ \A v \in vectors : v.iv \in Histories /\ v.id \in 0..session.id
    /\ \A v \in vectors : v.id = session.id =>
           session.phase = "invalid" \/ Len(v.iv) < Len(session.iv)
    /\ Standard!NoVectorReuse

\* What was returned, until the next operation begins.
ReturnedInv ==
    /\ pc # "idle" => result = Standard!NoResult
    /\ Standard!ResponseIsFresh /\ Standard!NotSentMeansUnexecuted /\ Standard!BoundaryIsTrue

StandardInv ==
    StandardTyped /\ ExecutedInv /\ InStepInv /\ RepliesInv /\ VectorsInv /\ ReturnedInv

\* The constants of the layer.
LEMMA StandardAssumption ==
    /\ StandardRequests \subseteq Standard!RequestType
    /\ Replies \subseteq Nat /\ MaxCommands \in Nat /\ MaxSessions \in Nat
BY LayersAssumption DEF Standard!ConstantsAssumption

\* Histories end in the number that was appended last.
LEMMA HistoryGrows ==
    ASSUME NEW s \in Histories, NEW t \in Histories, NEW m \in Int, NEW n \in Int
    PROVE  /\ Append(s, m) \in Histories /\ Len(Append(s, m)) = Len(s) + 1 /\ Len(s) \in Nat
           /\ Append(s, m) = Append(t, n) => s = t /\ m = n
<1>1. s \in Seq(Int) /\ t \in Seq(Int) /\ Seq(Int) = Histories
  BY DEF Histories
<1>2. Append(s, m) \in Histories /\ Len(Append(s, m)) = Len(s) + 1
  BY <1>1, AppendProperties
<1>3. Append(s, m) = Append(t, n) <=> s = t /\ m = n
  BY <1>1, AppendInjective
<1>4. Len(s) \in Nat
  BY <1>1
<1> QED  BY <1>2, <1>3, <1>4

\* Nothing is protected and nobody holds a session at first.
LEMMA StandardStart ==
    ASSUME Standard!Init
    PROVE  StandardInv
<1>1. <<>> \in Histories
  BY DEF Histories
<1>2. StandardTyped
  BY <1>1, StandardAssumption
  DEF Standard!Init, StandardTyped, StandardSession, StandardCard, Underway, Standard!NoResult
<1>3. ExecutedInv /\ InStepInv /\ VectorsInv
  BY DEF Standard!Init, ExecutedInv, InStepInv, VectorsInv, Underway, Standard!NoVectorReuse
<1>4. RepliesInv
  BY DEF Standard!Init, RepliesInv
<1>5. ReturnedInv
  BY DEF Standard!Init, ReturnedInv, Standard!NoResult, Standard!ResponseIsFresh,
     Standard!NotSentMeansUnexecuted, Standard!BoundaryIsTrue
<1> QED  BY <1>2, <1>3, <1>4, <1>5 DEF StandardInv

\* A handshake gives both sides the same new session, with no history.
LEMMA StandardAuthenticates ==
    ASSUME StandardInv, Standard!Authenticate
    PROVE  StandardInv'
<1>1. <<>> \in Histories /\ session.id \in 0..MaxSessions /\ session.id < MaxSessions
  BY DEF Histories, StandardInv, StandardTyped, StandardSession, Standard!Authenticate
<1>2. StandardTyped'
  BY <1>1, StandardAssumption
  DEF StandardInv, Standard!Authenticate, StandardTyped, StandardSession, StandardCard, Underway,
      Standard!NoResult
<1>3. ExecutedInv' /\ InStepInv'
  BY DEF StandardInv, Standard!Authenticate, ExecutedInv, InStepInv, Underway
<1>4. VectorsInv'
  BY <1>1 DEF StandardInv, Standard!Authenticate, VectorsInv, Standard!NoVectorReuse
<1>5. RepliesInv'
  <2>1. \A a : Said(a) => Said(a)'
    BY DEF Standard!Authenticate, Said
  <2> QED  BY <2>1 DEF StandardInv, Standard!Authenticate, RepliesInv
<1>6. ReturnedInv'
  BY DEF StandardInv, Standard!Authenticate, ReturnedInv, Standard!NoResult,
     Standard!ResponseIsFresh, Standard!NotSentMeansUnexecuted, Standard!BoundaryIsTrue
<1> QED  BY <1>2, <1>3, <1>4, <1>5, <1>6 DEF StandardInv

\* A request is taken, and the last result forgotten.
LEMMA StandardBegins ==
    ASSUME StandardInv, NEW r \in StandardRequests, Standard!Begin(r)
    PROVE  StandardInv'
<1>1. StandardTyped'
  BY DEF StandardInv, Standard!Begin, StandardTyped, StandardSession, StandardCard, Underway,
      Standard!NoResult
<1>2. ExecutedInv' /\ InStepInv' /\ VectorsInv'
  BY DEF StandardInv, Standard!Begin, ExecutedInv, InStepInv, Underway, VectorsInv,
         Standard!NoVectorReuse
<1>3. RepliesInv'
  <2>1. \A a : Said(a) => Said(a)'
    BY DEF Standard!Begin, Said
  <2> QED  BY <2>1 DEF StandardInv, Standard!Begin, RepliesInv
<1>4. ReturnedInv'
  BY DEF StandardInv, Standard!Begin, ReturnedInv, Standard!NoResult, Standard!ResponseIsFresh,
     Standard!NotSentMeansUnexecuted, Standard!BoundaryIsTrue
<1> QED  BY <1>1, <1>2, <1>3, <1>4 DEF StandardInv

\* A command is protected with the whole history, which it then closes.
LEMMA StandardPrepares ==
    ASSUME StandardInv, Standard!Prepare
    PROVE  StandardInv'
<1>1. /\ session \in StandardSession /\ card \in StandardCard /\ session.iv \in Histories
      /\ session.id \in 0..MaxSessions /\ number \in 0..MaxCommands /\ number < MaxCommands
      /\ session.phase = "ready" /\ pc = "begun"
      /\ number' = number + 1 /\ pc' = "prepared" /\ card' = card
      /\ executed' = executed /\ replies' = replies /\ answer' = answer /\ result' = result
      /\ vectors' = vectors \cup {[id |-> session.id, iv |-> session.iv, number |-> number + 1]}
      /\ session' = [session EXCEPT !.phase = "awaiting_response",
                                    !.iv = Append(session.iv, number + 1)]
  BY DEF StandardInv, StandardTyped, StandardSession, Standard!Prepare, Standard!VectorAfter,
         Standard!Command
<1>2. /\ Append(session.iv, number + 1) \in Histories /\ Len(session.iv) \in Nat
      /\ Len(Append(session.iv, number + 1)) = Len(session.iv) + 1
  BY <1>1, StandardAssumption, HistoryGrows, SMTT(30)
<1>3. /\ session'.id = session.id /\ session'.phase = "awaiting_response"
      /\ session'.iv = Append(session.iv, number + 1) /\ session' \in StandardSession
  BY <1>1, <1>2 DEF StandardSession
<1>4. StandardTyped'
  BY <1>1, <1>3, StandardAssumption DEF StandardInv, StandardTyped, Underway
<1>5. ExecutedInv'
  BY <1>1, StandardAssumption DEF StandardInv, ExecutedInv
<1>6. InStepInv'
  BY <1>1, <1>3 DEF StandardInv, InStepInv
<1>7. VectorsInv'
  <2>1. \A v \in vectors : v.id = session.id => Len(v.iv) < Len(session.iv)
    BY <1>1 DEF StandardInv, VectorsInv
  <2>2. \A v \in vectors' : v.iv \in Histories /\ v.id \in 0..session'.id
    BY <1>1, <1>3, StandardAssumption DEF StandardInv, VectorsInv
  <2>3. \A v \in vectors : v.id = session.id => Len(v.iv) \in Nat /\ v.iv # session.iv
    BY <2>1, <1>2, <1>1, HistoryGrows, SMTT(30) DEF StandardInv, VectorsInv
  <2>4. \A v \in vectors' : v.id = session'.id => Len(v.iv) < Len(session'.iv)
    BY <1>1, <1>2, <1>3, <2>1, <2>3
  <2>5. Standard!NoVectorReuse'
    BY <1>1, <2>3 DEF StandardInv, VectorsInv, Standard!NoVectorReuse
  <2> QED  BY <2>2, <2>4, <2>5 DEF VectorsInv
<1>8. RepliesInv'
  <2>1. \A a \in replies : Said(a)' /\ (a.mode # "none" => a.number # number')
    BY <1>1, StandardAssumption DEF StandardInv, RepliesInv, Said, ExecutedInv
  <2> QED  BY <1>1, <2>1 DEF StandardInv, RepliesInv
<1>9. ReturnedInv'
  BY <1>1 DEF StandardInv, ReturnedInv, Standard!NoResult, Standard!ResponseIsFresh,
     Standard!NotSentMeansUnexecuted, Standard!BoundaryIsTrue
<1> QED  BY <1>4, <1>5, <1>6, <1>7, <1>8, <1>9 DEF StandardInv

\* Whatever ends an exchange leaves the vectors and the replies alone.
LEMMA StandardReturns ==
    ASSUME StandardInv, NEW s \in StandardSession, NEW r, Standard!Return(s, r),
           pc # "idle", s.phase # "awaiting_response", s.id = session.id,
           s.phase # "invalid" =>
               /\ card.alive /\ card.id = s.id /\ card.iv = s.iv
               /\ Len(s.iv) > Len(session.iv) /\ session.phase # "invalid",
           r.outcome \in {"not_sent", "rejected", "succeeded", "unknown"},
           r.outcome = "not_sent" => r.number \notin executed,
           (r.outcome = "succeeded" /\ r.verified) =>
               r.reply = r.number /\ r.number \in executed /\ r.size = r.true
    PROVE  StandardInv'
<1>1. /\ session' = s /\ pc' = "idle" /\ result' = r /\ answer' = Standard!Garbled
      /\ card' = card /\ number' = number /\ vectors' = vectors /\ replies' = replies
      /\ executed' = executed
  BY DEF Standard!Return
<1>2. StandardTyped'
  BY <1>1 DEF StandardInv, StandardTyped, StandardSession, Underway
<1>3. ExecutedInv' /\ InStepInv'
  BY <1>1 DEF StandardInv, ExecutedInv, InStepInv, Underway
<1>4. VectorsInv'
  <2>1. \A v \in vectors : v.iv \in Histories /\ v.id \in 0..session.id
    BY DEF StandardInv, VectorsInv
  <2>2. Len(session.iv) \in Nat /\ Len(s.iv) \in Nat
    BY HistoryGrows DEF StandardInv, StandardTyped, StandardSession
  <2>3. \A v \in vectors : Len(v.iv) \in Nat
    BY <2>1, HistoryGrows
  <2>4. \A v \in vectors : v.id = s.id => s.phase = "invalid" \/ Len(v.iv) < Len(s.iv)
    BY <2>2, <2>3 DEF StandardInv, VectorsInv
  <2> QED  BY <1>1, <2>1, <2>4 DEF StandardInv, VectorsInv, Standard!NoVectorReuse
<1>5. RepliesInv'
  <2>1. \A a : Said(a) => Said(a)'
    BY <1>1 DEF Said
  <2> QED  BY <1>1, <2>1 DEF StandardInv, RepliesInv
<1>6. ReturnedInv'
  BY <1>1 DEF StandardInv, ReturnedInv, Standard!NoResult, Standard!ResponseIsFresh,
     Standard!NotSentMeansUnexecuted, Standard!BoundaryIsTrue
<1> QED  BY <1>2, <1>3, <1>4, <1>5, <1>6 DEF StandardInv

\* A failure ends the session of the host.
LEMMA StandardFails ==
    ASSUME StandardInv, NEW o \in {"not_sent", "rejected", "unknown"}, Standard!Fails(o),
           pc # "idle", o = "not_sent" => pc \in {"begun", "prepared"}
    PROVE  StandardInv'
<1> DEFINE s == Standard!Invalid(session)
           r == [Standard!NoResult EXCEPT !.outcome = o, !.number = IF pc = "begun" THEN 0 ELSE number]
<1>1. Standard!Return(s, r)
  BY DEF Standard!Fails
<1>2. s \in StandardSession /\ s.phase = "invalid" /\ s.id = session.id
  <2>1. <<>> \in Histories /\ session \in StandardSession
    BY DEF StandardInv, StandardTyped, Histories
  <2> QED  BY <2>1 DEF StandardSession, Standard!Invalid
<1>3. r.outcome = o /\ r.number = IF pc = "begun" THEN 0 ELSE number
  BY DEF Standard!NoResult
<1>4. o = "not_sent" => r.number \notin executed
  BY <1>3 DEF StandardInv, ExecutedInv
<1> HIDE DEF s, r
<1> QED  BY <1>1, <1>2, <1>3, <1>4, StandardReturns

\* The card executes the command it was sent, and answers it.
LEMMA StandardAccepts ==
    ASSUME StandardInv, Standard!CardAccepts
    PROVE  StandardInv'
<1>1. /\ pc = "prepared" /\ pc' = "sent" /\ card.alive /\ card.id = session.id
      /\ session.iv = Append(card.iv, number) /\ number \notin executed /\ number > 0
      /\ number \in 1..MaxCommands /\ card \in StandardCard /\ session \in StandardSession
      /\ card.iv \in Histories /\ session.iv \in Histories
  BY StandardAssumption
  DEF Standard!CardAccepts, StandardInv, StandardTyped, ExecutedInv, InStepInv, StandardCard,
      StandardSession, Underway
<1>2. /\ session' = session /\ number' = number /\ answer' = answer /\ vectors' = vectors
      /\ request' = request /\ result' = result /\ executed' = executed \cup {number}
      /\ card' = [card EXCEPT !.alive = ~request.drops, !.iv = Append(session.iv, -number)]
  BY <1>1 DEF Standard!CardAccepts, Standard!Command, Standard!Response
<1>3. PICK a :
        /\ replies' = replies \cup {a}
        /\ a.mode = (IF request.response = "full" THEN "full" ELSE "mac")
        /\ a.iv = Append(session.iv, -number) /\ a.id = session.id /\ a.number = number
        /\ a.size \in a.boundaries
  <2>1. \E n \in IF request.response = "full" THEN Replies ELSE {0} :
        \E other \in IF request.response = "full"
                     THEN Standard!Candidates(Standard!Padded(n)) ELSE {0} :
          replies' = replies \cup
            {[status |-> "ok", mode |-> IF request.response = "full" THEN "full" ELSE "mac",
              iv |-> Append(Append(card.iv, number), -number), id |-> card.id,
              number |-> number, size |-> n, boundaries |-> {n, other}]}
    BY DEF Standard!CardAccepts, Standard!Command, Standard!Response
  <2>2. PICK n, other :
          replies' = replies \cup
            {[status |-> "ok", mode |-> IF request.response = "full" THEN "full" ELSE "mac",
              iv |-> Append(Append(card.iv, number), -number), id |-> card.id,
              number |-> number, size |-> n, boundaries |-> {n, other}]}
    BY <2>1, Zenon
  <2> DEFINE a == [status |-> "ok", mode |-> IF request.response = "full" THEN "full" ELSE "mac",
                   iv |-> Append(Append(card.iv, number), -number), id |-> card.id,
                   number |-> number, size |-> n, boundaries |-> {n, other}]
  <2>3. /\ a.mode = (IF request.response = "full" THEN "full" ELSE "mac")
        /\ a.iv = Append(session.iv, -number) /\ a.id = session.id /\ a.number = number
        /\ a.size \in a.boundaries
    BY <1>1
  <2>4. replies' = replies \cup {a}
    BY <2>2
  <2> HIDE DEF a
  <2> QED  BY <2>3, <2>4
<1>4. /\ Append(session.iv, -number) \in Histories
      /\ card' \in StandardCard /\ card'.id = session.id /\ card'.iv = Append(session.iv, -number)
      /\ card'.alive = ~request.drops
  <2>1. Append(session.iv, -number) \in Histories
    BY <1>1, HistoryGrows, StandardAssumption
  <2>2. request.drops \in BOOLEAN \/ request.drops \notin BOOLEAN
    OBVIOUS
  <2> QED  BY <1>1, <1>2, <2>1 DEF StandardCard
<1>5. StandardTyped'
  BY <1>1, <1>2, <1>4 DEF StandardInv, StandardTyped, Underway
<1>6. ExecutedInv'
  BY <1>1, <1>2 DEF StandardInv, ExecutedInv
<1>7. InStepInv'
  BY <1>1, <1>2 DEF StandardInv, InStepInv, Underway
<1>8. VectorsInv'
  BY <1>1, <1>2 DEF StandardInv, VectorsInv, Standard!NoVectorReuse
<1>9. RepliesInv'
  <2>1. a.mode # "none"
    BY <1>3
  <2>2. \E x \in Histories : a.iv = Append(Append(x, a.number), -a.number)
    BY <1>1, <1>3
  <2>3. Said(a)' /\ OwnAnswer(a)'
    BY <1>2, <1>3, <1>4, <2>1, <2>2 DEF Said, OwnAnswer
  <2>4. \A b \in replies : Said(b)' /\ (b.mode # "none" => b.number # number)
    BY <1>1, <1>2 DEF StandardInv, RepliesInv, Said
  <2> QED  BY <1>2, <1>3, <2>3, <2>4 DEF StandardInv, RepliesInv
<1>10. ReturnedInv'
  BY <1>1, <1>2 DEF StandardInv, ReturnedInv, Standard!NoResult, Standard!ResponseIsFresh,
     Standard!NotSentMeansUnexecuted, Standard!BoundaryIsTrue
<1> QED  BY <1>5, <1>6, <1>7, <1>8, <1>9, <1>10 DEF StandardInv

\* The card refuses the command and forgets its session.
LEMMA StandardRejects ==
    ASSUME StandardInv, Standard!CardRejects
    PROVE  StandardInv'
<1>1. /\ pc = "prepared" /\ pc' = "sent" /\ number \notin executed
      /\ session' = session /\ number' = number /\ answer' = answer /\ vectors' = vectors
      /\ request' = request /\ result' = result /\ executed' = executed
      /\ card' = [card EXCEPT !.alive = FALSE]
      /\ replies' = replies \cup {[Standard!Garbled EXCEPT !.status = "error"]}
  BY DEF Standard!CardRejects, StandardInv, ExecutedInv
<1>2. StandardTyped'
  BY <1>1 DEF StandardInv, StandardTyped, StandardCard, Underway
<1>3. ExecutedInv' /\ InStepInv' /\ VectorsInv'
  BY <1>1 DEF StandardInv, ExecutedInv, InStepInv, Underway, VectorsInv, Standard!NoVectorReuse
<1>4. RepliesInv'
  <2>1. \A a \in replies' : Said(a)' /\ (a.mode # "none" => a.number # number)
    BY <1>1 DEF StandardInv, RepliesInv, Said, Standard!Garbled
  <2> QED  BY <1>1, <2>1 DEF StandardInv, RepliesInv
<1>5. ReturnedInv'
  BY <1>1 DEF StandardInv, ReturnedInv, Standard!NoResult, Standard!ResponseIsFresh,
     Standard!NotSentMeansUnexecuted, Standard!BoundaryIsTrue
<1> QED  BY <1>2, <1>3, <1>4, <1>5 DEF StandardInv

\* The frame is lost, or the reader returns an answer.
LEMMA StandardArrives ==
    ASSUME StandardInv, Standard!FrameLost \/ Standard!ReaderReturns
    PROVE  StandardInv'
<1>1. /\ \/ pc = "prepared" /\ pc' = "sent" /\ answer' = answer
         \/ pc = "sent" /\ pc' = "answered"
      /\ answer' \in replies \cup {Standard!Garbled}
      /\ session' = session /\ number' = number /\ vectors' = vectors
      /\ request' = request /\ result' = result /\ executed' = executed
      /\ card' = card /\ replies' = replies
  BY DEF Standard!FrameLost, Standard!ReaderReturns, StandardInv, RepliesInv
<1>2. StandardTyped'
  BY <1>1 DEF StandardInv, StandardTyped, Underway
<1>3. ExecutedInv' /\ InStepInv' /\ VectorsInv'
  BY <1>1 DEF StandardInv, ExecutedInv, InStepInv, Underway, VectorsInv, Standard!NoVectorReuse
<1>4. RepliesInv'
  <2>1. \A a \in replies : Said(a)' /\ (a.mode # "none" /\ pc = "prepared" => a.number # number)
    BY <1>1 DEF StandardInv, RepliesInv, Said, ExecutedInv
  <2>2. \A a : OwnAnswer(a) => OwnAnswer(a)'
    BY <1>1 DEF OwnAnswer
  <2> QED  BY <1>1, <2>1, <2>2 DEF StandardInv, RepliesInv
<1>5. ReturnedInv'
  BY <1>1 DEF StandardInv, ReturnedInv, Standard!NoResult, Standard!ResponseIsFresh,
     Standard!NotSentMeansUnexecuted, Standard!BoundaryIsTrue
<1> QED  BY <1>2, <1>3, <1>4, <1>5 DEF StandardInv

\* A verified answer was made for the command on its way.
LEMMA VerifiedIsOwn ==
    ASSUME StandardInv, pc = "answered", NEW mode \in {"full", "mac"},
           Standard!Verifies(session, answer, mode)
    PROVE  answer.number = number /\ OwnAnswer(answer) /\ Said(answer) /\ number \in executed
<1>1. answer \in replies /\ answer.mode = mode /\ answer.mode # "none"
  BY DEF StandardInv, RepliesInv, Standard!Verifies, Standard!Garbled
<1>2. Said(answer) /\ answer.number \in executed /\ answer.number \in Int /\ number \in Int
  <2>1. number \in Int /\ executed \subseteq 1..number
    BY StandardAssumption DEF StandardInv, ExecutedInv, StandardTyped
  <2>2. Said(answer) /\ answer.number \in executed
    BY <1>1 DEF StandardInv, RepliesInv, Said
  <2>3. \A k \in 1..number : k \in Int
    BY <2>1
  <2> QED  BY <2>1, <2>2, <2>3
<1>3. PICK x \in Histories : answer.iv = Append(Append(x, answer.number), -answer.number)
  BY <1>1, <1>2 DEF Said
<1>4. PICK y \in Histories : session.iv = Append(y, number)
  BY DEF StandardInv, InStepInv, Underway
<1>5. answer.iv = Append(session.iv, -answer.number)
  BY DEF Standard!Verifies, Standard!Response
<1> DEFINE m == answer.number
           u == Append(x, m)
<1>6. u \in Histories /\ session.iv \in Histories /\ m \in Int /\ -m \in Int
  <2>1. m \in Int /\ -m \in Int
    BY <1>2
  <2>2. u \in Histories
    BY <2>1, HistoryGrows
  <2> QED  BY <2>1, <2>2 DEF StandardInv, StandardTyped, StandardSession
<1>7. Append(u, -m) = Append(session.iv, -m)
  BY <1>3, <1>5
<1>8. u = session.iv
  <2> HIDE DEF u, m
  <2> QED  BY <1>6, <1>7, HistoryGrows
<1>9. m = number
  <2>1. Append(x, m) = Append(y, number)
    BY <1>4, <1>8
  <2> HIDE DEF u, m
  <2> QED  BY <1>2, <1>6, <2>1, HistoryGrows
<1> QED  BY <1>1, <1>2, <1>9 DEF StandardInv, RepliesInv

\* The answer is believed, and closes the history of the command.
LEMMA StandardBelieves ==
    ASSUME StandardInv, Standard!ResponseAccepted
    PROVE  StandardInv'
<1> DEFINE mode == IF request.response = "full" THEN "full" ELSE "mac"
           after == IF request.drops THEN Standard!Invalid(session)
                    ELSE [session EXCEPT !.phase = "ready",
                            !.iv = Standard!AcceptedVector(@, answer.number)]
<1>1. /\ pc = "answered" /\ mode \in {"full", "mac"}
      /\ Standard!Unchecked(request) \/ Standard!Verifies(session, answer, mode)
  BY DEF Standard!ResponseAccepted
<1>2. PICK n : /\ n \in IF request.response = "full"
                        THEN Standard!VerifiedSizes(request, answer) ELSE {answer.size}
               /\ Standard!Return(after,
                    [outcome |-> "succeeded", verified |-> ~Standard!Unchecked(request),
                     number |-> number, reply |-> answer.number, size |-> n,
                     true |-> IF request.size = Standard!AnySize THEN answer.size ELSE n])
  BY DEF Standard!ResponseAccepted
<1>3. ~Standard!Unchecked(request) =>
          answer.number = number /\ OwnAnswer(answer) /\ Said(answer) /\ number \in executed
  BY <1>1, VerifiedIsOwn
<1>4. /\ session \in StandardSession /\ session.iv \in Histories /\ session.phase # "invalid"
      /\ number \in Int
  BY <1>1, StandardAssumption DEF StandardInv, StandardTyped, StandardSession, Underway
<1>5. /\ after \in StandardSession /\ after.phase # "awaiting_response" /\ after.id = session.id
      /\ after.phase # "invalid" =>
           /\ card.alive /\ card.id = after.id /\ card.iv = after.iv
           /\ Len(after.iv) > Len(session.iv)
  <2>1. CASE request.drops
    <3>1. <<>> \in Histories /\ after = Standard!Invalid(session)
      BY <2>1 DEF Histories
    <3> QED  BY <1>4, <3>1 DEF StandardSession, Standard!Invalid
  <2>2. CASE ~request.drops
    <3>1. answer.number = number /\ OwnAnswer(answer)
      BY <1>3, <2>2 DEF Standard!Unchecked
    <3>2. after = [session EXCEPT !.phase = "ready", !.iv = Append(session.iv, -number)]
      BY <2>2, <3>1 DEF Standard!AcceptedVector, Standard!Response
    <3>3. /\ Append(session.iv, -number) \in Histories /\ Len(session.iv) \in Nat
          /\ Len(Append(session.iv, -number)) = Len(session.iv) + 1
      BY <1>4, HistoryGrows
    <3>4. /\ after \in StandardSession /\ after.phase = "ready" /\ after.id = session.id
          /\ after.iv = Append(session.iv, -number)
      BY <1>4, <3>2, <3>3 DEF StandardSession
    <3>5. card.alive /\ card.id = session.id /\ card.iv = Append(session.iv, -number)
      BY <2>2, <3>1 DEF OwnAnswer
    <3>6. Len(after.iv) > Len(session.iv)
      <4> HIDE DEF after
      <4> QED  BY <3>3, <3>4
    <3> HIDE DEF after
    <3> QED  BY <3>4, <3>5, <3>6
  <2> QED  BY <2>1, <2>2
<1>6. ~Standard!Unchecked(request) =>
          n = IF request.size = Standard!AnySize THEN answer.size ELSE n
  BY <1>2, <1>3 DEF Standard!VerifiedSizes, OwnAnswer, Said
<1> DEFINE r == [outcome |-> "succeeded", verified |-> ~Standard!Unchecked(request),
                 number |-> number, reply |-> answer.number, size |-> n,
                 true |-> IF request.size = Standard!AnySize THEN answer.size ELSE n]
<1>7. /\ Standard!Return(after, r) /\ r.outcome = "succeeded"
      /\ r.verified =>
           r.reply = r.number /\ r.number \in executed /\ r.size = r.true
  BY <1>2, <1>3, <1>6
<1> HIDE DEF after, r
<1> QED  BY <1>1, <1>4, <1>5, <1>7, StandardReturns

\* Every step of the layer keeps the invariant.
LEMMA StandardStep ==
    ASSUME StandardInv, Standard!Next
    PROVE  StandardInv'
<1>1. ASSUME NEW r \in StandardRequests, Standard!Begin(r)
      PROVE  StandardInv'
  BY <1>1, StandardBegins
<1>2. ASSUME Standard!PrepareFails \/ Standard!RawFails \/ Standard!ResponseRejected
             \/ Standard!ResponseBad
      PROVE  StandardInv'
  <2>1. \E o \in {"not_sent", "rejected", "unknown"} :
            /\ Standard!Fails(o) /\ pc # "idle"
            /\ o = "not_sent" => pc \in {"begun", "prepared"}
    BY <1>2 DEF Standard!PrepareFails, Standard!RawFails, Standard!ResponseRejected,
       Standard!ResponseBad, Standard!BadOutcome
  <2> QED  BY <2>1, StandardFails
<1> QED
  BY <1>1, <1>2, StandardAuthenticates, StandardPrepares, StandardAccepts, StandardRejects,
     StandardArrives, StandardBelieves
  DEF Standard!Next

\* Steps of no consequence to the layer.
LEMMA StandardStutters ==
    ASSUME StandardInv, UNCHANGED Standard!vars
    PROVE  StandardInv'
<1>1. StandardTyped' /\ ExecutedInv' /\ InStepInv'
  BY DEF Standard!vars, StandardInv, StandardTyped, ExecutedInv, InStepInv
<1>2. RepliesInv'
  <2>1. \A a : (Said(a) => Said(a)') /\ (OwnAnswer(a) => OwnAnswer(a)')
    BY DEF Standard!vars, Said, OwnAnswer
  <2> QED  BY <2>1 DEF Standard!vars, StandardInv, RepliesInv
<1>3. VectorsInv' /\ ReturnedInv'
  BY DEF Standard!vars, StandardInv, VectorsInv, ReturnedInv, Standard!NoVectorReuse,
     Standard!ResponseIsFresh, Standard!NotSentMeansUnexecuted, Standard!BoundaryIsTrue
<1> QED  BY <1>1, <1>2, <1>3 DEF StandardInv

\* What the runs check of the layer follows.
LEMMA StandardPromises ==
    ASSUME StandardInv
    PROVE  /\ Standard!TypeOK /\ Standard!VectorsInStep /\ Standard!GenuineVerifies
           /\ Standard!ResponseIsFresh /\ Standard!NoVectorReuse /\ Standard!BoundaryIsTrue
           /\ Standard!NotSentMeansUnexecuted
<1>1. Standard!TypeOK
  BY DEF StandardInv, StandardTyped, StandardSession, StandardCard, Underway, Standard!TypeOK
<1>2. Standard!VectorsInStep
  BY DEF StandardInv, InStepInv, Standard!VectorsInStep
<1>3. Standard!GenuineVerifies
  <2> SUFFICES ASSUME pc = "answered", answer.status = "ok", answer.number = number
               PROVE  Standard!Verifies(session, answer,
                          IF request.response = "full" THEN "full" ELSE "mac")
    BY DEF Standard!GenuineVerifies
  <2>1. number # 0
    BY StandardAssumption DEF StandardInv, ExecutedInv, Underway, StandardTyped
  <2>2. answer \in replies /\ answer.mode # "none"
    BY <2>1 DEF StandardInv, RepliesInv, Standard!Garbled, Said
  <2>3. OwnAnswer(answer)
    BY <2>2 DEF StandardInv, RepliesInv
  <2> QED  BY <2>3 DEF OwnAnswer, Standard!Verifies, Standard!Response
<1> QED  BY <1>1, <1>2, <1>3 DEF StandardInv, VectorsInv, ReturnedInv

-----------------------------------------------------------------------------
(***************************************************************************)
(* EV2: the layer of Ev2Channel, with the pairs of modes the checked       *)
(* commands use.                                                           *)
(***************************************************************************)
\* The session awaits the response in the phase its request needs, so that the
\* outcome an Error has by default is never given to a command that was sent.
Ev2Inv ==
    /\ session \in Ev2!SessionType
    /\ number \in Nat /\ executed \subseteq 1..number
    /\ pc \in {"idle", "begun"} \cup Underway
    /\ pc # "idle" => request \in Ev2Requests /\ result.outcome = "none"
    /\ pc = "prepared" => number \notin executed
    /\ pc \in Underway => number > 0 /\ session.phase = Ev2!PhaseFor(request.request)
    /\ Ev2!NotSentMeansUnexecuted

\* The constants of the layer.
LEMMA Ev2Assumption ==
    /\ Ev2Requests \subseteq Ev2!RequestType /\ PairsOfModesAgree
    /\ MaxCounter \in Nat /\ MaxSessions \in Nat
BY LayersAssumption, StandardAssumption

\* A command that is not sent is not executed, and has number 0 if there is none.
LEMMA Ev2Returns ==
    ASSUME Ev2Inv, NEW s \in Ev2!SessionType, NEW outcome, NEW verified, Ev2!Return(s, outcome, verified),
           outcome = "not_sent" => pc \in {"begun", "prepared"}
    PROVE  Ev2Inv'
<1>1. /\ session' = s /\ pc' = "idle" /\ number' = number /\ executed' = executed
      /\ result'.outcome = outcome /\ result'.number = IF pc = "begun" THEN 0 ELSE number
  BY DEF Ev2!Return
<1>2. outcome = "not_sent" => result'.number \notin executed
  BY <1>1 DEF Ev2Inv
<1> QED  BY <1>1, <1>2 DEF Ev2Inv, Ev2!NotSentMeansUnexecuted, Underway

\* Nothing was sent at first.
LEMMA Ev2Start ==
    ASSUME Ev2!Init
    PROVE  Ev2Inv
BY Ev2Assumption
DEF Ev2!Init, Ev2Inv, Ev2!NoResult, Ev2!NotSentMeansUnexecuted, Underway, Ev2!SessionType,
    Ev2!Phases

\* Every step of the layer keeps the invariant.
LEMMA Ev2Step ==
    ASSUME Ev2Inv, Ev2!Next
    PROVE  Ev2Inv'
<1>1. ASSUME NEW first, Ev2!Authenticate(first)  PROVE  Ev2Inv'
  <2>1. session' \in Ev2!SessionType
    BY <1>1, Ev2Assumption
    DEF Ev2!Authenticate, Ev2Inv, Ev2!SessionType, Ev2!Phases, Ev2!FirstCounter
  <2> QED
    BY <1>1, <2>1
    DEF Ev2!Authenticate, Ev2Inv, Ev2!NoResult, Ev2!NotSentMeansUnexecuted, Underway
<1>2. ASSUME NEW r \in Ev2Requests, Ev2!Begin(r)  PROVE  Ev2Inv'
  BY <1>2 DEF Ev2!Begin, Ev2Inv, Ev2!NoResult, Ev2!NotSentMeansUnexecuted, Underway
<1>3. CASE Ev2!Prepare
  <2>1. Ev2!CounterAfter(session) \in 0..MaxCounter
    BY Ev2Assumption DEF Ev2Inv, Ev2!SessionType, Ev2!CounterAfter
  <2>2. session' \in Ev2!SessionType /\ session'.phase = Ev2!PhaseFor(request.request)
    BY <1>3, <2>1 DEF Ev2!Prepare, Ev2!PhaseFor, Ev2!SessionType, Ev2!Phases, Ev2Inv
  <2> QED  BY <1>3, <2>2 DEF Ev2!Prepare, Ev2Inv, Ev2!NotSentMeansUnexecuted, Underway
<1>4. CASE Ev2!CardAccepts
  BY <1>4 DEF Ev2!CardAccepts, Ev2Inv, Ev2!NotSentMeansUnexecuted, Underway
<1>5. CASE Ev2!CardRejects \/ Ev2!FrameLost \/ Ev2!ReaderReturns
  BY <1>5 DEF Ev2!CardRejects, Ev2!FrameLost, Ev2!ReaderReturns, Ev2Inv,
     Ev2!NotSentMeansUnexecuted, Underway
<1>6. CASE Ev2!WrongPhase
  <2>1. /\ pc = "answered" /\ request \in Ev2Requests
        /\ session.phase = Ev2!PhaseFor(request.request)
        /\ session.phase # Ev2!PhaseFor(request.response)
        /\ ~(request.drops /\ request.response = "plain")
    BY <1>6 DEF Ev2!WrongPhase, Ev2!Unchecked, Ev2Inv, Underway
  <2> QED  BY <2>1, Ev2Assumption DEF PairsOfModesAgree, Ev2!PhaseFor
<1>7. CASE \/ Ev2!PrepareFails \/ Ev2!RawFails \/ Ev2!ResponseRejected
           \/ Ev2!ResponseBad \/ Ev2!ResponseAccepted
  <2>1. /\ Ev2!Invalid(session) \in Ev2!SessionType
        /\ [session EXCEPT !.phase = "ready"] \in Ev2!SessionType
    <3>1. session \in Ev2!SessionType /\ 0 \in 0..MaxCounter
      BY Ev2Assumption DEF Ev2Inv
    <3> QED  BY <3>1 DEF Ev2!Invalid, Ev2!SessionType, Ev2!Phases
  <2>2. CASE Ev2!PrepareFails
    BY <2>1, <2>2, Ev2Returns DEF Ev2!PrepareFails
  <2>3. CASE Ev2!RawFails
    BY <2>1, <2>3, Ev2Returns DEF Ev2!RawFails
  <2>4. CASE Ev2!ResponseRejected
    BY <2>1, <2>4, Ev2Returns DEF Ev2!ResponseRejected
  <2>5. CASE Ev2!ResponseBad
    BY <2>1, <2>5, Ev2Returns DEF Ev2!ResponseBad, Ev2!AfterBadResponse
  <2>6. CASE Ev2!ResponseAccepted
    BY <2>1, <2>6, Ev2Returns DEF Ev2!ResponseAccepted
  <2> QED  BY <1>7, <2>2, <2>3, <2>4, <2>5, <2>6
<1> QED
  BY <1>1, <1>2, <1>3, <1>4, <1>5, <1>6, <1>7 DEF Ev2!Next

\* Steps of no consequence to the layer.
LEMMA Ev2Stutters ==
    ASSUME Ev2Inv, UNCHANGED Ev2!vars
    PROVE  Ev2Inv'
BY DEF Ev2!vars, Ev2Inv, Ev2!NotSentMeansUnexecuted

-----------------------------------------------------------------------------
(***************************************************************************)
(* The handshakes: the layer of Handshake.                                 *)
(***************************************************************************)
\* The records in full; a session that was made has a profile.
SessionRecord ==
    [profile : Handshakes!Profiles \cup {"none"}, key : Keys, a : Nat, b : Nat, ti : Nat]
HostRecord == [profile : Handshakes!Profiles \cup {"none"}, key : Keys, a : Nat, b : Nat]
CardRecord == [asked : Handshakes!Profiles \cup {"none"}, b : Nat, session : SessionRecord]
ReplyRecord ==
    [status : {"garbled", "error", "af", "00"}, size : {16, 32}, key : {CardKey}, a : Nat,
     b : Nat, ti : Nat, echo : BOOLEAN, chained : Nat]

\* Where the card has not proven itself yet, and where it may have.
BeforeProof == {"initial", "challenged", "initial_read", "proof"}
AfterProof == {"proved", "proof_read"}

HandshakeTyped ==
    /\ pc \in {"idle"} \cup BeforeProof \cup AfterProof
    /\ host \in HostRecord /\ session \in SessionRecord /\ card \in CardRecord
    /\ nonce \in 0..MaxNonce /\ host.a <= nonce /\ host.b <= nonce
    /\ pc = "idle" <=> host = Handshakes!NoHost
    /\ pc # "idle" => host.profile # "none" /\ host.a > 0
    /\ result.outcome \in {"none", "not_sent", "rejected", "unknown", "succeeded"}

\* A card asked for a proof drew a nonce for it, and has a session to replace if
\* it was asked to.
CardInv ==
    /\ card.asked # "none" => card.b > 0
    /\ card.asked = "nonfirst" => card.session # Handshakes!NoSession

\* The sessions that were made have a profile, and the host has none but these.
MadeInv ==
    /\ made \subseteq SessionRecord
    /\ \A s \in made : s.profile # "none"
    /\ Handshakes!Agreement
    /\ host.profile = "nonfirst" => session # Handshakes!NoSession

\* As long as the card has not proven itself to this handshake, the session it
\* goes on with is that of the host.
BeforeInv ==
    pc \notin AfterProof /\ session # Handshakes!NoSession
            /\ card.session # Handshakes!NoSession =>
        card.session = session

\* The answers of the cards carry nonces that were drawn; none of them proves the
\* nonce of a handshake before its proof is asked for.
RepliesTyped ==
    /\ replies \subseteq ReplyRecord
    /\ \A r \in replies : r.a <= nonce /\ r.b <= nonce
    /\ \A r \in replies : r.status = "00" => r.a > 0
    /\ wire \in replies \cup {Handshakes!Garbled}

\* The answer r proves the session s to this handshake.
Proves(r, s) ==
    /\ s.key = CardKey /\ host.key = CardKey /\ s.a = host.a /\ s.b = host.b /\ s.b > 0
    /\ r.chained = Handshakes!Vector(s.profile, s.b)
    /\ r.size = Handshakes!TerminalSize(s.profile)
    /\ r.ti = IF s.profile = "first" THEN s.ti ELSE 0
    /\ s.profile = "standard" => s.ti = 0
    /\ s.profile = "nonfirst" /\ session # Handshakes!NoSession => s.ti = session.ti
    /\ card.session = Handshakes!NoSession \/ card.session = s

ProofInv ==
    \A r \in replies : r.status = "00" /\ r.a = host.a /\ pc # "idle" =>
        pc \in AfterProof /\ \E s \in made : Proves(r, s)

\* What was heard, and what the caller is told of it.
HeardInv ==
    /\ pc \in {"idle", "initial"} => ~heard
    /\ Handshakes!NotSentUnheard

HandshakeInv ==
    HandshakeTyped /\ CardInv /\ MadeInv /\ BeforeInv /\ RepliesTyped /\ ProofInv /\ HeardInv

\* The constants of the layer.
LEMMA HandshakeAssumption == CardKey \in Keys /\ MaxNonce \in Nat
BY LayersAssumption DEF Handshakes!ConstantsAssumption

\* The records the layer is built from.
LEMMA HandshakeRecords ==
    /\ Handshakes!NoSession \in SessionRecord /\ Handshakes!NoHost \in HostRecord
    /\ Handshakes!NewCard \in CardRecord
    /\ Handshakes!NoSession.profile = "none" /\ Handshakes!NoHost.profile = "none"
    /\ Handshakes!NoHost.a = 0 /\ Handshakes!NoHost.b = 0
    /\ Handshakes!NewCard.asked = "none" /\ Handshakes!NewCard.session = Handshakes!NoSession
    /\ Handshakes!Garbled.status = "garbled"
<1>1. Handshakes!NoSession \in SessionRecord /\ Handshakes!NoHost \in HostRecord
  BY HandshakeAssumption
  DEF Handshakes!NoSession, Handshakes!NoHost, SessionRecord, HostRecord
<1>2. Handshakes!NewCard \in CardRecord
  BY <1>1 DEF Handshakes!NewCard, CardRecord
<1> QED
  BY <1>1, <1>2
  DEF Handshakes!NoSession, Handshakes!NoHost, Handshakes!NewCard, Handshakes!Garbled,
      Handshakes!Reply

\* At first there is nothing.
LEMMA HandshakeStart ==
    ASSUME Handshakes!Init
    PROVE  HandshakeInv
<1>1. HandshakeTyped /\ CardInv /\ MadeInv
  BY HandshakeRecords, HandshakeAssumption
  DEF Handshakes!Init, HandshakeTyped, CardInv, MadeInv, BeforeProof, AfterProof,
      Handshakes!NoResult, Handshakes!Agreement
<1>2. BeforeInv /\ RepliesTyped /\ ProofInv /\ HeardInv
  BY HandshakeRecords
  DEF Handshakes!Init, BeforeInv, RepliesTyped, ProofInv, HeardInv, Handshakes!NoResult,
      Handshakes!NotSentUnheard
<1> QED  BY <1>1, <1>2 DEF HandshakeInv

\* A failure drops the session the handshake was to replace.
LEMMA HandshakeFails ==
    ASSUME HandshakeInv, NEW code, NEW outcome \in {"not_sent", "rejected", "unknown"},
           Handshakes!Fails(code, outcome), outcome = "not_sent" => ~heard
    PROVE  HandshakeInv'
<1>1. /\ pc' = "idle" /\ host' = Handshakes!NoHost /\ wire' = Handshakes!Garbled
      /\ session' = Handshakes!NoSession /\ heard' = FALSE
      /\ result' = [code |-> code, outcome |-> outcome, heard |-> heard]
      /\ card' = card /\ nonce' = nonce /\ replies' = replies /\ made' = made
  BY DEF Handshakes!Fails, Handshakes!AfterFailure
<1>2. HandshakeTyped'
  BY <1>1, HandshakeRecords, HandshakeAssumption DEF HandshakeInv, HandshakeTyped
<1>3. CardInv' /\ MadeInv' /\ BeforeInv'
  BY <1>1, HandshakeRecords
  DEF HandshakeInv, CardInv, MadeInv, BeforeInv, Handshakes!Agreement
<1>4. RepliesTyped' /\ ProofInv' /\ HeardInv'
  BY <1>1
  DEF HandshakeInv, RepliesTyped, ProofInv, HeardInv, Handshakes!NotSentUnheard
<1> QED  BY <1>2, <1>3, <1>4 DEF HandshakeInv

\* A handshake begins with a nonce that no answer carries.
LEMMA HandshakeBegins ==
    ASSUME HandshakeInv, NEW p \in Handshakes!Profiles, NEW k \in Keys, Handshakes!Authenticate(p, k)
    PROVE  HandshakeInv'
<1>1. /\ pc = "idle" /\ pc' = "initial" /\ nonce < MaxNonce /\ nonce' = nonce + 1
      /\ p = "nonfirst" => session.profile \in {"first", "nonfirst"}
      /\ host' = [profile |-> p, key |-> k, a |-> nonce + 1, b |-> 0]
      /\ result' = Handshakes!NoResult
      /\ session' = session /\ card' = card /\ wire' = wire /\ replies' = replies
      /\ made' = made /\ heard' = heard
  BY DEF Handshakes!Authenticate
<1>2. nonce \in Nat /\ nonce + 1 \in 0..MaxNonce
  BY <1>1, HandshakeAssumption DEF HandshakeInv, HandshakeTyped
<1>3. HandshakeTyped'
  <2>1. host' \in HostRecord /\ host'.profile = p /\ host'.a = nonce + 1 /\ host'.b = 0
    BY <1>1, <1>2 DEF HostRecord
  <2>2. host' # Handshakes!NoHost
    BY <2>1, <1>2, HandshakeRecords
  <2> QED
    BY <1>1, <1>2, <2>1, <2>2
    DEF HandshakeInv, HandshakeTyped, BeforeProof, Handshakes!Profiles, Handshakes!NoResult
<1>4. CardInv' /\ MadeInv' /\ BeforeInv'
  BY <1>1, HandshakeRecords
  DEF HandshakeInv, CardInv, MadeInv, BeforeInv, Handshakes!Agreement, AfterProof
<1>5. RepliesTyped' /\ ProofInv'
  <2>1. \A r \in replies : r.a \in Nat /\ r.b \in Nat /\ r.a <= nonce /\ r.b <= nonce
    BY DEF HandshakeInv, RepliesTyped, ReplyRecord
  <2> QED
    BY <1>1, <1>2, <2>1
    DEF HandshakeInv, RepliesTyped, ProofInv
<1>6. HeardInv'
  BY <1>1 DEF HandshakeInv, HeardInv, Handshakes!NoResult, Handshakes!NotSentUnheard
<1> QED  BY <1>3, <1>4, <1>5, <1>6 DEF HandshakeInv

\* The first frame reaches the card, which answers with a new nonce.
LEMMA HandshakeChallenges ==
    ASSUME HandshakeInv, Handshakes!CardChallenges
    PROVE  HandshakeInv'
<1>1. /\ pc = "initial" /\ pc' = "challenged" /\ heard' = TRUE /\ nonce < MaxNonce
      /\ nonce' = nonce + 1
      /\ host.profile = "nonfirst" => card.session.profile \in {"first", "nonfirst"}
      /\ card' = [card EXCEPT !.asked = host.profile, !.b = nonce + 1,
                    !.session = IF host.profile = "nonfirst" THEN @ ELSE Handshakes!NoSession]
      /\ replies' = replies \cup {[Handshakes!Reply("af") EXCEPT !.b = nonce + 1]}
      /\ host' = host /\ session' = session /\ wire' = wire /\ made' = made /\ result' = result
  BY DEF Handshakes!CardChallenges
<1>2. nonce \in Nat /\ nonce + 1 \in 0..MaxNonce
  BY <1>1, HandshakeAssumption DEF HandshakeInv, HandshakeTyped
<1>3. /\ card' \in CardRecord /\ card'.asked = host.profile /\ card'.b = nonce + 1
      /\ card'.session = IF host.profile = "nonfirst" THEN card.session
                         ELSE Handshakes!NoSession
  <2> DEFINE x == IF host.profile = "nonfirst" THEN card.session ELSE Handshakes!NoSession
             m == nonce + 1
  <2>1. card \in CardRecord /\ host.profile \in Handshakes!Profiles \cup {"none"}
    BY DEF HandshakeInv, HandshakeTyped, HostRecord
  <2>2. x \in SessionRecord /\ m \in Nat
    BY <1>2, <2>1, HandshakeRecords DEF CardRecord
  <2>3. card' = [card EXCEPT !.asked = host.profile, !.b = m, !.session = x]
    BY <1>1
  <2>4. /\ card' \in CardRecord /\ card'.asked = host.profile /\ card'.b = m
        /\ card'.session = x
    <3> HIDE DEF x, m
    <3> QED  BY <2>1, <2>2, <2>3 DEF CardRecord
  <2> QED  BY <2>4
<1> DEFINE r == [Handshakes!Reply("af") EXCEPT !.b = nonce + 1]
<1>4. r \in ReplyRecord /\ r.status = "af" /\ r.a = 0 /\ r.b = nonce + 1
  <2> DEFINE m == nonce + 1
  <2>1. m \in Nat /\ r = [Handshakes!Reply("af") EXCEPT !.b = m]
    BY <1>2
  <2>2. r \in ReplyRecord /\ r.status = "af" /\ r.a = 0 /\ r.b = m
    <3> HIDE DEF m, r
    <3> QED  BY <2>1 DEF Handshakes!Reply, ReplyRecord
  <2> QED  BY <2>2
<1>5. HandshakeTyped'
  BY <1>1, <1>2, <1>3 DEF HandshakeInv, HandshakeTyped, BeforeProof, HostRecord
<1>6. CardInv' /\ MadeInv' /\ BeforeInv'
  BY <1>1, <1>2, <1>3, HandshakeRecords
  DEF HandshakeInv, CardInv, MadeInv, BeforeInv, Handshakes!Agreement, AfterProof
<1>7. RepliesTyped' /\ ProofInv'
  <2>1. replies' = replies \cup {r}
    BY <1>1
  <2>2. \A q \in replies : q.a \in Nat /\ q.b \in Nat /\ q.a <= nonce /\ q.b <= nonce
    BY DEF HandshakeInv, RepliesTyped, ReplyRecord
  <2> HIDE DEF r
  <2>3. RepliesTyped'
    BY <1>1, <1>2, <1>4, <2>1, <2>2 DEF HandshakeInv, RepliesTyped
  <2>4. ProofInv'
    BY <1>1, <1>4, <2>1 DEF HandshakeInv, ProofInv, AfterProof
  <2> QED  BY <2>3, <2>4
<1>8. HeardInv'
  BY <1>1 DEF HandshakeInv, HeardInv, Handshakes!NotSentUnheard
<1> QED  BY <1>5, <1>6, <1>7, <1>8 DEF HandshakeInv

\* The card opens the proof, and answers with its own.
LEMMA HandshakeProves ==
    ASSUME HandshakeInv, Handshakes!CardProves
    PROVE  HandshakeInv'
<1> DEFINE s == [profile |-> card.asked, key |-> CardKey, a |-> host.a, b |-> card.b,
                 ti |-> IF card.asked = "nonfirst" THEN card.session.ti
                        ELSE IF card.asked = "first" THEN card.b ELSE 0]
<1>1. /\ pc = "proof" /\ pc' = "proved" /\ heard' = TRUE
      /\ card.asked # "none" /\ host.key = CardKey /\ host.b = card.b
      /\ card' = [Handshakes!NewCard EXCEPT !.session = s]
      /\ made' = made \cup {s}
      /\ host' = host /\ session' = session /\ wire' = wire /\ nonce' = nonce
      /\ result' = result
  BY DEF Handshakes!CardProves
<1>2. PICK r : /\ replies' = replies \cup {r}
               /\ r \in ReplyRecord /\ r.status = "00" /\ r.a = s.a /\ r.b = 0
               /\ r.ti = IF card.asked = "first" THEN s.ti ELSE 0
               /\ r.size = IF card.asked = "first" THEN 32 ELSE 16
               /\ r.chained = Handshakes!Vector(card.asked, s.b)
  <2>1. PICK echo \in {TRUE, card.asked # "first"} :
          replies' = replies \cup
            {[Handshakes!Reply("00") EXCEPT
                !.a = s.a, !.echo = echo, !.ti = IF card.asked = "first" THEN s.ti ELSE 0,
                !.size = IF card.asked = "first" THEN 32 ELSE 16,
                !.chained = Handshakes!Vector(card.asked, s.b)]}
    BY DEF Handshakes!CardProves
  <2> DEFINE t == IF card.asked = "first" THEN s.ti ELSE 0
             n == IF card.asked = "first" THEN 32 ELSE 16
             v == Handshakes!Vector(card.asked, s.b)
             r == [Handshakes!Reply("00") EXCEPT !.a = s.a, !.echo = echo, !.ti = t, !.size = n,
                                                 !.chained = v]
  <2>2. s.a \in Nat /\ t \in Nat /\ n \in {16, 32} /\ v \in Nat /\ echo \in BOOLEAN
    BY DEF HandshakeInv, HandshakeTyped, CardRecord, SessionRecord, HostRecord,
       Handshakes!Vector
  <2>3. replies' = replies \cup {r}
    BY <2>1
  <2> DEFINE a == s.a
  <2>4. r \in ReplyRecord /\ r.status = "00" /\ r.a = a /\ r.b = 0 /\ r.ti = t /\ r.size = n
        /\ r.chained = v
    <3>1. a \in Nat /\ r = [Handshakes!Reply("00") EXCEPT !.a = a, !.echo = echo, !.ti = t,
                                                          !.size = n, !.chained = v]
      BY <2>2
    <3> HIDE DEF a, t, n, v, r
    <3> QED  BY <2>2, <3>1 DEF Handshakes!Reply, ReplyRecord
  <2> HIDE DEF r
  <2> QED  BY <2>3, <2>4
<1>3. /\ card \in CardRecord /\ host \in HostRecord /\ card.b > 0 /\ host.a \in Nat /\ host.a > 0
      /\ card.b \in Nat /\ card.asked \in Handshakes!Profiles
      /\ card.asked = "nonfirst" => card.session # Handshakes!NoSession
      /\ card.session \in SessionRecord
  BY <1>1 DEF HandshakeInv, HandshakeTyped, CardInv, CardRecord, HostRecord
<1>4. /\ s \in SessionRecord /\ s.profile = card.asked /\ s.key = CardKey /\ s.a = host.a
      /\ s.b = card.b
      /\ s.ti = IF card.asked = "nonfirst" THEN card.session.ti
                ELSE IF card.asked = "first" THEN card.b ELSE 0
  BY <1>3, HandshakeAssumption DEF SessionRecord
<1>5. card.asked = "nonfirst" /\ session # Handshakes!NoSession => s.ti = session.ti
  BY <1>1, <1>3, <1>4 DEF HandshakeInv, BeforeInv, AfterProof
<1>6. PICK z : z = s
  OBVIOUS
<1> HIDE DEF s
<1>7. /\ card' \in CardRecord /\ card'.asked = "none" /\ card'.session = z
  BY <1>1, <1>4, <1>6, HandshakeRecords DEF CardRecord
<1>8. HandshakeTyped'
  BY <1>1, <1>7 DEF HandshakeInv, HandshakeTyped, AfterProof
<1>9. CardInv' /\ MadeInv' /\ BeforeInv'
  BY <1>1, <1>3, <1>4, <1>6, <1>7
  DEF HandshakeInv, CardInv, MadeInv, BeforeInv, Handshakes!Agreement, AfterProof,
      Handshakes!Profiles
<1>10. RepliesTyped'
  BY <1>1, <1>2, <1>3, <1>4 DEF HandshakeInv, RepliesTyped, HandshakeTyped
<1>11. ProofInv'
  <2>1. \A q \in replies : ~(q.status = "00" /\ q.a = host.a)
    BY <1>1 DEF HandshakeInv, ProofInv, AfterProof
  <2>2. z \in made' /\ Proves(r, z)'
    BY <1>1, <1>2, <1>3, <1>4, <1>5, <1>6, <1>7
    DEF Proves, Handshakes!TerminalSize
  <2> QED  BY <1>1, <1>2, <2>1, <2>2 DEF ProofInv, AfterProof
<1>12. HeardInv'
  BY <1>1 DEF HandshakeInv, HeardInv, Handshakes!NotSentUnheard
<1> QED  BY <1>8, <1>9, <1>10, <1>11, <1>12 DEF HandshakeInv

\* The card forgets what it had, and may say so; or another card takes its place.
LEMMA HandshakeForgets ==
    ASSUME HandshakeInv, Handshakes!CardRefuses \/ Handshakes!CardChanges
    PROVE  HandshakeInv'
<1>1. /\ \/ pc = "initial" /\ pc' = "challenged" /\ heard' = TRUE
         \/ pc = "proof" /\ pc' = "proved" /\ heard' = TRUE
         \/ pc' = pc /\ heard' = heard
      /\ card' = Handshakes!NewCard
      /\ replies' \subseteq replies \cup {Handshakes!Reply("error")}
      /\ replies \subseteq replies'
      /\ host' = host /\ session' = session /\ wire' = wire /\ nonce' = nonce /\ made' = made
      /\ result' = result
  BY DEF Handshakes!CardRefuses, Handshakes!CardChanges
<1>2. /\ Handshakes!Reply("error") \in ReplyRecord /\ Handshakes!Reply("error").status = "error"
      /\ Handshakes!Reply("error").a = 0 /\ Handshakes!Reply("error").b = 0
  BY DEF Handshakes!Reply, ReplyRecord
<1>3. HandshakeTyped'
  BY <1>1, HandshakeRecords DEF HandshakeInv, HandshakeTyped, BeforeProof, AfterProof
<1>4. CardInv' /\ MadeInv' /\ BeforeInv' /\ HeardInv'
  BY <1>1, HandshakeRecords
  DEF HandshakeInv, CardInv, MadeInv, BeforeInv, HeardInv, Handshakes!Agreement,
      Handshakes!NotSentUnheard
<1>5. RepliesTyped'
  BY <1>1, <1>2 DEF HandshakeInv, RepliesTyped, HandshakeTyped
<1>6. ProofInv'
  <2>1. \A r, s : Proves(r, s) => Proves(r, s)'
    BY <1>1, HandshakeRecords DEF Proves
  <2> QED  BY <1>1, <1>2, <2>1 DEF HandshakeInv, ProofInv, AfterProof
<1> QED  BY <1>3, <1>4, <1>5, <1>6 DEF HandshakeInv

\* A frame is lost, or the reader returns an answer it has seen.
LEMMA HandshakeArrives ==
    ASSUME HandshakeInv, Handshakes!FrameLost \/ Handshakes!Arrives
    PROVE  HandshakeInv'
<1>1. /\ \/ pc = "initial" /\ pc' = "challenged"
         \/ pc = "proof" /\ pc' = "proved"
         \/ pc = "challenged" /\ pc' = "initial_read"
         \/ pc = "proved" /\ pc' = "proof_read"
      /\ wire' \in replies \cup {Handshakes!Garbled}
      /\ host' = host /\ session' = session /\ card' = card /\ nonce' = nonce
      /\ replies' = replies /\ made' = made /\ heard' = heard /\ result' = result
  BY DEF Handshakes!FrameLost, Handshakes!Arrives, HandshakeInv, RepliesTyped
<1>2. HandshakeTyped'
  BY <1>1 DEF HandshakeInv, HandshakeTyped, BeforeProof, AfterProof
<1>3. CardInv' /\ MadeInv' /\ BeforeInv' /\ HeardInv' /\ RepliesTyped'
  BY <1>1
  DEF HandshakeInv, CardInv, MadeInv, BeforeInv, HeardInv, RepliesTyped, Handshakes!Agreement,
      Handshakes!NotSentUnheard, AfterProof
<1>4. ProofInv'
  <2>1. \A r, s : Proves(r, s) => Proves(r, s)'
    BY <1>1 DEF Proves
  <2> QED  BY <1>1, <2>1 DEF HandshakeInv, ProofInv, AfterProof
<1> QED  BY <1>2, <1>3, <1>4 DEF HandshakeInv

\* The host opens the challenge: the nonce of the card, or rubbish.
LEMMA HandshakeOpens ==
    ASSUME HandshakeInv, Handshakes!Prove
    PROVE  HandshakeInv'
<1>1. /\ pc = "initial_read" /\ pc' = "proof" /\ wire' = Handshakes!Garbled
      /\ host' = [host EXCEPT !.b = IF host.key = wire.key THEN wire.b ELSE 0]
      /\ session' = session /\ card' = card /\ nonce' = nonce /\ replies' = replies
      /\ made' = made /\ heard' = heard /\ result' = result
  BY DEF Handshakes!Prove
<1>2. /\ wire \in replies \cup {Handshakes!Garbled}
      /\ \A r \in replies : r \in ReplyRecord /\ r.b <= nonce
      /\ nonce \in Nat /\ host \in HostRecord /\ host # Handshakes!NoHost
      /\ host.profile # "none"
  BY <1>1, HandshakeAssumption
  DEF HandshakeInv, RepliesTyped, HandshakeTyped
<1> DEFINE b == IF host.key = wire.key THEN wire.b ELSE 0
<1>3. b \in Nat /\ b <= nonce
  BY <1>2 DEF ReplyRecord, Handshakes!Garbled, Handshakes!Reply
<1>4. /\ host' \in HostRecord /\ host'.profile = host.profile /\ host'.a = host.a
      /\ host'.b = b /\ host' # Handshakes!NoHost
  <2>1. host' = [host EXCEPT !.b = b]
    BY <1>1
  <2> HIDE DEF b
  <2>2. /\ host' \in HostRecord /\ host'.profile = host.profile /\ host'.a = host.a
        /\ host'.b = b
    BY <1>2, <1>3, <2>1 DEF HostRecord
  <2> QED  BY <1>2, <2>2, HandshakeRecords
<1> HIDE DEF b
<1>5. HandshakeTyped'
  BY <1>1, <1>3, <1>4 DEF HandshakeInv, HandshakeTyped, BeforeProof
<1>6. CardInv' /\ MadeInv' /\ BeforeInv' /\ HeardInv' /\ RepliesTyped'
  BY <1>1, <1>4
  DEF HandshakeInv, CardInv, MadeInv, BeforeInv, HeardInv, RepliesTyped, Handshakes!Agreement,
      Handshakes!NotSentUnheard, AfterProof
<1>7. ProofInv'
  BY <1>1, <1>4 DEF HandshakeInv, ProofInv, AfterProof
<1> QED  BY <1>5, <1>6, <1>7 DEF HandshakeInv

\* The card proved the nonce of this very handshake: both sides have one session.
LEMMA HandshakeEstablishes ==
    ASSUME HandshakeInv, Handshakes!Establish
    PROVE  HandshakeInv'
<1>1. /\ pc = "proof_read" /\ wire.status = "00"
      /\ wire.size = Handshakes!TerminalSize(host.profile)
      /\ wire.key = host.key /\ wire.a = host.a
      /\ wire.chained = Handshakes!Vector(host.profile, host.b)
      /\ session' = [profile |-> host.profile, key |-> host.key, a |-> host.a, b |-> host.b,
                     ti |-> Handshakes!Identifier]
      /\ result' = [code |-> "ok", outcome |-> "succeeded", heard |-> heard]
      /\ pc' = "idle" /\ host' = Handshakes!NoHost /\ wire' = Handshakes!Garbled
      /\ heard' = FALSE
      /\ card' = card /\ nonce' = nonce /\ replies' = replies /\ made' = made
  BY DEF Handshakes!Establish, Handshakes!ProofMatches
<1>2. wire \in replies
  BY <1>1, HandshakeRecords DEF HandshakeInv, RepliesTyped
<1>3. PICK s \in made : Proves(wire, s)
  BY <1>1, <1>2 DEF HandshakeInv, ProofInv
<1>4. /\ s \in SessionRecord /\ s.profile \in Handshakes!Profiles
      /\ host.profile \in Handshakes!Profiles
  BY <1>1, <1>3
  DEF HandshakeInv, MadeInv, HandshakeTyped, SessionRecord, HostRecord
<1>5. s.profile = host.profile
  <2>1. s.profile = "first" <=> host.profile = "first"
    BY <1>1, <1>3, <1>4 DEF Proves, Handshakes!TerminalSize, Handshakes!Profiles
  <2>2. s.profile = "standard" <=> host.profile = "standard"
    BY <1>1, <1>3, <1>4 DEF Proves, Handshakes!Vector, SessionRecord
  <2> QED  BY <1>4, <2>1, <2>2 DEF Handshakes!Profiles
<1>6. s.ti = Handshakes!Identifier
  <2>1. host.profile = "nonfirst" => session # Handshakes!NoSession
    BY DEF HandshakeInv, MadeInv
  <2> QED
    BY <1>3, <1>4, <1>5, <2>1
    DEF Proves, Handshakes!Identifier, Handshakes!Profiles
<1>7. session' = s
  <2>1. s = [profile |-> s.profile, key |-> s.key, a |-> s.a, b |-> s.b, ti |-> s.ti]
    BY <1>4 DEF SessionRecord
  <2> QED  BY <1>1, <1>3, <1>5, <1>6, <2>1 DEF Proves
<1>8. card.session = Handshakes!NoSession \/ card.session = s
  BY <1>3 DEF Proves
<1>9. HandshakeTyped'
  BY <1>1, <1>4, <1>7, HandshakeRecords, HandshakeAssumption DEF HandshakeInv, HandshakeTyped
<1>10. CardInv' /\ MadeInv' /\ BeforeInv'
  BY <1>1, <1>3, <1>7, <1>8, HandshakeRecords
  DEF HandshakeInv, CardInv, MadeInv, BeforeInv, Handshakes!Agreement
<1>11. RepliesTyped' /\ ProofInv' /\ HeardInv'
  BY <1>1
  DEF HandshakeInv, RepliesTyped, ProofInv, HeardInv, Handshakes!NotSentUnheard
<1> QED  BY <1>9, <1>10, <1>11 DEF HandshakeInv

\* Every step of the layer keeps the invariant.
LEMMA HandshakeStep ==
    ASSUME HandshakeInv, Handshakes!Next
    PROVE  HandshakeInv'
<1>1. CASE \E p \in Handshakes!Profiles, k \in Keys : Handshakes!Authenticate(p, k)
  BY <1>1, HandshakeBegins
<1>2. CASE Handshakes!RandomFails \/ Handshakes!ExchangeFails \/ Handshakes!InitialBad
           \/ Handshakes!TerminalBad \/ Handshakes!CryptoFails
  <2>1. \E code : \E outcome \in {"not_sent", "rejected", "unknown"} :
            Handshakes!Fails(code, outcome) /\ (outcome = "not_sent" => pc = "initial")
    <3>1. CASE Handshakes!RandomFails \/ Handshakes!ExchangeFails
      BY <3>1 DEF Handshakes!RandomFails, Handshakes!ExchangeFails, Handshakes!LateOutcome
    <3>2. CASE Handshakes!InitialBad
      BY <3>2 DEF Handshakes!InitialBad, Handshakes!WrongPhase
    <3>3. CASE Handshakes!TerminalBad
      BY <3>3 DEF Handshakes!TerminalBad, Handshakes!WrongPhase
    <3>4. CASE Handshakes!CryptoFails
      BY <3>4 DEF Handshakes!CryptoFails
    <3> QED  BY <1>2, <3>1, <3>2, <3>3, <3>4
  <2>2. pc = "initial" => ~heard
    BY DEF HandshakeInv, HeardInv
  <2> QED  BY <2>1, <2>2, HandshakeFails
<1> QED
  BY <1>1, <1>2, HandshakeChallenges, HandshakeProves, HandshakeForgets, HandshakeArrives,
     HandshakeOpens, HandshakeEstablishes
  DEF Handshakes!Next

\* Steps of no consequence to the layer.
LEMMA HandshakeStutters ==
    ASSUME HandshakeInv, UNCHANGED Handshakes!vars
    PROVE  HandshakeInv'
<1>1. HandshakeTyped' /\ CardInv' /\ MadeInv' /\ BeforeInv' /\ RepliesTyped' /\ HeardInv'
  BY DEF Handshakes!vars, HandshakeInv, HandshakeTyped, CardInv, MadeInv, BeforeInv,
     RepliesTyped, HeardInv, Handshakes!Agreement, Handshakes!NotSentUnheard
<1>2. ProofInv'
  <2>1. \A r, s : Proves(r, s) => Proves(r, s)'
    BY DEF Handshakes!vars, Proves
  <2> QED  BY <2>1 DEF Handshakes!vars, HandshakeInv, ProofInv
<1> QED  BY <1>1, <1>2 DEF HandshakeInv

\* What the runs check of the layer follows.
LEMMA HandshakePromises ==
    ASSUME HandshakeInv
    PROVE  /\ Handshakes!TypeOK /\ Handshakes!Agreement /\ Handshakes!NoStaleSession
           /\ Handshakes!NotSentUnheard
<1>1. Handshakes!TypeOK
  BY HandshakeAssumption
  DEF HandshakeInv, HandshakeTyped, HostRecord, SessionRecord, Handshakes!TypeOK, BeforeProof,
      AfterProof
<1>2. Handshakes!NoStaleSession
  BY DEF HandshakeInv, BeforeInv, AfterProof, Handshakes!NoStaleSession
<1> QED  BY <1>1, <1>2 DEF HandshakeInv, MadeInv, HeardInv

-----------------------------------------------------------------------------
(***************************************************************************)
(* ISO 7816: the layer of IsoAesSession.                                   *)
(***************************************************************************)
\* A key is the pair of the host's and the card's random, or none.
KeyPairs == Nat \X Nat
KeyType == {<<>>} \cup KeyPairs

IsoSession ==
    [valid : BOOLEAN, key : KeyType, iv : 0..MaxNumbers, generation : 0..MaxGeneration]
IsoCard ==
    [shares : BOOLEAN, challenge : Nat, proven : Nat, key : KeyType, iv : 0..MaxNumbers]

ProofSteps == {"challenge", "external", "internal"}

\* The fields of P1 and P2 are bytes.
TwoBytes(c) == c.p1 \in 0..255 /\ c.p2 \in 0..255

\* A call and an answer have their fields, whatever was asked and answered.
CallRecord(c) ==
    c = [phase |-> c.phase, step |-> c.step, via |-> c.via, asked |-> c.asked,
         command |-> c.command, generation |-> c.generation, random |-> c.random,
         number |-> c.number]
AnswerRecord(r) ==
    r = [step |-> r.step, status |-> r.status, whole |-> r.whole, payload |-> r.payload,
         mac |-> r.mac]

AnswerTyped(r) ==
    /\ AnswerRecord(r)
    /\ r.status \in {"none", "success", "rejected"} /\ r.payload \in 0..MaxNumbers

CallTyped ==
    /\ CallRecord(call)
    /\ call.phase \in Iso!Phases
    /\ call.step \in {"none", "done", "command"} \cup ProofSteps
    /\ call.via \in {"none", "handshake", "checked", "raw"}
    /\ call.generation \in 0..generation
    /\ call.random \in 0..issued.randoms /\ call.number \in 0..MaxNumbers
    /\ TwoBytes(call.command)

IsoTyped ==
    /\ generation \in 0..MaxGeneration
    /\ issued \in [randoms : 0..MaxHandshakes, numbers : 0..MaxNumbers]
    /\ card \in IsoCard /\ card.iv <= issued.numbers
    /\ session \in IsoSession /\ session.generation <= generation
    /\ session.valid <=> session.key # <<>>
    /\ CallTyped /\ AnswerTyped(reply) /\ AnswerTyped(last)
    /\ result.outcome \in {"none", "not_sent", "completed", "rejected", "unknown"}

\* Where a call may be: the handshake goes through its steps without a session,
\* a command is on its way in a valid one.
ControlInv ==
    /\ call.phase = "next" => call.via = "handshake"
    /\ call.via = "handshake" /\ call.phase \in {"next", "wire", "answered"} =>
           /\ call.step \in ProofSteps \cup {"done"} /\ ~session.valid /\ call.random > 0
    /\ call.phase \in {"wire", "answered"} => call.step # "done"
    /\ call.via # "handshake" /\ call.phase \in {"wire", "answered", "verified"} =>
           call.step = "command" /\ session.valid
    /\ call.phase = "verified" => call.via # "handshake"

\* The card of a session has its key and its vector, but while an answer is taken.
Aligned ==
    session.valid /\ session.generation = generation =>
        card.key = session.key /\ card.iv = session.iv

TakingAnswer == call.step = "command" /\ call.phase \in {"answered", "verified"}

\* How far the card followed the handshake: what it answered last was this step or
\* the one before, so that no earlier answer can stand in for the proofs.
HandshakeFollowed ==
    call.via = "handshake" =>
        /\ \/ call.step = "challenge" /\ call.phase = "answered" /\ reply.status = "success"
           \/ call.step = "external" /\ call.phase \in {"next", "wire"}
           => last.step = "challenge" /\ last.status = "success"
        /\ \/ call.step = "external" /\ call.phase = "answered" /\ reply.status = "success"
           \/ call.step = "internal" /\ call.phase \in {"next", "wire"}
           => last.step = "external" /\ card.proven \in {0, call.random}
        /\ call.step = "internal" /\ call.phase = "answered" /\ reply.status = "success"
               /\ generation = call.generation =>
             card.key = reply.mac /\ card.iv = 0
        /\ call.step = "done" /\ call.phase = "next" /\ generation = call.generation =>
             card.key = <<call.random, call.number>> /\ card.iv = 0

\* The last answer of a card is spent: after a challenge nothing is proven, and the
\* vector of an authenticated answer is no longer that of the card.
LastInv ==
    /\ last.step = "challenge" /\ last.status = "success" => card.proven = 0
    /\ last.step = "command" /\ card.key # <<>> =>
         \A v \in Nat, p \in Nat : last.mac = card.key \o <<v, p>> => v # card.iv

\* The answer to a read that verifies is that of the card of the session.
AnswerInv ==
    /\ TakingAnswer /\ session.generation = generation /\ call.phase = "answered"
           /\ reply.status = "success" =>
         /\ ~Iso!is_read(call.command) => Aligned
         /\ Iso!is_read(call.command) =>
              \A p \in Nat : reply.mac = session.key \o <<session.iv, p>> =>
                  p # 0 /\ card.key = session.key /\ card.iv = p /\ heard.payload = p
    /\ call.phase = "verified" =>
         /\ Iso!is_read(call.command)
         /\ session.generation = generation =>
              /\ card.key = session.key /\ card.iv = reply.payload
              /\ heard.payload = reply.payload

\* What a card heard, and what the caller is told of it.
IsoHeardInv ==
    /\ call.phase = "idle" => heard = Iso!NotHeard
    /\ call.phase \in {"next", "wire"} /\ call.step \in {"challenge", "command"} =>
           heard = Iso!NotHeard
    /\ call.phase # "returned" => result = Iso!NoResult
    /\ Iso!NotSentUnheard /\ Iso!ReadIsFresh

IsoInv ==
    /\ IsoTyped /\ ControlInv /\ (~TakingAnswer => Aligned) /\ HandshakeFollowed
    /\ LastInv /\ AnswerInv /\ IsoHeardInv

\* The constants of the layer.
LEMMA IsoAssumption ==
    /\ Identifiers \subseteq Nat /\ Offsets \subseteq Nat /\ Records \subseteq Nat
    /\ FileIds \subseteq Nat /\ IsoSizes \subseteq Nat
    /\ MaxGeneration \in Nat /\ MaxHandshakes \in Nat /\ MaxNumbers \in Nat
    /\ \A a \in RawApdus : TwoBytes(a)
BY LayersAssumption DEF Iso!ConstantsAssumption, TwoBytes

\* A MAC names its key, its vector and its payload, and is never absent.
LEMMA MacIsWhole ==
    ASSUME NEW k \in KeyPairs, NEW v \in Nat, NEW p \in Nat
    PROVE  /\ k \o <<v, p>> # <<>>
           /\ \A w \in Nat, q \in Nat : k \o <<v, p>> = k \o <<w, q>> => v = w /\ p = q
<1>1. k \in Seq(Nat) /\ Len(k) = 2
  <2>1. PICK a \in Nat, b \in Nat : k = <<a, b>>
    BY DEF KeyPairs
  <2> QED  BY <2>1
<1>2. \A w \in Nat, q \in Nat :
         LET m == k \o <<w, q>> IN m \in Seq(Nat) /\ Len(m) = 4 /\ m[3] = w /\ m[4] = q
  <2> SUFFICES ASSUME NEW w \in Nat, NEW q \in Nat
               PROVE  LET m == k \o <<w, q>>
                      IN  m \in Seq(Nat) /\ Len(m) = 4 /\ m[3] = w /\ m[4] = q
    OBVIOUS
  <2> DEFINE t == <<w, q>>
  <2>1. t \in Seq(Nat) /\ Len(t) = 2 /\ t[1] = w /\ t[2] = q
    OBVIOUS
  <2> HIDE DEF t
  <2>2. /\ k \o t \in Seq(Nat) /\ Len(k \o t) = Len(k) + Len(t)
        /\ \A i \in 1..(Len(k) + Len(t)) :
             (k \o t)[i] = IF i <= Len(k) THEN k[i] ELSE t[i - Len(k)]
    BY <1>1, <2>1, ConcatProperties
  <2>3. (k \o t)[3] = t[1] /\ (k \o t)[4] = t[2]
    BY <1>1, <2>1, <2>2
  <2> QED  BY <1>1, <2>1, <2>2, <2>3 DEF t
<1> QED  BY <1>2

\* What is absent, and the fields of the records.
LEMMA IsoRecords ==
    /\ Iso!None = <<>> /\ 0 \in 0..MaxNumbers /\ 0 \in 0..MaxGeneration
    /\ 0 \in 0..MaxHandshakes
    /\ Iso!NoSession \in IsoSession /\ ~Iso!NoSession.valid /\ Iso!NoSession.key = <<>>
    /\ Iso!NoSession.generation = 0
    /\ AnswerTyped(Iso!NoReply) /\ Iso!NoReply.status = "none" /\ Iso!NoReply.step = "none"
    /\ CallRecord(Iso!NoCall) /\ TwoBytes(Iso!NoCall.command) /\ Iso!NoCall.phase = "idle"
    /\ Iso!NoCall.step = "none" /\ Iso!NoCall.via = "none" /\ Iso!NoCall.generation = 0
    /\ Iso!NoCall.random = 0 /\ Iso!NoCall.number = 0
    /\ Iso!NoResult.outcome = "none" /\ Iso!NoResult.ok = FALSE
    /\ \A pair \in KeyPairs : pair # <<>>
<1>1. 0 \in 0..MaxNumbers /\ 0 \in 0..MaxGeneration /\ 0 \in 0..MaxHandshakes
  BY IsoAssumption
<1>2. Iso!NoSession \in IsoSession /\ ~Iso!NoSession.valid /\ Iso!NoSession.key = <<>>
  BY <1>1 DEF Iso!NoSession, Iso!None, IsoSession, KeyType
<1>3. AnswerTyped(Iso!NoReply)
  BY <1>1 DEF Iso!NoReply, AnswerTyped, AnswerRecord
<1>4. CallRecord(Iso!NoCall) /\ TwoBytes(Iso!NoCall.command)
  BY DEF Iso!NoCall, Iso!NoCommand, Iso!Apdu, CallRecord, TwoBytes
<1>5. \A pair \in KeyPairs : pair # <<>>
  BY DEF KeyPairs
<1> QED
  BY <1>1, <1>2, <1>3, <1>4, <1>5
  DEF Iso!None, Iso!NoSession, Iso!NoReply, Iso!NoCall, Iso!NoResult

\* At first there is neither a session nor a call.
LEMMA IsoStart ==
    ASSUME Iso!Init
    PROVE  IsoInv
<1>1. /\ generation = 0 /\ card = Iso!NewCard(TRUE) /\ session = Iso!NoSession
      /\ call = Iso!NoCall /\ reply = Iso!NoReply /\ last = Iso!NoReply
      /\ heard = Iso!NotHeard /\ issued = [randoms |-> 0, numbers |-> 0]
      /\ result = Iso!NoResult
  BY DEF Iso!Init
<1>2. card \in IsoCard /\ card.iv = 0 /\ card.key = <<>> /\ card.proven = 0
  BY <1>1, IsoRecords DEF Iso!NewCard, IsoCard, KeyType, Iso!None
<1>3. CallTyped
  BY <1>1, IsoRecords DEF CallTyped, Iso!Phases
<1>4. IsoTyped
  <2>1. 0 \in 0..MaxHandshakes /\ 0 \in 0..MaxNumbers /\ 0 \in 0..MaxGeneration
    BY IsoRecords
  <2>2. issued \in [randoms : 0..MaxHandshakes, numbers : 0..MaxNumbers]
        /\ issued.numbers = 0
    BY <1>1, <2>1
  <2>3. /\ session \in IsoSession /\ session.generation = 0
        /\ session.valid <=> session.key # <<>>
    BY <1>1, IsoRecords
  <2>4. AnswerTyped(reply) /\ AnswerTyped(last) /\ result.outcome = "none"
    BY <1>1, IsoRecords
  <2>5. generation \in 0..MaxGeneration /\ session.generation <= generation
        /\ card.iv <= issued.numbers
    <3>1. generation = 0 /\ session.generation = 0 /\ card.iv = 0 /\ issued.numbers = 0
      BY <1>1, <1>2, <2>2, <2>3
    <3> QED  BY <3>1, <2>1
  <2> QED  BY <1>2, <1>3, <2>2, <2>3, <2>4, <2>5 DEF IsoTyped
<1>5. ControlInv /\ Aligned /\ HandshakeFollowed /\ LastInv /\ AnswerInv
  BY <1>1, <1>2, IsoRecords
  DEF ControlInv, Aligned, HandshakeFollowed, LastInv, AnswerInv, TakingAnswer
<1>6. IsoHeardInv
  BY <1>1, IsoRecords DEF IsoHeardInv, Iso!NotSentUnheard, Iso!ReadIsFresh
<1> QED  BY <1>4, <1>5, <1>6 DEF IsoInv

\* The call moves on to another phase.
LEMMA CallMoves ==
    ASSUME CallTyped, NEW p \in Iso!Phases, call' = [call EXCEPT !.phase = p],
           generation' = generation, issued'.randoms = issued.randoms
    PROVE  /\ CallTyped'
           /\ call'.phase = p /\ call'.step = call.step /\ call'.via = call.via
           /\ call'.generation = call.generation /\ call'.random = call.random
           /\ call'.number = call.number /\ call'.command = call.command
           /\ call'.asked = call.asked
<1>1. call' = [phase |-> p, step |-> call.step, via |-> call.via, asked |-> call.asked,
               command |-> call.command, generation |-> call.generation,
               random |-> call.random, number |-> call.number]
  BY DEF CallTyped, CallRecord
<1> QED  BY <1>1 DEF CallTyped, CallRecord

\* An operation returns: without "completed" it may have ended the session, and
\* "not_sent" is only told of a command that no card heard.
LEMMA IsoReturns ==
    ASSUME IsoInv, NEW outcome \in {"not_sent", "completed", "rejected", "unknown"},
           NEW ok \in BOOLEAN, NEW payload, Iso!Return(ok, outcome, payload),
           call.phase \in {"next", "wire", "answered", "verified"},
           session' \in IsoSession, session'.generation <= generation,
           session'.valid <=> session'.key # <<>>, Aligned',
           outcome = "not_sent" => heard = Iso!NotHeard,
           ok /\ Iso!is_read(call.command) /\ call.step = "command" =>
               payload = heard.payload,
           UNCHANGED <<generation, card, reply, last, heard, issued>>
    PROVE  IsoInv'
<1>1. /\ call' = [call EXCEPT !.phase = "returned"] /\ "returned" \in Iso!Phases
      /\ result' = [ok |-> ok, outcome |-> outcome, payload |-> payload]
      /\ generation' = generation /\ card' = card /\ reply' = reply /\ last' = last
      /\ heard' = heard /\ issued' = issued
  BY DEF Iso!Return, Iso!Phases
<1>2. /\ CallTyped' /\ call'.phase = "returned" /\ call'.step = call.step
      /\ call'.via = call.via /\ call'.command = call.command
  BY <1>1, CallMoves DEF IsoInv, IsoTyped
<1>3. IsoTyped'
  BY <1>1, <1>2 DEF IsoInv, IsoTyped, AnswerTyped, AnswerRecord
<1>4. ControlInv' /\ HandshakeFollowed' /\ LastInv' /\ AnswerInv'
  BY <1>1, <1>2
  DEF IsoInv, ControlInv, HandshakeFollowed, LastInv, AnswerInv, TakingAnswer
<1>5. IsoHeardInv'
  BY <1>1, <1>2 DEF IsoInv, IsoHeardInv, Iso!NotSentUnheard, Iso!ReadIsFresh, Iso!is_read
<1> QED  BY <1>3, <1>4, <1>5 DEF IsoInv

\* The session after it was ended, or left alone.
LEMMA SessionEnds ==
    ASSUME IsoInv
    PROVE  /\ Iso!Invalidate \in IsoSession /\ ~Iso!Invalidate.valid
           /\ Iso!Invalidate.key = <<>> /\ Iso!Invalidate.generation = session.generation
BY IsoRecords DEF IsoInv, IsoTyped, IsoSession, KeyType, Iso!Invalidate, Iso!None

\* Another card is in the field: no session is that of its generation.
LEMMA IsoReplaces ==
    ASSUME IsoInv, NEW shares \in BOOLEAN, Iso!ReplaceCard(shares)
    PROVE  IsoInv'
<1>1. /\ generation < MaxGeneration /\ generation' = generation + 1
      /\ card' = Iso!NewCard(shares)
      /\ UNCHANGED <<session, call, reply, last, heard, issued, result>>
  BY DEF Iso!ReplaceCard
<1>2. card' \in IsoCard /\ card'.iv = 0 /\ card'.key = <<>> /\ card'.proven = 0
  BY <1>1, IsoRecords DEF Iso!NewCard, IsoCard, KeyType, Iso!None
<1>3. generation \in 0..MaxGeneration /\ generation' \in 0..MaxGeneration
  BY <1>1, IsoAssumption DEF IsoInv, IsoTyped
<1>4. call.generation # generation' /\ session.generation # generation'
  BY <1>1, <1>3 DEF IsoInv, IsoTyped, CallTyped, IsoSession
<1>5. IsoTyped'
  <2>1. CallTyped'
    BY <1>1, <1>3 DEF IsoInv, IsoTyped, CallTyped, CallRecord
  <2>2. session'.generation <= generation' /\ card'.iv <= issued'.numbers
    BY <1>1, <1>2, <1>3, IsoAssumption DEF IsoInv, IsoTyped, IsoSession
  <2> QED
    BY <1>1, <1>2, <1>3, <2>1, <2>2 DEF IsoInv, IsoTyped, AnswerTyped, AnswerRecord
<1>6. ControlInv' /\ Aligned' /\ HandshakeFollowed' /\ LastInv' /\ AnswerInv'
  BY <1>1, <1>2, <1>4
  DEF IsoInv, ControlInv, Aligned, HandshakeFollowed, LastInv, AnswerInv, TakingAnswer
<1>7. IsoHeardInv'
  BY <1>1 DEF IsoInv, IsoHeardInv, Iso!NotSentUnheard, Iso!ReadIsFresh
<1> QED  BY <1>5, <1>6, <1>7 DEF IsoInv

\* The caller takes the result.
LEMMA IsoTakes ==
    ASSUME IsoInv, Iso!Take
    PROVE  IsoInv'
<1>1. /\ call.phase = "returned"
      /\ call' = Iso!NoCall /\ reply' = Iso!NoReply /\ heard' = Iso!NotHeard
      /\ result' = Iso!NoResult
      /\ UNCHANGED <<generation, card, session, last, issued>>
  BY DEF Iso!Take
<1>2. IsoTyped'
  <2>1. CallTyped'
    <3>1. generation \in 0..MaxGeneration /\ issued.randoms \in 0..MaxHandshakes
      BY DEF IsoInv, IsoTyped
    <3>2. /\ CallRecord(call') /\ TwoBytes(call'.command) /\ call'.phase = "idle"
          /\ call'.step = "none" /\ call'.via = "none" /\ call'.generation = 0
          /\ call'.random = 0 /\ call'.number = 0 /\ 0 \in 0..MaxNumbers
      BY <1>1, IsoRecords
    <3> QED  BY <1>1, <3>1, <3>2, IsoAssumption DEF CallTyped, CallRecord, Iso!Phases
  <2>2. AnswerTyped(reply') /\ AnswerTyped(last') /\ result'.outcome = "none"
    BY <1>1, IsoRecords DEF IsoInv, IsoTyped, AnswerTyped, AnswerRecord
  <2> QED  BY <1>1, <2>1, <2>2 DEF IsoInv, IsoTyped, AnswerTyped, AnswerRecord
<1>3. ~TakingAnswer /\ Aligned /\ Aligned'
  BY <1>1 DEF IsoInv, TakingAnswer, Aligned
<1>4. ControlInv' /\ HandshakeFollowed' /\ LastInv' /\ AnswerInv'
  BY <1>1, IsoRecords
  DEF IsoInv, ControlInv, HandshakeFollowed, LastInv, AnswerInv, TakingAnswer
<1>5. IsoHeardInv'
  BY <1>1, IsoRecords DEF IsoHeardInv, Iso!NotSentUnheard, Iso!ReadIsFresh
<1> QED  BY <1>2, <1>3, <1>4, <1>5 DEF IsoInv

\* A call begins, in its first phase or already returned, refused.
LEMMA IsoBegins ==
    ASSUME IsoInv, call.phase = "idle", CallTyped', ControlInv', HandshakeFollowed',
           call'.phase \in {"next", "wire", "returned"},
           call'.phase # "returned" =>
               call'.step \in {"challenge", "command"} /\ result' = Iso!NoResult,
           call'.phase = "returned" =>
               result' = [ok |-> FALSE, outcome |-> "not_sent", payload |-> 0],
           session' \in IsoSession, session'.generation <= generation,
           session'.valid <=> session'.key # <<>>, Aligned',
           issued' \in [randoms : 0..MaxHandshakes, numbers : 0..MaxNumbers],
           issued'.numbers = issued.numbers,
           UNCHANGED <<generation, card, reply, last, heard>>
    PROVE  IsoInv'
<1>1. heard = Iso!NotHeard /\ result = Iso!NoResult
  BY DEF IsoInv, IsoHeardInv
<1>2. IsoTyped'
  <2>1. result'.outcome \in {"none", "not_sent"}
    BY IsoRecords
  <2>2. card'.iv <= issued'.numbers
    BY DEF IsoInv, IsoTyped
  <2> QED  BY <2>1, <2>2 DEF IsoInv, IsoTyped, AnswerTyped, AnswerRecord
<1>3. LastInv' /\ AnswerInv'
  BY DEF IsoInv, LastInv, AnswerInv, TakingAnswer
<1>4. IsoHeardInv'
  BY <1>1, IsoRecords DEF IsoHeardInv, Iso!NotSentUnheard, Iso!ReadIsFresh
<1> QED  BY <1>2, <1>3, <1>4 DEF IsoInv

\* A handshake begins, and the session there was is dropped.
LEMMA IsoAuthenticates ==
    ASSUME IsoInv, Iso!Authenticate
    PROVE  IsoInv'
<1>1. /\ call.phase = "idle" /\ issued.randoms < MaxHandshakes
      /\ session' = Iso!NoSession
      /\ issued' = [issued EXCEPT !.randoms = @ + 1]
      /\ UNCHANGED <<generation, card, reply, last, heard>>
  BY DEF Iso!Authenticate, Iso!Idle
<1>2. /\ generation \in 0..MaxGeneration
      /\ issued \in [randoms : 0..MaxHandshakes, numbers : 0..MaxNumbers]
  BY DEF IsoInv, IsoTyped
<1>3. /\ issued' \in [randoms : 0..MaxHandshakes, numbers : 0..MaxNumbers]
      /\ issued'.numbers = issued.numbers /\ issued'.randoms = issued.randoms + 1
      /\ issued'.randoms \in 0..MaxHandshakes /\ issued.randoms \in Nat
  BY <1>1, <1>2, IsoAssumption
<1>4. /\ session' \in IsoSession /\ session'.generation <= generation
      /\ session'.valid <=> session'.key # <<>>
      /\ ~session'.valid
  <2>1. /\ session' \in IsoSession /\ ~session'.valid /\ session'.key = <<>>
        /\ session'.generation = 0
    BY <1>1, IsoRecords
  <2> QED  BY <2>1, <1>2
<1>5. Aligned'
  BY <1>4 DEF Aligned
<1>6. CASE /\ call' = [Iso!NoCall EXCEPT !.phase = "next", !.step = "challenge",
                          !.via = "handshake", !.generation = generation,
                          !.random = issued.randoms + 1]
           /\ UNCHANGED result
  <2>1. call' = [phase |-> "next", step |-> "challenge", via |-> "handshake",
                 asked |-> Iso!NoCall.asked, command |-> Iso!NoCall.command,
                 generation |-> generation, random |-> issued.randoms + 1, number |-> 0]
    BY <1>6, IsoRecords DEF CallRecord
  <2>2. CallTyped'
    <3>1. CallRecord(call') /\ TwoBytes(call'.command)
      BY <2>1, IsoRecords DEF CallRecord
    <3>2. call'.random \in 0..issued'.randoms /\ call'.generation \in 0..generation'
          /\ call'.number \in 0..MaxNumbers
      BY <1>1, <1>2, <1>3, <2>1, IsoRecords
    <3> QED  BY <2>1, <3>1, <3>2 DEF CallTyped, CallRecord, Iso!Phases, ProofSteps
  <2>3. ControlInv' /\ HandshakeFollowed'
    BY <1>3, <1>4, <2>1 DEF ControlInv, HandshakeFollowed, ProofSteps
  <2>4. result' = Iso!NoResult
    BY <1>1, <1>6 DEF IsoInv, IsoHeardInv
  <2>5. call'.phase = "next" /\ call'.step = "challenge"
    BY <2>1
  <2> QED  BY <1>1, <1>3, <1>4, <1>5, <2>2, <2>3, <2>4, <2>5, IsoBegins
<1>7. CASE /\ call' = [Iso!NoCall EXCEPT !.phase = "returned", !.via = "handshake"]
           /\ result' = [ok |-> FALSE, outcome |-> "not_sent", payload |-> 0]
  <2>1. call' = [phase |-> "returned", step |-> "none", via |-> "handshake",
                 asked |-> Iso!NoCall.asked, command |-> Iso!NoCall.command,
                 generation |-> 0, random |-> 0, number |-> 0]
    BY <1>7, IsoRecords DEF CallRecord
  <2>2. CallTyped'
    <3>1. CallRecord(call') /\ TwoBytes(call'.command)
      BY <2>1, IsoRecords DEF CallRecord
    <3>2. call'.random \in 0..issued'.randoms /\ call'.generation \in 0..generation'
          /\ call'.number \in 0..MaxNumbers
      BY <1>1, <1>2, <1>3, <2>1, IsoRecords
    <3> QED  BY <2>1, <3>1, <3>2 DEF CallTyped, CallRecord, Iso!Phases, ProofSteps
  <2>3. ControlInv' /\ HandshakeFollowed'
    BY <2>1 DEF ControlInv, HandshakeFollowed, ProofSteps
  <2>4. call'.phase = "returned"
    BY <2>1
  <2> QED  BY <1>1, <1>3, <1>4, <1>5, <1>7, <2>2, <2>3, <2>4, IsoBegins
<1> QED  BY <1>6, <1>7 DEF Iso!Authenticate

\* The next proof goes out.
LEMMA IsoSendsProof ==
    ASSUME IsoInv, Iso!NextProof
    PROVE  IsoInv'
<1>1. /\ call.phase = "next" /\ call.step # "done" /\ generation = call.generation
      /\ call' = [call EXCEPT !.phase = "wire"] /\ "wire" \in Iso!Phases
      /\ UNCHANGED <<generation, card, session, reply, last, heard, issued, result>>
  BY DEF Iso!NextProof, Iso!Phases
<1>2. /\ CallTyped' /\ call'.phase = "wire" /\ call'.step = call.step
      /\ call'.via = call.via /\ call'.generation = call.generation
      /\ call'.random = call.random /\ call'.number = call.number
      /\ call'.command = call.command
  BY <1>1, CallMoves DEF IsoInv, IsoTyped
<1>3. IsoTyped'
  BY <1>1, <1>2 DEF IsoInv, IsoTyped, AnswerTyped, AnswerRecord
<1>4. ControlInv' /\ (~TakingAnswer' => Aligned') /\ HandshakeFollowed' /\ LastInv'
  BY <1>1, <1>2
  DEF IsoInv, ControlInv, Aligned, HandshakeFollowed, LastInv, TakingAnswer
<1>5. AnswerInv' /\ IsoHeardInv'
  BY <1>1, <1>2
  DEF IsoInv, AnswerInv, TakingAnswer, IsoHeardInv, Iso!NotSentUnheard, Iso!ReadIsFresh
<1> QED  BY <1>3, <1>4, <1>5 DEF IsoInv

\* A handshake that is not at its end fails, and no session was there to lose.
LEMMA ProofFails ==
    ASSUME IsoInv, NEW outcome \in {"not_sent", "rejected", "unknown"},
           call.via = "handshake", call.phase \in {"next", "wire", "answered"},
           outcome = "not_sent" => call.step = "challenge" /\ call.phase # "answered",
           Iso!Return(FALSE, outcome, 0),
           UNCHANGED <<generation, card, session, reply, last, heard, issued>>
    PROVE  IsoInv'
<1>1. /\ session' \in IsoSession /\ session'.generation <= generation
      /\ session'.valid <=> session'.key # <<>>
      /\ ~session'.valid
  BY DEF IsoInv, IsoTyped, ControlInv
<1>2. Aligned'
  BY <1>1 DEF Aligned
<1>3. outcome = "not_sent" => heard = Iso!NotHeard
  BY DEF IsoInv, IsoHeardInv
<1> QED  BY <1>1, <1>2, <1>3, IsoReturns

\* A handshake that fails between its frames leaves no session on the host's side.
LEMMA IsoStopsProof ==
    ASSUME IsoInv, Iso!StopProof
    PROVE  IsoInv'
<1> DEFINE outcome == Iso!after_send("not_sent")
<1>1. /\ call.phase = "next" /\ call.via = "handshake"
      /\ Iso!Return(FALSE, outcome, 0)
      /\ UNCHANGED <<generation, card, session, reply, last, heard, issued>>
  BY DEF IsoInv, ControlInv, Iso!StopProof
<1>2. /\ outcome \in {"not_sent", "unknown"}
      /\ outcome = "not_sent" => call.step = "challenge"
  BY DEF Iso!after_send
<1> HIDE DEF outcome
<1>3. PICK told \in {"not_sent", "unknown"} : told = outcome
  BY <1>2
<1> QED  BY <1>1, <1>2, <1>3, ProofFails

\* The session is made: the card followed, and holds its key and vector.
LEMMA IsoMakesSession ==
    ASSUME IsoInv, Iso!MakeSession
    PROVE  IsoInv'
<1>1. /\ call.phase = "next" /\ call.step = "done" /\ generation = call.generation
      /\ session' = [valid |-> TRUE, key |-> <<call.random, call.number>>, iv |-> 0,
                     generation |-> call.generation]
      /\ Iso!Return(TRUE, "completed", 0)
      /\ UNCHANGED <<generation, card, reply, last, heard, issued>>
      /\ call.via = "handshake"
  BY DEF IsoInv, ControlInv, Iso!MakeSession
<1>2. /\ generation \in 0..MaxGeneration /\ call.random \in Nat /\ call.number \in Nat
      /\ 0 \in 0..MaxNumbers
  BY IsoAssumption DEF IsoInv, IsoTyped, CallTyped
<1>3. <<call.random, call.number>> \in KeyPairs /\ <<call.random, call.number>> # <<>>
  BY <1>2, IsoRecords DEF KeyPairs
<1>4. /\ session' \in IsoSession /\ session'.generation <= generation
      /\ session'.valid <=> session'.key # <<>>
  BY <1>1, <1>2, <1>3 DEF IsoSession, KeyType
<1>5. Aligned'
  BY <1>1 DEF IsoInv, HandshakeFollowed, Aligned
<1>6. ~(call.step = "command")
  BY <1>1
<1> QED  BY <1>1, <1>4, <1>5, <1>6, IsoReturns

\* A proof of the card is taken; the last of them shows that the card has the key.
LEMMA IsoTakesProof ==
    ASSUME IsoInv, Iso!TakeProof
    PROVE  IsoInv'
<1>1. /\ call.phase = "answered" /\ call.via = "handshake"
      /\ UNCHANGED <<generation, card, session, reply, last, heard, issued>>
      /\ call.step \in ProofSteps /\ ~session.valid /\ call.random > 0
  BY DEF IsoInv, ControlInv, Iso!TakeProof, ProofSteps
<1>2. CASE ~Iso!ProofAccepted
  <2> DEFINE outcome == IF reply.status = "rejected" THEN "rejected" ELSE "unknown"
  <2>1. Iso!Return(FALSE, outcome, 0) /\ outcome \in {"rejected", "unknown"}
    BY <1>2 DEF Iso!TakeProof
  <2> HIDE DEF outcome
  <2>2. PICK told \in {"rejected", "unknown"} : told = outcome
    BY <2>1
  <2> QED  BY <1>1, <2>1, <2>2, ProofFails
<1>3. CASE Iso!ProofAccepted
  <2>1. /\ call' = [call EXCEPT !.phase = "next", !.step = Iso!StepAfter[call.step],
                      !.number = IF call.step = "external" THEN call.number
                                 ELSE reply.payload]
        /\ result' = result
    BY <1>3 DEF Iso!TakeProof
  <2>2. /\ reply.status = "success"
        /\ call.step = "internal" => reply.mac = <<call.random, reply.payload>>
    BY <1>3 DEF Iso!ProofAccepted
  <2>3. PICK after \in {"external", "internal", "done"} :
             /\ after = Iso!StepAfter[call.step]
             /\ call.step = "challenge" <=> after = "external"
             /\ call.step = "external" <=> after = "internal"
             /\ call.step = "internal" <=> after = "done"
    BY <1>1 DEF Iso!StepAfter, ProofSteps
  <2>4. PICK count \in 0..MaxNumbers :
             /\ count = IF call.step = "external" THEN call.number ELSE reply.payload
    BY DEF IsoInv, IsoTyped, CallTyped, AnswerTyped
  <2>5. call' = [phase |-> "next", step |-> after, via |-> call.via, asked |-> call.asked,
                 command |-> call.command, generation |-> call.generation,
                 random |-> call.random, number |-> count]
    BY <2>1, <2>3, <2>4 DEF IsoInv, IsoTyped, CallTyped, CallRecord
  <2>6. CallTyped'
    <3>1. CallRecord(call') /\ TwoBytes(call'.command) /\ call'.number \in 0..MaxNumbers
      BY <2>5 DEF IsoInv, IsoTyped, CallTyped, CallRecord, TwoBytes
    <3>2. call'.generation \in 0..generation' /\ call'.random \in 0..issued'.randoms
      BY <1>1, <2>5 DEF IsoInv, IsoTyped, CallTyped
    <3> QED  BY <1>1, <2>5, <3>1, <3>2 DEF CallTyped, CallRecord, Iso!Phases, ProofSteps
  <2>7. IsoTyped'
    BY <1>1, <2>1, <2>6 DEF IsoInv, IsoTyped, AnswerTyped, AnswerRecord
  <2>6a. /\ call'.phase = "next" /\ call'.step = after /\ call'.via = call.via
        /\ call'.command = call.command /\ call'.random = call.random
        /\ result' = result /\ after # "command" /\ after # "challenge"
    BY <2>1, <2>3, <2>5
  <2>8. ControlInv' /\ (~TakingAnswer' => Aligned') /\ LastInv' /\ AnswerInv'
    <3>1. ControlInv'
      BY <1>1, <2>6a DEF ControlInv, ProofSteps
    <3>2. ~TakingAnswer /\ Aligned /\ Aligned' /\ AnswerInv'
      BY <1>1, <2>6a DEF IsoInv, Aligned, AnswerInv, TakingAnswer, ProofSteps
    <3>3. LastInv'
      BY <1>1 DEF IsoInv, LastInv
    <3> QED  BY <3>1, <3>2, <3>3
  <2>9. HandshakeFollowed'
    <3>1. call.step = "challenge" => last.step = "challenge" /\ last.status = "success"
      BY <1>1, <2>2 DEF IsoInv, HandshakeFollowed
    <3>2. call.step = "external" => last.step = "external" /\ card.proven \in {0, call.random}
      BY <1>1, <2>2 DEF IsoInv, HandshakeFollowed
    <3>3. call.step = "internal" /\ generation = call.generation =>
             card.key = <<call.random, reply.payload>> /\ card.iv = 0
      BY <1>1, <2>2 DEF IsoInv, HandshakeFollowed
    <3> QED  BY <1>1, <2>3, <2>4, <2>5, <3>1, <3>2, <3>3 DEF HandshakeFollowed
  <2>10. IsoHeardInv'
    BY <1>1, <2>6a
    DEF IsoInv, IsoHeardInv, Iso!NotSentUnheard, Iso!ReadIsFresh
  <2> QED  BY <2>7, <2>8, <2>9, <2>10 DEF IsoInv
<1> QED  BY <1>2, <1>3

\* Session::execute() sends a command, or refuses it and perhaps ends a stale session.
LEMMA IsoExecutes ==
    ASSUME IsoInv, NEW via \in {"checked", "raw"}, NEW asked, NEW commands, NEW limit,
           \A c \in commands : TwoBytes(c), Iso!Execute(via, asked, commands, limit)
    PROVE  IsoInv'
<1>1. /\ call.phase = "idle"
      /\ UNCHANGED <<generation, card, reply, last, heard, issued>>
  BY DEF Iso!Execute, Iso!Idle
<1>2. /\ generation \in 0..MaxGeneration
      /\ issued \in [randoms : 0..MaxHandshakes, numbers : 0..MaxNumbers]
      /\ issued.randoms \in 0..MaxHandshakes
      /\ session \in IsoSession /\ session.generation <= generation
      /\ session.valid <=> session.key # <<>>
      /\ Aligned
  BY <1>1 DEF IsoInv, IsoTyped, TakingAnswer
<1>3. 0 \in 0..issued.randoms /\ 0 \in 0..generation /\ 0 \in 0..MaxNumbers
  BY <1>2, IsoAssumption
<1>4. CASE /\ call' = [Iso!NoCall EXCEPT !.phase = "returned", !.via = via]
           /\ result' = [ok |-> FALSE, outcome |-> "not_sent", payload |-> 0]
           /\ session' = session \/ session' = Iso!Invalidate
  <2>1. call' = [phase |-> "returned", step |-> "none", via |-> via,
                 asked |-> Iso!NoCall.asked, command |-> Iso!NoCall.command,
                 generation |-> 0, random |-> 0, number |-> 0]
    BY <1>4, IsoRecords DEF CallRecord
  <2>2. CallRecord(call') /\ TwoBytes(call'.command)
    BY <2>1, IsoRecords DEF CallRecord
  <2>3. CallTyped'
    BY <1>1, <1>3, <2>1, <2>2 DEF CallTyped, CallRecord, Iso!Phases, ProofSteps
  <2>4. ControlInv' /\ HandshakeFollowed' /\ call'.phase = "returned"
    BY <2>1 DEF ControlInv, HandshakeFollowed, ProofSteps
  <2>5. /\ session' \in IsoSession /\ session'.generation <= generation
        /\ session'.valid <=> session'.key # <<>>
        /\ Aligned'
    BY <1>1, <1>2, <1>4, SessionEnds DEF Aligned
  <2> QED  BY <1>1, <1>2, <1>4, <2>3, <2>4, <2>5, IsoBegins
<1>5. CASE \E c \in commands :
             /\ session.valid
             /\ call' = [Iso!NoCall EXCEPT !.phase = "wire", !.step = "command", !.via = via,
                                           !.asked = asked, !.command = c]
             /\ session' = session /\ result' = result
  <2>1. PICK c \in commands :
             /\ session.valid
             /\ call' = [Iso!NoCall EXCEPT !.phase = "wire", !.step = "command", !.via = via,
                                           !.asked = asked, !.command = c]
             /\ session' = session /\ result' = result
    BY <1>5
  <2>2. call' = [phase |-> "wire", step |-> "command", via |-> via,
                 asked |-> asked, command |-> c, generation |-> 0, random |-> 0, number |-> 0]
    BY <2>1, IsoRecords DEF CallRecord
  <2>3. CallRecord(call') /\ TwoBytes(call'.command)
    BY <2>2 DEF CallRecord
  <2>4. CallTyped'
    BY <1>1, <1>3, <2>2, <2>3 DEF CallTyped, CallRecord, Iso!Phases, ProofSteps
  <2>5. /\ call'.phase = "wire" /\ call'.step = "command"
        /\ ControlInv' /\ HandshakeFollowed'
    BY <2>1, <2>2 DEF ControlInv, HandshakeFollowed, ProofSteps
  <2>6. Aligned' /\ result' = Iso!NoResult
    BY <1>1, <1>2, <2>1 DEF Aligned, IsoInv, IsoHeardInv
  <2> QED  BY <1>1, <1>2, <2>1, <2>4, <2>5, <2>6, IsoBegins
<1> QED  BY <1>4, <1>5 DEF Iso!Execute

\* The factories put what they take into bytes.
LEMMA MakesBytes ==
    ASSUME NEW ins, NEW p1 \in 0..255, NEW p2 \in 0..255, NEW data, NEW size, NEW le
    PROVE  \A c \in Iso!make(ins, p1, p2, data, size, le) : TwoBytes(c)
BY SMTT(30) DEF Iso!make, Iso!Apdu, TwoBytes

\* P1 and P2 of every checked ISO command are bytes, whatever the arguments.
LEMMA AddressesAreBytes ==
    ASSUME NEW o \in Nat, NEW i \in Nat
    PROVE  /\ \A x \in Iso!current_file(o) : x[1] \in 0..255 /\ x[2] \in 0..255
           /\ \A x \in Iso!short_file(i, o) : x[1] \in 0..255 /\ x[2] \in 0..255
BY DEF Iso!current_file, Iso!short_file

\* READ BINARY and UPDATE BINARY address a file and an offset in two bytes.
LEMMA BinaryIsBytes ==
    ASSUME NEW addresses, NEW n,
           \A x \in addresses : x[1] \in 0..255 /\ x[2] \in 0..255
    PROVE  /\ \A c \in UNION {Iso!read_binary(x, n) : x \in addresses} : TwoBytes(c)
           /\ \A c \in UNION {Iso!update_binary(x, n) : x \in addresses} : TwoBytes(c)
<1>1. \A x \in addresses : \A c \in Iso!read_binary(x, n) : TwoBytes(c)
  BY MakesBytes DEF Iso!read_binary
<1>2. \A x \in addresses : \A c \in Iso!update_binary(x, n) : TwoBytes(c)
  BY MakesBytes, ZenonT(60) DEF Iso!update_binary
<1> QED  BY <1>1, <1>2

\* The record commands put the record number and the file in two bytes.
LEMMA RecordsAreBytes ==
    ASSUME NEW r \in Nat, NEW i \in Nat, NEW n, NEW m
    PROVE  /\ \A c \in Iso!read_records(r, i, m, n) : TwoBytes(c)
           /\ \A c \in Iso!append_record(i, n) : TwoBytes(c)
<1>1. ASSUME NEW code, NEW p1 \in 0..255, NEW p2 \in 0..255, NEW size, NEW le,
             NEW c \in Iso!make(code, p1, p2, <<>>, size, le)
      PROVE  TwoBytes(c)
  BY MakesBytes
<1>2. ASSUME NEW c \in Iso!read_records(r, i, m, n)
      PROVE  TwoBytes(c)
  <2>1. r <= 255 /\ i <= 31 /\ m \in {4, 5} /\ c \in Iso!make(178, r, 8 * i + m, <<>>, 0, n)
    BY <1>2 DEF Iso!read_records
  <2>2. PICK p2 \in 0..255 : p2 = 8 * i + m
    BY <2>1
  <2>3. r \in 0..255 /\ c \in Iso!make(178, r, p2, <<>>, 0, n)
    BY <2>1, <2>2
  <2> QED  BY <2>3, <1>1, ZenonT(60)
<1>3. ASSUME NEW c \in Iso!append_record(i, n)
      PROVE  TwoBytes(c)
  <2>1. i <= 31 /\ c \in Iso!make(226, 0, 8 * i, <<>>, n, Iso!NoLe)
    BY <1>3 DEF Iso!append_record
  <2>2. PICK p2 \in 0..255 : p2 = 8 * i
    BY <2>1
  <2>3. 0 \in 0..255
    OBVIOUS
  <2> QED  BY <2>1, <2>2, <2>3, <1>1, ZenonT(60)
<1> QED  BY <1>2, <1>3

\* So do the commands that append and update records.
LEMMA UpdatesAreBytes ==
    ASSUME NEW r \in Nat, NEW i \in Nat, NEW n, NEW ins, NEW control \in Nat
    PROVE  \A c \in Iso!update_record(ins, r, i, control, n) : TwoBytes(c)
<1>1. ASSUME NEW code, NEW p1 \in 0..255, NEW p2 \in 0..255, NEW size, NEW le,
             NEW c \in Iso!make(code, p1, p2, <<>>, size, le)
      PROVE  TwoBytes(c)
  BY MakesBytes
<1>2. ASSUME NEW c \in Iso!update_record(ins, r, i, control, n)
      PROVE  TwoBytes(c)
  <2>1. r <= 255 /\ i <= 31 /\ control <= 7
        /\ c \in Iso!make(ins, r, 8 * i + control, <<>>, n, Iso!NoLe)
    BY <1>2 DEF Iso!update_record
  <2>2. PICK p2 \in 0..255 : p2 = 8 * i + control
    BY <2>1
  <2>3. r \in 0..255 /\ c \in Iso!make(ins, r, p2, <<>>, n, Iso!NoLe)
    BY <2>1, <2>2
  <2> QED  BY <2>3, <1>1
<1> QED  BY <1>2

\* And the selections, whose parameters are fixed.
LEMMA SelectionsAreBytes ==
    ASSUME NEW f, NEW kind, NEW response, NEW n
    PROVE  /\ \A c \in Iso!select_file(f, kind, response) : TwoBytes(c)
           /\ \A c \in Iso!select_df_name(n, response) : TwoBytes(c)
<1>1. \A k \in {0, 1, 2, 4, 12} : k \in 0..255
  OBVIOUS
<1>2. \A c \in Iso!select_file(f, kind, response) : TwoBytes(c)
  BY <1>1 DEF Iso!select_file, Iso!make, Iso!Apdu, TwoBytes
<1> QED  BY <1>1, <1>2 DEF Iso!select_df_name, Iso!make, Iso!Apdu, TwoBytes

\* Rebuilding an APDU through the factories makes bytes of bytes.
LEMMA RebuiltIsBytes ==
    ASSUME NEW a, TwoBytes(a)
    PROVE  \A c \in Iso!make_checked_iso_command(a) : TwoBytes(c)
<1>1. /\ a.p1 \in Nat /\ a.p2 \in Nat
      /\ a.p2 \div 8 \in Nat /\ a.p2 % 8 \in Nat /\ (a.p1 \div 8) % 32 \in Nat
      /\ 256 * a.p1 + a.p2 \in Nat
  <2>1. \A p \in 0..255, q \in 0..255 :
             q \div 8 \in Nat /\ q % 8 \in Nat /\ (p \div 8) % 32 \in Nat /\ 256 * p + q \in Nat
    OBVIOUS
  <2>2. PICK p \in 0..255, q \in 0..255 : p = a.p1 /\ q = a.p2
    BY DEF TwoBytes
  <2>3. p \in Nat /\ q \in Nat
    OBVIOUS
  <2> QED  BY <2>1, <2>2, <2>3, SMTT(30)
<1>2. \A x \in Iso!RebuiltAddress(a) : x[1] \in 0..255 /\ x[2] \in 0..255
  BY <1>1, AddressesAreBytes DEF Iso!RebuiltAddress
<1>3. \A c \in Iso!select_df_name(a.size, a.p2) : TwoBytes(c)
  BY SelectionsAreBytes
<1>4. \A c \in Iso!select_file(256 * a.data[1] + a.data[2], a.p1, a.p2) : TwoBytes(c)
  BY SelectionsAreBytes
<1>5. /\ \A c \in UNION {Iso!read_binary(x, a.le) : x \in Iso!RebuiltAddress(a)} : TwoBytes(c)
      /\ \A c \in UNION {Iso!update_binary(x, a.size) : x \in Iso!RebuiltAddress(a)} :
             TwoBytes(c)
  BY <1>2, BinaryIsBytes, SMTT(30)
<1>6. /\ \A c \in Iso!read_records(a.p1, a.p2 \div 8, a.p2 % 8, a.le) : TwoBytes(c)
      /\ \A c \in Iso!append_record(a.p2 \div 8, a.size) : TwoBytes(c)
      /\ \A c \in Iso!update_record(a.ins, a.p1, a.p2 \div 8, a.p2 % 8, a.size) : TwoBytes(c)
  BY <1>1, RecordsAreBytes, UpdatesAreBytes, ZenonT(60)
<1> QED
  BY <1>3, <1>4, <1>5, <1>6 DEF Iso!make_checked_iso_command

\* The operations of a caller.
LEMMA IsoOperates ==
    ASSUME IsoInv, Iso!Binary \/ Iso!RecordFiles \/ Iso!Selection \/ Iso!RawExchange
    PROVE  IsoInv'
<1>1. CASE Iso!Binary
  <2>1. PICK o \in Offsets, n \in IsoSizes, limit \in IsoSizes :
          \/ Iso!Execute("checked", <<0, o, 0, n>>,
                         UNION {Iso!read_binary(x, n) : x \in Iso!current_file(o)}, limit)
          \/ Iso!Execute("checked", <<0, o, n, Iso!NoLe>>,
                         UNION {Iso!update_binary(x, n) : x \in Iso!current_file(o)}, limit)
          \/ \E i \in Identifiers :
              \/ Iso!Execute("checked", <<1, i, o, 0, n>>,
                             UNION {Iso!read_binary(x, n) : x \in Iso!short_file(i, o)}, limit)
              \/ Iso!Execute("checked", <<1, i, o, n, Iso!NoLe>>,
                             UNION {Iso!update_binary(x, n) : x \in Iso!short_file(i, o)}, limit)
    BY <1>1 DEF Iso!Binary
  <2>2. o \in Nat /\ "checked" \in {"checked", "raw"}
    BY IsoAssumption
  <2>3. \A x \in Iso!current_file(o) : x[1] \in 0..255 /\ x[2] \in 0..255
    BY <2>2, AddressesAreBytes
  <2>4. CASE \/ Iso!Execute("checked", <<0, o, 0, n>>,
                            UNION {Iso!read_binary(x, n) : x \in Iso!current_file(o)}, limit)
             \/ Iso!Execute("checked", <<0, o, n, Iso!NoLe>>,
                            UNION {Iso!update_binary(x, n) : x \in Iso!current_file(o)}, limit)
    <3>1. /\ \A c \in UNION {Iso!read_binary(x, n) : x \in Iso!current_file(o)} : TwoBytes(c)
          /\ \A c \in UNION {Iso!update_binary(x, n) : x \in Iso!current_file(o)} : TwoBytes(c)
      BY <2>3, BinaryIsBytes, SMTT(30)
    <3> QED  BY <2>2, <2>4, <3>1, IsoExecutes
  <2>5. ASSUME NEW i \in Identifiers,
               \/ Iso!Execute("checked", <<1, i, o, 0, n>>,
                              UNION {Iso!read_binary(x, n) : x \in Iso!short_file(i, o)}, limit)
               \/ Iso!Execute("checked", <<1, i, o, n, Iso!NoLe>>,
                              UNION {Iso!update_binary(x, n) : x \in Iso!short_file(i, o)}, limit)
        PROVE  IsoInv'
    <3>1. i \in Nat
      BY IsoAssumption
    <3>2. \A x \in Iso!short_file(i, o) : x[1] \in 0..255 /\ x[2] \in 0..255
      BY <2>2, <3>1, AddressesAreBytes
    <3>3. /\ \A c \in UNION {Iso!read_binary(x, n) : x \in Iso!short_file(i, o)} : TwoBytes(c)
          /\ \A c \in UNION {Iso!update_binary(x, n) : x \in Iso!short_file(i, o)} : TwoBytes(c)
      BY <3>2, BinaryIsBytes, SMTT(30)
    <3> QED  BY <2>2, <2>5, <3>3, IsoExecutes
  <2> QED  BY <2>1, <2>4, <2>5
<1>2. CASE Iso!RecordFiles
  <2>1. PICK r \in Records, i \in Identifiers, n \in IsoSizes :
          \/ \E mode \in {4, 5} :
              Iso!Execute("checked", <<r, i, mode, 0, n>>, Iso!read_records(r, i, mode, n), n)
          \/ Iso!Execute("checked", <<i, n, Iso!NoLe>>, Iso!append_record(i, n), n)
          \/ \E ins \in {220, 221}, control \in {4, 7, 8} :
              Iso!Execute("checked", <<r, i, control, n, Iso!NoLe>>,
                          Iso!update_record(ins, r, i, control, n), n)
    BY <1>2 DEF Iso!RecordFiles
  <2>2. r \in Nat /\ i \in Nat /\ "checked" \in {"checked", "raw"} /\ 4 \in Nat
    BY IsoAssumption
  <2>3. ASSUME NEW mode \in {4, 5},
               Iso!Execute("checked", <<r, i, mode, 0, n>>, Iso!read_records(r, i, mode, n), n)
        PROVE  IsoInv'
    <3>1. \A c \in Iso!read_records(r, i, mode, n) : TwoBytes(c)
      BY <2>2, RecordsAreBytes
    <3> QED  BY <2>2, <2>3, <3>1, IsoExecutes
  <2>4. CASE Iso!Execute("checked", <<i, n, Iso!NoLe>>, Iso!append_record(i, n), n)
    <3>1. \A c \in Iso!append_record(i, n) : TwoBytes(c)
      BY <2>2, RecordsAreBytes
    <3> QED  BY <2>2, <2>4, <3>1, IsoExecutes
  <2>5. ASSUME NEW ins \in {220, 221}, NEW control \in {4, 7, 8},
               Iso!Execute("checked", <<r, i, control, n, Iso!NoLe>>,
                           Iso!update_record(ins, r, i, control, n), n)
        PROVE  IsoInv'
    <3>1. control \in Nat
      OBVIOUS
    <3>2. \A c \in Iso!update_record(ins, r, i, control, n) : TwoBytes(c)
      BY <2>2, <3>1, UpdatesAreBytes
    <3> QED  BY <2>2, <2>5, <3>2, IsoExecutes
  <2> QED  BY <2>1, <2>3, <2>4, <2>5
<1>3. CASE Iso!Selection
  <2>1. PICK response \in {0, 12} :
          \/ \E f \in FileIds, kind \in {0, 1, 2} :
              Iso!Execute("checked", <<kind, response, f \div 256, f % 256, 2,
                                       IF response = 0 THEN 256 ELSE Iso!NoLe>>,
                          Iso!select_file(f, kind, response), 256)
          \/ \E n \in IsoSizes :
              Iso!Execute("checked", <<4, response, n>>, Iso!select_df_name(n, response), 256)
    BY <1>3 DEF Iso!Selection
  <2>2. "checked" \in {"checked", "raw"}
    OBVIOUS
  <2>3. CASE \E f \in FileIds, kind \in {0, 1, 2} :
               Iso!Execute("checked", <<kind, response, f \div 256, f % 256, 2,
                                        IF response = 0 THEN 256 ELSE Iso!NoLe>>,
                           Iso!select_file(f, kind, response), 256)
    <3>1. PICK f \in FileIds, kind \in {0, 1, 2} :
               Iso!Execute("checked", <<kind, response, f \div 256, f % 256, 2,
                                        IF response = 0 THEN 256 ELSE Iso!NoLe>>,
                           Iso!select_file(f, kind, response), 256)
      BY <2>3
    <3>2. \A c \in Iso!select_file(f, kind, response) : TwoBytes(c)
      BY SelectionsAreBytes
    <3> QED  BY <2>2, <3>1, <3>2, IsoExecutes
  <2>4. CASE \E n \in IsoSizes :
               Iso!Execute("checked", <<4, response, n>>, Iso!select_df_name(n, response), 256)
    <3>1. PICK n \in IsoSizes :
               Iso!Execute("checked", <<4, response, n>>, Iso!select_df_name(n, response), 256)
      BY <2>4
    <3>2. \A c \in Iso!select_df_name(n, response) : TwoBytes(c)
      BY SelectionsAreBytes
    <3> QED  BY <2>2, <3>1, <3>2, IsoExecutes
  <2> QED  BY <2>1, <2>3, <2>4
<1>4. CASE Iso!RawExchange
  <2>1. PICK a \in RawApdus, limit \in IsoSizes :
          Iso!Execute("raw", Iso!Understood(a), Iso!exactly_checked(a), limit)
    BY <1>4 DEF Iso!RawExchange
  <2>2. \A c \in Iso!exactly_checked(a) : TwoBytes(c)
    BY IsoAssumption, RebuiltIsBytes DEF Iso!exactly_checked
  <2>3. "raw" \in {"checked", "raw"}
    OBVIOUS
  <2> QED  BY <2>1, <2>2, <2>3, IsoExecutes
<1> QED  BY <1>1, <1>2, <1>3, <1>4

\* An answer is taken: it ends the session, or is that of the session's card, which
\* goes on with the same key and vector.
LEMMA IsoTakesAnswer ==
    ASSUME IsoInv, Iso!TakeAnswer
    PROVE  IsoInv'
<1>1. /\ call.phase = "answered" /\ call.step = "command" /\ call.via # "handshake"
      /\ session.valid /\ TakingAnswer
      /\ UNCHANGED <<generation, card, reply, last, heard, issued>>
  BY DEF IsoInv, ControlInv, TakingAnswer, Iso!TakeAnswer, ProofSteps
<1>2. CASE \E outcome \in {"rejected", "unknown"} :
             session' = Iso!Invalidate /\ Iso!Return(FALSE, outcome, 0)
  <2>1. PICK outcome \in {"rejected", "unknown"} :
             session' = Iso!Invalidate /\ Iso!Return(FALSE, outcome, 0)
    BY <1>2
  <2>2. /\ session' \in IsoSession /\ session'.generation <= generation
        /\ session'.valid <=> session'.key # <<>>
        /\ Aligned'
    BY <2>1, SessionEnds DEF IsoInv, IsoTyped, Aligned
  <2> QED  BY <1>1, <2>1, <2>2, IsoReturns
<1>3. CASE /\ reply.status = "success" /\ ~Iso!is_read(call.command)
           /\ Iso!Return(TRUE, "completed", 0) /\ session' = session
  <2>1. Aligned
    BY <1>1, <1>3 DEF IsoInv, AnswerInv, Aligned
  <2>2. /\ session' \in IsoSession /\ session'.generation <= generation
        /\ session'.valid <=> session'.key # <<>>
        /\ Aligned'
    BY <1>1, <1>3, <2>1 DEF IsoInv, IsoTyped, Aligned
  <2> QED  BY <1>1, <1>3, <2>2, IsoReturns
<1>4. CASE /\ reply.status = "success" /\ Iso!is_read(call.command)
           /\ reply.mac = session.key \o <<session.iv, reply.payload>>
           /\ call' = [call EXCEPT !.phase = "verified"]
           /\ session' = session /\ result' = result
  <2>1. /\ "verified" \in Iso!Phases /\ generation' = generation
        /\ call' = [call EXCEPT !.phase = "verified"] /\ issued'.randoms = issued.randoms
    BY <1>1, <1>4 DEF Iso!Phases
  <2>2. /\ CallTyped' /\ call'.phase = "verified" /\ call'.step = call.step
        /\ call'.via = call.via /\ call'.command = call.command
    BY <2>1, CallMoves DEF IsoInv, IsoTyped
  <2>3. IsoTyped'
    BY <1>1, <1>4, <2>2 DEF IsoInv, IsoTyped, AnswerTyped, AnswerRecord
  <2>4. ControlInv' /\ TakingAnswer' /\ HandshakeFollowed' /\ LastInv'
    BY <1>1, <1>4, <2>2
    DEF IsoInv, ControlInv, TakingAnswer, HandshakeFollowed, LastInv
  <2>5. AnswerInv'
    <3>1. reply.payload \in Nat
      BY IsoAssumption DEF IsoInv, IsoTyped, AnswerTyped
    <3>2. session.generation = generation =>
             card.key = session.key /\ card.iv = reply.payload /\ heard.payload = reply.payload
      BY <1>1, <1>4, <3>1 DEF IsoInv, AnswerInv
    <3> QED  BY <1>1, <1>4, <2>2, <3>2 DEF AnswerInv, Iso!is_read
  <2>6. IsoHeardInv'
    BY <1>1, <1>4, <2>2 DEF IsoInv, IsoHeardInv, Iso!NotSentUnheard, Iso!ReadIsFresh, Iso!NoResult
  <2> QED  BY <2>3, <2>4, <2>5, <2>6 DEF IsoInv
<1> QED  BY <1>2, <1>3, <1>4 DEF Iso!TakeAnswer, Iso!Verifies

\* A read that verified returns, and the vectors of both sides have moved on.
LEMMA IsoFinishesRead ==
    ASSUME IsoInv, Iso!FinishRead
    PROVE  IsoInv'
<1>1. /\ call.phase = "verified" /\ call.via # "handshake" /\ session.valid
      /\ UNCHANGED <<generation, card, reply, last, heard, issued>>
  BY DEF IsoInv, ControlInv, Iso!FinishRead
<1>2. CASE /\ generation # session.generation
           /\ session' = Iso!Invalidate /\ Iso!Return(FALSE, "unknown", 0)
  <2>1. /\ session' \in IsoSession /\ session'.generation <= generation
        /\ session'.valid <=> session'.key # <<>>
        /\ Aligned'
    BY <1>2, SessionEnds DEF IsoInv, IsoTyped, Aligned
  <2> QED  BY <1>1, <1>2, <2>1, IsoReturns
<1>3. CASE /\ generation = session.generation
           /\ session' = [session EXCEPT !.iv = reply.payload]
           /\ Iso!Return(TRUE, "completed", reply.payload)
  <2>1. /\ card.key = session.key /\ card.iv = reply.payload
        /\ heard.payload = reply.payload
    BY <1>1, <1>3 DEF IsoInv, AnswerInv
  <2>2. /\ session' \in IsoSession /\ session'.iv = reply.payload
        /\ session'.key = session.key /\ session'.valid = session.valid
        /\ session'.generation = session.generation
    BY <1>3 DEF IsoInv, IsoTyped, IsoSession, AnswerTyped
  <2>3. /\ session'.generation <= generation
        /\ session'.valid <=> session'.key # <<>>
        /\ Aligned'
    BY <1>1, <2>1, <2>2 DEF IsoInv, IsoTyped, Aligned
  <2> QED  BY <1>1, <1>3, <2>1, <2>2, <2>3, IsoReturns
<1> QED  BY <1>2, <1>3 DEF Iso!FinishRead

\* A frame does not go out, or it or its answer is lost.
LEMMA IsoRefuses ==
    ASSUME IsoInv, Iso!ChannelRefuses
    PROVE  IsoInv'
<1>1. /\ call.phase = "wire" /\ ~TakingAnswer
      /\ UNCHANGED <<generation, card, reply, last, heard, issued>>
  BY DEF Iso!ChannelRefuses, TakingAnswer
<1>2. CASE call.step = "command"
  <2>1. session' = session /\ Iso!Return(FALSE, "not_sent", 0) /\ heard = Iso!NotHeard
    BY <1>1, <1>2 DEF IsoInv, IsoHeardInv, Iso!ChannelRefuses, Iso!AfterChannelError
  <2>2. /\ session' \in IsoSession /\ session'.generation <= generation
        /\ session'.valid <=> session'.key # <<>>
        /\ Aligned'
    BY <1>1, <2>1 DEF IsoInv, IsoTyped, Aligned
  <2> QED  BY <1>1, <2>1, <2>2, IsoReturns
<1>3. CASE call.step # "command"
  <2>1. call.via = "handshake" /\ session' = session
    BY <1>1, <1>3 DEF IsoInv, ControlInv, Iso!ChannelRefuses
  <2> DEFINE outcome == Iso!after_send("not_sent")
  <2>2. /\ Iso!Return(FALSE, outcome, 0) /\ outcome \in {"not_sent", "unknown"}
        /\ outcome = "not_sent" => call.step = "challenge"
    BY <1>3 DEF Iso!ChannelRefuses, Iso!after_send
  <2> HIDE DEF outcome
  <2>3. PICK told \in {"not_sent", "unknown"} : told = outcome
    BY <2>2
  <2> QED  BY <1>1, <2>1, <2>2, <2>3, ProofFails
<1> QED  BY <1>2, <1>3

\* A command or its answer may be lost, in every phase of the exchange.
LEMMA IsoLoses ==
    ASSUME IsoInv, Iso!ChannelFails
    PROVE  IsoInv'
<1>1. /\ call.phase \in {"wire", "answered"} /\ Iso!Return(FALSE, "unknown", 0)
      /\ UNCHANGED <<generation, card, reply, last, heard, issued>>
  BY DEF Iso!ChannelFails
<1>2. CASE call.step = "command"
  <2>1. session' = Iso!Invalidate
    BY <1>2 DEF Iso!ChannelFails, Iso!AfterChannelError
  <2>2. /\ session' \in IsoSession /\ session'.generation <= generation
        /\ session'.valid <=> session'.key # <<>>
        /\ Aligned'
    BY <2>1, SessionEnds DEF IsoInv, IsoTyped, Aligned
  <2> QED  BY <1>1, <2>2, IsoReturns
<1>3. CASE call.step # "command"
  <2>1. call.via = "handshake" /\ session' = session
    BY <1>1, <1>3 DEF IsoInv, ControlInv, Iso!ChannelFails
  <2> QED  BY <1>1, <2>1, ProofFails
<1> QED  BY <1>2, <1>3

\* A frame that is answered: the call has its fields and waits with the reply.
LEMMA IsoAnswered ==
    ASSUME IsoInv, call.phase = "wire", call' = [call EXCEPT !.phase = "answered"],
           issued'.randoms = issued.randoms, UNCHANGED <<generation, session, result>>
    PROVE  /\ CallTyped' /\ ControlInv'
           /\ call'.phase = "answered" /\ call'.step = call.step /\ call'.via = call.via
           /\ call'.generation = call.generation /\ call'.random = call.random
           /\ call'.number = call.number /\ call'.command = call.command
           /\ result' = Iso!NoResult /\ ~TakingAnswer /\ Aligned
<1>1. "answered" \in Iso!Phases
  BY DEF Iso!Phases
<1>2. /\ CallTyped' /\ call'.phase = "answered" /\ call'.step = call.step
      /\ call'.via = call.via /\ call'.generation = call.generation
      /\ call'.random = call.random /\ call'.number = call.number
      /\ call'.command = call.command
  BY <1>1, CallMoves DEF IsoInv, IsoTyped
<1>3. ControlInv'
  BY <1>2 DEF IsoInv, ControlInv
<1>4. result' = Iso!NoResult /\ ~TakingAnswer /\ Aligned
  BY DEF IsoInv, IsoHeardInv, TakingAnswer
<1> QED  BY <1>2, <1>3, <1>4

\* A card's answer has a number of its own.
LEMMA IsoHears ==
    ASSUME IsoInv, NEW asked, Iso!Heard(asked, Iso!Number)
    PROVE  /\ call.phase = "wire" /\ call' = [call EXCEPT !.phase = "answered"]
           /\ issued' \in [randoms : 0..MaxHandshakes, numbers : 0..MaxNumbers]
           /\ issued'.randoms = issued.randoms /\ issued'.numbers = Iso!Number
           /\ Iso!Number \in 0..MaxNumbers /\ Iso!Number > 0 /\ card.iv < Iso!Number
           /\ heard' = [request |-> asked, payload |-> Iso!Number]
           /\ UNCHANGED <<generation, session, result>>
<1>1. /\ call.phase = "wire" /\ issued.numbers < MaxNumbers
      /\ issued' = [issued EXCEPT !.numbers = Iso!Number]
      /\ call' = [call EXCEPT !.phase = "answered"]
      /\ heard' = [request |-> asked, payload |-> Iso!Number]
      /\ UNCHANGED <<generation, session, result>>
  BY DEF Iso!Heard
<1>2. /\ issued \in [randoms : 0..MaxHandshakes, numbers : 0..MaxNumbers]
      /\ issued.numbers \in 0..MaxNumbers /\ card.iv \in 0..MaxNumbers
      /\ card.iv <= issued.numbers
  BY DEF IsoInv, IsoTyped, IsoCard
<1>3. Iso!Number \in 0..MaxNumbers /\ Iso!Number > 0 /\ card.iv < Iso!Number
  BY <1>1, <1>2, IsoAssumption DEF Iso!Number
<1> QED  BY <1>1, <1>2, <1>3

\* What is heard and told while a frame is answered.
LEMMA HeardIsTold ==
    ASSUME call'.phase = "answered", result' = Iso!NoResult
    PROVE  IsoHeardInv'
BY IsoRecords DEF IsoHeardInv, Iso!NotSentUnheard, Iso!ReadIsFresh

\* The card answers a proof: it follows the handshake, or refuses and has nothing.
LEMMA IsoProves ==
    ASSUME IsoInv, Iso!CardProves
    PROVE  IsoInv'
<1>1. call.via = "handshake" /\ Iso!Heard(<< 0 >>, Iso!Number) /\ last' = reply'
  BY DEF Iso!CardProves
<1>2. PICK m \in 0..MaxNumbers : m = Iso!Number /\ m > 0 /\ card.iv < m
  BY <1>1, IsoHears
<1>3. /\ call.phase = "wire" /\ call' = [call EXCEPT !.phase = "answered"]
      /\ issued' \in [randoms : 0..MaxHandshakes, numbers : 0..MaxNumbers]
      /\ issued'.randoms = issued.randoms /\ issued'.numbers = m
      /\ heard' = [request |-> << 0 >>, payload |-> m]
      /\ UNCHANGED <<generation, session, result>>
  BY <1>1, <1>2, IsoHears
<1>4. /\ CallTyped' /\ ControlInv'
      /\ call'.phase = "answered" /\ call'.step = call.step /\ call'.via = call.via
      /\ call'.generation = call.generation /\ call'.random = call.random
      /\ result' = Iso!NoResult
  BY <1>3, IsoAnswered
<1>5. call.step \in ProofSteps /\ ~session.valid /\ call.random \in Nat
  BY <1>1, <1>3, IsoAssumption DEF IsoInv, ControlInv, IsoTyped, CallTyped, ProofSteps
<1>6. ~TakingAnswer' /\ Aligned' /\ AnswerInv'
  BY <1>3, <1>4, <1>5 DEF TakingAnswer, Aligned, AnswerInv, ProofSteps
<1>7. IsoHeardInv'
  BY <1>4, HeardIsTold
<1>8. card = [shares |-> card.shares, challenge |-> card.challenge, proven |-> card.proven,
              key |-> card.key, iv |-> card.iv]
      /\ card.shares \in BOOLEAN /\ card.challenge \in Nat /\ card.proven \in Nat
      /\ card.key \in KeyType /\ card.iv \in 0..MaxNumbers /\ m \in Nat /\ 0 \in 0..MaxNumbers
  BY IsoAssumption DEF IsoInv, IsoTyped, IsoCard
<1>9. ASSUME card' \in IsoCard, card'.iv <= m, AnswerTyped(reply)', HandshakeFollowed', LastInv'
      PROVE  IsoInv'
  <2>1. AnswerTyped(last)'
    BY <1>1, <1>9 DEF AnswerTyped, AnswerRecord
  <2>2. IsoTyped'
    BY <1>3, <1>4, <1>9, <2>1, IsoRecords DEF IsoInv, IsoTyped
  <2> QED  BY <1>4, <1>6, <1>7, <1>9, <2>2 DEF IsoInv
<1>10. CASE /\ call.step = "challenge"
            /\ card' = [card EXCEPT !.challenge = m, !.proven = 0, !.key = Iso!None]
            /\ reply' = Iso!Answer("success", m, Iso!None)
  <2>1. card' = [shares |-> card.shares, challenge |-> m, proven |-> 0, key |-> <<>>,
                 iv |-> card.iv]
    BY <1>8, <1>10 DEF Iso!None
  <2>2. card' \in IsoCard /\ card'.iv <= m /\ card'.proven = 0 /\ card'.key = <<>>
    BY <1>2, <1>8, <2>1 DEF IsoCard, KeyType
  <2>3. reply' = [step |-> "challenge", status |-> "success", whole |-> TRUE, payload |-> m,
                  mac |-> <<>>]
    BY <1>10 DEF Iso!Answer, Iso!None
  <2>4. AnswerTyped(reply)'
    BY <2>3 DEF AnswerTyped, AnswerRecord
  <2>5. HandshakeFollowed' /\ LastInv'
    BY <1>1, <1>4, <1>10, <2>2, <2>3 DEF HandshakeFollowed, LastInv
  <2> QED  BY <1>9, <2>2, <2>4, <2>5
<1>11. CASE /\ call.step = "external"
            /\ card' = [card EXCEPT !.challenge = 0, !.proven = call.random]
            /\ reply' = Iso!Answer("success", 0, Iso!None)
  <2>1. card' = [shares |-> card.shares, challenge |-> 0, proven |-> call.random,
                 key |-> card.key, iv |-> card.iv]
    BY <1>8, <1>11
  <2>2. card' \in IsoCard /\ card'.iv <= m /\ card'.proven = call.random
    BY <1>2, <1>5, <1>8, <2>1 DEF IsoCard
  <2>3. reply' = [step |-> "external", status |-> "success", whole |-> TRUE, payload |-> 0,
                  mac |-> <<>>]
    BY <1>11 DEF Iso!Answer, Iso!None
  <2>4. AnswerTyped(reply)'
    BY <1>8, <2>3 DEF AnswerTyped, AnswerRecord
  <2>5. HandshakeFollowed' /\ LastInv'
    BY <1>1, <1>4, <1>11, <2>2, <2>3 DEF HandshakeFollowed, LastInv
  <2> QED  BY <1>9, <2>2, <2>4, <2>5
<1>12. CASE /\ call.step = "internal" /\ card.proven # 0
            /\ card' = [card EXCEPT !.proven = 0, !.key = <<card.proven, m>>, !.iv = 0]
            /\ reply' = Iso!Answer("success", m, <<call.random, m>>)
  <2>1. card' = [shares |-> card.shares, challenge |-> card.challenge, proven |-> 0,
                 key |-> <<card.proven, m>>, iv |-> 0]
    BY <1>8, <1>12
  <2>2. <<card.proven, m>> \in KeyType
    BY <1>8 DEF KeyType, KeyPairs
  <2>3. card' \in IsoCard /\ card'.iv <= m /\ card'.key = <<card.proven, m>> /\ card'.iv = 0
    BY <1>2, <1>8, <2>1, <2>2 DEF IsoCard
  <2>4. reply' = [step |-> "internal", status |-> "success", whole |-> TRUE, payload |-> m,
                  mac |-> <<call.random, m>>]
    BY <1>12 DEF Iso!Answer
  <2>5. AnswerTyped(reply)'
    BY <2>4 DEF AnswerTyped, AnswerRecord
  <2>6. card.proven = call.random
    BY <1>1, <1>3, <1>12 DEF IsoInv, HandshakeFollowed
  <2>7. HandshakeFollowed' /\ LastInv'
    BY <1>1, <1>4, <1>12, <2>3, <2>4, <2>6 DEF HandshakeFollowed, LastInv
  <2> QED  BY <1>9, <2>3, <2>5, <2>7
<1>13. CASE /\ card' = [card EXCEPT !.challenge = 0, !.proven = 0, !.key = Iso!None]
            /\ reply' = Iso!Answer("rejected", 0, Iso!None)
  <2>1. card' = [shares |-> card.shares, challenge |-> 0, proven |-> 0, key |-> <<>>,
                 iv |-> card.iv]
    BY <1>8, <1>13 DEF Iso!None
  <2>2. card' \in IsoCard /\ card'.iv <= m /\ card'.key = <<>>
    BY <1>2, <1>8, <2>1 DEF IsoCard, KeyType
  <2>3. reply' = [step |-> call.step, status |-> "rejected", whole |-> TRUE, payload |-> 0,
                  mac |-> <<>>]
    BY <1>13 DEF Iso!Answer, Iso!None
  <2>4. AnswerTyped(reply)'
    BY <1>8, <2>3 DEF AnswerTyped, AnswerRecord
  <2>5. HandshakeFollowed' /\ LastInv'
    BY <1>1, <1>4, <1>5, <2>2, <2>3 DEF HandshakeFollowed, LastInv, ProofSteps
  <2> QED  BY <1>9, <2>2, <2>4, <2>5
<1> QED  BY <1>2, <1>10, <1>11, <1>12, <1>13 DEF Iso!CardProves

\* The card executes a command: its vector moves with the answer of a read.
LEMMA IsoPerforms ==
    ASSUME IsoInv, Iso!CardExecutes
    PROVE  IsoInv'
<1>1. /\ call.step = "command" /\ Iso!Heard(Iso!Understood(call.command), Iso!Number)
      /\ last' = reply'
  BY DEF Iso!CardExecutes
<1>2. PICK m \in 0..MaxNumbers : m = Iso!Number /\ m > 0 /\ card.iv < m
  BY <1>1, IsoHears
<1>3. /\ call.phase = "wire" /\ call' = [call EXCEPT !.phase = "answered"]
      /\ issued' \in [randoms : 0..MaxHandshakes, numbers : 0..MaxNumbers]
      /\ issued'.randoms = issued.randoms /\ issued'.numbers = m
      /\ heard'.payload = m
      /\ UNCHANGED <<generation, session, result>>
  BY <1>1, <1>2, IsoHears
<1>4. /\ CallTyped' /\ ControlInv'
      /\ call'.phase = "answered" /\ call'.step = call.step /\ call'.via = call.via
      /\ call'.command = call.command
      /\ result' = Iso!NoResult /\ Aligned
  BY <1>3, IsoAnswered
<1>5. call.via # "handshake" /\ session.valid
  BY <1>1, <1>3 DEF IsoInv, ControlInv, ProofSteps
<1>6. TakingAnswer' /\ HandshakeFollowed'
  BY <1>1, <1>4, <1>5 DEF TakingAnswer, HandshakeFollowed
<1>7. IsoHeardInv'
  BY <1>4, HeardIsTold
<1>8. card = [shares |-> card.shares, challenge |-> card.challenge, proven |-> card.proven,
              key |-> card.key, iv |-> card.iv]
      /\ card.shares \in BOOLEAN /\ card.challenge \in Nat /\ card.proven \in Nat
      /\ card.key \in KeyType /\ card.iv \in 0..MaxNumbers /\ card.iv \in Nat
      /\ m \in Nat /\ 0 \in 0..MaxNumbers
      /\ session.key \in KeyPairs /\ session.iv \in Nat
  BY <1>5, IsoAssumption DEF IsoInv, IsoTyped, IsoCard, IsoSession, KeyType
<1>9. ASSUME card' \in IsoCard, card'.iv <= m, AnswerTyped(reply)', AnswerInv', LastInv'
      PROVE  IsoInv'
  <2>1. AnswerTyped(last)'
    BY <1>1, <1>9 DEF AnswerTyped, AnswerRecord
  <2>2. IsoTyped'
    BY <1>3, <1>4, <1>9, <2>1, IsoRecords DEF IsoInv, IsoTyped
  <2> QED  BY <1>4, <1>6, <1>7, <1>9, <2>2 DEF IsoInv
<1>10. CASE /\ card' = [card EXCEPT !.key = Iso!None]
            /\ reply' = Iso!Answer("rejected", 0, Iso!None)
  <2>1. card' = [shares |-> card.shares, challenge |-> card.challenge, proven |-> card.proven,
                 key |-> <<>>, iv |-> card.iv]
    BY <1>8, <1>10 DEF Iso!None
  <2>2. card' \in IsoCard /\ card'.iv <= m /\ card'.key = <<>>
    BY <1>2, <1>8, <2>1 DEF IsoCard, KeyType
  <2>3. reply' = [step |-> "command", status |-> "rejected", whole |-> TRUE, payload |-> 0,
                  mac |-> <<>>]
    BY <1>1, <1>10 DEF Iso!Answer, Iso!None
  <2>4. AnswerTyped(reply)'
    BY <1>8, <2>3 DEF AnswerTyped, AnswerRecord
  <2>5. AnswerInv' /\ LastInv'
    BY <1>1, <1>4, <2>2, <2>3 DEF AnswerInv, LastInv
  <2> QED  BY <1>9, <2>2, <2>4, <2>5
<1>11. CASE /\ Iso!is_read(call.command) /\ card.key # Iso!None
            /\ card' = [card EXCEPT !.iv = m]
            /\ reply' = Iso!Answer("success", m, card.key \o <<card.iv, m>>)
  <2>1. card' = [shares |-> card.shares, challenge |-> card.challenge, proven |-> card.proven,
                 key |-> card.key, iv |-> m]
    BY <1>8, <1>11
  <2>2. card' \in IsoCard /\ card'.iv <= m /\ card'.key = card.key /\ card'.iv = m
    BY <1>2, <1>8, <2>1 DEF IsoCard
  <2>3. reply' = [step |-> "command", status |-> "success", whole |-> TRUE, payload |-> m,
                  mac |-> card.key \o <<card.iv, m>>]
    BY <1>1, <1>11 DEF Iso!Answer
  <2>4. AnswerTyped(reply)'
    BY <2>3 DEF AnswerTyped, AnswerRecord
  <2>5. card.key \in KeyPairs
    BY <1>8, <1>11 DEF KeyType, Iso!None
  <2>6. LastInv'
    <3>1. \A v \in Nat, p \in Nat : card.key \o <<card.iv, m>> = card.key \o <<v, p>> =>
             v = card.iv
      BY <1>8, <2>5, MacIsWhole
    <3>2. last'.step = "command" /\ last'.mac = card.key \o <<card.iv, m>> /\ card.iv # m
      BY <1>1, <1>2, <1>8, <2>3
    <3> QED  BY <2>2, <3>1, <3>2 DEF LastInv
  <2>7. AnswerInv'
    <3>1. \A p \in Nat : session.key \o <<session.iv, m>> = session.key \o <<session.iv, p>> =>
             p = m
      BY <1>8, MacIsWhole
    <3>2. session.generation = generation => card.key = session.key /\ card.iv = session.iv
      BY <1>4, <1>5 DEF Aligned
    <3>3. reply'.mac = card.key \o <<card.iv, m>> /\ m # 0
      BY <1>2, <2>3
    <3>4. Iso!is_read(call'.command) /\ call'.phase = "answered"
      BY <1>4, <1>11
    <3>5. session' = session /\ generation' = generation
      BY <1>3
    <3> QED  BY <1>3, <2>2, <3>1, <3>2, <3>3, <3>4, <3>5 DEF AnswerInv
  <2> QED  BY <1>9, <2>2, <2>4, <2>6, <2>7
<1>12. CASE /\ ~Iso!is_read(call.command) \/ card.key = Iso!None
            /\ card' = card
            /\ reply' = Iso!Answer("success", m, Iso!None)
  <2>1. card' \in IsoCard /\ card'.iv <= m
    BY <1>2, <1>8, <1>12 DEF IsoInv, IsoTyped
  <2>2. reply' = [step |-> "command", status |-> "success", whole |-> TRUE, payload |-> m,
                  mac |-> <<>>]
    BY <1>1, <1>12 DEF Iso!Answer, Iso!None
  <2>3. AnswerTyped(reply)'
    BY <2>2 DEF AnswerTyped, AnswerRecord
  <2>4. \A k \in KeyPairs, v \in Nat, p \in Nat : k \o <<v, p>> # <<>>
    BY MacIsWhole
  <2>5. LastInv'
    <3>1. card'.key # <<>> => card'.key \in KeyPairs
      BY <1>8, <1>12 DEF KeyType
    <3> QED  BY <1>1, <2>2, <2>4, <3>1 DEF LastInv
  <2>6. AnswerInv'
    <3>1. ~Iso!is_read(call.command) => Aligned'
      BY <1>3, <1>4, <1>12 DEF Aligned
    <3>2. \A p \in Nat : reply'.mac # session'.key \o <<session'.iv, p>>
      BY <1>3, <1>8, <2>2, <2>4
    <3> QED  BY <1>4, <3>1, <3>2 DEF AnswerInv
  <2> QED  BY <1>9, <2>1, <2>3, <2>5, <2>6
<1> QED  BY <1>2, <1>10, <1>11, <1>12 DEF Iso!CardExecutes

\* The field alters an answer, but not its MAC.
LEMMA IsoAlters ==
    ASSUME IsoInv, Iso!AlterAnswer
    PROVE  IsoInv'
<1>1. /\ call.phase = "answered" /\ reply.status = "success"
      /\ reply' \in {[reply EXCEPT !.payload = 0], [reply EXCEPT !.whole = FALSE]}
      /\ UNCHANGED <<generation, card, session, call, last, heard, issued, result>>
  BY DEF Iso!AlterAnswer
<1>2. /\ AnswerTyped(reply)' /\ reply'.status = reply.status /\ reply'.mac = reply.mac
  BY <1>1, IsoRecords DEF IsoInv, IsoTyped, AnswerTyped, AnswerRecord
<1>3. IsoTyped'
  <2>1. CallTyped' /\ AnswerTyped(last)'
    BY <1>1 DEF IsoInv, IsoTyped, CallTyped, CallRecord, AnswerTyped, AnswerRecord
  <2> QED  BY <1>1, <1>2, <2>1 DEF IsoInv, IsoTyped
<1>4. ControlInv' /\ TakingAnswer' = TakingAnswer /\ Aligned' = Aligned /\ LastInv'
  BY <1>1 DEF IsoInv, ControlInv, TakingAnswer, Aligned, LastInv
<1>5. HandshakeFollowed'
  BY <1>1, <1>2 DEF IsoInv, HandshakeFollowed
<1>6. AnswerInv' /\ IsoHeardInv'
  BY <1>1, <1>2, <1>4
  DEF IsoInv, AnswerInv, TakingAnswer, IsoHeardInv, Iso!NotSentUnheard, Iso!ReadIsFresh,
      Iso!is_read
<1> QED  BY <1>3, <1>4, <1>5, <1>6 DEF IsoInv

\* The field repeats the last answer: it is of another step of the handshake, or its
\* MAC is of a vector that the card has left behind.
LEMMA IsoRepeats ==
    ASSUME IsoInv, Iso!RepeatAnswer
    PROVE  IsoInv'
<1>1. /\ call.phase = "wire" /\ call.step = last.step /\ last.status = "success"
      /\ reply' = last /\ call' = [call EXCEPT !.phase = "answered"]
      /\ UNCHANGED <<generation, card, session, last, heard, issued, result>>
  BY DEF Iso!RepeatAnswer
<1>2. /\ CallTyped' /\ ControlInv'
      /\ call'.phase = "answered" /\ call'.step = call.step /\ call'.via = call.via
      /\ call'.command = call.command /\ call'.generation = call.generation
      /\ call'.random = call.random
      /\ result' = Iso!NoResult /\ Aligned
  BY <1>1, IsoAnswered
<1>3. IsoTyped'
  BY <1>1, <1>2 DEF IsoInv, IsoTyped, AnswerTyped, AnswerRecord
<1>4. LastInv' /\ Aligned'
  BY <1>1, <1>2 DEF IsoInv, LastInv, Aligned
<1>5. HandshakeFollowed'
  BY <1>1, <1>2 DEF IsoInv, HandshakeFollowed, ControlInv, ProofSteps
<1>6. AnswerInv'
  <2>1. ASSUME TakingAnswer', session.generation = generation, Iso!is_read(call.command),
               NEW p \in Nat, last.mac = session.key \o <<session.iv, p>>
        PROVE  FALSE
    <3>1. call.step = "command" /\ session.valid
      BY <1>1, <1>2, <2>1 DEF IsoInv, ControlInv, TakingAnswer, ProofSteps
    <3>2. card.key = session.key /\ card.iv = session.iv /\ session.key # <<>>
          /\ session.iv \in Nat
      BY <1>2, <2>1, <3>1, IsoAssumption DEF Aligned, IsoInv, IsoTyped, IsoSession
    <3> QED  BY <1>1, <2>1, <3>1, <3>2 DEF IsoInv, LastInv
  <2> QED  BY <1>1, <1>2, <1>4, <2>1 DEF AnswerInv, Iso!is_read
<1>7. IsoHeardInv'
  BY <1>2, HeardIsTold
<1> QED  BY <1>2, <1>3, <1>4, <1>5, <1>6, <1>7 DEF IsoInv

\* Every step of the ISO layer preserves the invariant.
LEMMA IsoStep ==
    ASSUME IsoInv, Iso!Next
    PROVE  IsoInv'
<1>1. CASE \E shares \in BOOLEAN : Iso!ReplaceCard(shares)
  BY <1>1, IsoReplaces
<1>2. CASE Iso!Take \/ Iso!Authenticate
  BY <1>2, IsoTakes, IsoAuthenticates
<1>3. CASE Iso!NextProof \/ Iso!StopProof \/ Iso!TakeProof \/ Iso!MakeSession
  BY <1>3, IsoSendsProof, IsoStopsProof, IsoTakesProof, IsoMakesSession
<1>4. CASE Iso!Binary \/ Iso!RecordFiles \/ Iso!Selection \/ Iso!RawExchange
  BY <1>4, IsoOperates
<1>5. CASE Iso!TakeAnswer \/ Iso!FinishRead
  BY <1>5, IsoTakesAnswer, IsoFinishesRead
<1>6. CASE Iso!ChannelRefuses \/ Iso!ChannelFails
  BY <1>6, IsoRefuses, IsoLoses
<1>7. CASE Iso!CardProves \/ Iso!CardExecutes
  BY <1>7, IsoProves, IsoPerforms
<1>8. CASE Iso!AlterAnswer \/ Iso!RepeatAnswer
  BY <1>8, IsoAlters, IsoRepeats
<1> QED  BY <1>1, <1>2, <1>3, <1>4, <1>5, <1>6, <1>7, <1>8 DEF Iso!Next

\* The invariant is about the state alone.
LEMMA IsoStutters ==
    ASSUME IsoInv,
           UNCHANGED <<generation, card, session, call, reply, last, heard, issued, result>>
    PROVE  IsoInv'
<1>1. IsoTyped'
  BY DEF IsoInv, IsoTyped, CallTyped, CallRecord, AnswerTyped, AnswerRecord
<1>2. ControlInv' /\ (~TakingAnswer' => Aligned') /\ HandshakeFollowed' /\ LastInv'
  BY DEF IsoInv, ControlInv, TakingAnswer, Aligned, HandshakeFollowed, LastInv
<1>3. AnswerInv' /\ IsoHeardInv'
  BY DEF IsoInv, AnswerInv, TakingAnswer, Aligned, IsoHeardInv, Iso!NotSentUnheard,
         Iso!ReadIsFresh, Iso!is_read
<1> QED  BY <1>1, <1>2, <1>3 DEF IsoInv

\* What the invariant says of the layer.
LEMMA IsoPromises ==
    ASSUME IsoInv
    PROVE  Iso!TypeOK /\ Iso!Agreement /\ Iso!ReadIsFresh /\ Iso!NotSentUnheard
<1>1. Iso!TypeOK
  <2>1. call.random \in 0..MaxHandshakes
    BY IsoAssumption DEF IsoInv, IsoTyped, CallTyped
  <2>2. session.generation \in 0..generation /\ session.iv \in 0..MaxNumbers
    BY IsoAssumption DEF IsoInv, IsoTyped, IsoSession
  <2> QED
    BY <2>1, <2>2
    DEF Iso!TypeOK, Iso!None, IsoInv, IsoTyped, CallTyped, TwoBytes, AnswerTyped, ProofSteps
<1>2. Iso!Agreement
  BY DEF IsoInv, Iso!Agreement, Iso!Idle, TakingAnswer, Aligned
<1> QED  BY <1>1, <1>2 DEF IsoInv, IsoHeardInv

-----------------------------------------------------------------------------
(***************************************************************************)
(* Checked commands: the layer of CheckedCommands.                         *)
(***************************************************************************)
Bytes == Seq(ByteValue)

\* What SecureNativeChannel::validate() asks of a command, and that only a command
\* that ends the session has a plain answer to a protected request.
Sendable(c) ==
    /\ c.req \in {plain, mac, full} /\ c.res \in {plain, mac, full}
    /\ c.max \in 0..maximum_logical_response /\ c.min \in 0..c.max
    /\ c.req = plain => c.res = plain
    /\ c.res = plain => c.req = plain \/ c.ends

\* The commands that carry keys, and those after which a session is over.
Secret(c) == c.op \in {196, 198, 206} \/ (c.op = 92 /\ c.header = << 1 >>)

WellBuilt(c) ==
    /\ c.header \in Bytes
    /\ Sendable(c)
    /\ Secret(c) => c.auth /\ c.req = full
    /\ ChangesKey(c) => c.key \in KeyNumbers /\ (c.ends <=> Slot(c) = <<0, c.key>>)
    /\ c.op = 85 => c.auth /\ c.ends
    /\ c.ends => ChangesKey(c) \/ c.op = 85

\* The opcodes of the commands that carry no key and end no session.
Ordinary == Nat \ {85, 92, 196, 198, 206}

\* A key change names the slot and the key that were asked for.
ChangeAsked(c, asked) ==
    /\ ChangesKey(c)
    /\ Slot(c) = <<asked[2], asked[1]>> /\ asked[3] \in Nat
    /\ c.data.bytes[1] \in Nat /\ c.data.bytes[2] = 7
    /\ \/ c.data.size = 17 /\ c.data.bytes[1] = asked[3]
       \/ c.data.size = 21 /\ c.data.bytes[3] = crc32(asked[3])

\* Bytes are put together from bytes.
LEMMA JoinedBytes ==
    ASSUME NEW s \in Bytes, NEW t \in Bytes
    PROVE  s \o t \in Bytes
BY ConcatProperties DEF Bytes

\* The short sequences that the headers begin with.
LEMMA FewBytes ==
    /\ <<>> \in Bytes
    /\ \A a \in ByteValue : <<a>> \in Bytes
    /\ \A a \in ByteValue, b \in ByteValue : <<a, b>> \in Bytes
    /\ \A a \in ByteValue, b \in ByteValue, c \in ByteValue, d \in ByteValue :
           <<a, b, c, d>> \in Bytes
BY DEF Bytes

\* Of a sequence of two bytes, the first and the last.
LEMMA ShortJoin ==
    ASSUME NEW a \in ByteValue, NEW b \in ByteValue, NEW h, h = <<a>> \o <<b>>
    PROVE  h \in Bytes /\ h[1] = a /\ h[Len(h)] = b
<1> DEFINE s == <<a>>
           t == <<b>>
<1>1. s \in Seq(ByteValue) /\ t \in Seq(ByteValue) /\ Len(s) = 1 /\ Len(t) = 1
  OBVIOUS
<1>2. s[1] = a /\ t[1] = b
  OBVIOUS
<1> HIDE DEF s, t
<1>3. /\ s \o t \in Seq(ByteValue) /\ Len(s \o t) = 2
      /\ \A i \in 1..2 : (s \o t)[i] = IF i <= 1 THEN s[i] ELSE t[i - 1]
  BY <1>1, ConcatProperties
<1>4. (s \o t)[1] = s[1] /\ (s \o t)[2] = t[1]
  BY <1>3
<1> QED  BY <1>2, <1>3, <1>4 DEF s, t, Bytes

\* put_le() narrows what it shifts: its result is bytes, of any value.
LEMMA PutBytes ==
    ASSUME NEW value \in Int, NEW count \in 1..4
    PROVE  put_le(value, count) \in Bytes
<1>1. \A i \in 1..count : ByteWeight[i] \in Nat \ {0}
  BY SMT DEF ByteWeight
<1>2. \A i \in 1..count : (value \div ByteWeight[i]) % 256 \in ByteValue
  <2> SUFFICES ASSUME NEW i \in 1..count
               PROVE  (value \div ByteWeight[i]) % 256 \in ByteValue
    OBVIOUS
  <2>1. PICK w \in Nat \ {0} : w = ByteWeight[i]
    BY <1>1
  <2>2. value \div w \in Int
    OBVIOUS
  <2>3. \A n \in Int : n % 256 \in ByteValue
    BY DEF ByteValue
  <2> QED  BY <2>1, <2>2, <2>3
<1> DEFINE f == [i \in 1..count |-> (value \div ByteWeight[i]) % 256]
<1>3. f \in [1..count -> ByteValue]
  BY <1>2
<1>4. count \in Nat
  OBVIOUS
<1> HIDE DEF f
<1>5. f \in Seq(ByteValue)
  BY <1>3, <1>4, SeqDef
<1> QED  BY <1>5 DEF f, put_le, Bytes

\* So are the zeros in place of a payload.
LEMMA ZeroBytes ==
    ASSUME NEW count \in Nat
    PROVE  Zeros(count) \in Bytes
<1>1. Zeros(count) \in [1..count -> ByteValue]
  BY DEF Zeros, ByteValue
<1> QED  BY <1>1, SeqDef DEF Bytes

\* The constants of the layer.
LEMMA CheckedAssumption ==
    /\ Files \subseteq ByteValue /\ Positions \subseteq Nat /\ Sizes \subseteq Nat
    /\ Integers32 \subseteq Int /\ Ids \subseteq Nat /\ 0 \in Ids
    /\ KeySets \subseteq Nat /\ KeyNumbers \subseteq 0..63 /\ Blocks \subseteq Nat
    /\ Positions \subseteq 0..maximum_three_byte
    /\ Rights \subseteq Nat \X Nat \X Nat \X Nat
    /\ AppConfigs \subseteq ApplicationConfiguration
    /\ maximum_three_byte \in Nat /\ maximum_logical_response \in Nat
    /\ \A n \in 0..maximum_three_byte : n \in 0..maximum_logical_response
    /\ \A n \in 0..256 : n \in 0..maximum_logical_response
<1>1. /\ maximum_three_byte \in Nat /\ maximum_logical_response \in Nat
      /\ \A n \in 0..maximum_three_byte : n \in 0..maximum_logical_response
      /\ \A n \in 0..256 : n \in 0..maximum_logical_response
  <2>1. /\ maximum_three_byte \in Nat /\ maximum_logical_response \in Nat
        /\ maximum_three_byte <= maximum_logical_response
        /\ 256 <= maximum_logical_response
    BY SMT DEF maximum_three_byte, maximum_logical_response
  <2> HIDE DEF maximum_three_byte, maximum_logical_response
  <2> QED  BY <2>1
<1> QED  BY <1>1, ConstantsAssumption DEF ByteValue

\* append_access() packs four accepted access rights into two bytes.
LEMMA RightsBytes ==
    ASSUME NEW access \in Nat \X Nat \X Nat \X Nat, valid_access(access)
    PROVE  append_access(access) \in Bytes
<1>1. /\ access[1] \in 0..15 /\ access[2] \in 0..15
      /\ access[3] \in 0..15 /\ access[4] \in 0..15
  BY DEF valid_access
<1>2. 16 * access[1] + access[2] \in ByteValue /\ 16 * access[3] + access[4] \in ByteValue
  BY <1>1 DEF ByteValue
<1> QED  BY <1>2, FewBytes DEF append_access

\* An accepted mode and an option bit share a byte.
LEMMA OptionBytes ==
    ASSUME NEW mode, valid_mode(mode), NEW more
    PROVE  mode + Flag(more, 128) \in ByteValue /\ <<mode + Flag(more, 128)>> \in Bytes
<1>1. mode + Flag(more, 128) \in ByteValue
  BY DEF valid_mode, Flag, ByteValue, plain, mac, full
<1> QED  BY <1>1, FewBytes

\* The two ways in which most builders put a command together.
LEMMA ManagementBuilt ==
    ASSUME NEW opcode \in Ordinary, NEW header \in Bytes,
           NEW maximum \in 0..maximum_logical_response, NEW minimum \in 0..maximum
    PROVE  WellBuilt(management(opcode, header, minimum, maximum))
BY DEF management, WellBuilt, Sendable, Secret, ChangesKey, Ordinary, plain, mac, full

\* file_command(): in every mode it accepts, and in both directions of the data.
LEMMA FileBuilt ==
    ASSUME NEW opcode \in Ordinary, NEW header \in Bytes, NEW data, NEW mode,
           NEW reading,
           NEW maximum \in 0..maximum_logical_response, NEW minimum \in 0..maximum
    PROVE  \A c \in file_command(opcode, header, data, mode, reading, minimum, maximum) :
               WellBuilt(c)
<1> SUFFICES ASSUME NEW c \in file_command(opcode, header, data, mode, reading, minimum, maximum)
             PROVE  WellBuilt(c)
  OBVIOUS
<1>1. /\ mode \in {plain, mac, full}
      /\ c.op = opcode /\ c.header = header /\ c.min = minimum /\ c.max = maximum
      /\ c.ends = FALSE /\ c.key = NoKey
      /\ c.req = IF mode = full /\ reading THEN mac ELSE mode
      /\ c.res = IF mode = full /\ ~reading THEN mac ELSE mode
  BY ZenonT(60) DEF file_command, valid_mode, management
<1>2. Sendable(c)
  BY <1>1 DEF Sendable, plain, mac, full
<1> QED  BY <1>1, <1>2 DEF WellBuilt, Secret, ChangesKey, Ordinary

\* A command of which no answer is expected but success.
LEMMA SilentBuilt ==
    ASSUME NEW opcode \in Ordinary, NEW header \in Bytes
    PROVE  WellBuilt(management(opcode, header, 0, 0))
<1>1. 0 \in 0..0 /\ 0 \in 0..maximum_logical_response
  BY CheckedAssumption
<1> QED  BY <1>1, ManagementBuilt

\* A file command of which no answer is expected but success.
LEMMA SilentFileBuilt ==
    ASSUME NEW opcode \in Ordinary, NEW header \in Bytes, NEW data, NEW mode,
           NEW reading
    PROVE  \A c \in file_command(opcode, header, data, mode, reading, 0, 0) : WellBuilt(c)
<1>1. 0 \in 0..0 /\ 0 \in 0..maximum_logical_response
  BY CheckedAssumption
<1> QED  BY <1>1, FileBuilt

\* Ranges and addresses of a file's data.
LEMMA RangeBytes ==
    ASSUME NEW f \in Files, NEW offset \in Nat, NEW length \in Nat
    PROVE  range_header(f, offset, length) \in Bytes
<1>1. <<f>> \in Bytes /\ put_le(offset, 3) \in Bytes /\ put_le(length, 3) \in Bytes
  BY CheckedAssumption, FewBytes, PutBytes
<1>2. <<f>> \o put_le(offset, 3) \in Bytes
  BY <1>1, JoinedBytes
<1> QED  BY <1>1, <1>2, JoinedBytes DEF range_header

\* read_data(), write_data() and write_record(), zero lengths included.
LEMMA DataBuilt ==
    ASSUME NEW f \in Files, NEW o \in Positions, NEW n \in Positions, NEW s \in Nat, NEW m
    PROVE  /\ \A c \in read_data(f, o, n, m) : WellBuilt(c)
           /\ \A c \in write_data(f, o, s, m) : WellBuilt(c)
           /\ \A c \in write_record(f, o, s, m) : WellBuilt(c)
<1>1. o \in 0..maximum_three_byte /\ n \in 0..maximum_three_byte /\ s \in Nat
      /\ o \in Nat /\ n \in Nat
  BY CheckedAssumption
<1>2. range_header(f, o, n) \in Bytes /\ range_header(f, o, s) \in Bytes
  BY <1>1, RangeBytes
<1>3. 189 \in Ordinary /\ 61 \in Ordinary /\ 59 \in Ordinary
  BY DEF Ordinary
<1>4. \A c \in read_data(f, o, n, m) : WellBuilt(c)
  <2> DEFINE maximum == IF n = 0 THEN maximum_three_byte - o ELSE n
  <2>1. maximum \in 0..maximum_three_byte /\ n \in 0..maximum
    BY <1>1, CheckedAssumption
  <2>2. read_data(f, o, n, m) \in
          {{}, file_command(189, range_header(f, o, n), NoData, m, TRUE, n, maximum)}
    BY DEF read_data
  <2> HIDE DEF maximum
  <2>3. PICK top \in 0..maximum_logical_response : top = maximum /\ n \in 0..top
    BY <2>1, CheckedAssumption
  <2>4. \A c \in file_command(189, range_header(f, o, n), NoData, m, TRUE, n, top) :
            WellBuilt(c)
    <3> DEFINE h == range_header(f, o, n)
    <3>1. h \in Bytes /\ 189 \in Ordinary /\ n \in 0..top
      BY <1>2, <1>3, <2>3
    <3> HIDE DEF h
    <3>2. ASSUME NEW c \in file_command(189, h, NoData, m, TRUE, n, top)
          PROVE  WellBuilt(c)
      BY <3>1, <3>2, FileBuilt, ZenonT(60)
    <3> QED  BY <3>2 DEF h
  <2> QED  BY <2>2, <2>3, <2>4
<1>5. \A c \in file_command(61, range_header(f, o, s), Opaque(s), m, FALSE, 0, 0) : WellBuilt(c)
  BY <1>2, <1>3, SilentFileBuilt
<1>6. \A c \in file_command(59, range_header(f, o, s), Opaque(s), m, FALSE, 0, 0) : WellBuilt(c)
  BY <1>2, <1>3, SilentFileBuilt
<1> QED  BY <1>4, <1>5, <1>6 DEF write_data, write_record

\* read_records(), update_record() and clear_record_file().
LEMMA RecordsBuilt ==
    ASSUME NEW f \in Files, NEW o \in Positions, NEW n \in Positions, NEW s \in Nat, NEW m
    PROVE  /\ \A c \in read_records(f, o, n, m, s) : WellBuilt(c)
           /\ \A c \in update_record(f, n, o, s, m) : WellBuilt(c)
           /\ \A c \in clear_record_file(f) : WellBuilt(c)
<1>1. s \in Nat /\ o \in Nat /\ n \in Nat /\ f \in ByteValue
  BY CheckedAssumption
<1>2. 187 \in Ordinary /\ 219 \in Ordinary /\ 235 \in Ordinary
  BY DEF Ordinary
<1>3. \A c \in read_records(f, o, n, m, s) : WellBuilt(c)
  <2>1. read_records(f, o, n, m, s) \in
          {{}, file_command(187, range_header(f, o, n), NoData, m, TRUE, 0, s)}
    BY DEF read_records
  <2>2. s > maximum_logical_response => read_records(f, o, n, m, s) = {}
    BY DEF read_records
  <2>3. range_header(f, o, n) \in Bytes
    BY <1>1, RangeBytes
  <2>4. ASSUME s \in 0..maximum_logical_response
        PROVE  \A c \in file_command(187, range_header(f, o, n), NoData, m, TRUE, 0, s) :
                   WellBuilt(c)
    <3>1. 0 \in 0..s
      BY <2>4, CheckedAssumption
    <3> DEFINE h == range_header(f, o, n)
    <3>2. h \in Bytes /\ 187 \in Ordinary
      BY <1>2, <2>3
    <3> HIDE DEF h
    <3>3. ASSUME NEW c \in file_command(187, h, NoData, m, TRUE, 0, s)
          PROVE  WellBuilt(c)
      BY <2>4, <3>1, <3>2, <3>3, FileBuilt, ZenonT(60)
    <3> QED  BY <3>3 DEF h
  <2>5. s \in 0..maximum_logical_response \/ s > maximum_logical_response
    BY <1>1, CheckedAssumption
  <2> QED  BY <2>1, <2>2, <2>4, <2>5
<1>4. \A c \in update_record(f, n, o, s, m) : WellBuilt(c)
  <2> DEFINE header == <<f>> \o put_le(n, 3) \o put_le(o, 3) \o put_le(s, 3)
  <2>1. <<f>> \in Bytes /\ put_le(n, 3) \in Bytes /\ put_le(o, 3) \in Bytes
        /\ put_le(s, 3) \in Bytes
    BY <1>1, FewBytes, PutBytes
  <2>2. <<f>> \o put_le(n, 3) \in Bytes
    BY <2>1, JoinedBytes
  <2>3. <<f>> \o put_le(n, 3) \o put_le(o, 3) \in Bytes
    BY <2>1, <2>2, JoinedBytes
  <2>4. header \in Bytes
    BY <2>1, <2>3, JoinedBytes
  <2>5. update_record(f, n, o, s, m) \in
          {{}, file_command(219, header, Opaque(s), m, FALSE, 0, 0)}
    BY DEF update_record
  <2> HIDE DEF header
  <2>6. \A c \in file_command(219, header, Opaque(s), m, FALSE, 0, 0) : WellBuilt(c)
    BY <1>2, <2>4, SilentFileBuilt
  <2> QED  BY <2>5, <2>6
<1>5. \A c \in clear_record_file(f) : WellBuilt(c)
  BY <1>1, <1>2, FewBytes, SilentBuilt DEF clear_record_file
<1> QED  BY <1>3, <1>4, <1>5

\* Values and transactions.
LEMMA ValuesBuilt ==
    ASSUME NEW f \in Files, NEW v \in Integers32, NEW m
    PROVE  /\ \A c \in credit(f, v, m) : WellBuilt(c)
           /\ \A c \in debit(f, v, m) : WellBuilt(c)
           /\ \A c \in limited_credit(f, v, m) : WellBuilt(c)
<1>1. 12 \in Ordinary /\ 220 \in Ordinary /\ 28 \in Ordinary
  BY DEF Ordinary
<1>2. <<f>> \in Bytes
  BY CheckedAssumption, FewBytes
<1>3. ASSUME NEW opcode \in Ordinary
      PROVE  \A c \in value_change(opcode, f, v, m) : WellBuilt(c)
  <2>1. \A c \in file_command(opcode, <<f>>, BytesOf(put_le(v, 4)), m, FALSE, 0, 0) : WellBuilt(c)
    BY <1>2, SilentFileBuilt
  <2> QED  BY <2>1 DEF value_change
<1> QED  BY <1>1, <1>3 DEF credit, debit, limited_credit

\* restore_transfer().
LEMMA TransferBuilt ==
    ASSUME NEW f, NEW g, NEW m
    PROVE  \A c \in restore_transfer(f, g, m) : WellBuilt(c)
<1>1. 177 \in Ordinary /\ <<>> \in Bytes
  BY FewBytes DEF Ordinary
<1>2. \A c \in file_command(177, <<>>, BytesOf(<<f, g>>), m, FALSE, 0, 0) : WellBuilt(c)
  BY <1>1, SilentFileBuilt
<1> QED  BY <1>2 DEF restore_transfer

\* A command of which an answer of a bounded size is expected.
LEMMA AnsweredBuilt ==
    ASSUME NEW opcode \in Ordinary, NEW header \in Bytes, NEW maximum \in 0..256,
           NEW minimum \in 0..maximum
    PROVE  WellBuilt(management(opcode, header, minimum, maximum))
<1>1. maximum \in 0..maximum_logical_response
  BY CheckedAssumption
<1> QED  BY <1>1, ManagementBuilt

\* commit_transaction(), abort_transaction() and commit_reader_id().
LEMMA TransactionsBuilt ==
    ASSUME NEW receipt \in BOOLEAN, NEW s
    PROVE  /\ \A c \in commit_transaction(receipt) : WellBuilt(c)
           /\ \A c \in abort_transaction : WellBuilt(c)
           /\ \A c \in commit_reader_id(s) : WellBuilt(c)
<1>1. 199 \in Ordinary /\ 167 \in Ordinary /\ 200 \in Ordinary /\ 12 \in 0..256 /\ 12 \in 0..12
      /\ 16 \in 0..256 /\ 16 \in 0..16 /\ 16 \in Nat
  BY DEF Ordinary
<1>2. << 1 >> \in Bytes /\ <<>> \in Bytes /\ Zeros(16) \in Bytes
  <2>1. 1 \in ByteValue
    BY DEF ByteValue
  <2> QED  BY <1>1, <2>1, FewBytes, ZeroBytes
<1>3. WellBuilt(management(199, << 1 >>, 12, 12)) /\ WellBuilt(management(200, Zeros(16), 16, 16))
  BY <1>1, <1>2, AnsweredBuilt, ZenonT(60)
<1>4. WellBuilt(management(199, <<>>, 0, 0)) /\ WellBuilt(management(167, <<>>, 0, 0))
  BY <1>1, <1>2, SilentBuilt
<1>5. \A c \in commit_reader_id(s) : WellBuilt(c)
  <2>1. ASSUME NEW c, c = [management(200, Zeros(16), 16, 16) EXCEPT !.auth = TRUE]
        PROVE  WellBuilt(c)
    BY <1>1, <1>2, <1>3, <2>1 DEF WellBuilt, Sendable, Secret, ChangesKey, management, mac, plain
  <2> QED  BY <2>1 DEF commit_reader_id
<1> QED  BY <1>3, <1>4, <1>5 DEF commit_transaction, abort_transaction

\* A file command of which an answer of a bounded size is expected.
LEMMA AnsweredFileBuilt ==
    ASSUME NEW opcode \in Ordinary, NEW header \in Bytes, NEW data, NEW mode,
           NEW reading, NEW maximum \in 0..256, NEW minimum \in 0..maximum,
           NEW c \in file_command(opcode, header, data, mode, reading, minimum, maximum)
    PROVE  WellBuilt(c)
<1>1. maximum \in 0..maximum_logical_response
  BY CheckedAssumption
<1> QED  BY <1>1, FileBuilt

\* What every creation of a file begins with.
LEMMA CreationBytes ==
    ASSUME NEW f \in Files, NEW iso \in Optionals({258}), NEW mode, valid_mode(mode), NEW more,
           NEW access \in Rights, valid_access(access), NEW size \in Int
    PROVE  file_creation_prefix(f, iso) \o <<mode + Flag(more, 128)>>
               \o append_access(access) \o put_le(size, 3) \in Bytes
<1>1. <<f>> \in Bytes
  BY CheckedAssumption, FewBytes
<1>2. file_creation_prefix(f, iso) \in Bytes
  <2>1. iso # <<>> => iso[1] = 258 /\ 258 \in Int /\ 2 \in 1..4
    BY DEF Optionals
  <2>2. iso # <<>> => put_le(iso[1], 2) \in Bytes
    BY <2>1, PutBytes
  <2>3. (IF iso = <<>> THEN <<>> ELSE put_le(iso[1], 2)) \in Bytes
    BY <2>2, FewBytes
  <2> QED  BY <1>1, <2>3, JoinedBytes DEF file_creation_prefix
<1>3. <<mode + Flag(more, 128)>> \in Bytes
  BY OptionBytes
<1>4. append_access(access) \in Bytes
  BY CheckedAssumption, RightsBytes
<1>5. put_le(size, 3) \in Bytes
  BY PutBytes
<1>6. file_creation_prefix(f, iso) \o <<mode + Flag(more, 128)>> \in Bytes
  BY <1>2, <1>3, JoinedBytes
<1>7. file_creation_prefix(f, iso) \o <<mode + Flag(more, 128)>> \o append_access(access) \in Bytes
  BY <1>4, <1>6, JoinedBytes
<1> QED  BY <1>5, <1>7, JoinedBytes

\* create_standard_data_file() and create_backup_data_file().
LEMMA DataFileBuilt ==
    ASSUME NEW f \in Files, NEW iso \in Optionals({258}), NEW m, NEW e, NEW a \in Rights,
           NEW n \in Positions, NEW b \in BOOLEAN,
           NEW c \in create_data_file(f, iso, m, e, a, n, b)
    PROVE  WellBuilt(c)
<1> DEFINE header == file_creation_prefix(f, iso) \o <<m + Flag(e, 128)>>
                         \o append_access(a) \o put_le(n, 3)
           opcode == IF b THEN 203 ELSE 205
<1>1. valid_mode(m) /\ valid_access(a) /\ c = management(opcode, header, 0, 0)
  BY DEF create_data_file
<1>2. header \in Bytes
  BY <1>1, CheckedAssumption, CreationBytes
<1>3. opcode \in Ordinary
  BY DEF Ordinary
<1> HIDE DEF header, opcode
<1> QED  BY <1>1, <1>2, <1>3, SilentBuilt

\* create_linear_record_file() and create_cyclic_record_file().
LEMMA RecordFileBuilt ==
    ASSUME NEW f \in Files, NEW iso \in Optionals({258}), NEW m, NEW e, NEW a \in Rights,
           NEW n \in Positions, NEW k \in Positions, NEW b \in BOOLEAN,
           NEW c \in create_record_file(f, iso, m, e, a, n, k, b)
    PROVE  WellBuilt(c)
<1> DEFINE first == file_creation_prefix(f, iso) \o <<m + Flag(e, 128)>>
                        \o append_access(a) \o put_le(n, 3)
           header == first \o put_le(k, 3)
           opcode == IF b THEN 192 ELSE 193
<1>1. valid_mode(m) /\ valid_access(a) /\ c = management(opcode, header, 0, 0)
  BY DEF create_record_file
<1>2. header \in Bytes
  <2>1. first \in Bytes
    BY <1>1, CheckedAssumption, CreationBytes
  <2>2. put_le(k, 3) \in Bytes
    BY CheckedAssumption, PutBytes
  <2> HIDE DEF first
  <2> QED  BY <2>1, <2>2, JoinedBytes
<1>3. opcode \in Ordinary
  BY DEF Ordinary
<1> HIDE DEF header, opcode
<1> QED  BY <1>1, <1>2, <1>3, SilentBuilt

\* create_value_file().
LEMMA ValueFileBuilt ==
    ASSUME NEW f \in Files, NEW m, NEW e, NEW a \in Rights, NEW l \in Integers32,
           NEW u \in Integers32, NEW i \in Integers32, NEW limited, NEW free,
           NEW c \in create_value_file(f, m, e, a, l, u, i, limited, free)
    PROVE  WellBuilt(c)
<1> DEFINE options == <<f, m + Flag(e, 128)>>
           flags   == <<Flag(limited, 1) + Flag(free, 2)>>
           header  == options \o append_access(a) \o put_le(l, 4) \o put_le(u, 4)
                          \o put_le(i, 4) \o flags
<1>1. valid_mode(m) /\ valid_access(a) /\ c = management(204, header, 0, 0)
  BY DEF create_value_file
<1>2. options \in Bytes
  BY <1>1, CheckedAssumption, OptionBytes, FewBytes
<1>3. flags \in Bytes
  <2>1. Flag(limited, 1) + Flag(free, 2) \in ByteValue
    BY DEF Flag, ByteValue
  <2> QED  BY <2>1, FewBytes
<1>4. append_access(a) \in Bytes
  BY <1>1, CheckedAssumption, RightsBytes
<1>5. put_le(l, 4) \in Bytes /\ put_le(u, 4) \in Bytes /\ put_le(i, 4) \in Bytes
  BY CheckedAssumption, PutBytes
<1> HIDE DEF options, flags
<1>6. options \o append_access(a) \in Bytes
  BY <1>2, <1>4, JoinedBytes
<1>7. options \o append_access(a) \o put_le(l, 4) \in Bytes
  BY <1>5, <1>6, JoinedBytes
<1>8. options \o append_access(a) \o put_le(l, 4) \o put_le(u, 4) \in Bytes
  BY <1>5, <1>7, JoinedBytes
<1>9. options \o append_access(a) \o put_le(l, 4) \o put_le(u, 4) \o put_le(i, 4) \in Bytes
  BY <1>5, <1>8, JoinedBytes
<1>10. header \in Bytes
  BY <1>3, <1>9, JoinedBytes
<1>11. 204 \in Ordinary
  BY DEF Ordinary
<1> HIDE DEF header
<1> QED  BY <1>1, <1>10, <1>11, SilentBuilt

\* create_transaction_mac_file(): its key is enciphered, under a session.
LEMMA MacFileBuilt ==
    ASSUME NEW f \in Files, NEW a \in Rights, NEW s, NEW k, NEW version,
           NEW c \in create_transaction_mac_file(f, a, s, k, version)
    PROVE  WellBuilt(c)
<1> DEFINE header == <<f, 0>> \o append_access(a) \o << 2 >>
           data   == [size |-> 17, bytes |-> <<k, version>>]
<1>1. valid_access(a)
      /\ c = [management(206, header, 0, 0) EXCEPT !.data = data, !.req = full, !.auth = TRUE]
  BY DEF create_transaction_mac_file
<1>2. header \in Bytes
  <2>1. <<f, 0>> \in Bytes /\ << 2 >> \in Bytes
    <3>1. 0 \in ByteValue /\ 2 \in ByteValue
      BY DEF ByteValue
    <3> QED  BY <3>1, CheckedAssumption, FewBytes
  <2>2. append_access(a) \in Bytes
    BY <1>1, CheckedAssumption, RightsBytes
  <2>3. <<f, 0>> \o append_access(a) \in Bytes
    BY <2>1, <2>2, JoinedBytes
  <2> QED  BY <2>1, <2>3, JoinedBytes
<1>3. 0 \in 0..0 /\ 0 \in 0..maximum_logical_response
  BY CheckedAssumption
<1> HIDE DEF header, data
<1>4. /\ c.op = 206 /\ c.header = header /\ c.req = full /\ c.res = mac /\ c.auth = TRUE
      /\ c.min = 0 /\ c.max = 0 /\ c.ends = FALSE
  BY <1>1 DEF management
<1> QED
  BY <1>2, <1>3, <1>4 DEF WellBuilt, Sendable, Secret, ChangesKey, plain, mac, full

\* The other commands on one file.
LEMMA FilesBuilt ==
    ASSUME NEW f \in Files, NEW m, NEW a, NEW more, NEW limit
    PROVE  /\ \A c \in delete_file(f) : WellBuilt(c)
           /\ \A c \in get_file_counters(f, m) : WellBuilt(c)
           /\ \A c \in change_file_settings(f, m, a, more, limit, m) : WellBuilt(c)
           /\ \A c \in get_file_settings(f) : WellBuilt(c)
           /\ \A c \in get_value(f, m) : WellBuilt(c)
<1>1. /\ 223 \in Ordinary /\ 246 \in Ordinary /\ 95 \in Ordinary
      /\ 245 \in Ordinary /\ 108 \in Ordinary
  BY DEF Ordinary
<1>2. <<f>> \in Bytes
  BY CheckedAssumption, FewBytes
<1>3. \A c \in delete_file(f) : WellBuilt(c)
  BY <1>1, <1>2, SilentBuilt DEF delete_file
<1>4. \A c \in get_file_counters(f, m) : WellBuilt(c)
  <2>1. 5 \in 0..256 /\ 5 \in 0..5
    OBVIOUS
  <2>2. ASSUME NEW h \in Bytes, NEW size \in 0..256, NEW least \in 0..size,
               NEW c \in file_command(246, h, NoData, m, TRUE, least, size)
        PROVE  WellBuilt(c)
    <3>1. 246 \in Ordinary
      BY <1>1
    <3> QED  BY <3>1, AnsweredFileBuilt, ZenonT(60)
  <2>3. \A c \in get_file_counters(f, m) : c \in file_command(246, <<f>>, NoData, m, TRUE, 5, 5)
    BY DEF get_file_counters
  <2> QED  BY <1>2, <2>1, <2>2, <2>3, Zenon
<1>5. \A c \in get_value(f, m) : WellBuilt(c)
  <2>1. 4 \in 0..256 /\ 4 \in 0..4
    OBVIOUS
  <2>2. ASSUME NEW h \in Bytes, NEW size \in 0..256, NEW least \in 0..size,
               NEW c \in file_command(108, h, NoData, m, TRUE, least, size)
        PROVE  WellBuilt(c)
    <3>1. 108 \in Ordinary
      BY <1>1
    <3> QED  BY <3>1, AnsweredFileBuilt
  <2>3. \A c \in get_value(f, m) : c \in file_command(108, <<f>>, NoData, m, TRUE, 4, 4)
    BY DEF get_value
  <2> QED  BY <1>2, <2>1, <2>2, <2>3, Zenon
<1>6. \A c \in change_file_settings(f, m, a, more, limit, m) : WellBuilt(c)
  <2>1. ASSUME NEW data, NEW c \in file_command(95, <<f>>, data, m, FALSE, 0, 0)
        PROVE  WellBuilt(c)
    BY <1>1, <1>2, <2>1, SilentFileBuilt
  <2>2. ASSUME NEW c \in change_file_settings(f, m, a, more, limit, m)
        PROVE  \E data : c \in file_command(95, <<f>>, data, m, FALSE, 0, 0)
    BY <2>2, ZenonT(60) DEF change_file_settings
  <2> QED  BY <2>1, <2>2
<1>7. WellBuilt(management(245, <<f>>, 6, 128))
  <2>1. 128 \in 0..256 /\ 6 \in 0..128
    OBVIOUS
  <2> QED  BY <1>1, <1>2, <2>1, AnsweredBuilt, ZenonT(60)
<1> QED  BY <1>3, <1>4, <1>5, <1>6, <1>7 DEF get_file_settings

\* The commands that list the files.
LEMMA FileListsBuilt ==
    /\ \A c \in get_iso_file_ids : WellBuilt(c)
    /\ \A c \in get_file_ids : WellBuilt(c)
<1>1. WellBuilt(management(97, <<>>, 0, 64)) /\ WellBuilt(management(111, <<>>, 0, 32))
  <2>1. 64 \in 0..256 /\ 0 \in 0..64 /\ 32 \in 0..256 /\ 0 \in 0..32
    OBVIOUS
  <2>2. 97 \in Ordinary /\ 111 \in Ordinary
    BY DEF Ordinary
  <2> QED  BY <2>1, <2>2, FewBytes, AnsweredBuilt
<1> QED  BY <1>1 DEF get_iso_file_ids, get_file_ids

\* Keys.
LEMMA KeysBuilt ==
    ASSUME NEW set, NEW settings, NEW version
    PROVE  /\ \A c \in get_key_settings : WellBuilt(c)
           /\ \A c \in change_key_settings(settings) : WellBuilt(c)
           /\ \A c \in get_key_set_versions : WellBuilt(c)
           /\ \A c \in initialize_key_set(set) : WellBuilt(c)
           /\ \A c \in finalize_key_set(set, version) : WellBuilt(c)
           /\ \A c \in roll_key_set(set) : WellBuilt(c)
<1>1. /\ 69 \in Ordinary /\ 84 \in Ordinary /\ 100 \in Ordinary /\ 86 \in Ordinary
      /\ 87 \in Ordinary
  BY DEF Ordinary
<1>2. <<>> \in Bytes /\ <<64, 128>> \in Bytes
  <2>1. 64 \in ByteValue /\ 128 \in ByteValue
    BY DEF ByteValue
  <2> QED  BY <2>1, FewBytes
<1>3. WellBuilt(management(69, <<>>, 2, 6)) /\ WellBuilt(management(100, <<64, 128>>, 2, 16))
  <2>1. 6 \in 0..256 /\ 2 \in 0..6 /\ 16 \in 0..256 /\ 2 \in 0..16
    OBVIOUS
  <2> QED  BY <1>1, <1>2, <2>1, AnsweredBuilt
<1>4. \A c \in file_command(84, <<>>, BytesOf(<<settings>>), full, FALSE, 0, 0) : WellBuilt(c)
  BY <1>1, <1>2, SilentFileBuilt
<1>5. ASSUME NEW opcode \in Ordinary, NEW data, NEW c,
             c = [management(opcode, <<>>, 0, 0) EXCEPT !.data = data, !.auth = TRUE]
      PROVE  WellBuilt(c)
  <2>1. WellBuilt(management(opcode, <<>>, 0, 0))
    BY <1>2, SilentBuilt
  <2> QED
    BY <1>5, <2>1 DEF WellBuilt, Sendable, Secret, ChangesKey, management, mac, plain, Ordinary
<1>6. ASSUME NEW data, NEW c,
             c = [management(85, <<>>, 0, 0) EXCEPT !.data = data, !.auth = TRUE, !.ends = TRUE]
      PROVE  WellBuilt(c)
  <2>1. 0 \in 0..0 /\ 0 \in 0..maximum_logical_response
    BY CheckedAssumption
  <2>2. /\ c.op = 85 /\ c.header = <<>> /\ c.req = mac /\ c.res = mac /\ c.auth = TRUE
        /\ c.min = 0 /\ c.max = 0 /\ c.ends = TRUE
    BY <1>6 DEF management
  <2> QED
    BY <1>2, <2>1, <2>2 DEF WellBuilt, Sendable, Secret, ChangesKey, plain, mac, full
<1>7. \A c \in initialize_key_set(set) : WellBuilt(c)
  BY <1>1, <1>5 DEF initialize_key_set
<1>8. \A c \in finalize_key_set(set, version) : WellBuilt(c)
  BY <1>1, <1>5 DEF finalize_key_set
<1>9. \A c \in roll_key_set(set) : WellBuilt(c)
  BY <1>6 DEF roll_key_set
<1> QED
  BY <1>3, <1>4, <1>7, <1>8, <1>9
     DEF get_key_settings, change_key_settings, get_key_set_versions

\* get_key_version(), with a key set and without.
LEMMA KeyVersionBuilt ==
    ASSUME NEW k \in KeyNumbers, NEW set \in Optionals(KeySets),
           NEW c \in get_key_version(k, set)
    PROVE  WellBuilt(c)
<1>1. 100 \in Ordinary /\ 1 \in 0..256 /\ 1 \in 0..1
  BY DEF Ordinary
<1>2. ASSUME NEW h \in Bytes
      PROVE  WellBuilt(management(100, h, 1, 1))
  BY <1>1, AnsweredBuilt
<1>3. k \in 0..63
  BY CheckedAssumption
<1>4. CASE set = <<>>
  <2>1. k \in ByteValue
    BY <1>3 DEF ByteValue
  <2> DEFINE h == <<k>>
  <2>2. h \in Bytes
    BY <2>1, FewBytes
  <2>3. c = management(100, h, 1, 1)
    BY <1>4 DEF get_key_version
  <2> HIDE DEF h
  <2> QED  BY <1>2, <2>2, <2>3
<1>5. CASE set # <<>>
  <2>1. set[1] \in Nat
    BY <1>5, CheckedAssumption DEF Optionals
  <2> DEFINE h == <<k + 64, set[1]>>
  <2>2. ~(set[1] > 15) /\ c = management(100, h, 1, 1)
    BY <1>5 DEF get_key_version
  <2>3. k + 64 \in ByteValue /\ set[1] \in ByteValue
    BY <1>3, <2>1, <2>2 DEF ByteValue
  <2>4. h \in Bytes
    BY <2>3, FewBytes
  <2> HIDE DEF h
  <2> QED  BY <1>2, <2>2, <2>4
<1> QED  BY <1>4, <1>5

\* change_aes_key(): its header names the slot, and it ends the session exactly
\* if that slot is the one of the key the caller says is authenticated.
LEMMA KeyChangeBuilt ==
    ASSUME NEW k \in KeyNumbers, NEW new \in Blocks, NEW auth \in KeyNumbers,
           NEW old \in Optionals(Blocks), NEW set \in Optionals(KeySets),
           NEW master \in BOOLEAN,
           NEW c \in change_aes_key(k, new, 7, auth, old, set, master)
    PROVE  WellBuilt(c) /\ ChangeAsked(c, <<k, SetOf(set), new>>)
<1> DEFINE current == changes_current_key(k, set, auth)
           selector == k + Flag(master, 128)
           header == KeySelector(k, set, master)
           data == IF current THEN [size |-> 17, bytes |-> <<new, 7>>]
                   ELSE [size |-> 21, bytes |-> <<Xor(new, old[1]), 7, crc32(new)>>]
           opcode == IF set = <<>> THEN 196 ELSE 198
<1>1. k \in 0..63 /\ new \in Nat /\ KeySets \subseteq Nat /\ Blocks \subseteq Nat
  BY CheckedAssumption
<1>2. /\ set # <<>> => ~(set[1] > 15)
      /\ master => k = 0
      /\ current <=> old = <<>>
      /\ c = [management(opcode, header, 0, 0) EXCEPT
                 !.data = data, !.req = full, !.res = IF current THEN plain ELSE mac,
                 !.auth = TRUE, !.ends = current, !.key = auth]
  BY DEF change_aes_key
<1>3. selector \in ByteValue /\ selector % 64 = k
  <2>1. master => k = 0
    BY <1>2
  <2>2. selector = IF master THEN k + 128 ELSE k + 0
    BY DEF Flag
  <2> HIDE DEF selector
  <2> QED  BY <1>1, <2>1, <2>2 DEF ByteValue
<1>4. set = <<>> \/ \E n \in KeySets : set = <<n>>
  BY DEF Optionals
<1>5. /\ header \in Bytes /\ header[Len(header)] = selector
      /\ set # <<>> => header[1] = set[1]
  <2> HIDE DEF selector
  <2>1. header = set \o <<selector>>
    BY DEF KeySelector, selector
  <2> HIDE DEF header
  <2>2. CASE set = <<>>
    <3>1. header = <<selector>>
      BY <2>1, <2>2
    <3> QED  BY <1>3, <2>2, <3>1, FewBytes
  <2>3. CASE set # <<>>
    <3>1. PICK n \in KeySets : set = <<n>>
      BY <1>4, <2>3
    <3>2. n \in ByteValue
      <4>1. ~(n > 15) /\ n \in Nat
        BY <1>1, <1>2, <2>3, <3>1
      <4> QED  BY <4>1 DEF ByteValue
    <3>3. header = <<n>> \o <<selector>>
      BY <2>1, <3>1
    <3>4. header \in Bytes /\ header[1] = n /\ header[Len(header)] = selector
      BY <1>3, <3>2, <3>3, ShortJoin
    <3> QED  BY <3>1, <3>4
  <2> QED  BY <2>2, <2>3
<1>6. data.bytes[1] \in Nat /\ data.bytes[2] = 7
      /\ \/ current /\ data.size = 17 /\ data.bytes[1] = new
         \/ ~current /\ data.size = 21 /\ data.bytes[3] = crc32(new)
  <2>1. CASE current
    BY <1>1, <2>1
  <2>2. CASE ~current
    <3>1. old[1] \in Nat
      BY <1>1, <1>2, <2>2 DEF Optionals
    <3>2. Xor(new, old[1]) \in Nat
      <4>1. PICK b \in Nat : b = old[1]
        BY <3>1
      <4>2. Bit(new, 1) \in 0..1 /\ Bit(b, 1) \in 0..1
        BY <1>1 DEF Bit, BitWeight
      <4>3. (Bit(new, 1) + Bit(b, 1)) % 2 \in 0..1 /\ (new + b) % 2 \in 0..1
        BY <1>1, <4>2
      <4> QED  BY <4>1, <4>3 DEF Xor
    <3> QED  BY <2>2, <3>2
  <2> QED  BY <2>1, <2>2
<1>7. current \in BOOLEAN
  BY DEF changes_current_key
<1>8. current <=> k = auth /\ SetOf(set) = 0
  BY DEF changes_current_key
<1>9. set # <<>> => SetOf(set) = set[1]
  BY DEF SetOf
<1>10. set = <<>> => SetOf(set) = 0
  BY DEF SetOf
<1> HIDE DEF current, header, data, selector
<1>11. /\ c.op = opcode /\ c.header = header /\ c.data = data /\ c.req = full
       /\ c.res = (IF current THEN plain ELSE mac) /\ c.auth = TRUE /\ c.ends = current
       /\ c.key = auth /\ c.min = 0 /\ c.max = 0
  BY <1>2 DEF management
<1>12. opcode \in {196, 198} /\ (opcode = 198 <=> set # <<>>)
  OBVIOUS
<1> HIDE DEF opcode
<1>13. ChangesKey(c)
  BY <1>11, <1>12 DEF ChangesKey
<1>14. Slot(c) = <<SetOf(set), k>>
  BY <1>3, <1>5, <1>9, <1>10, <1>11, <1>12 DEF Slot
<1>15. c.ends <=> Slot(c) = <<0, c.key>>
  BY <1>8, <1>11, <1>14
<1>16. Sendable(c)
  <2>1. 0 \in 0..0 /\ 0 \in 0..maximum_logical_response
    BY CheckedAssumption
  <2> QED  BY <1>7, <1>11, <2>1 DEF Sendable, plain, mac, full
<1>17. WellBuilt(c)
  <2>1. c.op # 85
    BY <1>11, <1>12
  <2> QED  BY <1>5, <1>11, <1>13, <1>15, <1>16, <2>1 DEF WellBuilt
<1>18. ChangeAsked(c, <<k, SetOf(set), new>>)
  BY <1>1, <1>6, <1>11, <1>13, <1>14 DEF ChangeAsked
<1> QED  BY <1>17, <1>18

LEMMA SegmentsOfIntegers == \A n \in Nat : 0..n \subseteq Int
OBVIOUS

LEMMA WordIsNatural == 65535 \in Nat
OBVIOUS

LEMMA WordsAreIntegers == \A w \in WordValue : w \in Int
<1>1. 0..65535 \subseteq Int
  BY SegmentsOfIntegers, WordIsNatural, SMT
<1>2. WordValue \subseteq Int
  BY <1>1, SMT DEF WordValue
<1> QED  BY <1>2

\* Applications.
LEMMA TailBytes ==
    ASSUME NEW c \in AppConfigs, NEW tail \in application_tail(c)
    PROVE  tail \in Bytes
<1> DEFINE Sets == {<<>>} \cup (ByteValue \X ByteValue \X ByteValue \X ByteValue)
           Configurations ==
               [id : Nat, settings : ByteValue, keys : Nat, third : Optionals(ByteValue),
                sets : Sets, iso : Optionals(WordValue), name : Nat, files : BOOLEAN]
<1>1. ApplicationConfiguration = Configurations
  BY SMT DEF ApplicationConfiguration
<1>2. /\ c.id \in Nat /\ c.settings \in ByteValue /\ c.keys \in Nat
      /\ c.third \in Optionals(ByteValue)
      /\ c.sets \in Sets /\ c.iso \in Optionals(WordValue) /\ c.name \in Nat
  <2> HIDE DEF Configurations
  <2>1. c \in Configurations
    BY <1>1, CheckedAssumption
  <2> HIDE DEF Sets
  <2> QED  BY <2>1 DEF Configurations
<1> HIDE DEF Configurations
<1> HIDE DEF Sets
<1> DEFINE third == IF c.third = <<>> THEN 0 ELSE c.third[1]
           has3  == c.third # <<>> \/ c.sets # <<>>
           even  == c.sets # <<>> /\ Bit(third, 0) = 0
           head  == <<c.settings, 128 + c.keys + Flag(c.files, 32) + Flag(has3, 16)>>
           other == IF has3 THEN <<third + Flag(even, 1)>> ELSE <<>>
           iso   == IF c.iso = <<>> THEN <<>> ELSE put_le(c.iso[1], 2)
<1>3. /\ ~(c.keys < 1 \/ c.keys > 14)
      /\ tail = head \o other \o c.sets \o iso \o Zeros(c.name)
  BY Zenon DEF application_tail
<1> HIDE DEF third, has3, even, head, other, iso
<1>4. head \in Bytes
  <2>1. PICK n \in 1..14 : n = c.keys
    <3>1. c.keys \in Nat
      BY <1>2
    <3>2. ~(c.keys < 1 \/ c.keys > 14)
      BY <1>3
    <3>3. c.keys \in 1..14
      BY <3>1, <3>2
    <3> QED  BY <3>3
  <2>2. PICK x \in 0..32 : x = Flag(c.files, 32)
    BY DEF Flag
  <2>3. PICK y \in 0..16 : y = Flag(has3, 16)
    BY DEF Flag
  <2>4. PICK z \in ByteValue : z = 128 + n + x + y
    BY DEF ByteValue
  <2>5. head = <<c.settings, z>>
    BY <2>1, <2>2, <2>3, <2>4 DEF head
  <2> QED  BY <1>2, <2>4, <2>5, FewBytes
<1>5. other \in Bytes
  <2>1. PICK t \in 0..255 : t = third
    <3>1. c.third = <<>> \/ \E x \in ByteValue : c.third = <<x>>
      BY <1>2 DEF Optionals
    <3>2. c.third = <<>> => third = 0
      BY DEF third
    <3>3. \A x \in ByteValue : c.third = <<x>> => third = x
      BY DEF third
    <3>4. third \in ByteValue
      <4>1. 0 \in ByteValue
        BY DEF ByteValue
      <4> HIDE DEF third
      <4> QED  BY <3>1, <3>2, <3>3, <4>1
    <3> QED  BY <3>4 DEF ByteValue
  <2>2. even => t % 2 = 0
    <3>1. even => Bit(t, 0) = 0
      BY <2>1 DEF even
    <3> QED  BY <3>1 DEF Bit, BitWeight
  <2>3. PICK z \in ByteValue : z = t + Flag(even, 1)
    <3>1. t + (IF even THEN 1 ELSE 0) \in ByteValue
      BY <2>2 DEF ByteValue
    <3> QED  BY <3>1 DEF Flag
  <2>4. other \in {<<>>, <<z>>}
    BY <2>1, <2>3 DEF other
  <2> QED  BY <2>3, <2>4, FewBytes
<1>6. c.sets \in Bytes
  <2>1. PICK s \in Sets : s = c.sets
    BY <1>2
  <2>2. s = <<>> \/ s \in ByteValue \X ByteValue \X ByteValue \X ByteValue
    BY DEF Sets
  <2>3. CASE s = <<>>
    BY <2>1, <2>3, FewBytes
  <2>4. CASE s \in ByteValue \X ByteValue \X ByteValue \X ByteValue
    <3>1. PICK a1 \in ByteValue, a2 \in ByteValue, a3 \in ByteValue, a4 \in ByteValue :
              s = <<a1, a2, a3, a4>>
      BY <2>4
    <3>2. <<a1, a2, a3, a4>> \in Bytes
      BY FewBytes
    <3> QED  BY <2>1, <3>1, <3>2
  <2> QED  BY <2>2, <2>3, <2>4
<1>7. iso \in Bytes
  <2>1. c.iso = <<>> \/ \E x \in WordValue : c.iso = <<x>>
    <3>1. c.iso \in Optionals(WordValue)
      BY <1>2
    <3> HIDE DEF iso
    <3> QED  BY <3>1 DEF Optionals
  <2>2. CASE c.iso = <<>>
    BY <2>2, FewBytes DEF iso
  <2>3. ASSUME NEW x \in WordValue, c.iso = <<x>>
        PROVE  iso \in Bytes
    <3>1. x \in Int
      BY WordsAreIntegers
    <3>2. iso = put_le(x, 2)
      <4>1. c.iso # <<>> /\ c.iso[1] = x
        BY <2>3
      <4> QED  BY <4>1, Zenon DEF iso
    <3>3. 2 \in 1..4
      OBVIOUS
    <3> QED  BY <3>1, <3>2, <3>3, PutBytes
  <2> QED  BY <2>1, <2>2, <2>3
<1>8. Zeros(c.name) \in Bytes
  <2>1. PICK n \in Nat : n = c.name
    BY <1>2
  <2> QED  BY <2>1, ZeroBytes
<1>9. head \o other \in Bytes
  BY <1>4, <1>5, JoinedBytes
<1>10. head \o other \o c.sets \in Bytes
  BY <1>6, <1>9, JoinedBytes
<1>11. head \o other \o c.sets \o iso \in Bytes
  BY <1>7, <1>10, JoinedBytes
<1>12. head \o other \o c.sets \o iso \o Zeros(c.name) \in Bytes
  BY <1>8, <1>11, JoinedBytes
<1> QED  BY <1>3, <1>12

\* create_application() and create_delegated_application().
LEMMA CreationBuilt ==
    ASSUME NEW c \in AppConfigs, NEW k, NEW p
    PROVE  /\ \A m \in create_application(c) : WellBuilt(m)
           /\ \A m \in create_delegated_application(c, 513, 3, 300, k, p) : WellBuilt(m)
<1> DEFINE Sets == {<<>>} \cup (ByteValue \X ByteValue \X ByteValue \X ByteValue)
           Configurations ==
               [id : Nat, settings : ByteValue, keys : Nat, third : Optionals(ByteValue),
                sets : Sets, iso : Optionals(WordValue), name : Nat, files : BOOLEAN]
<1>1. c.id \in Int
  <2>1. ApplicationConfiguration = Configurations
    BY SMT DEF ApplicationConfiguration
  <2> HIDE DEF Configurations
  <2>2. c \in Configurations
    BY <2>1, CheckedAssumption
  <2> HIDE DEF Sets
  <2>3. c.id \in Nat
    BY <2>2 DEF Configurations
  <2> QED  BY <2>3
<1>2. put_le(c.id, 3) \in Bytes /\ put_le(513, 2) \in Bytes /\ put_le(300, 2) \in Bytes
  BY <1>1, PutBytes
<1>3. 202 \in Ordinary /\ 201 \in Ordinary
  BY DEF Ordinary
<1>4. ASSUME NEW m \in create_application(c)
      PROVE  WellBuilt(m)
  <2>1. PICK tail \in application_tail(c) : m = management(202, put_le(c.id, 3) \o tail, 0, 0)
    BY <1>4 DEF create_application
  <2>2. put_le(c.id, 3) \o tail \in Bytes
    BY <1>2, TailBytes, JoinedBytes
  <2> QED  BY <1>3, <2>1, <2>2, SilentBuilt
<1>5. ASSUME NEW m \in create_delegated_application(c, 513, 3, 300, k, p)
      PROVE  WellBuilt(m)
  <2> DEFINE header(tail) == put_le(c.id, 3) \o put_le(513, 2) \o << 3 >> \o put_le(300, 2) \o tail
  <2>1. PICK tail \in application_tail(c) :
            m = [management(201, header(tail), 0, 0) EXCEPT
                    !.data = Opaque(40), !.auth = TRUE, !.ev2 = TRUE, !.picc = TRUE,
                    !.single = TRUE, !.key = 16, !.first = Len(header(tail))]
    BY <1>5, ZenonT(60) DEF create_delegated_application
  <2>2. header(tail) \in Bytes
    <3>1. << 3 >> \in Bytes
      <4>1. 3 \in ByteValue
        BY DEF ByteValue
      <4> QED  BY <4>1, FewBytes
    <3>2. tail \in Bytes
      BY TailBytes
    <3>3. put_le(c.id, 3) \o put_le(513, 2) \in Bytes
      BY <1>2, JoinedBytes
    <3>4. put_le(c.id, 3) \o put_le(513, 2) \o << 3 >> \in Bytes
      BY <3>1, <3>3, JoinedBytes
    <3>5. put_le(c.id, 3) \o put_le(513, 2) \o << 3 >> \o put_le(300, 2) \in Bytes
      BY <1>2, <3>4, JoinedBytes
    <3> QED  BY <3>2, <3>5, JoinedBytes
  <2>3. PICK h \in Bytes : h = header(tail)
    BY <2>2
  <2> HIDE DEF header
  <2>4. WellBuilt(management(201, h, 0, 0))
    BY <1>3, SilentBuilt
  <2>5. m = [management(201, h, 0, 0) EXCEPT
                    !.data = Opaque(40), !.auth = TRUE, !.ev2 = TRUE, !.picc = TRUE,
                    !.single = TRUE, !.key = 16, !.first = Len(h)]
    BY <2>1, <2>3
  <2> QED
    BY <2>4, <2>5 DEF WellBuilt, Sendable, Secret, ChangesKey, management, mac, plain
<1> QED  BY <1>4, <1>5

\* The other commands on applications.
LEMMA ApplicationsBuilt ==
    ASSUME NEW a \in Ids, NEW p
    PROVE  /\ \A c \in get_application_ids : WellBuilt(c)
           /\ \A c \in get_df_names : WellBuilt(c)
           /\ \A c \in get_delegated_application_info(513) : WellBuilt(c)
           /\ \A c \in delete_application(a) : WellBuilt(c)
           /\ \A c \in delete_delegated_application(a, p) : WellBuilt(c)
<1>1. 106 \in Ordinary /\ 109 \in Ordinary /\ 105 \in Ordinary /\ 218 \in Ordinary
  BY DEF Ordinary
<1>2. /\ <<>> \in Bytes /\ put_le(513, 2) \in Bytes /\ put_le(a, 3) \in Bytes
      /\ Zeros(8) \in Bytes
  BY CheckedAssumption, FewBytes, PutBytes, ZeroBytes
<1>3. WellBuilt(management(106, <<>>, 0, maximum_logical_response))
      /\ WellBuilt(management(109, <<>>, 0, maximum_logical_response))
  <2>1. PICK top : top = maximum_logical_response
    OBVIOUS
  <2>2. top \in 0..maximum_logical_response /\ 0 \in 0..top
    BY <2>1, CheckedAssumption
  <2>3. WellBuilt(management(106, <<>>, 0, top)) /\ WellBuilt(management(109, <<>>, 0, top))
    BY <1>1, <1>2, <2>2, ManagementBuilt
  <2> QED  BY <2>1, <2>3
<1>4. ASSUME NEW c, c = [management(105, put_le(513, 2), 8, 8) EXCEPT !.picc = TRUE]
      PROVE  WellBuilt(c)
  <2>1. 8 \in 0..256 /\ 8 \in 0..8
    OBVIOUS
  <2>2. WellBuilt(management(105, put_le(513, 2), 8, 8))
    BY <1>1, <1>2, <2>1, AnsweredBuilt, ZenonT(60)
  <2> QED
    BY <1>4, <2>2 DEF WellBuilt, Sendable, Secret, ChangesKey, management, mac, plain
<1>5. WellBuilt(management(218, put_le(a, 3), 0, 0))
  BY <1>1, <1>2, SilentBuilt
<1>6. ASSUME NEW c, c = [management(218, put_le(a, 3) \o Zeros(8), 0, 0) EXCEPT
                            !.auth = TRUE, !.picc = TRUE, !.keys = {16, 24}]
      PROVE  WellBuilt(c)
  <2>1. PICK h \in Bytes : h = put_le(a, 3) \o Zeros(8)
    BY <1>2, JoinedBytes
  <2>2. WellBuilt(management(218, h, 0, 0))
    BY <1>1, SilentBuilt
  <2>3. c = [management(218, h, 0, 0) EXCEPT !.auth = TRUE, !.picc = TRUE, !.keys = {16, 24}]
    BY <1>6, <2>1
  <2> QED
    BY <2>2, <2>3 DEF WellBuilt, Sendable, Secret, ChangesKey, management, mac, plain
<1>7. \A c \in delete_application(a) : WellBuilt(c)
  BY <1>5 DEF delete_application
<1>8. \A c \in delete_delegated_application(a, p) : WellBuilt(c)
  BY <1>6 DEF delete_delegated_application
<1> QED
  BY <1>3, <1>4, <1>7, <1>8
     DEF get_application_ids, get_df_names, get_delegated_application_info

\* SetConfiguration and the other commands of the card itself.
LEMMA ConfigurationBuilt ==
    ASSUME NEW selector \in ByteValue, NEW data, NEW c \in configuration(selector, data)
    PROVE  WellBuilt(c)
<1>1. <<selector>> \in Bytes
  BY FewBytes
<1>2. 0 \in 0..0 /\ 0 \in 0..maximum_logical_response
  BY CheckedAssumption
<1>3. /\ c.op = 92 /\ c.header = <<selector>> /\ c.req = full /\ c.res = mac /\ c.auth = TRUE
      /\ c.min = 0 /\ c.max = 0 /\ c.ends = FALSE
  BY ZenonT(60) DEF configuration, management
<1> QED
  BY <1>1, <1>2, <1>3 DEF WellBuilt, Sendable, Secret, ChangesKey, plain, mac, full

\* The options of SetConfiguration that the SDK knows; one of them carries a key.
LEMMA ConfigurationsBuilt ==
    ASSUME NEW flags, NEW s, NEW k, NEW n
    PROVE  /\ \A c \in set_picc_configuration(flags) : WellBuilt(c)
           /\ \A c \in set_capability_configuration : WellBuilt(c)
           /\ \A c \in set_default_aes_key(s, k, 7) : WellBuilt(c)
           /\ \A c \in set_ats(s, n) : WellBuilt(c)
<1>1. 0 \in ByteValue /\ 5 \in ByteValue /\ 1 \in ByteValue /\ 2 \in ByteValue
  BY DEF ByteValue
<1>2. ASSUME NEW selector \in ByteValue, NEW data
      PROVE  \A c \in configuration(selector, data) : WellBuilt(c)
  BY ConfigurationBuilt
<1>3. \A c \in set_picc_configuration(flags) : WellBuilt(c)
  BY <1>1, <1>2, Zenon DEF set_picc_configuration
<1>4. \A c \in set_capability_configuration : WellBuilt(c)
  BY <1>1, <1>2, Zenon DEF set_capability_configuration
<1>5. \A c \in set_default_aes_key(s, k, 7) : WellBuilt(c)
  BY <1>1, <1>2, Zenon DEF set_default_aes_key
<1>6. \A c \in set_ats(s, n) : WellBuilt(c)
  BY <1>1, <1>2, Zenon DEF set_ats
<1> QED  BY <1>3, <1>4, <1>5, <1>6

\* set_atqa().
LEMMA AtqaBuilt ==
    ASSUME NEW atqa, NEW c \in set_atqa(atqa)
    PROVE  WellBuilt(c)
<1>1. 12 \in ByteValue
  BY DEF ByteValue
<1> QED  BY <1>1, ConfigurationBuilt DEF set_atqa

\* The commands of the card itself.
LEMMA CardBuilt ==
    ASSUME NEW r \in UidRequests
    PROVE  /\ \A c \in get_version : WellBuilt(c)
           /\ \A c \in free_memory : WellBuilt(c)
           /\ \A c \in get_card_uid(r) : WellBuilt(c)
           /\ \A c \in read_originality_signature : WellBuilt(c)
           /\ \A c \in format_picc : WellBuilt(c)
<1>1. /\ 96 \in Ordinary /\ 110 \in Ordinary /\ 81 \in Ordinary /\ 60 \in Ordinary
      /\ 252 \in Ordinary
  BY DEF Ordinary
<1>2. <<>> \in Bytes /\ << 0 >> \in Bytes /\ << 1 >> \in Bytes
  <2>1. 0 \in ByteValue /\ 1 \in ByteValue
    BY DEF ByteValue
  <2> QED  BY <2>1, FewBytes
<1>3. WellBuilt(management(96, <<>>, 28, 28)) /\ WellBuilt(management(110, <<>>, 3, 3))
      /\ WellBuilt(management(60, << 0 >>, 56, 56)) /\ WellBuilt(management(252, <<>>, 0, 0))
  <2>1. /\ 28 \in 0..256 /\ 28 \in 0..28 /\ 3 \in 0..256 /\ 3 \in 0..3
        /\ 56 \in 0..256 /\ 56 \in 0..56
    OBVIOUS
  <2> QED  BY <1>1, <1>2, <2>1, AnsweredBuilt, SilentBuilt, ZenonT(60)
<1>4. \A c \in get_card_uid(r) : WellBuilt(c)
  <2> DEFINE more == Flag(r = "with_nuid", 4)
             header == CASE r = "omit_option" -> <<>> [] r = "without_nuid" -> << 0 >>
                         [] r = "with_nuid" -> << 1 >>
  <2>1. header \in Bytes
    BY <1>2 DEF UidRequests
  <2>2. more \in {0, 4}
    BY DEF Flag
  <2>3. \A c \in get_card_uid(r) :
            c \in file_command(81, header, NoData, full, TRUE, 6 + more, 12 + more)
    BY DEF get_card_uid
  <2> HIDE DEF more, header
  <2>4. PICK least \in 0..256, most \in 0..256 :
            least = 6 + more /\ most = 12 + more /\ least \in 0..most
    <3>1. CASE more = 0
      <4>1. 6 \in 0..256 /\ 12 \in 0..256 /\ 6 = 6 + more /\ 12 = 12 + more /\ 6 \in 0..12
        BY <3>1
      <4> QED  BY <4>1, ZenonT(60)
    <3>2. CASE more = 4
      <4>1. 10 \in 0..256 /\ 16 \in 0..256 /\ 10 = 6 + more /\ 16 = 12 + more /\ 10 \in 0..16
        BY <3>2
      <4> QED  BY <4>1, ZenonT(60)
    <3> QED  BY <2>2, <3>1, <3>2
  <2>5. ASSUME NEW c \in file_command(81, header, NoData, full, TRUE, least, most)
        PROVE  WellBuilt(c)
    <3>1. 81 \in Ordinary
      BY <1>1
    <3> QED  BY <2>1, <2>4, <2>5, <3>1, AnsweredFileBuilt
  <2> QED  BY <2>3, <2>4, <2>5
<1>5. \A c \in read_originality_signature : WellBuilt(c)
  <2>1. ASSUME NEW c, c = [management(60, << 0 >>, 56, 56) EXCEPT !.res = full]
        PROVE  WellBuilt(c)
    BY <1>3, <2>1
       DEF WellBuilt, Sendable, Secret, ChangesKey, management, mac, plain, full, Ordinary
  <2> QED  BY <2>1 DEF read_originality_signature
<1>6. \A c \in format_picc : WellBuilt(c)
  <2>1. ASSUME NEW c, c = [management(252, <<>>, 0, 0) EXCEPT !.auth = TRUE]
        PROVE  WellBuilt(c)
    BY <1>3, <2>1
       DEF WellBuilt, Sendable, Secret, ChangesKey, management, mac, plain, full
  <2> QED  BY <2>1 DEF format_picc
<1> QED  BY <1>3, <1>4, <1>5, <1>6 DEF get_version, free_memory

\* The state of the checked layer.
Sessions == Families \cup {NoSession}
KeyStates == KeyNumbers \cup {NoKey}
HostStates ==
    [usable : BOOLEAN, session : Sessions, key : KeyStates, app : Ids \cup {Nowhere}]

CheckedFields ==
    /\ host \in HostStates
    /\ card = [session |-> card.session, key |-> card.key, app |-> card.app, slot |-> card.slot]
    /\ card.session \in Sessions /\ card.key \in KeyStates
    /\ call = [phase |-> call.phase, name |-> call.name, asked |-> call.asked,
               command |-> call.command, stored |-> call.stored]
    /\ call.phase \in {"idle", "built", "sent", "answered", "returned"}
    /\ WellBuilt(call.command) /\ call.stored \in Nat
    /\ reply.kind \in {"none", "lost", "rejected", "answer"}
    /\ result.ok \in BOOLEAN
    /\ result.outcome \in {"none", "not_sent", "unknown", "rejected", "succeeded"}

Answered == call.phase = "answered" /\ reply.kind = "answer"

SameSession == host.session = card.session /\ host.key = card.key

NewKeyStored == card.slot = <<call.asked[2], call.asked[1], call.asked[3], 7>>

\* A command that is on its way was admitted, a key change is the one asked for,
\* and an answer that came is not trusted before it is read.
CheckedProgress ==
    /\ call.phase \in {"built", "sent", "answered"} /\ call.name = "change_aes_key" =>
           ChangeAsked(call.command, call.asked)
    /\ call.phase \in {"sent", "answered"} =>
           /\ host.usable
           /\ call.command.auth => host.session # NoSession
           /\ call.command.key # NoKey => call.command.key = host.key
    /\ call.phase = "answered" => reply.kind \in {"lost", "rejected", "answer"}
    /\ result.ok => call.phase = "returned"

\* The two sides hold one session except while an answer is on its way that ends
\* it, or never comes; they never differ about the application.
CheckedAgreement ==
    /\ host.usable => host.app = card.app
    /\ host.usable /\ host.session # NoSession
            /\ (call.phase # "answered" \/ (reply.kind = "answer" /\ ~call.command.ends))
        => SameSession

CheckedKeyChange ==
    call.name = "change_aes_key" /\ (Answered \/ result.ok) => NewKeyStored

CheckedInv == CheckedFields /\ CheckedProgress /\ CheckedAgreement /\ CheckedKeyChange

\* The invariant holds at the start.
LEMMA NoCommandBuilt == WellBuilt(NoCommand)
<1>1. 0 \in Ordinary
  BY DEF Ordinary
<1> QED  BY <1>1, FewBytes, SilentBuilt DEF NoCommand

\* A Card that has just been connected satisfies the invariant.
LEMMA CheckedStart ==
    ASSUME Init
    PROVE  CheckedInv
<1>1. Connected \in HostStates
  BY CheckedAssumption DEF Connected, HostStates, Sessions, KeyStates
<1>2. CheckedFields
  BY <1>1, NoCommandBuilt
     DEF CheckedFields, Init, NoCall, NoReply, NoResult, Sessions, KeyStates
<1>3. CheckedProgress
  BY DEF CheckedProgress, Init, NoCall, NoReply, NoResult
<1>4. CheckedAgreement
  BY DEF CheckedAgreement, Init, Connected
<1>5. CheckedKeyChange
  BY DEF CheckedKeyChange, Init, NoCall
<1> QED  BY <1>2, <1>3, <1>4, <1>5 DEF CheckedInv

\* run(): a command that could not be built is returned, any other one waits to be
\* admitted; neither host nor card has changed.
LEMMA AskKeeps ==
    ASSUME CheckedInv, Idle, NEW name, NEW asked, NEW built, NEW stored \in Nat,
           \A c \in built : WellBuilt(c),
           name = "change_aes_key" => \A c \in built : ChangeAsked(c, asked),
           AskStored(name, asked, built, stored)
    PROVE  CheckedInv'
<1>1. CASE built = {}
  <2>1. /\ call' = [NoCall EXCEPT !.name = name, !.phase = "returned"]
        /\ result' = [ok |-> FALSE, outcome |-> "not_sent", value |-> <<>>]
        /\ UNCHANGED <<host, card, reply, heard>>
    BY <1>1 DEF AskStored
  <2>2. /\ call'.phase = "returned" /\ call'.command = NoCommand /\ call'.stored = 0
        /\ call' = [phase |-> call'.phase, name |-> call'.name, asked |-> call'.asked,
                    command |-> call'.command, stored |-> call'.stored]
        /\ ~result'.ok /\ result'.outcome = "not_sent" /\ result'.ok \in BOOLEAN
    BY <2>1 DEF NoCall
  <2>3. CheckedFields'
    BY <2>1, <2>2, NoCommandBuilt DEF CheckedInv, CheckedFields
  <2>4. CheckedProgress'
    BY <2>2 DEF CheckedProgress
  <2>5. CheckedAgreement'
    BY <2>1, <2>2 DEF CheckedInv, CheckedAgreement, SameSession, Idle
  <2>6. CheckedKeyChange'
    BY <2>2 DEF CheckedKeyChange, Answered
  <2> QED  BY <2>3, <2>4, <2>5, <2>6 DEF CheckedInv
<1>2. CASE built # {}
  <2>1. PICK c \in built :
            call' = [phase |-> "built", name |-> name, asked |-> asked, command |-> c,
                     stored |-> stored]
    BY <1>2 DEF AskStored
  <2>2. result' = NoResult /\ UNCHANGED <<host, card, reply, heard>>
    BY <1>2 DEF AskStored
  <2>3. /\ call'.phase = "built" /\ call'.command = c /\ call'.stored = stored
        /\ call'.name = name /\ call'.asked = asked
        /\ call' = [phase |-> call'.phase, name |-> call'.name, asked |-> call'.asked,
                    command |-> call'.command, stored |-> call'.stored]
        /\ ~result'.ok /\ result'.outcome = "none" /\ result'.ok \in BOOLEAN
    BY <2>1, <2>2 DEF NoResult
  <2>4. CheckedFields'
    BY <2>2, <2>3 DEF CheckedInv, CheckedFields
  <2>5. CheckedProgress'
    BY <2>3 DEF CheckedProgress
  <2>6. CheckedAgreement'
    BY <2>2, <2>3 DEF CheckedInv, CheckedAgreement, SameSession, Idle
  <2>7. CheckedKeyChange'
    BY <2>3 DEF CheckedKeyChange, Answered
  <2> QED  BY <2>4, <2>5, <2>6, <2>7 DEF CheckedInv
<1> QED  BY <1>1, <1>2

\* Of any operation but a key change.
LEMMA OrdinaryAsk ==
    ASSUME CheckedInv, Idle, NEW name, name # "change_aes_key", NEW asked, NEW built,
           \A c \in built : WellBuilt(c), Ask(name, asked, built)
    PROVE  CheckedInv'
BY AskKeeps DEF Ask

\* The caller's own steps: taking a result, selecting, authenticating.
LEMMA TakeKeeps ==
    ASSUME CheckedInv, Take
    PROVE  CheckedInv'
<1>1. /\ call.phase = "returned" /\ call' = NoCall /\ reply' = NoReply /\ result' = NoResult
      /\ card' = [card EXCEPT !.slot = NoSlot] /\ host' = host
  BY DEF Take
<1>2. /\ card' = [session |-> card.session, key |-> card.key, app |-> card.app, slot |-> NoSlot]
  BY <1>1 DEF CheckedInv, CheckedFields
<1>3. CheckedFields'
  BY <1>1, <1>2, NoCommandBuilt DEF CheckedInv, CheckedFields, NoCall, NoReply, NoResult
<1>4. CheckedProgress'
  BY <1>1 DEF CheckedProgress, NoCall, NoReply, NoResult
<1>5. CheckedAgreement'
  BY <1>1, <1>2 DEF CheckedInv, CheckedAgreement, SameSession, NoCall
<1>6. CheckedKeyChange'
  BY <1>1 DEF CheckedKeyChange, NoCall
<1> QED  BY <1>3, <1>4, <1>5, <1>6 DEF CheckedInv

\* A selection ends the sessions of both sides.
LEMMA SelectKeeps ==
    ASSUME CheckedInv, NEW app \in Ids, Select(app)
    PROVE  CheckedInv'
<1>1. /\ call.phase = "idle" /\ UNCHANGED <<call, reply, result>>
      /\ host' = [usable |-> TRUE, session |-> NoSession, key |-> NoKey, app |-> app]
      /\ card' = [session |-> NoSession, key |-> NoKey, app |-> app, slot |-> NoSlot]
  BY DEF Select, Idle, Connected
<1>2. host' \in HostStates
  BY <1>1 DEF HostStates, Sessions, KeyStates
<1>3. CheckedFields'
  BY <1>1, <1>2 DEF CheckedInv, CheckedFields, Sessions, KeyStates
<1>4. CheckedProgress'
  BY <1>1 DEF CheckedInv, CheckedProgress
<1>5. CheckedAgreement'
  BY <1>1 DEF CheckedAgreement
<1>6. CheckedKeyChange'
  BY <1>1 DEF CheckedInv, CheckedProgress, CheckedKeyChange, Answered
<1> QED  BY <1>3, <1>4, <1>5, <1>6 DEF CheckedInv

\* A completed handshake gives both sides the same session.
LEMMA AuthenticateKeeps ==
    ASSUME CheckedInv, NEW family \in Families, NEW key \in KeyNumbers,
           Authenticate(family, key)
    PROVE  CheckedInv'
<1>1. /\ call.phase = "idle" /\ UNCHANGED <<call, reply, result>> /\ host.usable
      /\ host' = [host EXCEPT !.session = family, !.key = key]
      /\ card' = [card EXCEPT !.session = family, !.key = key]
  BY DEF Authenticate, Idle
<1>2. host' \in HostStates /\ host'.session = family /\ host'.key = key /\ host'.app = host.app
  <2>1. host \in HostStates /\ family \in Sessions /\ key \in KeyStates
    BY DEF CheckedInv, CheckedFields, Sessions, KeyStates
  <2> QED  BY <1>1, <2>1 DEF HostStates
<1>3. card' = [session |-> family, key |-> key, app |-> card.app, slot |-> card.slot]
  BY <1>1 DEF CheckedInv, CheckedFields
<1>4. CheckedFields'
  BY <1>1, <1>2, <1>3 DEF CheckedInv, CheckedFields, Sessions, KeyStates
<1>5. CheckedProgress'
  BY <1>1 DEF CheckedInv, CheckedProgress
<1>6. CheckedAgreement'
  BY <1>1, <1>2, <1>3 DEF CheckedInv, CheckedAgreement, SameSession
<1>7. CheckedKeyChange'
  BY <1>1 DEF CheckedInv, CheckedProgress, CheckedKeyChange, Answered
<1> QED  BY <1>4, <1>5, <1>6, <1>7 DEF CheckedInv

\* The steps of execute_locked() and of the card.
LEMMA RefuseKeeps ==
    ASSUME CheckedInv, Refuse
    PROVE  CheckedInv'
<1>1. /\ call.phase = "built" /\ UNCHANGED <<host, card, reply>>
      /\ call' = [call EXCEPT !.phase = "returned"]
      /\ result' = [ok |-> FALSE, outcome |-> "not_sent", value |-> <<>>]
  BY DEF Refuse, Return
<1>2. call' = [phase |-> "returned", name |-> call.name, asked |-> call.asked,
               command |-> call.command, stored |-> call.stored]
  BY <1>1 DEF CheckedInv, CheckedFields
<1>3. CheckedFields'
  BY <1>1, <1>2 DEF CheckedInv, CheckedFields
<1>4. CheckedProgress'
  BY <1>1, <1>2 DEF CheckedProgress
<1>5. CheckedAgreement'
  BY <1>1, <1>2 DEF CheckedInv, CheckedAgreement, SameSession
<1>6. CheckedKeyChange'
  BY <1>1, <1>2 DEF CheckedKeyChange, Answered
<1> QED  BY <1>3, <1>4, <1>5, <1>6 DEF CheckedInv

\* An operation that fails returns and keeps no session.
LEMMA FailKeeps ==
    ASSUME CheckedInv, NEW outcome \in {"not_sent", "unknown", "rejected", "succeeded"},
           Fail(outcome), UNCHANGED <<card, reply>>
    PROVE  CheckedInv'
<1>1. /\ call' = [call EXCEPT !.phase = "returned"]
      /\ result' = [ok |-> FALSE, outcome |-> outcome, value |-> <<>>]
      /\ host' = IF host.session # NoSession \/ outcome = "unknown" THEN Invalidated ELSE host
  BY DEF Fail, Return
<1>2. call' = [phase |-> "returned", name |-> call.name, asked |-> call.asked,
               command |-> call.command, stored |-> call.stored]
  BY <1>1 DEF CheckedInv, CheckedFields
<1>3. host' \in HostStates /\ host'.session = NoSession /\ (host'.usable => host' = host)
  BY <1>1 DEF CheckedInv, CheckedFields, HostStates, Invalidated, Sessions, KeyStates
<1>4. CheckedFields'
  BY <1>1, <1>2, <1>3 DEF CheckedInv, CheckedFields
<1>5. CheckedProgress'
  BY <1>1, <1>2 DEF CheckedProgress
<1>6. CheckedAgreement'
  BY <1>3 DEF CheckedInv, CheckedAgreement
<1>7. CheckedKeyChange'
  BY <1>1, <1>2 DEF CheckedKeyChange, Answered
<1> QED  BY <1>4, <1>5, <1>6, <1>7 DEF CheckedInv

\* A command that was admitted is on its way, or failed before the first frame.
LEMMA SendKeeps ==
    ASSUME CheckedInv, Send
    PROVE  CheckedInv'
<1>1. CASE Fail("not_sent")
  BY <1>1, FailKeeps DEF Send
<1>2. CASE ~Fail("not_sent")
  <2>1. /\ call.phase = "built" /\ Admitted(call.command)
        /\ call' = [call EXCEPT !.phase = "sent"]
        /\ UNCHANGED <<host, card, reply, result>>
    BY <1>2 DEF Send
  <2>2. call' = [phase |-> "sent", name |-> call.name, asked |-> call.asked,
                 command |-> call.command, stored |-> call.stored]
    BY <2>1 DEF CheckedInv, CheckedFields
  <2>3. CheckedFields'
    BY <2>1, <2>2 DEF CheckedInv, CheckedFields
  <2>4. CheckedProgress'
    BY <2>1, <2>2 DEF CheckedInv, CheckedProgress, Admitted
  <2>5. CheckedAgreement'
    BY <2>1, <2>2 DEF CheckedInv, CheckedAgreement, SameSession
  <2>6. CheckedKeyChange'
    BY <2>1, <2>2 DEF CheckedInv, CheckedProgress, CheckedKeyChange, Answered
  <2> QED  BY <2>3, <2>4, <2>5, <2>6 DEF CheckedInv
<1> QED  BY <1>1, <1>2

\* Whatever the card does to its session, no answer but a failure comes of it.
LEMMA FailedReplyKeeps ==
    ASSUME CheckedInv, call.phase = "sent",
           card' = card \/ card' = [card EXCEPT !.session = NoSession, !.key = NoKey],
           reply'.kind \in {"lost", "rejected"},
           call' = [call EXCEPT !.phase = "answered"],
           UNCHANGED <<host, result>>
    PROVE  CheckedInv'
<1>1. call' = [phase |-> "answered", name |-> call.name, asked |-> call.asked,
               command |-> call.command, stored |-> call.stored]
  BY DEF CheckedInv, CheckedFields
<1>2. /\ card' = [session |-> card'.session, key |-> card'.key, app |-> card'.app,
                  slot |-> card'.slot]
      /\ card'.session \in Sessions /\ card'.key \in KeyStates /\ card'.app = card.app
  <2>1. card = [session |-> card.session, key |-> card.key, app |-> card.app,
                slot |-> card.slot]
        /\ card.session \in Sessions /\ card.key \in KeyStates
    BY DEF CheckedInv, CheckedFields
  <2>2. CASE card' = card
    BY <2>1, <2>2
  <2>3. CASE card' = [card EXCEPT !.session = NoSession, !.key = NoKey]
    <3>1. card' = [session |-> NoSession, key |-> NoKey, app |-> card.app, slot |-> card.slot]
      BY <2>1, <2>3
    <3> QED  BY <3>1 DEF Sessions, KeyStates
  <2> QED  BY <2>2, <2>3
<1>3. CheckedFields'
  BY <1>1, <1>2 DEF CheckedInv, CheckedFields
<1>4. CheckedProgress'
  BY <1>1 DEF CheckedInv, CheckedProgress
<1>5. CheckedAgreement'
  BY <1>1, <1>2 DEF CheckedInv, CheckedAgreement
<1>6. CheckedKeyChange'
  BY <1>1 DEF CheckedInv, CheckedProgress, CheckedKeyChange, Answered
<1> QED  BY <1>3, <1>4, <1>5, <1>6 DEF CheckedInv

\* The card refuses a command.
LEMMA CardRefusesKeeps ==
    ASSUME CheckedInv, CardRefuses
    PROVE  CheckedInv'
<1>1. reply'.kind \in {"lost", "rejected"}
  BY DEF CardRefuses, NoReply
<1> QED  BY <1>1, FailedReplyKeeps DEF CardRefuses

\* The field loses a command.
LEMMA LoseCommandKeeps ==
    ASSUME CheckedInv, LoseCommand
    PROVE  CheckedInv'
<1>1. reply'.kind = "lost"
  BY DEF LoseCommand, NoReply
<1> QED  BY <1>1, FailedReplyKeeps DEF LoseCommand

\* A command that does not end the host's session does not end the card's: the
\* card finds its own key named in a key change exactly if the host does.
LEMMA EndsTogether ==
    ASSUME CheckedInv, call.phase = "sent", host.session # NoSession,
           EndsSession(call.command)
    PROVE  call.command.ends
<1> DEFINE c == call.command
<1>1. WellBuilt(c) /\ host.usable /\ (c.key # NoKey => c.key = host.key)
  BY DEF CheckedInv, CheckedFields, CheckedProgress
<1>2. host.key = card.key
  BY <1>1 DEF CheckedInv, CheckedAgreement, SameSession
<1> HIDE DEF c
<1>3. CASE c.op = 85
  BY <1>1, <1>3 DEF WellBuilt, c
<1>4. CASE ChangesKey(c) /\ OwnKey(c)
  <2>1. c.key \in KeyNumbers /\ (c.ends <=> Slot(c) = <<0, c.key>>)
    BY <1>1, <1>4 DEF WellBuilt
  <2>2. c.key # NoKey
    BY <2>1, CheckedAssumption DEF NoKey
  <2>3. Slot(c) = <<0, card.key>>
    BY <1>4 DEF OwnKey
  <2> QED  BY <1>1, <1>2, <2>1, <2>2, <2>3 DEF c
<1> QED  BY <1>3, <1>4 DEF EndsSession, c

\* A slot and what is written there, as one record of the card.
LEMMA PairsJoined ==
    ASSUME NEW a, NEW b, NEW c, NEW d
    PROVE  <<a, b>> \o <<c, d>> = <<a, b, c, d>>
<1> DEFINE S == {a, b, c, d}
           s == <<a, b>>
           t == <<c, d>>
           u == <<a, b, c, d>>
<1>1. /\ s \in Seq(S) /\ t \in Seq(S) /\ u \in Seq(S)
      /\ Len(s) = 2 /\ Len(t) = 2 /\ Len(u) = 4
  OBVIOUS
<1>2. /\ s[1] = a /\ s[2] = b /\ t[1] = c /\ t[2] = d
      /\ u[1] = a /\ u[2] = b /\ u[3] = c /\ u[4] = d
  OBVIOUS
<1> HIDE DEF S, s, t, u
<1>3. /\ s \o t \in Seq(S) /\ Len(s \o t) = 4
      /\ \A i \in 1..4 : (s \o t)[i] = IF i <= 2 THEN s[i] ELSE t[i - 2]
  <2>1. /\ s \o t \in Seq(S) /\ Len(s \o t) = Len(s) + Len(t)
        /\ \A i \in 1..Len(s) + Len(t) :
               (s \o t)[i] = IF i <= Len(s) THEN s[i] ELSE t[i - Len(s)]
    BY <1>1, ConcatProperties
  <2> QED  BY <1>1, <2>1
<1>4. (s \o t)[1] = u[1] /\ (s \o t)[2] = u[2] /\ (s \o t)[3] = u[3] /\ (s \o t)[4] = u[4]
  BY <1>2, <1>3
<1>5. \A i \in 1..4 : (s \o t)[i] = u[i]
  <2>1. \A i \in 1..4 : i = 1 \/ i = 2 \/ i = 3 \/ i = 4
    OBVIOUS
  <2> QED  BY <1>4, <2>1
<1>6. s \o t = u
  BY <1>1, <1>3, <1>5, SeqEqual
<1> QED  BY <1>6 DEF s, t, u

\* The key the card stores is the key that was asked for: its own as it came, or
\* the one the checksum was taken over.
LEMMA NewKeyReceived ==
    ASSUME NEW c, NEW asked, NEW stored \in Nat, ChangeAsked(c, asked), KeyAccepted(c, stored)
    PROVE  Slot(c) \o <<KeyReceived(c, stored), c.data.bytes[2]>>
               = <<asked[2], asked[1], asked[3], 7>>
<1>1. KeyReceived(c, stored) = asked[3]
  <2>1. CASE OwnKey(c)
    BY <2>1 DEF ChangeAsked, KeyAccepted, KeyReceived
  <2>2. CASE ~OwnKey(c)
    <3>1. PICK sent \in Nat : sent = c.data.bytes[1]
      BY DEF ChangeAsked
    <3>2. Xor(sent, stored) \in Int
      <4>1. Bit(sent, 1) \in 0..1 /\ Bit(stored, 1) \in 0..1
        BY DEF Bit, BitWeight
      <4> QED  BY <4>1 DEF Xor
    <3>3. PICK key \in Int : key = KeyReceived(c, stored)
      BY <2>2, <3>1, <3>2 DEF KeyReceived
    <3>4. c.data.size = 21 /\ c.data.bytes[3] = crc32(key)
      BY <2>2, <3>3 DEF KeyAccepted
    <3>5. c.data.bytes[3] = crc32(asked[3]) /\ asked[3] \in Nat
      BY <3>4 DEF ChangeAsked
    <3> QED  BY <3>3, <3>4, <3>5 DEF crc32
  <2> QED  BY <2>1, <2>2
<1>2. Slot(c) = <<asked[2], asked[1]>> /\ c.data.bytes[2] = 7
  BY DEF ChangeAsked
<1> QED  BY <1>1, <1>2, PairsJoined

\* The card carries out a command: it ends its session only if the host will.
LEMMA CardPerformsKeeps ==
    ASSUME CheckedInv, CardPerforms
    PROVE  CheckedInv'
<1> DEFINE c == call.command
           ends == EndsSession(c)
           slot == IF ChangesKey(c)
                   THEN Slot(c) \o <<KeyReceived(c, call.stored), c.data.bytes[2]>>
                   ELSE NoSlot
<1>1. /\ call.phase = "sent" /\ UNCHANGED <<host, result>>
      /\ ChangesKey(c) => KeyAccepted(c, call.stored)
      /\ card' = [session |-> IF ends THEN NoSession ELSE card.session,
                  key |-> IF ends THEN NoKey ELSE card.key,
                  app |-> card.app, slot |-> slot]
      /\ call' = [call EXCEPT !.phase = "answered"]
  BY DEF CardPerforms
<1>2. reply'.kind \in {"lost", "answer"}
  <2> DEFINE Whole(a) == reply' = [kind |-> "answer", size |-> a.size, bytes |-> a.bytes,
                                   truth |-> a.truth, intact |-> TRUE]
             Spoilt(b) == reply' = [kind |-> "answer", size |-> b.size, bytes |-> b.bytes,
                                    truth |-> b.truth, intact |-> FALSE]
  <2>1. \/ reply' = [NoReply EXCEPT !.kind = "lost"]
        \/ \E a \in AnswersOf(c) : Whole(a) \/ \E b \in Altered(a) : Spoilt(b)
    BY DEF CardPerforms
  <2>2. \A a : Whole(a) => reply'.kind = "answer"
    OBVIOUS
  <2>3. \A b : Spoilt(b) => reply'.kind = "answer"
    OBVIOUS
  <2>4. reply' = [NoReply EXCEPT !.kind = "lost"] => reply'.kind = "lost"
    BY DEF NoReply
  <2> HIDE DEF Whole, Spoilt
  <2> QED  BY <2>1, <2>2, <2>3, <2>4
<1>3. call' = [phase |-> "answered", name |-> call.name, asked |-> call.asked,
               command |-> call.command, stored |-> call.stored]
  BY <1>1 DEF CheckedInv, CheckedFields
<1>4. host.session # NoSession => (ends => c.ends)
  BY <1>1, EndsTogether
<1>5. call.name = "change_aes_key" => slot = <<call.asked[2], call.asked[1], call.asked[3], 7>>
  <2> SUFFICES ASSUME call.name = "change_aes_key"
               PROVE  slot = <<call.asked[2], call.asked[1], call.asked[3], 7>>
    OBVIOUS
  <2>1. ChangeAsked(c, call.asked) /\ call.stored \in Nat
    BY <1>1 DEF CheckedInv, CheckedFields, CheckedProgress
  <2>2. ChangesKey(c)
    BY <2>1 DEF ChangeAsked
  <2>3. KeyAccepted(c, call.stored)
    BY <1>1, <2>2
  <2>4. slot = Slot(c) \o <<KeyReceived(c, call.stored), c.data.bytes[2]>>
    BY <2>2
  <2> HIDE DEF c, slot
  <2> QED  BY <2>1, <2>3, <2>4, NewKeyReceived
<1> HIDE DEF ends, slot
<1>6. CheckedFields'
  BY <1>1, <1>2, <1>3 DEF CheckedInv, CheckedFields, Sessions, KeyStates
<1>7. CheckedProgress'
  BY <1>1, <1>2, <1>3 DEF CheckedInv, CheckedProgress
<1>8. CheckedAgreement'
  BY <1>1, <1>3, <1>4 DEF CheckedInv, CheckedAgreement, SameSession
<1>9. CheckedKeyChange'
  BY <1>1, <1>3, <1>5 DEF CheckedKeyChange, NewKeyStored
<1> QED  BY <1>6, <1>7, <1>8, <1>9 DEF CheckedInv

\* An answer that is believed is that of a command both sides carried out.
LEMMA FinishKeeps ==
    ASSUME CheckedInv, Finish
    PROVE  CheckedInv'
<1> DEFINE c == call.command
           parsed == ParserOf(c, reply)
<1>1. call.phase = "answered" /\ UNCHANGED <<card, reply>>
  BY DEF Finish
<1>2. reply.kind \in {"lost", "rejected", "answer"}
  BY <1>1 DEF CheckedInv, CheckedProgress
<1>3. \/ Fail("unknown") \/ Fail("rejected")
      \/ /\ reply.kind = "answer"
         /\ \/ /\ Return(TRUE, "succeeded", parsed.value)
               /\ host' = AfterSuccess(c)
            \/ /\ Return(FALSE, IF parsed.kind = "malformed" THEN "unknown" ELSE "succeeded", <<>>)
               /\ host' = Invalidated
  <2> HIDE DEF parsed
  <2>1. CASE reply.kind = "lost"
    BY <2>1 DEF Finish
  <2>2. CASE reply.kind = "rejected"
    BY <2>2 DEF Finish
  <2>3. CASE reply.kind = "answer"
    BY <2>3 DEF Finish, parsed
  <2> QED  BY <1>2, <2>1, <2>2, <2>3
<1> HIDE DEF parsed
<1>4. CASE Fail("unknown") \/ Fail("rejected")
  BY <1>1, <1>4, FailKeeps
<1>5. CASE /\ Return(FALSE, IF parsed.kind = "malformed" THEN "unknown" ELSE "succeeded", <<>>)
           /\ host' = Invalidated
  <2>1. PICK outcome \in {"unknown", "succeeded"} :
            outcome = IF parsed.kind = "malformed" THEN "unknown" ELSE "succeeded"
    OBVIOUS
  <2>2. /\ call' = [call EXCEPT !.phase = "returned"]
        /\ result' = [ok |-> FALSE, outcome |-> outcome, value |-> <<>>]
    BY <1>5, <2>1 DEF Return
  <2>3. call' = [phase |-> "returned", name |-> call.name, asked |-> call.asked,
                 command |-> call.command, stored |-> call.stored]
    BY <2>2 DEF CheckedInv, CheckedFields
  <2>4. host' \in HostStates /\ ~host'.usable
    BY <1>5 DEF Invalidated, HostStates, Sessions, KeyStates
  <2>5. CheckedFields'
    BY <1>1, <2>2, <2>3, <2>4 DEF CheckedInv, CheckedFields
  <2>6. CheckedProgress'
    BY <2>2, <2>3 DEF CheckedProgress
  <2>7. CheckedAgreement'
    BY <2>4 DEF CheckedAgreement
  <2>8. CheckedKeyChange'
    BY <2>2, <2>3 DEF CheckedKeyChange, Answered
  <2> QED  BY <2>5, <2>6, <2>7, <2>8 DEF CheckedInv
<1>6. CASE /\ reply.kind = "answer"
           /\ Return(TRUE, "succeeded", parsed.value)
           /\ host' = AfterSuccess(c)
  <2>1. /\ call' = [call EXCEPT !.phase = "returned"]
        /\ result' = [ok |-> TRUE, outcome |-> "succeeded", value |-> parsed.value]
    BY <1>6 DEF Return
  <2>2. call' = [phase |-> "returned", name |-> call.name, asked |-> call.asked,
                 command |-> call.command, stored |-> call.stored]
    BY <2>1 DEF CheckedInv, CheckedFields
  <2>3. /\ host' \in HostStates /\ host'.usable = host.usable /\ host'.app = host.app
        /\ c.ends => host'.session = NoSession
        /\ ~c.ends => host' = host
    <3>1. host \in HostStates
      BY DEF CheckedInv, CheckedFields
    <3>2. NoSession \in Sessions /\ NoKey \in KeyStates
      BY DEF Sessions, KeyStates
    <3>3. host' = IF c.ends THEN [host EXCEPT !.session = NoSession, !.key = NoKey] ELSE host
      BY <1>6 DEF AfterSuccess
    <3> HIDE DEF c
    <3> QED  BY <3>1, <3>2, <3>3 DEF HostStates
  <2>4. CheckedFields'
    BY <1>1, <2>1, <2>2, <2>3 DEF CheckedInv, CheckedFields
  <2>5. CheckedProgress'
    BY <2>1, <2>2 DEF CheckedProgress
  <2>6. CheckedAgreement'
    BY <1>1, <1>6, <2>2, <2>3 DEF CheckedInv, CheckedAgreement, SameSession
  <2>7. CheckedKeyChange'
    <3>1. call.name = "change_aes_key" => NewKeyStored
      BY <1>1, <1>6 DEF CheckedInv, CheckedKeyChange, Answered
    <3> QED  BY <1>1, <2>2, <3>1 DEF CheckedKeyChange, NewKeyStored
  <2> QED  BY <2>4, <2>5, <2>6, <2>7 DEF CheckedInv
<1> QED  BY <1>3, <1>4, <1>5, <1>6

\* Sizes are natural numbers, of which there is one.
LEMMA SomeSize == 0 \in Nat /\ Sizes \subseteq Nat
BY CheckedAssumption

\* The operations on files, values, records and settings ask for commands that
\* are well built.
LEMMA DataAsked ==
    ASSUME CheckedInv, DataOperations
    PROVE  CheckedInv'
<1>1. Idle
  BY DEF DataOperations
<1>2. PICK f \in Files, o \in Positions, m \in Modes :
          \/ \E n \in Positions : Ask("read_data", <<f, o, n>>, read_data(f, o, n, m))
          \/ \E s \in Sizes : Ask("write_data", <<f, o, s>>, write_data(f, o, s, m))
  BY DEF DataOperations
<1>3. ASSUME NEW n \in Positions, Ask("read_data", <<f, o, n>>, read_data(f, o, n, m))
      PROVE  CheckedInv'
  <2>1. \A c \in read_data(f, o, n, m) : WellBuilt(c)
    BY DataBuilt, SomeSize
  <2> QED  BY <1>1, <1>3, <2>1, OrdinaryAsk, Zenon
<1>4. ASSUME NEW s \in Sizes, Ask("write_data", <<f, o, s>>, write_data(f, o, s, m))
      PROVE  CheckedInv'
  <2>1. \A c \in write_data(f, o, s, m) : WellBuilt(c)
    BY DataBuilt, SomeSize
  <2> QED  BY <1>1, <1>4, <2>1, OrdinaryAsk, Zenon
<1> QED  BY <1>2, <1>3, <1>4

\* The operations on records.
LEMMA RecordsAsked ==
    ASSUME CheckedInv, RecordOperations
    PROVE  CheckedInv'
<1>1. Idle
  BY DEF RecordOperations
<1>2. PICK f \in Files, o \in Positions, s \in Sizes, m \in Modes :
          \/ Ask("write_record", <<f, o, s>>, write_record(f, o, s, m))
          \/ \E n \in Positions :
                \/ Ask("read_records", <<f, o, n>>, read_records(f, o, n, m, s))
                \/ Ask("update_record", <<f, n, o, s>>, update_record(f, n, o, s, m))
          \/ Ask("clear_record_file", <<f>>, clear_record_file(f))
  BY DEF RecordOperations
<1>3. ASSUME Ask("write_record", <<f, o, s>>, write_record(f, o, s, m))
      PROVE  CheckedInv'
  <2>1. \A c \in write_record(f, o, s, m) : WellBuilt(c)
    BY DataBuilt, SomeSize
  <2> QED  BY <1>1, <1>3, <2>1, OrdinaryAsk, Zenon
<1>4. ASSUME NEW n \in Positions, Ask("read_records", <<f, o, n>>, read_records(f, o, n, m, s))
      PROVE  CheckedInv'
  <2>1. \A c \in read_records(f, o, n, m, s) : WellBuilt(c)
    BY RecordsBuilt, SomeSize
  <2> QED  BY <1>1, <1>4, <2>1, OrdinaryAsk, Zenon
<1>5. ASSUME NEW n \in Positions,
             Ask("update_record", <<f, n, o, s>>, update_record(f, n, o, s, m))
      PROVE  CheckedInv'
  <2>1. \A c \in update_record(f, n, o, s, m) : WellBuilt(c)
    BY RecordsBuilt, SomeSize
  <2> QED  BY <1>1, <1>5, <2>1, OrdinaryAsk, Zenon
<1>6. ASSUME Ask("clear_record_file", <<f>>, clear_record_file(f))
      PROVE  CheckedInv'
  <2>1. \A c \in clear_record_file(f) : WellBuilt(c)
    BY RecordsBuilt, SomeSize
  <2> QED  BY <1>1, <1>6, <2>1, OrdinaryAsk, Zenon
<1> QED  BY <1>2, <1>3, <1>4, <1>5, <1>6

\* The operations on values.
LEMMA ValuesAsked ==
    ASSUME CheckedInv, ValueOperations
    PROVE  CheckedInv'
<1>1. Idle
  BY DEF ValueOperations
<1>2. PICK f \in Files, m \in Modes :
          \/ \E v \in Integers32 :
                \/ Ask("credit", <<f, v>>, credit(f, v, m))
                \/ Ask("debit", <<f, v>>, debit(f, v, m))
                \/ Ask("limited_credit", <<f, v>>, limited_credit(f, v, m))
          \/ \E g \in Files : Ask("restore_transfer", <<f, g>>, restore_transfer(f, g, m))
  BY DEF ValueOperations
<1>3. ASSUME NEW v \in Integers32, Ask("credit", <<f, v>>, credit(f, v, m))
      PROVE  CheckedInv'
  <2>1. \A c \in credit(f, v, m) : WellBuilt(c)
    BY ValuesBuilt
  <2> QED  BY <1>1, <1>3, <2>1, OrdinaryAsk, Zenon
<1>4. ASSUME NEW v \in Integers32, Ask("debit", <<f, v>>, debit(f, v, m))
      PROVE  CheckedInv'
  <2>1. \A c \in debit(f, v, m) : WellBuilt(c)
    BY ValuesBuilt
  <2> QED  BY <1>1, <1>4, <2>1, OrdinaryAsk, Zenon
<1>5. ASSUME NEW v \in Integers32, Ask("limited_credit", <<f, v>>, limited_credit(f, v, m))
      PROVE  CheckedInv'
  <2>1. \A c \in limited_credit(f, v, m) : WellBuilt(c)
    BY ValuesBuilt
  <2> QED  BY <1>1, <1>5, <2>1, OrdinaryAsk, Zenon
<1>6. ASSUME NEW g \in Files, Ask("restore_transfer", <<f, g>>, restore_transfer(f, g, m))
      PROVE  CheckedInv'
  <2>1. \A c \in restore_transfer(f, g, m) : WellBuilt(c)
    BY TransferBuilt
  <2> QED  BY <1>1, <1>6, <2>1, OrdinaryAsk, Zenon
<1> QED  BY <1>2, <1>3, <1>4, <1>5, <1>6

\* The queries about files.
LEMMA QueriesAsked ==
    ASSUME CheckedInv, FileQueries
    PROVE  CheckedInv'
<1>1. Idle
  BY DEF FileQueries
<1>2. ASSUME Ask("iso_file_ids", <<>>, get_iso_file_ids)
      PROVE  CheckedInv'
  <2>1. \A c \in get_iso_file_ids : WellBuilt(c)
    BY FileListsBuilt
  <2> QED  BY <1>1, <1>2, <2>1, OrdinaryAsk, Zenon
<1>3. ASSUME Ask("execute(get_file_ids)", <<>>, get_file_ids)
      PROVE  CheckedInv'
  <2>1. \A c \in get_file_ids : WellBuilt(c)
    BY FileListsBuilt
  <2> QED  BY <1>1, <1>3, <2>1, OrdinaryAsk, Zenon
<1>4. ASSUME NEW f \in Files, Ask("file_settings", <<f>>, get_file_settings(f))
      PROVE  CheckedInv'
  <2>1. \A c \in get_file_settings(f) : WellBuilt(c)
    BY FilesBuilt
  <2> QED  BY <1>1, <1>4, <2>1, OrdinaryAsk, Zenon
<1>5. ASSUME NEW f \in Files, NEW m \in Modes, Ask("value", <<f>>, get_value(f, m))
      PROVE  CheckedInv'
  <2>1. \A c \in get_value(f, m) : WellBuilt(c)
    BY FilesBuilt
  <2> QED  BY <1>1, <1>5, <2>1, OrdinaryAsk, Zenon
<1> QED  BY <1>2, <1>3, <1>4, <1>5 DEF FileQueries

\* The operations on transactions.
LEMMA TransactionsAsked ==
    ASSUME CheckedInv, TransactionOperations
    PROVE  CheckedInv'
<1>1. Idle
  BY DEF TransactionOperations
<1>2. ASSUME NEW r \in BOOLEAN,
             Ask("commit_transaction", IF r THEN << 1 >> ELSE <<>>, commit_transaction(r))
      PROVE  CheckedInv'
  <2>1. \A c \in commit_transaction(r) : WellBuilt(c)
    BY TransactionsBuilt
  <2> QED  BY <1>1, <1>2, <2>1, OrdinaryAsk, Zenon
<1>3. ASSUME Ask("abort_transaction", <<>>, abort_transaction)
      PROVE  CheckedInv'
  <2>1. \A c \in abort_transaction : WellBuilt(c)
    BY TransactionsBuilt
  <2> QED  BY <1>1, <1>3, <2>1, OrdinaryAsk, Zenon
<1>4. ASSUME NEW s \in {15, 16},
             Ask("execute(commit_reader_id)", Zeros(16), commit_reader_id(s))
      PROVE  CheckedInv'
  <2>1. \A c \in commit_reader_id(s) : WellBuilt(c)
    BY TransactionsBuilt
  <2> QED  BY <1>1, <1>4, <2>1, OrdinaryAsk, Zenon
<1> QED  BY <1>2, <1>3, <1>4 DEF TransactionOperations

\* The operations on applications.
LEMMA ApplicationsAsked ==
    ASSUME CheckedInv, ApplicationOperations
    PROVE  CheckedInv'
<1> DEFINE Delegated(a, k, p) ==
               Ask("create_delegated_application", <<a.id, 513, 3, 300>> \o AskedApplication(a),
                   create_delegated_application(a, 513, 3, 300, k, p))
           Information ==
               Ask("delegated_application_info", << 513 >>, get_delegated_application_info(513))
<1>1. Idle
  BY DEF ApplicationOperations
<1>2. \/ Ask("application_ids", <<>>, get_application_ids)
      \/ Ask("execute(get_df_names)", <<>>, get_df_names)
      \/ Information
      \/ \E c \in AppConfigs :
            \/ Ask("create_application", <<c.id>> \o AskedApplication(c), create_application(c))
            \/ \E k \in {31, 32}, p \in {7, 8} : Delegated(c, k, p)
      \/ \E a \in Ids :
            \/ Ask("delete_application", <<a>>, delete_application(a))
            \/ \E p \in {7, 8} :
                  Ask("delete_delegated_application", <<a>> \o Zeros(8),
                      delete_delegated_application(a, p))
  BY Zenon DEF ApplicationOperations
<1>3. ASSUME Ask("application_ids", <<>>, get_application_ids)
      PROVE  CheckedInv'
  <2>1. \A c \in get_application_ids : WellBuilt(c)
    BY ApplicationsBuilt, CheckedAssumption
  <2> QED  BY <1>1, <1>3, <2>1, OrdinaryAsk, Zenon
<1>4. ASSUME Ask("execute(get_df_names)", <<>>, get_df_names)
      PROVE  CheckedInv'
  <2>1. \A c \in get_df_names : WellBuilt(c)
    BY ApplicationsBuilt, CheckedAssumption
  <2> QED  BY <1>1, <1>4, <2>1, OrdinaryAsk, Zenon
<1>5. ASSUME Information
      PROVE  CheckedInv'
  <2>1. \A c \in get_delegated_application_info(513) : WellBuilt(c)
    BY ApplicationsBuilt, CheckedAssumption
  <2> QED  BY <1>1, <1>5, <2>1, OrdinaryAsk, SMTT(30)
<1>6. ASSUME NEW a \in AppConfigs,
             Ask("create_application", <<a.id>> \o AskedApplication(a), create_application(a))
      PROVE  CheckedInv'
  <2>1. \A c \in create_application(a) : WellBuilt(c)
    BY CreationBuilt
  <2> QED  BY <1>1, <1>6, <2>1, OrdinaryAsk, Zenon
<1>7. ASSUME NEW a \in AppConfigs, NEW k \in {31, 32}, NEW p \in {7, 8}, Delegated(a, k, p)
      PROVE  CheckedInv'
  <2>1. \A c \in create_delegated_application(a, 513, 3, 300, k, p) : WellBuilt(c)
    BY CreationBuilt
  <2> QED  BY <1>1, <1>7, <2>1, OrdinaryAsk, SMTT(30)
<1>8. ASSUME NEW a \in Ids, Ask("delete_application", <<a>>, delete_application(a))
      PROVE  CheckedInv'
  <2>1. \A c \in delete_application(a) : WellBuilt(c)
    BY ApplicationsBuilt
  <2> QED  BY <1>1, <1>8, <2>1, OrdinaryAsk, Zenon
<1>9. ASSUME NEW a \in Ids, NEW p \in {7, 8},
             Ask("delete_delegated_application", <<a>> \o Zeros(8),
                 delete_delegated_application(a, p))
      PROVE  CheckedInv'
  <2>1. \A c \in delete_delegated_application(a, p) : WellBuilt(c)
    BY ApplicationsBuilt
  <2> QED  BY <1>1, <1>9, <2>1, OrdinaryAsk, Zenon
<1> HIDE DEF Delegated, Information
<1> QED  BY <1>2, <1>3, <1>4, <1>5, <1>6, <1>7, <1>8, <1>9, Zenon

\* The operations on keys; a key change asks for the slot and key it was given.
LEMMA KeysAsked ==
    ASSUME CheckedInv, KeyOperations
    PROVE  CheckedInv'
<1>1. Idle
  BY DEF KeyOperations
<1>2. ASSUME Ask("key_settings", <<>>, get_key_settings)
      PROVE  CheckedInv'
  <2>1. \A c \in get_key_settings : WellBuilt(c)
    BY KeysBuilt
  <2> QED  BY <1>1, <1>2, <2>1, OrdinaryAsk, Zenon
<1>3. ASSUME Ask("change_key_settings", << 9 >>, change_key_settings(9))
      PROVE  CheckedInv'
  <2>1. \A c \in change_key_settings(9) : WellBuilt(c)
    BY KeysBuilt
  <2> QED  BY <1>1, <1>3, <2>1, OrdinaryAsk, Zenon
<1>4. ASSUME Ask("key_set_versions", <<64, 128>>, get_key_set_versions)
      PROVE  CheckedInv'
  <2>1. \A c \in get_key_set_versions : WellBuilt(c)
    BY KeysBuilt
  <2> QED  BY <1>1, <1>4, <2>1, OrdinaryAsk, Zenon
<1>5. ASSUME NEW k \in KeyNumbers, NEW set \in Optionals(KeySets),
             Ask("key_version", IF set = <<>> THEN <<k>> ELSE <<64 + k>> \o set,
                 get_key_version(k, set))
      PROVE  CheckedInv'
  <2>1. \A c \in get_key_version(k, set) : WellBuilt(c)
    BY KeyVersionBuilt
  <2> QED  BY <1>1, <1>5, <2>1, OrdinaryAsk, Zenon
<1>6. ASSUME NEW set \in KeySets, Ask("initialize_key_set", <<set, 2>>, initialize_key_set(set))
      PROVE  CheckedInv'
  <2>1. \A c \in initialize_key_set(set) : WellBuilt(c)
    BY KeysBuilt
  <2> QED  BY <1>1, <1>6, <2>1, OrdinaryAsk, Zenon
<1>7. ASSUME NEW set \in KeySets, Ask("finalize_key_set", <<set, 5>>, finalize_key_set(set, 5))
      PROVE  CheckedInv'
  <2>1. \A c \in finalize_key_set(set, 5) : WellBuilt(c)
    BY KeysBuilt
  <2> QED  BY <1>1, <1>7, <2>1, OrdinaryAsk, Zenon
<1>8. ASSUME NEW set \in KeySets, Ask("roll_key_set", <<set>>, roll_key_set(set))
      PROVE  CheckedInv'
  <2>1. \A c \in roll_key_set(set) : WellBuilt(c)
    BY KeysBuilt
  <2> QED  BY <1>1, <1>8, <2>1, OrdinaryAsk, Zenon
<1>9. ASSUME NEW k \in KeyNumbers, NEW set \in Optionals(KeySets), NEW new \in Blocks,
             NEW old \in Optionals(Blocks), NEW stored \in Blocks, NEW master \in BOOLEAN,
             NEW auth \in KeyNumbers,
             AskStored("change_aes_key", <<k, SetOf(set), new>>,
                       change_aes_key(k, new, 7, auth, old, set, master), stored)
      PROVE  CheckedInv'
  <2> DEFINE asked == <<k, SetOf(set), new>>
             built == change_aes_key(k, new, 7, auth, old, set, master)
  <2>1. \A c \in built : WellBuilt(c) /\ ChangeAsked(c, asked)
    BY KeyChangeBuilt
  <2>2. stored \in Nat
    BY CheckedAssumption
  <2>3. AskStored("change_aes_key", asked, built, stored)
    BY <1>9
  <2> HIDE DEF asked, built
  <2> QED  BY <1>1, <2>1, <2>2, <2>3, AskKeeps, Zenon
<1>10. ASSUME NEW k \in KeyNumbers, NEW set \in Optionals(KeySets),
              \/ Ask("key_version", IF set = <<>> THEN <<k>> ELSE <<64 + k>> \o set,
                     get_key_version(k, set))
              \/ \E new \in Blocks, old \in Optionals(Blocks), stored \in Blocks,
                    master \in BOOLEAN, auth \in KeyNumbers :
                    AskStored("change_aes_key", <<k, SetOf(set), new>>,
                              change_aes_key(k, new, 7, auth, old, set, master), stored)
       PROVE  CheckedInv'
  BY <1>5, <1>9, <1>10, Zenon
<1> QED  BY <1>2, <1>3, <1>4, <1>6, <1>7, <1>8, <1>10, Zenon DEF KeyOperations

\* There is a way to ask for the card's UID.
LEMMA SomeRequest == \E r : r \in UidRequests
BY DEF UidRequests

\* The operations on the card.
LEMMA CardAsked ==
    ASSUME CheckedInv, CardOperations
    PROVE  CheckedInv'
<1> DEFINE Bits(on) ==
               <<0, FoldLeft(LAMBDA acc, i : acc + Flag(i \in on, BitWeight[i]), 0,
                             <<1, 2, 3, 4, 5, 6, 7>>)>>
           Atqa == set_atqa(836)
           Asked == <<12, 836>>
<1>1. Idle
  BY DEF CardOperations
<1>2. \/ Ask("version", <<>>, get_version)
      \/ Ask("free_memory", <<>>, free_memory)
      \/ \E r \in UidRequests :
            Ask("card_uid", CASE r = "omit_option" -> <<>> [] r = "without_nuid" -> << 0 >>
                              [] r = "with_nuid" -> << 1 >>, get_card_uid(r))
      \/ Ask("originality_signature", << 0 >>, read_originality_signature)
      \/ Ask("format_picc", <<>>, format_picc)
      \/ \E on \in SUBSET (1..7) :
            Ask("set_picc_configuration", Bits(on),
                set_picc_configuration([i \in 1..7 |-> i \in on]))
      \/ Ask("set_capability_configuration", << 5 >>, set_capability_configuration)
      \/ \E s \in {15, 16}, k \in Blocks :
            Ask("set_default_aes_key", <<1, k, 7>>, set_default_aes_key(s, k, 7))
      \/ \E s \in {1, 2, 20, 21}, n \in {2, 20} : Ask("set_ats", << 2 >>, set_ats(s, n))
      \/ Ask("set_atqa", Asked, Atqa)
  BY Zenon DEF CardOperations
<1> HIDE DEF Bits
<1>3. ASSUME Ask("version", <<>>, get_version)
      PROVE  CheckedInv'
  <2>1. \A c \in get_version : WellBuilt(c)
    BY CardBuilt, SomeRequest
  <2> QED  BY <1>1, <1>3, <2>1, OrdinaryAsk, Zenon
<1>4. ASSUME Ask("free_memory", <<>>, free_memory)
      PROVE  CheckedInv'
  <2>1. \A c \in free_memory : WellBuilt(c)
    BY CardBuilt, SomeRequest
  <2> QED  BY <1>1, <1>4, <2>1, OrdinaryAsk, Zenon
<1>5. ASSUME NEW r \in UidRequests,
             Ask("card_uid", CASE r = "omit_option" -> <<>> [] r = "without_nuid" -> << 0 >> [] r = "with_nuid" -> << 1 >>,
                 get_card_uid(r))
      PROVE  CheckedInv'
  <2>1. \A c \in get_card_uid(r) : WellBuilt(c)
    BY CardBuilt
  <2> QED  BY <1>1, <1>5, <2>1, OrdinaryAsk, Zenon
<1>6. ASSUME Ask("originality_signature", << 0 >>, read_originality_signature)
      PROVE  CheckedInv'
  <2>1. \A c \in read_originality_signature : WellBuilt(c)
    BY CardBuilt, SomeRequest
  <2> QED  BY <1>1, <1>6, <2>1, OrdinaryAsk, Zenon
<1>7. ASSUME Ask("format_picc", <<>>, format_picc)
      PROVE  CheckedInv'
  <2>1. \A c \in format_picc : WellBuilt(c)
    BY CardBuilt, SomeRequest
  <2> QED  BY <1>1, <1>7, <2>1, OrdinaryAsk, Zenon
<1>8. ASSUME NEW on \in SUBSET (1..7),
             Ask("set_picc_configuration", Bits(on),
                 set_picc_configuration([i \in 1..7 |-> i \in on]))
      PROVE  CheckedInv'
  <2>1. \A c \in set_picc_configuration([i \in 1..7 |-> i \in on]) : WellBuilt(c)
    BY ConfigurationsBuilt
  <2> QED  BY <1>1, <1>8, <2>1, OrdinaryAsk, Zenon
<1>9. ASSUME Ask("set_capability_configuration", << 5 >>, set_capability_configuration)
      PROVE  CheckedInv'
  <2>1. \A c \in set_capability_configuration : WellBuilt(c)
    BY ConfigurationsBuilt
  <2> QED  BY <1>1, <1>9, <2>1, OrdinaryAsk, Zenon
<1>10. ASSUME NEW s \in {15, 16}, NEW k \in Blocks,
              Ask("set_default_aes_key", <<1, k, 7>>, set_default_aes_key(s, k, 7))
      PROVE  CheckedInv'
  <2>1. \A c \in set_default_aes_key(s, k, 7) : WellBuilt(c)
    BY ConfigurationsBuilt
  <2> QED  BY <1>1, <1>10, <2>1, OrdinaryAsk, Zenon
<1>11. ASSUME NEW s \in {1, 2, 20, 21}, NEW n \in {2, 20}, Ask("set_ats", << 2 >>, set_ats(s, n))
      PROVE  CheckedInv'
  <2>1. \A c \in set_ats(s, n) : WellBuilt(c)
    BY ConfigurationsBuilt
  <2> QED  BY <1>1, <1>11, <2>1, OrdinaryAsk, Zenon
<1>12. ASSUME Ask("set_atqa", Asked, Atqa)
      PROVE  CheckedInv'
  <2>1. \A c \in Atqa : WellBuilt(c)
    <3>1. PICK atqa : Atqa = set_atqa(atqa)
      OBVIOUS
    <3> HIDE DEF Atqa
    <3> QED  BY <3>1, AtqaBuilt
  <2> HIDE DEF Asked, Atqa
  <2> QED  BY <1>1, <1>12, <2>1, OrdinaryAsk, Zenon
<1> HIDE DEF Asked, Atqa
<1> QED  BY <1>2, <1>3, <1>4, <1>5, <1>6, <1>7, <1>8, <1>9, <1>10, <1>11, <1>12, Zenon

\* The operations that create and change files.
LEMMA FilesAsked ==
    ASSUME CheckedInv, FileOperations
    PROVE  CheckedInv'
<1> DEFINE ValueAsked(f, m, a, b, l, u, i, e) ==
               <<f, m, Bool(e), 0>> \o a \o <<l, u, i, Bool(b) + 2 * Bool(~b)>>
           All(more, extra) == IF more = <<>> THEN <<>> ELSE Append(Tail(more), extra)
           ChangeAll(f, m, a, l, all) ==
               Ask("change_file_settings",
                   <<f, m, Bool(all # <<>>), Bool(l # <<>>)>> \o a
                   \o (IF all = <<>> THEN <<>> ELSE <<Len(all)>> \o FlattenSeq(all)) \o l,
                   change_file_settings(f, m, a, all, l, m))
<1>1. Idle
  BY DEF FileOperations
<1>2. PICK f \in Files, a \in Rights, m \in Modes, b \in BOOLEAN, iso \in Optionals({258}) :
          \/ Ask("delete_file", <<f>>, delete_file(f))
          \/ Ask("file_counters", <<f>>, get_file_counters(f, m))
          \/ \E n \in Positions, e \in BOOLEAN :
                \/ Ask("create_data_file", <<f>> \o iso \o <<m, Bool(e), 0>> \o a \o <<n>>,
                       create_data_file(f, iso, m, e, a, n, b))
                \/ \E k \in Positions :
                      Ask("create_record_file", <<f>> \o iso \o <<m, Bool(e), 0>> \o a \o <<n, k>>,
                          create_record_file(f, iso, m, e, a, n, k, b))
          \/ \E l \in Integers32, u \in Integers32, i \in Integers32, e \in BOOLEAN :
                Ask("create_value_file", ValueAsked(f, m, a, b, l, u, i, e),
                    create_value_file(f, m, e, a, l, u, i, b, ~b))
          \/ \E s \in {15, 16}, k \in Blocks :
                Ask("create_transaction_mac_file", <<f, 0, 0, 0>> \o a \o <<2, k, 7>>,
                    create_transaction_mac_file(f, a, s, k, 7))
          \/ \E more \in {<<>>, <<a>>, <<a, a, a, a, a, a, a, a>>}, l \in Optionals(Integers32) :
                \E extra \in {<<15, 14, 1, 2>>, <<16, 0, 0, 0>>} :
                    ChangeAll(f, m, a, l, All(more, extra))
  BY Zenon DEF FileOperations
<1>3. ASSUME Ask("delete_file", <<f>>, delete_file(f))
      PROVE  CheckedInv'
  <2>1. \A c \in delete_file(f) : WellBuilt(c)
    BY FilesBuilt
  <2> QED  BY <1>1, <1>3, <2>1, OrdinaryAsk, Zenon
<1>4. ASSUME Ask("file_counters", <<f>>, get_file_counters(f, m))
      PROVE  CheckedInv'
  <2>1. \A c \in get_file_counters(f, m) : WellBuilt(c)
    BY FilesBuilt
  <2> QED  BY <1>1, <1>4, <2>1, OrdinaryAsk, Zenon
<1>5. ASSUME NEW n \in Positions, NEW e \in BOOLEAN,
             Ask("create_data_file", <<f>> \o iso \o <<m, Bool(e), 0>> \o a \o <<n>>,
                 create_data_file(f, iso, m, e, a, n, b))
      PROVE  CheckedInv'
  <2>1. \A c \in create_data_file(f, iso, m, e, a, n, b) : WellBuilt(c)
    BY DataFileBuilt
  <2> QED  BY <1>1, <1>5, <2>1, OrdinaryAsk, Zenon
<1>6. ASSUME NEW n \in Positions, NEW e \in BOOLEAN, NEW k \in Positions,
             Ask("create_record_file", <<f>> \o iso \o <<m, Bool(e), 0>> \o a \o <<n, k>>,
                 create_record_file(f, iso, m, e, a, n, k, b))
      PROVE  CheckedInv'
  <2>1. \A c \in create_record_file(f, iso, m, e, a, n, k, b) : WellBuilt(c)
    BY RecordFileBuilt
  <2> QED  BY <1>1, <1>6, <2>1, OrdinaryAsk, Zenon
<1>7. ASSUME NEW l \in Integers32, NEW u \in Integers32, NEW i \in Integers32, NEW e \in BOOLEAN,
             Ask("create_value_file", ValueAsked(f, m, a, b, l, u, i, e),
                 create_value_file(f, m, e, a, l, u, i, b, ~b))
      PROVE  CheckedInv'
  <2>1. \A c \in create_value_file(f, m, e, a, l, u, i, b, ~b) : WellBuilt(c)
    BY ValueFileBuilt
  <2> QED  BY <1>1, <1>7, <2>1, OrdinaryAsk, Zenon
<1>8. ASSUME NEW s \in {15, 16}, NEW k \in Blocks,
             Ask("create_transaction_mac_file", <<f, 0, 0, 0>> \o a \o <<2, k, 7>>,
                 create_transaction_mac_file(f, a, s, k, 7))
      PROVE  CheckedInv'
  <2>1. \A c \in create_transaction_mac_file(f, a, s, k, 7) : WellBuilt(c)
    BY MacFileBuilt
  <2> QED  BY <1>1, <1>8, <2>1, OrdinaryAsk, Zenon
<1>9. ASSUME NEW l, NEW all, ChangeAll(f, m, a, l, all)
      PROVE  CheckedInv'
  <2>1. \A c \in change_file_settings(f, m, a, all, l, m) : WellBuilt(c)
    BY FilesBuilt
  <2> QED  BY <1>1, <1>9, <2>1, OrdinaryAsk, Zenon
<1> HIDE DEF ValueAsked, All, ChangeAll
<1> QED  BY <1>2, <1>3, <1>4, <1>5, <1>6, <1>7, <1>8, <1>9, Zenon

\* No step of the checked layer breaks the invariant.
LEMMA CheckedStep ==
    ASSUME CheckedInv, Next
    PROVE  CheckedInv'
<1>1. CASE \E a \in Ids : Select(a)
  BY <1>1, SelectKeeps
<1>2. CASE \E family \in Families, k \in KeyNumbers : Authenticate(family, k)
  BY <1>2, AuthenticateKeeps
<1>3. CASE DataOperations \/ RecordOperations \/ ValueOperations \/ FileOperations
  BY <1>3, DataAsked, RecordsAsked, ValuesAsked, FilesAsked
<1>4. CASE FileQueries \/ TransactionOperations \/ KeyOperations \/ ApplicationOperations
           \/ CardOperations
  BY <1>4, QueriesAsked, TransactionsAsked, KeysAsked, ApplicationsAsked, CardAsked
<1>5. CASE Refuse \/ Send \/ Take
  BY <1>5, RefuseKeeps, SendKeeps, TakeKeeps
<1>6. CASE CardRefuses \/ CardPerforms \/ LoseCommand
  BY <1>6, CardRefusesKeeps, CardPerformsKeeps, LoseCommandKeeps
<1>7. CASE Finish
  BY <1>7, FinishKeeps
<1> QED  BY <1>1, <1>2, <1>3, <1>4, <1>5, <1>6, <1>7 DEF Next

\* The invariant is about the state alone.
LEMMA CheckedStutters ==
    ASSUME CheckedInv, UNCHANGED vars
    PROVE  CheckedInv'
BY DEF vars, CheckedInv, CheckedFields, CheckedProgress, CheckedAgreement, CheckedKeyChange,
       SameSession, NewKeyStored, Answered

\* What the invariant promises of the layer.
LEMMA CheckedPromises ==
    ASSUME CheckedInv
    PROVE  /\ TypeOK /\ SessionsAgree
           /\ SecretsEnciphered /\ AdmittedIsSendable /\ KeyChangeTakesEffect
<1> DEFINE c == call.command
<1>1. WellBuilt(c) /\ CheckedFields /\ CheckedProgress /\ CheckedAgreement /\ CheckedKeyChange
  BY DEF CheckedInv, CheckedFields
<1>2. TypeOK
  <2>1. \A i \in DOMAIN c.header : c.header[i] \in 0..255
    <3>1. c.header \in Seq(ByteValue)
      BY <1>1 DEF WellBuilt, Bytes
    <3> HIDE DEF c
    <3>2. \A i \in DOMAIN c.header : c.header[i] \in ByteValue
      BY <3>1, LenProperties
    <3> QED  BY <3>2 DEF ByteValue
  <2>2. /\ host.usable \in BOOLEAN /\ host.session \in Sessions /\ host.key \in KeyStates
        /\ host.app \in Ids \cup {Nowhere}
    BY <1>1 DEF CheckedFields, HostStates
  <2> QED  BY <1>1, <2>1, <2>2 DEF TypeOK, CheckedFields, Sessions, KeyStates
<1>3. SessionsAgree
  BY <1>1 DEF SessionsAgree, CheckedAgreement, SameSession, Idle
<1>4. SecretsEnciphered
  BY <1>1 DEF SecretsEnciphered, CheckedProgress, WellBuilt, Secret
<1>5. AdmittedIsSendable
  <2>1. Sendable(c)
    BY <1>1 DEF WellBuilt
  <2> HIDE DEF c
  <2>2. validate(c)
    BY <2>1, CheckedAssumption DEF Sendable, validate, valid_mode
  <2> QED  BY <2>1, <2>2 DEF Sendable, AdmittedIsSendable, c
<1>6. KeyChangeTakesEffect
  BY <1>1 DEF KeyChangeTakesEffect, CheckedKeyChange, NewKeyStored
<1> QED  BY <1>2, <1>3, <1>4, <1>5, <1>6

-----------------------------------------------------------------------------
(***************************************************************************)
(* The layers together.                                                    *)
(***************************************************************************)
SecureInv ==
    /\ layer \in {"checked", "standard", "ev2", "handshake", "iso"}
    /\ layer = "checked" => CheckedInv
    /\ layer = "standard" => StandardInv
    /\ layer = "ev2" => Ev2Inv
    /\ layer = "handshake" => HandshakeInv
    /\ layer = "iso" => IsoInv

\* Whichever layer starts, it starts as its invariant has it.
LEMMA SecureStart ==
    ASSUME SecureInit
    PROVE  SecureInv
<1>1. CASE CheckedStarts
  BY <1>1, CheckedStart DEF CheckedStarts, SecureInv
<1>2. CASE StandardStarts
  BY <1>2, StandardStart DEF StandardStarts, SecureInv
<1>3. CASE Ev2Starts
  BY <1>3, Ev2Start DEF Ev2Starts, SecureInv
<1>4. CASE HandshakeStarts
  BY <1>4, HandshakeStart DEF HandshakeStarts, SecureInv
<1>5. CASE IsoStarts
  BY <1>5, IsoStart DEF IsoStarts, SecureInv
<1> QED  BY <1>1, <1>2, <1>3, <1>4, <1>5 DEF SecureInit

\* The layer that runs keeps its invariant; the others say nothing.
LEMMA SecureStep ==
    ASSUME SecureInv, [SecureNext]_allVars
    PROVE  SecureInv'
<1>1. CASE CheckedSteps
  <2>1. layer = "checked" /\ layer' = "checked" /\ CheckedInv'
    BY <1>1, CheckedStep DEF CheckedSteps, SecureInv
  <2> QED  BY <2>1 DEF SecureInv
<1>2. CASE StandardSteps
  <2>1. layer = "standard" /\ layer' = "standard" /\ StandardInv'
    BY <1>2, StandardStep DEF StandardSteps, SecureInv
  <2> QED  BY <2>1 DEF SecureInv
<1>3. CASE Ev2Steps
  <2>1. layer = "ev2" /\ layer' = "ev2" /\ Ev2Inv'
    BY <1>3, Ev2Step DEF Ev2Steps, SecureInv
  <2> QED  BY <2>1 DEF SecureInv
<1>4. CASE HandshakeSteps
  <2>1. layer = "handshake" /\ layer' = "handshake" /\ HandshakeInv'
    BY <1>4, HandshakeStep DEF HandshakeSteps, SecureInv
  <2> QED  BY <2>1 DEF SecureInv
<1>5. CASE IsoSteps
  <2>1. layer = "iso" /\ layer' = "iso" /\ IsoInv'
    BY <1>5, IsoStep DEF IsoSteps, SecureInv
  <2> QED  BY <2>1 DEF SecureInv
<1>6. CASE UNCHANGED allVars
  <2>1. /\ layer' = layer /\ UNCHANGED vars
        /\ UNCHANGED <<session, pc, request, number, message, answer, vectors, prepared,
                       replies, executed, unverified, wire, nonce, made, generation, last,
                       issued>>
    BY <1>6 DEF allVars
  <2>2. UNCHANGED <<host, card, call, reply, heard, result>>
    BY <2>1 DEF vars
  <2>3. CheckedInv => CheckedInv'
    BY <2>1, CheckedStutters
  <2>4. StandardInv => StandardInv'
    <3>1. UNCHANGED Standard!vars
      BY <2>1, <2>2 DEF Standard!vars
    <3> QED  BY <3>1, StandardStutters
  <2>5. Ev2Inv => Ev2Inv'
    <3>1. UNCHANGED Ev2!vars
      BY <2>1, <2>2 DEF Ev2!vars
    <3> QED  BY <3>1, Ev2Stutters
  <2>6. HandshakeInv => HandshakeInv'
    <3>1. UNCHANGED Handshakes!vars
      BY <2>1, <2>2 DEF Handshakes!vars
    <3> QED  BY <3>1, HandshakeStutters
  <2>7. IsoInv => IsoInv'
    <3>1. UNCHANGED <<generation, card, session, call, reply, last, heard, issued, result>>
      BY <2>1, <2>2
    <3> QED  BY <3>1, IsoStutters
  <2> QED  BY <2>1, <2>3, <2>4, <2>5, <2>6, <2>7 DEF SecureInv
<1> QED  BY <1>1, <1>2, <1>3, <1>4, <1>5, <1>6 DEF SecureNext

\* What the invariants of the layers promise.
LEMMA SecurePromises ==
    ASSUME SecureInv
    PROVE  /\ SecureTypeOK /\ SecureSessionsAgree
           /\ SecureAnswersAreFresh /\ SecureNotSentUnheard
           /\ layer = "checked" => SecretsEnciphered /\ AdmittedIsSendable /\ KeyChangeTakesEffect
<1>1. layer = "checked" =>
          /\ TypeOK /\ SessionsAgree
          /\ SecretsEnciphered /\ AdmittedIsSendable /\ KeyChangeTakesEffect
  BY CheckedPromises DEF SecureInv
<1>2. layer = "standard" =>
          /\ Standard!TypeOK /\ Standard!VectorsInStep /\ Standard!GenuineVerifies
          /\ Standard!ResponseIsFresh /\ Standard!NoVectorReuse /\ Standard!BoundaryIsTrue
          /\ Standard!NotSentMeansUnexecuted
  BY StandardPromises DEF SecureInv
<1>3. layer = "ev2" => Ev2!NotSentMeansUnexecuted
  BY DEF SecureInv, Ev2Inv
<1>4. layer = "handshake" =>
          /\ Handshakes!TypeOK /\ Handshakes!Agreement /\ Handshakes!NoStaleSession
          /\ Handshakes!NotSentUnheard
  BY HandshakePromises DEF SecureInv
<1>5. layer = "iso" => Iso!TypeOK /\ Iso!Agreement /\ Iso!ReadIsFresh /\ Iso!NotSentUnheard
  BY IsoPromises DEF SecureInv
<1> QED
  BY <1>1, <1>2, <1>3, <1>4, <1>5
     DEF SecureTypeOK, SecureSessionsAgree, SecureAnswersAreFresh, SecureNotSentUnheard

\* The invariants of the layers hold in every state the layers reach.
THEOREM SecureInvariant == SecureSpec => []SecureInv
<1>1. SecureInit => SecureInv
  BY SecureStart
<1>2. SecureInv /\ [SecureNext]_allVars => SecureInv'
  BY SecureStep
<1> QED  BY <1>1, <1>2, PTL DEF SecureSpec

\* The state of each layer of secure messaging has the shape the code gives it.
THEOREM LayersTyped == SecureSpec => []SecureTypeOK
<1>1. SecureInv => SecureTypeOK
  BY SecurePromises
<1> QED  BY <1>1, SecureInvariant, PTL

\* Card and SDK never go on with different sessions: whatever the reader loses, repeats
\* or exchanges, handshakes, commands, failures and key changes keep both in step.
THEOREM LayersAgree == SecureSpec => []SecureSessionsAgree
<1>1. SecureInv => SecureSessionsAgree
  BY SecurePromises
<1> QED  BY <1>1, SecureInvariant, PTL

\* An answer the sessions return as verified is the card's, to this command and whole;
\* no vector protects two messages.
THEOREM VerifiedAnswersAreFresh == SecureSpec => []SecureAnswersAreFresh
<1>1. SecureInv => SecureAnswersAreFresh
  BY SecurePromises
<1> QED  BY <1>1, SecureInvariant, PTL

\* not_sent is only told of what no card heard, in every layer of secure messaging.
THEOREM LayersNotSentUnheard == SecureSpec => []SecureNotSentUnheard
<1>1. SecureInv => SecureNotSentUnheard
  BY SecurePromises
<1> QED  BY <1>1, SecureInvariant, PTL

\* The checked commands carry keys only enciphered under a session, ask the channel for
\* nothing it refuses, and report a key change only if the named slot holds the new key.
THEOREM KeysAreProtected ==
    SecureSpec => [](layer = "checked" =>
                         /\ SecretsEnciphered /\ AdmittedIsSendable
                         /\ KeyChangeTakesEffect)
<1>1. SecureInv =>
          (layer = "checked" =>
               SecretsEnciphered /\ AdmittedIsSendable /\ KeyChangeTakesEffect)
  BY SecurePromises
<1> QED  BY <1>1, SecureInvariant, PTL

=============================================================================
