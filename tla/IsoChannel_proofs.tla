------------------------- MODULE IsoChannel_proofs -------------------------
(***************************************************************************)
(* Proofs about IsoChannel, for any callers, calls, answers and transport  *)
(* capacities: the length encoding is read back as it was meant, one       *)
(* inductive invariant gives the safety properties of the channel, and the *)
(* channel implements ExchangeContract.                                    *)
(***************************************************************************)
EXTENDS IsoChannel, TLAPS

-----------------------------------------------------------------------------
(***************************************************************************)
(* The inductive invariant.                                                *)
(***************************************************************************)
\* The records, in full.
Requests == {Encode(a) : a \in CallType} \cup {GetResponse(n) : n \in 0..255}
LocalType ==
    [generation : 0..MaxGeneration, attempted : BOOLEAN, sent : BOOLEAN,
     continuation : BOOLEAN, corrected : BOOLEAN, assembled : Nat, index : Nat,
     request : Requests \cup {NoFrame}]
ReadingType == [data : Nat, le : Nat, asked : Nat]
HeardType ==
    [frames : Nat, executed : Nat, replied : Nat, intact : BOOLEAN, late : Nat,
     asked : Nat, read : SUBSET ReadingType]
ResultType ==
    [code : {None, "ok", "transport", "invalid", "malformed", "card_removed",
             "cancelled", "timeout", "internal"},
     outcome : Outcomes, size : Nat, sw1 : {"61", "6C", "other"}]

RecordsOK ==
    /\ local \in LocalType
    /\ heard \in [Callers -> HeardType]
    /\ result \in [Callers -> ResultType]
    /\ wire = <<>> \/ \E w \in Answers : wire = <<w>>

Inside(c) == pc[c] \in {"entered", "frame", "transport", "response", "resetting"}

\* The mutex, the activity flag and the control points agree; outside a loop
\* the locals are new.
LockInv ==
    /\ \A c \in Callers : Inside(c) <=> owner = c
    /\ active <=> owner # None
    /\ nested => owner \in Callers /\ pc[owner] \in {"transport", "resetting"}
    /\ owner = None \/ pc[owner] \in {"entered", "resetting"} =>
         local = NewLocal(0) /\ wire = <<>>

\* A stop, the deadline or a card change: each stays.
Late(c) == expired[c] \/ stopped[c] \/ generation # local.generation

\* The expected length due next: the caller's, or the one the card asked for,
\* which only a caller that allows the correction sends.
Due(c, n) ==
    /\ n = IF heard[c].asked = NoLe THEN call[c].le ELSE heard[c].asked
    /\ heard[c].asked # NoLe => call[c].correct

\* The request is the command with the length that is due, or GET RESPONSE.
Asks(c) ==
    IF local.continuation THEN \E n \in 0..255 : local.request = GetResponse(n)
    ELSE \E n \in Nat :
           /\ local.request = Encode([call[c] EXCEPT !.le = n])
           /\ Encodable([call[c] EXCEPT !.le = n])
           /\ Due(c, n)

\* The Budget and the locals are what the card heard and answered.
Steady(c) ==
    /\ local.assembled <= call[c].limit
    /\ local.generation <= generation
    /\ generation = local.generation => heard[c].intact
    /\ heard[c].late <= 1
    /\ heard[c].late > 0 => Late(c)

\* Between two frames.
Before(c) ==
    /\ Steady(c) /\ Asks(c)
    /\ wire = <<>>
    /\ heard[c].frames = local.index
    /\ heard[c].executed = (IF local.continuation THEN 1 ELSE 0)
    /\ heard[c].replied = local.assembled
    /\ local.index > 0 => local.sent /\ local.attempted

\* The card has heard one frame more.
After(c) ==
    /\ Steady(c)
    /\ wire # <<>>
    /\ local.attempted
    /\ local.index < call[c].frames
    /\ heard[c].frames = local.index + 1
    /\ heard[c].executed = (IF local.continuation \/ Answer.sw1 # "6C" THEN 1 ELSE 0)
    /\ heard[c].replied = local.assembled + (IF Answer.short THEN 0 ELSE Answer.size)
    /\ Answer.sw1 = "6C" /\ ~local.continuation => heard[c].asked = Adjusted

AtFrame(c) == pc[c] = "frame" => Before(c) /\ local.index <= call[c].frames

AtTransport(c) ==
    pc[c] = "transport" =>
        \/ /\ Before(c) /\ local.attempted
           /\ local.index < call[c].frames /\ heard[c].late = 0
        \/ After(c)

AtResponse(c) == pc[c] = "response" => After(c)

NotStarted(c) == pc[c] \in {"idle", "entered", "resetting"} => heard[c] = Unheard

Returned(c) ==
    pc[c] = "returned" =>
        /\ heard[c].late <= 1 /\ heard[c].executed <= 1
        /\ heard[c].frames <= call[c].frames
        /\ result[c].outcome = "not_sent" => heard[c].frames = 0
        /\ result[c].code = "ok" /\ heard[c].frames > 0 =>
             /\ heard[c].intact
             /\ result[c].sw1 # "6C" => heard[c].executed = 1
             /\ result[c].size = heard[c].replied
             /\ result[c].size <= call[c].limit

NoResultYet(c) == pc[c] # "returned" => result[c] = NoResult

ReadRight(c, r) ==
    /\ r.data = call[c].data
    /\ r.le = IF r.asked = NoLe THEN call[c].le ELSE r.asked
    /\ r.asked # NoLe => call[c].correct

ReadsRight(c) == \A r \in heard[c].read : ReadRight(c, r)

OneOp(c) ==
    /\ NotStarted(c) /\ AtFrame(c) /\ AtTransport(c) /\ AtResponse(c)
    /\ Returned(c) /\ NoResultYet(c) /\ ReadsRight(c)

OpInv == \A c \in Callers : OneOp(c)

\* TypeOK of the module without its bound on `assembled`, which OpInv gives.
Typed ==
    /\ generation \in 0..MaxGeneration
    /\ owner \in Callers \cup {None}
    /\ active \in BOOLEAN /\ nested \in BOOLEAN
    /\ pc \in [Callers -> {"idle", "entered", "frame", "transport", "response",
                           "resetting", "returned"}]
    /\ call \in [Callers -> Calls]
    /\ expired \in [Callers -> BOOLEAN] /\ stopped \in [Callers -> BOOLEAN]
    /\ RecordsOK

IInv == Typed /\ LockInv /\ OpInv

-----------------------------------------------------------------------------
(***************************************************************************)
(* The length encoding.                                                    *)
(***************************************************************************)
\* Two bytes hold a length up to 65535, one byte a length up to 255; both read
\* zero at one more.
TwoBytes(n) ==
    /\ High(n) \in Nat /\ Low(n) \in Nat
    /\ n <= 65535 => 256 * High(n) + Low(n) = n
    /\ n <= 255 => Low(n) = n
    /\ n = 256 => Low(n) = 0
    /\ n = 65536 => High(n) = 0 /\ Low(n) = 0

\* Those facts about bytes hold of every length.
LEMMA Bytes == \A n \in Nat : TwoBytes(n)
<1> SUFFICES ASSUME NEW n \in Nat PROVE TwoBytes(n)
  OBVIOUS
<1>1. /\ n \div 256 \in Nat /\ n % 256 \in Nat /\ n % 256 <= 255
      /\ n = 256 * (n \div 256) + (n % 256)
  BY SMT
<1>2. (n \div 256) % 256 \in Nat
  BY <1>1, SMT
<1>3. n <= 65535 => (n \div 256) % 256 = n \div 256
  <2>1. n <= 65535 => n \div 256 <= 255  BY <1>1, SMT
  <2> QED  BY <1>1, <2>1, SMT
<1>4. n = 65536 => (n \div 256) % 256 = 0 /\ n % 256 = 0
  BY SMT
<1>5. n = 256 => n % 256 = 0
  BY SMT
<1>6. n <= 255 => n % 256 = n
  BY SMT
<1> QED  BY <1>1, <1>2, <1>3, <1>4, <1>5, <1>6, SMT DEF TwoBytes, High, Low

\* encode_fields() and a card that reads by ISO 7816-4 agree: for every Apdu
\* that can be encoded, the card reads the data length and the Le the caller
\* meant, short or extended, zero as 256 or 65536 included.
THEOREM LengthsAreRead ==
    ASSUME NEW a \in CallType, Encodable(a)
    PROVE  CardReads(Encode(a)) = [data |-> a.data, le |-> a.le]
<1> DEFINE f == Encode(a)
           field == f.lc \o f.le
           rest == FrameSize(f) - 4
           tail == Len(f.le)
           read == CardReads(f)
<1>1. /\ a.data \in Nat /\ a.data <= 65535
      /\ a.le \in Nat /\ a.le <= 65536
  BY SMT DEF Encodable, CallType
<1>2. TwoBytes(a.data) /\ TwoBytes(a.le)
  <2>1. a.data \in Nat /\ a.le \in Nat  BY <1>1, SMT
  <2> QED  BY <2>1, Bytes, Zenon
<1>3. ~Extended(a) => a.data <= 255 /\ a.le <= 256
  BY <1>1, SMT DEF Extended, NeedsExtended
<1>4. /\ a.le # 0 /\ a.le <= 256 => ZeroMeans(Low(a.le), 256) = a.le
      /\ a.le # 0 => ZeroMeans(256 * High(a.le) + Low(a.le), 65536) = a.le
  <2>1. CASE a.le <= 255
    <3>1. Low(a.le) = a.le /\ 256 * High(a.le) + Low(a.le) = a.le
      BY <1>1, <1>2, <2>1, SMT DEF TwoBytes
    <3> QED  BY <3>1, SMT DEF ZeroMeans
  <2>2. CASE a.le = 256
    <3>1. Low(a.le) = 0 /\ 256 * High(a.le) + Low(a.le) = a.le
      BY <1>2, <2>2, SMT DEF TwoBytes
    <3> QED  BY <2>2, <3>1, SMT DEF ZeroMeans
  <2>3. CASE a.le > 256 /\ a.le <= 65535
    <3>1. 256 * High(a.le) + Low(a.le) = a.le
      BY <1>2, <2>3, SMT DEF TwoBytes
    <3> QED  BY <1>1, <2>3, <3>1, SMT DEF ZeroMeans
  <2>4. CASE a.le = 65536
    <3>1. High(a.le) = 0 /\ Low(a.le) = 0
      BY <1>2, <2>4, SMT DEF TwoBytes
    <3> QED  BY <2>4, <3>1, SMT DEF ZeroMeans
  <2> QED  BY <1>1, <2>1, <2>2, <2>3, <2>4, SMT
<1>5. read = IF rest = 0 THEN [data |-> 0, le |-> NoLe]
        ELSE IF rest = 1 THEN [data |-> 0, le |-> ZeroMeans(field[1], 256)]
        ELSE IF field[1] # 0
        THEN [data |-> field[1],
              le |-> IF rest = field[1] + 1 THEN NoLe
                     ELSE ZeroMeans(field[Len(field)], 256)]
        ELSE IF rest = 2 THEN [data |-> -1, le |-> NoLe]
        ELSE IF rest = 3
        THEN [data |-> 0, le |-> ZeroMeans(256 * field[2] + field[2 + 1], 65536)]
        ELSE [data |-> 256 * field[2] + field[2 + 1],
              le |-> IF tail = 0 THEN NoLe
                     ELSE ZeroMeans(256 * field[Len(field) - 1]
                                      + field[Len(field) - 1 + 1], 65536)]
  BY SMT DEF CardReads
<1> USE DEF NoLe
<1> HIDE DEF read, field, rest, tail
<1>7. CASE a.data = 0 /\ a.le = 0
  <2>1. f = [ins |-> "command", lc |-> <<>>, data |-> 0, le |-> <<>>]
    BY <1>7, SMT DEF Encode, NoLe
  <2>2. rest = 0  BY <2>1, SMT DEF rest, FrameSize
  <2> QED  BY <1>5, <1>7, <2>2, SMT DEF read
<1>8. CASE a.data = 0 /\ a.le # 0 /\ ~Extended(a)
  <2>1. f = [ins |-> "command", lc |-> <<>>, data |-> 0, le |-> <<Low(a.le)>>]
    BY <1>8, SMT DEF Encode, NoLe
  <2>2. rest = 1 /\ field[1] = Low(a.le)  BY <2>1, SMT DEF rest, field, FrameSize
  <2> QED  BY <1>3, <1>4, <1>5, <1>8, <2>2, SMT DEF read
<1>9. CASE a.data = 0 /\ a.le # 0 /\ Extended(a)
  <2>1. f = [ins |-> "command", lc |-> <<>>, data |-> 0,
             le |-> <<0>> \o <<High(a.le), Low(a.le)>>]
    BY <1>9, SMT DEF Encode, NoLe
  <2>2. /\ rest = 3 /\ field[1] = 0 /\ field[2] = High(a.le) /\ field[2 + 1] = Low(a.le)
    BY <2>1, SMT DEF rest, field, FrameSize
  <2> QED  BY <1>4, <1>5, <1>9, <2>2, SMT DEF read
<1>10. CASE a.data # 0 /\ ~Extended(a)
  <2>1. f = [ins |-> "command", lc |-> <<Low(a.data)>>, data |-> a.data,
             le |-> IF a.le = 0 THEN <<>> ELSE <<Low(a.le)>>]
    BY <1>10, SMT DEF Encode, NoLe
  <2>2. Low(a.data) = a.data  BY <1>1, <1>2, <1>3, <1>10, SMT DEF TwoBytes
  <2>3. field[1] = a.data /\ rest # 0 /\ rest # 1
    BY <1>1, <1>10, <2>1, <2>2, SMT DEF rest, field, FrameSize
  <2>4. CASE a.le = 0
    <3>1. rest = a.data + 1  BY <1>1, <2>1, <2>4, SMT DEF rest, FrameSize
    <3> QED  BY <1>5, <1>10, <2>3, <2>4, <3>1, SMT DEF read
  <2>5. CASE a.le # 0
    <3>1. rest = a.data + 2 /\ field[Len(field)] = Low(a.le)
      BY <1>1, <2>1, <2>5, SMT DEF rest, field, FrameSize
    <3>2. rest # a.data + 1  BY <1>1, <3>1, SMT
    <3> QED  BY <1>3, <1>4, <1>5, <1>10, <2>3, <2>5, <3>1, <3>2, SMT DEF read
  <2> QED  BY <2>4, <2>5, Zenon
<1>11. CASE a.data # 0 /\ Extended(a)
  <2>1. f.lc = <<0, High(a.data), Low(a.data)>> /\ f.data = a.data
    BY <1>11, SMT DEF Encode
  <2>2. CASE a.le = 0
    <3>1. f.le = <<>>  BY <2>2, SMT DEF Encode, NoLe
    <3>2. rest = 3 + a.data /\ tail = 0
      BY <1>1, <2>1, <3>1, SMT DEF rest, tail, FrameSize
    <3>3. field[1] = 0 /\ field[2] = High(a.data) /\ field[2 + 1] = Low(a.data)
      BY <2>1, <3>1, SMT DEF field
    <3>4. rest \notin {0, 1, 2, 3} /\ 256 * field[2] + field[2 + 1] = a.data
      BY <1>1, <1>2, <1>11, <3>2, <3>3, SMT DEF TwoBytes
    <3> QED  BY <1>5, <2>2, <3>2, <3>3, <3>4, SMT DEF read
  <2>3. CASE a.le # 0
    <3>1. f.le = <<High(a.le), Low(a.le)>>
      <4>1. f.le = <<>> \o <<High(a.le), Low(a.le)>>  BY <1>11, <2>3, SMT DEF Encode, NoLe
      <4> QED  BY <4>1, SMT
    <3>2. rest = 5 + a.data /\ tail = 2
      BY <1>1, <2>1, <3>1, SMT DEF rest, tail, FrameSize
    <3>3. /\ field[1] = 0 /\ field[2] = High(a.data) /\ field[2 + 1] = Low(a.data)
          /\ Len(field) = 5 /\ field[4] = High(a.le) /\ field[5] = Low(a.le)
      BY <2>1, <3>1, SMT DEF field
    <3>4. rest \notin {0, 1, 2, 3} /\ 256 * field[2] + field[2 + 1] = a.data
      BY <1>1, <1>2, <1>11, <3>2, <3>3, SMT DEF TwoBytes
    <3>5. field[Len(field) - 1] = High(a.le) /\ field[Len(field) - 1 + 1] = Low(a.le)
      BY <3>3, SMT
    <3> QED  BY <1>4, <1>5, <2>3, <3>2, <3>3, <3>4, <3>5, SMT DEF read
  <2> QED  BY <2>2, <2>3, Zenon
<1> QED  BY <1>7, <1>8, <1>9, <1>10, <1>11, SMT


-----------------------------------------------------------------------------
(***************************************************************************)
(* The records the actions build have their types.                         *)
(***************************************************************************)
LEMMA NewLocalType == \A g \in 0..MaxGeneration : NewLocal(g) \in LocalType
<1> SUFFICES ASSUME NEW g \in 0..MaxGeneration PROVE NewLocal(g) \in LocalType
  OBVIOUS
<1>1. 0 \in Nat
  OBVIOUS
<1>2. NoFrame \in Requests \cup {NoFrame}
  OBVIOUS
<1> QED BY <1>1, <1>2, Zenon DEF NewLocal, LocalType

\* The result and the hearing a call starts with have their types.
LEMMA InitialRecords == NoResult \in ResultType /\ Unheard \in HeardType
<1>1. 0 \in Nat
  OBVIOUS
<1>2. NoResult \in ResultType
  BY <1>1, Zenon DEF NoResult, ResultType, Outcomes
<1>3. Unheard \in HeardType
  <2>1. {} \in SUBSET ReadingType
    OBVIOUS
  <2>2. NoLe \in Nat
    BY DEF NoLe
  <2> QED BY <1>1, <2>1, <2>2, Zenon DEF Unheard, HeardType
<1> QED BY <1>2, <1>3

Failures == {"transport", "invalid", "malformed", "card_removed", "cancelled",
             "timeout", "internal"}

\* An error has the type of a result and is none.
LEMMA ErrorFields ==
    ASSUME NEW code \in Failures, NEW o \in {"not_sent", "unknown"}
    PROVE  /\ Error(code, o) \in ResultType
           /\ Error(code, o).code # "ok" /\ Error(code, o).outcome = o
<1>1. 0 \in Nat /\ o \in Outcomes /\ "other" \in {"61", "6C", "other"}
  BY DEF Outcomes
<1>2. code \in {None, "ok", "transport", "invalid", "malformed", "card_removed",
                "cancelled", "timeout", "internal"} /\ code # "ok"
  BY DEF Failures
<1>3. Error(code, o) \in ResultType
  BY <1>1, <1>2, Zenon DEF Error, ResultType
<1> QED BY <1>2, <1>3 DEF Error

\* Field types, for the arithmetic below.
LEMMA Fields ==
    ASSUME Typed, NEW c \in Callers
    PROVE  /\ generation \in Nat /\ local.generation \in Nat
           /\ local.attempted \in BOOLEAN /\ local.sent \in BOOLEAN
           /\ local.continuation \in BOOLEAN /\ local.corrected \in BOOLEAN
           /\ local.assembled \in Nat /\ local.index \in Nat
           /\ heard[c].frames \in Nat /\ heard[c].executed \in Nat
           /\ heard[c].replied \in Nat /\ heard[c].late \in Nat
           /\ heard[c].intact \in BOOLEAN
           /\ heard[c].asked \in Nat /\ heard[c].read \in SUBSET ReadingType
           /\ call[c] \in CallType
           /\ call[c].limit \in Nat /\ call[c].frames \in Nat
           /\ call[c].data \in Nat /\ call[c].le \in Nat
           /\ call[c].correct \in BOOLEAN
<1>1. heard[c] \in HeardType /\ call[c] \in CallType /\ local \in LocalType
  BY ConstantsAssumption DEF Typed, RecordsOK
<1>2. generation \in Nat /\ local.generation \in Nat
  BY <1>1, ConstantsAssumption DEF Typed, LocalType
<1> QED  BY <1>1, <1>2 DEF LocalType, HeardType, CallType

\* The answer on the wire.
LEMMA AnswerFields ==
    ASSUME Typed, wire # <<>>
    PROVE  /\ Answer \in Answers /\ wire = <<Answer>>
           /\ Answer.short \in BOOLEAN /\ Answer.sw1 \in {"61", "6C", "other"}
           /\ Answer.sw2 \in Nat /\ Answer.sw2 \in 0..255 /\ Answer.size \in Nat
<1>1. PICK w \in Answers : wire = <<w>>
  BY DEF Typed, RecordsOK
<1>2. Answer = w
  BY <1>1 DEF Answer
<1>3. Answer \in WireType
  BY <1>2, ConstantsAssumption
<1> QED  BY <1>1, <1>2, <1>3 DEF WireType

\* A command with another Le is a command, and its frame a request.
LEMMA RetryIsACall ==
    ASSUME NEW a \in CallType, NEW n \in Nat
    PROVE  /\ [a EXCEPT !.le = n] \in CallType
           /\ [a EXCEPT !.le = n].le = n /\ [a EXCEPT !.le = n].data = a.data
           /\ Encode([a EXCEPT !.le = n]) \in Requests
<1>1. [a EXCEPT !.le = n] \in CallType
  BY DEF CallType
<1>2. [a EXCEPT !.le = n].le = n /\ [a EXCEPT !.le = n].data = a.data
  BY DEF CallType
<1> QED  BY <1>1, <1>2, Zenon DEF Requests

\* A command is asked for, or GET RESPONSE; the card can tell them apart.
LEMMA WhatIsAsked ==
    ASSUME Typed, NEW c \in Callers, Asks(c)
    PROVE  /\ local.request.ins = "command" <=> ~local.continuation
           /\ ~local.continuation =>
                 \E n \in Nat :
                    /\ CardReads(local.request) = [data |-> call[c].data, le |-> n]
                    /\ Due(c, n)
<1>1. CASE local.continuation
  <2>1. PICK n \in 0..255 : local.request = GetResponse(n)
    BY <1>1 DEF Asks
  <2>2. local.request.ins = "get_response"
    BY <2>1 DEF GetResponse
  <2> QED  BY <1>1, <2>2
<1>2. CASE ~local.continuation
  <2>1. PICK n \in Nat :
           /\ local.request = Encode([call[c] EXCEPT !.le = n])
           /\ Encodable([call[c] EXCEPT !.le = n])
           /\ Due(c, n)
    BY <1>2, Zenon DEF Asks
  <2> DEFINE a == [call[c] EXCEPT !.le = n]
  <2>2. call[c] \in CallType
    BY Fields
  <2>3. a \in CallType /\ a.le = n /\ a.data = call[c].data
    BY <2>2, RetryIsACall
  <2>4. Encode(a).ins = "command"
    BY Zenon DEF Encode
  <2> HIDE DEF a
  <2>5. CardReads(Encode(a)) = [data |-> call[c].data, le |-> n]
    <3>1. Encodable(a)  BY <2>1 DEF a
    <3>2. CardReads(Encode(a)) = [data |-> a.data, le |-> a.le]
      BY <2>3, <3>1, LengthsAreRead, Zenon
    <3> QED  BY <2>3, <3>2, Zenon
  <2>6. local.request = Encode(a)
    BY <2>1 DEF a
  <2> QED  BY <1>2, <2>1, <2>4, <2>5, <2>6, Zenon
<1> QED  BY <1>1, <1>2

-----------------------------------------------------------------------------
(***************************************************************************)
(* What a step leaves alone.                                               *)
(***************************************************************************)
\* A caller outside the mutex is untouched by a step that changes neither its
\* control point nor its records.
LEMMA OutsideUntouched ==
    ASSUME NEW d \in Callers, OneOp(d), ~Inside(d),
           pc'[d] = pc[d], heard'[d] = heard[d], result'[d] = result[d],
           call' = call
    PROVE  OneOp(d)'
<1> USE DEF Inside, OneOp
<1>1. NotStarted(d)' /\ Returned(d)' /\ NoResultYet(d)' /\ ReadsRight(d)'
  BY DEF NotStarted, Returned, NoResultYet, ReadsRight, ReadRight
<1>2. AtFrame(d)' /\ AtTransport(d)' /\ AtResponse(d)'
  BY DEF AtFrame, AtTransport, AtResponse
<1> QED  BY <1>1, <1>2

\* A caller whose own state and locals are unchanged keeps its part; its
\* deadline and its stop token may only fire.
LEMMA StateUntouched ==
    ASSUME NEW d \in Callers, OneOp(d),
           pc'[d] = pc[d], heard'[d] = heard[d], result'[d] = result[d],
           call' = call, local' = local, wire' = wire, generation' = generation,
           expired[d] => expired'[d], stopped[d] => stopped'[d]
    PROVE  OneOp(d)'
<1> USE DEF OneOp
<1>1. NotStarted(d)' /\ Returned(d)' /\ NoResultYet(d)' /\ ReadsRight(d)'
  BY DEF NotStarted, Returned, NoResultYet, ReadsRight, ReadRight
<1>2. Steady(d) => Steady(d)'
  BY DEF Steady, Late
<1>3. Asks(d) => Asks(d)'
  BY Zenon DEF Asks, Due
<1>4. /\ Before(d) => Before(d)'
      /\ After(d) => After(d)'
  BY <1>2, <1>3 DEF Before, After, Answer, Adjusted
<1>5. AtFrame(d)' /\ AtTransport(d)' /\ AtResponse(d)'
  BY <1>4 DEF AtFrame, AtTransport, AtResponse
<1> QED  BY <1>1, <1>5

\* The caller that holds the mutex excludes every other caller's exchange.
LEMMA OthersOutside ==
    ASSUME LockInv, NEW c \in Callers, NEW d \in Callers, d # c,
           owner = c \/ owner = None
    PROVE  ~Inside(d)
BY ConstantsAssumption DEF LockInv

\* The inductive invariant holds before any call.
LEMMA InitIInv == Init => IInv
<1> SUFFICES ASSUME Init PROVE IInv
  OBVIOUS
<1> USE DEF Init
<1>1. Typed
  <2>1. 0 \in 0..MaxGeneration
    BY ConstantsAssumption
  <2>2. RecordsOK
    BY <2>1, NewLocalType, InitialRecords DEF RecordsOK
  <2> QED  BY <2>1, <2>2 DEF Typed
<1>2. LockInv
  BY ConstantsAssumption DEF LockInv, Inside
<1>3. OpInv
  <2>1. \A c \in Callers : pc[c] = "idle" /\ heard[c] = Unheard /\ result[c] = NoResult
    OBVIOUS
  <2>2. Unheard.read = {}
    BY DEF Unheard
  <2> QED
    BY <2>1, <2>2 DEF OpInv, OneOp, NotStarted, AtFrame, AtTransport, AtResponse, Returned,
           NoResultYet, ReadsRight, ReadRight
<1> QED  BY <1>1, <1>2, <1>3 DEF IInv

-----------------------------------------------------------------------------
(***************************************************************************)
(* The steps preserve the invariant, one lemma per group of actions.       *)
(***************************************************************************)
\* exchange() or reset() takes the free mutex.
LEMMA EnterStep ==
    ASSUME IInv, NEW c \in Callers, NEW label \in {"entered", "resetting"},
           Enter(c, label)
    PROVE  IInv'
<1> USE DEF IInv
<1>1. /\ owner = None /\ owner' = c /\ active' = TRUE /\ pc[c] = "idle"
      /\ pc' = [pc EXCEPT ![c] = label]
      /\ UNCHANGED <<nested, generation, call, expired, stopped, local, wire, result, heard>>
  BY DEF Enter, Goto
<1>2. Typed'
  BY <1>1 DEF Typed, RecordsOK
<1>3. pc'[c] = label /\ \A d \in Callers : d # c => pc'[d] = pc[d]
  BY <1>1 DEF Typed
<1>4. LockInv'
  <2>1. local = NewLocal(0) /\ wire = <<>> /\ ~nested
    BY <1>1, ConstantsAssumption DEF LockInv
  <2>2. \A d \in Callers : Inside(d)' <=> owner' = d
    BY <1>1, <1>3, OthersOutside DEF LockInv, Inside
  <2> QED  BY <1>1, <2>1, <2>2, ConstantsAssumption DEF LockInv
<1>5. OneOp(c)'
  <2>1. heard[c] = Unheard /\ result[c] = NoResult /\ ReadsRight(c)
    BY <1>1 DEF OpInv, OneOp, NotStarted, NoResultYet
  <2>2. ReadsRight(c)'
    BY <1>1, <2>1 DEF ReadsRight, ReadRight
  <2> QED
    BY <1>1, <1>3, <2>1, <2>2
    DEF OneOp, NotStarted, NoResultYet, AtFrame, AtTransport, AtResponse, Returned
<1>6. ASSUME NEW d \in Callers, d # c PROVE OneOp(d)'
  BY <1>1, <1>3, <1>6, StateUntouched DEF OpInv
<1> QED  BY <1>2, <1>4, <1>5, <1>6 DEF OpInv

\* A reentering callback, the deadline and the stop token change no exchange.
LEMMA SignalSteps ==
    ASSUME IInv, NEW c \in Callers,
           Reenter(c) \/ ReentryRefused \/ DeadlinePasses(c) \/ StopRequested(c)
    PROVE  IInv'
<1> USE DEF IInv
<1>1. /\ UNCHANGED <<pc, heard, result, call, local, wire, generation, owner, active>>
      /\ \A d \in Callers : (expired[d] => expired'[d]) /\ (stopped[d] => stopped'[d])
  BY DEF Reenter, ReentryRefused, DeadlinePasses, StopRequested, chVars, Typed
<1>2. Typed'
  BY DEF Reenter, ReentryRefused, DeadlinePasses, StopRequested, chVars, Typed, RecordsOK
<1>3. LockInv'
  <2>1. nested' => owner \in Callers /\ pc[owner] \in {"transport", "resetting"}
    BY DEF Reenter, ReentryRefused, DeadlinePasses, StopRequested, LockInv, Inside, chVars
  <2> QED  BY <1>1, <2>1 DEF LockInv, Inside
<1>4. ASSUME NEW d \in Callers PROVE OneOp(d)'
  BY <1>1, StateUntouched DEF OpInv
<1> QED  BY <1>2, <1>3, <1>4 DEF OpInv

\* The card changes under an exchange: from then on it is late.
LEMMA CardChangesStep ==
    ASSUME IInv, CardChanges
    PROVE  IInv'
<1> USE DEF IInv
<1>1. /\ UNCHANGED <<pc, heard, result, call, local, wire, expired, stopped, owner,
                     active, nested>>
      /\ generation' = generation + 1 /\ generation < MaxGeneration
  BY DEF CardChanges, chVars
<1>2. Typed'
  <2>1. generation' \in 0..MaxGeneration
    BY <1>1, ConstantsAssumption DEF Typed
  <2> QED  BY <1>1, <2>1 DEF Typed, RecordsOK
<1>3. LockInv'
  BY <1>1 DEF LockInv, Inside
<1>4. ASSUME NEW d \in Callers PROVE OneOp(d)'
  <2>1. NotStarted(d)' /\ Returned(d)' /\ NoResultYet(d)' /\ ReadsRight(d)'
    BY <1>1 DEF OpInv, OneOp, NotStarted, Returned, NoResultYet, ReadsRight,
      ReadRight
  <2>2. Steady(d) => Steady(d)'
    BY <1>1, Fields DEF Steady, Late
  <2>3. Asks(d) => Asks(d)'
    BY <1>1, Zenon DEF Asks, Due
  <2>4. /\ Before(d) => Before(d)'
        /\ After(d) => After(d)'
    BY <1>1, <2>2, <2>3 DEF Before, After, Answer, Adjusted
  <2>5. AtFrame(d)' /\ AtTransport(d)' /\ AtResponse(d)'
    BY <1>1, <2>4 DEF OpInv, OneOp, AtFrame, AtTransport, AtResponse
  <2> QED  BY <2>1, <2>5 DEF OneOp
<1> QED  BY <1>2, <1>3, <1>4 DEF OpInv

\* Every way out of the channel: the call reports r and releases.  What is
\* left to show for each action is that r is the truth.
LEMMA ReturnStep ==
    ASSUME IInv, NEW c \in Callers, NEW r \in ResultType, Inside(c), ~nested,
           Return(c, r),
           heard[c].late <= 1, heard[c].executed <= 1, heard[c].frames <= call[c].frames,
           r.outcome = "not_sent" => heard[c].frames = 0,
           r.code = "ok" /\ heard[c].frames > 0 =>
              /\ heard[c].intact
              /\ r.sw1 # "6C" => heard[c].executed = 1
              /\ r.size = heard[c].replied
              /\ r.size <= call[c].limit
    PROVE  IInv'
<1> USE DEF IInv
<1>1. owner = c
  BY DEF LockInv
<1>2. /\ pc' = [pc EXCEPT ![c] = "returned"] /\ result' = [result EXCEPT ![c] = r]
      /\ owner' = None /\ active' = FALSE /\ nested' = nested
      /\ local' = NewLocal(0) /\ wire' = <<>>
      /\ expired' = [expired EXCEPT ![c] = FALSE]
      /\ stopped' = [stopped EXCEPT ![c] = FALSE]
      /\ UNCHANGED <<generation, call, heard>>
  BY DEF Return, Goto
<1>3. Typed'
  <2>1. local' \in LocalType
    <3>1. 0 \in 0..MaxGeneration
      BY ConstantsAssumption
    <3> QED  BY <1>2, <3>1, NewLocalType
  <2>2. result' \in [Callers -> ResultType] /\ heard' \in [Callers -> HeardType]
    BY <1>2 DEF Typed, RecordsOK
  <2> QED  BY <1>2, <2>1, <2>2 DEF Typed, RecordsOK
<1>4. \A d \in Callers : d # c => ~Inside(d) /\ pc'[d] = pc[d] /\ result'[d] = result[d]
  BY <1>1, <1>2, OthersOutside DEF Typed
<1>5. pc'[c] = "returned" /\ result'[c] = r
  BY <1>2 DEF Typed, RecordsOK
<1>6. LockInv'
  <2>1. \A d \in Callers : ~Inside(d)'
    BY <1>4, <1>5 DEF Inside
  <2> QED  BY <1>2, <2>1, ConstantsAssumption DEF LockInv
<1>7. OneOp(c)'
  <2>1. Returned(c)'
    BY <1>2, <1>5 DEF Returned
  <2>2. ReadsRight(c)'
    BY <1>2 DEF OpInv, OneOp, ReadsRight, ReadRight
  <2> QED  BY <1>5, <2>1, <2>2
           DEF OneOp, NotStarted, AtFrame, AtTransport, AtResponse, NoResultYet
<1>8. ASSUME NEW d \in Callers, d # c PROVE OneOp(d)'
  BY <1>2, <1>4, <1>8, OutsideUntouched DEF OpInv
<1> QED  BY <1>3, <1>6, <1>7, <1>8 DEF OpInv

\* A call that fails need only have heard too little for "not sent".
LEMMA FailStep ==
    ASSUME IInv, NEW c \in Callers, Inside(c), ~nested,
           NEW code \in Failures, NEW o \in {"not_sent", "unknown"},
           Return(c, Error(code, o)),
           heard[c].late <= 1, heard[c].executed <= 1, heard[c].frames <= call[c].frames,
           o = "not_sent" => heard[c].frames = 0
    PROVE  IInv'
<1> DEFINE r == Error(code, o)
<1>1. r \in ResultType /\ r.code # "ok" /\ r.outcome = o
  BY ErrorFields
<1> HIDE DEF r
<1>2. Return(c, r)
  BY DEF r
<1> QED  BY <1>1, <1>2, ReturnStep

\* A step of the owner that keeps the mutex disturbs no other caller.
LEMMA OwnerStep ==
    ASSUME IInv, NEW c \in Callers, Inside(c), ~nested,
           UNCHANGED <<owner, active, nested, call, result>>,
           \A d \in Callers : d # c => pc'[d] = pc[d] /\ heard'[d] = heard[d],
           Typed', pc'[c] \in {"frame", "transport", "response"}, OneOp(c)'
    PROVE  IInv'
<1> USE DEF IInv
<1>1. owner = c
  BY DEF LockInv
<1>2. \A d \in Callers : d # c => ~Inside(d)
  BY <1>1, OthersOutside
<1>3. LockInv'
  <2>1. \A d \in Callers : Inside(d)' <=> owner' = d
    BY <1>1, <1>2 DEF Inside
  <2> QED  BY <1>1, <2>1, ConstantsAssumption DEF LockInv
<1>4. ASSUME NEW d \in Callers, d # c PROVE OneOp(d)'
  BY <1>2, <1>4, OutsideUntouched DEF OpInv
<1> QED  BY <1>3, <1>4 DEF OpInv

\* What holds before and after a frame, in numbers.
LEMMA BeforeFacts ==
    ASSUME Typed, NEW c \in Callers, Before(c)
    PROVE  /\ heard[c].late <= 1 /\ heard[c].executed <= 1
           /\ heard[c].frames = local.index
           /\ ~local.sent => heard[c].frames = 0
           /\ ~local.attempted => heard[c].frames = 0
BY Fields DEF Before, Steady

\* What the stage after an answer keeps of the call and what the card heard.
LEMMA AfterFacts ==
    ASSUME Typed, NEW c \in Callers, After(c)
    PROVE  /\ heard[c].late <= 1 /\ heard[c].executed <= 1
           /\ heard[c].frames <= call[c].frames /\ heard[c].frames > 0
BY Fields DEF After, Steady

\* Where the exchange is.
LEMMA AtPoint ==
    ASSUME IInv, NEW c \in Callers
    PROVE  /\ pc[c] \in {"entered", "resetting"} =>
                 Inside(c) /\ heard[c] = Unheard /\ local = NewLocal(0) /\ wire = <<>>
           /\ pc[c] = "frame" => Inside(c) /\ ~nested /\ Before(c)
                                 /\ local.index <= call[c].frames
           /\ pc[c] = "transport" => Inside(c) /\ AtTransport(c)
           /\ pc[c] = "response" => Inside(c) /\ ~nested /\ After(c)
           /\ pc[c] = "entered" => ~nested
           /\ pc[c] # "returned" => result[c] = NoResult
           /\ ReadsRight(c)
<1>1. OneOp(c) /\ LockInv
  BY DEF IInv, OpInv
<1> QED
  BY <1>1 DEF OneOp, LockInv, Inside, NotStarted, AtFrame, AtResponse, NoResultYet

-----------------------------------------------------------------------------
\* The steps that return before the loop, or from reset().
LEMMA RefusedStep ==
    ASSUME IInv, NEW c \in Callers, Refused(c)
    PROVE  IInv'
<1>1. pc[c] = "entered" /\ Return(c, Error("invalid", "not_sent"))
  BY DEF Refused
<1>2. Inside(c) /\ ~nested /\ heard[c] = Unheard
  BY <1>1, AtPoint
<1>3. heard[c].late = 0 /\ heard[c].executed = 0 /\ heard[c].frames = 0
      /\ 0 <= call[c].frames
  BY <1>2, Fields DEF Unheard, IInv
<1> QED  BY <1>1, <1>2, <1>3, FailStep DEF Failures

\* reset() returns what the transport reported; no card heard anything of it.
LEMMA ResetReturnsStep ==
    ASSUME IInv, NEW c \in Callers, ResetReturns(c)
    PROVE  IInv'
<1>1. PICK o \in {"succeeded", "not_sent", "unknown"} :
         Return(c, Error(IF o = "succeeded" THEN "ok" ELSE "transport", o))
  BY DEF ResetReturns
<1>2. Inside(c) /\ ~nested /\ heard[c] = Unheard
  BY AtPoint DEF ResetReturns
<1>3. heard[c].late = 0 /\ heard[c].executed = 0 /\ heard[c].frames = 0
      /\ 0 <= call[c].frames
  BY <1>2, Fields DEF Unheard, IInv
<1> DEFINE r == Error(IF o = "succeeded" THEN "ok" ELSE "transport", o)
<1>4. r \in ResultType
  <2>1. 0 \in Nat /\ o \in Outcomes
    BY DEF Outcomes
  <2> QED  BY <2>1 DEF Error, ResultType
<1> HIDE DEF r
<1>5. Return(c, r)
  BY <1>1 DEF r
<1> QED  BY <1>2, <1>3, <1>4, <1>5, ReturnStep

\* The ways out at the head of the loop.
LEMMA FrameEndsStep ==
    ASSUME IInv, NEW c \in Callers, OutOfFrames(c) \/ Interrupted(c) \/ TooLarge(c)
    PROVE  IInv'
<1>1. pc[c] = "frame"
  BY DEF OutOfFrames, Interrupted, TooLarge
<1>2. Inside(c) /\ ~nested /\ Before(c) /\ local.index <= call[c].frames
  BY <1>1, AtPoint
<1>3. /\ heard[c].late <= 1 /\ heard[c].executed <= 1 /\ heard[c].frames <= call[c].frames
      /\ ~local.sent => heard[c].frames = 0
  BY <1>2, BeforeFacts DEF IInv
<1>4. Evidence \in {"not_sent", "unknown"} /\ (Evidence = "not_sent" => ~local.sent)
  BY DEF Evidence
<1>5. Interruption(c) # "ok" => Interruption(c) \in Failures
  BY DEF Interruption, Failures
<1>6. CASE OutOfFrames(c)
  BY <1>2, <1>3, <1>6, FailStep DEF OutOfFrames, Failures
<1>7. CASE Interrupted(c)
  BY <1>2, <1>3, <1>4, <1>5, <1>7, FailStep DEF Interrupted
<1>8. CASE TooLarge(c)
  BY <1>2, <1>3, <1>4, <1>8, FailStep DEF TooLarge, Failures
<1> QED  BY <1>6, <1>7, <1>8

\* The outer catch of exchange(): not_sent only before the first frame is tried.
LEMMA ThrowsStep ==
    ASSUME IInv, NEW c \in Callers, Throws(c)
    PROVE  IInv'
<1> DEFINE o == IF local.attempted THEN "unknown" ELSE "not_sent"
<1>1. pc[c] \in {"entered", "frame", "response"} /\ Return(c, Error("internal", o))
  BY DEF Throws
<1>2. Inside(c) /\ ~nested
  BY <1>1, AtPoint
<1>3. /\ heard[c].late <= 1 /\ heard[c].executed <= 1 /\ heard[c].frames <= call[c].frames
      /\ ~local.attempted => heard[c].frames = 0
  <2>1. CASE pc[c] = "entered"
    BY <2>1, AtPoint, Fields DEF Unheard, IInv
  <2>2. CASE pc[c] = "frame"
    BY <2>2, AtPoint, BeforeFacts DEF IInv
  <2>3. CASE pc[c] = "response"
    BY <2>3, AtPoint, AfterFacts DEF IInv, After
  <2> QED  BY <1>1, <2>1, <2>2, <2>3
<1>4. o \in {"not_sent", "unknown"} /\ (o = "not_sent" => ~local.attempted)
  OBVIOUS
<1> HIDE DEF o
<1> QED  BY <1>1, <1>2, <1>3, <1>4, FailStep DEF Failures

\* A failed transport call is not_sent only if this call sent nothing before.
LEMMA TransportFailsStep ==
    ASSUME IInv, NEW c \in Callers, NEW o \in {"not_sent", "unknown"},
           TransportFails(c, o)
    PROVE  IInv'
<1> DEFINE out == IF local.sent THEN AfterSend(o) ELSE o
<1>1. /\ pc[c] = "transport" /\ ~nested /\ Return(c, Error("transport", out))
      /\ o = "not_sent" => wire = <<>>
  BY DEF TransportFails
<1>2. Inside(c) /\ AtTransport(c)
  BY <1>1, AtPoint
<1>3. /\ heard[c].late <= 1 /\ heard[c].executed <= 1 /\ heard[c].frames <= call[c].frames
      /\ ~local.sent /\ wire = <<>> => heard[c].frames = 0
  <2>1. CASE Before(c) /\ local.index < call[c].frames
    BY <2>1, BeforeFacts, Fields DEF IInv
  <2>2. CASE After(c)
    <3>1. wire # <<>>
      BY <2>2 DEF After
    <3> QED  BY <2>2, <3>1, AfterFacts DEF IInv
  <2> QED  BY <1>1, <1>2, <2>1, <2>2 DEF AtTransport
<1>4. out \in {"not_sent", "unknown"} /\ (out = "not_sent" => ~local.sent /\ o = "not_sent")
  BY DEF AfterSend
<1> HIDE DEF out
<1> QED  BY <1>1, <1>2, <1>3, <1>4, FailStep DEF Failures

\* The loop begins with the caller's command.
LEMMA BeginStep ==
    ASSUME IInv, NEW c \in Callers, Begin(c)
    PROVE  IInv'
<1> USE DEF IInv
<1>1. /\ pc[c] = "entered" /\ pc' = [pc EXCEPT ![c] = "frame"] /\ Sendable(call[c])
      /\ local' = [NewLocal(generation) EXCEPT !.request = Encode(call[c])]
      /\ UNCHANGED <<owner, active, nested, generation, call, expired, stopped, wire,
                     result, heard>>
  BY DEF Begin, Goto, chVars
<1>2. Inside(c) /\ ~nested /\ heard[c] = Unheard /\ wire = <<>> /\ ReadsRight(c)
      /\ result[c] = NoResult
  BY <1>1, AtPoint
<1>3. /\ local'.generation = generation /\ local'.attempted = FALSE
      /\ local'.sent = FALSE /\ local'.continuation = FALSE
      /\ local'.assembled = 0 /\ local'.index = 0
      /\ local'.request = Encode(call[c])
  BY <1>1 DEF NewLocal
<1>4. call[c] \in CallType /\ Encode(call[c]) \in Requests
  BY Fields, Zenon DEF Requests
<1>5. local' \in LocalType
  <2>1. NewLocal(generation) \in LocalType
    BY NewLocalType DEF Typed
  <2> QED  BY <1>1, <1>4, <2>1 DEF LocalType
<1>6. Typed'
  BY <1>1, <1>5 DEF Typed, RecordsOK
<1>7. pc'[c] = "frame" /\ \A d \in Callers : d # c => pc'[d] = pc[d]
  BY <1>1 DEF Typed
<1>8. Asks(c)'
  <2>1. call[c] = [call[c] EXCEPT !.le = call[c].le] /\ call[c].le \in Nat
    BY <1>4 DEF CallType
  <2>2. Encodable(call[c])
    BY <1>1 DEF Sendable
  <2>3. heard'[c].asked = NoLe /\ call' = call
    BY <1>1, <1>2 DEF Unheard
  <2>4. Due(c, call[c].le)'
    BY <2>3, Zenon DEF Due
  <2> QED  BY <1>1, <1>3, <2>1, <2>2, <2>4, Zenon DEF Asks
<1>9. AtFrame(c)'
  <2>1. /\ heard[c].frames = 0 /\ heard[c].executed = 0 /\ heard[c].replied = 0
        /\ heard[c].intact /\ heard[c].late = 0
    BY <1>2 DEF Unheard
  <2>2. Steady(c)'
    BY <1>1, <1>3, <2>1, Fields DEF Steady
  <2>3. Before(c)'
    BY <1>1, <1>2, <1>3, <1>8, <2>1, <2>2 DEF Before
  <2> QED  BY <1>1, <1>3, <2>3, Fields DEF AtFrame
<1>10. OneOp(c)'
  BY <1>1, <1>2, <1>7, <1>9
  DEF OneOp, NotStarted, AtTransport, AtResponse, Returned, NoResultYet, ReadsRight,
      ReadRight
<1> QED  BY <1>1, <1>2, <1>6, <1>7, <1>10, OwnerStep

\* A frame goes to the transport after the checks of the loop.
LEMMA ToTransportStep ==
    ASSUME IInv, NEW c \in Callers, ToTransport(c)
    PROVE  IInv'
<1> USE DEF IInv
<1>1. /\ pc[c] = "frame" /\ pc' = [pc EXCEPT ![c] = "transport"]
      /\ FramesLeft(c) /\ Interruption(c) = "ok"
      /\ local' = [local EXCEPT !.attempted = TRUE]
      /\ UNCHANGED <<owner, active, nested, generation, call, expired, stopped, wire,
                     result, heard>>
  BY DEF ToTransport, Goto, chVars
<1>2. Inside(c) /\ ~nested /\ Before(c) /\ ReadsRight(c) /\ result[c] = NoResult
  BY <1>1, AtPoint
<1>3. /\ local'.generation = local.generation /\ local'.attempted = TRUE
      /\ local'.sent = local.sent /\ local'.continuation = local.continuation
      /\ local'.assembled = local.assembled /\ local'.index = local.index
      /\ local'.request = local.request /\ local' \in LocalType
  BY <1>1 DEF Typed, RecordsOK, LocalType
<1>4. Typed'
  BY <1>1, <1>3 DEF Typed, RecordsOK
<1>5. pc'[c] = "transport" /\ \A d \in Callers : d # c => pc'[d] = pc[d]
  BY <1>1 DEF Typed
<1>6. AtTransport(c)'
  <2>1. heard[c].late = 0
    <3>1. ~Late(c)
      BY <1>1 DEF Interruption, Late
    <3> QED  BY <1>2, <3>1, Fields DEF Before, Steady
  <2>2. Asks(c)'
    BY <1>1, <1>2, <1>3, Zenon DEF Asks, Due, Before
  <2>3. Steady(c)'
    BY <1>1, <1>2, <1>3 DEF Before, Steady, Late
  <2>4. Before(c)'
    BY <1>1, <1>2, <1>3, <2>2, <2>3 DEF Before
  <2> QED  BY <1>1, <1>3, <2>1, <2>4 DEF AtTransport, FramesLeft
<1>7. OneOp(c)'
  BY <1>1, <1>2, <1>5, <1>6
  DEF OneOp, NotStarted, AtFrame, AtResponse, Returned, NoResultYet, ReadsRight,
      ReadRight
<1> QED  BY <1>1, <1>2, <1>4, <1>5, <1>7, OwnerStep

\* The answer of the card reaches exchange().
LEMMA AnswerArrivesStep ==
    ASSUME IInv, NEW c \in Callers, AnswerArrives(c)
    PROVE  IInv'
<1> USE DEF IInv
<1>1. /\ pc[c] = "transport" /\ ~nested /\ pc' = [pc EXCEPT ![c] = "response"]
      /\ wire # <<>>
      /\ UNCHANGED <<owner, active, nested, generation, call, expired, stopped, local,
                     wire, result, heard>>
  BY DEF AnswerArrives, Goto, chVars
<1>2. Inside(c) /\ After(c) /\ ReadsRight(c) /\ result[c] = NoResult
  BY <1>1, AtPoint DEF AtTransport, Before
<1>3. Typed'
  BY <1>1 DEF Typed, RecordsOK
<1>4. pc'[c] = "response" /\ \A d \in Callers : d # c => pc'[d] = pc[d]
  BY <1>1 DEF Typed
<1>5. After(c)'
  BY <1>1, <1>2 DEF After, Steady, Late, Answer, Adjusted
<1>6. OneOp(c)'
  BY <1>1, <1>2, <1>4, <1>5
  DEF OneOp, NotStarted, AtFrame, AtTransport, AtResponse, Returned, NoResultYet,
      ReadsRight, ReadRight
<1> QED  BY <1>1, <1>2, <1>3, <1>4, <1>6, OwnerStep

-----------------------------------------------------------------------------
(***************************************************************************)
(* The card hears a frame, and what the channel makes of the answer.       *)
(***************************************************************************)
LEMMA CardHearsStep ==
    ASSUME IInv, NEW c \in Callers, NEW w \in Answers, CardHears(c, w)
    PROVE  IInv'
<1> USE DEF IInv
<1> DEFINE h == heard[c]
           runs == IF local.request.ins = "command" /\ w.sw1 # "6C" THEN 1 ELSE 0
           bytes == IF w.short THEN 0 ELSE w.size
           whole == h.intact /\ generation = local.generation
           tardy == IF expired[c] \/ stopped[c] \/ generation # local.generation
                    THEN 1 ELSE 0
           lengths == IF local.request.ins = "command"
                      THEN h.read \cup {Reading(local.request, h.asked)} ELSE h.read
           wants == IF local.request.ins = "command" /\ w.sw1 = "6C"
                    THEN ZeroMeans(w.sw2, 256) ELSE h.asked
           next == [frames |-> h.frames + 1, executed |-> h.executed + runs,
                    replied |-> h.replied + bytes, intact |-> whole,
                    late |-> h.late + tardy, asked |-> wants, read |-> lengths]
<1>1. /\ pc[c] = "transport" /\ ~nested /\ wire = <<>> /\ wire' = <<w>>
      /\ heard' = [heard EXCEPT ![c] = next]
      /\ UNCHANGED <<owner, active, nested, generation, pc, call, expired, stopped,
                     local, result>>
  BY DEF CardHears, chVars
<1>2. /\ Inside(c) /\ Before(c) /\ local.attempted /\ local.index < call[c].frames
      /\ h.late = 0 /\ ReadsRight(c) /\ result[c] = NoResult
  BY <1>1, AtPoint DEF AtTransport, After
<1>3. Steady(c) /\ Asks(c)
  BY <1>2 DEF Before
<1>4. local.request.ins = "command" <=> ~local.continuation
  BY <1>3, WhatIsAsked
<1>5. /\ w.short \in BOOLEAN /\ w.size \in Nat /\ w.sw1 \in {"61", "6C", "other"}
      /\ w.sw2 \in Nat /\ wire' # <<>> /\ Answer' = w
  <2>1. w \in WireType
    BY ConstantsAssumption
  <2>2. /\ w.short \in BOOLEAN /\ w.size \in Nat /\ w.sw1 \in {"61", "6C", "other"}
        /\ w.sw2 \in 0..255
    BY <2>1, Zenon DEF WireType
  <2>3. wire' = <<w>>
    BY <1>1
  <2>4. wire' # <<>> /\ Answer' = w
    BY <2>3 DEF Answer
  <2>5. w.sw2 \in Nat
    BY <2>2
  <2> QED  BY <2>2, <2>4, <2>5, Zenon
<1>6. \A r \in lengths : r \in ReadingType /\ ReadRight(c, r)
  <2>1. \A r \in h.read : r \in ReadingType /\ ReadRight(c, r)
    BY <1>2, Fields DEF ReadsRight, ReadRight
  <2>2. CASE local.continuation
    BY <1>4, <2>1, <2>2
  <2>3. CASE ~local.continuation
    <3>1. PICK n \in Nat :
             /\ CardReads(local.request) = [data |-> call[c].data, le |-> n]
             /\ Due(c, n)
      BY <1>3, <2>3, WhatIsAsked
    <3> DEFINE new == [data |-> call[c].data, le |-> n, asked |-> h.asked]
    <3>2. Reading(local.request, h.asked) = new
      BY <3>1 DEF Reading
    <3>3. new \in ReadingType /\ ReadRight(c, new)
      <4>1. call[c].data \in Nat /\ h.asked \in Nat
        BY Fields
      <4> QED  BY <3>1, <4>1 DEF ReadingType, ReadRight, Due
    <3>4. lengths = h.read \cup {new}
      BY <1>4, <2>3, <3>2, Zenon
    <3> HIDE DEF lengths, new
    <3> QED  BY <2>1, <3>3, <3>4
  <2> QED  BY <2>2, <2>3
<1>7. next \in HeardType /\ heard'[c] = next
      /\ \A d \in Callers : d # c => heard'[d] = heard[d]
  <2>1. lengths \in SUBSET ReadingType
    <3> HIDE DEF lengths
    <3> QED  BY <1>6
  <2>2. whole \in BOOLEAN
    OBVIOUS
  <2>3. /\ h.frames + 1 \in Nat /\ h.executed + runs \in Nat
        /\ h.replied + bytes \in Nat /\ h.late + tardy \in Nat
    BY <1>5, Fields
  <2>5. wants \in Nat
    BY <1>5, Fields, SMT DEF ZeroMeans
  <2>4. next \in HeardType
    <3> HIDE DEF whole, lengths, runs, bytes, tardy, wants
    <3> QED  BY <2>1, <2>2, <2>3, <2>5, Zenon DEF HeardType
  <2> HIDE DEF next
  <2> QED  BY <1>1, <2>4 DEF Typed, RecordsOK
<1>8. /\ heard'[c].frames = h.frames + 1 /\ heard'[c].executed = h.executed + runs
      /\ heard'[c].replied = h.replied + bytes /\ heard'[c].intact = whole
      /\ heard'[c].late = h.late + tardy /\ heard'[c].read = lengths
      /\ heard'[c].asked = wants
  <2> HIDE DEF whole, lengths, runs, bytes, tardy, wants, h
  <2> QED  BY <1>7
<1>9. Typed'
  <2>1. heard' \in [Callers -> HeardType]
    <3> HIDE DEF next
    <3> QED  BY <1>1, <1>7 DEF Typed, RecordsOK
  <2> QED  BY <1>1, <2>1 DEF Typed, RecordsOK
<1>10. After(c)'
  <2>1. Steady(c)'
    <3>1. heard'[c].late = tardy
      BY <1>2, <1>8
    <3>2. heard'[c].late <= 1 /\ (heard'[c].late > 0 => Late(c)')
      BY <1>1, <3>1 DEF Late
    <3>3. generation' = local'.generation => heard'[c].intact
      BY <1>1, <1>3, <1>8 DEF Steady
    <3> QED  BY <1>1, <1>3, <3>2, <3>3 DEF Steady
  <2>2. h.executed = (IF local.continuation THEN 1 ELSE 0)
        /\ h.frames = local.index /\ h.replied = local.assembled
    BY <1>2 DEF Before
  <2>3. heard'[c].executed =
           (IF local'.continuation \/ Answer'.sw1 # "6C" THEN 1 ELSE 0)
    <3>1. heard'[c].executed = h.executed + runs
      BY <1>8
    <3>2. CASE local.continuation
      BY <1>1, <1>4, <2>2, <3>1, <3>2
    <3>3. CASE ~local.continuation
      BY <1>1, <1>4, <1>5, <2>2, <3>1, <3>3
    <3> QED  BY <3>2, <3>3
  <2>4. heard'[c].replied = local'.assembled + (IF Answer'.short THEN 0 ELSE Answer'.size)
    BY <1>1, <1>5, <1>8, <2>2
  <2>5. Answer'.sw1 = "6C" /\ ~local'.continuation => heard'[c].asked = Adjusted'
    BY <1>1, <1>4, <1>5, <1>8 DEF Adjusted
  <2> QED  BY <1>1, <1>2, <1>5, <1>8, <2>1, <2>2, <2>3, <2>4, <2>5 DEF After
<1>11. ReadsRight(c)'
  <2> HIDE DEF lengths
  <2> QED  BY <1>1, <1>6, <1>8, Zenon DEF ReadsRight, ReadRight
<1>12. OneOp(c)'
  BY <1>1, <1>2, <1>10, <1>11
  DEF OneOp, NotStarted, AtFrame, AtTransport, AtResponse, Returned, NoResultYet
<1> QED  BY <1>1, <1>2, <1>7, <1>9, <1>12, OwnerStep

\* A response that passes the checks of same_card() and decode().
LEMMA GoodResponse ==
    ASSUME IInv, NEW c \in Callers, pc[c] = "response", Verdict(c) = "ok"
    PROVE  /\ generation = local.generation /\ ~Answer.short
           /\ Answer.sw1 = "6C" => Answer.size = 0
           /\ heard[c].intact
           /\ heard[c].replied = local.assembled + Answer.size
<1>1. /\ generation = local.generation /\ ~Answer.short
      /\ Answer.sw1 = "6C" => Answer.size = 0
  BY DEF Verdict
<1> QED  BY <1>1, AtPoint DEF After, Steady

\* A response that cannot be used ends the call as unknown.
LEMMA ResponseBadStep ==
    ASSUME IInv, NEW c \in Callers, ResponseBad(c)
    PROVE  IInv'
<1>1. Inside(c) /\ ~nested /\ After(c)
  BY AtPoint DEF ResponseBad
<1>2. heard[c].late <= 1 /\ heard[c].executed <= 1 /\ heard[c].frames <= call[c].frames
  BY <1>1, AfterFacts DEF IInv
<1>3. Verdict(c) # "ok" => Verdict(c) \in Failures
  BY DEF Verdict, Failures
<1>4. PICK code \in Failures : Return(c, Error(code, "unknown"))
  <2>1. "malformed" \in Failures
    BY DEF Failures
  <2> QED  BY <1>3, <2>1 DEF ResponseBad
<1> QED  BY <1>1, <1>2, <1>4, FailStep

\* A final status returns the assembled response.
LEMMA FinalStep ==
    ASSUME IInv, NEW c \in Callers, Final(c)
    PROVE  IInv'
<1> DEFINE r == [code |-> "ok", outcome |-> "succeeded", sw1 |-> Answer.sw1,
                 size |-> local.assembled + Answer.size]
<1>1. /\ pc[c] = "response" /\ Verdict(c) = "ok" /\ FitsLimit(c) /\ Return(c, r)
  BY DEF Final
<1>2. Inside(c) /\ ~nested /\ After(c)
  BY <1>1, AtPoint
<1>3. heard[c].late <= 1 /\ heard[c].executed <= 1 /\ heard[c].frames <= call[c].frames
  BY <1>2, AfterFacts DEF IInv
<1>4. /\ Answer.size \in Nat /\ Answer.sw1 \in {"61", "6C", "other"}
      /\ local.assembled \in Nat /\ call[c].limit \in Nat
  BY <1>2, AnswerFields, Fields DEF IInv, After
<1>5. r \in ResultType
  <2>1. local.assembled + Answer.size \in Nat
    BY <1>4
  <2>2. "succeeded" \in Outcomes
    BY DEF Outcomes
  <2> QED  BY <1>4, <2>1, <2>2, Zenon DEF ResultType
<1>6. /\ heard[c].intact /\ r.size = heard[c].replied
      /\ r.sw1 # "6C" => heard[c].executed = 1
  BY <1>1, <1>2, GoodResponse DEF After
<1>7. r.size <= call[c].limit
  BY <1>1, <1>4 DEF FitsLimit
<1>8. r.outcome # "not_sent"
  OBVIOUS
<1> HIDE DEF r
<1> QED  BY <1>1, <1>2, <1>3, <1>5, <1>6, <1>7, <1>8, ReturnStep

\* The loop goes on: with the corrected command, or with GET RESPONSE.
LEMMA CorrectLengthStep ==
    ASSUME IInv, NEW c \in Callers, CorrectLength(c)
    PROVE  IInv'
<1> USE DEF IInv
<1>1. /\ pc[c] = "response" /\ pc' = [pc EXCEPT ![c] = "frame"]
      /\ Verdict(c) = "ok" /\ Corrects(c)
      /\ Adjusted <= call[c].limit /\ Encodable(Retry(c))
      /\ local' = [local EXCEPT !.sent = TRUE, !.corrected = TRUE,
                                !.index = @ + 1, !.request = Encode(Retry(c))]
      /\ wire' = <<>>
      /\ UNCHANGED <<owner, active, nested, generation, call, expired, stopped, result,
                     heard>>
  BY DEF CorrectLength, Goto, chVars
<1>2. Inside(c) /\ ~nested /\ After(c) /\ ReadsRight(c) /\ result[c] = NoResult
  BY <1>1, AtPoint
<1>3. Answer.size \in Nat /\ Answer.sw2 \in Nat
  BY <1>2, AnswerFields DEF After
<1>4. Adjusted \in Nat
  BY <1>3, SMT DEF Adjusted, ZeroMeans
<1>5. /\ call[c] \in CallType /\ Encode(Retry(c)) \in Requests
      /\ Retry(c) = [call[c] EXCEPT !.le = Adjusted]
  BY <1>4, Fields, RetryIsACall DEF Retry
<1>6. /\ local'.generation = local.generation /\ local'.attempted = local.attempted
      /\ local'.sent = TRUE /\ local'.continuation = local.continuation
      /\ local'.assembled = local.assembled /\ local'.index = local.index + 1
      /\ local'.request = Encode(Retry(c)) /\ local' \in LocalType
  <2>1. local \in LocalType
    BY DEF Typed, RecordsOK
  <2>2. local' = [generation |-> local.generation, attempted |-> local.attempted,
                  sent |-> TRUE, continuation |-> local.continuation,
                  corrected |-> TRUE, assembled |-> local.assembled,
                  index |-> local.index + 1, request |-> Encode(Retry(c))]
    BY <1>1, <2>1 DEF LocalType
  <2>3. local' \in LocalType
    <3>1. /\ local.generation \in 0..MaxGeneration /\ local.attempted \in BOOLEAN
          /\ local.continuation \in BOOLEAN /\ local.assembled \in Nat
          /\ local.index + 1 \in Nat
      BY <2>1 DEF LocalType
    <3>2. Encode(Retry(c)) \in Requests \cup {NoFrame}
      BY <1>5
    <3> QED  BY <2>2, <3>1, <3>2, Zenon DEF LocalType
  <2> QED  BY <2>2, <2>3
<1>7. Typed'
  BY <1>1, <1>6 DEF Typed, RecordsOK
<1>8. pc'[c] = "frame" /\ \A d \in Callers : d # c => pc'[d] = pc[d]
  BY <1>1 DEF Typed
<1>9. AtFrame(c)'
  <2>1. Answer.sw1 = "6C" /\ call[c].correct /\ ~local.continuation
    BY <1>1 DEF Corrects
  <2>2. /\ heard[c].replied = local.assembled
        /\ heard[c].executed = 0
    BY <1>1, <1>2, <1>3, <2>1, GoodResponse, Fields DEF After
  <2>3. Asks(c)'
    <3>1. PICK n \in Nat : n = Adjusted
      BY <1>4
    <3>2. heard[c].asked = n /\ n # NoLe
      BY <1>2, <1>3, <2>1, <3>1, SMT DEF After, Adjusted, ZeroMeans, NoLe
    <3>3. Due(c, n)'
      BY <1>1, <2>1, <3>2 DEF Due
    <3>4. /\ local'.request = Encode([call'[c] EXCEPT !.le = n])
          /\ Encodable([call'[c] EXCEPT !.le = n])
      BY <1>1, <1>5, <1>6, <3>1, Zenon
    <3> QED  BY <1>6, <2>1, <3>3, <3>4, Zenon DEF Asks
  <2>4. Steady(c)'
    BY <1>1, <1>2, <1>6 DEF After, Steady, Late
  <2>5. Before(c)'
    BY <1>1, <1>2, <1>6, <2>1, <2>2, <2>3, <2>4 DEF Before, After
  <2> QED  BY <1>1, <1>2, <1>6, <2>5, Fields DEF AtFrame, After
<1>10. OneOp(c)'
  BY <1>1, <1>2, <1>8, <1>9
  DEF OneOp, NotStarted, AtTransport, AtResponse, Returned, NoResultYet, ReadsRight,
      ReadRight
<1> QED  BY <1>1, <1>2, <1>7, <1>8, <1>10, OwnerStep

\* 61xx and 6Cxx lead to one more command of the same call.
LEMMA FetchMoreStep ==
    ASSUME IInv, NEW c \in Callers, FetchMore(c)
    PROVE  IInv'
<1> USE DEF IInv
<1>1. /\ pc[c] = "response" /\ pc' = [pc EXCEPT ![c] = "frame"]
      /\ Verdict(c) = "ok" /\ FitsLimit(c) /\ Answer.sw1 = "61"
      /\ local' = [local EXCEPT !.sent = TRUE, !.continuation = TRUE,
                                !.assembled = @ + Answer.size, !.index = @ + 1,
                                !.request = GetResponse(Answer.sw2)]
      /\ wire' = <<>>
      /\ UNCHANGED <<owner, active, nested, generation, call, expired, stopped, result,
                     heard>>
  BY DEF FetchMore, Goto, chVars
<1>2. Inside(c) /\ ~nested /\ After(c) /\ ReadsRight(c) /\ result[c] = NoResult
  BY <1>1, AtPoint
<1>3. Answer.size \in Nat /\ Answer.sw2 \in 0..255
  BY <1>2, AnswerFields DEF After
<1>4. GetResponse(Answer.sw2) \in Requests
  BY <1>3, Zenon DEF Requests
<1>5. /\ local'.generation = local.generation /\ local'.attempted = local.attempted
      /\ local'.sent = TRUE /\ local'.continuation = TRUE
      /\ local'.assembled = local.assembled + Answer.size
      /\ local'.index = local.index + 1
      /\ local'.request = GetResponse(Answer.sw2) /\ local' \in LocalType
  <2>1. local \in LocalType
    BY DEF Typed, RecordsOK
  <2>2. local' = [generation |-> local.generation, attempted |-> local.attempted,
                  sent |-> TRUE, continuation |-> TRUE, corrected |-> local.corrected,
                  assembled |-> local.assembled + Answer.size,
                  index |-> local.index + 1, request |-> GetResponse(Answer.sw2)]
    BY <1>1, <2>1 DEF LocalType
  <2>3. local' \in LocalType
    <3>1. /\ local.generation \in 0..MaxGeneration /\ local.attempted \in BOOLEAN
          /\ local.corrected \in BOOLEAN /\ local.assembled + Answer.size \in Nat
          /\ local.index + 1 \in Nat
      BY <1>3, <2>1 DEF LocalType
    <3>2. GetResponse(Answer.sw2) \in Requests \cup {NoFrame}
      BY <1>4
    <3> QED  BY <2>2, <3>1, <3>2, Zenon DEF LocalType
  <2> QED  BY <2>2, <2>3
<1>6. Typed'
  BY <1>1, <1>5 DEF Typed, RecordsOK
<1>7. pc'[c] = "frame" /\ \A d \in Callers : d # c => pc'[d] = pc[d]
  BY <1>1 DEF Typed
<1>8. AtFrame(c)'
  <2>1. heard[c].replied = local.assembled + Answer.size /\ heard[c].executed = 1
    BY <1>1, <1>2, GoodResponse DEF After
  <2>2. Asks(c)'
    BY <1>3, <1>5, Zenon DEF Asks
  <2>3. local.assembled + Answer.size <= call[c].limit
    BY <1>1, <1>3, Fields DEF FitsLimit
  <2>4. Steady(c)'
    BY <1>1, <1>2, <1>5, <2>3 DEF After, Steady, Late
  <2>5. Before(c)'
    BY <1>1, <1>2, <1>5, <2>1, <2>2, <2>4 DEF Before, After
  <2> QED  BY <1>1, <1>2, <1>5, <2>5, Fields DEF AtFrame, After
<1>9. OneOp(c)'
  BY <1>1, <1>2, <1>7, <1>8
  DEF OneOp, NotStarted, AtTransport, AtResponse, Returned, NoResultYet, ReadsRight,
      ReadRight
<1> QED  BY <1>1, <1>2, <1>6, <1>7, <1>9, OwnerStep

-----------------------------------------------------------------------------
\* IInv holds initially and every step preserves it.
THEOREM Invariance == Spec => []IInv
<1>1. Init => IInv
  BY InitIInv
<1>2. ASSUME IInv, [Next]_vars PROVE IInv'
  <2>1. CASE UNCHANGED vars
    <3>1. \A c \in Callers : OneOp(c)'
      BY <1>2, <2>1, StateUntouched DEF IInv, OpInv, vars
    <3>2. Typed' /\ LockInv'
      BY <1>2, <2>1 DEF IInv, Typed, RecordsOK, LockInv, Inside, vars
    <3> QED  BY <3>1, <3>2 DEF IInv, OpInv
  <2>2. ASSUME NEW c \in Callers, ChannelStep(c) PROVE IInv'
    <3>1. CASE Refused(c) \/ Begin(c)
      BY <1>2, <3>1, RefusedStep, BeginStep
    <3>2. CASE OutOfFrames(c) \/ Interrupted(c) \/ TooLarge(c)
      BY <1>2, <3>2, FrameEndsStep
    <3>3. CASE ToTransport(c)
      BY <1>2, <3>3, ToTransportStep
    <3>4. CASE ResponseBad(c) \/ Final(c)
      BY <1>2, <3>4, ResponseBadStep, FinalStep
    <3>5. CASE CorrectLength(c) \/ FetchMore(c)
      BY <1>2, <3>5, CorrectLengthStep, FetchMoreStep
    <3> QED  BY <2>2, <3>1, <3>2, <3>3, <3>4, <3>5 DEF ChannelStep
  <2>3. ASSUME NEW c \in Callers, TransportStep(c) PROVE IInv'
    BY <1>2, <2>3, CardHearsStep, AnswerArrivesStep, TransportFailsStep, ResetReturnsStep
    DEF TransportStep
  <2>4. ASSUME NEW c \in Callers, Throws(c) PROVE IInv'
    BY <1>2, <2>4, ThrowsStep
  <2>5. ASSUME NEW c \in Callers, Enter(c, "entered") \/ Enter(c, "resetting") PROVE IInv'
    BY <1>2, <2>5, EnterStep
  <2>6. ASSUME NEW c \in Callers, Reenter(c) \/ DeadlinePasses(c) \/ StopRequested(c)
        PROVE  IInv'
    BY <1>2, <2>6, SignalSteps
  <2>7. CASE ReentryRefused
    <3>1. owner \in Callers
      BY <1>2, <2>7 DEF ReentryRefused, IInv, LockInv
    <3> QED  BY <1>2, <2>7, <3>1, SignalSteps
  <2>8. CASE CardChanges
    BY <1>2, <2>8, CardChangesStep
  <2>9. CASE AllReturned
    BY <2>1, <2>9 DEF AllReturned
  <2> QED
    BY <1>2, <2>1, <2>2, <2>3, <2>4, <2>5, <2>6, <2>7, <2>8, <2>9 DEF Next
<1> QED  BY <1>1, <1>2, PTL DEF Spec

\* Where an exchange can be, for the theorems below.
LEMMA Shapes ==
    ASSUME IInv, NEW c \in Callers
    PROVE  \/ heard[c] = Unheard /\ result[c] = NoResult
           \/ Before(c) /\ local.index <= call[c].frames /\ result[c] = NoResult
           \/ After(c) /\ result[c] = NoResult
           \/ Returned(c) /\ pc[c] = "returned"
<1>1. Typed /\ OneOp(c)
  BY DEF IInv, OpInv
<1>2. local.index < call[c].frames => local.index <= call[c].frames
  BY <1>1, Fields
<1>3. pc[c] \in {"idle", "entered", "frame", "transport", "response", "resetting",
                 "returned"}
  BY <1>1 DEF Typed
<1>4. CASE pc[c] \in {"idle", "entered", "resetting"}
  BY <1>1, <1>4 DEF OneOp, NotStarted, NoResultYet
<1>5. CASE pc[c] \in {"frame", "transport", "response"}
  BY <1>1, <1>2, <1>5 DEF OneOp, AtFrame, AtTransport, AtResponse, NoResultYet
<1>6. CASE pc[c] = "returned"
  BY <1>1, <1>6 DEF OneOp
<1> QED  BY <1>3, <1>4, <1>5, <1>6

\* The variables keep their types, and max_response - assembled.size() never
\* wraps: what the loop of exchange() has assembled is within the caller's limit.
THEOREM TypeCorrect == Spec => []TypeOK
<1>1. IInv => TypeOK
  <2> SUFFICES ASSUME IInv PROVE TypeOK
    OBVIOUS
  <2>1. Typed /\ LockInv
    BY DEF IInv
  <2>2. owner # None => local.assembled \in 0..call[owner].limit
    <3> SUFFICES ASSUME owner # None PROVE local.assembled \in 0..call[owner].limit
      OBVIOUS
    <3>1. owner \in Callers
      BY <2>1 DEF Typed
    <3>2. Inside(owner)
      BY <2>1, <3>1 DEF LockInv
    <3>3. /\ local.assembled \in Nat /\ call[owner].limit \in Nat
      BY <2>1, <3>1, Fields
    <3>4. local.assembled <= call[owner].limit
      <4>1. CASE pc[owner] \in {"entered", "resetting"}
        BY <3>1, <3>3, <4>1, AtPoint DEF NewLocal
      <4>2. CASE pc[owner] \in {"frame", "transport", "response"}
        BY <3>1, <4>2, AtPoint DEF AtTransport, Before, After, Steady
      <4> QED  BY <3>2, <4>1, <4>2 DEF Inside
    <3> QED  BY <3>3, <3>4
  <2>3. local.generation \in 0..MaxGeneration /\ local.index \in Nat
    BY <2>1 DEF Typed, RecordsOK, LocalType
  <2>4. wire = <<>> \/ Answer \in Answers
    BY <2>1, AnswerFields
  <2>5. \A c \in Callers : result[c].outcome \in Outcomes /\ result[c].size \in Nat
    BY <2>1 DEF Typed, RecordsOK, ResultType
  <2> QED  BY <2>1, <2>2, <2>3, <2>4, <2>5 DEF Typed, TypeOK
<1> QED  BY <1>1, Invariance, PTL

\* However the card answers and whatever happens meanwhile, it executes a
\* command once, hears the frames the caller allowed and at most one late one:
\* 6Cxx and 61xx cannot keep the loop of exchange() going.
THEOREM HearingIsBounded == Spec => []HeardIsBounded
<1>1. IInv => HeardIsBounded
  <2> SUFFICES ASSUME IInv, NEW c \in Callers
               PROVE  /\ heard[c].executed <= 1 /\ heard[c].frames <= call[c].frames
                      /\ heard[c].late <= 1
    BY DEF HeardIsBounded, ExecutedAtMostOnce, FramesBounded, AtMostOneLateFrame
  <2>1. CASE heard[c] = Unheard
    BY <2>1, Fields DEF Unheard, IInv
  <2>2. CASE Before(c) /\ local.index <= call[c].frames
    BY <2>2, BeforeFacts DEF IInv
  <2>3. CASE After(c)
    BY <2>3, AfterFacts DEF IInv
  <2>4. CASE Returned(c) /\ pc[c] = "returned"
    BY <2>4 DEF Returned
  <2> QED  BY <2>1, <2>2, <2>3, <2>4, Shapes
<1> QED  BY <1>1, Invariance, PTL

\* A response exchange() returns is the whole answer of the one execution, all
\* of it from the card the call began with, within the caller's limit.
THEOREM ResponsesAreWhole == Spec => []AnswerIsWhole
<1>1. IInv => AnswerIsWhole
  <2> SUFFICES ASSUME IInv, NEW c \in Callers,
                      result[c].code = "ok", heard[c].frames > 0
               PROVE  /\ heard[c].intact
                      /\ result[c].sw1 # "6C" => heard[c].executed = 1
                      /\ result[c].size = heard[c].replied
                      /\ result[c].size <= call[c].limit
    BY DEF AnswerIsWhole
  <2>1. result[c] # NoResult
    BY DEF NoResult, None
  <2> QED  BY <2>1, Shapes DEF Returned
<1> QED  BY <1>1, Invariance, PTL

\* In every command a card hears it reads the data length the caller meant and
\* the caller's expected length, or exactly the one the card's own 6Cxx asked
\* for before it, which only a caller that allows the correction sends.
THEOREM LengthsArriveAsMeant == Spec => []CardReadsTheLengths
<1>1. IInv => CardReadsTheLengths
  BY DEF IInv, OpInv, OneOp, ReadsRight, ReadRight, CardReadsTheLengths
<1> QED  BY <1>1, Invariance, PTL

-----------------------------------------------------------------------------
(***************************************************************************)
(* The channel implements ExchangeContract (the safety part: fairness is   *)
(* checked by TLC).  The three state functions of the refinement mapping,  *)
(* caller by caller, then one lemma for each step of the contract.         *)
(***************************************************************************)
Phase(c) ==
    CASE pc[c] \in {"idle", "returned"} -> pc[c]
      [] pc[c] = "resetting" -> "reset"
      [] OTHER -> "exchange"

Reached(c) == heard[c].frames > 0
Given(c) == result[c].outcome

\* A step that changes what is seen of the caller c only.
LEMMA ReturnMaps ==
    ASSUME NEW c \in Callers, NEW o \in {"not_sent", "rejected", "succeeded", "unknown"},
           \A d \in Callers \ {c} : Phase(d)' = Phase(d) /\ Given(d)' = Given(d),
           \A d \in Callers : Reached(d)' = Reached(d),
           Phase(c) # "returned", Phase(c)' = "returned", Given(c)' = o,
           Phase(c) = "idle" => o = "not_sent",
           Phase(c) = "exchange" => (o = "not_sent" => ~Reached(c))
                                    /\ (o = "succeeded" => Reached(c))
    PROVE  Contract!Next
<1>1. Contract!Honest(c, o)
  BY DEF Contract!Honest, Phase, Reached, Given
<1>2. Contract!Return(c, o)
  BY <1>1 DEF Contract!Return, Phase, Reached, Given
<1> QED BY <1>2 DEF Contract!Next, Contract!Outcomes

\* A call is let in while no other is.
LEMMA StartMaps ==
    ASSUME NEW c \in Callers, NEW p \in {"exchange", "reset"},
           \A d \in Callers : Given(d)' = Given(d) /\ Reached(d)' = Reached(d),
           \A d \in Callers \ {c} : Phase(d)' = Phase(d),
           Phase(c) = "idle", Phase(c)' = p,
           \A d \in Callers : Phase(d) \notin {"exchange", "reset"}
    PROVE  Contract!Next
<1>1. Contract!Alone
  BY DEF Contract!Alone, Phase
<1>2. [d \in Callers |-> Phase(d)]' = [[d \in Callers |-> Phase(d)] EXCEPT ![c] = p]
  OBVIOUS
<1>3. Contract!Start(c)
  <2>1. [d \in Callers |-> Phase(d)][c] = "idle"
    OBVIOUS
  <2>2. UNCHANGED <<[d \in Callers |-> Reached(d)], [d \in Callers |-> Given(d)]>>
    OBVIOUS
  <2> QED BY <1>1, <1>2, <2>1, <2>2, Zenon DEF Contract!Start, Phase, Reached, Given
<1> QED BY <1>3 DEF Contract!Next

\* The card hears of the call c.
LEMMA ReachMaps ==
    ASSUME NEW c \in Callers,
           \A d \in Callers : Given(d)' = Given(d) /\ Phase(d)' = Phase(d),
           \A d \in Callers \ {c} : Reached(d)' = Reached(d),
           Phase(c) = "exchange", Reached(c)'
    PROVE  Contract!Next
<1>1. Contract!Reach(c)
  BY DEF Contract!Reach, Phase, Reached, Given
<1> QED BY <1>1 DEF Contract!Next

\* A step that is not seen.
LEMMA UnseenMaps ==
    ASSUME \A d \in Callers :
              Given(d)' = Given(d) /\ Phase(d)' = Phase(d) /\ Reached(d)' = Reached(d)
    PROVE  UNCHANGED Contract!vars
BY DEF Contract!vars, Phase, Reached, Given

\* Where an exchange is, as the layers above see it.
LEMMA Phases ==
    ASSUME Typed, NEW c \in Callers
    PROVE  /\ pc[c] = "idle" => Phase(c) = "idle"
           /\ pc[c] \in {"entered", "frame", "transport", "response"} =>
                 Phase(c) = "exchange"
           /\ pc[c] = "resetting" => Phase(c) = "reset"
           /\ pc[c] = "returned" => Phase(c) = "returned"
BY DEF Typed, Phase

\* A call that holds the mutex returns.
LEMMA ReturnOfCallMaps ==
    ASSUME IInv, IInv', NEW c \in Callers, Inside(c), NEW r, Return(c, r),
           r.outcome \in {"not_sent", "rejected", "succeeded", "unknown"},
           pc[c] # "resetting" /\ r.outcome = "succeeded" => heard[c].frames > 0
    PROVE  Contract!Next
<1>1. /\ pc' = [pc EXCEPT ![c] = "returned"] /\ result' = [result EXCEPT ![c] = r]
      /\ Typed /\ Typed' /\ OneOp(c)' /\ heard' = heard
  BY DEF Return, Goto, IInv, OpInv
<1>2. pc'[c] = "returned" /\ result'[c] = r
  BY <1>1 DEF Typed, RecordsOK
<1>3. \A d \in Callers \ {c} : Phase(d)' = Phase(d) /\ Given(d)' = Given(d)
  BY <1>1 DEF Phase, Given, Typed, RecordsOK
<1>4. \A d \in Callers : Reached(d)' = Reached(d)
  BY <1>1 DEF Reached
<1>5. Phase(c)' = "returned" /\ Given(c)' = r.outcome
  BY <1>1, <1>2, Phases DEF Phase, Given
<1>6. Phase(c) \in {"exchange", "reset"} /\ (Phase(c) = "exchange" => pc[c] # "resetting")
  BY <1>1, Phases DEF Inside
<1>7. r.outcome = "not_sent" => ~Reached(c)
  <2>1. r.outcome = "not_sent" => heard[c].frames = 0
    BY <1>1, <1>2 DEF OneOp, Returned
  <2> QED  BY <2>1 DEF Reached
<1>8. r.outcome = "succeeded" /\ pc[c] # "resetting" => Reached(c)
  BY DEF Reached
<1> QED  BY <1>3, <1>4, <1>5, <1>6, <1>7, <1>8, ReturnMaps

\* exchange() or reset() takes the mutex: a call starts.
LEMMA EnterMaps ==
    ASSUME IInv, NEW c \in Callers, NEW label \in {"entered", "resetting"},
           Enter(c, label)
    PROVE  Contract!Next
<1>1. Typed /\ LockInv
  BY DEF IInv
<1>2. /\ owner = None /\ heard' = heard /\ result' = result
      /\ pc[c] = "idle" /\ pc' = [pc EXCEPT ![c] = label] /\ pc'[c] = label
  BY <1>1 DEF Enter, Goto, Typed
<1>3. \A d \in Callers : Phase(d) \notin {"exchange", "reset"}
  <2>1. \A d \in Callers : ~Inside(d)
    BY <1>1, <1>2, ConstantsAssumption DEF LockInv
  <2> QED  BY <1>1, <2>1, Phases DEF Inside, Typed
<1>4. \A d \in Callers : Given(d)' = Given(d) /\ Reached(d)' = Reached(d)
  BY <1>2 DEF Given, Reached
<1>5. \A d \in Callers \ {c} : Phase(d)' = Phase(d)
  BY <1>1, <1>2 DEF Phase, Typed
<1>6. Phase(c) = "idle" /\ Phase(c)' \in {"exchange", "reset"}
  BY <1>1, <1>2, Phases DEF Phase
<1> QED  BY <1>3, <1>4, <1>5, <1>6, StartMaps

\* The card hears a frame.
LEMMA HearsMaps ==
    ASSUME IInv, NEW c \in Callers, NEW w \in Answers, CardHears(c, w)
    PROVE  Contract!Next
<1>1. /\ Typed /\ pc[c] = "transport" /\ pc' = pc /\ result' = result
      /\ heard[c].frames \in Nat
  BY Fields DEF IInv, CardHears
<1>2. /\ heard'[c].frames = heard[c].frames + 1
      /\ \A d \in Callers \ {c} : heard'[d] = heard[d]
  BY <1>1 DEF CardHears, Typed, RecordsOK
<1>3. Reached(c)' /\ \A d \in Callers \ {c} : Reached(d)' = Reached(d)
  BY <1>1, <1>2 DEF Reached
<1>4. \A d \in Callers : Given(d)' = Given(d) /\ Phase(d)' = Phase(d)
  BY <1>1 DEF Given, Phase
<1> QED  BY <1>1, <1>3, <1>4, Phases, ReachMaps

\* Every step of the channel is a step of the contract or is not seen.
LEMMA NextMaps ==
    ASSUME IInv, IInv', [Next]_vars
    PROVE  Contract!Next \/ UNCHANGED Contract!vars
<1>1. Typed /\ Typed'
  BY DEF IInv
<1>2. CASE UNCHANGED vars
  BY <1>2, UnseenMaps DEF vars, Phase, Given, Reached
<1>3. CASE CardChanges \/ ReentryRefused \/ AllReturned
  BY <1>3, UnseenMaps DEF CardChanges, ReentryRefused, AllReturned, vars, Phase, Given,
                          Reached
<1>4. ASSUME NEW c \in Callers, NEW code, NEW o \in {"not_sent", "unknown"},
             Return(c, Error(code, o)), Inside(c)
      PROVE  Contract!Next
  BY <1>4, ReturnOfCallMaps DEF Error
<1>5. ASSUME NEW c \in Callers,
             pc[c] \in {"entered", "frame", "transport", "response"},
             pc' = [pc EXCEPT ![c] = pc'[c]],
             pc'[c] \in {"frame", "transport", "response"},
             result' = result, heard' = heard
      PROVE  UNCHANGED Contract!vars
  <2>1. \A d \in Callers : d # c => pc'[d] = pc[d]
    BY <1>1, <1>5 DEF Typed
  <2>2. Phase(c)' = Phase(c)
    BY <1>1, <1>5, Phases DEF Phase
  <2>3. \A d \in Callers :
           Given(d)' = Given(d) /\ Phase(d)' = Phase(d) /\ Reached(d)' = Reached(d)
    BY <1>5, <2>1, <2>2 DEF Given, Phase, Reached
  <2> QED  BY <2>3, UnseenMaps
<1>6. ASSUME NEW c \in Callers, ChannelStep(c)
      PROVE  Contract!Next \/ UNCHANGED Contract!vars
  <2>1. CASE Begin(c) \/ ToTransport(c) \/ CorrectLength(c) \/ FetchMore(c)
    <3>1. /\ result' = result /\ heard' = heard /\ pc[c] \in {"entered", "frame", "response"}
          /\ pc' = [pc EXCEPT ![c] = pc'[c]] /\ pc'[c] \in {"frame", "transport"}
      BY <1>1, <2>1 DEF Begin, ToTransport, CorrectLength, FetchMore, Goto, Typed
    <3> QED  BY <1>5, <3>1
  <2>2. CASE Refused(c) \/ OutOfFrames(c) \/ Interrupted(c) \/ TooLarge(c) \/ ResponseBad(c)
    <3>1. Evidence \in {"not_sent", "unknown"}
      BY DEF Evidence
    <3>2. PICK code, o : o \in {"not_sent", "unknown"} /\ Return(c, Error(code, o))
      BY <2>2, <3>1, Zenon DEF Refused, OutOfFrames, Interrupted, TooLarge, ResponseBad
    <3>3. Inside(c)
      BY <2>2 DEF Refused, OutOfFrames, Interrupted, TooLarge, ResponseBad, Inside
    <3> QED  BY <1>4, <3>2, <3>3
  <2>3. CASE Final(c)
    <3>1. Return(c, [code |-> "ok", outcome |-> "succeeded", sw1 |-> Answer.sw1,
                     size |-> local.assembled + Answer.size])
      BY <2>3 DEF Final
    <3>2. Inside(c) /\ heard[c].frames > 0
      BY <1>1, <2>3, AtPoint, AfterFacts DEF Final
    <3> QED  BY <3>1, <3>2, ReturnOfCallMaps
  <2> QED  BY <1>6, <2>1, <2>2, <2>3 DEF ChannelStep
<1>7. ASSUME NEW c \in Callers, TransportStep(c)
      PROVE  Contract!Next \/ UNCHANGED Contract!vars
  <2>1. CASE \E w \in Answers : CardHears(c, w)
    BY <2>1, HearsMaps
  <2>2. CASE AnswerArrives(c)
    <3>1. /\ result' = result /\ heard' = heard /\ pc[c] = "transport"
          /\ pc' = [pc EXCEPT ![c] = pc'[c]] /\ pc'[c] = "response"
      BY <1>1, <2>2 DEF AnswerArrives, Goto, Typed
    <3> QED  BY <1>5, <3>1
  <2>3. CASE \E o \in {"not_sent", "unknown"} : TransportFails(c, o)
    <3>1. \A o \in {"not_sent", "unknown"} :
             (IF local.sent THEN AfterSend(o) ELSE o) \in {"not_sent", "unknown"}
      BY DEF AfterSend
    <3>2. PICK code, o : o \in {"not_sent", "unknown"} /\ Return(c, Error(code, o))
      BY <2>3, <3>1, Zenon DEF TransportFails
    <3>3. Inside(c)
      BY <2>3 DEF TransportFails, Inside
    <3> QED  BY <1>4, <3>2, <3>3
  <2>4. CASE ResetReturns(c)
    <3>1. PICK o \in {"succeeded", "not_sent", "unknown"} :
             Return(c, Error(IF o = "succeeded" THEN "ok" ELSE "transport", o))
      BY <2>4, Zenon DEF ResetReturns
    <3>2. Inside(c) /\ pc[c] = "resetting"
      BY <2>4 DEF ResetReturns, Inside
    <3> QED  BY <3>1, <3>2, ReturnOfCallMaps DEF Error
  <2> QED  BY <1>7, <2>1, <2>2, <2>3, <2>4 DEF TransportStep
<1>8. ASSUME NEW c \in Callers, Throws(c) PROVE Contract!Next
  <2>1. (IF local.attempted THEN "unknown" ELSE "not_sent") \in {"not_sent", "unknown"}
    OBVIOUS
  <2>2. Inside(c)
    BY <1>8 DEF Throws, Inside
  <2> QED  BY <1>4, <1>8, <2>1, <2>2 DEF Throws
<1>9. ASSUME NEW c \in Callers, Enter(c, "entered") \/ Enter(c, "resetting")
      PROVE  Contract!Next
  BY <1>9, EnterMaps
<1>10. ASSUME NEW c \in Callers, Reenter(c) \/ DeadlinePasses(c) \/ StopRequested(c)
       PROVE  UNCHANGED Contract!vars
  BY <1>10, UnseenMaps
  DEF Reenter, DeadlinePasses, StopRequested, Phase, Given, Reached
<1> QED  BY <1>2, <1>3, <1>6, <1>7, <1>8, <1>9, <1>10 DEF Next

\* What IsoChannel does, seen from the layers above, is allowed by the exchange
\* contract: calls one at a time, not_sent only of calls no card heard, succeeded
\* only of calls a card did hear, one return for each call.
THEOREM ImplementsExchangeContract == Spec => Contract!Spec
<1>1. ASSUME Init PROVE Contract!Init
  <2>1. \A c \in Callers : Phase(c) = "idle" /\ Reached(c) = FALSE /\ Given(c) = "none"
    <3>1. \A c \in Callers : Phase(c) = "idle"
      BY <1>1, InitIInv, Phases DEF IInv, Init
    <3>2. \A c \in Callers : heard[c].frames = 0 /\ result[c].outcome = "none"
      BY <1>1 DEF Init, NoResult, Unheard, None
    <3>3. \A c \in Callers : Reached(c) = FALSE
      <4>1. (0 > 0) = FALSE
        OBVIOUS
      <4> QED  BY <3>2, <4>1, Zenon DEF Reached
    <3> QED  BY <3>1, <3>2, <3>3 DEF Given
  <2>2. /\ [c \in Callers |-> Phase(c)] = [c \in Callers |-> "idle"]
        /\ [c \in Callers |-> Reached(c)] = [c \in Callers |-> FALSE]
        /\ [c \in Callers |-> Given(c)] = [c \in Callers |-> "none"]
    BY <2>1
  <2> QED  BY <2>2, Zenon DEF Contract!Init, Phase, Reached, Given
<1>2. IInv /\ IInv' /\ [Next]_vars => [Contract!Next]_Contract!vars
  BY NextMaps
<1>3. Spec => []IInv
  BY Invariance
<1> QED  BY <1>1, <1>2, <1>3, PTL DEF Spec, Contract!Spec

=============================================================================
