---------------------------- MODULE MCCApi_proofs ----------------------------
(***************************************************************************)
(* Proofs about the C API, for any threads, any number of generations and  *)
(* commands, any nesting of callbacks: one inductive invariant for a raw   *)
(* handle, one for the managed entry points, and the promises both         *)
(* families make.                                                          *)
(***************************************************************************)
EXTENDS MCCApi, FiniteSetTheorems, WellFoundedInduction, TLAPS

-----------------------------------------------------------------------------
(***************************************************************************)
(* The raw handle: its inductive invariant.                                *)
(***************************************************************************)
Working == {"resolve", "begin", "frame", "heard", "bind"}

CallRecord ==
    [layer : {"native", "iso", "any"}, erases : BOOLEAN, needs : Raw!Profiles \cup {"none"},
     provider : BOOLEAN, frames : 0..3, installs : Raw!Profiles \cup {"none"},
     carries : BOOLEAN, verified : BOOLEAN, ends : BOOLEAN]

OpRecord ==
    [generation : Nat, left : Nat, sent : BOOLEAN, heard : Nat, id : Nat, count : Nat,
     card : Nat, answer : {"none", "proof", "rejected", "verified", "plain"}]

CardRecord == [id : Nat, profile : Raw!Profiles \cup {"none"}, count : 0..MaxCount]

\* The variables without the threads have their types.
EntryTyped ==
    /\ generation \in 1..MaxGeneration /\ present \in Nat /\ card \in CardRecord
    /\ sessions \in [Raw!Profiles -> Raw!SessionType] /\ bound \in 0..MaxGeneration
    /\ closed \in BOOLEAN /\ raced \in BOOLEAN

\* The threads: one at most works, the owner.
RawTyped ==
    /\ EntryTyped /\ op \in OpRecord /\ owner \in Threads \cup {"none"}
    /\ pc \in [Threads -> {"idle", "looked"} \cup Working]
    /\ call \in [Threads -> CallRecord]
    /\ \A t \in Threads : pc[t] # "idle" => call[t] \in Raw!Calls
    /\ \A t \in Threads : pc[t] \in Working <=> owner = t

\* A call that exchanges protected frames with the session it found.
Secure(c) == c.needs # "none" /\ ~c.carries

\* The entry keeps one session, of profile p.
Only(p) ==
    /\ sessions[p] # Raw!NoSession /\ sessions[p].id # 0
    /\ \A q \in Raw!Profiles \ {p} : sessions[q] = Raw!NoSession

\* If the card holds that session, it is for the same profile and the card has
\* counted `more` commands more than the host.
InStep(p, more) ==
    card.id = sessions[p].id =>
        card.profile = p /\ card.count = sessions[p].count + more

\* The card that answered, or a session's card, is the one present, unless the
\* card was exchanged under an operation.
Same(k) == k = present \/ raced

\* Between operations.
RestInv ==
    owner = "none" =>
        /\ op = Raw!NoOp
        /\ bound = 0 => sessions = Raw!Cleared
        /\ bound # 0 => \E p \in Raw!Profiles :
              /\ Only(p) /\ InStep(p, 0)
              /\ bound = generation => Same(sessions[p].card)

\* What an operation finds in the entry while it runs.
EntryInv(t) ==
    LET c == call[t] IN
    /\ c.needs = "none" => sessions = Raw!Cleared /\ bound = 0
    /\ c.carries => sessions = Raw!Cleared
    /\ Secure(c) => Only(c.needs) /\ bound # 0 /\ Same(sessions[c.needs].card)

\* An operation before the card has heard its frame.
Early(t) ==
    LET c == call[t] IN
    /\ pc[t] \in {"resolve", "begin"} => op.heard = 0 /\ ~op.sent
    /\ pc[t] = "frame" /\ ~op.sent => op.heard = 0
    /\ pc[t] \in {"resolve", "begin", "frame"} /\ Secure(c) =>
          /\ InStep(c.needs, 0)
          /\ op.id = sessions[c.needs].id /\ op.count = sessions[c.needs].count
    /\ pc[t] \in {"frame", "heard"} =>
          op.left > 0 /\ (Secure(c) => op.left = 1 /\ ~op.sent)

\* A handshake whose last frame the card has heard.
Proved(t) ==
    LET c == call[t] IN
    /\ op.id # 0 /\ Same(op.card)
    /\ card.id = op.id => card.profile = c.installs /\ card.count = Raw!FirstCount(t)

\* An operation after that.
Afterwards(t) ==
    LET c == call[t] IN
    /\ pc[t] = "bind" => Raw!Handshake(c)
    /\ Raw!Handshake(c) /\ (pc[t] = "bind" \/ (pc[t] = "heard" /\ op.left = 1)) =>
          Proved(t)
    /\ pc[t] = "heard" /\ Secure(c) =>
          /\ Same(op.card)
          /\ op.answer = "verified" =>
                InStep(c.needs, IF c.needs # "iso" \/ c.verified THEN 1 ELSE 0)
          /\ op.answer = "plain" => card.id # sessions[c.needs].id

WorkInv == \A t \in Threads : owner = t => EntryInv(t) /\ Early(t) /\ Afterwards(t)

\* What the calls returned, and what a closed handle keeps.
HandleInv ==
    /\ bound <= generation
    /\ Raw!ClosedKeepsNothing
    /\ Raw!IdleChangeNoticed /\ Raw!NotSentUnheard

RawInv == RawTyped /\ RestInv /\ WorkInv /\ HandleInv


USE DEF Raw!None

-----------------------------------------------------------------------------
(***************************************************************************)
(* What the entry points of raw.cpp have in common.                        *)
(***************************************************************************)
\* A call without a session erases what the entry keeps, unless it closes it;
\* NonFirst goes on from an EV2 session; a protected exchange takes one frame
\* and installs nothing; only calls without a session send nothing.
Regular(c) ==
    /\ c.needs = "none" /\ c # Raw!df_raw_close => c.erases
    /\ c.needs = "none" => ~c.carries
    /\ c.carries => c.needs = "ev2" /\ c.installs = "ev2"
    /\ Secure(c) => c.installs = "none" /\ c.frames = 1
    /\ c.frames = 0 => c.needs = "none"

\* The call that does nothing is a call.
LEMMA NothingType == Raw!Nothing \in CallRecord
BY DEF Raw!Nothing, CallRecord

\* Every entry point is a record of the kinds above.
LEMMA CallsAreRegular == \A c \in Raw!Calls : c \in CallRecord /\ Regular(c)
<1> DEFINE Good(c) == c \in CallRecord /\ Regular(c)
<1> USE DEF Regular, Secure
<1>1. /\ 0 \in 0..3 /\ 1 \in 0..3 /\ 2 \in 0..3 /\ 3 \in 0..3
      /\ TRUE \in BOOLEAN /\ FALSE \in BOOLEAN
  OBVIOUS
<1>2. ASSUME NEW c \in {Raw!df_raw_native_frame, Raw!df_raw_native_exchange,
                        Raw!df_raw_iso_exchange, Raw!df_raw_reset, Raw!df_raw_close}
      PROVE  Good(c)
  <2>1. c \in CallRecord
    BY <1>1, NothingType, Zenon
    DEF CallRecord, Raw!df_raw_native_frame, Raw!df_raw_native_exchange,
        Raw!df_raw_iso_exchange, Raw!df_raw_reset, Raw!df_raw_close
  <2>2. /\ Raw!df_raw_native_frame.needs = "none" /\ ~Raw!df_raw_native_frame.carries
        /\ Raw!df_raw_native_frame.erases
        /\ Raw!df_raw_native_exchange.needs = "none" /\ ~Raw!df_raw_native_exchange.carries
        /\ Raw!df_raw_native_exchange.erases
    BY SMT DEF Raw!Nothing, Raw!df_raw_native_frame, Raw!df_raw_native_exchange
  <2>3. /\ Raw!df_raw_iso_exchange.needs = "none" /\ ~Raw!df_raw_iso_exchange.carries
        /\ Raw!df_raw_iso_exchange.erases
        /\ Raw!df_raw_reset.needs = "none" /\ ~Raw!df_raw_reset.carries
        /\ Raw!df_raw_reset.erases
        /\ Raw!df_raw_close.needs = "none" /\ ~Raw!df_raw_close.carries
    BY SMT DEF Raw!Nothing, Raw!df_raw_iso_exchange, Raw!df_raw_reset, Raw!df_raw_close
  <2> QED  BY <2>1, <2>2, <2>3, Zenon
<1>3. ASSUME NEW p \in Raw!Profiles
      PROVE  Good(Raw!Authenticate(p)) /\ Good(Raw!FromProvider(Raw!Authenticate(p)))
  <2> DEFINE c == Raw!Authenticate(p)  d == Raw!FromProvider(c)
  <2>1. (IF p = "iso" THEN "iso" ELSE "native") \in {"native", "iso", "any"}
        /\ (IF p = "iso" THEN 3 ELSE 2) \in 0..3 /\ p \in Raw!Profiles \cup {"none"}
    OBVIOUS
  <2>2. c \in CallRecord /\ d \in CallRecord
    <3>1. c \in CallRecord
      BY <1>1, <2>1, NothingType, Zenon DEF CallRecord, Raw!Authenticate
    <3> HIDE DEF c
    <3> QED  BY <1>1, <3>1, Zenon DEF CallRecord, Raw!FromProvider
  <2>3. /\ c.needs = "none" /\ ~c.carries /\ c.erases
        /\ d.needs = "none" /\ ~d.carries /\ d.erases
    BY SMT DEF Raw!Nothing, Raw!Authenticate, Raw!FromProvider
  <2> QED  BY <2>2, <2>3
<1>4. /\ Good(Raw!df_raw_authenticate_ev2_non_first_aes)
      /\ Good(Raw!df_raw_authenticate_ev2_non_first_aes_provider)
  <2> DEFINE c == Raw!df_raw_authenticate_ev2_non_first_aes  d == Raw!FromProvider(c)
  <2>1. "ev2" \in Raw!Profiles \cup {"none"}
    BY DEF Raw!Profiles
  <2>2. c \in CallRecord /\ d \in CallRecord
    <3>1. c \in CallRecord
      BY <1>1, <2>1, NothingType, Zenon
      DEF CallRecord, Raw!df_raw_authenticate_ev2_non_first_aes
    <3> HIDE DEF c
    <3> QED  BY <1>1, <3>1, Zenon DEF CallRecord, Raw!FromProvider
  <2>3. /\ c.needs = "ev2" /\ c.carries /\ c.installs = "ev2" /\ c.frames = 2
        /\ d.needs = "ev2" /\ d.carries /\ d.installs = "ev2" /\ d.frames = 2
    BY SMT DEF Raw!Nothing, Raw!df_raw_authenticate_ev2_non_first_aes, Raw!FromProvider
  <2> QED  BY <2>2, <2>3 DEF Raw!df_raw_authenticate_ev2_non_first_aes_provider
<1>5. ASSUME NEW v \in BOOLEAN PROVE Good(Raw!df_raw_iso_secure_exchange(v))
  <2> DEFINE c == Raw!df_raw_iso_secure_exchange(v)
  <2>1. "iso" \in Raw!Profiles \cup {"none"}
    BY DEF Raw!Profiles
  <2>2. c \in CallRecord
    BY <1>1, <2>1, NothingType, Zenon DEF CallRecord, Raw!df_raw_iso_secure_exchange
  <2>3. c.needs = "iso" /\ ~c.carries /\ c.installs = "none" /\ c.frames = 1
    BY SMT DEF Raw!Nothing, Raw!df_raw_iso_secure_exchange
  <2> QED  BY <2>2, <2>3
<1>6. ASSUME NEW p \in {"standard", "ev2"}, NEW v \in BOOLEAN, NEW e \in BOOLEAN
      PROVE  Good(Raw!df_raw_native_secure_exchange(p, v, e))
  <2> DEFINE c == Raw!df_raw_native_secure_exchange(p, v, e)
  <2>1. p \in Raw!Profiles \cup {"none"}
    BY DEF Raw!Profiles
  <2>2. c \in CallRecord
    BY <1>1, <2>1, NothingType, Zenon DEF CallRecord, Raw!df_raw_native_secure_exchange
  <2>3. c.needs = p /\ ~c.carries /\ c.installs = "none" /\ c.frames = 1
    BY SMT DEF Raw!Nothing, Raw!df_raw_native_secure_exchange
  <2> QED  BY <2>2, <2>3
<1> HIDE DEF Good
<1>7. "standard" \in Raw!Profiles /\ "ev2" \in Raw!Profiles /\ "iso" \in Raw!Profiles
  BY DEF Raw!Profiles
<1>8. ASSUME NEW c \in Raw!Calls PROVE Good(c)
  <2>1. \/ c \in {Raw!df_raw_native_frame, Raw!df_raw_native_exchange,
                  Raw!df_raw_iso_exchange, Raw!df_raw_reset, Raw!df_raw_close}
        \/ \E p \in Raw!Profiles :
              c = Raw!Authenticate(p) \/ c = Raw!FromProvider(Raw!Authenticate(p))
        \/ c \in {Raw!df_raw_authenticate_ev2_non_first_aes,
                  Raw!df_raw_authenticate_ev2_non_first_aes_provider}
        \/ \E v \in BOOLEAN : c = Raw!df_raw_iso_secure_exchange(v)
        \/ \E p \in {"standard", "ev2"}, v \in BOOLEAN, e \in BOOLEAN :
              c = Raw!df_raw_native_secure_exchange(p, v, e)
    BY <1>7, SMT
    DEF Raw!Calls, Raw!df_raw_authenticate_standard_aes,
        Raw!df_raw_authenticate_standard_aes_provider, Raw!df_raw_authenticate_ev2_first_aes,
        Raw!df_raw_authenticate_ev2_first_aes_provider, Raw!df_raw_authenticate_iso_aes,
        Raw!df_raw_authenticate_iso_aes_provider
  <2> QED  BY <2>1, <1>2, <1>3, <1>4, <1>5, <1>6
<1> QED  BY <1>8, Zenon DEF Good

\* The fields of the records, and who is where.
LEMMA RawFields ==
    ASSUME RawTyped
    PROVE  /\ generation \in Nat /\ generation > 0 /\ bound \in Nat /\ present \in Nat
           /\ card.id \in Nat /\ card.count \in Nat /\ card.profile \in Raw!Profiles \cup {"none"}
           /\ op.generation \in Nat /\ op.left \in Nat /\ op.sent \in BOOLEAN
           /\ op.heard \in Nat /\ op.id \in Nat /\ op.count \in Nat /\ op.card \in Nat
           /\ \A p \in Raw!Profiles :
                 /\ sessions[p] \in Raw!SessionType
                 /\ sessions[p].id \in Nat /\ sessions[p].card \in Nat
                 /\ sessions[p].count \in Nat /\ sessions[p].generation \in Nat
           /\ raced \in BOOLEAN
<1>1. /\ generation \in 1..MaxGeneration /\ bound \in 0..MaxGeneration /\ present \in Nat
      /\ card \in CardRecord
      /\ sessions \in [Raw!Profiles -> Raw!SessionType] /\ op \in OpRecord /\ raced \in BOOLEAN
  BY DEF RawTyped, EntryTyped
<1>2. generation \in Nat /\ generation > 0 /\ bound \in Nat
  BY <1>1, RawAssumption DEF Raw!ConstantsAssumption
<1>3. card.id \in Nat /\ card.count \in Nat /\ card.profile \in Raw!Profiles \cup {"none"}
  BY <1>1, RawAssumption DEF Raw!ConstantsAssumption, CardRecord
<1>4. /\ op.generation \in Nat /\ op.left \in Nat /\ op.sent \in BOOLEAN
      /\ op.heard \in Nat /\ op.id \in Nat /\ op.count \in Nat /\ op.card \in Nat
  BY <1>1 DEF OpRecord
<1>5. \A p \in Raw!Profiles :
                 /\ sessions[p] \in Raw!SessionType
                 /\ sessions[p].id \in Nat /\ sessions[p].card \in Nat
                 /\ sessions[p].count \in Nat /\ sessions[p].generation \in Nat
  BY <1>1 DEF Raw!SessionType
<1> QED  BY <1>1, <1>2, <1>3, <1>4, <1>5

\* What a thread in a call knows of its call.
LEMMA RawCallFields ==
    ASSUME RawTyped, NEW t \in Threads, pc[t] # "idle"
    PROVE  /\ call[t] \in Raw!Calls /\ Regular(call[t])
           /\ call[t].needs \in Raw!Profiles \cup {"none"}
           /\ call[t].installs \in Raw!Profiles \cup {"none"}
           /\ call[t].frames \in Nat
           /\ call[t].carries \in BOOLEAN /\ call[t].verified \in BOOLEAN
           /\ call[t].ends \in BOOLEAN /\ call[t].erases \in BOOLEAN
<1>1. call[t] \in Raw!Calls
  BY DEF RawTyped
<1>2. call[t] \in CallRecord /\ Regular(call[t])
  BY <1>1, CallsAreRegular, Zenon
<1>3. call[t].frames \in 0..3
  BY <1>2, Zenon DEF CallRecord
<1>4. /\ call[t].needs \in Raw!Profiles \cup {"none"}
      /\ call[t].installs \in Raw!Profiles \cup {"none"}
      /\ call[t].carries \in BOOLEAN /\ call[t].verified \in BOOLEAN
      /\ call[t].ends \in BOOLEAN /\ call[t].erases \in BOOLEAN
  BY <1>2, Zenon DEF CallRecord
<1> QED  BY <1>1, <1>2, <1>3, <1>4

\* The records an entry starts with.
LEMMA RawRecords ==
    /\ Raw!NoOp \in OpRecord
    /\ Raw!Cleared \in [Raw!Profiles -> Raw!SessionType]
    /\ Raw!NoSession \in Raw!SessionType
    /\ Raw!NoAuth \in CardRecord
    /\ Raw!NoAuth.id = 0 /\ Raw!NoSession.id = 0
    /\ Raw!NoOp.heard = 0 /\ ~Raw!NoOp.sent
    /\ \A p \in Raw!Profiles : Raw!Cleared[p] = Raw!NoSession
<1>1. Raw!NoOp \in OpRecord
  BY DEF Raw!NoOp, OpRecord
<1>2. Raw!NoSession \in Raw!SessionType
  BY DEF Raw!NoSession, Raw!SessionType
<1>3. Raw!Cleared \in [Raw!Profiles -> Raw!SessionType]
  BY <1>2, Zenon DEF Raw!Cleared
<1>4. Raw!NoAuth \in CardRecord
  BY RawAssumption DEF Raw!NoAuth, Raw!ConstantsAssumption, CardRecord
<1>5. Raw!NoAuth.id = 0 /\ Raw!NoSession.id = 0 /\ Raw!NoOp.heard = 0 /\ ~Raw!NoOp.sent
  BY DEF Raw!NoAuth, Raw!NoSession, Raw!NoOp
<1> QED  BY <1>1, <1>2, <1>3, <1>4, <1>5 DEF Raw!Cleared

\* A new handle satisfies the invariant.
LEMMA InitRaw == Raw!Init => RawInv
<1> SUFFICES ASSUME Raw!Init PROVE RawInv
  OBVIOUS
<1> USE DEF Raw!Init
<1>0. "none" \notin Threads /\ MaxGeneration \in Nat \ {0} /\ MaxCount \in Nat
  BY RawAssumption DEF Raw!ConstantsAssumption
<1>1. /\ generation \in 1..MaxGeneration /\ bound \in 0..MaxGeneration /\ present \in Nat
  BY <1>0
<1>2. EntryTyped
  BY <1>1, RawRecords, Zenon DEF EntryTyped
<1>3. /\ pc \in [Threads -> {"idle", "looked"} \cup Working]
      /\ call \in [Threads -> CallRecord]
      /\ \A t \in Threads : pc[t] = "idle"
  BY NothingType, Zenon
<1>4. RawTyped
  BY <1>0, <1>2, <1>3, RawRecords DEF RawTyped, Working
<1>5. RestInv /\ WorkInv
  BY <1>0 DEF RestInv, WorkInv
<1>6. HandleInv
  BY DEF HandleInv, Raw!ClosedKeepsNothing, Raw!IdleChangeNoticed, Raw!NotSentUnheard,
         Raw!NoResult
<1> QED  BY <1>4, <1>5, <1>6 DEF RawInv

\* The invariant's types are those of the module.
LEMMA RawTypes == RawTyped => Raw!TypeOK
BY Zenon DEF RawTyped, EntryTyped, Raw!TypeOK, CardRecord, Working

-----------------------------------------------------------------------------
(***************************************************************************)
(* The shapes of the steps: a call returns, is refused, or goes on.        *)
(***************************************************************************)
\* One thread holds the entry, and only the owner works.
LEMMA OwnerWorks ==
    ASSUME RawTyped, NEW t \in Threads
    PROVE  /\ pc[t] \in Working => owner = t /\ t # "none" /\ owner # "none"
           /\ pc[t] \in {"idle", "looked"} => owner # t
<1>1. "none" \notin Threads
  BY RawAssumption DEF Raw!ConstantsAssumption
<1>2. pc[t] \in Working <=> owner = t
  BY DEF RawTyped
<1> QED  BY <1>1, <1>2 DEF Working

\* What the owner's invariants are.
LEMMA OwnerKnows ==
    ASSUME RawInv, NEW t \in Threads, pc[t] \in Working
    PROVE  /\ owner = t /\ ~closed /\ owner # "none"
           /\ EntryInv(t) /\ Early(t) /\ Afterwards(t)
<1>1. owner = t /\ owner # "none"
  BY OwnerWorks DEF RawInv
<1>2. ~closed
  BY <1>1 DEF RawInv, HandleInv, Raw!ClosedKeepsNothing
<1> QED  BY <1>1, <1>2 DEF RawInv, WorkInv

\* An operation that returns leaves the entry to nobody.
LEMMA ReturnStep ==
    ASSUME RawInv, NEW t \in Threads, pc[t] \in Working, NEW r, Raw!Return(t, r),
           owner' = "none", EntryTyped', RestInv', bound' <= generation', closed' = closed,
           r.own \/ r.raced, r.outcome = "not_sent" => r.heard = 0
    PROVE  RawInv'
<1>1. /\ pc' = [pc EXCEPT ![t] = "idle"] /\ call' = [call EXCEPT ![t] = Raw!Nothing]
      /\ result' = r /\ op' = Raw!NoOp
  BY DEF Raw!Return, Raw!Ends, Raw!Goto
<1>2. "none" \notin Threads
  BY RawAssumption DEF Raw!ConstantsAssumption
<1>3. /\ pc \in [Threads -> {"idle", "looked"} \cup Working] /\ call \in [Threads -> CallRecord]
      /\ \A u \in Threads : pc[u] # "idle" => call[u] \in Raw!Calls
      /\ \A u \in Threads : pc[u] \in Working <=> owner = u
      /\ owner = t /\ ~closed
  BY OwnerKnows DEF RawInv, RawTyped
<1>4. /\ pc' \in [Threads -> {"idle", "looked"} \cup Working] /\ call' \in [Threads -> CallRecord]
      /\ \A u \in Threads : pc'[u] # "idle" => call'[u] \in Raw!Calls
      /\ \A u \in Threads : pc'[u] \in Working <=> owner' = u
  <2>1. pc'[t] = "idle" /\ \A u \in Threads : u # t => pc'[u] = pc[u] /\ call'[u] = call[u]
    BY <1>1, <1>3, Zenon
  <2>2. pc' \in [Threads -> {"idle", "looked"} \cup Working]
    BY <1>1, <1>3, Zenon
  <2>3. call' \in [Threads -> CallRecord]
    BY <1>1, <1>3, NothingType, Zenon
  <2> QED  BY <1>2, <1>3, <2>1, <2>2, <2>3 DEF Working
<1>5. RawTyped'
  BY <1>1, <1>4, RawRecords DEF RawTyped
<1>6. WorkInv'
  BY <1>2 DEF WorkInv
<1>7. HandleInv'
  BY <1>1, <1>3
  DEF HandleInv, Raw!ClosedKeepsNothing, Raw!IdleChangeNoticed, Raw!NotSentUnheard
<1> QED  BY <1>5, <1>6, <1>7 DEF RawInv

\* A thread whose operation a step leaves alone keeps what it knows.
LEMMA LeftAlone ==
    ASSUME NEW u \in Threads, EntryInv(u), Early(u), Afterwards(u),
           pc'[u] = pc[u], call'[u] = call[u], op' = op, card' = card,
           sessions' = sessions, bound' = bound, present' = present, raced' = raced
    PROVE  EntryInv(u)' /\ Early(u)' /\ Afterwards(u)'
<1>1. EntryInv(u)'
  BY DEF EntryInv, Only, Same, Secure
<1>2. Early(u)'
  BY DEF Early, InStep, Secure
<1>3. Afterwards(u)'
  BY DEF Afterwards, Proved, InStep, Same, Secure, Raw!Handshake, Raw!FirstCount
<1> QED  BY <1>1, <1>2, <1>3

\* What is kept between operations, if nothing of it moves.
LEMMA RestLeftAlone ==
    ASSUME RestInv, op' = op, card' = card, sessions' = sessions, bound' = bound,
           present' = present, raced' = raced, generation' = generation,
           owner' = "none" => owner = "none"
    PROVE  RestInv'
BY DEF RestInv, Only, InStep, Same

\* A call that is refused changes at most an entry that nobody works on.
LEMMA RefuseStep ==
    ASSUME RawInv, NEW t \in Threads, pc[t] \in {"idle", "looked"}, NEW code,
           Raw!Refused(t, code), UNCHANGED Raw!field, closed' = closed,
           \/ sessions' = sessions /\ bound' = bound
           \/ /\ owner = "none" /\ bound' = 0
              /\ sessions' \in [Raw!Profiles -> Raw!SessionType] /\ RestInv'
              /\ closed => sessions' = Raw!Cleared
    PROVE  RawInv'
<1>1. /\ pc' = [pc EXCEPT ![t] = "idle"] /\ call' = [call EXCEPT ![t] = Raw!Nothing]
      /\ op' = op /\ owner' = owner
      /\ result' = [Raw!NoResult EXCEPT !.code = code, !.outcome = "not_sent"]
  BY DEF Raw!Refused, Raw!Ends, Raw!Goto
<1>2. /\ generation' = generation /\ present' = present /\ card' = card /\ raced' = raced
  BY DEF Raw!field
<1>3. result'.own /\ result'.heard = 0
  BY <1>1, SMT DEF Raw!NoResult
<1>4. owner # t
  BY OwnerWorks DEF RawInv
<1>5. /\ pc'[t] = "idle"
      /\ \A u \in Threads : u # t => pc'[u] = pc[u] /\ call'[u] = call[u]
      /\ pc' \in [Threads -> {"idle", "looked"} \cup Working]
      /\ call' \in [Threads -> CallRecord]
  BY <1>1, NothingType, Zenon DEF RawInv, RawTyped
<1>6. RawTyped'
  <2>1. EntryTyped'
    <3>1. 0 \in 0..MaxGeneration
      BY RawAssumption DEF Raw!ConstantsAssumption
    <3> QED  BY <1>2, <3>1 DEF RawInv, RawTyped, EntryTyped
  <2> QED  BY <1>1, <1>4, <1>5, <2>1 DEF RawInv, RawTyped, Working
<1>7. RestInv'
  BY <1>1, <1>2, RestLeftAlone DEF RawInv
<1>8. WorkInv'
  <2> SUFFICES ASSUME NEW u \in Threads, owner' = u
               PROVE  EntryInv(u)' /\ Early(u)' /\ Afterwards(u)'
    BY DEF WorkInv
  <2>1. owner = u /\ u # t /\ owner # "none"
    BY <1>1, <1>4, RawAssumption DEF Raw!ConstantsAssumption
  <2>2. EntryInv(u) /\ Early(u) /\ Afterwards(u)
    BY <2>1 DEF RawInv, WorkInv
  <2>3. pc'[u] = pc[u] /\ call'[u] = call[u] /\ sessions' = sessions /\ bound' = bound
    BY <1>5, <2>1
  <2> QED  BY <1>1, <1>2, <2>2, <2>3, LeftAlone
<1>9. HandleInv'
  BY <1>1, <1>2, <1>3, RawFields
  DEF RawInv, HandleInv, Raw!ClosedKeepsNothing, Raw!IdleChangeNoticed, Raw!NotSentUnheard
<1> QED  BY <1>6, <1>7, <1>8, <1>9 DEF RawInv

\* A call enters the lock, or an operation goes on; label is where.
LEMMA GoOnStep ==
    ASSUME RawInv, NEW t \in Threads, owner' = t, owner \in {t, "none"},
           pc[t] # "idle", NEW label \in Working, Raw!Goto(t, label), call' = call,
           op' \in OpRecord, EntryTyped', bound' <= generation', ~closed, closed' = closed,
           result' = result, EntryInv(t)', Early(t)', Afterwards(t)'
    PROVE  RawInv'
<1>1. pc' = [pc EXCEPT ![t] = label]
  BY DEF Raw!Goto
<1>2. /\ pc'[t] = label
      /\ \A u \in Threads : u # t => pc'[u] = pc[u]
      /\ pc' \in [Threads -> {"idle", "looked"} \cup Working]
  BY <1>1, Zenon DEF RawInv, RawTyped
<1>3. "none" \notin Threads
  BY RawAssumption DEF Raw!ConstantsAssumption
<1>4. RawTyped'
  <2>1. \A u \in Threads : pc[u] \in Working <=> owner = u
    BY DEF RawInv, RawTyped
  <2>2. \A u \in Threads : pc'[u] \in Working <=> owner' = u
    BY <1>2, <1>3, <2>1
  <2>3. \A u \in Threads : pc'[u] # "idle" => call'[u] \in Raw!Calls
    BY <1>2 DEF RawInv, RawTyped
  <2> QED  BY <1>2, <2>2, <2>3, Zenon DEF RawInv, RawTyped
<1>5. RestInv' /\ WorkInv'
  BY <1>3 DEF RestInv, WorkInv
<1>6. HandleInv'
  BY DEF RawInv, HandleInv, Raw!ClosedKeepsNothing, Raw!IdleChangeNoticed, Raw!NotSentUnheard
<1> QED  BY <1>4, <1>5, <1>6 DEF RawInv

-----------------------------------------------------------------------------
(***************************************************************************)
(* Entering a call.                                                        *)
(***************************************************************************)
\* lookup_raw(): the call begins, or the handle is stale.
LEMMA LookupStep ==
    ASSUME RawInv, NEW t \in Threads, Raw!Lookup(t)
    PROVE  RawInv'
<1>1. CASE Raw!Refused(t, "stale_handle")
  BY <1>1, RefuseStep DEF Raw!Lookup, Raw!entry
<1>2. ASSUME NEW c \in Raw!Calls, call' = [call EXCEPT ![t] = c], Raw!Goto(t, "looked"),
             UNCHANGED <<op, result, owner>>
      PROVE  RawInv'
  <2>1. /\ generation' = generation /\ present' = present /\ card' = card /\ raced' = raced
        /\ sessions' = sessions /\ bound' = bound /\ closed' = closed
        /\ op' = op /\ result' = result /\ owner' = owner /\ pc[t] = "idle"
    BY <1>2 DEF Raw!Lookup, Raw!field, Raw!entry
  <2>2. owner # t
    BY <2>1, OwnerWorks DEF RawInv
  <2>3. c \in CallRecord
    BY CallsAreRegular
  <2>4. /\ pc'[t] = "looked" /\ call'[t] = c
        /\ \A u \in Threads : u # t => pc'[u] = pc[u] /\ call'[u] = call[u]
        /\ pc' \in [Threads -> {"idle", "looked"} \cup Working]
        /\ call' \in [Threads -> CallRecord]
    BY <1>2, <2>3, Zenon DEF RawInv, RawTyped, Raw!Goto
  <2>5. RawTyped'
    <3>1. EntryTyped'
      BY <2>1 DEF RawInv, RawTyped, EntryTyped
    <3> QED  BY <2>1, <2>2, <2>4, <3>1 DEF RawInv, RawTyped, Working
  <2>6. RestInv'
    BY <2>1, RestLeftAlone DEF RawInv
  <2>7. WorkInv'
    <3> SUFFICES ASSUME NEW u \in Threads, owner' = u
                 PROVE  EntryInv(u)' /\ Early(u)' /\ Afterwards(u)'
      BY DEF WorkInv
    <3>1. u # t /\ EntryInv(u) /\ Early(u) /\ Afterwards(u)
      BY <2>1, <2>2 DEF RawInv, WorkInv
    <3> QED  BY <2>1, <2>4, <3>1, LeftAlone
  <2>8. HandleInv'
    BY <2>1
    DEF RawInv, HandleInv, Raw!ClosedKeepsNothing, Raw!IdleChangeNoticed, Raw!NotSentUnheard
  <2> QED  BY <2>5, <2>6, <2>7, <2>8 DEF RawInv
<1> QED  BY <1>1, <1>2 DEF Raw!Lookup

\* Busy, or closed after the lookup.
LEMMA NotAdmittedStep ==
    ASSUME RawInv, NEW t \in Threads, Raw!NotAdmitted(t)
    PROVE  RawInv'
BY RefuseStep DEF Raw!NotAdmitted, Raw!entry

\* df_raw_close.
LEMMA CloseStep ==
    ASSUME RawInv, NEW t \in Threads, Raw!Close(t)
    PROVE  RawInv'
<1>1. /\ pc[t] = "looked" /\ owner = "none" /\ owner' = owner /\ closed' = TRUE
      /\ sessions' = Raw!Cleared /\ bound' = 0 /\ op' = Raw!NoOp
      /\ generation' = generation /\ present' = present /\ card' = card /\ raced' = raced
      /\ pc' = [pc EXCEPT ![t] = "idle"] /\ call' = [call EXCEPT ![t] = Raw!Nothing]
      /\ result' = [Raw!NoResult EXCEPT !.code = "ok"]
  BY DEF Raw!Close, Raw!MayRun, Raw!field, Raw!Return, Raw!Ends, Raw!Goto
<1>2. result'.own /\ result'.heard = 0
  BY <1>1, SMT DEF Raw!NoResult
<1>3. /\ pc'[t] = "idle"
      /\ \A u \in Threads : u # t => pc'[u] = pc[u] /\ call'[u] = call[u]
      /\ pc' \in [Threads -> {"idle", "looked"} \cup Working]
      /\ call' \in [Threads -> CallRecord]
  BY <1>1, NothingType, Zenon DEF RawInv, RawTyped
<1>4. "none" \notin Threads
  BY RawAssumption DEF Raw!ConstantsAssumption
<1>5. RawTyped'
  <2>1. 0 \in 0..MaxGeneration
    BY RawAssumption DEF Raw!ConstantsAssumption
  <2>2. EntryTyped'
    BY <1>1, <2>1, RawRecords, Zenon DEF RawInv, RawTyped, EntryTyped
  <2>3. \A u \in Threads : pc'[u] \in Working <=> owner' = u
    BY <1>1, <1>3, <1>4 DEF RawInv, RawTyped, Working
  <2>4. \A u \in Threads : pc'[u] # "idle" => call'[u] \in Raw!Calls
    BY <1>3 DEF RawInv, RawTyped
  <2> QED  BY <1>1, <1>3, <2>2, <2>3, <2>4, RawRecords DEF RawTyped
<1>6. RestInv' /\ WorkInv'
  BY <1>1, <1>4 DEF RestInv, WorkInv
<1>7. HandleInv'
  BY <1>1, <1>2, RawFields
  DEF RawInv, HandleInv, Raw!ClosedKeepsNothing, Raw!IdleChangeNoticed, Raw!NotSentUnheard
<1> QED  BY <1>5, <1>6, <1>7 DEF RawInv

\* A call that erases the sessions finds nothing kept.
LEMMA AdmitErasingStep ==
    ASSUME RawInv, NEW t \in Threads, Raw!AdmitErasing(t)
    PROVE  RawInv'
<1> DEFINE c == call[t]
           label == IF c.provider THEN "resolve" ELSE "begin"
<1>1. /\ pc[t] = "looked" /\ owner = "none" /\ ~closed /\ c.needs = "none"
      /\ c # Raw!df_raw_close
      /\ generation' = generation /\ present' = present /\ card' = card
  BY DEF Raw!AdmitErasing, Raw!MayRun
<1>2. c.erases /\ ~c.carries /\ ~Secure(c) /\ c.installs \in Raw!Profiles \cup {"none"}
  BY <1>1, RawCallFields DEF RawInv, Regular, Secure
<1>3. CASE Raw!Refused(t, "unsupported") /\ UNCHANGED <<Raw!entry, raced>>
  <2>1. UNCHANGED Raw!field /\ closed' = closed /\ sessions' = sessions /\ bound' = bound
    BY <1>1, <1>3 DEF Raw!field, Raw!entry, Raw!AdmitErasing
  <2> QED  BY <1>1, <1>3, <2>1, RefuseStep
<1>4. CASE /\ sessions' = (IF c.erases THEN Raw!Cleared ELSE sessions)
           /\ bound' = (IF c.erases THEN 0 ELSE bound) /\ owner' = t
           /\ raced' = (raced /\ c.installs = Raw!None) /\ Raw!Goto(t, label)
           /\ UNCHANGED <<closed, op, result, call>>
  <2>1. /\ sessions' = Raw!Cleared /\ bound' = 0 /\ closed' = closed /\ op' = op
        /\ result' = result /\ call' = call /\ op = Raw!NoOp /\ raced' \in BOOLEAN
    BY <1>1, <1>2, <1>4 DEF RawInv, RestInv
  <2>2. label \in {"resolve", "begin"} /\ label \in Working
    BY DEF Working
  <2>3. pc'[t] = label
    BY <1>4, Zenon DEF Raw!Goto, RawInv, RawTyped
  <2> HIDE DEF label
  <2>4. EntryTyped'
    <3>1. 0 \in 0..MaxGeneration
      BY RawAssumption DEF Raw!ConstantsAssumption
    <3> QED  BY <1>1, <2>1, <3>1, RawRecords DEF RawInv, RawTyped, EntryTyped
  <2>5. op' \in OpRecord /\ bound' <= generation'
    BY <1>1, <2>1, RawFields, RawRecords DEF RawInv
  <2>6. EntryInv(t)'
    BY <1>1, <1>2, <2>1 DEF EntryInv, Secure
  <2>7. Early(t)'
    BY <1>2, <2>1, <2>2, <2>3, RawRecords DEF Early, Secure
  <2>8. Afterwards(t)'
    BY <1>2, <2>1, <2>2, <2>3 DEF Afterwards, Secure
  <2> QED  BY <1>1, <1>4, <2>1, <2>2, <2>4, <2>5, <2>6, <2>7, <2>8, GoOnStep
<1> QED  BY <1>3, <1>4 DEF Raw!AdmitErasing

\* A call that needs a session finds the one the entry keeps, and drops none but it.
LEMMA AdmitWithSessionStep ==
    ASSUME RawInv, NEW t \in Threads, Raw!AdmitWithSession(t)
    PROVE  RawInv'
<1> DEFINE c == call[t]
           s == sessions[c.needs]
           label == IF c.provider THEN "resolve" ELSE "begin"
<1>1. /\ pc[t] = "looked" /\ owner = "none" /\ ~closed /\ c.needs # "none"
      /\ UNCHANGED Raw!field /\ closed' = closed
      /\ generation' = generation /\ present' = present /\ card' = card /\ raced' = raced
  BY DEF Raw!AdmitWithSession, Raw!MayRun, Raw!field
<1>2. /\ c.needs \in Raw!Profiles /\ Regular(c) /\ op = Raw!NoOp /\ c.carries \in BOOLEAN
      /\ c.carries => c.needs = "ev2"
  BY <1>1, RawCallFields DEF RawInv, RestInv, Regular
<1>a. Raw!Refused(t, "session_invalid") \/ Raw!Refused(t, "card_removed") => op' = op
  BY DEF Raw!Refused
<1>b. sessions \in [Raw!Profiles -> Raw!SessionType] /\ 0 \in 0..MaxGeneration
      /\ bound \in 0..MaxGeneration /\ bound <= generation
  BY RawAssumption DEF RawInv, RawTyped, EntryTyped, Raw!ConstantsAssumption, HandleInv
<1>3. CASE ~Raw!Current /\ sessions' = Raw!Cleared /\ bound' = 0
           /\ Raw!Refused(t, "session_invalid")
  <2>1. RestInv'
    BY <1>2, <1>3, <1>a DEF RestInv
  <2> QED  BY <1>1, <1>3, <2>1, RawRecords, RefuseStep
<1>4. CASE Raw!Refused(t, "session_invalid") /\ UNCHANGED <<sessions, bound>>
  BY <1>1, <1>4, RefuseStep
<1>5. Raw!Current /\ s # Raw!NoSession =>
        /\ bound = generation /\ Only(c.needs) /\ InStep(c.needs, 0) /\ Same(s.card) /\ bound # 0
  <2>1. Raw!Current /\ s # Raw!NoSession =>
          \E p \in Raw!Profiles : Only(p) /\ InStep(p, 0) /\ Same(sessions[p].card)
    BY <1>1 DEF Raw!Current, RawInv, RestInv
  <2> QED  BY <1>2, <2>1 DEF Raw!Current, Only
<1>6. CASE /\ Raw!Current /\ s # Raw!NoSession /\ c.needs = "iso"
           /\ sessions' = [sessions EXCEPT !.iso = Raw!NoSession] /\ bound' = 0
           /\ Raw!Refused(t, "card_removed")
  <2>1. \A q \in Raw!Profiles : sessions'[q] = Raw!NoSession
    BY <1>5, <1>6, <1>b DEF Only
  <2>2. sessions' = Raw!Cleared
    BY <1>6, <1>b, <2>1 DEF Raw!Cleared
  <2>3. RestInv'
    BY <1>2, <1>6, <1>a, <2>2 DEF RestInv
  <2> QED  BY <1>1, <1>6, <2>2, <2>3, RawRecords, RefuseStep
<1>7. CASE /\ Raw!Current /\ s # Raw!NoSession
           /\ owner' = t
           /\ op' = [Raw!NoOp EXCEPT !.id = s.id, !.count = s.count]
           /\ sessions' = (IF c.carries THEN [sessions EXCEPT !.ev2 = Raw!NoSession]
                           ELSE sessions)
           /\ Raw!Goto(t, label)
           /\ UNCHANGED <<bound, result, call>>
  <2>1. label \in {"resolve", "begin"} /\ label \in Working
    BY DEF Working
  <2>2. pc'[t] = label
    BY <1>7, Zenon DEF Raw!Goto, RawInv, RawTyped
  <2>3. /\ op'.id = s.id /\ op'.count = s.count /\ op'.heard = 0 /\ ~op'.sent
    BY <1>7, SMT DEF Raw!NoOp
  <2>4. s.id \in Nat /\ s.count \in Nat
    BY <1>2, RawFields DEF RawInv
  <2>5. op' \in OpRecord
    BY <1>7, <2>4, RawRecords, Zenon DEF OpRecord
  <2>6. c.carries => sessions' = Raw!Cleared
    <3> SUFFICES ASSUME c.carries PROVE sessions' = Raw!Cleared
      OBVIOUS
    <3>1. \A q \in Raw!Profiles : sessions'[q] = Raw!NoSession
      BY <1>2, <1>5, <1>7, <1>b DEF Only
    <3> QED  BY <1>7, <1>b, <3>1 DEF Raw!Cleared
  <2>7. ~c.carries => sessions' = sessions
    BY <1>7
  <2>8. EntryTyped'
    BY <1>1, <1>2, <1>7, <2>6, <2>7, RawRecords DEF RawInv, RawTyped, EntryTyped
  <2> HIDE DEF label
  <2>9. EntryInv(t)'
    BY <1>1, <1>2, <1>5, <1>7, <2>6, <2>7 DEF EntryInv, Secure, Only, Same
  <2>10. Early(t)'
    BY <1>1, <1>2, <1>5, <1>7, <2>1, <2>2, <2>3, <2>7 DEF Early, Secure, InStep
  <2>11. Afterwards(t)'
    BY <2>1, <2>2 DEF Afterwards
  <2> QED  BY <1>1, <1>7, <1>b, <2>1, <2>5, <2>8, <2>9, <2>10, <2>11, GoOnStep
<1> QED  BY <1>1, <1>3, <1>4, <1>6, <1>7 DEF Raw!AdmitWithSession

-----------------------------------------------------------------------------
(***************************************************************************)
(* The operation fails.                                                    *)
(***************************************************************************)
\* Every failure path: what the entry keeps afterwards is a session in step
\* with its card and bound, or nothing at all.
LEMMA AbandonStep ==
    ASSUME RawInv, NEW t \in Threads, pc[t] \in Working, NEW code, NEW o,
           Raw!Abandon(t, code, o), o = "not_sent" => op.heard = 0,
           o = "not_sent" /\ Secure(call[t]) => InStep(call[t].needs, 0)
    PROVE  RawInv'
<1> DEFINE c == call[t]
           r == [code |-> code, outcome |-> o, heard |-> op.heard, own |-> TRUE, raced |-> raced]
<1>1. /\ Raw!Return(t, r) /\ owner' = "none" /\ closed' = closed /\ op' = Raw!NoOp
      /\ generation' = generation /\ present' = present /\ card' = card /\ raced' = raced
  BY DEF Raw!Abandon, Raw!Fails, Raw!field, Raw!Return
<1>2. /\ Regular(c) /\ c.needs \in Raw!Profiles \cup {"none"} /\ c.carries \in BOOLEAN
      /\ EntryInv(t)
  BY RawCallFields, OwnerKnows DEF RawInv, Working
<1>3. sessions \in [Raw!Profiles -> Raw!SessionType] /\ 0 \in 0..MaxGeneration
      /\ bound \in 0..MaxGeneration /\ bound <= generation
  BY RawAssumption DEF RawInv, RawTyped, EntryTyped, Raw!ConstantsAssumption, HandleInv
<1>4. \/ sessions' = Raw!Cleared /\ bound' = 0
      \/ sessions' = sessions /\ bound' = bound /\ Secure(c) /\ InStep(c.needs, 0)
  <2>1. CASE Secure(c) /\ sessions' = [sessions EXCEPT ![c.needs] = Raw!NoSession] /\ bound' = 0
    <3>1. \A q \in Raw!Profiles : sessions'[q] = Raw!NoSession
      BY <1>2, <1>3, <2>1 DEF EntryInv, Only, Secure
    <3> QED  BY <1>3, <2>1, <3>1 DEF Raw!Cleared
  <2>2. CASE Secure(c) /\ sessions' = sessions /\ bound' = bound /\ o = "not_sent"
    BY <2>2
  <2>3. CASE c.carries /\ sessions' = Raw!Cleared /\ bound' = 0
    BY <2>3
  <2>4. CASE c.needs = "none" /\ sessions' = sessions /\ bound' = bound
    BY <1>2, <2>4 DEF EntryInv
  <2> QED  BY <1>2, <2>1, <2>2, <2>3, <2>4 DEF Raw!Abandon, Raw!AfterFailure, Secure, Regular
<1>5. EntryTyped'
  BY <1>1, <1>3, <1>4, RawRecords DEF RawInv, RawTyped, EntryTyped
<1>6. RestInv'
  <2>1. CASE sessions' = Raw!Cleared /\ bound' = 0
    BY <1>1, <2>1 DEF RestInv
  <2>2. CASE sessions' = sessions /\ bound' = bound /\ Secure(c) /\ InStep(c.needs, 0)
    <3> DEFINE p == call[t].needs
    <3>1. p \in Raw!Profiles /\ Only(p) /\ InStep(p, 0) /\ Same(sessions[p].card)
      BY <1>2, <2>2 DEF EntryInv, Secure
    <3> SUFFICES ASSUME NEW q \in Raw!Profiles, Only(q), InStep(q, 0), Same(sessions[q].card)
                 PROVE  RestInv'
      BY <3>1
    <3> QED
      BY <1>1, <1>2, <2>2 DEF RestInv, Only, InStep, Same, EntryInv, Secure
  <2> QED  BY <1>4, <2>1, <2>2
<1>7. bound' <= generation'
  BY <1>1, <1>3, <1>4, RawFields DEF RawInv
<1> QED  BY <1>1, <1>5, <1>6, <1>7, ReturnStep

\* The key provider delivers or fails.
LEMMA ResolveKeyStep ==
    ASSUME RawInv, NEW t \in Threads, Raw!ResolveKey(t)
    PROVE  RawInv'
<1>1. pc[t] = "resolve" /\ pc[t] \in Working
  BY DEF Raw!ResolveKey, Working
<1>2. /\ owner = t /\ ~closed /\ EntryInv(t) /\ Early(t) /\ Afterwards(t)
  BY <1>1, OwnerKnows
<1>3. CASE Raw!Abandon(t, "crypto", "not_sent")
  <2>1. op.heard = 0 /\ (Secure(call[t]) => InStep(call[t].needs, 0))
    BY <1>1, <1>2 DEF Early
  <2> QED  BY <1>1, <1>3, <2>1, AbandonStep
<1>4. CASE Raw!Goto(t, "begin") /\ UNCHANGED <<Raw!field, Raw!entry, owner, call, op, result>>
  <2>1. /\ generation' = generation /\ present' = present /\ card' = card /\ raced' = raced
        /\ sessions' = sessions /\ bound' = bound /\ closed' = closed
        /\ op' = op /\ result' = result /\ owner' = owner /\ call' = call
    BY <1>4 DEF Raw!field, Raw!entry
  <2>2. pc'[t] = "begin" /\ "begin" \in Working
    BY <1>4, Zenon DEF Raw!Goto, RawInv, RawTyped, Working
  <2>3. EntryTyped' /\ op' \in OpRecord /\ bound' <= generation'
    BY <2>1 DEF RawInv, RawTyped, EntryTyped, HandleInv
  <2>4. EntryInv(t)'
    BY <1>2, <2>1 DEF EntryInv, Only, Same, Secure
  <2>5. Early(t)'
    BY <1>1, <1>2, <2>1, <2>2 DEF Early, InStep, Secure
  <2>6. Afterwards(t)'
    BY <2>2 DEF Afterwards
  <2> QED  BY <1>1, <1>2, <1>4, <2>1, <2>2, <2>3, <2>4, <2>5, <2>6, GoOnStep
<1> QED  BY <1>3, <1>4 DEF Raw!ResolveKey

\* A transaction begins.
LEMMA BeginStep ==
    ASSUME RawInv, NEW t \in Threads, Raw!Begin(t)
    PROVE  RawInv'
<1> DEFINE c == call[t]
<1>1. /\ pc[t] = "begin" /\ pc[t] \in Working /\ c.frames > 0
      /\ op' = [op EXCEPT !.generation = generation, !.left = c.frames]
      /\ generation' = generation /\ present' = present /\ card' = card /\ raced' = raced
      /\ sessions' = sessions /\ bound' = bound /\ closed' = closed
      /\ result' = result /\ owner' = owner /\ call' = call /\ Raw!Goto(t, "frame")
  BY DEF Raw!Begin, Working, Raw!field, Raw!entry
<1>2. /\ owner = t /\ ~closed /\ EntryInv(t) /\ Early(t) /\ Afterwards(t)
  BY <1>1, OwnerKnows
<1>3. pc'[t] = "frame" /\ "frame" \in Working
  BY <1>1, Zenon DEF Raw!Goto, RawInv, RawTyped, Working
<1>4. c.frames \in Nat /\ generation \in Nat /\ (Secure(c) => c.frames = 1)
  BY <1>1, RawFields, RawCallFields DEF RawInv, Regular
<1>5. op \in OpRecord
  BY DEF RawInv, RawTyped
<1>6. op' \in OpRecord
  BY <1>1, <1>4, <1>5, Zenon DEF OpRecord
<1>7. /\ op'.left = c.frames /\ op'.sent = op.sent /\ op'.heard = op.heard
      /\ op'.id = op.id /\ op'.count = op.count
  BY <1>1, <1>5 DEF OpRecord
<1>8. EntryTyped' /\ bound' <= generation'
  BY <1>1 DEF RawInv, RawTyped, EntryTyped, HandleInv
<1>9. EntryInv(t)'
  BY <1>1, <1>2 DEF EntryInv, Only, Same, Secure
<1>10. Early(t)'
  BY <1>1, <1>2, <1>3, <1>4, <1>7 DEF Early, InStep, Secure
<1>11. Afterwards(t)'
  BY <1>3 DEF Afterwards
<1> QED  BY <1>1, <1>2, <1>3, <1>6, <1>8, <1>9, <1>10, <1>11, GoOnStep

\* df_raw_reset: the generation advances, and no session is kept.
LEMMA ResetTransportStep ==
    ASSUME RawInv, NEW t \in Threads, Raw!ResetTransport(t)
    PROVE  RawInv'
<1>1. PICK code \in {"ok", "transport"} :
         Raw!Return(t, [Raw!NoResult EXCEPT !.code = code, !.outcome = "unknown", !.heard = 1])
  BY DEF Raw!ResetTransport
<1> DEFINE r == [Raw!NoResult EXCEPT !.code = code, !.outcome = "unknown", !.heard = 1]
<1>2. /\ pc[t] = "begin" /\ pc[t] \in Working /\ call[t].frames = 0
      /\ generation < MaxGeneration /\ generation' = generation + 1 /\ card' = Raw!NoAuth
      /\ owner' = "none" /\ present' = present /\ raced' = raced
      /\ sessions' = sessions /\ bound' = bound /\ closed' = closed
  BY DEF Raw!ResetTransport, Working, Raw!entry
<1>3. call[t].needs = "none" /\ EntryInv(t)
  BY <1>2, OwnerKnows, RawCallFields DEF RawInv, Regular
<1>4. sessions = Raw!Cleared /\ bound = 0 /\ op' = Raw!NoOp
  BY <1>1, <1>3 DEF EntryInv, Raw!Return
<1>5. r.own /\ r.outcome = "unknown"
  BY SMT DEF Raw!NoResult
<1>6. EntryTyped'
  <2>1. generation' \in 1..MaxGeneration
    BY <1>2, RawAssumption DEF RawInv, RawTyped, EntryTyped, Raw!ConstantsAssumption
  <2> QED  BY <1>2, <2>1, RawRecords DEF RawInv, RawTyped, EntryTyped
<1>7. RestInv' /\ bound' <= generation'
  BY <1>2, <1>4, RawFields DEF RestInv, RawInv
<1> HIDE DEF r
<1> QED  BY <1>1, <1>2, <1>5, <1>6, <1>7, ReturnStep DEF r

\* A frame that is not sent, or refused for the generation.
LEMMA FrameNotSentStep ==
    ASSUME RawInv, NEW t \in Threads, Raw!FrameNotSent(t)
    PROVE  RawInv'
<1> DEFINE code == IF generation # op.generation THEN "card_removed" ELSE "transport"
           o == Raw!LostOutcome(FALSE)
<1>1. pc[t] = "frame" /\ pc[t] \in Working /\ Raw!Abandon(t, code, o)
  BY DEF Raw!FrameNotSent, Working
<1>2. Early(t)
  BY <1>1, OwnerKnows
<1>3. o = "not_sent" => op.heard = 0
  BY <1>1, <1>2 DEF Early, Raw!LostOutcome
<1>4. Secure(call[t]) => InStep(call[t].needs, 0)
  BY <1>1, <1>2 DEF Early
<1> HIDE DEF code, o
<1> QED  BY <1>1, <1>3, <1>4, AbandonStep

\* An answer that does not arrive.
LEMMA AnswerLostStep ==
    ASSUME RawInv, NEW t \in Threads, Raw!AnswerLost(t)
    PROVE  RawInv'
<1> DEFINE code == IF generation # op.generation THEN "card_removed" ELSE "transport"
           o == Raw!LostOutcome(TRUE)
<1>1. pc[t] = "heard" /\ pc[t] \in Working /\ Raw!Abandon(t, code, o)
  BY DEF Raw!AnswerLost, Working
<1>2. o # "not_sent"
  BY DEF Raw!LostOutcome
<1> HIDE DEF code, o
<1> QED  BY <1>1, <1>2, AbandonStep

-----------------------------------------------------------------------------
(***************************************************************************)
(* A frame is heard, and answered.                                         *)
(***************************************************************************)
\* A handshake runs with no session kept, so its new session is a new number.
LEMMA FreshSession ==
    ASSUME sessions = Raw!Cleared
    PROVE  Raw!Fresh \in Nat /\ Raw!Fresh # 0
<1> DEFINE ids == {card.id, op.id} \cup {sessions[p].id : p \in Raw!Profiles}
<1>1. \A p \in Raw!Profiles : sessions[p].id = 0
  BY RawRecords
<1>2. \A n \in ids : n = card.id \/ n = op.id \/ n = 0
  BY <1>1
<1> HIDE DEF ids
<1>3. \E n \in 1..5 : n \notin ids
  <2>1. 1 \in 1..5 /\ 2 \in 1..5 /\ 3 \in 1..5
    OBVIOUS
  <2>2. 1 \notin ids \/ 2 \notin ids \/ 3 \notin ids
    BY <1>2
  <2> QED  BY <2>1, <2>2
<1>4. (CHOOSE n \in 1..5 : n \notin ids) \in 1..5
  BY <1>3
<1>5. Raw!Fresh \in 1..5
  BY <1>4 DEF Raw!Fresh, ids
<1> QED  BY <1>5

\* In a handshake, and only then, nothing is kept meanwhile.
LEMMA HandshakeKeepsNothing ==
    ASSUME RawInv, NEW t \in Threads, pc[t] \in Working, Raw!Handshake(call[t])
    PROVE  /\ sessions = Raw!Cleared /\ ~Secure(call[t])
           /\ call[t].installs \in Raw!Profiles
<1>1. /\ Regular(call[t]) /\ call[t].needs \in Raw!Profiles \cup {"none"}
      /\ call[t].installs \in Raw!Profiles \cup {"none"} /\ EntryInv(t)
  BY RawCallFields, OwnerKnows DEF RawInv, Working
<1> QED  BY <1>1 DEF Regular, Secure, Raw!Handshake, EntryInv

\* What a card that heard a frame holds, and how its answer looks to the session.
LEMMA TakenFacts ==
    ASSUME RawInv, NEW t \in Threads, pc[t] = "frame", NEW a \in Raw!CardTakes(t),
           a.held.count <= MaxCount
    PROVE  /\ a.held \in CardRecord
           /\ a.answer \in {"none", "proof", "rejected", "verified", "plain"}
           /\ Raw!Handshake(call[t]) /\ op.left = 1 =>
                a.held = [id |-> Raw!Fresh, profile |-> call[t].installs,
                          count |-> Raw!FirstCount(t)]
           /\ Secure(call[t]) /\ a.answer = "verified" =>
                /\ card.id = op.id /\ a.held.id = card.id /\ a.held.profile = card.profile
                /\ a.held.count = IF card.profile # "iso" \/ call[t].verified
                                  THEN card.count + 1 ELSE card.count
           /\ Secure(call[t]) /\ a.answer = "plain" =>
                a.held = card /\ (card.id # op.id \/ card.id = 0)
<1> DEFINE c == call[t]
           mine == card.id = op.id /\ card.id # 0
           counted == [card EXCEPT !.count = @ + 1]
<1>1. /\ pc[t] \in Working /\ Regular(c) /\ c.needs \in Raw!Profiles \cup {"none"}
      /\ c.installs \in Raw!Profiles \cup {"none"}
  BY RawCallFields DEF RawInv, Working
<1>2. /\ card.id \in Nat /\ card.count \in Nat /\ op.count \in Nat /\ MaxCount \in Nat
      /\ card \in CardRecord /\ Raw!NoAuth \in CardRecord
  BY RawFields, RawRecords, RawAssumption
  DEF RawInv, RawTyped, EntryTyped, Raw!ConstantsAssumption
<1>3. /\ counted.id = card.id /\ counted.profile = card.profile
      /\ counted.count = card.count + 1
      /\ counted.count <= MaxCount => counted \in CardRecord
  <2>1. /\ counted.id = card.id /\ counted.profile = card.profile
        /\ counted.count = card.count + 1
    BY <1>2 DEF CardRecord
  <2>2. counted.count <= MaxCount => card.count + 1 \in 0..MaxCount
    BY <1>2, <2>1
  <2>3. card.count + 1 \in 0..MaxCount => counted \in CardRecord
    BY <1>2, Zenon DEF CardRecord
  <2> QED  BY <2>1, <2>2, <2>3
<1>4. CASE Raw!Handshake(c)
  <2> DEFINE new == [id |-> Raw!Fresh, profile |-> c.installs, count |-> Raw!FirstCount(t)]
  <2>1. a = [answer |-> "proof", held |-> IF op.left > 1 THEN Raw!NoAuth ELSE new]
    BY <1>4 DEF Raw!CardTakes, Raw!FirstCount
  <2>2. a.answer = "proof" /\ a.held = IF op.left > 1 THEN Raw!NoAuth ELSE new
    BY <2>1
  <2>3. ~Secure(c) /\ c.installs \in Raw!Profiles /\ Raw!Fresh \in Nat
    BY <1>1, <1>4, HandshakeKeepsNothing, FreshSession
  <2>4. Raw!FirstCount(t) \in Nat
    BY <1>2 DEF Raw!FirstCount
  <2>5. Raw!FirstCount(t) <= MaxCount => new \in CardRecord
    BY <1>2, <2>3, <2>4 DEF CardRecord
  <2>6. new.count = Raw!FirstCount(t)
    OBVIOUS
  <2> HIDE DEF new
  <2>7. a.held \in CardRecord
    BY <1>2, <2>2, <2>5, <2>6
  <2> QED  BY <2>2, <2>3, <2>7 DEF new
<1>5. CASE ~Raw!Handshake(c) /\ c.needs # "none" /\ mine
  <2>1. \/ a = [held |-> Raw!NoAuth, answer |-> "rejected"]
        \/ a = [held |-> IF card.profile # "iso" \/ c.verified THEN counted ELSE card,
                answer |-> "verified"]
    BY <1>5 DEF Raw!CardTakes
  <2>2. \/ a.held = Raw!NoAuth /\ a.answer = "rejected"
        \/ /\ a.held = (IF card.profile # "iso" \/ c.verified THEN counted ELSE card)
           /\ a.answer = "verified"
    BY <2>1
  <2> HIDE DEF counted
  <2> QED  BY <1>2, <1>3, <1>5, <2>2
<1>6. CASE ~Raw!Handshake(c) /\ c.needs # "none" /\ ~mine
  <2>1. \/ a = [held |-> Raw!NoAuth, answer |-> "rejected"]
        \/ a = [held |-> card, answer |-> "plain"]
    BY <1>6 DEF Raw!CardTakes
  <2>2. \/ a.held = Raw!NoAuth /\ a.answer = "rejected"
        \/ a.held = card /\ a.answer = "plain"
    BY <2>1
  <2> QED  BY <1>2, <1>6, <2>2
<1>7. CASE ~Raw!Handshake(c) /\ c.needs = "none"
  <2>1. \/ a = [held |-> Raw!NoAuth, answer |-> "plain"]
        \/ a = [held |-> IF card.id = 0 THEN card ELSE counted, answer |-> "plain"]
    BY <1>7 DEF Raw!CardTakes
  <2>2. /\ a.held = Raw!NoAuth \/ a.held = card \/ a.held = counted
        /\ a.answer = "plain"
    BY <2>1
  <2> HIDE DEF counted
  <2> QED  BY <1>2, <1>3, <1>7, <2>2 DEF Secure
<1> QED  BY <1>4, <1>5, <1>6, <1>7

\* The card hears the frame.
LEMMA FrameHeardStep ==
    ASSUME RawInv, NEW t \in Threads, Raw!FrameHeard(t)
    PROVE  RawInv'
<1> DEFINE c == call[t]
           id == IF Raw!Handshake(c) /\ op.left = 1 THEN Raw!Fresh ELSE op.id
<1>1. PICK a \in Raw!CardTakes(t) :
         /\ a.held.count <= MaxCount /\ card' = a.held
         /\ op' = [op EXCEPT !.answer = a.answer, !.heard = @ + 1, !.card = present, !.id = id]
  BY DEF Raw!FrameHeard
<1>2. /\ pc[t] = "frame" /\ pc[t] \in Working /\ generation = op.generation
      /\ generation' = generation /\ present' = present /\ raced' = raced
      /\ sessions' = sessions /\ bound' = bound /\ closed' = closed
      /\ result' = result /\ owner' = owner /\ call' = call /\ Raw!Goto(t, "heard")
  BY DEF Raw!FrameHeard, Working, Raw!entry
<1>3. /\ owner = t /\ ~closed /\ EntryInv(t) /\ Early(t) /\ Afterwards(t)
  BY <1>2, OwnerKnows
<1>4. pc'[t] = "heard" /\ "heard" \in Working
  BY <1>2, Zenon DEF Raw!Goto, RawInv, RawTyped, Working
<1>5. /\ op \in OpRecord /\ op.heard \in Nat /\ op.heard + 1 \in Nat /\ op.id \in Nat
      /\ op.count \in Nat /\ present \in Nat
  BY RawFields DEF RawInv, RawTyped
<1>6. /\ Raw!Handshake(c) => Raw!Fresh \in Nat /\ Raw!Fresh # 0
      /\ Raw!Handshake(c) => ~Secure(c)
      /\ Secure(c) => ~Raw!Handshake(c) /\ c.needs \in Raw!Profiles
  <2>1. Raw!Handshake(c) => sessions = Raw!Cleared /\ ~Secure(c)
    BY <1>2, HandshakeKeepsNothing
  <2>2. c.needs \in Raw!Profiles \cup {"none"}
    BY <1>2, RawCallFields DEF RawInv
  <2> QED  BY <2>1, <2>2, FreshSession DEF Secure
<1>7. /\ card' \in CardRecord
      /\ a.answer \in {"none", "proof", "rejected", "verified", "plain"}
      /\ Raw!Handshake(c) /\ op.left = 1 =>
           a.held = [id |-> Raw!Fresh, profile |-> c.installs, count |-> Raw!FirstCount(t)]
      /\ Secure(c) /\ a.answer = "verified" =>
           /\ card.id = op.id /\ a.held.id = card.id /\ a.held.profile = card.profile
           /\ a.held.count = IF card.profile # "iso" \/ c.verified
                             THEN card.count + 1 ELSE card.count
      /\ Secure(c) /\ a.answer = "plain" =>
           a.held = card /\ (card.id # op.id \/ card.id = 0)
  BY <1>1, <1>2, TakenFacts
<1>8. id \in Nat
  BY <1>5, <1>6
<1>9. /\ op'.answer = a.answer /\ op'.card = present /\ op'.id = id
      /\ op'.left = op.left /\ op'.sent = op.sent /\ op'.count = op.count
  BY <1>1, <1>5 DEF OpRecord
<1>10. op' \in OpRecord
  BY <1>1, <1>5, <1>7, <1>8, Zenon DEF OpRecord
<1>11. EntryTyped' /\ bound' <= generation'
  BY <1>2, <1>7 DEF RawInv, RawTyped, EntryTyped, HandleInv
<1>12. EntryInv(t)'
  BY <1>2, <1>3 DEF EntryInv, Only, Same, Secure
<1>13. Early(t)'
  BY <1>2, <1>3, <1>4, <1>9 DEF Early, Secure
<1>14. Afterwards(t)'
  <2>1. Same(op.card)'
    BY <1>2, <1>9 DEF Same
  <2>2. ASSUME Raw!Handshake(c), op.left = 1 PROVE Proved(t)'
    <3>1. op'.id = Raw!Fresh /\ Raw!Fresh # 0
      BY <1>6, <1>9, <2>2
    <3>2. card'.profile = c.installs /\ card'.count = Raw!FirstCount(t)
      BY <1>1, <1>7, <2>2
    <3>3. Raw!FirstCount(t)' = Raw!FirstCount(t)
      BY <1>2, <1>9 DEF Raw!FirstCount
    <3> QED  BY <1>2, <2>1, <3>1, <3>2, <3>3 DEF Proved
  <2>3. ASSUME Secure(c), a.answer = "verified"
        PROVE  InStep(c.needs, IF c.needs # "iso" \/ c.verified THEN 1 ELSE 0)'
    <3> DEFINE s == sessions[c.needs]
    <3>1. /\ op.id = s.id /\ (card.id = s.id => card.profile = c.needs /\ card.count = s.count + 0)
      BY <1>2, <1>3, <2>3 DEF Early, InStep
    <3>2. s.count \in Nat /\ card.count \in Nat
      BY <1>6, <2>3, RawFields DEF RawInv
    <3>3. /\ card'.profile = c.needs
          /\ card'.count = IF c.needs # "iso" \/ c.verified THEN s.count + 1 ELSE s.count
      BY <1>1, <1>7, <2>3, <3>1, <3>2
    <3> QED  BY <1>2, <3>2, <3>3 DEF InStep
  <2>4. ASSUME Secure(c), a.answer = "plain" PROVE card'.id # sessions[c.needs].id
    BY <1>1, <1>2, <1>3, <1>7, <2>4 DEF Early, EntryInv, Only
  <2> QED
    BY <1>2, <1>4, <1>9, <2>1, <2>2, <2>3, <2>4
    DEF Afterwards, Raw!Handshake, Secure
<1> QED
  BY <1>2, <1>3, <1>4, <1>10, <1>11, <1>12, <1>13, <1>14, GoOnStep

\* The next frame of a handshake.
LEMMA NextFrameStep ==
    ASSUME RawInv, NEW t \in Threads, Raw!NextFrame(t)
    PROVE  RawInv'
<1> DEFINE c == call[t]
<1>1. /\ pc[t] = "heard" /\ pc[t] \in Working /\ op.left > 1
      /\ op' = [op EXCEPT !.left = @ - 1, !.sent = TRUE]
      /\ generation' = generation /\ present' = present /\ card' = card /\ raced' = raced
      /\ sessions' = sessions /\ bound' = bound /\ closed' = closed
      /\ result' = result /\ owner' = owner /\ call' = call /\ Raw!Goto(t, "frame")
  BY DEF Raw!NextFrame, Working, Raw!field, Raw!entry
<1>2. /\ owner = t /\ ~closed /\ EntryInv(t) /\ Early(t) /\ Afterwards(t)
  BY <1>1, OwnerKnows
<1>3. pc'[t] = "frame" /\ "frame" \in Working
  BY <1>1, Zenon DEF Raw!Goto, RawInv, RawTyped, Working
<1>4. op \in OpRecord /\ op.left \in Nat /\ op.left - 1 \in Nat /\ ~Secure(c)
  BY <1>1, <1>2, RawFields DEF RawInv, RawTyped, Early
<1>5. op' \in OpRecord
  BY <1>1, <1>4, Zenon DEF OpRecord
<1>6. op'.left = op.left - 1 /\ op'.sent
  BY <1>1, <1>4 DEF OpRecord
<1>7. EntryTyped' /\ bound' <= generation'
  BY <1>1 DEF RawInv, RawTyped, EntryTyped, HandleInv
<1>8. EntryInv(t)'
  BY <1>1, <1>2 DEF EntryInv, Only, Same, Secure
<1>9. Early(t)'
  BY <1>1, <1>3, <1>4, <1>6 DEF Early, Secure
<1>10. Afterwards(t)'
  BY <1>3 DEF Afterwards
<1> QED  BY <1>1, <1>2, <1>3, <1>5, <1>7, <1>8, <1>9, <1>10, GoOnStep

\* The handshake is verified, its session not stored yet.
LEMMA HandshakeEndsStep ==
    ASSUME RawInv, NEW t \in Threads, Raw!HandshakeEnds(t)
    PROVE  RawInv'
<1> DEFINE c == call[t]
<1>1. /\ pc[t] = "heard" /\ pc[t] \in Working /\ op.left = 1 /\ Raw!Handshake(c)
      /\ generation' = generation /\ present' = present /\ card' = card /\ raced' = raced
      /\ sessions' = sessions /\ bound' = bound /\ closed' = closed /\ op' = op
      /\ result' = result /\ owner' = owner /\ call' = call /\ Raw!Goto(t, "bind")
  BY DEF Raw!HandshakeEnds, Working, Raw!field, Raw!entry
<1>2. /\ owner = t /\ ~closed /\ EntryInv(t) /\ Early(t) /\ Afterwards(t)
  BY <1>1, OwnerKnows
<1>3. pc'[t] = "bind" /\ "bind" \in Working
  BY <1>1, Zenon DEF Raw!Goto, RawInv, RawTyped, Working
<1>4. EntryTyped' /\ op' \in OpRecord /\ bound' <= generation'
  BY <1>1 DEF RawInv, RawTyped, EntryTyped, HandleInv
<1>5. EntryInv(t)'
  BY <1>1, <1>2 DEF EntryInv, Only, Same, Secure
<1>6. Early(t)'
  BY <1>3 DEF Early
<1>7. Proved(t)
  BY <1>1, <1>2 DEF Afterwards
<1>8. Afterwards(t)'
  <2>1. Proved(t)'
    BY <1>1, <1>7 DEF Proved, Same, Raw!FirstCount
  <2> QED  BY <1>1, <1>3, <2>1 DEF Afterwards, Raw!Handshake
<1> QED  BY <1>1, <1>2, <1>3, <1>4, <1>5, <1>6, <1>8, GoOnStep

-----------------------------------------------------------------------------
(***************************************************************************)
(* The operation succeeds.                                                 *)
(***************************************************************************)
\* The new session is stored and bound.
LEMMA BindStep ==
    ASSUME RawInv, NEW t \in Threads, Raw!Bind(t)
    PROVE  RawInv'
<1> DEFINE c == call[t]
           n == c.installs
           s == [id |-> op.id, card |-> op.card, count |-> Raw!FirstCount(t),
                 generation |-> op.generation]
           r == [code |-> "ok", outcome |-> "succeeded", heard |-> op.heard, own |-> TRUE,
                 raced |-> raced]
<1>1. /\ pc[t] = "bind" /\ pc[t] \in Working /\ sessions' = [sessions EXCEPT ![n] = s]
      /\ bound' = generation /\ Raw!Return(t, r) /\ owner' = "none" /\ op' = Raw!NoOp
      /\ generation' = generation /\ present' = present /\ card' = card /\ raced' = raced
      /\ closed' = closed
  BY DEF Raw!Bind, Working, Raw!field, Raw!Return
<1>2. Raw!Handshake(c) /\ Proved(t)
  BY <1>1, OwnerKnows DEF Afterwards
<1>3. sessions = Raw!Cleared /\ n \in Raw!Profiles
  BY <1>1, <1>2, HandshakeKeepsNothing
<1>4. /\ op.id \in Nat /\ op.card \in Nat /\ op.count \in Nat /\ op.generation \in Nat
      /\ generation \in Nat /\ generation > 0
  BY RawFields DEF RawInv
<1>5. s \in Raw!SessionType /\ s.id = op.id /\ s.card = op.card /\ s.count = Raw!FirstCount(t)
  <2>1. Raw!FirstCount(t) \in Nat
    BY <1>4 DEF Raw!FirstCount
  <2> QED  BY <1>4, <2>1 DEF Raw!SessionType
<1> HIDE DEF s, n
<1>6. sessions' \in [Raw!Profiles -> Raw!SessionType]
  BY <1>1, <1>3, <1>5, RawRecords
<1>7. EntryTyped'
  BY <1>1, <1>6, RawAssumption
  DEF RawInv, RawTyped, EntryTyped, Raw!ConstantsAssumption
<1>8. /\ sessions'[n] = s /\ \A q \in Raw!Profiles \ {n} : sessions'[q] = Raw!NoSession
  BY <1>1, <1>3, RawRecords
<1>9. /\ s.id # 0 /\ s # Raw!NoSession /\ Same(op.card)
      /\ card.id = op.id => card.profile = n /\ card.count = Raw!FirstCount(t)
  <2>1. /\ op.id # 0 /\ Same(op.card)
        /\ card.id = op.id => card.profile = n /\ card.count = Raw!FirstCount(t)
    BY <1>2 DEF Proved, n
  <2> QED  BY <1>5, <2>1, RawRecords
<1>10. SUFFICES ASSUME NEW p \in Raw!Profiles, p = n PROVE RawInv'
  BY <1>3
<1>11. Only(p)'
  BY <1>8, <1>9, <1>10 DEF Only
<1>12. InStep(p, 0)'
  <2>1. Raw!FirstCount(t) + 0 = Raw!FirstCount(t)
    BY <1>4 DEF Raw!FirstCount
  <2> QED  BY <1>1, <1>5, <1>8, <1>9, <1>10, <2>1 DEF InStep
<1>13. Same(sessions[p].card)'
  BY <1>1, <1>5, <1>8, <1>9, <1>10 DEF Same
<1>14. RestInv'
  BY <1>1, <1>4, <1>11, <1>12, <1>13 DEF RestInv
<1>15. bound' <= generation'
  BY <1>1, <1>4
<1> QED  BY <1>1, <1>7, <1>14, <1>15, ReturnStep

\* A protected exchange that succeeds: the session is kept, one command
\* further, or ended.
LEMMA SecureReturnsStep ==
    ASSUME RawInv, NEW t \in Threads, Raw!SecureReturns(t)
    PROVE  RawInv'
<1> DEFINE c == call[t]
           s == sessions[c.needs]
           counts == c.needs # "iso" \/ c.verified
           code == IF op.answer = "rejected" THEN "card_rejected" ELSE "integrity"
           r == [code |-> "ok", outcome |-> "succeeded", heard |-> 1, own |-> op.card = s.card,
                 raced |-> raced]
           kept == [s EXCEPT !.count = IF counts THEN @ + 1 ELSE @]
<1>1. pc[t] = "heard" /\ pc[t] \in Working /\ c.needs # "none" /\ ~Raw!Handshake(c)
  BY DEF Raw!SecureReturns, Working
<1>2. CASE Raw!Abandon(t, code, "unknown")
  BY <1>1, <1>2, AbandonStep
<1>3. CASE Raw!Abandon(t, "card_removed", "unknown")
  BY <1>1, <1>3, AbandonStep
<1>4. CASE /\ Raw!Accepts(c)
           /\ sessions' = [sessions EXCEPT ![c.needs] = IF c.ends THEN Raw!NoSession ELSE kept]
           /\ bound' = (IF c.ends THEN 0 ELSE bound)
           /\ Raw!Return(t, r) /\ owner' = "none" /\ UNCHANGED <<Raw!field, closed>>
  <2>1. /\ generation' = generation /\ present' = present /\ card' = card /\ raced' = raced
        /\ closed' = closed /\ op' = Raw!NoOp
    BY <1>4 DEF Raw!field, Raw!Return
  <2>2. /\ Secure(c) /\ c.needs \in Raw!Profiles /\ c.ends \in BOOLEAN
    BY <1>1, RawCallFields DEF RawInv, Regular, Secure, Raw!Handshake
  <2>3. /\ Only(c.needs) /\ bound # 0 /\ Same(s.card) /\ Same(op.card)
        /\ op.answer = "verified" => InStep(c.needs, IF counts THEN 1 ELSE 0)
        /\ op.answer = "plain" => card.id # s.id
    BY <1>1, <2>2, OwnerKnows DEF EntryInv, Afterwards
  <2>4. /\ sessions \in [Raw!Profiles -> Raw!SessionType] /\ 0 \in 0..MaxGeneration
        /\ bound \in 0..MaxGeneration /\ bound <= generation
    BY RawAssumption DEF RawInv, RawTyped, EntryTyped, Raw!ConstantsAssumption, HandleInv
  <2>5. /\ s \in Raw!SessionType /\ s.count \in Nat /\ s.id \in Nat /\ card.count \in Nat
        /\ generation \in Nat
    BY <2>2, RawFields DEF RawInv
  <2>6. /\ kept \in Raw!SessionType /\ kept.id = s.id /\ kept.card = s.card
        /\ kept.count = IF counts THEN s.count + 1 ELSE s.count
    <3>1. (IF counts THEN s.count + 1 ELSE s.count) \in Nat
      BY <2>5
    <3>2. kept \in Raw!SessionType
      BY <2>5, <3>1, Zenon DEF Raw!SessionType
    <3> QED  BY <2>5, <3>2 DEF Raw!SessionType
  <2> HIDE DEF kept
  <2>7. sessions' \in [Raw!Profiles -> Raw!SessionType] /\ bound' \in 0..MaxGeneration
    BY <1>4, <2>2, <2>4, <2>6, RawRecords
  <2>8. EntryTyped' /\ bound' <= generation'
    BY <1>4, <2>1, <2>4, <2>5, <2>7 DEF RawInv, RawTyped, EntryTyped
  <2>9. r.own \/ r.raced
    BY <2>3 DEF Same
  <2>10. SUFFICES ASSUME NEW p \in Raw!Profiles, p = c.needs PROVE RawInv'
    BY <2>2
  <2>11. RestInv'
    <3>1. CASE c.ends
      <4>1. \A q \in Raw!Profiles : sessions'[q] = Raw!NoSession
        BY <1>4, <2>2, <2>3, <2>4, <3>1 DEF Only
      <4>2. sessions' = Raw!Cleared /\ bound' = 0
        BY <1>4, <2>7, <3>1, <4>1 DEF Raw!Cleared
      <4> QED  BY <1>4, <2>1, <4>2 DEF RestInv
    <3>2. CASE ~c.ends
      <4>1. /\ sessions'[p] = kept /\ bound' = bound
            /\ \A q \in Raw!Profiles \ {p} : sessions'[q] = Raw!NoSession
        BY <1>4, <2>3, <2>4, <2>10, <3>2 DEF Only
      <4>2. s.id # 0
        BY <2>3 DEF Only
      <4>3. Only(p)'
        BY <2>6, <4>1, <4>2, RawRecords DEF Only
      <4>4. InStep(p, 0)'
        <5>1. card.id = s.id => card.profile = p /\ card.count = kept.count
          <6>1. op.answer \in {"verified", "plain"}
            BY <1>4 DEF Raw!Accepts
          <6>2. op.answer = "verified" /\ card.id = s.id =>
                  card.profile = p /\ card.count = s.count + IF counts THEN 1 ELSE 0
            BY <2>3, <2>10 DEF InStep
          <6> QED  BY <2>3, <2>5, <2>6, <6>1, <6>2
        <5>2. kept.count + 0 = kept.count
          BY <2>5, <2>6
        <5> QED  BY <2>1, <2>6, <4>1, <5>1, <5>2 DEF InStep
      <4>5. Same(sessions[p].card)'
        BY <2>1, <2>3, <2>6, <4>1 DEF Same
      <4> QED  BY <1>4, <2>1, <2>3, <4>1, <4>3, <4>4, <4>5 DEF RestInv
    <3> QED  BY <2>2, <3>1, <3>2
  <2>12. r.outcome # "not_sent"
    OBVIOUS
  <2> HIDE DEF r
  <2> QED  BY <1>1, <1>4, <2>1, <2>8, <2>9, <2>11, <2>12, ReturnStep
<1> QED  BY <1>2, <1>3, <1>4 DEF Raw!SecureReturns

\* An unprotected exchange that succeeds leaves nothing kept.
LEMMA RawReturnsStep ==
    ASSUME RawInv, NEW t \in Threads, Raw!RawReturns(t)
    PROVE  RawInv'
<1> DEFINE r == [code |-> "ok", outcome |-> "succeeded", heard |-> 1, own |-> TRUE,
                 raced |-> raced]
<1>1. /\ pc[t] = "heard" /\ pc[t] \in Working /\ call[t].needs = "none"
      /\ Raw!Return(t, r) /\ owner' = "none" /\ op' = Raw!NoOp
      /\ generation' = generation /\ present' = present /\ card' = card /\ raced' = raced
      /\ sessions' = sessions /\ bound' = bound /\ closed' = closed
  BY DEF Raw!RawReturns, Working, Raw!field, Raw!entry, Raw!Return
<1>2. sessions = Raw!Cleared /\ bound = 0
  BY <1>1, OwnerKnows DEF EntryInv
<1>3. EntryTyped' /\ bound' <= generation'
  BY <1>1 DEF RawInv, RawTyped, EntryTyped, HandleInv
<1>4. RestInv'
  BY <1>1, <1>2 DEF RestInv
<1> QED  BY <1>1, <1>3, <1>4, ReturnStep

\* The card changes, or is said to: what the entry keeps is bound to the past,
\* and an operation that runs is marked.
LEMMA CardChangesStep ==
    ASSUME RawInv, Raw!CardChanges
    PROVE  RawInv'
<1>1. /\ generation < MaxGeneration /\ generation' = generation + 1
      /\ \/ present' = present + 1 /\ card' = Raw!NoAuth
         \/ present' = present /\ card' = card
      /\ raced' = (raced \/ owner # "none")
      /\ sessions' = sessions /\ bound' = bound /\ closed' = closed /\ owner' = owner
      /\ pc' = pc /\ call' = call /\ op' = op /\ result' = result
  BY DEF Raw!CardChanges, Raw!entry
<1>2. /\ bound <= generation /\ bound \in Nat /\ generation \in Nat /\ present \in Nat
      /\ raced \in BOOLEAN /\ card.id \in Nat
  BY RawFields DEF RawInv, HandleInv
<1>3. (card'.id = card.id /\ card' = card) \/ card'.id = 0
  BY <1>1, RawRecords
<1>4. EntryTyped'
  <2>1. generation' \in 1..MaxGeneration /\ present' \in Nat
    BY <1>1, <1>2, RawAssumption DEF Raw!ConstantsAssumption
  <2>2. card' \in CardRecord
    BY <1>1, RawRecords DEF RawInv, RawTyped, EntryTyped
  <2>3. raced' \in BOOLEAN
    BY <1>1
  <2> QED  BY <1>1, <2>1, <2>2, <2>3 DEF RawInv, RawTyped, EntryTyped
<1>5. RawTyped'
  BY <1>1, <1>4, Zenon DEF RawInv, RawTyped
<1>6. RestInv'
  <2>1. bound' # generation'
    BY <1>1, <1>2
  <2> QED  BY <1>1, <1>3, <2>1 DEF RawInv, RestInv, Only, InStep
<1>7. WorkInv'
  <2> SUFFICES ASSUME NEW u \in Threads, owner' = u
               PROVE  EntryInv(u)' /\ Early(u)' /\ Afterwards(u)'
    BY DEF WorkInv
  <2>1. owner = u /\ EntryInv(u) /\ Early(u) /\ Afterwards(u) /\ raced' = TRUE
    BY <1>1, RawAssumption DEF RawInv, WorkInv, Raw!ConstantsAssumption
  <2>2. EntryInv(u)'
    BY <1>1, <2>1 DEF EntryInv, Only, Same, Secure
  <2>3. Early(u)'
    BY <1>1, <1>3, <2>1 DEF Early, EntryInv, Only, InStep, Secure
  <2>4. Afterwards(u)'
    <3>1. Proved(u) => Proved(u)'
      BY <1>1, <1>3, <2>1 DEF Proved, Same, Raw!FirstCount
    <3> QED
      BY <1>1, <1>3, <2>1, <3>1 DEF Afterwards, EntryInv, Only, InStep, Same, Secure, Raw!Handshake
  <2> QED  BY <2>2, <2>3, <2>4
<1>8. HandleInv'
  BY <1>1, <1>2
  DEF RawInv, HandleInv, Raw!ClosedKeepsNothing, Raw!IdleChangeNoticed, Raw!NotSentUnheard
<1> QED  BY <1>5, <1>6, <1>7, <1>8 DEF RawInv

\* Every step of the raw handle keeps the invariant.
LEMMA RawInductive ==
    ASSUME RawInv, Raw!Next
    PROVE  RawInv'
BY LookupStep, NotAdmittedStep, CloseStep, AdmitErasingStep, AdmitWithSessionStep,
   ResolveKeyStep, BeginStep, ResetTransportStep, FrameNotSentStep, FrameHeardStep,
   AnswerLostStep, NextFrameStep, HandshakeEndsStep, BindStep, SecureReturnsStep,
   RawReturnsStep, CardChangesStep
DEF Raw!Next

\* The variables of the raw handle, and what may not move them.
rawVars == <<framing, generation, present, card, sessions, bound, owner, closed, pc, call, op,
             result, raced>>

\* A step that leaves the raw handle alone, as every step of the managed layer
\* does, keeps its invariant.
LEMMA RawStutters ==
    ASSUME RawInv, UNCHANGED rawVars
    PROVE  RawInv'
<1>1. RawTyped'
  BY Zenon DEF rawVars, RawInv, RawTyped, EntryTyped
<1>2. RestInv'
  BY DEF rawVars, RawInv, RestInv, Only, InStep, Same
<1>3. WorkInv'
  <2> SUFFICES ASSUME NEW u \in Threads, owner' = u
               PROVE  EntryInv(u)' /\ Early(u)' /\ Afterwards(u)'
    BY DEF WorkInv
  <2>1. EntryInv(u) /\ Early(u) /\ Afterwards(u)
    BY DEF rawVars, RawInv, WorkInv
  <2>2. EntryInv(u)'
    BY <2>1 DEF rawVars, EntryInv, Only, Same, Secure
  <2>3. Early(u)'
    BY <2>1 DEF rawVars, Early, InStep, Secure
  <2>4. Afterwards(u)'
    BY <2>1 DEF rawVars, Afterwards, Proved, InStep, Same, Secure, Raw!Handshake, Raw!FirstCount
  <2> QED  BY <2>2, <2>3, <2>4
<1>4. HandleInv'
  BY DEF rawVars, RawInv, HandleInv, Raw!ClosedKeepsNothing, Raw!IdleChangeNoticed,
         Raw!NotSentUnheard
<1> QED  BY <1>1, <1>2, <1>3, <1>4 DEF RawInv

\* Whatever steps the API takes, a raw handle keeps the invariant.
LEMMA RawHandleInvariant == ApiSpec => [](family = "raw" => RawInv)
<1> DEFINE I == family = "raw" => RawInv
<1>1. ApiInit => I
  BY InitRaw DEF ApiInit, RawInit, ManagedInit
<1>2. I /\ [ApiNext]_<<family, closed, managedOnly, rawOnly>> => I'
  <2> SUFFICES ASSUME I, [ApiNext]_<<family, closed, managedOnly, rawOnly>>, family' = "raw"
               PROVE  RawInv'
    OBVIOUS
  <2>1. CASE RawNext
    BY <2>1, RawInductive DEF RawNext
  <2>2. CASE ManagedNext
    BY <2>2 DEF ManagedNext
  <2>3. CASE UNCHANGED <<family, closed, managedOnly, rawOnly>>
    <3>1. family = "raw" /\ UNCHANGED rawVars
      BY <2>3 DEF rawOnly, rawVars
    <3> QED  BY <3>1, RawStutters
  <2> QED  BY <2>1, <2>2, <2>3 DEF ApiNext
<1> QED  BY <1>1, <1>2, PTL DEF ApiSpec

\* Between operations the invariant leaves one session or none.
LEMMA AtMostOneSession ==
    ASSUME RawInv
    PROVE  Raw!BindingAgrees /\ Raw!SessionsInStep
<1> SUFFICES ASSUME owner = "none" PROVE Raw!BindingAgrees /\ Raw!SessionsInStep
  BY DEF Raw!BindingAgrees, Raw!SessionsInStep, Raw!AtRest, Raw!None
<1> DEFINE Kept == {p \in Raw!Profiles : sessions[p] # Raw!NoSession}
<1>0. Raw!Cardinality(Kept) = Cardinality(Kept)
  BY Zenon DEF Raw!Cardinality, Cardinality
<1>1. CASE bound = 0
  <2>1. sessions = Raw!Cleared
    BY <1>1 DEF RawInv, RestInv
  <2>2. Kept = {}
    BY <2>1 DEF Raw!Cleared
  <2>3. Raw!Cardinality(Kept) <= 1
    BY <1>0, <2>2, FS_EmptySet
  <2> HIDE DEF Kept
  <2>4. \A p \in Raw!Profiles : sessions[p] = Raw!NoSession
    BY <2>2 DEF Kept
  <2>5. Raw!BindingAgrees
    BY <1>1, <2>3, <2>4, Zenon DEF Kept, Raw!BindingAgrees
  <2> QED  BY <2>4, <2>5 DEF Raw!SessionsInStep
<1>2. CASE bound # 0
  <2>1. PICK p \in Raw!Profiles : Only(p) /\ InStep(p, 0)
    BY <1>2 DEF RawInv, RestInv
  <2>2. Kept = {p}
    BY <2>1 DEF Only
  <2>3. Raw!Cardinality(Kept) <= 1
    BY <1>0, <2>2, FS_Singleton
  <2>4. \A q \in Raw!Profiles : sessions[q] # Raw!NoSession => q = p
    BY <2>2
  <2> HIDE DEF Kept
  <2>5. Raw!BindingAgrees
    BY <1>2, <2>1, <2>3, Zenon DEF Kept, Raw!BindingAgrees, Only
  <2>6. sessions[p].count \in Nat
    BY <2>1, RawFields DEF RawInv, RawTyped, EntryTyped
  <2>7. Raw!SessionsInStep
    BY <2>1, <2>4, <2>6 DEF Raw!SessionsInStep, InStep
  <2> QED  BY <2>5, <2>7
<1> QED  BY <1>1, <1>2

\* A raw handle keeps at most one session, bound to a generation, in step with
\* the card while the card holds it; a card exchanged between two calls is
\* noticed, and a closed handle keeps no keys (raw.cpp's RawEntry).
THEOREM SessionsAgree == ApiSpec => []RawSessionsAgree
<1>1. (family = "raw" => RawInv) => RawSessionsAgree
  BY AtMostOneSession DEF RawSessionsAgree, RawInv, HandleInv
<1> QED  BY <1>1, RawHandleInvariant, PTL

-----------------------------------------------------------------------------
(***************************************************************************)
(* Sums.  The library's induction theorems take a predicate as a           *)
(* parameter; this one takes a set, and follows from the well-foundedness  *)
(* of <.                                                                   *)
(***************************************************************************)
\* A set of naturals that contains 0 and with every number the next one
\* contains every number.
LEMMA SetInduction ==
    ASSUME NEW S, 0 \in S, \A n \in Nat : n \in S => n + 1 \in S
    PROVE  \A n \in Nat : n \in S
<1> DEFINE T == Nat \ S  R == OpToRel(<, Nat)
<1>1. SUFFICES ASSUME T # {} PROVE FALSE
  OBVIOUS
<1>2. T \subseteq Nat
  OBVIOUS
<1>3. IsWellFoundedOn(R, Nat)
  BY NatLessThanWellFounded, Zenon
<1>4. R = {p \in Nat \X Nat : p[1] < p[2]}
  BY Zenon DEF OpToRel
<1> HIDE DEF R, T
<1>5. PICK x \in T : \A y \in T : ~ (<<y, x>> \in R)
  BY <1>1, <1>2, <1>3, WFMin
<1>6. x \in Nat /\ x # 0 /\ x - 1 \in Nat
  BY DEF T
<1>7. <<x - 1, x>> \in R
  BY <1>4, <1>6
<1>8. x - 1 \notin T
  BY <1>5, <1>7
<1> QED  BY <1>6, <1>8 DEF T

\* The values of the recursive function in Total.
IsSum(s, n, f) == s = [d \in 0..n |-> IF d = 0 THEN 0 ELSE s[d - 1] + f[d]]

\* The recursion defines a function.
LEMMA SumExists ==
    ASSUME NEW f, NEW m \in Nat
    PROVE  \E s : IsSum(s, m, f)
<1> DEFINE S == {n \in Nat : \E s : IsSum(s, n, f)}
<1>1. 0 \in S
  <2>1. IsSum([d \in 0..0 |-> 0], 0, f)
    BY DEF IsSum
  <2> QED  BY <2>1
<1>2. ASSUME NEW n \in Nat, n \in S PROVE n + 1 \in S
  <2>1. PICK s : IsSum(s, n, f)
    BY <1>2
  <2> DEFINE t == [d \in 0..(n + 1) |-> IF d = n + 1 THEN s[n] + f[n + 1] ELSE s[d]]
             u == [d \in 0..(n + 1) |-> IF d = 0 THEN 0 ELSE t[d - 1] + f[d]]
  <2>2. \A d \in 0..(n + 1) : t[d] = u[d]
    <3>1. \A d \in 0..n : s[d] = IF d = 0 THEN 0 ELSE s[d - 1] + f[d]
      BY <2>1 DEF IsSum
    <3>2. \A d \in 1..n : d - 1 \in 0..n /\ d - 1 # n + 1 /\ d - 1 \in 0..(n + 1)
      OBVIOUS
    <3> QED  BY <3>1, <3>2
  <2>3. t = u
    BY <2>2
  <2> HIDE DEF t
  <2>4. IsSum(t, n + 1, f)
    BY <2>3 DEF IsSum
  <2> QED  BY <2>4
<1> HIDE DEF S
<1>3. \A n \in Nat : n \in S
  BY <1>1, <1>2, SetInduction
<1> QED  BY <1>3 DEF S

\* Total is the last of those values.
LEMMA TotalIs ==
    ASSUME NEW f, NEW n \in Nat
    PROVE  \E s : IsSum(s, n, f) /\ Total(n, f) = s[n]
<1> DEFINE s == CHOOSE s : IsSum(s, n, f)
<1>1. IsSum(s, n, f)
  BY SumExists
<1>2. Total(n, f) = s[n]
  BY Zenon DEF Total, IsSum
<1> QED  BY <1>1, <1>2

\* What each value is.
LEMMA SumSteps ==
    ASSUME NEW f, NEW n \in Nat, NEW s, IsSum(s, n, f)
    PROVE  /\ s[0] = 0
           /\ \A d \in 0..n : d # 0 => d - 1 \in 0..n /\ s[d] = s[d - 1] + f[d]
BY DEF IsSum

\* Up to n, the integers f and g differ by delta at k and nowhere else.
Differ(n, k, delta, f, g) ==
    /\ k \in 1..(n + 1) /\ delta \in Int
    /\ \A d \in 1..n : f[d] \in Int /\ g[d] = (IF d = k THEN f[d] + delta ELSE f[d])

\* Their sums differ by delta from k on.  For k = n + 1 they agree.
LEMMA SumsDiffer ==
    ASSUME NEW n \in Nat, NEW m \in Nat, n <= m, NEW k, NEW delta, NEW f, NEW g, NEW s, NEW t,
           Differ(n, k, delta, f, g), IsSum(s, n, f), IsSum(t, m, g)
    PROVE  s[n] \in Int /\ t[n] = s[n] + (IF n >= k THEN delta ELSE 0)
<1> USE DEF Differ
<1> DEFINE S == {d \in Nat : d <= n =>
                   s[d] \in Int /\ t[d] = s[d] + (IF d >= k THEN delta ELSE 0)}
<1>1. 0 \in S
  <2>1. s[0] = 0 /\ t[0] = 0
    BY SumSteps
  <2> QED  BY <2>1
<1>2. ASSUME NEW d \in Nat, d \in S PROVE d + 1 \in S
  <2> SUFFICES ASSUME d + 1 <= n
               PROVE  s[d + 1] \in Int
                      /\ t[d + 1] = s[d + 1] + (IF d + 1 >= k THEN delta ELSE 0)
    OBVIOUS
  <2>1. d + 1 \in 0..n /\ d + 1 \in 0..m /\ d + 1 \in 1..n /\ d + 1 # 0 /\ (d + 1) - 1 = d
    OBVIOUS
  <2>2. s[d + 1] = s[d] + f[d + 1]
    BY <2>1, SumSteps
  <2>3. t[d + 1] = t[d] + g[d + 1]
    BY <2>1, SumSteps
  <2>4. s[d] \in Int /\ t[d] = s[d] + (IF d >= k THEN delta ELSE 0)
    BY <1>2, <2>1
  <2>5. f[d + 1] \in Int /\ g[d + 1] = (IF d + 1 = k THEN f[d + 1] + delta ELSE f[d + 1])
    BY <2>1
  <2> QED  BY <2>2, <2>3, <2>4, <2>5
<1> HIDE DEF S
<1>3. \A d \in Nat : d \in S
  BY <1>1, <1>2, SetInduction
<1> QED  BY <1>3 DEF S

\* A sum of integers in which one term grows by delta grows by delta.
LEMMA TotalDiffers ==
    ASSUME NEW n \in Nat, NEW k \in 1..n, NEW delta \in Int, NEW f, NEW g,
           \A d \in 1..n : f[d] \in Int,
           \A d \in 1..n : g[d] = (IF d = k THEN f[d] + delta ELSE f[d])
    PROVE  Total(n, g) = Total(n, f) + delta
<1>1. PICK s : IsSum(s, n, f) /\ Total(n, f) = s[n]
  BY TotalIs
<1>2. PICK t : IsSum(t, n, g) /\ Total(n, g) = t[n]
  BY TotalIs
<1>3. Differ(n, k, delta, f, g) /\ n >= k /\ n <= n
  BY DEF Differ
<1>4. t[n] = s[n] + (IF n >= k THEN delta ELSE 0)
  BY <1>1, <1>2, <1>3, SumsDiffer
<1> QED  BY <1>1, <1>2, <1>3, <1>4

\* A sum with one term more.
LEMMA TotalExtends ==
    ASSUME NEW n \in Nat, NEW f, NEW g, \A d \in 1..n : f[d] \in Int,
           \A d \in 1..n : g[d] = f[d]
    PROVE  /\ Total(n, g) = Total(n, f) /\ Total(n, f) \in Int
           /\ Total(n + 1, g) = Total(n, f) + g[n + 1]
<1>1. PICK s : IsSum(s, n, f) /\ Total(n, f) = s[n]
  BY TotalIs
<1>2. PICK t : IsSum(t, n, g) /\ Total(n, g) = t[n]
  BY TotalIs
<1>3. PICK u : IsSum(u, n + 1, g) /\ Total(n + 1, g) = u[n + 1]
  BY TotalIs
<1>4. Differ(n, n + 1, 0, f, g) /\ n <= n /\ n <= n + 1 /\ n + 1 \in Nat /\ ~(n >= n + 1)
  BY DEF Differ
<1>6. s[n] \in Int /\ t[n] = s[n] + (IF n >= n + 1 THEN 0 ELSE 0)
  BY <1>1, <1>2, <1>4, SumsDiffer
<1>7. s[n] \in Int /\ u[n] = s[n] + (IF n >= n + 1 THEN 0 ELSE 0)
  BY <1>1, <1>3, <1>4, SumsDiffer
<1>8. u[n + 1] = u[n] + g[n + 1]
  <2>1. n + 1 \in 0..(n + 1) /\ n + 1 # 0 /\ (n + 1) - 1 = n
    OBVIOUS
  <2> QED  BY <1>3, <1>4, <2>1, SumSteps
<1> QED  BY <1>1, <1>2, <1>3, <1>6, <1>7, <1>8

\* A sum of naturals is a natural, the empty one zero.
LEMMA TotalIsNat ==
    ASSUME NEW n \in Nat, NEW f, \A d \in 1..n : f[d] \in Nat
    PROVE  Total(n, f) \in Nat /\ Total(0, f) = 0
<1>1. PICK s : IsSum(s, n, f) /\ Total(n, f) = s[n]
  BY TotalIs
<1> DEFINE S == {d \in Nat : d <= n => s[d] \in Nat}
<1>2. 0 \in S
  BY <1>1, SumSteps
<1>3. ASSUME NEW d \in Nat, d \in S PROVE d + 1 \in S
  <2> SUFFICES ASSUME d + 1 <= n PROVE s[d + 1] \in Nat
    OBVIOUS
  <2>1. d + 1 \in 0..n /\ d + 1 \in 1..n /\ d + 1 # 0 /\ (d + 1) - 1 = d
    OBVIOUS
  <2>2. s[d + 1] = s[d] + f[d + 1]
    BY <1>1, <2>1, SumSteps
  <2>3. s[d] \in Nat /\ f[d + 1] \in Nat
    BY <1>3, <2>1
  <2> QED  BY <2>2, <2>3
<1> HIDE DEF S
<1>4. \A d \in Nat : d \in S
  BY <1>2, <1>3, SetInduction
<1>5. PICK z : IsSum(z, 0, f) /\ Total(0, f) = z[0]
  BY TotalIs
<1>6. z[0] = 0
  BY <1>5, SumSteps
<1> QED  BY <1>1, <1>4, <1>5, <1>6 DEF S

\* A sum of zeros is zero.
LEMMA TotalIsZero ==
    ASSUME NEW n \in Nat, NEW f, \A d \in 1..n : f[d] = 0
    PROVE  Total(n, f) = 0
<1>1. PICK s : IsSum(s, n, f) /\ Total(n, f) = s[n]
  BY TotalIs
<1> DEFINE S == {d \in Nat : d <= n => s[d] = 0}
<1>2. 0 \in S
  BY <1>1, SumSteps
<1>3. ASSUME NEW d \in Nat, d \in S PROVE d + 1 \in S
  <2> SUFFICES ASSUME d + 1 <= n PROVE s[d + 1] = 0
    OBVIOUS
  <2>1. d + 1 \in 0..n /\ d + 1 \in 1..n /\ d + 1 # 0 /\ (d + 1) - 1 = d
    OBVIOUS
  <2>2. s[d + 1] = s[d] + f[d + 1]
    BY <1>1, <2>1, SumSteps
  <2>3. s[d] = 0 /\ f[d + 1] = 0
    BY <1>3, <2>1
  <2> QED  BY <2>2, <2>3
<1> HIDE DEF S
<1>4. \A d \in Nat : d \in S
  BY <1>2, <1>3, SetInduction
<1> QED  BY <1>1, <1>4 DEF S

-----------------------------------------------------------------------------
(***************************************************************************)
(* The managed entry points: what the proofs use of their steps.           *)
(***************************************************************************)
\* What a call still does once a card has answered.
AfterCard == {"encode", "store", "deliver", "publish"}

\* The card operation is step c, the allocation step a, the adapters steps b and
\* d, as far as the entry point has them; the caller's pointer and information
\* are set by the last step.
Shaped(e, c, a, b, d) ==
    /\ DOMAIN e = 1..Len(e) /\ Len(e) \in 1..12
    /\ \A i \in 1..Len(e) :
          /\ i > c => e[i] \in AfterCard
          /\ e[i] = "card" => i = c
          /\ e[i] = "alloc" => i = a
          /\ e[i] = "deliver" => i = Len(e) /\ a \in 1..(i - 1) /\ e[a] = "alloc"
          /\ e[i] = "info" => i = 1
          /\ e[i] = "publish" => i = Len(e)
          /\ e[i] = "adapter" => i = b \/ i = d
    /\ e[1] = "info" => e[Len(e)] = "publish"

\* The steps come in the order the invariant needs: only bookkeeping after the
\* card, one allocation, a delivery at the end of what was allocated, the
\* information cleared first and set last, two adapters at most.
Formed(e) ==
    /\ DOMAIN e = 1..Len(e) /\ Len(e) \in 1..12
    /\ \A i, j \in 1..Len(e) :
          /\ e[i] = "card" /\ j > i => e[j] \in AfterCard
          /\ e[i] = "alloc" /\ e[j] = "alloc" => i = j
    /\ \A i \in 1..Len(e) :
          /\ e[i] = "deliver" => i = Len(e) /\ \E j \in 1..(i - 1) : e[j] = "alloc"
          /\ e[i] = "info" => i = 1
          /\ e[i] = "publish" => i = Len(e)
    /\ \A i, j, k \in 1..Len(e) :
          e[i] = "adapter" /\ e[j] = "adapter" /\ e[k] = "adapter" => ~(i < j /\ j < k)
    /\ e[1] = "info" => e[Len(e)] = "publish"

\* Positions are enough.
LEMMA ShapedIsFormed ==
    ASSUME NEW e, NEW c \in Nat, NEW a \in Nat, NEW b \in Nat, NEW d \in Nat,
           Shaped(e, c, a, b, d)
    PROVE  Formed(e)
<1>1. DOMAIN e = 1..Len(e) /\ Len(e) \in 1..12
  BY DEF Shaped
<1>2. \A i, j \in 1..Len(e) :
          /\ e[i] = "card" /\ j > i => e[j] \in AfterCard
          /\ e[i] = "alloc" /\ e[j] = "alloc" => i = j
  BY DEF Shaped
<1>3. \A i \in 1..Len(e) :
          /\ e[i] = "deliver" => i = Len(e) /\ \E j \in 1..(i - 1) : e[j] = "alloc"
          /\ e[i] = "info" => i = 1
          /\ e[i] = "publish" => i = Len(e)
  BY DEF Shaped
<1>4. \A i, j, k \in 1..Len(e) :
          e[i] = "adapter" /\ e[j] = "adapter" /\ e[k] = "adapter" => ~(i < j /\ j < k)
  <2> SUFFICES ASSUME NEW i \in 1..Len(e), NEW j \in 1..Len(e), NEW k \in 1..Len(e),
                      e[i] = "adapter", e[j] = "adapter", e[k] = "adapter", i < j, j < k
               PROVE  FALSE
    OBVIOUS
  <2>1. (i = b \/ i = d) /\ (j = b \/ j = d) /\ (k = b \/ k = d)
    BY DEF Shaped
  <2>2. i \in Nat /\ j \in Nat /\ k \in Nat
    BY <1>1
  <2> QED  BY <2>1, <2>2
<1>5. e[1] = "info" => e[Len(e)] = "publish"
  BY DEF Shaped
<1> QED  BY <1>1, <1>2, <1>3, <1>4, <1>5 DEF Formed

\* Every entry point has that shape.
LEMMA EntriesAreFormed == \A e \in Entries : Formed(e)
<1>1. Formed(df_get_version) /\ Formed(df_free_memory) /\
      Formed(df_select_application) /\ Formed(df_file_ids) /\
      Formed(df_authenticate_standard_aes) /\ Formed(df_authenticate_ev2_first_aes)
  <2>1. /\ Shaped(df_get_version, 3, 2, 0, 0)
        /\ Shaped(df_free_memory, 3, 0, 0, 0)
        /\ Shaped(df_select_application, 3, 0, 0, 0)
        /\ Shaped(df_file_ids, 3, 2, 0, 0)
        /\ Shaped(df_authenticate_standard_aes, 5, 0, 0, 0)
        /\ Shaped(df_authenticate_ev2_first_aes, 6, 0, 0, 0)
    BY SMT DEF Shaped, AfterCard, df_get_version, df_free_memory,
           df_select_application, df_file_ids, df_authenticate_standard_aes,
           df_authenticate_ev2_first_aes
  <2> QED  BY <2>1, ShapedIsFormed
<1>2. Formed(df_authenticate_ev2_first_aes_with_capabilities) /\
      Formed(df_authenticate_ev2_non_first_aes) /\ Formed(df_get_value) /\
      Formed(df_authenticate_iso_aes) /\ Formed(df_iso_update_record) /\
      Formed(df_get_df_names)
  <2>1. /\ Shaped(df_authenticate_ev2_first_aes_with_capabilities, 7, 0, 0, 0)
        /\ Shaped(df_authenticate_ev2_non_first_aes, 6, 0, 0, 0)
        /\ Shaped(df_get_value, 6, 0, 0, 0)
        /\ Shaped(df_authenticate_iso_aes, 5, 0, 0, 0)
        /\ Shaped(df_iso_update_record, 6, 5, 0, 0)
        /\ Shaped(df_get_df_names, 3, 2, 0, 0)
    BY SMT DEF Shaped, AfterCard, df_authenticate_ev2_first_aes_with_capabilities,
           df_authenticate_ev2_non_first_aes, df_get_value, df_authenticate_iso_aes,
           df_iso_update_record, df_get_df_names
  <2> QED  BY <2>1, ShapedIsFormed
<1>3. Formed(df_reset_authentication) /\ Formed(df_get_card_uid_variant) /\
      Formed(df_set_default_aes_key_provider) /\
      Formed(df_get_delegated_application_info) /\
      Formed(df_create_transaction_mac_file_provider) /\
      Formed(df_change_aes_key_provider)
  <2>1. /\ Shaped(df_reset_authentication, 3, 0, 0, 0)
        /\ Shaped(df_get_card_uid_variant, 5, 3, 0, 0)
        /\ Shaped(df_set_default_aes_key_provider, 7, 0, 3, 0)
        /\ Shaped(df_get_delegated_application_info, 4, 0, 0, 0)
        /\ Shaped(df_create_transaction_mac_file_provider, 9, 0, 5, 0)
        /\ Shaped(df_change_aes_key_provider, 12, 0, 5, 7)
    BY SMT DEF Shaped, AfterCard, df_reset_authentication, df_get_card_uid_variant,
           df_set_default_aes_key_provider, df_get_delegated_application_info,
           df_create_transaction_mac_file_provider, df_change_aes_key_provider
  <2> QED  BY <2>1, ShapedIsFormed
<1>4. Formed(df_change_aes_key_provider_own) /\ Formed(df_execute_transaction) /\
      Formed(df_reset) /\ Formed(df_cancel) /\ Formed(df_notify_state_change) /\
      Formed(df_close)
  <2>1. /\ Shaped(df_change_aes_key_provider_own, 9, 0, 5, 0)
        /\ Shaped(df_execute_transaction, 5, 3, 0, 0)
        /\ Shaped(df_reset, 2, 0, 0, 0)
        /\ Shaped(df_cancel, 3, 0, 0, 0)
        /\ Shaped(df_notify_state_change, 3, 0, 0, 0)
        /\ Shaped(df_close, 3, 0, 0, 0)
    BY SMT DEF Shaped, AfterCard, df_change_aes_key_provider_own,
           df_execute_transaction, df_reset, df_cancel, df_notify_state_change,
           df_close
  <2> QED  BY <2>1, ShapedIsFormed
<1>5. Formed(authenticate_iso_aes)
  <2>1. /\ Shaped(authenticate_iso_aes, 6, 0, 0, 0)
    BY SMT DEF Shaped, AfterCard, authenticate_iso_aes
  <2> QED  BY <2>1, ShapedIsFormed
<1>6. Formed(df_authenticate_standard_aes_provider) /\
      Formed(df_authenticate_ev2_first_aes_provider) /\
      Formed(df_authenticate_ev2_first_aes_with_capabilities_provider) /\
      Formed(df_authenticate_ev2_non_first_aes_provider) /\
      Formed(df_authenticate_iso_aes_provider)
  <2>1. /\ Shaped(df_authenticate_standard_aes_provider, 6, 0, 2, 0)
        /\ Shaped(df_authenticate_ev2_first_aes_provider, 7, 0, 3, 0)
        /\ Shaped(df_authenticate_ev2_first_aes_with_capabilities_provider, 8, 0, 4, 0)
        /\ Shaped(df_authenticate_ev2_non_first_aes_provider, 7, 0, 3, 0)
        /\ Shaped(df_authenticate_iso_aes_provider, 7, 0, 3, 0)
    BY SMT DEF Shaped, AfterCard, df_authenticate_standard_aes_provider,
           df_authenticate_ev2_first_aes_provider,
           df_authenticate_ev2_first_aes_with_capabilities_provider,
           df_authenticate_ev2_non_first_aes_provider,
           df_authenticate_iso_aes_provider, Provided
  <2> QED  BY <2>1, ShapedIsFormed
<1>7. Formed(df_application_ids) /\ Formed(df_iso_file_ids) /\
      Formed(df_get_key_settings) /\ Formed(df_get_key_set_versions) /\
      Formed(df_get_card_uid) /\ Formed(df_read_originality_signature)
  <2>1. /\ Shaped(df_application_ids, 4, 3, 0, 0)
        /\ Shaped(df_iso_file_ids, 4, 3, 0, 0)
        /\ Shaped(df_get_key_settings, 4, 3, 0, 0)
        /\ Shaped(df_get_key_set_versions, 4, 3, 0, 0)
        /\ Shaped(df_get_card_uid, 4, 3, 0, 0)
        /\ Shaped(df_read_originality_signature, 4, 3, 0, 0)
    BY SMT DEF Shaped, AfterCard, df_application_ids, df_iso_file_ids,
           df_get_key_settings, df_get_key_set_versions, df_get_card_uid,
           df_read_originality_signature, Reading
  <2> QED  BY <2>1, ShapedIsFormed
<1>8. Formed(df_get_file_settings) /\ Formed(df_get_file_counters) /\
      Formed(df_get_key_version) /\ Formed(df_read_data) /\ Formed(df_read_records) /\
      Formed(df_commit_transaction)
  <2>1. /\ Shaped(df_get_file_settings, 5, 4, 0, 0)
        /\ Shaped(df_get_file_counters, 6, 5, 0, 0)
        /\ Shaped(df_get_key_version, 6, 5, 0, 0)
        /\ Shaped(df_read_data, 8, 7, 0, 0)
        /\ Shaped(df_read_records, 8, 7, 0, 0)
        /\ Shaped(df_commit_transaction, 5, 4, 0, 0)
    BY SMT DEF Shaped, AfterCard, df_get_file_settings, df_get_file_counters,
           df_get_key_version, df_read_data, df_read_records, df_commit_transaction,
           Reading
  <2> QED  BY <2>1, ShapedIsFormed
<1>9. Formed(df_commit_reader_id) /\ Formed(df_iso_select_file) /\
      Formed(df_iso_select_df_name) /\ Formed(df_iso_read_binary) /\
      Formed(df_iso_update_binary) /\ Formed(df_iso_read_records)
  <2>1. /\ Shaped(df_commit_reader_id, 5, 4, 0, 0)
        /\ Shaped(df_iso_select_file, 5, 4, 0, 0)
        /\ Shaped(df_iso_select_df_name, 6, 5, 0, 0)
        /\ Shaped(df_iso_read_binary, 6, 5, 0, 0)
        /\ Shaped(df_iso_update_binary, 7, 6, 0, 0)
        /\ Shaped(df_iso_read_records, 5, 4, 0, 0)
    BY SMT DEF Shaped, AfterCard, df_commit_reader_id, df_iso_select_file,
           df_iso_select_df_name, df_iso_read_binary, df_iso_update_binary,
           df_iso_read_records, Reading
  <2> QED  BY <2>1, ShapedIsFormed
<1>10. Formed(df_iso_append_record) /\ Formed(df_iso_get_challenge) /\
       Formed(df_iso_external_authenticate) /\ Formed(df_iso_internal_authenticate)
  <2>1. /\ Shaped(df_iso_append_record, 5, 4, 0, 0)
        /\ Shaped(df_iso_get_challenge, 4, 3, 0, 0)
        /\ Shaped(df_iso_external_authenticate, 7, 6, 0, 0)
        /\ Shaped(df_iso_internal_authenticate, 7, 6, 0, 0)
    BY SMT DEF Shaped, AfterCard, df_iso_append_record, df_iso_get_challenge,
           df_iso_external_authenticate, df_iso_internal_authenticate, Reading
  <2> QED  BY <2>1, ShapedIsFormed
<1>11. Formed(df_abort_transaction) /\ Formed(df_format_picc) /\
       Formed(df_delete_file) /\ Formed(df_clear_record_file) /\
       Formed(df_delete_application) /\ Formed(df_change_key_settings)
  <2>1. /\ Shaped(df_abort_transaction, 3, 0, 0, 0)
        /\ Shaped(df_format_picc, 3, 0, 0, 0)
        /\ Shaped(df_delete_file, 4, 0, 0, 0)
        /\ Shaped(df_clear_record_file, 4, 0, 0, 0)
        /\ Shaped(df_delete_application, 4, 0, 0, 0)
        /\ Shaped(df_change_key_settings, 4, 0, 0, 0)
    BY SMT DEF Shaped, AfterCard, df_abort_transaction, df_format_picc,
           df_delete_file, df_clear_record_file, df_delete_application,
           df_change_key_settings, Mutation
  <2> QED  BY <2>1, ShapedIsFormed
<1>12. Formed(df_initialize_key_set) /\ Formed(df_roll_key_set) /\
       Formed(df_finalize_key_set) /\ Formed(df_write_data) /\ Formed(df_write_record)
       /\ Formed(df_update_record)
  <2>1. /\ Shaped(df_initialize_key_set, 4, 0, 0, 0)
        /\ Shaped(df_roll_key_set, 4, 0, 0, 0)
        /\ Shaped(df_finalize_key_set, 4, 0, 0, 0)
        /\ Shaped(df_write_data, 7, 0, 0, 0)
        /\ Shaped(df_write_record, 7, 0, 0, 0)
        /\ Shaped(df_update_record, 8, 0, 0, 0)
    BY SMT DEF Shaped, AfterCard, df_initialize_key_set, df_roll_key_set,
           df_finalize_key_set, df_write_data, df_write_record, df_update_record,
           Mutation
  <2> QED  BY <2>1, ShapedIsFormed
<1>13. Formed(df_credit) /\ Formed(df_debit) /\ Formed(df_limited_credit) /\
       Formed(df_create_application) /\ Formed(df_create_data_file) /\
       Formed(df_create_value_file)
  <2>1. /\ Shaped(df_credit, 5, 0, 0, 0)
        /\ Shaped(df_debit, 5, 0, 0, 0)
        /\ Shaped(df_limited_credit, 5, 0, 0, 0)
        /\ Shaped(df_create_application, 6, 0, 0, 0)
        /\ Shaped(df_create_data_file, 8, 0, 0, 0)
        /\ Shaped(df_create_value_file, 7, 0, 0, 0)
    BY SMT DEF Shaped, AfterCard, df_credit, df_debit, df_limited_credit,
           df_create_application, df_create_data_file, df_create_value_file, Mutation
  <2> QED  BY <2>1, ShapedIsFormed
<1>14. Formed(df_create_record_file) /\ Formed(df_change_file_settings) /\
       Formed(df_create_transaction_mac_file) /\ Formed(df_change_aes_key)
  <2>1. /\ Shaped(df_create_record_file, 9, 0, 0, 0)
        /\ Shaped(df_change_file_settings, 7, 0, 0, 0)
        /\ Shaped(df_create_transaction_mac_file, 7, 0, 0, 0)
        /\ Shaped(df_change_aes_key, 8, 0, 0, 0)
    BY SMT DEF Shaped, AfterCard, df_create_record_file, df_change_file_settings,
           df_create_transaction_mac_file, df_change_aes_key, Mutation
  <2> QED  BY <2>1, ShapedIsFormed
<1>15. Formed(df_restore_transfer) /\ Formed(df_set_picc_configuration) /\
       Formed(df_set_capability_configuration) /\ Formed(df_set_default_aes_key) /\
       Formed(df_set_ats) /\ Formed(df_set_atqa)
  <2>1. /\ Shaped(df_restore_transfer, 6, 0, 0, 0)
        /\ Shaped(df_set_picc_configuration, 4, 0, 0, 0)
        /\ Shaped(df_set_capability_configuration, 5, 0, 0, 0)
        /\ Shaped(df_set_default_aes_key, 5, 0, 0, 0)
        /\ Shaped(df_set_ats, 4, 0, 0, 0)
        /\ Shaped(df_set_atqa, 4, 0, 0, 0)
    BY SMT DEF Shaped, AfterCard, df_restore_transfer, df_set_picc_configuration,
           df_set_capability_configuration, df_set_default_aes_key, df_set_ats,
           df_set_atqa, CheckedFirst
  <2> QED  BY <2>1, ShapedIsFormed
<1>16. Formed(df_create_delegated_application) /\
       Formed(df_delete_delegated_application)
  <2>1. /\ Shaped(df_create_delegated_application, 8, 0, 0, 0)
        /\ Shaped(df_delete_delegated_application, 5, 0, 0, 0)
    BY SMT DEF Shaped, AfterCard, df_create_delegated_application,
           df_delete_delegated_application, CheckedFirst
  <2> QED  BY <2>1, ShapedIsFormed
<1>17. Formed(authenticate_standard_aes) /\
       Formed(authenticate_ev2_first_aes_with_capabilities) /\
       Formed(authenticate_ev2_non_first_aes)
  <2>1. /\ Shaped(authenticate_standard_aes, 5, 0, 0, 0)
        /\ Shaped(authenticate_ev2_first_aes_with_capabilities, 6, 0, 0, 0)
        /\ Shaped(authenticate_ev2_non_first_aes, 5, 0, 0, 0)
    BY SMT DEF Shaped, AfterCard, authenticate_standard_aes,
           authenticate_ev2_first_aes_with_capabilities,
           authenticate_ev2_non_first_aes, Derived
  <2> QED  BY <2>1, ShapedIsFormed
<1> QED
  BY <1>1, <1>2, <1>3, <1>4, <1>5, <1>6, <1>7, <1>8, <1>9, <1>10, <1>11, <1>12, <1>13,
     <1>14, <1>15, <1>16, <1>17, SMT DEF Entries

-----------------------------------------------------------------------------
(***************************************************************************)
(* The managed entry points: the inductive invariant.                      *)
(***************************************************************************)
Delivers(e) == \E i \in DOMAIN e : e[i] = "deliver"

\* One of the steps before `at` is s.
Past(f, s) == \E j \in 1..(f.at - 1) : f.steps[j] = s

\* A call under way, with its caller's pointer o and authentication information
\* i: its type and its end,
ShapeInv(f) ==
    /\ f \in CallType /\ f.at <= Len(f.steps) + 1
    /\ f.phase = "run" <=> f.outcome = "none"
    /\ f.phase # "run" => (f.outcome = "done" <=> f.at > Len(f.steps))
    /\ f.phase = "release" => ~f.owned /\ ~f.inside

\* what it may do after the card has heard it,
HeardInv(f) ==
    /\ f.phase = "run" /\ f.heard => \A j \in f.at..Len(f.steps) : f.steps[j] \in AfterCard
    /\ f.outcome = "not_sent" => ~f.heard

\* the buffer it has allocated and not delivered,
OwnerInv(f, o) ==
    /\ f.owned => o = "null" /\ Past(f, "alloc")
    /\ f.phase = "run" /\ f.at <= Len(f.steps) /\ Delivers(f.steps) /\ Past(f, "alloc") =>
          f.owned

\* what it leaves the caller,
PointerInv(f, o) ==
    o = IF f.at > Len(f.steps) /\ Delivers(f.steps) THEN "own" ELSE f.before

InformedInv(f, i) ==
    f.steps[1] = "info" =>
        i = IF f.at = 1 THEN "old" ELSE IF f.at > Len(f.steps) THEN "own" ELSE "zero"

\* and the providers it has retained.
AdapterInv(f) ==
    /\ f.adapters > 0 => Past(f, "adapter")
    /\ f.adapters > 1 => \E j, k \in 1..(f.at - 1) :
          j < k /\ f.steps[j] = "adapter" /\ f.steps[k] = "adapter"

CallInv(f, o, i) ==
    /\ ShapeInv(f) /\ HeardInv(f) /\ OwnerInv(f, o) /\ PointerInv(f, o)
    /\ InformedInv(f, i) /\ AdapterInv(f)

Pointers == {"null", "old", "own"}
Infos == {"old", "zero", "own"}

\* The buffers of a call and of its caller's pointer.
Holds(f, o) == (IF o = "null" THEN 0 ELSE 1) + (IF f.owned THEN 1 ELSE 0)

ManagedInv ==
    /\ stack \in Seq(CallType) /\ Depth <= MaxDepth /\ closed \in BOOLEAN
    /\ out \in [1..MaxDepth -> Pointers] /\ info \in [1..MaxDepth -> Infos]
    /\ \A d \in 1..Depth : CallInv(stack[d], out[d], info[d])
    /\ \A d \in 1..MaxDepth : d > Depth => info[d] = "old"
    /\ active = (\E d \in 1..Depth : stack[d].inside)
    /\ ReentryStaysOut /\ NothingLeaks

\* The fields of a call.
LEMMA CallFields ==
    ASSUME NEW f \in CallType
    PROVE  /\ f.steps \in Entries /\ Formed(f.steps) /\ DOMAIN f.steps = 1..Len(f.steps)
           /\ Len(f.steps) \in 1..12 /\ f.at \in 1..13 /\ f.bad \in 0..12
           /\ f.phase \in {"run", "unwind", "release"} /\ f.inside \in BOOLEAN
           /\ f.adapters \in 0..2 /\ f.owned \in BOOLEAN /\ f.heard \in BOOLEAN
           /\ f.outcome \in {"none", "not_sent", "rejected", "succeeded", "unknown", "done"}
           /\ f.before \in {"null", "old"}
<1>1. /\ f.steps \in Entries /\ f.at \in 1..13 /\ f.bad \in 0..12
      /\ f.phase \in {"run", "unwind", "release"} /\ f.inside \in BOOLEAN
      /\ f.adapters \in 0..2 /\ f.owned \in BOOLEAN /\ f.heard \in BOOLEAN
      /\ f.outcome \in {"none", "not_sent", "rejected", "succeeded", "unknown", "done"}
      /\ f.before \in {"null", "old"}
  BY DEF CallType
<1>2. Formed(f.steps)
  BY <1>1, EntriesAreFormed
<1>3. DOMAIN f.steps = 1..Len(f.steps) /\ Len(f.steps) \in 1..12
  BY <1>2 DEF Formed
<1> QED  BY <1>1, <1>2, <1>3

\* The sum of the adapters after a change of one call.
LEMMA RetainsMove ==
    ASSUME ManagedInv, NEW d \in 1..Depth, NEW f \in CallType,
           stack' = [stack EXCEPT ![d] = f]
    PROVE  Total(Depth', [e \in 1..Depth' |-> stack'[e].adapters])
             = Total(Depth, [e \in 1..Depth |-> stack[e].adapters])
               + (f.adapters - stack[d].adapters)
<1> DEFINE a == [e \in 1..Depth |-> stack[e].adapters]
           b == [e \in 1..Depth |-> stack'[e].adapters]
           delta == f.adapters - stack[d].adapters
<1>1. Depth \in Nat /\ Depth' = Depth
  BY DEF ManagedInv, Depth
<1>2. \A e \in 1..Depth : stack[e] \in CallType /\ stack[e].adapters \in Int
  BY CallFields DEF ManagedInv, Depth
<1>3. f.adapters \in Int /\ delta \in Int
  BY <1>2, CallFields
<1>4. \A e \in 1..Depth : stack'[e] = IF e = d THEN f ELSE stack[e]
  BY DEF ManagedInv, Depth
<1>5. \A e \in 1..Depth : a[e] \in Int
  BY <1>2
<1>6. \A e \in 1..Depth : b[e] = (IF e = d THEN a[e] + delta ELSE a[e])
  BY <1>2, <1>3, <1>4
<1> HIDE DEF a, b, delta
<1>7. Total(Depth, b) = Total(Depth, a) + delta
  BY <1>1, <1>3, <1>5, <1>6, TotalDiffers
<1> QED  BY <1>1, <1>7 DEF a, b, delta

\* The sum of the buffers after a change at one depth.
LEMMA BuffersMove ==
    ASSUME ManagedInv, NEW d \in 1..MaxDepth, NEW delta \in Int,
           BuffersAt(d)' = BuffersAt(d) + delta,
           \A e \in 1..MaxDepth : e # d => BuffersAt(e)' = BuffersAt(e)
    PROVE  Total(MaxDepth, [e \in 1..MaxDepth |-> BuffersAt(e)'])
             = Total(MaxDepth, [e \in 1..MaxDepth |-> BuffersAt(e)]) + delta
<1> DEFINE a == [e \in 1..MaxDepth |-> BuffersAt(e)]
           b == [e \in 1..MaxDepth |-> BuffersAt(e)']
<1>1. MaxDepth \in Nat
  BY ConstantsAssumption
<1>2. \A e \in 1..MaxDepth : a[e] \in Int
  BY DEF BuffersAt
<1>3. \A e \in 1..MaxDepth : b[e] = (IF e = d THEN a[e] + delta ELSE a[e])
  BY <1>2
<1> HIDE DEF a, b
<1>4. Total(MaxDepth, b) = Total(MaxDepth, a) + delta
  BY <1>1, <1>2, <1>3, TotalDiffers
<1> QED  BY <1>4 DEF a, b

-----------------------------------------------------------------------------
(***************************************************************************)
(* The managed entry points: one step of the call on top.                  *)
(***************************************************************************)
\* A call that has a step to do.
Runs(f) == f.phase = "run" /\ f.at <= Len(f.steps)

\* The call g is f, one step further.
MovesOn(f, g) ==
    /\ g \in CallType /\ g.steps = f.steps /\ g.at = f.at + 1
    /\ g.phase = "run" /\ g.outcome = "none" /\ g.before = f.before

\* What a step keeps, unless it is the step that changes it.
LEMMA Moves ==
    ASSUME NEW f, NEW g, NEW o, NEW i, CallInv(f, o, i), Runs(f), MovesOn(f, g)
    PROVE  /\ ShapeInv(g)
           /\ (g.heard => f.heard \/ f.steps[f.at] = "card") => HeardInv(g)
           /\ f.steps[f.at] \notin {"alloc", "deliver"} /\ g.owned = f.owned => OwnerInv(g, o)
           /\ f.steps[f.at] # "deliver" => PointerInv(g, o)
           /\ f.steps[f.at] \notin {"info", "publish"} => InformedInv(g, i)
           /\ g.adapters <= f.adapters => AdapterInv(g)
<1>1. /\ f \in CallType /\ f.at \in 1..Len(f.steps) /\ f.at \in Nat
      /\ Len(f.steps) \in 1..12 /\ Formed(f.steps) /\ DOMAIN f.steps = 1..Len(f.steps)
      /\ f.adapters \in 0..2 /\ g.adapters \in 0..2
  BY CallFields DEF Runs, CallInv, ShapeInv, MovesOn
<1>2. /\ g \in CallType /\ g.steps = f.steps /\ g.at = f.at + 1
      /\ g.phase = "run" /\ g.outcome = "none" /\ g.before = f.before
  BY DEF MovesOn
<1>3. ShapeInv(g)
  BY <1>1, <1>2 DEF ShapeInv
<1>4. ASSUME g.heard => f.heard \/ f.steps[f.at] = "card" PROVE HeardInv(g)
  BY <1>1, <1>2, <1>4 DEF HeardInv, CallInv, Formed, Runs
<1>5. ASSUME f.steps[f.at] \notin {"alloc", "deliver"}, g.owned = f.owned
      PROVE  OwnerInv(g, o)
  <2>1. Past(g, "alloc") <=> Past(f, "alloc")
    BY <1>1, <1>2, <1>5 DEF Past
  <2> QED  BY <1>1, <1>2, <1>5, <2>1 DEF OwnerInv, CallInv, Runs
<1>6. ASSUME f.steps[f.at] # "deliver" PROVE PointerInv(g, o)
  <2>1. g.at > Len(g.steps) => ~Delivers(g.steps)
    BY <1>1, <1>2, <1>6 DEF Formed, Delivers
  <2>2. o = f.before
    BY <1>1 DEF CallInv, PointerInv
  <2> QED  BY <1>2, <2>1, <2>2 DEF PointerInv
<1>7. ASSUME f.steps[f.at] \notin {"info", "publish"} PROVE InformedInv(g, i)
  BY <1>1, <1>2, <1>7 DEF InformedInv, CallInv, Formed
<1>8. ASSUME g.adapters <= f.adapters PROVE AdapterInv(g)
  <2>1. g.adapters > 0 => Past(g, "adapter")
    BY <1>1, <1>2, <1>8 DEF AdapterInv, CallInv, Past
  <2>2. ASSUME g.adapters > 1
        PROVE  \E j, k \in 1..(g.at - 1) :
                  j < k /\ g.steps[j] = "adapter" /\ g.steps[k] = "adapter"
    <3>1. PICK j \in 1..(f.at - 1), k \in 1..(f.at - 1) :
             j < k /\ f.steps[j] = "adapter" /\ f.steps[k] = "adapter"
      BY <1>1, <1>8, <2>2 DEF AdapterInv, CallInv
    <3> QED  BY <1>1, <1>2, <3>1
  <2> QED  BY <2>1, <2>2 DEF AdapterInv
<1> QED  BY <1>3, <1>4, <1>5, <1>6, <1>7, <1>8

\* The call g is f, ended or further on its way out.
EndsAs(f, g) ==
    /\ g \in CallType /\ g.steps = f.steps /\ g.at = f.at /\ g.before = f.before
    /\ g.phase # "run" /\ g.outcome # "none"
    /\ g.outcome = "done" <=> g.at > Len(g.steps)
    /\ g.phase = "release" => ~g.owned /\ ~g.inside
    /\ g.outcome = "not_sent" => ~g.heard
    /\ (g.owned => f.owned) /\ g.adapters <= f.adapters

\* The way out keeps what the steps did.
LEMMA Ending ==
    ASSUME NEW f, NEW g, NEW o, NEW i, CallInv(f, o, i), EndsAs(f, g)
    PROVE  CallInv(g, o, i)
<1>1. f.adapters \in 0..2 /\ g.adapters \in 0..2
  BY CallFields DEF CallInv, ShapeInv, EndsAs
<1>2. ShapeInv(g) /\ HeardInv(g) /\ PointerInv(g, o) /\ InformedInv(g, i)
  BY DEF CallInv, EndsAs, ShapeInv, HeardInv, PointerInv, InformedInv
<1>3. OwnerInv(g, o)
  BY DEF CallInv, EndsAs, OwnerInv, Past
<1>4. AdapterInv(g)
  BY <1>1 DEF CallInv, EndsAs, AdapterInv, Past
<1> QED  BY <1>2, <1>3, <1>4 DEF CallInv

\* The call on top, and what the invariant says of it.
LEMMA TopCall ==
    ASSUME ManagedInv, Depth > 0
    PROVE  /\ Depth \in Nat /\ Depth \in 1..Depth /\ Depth \in 1..MaxDepth /\ Top = stack[Depth]
           /\ CallInv(Top, out[Depth], info[Depth]) /\ Top \in CallType
           /\ out[Depth] \in Pointers /\ info[Depth] \in Infos
           /\ retained \in Int /\ buffers \in Int /\ MaxDepth \in Nat
<1>1. Depth \in Nat /\ MaxDepth \in Nat
  BY ConstantsAssumption DEF ManagedInv, Depth
<1>2. Depth \in 1..Depth /\ Depth \in 1..MaxDepth
  BY <1>1 DEF ManagedInv
<1>3. CallInv(Top, out[Depth], info[Depth]) /\ Top = stack[Depth]
  BY <1>2 DEF ManagedInv, Top
<1>4. out[Depth] \in Pointers /\ info[Depth] \in Infos
  BY <1>2 DEF ManagedInv
<1>5. \A d \in 1..Depth : stack[d].adapters \in Nat
  BY <1>1, CallFields DEF ManagedInv, Depth
<1>6. retained \in Int
  <2> DEFINE a == [d \in 1..Depth |-> stack[d].adapters]
  <2>1. \A d \in 1..Depth : a[d] \in Nat
    BY <1>5
  <2>2. retained = Total(Depth, a)
    BY Zenon DEF ManagedInv, NothingLeaks
  <2> HIDE DEF a
  <2> QED  BY <1>1, <2>1, <2>2, TotalIsNat
<1>7. buffers \in Int
  <2> DEFINE a == [d \in 1..MaxDepth |-> BuffersAt(d)]
  <2>1. \A d \in 1..MaxDepth : a[d] \in Nat
    BY DEF BuffersAt
  <2>2. buffers = Total(MaxDepth, a)
    BY Zenon DEF ManagedInv, NothingLeaks
  <2> HIDE DEF a
  <2> QED  BY <1>1, <2>1, <2>2, TotalIsNat
<1> QED  BY <1>1, <1>2, <1>3, <1>4, <1>6, <1>7 DEF CallInv, ShapeInv

\* A step of the call on top keeps the invariant when it keeps the call's, and
\* the marker and the counts follow the call.
LEMMA TopStep ==
    ASSUME ManagedInv, Depth > 0, NEW f, NEW o \in Pointers, NEW i \in Infos,
           CallInv(f, o, i), closed' \in BOOLEAN, stack' = [stack EXCEPT ![Depth] = f],
           out' = [out EXCEPT ![Depth] = o], info' = [info EXCEPT ![Depth] = i],
           \/ active' = active /\ f.inside = Top.inside
           \/ ~active /\ active' = TRUE /\ f.inside = TRUE
           \/ active' = (active /\ ~Top.inside) /\ f.inside = FALSE,
           retained' = retained + (f.adapters - Top.adapters),
           buffers' = buffers + (Holds(f, o) - Holds(Top, out[Depth]))
    PROVE  ManagedInv'
<1>1. /\ Depth \in Nat /\ Depth \in 1..Depth /\ Depth \in 1..MaxDepth /\ Top = stack[Depth]
      /\ CallInv(Top, out[Depth], info[Depth]) /\ Top \in CallType
      /\ out[Depth] \in Pointers /\ info[Depth] \in Infos /\ MaxDepth \in Nat
      /\ Depth <= MaxDepth
  BY TopCall DEF ManagedInv
<1>2. f \in CallType
  BY DEF CallInv, ShapeInv
<1>3. /\ stack' \in Seq(CallType) /\ Depth' = Depth
      /\ \A d \in 1..Depth : stack'[d] = IF d = Depth THEN f ELSE stack[d]
  BY <1>1, <1>2 DEF ManagedInv, Depth
<1>4. /\ out' \in [1..MaxDepth -> Pointers] /\ info' \in [1..MaxDepth -> Infos]
      /\ \A d \in 1..MaxDepth : out'[d] = IF d = Depth THEN o ELSE out[d]
      /\ \A d \in 1..MaxDepth : info'[d] = IF d = Depth THEN i ELSE info[d]
  BY <1>1 DEF ManagedInv
<1>5. \A d \in 1..Depth' : CallInv(stack'[d], out'[d], info'[d])
  <2> SUFFICES ASSUME NEW d \in 1..Depth PROVE CallInv(stack'[d], out'[d], info'[d])
    BY <1>3
  <2>1. d \in 1..MaxDepth
    BY <1>1
  <2>2. CASE d = Depth
    BY <1>3, <1>4, <2>1, <2>2
  <2>3. CASE d # Depth
    <3>1. stack'[d] = stack[d] /\ out'[d] = out[d] /\ info'[d] = info[d]
      BY <1>3, <1>4, <2>1, <2>3
    <3> QED  BY <3>1 DEF ManagedInv
  <2> QED  BY <2>2, <2>3
<1>6. \A d \in 1..MaxDepth : d > Depth' => info'[d] = "old"
  BY <1>1, <1>3, <1>4 DEF ManagedInv
<1>7. active \in BOOLEAN /\ active' \in BOOLEAN /\ Top.inside \in BOOLEAN /\ f.inside \in BOOLEAN
  BY <1>1, <1>2, CallFields DEF ManagedInv
<1>8. active' = (\E d \in 1..Depth' : stack'[d].inside) /\ ReentryStaysOut'
  <2>1. active <=> \E d \in 1..Depth : stack[d].inside
    BY DEF ManagedInv
  <2>2. \A d, e \in 1..Depth : stack[d].inside /\ stack[e].inside => d = e
    BY DEF ManagedInv, ReentryStaysOut
  <2>3. (active' <=> \E d \in 1..Depth : stack'[d].inside)
        /\ \A d, e \in 1..Depth : stack'[d].inside /\ stack'[e].inside => d = e
    BY <1>1, <1>3, <1>7, <2>1, <2>2
  <2> QED  BY <1>3, <1>7, <2>3, Zenon DEF ReentryStaysOut
<1>9. retained' = Total(Depth', [d \in 1..Depth' |-> stack'[d].adapters])
  <2>1. Total(Depth', [e \in 1..Depth' |-> stack'[e].adapters])
          = Total(Depth, [e \in 1..Depth |-> stack[e].adapters])
            + (f.adapters - stack[Depth].adapters)
    BY <1>1, <1>2, RetainsMove
  <2>2. retained = Total(Depth, [e \in 1..Depth |-> stack[e].adapters])
    BY Zenon DEF ManagedInv, NothingLeaks
  <2> QED  BY <1>1, <2>1, <2>2, Zenon
<1>10. buffers' = Total(MaxDepth, [d \in 1..MaxDepth |-> BuffersAt(d)'])
  <2> DEFINE delta == Holds(f, o) - Holds(Top, out[Depth])
  <2>0. PICK k \in 1..MaxDepth : k = Depth
    BY <1>1
  <2>1. delta \in Int /\ BuffersAt(k)' = BuffersAt(k) + delta
    BY <1>1, <1>3, <1>4, <2>0 DEF BuffersAt, Holds
  <2>2. \A e \in 1..MaxDepth : e # k => BuffersAt(e)' = BuffersAt(e)
    BY <1>1, <1>3, <1>4, <2>0 DEF BuffersAt
  <2>3. buffers = Total(MaxDepth, [e \in 1..MaxDepth |-> BuffersAt(e)])
    BY Zenon DEF ManagedInv, NothingLeaks
  <2> HIDE DEF delta
  <2>4. Total(MaxDepth, [e \in 1..MaxDepth |-> BuffersAt(e)'])
          = Total(MaxDepth, [e \in 1..MaxDepth |-> BuffersAt(e)]) + delta
    BY <1>1, <2>1, <2>2, BuffersMove, Zenon
  <2> QED  BY <2>3, <2>4 DEF delta
<1>11. NothingLeaks'
  BY <1>9, <1>10, Zenon DEF NothingLeaks
<1>12. Depth' <= MaxDepth
  BY <1>3 DEF ManagedInv
<1> QED
  BY <1>3, <1>4, <1>5, <1>6, <1>8, <1>11, <1>12 DEF ManagedInv

\* The same for a step that leaves the caller's variables,
LEMMA KeepStep ==
    ASSUME ManagedInv, Depth > 0, NEW f, CallInv(f, out[Depth], info[Depth]),
           stack' = [stack EXCEPT ![Depth] = f], out' = out, info' = info,
           closed' \in BOOLEAN,
           \/ active' = active /\ f.inside = Top.inside
           \/ ~active /\ active' = TRUE /\ f.inside = TRUE
           \/ active' = (active /\ ~Top.inside) /\ f.inside = FALSE,
           retained' = retained + (f.adapters - Top.adapters),
           buffers' = buffers + ((IF f.owned THEN 1 ELSE 0) - (IF Top.owned THEN 1 ELSE 0))
    PROVE  ManagedInv'
<1>1. /\ Depth \in 1..MaxDepth /\ out[Depth] \in Pointers /\ info[Depth] \in Infos
      /\ buffers \in Int
  BY TopCall
<1>2. out' = [out EXCEPT ![Depth] = out[Depth]] /\ info' = [info EXCEPT ![Depth] = info[Depth]]
  BY <1>1 DEF ManagedInv
<1>3. buffers' = buffers + (Holds(f, out[Depth]) - Holds(Top, out[Depth]))
  BY <1>1 DEF Holds
<1> QED  BY <1>1, <1>2, <1>3, TopStep

\* and for one that leaves the marker and the counts as well.
LEMMA QuietStep ==
    ASSUME ManagedInv, Depth > 0, NEW f, CallInv(f, out[Depth], info[Depth]),
           stack' = [stack EXCEPT ![Depth] = f], out' = out, info' = info,
           closed' \in BOOLEAN, active' = active, retained' = retained, buffers' = buffers,
           f.inside = Top.inside, f.adapters = Top.adapters, f.owned = Top.owned
    PROVE  ManagedInv'
<1>1. Top \in CallType /\ retained \in Int /\ buffers \in Int
  BY TopCall
<1>2. Top.adapters \in Int
  BY <1>1, CallFields
<1>3. /\ retained' = retained + (f.adapters - Top.adapters)
      /\ buffers' = buffers + ((IF f.owned THEN 1 ELSE 0) - (IF Top.owned THEN 1 ELSE 0))
  BY <1>1, <1>2
<1> QED  BY <1>3, KeepStep

\* A place that has a step.
LEMMA PlaceBound ==
    ASSUME NEW at \in 1..13, NEW n \in 1..12, at <= n
    PROVE  at \in 1..n /\ at + 1 \in 1..13 /\ at \in Nat
OBVIOUS

\* A call done with a plain step,
LEMMA Advancing ==
    ASSUME NEW f, NEW o, NEW i, CallInv(f, o, i), Runs(f),
           f.steps[f.at] \notin {"info", "alloc", "publish", "deliver"}
    PROVE  CallInv([f EXCEPT !.at = @ + 1], o, i)
<1> DEFINE g == [f EXCEPT !.at = @ + 1]
<1>1. f \in CallType /\ f.phase = "run" /\ f.outcome = "none"
  BY DEF CallInv, ShapeInv, Runs
<1>2. f.at + 1 \in 1..13 /\ f.adapters \in Int
  <2>1. f.at \in 1..13 /\ f.adapters \in Int /\ Len(f.steps) \in 1..12
    BY <1>1, CallFields
  <2>2. f.at <= Len(f.steps)
    BY DEF Runs
  <2> QED  BY <2>1, <2>2, PlaceBound, Zenon
<1>3. g \in CallType
  BY <1>1, <1>2, Zenon DEF CallType
<1>4. /\ g.steps = f.steps /\ g.at = f.at + 1 /\ g.phase = f.phase
      /\ g.adapters = f.adapters /\ g.owned = f.owned /\ g.heard = f.heard
      /\ g.outcome = f.outcome /\ g.before = f.before
  BY <1>1 DEF CallType
<1> HIDE DEF g
<1>5. MovesOn(f, g)
  BY <1>1, <1>3, <1>4 DEF MovesOn
<1>6. CallInv(g, o, i)
  BY <1>2, <1>4, <1>5, Moves DEF CallInv
<1> QED  BY <1>6 DEF g

\* and one that a step ends.
LEMMA Failing ==
    ASSUME NEW f, NEW o, NEW i, NEW outcome, CallInv(f, o, i), Runs(f),
           \/ outcome = "not_sent" /\ f.steps[f.at] \notin AfterCard
           \/ outcome \in {"rejected", "succeeded", "unknown"}
    PROVE  CallInv([f EXCEPT !.phase = "unwind", !.outcome = outcome], o, i)
<1> DEFINE g == [f EXCEPT !.phase = "unwind", !.outcome = outcome]
<1>1. f \in CallType
  BY DEF CallInv, ShapeInv
<1>2. f.at \in 1..Len(f.steps) /\ Len(f.steps) \in 1..12 /\ f.adapters \in Int
  BY <1>1, CallFields DEF Runs
<1>3. g \in CallType
  <2>1. "unwind" \in {"run", "unwind", "release"}
        /\ outcome \in {"none", "not_sent", "rejected", "succeeded", "unknown", "done"}
    OBVIOUS
  <2> QED  BY <1>1, <2>1, Zenon DEF CallType
<1>4. /\ g.steps = f.steps /\ g.at = f.at /\ g.phase = "unwind"
      /\ g.adapters = f.adapters /\ g.owned = f.owned /\ g.heard = f.heard
      /\ g.outcome = outcome /\ g.before = f.before
  BY <1>1 DEF CallType
<1> HIDE DEF g
<1>5. g.outcome = "not_sent" => ~g.heard
  BY <1>2, <1>4 DEF CallInv, HeardInv, Runs
<1>6. EndsAs(f, g)
  BY <1>2, <1>3, <1>4, <1>5 DEF EndsAs
<1> QED  BY <1>6, Ending DEF g

\* A step that only moves the running call on to its next step keeps the
\* invariant, unless that step writes what its caller reads.
LEMMA AdvanceStep ==
    ASSUME ManagedInv, Running, Step \notin {"info", "alloc", "publish", "deliver"}, Advance,
           closed' \in BOOLEAN, UNCHANGED <<active, retained, buffers, out, info>>
    PROVE  ManagedInv'
<1> DEFINE g == [Top EXCEPT !.at = @ + 1]
<1>1. Depth > 0 /\ Runs(Top) /\ Top.steps[Top.at] \notin {"info", "alloc", "publish", "deliver"}
  BY DEF Running, Runs, Step
<1>2. CallInv(Top, out[Depth], info[Depth]) /\ Top \in CallType
  BY <1>1, TopCall
<1>3. CallInv(g, out[Depth], info[Depth])
  BY <1>1, <1>2, Advancing
<1>4. g.inside = Top.inside /\ g.adapters = Top.adapters /\ g.owned = Top.owned
  BY <1>2 DEF CallType
<1>5. stack' = [stack EXCEPT ![Depth] = g]
  BY DEF Advance, SetTop
<1> HIDE DEF g
<1> QED  BY <1>1, <1>3, <1>4, <1>5, QuietStep

\* A step that ends the running call with an outcome keeps the invariant, if
\* not_sent is only said before the card was reached.
LEMMA FailStep ==
    ASSUME ManagedInv, Running, NEW outcome, Fail(outcome),
           \/ outcome = "not_sent" /\ Step \notin AfterCard
           \/ outcome \in {"rejected", "succeeded", "unknown"},
           closed' \in BOOLEAN, UNCHANGED <<active, retained, buffers, out, info>>
    PROVE  ManagedInv'
<1> DEFINE g == [Top EXCEPT !.phase = "unwind", !.outcome = outcome]
<1>1. Depth > 0 /\ Runs(Top) /\ Top.steps[Top.at] = Step
  BY DEF Running, Runs, Step
<1>2. CallInv(Top, out[Depth], info[Depth]) /\ Top \in CallType
  BY <1>1, TopCall
<1>3. CallInv(g, out[Depth], info[Depth])
  BY <1>1, <1>2, Failing
<1>4. g.inside = Top.inside /\ g.adapters = Top.adapters /\ g.owned = Top.owned
  BY <1>2 DEF CallType
<1>5. stack' = [stack EXCEPT ![Depth] = g]
  BY DEF Fail, SetTop
<1> HIDE DEF g
<1> QED  BY <1>1, <1>3, <1>4, <1>5, QuietStep

-----------------------------------------------------------------------------
(***************************************************************************)
(* The managed entry points: the actions.                                  *)
(***************************************************************************)
\* What every action that takes a step of the call on top starts from.
LEMMA RunningCall ==
    ASSUME ManagedInv, Running
    PROVE  /\ Depth > 0 /\ Runs(Top) /\ Step = Top.steps[Top.at]
           /\ CallInv(Top, out[Depth], info[Depth]) /\ Top \in CallType
           /\ Top.phase = "run" /\ Top.outcome = "none" /\ Top.at + 1 \in 1..13
           /\ Top.at \in 1..Len(Top.steps) /\ Len(Top.steps) \in 1..12
           /\ Formed(Top.steps) /\ DOMAIN Top.steps = 1..Len(Top.steps)
           /\ Top.adapters \in 0..2 /\ Top.owned \in BOOLEAN /\ Top.inside \in BOOLEAN
<1>1. Depth > 0 /\ Runs(Top) /\ Step = Top.steps[Top.at]
  BY DEF Running, Runs, Step
<1>2. CallInv(Top, out[Depth], info[Depth]) /\ Top \in CallType
  BY <1>1, TopCall
<1>3. Top.phase = "run" /\ Top.outcome = "none"
  BY <1>1, <1>2 DEF Runs, CallInv, ShapeInv
<1>4. /\ Top.at \in 1..13 /\ Len(Top.steps) \in 1..12 /\ Formed(Top.steps)
      /\ DOMAIN Top.steps = 1..Len(Top.steps)
      /\ Top.adapters \in 0..2 /\ Top.owned \in BOOLEAN /\ Top.inside \in BOOLEAN
  BY <1>2, CallFields
<1>5. Top.at <= Len(Top.steps)
  BY <1>1 DEF Runs
<1>6. Top.at \in 1..Len(Top.steps) /\ Top.at + 1 \in 1..13
  BY <1>4, <1>5, PlaceBound, Zenon
<1> QED  BY <1>6, <1>1, <1>2, <1>3, <1>4, <1>5

\* Conversions and checks, answers of the host, plain stores, lookups and the
\* closing of the handle: the call goes on or is refused.
LEMMA PlainSteps ==
    ASSUME ManagedInv, Check \/ Resolve \/ Local \/ Lookup \/ Close
    PROVE  ManagedInv'
<1>1. /\ Running /\ UNCHANGED <<active, retained, buffers, out, info>>
      /\ closed' \in BOOLEAN
      /\ Step \in Checks \cup {"resolve", "derive", "encode", "store", "local", "cancel",
                               "lookup", "close"}
  BY DEF Check, Resolve, Local, Lookup, Close, At, ManagedInv
<1>2. Step \notin {"info", "alloc", "publish", "deliver"}
  BY <1>1 DEF Checks
<1>3. Advance \/ (Fail("not_sent") /\ Step \notin AfterCard)
  BY DEF Check, Resolve, Local, Lookup, Close, At, Checks, AfterCard
<1>4. CASE Advance
  BY <1>1, <1>2, <1>4, AdvanceStep
<1>5. CASE Fail("not_sent") /\ Step \notin AfterCard
  BY <1>1, <1>5, FailStep
<1> QED  BY <1>3, <1>4, <1>5

\* An exception is contained, with an unknown outcome.
LEMMA ThrowsStep ==
    ASSUME ManagedInv, Throws
    PROVE  ManagedInv'
<1>1. /\ Running /\ UNCHANGED <<active, retained, buffers, out, info>>
      /\ closed' \in BOOLEAN /\ Fail("unknown")
  BY DEF Throws, ManagedInv
<1> QED  BY <1>1, FailStep

\* The information is cleared before anything else is done.
LEMMA CheckInfoStep ==
    ASSUME ManagedInv, CheckInfo
    PROVE  ManagedInv'
<1>1. /\ Running /\ Step = "info" /\ UNCHANGED <<active, retained, buffers, out>>
      /\ closed' \in BOOLEAN
      /\ \/ Fail("not_sent") /\ UNCHANGED info
         \/ Advance /\ info' = [info EXCEPT ![Depth] = "zero"]
  BY DEF CheckInfo, At, CleansInfo, ManagedInv
<1>2. CASE Fail("not_sent") /\ UNCHANGED info
  <2>1. Step \notin AfterCard
    BY <1>1 DEF AfterCard
  <2> QED  BY <1>1, <1>2, <2>1, FailStep
<1>3. CASE Advance /\ info' = [info EXCEPT ![Depth] = "zero"]
  <2> DEFINE g == [Top EXCEPT !.at = @ + 1]
  <2>1. /\ Depth > 0 /\ Runs(Top) /\ Top.steps[Top.at] = "info"
        /\ CallInv(Top, out[Depth], info[Depth]) /\ Top \in CallType
        /\ Top.phase = "run" /\ Top.outcome = "none" /\ Top.at + 1 \in 1..13
        /\ Top.at \in 1..Len(Top.steps) /\ Formed(Top.steps) /\ Top.adapters \in 0..2
        /\ Len(Top.steps) \in 1..12
    BY <1>1, RunningCall
  <2>2. out[Depth] \in Pointers /\ retained \in Int /\ buffers \in Int
        /\ Depth \in 1..MaxDepth
    BY <2>1, TopCall
  <2>3. g \in CallType
    BY <2>1, Zenon DEF CallType
  <2>4. /\ g.steps = Top.steps /\ g.at = Top.at + 1 /\ g.phase = Top.phase
        /\ g.adapters = Top.adapters /\ g.owned = Top.owned /\ g.heard = Top.heard
        /\ g.outcome = Top.outcome /\ g.before = Top.before /\ g.inside = Top.inside
    BY <2>1 DEF CallType
  <2>5. stack' = [stack EXCEPT ![Depth] = g]
    BY <1>3 DEF Advance, SetTop
  <2> HIDE DEF g
  <2>6. MovesOn(Top, g)
    BY <2>1, <2>3, <2>4 DEF MovesOn
  <2>7. InformedInv(g, "zero")
    BY <2>1, <2>4 DEF InformedInv, Formed
  <2>8. CallInv(g, out[Depth], "zero")
    BY <2>1, <2>4, <2>6, <2>7, Moves DEF CallInv
  <2>9. out' = [out EXCEPT ![Depth] = out[Depth]]
    BY <1>1, <2>2 DEF ManagedInv
  <2>10. /\ retained' = retained + (g.adapters - Top.adapters)
         /\ buffers' = buffers + (Holds(g, out[Depth]) - Holds(Top, out[Depth]))
    BY <1>1, <2>1, <2>2, <2>4 DEF Holds
  <2>11. "zero" \in Infos /\ active' = active /\ g.inside = Top.inside
    BY <1>1, <2>4 DEF Infos
  <2> QED  BY <1>1, <1>3, <2>1, <2>2, <2>5, <2>8, <2>9, <2>10, <2>11, TopStep
<1> QED  BY <1>1, <1>2, <1>3

\* A provider's context is retained for one adapter more.
LEMMA CreateAdapterStep ==
    ASSUME ManagedInv, CreateAdapter
    PROVE  ManagedInv'
<1>1. /\ Running /\ Step = "adapter" /\ UNCHANGED <<active, buffers, out, info>>
      /\ closed' \in BOOLEAN
      /\ \/ Fail("not_sent") /\ UNCHANGED retained
         \/ /\ SetTop([Top EXCEPT !.at = @ + 1, !.adapters = @ + 1])
            /\ retained' = retained + 1
  BY DEF CreateAdapter, At, Retains, ManagedInv
<1>2. CASE Fail("not_sent") /\ UNCHANGED retained
  <2>1. Step \notin AfterCard
    BY <1>1 DEF AfterCard
  <2> QED  BY <1>1, <1>2, <2>1, FailStep
<1>3. CASE /\ SetTop([Top EXCEPT !.at = @ + 1, !.adapters = @ + 1])
           /\ retained' = retained + 1
  <2> DEFINE g == [Top EXCEPT !.at = @ + 1, !.adapters = @ + 1]
  <2>1. /\ Depth > 0 /\ Runs(Top) /\ Top.steps[Top.at] = "adapter"
        /\ CallInv(Top, out[Depth], info[Depth]) /\ Top \in CallType
        /\ Top.phase = "run" /\ Top.outcome = "none" /\ Top.at + 1 \in 1..13
        /\ Top.at \in 1..Len(Top.steps) /\ Formed(Top.steps) /\ Top.adapters \in 0..2
        /\ Len(Top.steps) \in 1..12 /\ Top.at \in Nat
    BY <1>1, RunningCall
  <2>2. retained \in Int /\ buffers \in Int
    BY <2>1, TopCall
  <2>3. /\ Top.adapters > 0 => Past(Top, "adapter")
        /\ Top.adapters > 1 => \E j, k \in 1..(Top.at - 1) :
              j < k /\ Top.steps[j] = "adapter" /\ Top.steps[k] = "adapter"
    BY <2>1 DEF CallInv, AdapterInv
  <2>4. Top.adapters + 1 \in 0..2
    <3>1. ~(Top.adapters > 1)
      <4> SUFFICES ASSUME Top.adapters > 1 PROVE FALSE
        OBVIOUS
      <4>1. PICK j \in 1..(Top.at - 1), k \in 1..(Top.at - 1) :
               j < k /\ Top.steps[j] = "adapter" /\ Top.steps[k] = "adapter"
        BY <2>3
      <4>2. j \in 1..Len(Top.steps) /\ k \in 1..Len(Top.steps) /\ k < Top.at
        BY <2>1
      <4> QED  BY <2>1, <4>1, <4>2 DEF Formed
    <3> QED  BY <2>1, <3>1
  <2>5. g \in CallType
    BY <2>1, <2>4, Zenon DEF CallType
  <2>6. /\ g.steps = Top.steps /\ g.at = Top.at + 1 /\ g.phase = Top.phase
        /\ g.adapters = Top.adapters + 1 /\ g.owned = Top.owned /\ g.heard = Top.heard
        /\ g.outcome = Top.outcome /\ g.before = Top.before /\ g.inside = Top.inside
    BY <2>1 DEF CallType
  <2>7. stack' = [stack EXCEPT ![Depth] = g]
    BY <1>3, Zenon DEF SetTop
  <2> HIDE DEF g
  <2>8. MovesOn(Top, g)
    BY <2>1, <2>5, <2>6 DEF MovesOn
  <2>9. AdapterInv(g)
    <3>1. Past(g, "adapter")
      BY <2>1, <2>6 DEF Past
    <3>2. ASSUME g.adapters > 1
          PROVE  \E j, k \in 1..(g.at - 1) :
                    j < k /\ g.steps[j] = "adapter" /\ g.steps[k] = "adapter"
      <4>1. PICK j \in 1..(Top.at - 1) : Top.steps[j] = "adapter"
        BY <2>1, <2>3, <2>6, <3>2 DEF Past
      <4>2. j \in 1..(g.at - 1) /\ Top.at \in 1..(g.at - 1) /\ j < Top.at
        BY <2>1, <2>6
      <4> QED  BY <2>1, <2>6, <4>1, <4>2
    <3> QED  BY <3>1, <3>2 DEF AdapterInv
  <2>10. CallInv(g, out[Depth], info[Depth])
    BY <2>1, <2>6, <2>8, <2>9, Moves DEF CallInv
  <2>11. /\ retained' = retained + (g.adapters - Top.adapters)
         /\ buffers' = buffers + ((IF g.owned THEN 1 ELSE 0) - (IF Top.owned THEN 1 ELSE 0))
    BY <1>1, <1>3, <2>1, <2>2, <2>6
  <2>12. active' = active /\ g.inside = Top.inside
    BY <1>1, <2>6
  <2> QED  BY <1>1, <2>1, <2>7, <2>10, <2>11, <2>12, KeepStep
<1> QED  BY <1>1, <1>2, <1>3

\* A call enters invoke(), or a Card method, when no other call is inside.
LEMMA EnterStep ==
    ASSUME ManagedInv, Enter \/ Guard
    PROVE  ManagedInv'
<1>1. /\ Running /\ Step \in {"enter", "guard"} /\ UNCHANGED <<retained, buffers, out, info>>
      /\ closed' \in BOOLEAN
      /\ \/ Fail("not_sent") /\ UNCHANGED active
         \/ /\ ~active /\ active' = TRUE
            /\ SetTop([Top EXCEPT !.at = @ + 1, !.inside = TRUE])
  BY DEF Enter, Guard, At, Admits, ManagedInv
<1>2. CASE Fail("not_sent") /\ UNCHANGED active
  <2>1. Step \notin AfterCard
    BY <1>1 DEF AfterCard
  <2> QED  BY <1>1, <1>2, <2>1, FailStep
<1>3. CASE ~active /\ active' = TRUE /\ SetTop([Top EXCEPT !.at = @ + 1, !.inside = TRUE])
  <2> DEFINE g == [Top EXCEPT !.at = @ + 1, !.inside = TRUE]
  <2>1. /\ Depth > 0 /\ Runs(Top) /\ Top.steps[Top.at] \in {"enter", "guard"}
        /\ CallInv(Top, out[Depth], info[Depth]) /\ Top \in CallType
        /\ Top.phase = "run" /\ Top.outcome = "none" /\ Top.at + 1 \in 1..13
        /\ Top.adapters \in 0..2
    BY <1>1, RunningCall
  <2>2. retained \in Int /\ buffers \in Int
    BY <2>1, TopCall
  <2>3. g \in CallType
    <3>1. TRUE \in BOOLEAN
      OBVIOUS
    <3> QED  BY <2>1, <3>1, Zenon DEF CallType
  <2>4. /\ g.steps = Top.steps /\ g.at = Top.at + 1 /\ g.phase = Top.phase
        /\ g.adapters = Top.adapters /\ g.owned = Top.owned /\ g.heard = Top.heard
        /\ g.outcome = Top.outcome /\ g.before = Top.before /\ g.inside = TRUE
    BY <2>1 DEF CallType
  <2>5. stack' = [stack EXCEPT ![Depth] = g]
    BY <1>3, Zenon DEF SetTop
  <2> HIDE DEF g
  <2>6. MovesOn(Top, g)
    BY <2>1, <2>3, <2>4 DEF MovesOn
  <2>7. CallInv(g, out[Depth], info[Depth])
    BY <2>1, <2>4, <2>6, Moves DEF CallInv
  <2>8. /\ retained' = retained + (g.adapters - Top.adapters)
        /\ buffers' = buffers + ((IF g.owned THEN 1 ELSE 0) - (IF Top.owned THEN 1 ELSE 0))
    BY <1>1, <2>1, <2>2, <2>4
  <2>9. out' = out /\ info' = info /\ closed' \in BOOLEAN
        /\ ~active /\ active' = TRUE /\ g.inside = TRUE
    BY <1>1, <1>3, <2>4
  <2> QED  BY <2>1, <2>5, <2>7, <2>8, <2>9, KeepStep
<1> QED  BY <1>1, <1>2, <1>3

\* output_bytes() allocates what the caller's empty pointer may receive.
LEMMA AllocateStep ==
    ASSUME ManagedInv, Allocate
    PROVE  ManagedInv'
<1>1. /\ Running /\ Step = "alloc" /\ UNCHANGED <<active, retained, info>>
      /\ closed' \in BOOLEAN
      /\ \/ Fail("not_sent") /\ UNCHANGED <<buffers, out>>
         \/ /\ out[Depth] = "null" /\ buffers' = buffers + 1
            /\ SetTop([Top EXCEPT !.at = @ + 1, !.owned = TRUE])
            /\ out' = [out EXCEPT ![Depth] = out[Depth]]
  BY DEF Allocate, At, Publishes, ManagedInv
<1>2. CASE Fail("not_sent") /\ UNCHANGED <<buffers, out>>
  <2>1. Step \notin AfterCard
    BY <1>1 DEF AfterCard
  <2> QED  BY <1>1, <1>2, <2>1, FailStep
<1>3. CASE /\ out[Depth] = "null" /\ buffers' = buffers + 1
           /\ SetTop([Top EXCEPT !.at = @ + 1, !.owned = TRUE])
           /\ out' = [out EXCEPT ![Depth] = out[Depth]]
  <2> DEFINE g == [Top EXCEPT !.at = @ + 1, !.owned = TRUE]
  <2>1. /\ Depth > 0 /\ Runs(Top) /\ Top.steps[Top.at] = "alloc"
        /\ CallInv(Top, out[Depth], info[Depth]) /\ Top \in CallType
        /\ Top.phase = "run" /\ Top.outcome = "none" /\ Top.at + 1 \in 1..13
        /\ Top.at \in 1..Len(Top.steps) /\ Formed(Top.steps) /\ Top.adapters \in 0..2
        /\ Len(Top.steps) \in 1..12 /\ Top.at \in Nat
    BY <1>1, RunningCall
  <2>2. retained \in Int /\ buffers \in Int /\ Depth \in 1..MaxDepth
    BY <2>1, TopCall
  <2>3. ~Top.owned
    <3>1. \A j \in 1..(Top.at - 1) : Top.steps[j] # "alloc"
      <4> SUFFICES ASSUME NEW j \in 1..(Top.at - 1), Top.steps[j] = "alloc" PROVE FALSE
        OBVIOUS
      <4>1. j \in 1..Len(Top.steps) /\ j # Top.at
        BY <2>1
      <4> QED  BY <2>1, <4>1 DEF Formed
    <3> QED  BY <2>1, <3>1 DEF CallInv, OwnerInv, Past
  <2>4. g \in CallType
    <3>1. TRUE \in BOOLEAN
      OBVIOUS
    <3> QED  BY <2>1, <3>1, Zenon DEF CallType
  <2>5. /\ g.steps = Top.steps /\ g.at = Top.at + 1 /\ g.phase = Top.phase
        /\ g.adapters = Top.adapters /\ g.owned = TRUE /\ g.heard = Top.heard
        /\ g.outcome = Top.outcome /\ g.before = Top.before /\ g.inside = Top.inside
    BY <2>1 DEF CallType
  <2>6. stack' = [stack EXCEPT ![Depth] = g]
    BY <1>3, Zenon DEF SetTop
  <2> HIDE DEF g
  <2>7. MovesOn(Top, g)
    BY <2>1, <2>4, <2>5 DEF MovesOn
  <2>8. OwnerInv(g, out[Depth])
    BY <1>3, <2>1, <2>5 DEF OwnerInv, Past
  <2>9. CallInv(g, out[Depth], info[Depth])
    BY <2>1, <2>5, <2>7, <2>8, Moves DEF CallInv
  <2>10. out' = out
    BY <1>3, <2>2 DEF ManagedInv
  <2>11. /\ retained' = retained + (g.adapters - Top.adapters)
         /\ buffers' = buffers + ((IF g.owned THEN 1 ELSE 0) - (IF Top.owned THEN 1 ELSE 0))
    BY <1>1, <1>3, <2>1, <2>2, <2>3, <2>5
  <2>12. active' = active /\ g.inside = Top.inside /\ info' = info
    BY <1>1, <2>5
  <2> QED  BY <1>1, <2>1, <2>6, <2>9, <2>10, <2>11, <2>12, KeepStep
<1> QED  BY <1>1, <1>2, <1>3

\* The card operation.
LEMMA CardStep ==
    ASSUME ManagedInv, CardOperation
    PROVE  ManagedInv'
<1>1. /\ Running /\ Step = "card" /\ UNCHANGED <<active, retained, buffers, out, info>>
      /\ closed' \in BOOLEAN
      /\ \/ SetTop([Top EXCEPT !.at = @ + 1, !.heard = TRUE])
         \/ Fail("not_sent")
         \/ \E outcome \in {"rejected", "succeeded", "unknown"} :
              SetTop([Top EXCEPT !.phase = "unwind", !.outcome = outcome, !.heard = TRUE])
  BY DEF CardOperation, At, ManagedInv
<1>2. /\ Depth > 0 /\ Runs(Top) /\ Top.steps[Top.at] = "card"
      /\ CallInv(Top, out[Depth], info[Depth]) /\ Top \in CallType
      /\ Top.phase = "run" /\ Top.outcome = "none" /\ Top.at + 1 \in 1..13
      /\ Top.at \in 1..Len(Top.steps) /\ Top.adapters \in Int /\ Len(Top.steps) \in 1..12
      /\ TRUE \in BOOLEAN
  BY <1>1, RunningCall
<1>3. CASE SetTop([Top EXCEPT !.at = @ + 1, !.heard = TRUE])
  <2> DEFINE g == [Top EXCEPT !.at = @ + 1, !.heard = TRUE]
  <2>1. g \in CallType
    BY <1>2, Zenon DEF CallType
  <2>2. /\ g.steps = Top.steps /\ g.at = Top.at + 1 /\ g.phase = Top.phase
        /\ g.adapters = Top.adapters /\ g.owned = Top.owned /\ g.heard = TRUE
        /\ g.outcome = Top.outcome /\ g.before = Top.before /\ g.inside = Top.inside
    BY <1>2 DEF CallType
  <2>3. stack' = [stack EXCEPT ![Depth] = g]
    BY <1>3, Zenon DEF SetTop
  <2> HIDE DEF g
  <2>4. MovesOn(Top, g)
    BY <1>2, <2>1, <2>2 DEF MovesOn
  <2>5. CallInv(g, out[Depth], info[Depth])
    BY <1>2, <2>2, <2>4, Moves DEF CallInv
  <2> QED  BY <1>1, <1>2, <2>2, <2>3, <2>5, QuietStep
<1>4. CASE Fail("not_sent")
  <2>1. Step \notin AfterCard
    BY <1>1 DEF AfterCard
  <2> QED  BY <1>1, <1>4, <2>1, FailStep
<1>5. ASSUME NEW outcome \in {"rejected", "succeeded", "unknown"},
             SetTop([Top EXCEPT !.phase = "unwind", !.outcome = outcome, !.heard = TRUE])
      PROVE  ManagedInv'
  <2> DEFINE g == [Top EXCEPT !.phase = "unwind", !.outcome = outcome, !.heard = TRUE]
  <2>1. g \in CallType
    <3>1. "unwind" \in {"run", "unwind", "release"}
          /\ outcome \in {"none", "not_sent", "rejected", "succeeded", "unknown", "done"}
      BY <1>5
    <3> QED  BY <1>2, <3>1, Zenon DEF CallType
  <2>2. /\ g.steps = Top.steps /\ g.at = Top.at /\ g.phase = "unwind"
        /\ g.adapters = Top.adapters /\ g.owned = Top.owned /\ g.heard = TRUE
        /\ g.outcome = outcome /\ g.before = Top.before /\ g.inside = Top.inside
    BY <1>2 DEF CallType
  <2>3. stack' = [stack EXCEPT ![Depth] = g]
    BY <1>5, Zenon DEF SetTop
  <2> HIDE DEF g
  <2>4. EndsAs(Top, g)
    BY <1>2, <1>5, <2>1, <2>2 DEF EndsAs
  <2>5. CallInv(g, out[Depth], info[Depth])
    BY <1>2, <2>4, Ending
  <2> QED  BY <1>1, <1>2, <2>2, <2>3, <2>5, QuietStep
<1> QED  BY <1>1, <1>3, <1>4, <1>5

\* The verified information is written by the last step.
LEMMA PublishInfoStep ==
    ASSUME ManagedInv, PublishInfo
    PROVE  ManagedInv'
<1> DEFINE g == [Top EXCEPT !.at = @ + 1]
<1>1. /\ Running /\ Step = "publish" /\ UNCHANGED <<active, retained, buffers, out>>
      /\ closed' \in BOOLEAN /\ Advance /\ info' = [info EXCEPT ![Depth] = "own"]
  BY DEF PublishInfo, At, ManagedInv
<1>2. /\ Depth > 0 /\ Runs(Top) /\ Top.steps[Top.at] = "publish"
      /\ CallInv(Top, out[Depth], info[Depth]) /\ Top \in CallType
      /\ Top.phase = "run" /\ Top.outcome = "none" /\ Top.at + 1 \in 1..13
      /\ Top.at \in 1..Len(Top.steps) /\ Formed(Top.steps) /\ Top.adapters \in 0..2
      /\ Len(Top.steps) \in 1..12
  BY <1>1, RunningCall
<1>3. out[Depth] \in Pointers /\ retained \in Int /\ buffers \in Int /\ Depth \in 1..MaxDepth
  BY <1>2, TopCall
<1>4. g \in CallType
  BY <1>2, Zenon DEF CallType
<1>5. /\ g.steps = Top.steps /\ g.at = Top.at + 1 /\ g.phase = Top.phase
      /\ g.adapters = Top.adapters /\ g.owned = Top.owned /\ g.heard = Top.heard
      /\ g.outcome = Top.outcome /\ g.before = Top.before /\ g.inside = Top.inside
  BY <1>2 DEF CallType
<1>6. stack' = [stack EXCEPT ![Depth] = g]
  BY <1>1 DEF Advance, SetTop
<1> HIDE DEF g
<1>7. MovesOn(Top, g)
  BY <1>2, <1>4, <1>5 DEF MovesOn
<1>8. InformedInv(g, "own")
  <2>1. Top.at = Len(Top.steps)
    BY <1>2 DEF Formed
  <2> QED  BY <1>2, <1>5, <2>1 DEF InformedInv
<1>9. CallInv(g, out[Depth], "own")
  BY <1>2, <1>5, <1>7, <1>8, Moves DEF CallInv
<1>10. out' = [out EXCEPT ![Depth] = out[Depth]]
  BY <1>1, <1>3 DEF ManagedInv
<1>11. /\ retained' = retained + (g.adapters - Top.adapters)
       /\ buffers' = buffers + (Holds(g, out[Depth]) - Holds(Top, out[Depth]))
  BY <1>1, <1>2, <1>3, <1>5 DEF Holds
<1>12. "own" \in Infos /\ active' = active /\ g.inside = Top.inside
  BY <1>1, <1>5 DEF Infos
<1> QED  BY <1>1, <1>2, <1>3, <1>6, <1>9, <1>10, <1>11, <1>12, TopStep

\* The buffer goes to the caller, who had none, as the last step.
LEMMA DeliverStep ==
    ASSUME ManagedInv, Deliver
    PROVE  ManagedInv'
<1> DEFINE g == [Top EXCEPT !.at = @ + 1, !.owned = FALSE]
<1>1. /\ Running /\ Step = "deliver" /\ UNCHANGED <<active, retained, buffers, info>>
      /\ closed' \in BOOLEAN /\ SetTop([Top EXCEPT !.at = @ + 1, !.owned = FALSE])
      /\ out' = [out EXCEPT ![Depth] = "own"]
  BY DEF Deliver, At, ManagedInv
<1>2. /\ Depth > 0 /\ Runs(Top) /\ Top.steps[Top.at] = "deliver"
      /\ CallInv(Top, out[Depth], info[Depth]) /\ Top \in CallType
      /\ Top.phase = "run" /\ Top.outcome = "none" /\ Top.at + 1 \in 1..13
      /\ Top.at \in 1..Len(Top.steps) /\ Formed(Top.steps) /\ Top.adapters \in 0..2
      /\ Len(Top.steps) \in 1..12 /\ DOMAIN Top.steps = 1..Len(Top.steps)
  BY <1>1, RunningCall
<1>3. info[Depth] \in Infos /\ retained \in Int /\ buffers \in Int /\ Depth \in 1..MaxDepth
  BY <1>2, TopCall
<1>4. Top.owned /\ out[Depth] = "null"
  <2>1. Delivers(Top.steps)
    BY <1>2 DEF Delivers
  <2>2. Past(Top, "alloc")
    BY <1>2 DEF Formed, Past
  <2> QED  BY <1>2, <2>1, <2>2 DEF CallInv, OwnerInv, Runs
<1>5. g \in CallType
  <2>1. FALSE \in BOOLEAN
    OBVIOUS
  <2> QED  BY <1>2, <2>1, Zenon DEF CallType
<1>6. /\ g.steps = Top.steps /\ g.at = Top.at + 1 /\ g.phase = Top.phase
      /\ g.adapters = Top.adapters /\ g.owned = FALSE /\ g.heard = Top.heard
      /\ g.outcome = Top.outcome /\ g.before = Top.before /\ g.inside = Top.inside
  BY <1>2 DEF CallType
<1>7. stack' = [stack EXCEPT ![Depth] = g]
  BY <1>1, Zenon DEF SetTop
<1> HIDE DEF g
<1>8. MovesOn(Top, g)
  BY <1>2, <1>5, <1>6 DEF MovesOn
<1>9. OwnerInv(g, "own") /\ PointerInv(g, "own")
  <2>1. Top.at = Len(Top.steps)
    BY <1>2 DEF Formed
  <2>2. g.at > Len(g.steps)
    BY <1>2, <1>6, <2>1
  <2>3. Delivers(g.steps)
    BY <1>2, <1>6 DEF Delivers
  <2>4. ~(g.at <= Len(g.steps))
    BY <1>2, <1>6, <2>1
  <2> QED  BY <1>6, <2>2, <2>3, <2>4 DEF OwnerInv, PointerInv
<1>10. CallInv(g, "own", info[Depth])
  BY <1>2, <1>6, <1>8, <1>9, Moves DEF CallInv
<1>11. info' = [info EXCEPT ![Depth] = info[Depth]]
  BY <1>1, <1>3 DEF ManagedInv
<1>12. /\ retained' = retained + (g.adapters - Top.adapters)
       /\ buffers' = buffers + (Holds(g, "own") - Holds(Top, out[Depth]))
  BY <1>1, <1>2, <1>3, <1>4, <1>6 DEF Holds
<1>13. "own" \in Pointers /\ active' = active /\ g.inside = Top.inside
  BY <1>1, <1>6 DEF Pointers
<1> QED  BY <1>1, <1>2, <1>3, <1>7, <1>10, <1>11, <1>12, <1>13, TopStep

\* All steps are done.
LEMMA FinishStep ==
    ASSUME ManagedInv, Finish
    PROVE  ManagedInv'
<1> DEFINE g == [Top EXCEPT !.phase = "unwind", !.outcome = "done"]
<1>1. /\ Depth > 0 /\ Top.phase = "run" /\ Top.at > Len(Top.steps)
      /\ UNCHANGED <<active, retained, buffers, out, info>> /\ closed' \in BOOLEAN
      /\ SetTop([Top EXCEPT !.phase = "unwind", !.outcome = "done"])
  BY DEF Finish, ManagedInv
<1>2. CallInv(Top, out[Depth], info[Depth]) /\ Top \in CallType
  BY <1>1, TopCall
<1>3. Top.adapters \in Int /\ "unwind" \in {"run", "unwind", "release"}
      /\ "done" \in {"none", "not_sent", "rejected", "succeeded", "unknown", "done"}
  BY <1>2, CallFields
<1>4. g \in CallType
  BY <1>2, <1>3, Zenon DEF CallType
<1>5. /\ g.steps = Top.steps /\ g.at = Top.at /\ g.phase = "unwind"
      /\ g.adapters = Top.adapters /\ g.owned = Top.owned /\ g.heard = Top.heard
      /\ g.outcome = "done" /\ g.before = Top.before /\ g.inside = Top.inside
  BY <1>2 DEF CallType
<1>6. stack' = [stack EXCEPT ![Depth] = g]
  BY <1>1, Zenon DEF SetTop
<1> HIDE DEF g
<1>7. EndsAs(Top, g)
  BY <1>1, <1>3, <1>4, <1>5 DEF EndsAs
<1>8. CallInv(g, out[Depth], info[Depth])
  BY <1>2, <1>7, Ending
<1> QED  BY <1>1, <1>5, <1>6, <1>8, QuietStep

\* The way out: the buffer nobody received and the marker,
LEMMA UnwindStep ==
    ASSUME ManagedInv, Unwind
    PROVE  ManagedInv'
<1> DEFINE g == [Top EXCEPT !.phase = "release", !.owned = FALSE, !.inside = FALSE]
<1>1. /\ Depth > 0 /\ Top.phase = "unwind"
      /\ UNCHANGED <<retained, out, info>> /\ closed' \in BOOLEAN
      /\ SetTop([Top EXCEPT !.phase = "release", !.owned = FALSE, !.inside = FALSE])
      /\ buffers' = buffers - (IF Top.owned THEN 1 ELSE 0)
      /\ active' = (active /\ ~Top.inside)
  BY DEF Unwind, Freed, Marker, ManagedInv
<1>2. /\ CallInv(Top, out[Depth], info[Depth]) /\ Top \in CallType
      /\ retained \in Int /\ buffers \in Int
  BY <1>1, TopCall
<1>3. Top.adapters \in Int /\ Top.owned \in BOOLEAN /\ FALSE \in BOOLEAN
      /\ "release" \in {"run", "unwind", "release"}
  BY <1>2, CallFields
<1>4. g \in CallType
  BY <1>2, <1>3, Zenon DEF CallType
<1>5. /\ g.steps = Top.steps /\ g.at = Top.at /\ g.phase = "release"
      /\ g.adapters = Top.adapters /\ g.owned = FALSE /\ g.heard = Top.heard
      /\ g.outcome = Top.outcome /\ g.before = Top.before /\ g.inside = FALSE
  BY <1>2 DEF CallType
<1>6. stack' = [stack EXCEPT ![Depth] = g]
  BY <1>1, Zenon DEF SetTop
<1> HIDE DEF g
<1>7. EndsAs(Top, g)
  BY <1>1, <1>2, <1>3, <1>4, <1>5 DEF EndsAs, CallInv, ShapeInv, HeardInv
<1>8. CallInv(g, out[Depth], info[Depth])
  BY <1>2, <1>7, Ending
<1>9. /\ retained' = retained + (g.adapters - Top.adapters)
      /\ buffers' = buffers + ((IF g.owned THEN 1 ELSE 0) - (IF Top.owned THEN 1 ELSE 0))
  BY <1>1, <1>2, <1>3, <1>5
<1> QED  BY <1>1, <1>5, <1>6, <1>8, <1>9, KeepStep

\* then the adapters.
LEMMA ReleaseStep ==
    ASSUME ManagedInv, Release
    PROVE  ManagedInv'
<1> DEFINE g == [Top EXCEPT !.adapters = @ - 1]
<1>1. /\ Depth > 0 /\ Top.phase = "release" /\ Top.adapters > 0
      /\ UNCHANGED <<active, buffers, out, info>> /\ closed' \in BOOLEAN
      /\ SetTop([Top EXCEPT !.adapters = @ - 1]) /\ retained' = retained - 1
  BY DEF Release, ManagedInv
<1>2. /\ CallInv(Top, out[Depth], info[Depth]) /\ Top \in CallType
      /\ retained \in Int /\ buffers \in Int
  BY <1>1, TopCall
<1>3. Top.adapters \in 0..2 /\ Top.adapters - 1 \in 0..2 /\ Top.adapters \in Int
  <2>1. Top.adapters \in 0..2
    BY <1>2, CallFields
  <2> QED  BY <1>1, <2>1
<1>4. g \in CallType
  BY <1>2, <1>3, Zenon DEF CallType
<1>5. /\ g.steps = Top.steps /\ g.at = Top.at /\ g.phase = Top.phase
      /\ g.adapters = Top.adapters - 1 /\ g.owned = Top.owned /\ g.heard = Top.heard
      /\ g.outcome = Top.outcome /\ g.before = Top.before /\ g.inside = Top.inside
  BY <1>2 DEF CallType
<1>6. stack' = [stack EXCEPT ![Depth] = g]
  BY <1>1, Zenon DEF SetTop
<1> HIDE DEF g
<1>7. EndsAs(Top, g)
  BY <1>1, <1>2, <1>3, <1>4, <1>5 DEF EndsAs, CallInv, ShapeInv, HeardInv
<1>8. CallInv(g, out[Depth], info[Depth])
  BY <1>2, <1>7, Ending
<1>9. /\ retained' = retained + (g.adapters - Top.adapters)
      /\ buffers' = buffers + ((IF g.owned THEN 1 ELSE 0) - (IF Top.owned THEN 1 ELSE 0))
  BY <1>1, <1>2, <1>3, <1>5
<1> QED  BY <1>1, <1>5, <1>6, <1>8, <1>9, KeepStep

\* A call is made, by the host or from inside a callback.
LEMMA CallStep ==
    ASSUME ManagedInv, Depth < MaxDepth, NEW steps \in Entries, Call(steps)
    PROVE  ManagedInv'
<1>1. PICK bad \in 0..Len(steps) :
         /\ stack' = Append(stack, NewCall(steps, bad))
         /\ out' = [out EXCEPT ![Depth + 1] = Held(Depth + 1)]
         /\ UNCHANGED <<closed, active, retained, buffers, info>>
  BY DEF Call
<1> DEFINE c == NewCall(steps, bad)  h == Held(Depth + 1)
<1>2. Depth \in Nat /\ MaxDepth \in Nat /\ Depth + 1 \in 1..MaxDepth
  BY ConstantsAssumption DEF ManagedInv, Depth
<1>3. h \in {"null", "old"} /\ h \in Pointers /\ (h = "null" <=> out[Depth + 1] = "null")
  BY DEF Held, Pointers
<1>4. Formed(steps) /\ Len(steps) \in 1..12 /\ bad \in 0..12
  <2>1. Formed(steps)
    BY EntriesAreFormed
  <2>2. PICK n \in 1..12 : n = Len(steps)
    BY <2>1 DEF Formed
  <2>3. bad \in 0..12
    BY <2>2
  <2> QED  BY <2>1, <2>2, <2>3
<1>5. c \in CallType
  <2>1. /\ 1 \in 1..13 /\ "run" \in {"run", "unwind", "release"} /\ FALSE \in BOOLEAN
        /\ 0 \in 0..2
        /\ "none" \in {"none", "not_sent", "rejected", "succeeded", "unknown", "done"}
    OBVIOUS
  <2> HIDE DEF h
  <2> QED  BY <1>3, <1>4, <2>1, Zenon DEF CallType, NewCall, h
<1>6. /\ c.steps = steps /\ c.at = 1 /\ c.phase = "run" /\ c.inside = FALSE
      /\ c.adapters = 0 /\ c.owned = FALSE /\ c.heard = FALSE /\ c.outcome = "none"
      /\ c.before = h
  BY DEF NewCall
<1>7. info[Depth + 1] = "old"
  BY <1>2 DEF ManagedInv
<1> HIDE DEF c, h
<1>8. CallInv(c, h, info[Depth + 1])
  <2>0. ~(c.at > Len(c.steps)) /\ c.at <= Len(c.steps) + 1
    <3>1. Len(c.steps) \in 1..12 /\ c.at = 1
      BY <1>4, <1>6
    <3>2. \A n \in 1..12 : ~(1 > n) /\ 1 <= n + 1
      OBVIOUS
    <3> QED  BY <3>1, <3>2, Zenon
  <2>1. ShapeInv(c) /\ HeardInv(c) /\ PointerInv(c, h) /\ InformedInv(c, info[Depth + 1])
    BY <1>5, <1>6, <1>7, <2>0, Zenon DEF ShapeInv, HeardInv, PointerInv, InformedInv
  <2>2. OwnerInv(c, h) /\ AdapterInv(c)
    BY <1>6 DEF OwnerInv, AdapterInv, Past
  <2> QED  BY <2>1, <2>2 DEF CallInv
<1>9. /\ stack' \in Seq(CallType) /\ Depth' = Depth + 1
      /\ \A d \in 1..(Depth + 1) : stack'[d] = IF d = Depth + 1 THEN c ELSE stack[d]
  BY <1>1, <1>2, <1>5 DEF ManagedInv, Depth, c
<1>10. /\ out' \in [1..MaxDepth -> Pointers]
       /\ \A d \in 1..MaxDepth : out'[d] = IF d = Depth + 1 THEN h ELSE out[d]
  BY <1>1, <1>2, <1>3 DEF ManagedInv, h
<1>11. \A d \in 1..Depth' : CallInv(stack'[d], out'[d], info'[d])
  <2> SUFFICES ASSUME NEW d \in 1..(Depth + 1) PROVE CallInv(stack'[d], out'[d], info'[d])
    BY <1>9
  <2>1. CASE d = Depth + 1
    BY <1>1, <1>2, <1>8, <1>9, <1>10, <2>1
  <2>2. CASE d # Depth + 1
    <3>1. d \in 1..Depth /\ d \in 1..MaxDepth
      BY <1>2, <2>2
    <3>2. stack'[d] = stack[d] /\ out'[d] = out[d] /\ info'[d] = info[d]
      BY <1>1, <1>9, <1>10, <2>2, <3>1
    <3> QED  BY <3>1, <3>2 DEF ManagedInv
  <2> QED  BY <2>1, <2>2
<1>12. active' = (\E d \in 1..Depth' : stack'[d].inside) /\ ReentryStaysOut'
  <2>1. active <=> \E d \in 1..Depth : stack[d].inside
    BY DEF ManagedInv
  <2>2. \A d, e \in 1..Depth : stack[d].inside /\ stack[e].inside => d = e
    BY DEF ManagedInv, ReentryStaysOut
  <2>3. active \in BOOLEAN /\ active' = active
    BY <1>1 DEF ManagedInv
  <2>4. (active <=> \E d \in 1..(Depth + 1) : stack'[d].inside)
        /\ \A d, e \in 1..(Depth + 1) : stack'[d].inside /\ stack'[e].inside => d = e
    BY <1>2, <1>6, <1>9, <2>1, <2>2
  <2> QED  BY <1>9, <2>3, <2>4, Zenon DEF ReentryStaysOut
<1>13. retained' = Total(Depth', [d \in 1..Depth' |-> stack'[d].adapters])
  <2> DEFINE a == [e \in 1..Depth |-> stack[e].adapters]
             b == [e \in 1..(Depth + 1) |-> stack'[e].adapters]
  <2>1. retained = Total(Depth, a)
    BY Zenon DEF ManagedInv, NothingLeaks
  <2>2. \A e \in 1..Depth : a[e] \in Int /\ b[e] = a[e]
    BY <1>2, <1>9, CallFields DEF ManagedInv, Depth
  <2>3. b[Depth + 1] = 0
    BY <1>2, <1>6, <1>9
  <2> HIDE DEF a, b
  <2>4. Total(Depth + 1, b) = Total(Depth, a) + b[Depth + 1] /\ Total(Depth, a) \in Int
    BY <1>2, <2>2, TotalExtends
  <2>5. retained' = Total(Depth + 1, b)
    BY <1>1, <2>1, <2>3, <2>4
  <2> QED  BY <1>9, <2>5 DEF b
<1>14. buffers' = Total(MaxDepth, [d \in 1..MaxDepth |-> BuffersAt(d)'])
  <2>1. \A e \in 1..MaxDepth : BuffersAt(e)' = BuffersAt(e)
    BY <1>2, <1>3, <1>6, <1>9, <1>10 DEF BuffersAt
  <2>2. buffers = Total(MaxDepth, [e \in 1..MaxDepth |-> BuffersAt(e)])
    BY Zenon DEF ManagedInv, NothingLeaks
  <2>3. [e \in 1..MaxDepth |-> BuffersAt(e)'] = [e \in 1..MaxDepth |-> BuffersAt(e)]
    BY <2>1
  <2> QED  BY <1>1, <2>2, <2>3
<1>15. NothingLeaks'
  BY <1>13, <1>14, Zenon DEF NothingLeaks
<1>16. /\ Depth' <= MaxDepth /\ closed' \in BOOLEAN /\ info' \in [1..MaxDepth -> Infos]
       /\ \A d \in 1..MaxDepth : d > Depth' => info'[d] = "old"
  BY <1>1, <1>2, <1>9 DEF ManagedInv
<1> QED
  BY <1>9, <1>10, <1>11, <1>12, <1>15, <1>16 DEF ManagedInv

\* A call returns, and the variables of a nested caller end with it.
LEMMA ReturnsStep ==
    ASSUME ManagedInv, Return
    PROVE  ManagedInv'
<1>1. /\ Depth > 0 /\ Top.phase = "release" /\ Top.adapters = 0
      /\ stack' = SubSeq(stack, 1, Depth - 1) /\ info' = [info EXCEPT ![Depth] = "old"]
      /\ UNCHANGED <<closed, active, retained>>
      /\ IF Depth > 1
           THEN /\ buffers' = IF out[Depth] = "null" THEN buffers ELSE buffers - 1
                /\ out' = [out EXCEPT ![Depth] = "null"]
           ELSE UNCHANGED <<buffers, out>>
  BY DEF Return, Returning
<1>2. /\ Depth \in Nat /\ Depth \in 1..MaxDepth /\ Depth \in 1..Depth /\ Top = stack[Depth]
      /\ CallInv(Top, out[Depth], info[Depth]) /\ Top \in CallType /\ MaxDepth \in Nat
      /\ buffers \in Int /\ retained \in Int
  BY <1>1, TopCall
<1>3. ~Top.owned /\ ~Top.inside
  BY <1>1, <1>2 DEF CallInv, ShapeInv
<1>4. PICK n \in Nat : n = Depth - 1
  BY <1>1, <1>2
<1>5. /\ stack' \in Seq(CallType) /\ Depth' = n
      /\ \A d \in 1..n : stack'[d] = stack[d]
  BY <1>1, <1>2, <1>4 DEF ManagedInv, Depth
<1>6. /\ info' \in [1..MaxDepth -> Infos]
      /\ \A d \in 1..MaxDepth : info'[d] = IF d = Depth THEN "old" ELSE info[d]
  BY <1>1, <1>2 DEF ManagedInv, Infos
<1>7. out' \in [1..MaxDepth -> Pointers] /\ \A d \in 1..MaxDepth : d # Depth => out'[d] = out[d]
  BY <1>1, <1>2 DEF ManagedInv, Pointers
<1>8. \A d \in 1..Depth' : CallInv(stack'[d], out'[d], info'[d])
  <2> SUFFICES ASSUME NEW d \in 1..n PROVE CallInv(stack'[d], out'[d], info'[d])
    BY <1>5
  <2>1. d \in 1..Depth /\ d \in 1..MaxDepth /\ d # Depth
    BY <1>2, <1>4
  <2>2. stack'[d] = stack[d] /\ out'[d] = out[d] /\ info'[d] = info[d]
    BY <1>5, <1>6, <1>7, <2>1
  <2> QED  BY <2>1, <2>2 DEF ManagedInv
<1>9. \A d \in 1..MaxDepth : d > Depth' => info'[d] = "old"
  BY <1>2, <1>4, <1>5, <1>6 DEF ManagedInv
<1>10. active' = (\E d \in 1..Depth' : stack'[d].inside) /\ ReentryStaysOut'
  <2>1. active <=> \E d \in 1..Depth : stack[d].inside
    BY DEF ManagedInv
  <2>2. \A d, e \in 1..Depth : stack[d].inside /\ stack[e].inside => d = e
    BY DEF ManagedInv, ReentryStaysOut
  <2>3. active \in BOOLEAN /\ active' = active
    BY <1>1 DEF ManagedInv
  <2>4. (active <=> \E d \in 1..n : stack'[d].inside)
        /\ \A d, e \in 1..n : stack'[d].inside /\ stack'[e].inside => d = e
    BY <1>2, <1>3, <1>4, <1>5, <2>1, <2>2
  <2> QED  BY <1>5, <2>3, <2>4, Zenon DEF ReentryStaysOut
<1>11. retained' = Total(Depth', [d \in 1..Depth' |-> stack'[d].adapters])
  <2> DEFINE a == [e \in 1..n |-> stack'[e].adapters]
             b == [e \in 1..Depth |-> stack[e].adapters]
  <2>1. retained = Total(Depth, b)
    BY Zenon DEF ManagedInv, NothingLeaks
  <2>2. \A e \in 1..n : a[e] \in Int /\ b[e] = a[e]
    BY <1>2, <1>4, <1>5, CallFields DEF ManagedInv, Depth
  <2>3. b[n + 1] = 0 /\ Depth = n + 1
    BY <1>1, <1>2, <1>4
  <2> HIDE DEF a, b
  <2>4. Total(n + 1, b) = Total(n, a) + b[n + 1] /\ Total(n, a) \in Int
    BY <2>2, TotalExtends
  <2>5. retained' = Total(n, a)
    BY <1>1, <2>1, <2>3, <2>4
  <2> QED  BY <1>5, <2>5 DEF a
<1>12. buffers' = Total(MaxDepth, [d \in 1..MaxDepth |-> BuffersAt(d)'])
  <2>1. buffers = Total(MaxDepth, [e \in 1..MaxDepth |-> BuffersAt(e)])
    BY Zenon DEF ManagedInv, NothingLeaks
  <2>2. PICK k \in 1..MaxDepth : k = Depth
    BY <1>2
  <2>3. \A e \in 1..MaxDepth : e # k => BuffersAt(e)' = BuffersAt(e)
    BY <1>2, <1>4, <1>5, <1>7, <2>2 DEF BuffersAt
  <2>4. /\ BuffersAt(k) = IF out[k] = "null" THEN 0 ELSE 1
        /\ BuffersAt(k)' = IF out'[k] = "null" THEN 0 ELSE 1
    BY <1>2, <1>3, <1>4, <1>5, <2>2 DEF BuffersAt
  <2>5. PICK delta \in Int : delta = buffers' - buffers
    BY <1>1, <1>2
  <2>6. BuffersAt(k)' = BuffersAt(k) + delta
    <3>1. CASE Depth > 1
      <4>1. out'[k] = "null"
        BY <1>1, <2>2, <3>1 DEF ManagedInv
      <4> QED  BY <1>1, <1>2, <2>2, <2>4, <2>5, <3>1, <4>1
    <3>2. CASE ~(Depth > 1)
      BY <1>1, <1>2, <2>4, <2>5, <3>2
    <3> QED  BY <3>1, <3>2
  <2>7. Total(MaxDepth, [e \in 1..MaxDepth |-> BuffersAt(e)'])
          = Total(MaxDepth, [e \in 1..MaxDepth |-> BuffersAt(e)]) + delta
    BY <2>3, <2>6, BuffersMove, Zenon
  <2>8. buffers' = buffers + delta
    BY <1>1, <1>2, <2>5
  <2> QED  BY <2>1, <2>7, <2>8
<1>13. NothingLeaks'
  BY <1>11, <1>12, Zenon DEF NothingLeaks
<1>14. Depth' <= MaxDepth /\ closed' \in BOOLEAN
  BY <1>1, <1>2, <1>4, <1>5 DEF ManagedInv
<1> QED
  BY <1>5, <1>6, <1>7, <1>8, <1>9, <1>10, <1>13, <1>14 DEF ManagedInv

\* The host gives its buffer back.
LEMMA FreeBufferStep ==
    ASSUME ManagedInv, FreeBuffer
    PROVE  ManagedInv'
<1>1. /\ Depth = 0 /\ out[1] # "null" /\ out' = [out EXCEPT ![1] = "null"]
      /\ buffers' = buffers - 1 /\ UNCHANGED <<stack, closed, active, retained, info>>
  BY DEF FreeBuffer
<1>2. MaxDepth \in Nat /\ 1 \in 1..MaxDepth /\ Depth' = 0
  BY <1>1, ConstantsAssumption DEF Depth
<1>3. /\ out' \in [1..MaxDepth -> Pointers] /\ out'[1] = "null"
      /\ \A d \in 1..MaxDepth : d # 1 => out'[d] = out[d]
  BY <1>1, <1>2 DEF ManagedInv, Pointers
<1>4. buffers \in Int
  <2> DEFINE a == [d \in 1..MaxDepth |-> BuffersAt(d)]
  <2>1. \A d \in 1..MaxDepth : a[d] \in Nat
    BY DEF BuffersAt
  <2>2. buffers = Total(MaxDepth, a)
    BY Zenon DEF ManagedInv, NothingLeaks
  <2> HIDE DEF a
  <2> QED  BY <1>2, <2>1, <2>2, TotalIsNat
<1>5. buffers' = Total(MaxDepth, [d \in 1..MaxDepth |-> BuffersAt(d)'])
  <2>1. buffers = Total(MaxDepth, [e \in 1..MaxDepth |-> BuffersAt(e)])
    BY Zenon DEF ManagedInv, NothingLeaks
  <2>2. \A e \in 1..MaxDepth : e # 1 => BuffersAt(e)' = BuffersAt(e)
    BY <1>1, <1>2, <1>3 DEF BuffersAt
  <2>3. BuffersAt(1)' = BuffersAt(1) + (-1)
    BY <1>1, <1>2, <1>3 DEF BuffersAt
  <2>4. Total(MaxDepth, [e \in 1..MaxDepth |-> BuffersAt(e)'])
          = Total(MaxDepth, [e \in 1..MaxDepth |-> BuffersAt(e)]) + (-1)
    <3>1. -1 \in Int
      OBVIOUS
    <3> QED  BY <1>2, <2>2, <2>3, <3>1, BuffersMove, Zenon
  <2>5. buffers' = buffers + (-1)
    BY <1>1, <1>4
  <2> QED  BY <2>1, <2>4, <2>5, Zenon
<1>6. retained' = Total(Depth', [d \in 1..Depth' |-> stack'[d].adapters])
  <2>1. retained = Total(Depth, [d \in 1..Depth |-> stack[d].adapters])
    BY Zenon DEF ManagedInv, NothingLeaks
  <2> QED  BY <1>1, <1>2, <2>1
<1>7. NothingLeaks'
  BY <1>5, <1>6, Zenon DEF NothingLeaks
<1>8. active' = (\E d \in 1..Depth' : stack'[d].inside) /\ ReentryStaysOut'
  BY <1>1, <1>2 DEF ManagedInv, ReentryStaysOut
<1> QED  BY <1>1, <1>2, <1>3, <1>7, <1>8 DEF ManagedInv

\* A step that leaves the calls alone, whatever it does to the handle they
\* share, keeps the invariant of the managed layer.
LEMMA ManagedStutters ==
    ASSUME ManagedInv, stack' = stack, active' = active, retained' = retained,
           buffers' = buffers, out' = out, info' = info, closed' \in BOOLEAN
    PROVE  ManagedInv'
<1>1. Depth' = Depth
  BY DEF Depth
<1>2. ReentryStaysOut' /\ active' = (\E d \in 1..Depth' : stack'[d].inside)
  BY <1>1 DEF ManagedInv, ReentryStaysOut
<1>3. \A e \in 1..MaxDepth : BuffersAt(e)' = BuffersAt(e)
  BY <1>1 DEF BuffersAt
<1>4. NothingLeaks'
  <2>1. [e \in 1..MaxDepth |-> BuffersAt(e)'] = [e \in 1..MaxDepth |-> BuffersAt(e)]
    BY <1>3
  <2>2. buffers' = Total(MaxDepth, [e \in 1..MaxDepth |-> BuffersAt(e)'])
    BY <2>1, Zenon DEF ManagedInv, NothingLeaks
  <2>3. retained' = Total(Depth', [d \in 1..Depth' |-> stack'[d].adapters])
    BY <1>1, Zenon DEF ManagedInv, NothingLeaks
  <2> QED  BY <2>2, <2>3, Zenon DEF NothingLeaks
<1> QED  BY <1>1, <1>2, <1>4 DEF ManagedInv

\* Nothing is under way at first.
LEMMA InitManaged == Init => ManagedInv
<1> SUFFICES ASSUME Init PROVE ManagedInv
  OBVIOUS
<1>1. /\ stack = <<>> /\ closed = FALSE /\ active = FALSE /\ retained = 0 /\ buffers = 0
      /\ out = [d \in 1..MaxDepth |-> "null"] /\ info = [d \in 1..MaxDepth |-> "old"]
  BY DEF Init
<1>2. Depth = 0 /\ MaxDepth \in Nat /\ stack \in Seq(CallType) /\ Depth <= MaxDepth
  BY <1>1, ConstantsAssumption DEF Depth
<1>3. NothingLeaks
  <2> DEFINE a == [d \in 1..Depth |-> stack[d].adapters]
             b == [d \in 1..MaxDepth |-> BuffersAt(d)]
  <2>1. \A d \in 1..Depth : a[d] = 0
    BY <1>2
  <2>2. \A d \in 1..MaxDepth : b[d] = 0
    BY <1>1, <1>2 DEF BuffersAt
  <2>3. Depth \in Nat
    BY <1>2
  <2> HIDE DEF a, b
  <2>4. Total(Depth, a) = 0 /\ Total(MaxDepth, b) = 0
    BY <1>2, <2>1, <2>2, <2>3, TotalIsZero
  <2> QED  BY <1>1, <2>4, Zenon DEF NothingLeaks, a, b
<1>4. 1..Depth = {}
  BY <1>2
<1>5. out \in [1..MaxDepth -> Pointers] /\ info \in [1..MaxDepth -> Infos]
  BY <1>1 DEF Pointers, Infos
<1>6. /\ active = (\E d \in 1..Depth : stack[d].inside) /\ ReentryStaysOut
      /\ \A d \in 1..Depth : CallInv(stack[d], out[d], info[d])
  BY <1>1, <1>4, Zenon DEF ReentryStaysOut
<1>7. (\A d \in 1..MaxDepth : d > Depth => info[d] = "old") /\ closed \in BOOLEAN
  BY <1>1
<1> QED  BY <1>2, <1>3, <1>5, <1>6, <1>7, Zenon DEF ManagedInv

\* Every step of the managed entry points keeps the invariant.
LEMMA ManagedInductive ==
    ASSUME ManagedInv, Next
    PROVE  ManagedInv'
<1>1. CASE HostCalls
  <2>1. Depth < MaxDepth
    BY <1>1, ConstantsAssumption DEF HostCalls
  <2> QED  BY <1>1, <2>1, CallStep DEF HostCalls
<1>2. CASE CallbackCalls
  BY <1>2, CallStep, ConstantsAssumption DEF CallbackCalls
<1>3. CASE FreeBuffer
  BY <1>3, FreeBufferStep
<1>4. CASE Reopen
  BY <1>4, ManagedStutters DEF Reopen
<1>5. CASE Check \/ Resolve \/ Local \/ Lookup \/ Close
  BY <1>5, PlainSteps
<1>6. CASE CheckInfo \/ CreateAdapter \/ Enter \/ Guard \/ Allocate \/ CardOperation
  BY <1>6, CheckInfoStep, CreateAdapterStep, EnterStep, AllocateStep, CardStep
<1>7. CASE PublishInfo \/ Deliver \/ Throws \/ Finish \/ Unwind \/ Release \/ Return
  BY <1>7, PublishInfoStep, DeliverStep, ThrowsStep, FinishStep, UnwindStep, ReleaseStep,
     ReturnsStep
<1> QED  BY <1>1, <1>2, <1>3, <1>4, <1>5, <1>6, <1>7 DEF Next

\* Whatever steps the API takes, the managed entry points keep the invariant.
LEMMA ManagedInvariant == ApiSpec => [](family = "managed" => ManagedInv)
<1> DEFINE I == family = "managed" => ManagedInv
<1>1. ApiInit => I
  BY InitManaged DEF ApiInit, RawInit, ManagedInit
<1>2. I /\ [ApiNext]_<<family, closed, managedOnly, rawOnly>> => I'
  <2> SUFFICES ASSUME I, [ApiNext]_<<family, closed, managedOnly, rawOnly>>,
                      family' = "managed"
               PROVE  ManagedInv'
    OBVIOUS
  <2>1. CASE RawNext
    BY <2>1 DEF RawNext
  <2>2. CASE ManagedNext
    BY <2>2, ManagedInductive DEF ManagedNext
  <2>3. CASE UNCHANGED <<family, closed, managedOnly, rawOnly>>
    <3>1. /\ family = "managed" /\ stack' = stack /\ active' = active /\ retained' = retained
          /\ buffers' = buffers /\ out' = out /\ info' = info /\ closed' = closed
      BY <2>3 DEF managedOnly
    <3>2. closed' \in BOOLEAN
      BY <3>1 DEF ManagedInv
    <3> QED  BY <3>1, <3>2, ManagedStutters
  <2> QED  BY <2>1, <2>2, <2>3 DEF ApiNext
<1> QED  BY <1>1, <1>2, PTL DEF ApiSpec

-----------------------------------------------------------------------------
(***************************************************************************)
(* What the API promises.                                                  *)
(***************************************************************************)
\* A managed state has its types; the two counts are naturals as sums of naturals.
LEMMA ManagedTypes ==
    ASSUME ManagedInv
    PROVE  TypeOK
<1>1. Depth \in Nat /\ MaxDepth \in Nat
  BY ConstantsAssumption DEF ManagedInv, Depth
<1>2. \A d \in 1..Depth : stack[d] \in CallType /\ stack[d].adapters \in Nat
  BY <1>1, CallFields DEF ManagedInv, Depth
<1>3. retained \in Nat
  <2> DEFINE a == [d \in 1..Depth |-> stack[d].adapters]
  <2>1. \A d \in 1..Depth : a[d] \in Nat
    BY <1>2
  <2>2. retained = Total(Depth, a)
    BY Zenon DEF ManagedInv, NothingLeaks
  <2> HIDE DEF a
  <2> QED  BY <1>1, <2>1, <2>2, TotalIsNat
<1>4. buffers \in Nat
  <2> DEFINE a == [d \in 1..MaxDepth |-> BuffersAt(d)]
  <2>1. \A d \in 1..MaxDepth : a[d] \in Nat
    BY DEF BuffersAt
  <2>2. buffers = Total(MaxDepth, a)
    BY Zenon DEF ManagedInv, NothingLeaks
  <2> HIDE DEF a
  <2> QED  BY <1>1, <2>1, <2>2, TotalIsNat
<1> QED  BY <1>2, <1>3, <1>4, Zenon DEF ManagedInv, TypeOK, Pointers, Infos

\* The state has the shape the code gives it, and the marker of an entry is set
\* exactly while one call is inside its lock (ActiveEntry).
THEOREM TypeCorrect == ApiSpec => []ApiTypeOK
<1>1. (family = "raw" => RawInv) /\ (family = "managed" => ManagedInv) => ApiTypeOK
  BY RawTypes, ManagedTypes DEF ApiTypeOK, RawInv
<1> QED  BY <1>1, RawHandleInvariant, ManagedInvariant, PTL

\* not_sent is said only of a call of which no card heard anything, in every
\* entry point of the ABI.
THEOREM NotSentMeansUnheard == ApiSpec => []ApiNotSentUnheard
<1>1. ManagedInv => NotSentUnheard
  <2> SUFFICES ASSUME ManagedInv, Returning, Top.outcome = "not_sent" PROVE ~Top.heard
    BY DEF NotSentUnheard
  <2>1. CallInv(Top, out[Depth], info[Depth])
    BY TopCall DEF Returning
  <2> QED  BY <2>1 DEF CallInv, HeardInv
<1>2. (family = "raw" => RawInv) /\ (family = "managed" => ManagedInv) => ApiNotSentUnheard
  BY <1>1 DEF ApiNotSentUnheard, RawInv, HandleInv
<1> QED  BY <1>2, RawHandleInvariant, ManagedInvariant, PTL

\* Every retain of a provider and every df_buffer is owned once, through
\* refusals, exceptions and failures at any step of any entry point, and a
\* callback that calls the ABI again stays outside the lock.
THEOREM NothingIsLeaked == ApiSpec => []ApiNothingLeaks
<1>1. (family = "managed" => ManagedInv) => ApiNothingLeaks
  BY DEF ApiNothingLeaks, ManagedInv
<1> QED  BY <1>1, ManagedInvariant, PTL

\* The caller's buffer pointer and authentication information are those of a
\* call that succeeded, untouched or cleared after one that failed.
THEOREM OutputsAreOwn == ApiSpec => []ApiOutputsAreOwn
<1>1. ManagedInv => OutputFollowsResult /\ InfoIsOwn
  <2> SUFFICES ASSUME ManagedInv, Returning PROVE OutputFollowsResult /\ InfoIsOwn
    BY DEF OutputFollowsResult, InfoIsOwn
  <2>1. CallInv(Top, out[Depth], info[Depth]) /\ Top \in CallType /\ Top.phase = "release"
    BY TopCall DEF Returning
  <2>2. Top.outcome = "done" <=> Top.at > Len(Top.steps)
    BY <2>1 DEF CallInv, ShapeInv
  <2>3. Top.at = 1 => ~(Top.at > Len(Top.steps))
    <3>1. Len(Top.steps) \in 1..12
      BY <2>1, CallFields
    <3>2. \A n \in 1..12 : ~(1 > n)
      OBVIOUS
    <3> QED  BY <3>1, <3>2
  <2>4. OutputFollowsResult
    BY <2>1, <2>2, Zenon DEF CallInv, PointerInv, Delivers, OutputFollowsResult
  <2>5. Top.steps[1] = "info" =>
          info[Depth] = IF Top.at = 1 THEN "old"
                        ELSE IF Top.at > Len(Top.steps) THEN "own" ELSE "zero"
    BY <2>1 DEF CallInv, InformedInv
  <2>6. InfoIsOwn
    BY <2>2, <2>3, <2>5 DEF InfoIsOwn
  <2> QED  BY <2>4, <2>6
<1>2. (family = "managed" => ManagedInv) => ApiOutputsAreOwn
  BY <1>1 DEF ApiOutputsAreOwn
<1> QED  BY <1>2, ManagedInvariant, PTL
=============================================================================
