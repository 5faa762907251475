------------------------ MODULE NativeChannel_proofs ------------------------
(***************************************************************************)
(* Proofs about NativeChannel: one inductive invariant, IInv, from which   *)
(* every safety property of the module follows, for any number of callers, *)
(* any requests, any transport capacities and any bounds.                  *)
(***************************************************************************)
EXTENDS NativeChannel, TLAPS

-----------------------------------------------------------------------------
(***************************************************************************)
(* The inductive invariant.                                                *)
(***************************************************************************)
Inside(c) == pc[c] \in {"admitted", "frame", "transport", "response", "resetting"}

\* The mutex, the activity flag and the control points agree.
LockInv ==
    /\ \A c \in Callers : Inside(c) <=> lockOwner = c
    /\ operationActive <=> lockOwner # None
    /\ reentered => /\ lockOwner \in Callers
                    /\ pc[lockOwner] \in {"transport", "resetting"}

\* The transaction's counters are what the card heard and answered.
Counted(c, frames, bytes, replied) ==
    /\ heard[c].frames = frames
    /\ heard[c].bytes = bytes
    /\ heard[c].replied = replied

\* Unless the card changed, the chain is whole and the card waits for more.
Steady(c, waiting) ==
    generation = tx.generation =>
        heard[c].intact /\ (waiting => chain = c)

\* A transaction between two frames.
Between(c) ==
    /\ Counted(c, tx.frameIndex, tx.uploaded, tx.assembled)
    /\ tx.generation <= generation
    /\ tx.sentAny <=> tx.frameIndex > 0
    /\ tx.frameIndex = 0 => tx.uploaded = 0 /\ tx.assembled = 0
    /\ tx.frameIndex < MaxChainFrames
    /\ request[c].kind = "chained" =>
          /\ Carriable(request[c])
          /\ tx.uploaded <= request[c].data
          /\ tx.assembled <= request[c].limit

Admitted(c) ==
    pc[c] = "admitted" =>
        /\ heard[c] = Unheard
        /\ tx = NewTx(tx.generation)
        /\ tx.generation <= generation

AtFrame(c) ==
    pc[c] = "frame" =>
        /\ Between(c)
        /\ Steady(c, heard[c].frames > 0)
        /\ heard[c].late <= 1
        /\ heard[c].late > 0 => Cancelled(c)

\* The frame in the transport's hands is the next one of the chain.
NextFrame(c) ==
    /\ frame.from = tx.uploaded
    /\ frame.command = (IF tx.frameIndex = 0 THEN "command" ELSE "continue")
    /\ request[c].kind = "chained" => tx.uploaded + frame.size <= request[c].data

Undelivered(c) ==
    pc[c] = "transport" /\ ~frame.delivered =>
        /\ Between(c)
        /\ NextFrame(c)
        /\ Steady(c, heard[c].frames > 0)
        /\ heard[c].late = 0

\* The card heard one frame more than the transaction counted.
After(c, replied) ==
    /\ Counted(c, tx.frameIndex + 1, tx.uploaded + frame.size, replied)
    /\ tx.generation <= generation
    /\ tx.sentAny <=> tx.frameIndex > 0
    /\ tx.frameIndex < MaxChainFrames
    /\ heard[c].late <= 1
    /\ heard[c].late > 0 => Cancelled(c)
    /\ request[c].kind = "chained" =>
          /\ Carriable(request[c])
          /\ tx.uploaded + frame.size <= request[c].data
          /\ tx.assembled <= request[c].limit

Delivered(c) ==
    pc[c] = "transport" /\ frame.delivered =>
        After(c, tx.assembled) /\ Steady(c, TRUE)

Responded(c) ==
    pc[c] = "response" =>
        /\ After(c, IF wire.garbled THEN tx.assembled
                    ELSE tx.assembled + wire.size)
        /\ Steady(c, wire.status = "additional_frame")

Returned(c) ==
    pc[c] = "returned" =>
        /\ result[c].outcome = "not_sent" => heard[c].frames = 0
        /\ heard[c].late <= 1
        /\ heard[c].frames <= MaxChainFrames
        /\ result[c].code = "ok" /\ heard[c].frames > 0 =>
            /\ heard[c].intact
            /\ result[c].size = heard[c].replied
            /\ request[c].kind = "chained" =>
                  /\ heard[c].bytes = request[c].data
                  /\ result[c].size <= request[c].limit

NotStarted(c) ==
    pc[c] \in {"idle", "locking", "reset_locking", "resetting"} =>
        heard[c] = Unheard

NoResultYet(c) == pc[c] # "returned" => result[c] = NoResult

OneOp(c) ==
    /\ NotStarted(c) /\ Admitted(c) /\ AtFrame(c) /\ Undelivered(c)
    /\ Delivered(c) /\ Responded(c) /\ Returned(c) /\ NoResultYet(c)

OpInv == \A c \in Callers : OneOp(c)

IInv == TypeOK /\ LockInv /\ OpInv

-----------------------------------------------------------------------------
(***************************************************************************)
(* Lemmas.                                                                 *)
(***************************************************************************)

\* The records the actions build have their types.
LEMMA NewTxType == \A g \in 0..MaxGeneration : NewTx(g) \in TxType
<1> SUFFICES ASSUME NEW g \in 0..MaxGeneration PROVE NewTx(g) \in TxType
  OBVIOUS
<1>1. 0 \in Nat
  OBVIOUS
<1> QED BY <1>1, Zenon DEF NewTx, TxType

LEMMA InitialRecords ==
    /\ NoFrame \in FrameType /\ NoWire \in WireType
    /\ NoResult \in ResultType /\ Unheard \in HeardType
<1>1. 0 \in Nat
  OBVIOUS
<1>2. NoFrame \in FrameType
  BY <1>1, Zenon DEF NoFrame, FrameType
<1>3. NoWire \in WireType
  BY <1>1, Zenon DEF NoWire, WireType, Status
<1>4. NoResult \in ResultType
  BY <1>1, Zenon DEF NoResult, ResultType, Codes, Outcomes
<1>5. Unheard \in HeardType
  BY <1>1, Zenon DEF Unheard, HeardType
<1> QED BY <1>2, <1>3, <1>4, <1>5

LEMMA ErrorType ==
    \A code \in Codes, outcome \in Outcomes : Error(code, outcome) \in ResultType
BY DEF Error, ResultType

\* A caller outside the mutex is untouched by a step that changes neither its
\* control point nor its records, whatever it does to the transaction.
LEMMA OutsideUntouched ==
    ASSUME NEW d \in Callers, OneOp(d), ~Inside(d),
           pc'[d] = pc[d], heard'[d] = heard[d], result'[d] = result[d],
           request' = request
    PROVE  OneOp(d)'
<1> USE DEF Inside, OneOp
<1>1. NotStarted(d)' /\ Returned(d)' /\ NoResultYet(d)'
  BY DEF NotStarted, Returned, NoResultYet
<1>2. Admitted(d)' /\ AtFrame(d)'
  BY DEF Admitted, AtFrame
<1>3. Undelivered(d)' /\ Delivered(d)' /\ Responded(d)'
  BY DEF Undelivered, Delivered, Responded
<1> QED BY <1>1, <1>2, <1>3

\* A caller whose own state and whose transaction are unchanged keeps its part
\* of the invariant; its deadline and stop token may only fire.
LEMMA StateUntouched ==
    ASSUME NEW d \in Callers, OneOp(d),
           pc'[d] = pc[d], heard'[d] = heard[d], result'[d] = result[d],
           request' = request, tx' = tx, frame' = frame, wire' = wire,
           chain' = chain, generation' = generation,
           expired[d] => expired'[d], stopped[d] => stopped'[d]
    PROVE  OneOp(d)'
<1> USE DEF OneOp
<1>1. NotStarted(d)' /\ Returned(d)' /\ NoResultYet(d)' /\ Admitted(d)'
  BY DEF NotStarted, Returned, NoResultYet, Admitted, NewTx
<1>2. AtFrame(d)' /\ Undelivered(d)'
  BY DEF AtFrame, Undelivered, Between, Steady, Counted, NextFrame, Cancelled
<1>3. Delivered(d)' /\ Responded(d)'
  BY DEF Delivered, Responded, After, Steady, Counted, Cancelled
<1> QED BY <1>1, <1>2, <1>3

\* The conversions of a transport capacity into a frame size are sound: an
\* admissible request always has a next frame size, which never exceeds what
\* is left of the data.
LEMMA CurrentSizeType ==
    ASSUME NEW c \in Callers, TypeOK, Between(c)
    PROVE  /\ CurrentSize(c) \in Nat
           /\ request[c].kind = "chained" =>
                 tx.uploaded + CurrentSize(c) <= request[c].data
<1> DEFINE r == request[c]
<1>1. r \in RequestType
  BY ConstantsAssumption DEF TypeOK
<1>2. CASE r.kind = "adaptive"
  BY <1>1, <1>2 DEF CurrentSize, RequestType
<1>3. CASE r.kind = "chained"
  <2>1. DataPerFrame \in Nat
    BY <1>3, ConstantsAssumption
    DEF Between, Carriable, DataPerFrame, FramingOverhead, Least
  <2>2. r.data \in Nat /\ tx.uploaded \in Nat /\ tx.frameIndex \in Nat
    BY <1>1 DEF TypeOK, TxType, RequestType
  <2>3. r.first # NoBoundary => r.first \in Nat /\ r.first < r.data
    BY <1>1, <1>3 DEF Between, Carriable, RequestType
  <2> QED
    BY <1>3, <2>1, <2>2, <2>3 DEF Between, CurrentSize, Least
<1> QED BY <1>1, <1>2, <1>3 DEF RequestType

-----------------------------------------------------------------------------
(***************************************************************************)
(* The steps preserve the invariant, one lemma per group of actions.       *)
(***************************************************************************)

LEMMA InitIInv == Init => IInv
<1> SUFFICES ASSUME Init PROVE IInv
  OBVIOUS
<1> USE DEF Init
<1>1. TypeOK
  <2>1. 0 \in 0..MaxGeneration
    BY ConstantsAssumption
  <2>2. tx \in TxType /\ frame \in FrameType /\ wire \in WireType
    BY <2>1, NewTxType, InitialRecords
  <2>3. heard \in [Callers -> HeardType] /\ result \in [Callers -> ResultType]
    BY InitialRecords
  <2> QED BY <2>1, <2>2, <2>3 DEF TypeOK
<1>2. LockInv
  BY NoneAssumption DEF LockInv, Inside
<1>3. OpInv
  BY DEF OpInv, OneOp, NotStarted, Admitted, AtFrame, Undelivered, Delivered,
         Responded, Returned, NoResultYet
<1> QED BY <1>1, <1>2, <1>3 DEF IInv

\* The steps of a caller that does not hold the mutex and leaves it alone.
LEMMA OutsideSteps ==
    ASSUME IInv, NEW c \in Callers,
           BeginRefused(c) \/ BeginLock(c) \/ ResetLock(c)
    PROVE  IInv'
<1> USE DEF IInv
<1>1. pc[c] = "idle" /\ heard' = heard /\ request' = request /\ tx' = tx
      /\ frame' = frame /\ wire' = wire /\ chain' = chain
      /\ generation' = generation /\ UNCHANGED chVars
  BY DEF BeginRefused, BeginLock, ResetLock, Return, chVars, envVars
<1>2. TypeOK'
  <2>1. result' \in [Callers -> ResultType]
    BY ErrorType DEF TypeOK, BeginRefused, BeginLock, ResetLock, Return, Codes,
                     Outcomes, envVars
  <2>2. expired' \in [Callers -> BOOLEAN] /\ stopped' \in [Callers -> BOOLEAN]
    BY DEF TypeOK, BeginRefused, BeginLock, ResetLock, Return, envVars
  <2>3. pc' \in [Callers -> {"idle", "locking", "admitted", "frame", "transport",
                            "response", "reset_locking", "resetting", "returned"}]
    BY DEF TypeOK, BeginRefused, BeginLock, ResetLock, Return
  <2> QED BY <1>1, <2>1, <2>2, <2>3 DEF TypeOK, chVars
<1>3. \A d \in Callers : d # c =>
          /\ pc'[d] = pc[d] /\ result'[d] = result[d]
          /\ expired'[d] = expired[d] /\ stopped'[d] = stopped[d]
  BY DEF BeginRefused, BeginLock, ResetLock, Return, TypeOK, chVars, envVars
<1>4. pc'[c] \in {"locking", "reset_locking", "returned"}
  BY DEF BeginRefused, BeginLock, ResetLock, Return, TypeOK
<1>5. LockInv'
  BY <1>1, <1>3, <1>4 DEF LockInv, Inside, chVars, TypeOK
<1>6. OneOp(c)'
  <2>1. heard[c] = Unheard /\ result[c] = NoResult
    BY <1>1 DEF OpInv, OneOp, NotStarted, NoResultYet
  <2>2. NotStarted(c)' /\ NoResultYet(c)'
    <3>1. pc'[c] # "returned" => result' = result
      BY DEF BeginRefused, BeginLock, ResetLock, Return, TypeOK
    <3> QED BY <1>1, <2>1, <3>1 DEF NotStarted, NoResultYet
  <2>3. Returned(c)'
    <3>1. /\ heard'[c].frames = 0 /\ heard'[c].late = 0
          /\ 0 <= MaxChainFrames
      BY <1>1, <2>1, ConstantsAssumption DEF Unheard
    <3>2. pc'[c] = "returned" => result'[c].outcome = "not_sent"
      BY DEF BeginRefused, BeginLock, ResetLock, Return, Error, TypeOK
    <3> QED BY <3>1, <3>2 DEF Returned
  <2>4. Admitted(c)' /\ AtFrame(c)' /\ Undelivered(c)' /\ Delivered(c)'
        /\ Responded(c)'
    BY <1>4 DEF Admitted, AtFrame, Undelivered, Delivered, Responded
  <2> QED BY <2>2, <2>3, <2>4 DEF OneOp
<1>7. ASSUME NEW d \in Callers, d # c PROVE OneOp(d)'
  BY <1>1, <1>3, <1>7, StateUntouched DEF OpInv
<1> QED BY <1>2, <1>5, <1>6, <1>7 DEF OpInv

\* The caller that holds the mutex excludes every other caller's transaction.
LEMMA OthersOutside ==
    ASSUME LockInv, NEW c \in Callers, NEW d \in Callers, d # c,
           lockOwner = c \/ lockOwner = None
    PROVE  ~Inside(d)
BY NoneAssumption DEF LockInv

LEMMA AdmitSteps ==
    ASSUME IInv, NEW c \in Callers, BeginAdmit(c) \/ ResetAdmit(c)
    PROVE  IInv'
<1> USE DEF IInv
<1>1. /\ lockOwner = None /\ lockOwner' = c /\ operationActive' = TRUE
      /\ pc[c] \in {"locking", "reset_locking"}
      /\ pc' = [pc EXCEPT ![c] = pc'[c]]
      /\ pc'[c] \in {"admitted", "resetting"}
      /\ UNCHANGED <<heard, result, request, generation, reentered>>
  BY DEF BeginAdmit, ResetAdmit, TypeOK, envVars
<1>2. TypeOK'
  <2>1. tx' \in TxType
    BY NewTxType DEF BeginAdmit, ResetAdmit, TypeOK
  <2> QED BY <2>1 DEF BeginAdmit, ResetAdmit, TypeOK, envVars
<1>3. LockInv'
  BY <1>1, NoneAssumption DEF LockInv, Inside, TypeOK
<1>4. OneOp(c)'
  <2>1. heard[c] = Unheard /\ result[c] = NoResult
    BY <1>1 DEF OpInv, OneOp, NotStarted, NoResultYet
  <2>2. Admitted(c)'
    BY <1>1, <2>1 DEF BeginAdmit, ResetAdmit, Admitted, NewTx, TypeOK
  <2> QED
    BY <1>1, <2>1, <2>2
    DEF OneOp, NotStarted, NoResultYet, AtFrame, Undelivered, Delivered,
        Responded, Returned
<1>5. ASSUME NEW d \in Callers, d # c PROVE OneOp(d)'
  <2>1. ~Inside(d) /\ pc'[d] = pc[d]
    BY <1>1, <1>5, OthersOutside DEF TypeOK
  <2> QED BY <1>1, <2>1, OutsideUntouched DEF OpInv
<1> QED BY <1>2, <1>3, <1>4, <1>5 DEF OpInv

\* The callback's reentry and the stop token change no operation.
LEMMA SignalSteps ==
    ASSUME IInv, NEW c \in Callers,
           CallbackReenters(c) \/ CallbackRefused(c) \/ StopRequested(c)
           \/ DeadlinePasses(c)
    PROVE  IInv'
<1> USE DEF IInv
<1>1. /\ UNCHANGED <<pc, heard, result, request, tx, frame, wire, chain,
                     generation, lockOwner, operationActive>>
      /\ \A d \in Callers : /\ expired[d] => expired'[d]
                            /\ stopped[d] => stopped'[d]
  BY DEF CallbackReenters, CallbackRefused, StopRequested, DeadlinePasses,
         chVars, envVars, TypeOK
<1>2. TypeOK'
  BY DEF CallbackReenters, CallbackRefused, StopRequested, DeadlinePasses,
         chVars, envVars, TypeOK
<1>3. LockInv'
  BY <1>1 DEF CallbackReenters, CallbackRefused, StopRequested, DeadlinePasses,
              LockInv, Inside, chVars
<1>4. ASSUME NEW d \in Callers PROVE OneOp(d)'
  BY <1>1, StateUntouched DEF OpInv
<1> QED BY <1>2, <1>3, <1>4 DEF OpInv

\* The card changes under an operation: from then on it is not whole.
LEMMA CardChangesStep ==
    ASSUME IInv, CardChanges
    PROVE  IInv'
<1> USE DEF IInv
<1>1. /\ UNCHANGED <<pc, heard, result, request, tx, frame, wire, expired,
                     stopped, lockOwner, operationActive, reentered>>
      /\ generation' = generation + 1 /\ generation < MaxGeneration
      /\ chain' = None
  BY DEF CardChanges, chVars
<1>2. generation \in Nat /\ tx.generation \in Nat
  BY ConstantsAssumption DEF TypeOK, TxType
<1>3. TypeOK'
  <2>1. generation' \in 0..MaxGeneration
    BY <1>1, ConstantsAssumption DEF TypeOK
  <2> QED BY <1>1, <2>1 DEF TypeOK
<1>4. LockInv'
  BY <1>1 DEF LockInv, Inside
<1>5. ASSUME NEW d \in Callers PROVE OneOp(d)'
  <2>1. NotStarted(d)' /\ Returned(d)' /\ NoResultYet(d)'
    BY <1>1 DEF OpInv, OneOp, NotStarted, Returned, NoResultYet
  <2>2. Admitted(d)'
    BY <1>1, <1>2 DEF OpInv, OneOp, Admitted, NewTx
  <2>3. tx.generation <= generation => Cancelled(d)' /\ Steady(d, TRUE)'
                                       /\ tx'.generation <= generation'
    BY <1>1, <1>2 DEF Cancelled, Steady
  <2>4. Steady(d, TRUE)' => \A b \in BOOLEAN : Steady(d, b)'
    BY DEF Steady
  <2>5. AtFrame(d)'
    BY <1>1, <2>3, <2>4 DEF OpInv, OneOp, AtFrame, Between, Counted, Steady
  <2>6. Undelivered(d)'
    BY <1>1, <2>3, <2>4
    DEF OpInv, OneOp, Undelivered, Between, Counted, NextFrame, Steady
  <2>7. Delivered(d)' /\ Responded(d)'
    BY <1>1, <2>3, <2>4
    DEF OpInv, OneOp, Delivered, Responded, After, Counted, Steady
  <2> QED BY <2>1, <2>2, <2>5, <2>6, <2>7 DEF OneOp
<1> QED BY <1>3, <1>4, <1>5 DEF OpInv

\* Every way out of the channel that holds the mutex: the operation reports r
\* and releases.  What is left to show per action is only that r is truthful.
LEMMA ReleaseStep ==
    ASSUME IInv, NEW c \in Callers, NEW r \in ResultType, Inside(c), ~reentered,
           Return(c, r), Release,
           UNCHANGED <<generation, request, heard, chain>>,
           heard[c].late <= 1, heard[c].frames <= MaxChainFrames,
           r.outcome = "not_sent" => heard[c].frames = 0,
           r.code = "ok" /\ heard[c].frames > 0 =>
              /\ heard[c].intact
              /\ r.size = heard[c].replied
              /\ request[c].kind = "chained" =>
                    heard[c].bytes = request[c].data /\ r.size <= request[c].limit
    PROVE  IInv'
<1> USE DEF IInv
<1>1. lockOwner = c
  BY DEF LockInv
<1>2. TypeOK'
  <2>1. tx' \in TxType /\ frame' \in FrameType /\ wire' \in WireType
    <3>1. 0 \in 0..MaxGeneration
      BY ConstantsAssumption
    <3> QED BY <3>1, NewTxType, InitialRecords DEF Release
  <2>2. result' \in [Callers -> ResultType] /\ expired' \in [Callers -> BOOLEAN]
        /\ stopped' \in [Callers -> BOOLEAN]
    BY DEF Return, TypeOK
  <2>3. pc' \in [Callers -> {"idle", "locking", "admitted", "frame", "transport",
                            "response", "reset_locking", "resetting", "returned"}]
    BY DEF Return, TypeOK
  <2> QED BY <2>1, <2>2, <2>3 DEF TypeOK, Release
<1>3. \A d \in Callers : d # c => ~Inside(d) /\ pc'[d] = pc[d]
                                  /\ result'[d] = result[d]
  BY <1>1, OthersOutside DEF Return, TypeOK
<1>4. pc'[c] = "returned" /\ result'[c] = r
  BY DEF Return, TypeOK
<1>5. LockInv'
  BY <1>3, <1>4, NoneAssumption DEF LockInv, Inside, Release
<1>6. OneOp(c)'
  <2>1. Returned(c)'
    BY <1>4 DEF Returned
  <2> QED BY <1>4, <2>1 DEF OneOp, NotStarted, Admitted, AtFrame, Undelivered,
             Delivered, Responded, NoResultYet
<1>7. ASSUME NEW d \in Callers, d # c PROVE OneOp(d)'
  BY <1>3, <1>7, OutsideUntouched DEF OpInv
<1> QED BY <1>2, <1>5, <1>6, <1>7 DEF OpInv

\* Field types of the records, for the arithmetic below.
LEMMA Fields ==
    ASSUME TypeOK, NEW c \in Callers
    PROVE  /\ generation \in Nat /\ tx.generation \in Nat
           /\ tx.sentAny \in BOOLEAN /\ tx.uploaded \in Nat
           /\ tx.assembled \in Nat /\ tx.frameIndex \in Nat
           /\ frame.size \in Nat /\ frame.from \in Nat
           /\ frame.delivered \in BOOLEAN
           /\ wire.size \in Nat /\ wire.status \in Status
           /\ heard[c].frames \in Nat /\ heard[c].bytes \in Nat
           /\ heard[c].replied \in Nat /\ heard[c].late \in Nat
           /\ heard[c].intact \in BOOLEAN
           /\ request[c] \in RequestType
           /\ request[c].data \in Nat /\ request[c].limit \in Nat
           /\ MaxChainFrames \in Nat /\ MaxChainFrames > 0
<1>1. heard[c] \in HeardType /\ request[c] \in RequestType
  BY ConstantsAssumption DEF TypeOK
<1>2. generation \in Nat /\ tx.generation \in Nat
  BY ConstantsAssumption DEF TypeOK, TxType
<1> QED
  BY <1>1, <1>2, ConstantsAssumption
  DEF TypeOK, TxType, FrameType, WireType, HeardType, RequestType

LEMMA PlanRefusedStep ==
    ASSUME IInv, NEW c \in Callers, PlanRefused(c)
    PROVE  IInv'
<1> DEFINE r == Error("invalid", NormalizeDelivery("not_sent", tx.sentAny))
<1>1. heard[c] = Unheard /\ Inside(c) /\ ~reentered
  BY DEF IInv, OpInv, OneOp, Admitted, PlanRefused, Inside, LockInv
<1>2. r \in ResultType
  BY ErrorType DEF NormalizeDelivery, Codes, Outcomes
<1>3. r.code # "ok"
  BY DEF Error
<1>4. heard[c].late <= 1 /\ heard[c].frames = 0 /\ 0 <= MaxChainFrames
  BY <1>1, ConstantsAssumption DEF Unheard
<1> HIDE DEF r
<1> QED BY <1>1, <1>2, <1>3, <1>4, ReleaseStep DEF PlanRefused, r

LEMMA FrameRefusedStep ==
    ASSUME IInv, NEW c \in Callers, FrameInterrupted(c) \/ FrameTooLarge(c)
    PROVE  IInv'
<1>1. Between(c) /\ heard[c].late <= 1 /\ Inside(c) /\ ~reentered
  BY DEF IInv, OpInv, OneOp, AtFrame, FrameInterrupted, FrameTooLarge, Inside,
         LockInv
<1>2. heard[c].frames <= MaxChainFrames
      /\ (~tx.sentAny => heard[c].frames = 0)
  BY <1>1, Fields DEF IInv, Between, Counted
<1>3. PICK code \in Codes \ {"ok"}, outcome \in Outcomes :
          /\ Return(c, Error(code, outcome)) /\ Release
          /\ UNCHANGED <<generation, request, heard, chain>>
          /\ outcome = "not_sent" => ~tx.sentAny
  <2>1. CASE FrameInterrupted(c)
    <3>1. Interruption(c) \in Codes \ {"ok"}
      BY <2>1 DEF FrameInterrupted, Interruption, Codes, None
    <3>2. (IF tx.sentAny THEN "unknown" ELSE "not_sent") \in Outcomes
      BY DEF Outcomes
    <3> QED BY <2>1, <3>1, <3>2 DEF FrameInterrupted
  <2>2. CASE FrameTooLarge(c)
    <3>1. NormalizeDelivery("not_sent", tx.sentAny) \in Outcomes
          /\ (NormalizeDelivery("not_sent", tx.sentAny) = "not_sent" => ~tx.sentAny)
      BY DEF Outcomes, NormalizeDelivery
    <3>2. "invalid" \in Codes \ {"ok"}
      BY DEF Codes
    <3> QED BY <2>2, <3>1, <3>2 DEF FrameTooLarge
  <2> QED BY <2>1, <2>2
<1>4. Error(code, outcome) \in ResultType
      /\ Error(code, outcome).code # "ok"
      /\ Error(code, outcome).outcome = outcome
  BY ErrorType DEF Error
<1> QED BY <1>1, <1>2, <1>3, <1>4, ReleaseStep

LEMMA TransportFailsStep ==
    ASSUME IInv, NEW c \in Callers, NEW o \in {"not_sent", "unknown"},
           TransportFails(c, o)
    PROVE  IInv'
<1> DEFINE out == NormalizeDelivery(o, tx.sentAny)
<1>1. Inside(c) /\ ~reentered /\ pc[c] = "transport"
  BY DEF TransportFails, Inside
<1>2. heard[c].late <= 1 /\ heard[c].frames <= MaxChainFrames
      /\ (~frame.delivered /\ ~tx.sentAny => heard[c].frames = 0)
  <2>1. CASE ~frame.delivered
    <3>1. Between(c) /\ heard[c].late = 0
      BY <1>1, <2>1 DEF IInv, OpInv, OneOp, Undelivered
    <3> QED BY <3>1, Fields DEF IInv, Between, Counted
  <2>2. CASE frame.delivered
    <3>1. After(c, tx.assembled)
      BY <1>1, <2>2 DEF IInv, OpInv, OneOp, Delivered
    <3> QED BY <3>1, <2>2, Fields DEF IInv, After, Counted
  <2> QED BY <2>1, <2>2
<1>3. out \in Outcomes /\ (out = "not_sent" => ~frame.delivered /\ ~tx.sentAny)
  BY DEF TransportFails, NormalizeDelivery, Outcomes
<1>4. Error("transport", out) \in ResultType
      /\ Error("transport", out).code # "ok"
      /\ Error("transport", out).outcome = out
  BY <1>3, ErrorType DEF Error, Codes
<1> HIDE DEF out
<1> QED BY <1>1, <1>2, <1>3, <1>4, ReleaseStep DEF TransportFails, out

LEMMA ResetReturnStep ==
    ASSUME IInv, NEW c \in Callers, ResetReturn(c)
    PROVE  IInv'
<1>1. heard[c] = Unheard /\ Inside(c) /\ ~reentered
  BY DEF IInv, OpInv, OneOp, NotStarted, ResetReturn, Inside
<1>2. PICK r \in ResultType : Return(c, r)
  <2>1. PICK o \in {"succeeded", "not_sent", "unknown"} :
            Return(c, [code |-> IF o = "succeeded" THEN "ok" ELSE "transport",
                       outcome |-> o, size |-> 0])
    BY DEF ResetReturn
  <2>2. [code |-> IF o = "succeeded" THEN "ok" ELSE "transport",
         outcome |-> o, size |-> 0] \in ResultType
    BY DEF ResultType, Codes, Outcomes
  <2> QED BY <2>1, <2>2
<1>3. heard[c].late <= 1 /\ heard[c].frames = 0 /\ 0 <= MaxChainFrames
  BY <1>1, ConstantsAssumption DEF Unheard
<1> QED BY <1>1, <1>2, <1>3, ReleaseStep DEF ResetReturn

\* A step of the owner that keeps the mutex disturbs no other caller.
LEMMA OwnerStep ==
    ASSUME IInv, NEW c \in Callers, Inside(c), ~reentered,
           UNCHANGED <<lockOwner, operationActive, reentered, request, result>>,
           \A d \in Callers : d # c => pc'[d] = pc[d] /\ heard'[d] = heard[d],
           TypeOK', Inside(c)', OneOp(c)'
    PROVE  IInv'
<1> USE DEF IInv
<1>1. lockOwner = c
  BY DEF LockInv
<1>2. LockInv'
  BY <1>1, NoneAssumption DEF LockInv, Inside
<1>3. ASSUME NEW d \in Callers, d # c PROVE OneOp(d)'
  <2>1. ~Inside(d)
    BY <1>1, <1>3, OthersOutside
  <2> QED BY <1>3, <2>1, OutsideUntouched DEF OpInv
<1> QED BY <1>2, <1>3 DEF OpInv

LEMMA PlanExchangeStep ==
    ASSUME IInv, NEW c \in Callers, PlanExchange(c)
    PROVE  IInv'
<1> USE DEF IInv
<1>1. /\ pc[c] = "admitted" /\ pc' = [pc EXCEPT ![c] = "frame"]
      /\ request[c].kind = "chained" => Carriable(request[c])
      /\ UNCHANGED <<lockOwner, operationActive, reentered, generation, expired,
                     stopped, request, tx, frame, wire, result, heard, chain>>
  BY DEF PlanExchange, chVars, envVars
<1>2. Inside(c) /\ ~reentered /\ heard[c] = Unheard
      /\ tx = NewTx(tx.generation) /\ tx.generation <= generation
      /\ result[c] = NoResult
  BY <1>1 DEF Inside, LockInv, OpInv, OneOp, Admitted, NoResultYet
<1>3. TypeOK'
  BY <1>1 DEF TypeOK
<1>4. pc'[c] = "frame"
  BY <1>1 DEF TypeOK
<1>5. AtFrame(c)'
  <2>1. /\ tx.sentAny = FALSE /\ tx.uploaded = 0 /\ tx.assembled = 0
        /\ tx.frameIndex = 0
        /\ heard[c].frames = 0 /\ heard[c].bytes = 0 /\ heard[c].replied = 0
        /\ heard[c].intact /\ heard[c].late = 0
    BY <1>2 DEF NewTx, Unheard
  <2>2. Between(c)'
    BY <1>1, <1>2, <2>1, Fields DEF Between, Counted
  <2>3. Steady(c, heard[c].frames > 0)' /\ heard'[c].late = 0
    BY <1>1, <2>1 DEF Steady
  <2> QED BY <2>2, <2>3 DEF AtFrame
<1>6. OneOp(c)'
  BY <1>1, <1>2, <1>4, <1>5
  DEF OneOp, NotStarted, Admitted, Undelivered, Delivered, Responded, Returned,
      NoResultYet
<1> QED BY <1>1, <1>2, <1>3, <1>4, <1>6, OwnerStep DEF Inside, TypeOK

LEMMA FrameToTransportStep ==
    ASSUME IInv, NEW c \in Callers, FrameToTransport(c)
    PROVE  IInv'
<1> USE DEF IInv
<1>1. /\ pc[c] = "frame" /\ pc' = [pc EXCEPT ![c] = "transport"]
      /\ Interruption(c) = "ok"
      /\ UNCHANGED <<lockOwner, operationActive, reentered, generation, expired,
                     stopped, request, tx, wire, result, heard, chain>>
  BY DEF FrameToTransport, chVars, envVars
<1>2. Inside(c) /\ ~reentered /\ Between(c) /\ AtFrame(c) /\ result[c] = NoResult
  BY <1>1 DEF Inside, LockInv, OpInv, OneOp, AtFrame, NoResultYet
<1>3. /\ frame'.command = (IF tx.frameIndex = 0 THEN "command" ELSE "continue")
      /\ frame'.from = tx.uploaded
      /\ frame'.size = CurrentSize(c)
      /\ frame'.delivered = FALSE
  BY DEF FrameToTransport
<1>4. CurrentSize(c) \in Nat
      /\ (request[c].kind = "chained" =>
             tx.uploaded + CurrentSize(c) <= request[c].data)
  BY <1>2, CurrentSizeType
<1>5. frame' \in FrameType
  <2>1. (IF tx.frameIndex = 0 THEN "command" ELSE "continue")
            \in {"command", "continue"} /\ tx.uploaded \in Nat
    BY Fields
  <2> QED BY <1>4, <2>1, Zenon DEF FrameToTransport, FrameType
<1>6. TypeOK' /\ pc'[c] = "transport"
  BY <1>1, <1>5 DEF TypeOK
<1>7. Undelivered(c)'
  <2>1. heard[c].late = 0
    <3>1. ~Cancelled(c)
      BY <1>1 DEF Interruption, Cancelled
    <3> QED BY <1>1, <1>2, <3>1, Fields DEF AtFrame
  <2>2. Between(c)' /\ Steady(c, heard[c].frames > 0)'
    BY <1>1, <1>2 DEF Between, Counted, AtFrame, Steady
  <2>3. NextFrame(c)'
    BY <1>1, <1>3, <1>4 DEF NextFrame
  <2> QED BY <1>1, <2>1, <2>2, <2>3 DEF Undelivered
<1>8. OneOp(c)'
  BY <1>1, <1>2, <1>3, <1>6, <1>7
  DEF OneOp, NotStarted, Admitted, AtFrame, Delivered, Responded, Returned,
      NoResultYet
<1> QED BY <1>1, <1>2, <1>6, <1>8, OwnerStep DEF Inside, TypeOK

LEMMA CardHearsStep ==
    ASSUME IInv, NEW c \in Callers, CardHears(c)
    PROVE  IInv'
<1> USE DEF IInv
<1> DEFINE h == heard[c]
           whole == /\ h.intact
                    /\ frame.from = h.bytes
                    /\ generation = tx.generation
                    /\ IF h.frames = 0 THEN frame.command = "command"
                       ELSE frame.command = "continue" /\ chain = c
           next == [frames |-> h.frames + 1, bytes |-> h.bytes + frame.size,
                    replied |-> h.replied, intact |-> whole,
                    late |-> IF Cancelled(c) THEN h.late + 1 ELSE h.late]
<1>1. /\ pc[c] = "transport" /\ ~frame.delivered /\ ~reentered
      /\ frame' = [frame EXCEPT !.delivered = TRUE]
      /\ heard' = [heard EXCEPT ![c] = next]
      /\ chain' = c
      /\ UNCHANGED <<lockOwner, operationActive, reentered, generation, expired,
                     stopped, pc, request, tx, wire, result>>
  BY DEF CardHears, chVars, envVars
<1>2. Inside(c) /\ Between(c) /\ NextFrame(c) /\ Steady(c, h.frames > 0)
      /\ h.late = 0 /\ result[c] = NoResult
  BY <1>1 DEF Inside, OpInv, OneOp, Undelivered, NoResultYet
<1>3. generation = tx.generation => whole
  BY <1>2, Fields DEF Between, Counted, NextFrame, Steady
<1>4. /\ frame' \in FrameType /\ frame'.delivered = TRUE
      /\ frame'.size = frame.size
  <2>1. frame \in FrameType
    BY DEF TypeOK
  <2> QED BY <1>1, <2>1 DEF FrameType
<1>5. next \in HeardType /\ heard'[c] = next
  <2>1. whole \in BOOLEAN
    OBVIOUS
  <2>2. h.frames + 1 \in Nat /\ h.bytes + frame.size \in Nat /\ h.replied \in Nat
        /\ (IF Cancelled(c) THEN h.late + 1 ELSE h.late) \in Nat
    BY Fields
  <2>3. next \in HeardType
    <3> HIDE DEF whole
    <3> QED BY <2>1, <2>2, Zenon DEF HeardType
  <2> QED BY <1>1, <2>3 DEF TypeOK
<1> HIDE DEF next
<1>6. TypeOK'
  BY <1>1, <1>4, <1>5 DEF TypeOK
<1>7. Delivered(c)'
  <2>1. /\ heard'[c].frames = tx.frameIndex + 1
        /\ heard'[c].bytes = tx.uploaded + frame.size
        /\ heard'[c].replied = tx.assembled
        /\ heard'[c].intact = whole
        /\ heard'[c].late = IF Cancelled(c) THEN 1 ELSE 0
    <3> HIDE DEF whole
    <3> QED BY <1>2, <1>5, Fields DEF Between, Counted, next
  <2>2. After(c, tx.assembled)'
    BY <1>1, <1>2, <1>4, <2>1 DEF After, Between, Counted, NextFrame, Cancelled
  <2>3. Steady(c, TRUE)'
    BY <1>1, <1>3, <2>1 DEF Steady
  <2> QED BY <1>1, <2>2, <2>3 DEF Delivered
<1>8. OneOp(c)'
  BY <1>1, <1>2, <1>4, <1>7
  DEF OneOp, NotStarted, Admitted, AtFrame, Undelivered, Responded, Returned,
      NoResultYet
<1> QED BY <1>1, <1>2, <1>6, <1>8, OwnerStep DEF Inside, TypeOK

LEMMA CardAnswersStep ==
    ASSUME IInv, NEW c \in Callers, NEW w \in WireResponses, CardAnswers(c, w)
    PROVE  IInv'
<1> USE DEF IInv
<1> DEFINE replied == IF w.garbled THEN heard[c].replied
                      ELSE heard[c].replied + w.size
<1>1. /\ pc[c] = "transport" /\ frame.delivered /\ ~reentered
      /\ wire' = w
      /\ pc' = [pc EXCEPT ![c] = "response"]
      /\ chain' = IF w.status = "done" THEN None ELSE chain
      /\ UNCHANGED <<lockOwner, operationActive, reentered, generation, expired,
                     stopped, request, tx, frame, result>>
  BY DEF CardAnswers, chVars, envVars
<1>2. Inside(c) /\ After(c, tx.assembled) /\ Steady(c, TRUE)
      /\ result[c] = NoResult
  BY <1>1 DEF Inside, OpInv, OneOp, Delivered, NoResultYet
<1>3. w \in WireType /\ w.size \in Nat
  BY ConstantsAssumption DEF WireResponses, WireType
<1>4. heard[c] \in HeardType /\ heard \in [Callers -> HeardType]
  BY DEF TypeOK
<1>5. /\ heard'[c].replied = replied
      /\ heard'[c].frames = heard[c].frames /\ heard'[c].bytes = heard[c].bytes
      /\ heard'[c].intact = heard[c].intact /\ heard'[c].late = heard[c].late
      /\ \A d \in Callers : d # c => heard'[d] = heard[d]
  BY <1>4 DEF CardAnswers, HeardType
<1>6. heard' \in [Callers -> HeardType]
  <2>1. heard' = [heard EXCEPT ![c] = [heard[c] EXCEPT !.replied = replied]]
    BY DEF CardAnswers
  <2>2. replied \in Nat
    BY <1>3, Fields
  <2>3. [heard[c] EXCEPT !.replied = replied] \in HeardType
    <3> HIDE DEF replied
    <3> QED BY <1>4, <2>2 DEF HeardType
  <2> QED BY <1>4, <2>1, <2>3
<1>7. TypeOK' /\ pc'[c] = "response"
  BY <1>1, <1>3, <1>6 DEF TypeOK
<1>8. Responded(c)'
  <2>1. After(c, IF wire.garbled THEN tx.assembled ELSE tx.assembled + wire.size)'
    BY <1>1, <1>2, <1>5 DEF After, Counted, Cancelled
  <2>2. Steady(c, wire.status = "additional_frame")'
    BY <1>1, <1>2, <1>5 DEF Steady
  <2> QED BY <2>1, <2>2 DEF Responded
<1>9. OneOp(c)'
  BY <1>1, <1>2, <1>7, <1>8
  DEF OneOp, NotStarted, Admitted, AtFrame, Undelivered, Delivered, Returned,
      NoResultYet
<1> QED BY <1>1, <1>2, <1>5, <1>7, <1>9, OwnerStep DEF Inside, TypeOK

\* What holds of the operation when the transport has returned a response.
LEMMA ResponseFacts ==
    ASSUME IInv, NEW c \in Callers, pc[c] = "response"
    PROVE  /\ Inside(c) /\ ~reentered /\ result[c] = NoResult
           /\ After(c, IF wire.garbled THEN tx.assembled
                       ELSE tx.assembled + wire.size)
           /\ Steady(c, wire.status = "additional_frame")
           /\ heard[c].frames <= MaxChainFrames
<1>1. /\ Inside(c) /\ ~reentered /\ result[c] = NoResult
      /\ After(c, IF wire.garbled THEN tx.assembled
                  ELSE tx.assembled + wire.size)
      /\ Steady(c, wire.status = "additional_frame")
  BY DEF IInv, Inside, LockInv, OpInv, OneOp, Responded, NoResultYet
<1> QED BY <1>1, Fields DEF IInv, After, Counted

LEMMA ResponseBadStep ==
    ASSUME IInv, NEW c \in Callers, ResponseBad(c)
    PROVE  IInv'
<1>1. pc[c] = "response" /\ Verdict(c) # "ok"
  BY DEF ResponseBad
<1>2. Inside(c) /\ ~reentered /\ heard[c].late <= 1
      /\ heard[c].frames <= MaxChainFrames
  BY <1>1, ResponseFacts DEF After
<1>3. Verdict(c) \in Codes
  BY DEF Verdict, FrameVerdict, ChainVerdict, Codes
<1>4. Error(Verdict(c), "unknown") \in ResultType
      /\ Error(Verdict(c), "unknown").code # "ok"
      /\ Error(Verdict(c), "unknown").outcome = "unknown"
  <2>1. "unknown" \in Outcomes
    BY DEF Outcomes
  <2> QED BY <1>1, <1>3, <2>1, ErrorType DEF Error
<1> QED BY <1>2, <1>4, ReleaseStep DEF ResponseBad

\* A response that passes every check of exchange_frame() and exchange().
LEMMA GoodResponse ==
    ASSUME IInv, NEW c \in Callers, pc[c] = "response", Verdict(c) = "ok"
    PROVE  /\ generation = tx.generation /\ ~wire.garbled
           /\ heard[c].intact
           /\ heard[c].replied = tx.assembled + wire.size
           /\ request[c].kind = "chained" =>
                 /\ tx.assembled + wire.size <= request[c].limit
                 /\ wire.status = "done" =>
                       tx.uploaded + frame.size = request[c].data
                 /\ wire.status = "additional_frame" =>
                       tx.frameIndex + 1 < MaxChainFrames
<1>1. generation = tx.generation /\ ~wire.garbled
  BY DEF Verdict, FrameVerdict
<1>2. heard[c].intact /\ heard[c].replied = tx.assembled + wire.size
  BY <1>1, ResponseFacts DEF After, Counted, Steady
<1>3. ASSUME request[c].kind = "chained"
      PROVE  ChainVerdict(request[c], tx.uploaded + frame.size, wire) = "ok"
  BY <1>3 DEF Verdict
<1>4. ASSUME request[c].kind = "chained"
      PROVE  /\ tx.assembled + wire.size <= request[c].limit
             /\ wire.status = "done" =>
                   tx.uploaded + frame.size = request[c].data
             /\ wire.status = "additional_frame" =>
                   tx.frameIndex + 1 < MaxChainFrames
  <2>1. /\ ~(wire.size > request[c].limit - tx.assembled)
        /\ wire.status = "done" => ~(tx.uploaded + frame.size < request[c].data)
        /\ wire.status = "additional_frame" => tx.frameIndex + 1 # MaxChainFrames
    BY <1>3, <1>4 DEF ChainVerdict
  <2>2. tx.uploaded + frame.size <= request[c].data
        /\ tx.frameIndex < MaxChainFrames
    BY <1>4, ResponseFacts DEF After
  <2> QED BY <2>1, <2>2, Fields DEF IInv
<1> QED BY <1>1, <1>2, <1>4

LEMMA ResponseFinalStep ==
    ASSUME IInv, NEW c \in Callers, ResponseFinal(c)
    PROVE  IInv'
<1> DEFINE r == [code |-> "ok", outcome |-> "succeeded",
                 size |-> Received.assembled]
<1>1. pc[c] = "response" /\ Verdict(c) = "ok"
      /\ (wire.status = "done" \/ request[c].kind = "adaptive")
      /\ Return(c, r) /\ Release
      /\ UNCHANGED <<generation, request, heard, chain>>
  BY DEF ResponseFinal
<1>2. Received.assembled = tx.assembled + wire.size
  BY DEF Received, IInv, TypeOK, TxType
<1>3. r \in ResultType
  BY <1>2, Fields DEF ResultType, Codes, Outcomes, IInv
<1>4. Inside(c) /\ ~reentered /\ heard[c].late <= 1
      /\ heard[c].frames <= MaxChainFrames
  BY <1>1, ResponseFacts DEF After
<1>5. heard[c].intact /\ r.size = heard[c].replied
  BY <1>1, <1>2, GoodResponse
<1>6. request[c].kind = "chained" =>
          heard[c].bytes = request[c].data /\ r.size <= request[c].limit
  BY <1>1, <1>2, GoodResponse, ResponseFacts DEF After, Counted
<1>7. r.outcome # "not_sent"
  OBVIOUS
<1> HIDE DEF r
<1> QED BY <1>1, <1>3, <1>4, <1>5, <1>6, <1>7, ReleaseStep

LEMMA ResponseContinueStep ==
    ASSUME IInv, NEW c \in Callers, ResponseContinue(c)
    PROVE  IInv'
<1> USE DEF IInv
<1>1. /\ pc[c] = "response" /\ Verdict(c) = "ok"
      /\ wire.status = "additional_frame"
      /\ request[c].kind = "adaptive" => tx.frameIndex + 1 < MaxChainFrames
      /\ pc' = [pc EXCEPT ![c] = "frame"]
      /\ frame' = NoFrame /\ wire' = NoWire /\ tx' = Received
      /\ UNCHANGED <<lockOwner, operationActive, reentered, generation, expired,
                     stopped, request, result, heard, chain>>
  BY DEF ResponseContinue, chVars, envVars
<1>2. /\ tx'.generation = tx.generation /\ tx'.sentAny = TRUE
      /\ tx'.uploaded = tx.uploaded + frame.size
      /\ tx'.assembled = tx.assembled + wire.size
      /\ tx'.frameIndex = tx.frameIndex + 1
      /\ tx' \in TxType
  <2>1. tx \in TxType
    BY DEF TypeOK
  <2>2. /\ tx'.generation = tx.generation /\ tx'.sentAny = TRUE
        /\ tx'.uploaded = tx.uploaded + frame.size
        /\ tx'.assembled = tx.assembled + wire.size
        /\ tx'.frameIndex = tx.frameIndex + 1
    BY <1>1, <2>1 DEF Received, TxType
  <2>3. /\ tx.uploaded + frame.size \in Nat /\ tx.assembled + wire.size \in Nat
        /\ tx.frameIndex + 1 \in Nat
    BY Fields
  <2>4. tx' \in TxType
    BY <1>1, <2>1, <2>3 DEF Received, TxType
  <2> QED BY <2>2, <2>4
<1>3. TypeOK' /\ pc'[c] = "frame"
  BY <1>1, <1>2, InitialRecords DEF TypeOK
<1>4. Inside(c) /\ ~reentered /\ result[c] = NoResult
  BY <1>1, ResponseFacts
<1>5. AtFrame(c)'
  <2>1. tx.frameIndex + 1 < MaxChainFrames
    BY <1>1, GoodResponse, Fields DEF RequestType
  <2>2. Between(c)'
    <3>1. Counted(c, tx.frameIndex, tx.uploaded, tx.assembled)'
      BY <1>1, <1>2, GoodResponse, ResponseFacts DEF After, Counted
    <3>2. request[c].kind = "chained" =>
             /\ Carriable(request[c])
             /\ tx'.uploaded <= request[c].data
             /\ tx'.assembled <= request[c].limit
      BY <1>1, <1>2, GoodResponse, ResponseFacts DEF After
    <3> QED BY <1>1, <1>2, <2>1, <3>1, <3>2, ResponseFacts, Fields
            DEF Between, After
  <2>3. Steady(c, heard[c].frames > 0)'
    BY <1>1, <1>2, ResponseFacts DEF Steady
  <2>4. heard'[c].late <= 1 /\ (heard'[c].late > 0 => Cancelled(c)')
    BY <1>1, <1>2, ResponseFacts DEF After, Cancelled
  <2> QED BY <2>2, <2>3, <2>4 DEF AtFrame
<1>6. OneOp(c)'
  BY <1>1, <1>3, <1>4, <1>5
  DEF OneOp, NotStarted, Admitted, Undelivered, Delivered, Responded, Returned,
      NoResultYet
<1> QED BY <1>1, <1>3, <1>4, <1>6, OwnerStep DEF Inside, TypeOK

-----------------------------------------------------------------------------
(***************************************************************************)
(* The theorems.                                                           *)
(***************************************************************************)

\* A step that changes nothing keeps the invariant.
LEMMA StutterStep ==
    ASSUME IInv, UNCHANGED vars
    PROVE  IInv'
<1> USE DEF IInv, vars
<1>1. TypeOK' /\ LockInv'
  BY DEF TypeOK, LockInv, Inside
<1>2. ASSUME NEW d \in Callers PROVE OneOp(d)'
  BY StateUntouched DEF OpInv
<1> QED BY <1>1, <1>2 DEF OpInv

LEMMA StepIInv == IInv /\ [Next]_vars => IInv'
<1> SUFFICES ASSUME IInv, [Next]_vars PROVE IInv'
  OBVIOUS
<1>1. CASE UNCHANGED vars
  BY <1>1, StutterStep
<1>2. CASE CardChanges
  BY <1>2, CardChangesStep
<1>3. ASSUME NEW c \in Callers, ChannelStep(c) PROVE IInv'
  BY <1>3, AdmitSteps, SignalSteps, PlanExchangeStep, PlanRefusedStep,
     FrameRefusedStep, FrameToTransportStep, ResponseBadStep, ResponseFinalStep,
     ResponseContinueStep
  DEF ChannelStep
<1>4. ASSUME NEW c \in Callers, TransportStep(c) PROVE IInv'
  BY <1>4, CardHearsStep, CardAnswersStep, TransportFailsStep, ResetReturnStep
  DEF TransportStep
<1>5. ASSUME NEW c \in Callers, CallerStep(c) PROVE IInv'
  BY <1>5, OutsideSteps, SignalSteps DEF CallerStep
<1>6. ASSUME NEW c \in Callers, DeadlinePasses(c) PROVE IInv'
  BY <1>6, SignalSteps
<1>7. CASE AllReturned
  BY <1>7, StutterStep DEF AllReturned
<1> QED BY <1>1, <1>2, <1>3, <1>4, <1>5, <1>6, <1>7 DEF Next

THEOREM Invariance == Spec => []IInv
BY InitIInv, StepIInv, PTL DEF Spec

\* Every record and counter of the channel keeps its type; in particular the
\* size of the next frame, a difference of sizes in the code, never underflows.
THEOREM TypeCorrect == Spec => []TypeOK
<1>1. IInv => TypeOK
  BY DEF IInv
<1> QED BY <1>1, Invariance, PTL

\* Delivery evidence is honest for every request, capacity and card.
THEOREM NotSentIsHonest == Spec => []NotSentMeansUnheard
<1>1. IInv => NotSentMeansUnheard
  <2> SUFFICES ASSUME IInv, NEW c \in Callers, result[c].outcome = "not_sent"
               PROVE  heard[c].frames = 0
    BY DEF NotSentMeansUnheard
  <2>1. pc[c] = "returned"
    BY DEF IInv, OpInv, OneOp, NoResultYet, NoResult, None
  <2> QED BY <2>1 DEF IInv, OpInv, OneOp, Returned
<1> QED BY <1>1, Invariance, PTL

\* A returned response answers the whole request on one card.
THEOREM SuccessIsAlwaysWhole == Spec => []SuccessIsWhole
<1>1. IInv => SuccessIsWhole
  <2> SUFFICES ASSUME IInv, NEW c \in Callers, result[c].code = "ok",
                      heard[c].frames > 0
               PROVE  /\ heard[c].intact
                      /\ result[c].size = heard[c].replied
                      /\ request[c].kind = "chained" =>
                            /\ heard[c].bytes = request[c].data
                            /\ result[c].size <= request[c].limit
    BY DEF SuccessIsWhole
  <2>1. pc[c] = "returned"
    BY DEF IInv, OpInv, OneOp, NoResultYet, NoResult, None
  <2> QED BY <2>1 DEF IInv, OpInv, OneOp, Returned
<1> QED BY <1>1, Invariance, PTL

\* While the card stays, no frame is repeated, reordered, lost or interleaved.
THEOREM ChainsStayUnbroken == Spec => []ChainUnbroken
<1>1. IInv => ChainUnbroken
  <2> SUFFICES ASSUME IInv, NEW c \in Callers, lockOwner = c,
                      pc[c] # "resetting", generation = tx.generation
               PROVE  heard[c].intact
    BY DEF ChainUnbroken
  <2>1. pc[c] \in {"admitted", "frame", "transport", "response"}
    BY DEF IInv, LockInv, Inside
  <2>2. OneOp(c) /\ frame.delivered \in BOOLEAN
    BY Fields DEF IInv, OpInv
  <2> QED BY <2>1, <2>2 DEF OneOp, Admitted, Unheard, AtFrame, Undelivered,
             Delivered, Responded, Steady
<1> QED BY <1>1, Invariance, PTL

\* The shapes an operation can be in.
LEMMA Shapes ==
    ASSUME IInv, NEW c \in Callers
    PROVE  \/ heard[c] = Unheard
           \/ Between(c) /\ heard[c].late <= 1
           \/ \E n : After(c, n)
           \/ pc[c] = "returned" /\ Returned(c)
<1>1. OneOp(c)
  BY DEF IInv, OpInv
<1>2. CASE pc[c] \in {"idle", "locking", "reset_locking", "resetting", "admitted"}
  BY <1>1, <1>2 DEF OneOp, NotStarted, Admitted
<1>3. CASE pc[c] = "frame"
  BY <1>1, <1>3 DEF OneOp, AtFrame
<1>4. CASE pc[c] = "transport" /\ ~frame.delivered
  BY <1>1, <1>4 DEF OneOp, Undelivered
<1>5. CASE pc[c] = "transport" /\ frame.delivered
  BY <1>1, <1>5 DEF OneOp, Delivered
<1>6. CASE pc[c] = "response"
  BY <1>1, <1>6 DEF OneOp, Responded
<1>7. CASE pc[c] = "returned"
  BY <1>1, <1>7 DEF OneOp
<1> QED BY <1>2, <1>3, <1>4, <1>5, <1>6, <1>7 DEF IInv, TypeOK

\* Cancellation, timeout and card change let at most one more frame through.
THEOREM LateFramesBounded == Spec => []AtMostOneLateFrame
<1>1. IInv => AtMostOneLateFrame
  <2> SUFFICES ASSUME IInv, NEW c \in Callers PROVE heard[c].late <= 1
    BY DEF AtMostOneLateFrame
  <2> QED BY Shapes DEF Unheard, After, Returned
<1> QED BY <1>1, Invariance, PTL

\* No card keeps a chained exchange alive beyond maximum_chain_frames.
THEOREM ChainsAreBounded == Spec => []ChainBounded
<1>1. IInv => ChainBounded
  <2> SUFFICES ASSUME IInv, NEW c \in Callers
               PROVE  heard[c].frames <= MaxChainFrames
    BY DEF ChainBounded
  <2> QED BY Shapes, Fields DEF Returned, Between, After, Counted, Unheard, IInv
<1> QED BY <1>1, Invariance, PTL

\* A reentering callback always finds the channel active and is refused.
THEOREM ReentryAlwaysRefused == Spec => []ReentryIsRefused
<1>1. IInv => ReentryIsRefused
  BY NoneAssumption DEF IInv, LockInv, ReentryIsRefused
<1> QED BY <1>1, Invariance, PTL

-----------------------------------------------------------------------------
(***************************************************************************)
(* The channel implements ExchangeContract (the safety part: fairness is   *)
(* checked by TLC).  The three state functions of the refinement mapping,  *)
(* caller by caller, then one lemma for each step of the contract.         *)
(***************************************************************************)
\* The state the layers above see, caller by caller.
Phase(c) ==
    CASE pc[c] = "returned" -> "returned"
      [] pc[c] = "resetting" -> "reset"
      [] pc[c] \in {"idle", "locking", "reset_locking"} -> "idle"
      [] OTHER -> "exchange"

Reached(c) == heard[c].frames > 0
Given(c) == result[c].outcome

\* A step that changes what is seen of the caller c only.
LEMMA ReturnMaps ==
    ASSUME NEW c \in Callers, NEW o \in {"not_sent", "rejected", "succeeded", "unknown"},
           \A d \in Callers \ {c} : Phase(d)' = Phase(d) /\ Given(d)' = Given(d),
           \A d \in Callers : Reached(d)' = Reached(d),
           Phase(c) # "returned", Phase(c)' = "returned", Given(c)' = o,
           Phase(c) = "idle" => o = "not_sent",
           Phase(c) = "exchange" => (o = "not_sent" => ~Reached(c))
                                    /\ (o = "succeeded" => Reached(c))
    PROVE  Contract!Next
<1>1. Contract!Honest(c, o)
  BY DEF Contract!Honest, Phase, Reached, Given
<1>2. Contract!Return(c, o)
  BY <1>1 DEF Contract!Return, Phase, Reached, Given
<1> QED BY <1>2 DEF Contract!Next, Contract!Outcomes

\* A call is let in while no other is.
LEMMA StartMaps ==
    ASSUME NEW c \in Callers, NEW p \in {"exchange", "reset"},
           \A d \in Callers : Given(d)' = Given(d) /\ Reached(d)' = Reached(d),
           \A d \in Callers \ {c} : Phase(d)' = Phase(d),
           Phase(c) = "idle", Phase(c)' = p,
           \A d \in Callers : Phase(d) \notin {"exchange", "reset"}
    PROVE  Contract!Next
<1>1. Contract!Alone
  BY DEF Contract!Alone, Phase
<1>2. [d \in Callers |-> Phase(d)]' = [[d \in Callers |-> Phase(d)] EXCEPT ![c] = p]
  OBVIOUS
<1>3. Contract!Start(c)
  <2>1. [d \in Callers |-> Phase(d)][c] = "idle"
    OBVIOUS
  <2>2. UNCHANGED <<[d \in Callers |-> Reached(d)], [d \in Callers |-> Given(d)]>>
    OBVIOUS
  <2> QED BY <1>1, <1>2, <2>1, <2>2, Zenon DEF Contract!Start, Phase, Reached, Given
<1> QED BY <1>3 DEF Contract!Next

\* The card hears of the call c.
LEMMA ReachMaps ==
    ASSUME NEW c \in Callers,
           \A d \in Callers : Given(d)' = Given(d) /\ Phase(d)' = Phase(d),
           \A d \in Callers \ {c} : Reached(d)' = Reached(d),
           Phase(c) = "exchange", Reached(c)'
    PROVE  Contract!Next
<1>1. Contract!Reach(c)
  BY DEF Contract!Reach, Phase, Reached, Given
<1> QED BY <1>1 DEF Contract!Next

\* A step that is not seen.
LEMMA UnseenMaps ==
    ASSUME \A d \in Callers :
              Given(d)' = Given(d) /\ Phase(d)' = Phase(d) /\ Reached(d)' = Reached(d)
    PROVE  UNCHANGED Contract!vars
BY DEF Contract!vars, Phase, Reached, Given

\* Where an operation is, as the layers above see it.
LEMMA Phases ==
    ASSUME TypeOK, NEW c \in Callers
    PROVE  /\ pc[c] \in {"idle", "locking", "reset_locking"} => Phase(c) = "idle"
           /\ pc[c] \in {"admitted", "frame", "transport", "response"} => Phase(c) = "exchange"
           /\ pc[c] = "resetting" => Phase(c) = "reset"
           /\ pc[c] = "returned" => Phase(c) = "returned"
BY DEF TypeOK, Phase

\* An operation that holds the mutex returns.
LEMMA ReleaseMaps ==
    ASSUME IInv, IInv', NEW c \in Callers, Inside(c),
           NEW r, Return(c, r), heard' = heard,
           r.outcome \in {"not_sent", "rejected", "succeeded", "unknown"},
           pc[c] # "resetting" /\ r.outcome = "succeeded" => heard[c].frames > 0
    PROVE  Contract!Next
<1>1. /\ pc' = [pc EXCEPT ![c] = "returned"] /\ result' = [result EXCEPT ![c] = r]
      /\ TypeOK /\ TypeOK' /\ OneOp(c)'
  BY DEF Return, IInv, OpInv
<1>2. pc'[c] = "returned" /\ result'[c] = r
  BY <1>1 DEF TypeOK
<1>3. \A d \in Callers \ {c} : Phase(d)' = Phase(d) /\ Given(d)' = Given(d)
  BY <1>1 DEF Phase, Given, TypeOK
<1>4. \A d \in Callers : Reached(d)' = Reached(d)
  BY DEF Reached
<1>5. Phase(c)' = "returned" /\ Given(c)' = r.outcome
  BY <1>1, <1>2, Phases DEF Phase, Given
<1>6. Phase(c) \in {"exchange", "reset"} /\ (Phase(c) = "exchange" => pc[c] # "resetting")
  BY <1>1, Phases DEF Inside
<1>7. r.outcome = "not_sent" => ~Reached(c)
  BY <1>1, <1>2 DEF OneOp, Returned, Reached
<1>8. r.outcome = "succeeded" /\ pc[c] # "resetting" => Reached(c)
  BY DEF Reached
<1> QED BY <1>3, <1>4, <1>5, <1>6, <1>7, <1>8, ReturnMaps

\* The mutex is taken by an operation or a reset: a call starts.
LEMMA AdmitMaps ==
    ASSUME IInv, NEW c \in Callers, BeginAdmit(c) \/ ResetAdmit(c)
    PROVE  Contract!Next
<1>1. TypeOK /\ LockInv
  BY DEF IInv
<1>2. /\ lockOwner = None /\ heard' = heard /\ result' = result
      /\ pc[c] \in {"locking", "reset_locking"}
      /\ pc' = [pc EXCEPT ![c] = pc'[c]] /\ pc'[c] \in {"admitted", "resetting"}
  BY <1>1 DEF BeginAdmit, ResetAdmit, TypeOK
<1>3. \A d \in Callers : Phase(d) \notin {"exchange", "reset"}
  BY <1>1, <1>2, OthersOutside, NoneAssumption, Phases DEF Inside, LockInv, TypeOK
<1>4. \A d \in Callers : Given(d)' = Given(d) /\ Reached(d)' = Reached(d)
  BY <1>2 DEF Given, Reached
<1>5. \A d \in Callers \ {c} : Phase(d)' = Phase(d)
  BY <1>1, <1>2 DEF Phase, TypeOK
<1>6. Phase(c) = "idle" /\ Phase(c)' \in {"exchange", "reset"}
  BY <1>1, <1>2, Phases DEF Phase
<1> QED BY <1>3, <1>4, <1>5, <1>6, StartMaps

\* begin() refuses before the mutex is asked for.
LEMMA RefusedMaps ==
    ASSUME IInv, NEW c \in Callers, BeginRefused(c)
    PROVE  Contract!Next
<1>1. TypeOK /\ pc[c] = "idle" /\ heard' = heard
  BY DEF IInv, BeginRefused
<1>2. PICK code : Return(c, Error(code, "not_sent"))
  BY Zenon DEF BeginRefused
<1>3. \A d \in Callers \ {c} : Phase(d)' = Phase(d) /\ Given(d)' = Given(d)
  BY <1>1, <1>2 DEF Phase, Given, TypeOK, Return
<1>4. \A d \in Callers : Reached(d)' = Reached(d)
  BY <1>1 DEF Reached
<1>5. Phase(c) = "idle" /\ Phase(c)' = "returned" /\ Given(c)' = "not_sent"
  BY <1>1, <1>2, Phases DEF Phase, Given, TypeOK, Return, Error
<1> QED BY <1>3, <1>4, <1>5, ReturnMaps

\* The card hears a frame.
LEMMA HearsMaps ==
    ASSUME IInv, NEW c \in Callers, CardHears(c)
    PROVE  Contract!Next
<1>1. /\ TypeOK /\ pc[c] = "transport" /\ pc' = pc /\ result' = result
      /\ heard[c].frames \in Nat
  BY DEF IInv, CardHears, TypeOK, HeardType
<1>2. /\ heard'[c].frames = heard[c].frames + 1
      /\ \A d \in Callers \ {c} : heard'[d] = heard[d]
  BY <1>1 DEF CardHears, TypeOK
<1>3. Reached(c)' /\ \A d \in Callers \ {c} : Reached(d)' = Reached(d)
  BY <1>1, <1>2 DEF Reached
<1>4. \A d \in Callers : Given(d)' = Given(d) /\ Phase(d)' = Phase(d)
  BY <1>1 DEF Given, Phase
<1> QED BY <1>1, <1>3, <1>4, Phases, ReachMaps

\* A step within an operation, or of the environment.
LEMMA InnerMaps ==
    ASSUME TypeOK, TypeOK', result' = result,
           \A d \in Callers : heard'[d].frames = heard[d].frames,
           NEW c \in Callers, \A d \in Callers \ {c} : pc'[d] = pc[d],
           Phase(c)' = Phase(c)
    PROVE  UNCHANGED Contract!vars
<1>1. \A d \in Callers :
         Given(d)' = Given(d) /\ Phase(d)' = Phase(d) /\ Reached(d)' = Reached(d)
  BY DEF Given, Phase, Reached
<1> QED BY <1>1, UnseenMaps

\* Every step of the channel is a step of the contract or is not seen.
LEMMA NextMaps ==
    ASSUME IInv, IInv', [Next]_vars
    PROVE  Contract!Next \/ UNCHANGED Contract!vars
<1>1. TypeOK /\ TypeOK' /\ LockInv
  BY DEF IInv
<1>2. CASE UNCHANGED vars
  BY <1>2, UnseenMaps DEF vars, Phase, Given, Reached
<1>3. CASE CardChanges
  BY <1>3, UnseenMaps DEF CardChanges, Phase, Given, Reached
<1>4. ASSUME NEW c \in Callers, ChannelStep(c)
      PROVE  Contract!Next \/ UNCHANGED Contract!vars
  <2>1. CASE BeginAdmit(c) \/ ResetAdmit(c)
    BY <2>1, AdmitMaps
  <2>2. CASE CallbackRefused(c)
    BY <2>2, UnseenMaps DEF CallbackRefused, Phase, Given, Reached
  <2>3. CASE PlanExchange(c) \/ FrameToTransport(c) \/ ResponseContinue(c)
    <3>1. /\ result' = result /\ heard' = heard
          /\ pc[c] \in {"admitted", "frame", "response"}
          /\ pc' = [pc EXCEPT ![c] = pc'[c]] /\ pc'[c] \in {"frame", "transport"}
      BY <1>1, <2>3 DEF PlanExchange, FrameToTransport, ResponseContinue, TypeOK
    <3>2. Phase(c)' = Phase(c)
      BY <1>1, <3>1, Phases DEF Phase
    <3> QED BY <1>1, <3>1, <3>2, InnerMaps DEF TypeOK
  <2>4. CASE PlanRefused(c) \/ FrameInterrupted(c) \/ FrameTooLarge(c)
             \/ ResponseBad(c)
    <3>3. /\ NormalizeDelivery("not_sent", tx.sentAny) \in {"not_sent", "unknown"}
          /\ (IF tx.sentAny THEN "unknown" ELSE "not_sent") \in {"not_sent", "unknown"}
      BY DEF NormalizeDelivery
    <3>1. PICK code, o : o \in {"not_sent", "unknown"} /\ Return(c, Error(code, o))
      BY <2>4, <3>3, Zenon DEF PlanRefused, FrameInterrupted, FrameTooLarge, ResponseBad
    <3>2. Inside(c) /\ heard' = heard
      BY <2>4 DEF PlanRefused, FrameInterrupted, FrameTooLarge, ResponseBad, Inside
    <3> QED BY <3>1, <3>2, ReleaseMaps DEF Error
  <2>5. CASE ResponseFinal(c)
    <3>1. Return(c, [code |-> "ok", outcome |-> "succeeded",
                     size |-> Received.assembled])
      BY <2>5 DEF ResponseFinal
    <3>2. Inside(c) /\ pc[c] = "response" /\ heard' = heard
      BY <2>5 DEF ResponseFinal, Inside
    <3>3. heard[c].frames > 0
      BY <3>2, <1>1 DEF IInv, OpInv, OneOp, Responded, After, Counted, TypeOK, TxType
    <3> QED BY <3>1, <3>2, <3>3, ReleaseMaps
  <2> QED BY <1>4, <2>1, <2>2, <2>3, <2>4, <2>5 DEF ChannelStep
<1>5. ASSUME NEW c \in Callers, TransportStep(c)
      PROVE  Contract!Next \/ UNCHANGED Contract!vars
  <2>1. CASE CardHears(c)
    BY <2>1, HearsMaps
  <2>2. CASE \E w \in WireResponses : CardAnswers(c, w)
    <3>1. /\ result' = result /\ pc[c] = "transport"
          /\ pc' = [pc EXCEPT ![c] = pc'[c]] /\ pc'[c] = "response"
          /\ \A d \in Callers : heard'[d].frames = heard[d].frames
      BY <1>1, <2>2 DEF CardAnswers, TypeOK, HeardType
    <3>2. Phase(c)' = Phase(c)
      BY <1>1, <3>1, Phases DEF Phase
    <3> QED BY <1>1, <3>1, <3>2, InnerMaps DEF TypeOK
  <2>3. CASE \E o \in {"not_sent", "unknown"} : TransportFails(c, o)
    <3>3. \A o \in {"not_sent", "unknown"} :
             NormalizeDelivery(o, tx.sentAny) \in {"not_sent", "unknown"}
      BY DEF NormalizeDelivery
    <3>1. PICK code, o : o \in {"not_sent", "unknown"} /\ Return(c, Error(code, o))
      BY <2>3, <3>3, Zenon DEF TransportFails
    <3>2. Inside(c) /\ heard' = heard
      BY <2>3 DEF TransportFails, Inside
    <3> QED BY <3>1, <3>2, ReleaseMaps DEF Error
  <2>4. CASE ResetReturn(c)
    <3>1. PICK o \in {"succeeded", "not_sent", "unknown"} :
             Return(c, [code |-> IF o = "succeeded" THEN "ok" ELSE "transport",
                        outcome |-> o, size |-> 0])
      BY <2>4, Zenon DEF ResetReturn
    <3>2. Inside(c) /\ pc[c] = "resetting" /\ heard' = heard
      BY <2>4 DEF ResetReturn, Inside
    <3> QED BY <3>1, <3>2, ReleaseMaps DEF Error
  <2> QED BY <1>5, <2>1, <2>2, <2>3, <2>4 DEF TransportStep
<1>6. ASSUME NEW c \in Callers, CallerStep(c)
      PROVE  Contract!Next \/ UNCHANGED Contract!vars
  <2>1. CASE BeginRefused(c)
    BY <2>1, RefusedMaps
  <2>2. CASE BeginLock(c) \/ ResetLock(c)
    <3>1. /\ result' = result /\ heard' = heard /\ pc[c] = "idle"
          /\ pc' = [pc EXCEPT ![c] = pc'[c]] /\ pc'[c] \in {"locking", "reset_locking"}
      BY <1>1, <2>2 DEF BeginLock, ResetLock, TypeOK
    <3>2. Phase(c)' = Phase(c)
      BY <1>1, <3>1, Phases DEF Phase
    <3> QED BY <1>1, <3>1, <3>2, InnerMaps DEF TypeOK
  <2>3. CASE StopRequested(c) \/ CallbackReenters(c)
    BY <2>3, UnseenMaps DEF StopRequested, CallbackReenters, Phase, Given, Reached
  <2> QED BY <1>6, <2>1, <2>2, <2>3 DEF CallerStep
<1>7. ASSUME NEW c \in Callers, DeadlinePasses(c) PROVE UNCHANGED Contract!vars
  BY <1>7, UnseenMaps DEF DeadlinePasses, Phase, Given, Reached
<1>8. CASE AllReturned
  BY <1>8, UnseenMaps DEF AllReturned, vars, Phase, Given, Reached
<1> QED BY <1>2, <1>3, <1>4, <1>5, <1>6, <1>7, <1>8 DEF Next

\* What NativeChannel does, seen from the layers above, is allowed by the exchange
\* contract: calls one at a time, not_sent only of calls no card heard, succeeded
\* only of calls a card did hear, one return for each call.
THEOREM ImplementsExchangeContract == Spec => Contract!Spec
<1>1. ASSUME Init PROVE Contract!Init
  <2>1. \A c \in Callers : Phase(c) = "idle" /\ Reached(c) = FALSE /\ Given(c) = "none"
    <3>1. \A c \in Callers : Phase(c) = "idle"
      BY <1>1, InitIInv, Phases DEF IInv, Init
    <3>2. \A c \in Callers : heard[c].frames = 0 /\ result[c].outcome = "none"
      BY <1>1 DEF Init, NoResult, Unheard, None
    <3>3. \A c \in Callers : Reached(c) = FALSE
      <4>1. (0 > 0) = FALSE
        OBVIOUS
      <4> QED BY <3>2, <4>1, Zenon DEF Reached
    <3> QED BY <3>1, <3>2, <3>3 DEF Given
  <2>2. /\ [c \in Callers |-> Phase(c)] = [c \in Callers |-> "idle"]
        /\ [c \in Callers |-> Reached(c)] = [c \in Callers |-> FALSE]
        /\ [c \in Callers |-> Given(c)] = [c \in Callers |-> "none"]
    BY <2>1
  <2> QED BY <2>2, Zenon DEF Contract!Init, Phase, Reached, Given
<1>2. IInv /\ IInv' /\ [Next]_vars => [Contract!Next]_Contract!vars
  BY NextMaps
<1>3. Spec => []IInv
  BY Invariance
<1> QED BY <1>1, <1>2, <1>3, PTL DEF Spec, Contract!Spec

=============================================================================
