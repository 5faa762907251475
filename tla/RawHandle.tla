----------------------------- MODULE RawHandle ------------------------------
(***************************************************************************)
(* One raw channel handle of the C API (c-api/src/raw.cpp): the sessions a *)
(* RawEntry keeps, the generation they are bound to, and the calls that    *)
(* install, use and erase them while other threads close the handle and    *)
(* report that the card has changed.                                       *)
(*                                                                         *)
(* The channels below (NativeChannel, IsoChannel) appear as what they      *)
(* promise: a transaction takes the generation when it begins, compares it *)
(* before and after every frame, and a failure says not_sent only while    *)
(* the card has heard nothing.  A handshake is a number of frames, the     *)
(* last of which authenticates the card; session keys are numbers that     *)
(* nobody else holds.                                                      *)
(***************************************************************************)
EXTENDS Integers, FiniteSets

CONSTANTS
    Threads,        \* host threads
    MaxGeneration,  \* bound on the generations of the transport
    MaxCount        \* bound on the commands of one session

None == "none"
Profiles == {"standard", "ev2", "iso"}

(***************************************************************************)
(* What each entry point of raw.cpp does, in the terms of the actions      *)
(* below.                                                                  *)
(*   layer     the channel it needs: every handle has the native one, only *)
(*             an ISO 7816 transport has the other;                        *)
(*   erases    it clears the sessions before it does anything else;        *)
(*   needs     it requires a current session, of this profile;             *)
(*   provider  the key comes from a callback, resolved under the lock;     *)
(*   frames    exchanges it takes, at most;                                *)
(*   installs  the profile of the session a success stores;                *)
(*   carries   that session continues the count of the one it replaces;    *)
(*   verified  the answer is MACed or enciphered, for ISO a read;          *)
(*   ends      invalidates_session.                                        *)
(***************************************************************************)
Nothing ==
    [layer |-> "native", erases |-> FALSE, needs |-> None, provider |-> FALSE, frames |-> 0,
     installs |-> None, carries |-> FALSE, verified |-> FALSE, ends |-> FALSE]

\* Mutation: a raw frame leaves the session standing.
RawFrameKeeping == [Nothing EXCEPT !.frames = 1]

df_raw_native_frame == [Nothing EXCEPT !.erases = TRUE, !.frames = 1]
df_raw_native_exchange == [Nothing EXCEPT !.erases = TRUE, !.frames = 1]
df_raw_iso_exchange == [Nothing EXCEPT !.layer = "iso", !.erases = TRUE, !.frames = 1]

Authenticate(profile) ==
    [Nothing EXCEPT !.layer = IF profile = "iso" THEN "iso" ELSE "native", !.erases = TRUE,
                    !.frames = IF profile = "iso" THEN 3 ELSE 2, !.installs = profile]
FromProvider(c) == [c EXCEPT !.provider = TRUE]

df_raw_authenticate_standard_aes == Authenticate("standard")
df_raw_authenticate_standard_aes_provider == FromProvider(Authenticate("standard"))
df_raw_authenticate_ev2_first_aes == Authenticate("ev2")
df_raw_authenticate_ev2_first_aes_provider == FromProvider(Authenticate("ev2"))
df_raw_authenticate_iso_aes == Authenticate("iso")
df_raw_authenticate_iso_aes_provider == FromProvider(Authenticate("iso"))

df_raw_authenticate_ev2_non_first_aes ==
    [Nothing EXCEPT !.needs = "ev2", !.frames = 2, !.installs = "ev2", !.carries = TRUE]
df_raw_authenticate_ev2_non_first_aes_provider ==
    FromProvider(df_raw_authenticate_ev2_non_first_aes)

df_raw_iso_secure_exchange(verified) ==
    [Nothing EXCEPT !.layer = "iso", !.needs = "iso", !.frames = 1, !.verified = verified]
df_raw_native_secure_exchange(profile, verified, ends) ==
    [Nothing EXCEPT !.needs = profile, !.frames = 1, !.verified = verified, !.ends = ends]

df_raw_reset == [Nothing EXCEPT !.layer = "any", !.erases = TRUE]
df_raw_close == [Nothing EXCEPT !.layer = "any"]

Calls ==
    {df_raw_native_frame, df_raw_native_exchange, df_raw_iso_exchange, df_raw_reset,
     df_raw_authenticate_standard_aes, df_raw_authenticate_standard_aes_provider,
     df_raw_authenticate_ev2_first_aes, df_raw_authenticate_ev2_first_aes_provider,
     df_raw_authenticate_iso_aes, df_raw_authenticate_iso_aes_provider,
     df_raw_authenticate_ev2_non_first_aes, df_raw_authenticate_ev2_non_first_aes_provider,
     df_raw_close}
    \cup {df_raw_iso_secure_exchange(v) : v \in BOOLEAN}
    \cup {df_raw_native_secure_exchange(p, v, e) :
            p \in {"standard", "ev2"}, v \in BOOLEAN, e \in BOOLEAN}

ConstantsAssumption ==
    /\ MaxGeneration \in Nat \ {0} /\ MaxCount \in Nat
    /\ None \notin Threads

VARIABLES
    framing,     \* capabilities().framing: "native" or "iso7816"
    generation,  \* CallbackTransport::generation_
    present,     \* the card in the field, numbered
    card,        \* what that card holds: its session and the commands it counted
    sessions,    \* RawEntry: standard_session, ev2_session, iso_session
    bound,       \* RawEntry::session_generation
    owner,       \* the thread that holds RawEntry::operation with active set
    closed,      \* RawEntry::closed, and the handle is erased
    pc, call,    \* where each thread is, and in which call
    op,          \* the locals of the owner's operation
    result,      \* what the last call that ended returned
    raced        \* ghost: the card changed while an operation was running, since
                 \* the last authentication began

entry == <<sessions, bound, closed>>
vars == <<framing, generation, present, card, sessions, bound, owner, closed,
          pc, call, op, result, raced>>

NoSession == [id |-> 0, card |-> 0, count |-> 0, generation |-> 0]
NoAuth == [id |-> 0, profile |-> None, count |-> 0]
NoOp == [generation |-> 0, left |-> 0, sent |-> FALSE, heard |-> 0, id |-> 0,
         count |-> 0, card |-> 0, answer |-> None]
NoResult == [code |-> None, outcome |-> None, heard |-> 0, own |-> TRUE, raced |-> FALSE]

\* clear_sessions().
Cleared == [p \in Profiles |-> NoSession]

Init ==
    /\ framing \in {"native", "iso7816"}
    /\ generation = 1 /\ present = 1 /\ card = NoAuth
    /\ sessions = Cleared /\ bound = 0
    /\ owner = None /\ closed = FALSE
    /\ pc = [t \in Threads |-> "idle"]
    /\ call = [t \in Threads |-> Nothing]
    /\ op = NoOp
    /\ result = NoResult
    /\ raced = FALSE

-----------------------------------------------------------------------------
(***************************************************************************)
(* Entering a call.  lookup_raw() comes first; the entry it returns may be *)
(* closed before its lock is tried.                                        *)
(***************************************************************************)
Goto(t, label) == pc' = [pc EXCEPT ![t] = label]

Ends(t, r) ==
    /\ Goto(t, "idle")
    /\ call' = [call EXCEPT ![t] = Nothing]
    /\ result' = r

Return(t, r) == Ends(t, r) /\ op' = NoOp

Fails(t, code, outcome) ==
    Return(t, [code |-> code, outcome |-> outcome, heard |-> op.heard, own |-> TRUE,
               raced |-> raced])

Refused(t, code) ==
    /\ Ends(t, [NoResult EXCEPT !.code = code, !.outcome = "not_sent"])
    /\ UNCHANGED <<op, owner>>

field == <<framing, generation, present, card, raced>>

Lookup(t) ==
    /\ pc[t] = "idle"
    /\ \/ /\ ~closed
          /\ \E c \in Calls : call' = [call EXCEPT ![t] = c]
          /\ Goto(t, "looked")
          /\ UNCHANGED <<op, result, owner>>
       \/ closed /\ Refused(t, "stale_handle")
    /\ UNCHANGED <<field, entry>>

\* Mutation: an operation that found the entry before it was closed runs on it.
MayRunClosed(t) == owner = None

\* Mutation: the lock is not tried.
MayRunAlways(t) == ~closed

MayRun(t) == owner = None /\ ~closed

\* try_lock fails, or a callback comes back in: busy.  The handle is closed.
NotAdmitted(t) ==
    /\ pc[t] = "looked" /\ ~MayRun(t)
    /\ Refused(t, IF owner # None THEN "busy" ELSE "stale_handle")
    /\ UNCHANGED <<field, entry>>

Close(t) ==
    /\ pc[t] = "looked" /\ call[t] = df_raw_close /\ MayRun(t)
    /\ closed' = TRUE /\ sessions' = Cleared /\ bound' = 0
    /\ Return(t, [NoResult EXCEPT !.code = "ok"])
    /\ UNCHANGED <<field, owner>>

Supported(c) == c.layer = "iso" => framing = "iso7816"

\* Mutation: the session is current whatever the generation is.
CurrentUnbound == bound # 0

\* require_current_session().
Current == bound # 0 /\ bound = generation

\* A call that erases the sessions before it does anything else.
AdmitErasing(t) ==
    LET c == call[t] IN
    /\ pc[t] = "looked" /\ MayRun(t) /\ c.needs = None /\ c # df_raw_close
    /\ \/ ~Supported(c) /\ Refused(t, "unsupported") /\ UNCHANGED <<entry, raced>>
       \/ /\ Supported(c)
          /\ sessions' = IF c.erases THEN Cleared ELSE sessions
          /\ bound' = IF c.erases THEN 0 ELSE bound
          /\ owner' = t
          /\ raced' = (raced /\ c.installs = None)
          /\ Goto(t, IF c.provider THEN "resolve" ELSE "begin")
          /\ UNCHANGED <<closed, op, result, call>>
    /\ UNCHANGED <<framing, generation, present, card>>

\* A call that needs a session: secure exchanges and EV2 NonFirst.  NonFirst
\* takes counter and transaction identifier out of the session and drops it.
\* Session::execute() of an ISO session compares its own generation as well.
AdmitWithSession(t) ==
    LET c == call[t]
        s == sessions[c.needs]
        earlier == c.needs = "iso" /\ s.generation # generation
    IN
    /\ pc[t] = "looked" /\ MayRun(t) /\ c.needs # None
    /\ \/ /\ ~Current
          /\ sessions' = Cleared /\ bound' = 0
          /\ Refused(t, "session_invalid")
       \/ /\ Current /\ s = NoSession
          /\ Refused(t, "session_invalid")
          /\ UNCHANGED <<sessions, bound>>
       \/ /\ Current /\ s # NoSession /\ earlier
          /\ sessions' = [sessions EXCEPT !.iso = NoSession] /\ bound' = 0
          /\ Refused(t, "card_removed")
       \/ /\ Current /\ s # NoSession /\ ~earlier
          /\ owner' = t
          /\ op' = [NoOp EXCEPT !.id = s.id, !.count = s.count]
          /\ sessions' = IF c.carries THEN [sessions EXCEPT !.ev2 = NoSession] ELSE sessions
          /\ Goto(t, IF c.provider THEN "resolve" ELSE "begin")
          /\ UNCHANGED <<bound, result, call>>
    /\ UNCHANGED <<field, closed>>

-----------------------------------------------------------------------------
(***************************************************************************)
(* What a failure leaves behind.                                           *)
(***************************************************************************)
\* Mutation: a failed NonFirst leaves its generation bound.
AfterFailureBound(t, outcome) ==
    LET c == call[t]
        kept == c.needs = "iso" /\ outcome = "not_sent"
    IN  IF c.needs # None /\ ~c.carries
        THEN IF kept THEN UNCHANGED <<sessions, bound>>
             ELSE sessions' = [sessions EXCEPT ![c.needs] = NoSession] /\ bound' = 0
        ELSE UNCHANGED <<sessions, bound>>

\* A native session is dropped, an ISO one unless nothing was sent; NonFirst
\* clears everything.
AfterFailure(t, outcome) ==
    LET c == call[t]
        kept == c.needs = "iso" /\ outcome = "not_sent"
    IN  IF c.needs # None /\ ~c.carries
        THEN IF kept THEN UNCHANGED <<sessions, bound>>
             ELSE sessions' = [sessions EXCEPT ![c.needs] = NoSession] /\ bound' = 0
        ELSE IF c.carries THEN sessions' = Cleared /\ bound' = 0
        ELSE UNCHANGED <<sessions, bound>>

Abandon(t, code, outcome) ==
    /\ Fails(t, code, outcome)
    /\ AfterFailure(t, outcome)
    /\ owner' = None
    /\ UNCHANGED <<field, closed>>

\* KeyProviderAdapter::resolve(): the host's callback delivers or fails.
ResolveKey(t) ==
    /\ pc[t] = "resolve"
    /\ \/ Abandon(t, "crypto", "not_sent")
       \/ Goto(t, "begin") /\ UNCHANGED <<field, entry, owner, call, op, result>>

\* RawNativeChannel::begin(), or the Budget of an ISO exchange.
Begin(t) ==
    /\ pc[t] = "begin" /\ call[t].frames > 0
    /\ op' = [op EXCEPT !.generation = generation, !.left = call[t].frames]
    /\ Goto(t, "frame")
    /\ UNCHANGED <<field, entry, owner, call, result>>

\* CallbackTransport::reset() advances the generation before it calls out.
ResetTransport(t) ==
    /\ pc[t] = "begin" /\ call[t].frames = 0 /\ generation < MaxGeneration
    /\ generation' = generation + 1
    /\ card' = NoAuth
    /\ \E code \in {"ok", "transport"} :
          Return(t, [NoResult EXCEPT !.code = code, !.outcome = "unknown", !.heard = 1])
    /\ owner' = None
    /\ UNCHANGED <<framing, present, raced, entry>>

-----------------------------------------------------------------------------
(***************************************************************************)
(* Frames.  Each is refused when the generation has moved, lost on the way *)
(* out or back (cancelled, timed out, refused by the card or garbled), or  *)
(* heard by the card that is present then.                                 *)
(***************************************************************************)
\* Mutation: a later frame that is not sent hides that an earlier one was.
LostOutcomeOwn(answered) == IF answered THEN "unknown" ELSE "not_sent"

LostOutcome(answered) == IF answered \/ op.sent THEN "unknown" ELSE "not_sent"

FrameNotSent(t) ==
    /\ pc[t] = "frame"
    /\ Abandon(t, IF generation # op.generation THEN "card_removed" ELSE "transport",
               LostOutcome(FALSE))

AnswerLost(t) ==
    /\ pc[t] = "heard"
    /\ Abandon(t, IF generation # op.generation THEN "card_removed" ELSE "transport",
               LostOutcome(TRUE))

\* What the card in the field may do with a frame: what it holds afterwards
\* and how its answer looks to the session.  A protected command needs the
\* session; any other one the card may also take without.
Handshake(c) == c.installs # None

\* A session number nobody holds.
Fresh == CHOOSE n \in 1..5 : n \notin {card.id, op.id} \cup {sessions[p].id : p \in Profiles}

CardTakes(t) ==
    LET c == call[t]
        mine == card.id = op.id /\ card.id # 0
        counted == [card EXCEPT !.count = @ + 1]
        dropped == [held |-> NoAuth, answer |-> "rejected"]
    IN  CASE Handshake(c) ->
               {[answer |-> "proof",
                 held |-> IF op.left > 1 THEN NoAuth
                          ELSE [id |-> Fresh, profile |-> c.installs,
                                count |-> IF c.carries THEN op.count ELSE 0]]}
          [] ~Handshake(c) /\ c.needs # None /\ mine ->
               {dropped} \cup
               IF c.verified /\ card.count # op.count THEN {}
               ELSE {[held |-> IF card.profile # "iso" \/ c.verified THEN counted ELSE card,
                      answer |-> "verified"]}
          [] ~Handshake(c) /\ c.needs # None /\ ~mine ->
               {dropped} \cup IF c.verified THEN {} ELSE {[held |-> card, answer |-> "plain"]}
          [] OTHER ->
               {[held |-> NoAuth, answer |-> "plain"],
                [held |-> IF card.id = 0 THEN card ELSE counted, answer |-> "plain"]}

FrameHeard(t) ==
    /\ pc[t] = "frame" /\ generation = op.generation
    /\ call[t].needs # None /\ ~Handshake(call[t]) => op.count < MaxCount
    /\ \E a \in CardTakes(t) :
          /\ a.held.count <= MaxCount
          /\ card' = a.held
          /\ op' = [op EXCEPT !.answer = a.answer, !.heard = @ + 1, !.card = present,
                              !.id = IF Handshake(call[t]) /\ op.left = 1 THEN Fresh ELSE @]
    /\ Goto(t, "heard")
    /\ UNCHANGED <<framing, generation, present, raced, entry, owner, call, result>>

-----------------------------------------------------------------------------
(***************************************************************************)
(* The answer arrives.                                                     *)
(***************************************************************************)
NextFrame(t) ==
    /\ pc[t] = "heard" /\ generation = op.generation /\ op.left > 1
    /\ op' = [op EXCEPT !.left = @ - 1, !.sent = TRUE]
    /\ Goto(t, "frame")
    /\ UNCHANGED <<field, entry, owner, call, result>>

\* The last frame of a handshake is verified; the session is not stored yet.
HandshakeEnds(t) ==
    /\ pc[t] = "heard" /\ generation = op.generation /\ op.left = 1
    /\ Handshake(call[t])
    /\ Goto(t, "bind")
    /\ UNCHANGED <<field, entry, owner, call, op, result>>

FirstCount(t) == IF call[t].carries THEN op.count ELSE 0

\* The new session is stored and bound to the generation read NOW.
Bind(t) ==
    /\ pc[t] = "bind"
    /\ sessions' = [sessions EXCEPT ![call[t].installs] =
                      [id |-> op.id, card |-> op.card, count |-> FirstCount(t),
                       generation |-> op.generation]]
    /\ bound' = generation
    /\ Return(t, [code |-> "ok", outcome |-> "succeeded", heard |-> op.heard,
                  own |-> TRUE, raced |-> raced])
    /\ owner' = None
    /\ UNCHANGED <<field, closed>>

\* Accepted without a look at who sent it, or verified by the session.
Accepts(c) ==
    op.answer = "verified" \/ (op.answer = "plain" /\ ~c.verified)

SecureReturns(t) ==
    LET c == call[t]
        s == sessions[c.needs]
        counts == c.needs # "iso" \/ c.verified
        moved == c.needs = "iso" /\ c.verified /\ s.generation # generation
    IN
    /\ pc[t] = "heard" /\ generation = op.generation /\ c.needs # None /\ ~Handshake(c)
    /\ \/ /\ ~Accepts(c)
          /\ Abandon(t, IF op.answer = "rejected" THEN "card_rejected" ELSE "integrity", "unknown")
       \/ /\ Accepts(c) /\ moved
          /\ Abandon(t, "card_removed", "unknown")
       \/ /\ Accepts(c) /\ ~moved
          /\ sessions' = [sessions EXCEPT ![c.needs] =
                            IF c.ends THEN NoSession
                            ELSE [s EXCEPT !.count = IF counts THEN @ + 1 ELSE @]]
          /\ bound' = IF c.ends THEN 0 ELSE bound
          /\ Return(t, [code |-> "ok", outcome |-> "succeeded", heard |-> 1,
                        own |-> op.card = s.card, raced |-> raced])
          /\ owner' = None
          /\ UNCHANGED <<field, closed>>

RawReturns(t) ==
    /\ pc[t] = "heard" /\ generation = op.generation
    /\ call[t].needs = None /\ ~Handshake(call[t])
    /\ Return(t, [code |-> "ok", outcome |-> "succeeded", heard |-> 1,
                  own |-> TRUE, raced |-> raced])
    /\ owner' = None
    /\ UNCHANGED <<field, entry>>

-----------------------------------------------------------------------------
(***************************************************************************)
(* The field: the card leaves and another one comes, or the host only      *)
(* believes so (df_raw_notify_state_change).                               *)
(***************************************************************************)
CardChanges ==
    /\ generation < MaxGeneration
    /\ \/ present' = present + 1 /\ card' = NoAuth
       \/ UNCHANGED <<present, card>>
    /\ generation' = generation + 1
    /\ raced' = (raced \/ owner # None)
    /\ UNCHANGED <<framing, entry, owner, pc, call, op, result>>

Next ==
    \/ \E t \in Threads :
          \/ Lookup(t) \/ NotAdmitted(t) \/ Close(t)
          \/ AdmitErasing(t) \/ AdmitWithSession(t)
          \/ ResolveKey(t) \/ Begin(t) \/ ResetTransport(t)
          \/ FrameNotSent(t) \/ FrameHeard(t) \/ AnswerLost(t)
          \/ NextFrame(t) \/ HandshakeEnds(t) \/ Bind(t)
          \/ SecureReturns(t) \/ RawReturns(t)
    \/ CardChanges

Spec == Init /\ [][Next]_vars

-----------------------------------------------------------------------------
SessionType == [id : Nat, card : Nat, count : Nat, generation : Nat]

\* The state has the shape the code gives it.
TypeOK ==
    /\ generation \in 1..MaxGeneration /\ present \in Nat
    /\ card \in [id : Nat, profile : Profiles \cup {None}, count : 0..MaxCount]
    /\ sessions \in [Profiles -> SessionType] /\ bound \in 0..MaxGeneration
    /\ owner \in Threads \cup {None} /\ closed \in BOOLEAN
    /\ \A t \in Threads : pc[t] \in {"resolve", "begin", "frame", "heard", "bind"} <=> owner = t

AtRest == owner = None

\* Between operations the entry keeps at most one session, and a generation
\* exactly when it keeps one: no failure path of raw.cpp leaves a session
\* without its binding, a binding without a session, or two sessions behind.
BindingAgrees ==
    AtRest =>
        /\ Cardinality({p \in Profiles : sessions[p] # NoSession}) <= 1
        /\ bound # 0 <=> \E p \in Profiles : sessions[p] # NoSession

\* While the card still holds the session the entry keeps, both have counted
\* the same commands: raw commands, failures and NonFirst never leave a
\* session behind that the card would refuse or misread.
SessionsInStep ==
    AtRest => \A p \in Profiles :
        (sessions[p] # NoSession /\ card.id = sessions[p].id) => card.count = sessions[p].count

\* A card that is exchanged between two operations is always noticed: a secure
\* exchange succeeds on another card than the authenticated one only if the
\* card changed while one of the session's operations was running.
IdleChangeNoticed == result.own \/ result.raced

\* not_sent is said only of a call of which no card heard anything.
NotSentUnheard == result.outcome = "not_sent" => result.heard = 0

\* A closed handle keeps no keys, and no operation that had looked the entry up
\* before runs on it afterwards.
ClosedKeepsNothing == closed => owner = None /\ sessions = Cleared /\ bound = 0

\* "Managed and raw operations compare the generation before and after I/O and
\* invalidate selection and authentication when it changes"
\* (docs/architecture/transport-lifecycle.md:11): a secure exchange that
\* succeeds was answered by the card the session authenticated.  The generation
\* a session is bound to is read after the handshake (raw.cpp:580), and the one
\* a transaction compares is read after require_current_session (raw.cpp:968),
\* so a change in either gap goes unnoticed.
SuccessOnOwnCard == result.own
=============================================================================
