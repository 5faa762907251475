------------------------------- MODULE MCCApi -------------------------------
(***************************************************************************)
(* The two families of entry points of the C API, ManagedApi and           *)
(* RawHandle, against the promises they share.  A handle is managed or     *)
(* raw, so one of the two runs and the variables of the other stand still. *)
(***************************************************************************)
EXTENDS ManagedApi, TLC

CONSTANTS
    Threads,        \* host threads of the raw handle
    MaxGeneration,  \* bound on the generations of its transport
    MaxCount,       \* bound on the commands of one session
    Unused          \* the value of a variable of the component that does not run

VARIABLES
    family,
    framing, generation, present, card, sessions, bound, owner, pc, call, op, result, raced

managedOnly == <<stack, active, retained, buffers, out, info>>
rawOnly == <<framing, generation, present, card, sessions, bound, owner, pc, call, op, result,
             raced>>

Raw == INSTANCE RawHandle

ASSUME RawAssumption == Raw!ConstantsAssumption

\* One managed entry point of each shape, for the calls from inside callbacks.
MCNestedEntries ==
    {df_close, df_cancel, df_read_data, df_authenticate_ev2_first_aes_provider}

Symmetry == Permutations(Threads)

RawInit ==
    /\ family = "raw" /\ Raw!Init
    /\ stack = Unused /\ active = Unused /\ retained = Unused
    /\ buffers = Unused /\ out = Unused /\ info = Unused

ManagedInit ==
    /\ family = "managed" /\ Init
    /\ framing = Unused /\ generation = Unused /\ present = Unused /\ card = Unused
    /\ sessions = Unused /\ bound = Unused /\ owner = Unused /\ pc = Unused
    /\ call = Unused /\ op = Unused /\ result = Unused /\ raced = Unused

ApiInit == RawInit \/ ManagedInit

RawNext == family = "raw" /\ Raw!Next /\ UNCHANGED <<family, managedOnly>>
ManagedNext == family = "managed" /\ Next /\ UNCHANGED <<family, rawOnly>>

ApiNext == RawNext \/ ManagedNext

ApiSpec == ApiInit /\ [][ApiNext]_<<family, closed, managedOnly, rawOnly>>

-----------------------------------------------------------------------------
\* The state has the shape the code gives it, and the marker of the entry is
\* set exactly while one call is inside its lock.
ApiTypeOK ==
    /\ family = "raw" => Raw!TypeOK
    /\ family = "managed" => TypeOK

\* not_sent is said only of a call of which no card heard anything, in every
\* entry point of the ABI: of a raw exchange at any frame, and of a managed
\* call refused for an argument, an output, a provider or its handle.
ApiNotSentUnheard ==
    /\ family = "raw" => Raw!NotSentUnheard
    /\ family = "managed" => NotSentUnheard

\* A raw handle keeps at most one session, bound to a generation, in step with
\* the card while the card holds it, and a card exchanged between two calls is
\* noticed; a closed handle keeps none.
RawSessionsAgree ==
    family = "raw" =>
        /\ Raw!BindingAgrees /\ Raw!SessionsInStep
        /\ Raw!IdleChangeNoticed /\ Raw!ClosedKeepsNothing

\* Every retain of a provider and every df_buffer of a managed call is owned
\* once, and a callback that calls the ABI again stays outside the lock:
\* refusals, exceptions and failures in the middle leak and free nothing.
ApiNothingLeaks ==
    family = "managed" => NothingLeaks /\ ReentryStaysOut

\* The caller's buffer pointer and authentication information are those of a
\* call that succeeded, untouched or cleared after one that failed.
ApiOutputsAreOwn ==
    family = "managed" => OutputFollowsResult /\ InfoIsOwn

-----------------------------------------------------------------------------
\* What docs/architecture/transport-lifecycle.md:11 says, and raw.cpp does not
\* keep: a secure exchange that succeeds was answered by the card the session
\* authenticated.
RawSuccessOnOwnCard == family = "raw" => Raw!SuccessOnOwnCard

=============================================================================
