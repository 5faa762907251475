----------------------------- MODULE ManagedApi -----------------------------
(***************************************************************************)
(* The managed entry points of the C ABI: c-api/src/native.cpp, iso.cpp,   *)
(* managed_extended.cpp, managed_advanced.cpp and the unlocked ones of     *)
(* runtime.cpp.                                                            *)
(*                                                                         *)
(* Every entry point is a straight line of steps, and each step may end    *)
(* the call: a conversion of an argument, the builder of a checked         *)
(* command, invoke() with its lock and its re-entry marker, output_bytes() *)
(* with its allocation, a key provider's retain, resolve and release, the  *)
(* card operation.  An entry point is therefore the sequence of its steps, *)
(* in the order of its code; the actions below run one step of the call on *)
(* top of the stack, and any step may also throw, which boundary() turns   *)
(* into DF_INTERNAL with an unknown outcome.                               *)
(*                                                                         *)
(* The steps that hand control to the host (is_cancelled, retain, resolve, *)
(* release, derive, and the reader's callbacks inside a card operation)    *)
(* are where the host may call the ABI again on the same handle.  What the *)
(* card operation does is the business of ManagedCard; here it has heard   *)
(* the reader or not, and ends with an outcome.  The interleaving of two   *)
(* threads on a handle is the business of HandleRegistry.                  *)
(***************************************************************************)
EXTENDS Integers, Sequences

CONSTANTS
    NestedEntries,  \* the entry points the host's callbacks call
    MaxDepth        \* bound: calls inside callbacks of calls

VARIABLES
    stack,     \* the calls under way, the innermost last
    closed,    \* the handle has left the registry
    active,    \* the entry's operation lock is held and its marker is set
    retained,  \* retains of the provider context without their release
    buffers,   \* df_buffer objects that exist
    out,       \* what the df_buffer* of the caller at a depth points to
    info       \* what the df_authentication_info_v1 of that caller holds

vars == <<stack, closed, active, retained, buffers, out, info>>

-----------------------------------------------------------------------------
(* The shapes the entry points share.                                      *)

\* invoke() around conversions, a builder and a card operation without output.
Mutation(arguments) == <<"enter">> \o arguments \o <<"built", "card">>

\* The same with a df_buffer for the response.
Reading(arguments) ==
    <<"enter">> \o arguments \o <<"built", "alloc", "card", "deliver">>

\* The arguments are converted before invoke(); the Card builds the command.
CheckedFirst(arguments) == arguments \o <<"enter", "built", "card">>

\* A provider is checked and retained before invoke(); the Card resolves it.
Provided(checks, rest) ==
    checks \o <<"request", "adapter", "enter", "preflight", "resolve", "card">> \o rest

\* Card::authenticate_* with a master key and a deriver, below the C ABI.
Derived(checks) == <<"guard", "preflight">> \o checks \o <<"context", "derive", "card">>

-----------------------------------------------------------------------------
(* native.cpp                                                              *)

df_get_version == <<"enter", "alloc", "card", "encode", "deliver">>

\* Mutation: the output is looked at when there is something to write.
FreeMemoryLate == <<"enter", "card", "output", "store">>

df_free_memory == <<"enter", "output", "card", "store">>
df_select_application == <<"enter", "aid", "card">>
df_file_ids == <<"enter", "alloc", "card", "encode", "deliver">>
df_authenticate_standard_aes == <<"key_number", "import", "enter", "preflight", "card">>
df_authenticate_standard_aes_provider == Provided(<<>>, <<>>)
df_authenticate_ev2_first_aes ==
    <<"info", "key_number", "import", "enter", "preflight", "card", "publish">>
df_authenticate_ev2_first_aes_provider == Provided(<<"info">>, <<"publish">>)
df_authenticate_ev2_first_aes_with_capabilities ==
    <<"info", "bytes", "key_number", "import", "enter", "preflight", "card", "publish">>
df_authenticate_ev2_first_aes_with_capabilities_provider ==
    Provided(<<"info", "bytes">>, <<"publish">>)
df_authenticate_ev2_non_first_aes ==
    <<"info", "key_number", "import", "enter", "preflight", "card", "publish">>
df_authenticate_ev2_non_first_aes_provider == Provided(<<"info">>, <<"publish">>)
df_application_ids == Reading(<<>>)
df_iso_file_ids == Reading(<<>>)
df_get_key_settings == Reading(<<>>)
df_get_key_set_versions == Reading(<<>>)
df_get_card_uid == Reading(<<>>)
df_read_originality_signature == Reading(<<>>)
df_abort_transaction == Mutation(<<>>)
df_format_picc == Mutation(<<>>)
df_delete_file == Mutation(<<"file">>)
df_get_file_settings == Reading(<<"file">>)
df_clear_record_file == Mutation(<<"file">>)
df_get_file_counters == Reading(<<"file", "mode">>)
df_delete_application == Mutation(<<"aid">>)
df_change_key_settings == Mutation(<<"range">>)
df_get_key_version == Reading(<<"key_number", "range">>)
df_initialize_key_set == Mutation(<<"range">>)
df_roll_key_set == Mutation(<<"range">>)
df_finalize_key_set == Mutation(<<"range">>)
df_read_data == Reading(<<"file", "mode", "offset", "count">>)
df_write_data == Mutation(<<"file", "mode", "offset", "bytes">>)
df_write_record == Mutation(<<"file", "mode", "offset", "bytes">>)
df_read_records == Reading(<<"file", "mode", "offset", "count">>)
df_update_record == Mutation(<<"file", "mode", "offset", "offset", "bytes">>)
df_credit == Mutation(<<"file", "mode">>)
df_debit == Mutation(<<"file", "mode">>)
df_limited_credit == Mutation(<<"file", "mode">>)
df_get_value == <<"enter", "output", "file", "mode", "built", "card", "encode", "store">>
df_commit_transaction == Reading(<<"range">>)
df_commit_reader_id == Reading(<<"bytes">>)
df_create_application == Mutation(<<"aid", "range", "bytes">>)
df_create_data_file == Mutation(<<"file", "mode", "access", "count", "range">>)
df_create_value_file == Mutation(<<"file", "mode", "access", "range">>)
df_create_record_file == Mutation(<<"file", "mode", "access", "count", "count", "range">>)
df_change_file_settings == Mutation(<<"file", "mode", "access", "mode">>)
df_create_transaction_mac_file == Mutation(<<"file", "access", "bytes", "range">>)
df_change_aes_key == Mutation(<<"key_number", "key_number", "bytes", "bytes", "range">>)

-----------------------------------------------------------------------------
(* iso.cpp: a status other than 9000 is a rejection of the card operation. *)

df_iso_select_file == Reading(<<"range">>)
df_iso_select_df_name == Reading(<<"bytes", "range">>)
df_iso_read_binary == Reading(<<"range", "address">>)
df_iso_update_binary == Reading(<<"range", "address", "bytes">>)
df_iso_read_records == Reading(<<"range">>)
df_iso_append_record == Reading(<<"bytes">>)
df_iso_get_challenge == Reading(<<>>)
df_iso_external_authenticate == Reading(<<"iso_key", "bytes", "range">>)
df_iso_internal_authenticate == Reading(<<"iso_key", "bytes", "range">>)
df_authenticate_iso_aes == <<"enter", "iso_key", "import", "preflight", "card">>
df_authenticate_iso_aes_provider == Provided(<<"iso_key">>, <<>>)
df_iso_update_record ==
    <<"range", "bytes", "built", "enter", "alloc", "card", "deliver">>

-----------------------------------------------------------------------------
(* managed_extended.cpp and managed_advanced.cpp                           *)

df_get_df_names == <<"enter", "alloc", "card", "encode", "deliver">>
df_reset_authentication == <<"enter", "local">>
df_restore_transfer == CheckedFirst(<<"file", "file", "mode">>)
df_get_card_uid_variant ==
    <<"range", "enter", "alloc", "built", "card", "encode", "deliver">>
df_set_picc_configuration == CheckedFirst(<<"descriptor">>)
df_set_capability_configuration == CheckedFirst(<<"bytes", "range">>)
df_set_default_aes_key == CheckedFirst(<<"bytes", "range">>)
df_set_default_aes_key_provider ==
    <<"range", "request", "adapter", "enter", "resolve", "built", "card">>
df_set_ats == CheckedFirst(<<"bytes">>)
df_set_atqa == CheckedFirst(<<"range">>)
df_create_delegated_application ==
    CheckedFirst(<<"bytes", "bytes", "bytes", "aid", "range">>)
df_get_delegated_application_info ==
    <<"descriptor", "enter", "built", "card", "store">>
df_delete_delegated_application == CheckedFirst(<<"aid", "bytes">>)
df_create_transaction_mac_file_provider ==
    <<"file", "access", "range", "request", "adapter", "enter", "resolve", "built", "card">>
df_change_aes_key_provider ==
    <<"range", "key_number", "key_number", "request", "adapter", "request", "adapter",
      "enter", "resolve", "resolve", "built", "card">>
\* Without a provider for the old key.
df_change_aes_key_provider_own ==
    <<"range", "key_number", "key_number", "request", "adapter", "enter", "resolve",
      "built", "card">>
df_execute_transaction == <<"range", "plan", "alloc", "enter", "card", "deliver">>

-----------------------------------------------------------------------------
(* runtime.cpp: reset takes the lock, the others only look the handle up.  *)

df_reset == <<"enter", "card">>
df_cancel == <<"lookup", "cancel">>
df_notify_state_change == <<"lookup", "local">>
df_close == <<"lookup", "close">>

(* managed/card_authentication.cpp: the overloads that derive the key.     *)

authenticate_standard_aes == Derived(<<>>)
authenticate_ev2_first_aes_with_capabilities == Derived(<<"bytes">>)
authenticate_ev2_non_first_aes == Derived(<<>>)
authenticate_iso_aes ==
    <<"guard", "preflight", "context", "iso_key", "derive", "card">>

\* Entry points with the same steps are one member of this set.
Entries ==
    { df_get_version, df_free_memory, df_select_application, df_file_ids,
      df_authenticate_standard_aes, df_authenticate_standard_aes_provider,
      df_authenticate_ev2_first_aes, df_authenticate_ev2_first_aes_provider,
      df_authenticate_ev2_first_aes_with_capabilities,
      df_authenticate_ev2_first_aes_with_capabilities_provider,
      df_authenticate_ev2_non_first_aes,
      df_authenticate_ev2_non_first_aes_provider, df_application_ids,
      df_iso_file_ids, df_get_key_settings, df_get_key_set_versions,
      df_get_card_uid, df_read_originality_signature, df_abort_transaction,
      df_format_picc, df_delete_file, df_get_file_settings,
      df_clear_record_file, df_get_file_counters, df_delete_application,
      df_change_key_settings, df_get_key_version, df_initialize_key_set,
      df_roll_key_set, df_finalize_key_set, df_read_data, df_write_data,
      df_write_record, df_read_records, df_update_record, df_credit,
      df_debit, df_limited_credit, df_get_value, df_commit_transaction,
      df_commit_reader_id, df_create_application, df_create_data_file,
      df_create_value_file, df_create_record_file, df_change_file_settings,
      df_create_transaction_mac_file, df_change_aes_key, df_iso_select_file,
      df_iso_select_df_name, df_iso_read_binary, df_iso_update_binary,
      df_iso_read_records, df_iso_append_record, df_iso_get_challenge,
      df_iso_external_authenticate, df_iso_internal_authenticate,
      df_authenticate_iso_aes, df_authenticate_iso_aes_provider,
      df_iso_update_record, df_get_df_names, df_reset_authentication,
      df_restore_transfer, df_get_card_uid_variant,
      df_set_picc_configuration, df_set_capability_configuration,
      df_set_default_aes_key, df_set_default_aes_key_provider, df_set_ats,
      df_set_atqa, df_create_delegated_application,
      df_get_delegated_application_info, df_delete_delegated_application,
      df_create_transaction_mac_file_provider, df_change_aes_key_provider,
      df_change_aes_key_provider_own, df_execute_transaction, df_reset,
      df_cancel, df_notify_state_change, df_close, authenticate_standard_aes,
      authenticate_ev2_first_aes_with_capabilities,
      authenticate_ev2_non_first_aes, authenticate_iso_aes }

ASSUME ConstantsAssumption == MaxDepth \in Nat \ {0} /\ NestedEntries \subseteq Entries

-----------------------------------------------------------------------------
(* The call on top of the stack.                                           *)

Depth == Len(stack)
Top == stack[Depth]
Step == Top.steps[Top.at]

\* A buffer of an earlier call that the caller still holds.
Held(d) == IF out[d] = "null" THEN "null" ELSE "old"

NewCall(steps, bad) ==
    [steps |-> steps, at |-> 1, bad |-> bad, phase |-> "run", inside |-> FALSE,
     adapters |-> 0, owned |-> FALSE, heard |-> FALSE, outcome |-> "none",
     before |-> Held(Depth + 1)]

Init ==
    /\ stack = <<>> /\ closed = FALSE /\ active = FALSE
    /\ retained = 0 /\ buffers = 0
    /\ out = [d \in 1..MaxDepth |-> "null"]
    /\ info = [d \in 1..MaxDepth |-> "old"]

SetTop(f) == stack' = [stack EXCEPT ![Depth] = f]
Advance == SetTop([Top EXCEPT !.at = @ + 1])

\* The step ends the call: what it holds is given up by Unwind and Release.
Fail(outcome) == SetTop([Top EXCEPT !.phase = "unwind", !.outcome = outcome])

Running == Depth > 0 /\ Top.phase = "run" /\ Top.at <= Len(Top.steps)
At(step) == Running /\ Step = step
Refused == Top.bad = Top.at

\* Conversions and checks that can only refuse the argument.
Checks ==
    {"aid", "file", "mode", "offset", "count", "access", "bytes", "range", "address",
     "key_number", "iso_key", "import", "descriptor", "output", "built", "plan",
     "request", "preflight", "context"}

Check ==
    /\ Running /\ Step \in Checks
    /\ IF Refused THEN Fail("not_sent") ELSE Advance
    /\ UNCHANGED <<closed, active, retained, buffers, out, info>>

\* Mutation: the output is checked and left as it is.
CleansInfoNever(d) == info[d]

\* write_authentication_info(out, {}) checks the output and clears it.
CleansInfo(d) == "zero"

CheckInfo ==
    /\ At("info")
    /\ IF Refused THEN Fail("not_sent") /\ UNCHANGED info
                  ELSE Advance /\ info' = [info EXCEPT ![Depth] = CleansInfo(Depth)]
    /\ UNCHANGED <<closed, active, retained, buffers, out>>

\* Mutation: the context is retained before the descriptor is checked.
RetainsBeforeCheck(refused) == TRUE

\* KeyProviderAdapter::create() retains the context of a valid descriptor.
Retains(refused) == ~refused

CreateAdapter ==
    /\ At("adapter")
    /\ retained' = IF Retains(Refused) THEN retained + 1 ELSE retained
    /\ IF Refused THEN Fail("not_sent")
                  ELSE SetTop([Top EXCEPT !.at = @ + 1, !.adapters = @ + 1])
    /\ UNCHANGED <<closed, active, buffers, out, info>>

\* Mutation: the marker of the active operation is not looked at.
AdmitsReentry == ~closed

\* invoke(): a live handle, its lock and its marker free.
Admits == ~closed /\ ~active

\* A timeout of zero is refused as well.
Enter ==
    /\ At("enter")
    /\ IF Refused \/ ~Admits
         THEN Fail("not_sent") /\ UNCHANGED active
         ELSE SetTop([Top EXCEPT !.at = @ + 1, !.inside = TRUE]) /\ active' = TRUE
    /\ UNCHANGED <<closed, retained, buffers, out, info>>

\* OperationGuard of a Card method that is called without the C ABI.
Guard ==
    /\ At("guard")
    /\ IF active
         THEN Fail("not_sent") /\ UNCHANGED active
         ELSE SetTop([Top EXCEPT !.at = @ + 1, !.inside = TRUE]) /\ active' = TRUE
    /\ UNCHANGED <<closed, retained, buffers, out, info>>

\* Mutation: the caller's pointer is set before there is anything in it.
PublishesEarly(d) == "own"

\* output_bytes() keeps the new buffer to itself until the operation is over.
Publishes(d) == out[d]

Allocate ==
    /\ At("alloc")
    /\ IF Refused \/ out[Depth] # "null"
         THEN Fail("not_sent") /\ UNCHANGED <<buffers, out>>
         ELSE /\ SetTop([Top EXCEPT !.at = @ + 1, !.owned = TRUE])
              /\ buffers' = buffers + 1
              /\ out' = [out EXCEPT ![Depth] = Publishes(Depth)]
    /\ UNCHANGED <<closed, active, retained, info>>

\* The provider's resolve() or the deriver's derive() answers, or refuses.
Resolve ==
    /\ Running /\ Step \in {"resolve", "derive"}
    /\ Advance \/ Fail("not_sent")
    /\ UNCHANGED <<closed, active, retained, buffers, out, info>>

\* The card operation: it may fail before or after the card has heard it.
CardOperation ==
    /\ At("card")
    /\ \/ SetTop([Top EXCEPT !.at = @ + 1, !.heard = TRUE])
       \/ Fail("not_sent")
       \/ \E outcome \in {"rejected", "succeeded", "unknown"} :
            SetTop([Top EXCEPT !.phase = "unwind", !.outcome = outcome, !.heard = TRUE])
    /\ UNCHANGED <<closed, active, retained, buffers, out, info>>

\* Steps that cannot fail: encoding, plain stores, a local reset, a signal.
Local ==
    /\ Running /\ Step \in {"encode", "store", "local", "cancel"}
    /\ Advance
    /\ UNCHANGED <<closed, active, retained, buffers, out, info>>

\* The second write_authentication_info(), with what the handshake verified.
PublishInfo ==
    /\ At("publish") /\ Advance
    /\ info' = [info EXCEPT ![Depth] = "own"]
    /\ UNCHANGED <<closed, active, retained, buffers, out>>

Deliver ==
    /\ At("deliver")
    /\ SetTop([Top EXCEPT !.at = @ + 1, !.owned = FALSE])
    /\ out' = [out EXCEPT ![Depth] = "own"]
    /\ UNCHANGED <<closed, active, retained, buffers, info>>

Lookup ==
    /\ At("lookup")
    /\ IF closed THEN Fail("not_sent") ELSE Advance
    /\ UNCHANGED <<closed, active, retained, buffers, out, info>>

Close ==
    /\ At("close")
    /\ IF active \/ closed THEN Fail("not_sent") /\ UNCHANGED closed
                           ELSE Advance /\ closed' = TRUE
    /\ UNCHANGED <<active, retained, buffers, out, info>>

\* boundary(): whatever a step throws is contained, with an unknown outcome.
Throws ==
    /\ Running
    /\ Step # "cancel"
    /\ Fail("unknown")
    /\ UNCHANGED <<closed, active, retained, buffers, out, info>>

Finish ==
    /\ Depth > 0 /\ Top.phase = "run" /\ Top.at > Len(Top.steps)
    /\ SetTop([Top EXCEPT !.phase = "unwind", !.outcome = "done"])
    /\ UNCHANGED <<closed, active, retained, buffers, out, info>>

-----------------------------------------------------------------------------
(* The way out: destructors.                                               *)

\* Mutation: a call that fails leaves its marker behind.
MarkerKept(f) == active /\ (f.inside => f.outcome # "done")

\* ~ActiveEntry() clears the marker of the call that set it.
Marker(f) == active /\ ~f.inside

\* The unique_ptr of output_bytes() deletes a buffer nobody received.
Freed(f) == IF f.owned THEN 1 ELSE 0

\* The buffer and the marker go first, inside the lambda of invoke().
Unwind ==
    /\ Depth > 0 /\ Top.phase = "unwind"
    /\ SetTop([Top EXCEPT !.phase = "release", !.owned = FALSE, !.inside = FALSE])
    /\ buffers' = buffers - Freed(Top)
    /\ active' = Marker(Top)
    /\ UNCHANGED <<closed, retained, out, info>>

\* ~KeyProviderAdapter(): the context is released when the lock is free again.
Release ==
    /\ Depth > 0 /\ Top.phase = "release" /\ Top.adapters > 0
    /\ retained' = retained - 1
    /\ SetTop([Top EXCEPT !.adapters = @ - 1])
    /\ UNCHANGED <<closed, active, buffers, out, info>>

Returning == Depth > 0 /\ Top.phase = "release" /\ Top.adapters = 0

\* The variables of a nested caller end with its callback.
Return ==
    /\ Returning
    /\ IF Depth > 1
         THEN /\ buffers' = IF out[Depth] = "null" THEN buffers ELSE buffers - 1
              /\ out' = [out EXCEPT ![Depth] = "null"]
         ELSE UNCHANGED <<buffers, out>>
    /\ info' = [info EXCEPT ![Depth] = "old"]
    /\ stack' = SubSeq(stack, 1, Depth - 1)
    /\ UNCHANGED <<closed, active, retained>>

-----------------------------------------------------------------------------
(* The host.                                                               *)

Call(steps) ==
    \E bad \in 0..Len(steps) :
       /\ stack' = Append(stack, NewCall(steps, bad))
       /\ out' = [out EXCEPT ![Depth + 1] = Held(Depth + 1)]
       /\ UNCHANGED <<closed, active, retained, buffers, info>>

HostCalls == Depth = 0 /\ \E steps \in Entries : Call(steps)

\* Control is with the host: a provider, a deriver, or the reader's callbacks.
InCallback ==
    \/ Running /\ Step \in {"request", "adapter", "resolve", "derive", "card", "cancel"}
    \/ Depth > 0 /\ Top.phase = "release" /\ Top.adapters > 0

CallbackCalls ==
    /\ Depth < MaxDepth /\ InCallback
    /\ \E steps \in NestedEntries : Call(steps)

\* df_buffer_free()
FreeBuffer ==
    /\ Depth = 0 /\ out[1] # "null"
    /\ out' = [out EXCEPT ![1] = "null"]
    /\ buffers' = buffers - 1
    /\ UNCHANGED <<stack, closed, active, retained, info>>

\* df_open() gives a new handle.
Reopen ==
    /\ Depth = 0 /\ closed /\ closed' = FALSE
    /\ UNCHANGED <<stack, active, retained, buffers, out, info>>

Next ==
    \/ HostCalls \/ CallbackCalls \/ FreeBuffer \/ Reopen
    \/ Check \/ CheckInfo \/ CreateAdapter \/ Enter \/ Guard \/ Allocate \/ Resolve
    \/ CardOperation \/ Local \/ PublishInfo \/ Deliver \/ Lookup \/ Close
    \/ Throws \/ Finish \/ Unwind \/ Release \/ Return

Spec == Init /\ [][Next]_vars

-----------------------------------------------------------------------------
(* Properties.                                                             *)

CallType ==
    [steps : Entries, at : 1..13, bad : 0..12, phase : {"run", "unwind", "release"},
     inside : BOOLEAN, adapters : 0..2, owned : BOOLEAN, heard : BOOLEAN,
     outcome : {"none", "not_sent", "rejected", "succeeded", "unknown", "done"},
     before : {"null", "old"}]

\* Types, and the marker is set exactly while one call is inside invoke().
TypeOK ==
    /\ Depth <= MaxDepth /\ \A d \in 1..Depth : stack[d] \in CallType
    /\ closed \in BOOLEAN /\ active = (\E d \in 1..Depth : stack[d].inside)
    /\ retained \in Nat /\ buffers \in Nat
    /\ out \in [1..MaxDepth -> {"null", "old", "own"}]
    /\ info \in [1..MaxDepth -> {"old", "zero", "own"}]

\* A call that a refused argument or a refused admission ended has not
\* reached the card, in any entry point: every check of arguments, outputs,
\* descriptors, providers and handle comes before the card operation.
NotSentUnheard ==
    Returning /\ Top.outcome = "not_sent" => ~Top.heard

\* A host callback that calls the ABI on the same handle is refused before
\* the card: two calls are never inside invoke() at once.
ReentryStaysOut ==
    \A d, e \in 1..Depth : stack[d].inside /\ stack[e].inside => d = e

\* f[1] + ... + f[n].
Total(n, f) ==
    LET sum[d \in 0..n] == IF d = 0 THEN 0 ELSE sum[d - 1] + f[d]
    IN  sum[n]

\* The buffers of the call at a depth: the one its caller's pointer holds, and
\* the one output_bytes() has not delivered.
BuffersAt(d) ==
    (IF out[d] = "null" THEN 0 ELSE 1) + (IF d <= Depth /\ stack[d].owned THEN 1 ELSE 0)

\* Every retain of a provider is owed to one adapter of a call under way, and
\* every df_buffer is held by one call or by the pointer it was returned in:
\* refusals, exceptions and failures in the middle leak and free nothing.
NothingLeaks ==
    /\ retained = Total(Depth, [d \in 1..Depth |-> stack[d].adapters])
    /\ buffers = Total(MaxDepth, [d \in 1..MaxDepth |-> BuffersAt(d)])

\* A call that succeeds has set the caller's pointer to its own buffer; one
\* that fails has left the pointer as it was, null or still the old buffer.
OutputFollowsResult ==
    Returning =>
        out[Depth] = IF Top.outcome = "done" /\ \E i \in DOMAIN Top.steps :
                                                   Top.steps[i] = "deliver"
                       THEN "own" ELSE Top.before

\* After an EV2 authentication the caller's information is that of this
\* session, or cleared when the call failed anywhere behind the check of the
\* descriptor: a stale transaction identifier is never left to be trusted.
InfoIsOwn ==
    Returning /\ Top.steps[1] = "info" =>
        info[Depth] = CASE Top.outcome = "done" -> "own"
                        [] Top.outcome # "done" /\ Top.at = 1 -> "old"
                        [] OTHER -> "zero"
=============================================================================
