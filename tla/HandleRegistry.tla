--------------------------- MODULE HandleRegistry ---------------------------
(***************************************************************************)
(* Handles of the C ABI (c-api/src/runtime.cpp, c-api/src/detail/          *)
(* internal.hpp, c-api/src/adapters.cpp): df_open() retains the host's     *)
(* transport context in a TransportLease and publishes an Entry under a    *)
(* new handle; every later call looks the handle up, pins the Entry with a *)
(* shared_ptr, and drops it on return; whoever drops the last reference    *)
(* destroys the lease, which runs the host's release callback.             *)
(*                                                                         *)
(* Threads of the host call at any time, and a host callback may itself    *)
(* call the ABI on the same thread: each thread has a stack of calls.      *)
(* registry_mutex guards only short sections that run no callback, so each *)
(* is one step.  The recursive Entry::operation is not a variable: a       *)
(* thread holds it while one of its calls is at a point where the C++      *)
(* scope owns the unique_lock.  Calls that fail validation or whose handle *)
(* does not resolve return at once and change nothing.  df_raw_open() and  *)
(* the raw calls repeat the same protocol on their own registry.           *)
(***************************************************************************)
EXTENDS Integers

CONSTANTS
    Threads,     \* host threads
    Entries,     \* Entry objects, one per df_open() with a valid descriptor
    NoEntry,     \* the entry of a stack slot that holds no call
    MaxHandle,   \* UINT64_MAX, the handle df_open() refuses to reach
    MaxDepth     \* bound on ABI calls nested through callbacks

ASSUME ConstantsAssumption ==
    /\ NoEntry \notin Entries
    /\ MaxHandle \in Nat \ {0}
    /\ MaxDepth \in Nat \ {0}

VARIABLES
    registry,     \* registry: <<handle, entry>> pairs
    next_handle,
    active,       \* the entries with Entry::active
    closed,       \* the entries with Entry::closed
    lease,        \* the TransportLease each entry owns
    frame,        \* frame[t][d]: call number d on thread t's stack
    depth,        \* how many calls thread t is inside
    issued,       \* the <<handle, entry>> pairs df_open() has returned
    closes,       \* ghost: how often df_close() of an entry returned DF_OK
    releases      \* ghost: how often an entry's release callback was called

vars == <<registry, next_handle, active, closed, lease, frame, depth, issued, closes,
          releases>>

-----------------------------------------------------------------------------
Slots == 1..MaxDepth
Handles == 1..MaxHandle
Leases == {"none", "retained", "releasing", "released"}

\* Where a call is.  In Callbacks it is inside a callback of the host.
Callbacks == {"retain", "run", "cancel", "release"}
Locked == {"run", "erase", "unlock"}
PCs == {"idle", "connect", "lock_invoke", "lock_close", "erase", "unlock", "notify", "drop"}
           \union Callbacks

Frame == [pc : PCs, handle : 0..MaxHandle, entry : Entries \union {NoEntry}]
NoCall == [pc |-> "idle", handle |-> 0, entry |-> NoEntry]

TypeOK ==
    /\ registry \subseteq Handles \X Entries
    /\ next_handle \in Handles
    /\ active \subseteq Entries
    /\ closed \subseteq Entries
    /\ lease \in [Entries -> Leases]
    /\ frame \in [Threads -> [Slots -> Frame]]
    /\ depth \in [Threads -> 0..MaxDepth]
    /\ issued \subseteq Handles \X Entries
    /\ closes \in [Entries -> Nat]
    /\ releases \in [Entries -> Nat]

Init ==
    /\ registry = {}
    /\ next_handle = 1
    /\ active = {}
    /\ closed = {}
    /\ lease = [e \in Entries |-> "none"]
    /\ frame = [t \in Threads |-> [d \in Slots |-> NoCall]]
    /\ depth = [t \in Threads |-> 0]
    /\ issued = {}
    /\ closes = [e \in Entries |-> 0]
    /\ releases = [e \in Entries |-> 0]

-----------------------------------------------------------------------------
(* The stack of a thread.                                                  *)

Top(t) == frame[t][depth[t]]
At(t, pc) == depth[t] > 0 /\ Top(t).pc = pc
Entry(t) == Top(t).entry

\* A thread may call the ABI when it is in none of its calls or in a callback.
MayCall(t) == depth[t] < MaxDepth /\ (depth[t] > 0 => Top(t).pc \in Callbacks)

Enter(t, pc, h, e) ==
    /\ depth' = [depth EXCEPT ![t] = @ + 1]
    /\ frame' = [frame EXCEPT ![t][depth[t] + 1] = [pc |-> pc, handle |-> h, entry |-> e]]

Goto(t, pc) ==
    /\ frame' = [frame EXCEPT ![t][depth[t]].pc = pc]
    /\ UNCHANGED depth

Return(t) ==
    /\ frame' = [frame EXCEPT ![t][depth[t]] = NoCall]
    /\ depth' = [depth EXCEPT ![t] = @ - 1]

\* Mutation: the recursive lock alone decides, active is not read.
BusyOtherThread(t, e) ==
    \E u \in Threads \ {t}, d \in Slots : frame[u][d].entry = e /\ frame[u][d].pc \in Locked

\* The operation lock belongs to another thread, so that try_lock fails, or
\* this thread is inside the operation that a callback is part of.
Busy(t, e) ==
    \/ \E u \in Threads \ {t}, d \in Slots : frame[u][d].entry = e /\ frame[u][d].pc \in Locked
    \/ e \in active

\* Mutation: lookup() returns a plain pointer.
ReferencedByRegistry(t, e) == \E h \in Handles : <<h, e>> \in registry

\* Mutation: a call nested in a callback ignores the calls that surround it.
ReferencedByOthers(t, e) ==
    \/ \E h \in Handles : <<h, e>> \in registry
    \/ \E u \in Threads \ {t}, d \in Slots : frame[u][d].entry = e

\* A shared_ptr to e exists besides the one of thread t's innermost call.
Referenced(t, e) ==
    \/ \E h \in Handles : <<h, e>> \in registry
    \/ \E u \in Threads, d \in Slots :
          /\ frame[u][d].entry = e
          /\ ~ (u = t /\ d = depth[t])

-----------------------------------------------------------------------------
(* df_open().                                                              *)

\* make_transport() constructs the TransportLease, which calls retain.
Open(t, e) ==
    /\ MayCall(t)
    /\ lease[e] = "none"
    /\ lease' = [lease EXCEPT ![e] = "retained"]
    /\ Enter(t, "retain", 0, e)
    /\ UNCHANGED <<registry, next_handle, active, closed, issued, closes,
                   releases>>

RetainReturns(t) ==
    /\ At(t, "retain")
    /\ Goto(t, "connect")
    /\ UNCHANGED <<registry, next_handle, active, closed, lease, issued, closes,
                   releases>>

\* Mutation: an error path of df_open() returns without the lease's destructor.
OpenFailsLeaking(t) ==
    /\ At(t, "connect")
    /\ Return(t)
    /\ UNCHANGED <<registry, next_handle, active, closed, lease, issued, closes,
                   releases>>

\* openssl_provider() or Card::connect() fails, or an allocation throws.
OpenFails(t) ==
    /\ At(t, "connect")
    /\ Goto(t, "drop")
    /\ UNCHANGED <<registry, next_handle, active, closed, lease, issued, closes,
                   releases>>

Exhausted(t) ==
    /\ At(t, "connect")
    /\ next_handle = MaxHandle
    /\ Goto(t, "drop")
    /\ UNCHANGED <<registry, next_handle, active, closed, lease, issued, closes,
                   releases>>

\* Mutation: the counter wraps around.
NextHandleWraps(h) == IF h + 1 = MaxHandle THEN 1 ELSE h + 1

NextHandle(h) == h + 1

\* Mutation: the end of the handle space is not checked.
PublishUnchecked(t) ==
    /\ At(t, "connect")
    /\ next_handle' = next_handle + 1
    /\ registry' = registry \union {<<next_handle, Entry(t)>>}
    /\ issued' = issued \union {<<next_handle, Entry(t)>>}
    /\ Return(t)
    /\ UNCHANGED <<active, closed, lease, closes, releases>>

\* The entry moves into the registry: the call keeps no reference.
Publish(t) ==
    /\ At(t, "connect")
    /\ next_handle # MaxHandle
    /\ next_handle' = NextHandle(next_handle)
    /\ registry' = registry \union {<<next_handle, Entry(t)>>}
    /\ issued' = issued \union {<<next_handle, Entry(t)>>}
    /\ Return(t)
    /\ UNCHANGED <<active, closed, lease, closes, releases>>

-----------------------------------------------------------------------------
(* Calls on a handle.                                                      *)

\* lookup(): the call pins the entry until it returns.
Lookup(t, h, pc) ==
    /\ MayCall(t)
    /\ \E e \in Entries : <<h, e>> \in registry /\ Enter(t, pc, h, e)
    /\ UNCHANGED <<registry, next_handle, active, closed, lease, issued, closes,
                   releases>>

Invoke(t, h) == Lookup(t, h, "lock_invoke")
Close(t, h) == Lookup(t, h, "lock_close")
Cancel(t, h) == Lookup(t, h, "cancel")
NotifyStateChange(t, h) == Lookup(t, h, "notify")

\* Mutation: closed is not read again under the lock.
MayRunClosed(t, e) == ~ Busy(t, e)

\* invoke(): try_lock, then active and closed are read under the lock.
MayRun(t, e) == ~ Busy(t, e) /\ e \notin closed

InvokeRuns(t) ==
    /\ At(t, "lock_invoke")
    /\ MayRun(t, Entry(t))
    /\ active' = active \union {Entry(t)}
    /\ Goto(t, "run")
    /\ UNCHANGED <<registry, next_handle, closed, lease, issued, closes,
                   releases>>

InvokeRefused(t) ==
    /\ At(t, "lock_invoke")
    /\ ~ MayRun(t, Entry(t))
    /\ Goto(t, "drop")
    /\ UNCHANGED <<registry, next_handle, active, closed, lease, issued, closes,
                   releases>>

\* The operation ends: ~ActiveEntry, then the operation lock is released.
OperationReturns(t) ==
    /\ At(t, "run")
    /\ active' = active \ {Entry(t)}
    /\ Goto(t, "drop")
    /\ UNCHANGED <<registry, next_handle, closed, lease, issued, closes,
                   releases>>

MayClose(t, e) == ~ Busy(t, e)

CloseLocks(t) ==
    /\ At(t, "lock_close")
    /\ MayClose(t, Entry(t))
    /\ Goto(t, "erase")
    /\ UNCHANGED <<registry, next_handle, active, closed, lease, issued, closes,
                   releases>>

CloseRefused(t) ==
    /\ At(t, "lock_close")
    /\ ~ MayClose(t, Entry(t))
    /\ Goto(t, "drop")
    /\ UNCHANGED <<registry, next_handle, active, closed, lease, issued, closes,
                   releases>>

\* Mutation: the number of elements erased is not looked at.
ErasedUnchecked(h) == 1

\* registry.erase(): the number of elements removed.
Erased(h) == IF \E e \in Entries : <<h, e>> \in registry THEN 1 ELSE 0

\* Mutation: the entry is marked closed but stays in the registry.
EraseKeepsEntry(t) ==
    /\ At(t, "erase")
    /\ closed' = closed \union {Entry(t)}
    /\ closes' = [closes EXCEPT ![Entry(t)] = @ + 1]
    /\ Goto(t, "unlock")
    /\ UNCHANGED <<registry, next_handle, active, lease, issued, releases>>

\* Under registry_mutex; df_close() reports stale_handle if nothing was erased.
Erase(t) ==
    LET h == Top(t).handle
    IN /\ At(t, "erase")
       /\ closed' = closed \union {Entry(t)}
       /\ closes' = [closes EXCEPT ![Entry(t)] = @ + Erased(h)]
       /\ registry' = {p \in registry : p[1] # h}
       /\ Goto(t, "unlock")
       /\ UNCHANGED <<next_handle, active, lease, issued, releases>>

CloseUnlocks(t) ==
    /\ At(t, "unlock")
    /\ Goto(t, "drop")
    /\ UNCHANGED <<registry, next_handle, active, closed, lease, issued, closes,
                   releases>>

\* The cancel callback returns; it runs without the operation lock.
CancelReturns(t) ==
    /\ At(t, "cancel")
    /\ Goto(t, "drop")
    /\ UNCHANGED <<registry, next_handle, active, closed, lease, issued, closes,
                   releases>>

\* CallbackTransport::notify_state_change() on the pinned transport.
Notified(t) ==
    /\ At(t, "notify")
    /\ Goto(t, "drop")
    /\ UNCHANGED <<registry, next_handle, active, closed, lease, issued, closes,
                   releases>>

\* The call's shared_ptr is destroyed, and the entry with it if it was the last.
DropShared(t) ==
    /\ At(t, "drop")
    /\ Referenced(t, Entry(t))
    /\ Return(t)
    /\ UNCHANGED <<registry, next_handle, active, closed, lease, issued, closes,
                   releases>>

DropLast(t) ==
    /\ At(t, "drop")
    /\ ~ Referenced(t, Entry(t))
    /\ lease' = [lease EXCEPT ![Entry(t)] = "releasing"]
    /\ releases' = [releases EXCEPT ![Entry(t)] = @ + 1]
    /\ Goto(t, "release")
    /\ UNCHANGED <<registry, next_handle, active, closed, issued, closes>>

ReleaseReturns(t) ==
    /\ At(t, "release")
    /\ lease' = [lease EXCEPT ![Entry(t)] = "released"]
    /\ Return(t)
    /\ UNCHANGED <<registry, next_handle, active, closed, issued, closes,
                   releases>>

-----------------------------------------------------------------------------
HostCalls(t) ==
    \/ \E e \in Entries : Open(t, e)
    \/ \E h \in Handles :
          Invoke(t, h) \/ Close(t, h) \/ Cancel(t, h) \/ NotifyStateChange(t, h)

HostReturns(t) ==
    \/ RetainReturns(t) \/ OperationReturns(t) \/ CancelReturns(t) \/ ReleaseReturns(t)

SdkStep(t) ==
    \/ OpenFails(t) \/ Exhausted(t) \/ Publish(t)
    \/ InvokeRuns(t) \/ InvokeRefused(t)
    \/ CloseLocks(t) \/ CloseRefused(t) \/ Erase(t) \/ CloseUnlocks(t)
    \/ Notified(t) \/ DropShared(t) \/ DropLast(t)

Next == \E t \in Threads : HostCalls(t) \/ HostReturns(t) \/ SdkStep(t)

Spec == Init /\ [][Next]_vars

\* The scheduler runs every thread that can step.  A callback may call the ABI
\* any number of times but is a terminating program, so it returns: its return
\* is enabled between its nested calls only, hence strong fairness, for the
\* callbacks of each level of the stack.
FairSpec ==
    /\ Spec
    /\ \A t \in Threads : WF_vars(SdkStep(t))
    /\ \A t \in Threads, d \in Slots : SF_vars(depth[t] = d /\ HostReturns(t))

-----------------------------------------------------------------------------
(* Properties.                                                             *)

\* A call that has not begun to release its entry has the lease alive: no
\* callback runs on, and no lock is taken in, an entry whose context the host
\* was told to release ("close cannot release context while any callback is
\* executing", docs/architecture/transport-lifecycle.md).
ContextOutlivesCalls ==
    \A t \in Threads, d \in Slots :
        frame[t][d].pc \notin {"idle", "release"} => lease[frame[t][d].entry] = "retained"

\* The release callback of a context runs once ("The SDK calls retain once and
\* defers release until every callback returns", c-api/include/desfire/
\* transport.h), whichever of the calls that pin the entry returns last.
ReleasedOnce == \A e \in Entries : releases[e] <= 1

\* Nothing leaks: a retained context belongs to a published handle or to a call
\* still in progress.
NoLeakedContext ==
    \A e \in Entries : lease[e] = "retained" =>
        \/ \E h \in Handles : <<h, e>> \in registry
        \/ \E t \in Threads, d \in Slots : frame[t][d].entry = e

\* Calls of one entry exclude each other, even when a callback of the running
\* operation calls in again on the thread that owns the recursive lock.
OneOperationAtATime ==
    \A t, u \in Threads, c, d \in Slots :
        ( /\ frame[t][c].pc \in Locked /\ frame[u][d].pc \in Locked
          /\ frame[t][c].entry = frame[u][d].entry )
        => t = u /\ c = d

\* An operation runs only on an open card: its handle still resolves to its
\* entry until it ends, although it was looked up before the lock was taken.
OperationsOnOpenCards ==
    \A t \in Threads, d \in Slots :
        frame[t][d].pc = "run" => <<frame[t][d].handle, frame[t][d].entry>> \in registry

\* Of any number of concurrent df_close() calls at most one reports success.
ClosedAtMostOnce == \A e \in Entries : closes[e] <= 1

\* A handle names the same card for ever: df_open() never returns it again.
HandlesNeverReused ==
    \A p, q \in issued : p[1] = q[1] => p[2] = q[2]

\* A context whose handle was closed is released in the end.
ClosedIsReleased ==
    \A e \in Entries : closes[e] = 1 ~> lease[e] = "released"

=============================================================================
