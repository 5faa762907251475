--------------------------- MODULE PcscTransport ---------------------------
(***************************************************************************)
(* The PC/SC transport (transports/pcsc/src/pcsc.cpp): a Provider that     *)
(* lists readers and opens connections, and Connections that exchange      *)
(* frames and reset the card under a mutex and count generations.          *)
(*                                                                         *)
(* The PC/SC service is shared: another client may reset the card at any   *)
(* time, the card may be removed and put back, readers come and go between *)
(* two calls of a listing.  A card handle is bound to one activation of    *)
(* the card; the service refuses it after any other until SCardReconnect.  *)
(* A caller reads generation() before and after an exchange, as the        *)
(* managed card and the raw handles do, and trusts an answer if the two    *)
(* agree.                                                                  *)
(***************************************************************************)
EXTENDS Integers, Sequences, FiniteSets

CONSTANTS
    Threads,         \* threads of the host
    Connections,     \* Connection objects
    ReaderLists,     \* the lists of reader names the service may have
    Malformed,       \* multi-strings a faulty service may return
    Nobody,          \* no thread
    MaxActivations,  \* bound on activations of the card
    MaxGeneration    \* bound on the generation of a connection

NUL == 0

ConstantsAssumption ==
    /\ Nobody \notin Threads
    /\ MaxActivations \in Nat \ {0}
    /\ MaxGeneration \in Nat \ {0}

VARIABLES
    context,     \* the SCARDCONTEXT: none, established or released
    provider,    \* the Provider exists
    connection,  \* connection[c]: the object and its SCARDHANDLE
    card,        \* the activation of the card, 0 when there is none
    activations, \* activations so far
    attached,    \* the readers of the service
    call,        \* call[t]
    answered     \* ghost: answered[c][g], the activations whose answers were
                 \* trusted under generation g

vars == <<context, provider, connection, card, activations, attached, call, answered>>

NoConnection == [state |-> "none", bound |-> 0, generation |-> 1, mutex |-> Nobody]
NoCall == [at |-> "idle", on |-> "none", before |-> 0, heard |-> FALSE, from |-> 0,
           result |-> "none", attempt |-> 0, size |-> 0, names |-> <<>>, list |-> <<>>]

Init ==
    /\ context = "none"
    /\ provider = FALSE
    /\ connection = [c \in Connections |-> NoConnection]
    /\ card = 1
    /\ activations = 1
    /\ attached \in ReaderLists
    /\ call = [t \in Threads |-> NoCall]
    /\ answered = [c \in Connections |-> [g \in 1..MaxGeneration |-> {}]]

Set(t, c) == call' = [call EXCEPT ![t] = c]
Goto(t, at) == Set(t, [call[t] EXCEPT !.at = at])
End(t, result) == Set(t, [call[t] EXCEPT !.at = "returned", !.result = result])
Idle(t) == call[t].at = "idle"

-----------------------------------------------------------------------------
(* The card, the reader field and the other clients of the service.        *)

\* The card is reset by another client or by SCardReconnect, or put back.
CardActivates ==
    /\ activations < MaxActivations
    /\ activations' = activations + 1
    /\ card' = activations + 1
    /\ UNCHANGED <<context, provider, connection, attached, call, answered>>

CardLeaves ==
    /\ card # 0
    /\ card' = 0
    /\ UNCHANGED <<context, provider, connection, activations, attached, call, answered>>

ReadersChange ==
    /\ \E t \in Threads : call[t].at = "fill"
    /\ attached' \in ReaderLists \ {attached}
    /\ UNCHANGED <<context, provider, connection, card, activations, call, answered>>

-----------------------------------------------------------------------------
(* Context, provider and connections.                                      *)

\* Mutation: a connection leaves the context to its provider.
UsersProvider == IF provider THEN {"provider"} ELSE {}

\* The owners of the shared Context.
Users ==
    (IF provider THEN {"provider"} ELSE {})
        \union {c \in Connections : connection[c].state = "open"}

\* ~Context releases what SCardEstablishContext gave, with the last owner.
ContextAfter(users) == IF users = {} THEN "released" ELSE context

pcsc_provider(t) ==
    /\ Idle(t) /\ context = "none"
    /\ \/ /\ context' = "established" /\ provider' = TRUE
          /\ End(t, "ok")
       \/ /\ UNCHANGED <<context, provider>>
          /\ \E result \in {"not_sent", "thrown"} : End(t, result)
    /\ UNCHANGED <<connection, card, activations, attached, answered>>

DropProvider(t) ==
    /\ Idle(t) /\ provider
    /\ \A u \in Threads : call[u].at \notin {"fill", "list", "connected"}
    /\ provider' = FALSE
    /\ context' = ContextAfter(Users \ {"provider"})
    /\ UNCHANGED <<connection, card, activations, attached, call, answered>>

\* open() up to SCardConnect; the identifier may be invalid, the reader gone.
Open(t, c) ==
    /\ Idle(t) /\ provider /\ connection[c].state = "none"
    /\ \/ /\ card # 0
          /\ connection' = [connection EXCEPT ![c] = [@ EXCEPT !.state = "connected",
                                                               !.bound = card]]
          /\ Set(t, [call[t] EXCEPT !.at = "connected", !.on = c])
       \/ UNCHANGED connection /\ End(t, "not_sent")
    /\ UNCHANGED <<context, provider, card, activations, attached, answered>>

\* Mutation: the handle is forgotten when the object cannot be allocated.
AfterAllocationFailedKept == "connected"

\* SCardDisconnect in the clause around make_shared.
AfterAllocationFailed == "closed"

OpenEnds(t) ==
    /\ call[t].at = "connected"
    /\ \/ /\ connection' = [connection EXCEPT ![call[t].on].state = "open"]
          /\ End(t, "ok")
       \/ /\ connection' = [connection EXCEPT ![call[t].on].state = AfterAllocationFailed]
          /\ End(t, "thrown")
    /\ UNCHANGED <<context, provider, card, activations, attached, answered>>

\* ~Connection when no caller holds it: SCardDisconnect, then the context.
DropConnection(t, c) ==
    /\ Idle(t) /\ connection[c].state = "open"
    /\ \A u \in Threads : call[u].on # c
    /\ connection' = [connection EXCEPT ![c].state = "closed"]
    /\ context' = ContextAfter(Users \ {c})
    /\ UNCHANGED <<provider, card, activations, attached, call, answered>>

-----------------------------------------------------------------------------
(* Exchange and reset.                                                     *)

\* The caller reads generation() and calls exchange() or reset().  Every call adds
\* one at most, so the bound is met here.
Begin(t, c, at) ==
    /\ Idle(t) /\ connection[c].state = "open"
    /\ connection[c].generation + Cardinality({u \in Threads : call[u].on = c}) < MaxGeneration
    /\ Set(t, [call[t] EXCEPT !.at = at, !.on = c,
                              !.before = connection[c].generation])
    /\ UNCHANGED <<context, provider, connection, card, activations, attached, answered>>

On(t) == connection[call[t].on]

\* Mutation: reset() does not wait for an exchange.
MayLockReset(t) == call[t].at = "lock_reset" \/ On(t).mutex = Nobody

MayLock(t) == On(t).mutex = Nobody

\* A stop request, a spent budget and an oversized frame are refused; the response
\* buffer may not be had.
Exchange(t) ==
    /\ call[t].at = "lock_exchange" /\ MayLock(t)
    /\ \/ /\ connection' = [connection EXCEPT ![call[t].on].mutex = t]
          /\ Goto(t, "transmit")
       \/ UNCHANGED connection /\ \E result \in {"not_sent", "thrown"} : End(t, result)
    /\ UNCHANGED <<context, provider, card, activations, attached, answered>>

\* Mutation: the default outcome of pcsc_error().
TransmitOutcomeDefault == "not_sent"

TransmitOutcome == "unknown"

\* A handle the service refuses says so with one of the card_removed statuses.
GenerationAfterFailure(g, removed) == IF removed THEN g + 1 ELSE g

\* SCardTransmit: the card answers in the activation the handle is bound to, in
\* time or late; or it fails, the frame sent or not.
SCardTransmit(t) ==
    /\ call[t].at = "transmit"
    /\ \/ /\ On(t).bound = card
          /\ \E at \in {"answered", "late"} :
                Set(t, [call[t] EXCEPT !.at = at, !.heard = TRUE, !.from = card])
          /\ connection' = [connection EXCEPT ![call[t].on].mutex = Nobody]
       \/ /\ \E heard \in BOOLEAN :
                Set(t, [call[t] EXCEPT !.at = "returned", !.heard = heard,
                                       !.result = TransmitOutcome])
          /\ connection' = [connection EXCEPT ![call[t].on] =
                [@ EXCEPT !.mutex = Nobody,
                          !.generation = GenerationAfterFailure(@, On(t).bound # card)]]
    /\ UNCHANGED <<context, provider, card, activations, attached, answered>>

\* Once it returns late, the exchange is not one within its budget; nor is an
\* answer that claims more than the buffer a response.
Late(t) ==
    /\ call[t].at = "late"
    /\ End(t, "unknown")
    /\ UNCHANGED <<context, provider, connection, card, activations, attached, answered>>

\* The caller compares the generation with the one it read before.
Trust(t) ==
    /\ call[t].at = "answered"
    /\ IF On(t).generation = call[t].before
         THEN /\ answered' = [answered EXCEPT ![call[t].on][call[t].before] =
                                @ \union {call[t].from}]
              /\ End(t, "ok")
         ELSE UNCHANGED answered /\ End(t, "unknown")
    /\ UNCHANGED <<context, provider, connection, card, activations, attached>>

\* Mutation: the generation counts the resets that succeeded.
GenerationBeforeResetSame(g) == g

GenerationBeforeReset(g) == g + 1

Reset(t) ==
    /\ call[t].at = "lock_reset" /\ MayLock(t)
    /\ connection' = [connection EXCEPT ![call[t].on] =
          [@ EXCEPT !.mutex = t, !.generation = GenerationBeforeReset(@)]]
    /\ Goto(t, "reconnect")
    /\ UNCHANGED <<context, provider, card, activations, attached, answered>>

\* SCardReconnect resets the card and binds the handle to the new activation.  A
\* failure may come before or after the card was reset.
SCardReconnect(t) ==
    /\ call[t].at = "reconnect"
    /\ \/ /\ card # 0 /\ activations < MaxActivations
          /\ activations' = activations + 1
          /\ card' = activations + 1
          /\ connection' = [connection EXCEPT ![call[t].on] =
                [@ EXCEPT !.mutex = Nobody, !.bound = activations + 1]]
          /\ \E result \in {"ok", "unknown"} : End(t, result)
       \/ /\ connection' = [connection EXCEPT ![call[t].on].mutex = Nobody]
          /\ End(t, "unknown")
          /\ UNCHANGED <<card, activations>>
    /\ UNCHANGED <<context, provider, attached, answered>>

-----------------------------------------------------------------------------
(* readers().                                                              *)

max_list_attempts == 2

\* A multi-string: every name and a NUL, and a NUL at the end.
MultiString(list) ==
    LET ends[n \in 0..Len(list)] == IF n = 0 THEN <<>> ELSE ends[n - 1] \o list[n] \o <<NUL>>
    IN  ends[Len(list)] \o <<NUL>>

Size(list) == IF list = <<>> THEN 0 ELSE Len(MultiString(list))

List(t) ==
    /\ Idle(t) /\ provider
    /\ Set(t, [call[t] EXCEPT !.at = "list"])
    /\ UNCHANGED <<context, provider, connection, card, activations, attached, answered>>

\* The sizing call; no readers is an empty list.
SizeOf(t) ==
    /\ call[t].at = "list"
    /\ \/ attached = <<>> /\ End(t, "ok")
       \/ attached # <<>> /\ Set(t, [call[t] EXCEPT !.at = "fill", !.size = Size(attached)])
       \/ End(t, "not_sent")
    /\ UNCHANGED <<context, provider, connection, card, activations, attached, answered>>

\* Mutation: the listing goes on as long as the list grows.
AfterTooSmallAgain(t) == [call[t] EXCEPT !.at = "list", !.attempt = @ + 1]

\* Mutation: the buffer of the first attempt is taken as it is.
AfterTooSmallUsed(t) ==
    [call[t] EXCEPT !.at = "parse",
                    !.names = SubSeq(MultiString(attached), 1, call[t].size - 1) \o <<NUL>>]

\* The list has grown since: once more from the start, then an error.
AfterTooSmall(t) ==
    IF call[t].attempt + 1 < max_list_attempts
      THEN [call[t] EXCEPT !.at = "list", !.attempt = @ + 1]
      ELSE [call[t] EXCEPT !.at = "returned", !.result = "not_sent"]

Fill(t) ==
    /\ call[t].at = "fill"
    /\ \/ attached = <<>> /\ End(t, "ok")
       \/ attached # <<>> /\ Size(attached) > call[t].size /\ Set(t, AfterTooSmall(t))
       \/ /\ attached # <<>> /\ Size(attached) <= call[t].size
          /\ \E names \in {MultiString(attached)} \union
                          {m \in Malformed : Len(m) <= call[t].size} :
                Set(t, [call[t] EXCEPT !.at = "parse", !.names = names])
       \/ End(t, "not_sent")
    /\ UNCHANGED <<context, provider, connection, card, activations, attached, answered>>

FirstNul(names, from) ==
    CHOOSE i \in from..Len(names) :
        names[i] = NUL /\ \A j \in from..(i - 1) : names[j] # NUL

\* The names up to an empty one, and where that is.
Parsed(names) ==
    LET n == Len(names)
        from[o \in 1..(n + 1)] ==
            IF o > n \/ (o <= n /\ names[o] = NUL)
              THEN [list |-> <<>>, rest |-> o]
              ELSE LET end == FirstNul(names, o)
                       tail == from[end + 1]
                   IN  [list |-> <<SubSeq(names, o, end - 1)>> \o tail.list, rest |-> tail.rest]
    IN  from[1]

Terminated(names) == names[Len(names)] = NUL

NothingAfter(names, rest) == \A i \in rest..Len(names) : names[i] = NUL

Parse(t) ==
    /\ call[t].at = "parse"
    /\ LET names == call[t].names
           parsed == Parsed(names)
       IN  IF names = <<>> THEN End(t, "ok")
           ELSE IF ~ Terminated(names) THEN End(t, "not_sent")
           ELSE IF ~ NothingAfter(names, parsed.rest) THEN End(t, "not_sent")
           ELSE Set(t, [call[t] EXCEPT !.at = "returned", !.result = "ok",
                                       !.list = parsed.list])
    /\ UNCHANGED <<context, provider, connection, card, activations, attached, answered>>

-----------------------------------------------------------------------------
\* The host looks at the result and calls again.
Take(t) ==
    /\ call[t].at = "returned"
    /\ Set(t, NoCall)
    /\ UNCHANGED <<context, provider, connection, card, activations, attached, answered>>

\* The host is done and another one starts the service afresh.
Restart ==
    /\ context = "released" /\ \A t \in Threads : Idle(t)
    /\ context' = "none"
    /\ connection' = [c \in Connections |-> NoConnection]
    /\ answered' = [c \in Connections |-> [g \in 1..MaxGeneration |-> {}]]
    /\ UNCHANGED <<provider, card, activations, attached, call>>

Next ==
    \/ CardActivates \/ CardLeaves \/ ReadersChange \/ Restart
    \/ \E t \in Threads :
          \/ pcsc_provider(t) \/ DropProvider(t) \/ OpenEnds(t)
          \/ \E c \in Connections :
                \/ Open(t, c) \/ DropConnection(t, c)
                \/ Begin(t, c, "lock_exchange") \/ Begin(t, c, "lock_reset")
          \/ Exchange(t) \/ SCardTransmit(t) \/ Late(t) \/ Trust(t)
          \/ Reset(t) \/ SCardReconnect(t)
          \/ List(t) \/ SizeOf(t) \/ Fill(t) \/ Parse(t) \/ Take(t)

Spec == Init /\ [][Next]_vars

-----------------------------------------------------------------------------
\* The shapes of the state.
TypeOK ==
    /\ context \in {"none", "established", "released"}
    /\ provider \in BOOLEAN
    /\ \A c \in Connections :
          /\ connection[c].state \in {"none", "connected", "open", "closed"}
          /\ connection[c].bound \in 0..MaxActivations
          /\ connection[c].generation \in 1..MaxGeneration
          /\ connection[c].mutex \in Threads \union {Nobody}
    /\ card \in 0..activations
    /\ \A t \in Threads :
          /\ call[t].result \in {"none", "ok", "not_sent", "unknown", "thrown"}
          /\ call[t].attempt \in 0..(max_list_attempts - 1)

\* Answers trusted under one generation all come from one activation of the
\* card: a session never talks to a card that was reset or exchanged under it,
\* by this host, by another client or by hand.
GenerationIsActivation ==
    \A c \in Connections : \A g \in 1..MaxGeneration : Cardinality(answered[c][g]) <= 1

\* not_sent means that SCardTransmit delivered nothing of the call.
NotSentUnheard == \A t \in Threads : call[t].result = "not_sent" => ~ call[t].heard

\* The service context outlives every card handle, whether the provider or the
\* connections are dropped first.
ContextOutlivesHandles ==
    \A c \in Connections :
        connection[c].state \in {"connected", "open"} => context = "established"

\* A card handle that no call is opening belongs to a Connection.
NoHandleLeaked ==
    \A c \in Connections :
        connection[c].state = "connected" =>
            \E t \in Threads : call[t].at = "connected" /\ call[t].on = c

\* The service never gets two calls on one card handle at a time.
OneCallPerHandle ==
    \A t, u \in Threads :
        /\ t # u
        /\ call[t].at \in {"transmit", "reconnect"}
        /\ call[u].at \in {"transmit", "reconnect"}
        => call[t].on # call[u].on

\* A listing that succeeds holds what the service wrote, every name of it and
\* nothing else, also when readers came and went between its two calls.
ListingIsWhole ==
    \A t \in Threads :
        call[t].at = "returned" /\ call[t].list # <<>> =>
            LET written == MultiString(call[t].list)
                names == call[t].names
            IN  /\ Len(written) - 1 <= Len(names)
                /\ \A i \in 1..Len(names) :
                      names[i] = IF i <= Len(written) THEN written[i] ELSE NUL
                /\ names \in {MultiString(l) : l \in ReaderLists} \union Malformed
=============================================================================
