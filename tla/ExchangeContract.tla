-------------------------- MODULE ExchangeContract --------------------------
(***************************************************************************)
(* What the layers above rely on when they call a raw channel of the SDK,  *)
(* native or ISO 7816: the contract that foundation/error.hpp states for   *)
(* Outcome and that both channels implement.  It says nothing of frames,   *)
(* chaining or deadlines.                                                  *)
(*                                                                         *)
(*   - calls of one channel run one at a time;                             *)
(*   - the card can be reached only while the call runs;                   *)
(*   - "not_sent" is returned only of a call that never reached the card,  *)
(*     and "succeeded" only of one that did;                               *)
(*   - a call returns once.                                                *)
(***************************************************************************)
CONSTANT Callers

VARIABLES
    phase,      \* where the call of each caller is
    reached,    \* the card heard something of the call
    outcome     \* the delivery evidence the call returned

vars == <<phase, reached, outcome>>

Outcomes == {"none", "not_sent", "rejected", "succeeded", "unknown"}

Init ==
    /\ phase = [c \in Callers |-> "idle"]
    /\ reached = [c \in Callers |-> FALSE]
    /\ outcome = [c \in Callers |-> "none"]

Alone == \A d \in Callers : phase[d] \notin {"exchange", "reset"}

Start(c) ==
    /\ phase[c] = "idle" /\ Alone
    /\ \E p \in {"exchange", "reset"} : phase' = [phase EXCEPT ![c] = p]
    /\ UNCHANGED <<reached, outcome>>

Reach(c) ==
    /\ phase[c] = "exchange"
    /\ reached' = [reached EXCEPT ![c] = TRUE]
    /\ UNCHANGED <<phase, outcome>>

\* A call that is refused never started; a reset makes no claim about a
\* command.
Honest(c, o) ==
    CASE phase[c] = "idle" -> o = "not_sent"
      [] phase[c] = "exchange" -> /\ o = "not_sent" => ~reached[c]
                                  /\ o = "succeeded" => reached[c]
      [] OTHER -> TRUE

Return(c, o) ==
    /\ phase[c] # "returned"
    /\ Honest(c, o)
    /\ phase' = [phase EXCEPT ![c] = "returned"]
    /\ outcome' = [outcome EXCEPT ![c] = o]
    /\ UNCHANGED reached

Next ==
    \E c \in Callers :
        \/ Start(c) \/ Reach(c)
        \/ \E o \in Outcomes \ {"none"} : Return(c, o)

\* A call that was let in returns.
Fairness ==
    \A c \in Callers :
        WF_vars(/\ phase[c] \in {"exchange", "reset"}
                /\ \E o \in Outcomes \ {"none"} : Return(c, o))

Spec == Init /\ [][Next]_vars
FairSpec == Spec /\ Fairness
=============================================================================
