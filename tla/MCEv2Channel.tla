---------------------------- MODULE MCEv2Channel ----------------------------
(***************************************************************************)
(* Small instances of Ev2Channel for TLC.                                  *)
(***************************************************************************)
EXTENDS Ev2Channel

\* Every request that validate() lets pass.
AllRequests == RequestType

=============================================================================
