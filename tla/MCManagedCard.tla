--------------------------- MODULE MCManagedCard ---------------------------
(***************************************************************************)
(* Small instances of ManagedCard for TLC.                                 *)
(***************************************************************************)
EXTENDS ManagedCard

CONSTANTS k1, k2, f1, f2

\* A read, a ChangeKey of the authenticated key, the creation of a delegated
\* application (EV2, PICC level, one key), and the two ends of a transaction.
AllCommands ==
    {NoCommand,
     [NoCommand EXCEPT !.needsAuth = TRUE, !.keys = {k1}, !.drops = TRUE],
     [NoCommand EXCEPT !.needsAuth = TRUE, !.needsEv2 = TRUE, !.needsPicc = TRUE,
                       !.keys = {k2}],
     CommitTransaction, [NoCommand EXCEPT !.effect = "abort"]}

\* One file mutated twice and another one; a single mutation.
TwoPlans == {<<f1, f2, f1>>, <<f1>>}

=============================================================================
