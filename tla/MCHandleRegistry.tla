-------------------------- MODULE MCHandleRegistry --------------------------
(***************************************************************************)
(* Small instances of HandleRegistry for TLC.                              *)
(***************************************************************************)
EXTENDS HandleRegistry, TLC

\* Threads and entries are interchangeable in every safety property.
Symmetry == Permutations(Threads) \union Permutations(Entries)

=============================================================================
