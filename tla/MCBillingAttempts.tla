-------------------------- MODULE MCBillingAttempts --------------------------
(***************************************************************************)
(* Small instances of BillingAttempts for TLC.                             *)
(***************************************************************************)
EXTENDS BillingCorrectness, TLC

\* Threads differ in nothing but their name, and neither do attempts.
Interchangeable == Permutations(Workers) \cup Permutations(Attempts)
=============================================================================
