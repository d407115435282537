--------------------------- MODULE MCRenewalCycle ---------------------------
(***************************************************************************)
(* A small instance of the renewal cycle for TLC.  No symmetry: the run    *)
(* checks liveness.                                                        *)
(***************************************************************************)
EXTENDS RenewalCorrectness

\* Months of four days; the delays of 3 and 7 days shrink to 1 and 2.
MCCalendar == {4, 8, 12, 16}
MCRetryDelay == <<1, 2>>
=============================================================================
