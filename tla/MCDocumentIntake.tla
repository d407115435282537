-------------------------- MODULE MCDocumentIntake --------------------------
(***************************************************************************)
(* Small instances of DocumentIntake for TLC.                              *)
(***************************************************************************)
EXTENDS DocumentIntake

CONSTANTS r1, r2, b1, b2

\* The business each answer names.
MCLabel(r) == IF r = r1 THEN b1 ELSE b2
=============================================================================
