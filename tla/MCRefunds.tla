------------------------------- MODULE MCRefunds -------------------------------
(***************************************************************************)
(* A small instance of Refunds for TLC: a payment of 4 agorot, 3 of them   *)
(* before VAT, the least that rounds differently alone and in sum; two     *)
(* refunds and two workers.  No symmetry: the runs check liveness.         *)
(***************************************************************************)
EXTENDS Refunds

CONSTANTS r1, r2, w1, w2

OneRefund == {r1}
TwoRefunds == {r1, r2}
TwoWorkers == {w1, w2}
=============================================================================
