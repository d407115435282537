----------------------------- MODULE RefundAccount -----------------------------
(***************************************************************************)
(* What the refunds of one payment promise, without rows, leases, answers  *)
(* or documents: one refund is pending at a time, it goes back whole or    *)
(* not at all, it is withdrawn only while nothing of it went back, and     *)
(* what goes back is split into its part before VAT and the VAT by its     *)
(* sum.                                                                    *)
(***************************************************************************)
EXTENDS Integers

CONSTANTS Gross, Net  \* the payment and its part before VAT

VARIABLES
  settled,   \* agorot of the refunds that are closed
  pending,   \* agorot of the refund that is under way, 0 if there is none
  back,      \* agorot CardCom gave back
  beforeVat  \* the part before VAT of settled and pending together

account == <<settled, pending, back, beforeVat>>

\* The rounded share of g agorot of the payment.
Share(g) == (2 * g * Net + Gross) \div (2 * Gross)

Init == settled = 0 /\ pending = 0 /\ back = 0 /\ beforeVat = 0

\* Any part of what is left.
Promise ==
  /\ pending = 0
  /\ pending' \in 1 .. Gross - settled
  /\ beforeVat' = Share(settled + pending')
  /\ UNCHANGED <<settled, back>>

\* The money of the pending refund goes back, once.
GiveBack ==
  /\ pending # 0 /\ back = settled
  /\ back' = settled + pending
  /\ UNCHANGED <<settled, pending, beforeVat>>

\* A refund is closed when its money went back ...
Settle ==
  /\ pending # 0 /\ back = settled + pending
  /\ settled' = back /\ pending' = 0
  /\ UNCHANGED <<back, beforeVat>>

\* ... or withdrawn when it did not.
Withdraw ==
  /\ pending # 0 /\ back = settled
  /\ pending' = 0 /\ beforeVat' = Share(settled)
  /\ UNCHANGED <<settled, back>>

Next == Promise \/ GiveBack \/ Settle \/ Withdraw

Spec == Init /\ [][Next]_account

-----------------------------------------------------------------------------
\* The promise to the customer and the books: what went back is what was closed, with
\* or without the pending refund, and never more than was paid.
AccountSound ==
  /\ settled \in Nat /\ pending \in Nat /\ settled + pending <= Gross
  /\ back \in {settled, settled + pending}
  /\ beforeVat = Share(settled + pending)
=============================================================================
