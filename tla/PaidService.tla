----------------------------- MODULE PaidService -----------------------------
(***************************************************************************)
(* What a subscription promises, without cron runs, retries or checkouts:  *)
(* service reaches as far as it has been paid for, without a hole, and is  *)
(* never taken back.                                                       *)
(***************************************************************************)
EXTENDS Naturals

CONSTANTS
  Calendar,   \* the instants at which a service period may begin
  Purchased   \* the end of the period bought with the first purchase

VARIABLES
  paid,    \* beginnings of the periods whose money was taken
  end      \* Subscription.currentPeriodEnd

Init == paid = {} /\ end = Purchased

\* The money of some periods is taken together, and no period is paid twice.
Pay ==
  /\ \E S \in SUBSET Calendar : S # {} /\ S \cap paid = {} /\ paid' = paid \cup S
  /\ UNCHANGED end

\* Service is extended to a later boundary, over paid periods only.
Extend ==
  /\ end' \in Calendar /\ end' > end
  /\ \A s \in Calendar : end <= s /\ s < end' => s \in paid
  /\ UNCHANGED paid

Next == Pay \/ Extend

Spec == Init /\ [][Next]_<<paid, end>>
=============================================================================
