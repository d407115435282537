------------------------- MODULE RenewalCorrectness -------------------------
(***************************************************************************)
(* What the renewal cycle must keep: service is paid for without a hole,   *)
(* a period is refused at most three times and never asked for early,      *)
(* nothing is owed after a cancellation, and who lapses can settle.        *)
(***************************************************************************)
EXTENDS RenewalCycle

\* The variables keep their types; the retry table is never read past its end.
TypeOK ==
  /\ now \in Dates
  /\ status \in {"ACTIVE", "PAST_DUE", "CANCELED"}
  /\ periodEnd \in Calendar
  /\ next \in Nat \cup {Never}
  /\ declines \in 0..MaxRenewalAttempts
  /\ canceledAt \in Nat \cup {Never}
  /\ debt \in [Dates -> DebtStates]
  /\ recovery \subseteq Dates
  /\ activated \in BOOLEAN
  /\ charges \in [Dates -> Nat] /\ released \in [Dates -> Nat]
  /\ lastDecline \in Dates \cup {Never}
  /\ pc \in [Workers -> {"idle", "read", "submitted", "settled"}]
  /\ seen \in [Workers -> (Nat \cup {Never}) \X (0..MaxRenewalAttempts)]
  /\ target \in [Workers -> Nat]
  /\ try \in [Workers -> Nat]

\* Obligations exist only for real periods, without a gap: whoever quotes or
\* collects a period has every earlier one on the books.  A retry date, a late
\* cron or an overlapping run must never be taken for a period of its own.
DebtsHaveNoGaps ==
  \A s \in Dates : debt[s] # "absent" =>
    /\ s \in Calendar /\ Purchased <= s
    /\ \A r \in Calendar : Purchased <= r /\ r < s => debt[r] # "absent"

\* currentPeriodEnd never runs ahead of the money: every period between the
\* purchase and the end of service was charged, whichever of renewal run,
\* completion task, operator and hosted settlement wrote the date.
ServiceIsPaid ==
  \A s \in Calendar : Purchased <= s /\ s < periodEnd => s \in Dates /\ debt[s] \in Paid

PaidPeriods == {s \in Dates : debt[s] \in Paid}

Service == INSTANCE PaidService WITH paid <- PaidPeriods, end <- periodEnd

\* The dates, runs, retries and settlements implement the paid service: a
\* period is paid once and stays paid, and service only grows over paid periods.
ServiceSpec == Service!Spec

\* The attempts of a period that counted; an operator's release gives one back.
Tries(s) == charges[s] - released[s]

\* However many runs overlap, the saved card refuses a period at most three
\* times, is asked again only after the delay that follows its last refusal, and
\* a release by an operator, at whatever moment, gives back one try and no more:
\* it neither restarts the count nor shortens the wait that was running.
TriesAreSpaced ==
  [][\A s \in Dates : charges'[s] > charges[s] =>
       /\ Tries(s) \in 0..(MaxRenewalAttempts - 1)
       /\ Tries(s) > 0 => lastDecline # Never /\ now >= lastDecline + RetryDelay[Tries(s)]]_vars

\* KT-052: no new debt from the effective time of a cancellation on, whoever
\* creates it and however late the cancellation is carried out.
CanceledOwesNothingNew ==
  [][\A s \in Dates : debt[s] = "absent" /\ debt'[s] # "absent" =>
       canceledAt = Never \/ s < canceledAt]_vars

\* KT-040: when another billing boundary arrives during the checkout, the period
\* that fell due remains visible as debt once the payment is applied; a customer
\* left PAST_DUE by a hosted settlement has something to pay.
NewlyDueRemainsDebt ==
  [][(RecoverySettles /\ status = "PAST_DUE" /\ NoPendingPayment') => Payable' # {}]_vars

-----------------------------------------------------------------------------
(* Progress. *)

\* The cron keeps starting runs for what is due, a run does not wait for ever,
\* and not every run that found its period settled is interrupted.
RunsSucceed ==
  /\ SF_vars(\E w \in Workers : ReadDue(w))
  /\ SF_vars(\E w \in Workers : RunFindsSettled(w))
  /\ SF_vars(\E w \in Workers : Advance(w))
  /\ WF_vars(\E w \in Workers : RunEnds(w))

FairSpec == Spec /\ RunsSucceed

\* A crash between the settlement of a period and the advance of the dates is
\* made good by a later run, unless the owner cancels first.
SettledIsApplied ==
  \A s \in Calendar \cap Dates :
    (status = "ACTIVE" /\ debt[s] = "satisfied" /\ periodEnd = s)
      ~> (periodEnd > s \/ status = "CANCELED")
=============================================================================
