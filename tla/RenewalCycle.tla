---------------------------- MODULE RenewalCycle ----------------------------
(***************************************************************************)
(* The dates of one subscription: which service period is due, what a      *)
(* decline schedules, how a paid period moves the subscription forward,    *)
(* which periods a lapsed customer owes, and what a cancellation ends.     *)
(*                                                                         *)
(* A worker is one run of the renewal of this subscription: the daily cron, *)
(* the retry of an operator, a task.  It reads the subscription without a  *)
(* lock, asks for the charge, finalizes it, and only then moves the dates  *)
(* by compare-and-set; runs overlap and may stop between any two steps.    *)
(* The collection of one debt is modelled in BillingAttempts; here it has  *)
(* four states: reserved by an attempt, charged, settled, free again.      *)
(*                                                                         *)
(* Instants are numbers.  Calendar holds the instants at which a period of *)
(* this subscription begins, whatever months and daylight saving make of   *)
(* them.                                                                   *)
(***************************************************************************)
EXTENDS Integers, FiniteSets

CONSTANTS
  Workers,       \* overlapping renewal runs
  Calendar,      \* the instants at which a service period begins
  Purchased,     \* end of the period paid with the purchase: the first renewal
  Horizon,       \* bound on the clock
  RetryDelay,    \* RENEWAL_RETRY_DELAYS_DAYS
  MaxReleases,   \* bound on the attempts of one period an operator releases
  Never          \* NULL dates

Dates == 0..Horizon

ASSUME HorizonAssumption == Horizon \in Nat /\ Dates \cap {Never} = {}
ASSUME CalendarAssumption ==
  /\ Calendar \subseteq Nat /\ Purchased \in Calendar /\ Never \notin Nat
  /\ \A t \in Dates : \E m \in Calendar :
       m > t /\ \A n \in Calendar : n > t => m <= n
ASSUME DelayAssumption == RetryDelay \in [1..2 -> Nat \ {0}] /\ MaxReleases \in Nat

VARIABLES
  now,        \* the clock
  status,     \* Subscription.status
  periodEnd,  \* currentPeriodEnd
  next,       \* nextBillingDate: the due date, or the date of a retry
  declines,   \* renewalAttempts: confirmed declines in this cycle
  canceledAt, \* the effective time of a requested cancellation
  debt,       \* the RECURRING_PERIOD obligation that begins at each instant
  recovery,   \* debts of the hosted settlement in progress
  activated,  \* that settlement has been applied to the subscription
  charges,    \* how many attempts asked the saved card for each period
  released,   \* how many of them an operator confirmed as not charged
  lastDecline,\* when it last refused
  pc, seen, target, \* each run: next step, the schedule it read, its period,
  try         \* and which attempt of that period it submits

subscription == <<status, periodEnd, next, declines, canceledAt>>
collection   == <<debt, recovery, activated>>
record       == <<charges, released, lastDecline>>
runs         == <<pc, seen, target, try>>
vars == <<now, subscription, collection, record, runs>>

\* absent: no row.  open: unpaid, no attempt.  charging: a token attempt is
\* unresolved.  reserved: a hosted settlement is unresolved.  captured: the
\* money is taken.  satisfied: settled with a receipt.
DebtStates == {"absent", "open", "charging", "reserved", "captured", "satisfied"}
Unresolved == {"charging", "reserved", "captured"}
Paid       == {"captured", "satisfied"}

MaxRenewalAttempts == 3

Init ==
  /\ now = 0
  /\ status = "ACTIVE" /\ periodEnd = Purchased /\ next = Purchased
  /\ declines = 0 /\ canceledAt = Never
  /\ debt = [s \in Dates |-> "absent"]
  /\ recovery = {} /\ activated = FALSE
  /\ charges = [s \in Dates |-> 0] /\ released = [s \in Dates |-> 0] /\ lastDecline = Never
  /\ pc = [w \in Workers |-> "idle"]
  /\ seen = [w \in Workers |-> <<Never, 0>>]
  /\ target = [w \in Workers |-> 0]
  /\ try = [w \in Workers |-> 0]

-----------------------------------------------------------------------------
(* Dates. *)

\* nextBillingInstant: the anchor day of the next month.
Following(t) == CHOOSE m \in Calendar : m > t /\ \A n \in Calendar : n > t => m <= n

\* Mutant of RenewalPeriodStart: the retry date is taken for a due date.
NextAsStart == IF next = Never THEN Never ELSE next

\* While a retry is pending nextBillingDate is the retry date and the end of
\* the paid service is the period still being collected.
RenewalPeriodStart ==
  IF next # Never /\ declines > 0 /\ periodEnd < next THEN periodEnd ELSE next

\* Status OPEN: not settled yet, reserved by an attempt or not.
OpenDebts == {s \in Dates : debt[s] = "open" \/ debt[s] \in Unresolved}

\* Mutant of BeforeCutoff: owed periods go on after the cancellation.
AnyTime(s) == TRUE

BeforeCutoff(s) == canceledAt = Never \/ s < canceledAt

\* Accrual begins at the oldest unpaid period, else at the one due.
Begun(s) ==
  IF OpenDebts # {} THEN \E r \in OpenDebts : r <= s
  ELSE (IF RenewalPeriodStart # Never THEN RenewalPeriodStart ELSE periodEnd) <= s

\* The periods that have begun and have no obligation yet.
Missing ==
  {s \in Calendar \cap Dates : Begun(s) /\ s <= now /\ BeforeCutoff(s) /\ debt[s] = "absent"}

\* A missing period takes the price of the oldest unpaid one; there must be one.
AccrualRefused == Missing # {} /\ OpenDebts = {}

Accrued == [s \in Dates |-> IF s \in Missing THEN "open" ELSE debt[s]]

NoPendingPayment == \A s \in Dates : debt[s] \notin Unresolved

-----------------------------------------------------------------------------
(* Time, and the owner's cancellation. *)

Tick ==
  /\ now < Horizon
  /\ now' = now + 1
  /\ UNCHANGED <<subscription, collection, record, runs>>

\* Paid service runs to its end; anything else ends at once.
RequestCancellation ==
  /\ status # "CANCELED" /\ canceledAt = Never
  /\ NoPendingPayment
  /\ IF status = "ACTIVE" /\ periodEnd > now
       THEN /\ declines = 0 /\ next = periodEnd
            /\ canceledAt' = periodEnd
            /\ UNCHANGED <<status, next>>
       ELSE /\ canceledAt' = now
            /\ status' = "CANCELED" /\ next' = Never
  /\ UNCHANGED <<now, periodEnd, declines, collection, record, runs>>

WithdrawCancellation ==
  /\ status = "ACTIVE" /\ canceledAt # Never /\ canceledAt > now
  /\ periodEnd = canceledAt /\ next = periodEnd
  /\ NoPendingPayment
  /\ canceledAt' = Never
  /\ UNCHANGED <<now, status, periodEnd, next, declines, collection, record, runs>>

CancellationDue == status = "ACTIVE" /\ canceledAt # Never /\ canceledAt <= now

ApplyCancellation ==
  /\ CancellationDue
  /\ status' = "CANCELED" /\ next' = Never
  /\ UNCHANGED <<now, periodEnd, declines, canceledAt, collection, record, runs>>

-----------------------------------------------------------------------------
(* One renewal run. *)

Goto(w, s) == pc' = [pc EXCEPT ![w] = s]

EndRun(w) ==
  /\ Goto(w, "idle")
  /\ seen' = [seen EXCEPT ![w] = <<Never, 0>>]
  /\ target' = [target EXCEPT ![w] = 0]
  /\ try' = [try EXCEPT ![w] = 0]

\* nextBillingDate to the second: a retry carries the time of its decline, so
\* that it equals no boundary and no other retry.
Schedule == <<next, declines>>

\* The subscription is read without a lock; a run with nothing due ends here.
ReadDue(w) ==
  /\ pc[w] = "idle" /\ ~CancellationDue
  /\ status = "ACTIVE" /\ next # Never /\ next <= now
  /\ seen' = [seen EXCEPT ![w] = Schedule]
  /\ target' = [target EXCEPT ![w] = RenewalPeriodStart]
  /\ Goto(w, "read")
  /\ UNCHANGED <<now, subscription, collection, record, try>>

\* Mutant of RenewalDue: the schedule is not looked at again under the lock.
RenewalActive(s) == status = "ACTIVE" /\ canceledAt = Never

\* assertRenewalDue, under the subscription lock.
RenewalDue(s) ==
  /\ status = "ACTIVE" /\ canceledAt = Never
  /\ next # Never /\ next <= now
  /\ RenewalPeriodStart = s

\* The period is opened, or reused, and the saved card is asked.
RenewOpen(w) ==
  LET s == target[w] IN
  /\ pc[w] = "read"
  /\ RenewalDue(s)
  /\ debt[s] \in {"absent", "open"}
  /\ debt' = [debt EXCEPT ![s] = "charging"]
  /\ charges' = [charges EXCEPT ![s] = @ + 1]
  /\ try' = [try EXCEPT ![w] = charges[s] + 1]
  /\ Goto(w, "submitted")
  /\ UNCHANGED <<now, subscription, recovery, activated, released, lastDecline, seen, target>>

\* The attempt of an interrupted run is taken over; it is not a second charge.
RenewResume(w) ==
  /\ pc[w] = "read"
  /\ RenewalDue(target[w])
  /\ debt[target[w]] = "charging"
  /\ try' = [try EXCEPT ![w] = charges[target[w]]]
  /\ Goto(w, "submitted")
  /\ UNCHANGED <<now, subscription, collection, record, seen, target>>

\* The debt's attempt is still the one this run submits.
OwnAttempt(w) == try[w] = charges[target[w]]

\* Deferred, reserved by someone else, declined, uncertain, or crashed.
RunEnds(w) ==
  /\ pc[w] # "idle"
  /\ EndRun(w)
  /\ UNCHANGED <<now, subscription, collection, record>>

\* The capture of its own attempt, or one found on the debt (even a hosted one,
\* if the run read the subscription before it lapsed): receipt and settlement.
RunFinalizes(w) ==
  LET s == target[w]
      S == IF s \in recovery THEN recovery ELSE {s}
  IN
  /\ pc[w] = "read" \/ (pc[w] = "submitted" /\ s \notin recovery /\ OwnAttempt(w))
  /\ debt[s] = "captured"
  /\ debt' = [r \in Dates |-> IF r \in S THEN "satisfied" ELSE debt[r]]
  /\ recovery' = recovery \ S
  /\ activated' = (activated /\ recovery' # {})
  /\ Goto(w, "settled")
  /\ UNCHANGED <<now, subscription, record, seen, target, try>>

\* Mutant of RunFindsSettled: a settled period is taken for a finished renewal.
SkipSettled(w) ==
  /\ pc[w] = "read"
  /\ debt[target[w]] = "satisfied"
  /\ EndRun(w)
  /\ UNCHANGED <<now, subscription, collection, record>>

\* A run that finds the period settled goes straight to the dates.
RunFindsSettled(w) ==
  /\ pc[w] = "read"
  /\ debt[target[w]] = "satisfied"
  /\ Goto(w, "settled")
  /\ UNCHANGED <<now, subscription, collection, record, seen, target, try>>

\* Mutant of Unmoved: the dates are written whatever they are by now.
StillActive(w) == status = "ACTIVE"

Unmoved(w) == status = "ACTIVE" /\ seen[w] = Schedule

\* The compare-and-set on the due date that was read.
Advance(w) ==
  /\ pc[w] = "settled" /\ Unmoved(w)
  /\ periodEnd' = Following(target[w])
  /\ next' = periodEnd'
  /\ declines' = 0
  /\ EndRun(w)
  /\ UNCHANGED <<now, status, canceledAt, collection, record>>

-----------------------------------------------------------------------------
(* What becomes of a charge of the saved card. *)

TokenCaptured(s) ==
  /\ debt[s] = "charging"
  /\ debt' = [debt EXCEPT ![s] = "captured"]
  /\ UNCHANGED <<now, subscription, recovery, activated, record, runs>>

\* Only an ACTIVE subscription still collecting this period is touched.
Collecting(s) == status = "ACTIVE" /\ RenewalPeriodStart = s

\* A confirmed decline frees the debt and, in the same transaction, schedules
\* the retry or ends the subscription's access.
TokenDeclined(s) ==
  LET n == declines + 1 IN
  /\ debt[s] = "charging"
  /\ debt' = [debt EXCEPT ![s] = "open"]
  /\ lastDecline' = now
  /\ IF ~Collecting(s)
       THEN UNCHANGED <<status, next, declines>>
       ELSE /\ declines' = n
            /\ IF n >= MaxRenewalAttempts
                 THEN status' = "PAST_DUE" /\ UNCHANGED next
                 ELSE next' = now + RetryDelay[n] /\ UNCHANGED status
  /\ UNCHANGED <<now, periodEnd, canceledAt, recovery, activated, charges, released, runs>>

\* An operator confirms that an unresolved attempt took no money: the debt is
\* free again, and nothing is written to the schedule or the count of declines.
\* (That of a hosted settlement is RecoveryFails.)
OperatorReleases(s) ==
  /\ debt[s] = "charging" /\ released[s] < MaxReleases
  /\ debt' = [debt EXCEPT ![s] = "open"]
  /\ released' = [released EXCEPT ![s] = @ + 1]
  /\ UNCHANGED <<now, subscription, recovery, activated, charges, lastDecline, runs>>

\* No usable card: the submitting run asks CardCom for nothing, frees the debt,
\* and access ends at once.
LocalFailure(w) ==
  LET s == target[w] IN
  /\ pc[w] = "submitted" /\ debt[s] = "charging" /\ OwnAttempt(w)
  /\ debt' = [debt EXCEPT ![s] = "open"]
  /\ status' = IF Collecting(s) THEN "PAST_DUE" ELSE status
  /\ EndRun(w)
  /\ UNCHANGED <<now, periodEnd, next, declines, canceledAt, recovery, activated, record>>

\* recoverySubscriptionPatch: service up to the end of the last debt paid.
Patch(S) ==
  IF status = "CANCELED" \/ canceledAt # Never
    THEN status' = "CANCELED" /\ UNCHANGED <<periodEnd, next, declines, canceledAt>>
    ELSE \E last \in S :
         /\ \A s \in S : s <= last
         /\ periodEnd' = Following(last) /\ next' = periodEnd'
         /\ status' = IF periodEnd' > now THEN "ACTIVE" ELSE "PAST_DUE"
         /\ declines' = 0
         /\ UNCHANGED canceledAt

\* The completion task applies and then settles a capture no run completed.
TaskActivates(s) ==
  /\ debt[s] = "captured" /\ s \notin recovery
  /\ periodEnd < Following(s)
  /\ Patch({s})
  /\ UNCHANGED <<now, collection, record, runs>>

TaskFinalizes(s) ==
  /\ debt[s] = "captured" /\ s \notin recovery
  /\ periodEnd >= Following(s) \/ status = "CANCELED" \/ canceledAt # Never
  /\ debt' = [debt EXCEPT ![s] = "satisfied"]
  /\ UNCHANGED <<now, subscription, recovery, activated, record, runs>>

-----------------------------------------------------------------------------
(* Owed periods and their hosted settlement. *)

AccruePastDue ==
  /\ status \in {"PAST_DUE", "CANCELED"}
  /\ Missing # {} /\ ~AccrualRefused
  /\ debt' = Accrued
  /\ UNCHANGED <<now, subscription, recovery, activated, record, runs>>

\* The whole balance is quoted, nothing of it may be reserved.
Payable ==
  IF AccrualRefused \/ ~NoPendingPayment THEN {} ELSE {s \in Dates : Accrued[s] = "open"}

OpenRecovery ==
  /\ status \in {"PAST_DUE", "CANCELED"}
  /\ Payable # {}
  /\ debt' = [s \in Dates |-> IF s \in Payable THEN "reserved" ELSE Accrued[s]]
  /\ recovery' = Payable /\ activated' = FALSE
  /\ UNCHANGED <<now, subscription, record, runs>>

\* The page is declined or closed, or an operator releases it.
RecoveryFails ==
  /\ \E s \in recovery : debt[s] = "reserved"
  /\ debt' = [s \in Dates |-> IF s \in recovery THEN "open" ELSE debt[s]]
  /\ recovery' = {}
  /\ UNCHANGED <<now, subscription, activated, record, runs>>

RecoveryPaid ==
  /\ \E s \in recovery : debt[s] = "reserved"
  /\ debt' = [s \in Dates |-> IF s \in recovery THEN "captured" ELSE debt[s]]
  /\ UNCHANGED <<now, subscription, recovery, activated, record, runs>>

\* An ACTIVE subscription is left as it is.
RecoveryActivates ==
  /\ recovery # {} /\ ~activated
  /\ \A s \in recovery : debt[s] = "captured"
  /\ activated' = TRUE
  /\ IF status = "ACTIVE" THEN UNCHANGED subscription ELSE Patch(recovery)
  /\ UNCHANGED <<now, debt, recovery, record, runs>>

RecoverySettles ==
  /\ recovery # {} /\ activated
  /\ debt' = [s \in Dates |-> IF s \in recovery THEN "satisfied" ELSE debt[s]]
  /\ recovery' = {} /\ activated' = FALSE
  /\ UNCHANGED <<now, subscription, record, runs>>

-----------------------------------------------------------------------------
Owner == RequestCancellation \/ WithdrawCancellation \/ ApplyCancellation

Run(w) ==
  \/ ReadDue(w) \/ RenewOpen(w) \/ RenewResume(w) \/ LocalFailure(w) \/ RunEnds(w)
  \/ RunFinalizes(w) \/ RunFindsSettled(w) \/ Advance(w)

Verdict(s) ==
  \/ TokenCaptured(s) \/ TokenDeclined(s) \/ OperatorReleases(s)
  \/ TaskActivates(s) \/ TaskFinalizes(s)

Settlement ==
  \/ AccruePastDue \/ OpenRecovery \/ RecoveryFails
  \/ RecoveryPaid \/ RecoveryActivates \/ RecoverySettles

Next ==
  \/ Tick \/ Owner \/ Settlement
  \/ \E w \in Workers : Run(w)
  \/ \E s \in Dates : Verdict(s)

Spec == Init /\ [][Next]_vars
=============================================================================
