-------------------------- MODULE RenewalCycle_proofs --------------------------
(***************************************************************************)
(* The renewal cycle keeps its promises for any calendar, any number of    *)
(* overlapping runs, any retry delays and any length of time.              *)
(***************************************************************************)
EXTENDS RenewalCorrectness, TLAPS

USE DEF subscription, collection, record, runs, vars, Dates

-----------------------------------------------------------------------------
(* The inductive invariant. *)

\* The due date is the end of service, or a retry after it.
ScheduleFits ==
  /\ Purchased <= periodEnd
  /\ status = "CANCELED" <=> next = Never
  /\ next # Never /\ declines = 0 => next = periodEnd
  /\ next # Never /\ declines > 0 => periodEnd < next
  /\ status = "ACTIVE" => declines < MaxRenewalAttempts

\* Only periods that have begun are on the books, and the saved card is asked
\* for the period at the end of service only.
DebtsFit == \A s \in Dates :
  /\ debt[s] # "absent" => s <= now
  /\ debt[s] = "charging" => s = periodEnd
  /\ debt[s] = "captured" /\ s \notin recovery => s <= periodEnd
  /\ debt[s] = "reserved" => s \in recovery

\* The debts of a hosted settlement move together; until it is applied they are
\* all that is unresolved, nothing unpaid precedes them, and the customer lapsed.
RecoveryFits ==
  /\ \/ \A s \in recovery : debt[s] = "reserved"
     \/ \A s \in recovery : debt[s] = "captured"
  /\ activated => \A s \in recovery : debt[s] = "captured"
  /\ recovery # {} /\ ~activated =>
       /\ status # "ACTIVE"
       /\ \A s \in recovery : periodEnd <= s
       /\ \A s \in Dates \ recovery : debt[s] \notin Unresolved
       /\ \A s \in Dates, r \in recovery : debt[s] = "open" => r < s

\* A run holds a period that was due when it read it; if the schedule it read is
\* still there, the period is still the one at the end of service.
RunFits(w) ==
  pc[w] # "idle" =>
    /\ target[w] \in Calendar \cap Dates /\ target[w] <= periodEnd
    /\ seen[w][1] \in Nat /\ seen[w][1] <= now
    /\ seen[w][2] = 0 => seen[w][1] = target[w]
    /\ status = "ACTIVE" /\ seen[w] = Schedule => target[w] = periodEnd
    /\ pc[w] = "settled" => debt[target[w]] = "satisfied"

RunsFit == \A w \in Workers : RunFits(w)

\* Every attempt of this cycle was declined, released, or is under way.
ChargesFit ==
  /\ \A s \in Dates : s > periodEnd => charges[s] = 0 /\ released[s] = 0
  /\ status = "ACTIVE" /\ periodEnd \in Dates =>
       /\ debt[periodEnd] \in {"absent", "open"} =>
            charges[periodEnd] = declines + released[periodEnd]
       /\ debt[periodEnd] = "charging" =>
            charges[periodEnd] = declines + released[periodEnd] + 1
  /\ status = "ACTIVE" /\ declines > 0 =>
       lastDecline # Never /\ next = lastDecline + RetryDelay[declines]

\* A cancellation waits for what is being collected, and nothing is collected
\* between its request and the end of the paid service.
CancelFits ==
  canceledAt # Never =>
    /\ status # "PAST_DUE"
    /\ status = "ACTIVE" => NoPendingPayment

IInv ==
  /\ TypeOK /\ ScheduleFits /\ CancelFits /\ DebtsFit /\ RecoveryFits /\ RunsFit /\ ChargesFit
  /\ DebtsHaveNoGaps /\ ServiceIsPaid

-----------------------------------------------------------------------------
(* Dates and owed periods. *)

\* Instants are numbers, and Never is none.
LEMMA Instants ==
  /\ Horizon \in Nat /\ Calendar \subseteq Nat /\ Purchased \in Calendar /\ Never \notin Nat
  /\ RetryDelay \in [1..2 -> Nat \ {0}] /\ MaxReleases \in Nat
BY HorizonAssumption, CalendarAssumption, DelayAssumption

USE Instants

\* The scalar types, without the rest.
LEMMA Numbers ==
  ASSUME TypeOK
  PROVE  /\ now \in Nat /\ now <= Horizon
         /\ periodEnd \in Calendar /\ periodEnd \in Nat
         /\ next \in Nat \cup {Never} /\ canceledAt \in Nat \cup {Never}
         /\ declines \in 0..3
         /\ status \in {"ACTIVE", "PAST_DUE", "CANCELED"}
BY DEF TypeOK, MaxRenewalAttempts

\* The next boundary is the first one after t.
LEMMA FollowingIsNext ==
  ASSUME NEW t \in Dates
  PROVE  /\ Following(t) \in Calendar /\ Following(t) > t
         /\ \A n \in Calendar : n > t => Following(t) <= n
BY CalendarAssumption DEF Following

\* Whatever the retry date says, the period being collected is at the end of service.
LEMMA StartIsEnd ==
  ASSUME TypeOK, ScheduleFits
  PROVE  RenewalPeriodStart = IF next = Never THEN Never ELSE periodEnd
BY DEF TypeOK, ScheduleFits, RenewalPeriodStart, MaxRenewalAttempts

\* An unpaid period is not behind the end of service.
LEMMA UnpaidIsAhead ==
  ASSUME TypeOK, DebtsHaveNoGaps, ServiceIsPaid,
         NEW s \in Dates, debt[s] \in {"open", "charging", "reserved"}
  PROVE  periodEnd <= s
<1>1. s \in Calendar /\ Purchased <= s
  BY DEF DebtsHaveNoGaps
<1>3. ~(s < periodEnd)
  BY <1>1 DEF ServiceIsPaid, Paid
<1> QED BY <1>1, <1>3, Numbers

\* Accrual adds the periods after every one on the books, without a gap.
LEMMA MissingFits ==
  ASSUME IInv, NEW s \in Missing
  PROVE  /\ s \in Calendar \cap Dates /\ Purchased <= s /\ periodEnd <= s /\ s <= now
         /\ debt[s] = "absent"
         /\ \A r \in Calendar : Purchased <= r /\ r < s => r \in Dates /\ (debt[r] # "absent" \/ r \in Missing)
         /\ \A r \in Dates : debt[r] # "absent" => r < s
<1> USE DEF IInv
<1>1. /\ s \in Calendar \cap Dates /\ Begun(s) /\ s <= now /\ BeforeCutoff(s)
      /\ debt[s] = "absent"
  BY DEF Missing
<1>2. Purchased <= s
  <2>1. CASE OpenDebts # {}
    <3>1. PICK o \in OpenDebts : o <= s
      BY <1>1, <2>1 DEF Begun
    <3>2. o \in Dates /\ debt[o] # "absent"
      BY <3>1 DEF OpenDebts, Unresolved
    <3>3. o \in Calendar /\ Purchased <= o
      BY <3>2 DEF DebtsHaveNoGaps
    <3> QED BY <1>1, <3>1, <3>3
  <2>2. CASE OpenDebts = {}
    <3>1. periodEnd <= s
      BY <1>1, <2>2, StartIsEnd DEF Begun
    <3> QED BY <1>1, <3>1, Numbers DEF ScheduleFits
  <2> QED BY <2>1, <2>2
<1>3. periodEnd <= s
  <2>1. ~(s < periodEnd)
    BY <1>1, <1>2 DEF ServiceIsPaid, Paid
  <2> QED BY <2>1, <1>1, Numbers
<1>4. \A r \in Dates : debt[r] # "absent" => r < s
  BY <1>1, <1>2 DEF DebtsHaveNoGaps
<1>5. ASSUME NEW r \in Calendar, Purchased <= r, r < s
      PROVE  r \in Dates /\ (debt[r] # "absent" \/ r \in Missing)
  <2>1. r \in Dates /\ r <= now
    BY <1>1, <1>5 DEF TypeOK
  <2>2. BeforeCutoff(r)
    BY <1>1, <1>5 DEF BeforeCutoff, TypeOK
  <2>3. CASE OpenDebts # {}
    <3>1. PICK o \in OpenDebts : o <= s
      BY <1>1, <2>3 DEF Begun
    <3>2. o \in Dates /\ debt[o] # "absent"
      BY <3>1 DEF OpenDebts, Unresolved
    <3>3. CASE o <= r
      BY <2>1, <2>2, <2>3, <3>1, <3>3, <1>5 DEF Missing, Begun
    <3>4. CASE r < o
      BY <3>2, <3>4, <1>5 DEF DebtsHaveNoGaps
    <3> QED BY <3>2, <3>3, <3>4, <2>1
  <2>4. CASE OpenDebts = {}
    <3>1. CASE periodEnd <= r
      BY <2>1, <2>2, <2>4, <3>1, <1>5, StartIsEnd DEF Missing, Begun
    <3>2. CASE r < periodEnd
      BY <3>2, <1>5 DEF ServiceIsPaid, Paid
    <3> QED BY <3>1, <3>2, <2>1 DEF TypeOK
  <2> QED BY <2>3, <2>4
<1> QED BY <1>1, <1>2, <1>3, <1>4, <1>5
-----------------------------------------------------------------------------
(* What moves the end of service forward. *)

Extended ==
  /\ periodEnd' \in Calendar /\ periodEnd < periodEnd'
  /\ next' = periodEnd' /\ declines' = 0
  /\ status # "CANCELED" /\ status' \in {"ACTIVE", "PAST_DUE"} /\ canceledAt' = canceledAt
  /\ canceledAt = Never \/ status' = status
  /\ \A s \in Calendar : Purchased <= s /\ s < periodEnd' => s \in Dates /\ debt[s] \in Paid

\* The patch extends service when nothing unpaid lies before the end it writes.
LEMMA PatchExtends ==
  ASSUME IInv, NEW S \in SUBSET Dates, Patch(S),
         canceledAt # Never => status = "CANCELED",
         \A last \in S : /\ periodEnd <= last
                        /\ \A s \in Calendar : Purchased <= s /\ s <= last => debt[s] \in Paid
  PROVE  UNCHANGED subscription \/ Extended
<1>1. CASE status = "CANCELED" \/ canceledAt # Never
  <2>1. status = "CANCELED"
    BY <1>1
  <2> QED BY <1>1, <2>1 DEF Patch
<1>2. CASE ~(status = "CANCELED" \/ canceledAt # Never)
  <2>1. PICK last \in S :
          /\ periodEnd' = Following(last) /\ next' = periodEnd'
          /\ status' = IF periodEnd' > now THEN "ACTIVE" ELSE "PAST_DUE"
          /\ declines' = 0 /\ canceledAt' = canceledAt
    BY <1>2 DEF Patch
  <2>2. /\ periodEnd' \in Calendar /\ periodEnd' > last
        /\ \A n \in Calendar : n > last => periodEnd' <= n
    BY <2>1, FollowingIsNext
  <2>3. \A s \in Calendar : s < periodEnd' => s <= last
    BY <2>2
  <2>4. periodEnd < periodEnd'
    BY <2>2, Numbers DEF IInv
  <2>5. \A s \in Calendar : Purchased <= s /\ s < periodEnd' => s \in Dates /\ debt[s] \in Paid
    BY <2>3
  <2> QED BY <1>2, <2>1, <2>2, <2>4, <2>5 DEF Extended
<1> QED BY <1>1, <1>2

\* The compare-and-set of a run extends service by the period it collected.
LEMMA AdvanceExtends ==
  ASSUME IInv, NEW w \in Workers, Advance(w)
  PROVE  Extended
<1>1. /\ status = "ACTIVE" /\ status' = status /\ canceledAt' = canceledAt
      /\ periodEnd' = Following(target[w]) /\ next' = periodEnd' /\ declines' = 0
      /\ target[w] \in Calendar \cap Dates /\ debt[target[w]] = "satisfied"
      /\ target[w] = periodEnd
  BY DEF Advance, Unmoved, IInv, RunsFit, RunFits
<1>2. /\ periodEnd' \in Calendar /\ periodEnd' > periodEnd
      /\ \A n \in Calendar : n > periodEnd => periodEnd' <= n
  BY <1>1, FollowingIsNext
<1>3. ASSUME NEW s \in Calendar, Purchased <= s, s < periodEnd'
      PROVE  s \in Dates /\ debt[s] \in Paid
  <2>1. s <= periodEnd
    BY <1>2, <1>3, Numbers DEF IInv
  <2>2. s < periodEnd \/ s = periodEnd
    BY <2>1, Numbers DEF IInv
  <2> QED BY <2>2, <1>1, <1>3 DEF IInv, ServiceIsPaid, Paid
<1> QED BY <1>1, <1>2, <1>3 DEF Extended

\* So does the completion task with the period that was being collected.
LEMMA TaskExtends ==
  ASSUME IInv, NEW t \in Dates, TaskActivates(t)
  PROVE  UNCHANGED subscription \/ Extended
<1>1. t \in Calendar /\ debt[t] = "captured" /\ t <= periodEnd /\ periodEnd < Following(t)
  BY DEF TaskActivates, IInv, DebtsFit, DebtsHaveNoGaps
<1>2. t = periodEnd
  <2>1. periodEnd \in Calendar /\ Following(t) \in Calendar
    BY FollowingIsNext, Numbers DEF IInv
  <2>2. t < periodEnd => Following(t) <= periodEnd
    BY <2>1, FollowingIsNext
  <2>3. t \in Nat /\ periodEnd \in Nat /\ Following(t) \in Nat
    BY <1>1, <2>1
  <2> QED BY <1>1, <2>2, <2>3
<1>3. ASSUME NEW s \in Calendar, Purchased <= s, s <= t PROVE debt[s] \in Paid
  <2>1. s < periodEnd \/ s = t
    BY <1>1, <1>2, <1>3
  <2> QED BY <2>1, <1>1, <1>3 DEF IInv, ServiceIsPaid, Paid
<1>4. Patch({t})
  BY DEF TaskActivates
<1>5. canceledAt # Never => status = "CANCELED"
  BY <1>1, Numbers DEF IInv, CancelFits, NoPendingPayment, Unresolved
<1> QED BY <1>1, <1>2, <1>3, <1>4, <1>5, PatchExtends

\* And a hosted settlement with everything that was unpaid when it was opened.
LEMMA RecoveryExtends ==
  ASSUME IInv, RecoveryActivates
  PROVE  UNCHANGED subscription \/ Extended
<1>1. /\ recovery # {} /\ ~activated /\ \A s \in recovery : debt[s] = "captured"
      /\ recovery \in SUBSET Dates
  BY DEF RecoveryActivates, IInv, TypeOK
<1>2. CASE status = "ACTIVE"
  BY <1>2 DEF RecoveryActivates
<1>3. CASE status # "ACTIVE"
  <2>1. Patch(recovery)
    BY <1>3 DEF RecoveryActivates
  <2>2. ASSUME NEW last \in recovery,
               NEW s \in Calendar, Purchased <= s, s <= last
        PROVE  debt[s] \in Paid
    <3>1. CASE s = last
      BY <3>1, <1>1 DEF Paid
    <3>2. CASE s # last
      <4>1. s < last /\ last \in Dates /\ debt[last] # "absent"
        BY <3>2, <2>2, <1>1
      <4>2. s \in Dates
        BY <4>1
      <4>3. debt[s] # "absent" /\ debt[s] \in DebtStates
        BY <4>1, <4>2, <2>2 DEF IInv, DebtsHaveNoGaps, TypeOK
      <4>4. CASE s \in recovery
        BY <4>4, <1>1 DEF Paid
      <4>5. CASE s \notin recovery
        <5>1. debt[s] \notin Unresolved
          BY <1>1, <4>2, <4>5 DEF IInv, RecoveryFits
        <5>2. debt[s] = "open" => last < s
          BY <1>1, <4>2 DEF IInv, RecoveryFits
        <5>3. debt[s] # "open"
          BY <5>2, <4>1, <4>2
        <5> QED BY <5>1, <5>3, <4>3 DEF DebtStates, Unresolved, Paid
      <4> QED BY <4>4, <4>5
    <3> QED BY <3>1, <3>2
  <2>3. \A last \in recovery : periodEnd <= last
    BY <1>1 DEF IInv, RecoveryFits
  <2>4. canceledAt # Never => status = "CANCELED"
    BY <1>3, Numbers DEF IInv, CancelFits
  <2> QED BY <1>1, <2>1, <2>2, <2>3, <2>4, PatchExtends
<1> QED BY <1>2, <1>3
-----------------------------------------------------------------------------
(* The steps. *)

\* Every step either leaves the subscription alone, extends it, schedules what a
\* decline does, or is the owner's.
LEMMA SubscriptionStep ==
  ASSUME IInv, [Next]_vars
  PROVE  \/ UNCHANGED subscription
         \/ Extended /\ debt' = debt
         \/ \E s \in Dates : TokenDeclined(s)
         \/ \E w \in Workers : LocalFailure(w)
         \/ Owner
<1>1. ASSUME NEW w \in Workers, Run(w), ~Advance(w), ~LocalFailure(w) PROVE UNCHANGED subscription
  BY <1>1 DEF Run, ReadDue, RenewOpen, RenewResume, RunEnds, RunFinalizes, RunFindsSettled
<1>2. ASSUME NEW s \in Dates, Verdict(s), ~TokenDeclined(s)
      PROVE  UNCHANGED subscription \/ (Extended /\ debt' = debt)
  <2>1. CASE TokenCaptured(s) \/ TaskFinalizes(s) \/ OperatorReleases(s)
    BY <2>1 DEF TokenCaptured, TaskFinalizes, OperatorReleases
  <2>2. CASE TaskActivates(s)
    BY <2>2, TaskExtends DEF TaskActivates
  <2> QED BY <1>2, <2>1, <2>2 DEF Verdict
<1>3. ASSUME Settlement PROVE UNCHANGED subscription \/ (Extended /\ debt' = debt)
  <2>1. CASE RecoveryActivates
    BY <2>1, RecoveryExtends DEF RecoveryActivates
  <2>2. CASE ~RecoveryActivates
    BY <1>3, <2>2 DEF Settlement, AccruePastDue, OpenRecovery, RecoveryFails, RecoveryPaid,
       RecoverySettles
  <2> QED BY <2>1, <2>2
<1>4. ASSUME NEW w \in Workers, Advance(w) PROVE Extended /\ debt' = debt
  BY <1>4, AdvanceExtends DEF Advance
<1>5. CASE Tick \/ UNCHANGED vars
  BY <1>5 DEF Tick
<1> QED BY <1>1, <1>2, <1>3, <1>4, <1>5 DEF Next

\* The types.
LEMMA TypeStep ==
  ASSUME IInv, [Next]_vars
  PROVE  TypeOK'
<1> DEFINE Sub == /\ status \in {"ACTIVE", "PAST_DUE", "CANCELED"} /\ periodEnd \in Calendar
                   /\ next \in Nat \cup {Never} /\ declines \in 0..3
                   /\ canceledAt \in Nat \cup {Never}
               Coll == /\ debt \in [Dates -> DebtStates] /\ recovery \subseteq Dates
                       /\ activated \in BOOLEAN
               Rec == /\ now \in Dates /\ charges \in [Dates -> Nat] /\ released \in [Dates -> Nat]
                      /\ lastDecline \in Dates \cup {Never}
               Pc  == pc \in [Workers -> {"idle", "read", "submitted", "settled"}]
               Held == /\ seen \in [Workers -> (Nat \cup {Never}) \X (0..3)]
                       /\ target \in [Workers -> Nat] /\ try \in [Workers -> Nat]
<1>1. Sub'
  <2>0. Sub
    BY Numbers DEF IInv
  <2>1. CASE UNCHANGED subscription
    BY <2>0, <2>1
  <2>2. CASE Extended
    BY <2>0, <2>2 DEF Extended
  <2>3. ASSUME NEW s \in Dates, TokenDeclined(s) PROVE Sub'
    BY <2>0, <2>3, Numbers DEF TokenDeclined, Collecting, MaxRenewalAttempts, IInv, ScheduleFits
  <2>4. ASSUME NEW w \in Workers, LocalFailure(w) PROVE Sub'
    BY <2>0, <2>4 DEF LocalFailure
  <2>5. CASE Owner
    BY <2>0, <2>5, Numbers DEF Owner, RequestCancellation, WithdrawCancellation,
       ApplyCancellation, IInv
  <2> QED BY <2>1, <2>2, <2>3, <2>4, <2>5, SubscriptionStep
<1>2. Coll'
  <2>0. Coll
    BY DEF IInv, TypeOK
  <2> USE <2>0 DEF DebtStates
  <2>1. ASSUME NEW w \in Workers, Run(w) PROVE Coll'
    <3>1. CASE RenewOpen(w) \/ LocalFailure(w)
      BY <3>1 DEF RenewOpen, LocalFailure
    <3>2. CASE RunFinalizes(w)
      BY <3>2 DEF RunFinalizes
    <3>3. CASE ~(RenewOpen(w) \/ LocalFailure(w) \/ RunFinalizes(w))
      BY <2>1, <3>3 DEF Run, ReadDue, RenewResume, RunEnds, RunFindsSettled, Advance
    <3> QED BY <3>1, <3>2, <3>3
  <2>2. ASSUME NEW s \in Dates, Verdict(s) PROVE Coll'
    BY <2>2 DEF Verdict, TokenCaptured, TokenDeclined, OperatorReleases, TaskActivates,
       TaskFinalizes
  <2>3. CASE Settlement
    BY <2>3 DEF Settlement, AccruePastDue, OpenRecovery, RecoveryFails, RecoveryPaid,
       RecoveryActivates, RecoverySettles, Accrued, Payable
  <2>4. CASE Tick \/ Owner \/ UNCHANGED vars
    BY <2>4 DEF Tick, Owner, RequestCancellation, WithdrawCancellation, ApplyCancellation
  <2> QED BY <2>1, <2>2, <2>3, <2>4 DEF Next
<1>3. Rec'
  <2>0. Rec
    BY DEF IInv, TypeOK
  <2> USE <2>0
  <2>1. ASSUME NEW w \in Workers, Run(w) PROVE Rec'
    <3>1. CASE RenewOpen(w)
      <4>0. target[w] \in Dates /\ charges' = [charges EXCEPT ![target[w]] = @ + 1]
        BY <3>1 DEF RenewOpen, IInv, RunsFit, RunFits
      <4>1. charges' \in [Dates -> Nat]
        BY <4>0
      <4> QED BY <3>1, <4>1 DEF RenewOpen
    <3>2. CASE ~RenewOpen(w)
      BY <2>1, <3>2 DEF Run, ReadDue, RenewResume, LocalFailure, RunEnds, RunFinalizes,
         RunFindsSettled, Advance
    <3> QED BY <3>1, <3>2
  <2>2. ASSUME NEW s \in Dates, Verdict(s) PROVE Rec'
    <3>1. CASE TokenDeclined(s)
      BY <3>1 DEF TokenDeclined
    <3>2. CASE OperatorReleases(s)
      <4>1. /\ now' = now /\ charges' = charges /\ lastDecline' = lastDecline
            /\ released' = [released EXCEPT ![s] = @ + 1]
        BY <3>2 DEF OperatorReleases
      <4>2. released' \in [Dates -> Nat]
        BY <4>1
      <4> QED BY <4>1, <4>2
    <3>3. CASE ~TokenDeclined(s) /\ ~OperatorReleases(s)
      BY <2>2, <3>3 DEF Verdict, TokenCaptured, TaskActivates, TaskFinalizes
    <3> QED BY <3>1, <3>2, <3>3
  <2>3. CASE Settlement
    <3>1. UNCHANGED <<now, record>>
      BY <2>3 DEF Settlement, AccruePastDue, OpenRecovery, RecoveryFails, RecoveryPaid,
         RecoveryActivates, RecoverySettles
    <3> QED BY <3>1
  <2>4. CASE Tick \/ Owner \/ UNCHANGED vars
    <3>1. UNCHANGED record
      BY <2>4 DEF Tick, Owner, RequestCancellation, WithdrawCancellation, ApplyCancellation
    <3>2. CASE Tick
      BY <3>1, <3>2 DEF Tick
    <3>3. CASE Owner \/ UNCHANGED vars
      <4>1. now' = now
        BY <3>3 DEF Owner, RequestCancellation, WithdrawCancellation, ApplyCancellation
      <4> QED BY <3>1, <4>1
    <3> QED BY <2>4, <3>2, <3>3
  <2> QED BY <2>1, <2>2, <2>3, <2>4 DEF Next
<1>4. Pc' /\ Held'
  <2>0. Pc /\ Held
    BY DEF IInv, TypeOK, MaxRenewalAttempts
  <2>1. ASSUME NEW w \in Workers, Run(w), ~ReadDue(w) PROVE Pc' /\ Held'
    <3>1. CASE EndRun(w)
      BY <2>0, <3>1 DEF EndRun, Goto
    <3>2. CASE RenewOpen(w) \/ RenewResume(w)
      <4>1. target[w] \in Dates /\ charges \in [Dates -> Nat]
        BY <3>2 DEF RenewOpen, RenewResume, IInv, RunsFit, RunFits, TypeOK
      <4>2. charges[target[w]] \in Nat /\ charges[target[w]] + 1 \in Nat
        BY <4>1
      <4> QED BY <2>0, <3>2, <4>2 DEF RenewOpen, RenewResume, Goto
    <3>3. CASE ~EndRun(w) /\ ~RenewOpen(w) /\ ~RenewResume(w)
      BY <2>0, <2>1, <3>3 DEF Run, LocalFailure, RunEnds, RunFinalizes, RunFindsSettled,
         Advance, Goto
    <3> QED BY <3>1, <3>2, <3>3
  <2>2. ASSUME NEW w \in Workers, ReadDue(w) PROVE Pc' /\ Held'
    <3>1. RenewalPeriodStart \in Nat /\ Schedule \in (Nat \cup {Never}) \X (0..3)
      BY <2>2, StartIsEnd, Numbers DEF ReadDue, Schedule, IInv
    <3> QED BY <2>0, <2>2, <3>1 DEF ReadDue, Goto
  <2>3. CASE UNCHANGED runs
    BY <2>0, <2>3
  <2>4. ASSUME NEW s \in Dates, Verdict(s) PROVE UNCHANGED runs
    BY <2>4 DEF Verdict, TokenCaptured, TokenDeclined, OperatorReleases, TaskActivates,
       TaskFinalizes
  <2>5. CASE Settlement
    BY <2>3, <2>5 DEF Settlement, AccruePastDue, OpenRecovery, RecoveryFails, RecoveryPaid,
       RecoveryActivates, RecoverySettles
  <2>6. CASE Tick \/ Owner \/ UNCHANGED vars
    BY <2>3, <2>6 DEF Tick, Owner, RequestCancellation, WithdrawCancellation, ApplyCancellation
  <2> QED BY <2>1, <2>2, <2>3, <2>4, <2>5, <2>6 DEF Next
<1> QED BY <1>1, <1>2, <1>3, <1>4 DEF TypeOK, MaxRenewalAttempts
\* The schedule.
LEMMA ScheduleStep ==
  ASSUME IInv, [Next]_vars
  PROVE  ScheduleFits'
<1>0. ScheduleFits /\ periodEnd \in Nat /\ Purchased \in Nat
  BY Numbers DEF IInv
<1>1. CASE UNCHANGED subscription
  BY <1>0, <1>1 DEF ScheduleFits
<1>2. CASE Extended
  BY <1>0, <1>2 DEF Extended, ScheduleFits, MaxRenewalAttempts
<1>3. ASSUME NEW s \in Dates, TokenDeclined(s) PROVE ScheduleFits'
  <2>1. debt[s] = "charging" /\ s = periodEnd /\ s <= now
    BY <1>3 DEF TokenDeclined, IInv, DebtsFit
  <2>2. CASE ~Collecting(s)
    BY <1>0, <1>3, <2>2 DEF TokenDeclined, ScheduleFits
  <2>3. CASE Collecting(s)
    <3>1. status = "ACTIVE" /\ declines \in 0..2 /\ next # Never
      BY <2>3, <1>0, Numbers DEF Collecting, ScheduleFits, MaxRenewalAttempts, IInv
    <3>2. CASE declines + 1 >= 3
      BY <1>0, <1>3, <2>3, <3>1, <3>2, Numbers DEF TokenDeclined, ScheduleFits, MaxRenewalAttempts, IInv
    <3>3. CASE declines + 1 < 3
      <4>1. RetryDelay[declines + 1] \in Nat \ {0}
        BY <3>1, <3>3
      <4>2. /\ next' = now + RetryDelay[declines + 1] /\ status' = status
            /\ declines' = declines + 1 /\ periodEnd' = periodEnd
        BY <1>3, <2>3, <3>1, <3>3 DEF TokenDeclined, MaxRenewalAttempts
      <4>3. next' \in Nat /\ next' > periodEnd
        BY <4>1, <4>2, <2>1, Numbers DEF IInv
      <4> QED BY <1>0, <3>1, <3>3, <4>2, <4>3 DEF ScheduleFits, MaxRenewalAttempts
    <3> QED BY <3>1, <3>2, <3>3
  <2> QED BY <2>2, <2>3
<1>4. ASSUME NEW w \in Workers, LocalFailure(w) PROVE ScheduleFits'
  BY <1>0, <1>4 DEF LocalFailure, Collecting, ScheduleFits
<1>5. CASE Owner
  BY <1>0, <1>5 DEF Owner, RequestCancellation, WithdrawCancellation, ApplyCancellation,
     CancellationDue, ScheduleFits
<1> QED BY <1>1, <1>2, <1>3, <1>4, <1>5, SubscriptionStep

\* The cancellation.
LEMMA CancelStep ==
  ASSUME IInv, [Next]_vars
  PROVE  CancelFits'
<1>0. CancelFits
  BY DEF IInv
<1>1. ASSUME UNCHANGED <<status, canceledAt>>, \A s \in Dates : debt'[s] \in Unresolved => debt[s] \in Unresolved
      PROVE  CancelFits'
  BY <1>0, <1>1 DEF CancelFits, NoPendingPayment
<1>2. CASE UNCHANGED vars \/ Tick
  BY <1>1, <1>2 DEF Tick
<1>3. CASE Owner
  BY <1>0, <1>3 DEF Owner, RequestCancellation, WithdrawCancellation, ApplyCancellation,
     CancellationDue, CancelFits, NoPendingPayment
<1>4. CASE Settlement
  <2>1. CASE RecoveryActivates
    BY <2>1, <1>0, RecoveryExtends DEF RecoveryActivates, Extended, CancelFits, NoPendingPayment
  <2>2. CASE AccruePastDue \/ OpenRecovery
    BY <2>2, <1>0 DEF AccruePastDue, OpenRecovery, CancelFits
  <2>3. CASE RecoveryFails \/ RecoveryPaid \/ RecoverySettles
    BY <2>3, <1>1 DEF RecoveryFails, RecoveryPaid, RecoverySettles, Unresolved, RecoveryFits, IInv, TypeOK
  <2> QED BY <1>4, <2>1, <2>2, <2>3 DEF Settlement
<1>5. ASSUME NEW w \in Workers, Run(w) PROVE CancelFits'
  <2>1. CASE RenewOpen(w)
    BY <2>1, <1>0 DEF RenewOpen, RenewalDue, CancelFits
  <2>2. CASE RunFinalizes(w)
    BY <2>2, <1>1 DEF RunFinalizes, Unresolved
  <2>3. CASE LocalFailure(w)
    <3>1. target[w] \in Dates /\ debt[target[w]] \in Unresolved /\ canceledAt' = canceledAt
      BY <2>3 DEF LocalFailure, Unresolved, IInv, RunsFit, RunFits
    <3>2. canceledAt # Never => status # "ACTIVE" /\ status # "PAST_DUE"
      BY <3>1, <1>0 DEF CancelFits, NoPendingPayment
    <3> QED BY <2>3, <3>1, <3>2 DEF LocalFailure, Collecting, CancelFits
  <2>4. CASE Advance(w)
    BY <2>4, <1>1 DEF Advance
  <2>5. CASE ReadDue(w) \/ RenewResume(w) \/ RunEnds(w) \/ RunFindsSettled(w)
    BY <2>5, <1>1 DEF ReadDue, RenewResume, RunEnds, RunFindsSettled
  <2> QED BY <1>5, <2>1, <2>2, <2>3, <2>4, <2>5 DEF Run
<1>6. ASSUME NEW s \in Dates, Verdict(s) PROVE CancelFits'
  <2>1. CASE TokenDeclined(s)
    BY <2>1, <1>0 DEF TokenDeclined, CancelFits, NoPendingPayment, Unresolved, Collecting
  <2>2. CASE TaskActivates(s)
    BY <2>2, <1>0, TaskExtends DEF TaskActivates, Extended, CancelFits, NoPendingPayment
  <2>3. CASE TokenCaptured(s) \/ TaskFinalizes(s) \/ OperatorReleases(s)
    <3>1. UNCHANGED <<status, canceledAt>> /\ debt[s] \in Unresolved
      BY <2>3 DEF TokenCaptured, TaskFinalizes, OperatorReleases, Unresolved
    <3>2. \A r \in Dates : r # s => debt'[r] = debt[r]
      BY <2>3 DEF TokenCaptured, TaskFinalizes, OperatorReleases, IInv, TypeOK
    <3> QED BY <1>1, <3>1, <3>2
  <2> QED BY <1>6, <2>1, <2>2, <2>3 DEF Verdict
<1> QED BY <1>2, <1>3, <1>4, <1>5, <1>6 DEF Next

\* The clock does not go back.
LEMMA ClockStep ==
  ASSUME IInv, [Next]_vars
  PROVE  now' \in Nat /\ now <= now' /\ (now' = now \/ UNCHANGED <<subscription, collection, record, runs>>)
<1>1. CASE Tick
  BY <1>1, Numbers DEF Tick, IInv
<1>2. CASE ~Tick
  <2>1. now' = now
    BY <1>2 DEF Next, Owner, Run, Verdict, Settlement, RequestCancellation, WithdrawCancellation,
       ApplyCancellation, ReadDue, RenewOpen, RenewResume, LocalFailure, RunEnds, RunFinalizes,
       RunFindsSettled, Advance, TokenCaptured, TokenDeclined, OperatorReleases, TaskActivates,
       TaskFinalizes,
       AccruePastDue, OpenRecovery, RecoveryFails, RecoveryPaid, RecoveryActivates, RecoverySettles
  <2> QED BY <2>1, Numbers DEF IInv
<1> QED BY <1>1, <1>2

\* What may happen to one debt.
Accrues(s) ==
  /\ debt[s] = "absent" /\ s \in Missing /\ status # "ACTIVE"
  /\ \A r \in Missing : debt'[r] # "absent"

Renews(s) ==
  /\ debt[s] \in {"absent", "open"} /\ debt'[s] = "charging"
  /\ s = periodEnd /\ s <= now /\ status = "ACTIVE" /\ canceledAt = Never /\ UNCHANGED subscription
  /\ charges'[s] = charges[s] + 1

Refused(s) ==
  TokenDeclined(s) \/ OperatorReleases(s) \/ \E w \in Workers : LocalFailure(w) /\ target[w] = s

DebtMove(s) ==
  \/ debt'[s] = debt[s]
  \/ Accrues(s) /\ debt'[s] \in {"open", "reserved"}
  \/ Renews(s)
  \/ debt[s] = "charging" /\ (debt'[s] = "captured" \/ (debt'[s] = "open" /\ Refused(s)))
  \/ debt[s] = "open" /\ debt'[s] = "reserved"
  \/ debt[s] = "reserved" /\ debt'[s] \in {"captured", "open"}
  \/ debt[s] = "captured" /\ debt'[s] = "satisfied"

\* A charge is asked for the period at the end of service, which has begun.
LEMMA RenewOpenFits ==
  ASSUME IInv, NEW w \in Workers, RenewOpen(w)
  PROVE  /\ target[w] = periodEnd /\ target[w] \in Dates /\ Renews(target[w])
         /\ debt' = [debt EXCEPT ![target[w]] = "charging"]
         /\ next \in Nat /\ next <= now
<1>1. /\ status = "ACTIVE" /\ canceledAt = Never /\ next # Never /\ next <= now
      /\ RenewalPeriodStart = target[w] /\ debt[target[w]] \in {"absent", "open"}
      /\ debt' = [debt EXCEPT ![target[w]] = "charging"] /\ UNCHANGED subscription
      /\ target[w] \in Dates /\ charges \in [Dates -> Nat]
      /\ charges' = [charges EXCEPT ![target[w]] = @ + 1]
  BY DEF RenewOpen, RenewalDue, IInv, RunsFit, RunFits, TypeOK
<1>2. target[w] = periodEnd /\ next \in Nat /\ periodEnd <= next
  BY <1>1, StartIsEnd, Numbers DEF IInv, ScheduleFits
<1>3. debt'[target[w]] = "charging" /\ periodEnd <= now
  BY <1>1, <1>2, Numbers DEF IInv, TypeOK
<1>4. charges'[target[w]] = charges[target[w]] + 1
  BY <1>1
<1> QED BY <1>1, <1>2, <1>3, <1>4 DEF Renews

\* Every step moves every debt along this table.
LEMMA DebtStep ==
  ASSUME IInv, [Next]_vars, NEW s \in Dates
  PROVE  DebtMove(s)
<1> USE DEF DebtMove
<1>0. debt \in [Dates -> DebtStates] /\ recovery \in SUBSET Dates
  BY DEF IInv, TypeOK
<1>1. ASSUME NEW w \in Workers, Run(w) PROVE DebtMove(s)
  <2>1. CASE RenewOpen(w)
    <3>1. CASE s = target[w]
      BY <2>1, <3>1, RenewOpenFits
    <3>2. CASE s # target[w]
      BY <1>0, <2>1, <3>2, RenewOpenFits
    <3> QED BY <3>1, <3>2
  <2>2. CASE LocalFailure(w)
    <3>1. CASE s = target[w]
      BY <1>0, <2>2, <3>1 DEF LocalFailure, Refused
    <3>2. CASE s # target[w]
      BY <1>0, <2>2, <3>2 DEF LocalFailure
    <3> QED BY <3>1, <3>2
  <2>3. CASE RunFinalizes(w)
    BY <1>0, <2>3 DEF RunFinalizes, IInv, RecoveryFits
  <2> QED BY <1>1, <2>1, <2>2, <2>3 DEF Run, ReadDue, RenewResume, RunEnds, RunFindsSettled, Advance
<1>2. ASSUME NEW t \in Dates, Verdict(t) PROVE DebtMove(s)
  <2>1. CASE TokenDeclined(t)
    <3>1. CASE s = t
      BY <1>0, <2>1, <3>1 DEF TokenDeclined, Refused
    <3>2. CASE s # t
      BY <1>0, <2>1, <3>2 DEF TokenDeclined
    <3> QED BY <3>1, <3>2
  <2>2. CASE OperatorReleases(t)
    <3>1. CASE s = t
      BY <1>0, <2>2, <3>1 DEF OperatorReleases, Refused
    <3>2. CASE s # t
      BY <1>0, <2>2, <3>2 DEF OperatorReleases
    <3> QED BY <3>1, <3>2
  <2>3. CASE ~TokenDeclined(t) /\ ~OperatorReleases(t)
    BY <1>0, <1>2, <2>3 DEF Verdict, TokenCaptured, TaskActivates, TaskFinalizes
  <2> QED BY <2>1, <2>2, <2>3
<1>3. CASE AccruePastDue \/ OpenRecovery
  <2>1. status # "ACTIVE"
    BY <1>3 DEF AccruePastDue, OpenRecovery
  <2>2. \A r \in Dates : debt'[r] = Accrued[r] \/ (debt'[r] = "reserved" /\ Accrued[r] = "open")
    BY <1>0, <1>3 DEF AccruePastDue, OpenRecovery, Payable, Accrued
  <2>3. \A r \in Missing : r \in Dates /\ debt[r] = "absent"
    BY DEF Missing
  <2>4. \A r \in Missing : debt'[r] \in {"open", "reserved"}
    BY <2>2, <2>3 DEF Accrued
  <2>5. CASE s \in Missing
    BY <2>1, <2>3, <2>4, <2>5 DEF Accrues
  <2>6. CASE s \notin Missing
    BY <2>2, <2>6 DEF Accrued
  <2> QED BY <2>5, <2>6
<1>4. CASE RecoveryFails \/ RecoveryPaid \/ RecoveryActivates \/ RecoverySettles
  BY <1>0, <1>4 DEF RecoveryFails, RecoveryPaid, RecoveryActivates, RecoverySettles, IInv,
     RecoveryFits
<1>5. CASE Tick \/ Owner \/ UNCHANGED vars
  BY <1>5 DEF Tick, Owner, RequestCancellation, WithdrawCancellation, ApplyCancellation
<1> QED BY <1>1, <1>2, <1>3, <1>4, <1>5 DEF Next, Settlement

\* Every period before a new one is on the books.
LEMMA GapStep ==
  ASSUME IInv, [Next]_vars
  PROVE  DebtsHaveNoGaps'
<1>1. SUFFICES ASSUME NEW s \in Dates, debt'[s] # "absent"
               PROVE  /\ s \in Calendar /\ Purchased <= s
                      /\ \A r \in Calendar : Purchased <= r /\ r < s => debt'[r] # "absent"
  BY DEF DebtsHaveNoGaps
<1>2. \A r \in Dates : debt[r] # "absent" => debt'[r] # "absent"
  BY DebtStep DEF DebtMove, Accrues, Renews
<1>3. CASE debt[s] # "absent"
  BY <1>2, <1>3, Numbers DEF IInv, DebtsHaveNoGaps
<1>4. CASE Accrues(s)
  BY <1>2, <1>4, MissingFits DEF Accrues
<1>5. CASE Renews(s)
  <2>1. s = periodEnd
    BY <1>5 DEF Renews
  <2>2. \A r \in Calendar : Purchased <= r /\ r < s => r \in Dates /\ debt[r] # "absent"
    BY <2>1 DEF IInv, ServiceIsPaid, Paid
  <2> QED BY <1>2, <2>1, <2>2, Numbers DEF IInv, ScheduleFits
<1> QED BY <1>1, <1>3, <1>4, <1>5, DebtStep DEF DebtMove

\* What is paid stays paid.
LEMMA PaidStep ==
  ASSUME IInv, [Next]_vars, NEW s \in Dates, debt[s] \in Paid
  PROVE  debt'[s] \in Paid
BY DebtStep DEF DebtMove, Accrues, Renews, Paid

\* The end of service moves over paid periods only, and alone.
LEMMA EndStep ==
  ASSUME IInv, [Next]_vars
  PROVE  periodEnd' = periodEnd \/ (Extended /\ debt' = debt)
BY SubscriptionStep DEF TokenDeclined, LocalFailure, Owner, RequestCancellation,
   WithdrawCancellation, ApplyCancellation

\* So service stays paid.
LEMMA ServiceStep ==
  ASSUME IInv, [Next]_vars
  PROVE  ServiceIsPaid'
<1>1. CASE periodEnd' = periodEnd
  BY <1>1, PaidStep DEF IInv, ServiceIsPaid
<1>2. CASE Extended /\ debt' = debt
  BY <1>2 DEF Extended, ServiceIsPaid
<1> QED BY <1>1, <1>2, EndStep
\* Where a debt is that enters or leaves a hosted settlement.
LEMMA MembershipStep ==
  ASSUME IInv, [Next]_vars, NEW s \in Dates
  PROVE  /\ debt'[s] = "reserved" => s \in recovery'
         /\ debt'[s] = "captured" /\ s \notin recovery' =>
              debt[s] = "charging" \/ (debt[s] = "captured" /\ s \notin recovery)
<1> DEFINE G == /\ debt'[s] = "reserved" => s \in recovery'
                /\ debt'[s] = "captured" /\ s \notin recovery' =>
                     debt[s] = "charging" \/ (debt[s] = "captured" /\ s \notin recovery)
<1>0. /\ debt \in [Dates -> DebtStates] /\ recovery \in SUBSET Dates
      /\ debt[s] = "reserved" => s \in recovery
      /\ \/ \A r \in recovery : debt[r] = "reserved"
         \/ \A r \in recovery : debt[r] = "captured"
      /\ activated => \A r \in recovery : debt[r] = "captured"
  BY DEF IInv, TypeOK, DebtsFit, RecoveryFits
<1>1. CASE recovery' = recovery
  <2>1. debt'[s] = "reserved" => s \in recovery
    <3>1. CASE OpenRecovery
      BY <1>0, <1>1, <3>1 DEF OpenRecovery, Accrued
    <3>2. CASE ~OpenRecovery
      <4>1. debt'[s] = "reserved" => debt[s] = "reserved"
        <5>1. CASE AccruePastDue
          BY <1>0, <5>1 DEF AccruePastDue, Accrued
        <5>2. ASSUME NEW w \in Workers, Run(w) PROVE <4>1
          BY <1>0, <5>2, RenewOpenFits DEF Run, ReadDue, RenewResume, LocalFailure, RunEnds,
             RunFinalizes, RunFindsSettled, Advance, Renews
        <5>3. ASSUME NEW t \in Dates, Verdict(t) PROVE <4>1
          BY <1>0, <5>3 DEF Verdict, TokenCaptured, TokenDeclined, OperatorReleases, TaskActivates,
       TaskFinalizes
        <5>4. CASE RecoveryFails \/ RecoveryPaid \/ RecoveryActivates \/ RecoverySettles
          BY <1>0, <5>4 DEF RecoveryFails, RecoveryPaid, RecoveryActivates, RecoverySettles
        <5>5. CASE Tick \/ Owner \/ UNCHANGED vars
          BY <5>5 DEF Tick, Owner, RequestCancellation, WithdrawCancellation, ApplyCancellation
        <5> QED BY <3>2, <5>1, <5>2, <5>3, <5>4, <5>5 DEF Next, Settlement
      <4> QED BY <1>0, <4>1
    <3> QED BY <3>1, <3>2
  <2>2. debt'[s] = "captured" => debt[s] \in {"charging", "reserved", "captured"}
    BY DebtStep DEF DebtMove, Accrues, Renews
  <2> QED BY <1>0, <1>1, <2>1, <2>2
<1>2. ASSUME NEW w \in Workers, RunFinalizes(w) PROVE G
  BY <1>0, <1>2 DEF RunFinalizes
<1>3. CASE OpenRecovery
  <2>1. debt'[s] = IF s \in Payable THEN "reserved" ELSE Accrued[s]
    BY <1>3 DEF OpenRecovery
  <2>2. /\ recovery' = Payable
        /\ Payable # {} => debt[s] \notin Unresolved
    BY <1>3 DEF OpenRecovery, Payable, NoPendingPayment
  <2>3. Accrued[s] \in {"open", debt[s]} /\ Payable # {}
    BY <1>3 DEF Accrued, OpenRecovery
  <2> QED BY <2>1, <2>2, <2>3 DEF Unresolved
<1>4. CASE RecoveryFails \/ RecoverySettles
  BY <1>0, <1>4 DEF RecoveryFails, RecoverySettles
<1>5. \/ recovery' = recovery \/ OpenRecovery \/ RecoveryFails \/ RecoverySettles
      \/ \E w \in Workers : RunFinalizes(w)
  BY DEF Next, Owner, Run, Verdict, Settlement, Tick, RequestCancellation, WithdrawCancellation,
       ApplyCancellation, ReadDue, RenewOpen, RenewResume, LocalFailure, RunEnds,
       RunFindsSettled, Advance, TokenCaptured, TokenDeclined, OperatorReleases, TaskActivates,
       TaskFinalizes,
       AccruePastDue, RecoveryPaid, RecoveryActivates
<1> QED BY <1>1, <1>2, <1>3, <1>4, <1>5

\* The states of the debts stay tied to the end of service.
LEMMA DebtsStep ==
  ASSUME IInv, [Next]_vars
  PROVE  DebtsFit'
<1>1. SUFFICES ASSUME NEW s \in Dates
               PROVE  /\ debt'[s] # "absent" => s <= now'
                      /\ debt'[s] = "charging" => s = periodEnd'
                      /\ debt'[s] = "captured" /\ s \notin recovery' => s <= periodEnd'
                      /\ debt'[s] = "reserved" => s \in recovery'
  BY DEF DebtsFit
<1>2. DebtMove(s) /\ s \in Nat
  BY DebtStep
<1>3. /\ debt[s] # "absent" => s <= now
      /\ debt[s] = "charging" => s = periodEnd
      /\ debt[s] = "captured" /\ s \notin recovery => s <= periodEnd
  BY DEF IInv, DebtsFit
<1>4. debt'[s] # "absent" => s <= now
  BY <1>2, <1>3, MissingFits DEF DebtMove, Accrues, Renews
<1>5. debt'[s] # "absent" => s <= now'
  BY <1>2, <1>4, ClockStep, Numbers DEF IInv
<1>6. debt'[s] = "charging" => s = periodEnd'
  <2>1. CASE periodEnd' = periodEnd
    BY <1>2, <1>3, <2>1 DEF DebtMove, Accrues, Renews
  <2>2. CASE Extended /\ debt' = debt
    <3>1. debt[periodEnd] \in Paid
      BY <2>2, Numbers DEF Extended, IInv, ScheduleFits
    <3> QED BY <2>2, <3>1, <1>3 DEF Paid
  <2> QED BY <2>1, <2>2, EndStep
<1>7. periodEnd \in Nat /\ periodEnd' \in Nat /\ periodEnd <= periodEnd'
  <2>1. periodEnd \in Nat
    BY Numbers DEF IInv
  <2>2. periodEnd' = periodEnd \/ (periodEnd' \in Calendar /\ periodEnd < periodEnd')
    BY EndStep DEF Extended
  <2>3. CASE periodEnd' = periodEnd
    BY <2>1, <2>3
  <2>4. CASE periodEnd' \in Calendar /\ periodEnd < periodEnd'
    BY <2>1, <2>4
  <2> QED BY <2>2, <2>3, <2>4
<1> QED BY <1>2, <1>3, <1>5, <1>6, <1>7, MembershipStep
\* The hosted settlement.
LEMMA RecoveryStep ==
  ASSUME IInv, [Next]_vars
  PROVE  RecoveryFits'
<1>0. /\ debt \in [Dates -> DebtStates] /\ recovery \in SUBSET Dates /\ activated \in BOOLEAN
      /\ debt' \in [Dates -> DebtStates] /\ recovery' \in SUBSET Dates
  BY TypeStep DEF IInv, TypeOK
<1> DEFINE Pending == recovery # {} /\ ~activated
           Together == /\ \/ \A s \in recovery : debt[s] = "reserved"
                          \/ \A s \in recovery : debt[s] = "captured"
                       /\ activated => \A s \in recovery : debt[s] = "captured"
           Alone == /\ status # "ACTIVE"
                    /\ \A s \in recovery : periodEnd <= s
                    /\ \A s \in Dates \ recovery : debt[s] \notin Unresolved
                    /\ \A s \in Dates, r \in recovery : debt[s] = "open" => r < s
           Other == ~OpenRecovery /\ ~RecoveryFails /\ ~RecoveryPaid /\ ~RecoveryActivates
                    /\ ~RecoverySettles /\ ~(\E w \in Workers : RunFinalizes(w))
<1>a. Together /\ (Pending => Alone)
  BY DEF IInv, RecoveryFits
<1>b. SUFFICES Together' /\ (Pending' => Alone')
  BY DEF RecoveryFits
<1>1. ASSUME NEW w \in Workers, RunFinalizes(w) PROVE Together' /\ (Pending' => Alone')
  <2>1. target[w] \in Dates /\ debt[target[w]] = "captured"
    BY <1>1 DEF RunFinalizes, IInv, RunsFit, RunFits
  <2>2. CASE target[w] \in recovery
    BY <1>1, <2>2 DEF RunFinalizes
  <2>3. CASE target[w] \notin recovery
    <3>1. ~Pending
      BY <1>a, <2>1, <2>3 DEF Unresolved
    <3>2. /\ recovery' = recovery /\ activated' = (activated /\ recovery # {})
          /\ \A r \in recovery : debt'[r] = debt[r]
      BY <1>0, <1>1, <2>3 DEF RunFinalizes
    <3> QED BY <1>a, <3>1, <3>2
  <2> QED BY <2>2, <2>3
<1>2. CASE OpenRecovery
  <2>1. /\ status' = status /\ status # "ACTIVE" /\ Payable # {} /\ recovery' = Payable
        /\ activated' = FALSE /\ periodEnd' = periodEnd
        /\ \A s \in Dates : debt'[s] = IF s \in Payable THEN "reserved" ELSE Accrued[s]
    BY <1>2 DEF OpenRecovery
  <2>2. /\ Payable = {s \in Dates : Accrued[s] = "open"}
        /\ \A s \in Dates : debt[s] \notin Unresolved
    BY <2>1 DEF Payable, NoPendingPayment
  <2>3. \A s \in Dates : Accrued[s] = IF s \in Missing THEN "open" ELSE debt[s]
    BY DEF Accrued
  <2>4. \A s \in Payable : periodEnd <= s
    BY <2>2, <2>3, MissingFits, UnpaidIsAhead DEF IInv
  <2>5. \A s \in Dates \ Payable : debt'[s] # "open" /\ debt'[s] \notin Unresolved
    BY <2>1, <2>2, <2>3
  <2> QED BY <2>1, <2>2, <2>4, <2>5
<1>3. CASE RecoveryFails \/ RecoverySettles
  BY <1>3 DEF RecoveryFails, RecoverySettles
<1>4. CASE RecoveryPaid
  <2>1. /\ recovery' = recovery /\ activated' = activated /\ status' = status /\ periodEnd' = periodEnd
        /\ \A s \in Dates : debt'[s] = IF s \in recovery THEN "captured" ELSE debt[s]
    BY <1>4 DEF RecoveryPaid
  <2> QED BY <1>0, <1>a, <2>1
<1>5. CASE RecoveryActivates
  BY <1>5 DEF RecoveryActivates
<1>6. CASE Other
  <2>1. /\ recovery' = recovery /\ activated' = activated
        /\ \A r \in recovery : debt'[r] = debt[r]
    <3>1. ASSUME NEW w \in Workers, Run(w) PROVE <2>1
      <4>1. CASE RenewOpen(w)
        BY <1>0, <1>a, <4>1, RenewOpenFits DEF RenewOpen, Renews
      <4>2. CASE LocalFailure(w)
        BY <1>0, <1>a, <4>2 DEF LocalFailure
      <4> QED BY <1>6, <3>1, <4>1, <4>2 DEF Run, ReadDue, RenewResume, RunEnds, RunFindsSettled, Advance
    <3>2. ASSUME NEW t \in Dates, Verdict(t) PROVE <2>1
      BY <1>0, <1>a, <3>2 DEF Verdict, TokenCaptured, TokenDeclined, OperatorReleases, TaskActivates,
       TaskFinalizes
    <3>3. CASE AccruePastDue
      BY <1>0, <1>a, <3>3 DEF AccruePastDue, Accrued, Missing
    <3>4. CASE Tick \/ Owner \/ UNCHANGED vars
      BY <3>4 DEF Tick, Owner, RequestCancellation, WithdrawCancellation, ApplyCancellation
    <3> QED BY <1>6, <3>1, <3>2, <3>3, <3>4 DEF Next, Settlement
  <2>2. ASSUME Pending PROVE status' # "ACTIVE" /\ periodEnd' = periodEnd
    <3>1. status # "ACTIVE" /\ \A s \in Dates \ recovery : debt[s] \notin Unresolved
      BY <1>a, <2>2
    <3>2. ASSUME NEW w \in Workers, Run(w) PROVE UNCHANGED subscription
      <4>1. ~LocalFailure(w)
        <5>1. SUFFICES ASSUME LocalFailure(w) PROVE FALSE
          OBVIOUS
        <5>2. target[w] \in Dates /\ debt[target[w]] = "charging"
          BY <5>1 DEF LocalFailure, IInv, RunsFit, RunFits
        <5> QED BY <1>a, <3>1, <5>2 DEF Unresolved
      <4> QED BY <3>1, <3>2, <4>1 DEF Run, ReadDue, RenewOpen, RenewResume, RunEnds, RunFinalizes,
             RunFindsSettled, Advance, Unmoved
    <3>3. ASSUME NEW t \in Dates, Verdict(t) PROVE FALSE
      BY <1>a, <3>1, <3>3 DEF Verdict, TokenCaptured, TokenDeclined, OperatorReleases, TaskActivates,
       TaskFinalizes, Unresolved
    <3>4. CASE Owner
      BY <3>1, <3>4 DEF Owner, RequestCancellation, WithdrawCancellation, ApplyCancellation
    <3>5. CASE AccruePastDue \/ Tick \/ UNCHANGED vars
      BY <3>1, <3>5 DEF AccruePastDue, Tick
    <3> QED BY <1>6, <3>1, <3>2, <3>3, <3>4, <3>5 DEF Next, Settlement
  <2>3. ASSUME Pending, NEW s \in Dates \ recovery PROVE debt'[s] \notin Unresolved
    <3>1. debt'[s] # "reserved"
      BY <2>1, MembershipStep
    <3>2. debt[s] \notin Unresolved /\ status # "ACTIVE"
      BY <1>a, <2>3
    <3> QED BY <3>1, <3>2, DebtStep DEF DebtMove, Accrues, Renews, Unresolved
  <2>4. ASSUME Pending, NEW s \in Dates, NEW r \in recovery, debt'[s] = "open" PROVE r < s
    <3>1. s \notin recovery
      BY <1>a, <2>1, <2>4
    <3>2. debt[s] \notin Unresolved /\ debt[r] # "absent" /\ r \in Dates
      BY <1>0, <1>a, <2>4, <3>1
    <3>3. debt[s] = "open" \/ s \in Missing
      BY <2>4, <3>2, DebtStep DEF DebtMove, Accrues, Renews, Unresolved
    <3> QED BY <1>a, <2>4, <3>2, <3>3, MissingFits
  <2> QED BY <1>a, <2>1, <2>2, <2>3, <2>4
<1> QED BY <1>1, <1>2, <1>3, <1>4, <1>5, <1>6
\* The runs.  A schedule that has changed never comes back.
LEMMA ScheduleMoves ==
  ASSUME IInv, [Next]_vars, NEW w \in Workers, pc[w] # "idle",
         status' = "ACTIVE", seen[w] = Schedule'
  PROVE  status = "ACTIVE" /\ seen[w] = Schedule /\ periodEnd' = periodEnd
<1>0. /\ target[w] \in Nat /\ target[w] <= periodEnd /\ periodEnd \in Nat /\ now \in Nat
      /\ seen[w][1] \in Nat /\ seen[w][1] <= now
      /\ seen[w][2] = 0 => seen[w][1] = target[w]
  BY Numbers DEF IInv, RunsFit, RunFits
<1>00. seen[w] = <<next', declines'>>
  BY DEF Schedule
<1>1. CASE UNCHANGED subscription
  BY <1>1, <1>00 DEF Schedule
<1>2. CASE Extended
  <2>0. next' = periodEnd' /\ declines' = 0 /\ periodEnd' \in Calendar /\ periodEnd < periodEnd'
    BY <1>2 DEF Extended
  <2>1. seen[w][1] = periodEnd' /\ seen[w][2] = 0
    BY <1>00, <2>0
  <2>2. periodEnd' \in Nat /\ periodEnd < periodEnd'
    BY <2>0
  <2> QED BY <1>0, <2>1, <2>2
<1>3. ASSUME NEW s \in Dates, TokenDeclined(s) PROVE UNCHANGED subscription
  <2>1. SUFFICES ASSUME Collecting(s) PROVE FALSE
    BY <1>3 DEF TokenDeclined
  <2>2. status = "ACTIVE" /\ declines \in 0..2
    BY <2>1, Numbers DEF Collecting, IInv, ScheduleFits, MaxRenewalAttempts
  <2>3. declines + 1 < 3
    <3>1. declines + 1 >= 3 => status' = "PAST_DUE"
      BY <1>3, <2>1 DEF TokenDeclined, MaxRenewalAttempts
    <3> QED BY <2>2, <3>1
  <2>4. next' = now + RetryDelay[declines + 1] /\ RetryDelay[declines + 1] \in Nat \ {0}
    BY <1>3, <2>1, <2>2, <2>3 DEF TokenDeclined, MaxRenewalAttempts
  <2>5. seen[w][1] = next'
    BY <1>00
  <2> QED BY <1>0, <2>4, <2>5
<1>4. ASSUME NEW v \in Workers, LocalFailure(v) PROVE UNCHANGED subscription
  BY <1>4 DEF LocalFailure
<1>5. CASE Owner
  BY <1>5, <1>00 DEF Owner, RequestCancellation, WithdrawCancellation, ApplyCancellation, Schedule
<1> QED BY <1>1, <1>2, <1>3, <1>4, <1>5, SubscriptionStep

\* Every run keeps what it relies on.
LEMMA RunStep ==
  ASSUME IInv, [Next]_vars, NEW w \in Workers
  PROVE  RunFits(w)'
<1>0. /\ pc \in [Workers -> {"idle", "read", "submitted", "settled"}]
      /\ seen \in [Workers -> (Nat \cup {Never}) \X (0..MaxRenewalAttempts)]
      /\ target \in [Workers -> Nat]
      /\ periodEnd \in Calendar /\ periodEnd' \in Calendar
      /\ pc[w] # "idle" => target[w] \in Dates
  BY TypeStep DEF IInv, TypeOK, RunsFit, RunFits
<1>1. CASE pc'[w] = "idle"
  BY <1>1 DEF RunFits
<1>2. CASE ReadDue(w)
  <2>1. /\ pc'[w] = "read" /\ seen'[w] = <<next, declines>> /\ target'[w] = periodEnd
        /\ next # Never /\ next <= now /\ UNCHANGED <<now, subscription>>
    BY <1>0, <1>2, StartIsEnd DEF ReadDue, Goto, Schedule, IInv
  <2>2. next \in Nat /\ now \in Nat /\ now <= Horizon /\ periodEnd \in Nat
    BY <2>1, Numbers DEF IInv
  <2>3. periodEnd <= next /\ (declines = 0 => next = periodEnd)
    BY <2>1, <2>2, Numbers DEF IInv, ScheduleFits
  <2> QED BY <1>0, <2>1, <2>2, <2>3 DEF RunFits
<1>3. CASE pc'[w] # "idle" /\ ~ReadDue(w)
  <2>1. /\ pc[w] # "idle" /\ seen'[w] = seen[w] /\ target'[w] = target[w]
        /\ \/ pc'[w] = pc[w] \/ pc'[w] = "submitted"
           \/ (RunFinalizes(w) \/ RunFindsSettled(w))
    <3>1. ASSUME NEW v \in Workers, Run(v) PROVE <2>1
      <4>1. CASE v = w
        BY <1>0, <1>3, <3>1, <4>1 DEF Run, RenewOpen, RenewResume, LocalFailure, RunEnds, RunFinalizes,
           RunFindsSettled, Advance, Goto, EndRun
      <4>2. CASE v # w
        BY <1>0, <1>3, <3>1, <4>2 DEF Run, ReadDue, RenewOpen, RenewResume, LocalFailure, RunEnds,
           RunFinalizes, RunFindsSettled, Advance, Goto, EndRun
      <4> QED BY <4>1, <4>2
    <3>2. CASE UNCHANGED runs
      BY <1>3, <3>2
    <3>3. ASSUME NEW t \in Dates, Verdict(t) PROVE UNCHANGED runs
      BY <3>3 DEF Verdict, TokenCaptured, TokenDeclined, OperatorReleases, TaskActivates,
       TaskFinalizes
    <3>4. CASE Settlement \/ Tick \/ Owner \/ UNCHANGED vars
      BY <3>2, <3>4 DEF Settlement, AccruePastDue, OpenRecovery, RecoveryFails, RecoveryPaid,
         RecoveryActivates, RecoverySettles, Tick, Owner, RequestCancellation,
         WithdrawCancellation, ApplyCancellation
    <3> QED BY <3>1, <3>2, <3>3, <3>4 DEF Next
  <2>2. RunFits(w)
    BY DEF IInv, RunsFit
  <2>3. target[w] <= periodEnd'
    <3>1. periodEnd' = periodEnd \/ periodEnd < periodEnd'
      BY EndStep DEF Extended
    <3>2. target[w] \in Nat /\ periodEnd \in Nat /\ periodEnd' \in Nat /\ target[w] <= periodEnd
      BY <1>0, <2>1, <2>2 DEF RunFits
    <3> QED BY <3>1, <3>2
  <2>4. seen[w][1] <= now'
    <3>1. seen[w][1] \in Nat /\ seen[w][1] <= now /\ now \in Nat
      BY <2>1, <2>2, Numbers DEF RunFits, IInv
    <3> QED BY <3>1, ClockStep
  <2>5. status' = "ACTIVE" /\ seen[w] = Schedule' => target[w] = periodEnd'
    BY <2>1, <2>2, ScheduleMoves DEF RunFits
  <2>6. pc'[w] = "settled" => debt'[target[w]] = "satisfied"
    <3>1. debt[target[w]] = "satisfied" => debt'[target[w]] = "satisfied"
      BY <1>0, <2>1, DebtStep DEF DebtMove, Accrues, Renews
    <3>2. CASE pc'[w] = pc[w]
      BY <2>1, <2>2, <3>1, <3>2 DEF RunFits
    <3>3. CASE RunFinalizes(w)
      BY <1>0, <2>1, <3>3 DEF RunFinalizes
    <3>4. CASE RunFindsSettled(w)
      BY <3>1, <3>4 DEF RunFindsSettled
    <3> QED BY <2>1, <3>2, <3>3, <3>4
  <2> QED BY <1>0, <2>1, <2>2, <2>3, <2>4, <2>5, <2>6 DEF RunFits
<1> QED BY <1>1, <1>2, <1>3
\* The charges of the saved card.
LEMMA RecordStep ==
  ASSUME IInv, [Next]_vars
  PROVE  \/ UNCHANGED record
         \/ \E w \in Workers : RenewOpen(w)
         \/ \E s \in Dates : TokenDeclined(s) \/ OperatorReleases(s)
BY DEF Next, Owner, Run, Verdict, Settlement, Tick, RequestCancellation, WithdrawCancellation,
   ApplyCancellation, ReadDue, RenewResume, LocalFailure, RunEnds, RunFinalizes,
   RunFindsSettled, Advance, TokenCaptured, TaskActivates, TaskFinalizes,
   AccruePastDue, OpenRecovery, RecoveryFails, RecoveryPaid, RecoveryActivates, RecoverySettles

\* Every charge is one decline of this cycle, or the one under way.
LEMMA ChargesStep ==
  ASSUME IInv, [Next]_vars
  PROVE  ChargesFit'
<1> DEFINE Ahead == \A s \in Dates : s > periodEnd => charges[s] = 0 /\ released[s] = 0
           Count == status = "ACTIVE" /\ periodEnd \in Dates =>
                      /\ debt[periodEnd] \in {"absent", "open"} =>
                           charges[periodEnd] = declines + released[periodEnd]
                      /\ debt[periodEnd] = "charging" =>
                           charges[periodEnd] = declines + released[periodEnd] + 1
           Waits == status = "ACTIVE" /\ declines > 0 =>
                      lastDecline # Never /\ next = lastDecline + RetryDelay[declines]
<1>0. Ahead /\ Count /\ Waits
  BY DEF IInv, ChargesFit
<1>00. /\ periodEnd \in Nat /\ periodEnd \in Calendar /\ now \in Nat /\ declines \in 0..3
       /\ charges \in [Dates -> Nat] /\ released \in [Dates -> Nat]
       /\ now \in Dates /\ debt \in [Dates -> DebtStates]
  BY Numbers DEF IInv, TypeOK
<1>1. SUFFICES Ahead' /\ Count' /\ Waits'
  BY DEF ChargesFit
<1>2. ASSUME NEW w \in Workers, RenewOpen(w) PROVE Ahead' /\ Count' /\ Waits'
  <2>1. /\ target[w] = periodEnd /\ periodEnd \in Dates /\ UNCHANGED subscription
        /\ lastDecline' = lastDecline /\ released' = released
        /\ charges' = [charges EXCEPT ![periodEnd] = @ + 1]
        /\ debt' = [debt EXCEPT ![periodEnd] = "charging"]
        /\ debt[periodEnd] \in {"absent", "open"} /\ status = "ACTIVE"
    BY <1>2, RenewOpenFits DEF RenewOpen, Renews
  <2>2. charges'[periodEnd] = charges[periodEnd] + 1 /\ debt'[periodEnd] = "charging"
    BY <1>00, <2>1
  <2>3. Ahead'
    <3>1. \A r \in Dates : r > periodEnd => charges'[r] = charges[r]
      BY <1>00, <2>1
    <3> QED BY <1>0, <2>1, <3>1
  <2>4. Count'
    <3>1. charges[periodEnd] = declines + released[periodEnd]
      BY <1>0, <2>1
    <3>2. UNCHANGED <<declines, periodEnd, released>> /\ released[periodEnd] \in Nat
      BY <1>00, <2>1
    <3> QED BY <1>00, <2>2, <3>1, <3>2
  <2>5. Waits'
    BY <1>0, <2>1
  <2> QED BY <2>3, <2>4, <2>5
<1>3. ASSUME NEW s \in Dates, TokenDeclined(s) PROVE Ahead' /\ Count' /\ Waits'
  <2>1. /\ debt[s] = "charging" /\ s = periodEnd /\ periodEnd' = periodEnd /\ charges' = charges
        /\ released' = released /\ lastDecline' = now /\ debt'[s] = "open"
    BY <1>00, <1>3 DEF TokenDeclined, IInv, DebtsFit
  <2>2. Ahead'
    BY <1>0, <2>1
  <2>3. CASE status' # "ACTIVE"
    BY <2>2, <2>3
  <2>4. CASE status' = "ACTIVE"
    <3>1. status = "ACTIVE"
      BY <1>3, <2>4 DEF TokenDeclined
    <3>2. Collecting(s)
      BY <2>1, <3>1, StartIsEnd DEF Collecting, IInv, ScheduleFits
    <3>3. declines' = declines + 1 /\ next' = now + RetryDelay[declines + 1]
      BY <1>3, <2>4, <3>2 DEF TokenDeclined
    <3>4. charges[periodEnd] = declines + released[periodEnd] + 1
      BY <1>0, <2>1, <3>1
    <3>5. Count'
      <4>1. released[periodEnd] \in Nat /\ charges'[periodEnd] = declines' + released'[periodEnd]
        BY <1>00, <2>1, <3>3, <3>4
      <4> QED BY <2>1, <4>1
    <3>6. Waits'
      BY <1>00, <2>1, <3>3
    <3> QED BY <2>2, <3>5, <3>6
  <2> QED BY <2>3, <2>4
<1>5. ASSUME NEW s \in Dates, OperatorReleases(s) PROVE Ahead' /\ Count' /\ Waits'
  <2>1. /\ debt[s] = "charging" /\ s = periodEnd /\ UNCHANGED subscription /\ charges' = charges
        /\ lastDecline' = lastDecline /\ debt'[s] = "open"
        /\ released' = [released EXCEPT ![s] = @ + 1]
    BY <1>00, <1>5 DEF OperatorReleases, IInv, DebtsFit
  <2>2. released'[periodEnd] = released[periodEnd] + 1 /\ released[periodEnd] \in Nat
    BY <1>00, <2>1
  <2>3. Ahead'
    BY <1>0, <1>00, <2>1
  <2>4. Count'
    BY <1>0, <1>00, <2>1, <2>2
  <2>5. Waits'
    BY <1>0, <2>1
  <2> QED BY <2>3, <2>4, <2>5
<1>4. CASE UNCHANGED record
  <2>1. CASE UNCHANGED subscription
    <3>1. ASSUME status = "ACTIVE", periodEnd \in Dates
          PROVE  \/ debt'[periodEnd] = debt[periodEnd]
                 \/ debt'[periodEnd] \notin {"absent", "open", "charging"}
      <4>1. DebtMove(periodEnd)
        BY <3>1, DebtStep
      <4>2. ~Renews(periodEnd)
        BY <1>00, <1>4, <3>1 DEF Renews
      <4>3. debt[periodEnd] # "reserved"
        BY <3>1 DEF IInv, DebtsFit, RecoveryFits
      <4>4. ~(debt[periodEnd] = "charging" /\ Refused(periodEnd))
        <5>1. SUFFICES ASSUME debt[periodEnd] = "charging", Refused(periodEnd) PROVE FALSE
          OBVIOUS
        <5>2. Collecting(periodEnd)
          BY <3>1, StartIsEnd DEF Collecting, IInv, ScheduleFits
        <5>3. CASE TokenDeclined(periodEnd)
          BY <1>00, <2>1, <5>2, <5>3 DEF TokenDeclined
        <5>4. ASSUME NEW w \in Workers, LocalFailure(w), target[w] = periodEnd PROVE FALSE
          BY <2>1, <3>1, <5>2, <5>4 DEF LocalFailure
        <5>5. CASE OperatorReleases(periodEnd)
          BY <1>00, <1>4, <3>1, <5>5 DEF OperatorReleases
        <5> QED BY <5>1, <5>3, <5>4, <5>5 DEF Refused
      <4> QED BY <3>1, <4>1, <4>2, <4>3, <4>4 DEF DebtMove, Accrues
    <3> QED BY <1>0, <1>4, <2>1, <3>1
  <2>2. CASE Extended /\ debt' = debt
    <3>1. /\ periodEnd' \in Nat /\ periodEnd' > periodEnd /\ declines' = 0
          /\ charges' = charges /\ released' = released
      BY <1>4, <2>2 DEF Extended
    <3>2. periodEnd' \in Dates =>
            charges'[periodEnd'] = 0 /\ released'[periodEnd'] = 0 /\ debt'[periodEnd'] # "charging"
      BY <1>0, <1>00, <1>4, <2>2, <3>1 DEF IInv, DebtsFit
    <3> QED BY <1>0, <1>00, <3>1, <3>2
  <2>3. ASSUME NEW w \in Workers, LocalFailure(w) PROVE Ahead' /\ Count' /\ Waits'
    <3>1. /\ target[w] \in Dates /\ debt[target[w]] = "charging" /\ periodEnd' = periodEnd
          /\ target[w] = periodEnd
      BY <2>3 DEF LocalFailure, IInv, RunsFit, RunFits, DebtsFit
    <3>2. status = "ACTIVE" => Collecting(periodEnd)
      BY StartIsEnd DEF Collecting, IInv, ScheduleFits
    <3>3. status' # "ACTIVE"
      BY <2>3, <3>1, <3>2 DEF LocalFailure
    <3> QED BY <1>0, <1>4, <3>1, <3>3
  <2>4. CASE Owner
    BY <1>0, <1>4, <2>4 DEF Owner, RequestCancellation, WithdrawCancellation, ApplyCancellation
  <2> QED BY <1>3, <2>1, <2>2, <2>3, <2>4, SubscriptionStep
<1> QED BY <1>2, <1>3, <1>4, <1>5, RecordStep
-----------------------------------------------------------------------------
(* The theorems. *)

\* The purchase leaves such a state.
LEMMA InitFits == Init => IInv
<1> SUFFICES ASSUME Init PROVE IInv
  OBVIOUS
<1> USE DEF Init
<1>1. TypeOK
  <2>1. <<Never, 0>> \in (Nat \cup {Never}) \X (0..3) /\ Purchased \in Nat /\ 0 \in Dates
    OBVIOUS
  <2>2. debt \in [Dates -> DebtStates] /\ charges \in [Dates -> Nat] /\ released \in [Dates -> Nat]
    BY DEF DebtStates
  <2>3. /\ pc \in [Workers -> {"idle", "read", "submitted", "settled"}]
        /\ seen \in [Workers -> (Nat \cup {Never}) \X (0..3)]
        /\ target \in [Workers -> Nat] /\ try \in [Workers -> Nat]
    BY <2>1
  <2> QED BY <2>1, <2>2, <2>3 DEF TypeOK, MaxRenewalAttempts
<1>2. ScheduleFits /\ CancelFits /\ DebtsFit /\ RecoveryFits /\ ChargesFit
  BY DEF ScheduleFits, CancelFits, DebtsFit, RecoveryFits, ChargesFit, MaxRenewalAttempts
<1>3. RunsFit
  BY DEF RunsFit, RunFits
<1>4. DebtsHaveNoGaps /\ ServiceIsPaid
  BY DEF DebtsHaveNoGaps, ServiceIsPaid
<1> QED BY <1>1, <1>2, <1>3, <1>4 DEF IInv

\* The invariant is inductive.
THEOREM CycleInductive == Spec => []IInv
<1>1. IInv /\ [Next]_vars => IInv'
  BY TypeStep, ScheduleStep, CancelStep, DebtsStep, RecoveryStep, RunStep, ChargesStep, GapStep, ServiceStep
     DEF IInv, RunsFit
<1> QED BY InitFits, <1>1, PTL DEF Spec

\* The variables keep their types and the retry table is read within its bounds.
THEOREM CycleTypes == Spec => []TypeOK
<1>1. IInv => TypeOK
  BY DEF IInv
<1> QED BY <1>1, CycleInductive, PTL

\* No retry date, late cron or overlapping run makes up a period or skips one.
THEOREM NoPhantomPeriods == Spec => []DebtsHaveNoGaps
<1>1. IInv => DebtsHaveNoGaps
  BY DEF IInv
<1> QED BY <1>1, CycleInductive, PTL

\* The end of service never runs ahead of the money.
THEOREM NoUnpaidService == Spec => []ServiceIsPaid
<1>1. IInv => ServiceIsPaid
  BY DEF IInv
<1> QED BY <1>1, CycleInductive, PTL

\* The saved card refuses three times at most and is never asked before the
\* retry date; what an operator releases gives back that try and nothing else.
THEOREM RetriesWait == Spec => TriesAreSpaced
<1> DEFINE Waited(s) ==
             /\ Tries(s) \in 0..(MaxRenewalAttempts - 1)
             /\ Tries(s) > 0 => lastDecline # Never /\ now >= lastDecline + RetryDelay[Tries(s)]
           Spaced == \A s \in Dates : charges'[s] > charges[s] => Waited(s)
<1>1. IInv /\ [Next]_vars => Spaced
  <2> SUFFICES ASSUME IInv, [Next]_vars, NEW s \in Dates, charges'[s] > charges[s]
               PROVE  Waited(s)
    OBVIOUS
  <2>0. /\ charges \in [Dates -> Nat] /\ released \in [Dates -> Nat]
        /\ declines \in 0..3 /\ periodEnd \in Nat
    BY Numbers DEF IInv, TypeOK
  <2>1. PICK w \in Workers : RenewOpen(w)
    BY <2>0, RecordStep DEF TokenDeclined, OperatorReleases
  <2>2. /\ target[w] = periodEnd /\ periodEnd \in Dates /\ next <= now /\ status = "ACTIVE"
        /\ charges' = [charges EXCEPT ![periodEnd] = @ + 1]
        /\ debt[periodEnd] \in {"absent", "open"}
    BY <2>1, RenewOpenFits DEF RenewOpen, Renews
  <2>3. s = periodEnd
    BY <2>0, <2>2
  <2>4. charges[s] = declines + released[s] /\ declines < 3
    BY <2>2, <2>3 DEF IInv, ChargesFit, ScheduleFits, MaxRenewalAttempts
  <2>5. Tries(s) = declines
    BY <2>0, <2>4 DEF Tries
  <2>6. declines > 0 => lastDecline # Never /\ next = lastDecline + RetryDelay[declines]
    BY <2>2 DEF IInv, ChargesFit
  <2>7. next \in Nat /\ now \in Nat
    BY <2>1, RenewOpenFits, Numbers DEF IInv
  <2>8. Tries(s) \in 0..(MaxRenewalAttempts - 1)
    BY <2>0, <2>4, <2>5 DEF MaxRenewalAttempts
  <2>9. Tries(s) > 0 => lastDecline # Never /\ now >= lastDecline + RetryDelay[Tries(s)]
    BY <2>2, <2>5, <2>6, <2>7
  <2> QED BY <2>8, <2>9
<1>2. IInv /\ [Next]_vars => [Spaced]_vars
  BY <1>1
<1> QED BY <1>2, CycleInductive, PTL DEF Spec, TriesAreSpaced

\* Nothing that begins at or after the effective time of a cancellation is owed.
THEOREM CancellationEndsDebt == Spec => CanceledOwesNothingNew
<1> DEFINE Owed ==
      \A s \in Dates : debt[s] = "absent" /\ debt'[s] # "absent" => canceledAt = Never \/ s < canceledAt
<1>1. IInv /\ [Next]_vars => Owed
  <2> SUFFICES ASSUME IInv, [Next]_vars, NEW s \in Dates, debt[s] = "absent", debt'[s] # "absent"
               PROVE  canceledAt = Never \/ s < canceledAt
    OBVIOUS
  <2>1. Accrues(s) \/ Renews(s)
    BY DebtStep DEF DebtMove
  <2> QED BY <2>1 DEF Accrues, Renews, Missing, BeforeCutoff
<1>2. IInv /\ [Next]_vars => [Owed]_vars
  BY <1>1
<1> QED BY <1>2, CycleInductive, PTL DEF Spec, CanceledOwesNothingNew

\* Renewals, retries, accruals and settlements implement the paid service: no
\* period is paid twice or unpaid again, and service grows over paid periods only.
THEOREM CycleImplementsPaidService == Spec => ServiceSpec
<1>1. Init => Service!Init
  BY DEF Init, Service!Init, PaidPeriods, Paid
<1>2. IInv /\ [Next]_vars => [Service!Next]_<<PaidPeriods, periodEnd>>
  <2> SUFFICES ASSUME IInv, [Next]_vars PROVE [Service!Next]_<<PaidPeriods, periodEnd>>
    OBVIOUS
  <2>0. PaidPeriods \subseteq Calendar /\ PaidPeriods \subseteq Dates
    BY DEF PaidPeriods, Paid, IInv, DebtsHaveNoGaps
  <2>1. CASE Extended /\ debt' = debt
    <3>1. PaidPeriods' = PaidPeriods
      BY <2>1 DEF PaidPeriods
    <3>2. \A s \in Calendar : periodEnd <= s /\ s < periodEnd' => s \in PaidPeriods
      <4>1. Purchased <= periodEnd /\ periodEnd \in Nat /\ Purchased \in Nat /\ periodEnd' \in Nat
        BY <2>1, Numbers DEF Extended, IInv, ScheduleFits
      <4> QED BY <2>1, <4>1 DEF Extended, PaidPeriods
    <3>3. periodEnd' \in Calendar /\ periodEnd' > periodEnd
      BY <2>1, Numbers DEF Extended, IInv
    <3> QED BY <3>1, <3>2, <3>3 DEF Service!Next, Service!Extend
  <2>2. CASE periodEnd' = periodEnd
    <3>1. PaidPeriods \subseteq PaidPeriods'
      BY PaidStep DEF PaidPeriods
    <3>2. PaidPeriods' \subseteq Calendar
      BY GapStep DEF PaidPeriods, Paid, DebtsHaveNoGaps
    <3>3. CASE PaidPeriods' = PaidPeriods
      BY <2>2, <3>3
    <3>4. CASE PaidPeriods' # PaidPeriods
      <4> DEFINE S == PaidPeriods' \ PaidPeriods
      <4>1. S \in SUBSET Calendar /\ S # {} /\ S \cap PaidPeriods = {}
            /\ PaidPeriods' = PaidPeriods \cup S
        BY <3>1, <3>2, <3>4
      <4> QED BY <2>2, <4>1 DEF Service!Next, Service!Pay
    <3> QED BY <3>3, <3>4
  <2> QED BY <2>1, <2>2, EndStep
<1> QED BY <1>1, <1>2, CycleInductive, PTL DEF Spec, ServiceSpec, Service!Spec
=============================================================================
