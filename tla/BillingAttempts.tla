--------------------------- MODULE BillingAttempts ---------------------------
(***************************************************************************)
(* One subscription's debts and the attempts that collect them: the rows   *)
(* billing_attempt and billing_obligation, every service that writes them, *)
(* and CardCom as those services see it.                                   *)
(*                                                                         *)
(* A worker is one thread of a backend process that serves a renewal, a    *)
(* checkout request, a webhook delivery, a reconciliation sweep or a       *)
(* completion task.  Each database transaction of the code takes row locks *)
(* and is one action here; everything else interleaves, and a worker may   *)
(* crash or stall for any time between two of its steps.                   *)
(*                                                                         *)
(* stateVersion is only ever compared for equality with the value a thread *)
(* remembers, so the model keeps the set `fresh' of the workers whose      *)
(* remembered version is still the row's instead of the number.  Clock     *)
(* times are left out: nextActionAt only delays a claim, and a lease is    *)
(* free, live or expired.                                                  *)
(***************************************************************************)
EXTENDS Naturals, FiniteSets

CONSTANTS
  Attempts,            \* identities of billing_attempt rows (bounds how many are opened)
  Periods,             \* RECURRING_PERIOD obligations
  Checkouts,           \* CHECKOUT obligations (first purchase, upgrade)
  Workers,             \* threads of the backend
  NoAttempt,           \* NULL in activeAttemptId and satisfiedAttemptId
  MaxLookups,          \* RECONCILIATION_DELAYS_MS.length, 5 in the code
  OperatorSeesSenders, \* whether "no charge" evidence also covers a thread yet to send
  LatePayment          \* whether an upgrade may be paid after the period it was quoted for

Debts == Periods \cup Checkouts

ASSUME NoAttemptAssumption == NoAttempt \notin Attempts
ASSUME DebtsAssumption == Periods \cap Checkouts = {}
ASSUME LookupsAssumption == MaxLookups \in Nat
ASSUME OperatorAssumption == OperatorSeesSenders \in BOOLEAN
ASSUME LatePaymentAssumption == LatePayment \in BOOLEAN

VARIABLES
  status,     \* BillingAttempt.status, ABSENT before the row exists
  mode,       \* chargeMode: TOKEN_TRANSACTION or LOW_PROFILE_HOSTED
  debtsOf,    \* billing_attempt_obligation: the frozen membership
  late,       \* upgrades whose capturedAt lies after the period they were quoted for
  page,       \* cardcomLowProfileId is recorded on the row
  lookups,    \* reconciliationAttempts, saturated at MaxLookups
  lease,      \* leaseOwner and leaseExpiresAt
  fresh,      \* workers whose remembered stateVersion is still the row's
  active,     \* BillingObligation.activeAttemptId
  settledBy,  \* satisfiedAttemptId; the obligation is OPEN while it is NULL
  sub,        \* Subscription.status
  receipt,    \* attempts that own a receipt document
  logged,     \* cardcom_webhook_log: deliveries already saved
  money,      \* CardCom: what happened to the attempt's charge
  requests,   \* CardCom: charge requests sent for the attempt
  pc, job, answer  \* each worker: its next step, its attempt, the verdict it holds

row     == <<status, mode, debtsOf, late, page, lookups, lease, fresh>>
debts   == <<active, settledBy>>
cardcom == <<money, requests>>
threads == <<pc, job, answer>>
vars    == <<row, debts, sub, receipt, logged, cardcom, threads>>

Unresolved == {"CREATED", "AWAITING_CUSTOMER", "PROCESSING", "UNKNOWN", "MANUAL_REVIEW"}
Holding    == Unresolved \cup {"CAPTURED"}
Blocking   == Holding \cup {"COMPLETED"}
Released   == {"DECLINED", "CANCELED"}
Statuses   == {"ABSENT"} \cup Blocking \cup Released

\* none: nothing at CardCom.  ready: a hosted page nobody was given the address
\* of.  pending: a token request on its way, or a page the customer can pay.
Monies == {"none", "ready", "pending", "paid", "refused", "closed"}

SubStatuses == {"TRIAL", "ACTIVE", "PAST_DUE", "CANCELED"}

Verdicts == {"none", "CAPTURED", "DECLINED", "UNKNOWN"}

Steps == {"idle", "opened", "claimed", "sent", "looking", "answered",
          "verified", "judged", "activating",
          "resuming", "completing", "activated", "receipted",
          "creating", "paged", "linked"}

Init ==
  /\ status = [a \in Attempts |-> "ABSENT"]
  /\ mode = [a \in Attempts |-> "TOKEN"]
  /\ debtsOf = [a \in Attempts |-> {}]
  /\ late = {}
  /\ page = [a \in Attempts |-> FALSE]
  /\ lookups = [a \in Attempts |-> 0]
  /\ lease = [a \in Attempts |-> "free"]
  /\ fresh = {}
  /\ active = [d \in Debts |-> NoAttempt]
  /\ settledBy = [d \in Debts |-> NoAttempt]
  /\ sub \in {"TRIAL", "ACTIVE"}
  /\ receipt = {}
  /\ logged = {}
  /\ money = [a \in Attempts |-> "none"]
  /\ requests = [a \in Attempts |-> 0]
  /\ pc = [w \in Workers |-> "idle"]
  /\ job = [w \in Workers |-> NoAttempt]
  /\ answer = [w \in Workers |-> "none"]

-----------------------------------------------------------------------------
(* Vocabulary of the transactions. *)

Open(d) == settledBy[d] = NoAttempt

\* The obligation row exists: some attempt was opened for it.
Known(d) == \E a \in Attempts : d \in debtsOf[a]

\* Every linked debt still points at the attempt.
Reserves(a) == \A d \in debtsOf[a] : active[d] = a

\* Mutant of Pending: MANUAL_REVIEW is missing from the blocking statuses.
PendingUnlessReview(d) ==
  active[d] # NoAttempt /\ status[active[d]] \in Blocking \ {"MANUAL_REVIEW"}

Pending(d) == active[d] # NoAttempt /\ status[active[d]] \in Blocking

SetStatus(a, s) == status' = [status EXCEPT ![a] = s]

\* stateVersion += 1: whoever remembered the old version is stale.
Bump(a) == fresh' = {v \in fresh : job[v] # a}

FreeLease(a) == lease' = [lease EXCEPT ![a] = "free"]

\* assignLease: exclusive, and only the claimer knows the new version.
TakeLease(w, a) ==
  /\ lease' = [lease EXCEPT ![a] = "live"]
  /\ fresh' = {v \in fresh : job[v] # a} \cup {w}

\* Mutant of FreeDebts: only one of the linked debts is released.
FreeOneDebt(a) == active' = [active EXCEPT ![CHOOSE d \in debtsOf[a] : TRUE] = NoAttempt]

FreeDebts(a) ==
  active' = [d \in Debts |-> IF d \in debtsOf[a] THEN NoAttempt ELSE active[d]]

Goto(w, s) == pc' = [pc EXCEPT ![w] = s]

Start(w, a, s) ==
  /\ pc[w] = "idle"
  /\ Goto(w, s)
  /\ job' = [job EXCEPT ![w] = a]

Finish(w) ==
  /\ Goto(w, "idle")
  /\ job' = [job EXCEPT ![w] = NoAttempt]
  /\ answer' = [answer EXCEPT ![w] = "none"]

\* A new attempt row with its frozen links, and the pointer on every debt.
CreateAttempt(w, a, S, m, s) ==
  /\ status[a] = "ABSENT"
  /\ SetStatus(a, "CREATED")
  /\ mode' = [mode EXCEPT ![a] = m]
  /\ debtsOf' = [debtsOf EXCEPT ![a] = S]
  /\ active' = [d \in Debts |-> IF d \in S THEN a ELSE active[d]]
  /\ Start(w, a, s)
  /\ UNCHANGED <<late, page, lookups, lease, settledBy, sub, receipt, logged, cardcom, answer>>

-----------------------------------------------------------------------------
(* Token renewals: executeRenewal and submitCharge. *)

\* The period has no attempt in the way and none of its checkouts is pending.
OpenRenewal(w, d, a) ==
  /\ sub = "ACTIVE"
  /\ \A c \in Checkouts : Open(c) => ~Pending(c)
  /\ Open(d) /\ ~Pending(d)
  /\ CreateAttempt(w, a, {d}, "TOKEN", "opened")
  /\ fresh' = fresh \cup {w}

\* A later run finds the attempt an earlier one created and never submitted;
\* an attempt in any other blocking status cannot be claimed for submission.
ReopenRenewal(w, d) ==
  /\ sub = "ACTIVE"
  /\ \A c \in Checkouts : Open(c) => ~Pending(c)
  /\ Open(d) /\ Pending(d) /\ status[active[d]] = "CREATED"
  /\ Start(w, active[d], "opened")
  /\ fresh' = fresh \cup {w}
  /\ UNCHANGED <<status, mode, debtsOf, late, page, lookups, lease, debts, sub,
                 receipt, logged, cardcom, answer>>

\* Mutant of ClaimSubmission: any unresolved attempt is claimed, whatever its version.
ClaimAnySubmission(w) ==
  LET a == job[w] IN
  /\ pc[w] = "opened"
  /\ status[a] \in Unresolved /\ lease[a] # "live"
  /\ SetStatus(a, "PROCESSING")
  /\ TakeLease(w, a)
  /\ Goto(w, "claimed")
  /\ UNCHANGED <<mode, debtsOf, late, page, lookups, debts, sub, receipt, logged,
                 cardcom, job, answer>>

ClaimSubmission(w) ==
  LET a == job[w] IN
  /\ pc[w] = "opened"
  /\ w \in fresh /\ status[a] = "CREATED" /\ lease[a] # "live"
  /\ SetStatus(a, "PROCESSING")
  /\ TakeLease(w, a)
  /\ Goto(w, "claimed")
  /\ UNCHANGED <<mode, debtsOf, late, page, lookups, debts, sub, receipt, logged,
                 cardcom, job, answer>>

SubmissionRefused(w) ==
  LET a == job[w] IN
  /\ pc[w] = "opened"
  /\ ~(w \in fresh /\ status[a] = "CREATED" /\ lease[a] # "live")
  /\ Finish(w)
  /\ fresh' = fresh \ {w}
  /\ UNCHANGED <<status, mode, debtsOf, late, page, lookups, lease, debts, sub,
                 receipt, logged, cardcom>>

\* The executor found a usable card: the request leaves for CardCom.  Nothing
\* is read back from the row first.
SendCharge(w) ==
  LET a == job[w] IN
  /\ pc[w] = "claimed" /\ mode[a] = "TOKEN"
  /\ requests' = [requests EXCEPT ![a] = @ + 1]
  /\ money' = [money EXCEPT ![a] = IF @ = "none" THEN "pending" ELSE @]
  /\ Goto(w, "sent")
  /\ UNCHANGED <<row, debts, sub, receipt, logged, job, answer>>

\* Mutant of Response: a success code without a transaction id counts as captured.
ResponseByCode(a) ==
  {"UNKNOWN"} \cup (IF money[a] \in {"pending", "paid"} THEN {"CAPTURED"} ELSE {})
              \cup (IF money[a] = "refused" THEN {"DECLINED"} ELSE {})

\* What the synchronous response may say: a timeout or a malformed body is
\* UNKNOWN whatever CardCom did.
Response(a) ==
  {"UNKNOWN"} \cup (IF money[a] = "paid" THEN {"CAPTURED"} ELSE {})
              \cup (IF money[a] = "refused" THEN {"DECLINED"} ELSE {})

ReceiveAnswer(w) ==
  /\ pc[w] = "sent"
  /\ \E v \in Response(job[w]) : answer' = [answer EXCEPT ![w] = v]
  /\ Goto(w, "answered")
  /\ UNCHANGED <<row, debts, sub, receipt, logged, cardcom, job>>

-----------------------------------------------------------------------------
(* Applying a verdict: applyNormalizedOutcome and applyPreSubmissionFailure. *)

\* Same version, same owner, lease not expired.
HoldsLease(w) == w \in fresh /\ lease[job[w]] # "expired"

\* Mutant of CanApply: a verdict is applied without looking at version and status.
CanApplyLate(w) == pc[w] \in {"answered", "judged"}

CanApply(w) ==
  /\ pc[w] \in {"answered", "judged"}
  /\ HoldsLease(w)
  /\ status[job[w]] \in {"PROCESSING", "UNKNOWN"}

\* After a capture a webhook goes on to activate a recovered subscription, a
\* token reconciliation stops, and everyone else completes the attempt.
AfterCapture(w) ==
  LET a == job[w] IN
  IF pc[w] = "judged" /\ ~(debtsOf[a] \subseteq Checkouts) THEN "activating"
  ELSE IF pc[w] = "answered" /\ mode[a] = "TOKEN" /\ status[a] = "UNKNOWN" THEN "idle"
  ELSE "resuming"

ApplyCaptured(w) ==
  LET a == job[w] IN
  /\ CanApply(w) /\ answer[w] = "CAPTURED"
  /\ SetStatus(a, "CAPTURED")
  /\ lookups' = [lookups EXCEPT ![a] =
       IF status[a] = "UNKNOWN" /\ @ < MaxLookups THEN @ + 1 ELSE @]
  /\ late' \in {late} \cup
       (IF LatePayment /\ debtsOf[a] \subseteq Checkouts /\ sub = "ACTIVE"
          THEN {late \cup {a}} ELSE {})
  /\ FreeLease(a) /\ Bump(a)
  /\ IF AfterCapture(w) = "idle"
       THEN Finish(w)
       ELSE Goto(w, AfterCapture(w)) /\ UNCHANGED <<job, answer>>
  /\ UNCHANGED <<mode, debtsOf, page, debts, sub, receipt, logged, cardcom>>

\* A confirmed decline releases every linked debt; the third one of a renewal
\* cycle also moves an ACTIVE subscription to PAST_DUE in the same transaction.
ApplyDeclined(w) ==
  LET a == job[w] IN
  /\ CanApply(w) /\ answer[w] = "DECLINED"
  /\ Reserves(a)
  /\ SetStatus(a, "DECLINED")
  /\ lookups' = [lookups EXCEPT ![a] =
       IF status[a] = "UNKNOWN" /\ @ < MaxLookups THEN @ + 1 ELSE @]
  /\ FreeLease(a) /\ Bump(a) /\ FreeDebts(a)
  /\ sub' \in {sub} \cup
       (IF mode[a] = "TOKEN" /\ sub = "ACTIVE" THEN {"PAST_DUE"} ELSE {})
  /\ Finish(w)
  /\ UNCHANGED <<mode, debtsOf, late, page, settledBy, receipt, logged, cardcom>>

\* Mutant of ApplyUnknown: the end of the table of delays is not noticed.
ApplyUnknownForever(w) ==
  LET a == job[w] IN
  /\ CanApply(w) /\ answer[w] = "UNKNOWN"
  /\ lookups' = [lookups EXCEPT ![a] = IF status[a] = "UNKNOWN" THEN @ + 1 ELSE @]
  /\ SetStatus(a, "UNKNOWN")
  /\ FreeLease(a) /\ Bump(a)
  /\ Finish(w)
  /\ UNCHANGED <<mode, debtsOf, late, page, debts, sub, receipt, logged, cardcom>>

\* An uncertain verdict schedules the next lookup; when the delays run out the
\* attempt is left to an operator.
ApplyUnknown(w) ==
  LET a == job[w]
      n == IF status[a] = "UNKNOWN" /\ lookups[a] < MaxLookups
             THEN lookups[a] + 1 ELSE lookups[a]
  IN
  /\ CanApply(w) /\ answer[w] = "UNKNOWN"
  /\ lookups' = [lookups EXCEPT ![a] = n]
  /\ SetStatus(a, IF n < MaxLookups THEN "UNKNOWN" ELSE "MANUAL_REVIEW")
  /\ FreeLease(a) /\ Bump(a)
  /\ Finish(w)
  /\ UNCHANGED <<mode, debtsOf, late, page, debts, sub, receipt, logged, cardcom>>

\* No usable card, found before any request: the obligation the attempt was
\* opened for is released and an ACTIVE subscription becomes PAST_DUE.
LocalFailureOfCustomer(w) ==
  LET a == job[w] IN
  /\ pc[w] = "claimed" /\ HoldsLease(w) /\ status[a] = "PROCESSING"
  /\ SetStatus(a, "DECLINED")
  /\ FreeLease(a) /\ Bump(a)
  /\ \E d \in debtsOf[a] :
       /\ active[d] = a
       /\ active' = [active EXCEPT ![d] = NoAttempt]
  /\ sub' \in {sub} \cup (IF sub = "ACTIVE" THEN {"PAST_DUE"} ELSE {})
  /\ Finish(w)
  /\ UNCHANGED <<mode, debtsOf, late, page, lookups, settledBy, receipt, logged, cardcom>>

\* The stored token cannot be decrypted: nothing was sent, an operator decides.
LocalFailureOfSystem(w) ==
  LET a == job[w] IN
  /\ pc[w] = "claimed" /\ HoldsLease(w) /\ status[a] = "PROCESSING"
  /\ SetStatus(a, "MANUAL_REVIEW")
  /\ FreeLease(a) /\ Bump(a)
  /\ Finish(w)
  /\ UNCHANGED <<mode, debtsOf, late, page, lookups, debts, sub, receipt, logged, cardcom>>

\* The version moved on or the lease ran out: the verdict is thrown away.
RejectStale(w) ==
  /\ \/ pc[w] \in {"answered", "judged"} /\ ~CanApply(w)
     \/ pc[w] = "claimed" /\ ~(HoldsLease(w) /\ status[job[w]] = "PROCESSING")
  /\ Finish(w)
  /\ fresh' = fresh \ {w}
  /\ UNCHANGED <<status, mode, debtsOf, late, page, lookups, lease, debts, sub,
                 receipt, logged, cardcom>>

-----------------------------------------------------------------------------
(* Read-only reconciliation: the sweep of BillingReconciliationService. *)

\* Mutant of ExpireProcessing: the sweep looks for rows whose lease was cleared.
ExpireUnleased(a) ==
  /\ status[a] = "PROCESSING" /\ lease[a] = "free"
  /\ SetStatus(a, "UNKNOWN")
  /\ FreeLease(a) /\ Bump(a)
  /\ UNCHANGED <<mode, debtsOf, late, page, lookups, debts, sub, receipt, logged,
                 cardcom, threads>>

\* The sweep, or the next claimForSubmission that meets the row.
ExpireProcessing(a) ==
  /\ status[a] = "PROCESSING" /\ lease[a] = "expired"
  /\ SetStatus(a, "UNKNOWN")
  /\ FreeLease(a) /\ Bump(a)
  /\ UNCHANGED <<mode, debtsOf, late, page, lookups, debts, sub, receipt, logged,
                 cardcom, threads>>

\* findDueUnknownAttempts and claimForReconciliation: the claim demands the
\* version the sweep read, so the two are one step.
ClaimReconciliation(w, a) ==
  /\ status[a] = "UNKNOWN" /\ lease[a] # "live"
  /\ TakeLease(w, a)
  /\ Start(w, a, "looking")
  /\ UNCHANGED <<status, mode, debtsOf, late, page, lookups, debts, sub, receipt,
                 logged, cardcom, answer>>

\* Mutant of LookupResult: a charge CardCom does not know of counts as declined.
LookupByAbsence(a) ==
  {"UNKNOWN"}
    \cup (IF money[a] = "paid" /\ (mode[a] = "TOKEN" \/ page[a]) THEN {"CAPTURED"} ELSE {})
    \cup (IF money[a] # "paid" THEN {"DECLINED"} ELSE {})

\* A lookup proves a capture; only a hosted page can prove a decline, and
\* nothing is proved of a page whose LowProfile id was not recorded.
LookupResult(a) ==
  {"UNKNOWN"}
    \cup (IF money[a] = "paid" /\ (mode[a] = "TOKEN" \/ page[a]) THEN {"CAPTURED"} ELSE {})
    \cup (IF money[a] = "refused" /\ mode[a] = "HOSTED" /\ page[a] THEN {"DECLINED"} ELSE {})

Lookup(w) ==
  /\ pc[w] = "looking"
  /\ \E v \in LookupResult(job[w]) : answer' = [answer EXCEPT ![w] = v]
  /\ Goto(w, "answered")
  /\ UNCHANGED <<row, debts, sub, receipt, logged, cardcom, job>>

-----------------------------------------------------------------------------
(* Hosted payments: createCheckout. *)

\* Mutant of Settleable: a debt another attempt has reserved is not left out.
SettleableReserved(S) ==
  /\ S \subseteq Periods
  /\ \E d \in S : Known(d)
  /\ \A d \in S : Open(d)
  /\ \A d \in Debts : Known(d) /\ Open(d) => d \in S

\* Settlement collects the whole balance: every OPEN obligation row of the
\* subscription, all RECURRING_PERIOD and none reserved.  Accrual may have
\* materialised further periods from the terms of the first unpaid one.
Settleable(S) ==
  /\ S \subseteq Periods
  /\ \E d \in S : Known(d)
  /\ \A d \in S : Open(d) /\ active[d] = NoAttempt
  /\ \A d \in Debts : Known(d) /\ Open(d) => d \in S

OpenRecovery(w, S, a) ==
  /\ sub \in {"PAST_DUE", "CANCELED"}
  /\ Settleable(S)
  /\ CreateAttempt(w, a, S, "HOSTED", "creating")
  /\ UNCHANGED fresh

\* A first purchase or an upgrade: refused while any debt is being collected.
OpenCheckout(w, d, a) ==
  /\ sub \in {"TRIAL", "ACTIVE"}
  /\ \A e \in Debts : Open(e) => ~Pending(e)
  /\ Open(d)
  /\ CreateAttempt(w, a, {d}, "HOSTED", "creating")
  /\ UNCHANGED fresh

PageCreated(w) ==
  /\ pc[w] = "creating"
  /\ money' = [money EXCEPT ![job[w]] = "ready"]
  /\ Goto(w, "paged")
  /\ UNCHANGED <<row, debts, sub, receipt, logged, requests, job, answer>>

\* Codes 603 and 605: no page exists, the reservation is given back.
CreationRejected(w) ==
  LET a == job[w] IN
  /\ pc[w] = "creating"
  /\ status[a] = "CREATED" /\ ~page[a] /\ Reserves(a)
  /\ SetStatus(a, "CANCELED")
  /\ Bump(a) /\ FreeDebts(a)
  /\ Finish(w)
  /\ UNCHANGED <<mode, debtsOf, late, page, lookups, lease, settledBy, sub, receipt,
                 logged, cardcom>>

\* Any other error: a page may or may not exist, nobody was given its address.
CreationUncertain(w) ==
  LET a == job[w] IN
  /\ pc[w] = "creating"
  /\ status[a] = "CREATED" /\ ~page[a]
  /\ SetStatus(a, "MANUAL_REVIEW")
  /\ Bump(a)
  /\ \E m \in {"none", "ready"} : money' = [money EXCEPT ![a] = m]
  /\ Finish(w)
  /\ UNCHANGED <<mode, debtsOf, late, page, lookups, lease, debts, sub, receipt,
                 logged, requests>>

Recordable == {"CREATED", "AWAITING_CUSTOMER", "PROCESSING", "UNKNOWN"}

RecordPage(w) ==
  LET a == job[w] IN
  /\ pc[w] = "paged"
  /\ ~page[a] /\ status[a] \in Recordable
  /\ page' = [page EXCEPT ![a] = TRUE]
  /\ SetStatus(a, IF status[a] = "CREATED" THEN "AWAITING_CUSTOMER" ELSE status[a])
  /\ Bump(a)
  /\ Goto(w, "linked")
  /\ UNCHANGED <<mode, debtsOf, late, lookups, lease, debts, sub, receipt, logged,
                 cardcom, job, answer>>

\* Best effort: a failed write, or a row that no longer accepts the id, does
\* not keep the address from the customer.
SkipRecording(w) ==
  /\ pc[w] = "paged"
  /\ Goto(w, "linked")
  /\ UNCHANGED <<row, debts, sub, receipt, logged, cardcom, job, answer>>

HandOver(w) ==
  LET a == job[w] IN
  /\ pc[w] = "linked"
  /\ money' = [money EXCEPT ![a] = IF @ = "ready" THEN "pending" ELSE @]
  /\ Finish(w)
  /\ fresh' = fresh \ {w}
  /\ UNCHANGED <<status, mode, debtsOf, late, page, lookups, lease, debts, sub,
                 receipt, logged, requests>>

-----------------------------------------------------------------------------
(* Webhook deliveries: handleWebhook. *)

\* The delivery is logged before anything else, so it is handled once; then
\* GetLpResult is asked for the verdict.
WebhookArrives(w, a) ==
  /\ mode[a] = "HOSTED" /\ money[a] \in {"pending", "paid", "refused"}
  /\ <<a, money[a]>> \notin logged
  /\ logged' = logged \cup {<<a, money[a]>>}
  /\ Start(w, a, "verified")
  /\ \E v \in LookupResult(a) : answer' = [answer EXCEPT ![w] = v]
  /\ UNCHANGED <<row, debts, sub, receipt, cardcom>>

HostedClaimable(a) ==
  /\ lease[a] # "live"
  /\ mode[a] = "HOSTED"
  /\ status[a] \in Unresolved
  /\ Reserves(a)

ClaimHostedOutcome(w) ==
  LET a == job[w] IN
  /\ pc[w] = "verified" /\ HostedClaimable(a)
  /\ SetStatus(a, IF status[a] \in {"UNKNOWN", "MANUAL_REVIEW"}
                    THEN "UNKNOWN" ELSE "PROCESSING")
  /\ TakeLease(w, a)
  /\ Goto(w, "judged")
  /\ UNCHANGED <<mode, debtsOf, late, page, lookups, debts, sub, receipt, logged,
                 cardcom, job, answer>>

\* Mutant of HostedClaimRefused: everything but a decline goes on to activation.
HostedClaimIgnored(w) ==
  LET a == job[w] IN
  /\ pc[w] = "verified" /\ ~HostedClaimable(a)
  /\ IF answer[w] # "DECLINED"
       THEN /\ Goto(w, IF debtsOf[a] \subseteq Checkouts THEN "resuming" ELSE "activating")
            /\ UNCHANGED <<job, answer>>
       ELSE Finish(w)
  /\ fresh' = fresh \ {w}
  /\ UNCHANGED <<status, mode, debtsOf, late, page, lookups, lease, debts, sub,
                 receipt, logged, cardcom>>

\* A refused claim is not an error: a verified payment is still activated and
\* completed, anything else ends here.
HostedClaimRefused(w) ==
  LET a == job[w] IN
  /\ pc[w] = "verified" /\ ~HostedClaimable(a)
  /\ IF answer[w] = "CAPTURED"
       THEN /\ Goto(w, IF debtsOf[a] \subseteq Checkouts THEN "resuming" ELSE "activating")
            /\ UNCHANGED <<job, answer>>
       ELSE Finish(w)
  /\ fresh' = fresh \ {w}
  /\ UNCHANGED <<status, mode, debtsOf, late, page, lookups, lease, debts, sub,
                 receipt, logged, cardcom>>

\* processVerifiedSuccess: an ACTIVE subscription is left alone, a canceled one
\* stays canceled, and a PAST_DUE one becomes ACTIVE unless the settled periods
\* are already over.  For a completed attempt the patch writes what is there: the
\* subscription is PAST_DUE again only when the periods it settled have ended.
WebhookActivates(w) ==
  LET a == job[w]
      skip == sub \in {"ACTIVE", "TRIAL"} \/ status[a] = "COMPLETED"
  IN
  /\ pc[w] = "activating"
  /\ IF skip
       THEN Finish(w) /\ UNCHANGED sub
       ELSE /\ sub' \in IF sub = "CANCELED" THEN {"CANCELED"} ELSE {"ACTIVE", "PAST_DUE"}
            /\ Goto(w, "resuming")
            /\ UNCHANGED <<job, answer>>
  /\ fresh' = fresh \ {w}
  /\ UNCHANGED <<status, mode, debtsOf, late, page, lookups, lease, debts, receipt,
                 logged, cardcom>>

-----------------------------------------------------------------------------
(* Completion of a captured attempt: resumeCapturedAttempt. *)

\* A completion task, the hosted sweep, the next renewal run, an operator or a
\* repeated webhook meets a CAPTURED attempt.
PickUpCaptured(w, a) ==
  /\ status[a] = "CAPTURED"
  /\ Start(w, a, "resuming")
  /\ UNCHANGED <<row, debts, sub, receipt, logged, cardcom, answer>>

\* Mutant of Finalizable: the lease a crashed run left behind is never taken over.
FinalizableUnleased(a) == status[a] = "CAPTURED" /\ lease[a] = "free"

Finalizable(a) == status[a] = "CAPTURED" /\ lease[a] # "live"

ClaimFinalization(w) ==
  LET a == job[w] IN
  /\ pc[w] = "resuming" /\ Finalizable(a)
  /\ TakeLease(w, a)
  /\ Goto(w, "completing")
  /\ UNCHANGED <<status, mode, debtsOf, late, page, lookups, debts, sub, receipt,
                 logged, cardcom, job, answer>>

FinalizationRefused(w) ==
  /\ pc[w] = "resuming" /\ ~Finalizable(job[w])
  /\ Finish(w)
  /\ fresh' = fresh \ {w}
  /\ UNCHANGED <<status, mode, debtsOf, late, page, lookups, lease, debts, sub,
                 receipt, logged, cardcom>>

\* The subscription states a completion may write; none when it must refuse, as
\* it does an upgrade that was paid after the period it was quoted for.
Activations(a) ==
  IF debtsOf[a] \subseteq Checkouts
  THEN IF sub = "TRIAL" \/ (sub = "ACTIVE" /\ a \notin late) THEN {"ACTIVE"} ELSE {}
  ELSE IF mode[a] = "TOKEN"
  THEN {sub} \cup (IF sub \in {"ACTIVE", "PAST_DUE"} THEN {"ACTIVE", "PAST_DUE"} ELSE {})
  ELSE IF sub = "PAST_DUE" THEN {"ACTIVE", "PAST_DUE"} ELSE {sub} \ {"TRIAL"}

\* A renewal run completes without this step's write; a completion task, the
\* hosted paths and the sweep apply the state the capture paid for.
Activate(w) ==
  LET a == job[w] IN
  /\ pc[w] = "completing"
  /\ sub' \in IF status[a] = "COMPLETED" THEN {sub} ELSE Activations(a)
  /\ Goto(w, "activated")
  /\ UNCHANGED <<row, debts, receipt, logged, cardcom, job, answer>>

\* One document per attempt: documents.billing_attempt_id is UNIQUE.
IssueReceipt(w) ==
  /\ pc[w] = "activated"
  /\ receipt' = receipt \cup {job[w]}
  /\ Goto(w, "receipted")
  /\ UNCHANGED <<row, debts, sub, logged, cardcom, job, answer>>

\* Mutant of Finalize: only one of the linked debts becomes SATISFIED.
FinalizeOneDebt(w) ==
  LET a == job[w] IN
  /\ pc[w] = "receipted"
  /\ status[a] = "CAPTURED"
  /\ SetStatus(a, "COMPLETED")
  /\ FreeLease(a) /\ Bump(a) /\ FreeDebts(a)
  /\ settledBy' = [settledBy EXCEPT ![CHOOSE d \in debtsOf[a] : TRUE] = a]
  /\ Finish(w)
  /\ UNCHANGED <<mode, debtsOf, late, page, lookups, sub, receipt, logged, cardcom>>

Finalize(w) ==
  LET a == job[w] IN
  /\ pc[w] = "receipted"
  /\ status[a] = "CAPTURED"
  /\ \A d \in debtsOf[a] : Open(d) /\ active[d] = a
  /\ SetStatus(a, "COMPLETED")
  /\ FreeLease(a) /\ Bump(a) /\ FreeDebts(a)
  /\ settledBy' = [d \in Debts |-> IF d \in debtsOf[a] THEN a ELSE settledBy[d]]
  /\ Finish(w)
  /\ UNCHANGED <<mode, debtsOf, late, page, lookups, sub, receipt, logged, cardcom>>

\* Another run completed it first: the same receipt makes this a no-op.
FinalizeAgain(w) ==
  /\ pc[w] = "receipted"
  /\ status[job[w]] = "COMPLETED"
  /\ Finish(w)
  /\ fresh' = fresh \ {w}
  /\ UNCHANGED <<status, mode, debtsOf, late, page, lookups, lease, debts, sub,
                 receipt, logged, cardcom>>

\* Any step of the completion may fail; the attempt stays CAPTURED and the
\* lease is released unless another run has taken over.
FailCompletion(w) ==
  LET a == job[w] IN
  /\ pc[w] \in {"completing", "activated", "receipted"}
  /\ lease' = [lease EXCEPT ![a] =
       IF status[a] = "CAPTURED" /\ w \in fresh THEN "free" ELSE @]
  /\ Finish(w)
  /\ fresh' = fresh \ {w}
  /\ UNCHANGED <<status, mode, debtsOf, late, page, lookups, debts, sub, receipt,
                 logged, cardcom>>

-----------------------------------------------------------------------------
(* The operator: prepareAdminResolution. *)

\* The preconditions shared by the three decisions.  A CREATED attempt must be
\* five minutes old, by when the request that creates its page has timed out.
Resolvable(a) ==
  /\ status[a] \in Holding
  /\ lease[a] # "live"
  /\ \A d \in debtsOf[a] : active[d] = a /\ Open(d)
  /\ status[a] = "CREATED" => \A w \in Workers : ~(pc[w] = "creating" /\ job[w] = a)

\* The operator attests to CardCom's evidence: no payment, and a page that can
\* no longer be paid.
NoChargeEvidence(a) ==
  /\ money[a] \in IF mode[a] = "TOKEN" THEN {"none", "refused"} ELSE Monies \ {"paid"}
  /\ OperatorSeesSenders => \A w \in Workers : ~(pc[w] = "claimed" /\ job[w] = a)

AdminConfirmNoCharge(a) ==
  /\ Resolvable(a) /\ status[a] \in Unresolved
  /\ NoChargeEvidence(a)
  /\ SetStatus(a, "CANCELED")
  /\ FreeLease(a) /\ Bump(a) /\ FreeDebts(a)
  /\ money' = [money EXCEPT ![a] =
       IF mode[a] = "HOSTED" /\ @ # "refused" THEN "closed" ELSE @]
  /\ UNCHANGED <<mode, debtsOf, late, page, lookups, settledBy, sub, receipt, logged,
                 requests, threads>>

AdminCompleteCaptured(a) ==
  /\ Resolvable(a) /\ status[a] = "CAPTURED"
  /\ FreeLease(a) /\ Bump(a)
  /\ UNCHANGED <<status, mode, debtsOf, late, page, lookups, debts, sub, receipt,
                 logged, cardcom, threads>>

\* A hosted attempt needs its LowProfile id, which the operator may supply.
AdminCheckProvider(a) ==
  /\ Resolvable(a) /\ status[a] \in Unresolved
  /\ mode[a] = "HOSTED" => page[a] \/ money[a] # "none"
  /\ page' = [page EXCEPT ![a] = @ \/ mode[a] = "HOSTED"]
  /\ SetStatus(a, "UNKNOWN")
  /\ FreeLease(a) /\ Bump(a)
  /\ UNCHANGED <<mode, debtsOf, late, lookups, debts, sub, receipt, logged, cardcom, threads>>

\* Mutant of CancelSubscription: an unresolved payment does not stand in the way.
CancelWhilePending ==
  /\ sub # "CANCELED"
  /\ sub' = "CANCELED"
  /\ UNCHANGED <<row, debts, receipt, logged, cardcom, threads>>

\* The owner cancels: refused while any payment is unresolved.
CancelSubscription ==
  /\ sub # "CANCELED"
  /\ \A d \in Debts : Open(d) => active[d] = NoAttempt
  /\ sub' = "CANCELED"
  /\ UNCHANGED <<row, debts, receipt, logged, cardcom, threads>>

-----------------------------------------------------------------------------
(* The world: CardCom, the customer, time and crashes. *)

ProviderDecides(a) ==
  /\ money[a] = "pending"
  /\ \E m \in IF mode[a] = "TOKEN" THEN {"paid", "refused"} ELSE {"paid", "refused", "closed"} :
       money' = [money EXCEPT ![a] = m]
  /\ UNCHANGED <<row, debts, sub, receipt, logged, requests, threads>>

LeaseExpires(a) ==
  /\ lease[a] = "live"
  /\ lease' = [lease EXCEPT ![a] = "expired"]
  /\ UNCHANGED <<status, mode, debtsOf, late, page, lookups, fresh, debts, sub,
                 receipt, logged, cardcom, threads>>

Crash(w) ==
  /\ pc[w] # "idle"
  /\ Finish(w)
  /\ fresh' = fresh \ {w}
  /\ UNCHANGED <<status, mode, debtsOf, late, page, lookups, lease, debts, sub,
                 receipt, logged, cardcom>>

-----------------------------------------------------------------------------

\* What an idle thread may take on.
Begin(w) ==
  \/ \E a \in Attempts, d \in Periods : OpenRenewal(w, d, a)
  \/ \E d \in Periods : ReopenRenewal(w, d)
  \/ \E a \in Attempts, S \in SUBSET Periods : OpenRecovery(w, S, a)
  \/ \E a \in Attempts, d \in Checkouts : OpenCheckout(w, d, a)
  \/ \E a \in Attempts : WebhookArrives(w, a)
  \/ \E a \in Attempts : ClaimReconciliation(w, a)
  \/ \E a \in Attempts : PickUpCaptured(w, a)

\* What a busy thread does next.
Submit(w) ==
  \/ ClaimSubmission(w) \/ SubmissionRefused(w) \/ SendCharge(w) \/ ReceiveAnswer(w)
  \/ LocalFailureOfCustomer(w) \/ LocalFailureOfSystem(w)

Apply(w) == ApplyCaptured(w) \/ ApplyDeclined(w) \/ ApplyUnknown(w) \/ RejectStale(w)

Host(w) ==
  \/ PageCreated(w) \/ CreationRejected(w) \/ CreationUncertain(w)
  \/ RecordPage(w) \/ SkipRecording(w) \/ HandOver(w)

Hook(w) == ClaimHostedOutcome(w) \/ HostedClaimRefused(w) \/ WebhookActivates(w)

Complete(w) ==
  \/ ClaimFinalization(w) \/ FinalizationRefused(w) \/ Activate(w) \/ IssueReceipt(w)
  \/ Finalize(w) \/ FinalizeAgain(w) \/ FailCompletion(w)

Continue(w) == Submit(w) \/ Apply(w) \/ Lookup(w) \/ Host(w) \/ Hook(w) \/ Complete(w)

Operator(a) == AdminConfirmNoCharge(a) \/ AdminCompleteCaptured(a) \/ AdminCheckProvider(a)

World(a) == ProviderDecides(a) \/ LeaseExpires(a)

Next ==
  \/ \E w \in Workers : Begin(w) \/ Continue(w) \/ Crash(w)
  \/ \E a \in Attempts : ExpireProcessing(a) \/ Operator(a) \/ World(a)
  \/ CancelSubscription

Spec == Init /\ [][Next]_vars
=============================================================================
