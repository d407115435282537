-------------------------- MODULE BillingCorrectness --------------------------
(***************************************************************************)
(* What BillingAttempts is meant to guarantee: its invariants, what a step *)
(* may never do, the inductive invariant they follow from, the ledger it   *)
(* implements, and what must eventually happen.                            *)
(***************************************************************************)
EXTENDS BillingAttempts

\* Every variable keeps its type; a thread has an attempt exactly while it is
\* busy, only busy threads remember a version, and the reconciliation count
\* never leaves the table of delays.
TypeOK ==
  /\ status \in [Attempts -> Statuses]
  /\ mode \in [Attempts -> {"TOKEN", "HOSTED"}]
  /\ debtsOf \in [Attempts -> SUBSET Debts]
  /\ late \subseteq Attempts
  /\ page \in [Attempts -> BOOLEAN]
  /\ lookups \in [Attempts -> 0 .. MaxLookups]
  /\ lease \in [Attempts -> {"free", "live", "expired"}]
  /\ fresh \subseteq {w \in Workers : pc[w] # "idle"}
  /\ active \in [Debts -> Attempts \cup {NoAttempt}]
  /\ settledBy \in [Debts -> Attempts \cup {NoAttempt}]
  /\ sub \in SubStatuses
  /\ receipt \subseteq Attempts
  /\ logged \subseteq Attempts \X Monies
  /\ money \in [Attempts -> Monies]
  /\ requests \in [Attempts -> Nat]
  /\ pc \in [Workers -> Steps]
  /\ job \in [Workers -> Attempts \cup {NoAttempt}]
  /\ answer \in [Workers -> Verdicts]
  /\ \A w \in Workers : pc[w] = "idle" <=> job[w] = NoAttempt

\* CardCom never takes the money of one debt twice: two attempts that contain
\* the same debt are never both paid, whatever crashed, timed out or was resolved
\* by hand between them (the reason billing_obligation.activeAttemptId exists).
PaidAtMostOnce ==
  \A a, b \in Attempts :
    money[a] = "paid" /\ money[b] = "paid" /\ debtsOf[a] \cap debtsOf[b] # {} => a = b

\* An attempt CardCom was paid for is never written off as DECLINED or CANCELED,
\* which would put its debts up for collection again.
PaidIsNeverReleased == \A a \in Attempts : money[a] = "paid" => status[a] \notin Released

\* activeAttemptId and the frozen membership tell the same story: an attempt that
\* is not finished holds all of its debts, open, and nothing else holds a debt.
ReservationsAgree ==
  /\ \A a \in Attempts : status[a] \in Holding =>
       \A d \in debtsOf[a] : active[d] = a /\ Open(d)
  /\ \A d \in Debts : active[d] # NoAttempt =>
       d \in debtsOf[active[d]] /\ status[active[d]] \in Holding

\* COMPLETED and SATISFIED are one fact: all the debts of a completed attempt
\* name it as the one that settled them, and no other attempt is ever named.
CompletionPair ==
  /\ \A a \in Attempts : status[a] = "COMPLETED" => \A d \in debtsOf[a] : settledBy[d] = a
  /\ \A d \in Debts : settledBy[d] # NoAttempt =>
       d \in debtsOf[settledBy[d]] /\ status[settledBy[d]] = "COMPLETED"

\* One attempt leads to at most one charge request, however many renewal runs,
\* retries and crashes meet the row (CardCom's own idempotency is not relied on).
SubmittedOnce == \A a \in Attempts : requests[a] <= 1

\* A receipt is a tax document: it exists only for money CardCom really took, and
\* a completed attempt always has one.
ReceiptForRealMoney ==
  /\ \A a \in receipt : money[a] = "paid" /\ status[a] \in {"CAPTURED", "COMPLETED"}
  /\ \A a \in Attempts : status[a] = "COMPLETED" => a \in receipt

\* While the customer can still pay a hosted page, no other attempt for one of
\* its debts is paid, on its way to CardCom, or about to be sent.
PayablePageIsAlone ==
  \A a, b \in Attempts :
    mode[a] = "HOSTED" /\ money[a] = "pending" /\ a # b /\ debtsOf[a] \cap debtsOf[b] # {} =>
      /\ money[b] \notin {"pending", "paid"}
      /\ \A w \in Workers : ~(pc[w] = "claimed" /\ job[w] = b)

\* Captured money can always be turned into access: the subscription is never in
\* a state the completion of a captured attempt must refuse for good.  It needs
\* upgrades to be paid in time; docs/tasks/active/KT-049-canonical-upgrade.md:30
\* has a checkout block the renewal only "until verified or resolved in admin".
ActivationNeverStuck == \A a \in Attempts : status[a] = "CAPTURED" => Activations(a) # {}

\* DECLINED, CANCELED and COMPLETED are final, and a captured attempt can only be
\* completed: no late verdict, sweep or operator moves it anywhere else.
FinalVerdicts ==
  [][\A a \in Attempts :
       /\ status[a] \in Released \cup {"COMPLETED"} => status'[a] = status[a]
       /\ status[a] = "CAPTURED" => status'[a] \in {"CAPTURED", "COMPLETED"}]_vars

\* A customer whose access had lapsed gets it back only for an attempt that was
\* paid and is not yet completed.
ActivationIsPaid ==
  [][sub # "ACTIVE" /\ sub' = "ACTIVE" =>
       \E a \in Attempts : money[a] = "paid" /\ status[a] # "COMPLETED"]_vars

\* Recovery as docs/tasks/active/KT-039-billing-debt-recovery.md:11 promises it: a
\* PAST_DUE customer who owes a period that nothing is collecting can pay it.
DebtIsPayable ==
  /\ sub = "PAST_DUE"
  /\ \E d \in Periods : Known(d) /\ Open(d)
  /\ \A d \in Debts : Known(d) /\ Open(d) => active[d] = NoAttempt
  => \E S \in SUBSET Periods : Settleable(S)

-----------------------------------------------------------------------------
(* The inductive invariant behind the safety properties. *)

Paid(a) == money[a] = "paid"

\* An attempt is opened for at least one debt, a renewal for exactly one.
Membership ==
  \A a \in Attempts :
    /\ status[a] = "ABSENT" => \A d \in Debts : d \notin debtsOf[a]
    /\ status[a] # "ABSENT" => \E d \in Debts : d \in debtsOf[a]
    /\ mode[a] = "TOKEN" => \A d, e \in debtsOf[a] : d = e

\* An operator canceled a renewal on evidence that may have missed a thread which had
\* claimed it and had yet to send.
MaybeSent(a) == status[a] = "CANCELED" /\ mode[a] = "TOKEN" /\ ~OperatorSeesSenders

\* What the row says of the money, and what no row may be said of.
MoneyAgrees ==
  \A a \in Attempts :
    /\ status[a] = "ABSENT" => money[a] = "none" /\ requests[a] = 0 /\ ~page[a]
    /\ status[a] = "CREATED" => ~page[a]
    /\ status[a] = "CREATED" /\ mode[a] = "TOKEN" => money[a] = "none" /\ requests[a] = 0
    /\ status[a] \in {"CAPTURED", "COMPLETED"} => Paid(a)
    /\ status[a] \in Released => money[a] \in {"none", "refused", "closed"} \/ MaybeSent(a)

\* What a thread may rely on without looking again.
Relies(w) ==
  LET a == job[w] IN
  /\ status[a] # "ABSENT"
  /\ pc[w] \in {"opened", "claimed"} => mode[a] = "TOKEN"
  /\ pc[w] = "claimed" =>
       /\ money[a] = "none" /\ requests[a] = 0 /\ status[a] # "CREATED"
       /\ status[a] \notin Released \/ MaybeSent(a)
  /\ pc[w] = "creating" => mode[a] = "HOSTED" /\ status[a] = "CREATED" /\ money[a] = "none"
  /\ pc[w] \in {"verified", "judged"} =>
       money[a] # "none" /\ (answer[w] = "CAPTURED" => page[a])
  /\ pc[w] \in {"verified", "judged", "activating"} => mode[a] = "HOSTED"
  /\ pc[w] = "activating" => Paid(a) /\ page[a]
  /\ answer[w] = "CAPTURED" => Paid(a)
  /\ answer[w] = "DECLINED" => money[a] = "refused"
  /\ pc[w] \in {"completing", "activated", "receipted"} => status[a] \in {"CAPTURED", "COMPLETED"}
  /\ pc[w] = "receipted" => a \in receipt

Threads ==
  \A w \in Workers : IF pc[w] = "idle" THEN answer[w] = "none" ELSE Relies(w)

\* One thread submits an attempt, and one creates its page.
OneSender ==
  \A v, w \in Workers : v # w /\ job[v] = job[w] =>
    /\ ~(pc[v] = "claimed" /\ pc[w] = "claimed")
    /\ ~(pc[v] = "creating" /\ pc[w] \in {"creating", "paged"})

\* A recovery whose page is being created is the only collection there is, so the
\* subscription cannot become ACTIVE and a renewal cannot take its attempt.
RecoveryIsAlone ==
  \A a \in Attempts, d \in Periods :
    mode[a] = "HOSTED" /\ status[a] = "CREATED" /\ d \in debtsOf[a] =>
      /\ sub \in {"PAST_DUE", "CANCELED"}
      /\ \A b \in Attempts : b # a => status[b] \notin Holding

\* The inductive invariant: every step of every thread, of the operator and of
\* CardCom preserves it, and the safety properties above follow from it.
IInv ==
  /\ TypeOK
  /\ Membership
  /\ ReservationsAgree
  /\ CompletionPair
  /\ MoneyAgrees
  /\ SubmittedOnce
  /\ ReceiptForRealMoney
  /\ Threads
  /\ OneSender
  /\ RecoveryIsAlone

\* A checkout that is being paid is the only collection there is, of a
\* subscription that still has access; a settlement never belongs to a trial.
AccessAgrees ==
  \A a \in Attempts :
    /\ status[a] \in Holding /\ debtsOf[a] \cap Checkouts # {} =>
         /\ sub \in {"TRIAL", "ACTIVE"}
         /\ debtsOf[a] \subseteq Checkouts
         /\ \A b \in Attempts : b # a => status[b] \notin Holding
    /\ mode[a] = "HOSTED" /\ debtsOf[a] \cap Periods # {} => sub # "TRIAL"

-----------------------------------------------------------------------------
(* The ledger the rows implement. *)

Holder == [d \in Debts |-> IF Open(d) THEN active[d] ELSE settledBy[d]]

Ledger == INSTANCE DebtLedger WITH
  holder  <- Holder,
  charged <- {a \in Attempts : Paid(a)},
  settled <- {d \in Debts : ~Open(d)}

\* Seen through the ledger, every transaction, crash and late answer is one of
\* reserving, charging, releasing or settling debts, or nothing at all.
LedgerSpec == Ledger!Spec

-----------------------------------------------------------------------------
(* Fairness and liveness. *)

\* Time passes, the sweep runs every few minutes, and a thread that neither
\* crashed nor waits goes on (every request has a timeout).
Scheduling ==
  /\ \A a \in Attempts : WF_vars(LeaseExpires(a)) /\ WF_vars(ExpireProcessing(a))
  /\ \A w \in Workers : WF_vars(Continue(w))

\* A sweep that starts over and over is not interrupted every single time: some
\* lookup ends within its lease, and its verdict is written.  (Both the lease and
\* the request timeout are 30 s: CardCom may not hang on every lookup.)
SweepsSucceed ==
  \A a \in Attempts :
    /\ SF_vars(\E w \in Workers : ClaimReconciliation(w, a))
    /\ SF_vars(\E w \in Workers : job[w] = a /\ HoldsLease(w) /\ Lookup(w))
    /\ SF_vars(\E w \in Workers :
         job[w] = a /\ (ApplyCaptured(w) \/ ApplyDeclined(w) \/ ApplyUnknown(w)))

\* The completion of a captured attempt is retried without end (a task per claim,
\* a cron behind it), and no step of it fails every single time.
CompletionsSucceed ==
  \A a \in Attempts :
    /\ SF_vars(\E w \in Workers : PickUpCaptured(w, a))
    /\ SF_vars(\E w \in Workers : job[w] = a /\ ClaimFinalization(w))
    /\ SF_vars(\E w \in Workers : job[w] = a /\ Activate(w))
    /\ SF_vars(\E w \in Workers : job[w] = a /\ IssueReceipt(w))
    /\ SF_vars(\E w \in Workers : job[w] = a /\ Finalize(w))

FairSpec == Spec /\ Scheduling /\ SweepsSucceed /\ CompletionsSucceed

\* An attempt whose charge is in doubt does not stay so: it is proved captured or
\* declined, or the ladder of lookups ends and an operator is asked.
UncertainIsResolved ==
  \A a \in Attempts :
    status[a] \in {"PROCESSING", "UNKNOWN"} ~> status[a] \notin {"PROCESSING", "UNKNOWN"}

\* Money that was captured is eventually booked: receipt issued, debts settled.
CapturedIsCompleted ==
  \A a \in Attempts : status[a] = "CAPTURED" ~> status[a] = "COMPLETED"

=============================================================================
