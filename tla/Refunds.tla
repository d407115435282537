-------------------------------- MODULE Refunds --------------------------------
(***************************************************************************)
(* Refunds of one payment: a balance reserved under the subscription lock, *)
(* one request to CardCom that is never repeated, an operator who decides  *)
(* what the answer left open, and a leased completion that issues and      *)
(* mails the credit document (BillingRefundService).                       *)
(***************************************************************************)
EXTENDS Functions, FiniteSets

CONSTANTS
  Refunds,      \* refund requests, each with its requestId
  Workers,      \* admin requests and the recovery cron
  Gross, Net,   \* the payment and its part before VAT, in agorot
  HasRecipient, \* the source document names an e-mail recipient
  Nobody,       \* owner of a free lease
  NoRefund

ASSUME NobodyAssumption == Nobody \notin Workers
ASSUME PaymentAssumption == Gross \in Nat \ {0} /\ Net \in 0 .. Gross
ASSUME RecipientAssumption == HasRecipient \in BOOLEAN

VARIABLES
  status,   \* of each refund's billing_attempt row
  amount,   \* its amount with VAT
  net,      \* and without
  owner,    \* leaseOwner
  live,     \* refunds whose lease has not expired
  returned, \* refunds CardCom has carried out
  booked,   \* refunds with a REFUND_SUCCESS event
  credit,   \* refunds with a CREDIT_INVOICE, journal entry included
  linked,   \* refunds whose row and event name that document
  signed,   \* refunds whose PDF is signed and uploaded
  mailed,   \* refunds whose receiptEmailSent is set
  job       \* what each worker is doing

vars == <<status, amount, net, owner, live, returned, booked, credit, linked, signed,
          mailed, job>>
lease     == <<owner, live>>
documents == <<credit, linked, signed, mailed>>

Statuses == {"ABSENT", "PROCESSING", "UNKNOWN", "CAPTURED", "COMPLETED", "DECLINED"}
Completing == {"credit", "link", "sign", "check", "mail", "finalize"}
Steps == {"idle", "send", "record", "claim"} \cup Completing

Idle == [step |-> "idle", refund |-> NoRefund, verdict |-> "unknown"]
Jobs == [step : Steps, refund : Refunds \cup {NoRefund}, verdict : {"captured", "unknown"}]

Init ==
  /\ status = [r \in Refunds |-> "ABSENT"]
  /\ amount = [r \in Refunds |-> 0]
  /\ net = [r \in Refunds |-> 0]
  /\ owner = [r \in Refunds |-> Nobody]
  /\ live = {} /\ returned = {} /\ booked = {}
  /\ credit = {} /\ linked = {} /\ signed = {} /\ mailed = {}
  /\ job = [w \in Workers |-> Idle]

Goto(w, s) == job' = [job EXCEPT ![w].step = s]
Leave(w) == job' = [job EXCEPT ![w] = Idle]
Free(r) == owner' = [owner EXCEPT ![r] = Nobody] /\ live' = live \ {r}
Take(w, r) == owner' = [owner EXCEPT ![r] = w] /\ live' = live \cup {r}

-----------------------------------------------------------------------------
(* The balance. *)

\* Mutant of ReservedStatuses: an unknown result gives the amount back.
ReservedIfKnown == {"PROCESSING", "CAPTURED", "COMPLETED"}

ReservedStatuses == {"PROCESSING", "UNKNOWN", "CAPTURED", "COMPLETED"}

Reserved == {r \in Refunds : status[r] \in ReservedStatuses}
GrossOf(S) == SumFunctionOnSet(amount, S)
NetOf(S) == SumFunctionOnSet(net, S)

\* The part before VAT of the first g agorot that go back, rounded half up.
Rounded(g) == (2 * g * Net + Gross) \div (2 * Gross)

\* Mutant of Breakdown: each refund is rounded for itself.
BreakdownAlone(previous, previousNet, a) ==
  {n \in 0 .. a : previous + a <= Gross /\ n = Rounded(a)}

\* The part before VAT of a refund of a after the earlier ones; empty if refused.
Breakdown(previous, previousNet, a) ==
  {n \in 0 .. a : previous + a <= Gross /\ n = Rounded(previous + a) - previousNet}

\* Mutant of Unfinished: a refund whose money is back does not hold up the next.
UnfinishedMoney == {r \in Reserved : status[r] = "PROCESSING"}

Unfinished == {r \in Reserved : status[r] # "COMPLETED"}

-----------------------------------------------------------------------------
(* create() *)

\* One transaction under the subscription lock; a requestId is used once.
Reserve(w, r) ==
  /\ job[w] = Idle /\ status[r] = "ABSENT" /\ Unfinished = {}
  /\ \E a \in 1 .. Gross : \E n \in Breakdown(GrossOf(Reserved), NetOf(Reserved), a) :
       /\ amount' = [amount EXCEPT ![r] = a]
       /\ net' = [net EXCEPT ![r] = n]
  /\ status' = [status EXCEPT ![r] = "PROCESSING"]
  /\ Take(w, r)
  /\ job' = [job EXCEPT ![w] = [step |-> "send", refund |-> r, verdict |-> "unknown"]]
  /\ UNCHANGED <<returned, booked, documents>>

\* Mutant of SendRefund: an answer without the id of a refund confirms it.
SendRefundByCode(w) ==
  /\ job[w].step = "send"
  /\ \E v \in {"captured", "unknown"} :
       job' = [job EXCEPT ![w] = [step |-> "record", refund |-> @.refund, verdict |-> v]]
  /\ UNCHANGED <<status, amount, net, lease, returned, booked, documents>>

\* CardCom may carry the refund out whatever it answers, but confirms only if it did.
SendRefund(w) ==
  /\ job[w].step = "send"
  /\ returned' \in {returned, returned \cup {job[w].refund}}
  /\ \E v \in {"captured", "unknown"} :
       /\ v = "captured" => job[w].refund \in returned'
       /\ job' = [job EXCEPT ![w] = [step |-> "record", refund |-> @.refund, verdict |-> v]]
  /\ UNCHANGED <<status, amount, net, lease, booked, documents>>

\* Mutant of AnswerCounts: whatever was decided in the meantime.
AnswerAlways(w) == TRUE

AnswerCounts(w) == status[job[w].refund] = "PROCESSING" /\ owner[job[w].refund] = w

RecordVerdict(w) ==
  /\ job[w].step = "record" /\ AnswerCounts(w)
  /\ LET r == job[w].refund IN
       /\ status' = [status EXCEPT ![r] = IF job[w].verdict = "captured" THEN "CAPTURED" ELSE "UNKNOWN"]
       /\ booked' = IF job[w].verdict = "captured" THEN booked \cup {r} ELSE booked
       /\ Free(r)
  /\ Goto(w, "claim")
  /\ UNCHANGED <<amount, net, returned, documents>>

IgnoreVerdict(w) ==
  /\ job[w].step = "record" /\ ~AnswerCounts(w)
  /\ Goto(w, "claim")
  /\ UNCHANGED <<status, amount, net, lease, returned, booked, documents>>

-----------------------------------------------------------------------------
(* complete() *)

\* Mutant of Claimable: a lease is good until it is given back.
ClaimableFree(r) == status[r] = "CAPTURED" /\ owner[r] = Nobody

Claimable(r) == status[r] = "CAPTURED" /\ r \notin live

ClaimCompletion(w) ==
  /\ job[w].step = "claim" /\ Claimable(job[w].refund)
  /\ Take(w, job[w].refund)
  /\ Goto(w, "credit")
  /\ UNCHANGED <<status, amount, net, returned, booked, documents>>

NothingToComplete(w) ==
  /\ job[w].step = "claim" /\ ~Claimable(job[w].refund)
  /\ Leave(w)
  /\ UNCHANGED <<status, amount, net, lease, returned, booked, documents>>

\* The document is found by its billingAttemptId, or created in one transaction.
CreateCredit(w) ==
  /\ job[w].step = "credit"
  /\ credit' = credit \cup {job[w].refund}
  /\ Goto(w, "link")
  /\ UNCHANGED <<status, amount, net, lease, returned, booked, linked, signed, mailed>>

LinkCredit(w) ==
  /\ job[w].step = "link" /\ owner[job[w].refund] = w
  /\ linked' = linked \cup {job[w].refund}
  /\ booked' = booked \cup {job[w].refund}
  /\ Goto(w, "sign")
  /\ UNCHANGED <<status, amount, net, lease, returned, credit, signed, mailed>>

FinalizePdfs(w) ==
  /\ job[w].step = "sign"
  /\ signed' = signed \cup {job[w].refund}
  /\ Goto(w, "check")
  /\ UNCHANGED <<status, amount, net, lease, returned, booked, credit, linked, mailed>>

CheckLease(w) ==
  /\ job[w].step = "check" /\ owner[job[w].refund] = w /\ job[w].refund \in live
  /\ Goto(w, "mail")
  /\ UNCHANGED <<status, amount, net, lease, returned, booked, documents>>

\* A document without a recipient is not sent, and that is an error here.
SendEmail(w) ==
  /\ job[w].step = "mail" /\ HasRecipient
  /\ mailed' = mailed \cup {job[w].refund}
  /\ Goto(w, "finalize")
  /\ UNCHANGED <<status, amount, net, lease, returned, booked, credit, linked, signed>>

Finalize(w) ==
  /\ job[w].step = "finalize" /\ owner[job[w].refund] = w
  /\ status' = [status EXCEPT ![job[w].refund] = "COMPLETED"]
  /\ Free(job[w].refund)
  /\ Leave(w)
  /\ UNCHANGED <<amount, net, returned, booked, documents>>

\* Any step may fail, or find the lease lost; only the owner's lease is given back.
CompletionFails(w) ==
  /\ job[w].step \in Completing
  /\ IF owner[job[w].refund] = w THEN Free(job[w].refund) ELSE UNCHANGED lease
  /\ Leave(w)
  /\ UNCHANGED <<status, amount, net, returned, booked, documents>>

-----------------------------------------------------------------------------
(* The operator, the recovery cron and the passing of time. *)

\* CONFIRM_REFUNDED, with the id of a refund CardCom shows; then complete().
ConfirmRefunded(w, r) ==
  /\ job[w] = Idle
  /\ status[r] = "UNKNOWN" /\ r \notin live /\ r \in returned
  /\ status' = [status EXCEPT ![r] = "CAPTURED"]
  /\ booked' = booked \cup {r}
  /\ Free(r)
  /\ job' = [job EXCEPT ![w] = [step |-> "claim", refund |-> r, verdict |-> "unknown"]]
  /\ UNCHANGED <<amount, net, returned, documents>>

\* Mutant of ConfirmNotRefunded: while the request may still be on its way.
ConfirmNotRefundedEarly(r) ==
  /\ status[r] = "UNKNOWN" /\ r \notin live /\ r \notin returned
  /\ status' = [status EXCEPT ![r] = "DECLINED"]
  /\ Free(r)
  /\ UNCHANGED <<amount, net, returned, booked, documents, job>>

\* CONFIRM_NOT_REFUNDED, of a request that is definitively not pending.
ConfirmNotRefunded(r) ==
  /\ status[r] = "UNKNOWN" /\ r \notin live /\ r \notin returned
  /\ \A w \in Workers : ~(job[w].step = "send" /\ job[w].refund = r)
  /\ status' = [status EXCEPT ![r] = "DECLINED"]
  /\ Free(r)
  /\ UNCHANGED <<amount, net, returned, booked, documents, job>>

\* The cron, or an operator's COMPLETE, of a refund whose retry is due.
Recover(w, r) ==
  /\ job[w] = Idle /\ status[r] = "CAPTURED"
  /\ job' = [job EXCEPT ![w] = [step |-> "claim", refund |-> r, verdict |-> "unknown"]]
  /\ UNCHANGED <<status, amount, net, lease, returned, booked, documents>>

ExpireProcessing(r) ==
  /\ status[r] = "PROCESSING" /\ r \notin live
  /\ status' = [status EXCEPT ![r] = "UNKNOWN"]
  /\ Free(r)
  /\ UNCHANGED <<amount, net, returned, booked, documents, job>>

\* Ten minutes pass since the lease was taken.
LeaseExpires(r) ==
  /\ r \in live
  /\ live' = live \ {r}
  /\ UNCHANGED <<status, amount, net, owner, returned, booked, documents, job>>

\* The process restarts, or a request is given up after a failed transaction.
Crash(w) ==
  /\ job[w] # Idle
  /\ Leave(w)
  /\ UNCHANGED <<status, amount, net, lease, returned, booked, documents>>

-----------------------------------------------------------------------------
Continue(w) ==
  \/ SendRefund(w) \/ RecordVerdict(w) \/ IgnoreVerdict(w)
  \/ ClaimCompletion(w) \/ NothingToComplete(w)
  \/ CreateCredit(w) \/ LinkCredit(w) \/ FinalizePdfs(w) \/ CheckLease(w)
  \/ SendEmail(w) \/ Finalize(w) \/ CompletionFails(w)

Next ==
  \/ \E r \in Refunds : ConfirmNotRefunded(r) \/ ExpireProcessing(r) \/ LeaseExpires(r)
  \/ \E w \in Workers :
       \/ Continue(w) \/ Crash(w)
       \/ \E r \in Refunds : Reserve(w, r) \/ ConfirmRefunded(w, r) \/ Recover(w, r)

Spec == Init /\ [][Next]_vars

\* A worker dies before a claim, or the owner of a completion dies, loses its lease
\* or fails at a step that could have succeeded.
Interrupted ==
  \E w \in Workers :
    LET r == job[w].refund IN
    \/ job[w].step = "claim" /\ Claimable(r) /\ Crash(w)
    \/ /\ job[w].step \in Completing /\ owner[r] = w
       /\ \/ Crash(w) \/ LeaseExpires(r)
          \/ CompletionFails(w) /\ (job[w].step = "mail" => HasRecipient)

\* Time passes, the cron runs every minute, workers go on, and the restarts, outages
\* and stalls that keep interrupting completions come to an end.
Fairness ==
  /\ \A w \in Workers : WF_vars(Continue(w))
  /\ \A r \in Refunds :
       /\ WF_vars(LeaseExpires(r)) /\ WF_vars(ExpireProcessing(r))
       /\ SF_vars(\E w \in Workers : Recover(w, r))
  /\ <>[][~Interrupted]_vars

FairSpec == Spec /\ Fairness

-----------------------------------------------------------------------------
\* Every variable keeps its type, and a worker has a refund exactly while it is busy.
TypeOK ==
  /\ status \in [Refunds -> Statuses]
  /\ amount \in [Refunds -> 0 .. Gross] /\ net \in [Refunds -> 0 .. Gross]
  /\ owner \in [Refunds -> Workers \cup {Nobody}]
  /\ live \subseteq Refunds /\ returned \subseteq Refunds /\ booked \subseteq Refunds
  /\ credit \subseteq Refunds /\ linked \subseteq Refunds /\ signed \subseteq Refunds
  /\ mailed \subseteq Refunds
  /\ job \in [Workers -> Jobs]
  /\ \A w \in Workers : job[w] # Idle => job[w].refund \in Refunds

\* CardCom never gives back more than it took, whatever crashed, stayed unanswered or
\* was decided by hand: AllowMultipleRefunds leaves the balance to these rows.
RefundsFitThePayment == GrossOf(returned) <= Gross

\* However the payment is refunded in parts, declined or not, the parts before VAT add
\* up to the rounded share: credit documents of a whole refund cancel its VAT exactly.
VatIsExact == NetOf(Reserved) = Rounded(GrossOf(Reserved))

\* What is left of a payment can always be refunded, in any amount up to all of it.
RemainderIsRefundable ==
  Unfinished = {} =>
    \A a \in 1 .. Gross - GrossOf(Reserved) :
      Breakdown(GrossOf(Reserved), NetOf(Reserved), a) # {}

\* A credit document, which corrects VAT that was paid, exists only for money that went
\* back, and a finished refund has it linked, signed and mailed.
CreditForRealMoney ==
  /\ credit \cup booked \subseteq {r \in returned : status[r] \in {"CAPTURED", "COMPLETED"}}
  /\ \A r \in Refunds : status[r] = "COMPLETED" => r \in booked \cap credit \cap linked \cap signed \cap mailed

\* A decision is final: no late answer of CardCom, cron or second operator takes back a
\* confirmation, releases a refund that was made or revives one that was not.
DecisionsAreFinal ==
  [][\A r \in Refunds :
       /\ status[r] \in {"COMPLETED", "DECLINED"} => status'[r] = status[r]
       /\ status[r] = "CAPTURED" => status'[r] \in {"CAPTURED", "COMPLETED"}
       /\ status[r] = "UNKNOWN" => status'[r] # "PROCESSING"]_vars

\* The rows implement the account of the payment: one refund at a time, its money whole
\* and once, withdrawn only if nothing went back, the parts before VAT by the sum.
Account == INSTANCE RefundAccount WITH
  settled <- GrossOf(Reserved \ Unfinished), pending <- GrossOf(Unfinished),
  back <- GrossOf(returned), beforeVat <- NetOf(Reserved)
AccountSpec == Account!Spec

\* Money that went back gets its credit document to the customer ("a minute cron
\* retries document/email completion", docs/features/admin-refunds.md), whoever crashed.
RefundIsDocumented == \A r \in Refunds : status[r] = "CAPTURED" ~> status[r] = "COMPLETED"
=============================================================================
