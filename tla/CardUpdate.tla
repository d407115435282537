------------------------------ MODULE CardUpdate ------------------------------
(***************************************************************************)
(* Replacing the saved card.  The owner opens a CardCom page, enters a     *)
(* card, and polls for the outcome; CardCom's webhook and, when it is      *)
(* late, the poll itself fetch the verified result and store the token.    *)
(* A unique row of the webhook log decides which of them may; its key has  *)
(* the transaction of the result, or else the ReturnValue of the page.     *)
(*                                                                         *)
(* Card data, token encryption, and the completion of missing card digits  *)
(* are left out: a stored card is the page it was entered on.  Purchases   *)
(* write the same saved card.  Of CardCom it is assumed that a page has    *)
(* one final result, and that this result has a transaction when the card  *)
(* was accepted; before it, a page has a result without a transaction.     *)
(***************************************************************************)
EXTENDS Naturals

CONSTANTS
  Updates,    \* change-payment-method pages
  Purchases,  \* hosted payments, whose card is kept for renewals
  Workers,    \* request handlers of the backend
  NoCard,     \* no card is linked to the subscription
  FirstCard,  \* the card it had before
  NoPage

ASSUME NamesAssumption ==
  /\ Updates \cap Purchases = {}
  /\ {NoCard, FirstCard, NoPage} \cap (Updates \cup Purchases) = {}
  /\ NoCard # FirstCard

VARIABLES
  page,       \* the CardCom page: unopened, open, or its final result
  asked,      \* updates whose PAYMENT_METHOD_UPDATE_REQUESTED event was kept
  waited,     \* updates older than CHANGE_PM_RECONCILE_AFTER_MS
  webhookLog, \* of each update and key, the row that admits one handler
  outcome,    \* the latest PAYMENT_METHOD_UPDATED or _FAILED event of an update
  activated,  \* purchases whose subscription was activated
  card,       \* the linked payment method, by the page of its token
  stored,     \* every page whose card was ever stored
  fresh,      \* pages not newer than the last write of the payment method
  recent,     \* the payment method was written within the last second
  job,        \* what each worker is doing
  shown       \* the answer the owner's dialog last had

vars == <<page, asked, waited, webhookLog, outcome, activated, card, stored,
          fresh, recent, job, shown>>
kept == <<card, stored, fresh, recent>>

Pages == Updates \cup Purchases
LogStates == {"none", "RECEIVED", "PROCESSED", "FAILED"}
Keys == {"tx", "rv"}

\* The card was refused by a validation transaction, or the page closed without one.
Finished == {"accepted", "refused", "closed"}
Results == Finished \cup {"pending", "none"}
Outcomes == {"none", "PAYMENT_METHOD_UPDATED", "PAYMENT_METHOD_UPDATE_FAILED"}
Answers == {"PENDING", "SUCCESS", "FAILED"}
Steps == {"idle", "lookup", "pull", "claim", "store", "mark", "tell", "again"}

Idle == [step |-> "idle", page |-> NoPage, by |-> "poll", result |-> "none", verdict |-> "none"]
Jobs == [step : Steps, page : Updates \cup {NoPage}, by : {"webhook", "poll"},
         result : Results, verdict : Outcomes]

Init ==
  /\ page = [p \in Pages |-> "unopened"]
  /\ asked = {} /\ waited = {} /\ activated = {} /\ stored = {} /\ fresh = {}
  /\ webhookLog = [u \in Updates |-> [k \in Keys |-> "none"]]
  /\ outcome = [u \in Updates |-> "none"]
  /\ card \in {NoCard, FirstCard}
  /\ recent = FALSE
  /\ job = [w \in Workers |-> Idle]
  /\ shown = [u \in Updates |-> "PENDING"]

Goto(w, s) == job' = [job EXCEPT ![w].step = s]
Decide(w, v) ==
  job' = [job EXCEPT ![w] = [step |-> "mark", page |-> @.page, by |-> @.by,
                             result |-> @.result, verdict |-> v]]
Leave(w) == job' = [job EXCEPT ![w] = Idle]

\* What GetLpResult answers for a page that exists.
Result(u) == IF page[u] \in Finished THEN page[u] ELSE "pending"

\* buildIdempotencyKey: by the transaction if the result has one, else by ReturnValue.
KeyOf(r) == IF r \in {"accepted", "refused"} THEN "tx" ELSE "rv"

\* The log row of worker w's result, and what the table becomes when it is written.
Row(w) == webhookLog[job[w].page][KeyOf(job[w].result)]
WriteRow(w, s) == [webhookLog EXCEPT ![job[w].page][KeyOf(job[w].result)] = s]

-----------------------------------------------------------------------------
(* The owner and CardCom. *)

\* The page exists at CardCom; the audit row that makes the update pollable is best
\* effort.  A card written in the last second counts as written after the request.
ChangePaymentMethod(u) ==
  /\ page[u] = "unopened"
  /\ page' = [page EXCEPT ![u] = "open"]
  /\ asked' \in {asked, asked \cup {u}}
  /\ fresh' = IF recent THEN fresh \cup {u} ELSE fresh
  /\ UNCHANGED <<waited, webhookLog, outcome, activated, card, stored, recent, job, shown>>

OpenCheckout(p) ==
  /\ page[p] = "unopened"
  /\ page' = [page EXCEPT ![p] = "open"]
  /\ UNCHANGED <<asked, waited, webhookLog, outcome, activated, kept, job, shown>>

CustomerFinishes(p) ==
  /\ page[p] = "open"
  /\ \E r \in Finished : page' = [page EXCEPT ![p] = r]
  /\ UNCHANGED <<asked, waited, webhookLog, outcome, activated, kept, job, shown>>

TwentySecondsPass(u) ==
  /\ page[u] # "unopened" /\ u \notin waited
  /\ waited' = waited \cup {u}
  /\ UNCHANGED <<page, asked, webhookLog, outcome, activated, kept, job, shown>>

SecondPasses ==
  /\ recent
  /\ recent' = FALSE
  /\ UNCHANGED <<page, asked, waited, webhookLog, outcome, activated, card, stored,
                 fresh, job, shown>>

-----------------------------------------------------------------------------
(* The saved card. *)

\* The linked payment method becomes the card of page p, and its updatedAt is now.
StoreCard(p) ==
  /\ card' = p
  /\ stored' = stored \cup {p}
  /\ fresh' = {q \in Pages : page[q] # "unopened"}
  /\ recent' = TRUE

\* The first webhook of a purchase activates the subscription and keeps its card.
ActivateByWebhook(p) ==
  /\ page[p] = "accepted" /\ p \notin activated
  /\ activated' = activated \cup {p}
  /\ StoreCard(p)
  /\ UNCHANGED <<page, asked, waited, webhookLog, outcome, job, shown>>

\* Without that webhook a worker activates from the captured attempt, card to follow.
RecoverActivation(p) ==
  /\ page[p] = "accepted" /\ p \notin activated
  /\ activated' = activated \cup {p}
  /\ UNCHANGED <<page, asked, waited, webhookLog, outcome, kept, job, shown>>

\* The recovered token is discarded when the payment method is newer than the
\* purchase.  Every later completion of the purchase may come here again.
StoreRecoveredCard(p) ==
  /\ p \in activated
  /\ card = NoCard \/ p \notin fresh
  /\ StoreCard(p)
  /\ UNCHANGED <<page, asked, waited, webhookLog, outcome, activated, job, shown>>

-----------------------------------------------------------------------------
(* CardCom's webhook. *)

\* The first delivery writes the log row; any other finds it there and is ignored.
HandleWebhook(w, u) ==
  /\ job[w] = Idle
  /\ page[u] \in Finished /\ webhookLog[u][KeyOf(page[u])] = "none"
  /\ webhookLog' = [webhookLog EXCEPT ![u][KeyOf(page[u])] = "RECEIVED"]
  /\ job' = [job EXCEPT ![w] = [Idle EXCEPT !.step = "lookup", !.page = u, !.by = "webhook",
                                            !.result = page[u]]]
  /\ UNCHANGED <<page, asked, waited, outcome, activated, kept, shown>>

\* The lookup confirms the result of the payload, which is final.
GetLpResult(w) ==
  /\ job[w].step = "lookup"
  /\ Goto(w, "store")
  /\ UNCHANGED <<page, asked, waited, webhookLog, outcome, activated, kept, shown>>

\* The lookup fails: the row is marked FAILED, and stays.
GetLpResultFails(w) ==
  /\ job[w].step = "lookup"
  /\ webhookLog' \in {webhookLog, WriteRow(w, "FAILED")}
  /\ Leave(w)
  /\ UNCHANGED <<page, asked, waited, outcome, activated, kept, shown>>

-----------------------------------------------------------------------------
(* applyVerifiedChangePaymentMethod, for the webhook and the poll. *)

\* A token was issued: it replaces the saved card in one transaction.
ReplaceCard(w) ==
  /\ job[w].step = "store" /\ job[w].result = "accepted"
  /\ StoreCard(job[w].page)
  /\ Decide(w, "PAYMENT_METHOD_UPDATED")
  /\ UNCHANGED <<page, asked, waited, webhookLog, outcome, activated, shown>>

\* No token, as in a pending result, or the transaction is rolled back: the update is
\* put on record as failed.
ReplaceFails(w) ==
  /\ job[w].step = "store"
  /\ Decide(w, "PAYMENT_METHOD_UPDATE_FAILED")
  /\ UNCHANGED <<page, asked, waited, webhookLog, outcome, activated, kept, shown>>

MarkWebhook(w) ==
  /\ job[w].step = "mark"
  /\ LET s == IF job[w].verdict = "PAYMENT_METHOD_UPDATED" \/ job[w].result # "accepted"
              THEN "PROCESSED" ELSE "FAILED"
     IN  webhookLog' \in {webhookLog, WriteRow(w, s)}
  /\ Goto(w, "tell")
  /\ UNCHANGED <<page, asked, waited, outcome, activated, kept, shown>>

\* Mutant of LogOutcome: the page's result is logged, whatever became of the card.
LogPageResult(w) ==
  /\ job[w].step = "tell"
  /\ outcome' \in {outcome, [outcome EXCEPT ![job[w].page] =
       IF job[w].result = "accepted" THEN "PAYMENT_METHOD_UPDATED" ELSE job[w].verdict]}
  /\ IF job[w].by = "poll" THEN Goto(w, "again") ELSE Leave(w)
  /\ UNCHANGED <<page, asked, waited, webhookLog, activated, kept, shown>>

\* The outcome event is best effort as well.  A poll then reads the outcome back.
LogOutcome(w) ==
  /\ job[w].step = "tell"
  /\ outcome' \in {outcome, [outcome EXCEPT ![job[w].page] = job[w].verdict]}
  /\ IF job[w].by = "poll" THEN Goto(w, "again") ELSE Leave(w)
  /\ UNCHANGED <<page, asked, waited, webhookLog, activated, kept, shown>>

-----------------------------------------------------------------------------
(* The owner's poll. *)

\* Mutant of OutcomeOf: the event alone decides.
OutcomeByEvent(u) ==
  CASE outcome[u] = "PAYMENT_METHOD_UPDATED" -> "SUCCESS"
    [] outcome[u] = "PAYMENT_METHOD_UPDATE_FAILED" -> "FAILED"
    [] OTHER -> "PENDING"

\* The latest event decides; without one, a payment method written since the request does.
OutcomeOf(u) ==
  CASE outcome[u] = "PAYMENT_METHOD_UPDATED" -> "SUCCESS"
    [] outcome[u] = "PAYMENT_METHOD_UPDATE_FAILED" -> "FAILED"
    [] OTHER -> IF card # NoCard /\ u \in fresh THEN "SUCCESS" ELSE "PENDING"

\* The dialog polls until it is answered, one request at a time.
Waiting(u) ==
  /\ u \in asked /\ shown[u] = "PENDING"
  /\ \A w \in Workers : ~(job[w].page = u /\ job[w].by = "poll")

\* An answer at once, unless the update is undecided and old enough to be pulled.
PollAnswers(w, u) ==
  /\ job[w] = Idle /\ Waiting(u)
  /\ shown' = [shown EXCEPT ![u] = OutcomeOf(u)]
  /\ OutcomeOf(u) = "PENDING" => u \notin waited
  /\ UNCHANGED <<page, asked, waited, webhookLog, outcome, activated, kept, job>>

PollReconciles(w, u) ==
  /\ job[w] = Idle /\ Waiting(u)
  /\ OutcomeOf(u) = "PENDING" /\ u \in waited
  /\ job' = [job EXCEPT ![w] = [Idle EXCEPT !.step = "pull", !.page = u]]
  /\ UNCHANGED <<page, asked, waited, webhookLog, outcome, activated, kept, shown>>

Pulled(w, r) == job' = [job EXCEPT ![w].step = "claim", ![w].result = r]

\* Mutant of PullResult: a validated card that was charged nothing is inconclusive.
PullChargedResult(w) ==
  /\ job[w].step = "pull" /\ Result(job[w].page) # "accepted"
  /\ Pulled(w, Result(job[w].page))
  /\ UNCHANGED <<page, asked, waited, webhookLog, outcome, activated, kept, shown>>

\* A result that carries the page's ReturnValue is taken, be the page finished or not.
PullResult(w) ==
  /\ job[w].step = "pull"
  /\ Pulled(w, Result(job[w].page))
  /\ UNCHANGED <<page, asked, waited, webhookLog, outcome, activated, kept, shown>>

\* UNVERIFIABLE, for want of an answer or of the ReturnValue: the owner is answered
\* with the first pass, which was PENDING.
PullUnverifiable(w) ==
  /\ job[w].step = "pull"
  /\ Leave(w)
  /\ UNCHANGED <<page, asked, waited, webhookLog, outcome, activated, kept, shown>>

\* Mutant of ClaimWebhook: the poll's row has a key of its own.
ClaimOwnKey(w) ==
  /\ job[w].step = "claim"
  /\ webhookLog' = WriteRow(w, "RECEIVED")
  /\ Goto(w, "store")
  /\ UNCHANGED <<page, asked, waited, outcome, activated, kept, shown>>

\* The row that a webhook with this result would have written admits the poll.
ClaimWebhook(w) ==
  /\ job[w].step = "claim" /\ Row(w) = "none"
  /\ webhookLog' = WriteRow(w, "RECEIVED")
  /\ Goto(w, "store")
  /\ UNCHANGED <<page, asked, waited, outcome, activated, kept, shown>>

\* The row is there already, whatever became of the handler that wrote it.
AlreadyProcessed(w) ==
  /\ job[w].step = "claim" /\ Row(w) # "none"
  /\ Goto(w, "again")
  /\ UNCHANGED <<page, asked, waited, webhookLog, outcome, activated, kept, shown>>

PollAgain(w) ==
  /\ job[w].step = "again"
  /\ shown' = [shown EXCEPT ![job[w].page] = OutcomeOf(job[w].page)]
  /\ Leave(w)
  /\ UNCHANGED <<page, asked, waited, webhookLog, outcome, activated, kept>>

\* The process restarts: what a worker knew is gone, what it wrote stays.
Crash(w) ==
  /\ job[w] # Idle
  /\ Leave(w)
  /\ UNCHANGED <<page, asked, waited, webhookLog, outcome, activated, kept, shown>>

-----------------------------------------------------------------------------
World ==
  \/ \E u \in Updates : ChangePaymentMethod(u) \/ TwentySecondsPass(u)
  \/ \E p \in Purchases : OpenCheckout(p)
  \/ \E p \in Pages : CustomerFinishes(p)
  \/ SecondPasses

Purchase(p) == ActivateByWebhook(p) \/ RecoverActivation(p) \/ StoreRecoveredCard(p)

Begin(w, u) == HandleWebhook(w, u) \/ PollAnswers(w, u) \/ PollReconciles(w, u)

Continue(w) ==
  \/ GetLpResult(w) \/ GetLpResultFails(w)
  \/ ReplaceCard(w) \/ ReplaceFails(w) \/ MarkWebhook(w) \/ LogOutcome(w)
  \/ PullResult(w) \/ PullUnverifiable(w) \/ ClaimWebhook(w) \/ AlreadyProcessed(w)
  \/ PollAgain(w)

Next ==
  \/ World
  \/ \E p \in Purchases : Purchase(p)
  \/ \E w \in Workers : Continue(w) \/ Crash(w) \/ \E u \in Updates : Begin(w, u)

Spec == Init /\ [][Next]_vars

(* Fairness: the dialog stays open and keeps polling, a worker that is not    *)
(* interrupted goes on, and a call asked for again and again succeeds once.   *)
Fairness ==
  /\ \A w \in Workers : WF_vars(Continue(w))
  /\ \A u \in Updates :
       /\ WF_vars(TwentySecondsPass(u))
       /\ SF_vars(\E w \in Workers : PollAnswers(w, u) \/ PollReconciles(w, u))
       /\ SF_vars(\E w \in Workers : job[w].page = u /\ PullResult(w))
       /\ SF_vars(\E w \in Workers : job[w].page = u /\ (ClaimWebhook(w) \/ AlreadyProcessed(w)))

FairSpec == Spec /\ Fairness

-----------------------------------------------------------------------------
TypeOK ==
  /\ page \in [Pages -> {"unopened", "open"} \cup Finished]
  /\ asked \subseteq Updates /\ waited \subseteq Updates
  /\ webhookLog \in [Updates -> [Keys -> LogStates]]
  /\ outcome \in [Updates -> Outcomes]
  /\ activated \subseteq Purchases
  /\ card \in Pages \cup {NoCard, FirstCard}
  /\ stored \subseteq Pages /\ fresh \subseteq Pages
  /\ recent \in BOOLEAN
  /\ job \in [Workers -> Jobs]
  /\ shown \in [Updates -> Answers]

\* A card that was replaced never comes back by itself: neither a webhook delivered
\* again, nor a poll racing it, nor the repeated recovery of a purchase stores twice.
CardNeverReturns == [][card' # card => card' \notin stored]_vars

Failed(u) == shown[u] = "FAILED" \/ outcome[u] = "PAYMENT_METHOD_UPDATE_FAILED"

\* A result without a transaction was applied: that of a closed page, or of a live one.
JudgedEarly(u) == webhookLog[u]["rv"] # "none"

\* "UNVERIFIABLE = ... result not yet conclusive.  Stay PENDING so the next poll retries
\* rather than failing a live attempt": what is told or recorded as failed is not stored.
\* (The code breaks this: a poll applies the pending result of a live page.)
FailedUpdateIsNotStored == \A u \in Updates : Failed(u) => u \notin stored

\* Only that can make a failure untrue.  Without it, an owner who was told that the
\* update failed, or whose update has a failure on record, is not charged on its card,
\* whichever of webhook and poll wins the log row, fails, or dies after it.
FailureNeedsLiveResult ==
  \A u \in Updates : Failed(u) /\ u \in stored => JudgedEarly(u)

\* Webhooks, polls, recoveries and the record of each update implement the saved card:
\* the record never says that a card was saved which was not, nor that one was not
\* which was, but for the updates judged early (applyVerifiedChangePaymentMethod).
Saved == INSTANCE SavedCard WITH
  Before <- {NoCard, FirstCard},
  used <- stored,
  confirmed <- {u \in Updates : outcome[u] = "PAYMENT_METHOD_UPDATED"},
  refused <- {u \in Updates : outcome[u] = "PAYMENT_METHOD_UPDATE_FAILED"},
  early <- {u \in Updates : JudgedEarly(u)}

SavedCardSpec == Saved!Spec

\* A stored card is reported as success to the owner who keeps the dialog open, even
\* when the best-effort outcome event was lost or the worker died before writing it;
\* only one whose page was judged while it was live may be left with a failure.
StoredIsShown ==
  \A u \in Updates : u \in stored \cap asked ~>
    shown[u] = "SUCCESS" \/ (shown[u] = "FAILED" /\ JudgedEarly(u))

\* A handler took the finished update and left it without a card and without an outcome.
Abandoned(u) ==
  /\ webhookLog[u]["tx"] # "none" /\ u \notin stored /\ outcome[u] = "none"
  /\ \A w \in Workers : job[w].page = u =>
       job[w].step \in {"pull", "claim", "again"} \/ KeyOf(job[w].result) = "rv"

\* An accepted card is stored or its failure recorded although no webhook ever comes:
\* the poll does it.  Only an update whose log row was written, by a handler that then
\* failed to look the result up or died, can be left without an outcome.
PollRecovers ==
  \A u \in Updates :
    u \in asked /\ page[u] = "accepted" ~>
      \/ u \in stored \/ outcome[u] # "none" \/ shown[u] # "PENDING" \/ Abandoned(u)
=============================================================================
