--------------------------- MODULE CardUpdate_proofs ---------------------------
(***************************************************************************)
(* Whatever the number of pages and handlers, the saved card is replaced   *)
(* at most once by each page, and never by an update that failed, unless   *)
(* that one was judged by a result without a transaction.                  *)
(***************************************************************************)
EXTENDS CardUpdate, TLAPS

USE NamesAssumption DEF vars, kept, Pages

-----------------------------------------------------------------------------
(* The inductive invariant. *)

\* A handler past the gate: it wrote the log row with this key of the update it works on.
Admitted(w, u, k) ==
  /\ job[w].page = u /\ KeyOf(job[w].result) = k
  /\ job[w].step \in {"lookup", "store", "mark", "tell"}

JobsFit == \A w \in Workers :
  /\ job[w].step = "idle" <=> job[w] = Idle
  /\ job[w].step # "idle" => job[w].page \in Updates

\* Each log row admits one handler.
GateFits == \A u \in Updates, k \in Keys :
  /\ \A w \in Workers : Admitted(w, u, k) => webhookLog[u][k] # "none"
  /\ \A v, w \in Workers : Admitted(v, u, k) /\ Admitted(w, u, k) => v = w

\* Without the row of the transaction nothing is stored, and its handler is the first to
\* store anything; a failure that is untrue, or may become so, was judged early.
OutcomesFit ==
  /\ \A u \in Updates : outcome[u] = "PAYMENT_METHOD_UPDATED" => u \in stored
  /\ FailureNeedsLiveResult
  /\ \A u \in Updates : webhookLog[u]["tx"] = "none" =>
       u \notin stored /\ (Failed(u) => JudgedEarly(u))
  /\ \A w \in Workers, u \in Updates : Admitted(w, u, "tx") =>
       /\ outcome[u] # "PAYMENT_METHOD_UPDATED"
       /\ Failed(u) => JudgedEarly(u)
       /\ job[w].step \in {"lookup", "store"} => u \notin stored
       /\ job[w].step \in {"mark", "tell"} =>
            \/ job[w].verdict = "PAYMENT_METHOD_UPDATED" /\ u \in stored
            \/ job[w].verdict = "PAYMENT_METHOD_UPDATE_FAILED" /\ u \notin stored
  /\ \A w \in Workers, u \in Updates :
       Admitted(w, u, "rv") /\ job[w].step \in {"mark", "tell"} =>
         job[w].verdict = "PAYMENT_METHOD_UPDATE_FAILED"

\* Stored cards belong to opened pages, and a stored purchase knows it is not the newest.
CardsFit ==
  /\ fresh \subseteq {p \in Pages : page[p] # "unopened"}
  /\ stored \subseteq fresh
  /\ card = NoCard => stored = {}
  /\ stored \cap Purchases \subseteq activated
  /\ \A p \in activated : page[p] # "unopened"
  /\ \A w \in Workers : job[w].result = "accepted" => page[job[w].page] = "accepted"

IInv == TypeOK /\ JobsFit /\ GateFits /\ OutcomesFit /\ CardsFit

-----------------------------------------------------------------------------
(* The steps. *)

LEMMA InitIInv == Init => IInv
<1> SUFFICES ASSUME Init PROVE IInv OBVIOUS
<1> USE DEF Init, Idle
<1>1. TypeOK BY DEF TypeOK, Jobs, Steps, Outcomes, Answers, LogStates, Results, Finished
<1>2. JobsFit BY DEF JobsFit
<1>3. GateFits BY DEF GateFits, Admitted
<1>4. OutcomesFit BY DEF OutcomesFit, Admitted, FailureNeedsLiveResult, Failed
<1>5. CardsFit BY DEF CardsFit
<1> QED BY <1>1, <1>2, <1>3, <1>4, <1>5 DEF IInv

\* What the gates and the outcomes depend on.
record == <<webhookLog, outcome, stored, shown>>

\* A step that changes none of it, and admits no handler, disturbs neither.
LEMMA QuietStep ==
  ASSUME IInv, UNCHANGED record,
         \A v \in Workers, u \in Updates, k \in Keys : Admitted(v, u, k)' =>
           /\ Admitted(v, u, k)
           /\ job'[v].verdict = job[v].verdict
           /\ \/ job'[v].step = job[v].step
              \/ job[v].step = "lookup" /\ job'[v].step = "store"
              \/ job[v].step = "mark" /\ job'[v].step = "tell"
  PROVE  GateFits' /\ OutcomesFit'
<1>1. GateFits' BY DEF IInv, GateFits, record
<1>2. OutcomesFit'
  BY DEF IInv, OutcomesFit, record, FailureNeedsLiveResult, Failed, JudgedEarly, Keys
<1> QED BY <1>1, <1>2

\* The world and the purchases leave the handlers alone.
LEMMA WorldKeeps ==
  ASSUME IInv, World \/ (\E p \in Purchases : Purchase(p)) \/ UNCHANGED vars
  PROVE  IInv'
<1>1. job' = job
  BY DEF World, ChangePaymentMethod, TwentySecondsPass, OpenCheckout, CustomerFinishes, SecondPasses,
     Purchase, ActivateByWebhook, RecoverActivation, StoreRecoveredCard
<1>2. UNCHANGED <<webhookLog, outcome, shown>>
  BY DEF World, ChangePaymentMethod, TwentySecondsPass, OpenCheckout, CustomerFinishes, SecondPasses,
     Purchase, ActivateByWebhook, RecoverActivation, StoreRecoveredCard
<1>3. \A u \in Updates : u \in stored' <=> u \in stored
  BY DEF World, ChangePaymentMethod, TwentySecondsPass, OpenCheckout, CustomerFinishes, SecondPasses,
     Purchase, ActivateByWebhook, RecoverActivation, StoreRecoveredCard, StoreCard
<1>4. JobsFit' BY <1>1 DEF IInv, JobsFit
<1>5. GateFits' BY <1>1, <1>2 DEF IInv, GateFits, Admitted
<1>6. OutcomesFit'
  BY <1>1, <1>2, <1>3 DEF IInv, OutcomesFit, Admitted, FailureNeedsLiveResult, Failed, JudgedEarly
<1>7. TypeOK' /\ CardsFit'
  <2> USE <1>1, <1>2 DEF IInv, TypeOK, CardsFit, Finished
  <2>1. CASE \E u \in Updates : ChangePaymentMethod(u)
    BY <2>1 DEF ChangePaymentMethod, JobsFit, Jobs
  <2>2. CASE \E u \in Updates : TwentySecondsPass(u) BY <2>2 DEF TwentySecondsPass
  <2>3. CASE \E p \in Purchases : OpenCheckout(p) BY <2>3 DEF OpenCheckout
  <2>4. CASE \E p \in Pages : CustomerFinishes(p) BY <2>4 DEF CustomerFinishes
  <2>5. CASE SecondPasses BY <2>5 DEF SecondPasses
  <2>6. CASE \E p \in Purchases : ActivateByWebhook(p) BY <2>6 DEF ActivateByWebhook, StoreCard
  <2>7. CASE \E p \in Purchases : RecoverActivation(p) BY <2>7 DEF RecoverActivation
  <2>8. CASE \E p \in Purchases : StoreRecoveredCard(p) BY <2>8 DEF StoreRecoveredCard, StoreCard
  <2>9. CASE UNCHANGED vars BY <2>9
  <2> QED BY <2>1, <2>2, <2>3, <2>4, <2>5, <2>6, <2>7, <2>8, <2>9 DEF World, Purchase
<1> QED BY <1>4, <1>5, <1>6, <1>7 DEF IInv

\* What GetLpResult answers; an outcome that is told as failed is on record.
LEMMA ResultFits ==
  ASSUME TypeOK, NEW u \in Updates
  PROVE  /\ Result(u) \in Results
         /\ Result(u) = "accepted" => page[u] = "accepted"
         /\ Result(u) \in Finished <=> page[u] \in Finished
BY DEF TypeOK, Result, Results, Finished

LEMMA AnswerFits ==
  ASSUME NEW u \in Updates
  PROVE  /\ OutcomeOf(u) \in Answers
         /\ OutcomeOf(u) = "FAILED" => outcome[u] = "PAYMENT_METHOD_UPDATE_FAILED"
BY DEF OutcomeOf, Answers

\* An answer tells no failure that is not on record.
LEMMA AnswerKeeps ==
  ASSUME IInv, NEW u \in Updates, shown' = [shown EXCEPT ![u] = OutcomeOf(u)],
         UNCHANGED <<webhookLog, outcome, stored>>,
         \A v \in Workers, x \in Updates, k \in Keys : Admitted(v, x, k)' =>
           Admitted(v, x, k) /\ job'[v] = job[v]
  PROVE  GateFits' /\ OutcomesFit'
<1>1. GateFits' BY DEF IInv, GateFits
<1>2. \A x \in Updates : Failed(x)' => Failed(x)
  BY AnswerFits DEF IInv, TypeOK, Failed
<1>3. OutcomesFit'
  BY <1>2 DEF IInv, OutcomesFit, FailureNeedsLiveResult, JudgedEarly, Keys
<1> QED BY <1>1, <1>3

\* A row that was not there admits its writer.
LEMMA GateAdmits ==
  ASSUME IInv, NEW w \in Workers, NEW u \in Updates, NEW k \in Keys,
         webhookLog[u][k] = "none", webhookLog' = [webhookLog EXCEPT ![u][k] = "RECEIVED"],
         UNCHANGED <<outcome, stored, shown>>,
         \A v \in Workers : v # w => job'[v] = job[v],
         job'[w].page = u, KeyOf(job'[w].result) = k, job'[w].step \in {"lookup", "store"}
  PROVE  GateFits' /\ OutcomesFit'
<1>1. \A x \in Updates, l \in Keys : webhookLog'[x][l] =
        IF x = u /\ l = k THEN "RECEIVED" ELSE webhookLog[x][l]
  BY DEF IInv, TypeOK
<1>2. \A v \in Workers, x \in Updates, l \in Keys : Admitted(v, x, l)' =>
        (v = w /\ x = u /\ l = k) \/ (v # w /\ Admitted(v, x, l) /\ ~(x = u /\ l = k))
  BY DEF IInv, GateFits, Admitted
<1>3. GateFits' BY <1>1, <1>2 DEF IInv, GateFits, LogStates
<1>4. \A x \in Updates : (Failed(x)' <=> Failed(x)) /\ (JudgedEarly(x) => JudgedEarly(x)')
  BY <1>1 DEF Failed, JudgedEarly, Keys
<1>5. \A x \in Updates : webhookLog'[x]["tx"] = "none" => webhookLog[x]["tx"] = "none"
  BY <1>1 DEF Keys
<1>6. \A x \in Updates : Admitted(w, x, "tx")' => x = u /\ webhookLog[u]["tx"] = "none"
  BY <1>2 DEF Keys, Admitted, IInv, GateFits
<1>7. OutcomesFit'
  BY <1>2, <1>4, <1>5, <1>6 DEF IInv, OutcomesFit, FailureNeedsLiveResult, Keys
<1> QED BY <1>3, <1>7

-----------------------------------------------------------------------------
\* A handler's steps.
LEMMA JobIsSet ==
  ASSUME TypeOK, NEW w \in Workers, NEW r \in Jobs, job' = [job EXCEPT ![w] = r]
  PROVE  /\ job' \in [Workers -> Jobs]
         /\ \A v \in Workers : job'[v] = IF v = w THEN r ELSE job[v]
BY DEF TypeOK

LEMMA IdleIsJob == Idle \in Jobs
BY DEF Idle, Jobs, Steps, Outcomes, Results

LEMMA BeginKeeps ==
  ASSUME IInv, NEW w \in Workers, NEW u \in Updates, Begin(w, u)
  PROVE  IInv'
<1>1. CASE HandleWebhook(w, u)
  <2> DEFINE r == [Idle EXCEPT !.step = "lookup", !.page = u, !.by = "webhook", !.result = page[u]]
  <2>1. job' = [job EXCEPT ![w] = r] /\ page[u] \in Finished BY <1>1 DEF HandleWebhook
  <2>2. r.step = "lookup" /\ r.page = u /\ r.result = page[u] BY DEF Idle
  <2>3. r \in Jobs BY <2>1 DEF Idle, Jobs, Steps, Outcomes, Results
  <2>4. r # Idle BY <2>2 DEF Idle
  <2> HIDE DEF r
  <2>5. job' \in [Workers -> Jobs] /\ \A v \in Workers : job'[v] = IF v = w THEN r ELSE job[v]
    BY <2>1, <2>3, JobIsSet DEF IInv
  <2>6. TypeOK' BY <1>1, <2>5 DEF HandleWebhook, IInv, TypeOK, LogStates
  <2>7. JobsFit' BY <2>2, <2>4, <2>5 DEF IInv, JobsFit
  <2>8. GateFits' /\ OutcomesFit'
    <3>1. PICK k \in Keys : KeyOf(page[u]) = k BY DEF KeyOf, Keys
    <3>2. /\ webhookLog[u][k] = "none" /\ webhookLog' = [webhookLog EXCEPT ![u][k] = "RECEIVED"]
          /\ UNCHANGED <<outcome, stored, shown>>
      BY <1>1, <3>1 DEF HandleWebhook
    <3>3. /\ \A v \in Workers : v # w => job'[v] = job[v]
          /\ job'[w].page = u /\ KeyOf(job'[w].result) = k /\ job'[w].step \in {"lookup", "store"}
      BY <2>2, <2>5, <3>1
    <3> QED BY <3>2, <3>3, GateAdmits
  <2>9. CardsFit' BY <1>1, <2>2, <2>5 DEF HandleWebhook, IInv, CardsFit
  <2> QED BY <2>6, <2>7, <2>8, <2>9 DEF IInv
<1>2. CASE PollAnswers(w, u)
  <2>1. TypeOK' BY <1>2, AnswerFits DEF PollAnswers, IInv, TypeOK
  <2>2. JobsFit' /\ CardsFit' BY <1>2 DEF PollAnswers, IInv, JobsFit, CardsFit
  <2>3. GateFits' /\ OutcomesFit' BY <1>2, AnswerKeeps DEF PollAnswers, Admitted
  <2> QED BY <2>1, <2>2, <2>3 DEF IInv
<1>3. CASE PollReconciles(w, u)
  <2> DEFINE r == [Idle EXCEPT !.step = "pull", !.page = u]
  <2>1. job' = [job EXCEPT ![w] = r] BY <1>3 DEF PollReconciles
  <2>2. r.step = "pull" /\ r.page = u /\ r.result = "none" BY DEF Idle
  <2>3. r \in Jobs BY DEF Idle, Jobs, Steps, Outcomes, Results
  <2>4. r # Idle BY <2>2 DEF Idle
  <2> HIDE DEF r
  <2>5. job' \in [Workers -> Jobs] /\ \A v \in Workers : job'[v] = IF v = w THEN r ELSE job[v]
    BY <2>1, <2>3, JobIsSet DEF IInv
  <2>6. TypeOK' BY <1>3, <2>5 DEF PollReconciles, IInv, TypeOK
  <2>7. JobsFit' BY <2>2, <2>4, <2>5 DEF IInv, JobsFit
  <2>8. GateFits' /\ OutcomesFit'
    BY <1>3, <2>2, <2>5, QuietStep DEF PollReconciles, record, Admitted
  <2>9. CardsFit' BY <1>3, <2>2, <2>5 DEF PollReconciles, IInv, CardsFit
  <2> QED BY <2>6, <2>7, <2>8, <2>9 DEF IInv
<1> QED BY <1>1, <1>2, <1>3 DEF Begin

\* Steps that only move the handler on, within the gate or outside it.
LEMMA MovingKeeps ==
  ASSUME IInv, NEW w \in Workers, NEW u \in Updates, job[w].page = u, job[w].step # "idle",
         \/ GetLpResult(w) \/ PullUnverifiable(w) \/ AlreadyProcessed(w) \/ Crash(w) \/ PullResult(w)
  PROVE  IInv'
<1>1. job[w] \in Jobs BY DEF IInv, TypeOK
<1>2. PICK r \in Jobs :
        /\ job' = [job EXCEPT ![w] = r]
        /\ r = Idle \/ r.page = u
        /\ r.step = "idle" <=> r = Idle
        /\ r.step \in {"lookup", "store", "mark", "tell"} =>
             r.step = "store" /\ job[w].step = "lookup" /\ r.result = job[w].result /\ r.verdict = job[w].verdict
        /\ r.result = "accepted" => job[w].result = "accepted" \/ page[u] = "accepted"
  <2>1. CASE GetLpResult(w)
    <3> DEFINE r == [job[w] EXCEPT !.step = "store"]
    <3>1. r \in Jobs /\ r.page = u /\ r.step = "store" /\ r.result = job[w].result /\ r.verdict = job[w].verdict
      BY <1>1 DEF Jobs, Steps
    <3>2. r # Idle BY <3>1 DEF Idle
    <3> QED BY <2>1, <3>1, <3>2 DEF GetLpResult, Goto
  <2>2. CASE PullUnverifiable(w) \/ Crash(w)
    BY <2>2, IdleIsJob DEF PullUnverifiable, Crash, Leave, Idle
  <2>3. CASE AlreadyProcessed(w)
    <3> DEFINE r == [job[w] EXCEPT !.step = "again"]
    <3>1. r \in Jobs /\ r.page = u /\ r.step = "again" /\ r.result = job[w].result
      BY <1>1 DEF Jobs, Steps
    <3>2. r # Idle BY <3>1 DEF Idle
    <3> QED BY <2>3, <3>1, <3>2 DEF AlreadyProcessed, Goto
  <2>4. CASE PullResult(w)
    <3> DEFINE r == [job[w] EXCEPT !.step = "claim", !.result = Result(u)]
    <3>1. r \in Jobs /\ r.page = u /\ r.step = "claim" /\ r.result = Result(u)
      BY <1>1, ResultFits DEF Jobs, Steps, IInv
    <3>2. r # Idle BY <3>1 DEF Idle
    <3>3. job' = [job EXCEPT ![w] = r] BY <2>4 DEF PullResult, Pulled
    <3> QED BY <3>1, <3>2, <3>3, ResultFits DEF IInv
  <2> QED BY <2>1, <2>2, <2>3, <2>4
<1>3. job' \in [Workers -> Jobs] /\ \A v \in Workers : job'[v] = IF v = w THEN r ELSE job[v]
  BY <1>2, JobIsSet DEF IInv
<1>4. UNCHANGED <<page, asked, waited, webhookLog, outcome, activated, kept, shown>>
  BY DEF GetLpResult, PullUnverifiable, AlreadyProcessed, Crash, PullResult
<1>5. TypeOK' BY <1>3, <1>4 DEF IInv, TypeOK
<1>6. JobsFit' BY <1>2, <1>3 DEF IInv, JobsFit, Idle
<1>7. CardsFit'
  <2>1. r = Idle \/ (r.result = "accepted" => page[r.page] = "accepted") BY <1>2 DEF IInv, CardsFit
  <2>2. \A v \in Workers : job'[v].result = "accepted" => page[job'[v].page] = "accepted"
    BY <1>3, <2>1 DEF IInv, CardsFit, Idle
  <2> QED BY <1>4, <2>2 DEF IInv, CardsFit
<1>8. GateFits' /\ OutcomesFit'
  <2>1. UNCHANGED record BY <1>4 DEF record
  <2> QED BY <1>2, <1>3, <2>1, QuietStep DEF Admitted, Idle
<1> QED BY <1>5, <1>6, <1>7, <1>8 DEF IInv

\* Steps that write the log row.
LEMMA RowKeeps ==
  ASSUME IInv, NEW w \in Workers, NEW u \in Updates, NEW k \in Keys,
         job[w].page = u, KeyOf(job[w].result) = k,
         GetLpResultFails(w) \/ MarkWebhook(w) \/ ClaimWebhook(w)
  PROVE  IInv'
<1>1. job[w] \in Jobs BY DEF IInv, TypeOK
<1>2. UNCHANGED <<page, asked, waited, outcome, activated, kept, shown>>
  BY DEF GetLpResultFails, MarkWebhook, ClaimWebhook
<1>3. PICK s \in LogStates \ {"none"} : webhookLog' \in {webhookLog, [webhookLog EXCEPT ![u][k] = s]}
  BY DEF GetLpResultFails, MarkWebhook, ClaimWebhook, WriteRow, LogStates
<1>4. /\ webhookLog' \in [Updates -> [Keys -> LogStates]]
      /\ \A x \in Updates, l \in Keys :
           webhookLog'[x][l] = webhookLog[x][l] \/ (x = u /\ l = k /\ webhookLog'[x][l] = s)
  <2>1. CASE webhookLog' = webhookLog BY <2>1 DEF IInv, TypeOK
  <2>2. CASE webhookLog' = [webhookLog EXCEPT ![u][k] = s] BY <2>2 DEF IInv, TypeOK
  <2> QED BY <1>3, <2>1, <2>2
<1>5. PICK r \in Jobs :
        /\ job' = [job EXCEPT ![w] = r]
        /\ r = Idle \/ (r.page = u /\ r.result = job[w].result /\ r.verdict = job[w].verdict)
        /\ r.step = "idle" <=> r = Idle
        /\ \/ GetLpResultFails(w) /\ job[w].step = "lookup" /\ r = Idle
           \/ MarkWebhook(w) /\ job[w].step = "mark" /\ r.step = "tell"
           \/ ClaimWebhook(w) /\ r.step = "store"
  <2>1. CASE GetLpResultFails(w) BY <2>1, IdleIsJob DEF GetLpResultFails, Leave, Idle
  <2>2. CASE MarkWebhook(w)
    <3> DEFINE r == [job[w] EXCEPT !.step = "tell"]
    <3>1. r \in Jobs /\ r.page = u /\ r.step = "tell" /\ r.result = job[w].result /\ r.verdict = job[w].verdict
      BY <1>1 DEF Jobs, Steps
    <3>2. r # Idle BY <3>1 DEF Idle
    <3> QED BY <2>2, <3>1, <3>2 DEF MarkWebhook, Goto
  <2>3. CASE ClaimWebhook(w)
    <3> DEFINE r == [job[w] EXCEPT !.step = "store"]
    <3>1. r \in Jobs /\ r.page = u /\ r.step = "store" /\ r.result = job[w].result /\ r.verdict = job[w].verdict
      BY <1>1 DEF Jobs, Steps
    <3>2. r # Idle BY <3>1 DEF Idle
    <3> QED BY <2>3, <3>1, <3>2 DEF ClaimWebhook, Goto
  <2> QED BY <2>1, <2>2, <2>3
<1>6. job' \in [Workers -> Jobs] /\ \A v \in Workers : job'[v] = IF v = w THEN r ELSE job[v]
  BY <1>5, JobIsSet DEF IInv
<1>7. TypeOK' BY <1>2, <1>4, <1>6 DEF IInv, TypeOK
<1>8. JobsFit' BY <1>5, <1>6 DEF IInv, JobsFit, Idle
<1>9. CardsFit' BY <1>2, <1>5, <1>6 DEF IInv, CardsFit, Idle
<1>10. CASE ClaimWebhook(w)
  <2>1. webhookLog[u][k] = "none" /\ webhookLog' = [webhookLog EXCEPT ![u][k] = "RECEIVED"]
    BY <1>10 DEF ClaimWebhook, Row, WriteRow
  <2>2. job[w].step = "claim" BY <1>10 DEF ClaimWebhook
  <2>3. r.step = "store" BY <1>5, <2>2 DEF GetLpResultFails, MarkWebhook
  <2>4. /\ \A v \in Workers : v # w => job'[v] = job[v]
        /\ job'[w].page = u /\ KeyOf(job'[w].result) = k /\ job'[w].step \in {"lookup", "store"}
    BY <1>5, <1>6, <2>3 DEF Idle
  <2>5. GateFits' /\ OutcomesFit' BY <1>2, <2>1, <2>4, GateAdmits
  <2> QED BY <1>7, <1>8, <1>9, <2>5 DEF IInv
<1>11. CASE ~ClaimWebhook(w)
  <2>1. Admitted(w, u, k) BY <1>11 DEF GetLpResultFails, MarkWebhook, Admitted
  <2>2. webhookLog[u][k] # "none" BY <2>1 DEF IInv, GateFits
  <2>3. \A x \in Updates, l \in Keys : webhookLog'[x][l] # "none" <=> webhookLog[x][l] # "none"
    BY <1>4, <2>2
  <2>4. \A v \in Workers, x \in Updates, l \in Keys : Admitted(v, x, l)' =>
          /\ Admitted(v, x, l) /\ job'[v].verdict = job[v].verdict
          /\ job'[v].step = job[v].step \/ (job[v].step = "mark" /\ job'[v].step = "tell")
    BY <1>5, <1>6, <1>11 DEF Admitted, Idle
  <2>5. GateFits' BY <2>3, <2>4 DEF IInv, GateFits
  <2>6. \A x \in Updates : (JudgedEarly(x)' <=> JudgedEarly(x)) /\ (Failed(x)' <=> Failed(x))
    BY <1>2, <2>3 DEF JudgedEarly, Failed, Keys
  <2>7. OutcomesFit'
    BY <1>2, <2>3, <2>4, <2>6 DEF IInv, OutcomesFit, FailureNeedsLiveResult, Keys
  <2> QED BY <1>7, <1>8, <1>9, <2>5, <2>7 DEF IInv
<1> QED BY <1>10, <1>11

\* The handler with the transaction replaces the card, or fails to.
LEMMA ReplaceKeeps ==
  ASSUME IInv, NEW w \in Workers, NEW u \in Updates, NEW k \in Keys,
         job[w].page = u, KeyOf(job[w].result) = k,
         ReplaceCard(w) \/ ReplaceFails(w)
  PROVE  IInv'
<1> DEFINE r == [step |-> "mark", page |-> u, by |-> job[w].by, result |-> job[w].result,
                 verdict |-> IF ReplaceCard(w) THEN "PAYMENT_METHOD_UPDATED" ELSE "PAYMENT_METHOD_UPDATE_FAILED"]
<1>1. job[w] \in Jobs BY DEF IInv, TypeOK
<1>2. r \in Jobs /\ r # Idle BY <1>1 DEF Jobs, Steps, Outcomes, Idle
<1>3. r.step = "mark" /\ r.page = u /\ r.result = job[w].result OBVIOUS
<1>4. Admitted(w, u, k) /\ job[w].step = "store" BY DEF ReplaceCard, ReplaceFails, Admitted
<1>5. UNCHANGED <<page, asked, waited, webhookLog, outcome, activated, shown>>
  BY DEF ReplaceCard, ReplaceFails
<1>6. \A x \in Updates : (Failed(x)' <=> Failed(x)) /\ (JudgedEarly(x)' <=> JudgedEarly(x))
  BY <1>5 DEF Failed, JudgedEarly
<1>7. CASE ReplaceCard(w)
  <2>1. r.verdict = "PAYMENT_METHOD_UPDATED" BY <1>7
  <2>2. job' = [job EXCEPT ![w] = r] BY <1>7 DEF ReplaceCard, Decide
  <2> HIDE DEF r
  <2>3. job' \in [Workers -> Jobs] /\ \A v \in Workers : job'[v] = IF v = w THEN r ELSE job[v]
    BY <1>2, <2>2, JobIsSet DEF IInv
  <2>4. k = "tx" /\ job[w].result = "accepted" /\ page[u] = "accepted"
    BY <1>7 DEF ReplaceCard, KeyOf, IInv, CardsFit
  <2>5. card' = u /\ stored' = stored \cup {u} /\ fresh' = {q \in Pages : page[q] # "unopened"} /\ recent' = TRUE
    BY <1>7 DEF ReplaceCard, StoreCard
  <2>6. TypeOK' BY <1>5, <2>3, <2>5 DEF IInv, TypeOK
  <2>7. JobsFit' BY <1>2, <1>3, <2>3 DEF IInv, JobsFit
  <2>8. CardsFit' BY <1>3, <1>5, <2>3, <2>4, <2>5 DEF IInv, CardsFit
  <2>9. \A v \in Workers, x \in Updates, l \in Keys : Admitted(v, x, l)' =>
          Admitted(v, x, l) /\ (v = w => x = u /\ l = k)
    BY <1>3, <1>4, <2>3 DEF Admitted
  <2>10. GateFits' BY <1>5, <2>9 DEF IInv, GateFits
  <2>11. /\ \A v \in Workers : Admitted(v, u, "tx")' => v = w
         /\ webhookLog[u]["tx"] # "none" /\ outcome[u] # "PAYMENT_METHOD_UPDATED"
         /\ Failed(u) => JudgedEarly(u)
    BY <1>4, <2>4, <2>9 DEF IInv, GateFits, OutcomesFit
  <2>12. OutcomesFit'
    <3>1. \A x \in Updates : outcome'[x] = "PAYMENT_METHOD_UPDATED" => x \in stored'
      BY <1>5, <2>5 DEF IInv, OutcomesFit
    <3>2. FailureNeedsLiveResult'
      BY <1>6, <2>5, <2>11 DEF IInv, OutcomesFit, FailureNeedsLiveResult
    <3>3. \A x \in Updates : webhookLog'[x]["tx"] = "none" =>
            x \notin stored' /\ (Failed(x)' => JudgedEarly(x)')
      BY <1>5, <1>6, <2>5, <2>11 DEF IInv, OutcomesFit
    <3>4. ASSUME NEW v \in Workers, NEW x \in Updates, Admitted(v, x, "tx")'
          PROVE  /\ outcome'[x] # "PAYMENT_METHOD_UPDATED"
                 /\ Failed(x)' => JudgedEarly(x)'
                 /\ job'[v].step \in {"lookup", "store"} => x \notin stored'
                 /\ job'[v].step \in {"mark", "tell"} =>
                      \/ job'[v].verdict = "PAYMENT_METHOD_UPDATED" /\ x \in stored'
                      \/ job'[v].verdict = "PAYMENT_METHOD_UPDATE_FAILED" /\ x \notin stored'
      <4>1. CASE v = w BY <1>3, <1>5, <1>6, <2>1, <2>3, <2>5, <2>9, <2>11, <3>4, <4>1 DEF Keys
      <4>2. CASE v # w
        <5>1. x # u /\ Admitted(v, x, "tx") /\ job'[v] = job[v] BY <2>3, <2>9, <2>11, <3>4, <4>2 DEF Keys
        <5> QED BY <1>5, <1>6, <2>5, <5>1 DEF IInv, OutcomesFit
      <4> QED BY <4>1, <4>2
    <3>5. \A v \in Workers, x \in Updates : Admitted(v, x, "rv")' => v # w /\ Admitted(v, x, "rv") /\ job'[v] = job[v]
      BY <2>3, <2>4, <2>9 DEF Keys
    <3> QED BY <3>1, <3>2, <3>3, <3>4, <3>5 DEF IInv, OutcomesFit
  <2> QED BY <2>6, <2>7, <2>8, <2>10, <2>12 DEF IInv
<1>8. CASE ReplaceFails(w) /\ ~ReplaceCard(w)
  <2>1. r.verdict = "PAYMENT_METHOD_UPDATE_FAILED" BY <1>8
  <2>2. job' = [job EXCEPT ![w] = r] BY <1>8 DEF ReplaceFails, Decide
  <2> HIDE DEF r
  <2>3. job' \in [Workers -> Jobs] /\ \A v \in Workers : job'[v] = IF v = w THEN r ELSE job[v]
    BY <1>2, <2>2, JobIsSet DEF IInv
  <2>4. UNCHANGED kept BY <1>8 DEF ReplaceFails
  <2>5. TypeOK' BY <1>5, <2>3, <2>4 DEF IInv, TypeOK
  <2>6. JobsFit' BY <1>2, <1>3, <2>3 DEF IInv, JobsFit
  <2>7. CardsFit' BY <1>3, <1>5, <2>3, <2>4 DEF IInv, CardsFit
  <2>8. \A v \in Workers, x \in Updates, l \in Keys : Admitted(v, x, l)' => Admitted(v, x, l)
    BY <1>3, <1>4, <2>3 DEF Admitted
  <2>9. GateFits' BY <1>5, <2>8 DEF IInv, GateFits
  <2>10. OutcomesFit'
    BY <1>3, <1>4, <1>5, <1>6, <2>1, <2>3, <2>4, <2>8 DEF IInv, OutcomesFit, FailureNeedsLiveResult, Keys
  <2> QED BY <2>5, <2>6, <2>7, <2>9, <2>10 DEF IInv
<1> QED BY <1>7, <1>8

\* The outcome of a handler that was admitted with the transaction is true; that of one
\* admitted without is a failure, and the update was judged early.
LEMMA LogKeeps ==
  ASSUME IInv, NEW w \in Workers, NEW u \in Updates, NEW k \in Keys,
         job[w].page = u, KeyOf(job[w].result) = k, LogOutcome(w)
  PROVE  IInv'
<1>1. job[w] \in Jobs BY DEF IInv, TypeOK
<1>2. Admitted(w, u, k) /\ job[w].step = "tell" BY DEF LogOutcome, Admitted
<1>3. /\ outcome' \in {outcome, [outcome EXCEPT ![u] = job[w].verdict]}
      /\ UNCHANGED <<page, asked, waited, webhookLog, activated, kept, shown>>
  BY DEF LogOutcome
<1>4. PICK r \in Jobs :
        /\ job' = [job EXCEPT ![w] = r]
        /\ r = Idle \/ (r.page = u /\ r.result = job[w].result /\ r.step = "again")
        /\ r.step = "idle" <=> r = Idle
  <2> DEFINE r == [job[w] EXCEPT !.step = "again"]
  <2>1. r \in Jobs /\ r.page = u /\ r.step = "again" /\ r.result = job[w].result BY <1>1 DEF Jobs, Steps
  <2>2. r # Idle BY <2>1 DEF Idle
  <2>3. job' = [job EXCEPT ![w] = r] \/ job' = [job EXCEPT ![w] = Idle] BY DEF LogOutcome, Goto, Leave
  <2> HIDE DEF r
  <2> QED BY <2>1, <2>2, <2>3, IdleIsJob DEF Idle
<1>5. job' \in [Workers -> Jobs] /\ \A v \in Workers : job'[v] = IF v = w THEN r ELSE job[v]
  BY <1>4, JobIsSet DEF IInv
<1>6. TypeOK'
  <2>1. outcome' \in [Updates -> Outcomes] BY <1>1, <1>3 DEF IInv, TypeOK, Jobs
  <2> QED BY <1>3, <1>5, <2>1 DEF IInv, TypeOK
<1>7. JobsFit' BY <1>4, <1>5 DEF IInv, JobsFit, Idle
<1>8. CardsFit' BY <1>3, <1>4, <1>5 DEF IInv, CardsFit, Idle
<1>9. \A v \in Workers, x \in Updates, l \in Keys : Admitted(v, x, l)' =>
        v # w /\ Admitted(v, x, l) /\ job'[v] = job[v]
  BY <1>4, <1>5 DEF Admitted, Idle
<1>10. GateFits' BY <1>3, <1>9 DEF IInv, GateFits
<1>11. \A x \in Updates : JudgedEarly(x)' <=> JudgedEarly(x) BY <1>3 DEF JudgedEarly
<1>12. \A x \in Updates : outcome'[x] = outcome[x] \/ (x = u /\ outcome'[x] = job[w].verdict)
  BY <1>3 DEF IInv, TypeOK
<1>13. \A x \in Updates : x # u => (Failed(x)' => Failed(x)) BY <1>3, <1>12 DEF Failed
<1>14. CASE k = "tx"
  <2>1. \A v \in Workers : ~Admitted(v, u, "tx")' BY <1>2, <1>9, <1>14 DEF IInv, GateFits
  <2>2. webhookLog[u]["tx"] # "none" BY <1>2, <1>14 DEF IInv, GateFits
  <2>3. \/ job[w].verdict = "PAYMENT_METHOD_UPDATED" /\ u \in stored
        \/ job[w].verdict = "PAYMENT_METHOD_UPDATE_FAILED" /\ u \notin stored
    BY <1>2, <1>14 DEF IInv, OutcomesFit
  <2>4. Failed(u)' => Failed(u) \/ u \notin stored BY <1>3, <1>12, <2>3 DEF Failed
  <2>5. FailureNeedsLiveResult' BY <1>3, <1>11, <1>13, <2>4 DEF IInv, OutcomesFit, FailureNeedsLiveResult
  <2>6. OutcomesFit'
    BY <1>3, <1>9, <1>11, <1>12, <1>13, <2>1, <2>2, <2>3, <2>5 DEF IInv, OutcomesFit, Keys
  <2> QED BY <1>6, <1>7, <1>8, <1>10, <2>6 DEF IInv
<1>15. CASE k = "rv"
  <2>1. JudgedEarly(u) BY <1>2, <1>15 DEF IInv, GateFits, JudgedEarly
  <2>2. job[w].verdict = "PAYMENT_METHOD_UPDATE_FAILED" BY <1>2, <1>15 DEF IInv, OutcomesFit
  <2>3. FailureNeedsLiveResult' BY <1>3, <1>11, <1>13, <2>1 DEF IInv, OutcomesFit, FailureNeedsLiveResult
  <2>4. OutcomesFit'
    BY <1>3, <1>9, <1>11, <1>12, <1>13, <2>1, <2>2, <2>3 DEF IInv, OutcomesFit, Keys
  <2> QED BY <1>6, <1>7, <1>8, <1>10, <2>4 DEF IInv
<1> QED BY <1>14, <1>15 DEF Keys

\* The poll reads the outcome back.
LEMMA PollAgainKeeps ==
  ASSUME IInv, NEW w \in Workers, NEW u \in Updates, job[w].page = u, PollAgain(w)
  PROVE  IInv'
<1>1. shown' = [shown EXCEPT ![u] = OutcomeOf(u)] /\ job' = [job EXCEPT ![w] = Idle]
  BY DEF PollAgain, Leave
<1>2. UNCHANGED <<page, asked, waited, webhookLog, outcome, activated, kept>> BY DEF PollAgain
<1>3. job' \in [Workers -> Jobs] /\ \A v \in Workers : job'[v] = IF v = w THEN Idle ELSE job[v]
  BY <1>1, IdleIsJob, JobIsSet DEF IInv
<1>4. TypeOK' BY <1>1, <1>2, <1>3, AnswerFits DEF IInv, TypeOK
<1>5. JobsFit' /\ CardsFit' BY <1>2, <1>3 DEF IInv, JobsFit, CardsFit, Idle
<1>6. GateFits' /\ OutcomesFit' BY <1>1, <1>2, <1>3, AnswerKeeps DEF Admitted, Idle
<1> QED BY <1>4, <1>5, <1>6 DEF IInv

LEMMA ContinueKeeps ==
  ASSUME IInv, NEW w \in Workers, Continue(w) \/ Crash(w)
  PROVE  IInv'
<1>1. job[w].step # "idle"
  BY DEF Continue, Crash, GetLpResult, GetLpResultFails, ReplaceCard, ReplaceFails, MarkWebhook, LogOutcome,
     PullResult, PullUnverifiable, ClaimWebhook, AlreadyProcessed, PollAgain, IInv, JobsFit
<1>2. PICK u \in Updates, k \in Keys : job[w].page = u /\ KeyOf(job[w].result) = k
  BY <1>1 DEF IInv, JobsFit, KeyOf, Keys
<1> QED BY <1>1, <1>2, MovingKeeps, RowKeeps, ReplaceKeeps, LogKeeps, PollAgainKeeps DEF Continue

LEMMA NextIInv == IInv /\ [Next]_vars => IInv'
BY WorldKeeps, BeginKeeps, ContinueKeeps DEF Next

LEMMA IInvHolds == Spec => []IInv
BY InitIInv, NextIInv, PTL DEF Spec

-----------------------------------------------------------------------------
\* Every variable keeps its type.
THEOREM UpdatesTypeInvariant == Spec => []TypeOK
<1>1. IInv => TypeOK BY DEF IInv
<1> QED BY <1>1, IInvHolds, PTL

\* An owner told that the update failed still has the earlier card, and no handler stores
\* the new one later, unless a result without a transaction was applied to the update.
THEOREM FailureIsTrue == Spec => []FailureNeedsLiveResult
<1>1. IInv => FailureNeedsLiveResult BY DEF IInv, OutcomesFit
<1> QED BY <1>1, IInvHolds, PTL

\* Only a page whose card was never stored becomes the saved card.
LEMMA StepStoresOnce == IInv /\ [Next]_vars => (card' # card => card' \notin stored)
<1> SUFFICES ASSUME IInv, Next, card' # card PROVE card' \notin stored
  OBVIOUS
<1>1. CASE World
  BY <1>1 DEF World, ChangePaymentMethod, TwentySecondsPass, OpenCheckout, CustomerFinishes, SecondPasses
<1>2. CASE \E p \in Purchases : Purchase(p)
  BY <1>2 DEF Purchase, ActivateByWebhook, RecoverActivation, StoreRecoveredCard, StoreCard, IInv, TypeOK, CardsFit
<1>3. CASE \E w \in Workers : Continue(w) \/ Crash(w)
  <2> PICK w \in Workers : Continue(w) \/ Crash(w) BY <1>3
  <2>1. CASE ReplaceCard(w)
    BY <2>1 DEF ReplaceCard, StoreCard, IInv, JobsFit, OutcomesFit, Admitted, KeyOf, Idle
  <2> QED BY <2>1 DEF Continue, Crash, GetLpResult, GetLpResultFails, ReplaceFails, MarkWebhook, LogOutcome,
        PullResult, PullUnverifiable, ClaimWebhook, AlreadyProcessed, PollAgain
<1>4. CASE \E w \in Workers, u \in Updates : Begin(w, u)
  BY <1>4 DEF Begin, HandleWebhook, PollAnswers, PollReconciles
<1> QED BY <1>1, <1>2, <1>3, <1>4 DEF Next

\* A card that was replaced never comes back by itself.
THEOREM StoredOnce == Spec => CardNeverReturns
<1>1. IInv /\ [Next]_vars => [card' # card => card' \notin stored]_vars BY StepStoresOnce
<1> QED BY <1>1, IInvHolds, PTL DEF Spec, CardNeverReturns

-----------------------------------------------------------------------------
(* The saved card is what the owner is promised. *)

\* What the promise is about.
visible == <<card, stored, outcome, webhookLog>>

LEMMA Invisible == UNCHANGED visible => UNCHANGED Saved!saved
BY DEF visible, Saved!saved, JudgedEarly

\* The handler admitted with the transaction stores the card, once, and only of an update
\* whose failure, if it has one, was judged early.
LEMMA ReplaceSaves ==
  ASSUME IInv, NEW w \in Workers, ReplaceCard(w)
  PROVE  \E p \in Pages : Saved!Save(p)
<1> DEFINE u == job[w].page
<1>1. u \in Updates BY DEF ReplaceCard, IInv, JobsFit
<1>2. Admitted(w, u, "tx") BY DEF ReplaceCard, Admitted, KeyOf
<1>3. u \notin stored /\ (Failed(u) => JudgedEarly(u)) BY <1>1, <1>2 DEF ReplaceCard, IInv, OutcomesFit
<1>4. card' = u /\ stored' = stored \cup {u} /\ outcome' = outcome /\ webhookLog' = webhookLog
  BY DEF ReplaceCard, StoreCard
<1> HIDE DEF u
<1> QED BY <1>1, <1>3, <1>4 DEF Saved!Save, Failed, JudgedEarly

\* A purchase gives its card once, with its webhook or recovered later.
LEMMA PurchaseSaves ==
  ASSUME IInv, NEW p \in Purchases, Purchase(p)
  PROVE  Saved!Save(p) \/ UNCHANGED visible
<1>1. outcome' = outcome /\ webhookLog' = webhookLog
  BY DEF Purchase, ActivateByWebhook, RecoverActivation, StoreRecoveredCard
<1>2. p \notin {u \in Updates : outcome[u] = "PAYMENT_METHOD_UPDATE_FAILED"} OBVIOUS
<1>3. CASE ActivateByWebhook(p) \/ StoreRecoveredCard(p)
  <2>1. p \notin stored
    BY <1>3 DEF ActivateByWebhook, StoreRecoveredCard, IInv, CardsFit
  <2>2. card' = p /\ stored' = stored \cup {p}
    BY <1>3 DEF ActivateByWebhook, StoreRecoveredCard, StoreCard
  <2> QED BY <1>1, <1>2, <2>1, <2>2 DEF Saved!Save, JudgedEarly
<1>4. CASE RecoverActivation(p) BY <1>4 DEF RecoverActivation, visible
<1> QED BY <1>3, <1>4 DEF Purchase

\* The record says what became of the card.
LEMMA OutcomeIsTold ==
  ASSUME IInv, NEW w \in Workers, LogOutcome(w)
  PROVE  (\E u \in Updates : Saved!Confirm(u) \/ Saved!Refuse(u)) \/ UNCHANGED visible
<1> DEFINE u == job[w].page
<1> DEFINE k == KeyOf(job[w].result)
<1> DEFINE Confirmed == {v \in Updates : outcome[v] = "PAYMENT_METHOD_UPDATED"}
<1> DEFINE Refused == {v \in Updates : outcome[v] = "PAYMENT_METHOD_UPDATE_FAILED"}
<1>1. u \in Updates /\ k \in Keys BY DEF LogOutcome, IInv, JobsFit, KeyOf, Keys
<1>2. Admitted(w, u, k) BY DEF LogOutcome, Admitted
<1>3. UNCHANGED <<card, stored, webhookLog>> BY DEF LogOutcome
<1>4. CASE outcome' = outcome BY <1>3, <1>4 DEF visible
<1>5. CASE outcome' # outcome
  <2>1. outcome' = [outcome EXCEPT ![u] = job[w].verdict] BY <1>5 DEF LogOutcome
  <2>2. \A v \in Updates : outcome'[v] = IF v = u THEN job[w].verdict ELSE outcome[v]
    BY <2>1 DEF IInv, TypeOK
  <2>3. \/ job[w].verdict = "PAYMENT_METHOD_UPDATED" /\ u \in stored
        \/ job[w].verdict = "PAYMENT_METHOD_UPDATE_FAILED" /\ (u \in stored => JudgedEarly(u))
    <3>1. k = "tx" \/ k = "rv" BY <1>1 DEF Keys
    <3>2. job[w].step = "tell" BY DEF LogOutcome
    <3>3. webhookLog[u][k] # "none" BY <1>1, <1>2 DEF IInv, GateFits
    <3> HIDE DEF u, k
    <3> QED BY <1>1, <1>2, <3>1, <3>2, <3>3 DEF IInv, OutcomesFit, JudgedEarly
  <2>4. CASE job[w].verdict = "PAYMENT_METHOD_UPDATED" /\ u \in stored
    <3>1. Confirmed' = Confirmed \cup {u} /\ Refused' = Refused \ {u} BY <1>1, <2>2, <2>4
    <3> QED BY <1>1, <1>3, <2>4, <3>1 DEF Saved!Confirm, JudgedEarly
  <2>5. CASE job[w].verdict = "PAYMENT_METHOD_UPDATE_FAILED" /\ (u \in stored => JudgedEarly(u))
    <3>1. Refused' = Refused \cup {u} /\ Confirmed' = Confirmed \ {u} BY <1>1, <2>2, <2>5
    <3> QED BY <1>1, <1>3, <2>5, <3>1 DEF Saved!Refuse, JudgedEarly
  <2> QED BY <2>3, <2>4, <2>5
<1> QED BY <1>4, <1>5

\* Writing a log row changes what is promised only if it is the first without a transaction.
LEMMA RowIsWritten ==
  ASSUME IInv, NEW u \in Updates, NEW k \in Keys, NEW s \in LogStates \ {"none"},
         webhookLog' \in {webhookLog, [webhookLog EXCEPT ![u][k] = s]},
         UNCHANGED <<card, stored, outcome>>
  PROVE  Saved!JudgeEarly(u) \/ UNCHANGED Saved!saved
<1>1. \A v \in Updates : JudgedEarly(v)' <=> JudgedEarly(v) \/ (v = u /\ webhookLog' # webhookLog /\ k = "rv")
  BY DEF IInv, TypeOK, JudgedEarly, Keys
<1> QED BY <1>1 DEF Saved!JudgeEarly, Saved!saved

LEMMA NextSaves ==
  ASSUME IInv, [Next]_vars
  PROVE  [Saved!Next]_Saved!saved
<1>1. CASE World \/ UNCHANGED vars
  <2>1. UNCHANGED visible
    BY <1>1 DEF World, ChangePaymentMethod, TwentySecondsPass, OpenCheckout, CustomerFinishes,
       SecondPasses, visible
  <2> QED BY <2>1, Invisible
<1>2. ASSUME NEW p \in Purchases, Purchase(p) PROVE [Saved!Next]_Saved!saved
  BY <1>2, PurchaseSaves, Invisible DEF Saved!Next
<1>3. ASSUME NEW w \in Workers, NEW u \in Updates, Begin(w, u) PROVE [Saved!Next]_Saved!saved
  <2>1. CASE HandleWebhook(w, u)
    <3>1. KeyOf(page[u]) \in Keys /\ "RECEIVED" \in LogStates \ {"none"} BY DEF KeyOf, Keys, LogStates
    <3> QED BY <2>1, <3>1, RowIsWritten DEF HandleWebhook, Saved!Next
  <2>2. CASE PollAnswers(w, u) \/ PollReconciles(w, u)
    BY <2>2, Invisible DEF PollAnswers, PollReconciles, visible
  <2> QED BY <1>3, <2>1, <2>2 DEF Begin
<1>4. ASSUME NEW w \in Workers, Continue(w) \/ Crash(w) PROVE [Saved!Next]_Saved!saved
  <2>1. CASE ReplaceCard(w) BY <2>1, ReplaceSaves DEF Saved!Next
  <2>2. CASE LogOutcome(w) BY <2>2, OutcomeIsTold, Invisible DEF Saved!Next
  <2>3. CASE GetLpResultFails(w) \/ MarkWebhook(w) \/ ClaimWebhook(w)
    <3> DEFINE u == job[w].page
    <3> DEFINE k == KeyOf(job[w].result)
    <3>1. u \in Updates /\ k \in Keys
      BY <2>3 DEF GetLpResultFails, MarkWebhook, ClaimWebhook, IInv, JobsFit, Idle, KeyOf, Keys
    <3>2. \E s \in LogStates \ {"none"} : webhookLog' \in {webhookLog, [webhookLog EXCEPT ![u][k] = s]}
      BY <2>3 DEF GetLpResultFails, MarkWebhook, ClaimWebhook, WriteRow, LogStates
    <3>3. UNCHANGED <<card, stored, outcome>> BY <2>3 DEF GetLpResultFails, MarkWebhook, ClaimWebhook
    <3> HIDE DEF u, k
    <3> QED BY <3>1, <3>2, <3>3, RowIsWritten DEF Saved!Next
  <2>4. CASE GetLpResult(w) \/ ReplaceFails(w) \/ PullResult(w) \/ PullUnverifiable(w)
             \/ AlreadyProcessed(w) \/ PollAgain(w) \/ Crash(w)
    <3>1. UNCHANGED visible
      BY <2>4 DEF GetLpResult, ReplaceFails, PullResult, PullUnverifiable, AlreadyProcessed, PollAgain,
         Crash, visible
    <3> QED BY <3>1, Invisible
  <2> QED BY <1>4, <2>1, <2>2, <2>3, <2>4 DEF Continue
<1> QED BY <1>1, <1>2, <1>3, <1>4 DEF Next

\* Whatever webhooks, polls and recoveries race, are lost or die, the rows implement the
\* saved card: one saving for each page, and a record of each update that is true for good
\* unless the update was judged early.
THEOREM ImplementsSavedCard == Spec => SavedCardSpec
<1>1. Init => Saved!Init BY DEF Init, Saved!Init, JudgedEarly, Keys
<1> QED BY <1>1, IInvHolds, NextSaves, PTL DEF Spec, SavedCardSpec, Saved!Spec

\* What the promise amounts to: an update on record as done saved its card, one on record
\* as failed never does unless a result without a transaction was applied to it, and the
\* card that is charged is one the owner gave.
THEOREM SavedCardIsSound == Spec => []Saved!SavedCardSound
<1>1. Saved!Init => Saved!SavedCardSound BY DEF Saved!Init, Saved!SavedCardSound
<1>2. Saved!SavedCardSound /\ [Saved!Next]_Saved!saved => Saved!SavedCardSound'
  <2> SUFFICES ASSUME Saved!SavedCardSound, [Saved!Next]_Saved!saved
               PROVE  Saved!SavedCardSound'
    OBVIOUS
  <2> USE DEF Saved!SavedCardSound
  <2>1. ASSUME NEW p \in Pages, Saved!Save(p) PROVE Saved!SavedCardSound'
    BY <2>1 DEF Saved!Save
  <2>2. ASSUME NEW u \in Updates, Saved!Confirm(u) PROVE Saved!SavedCardSound'
    BY <2>2 DEF Saved!Confirm
  <2>3. ASSUME NEW u \in Updates, Saved!Refuse(u) PROVE Saved!SavedCardSound'
    BY <2>3 DEF Saved!Refuse
  <2>4. ASSUME NEW u \in Updates, Saved!JudgeEarly(u) PROVE Saved!SavedCardSound'
    BY <2>4 DEF Saved!JudgeEarly
  <2>5. CASE UNCHANGED Saved!saved BY <2>5 DEF Saved!saved
  <2> QED BY <2>1, <2>2, <2>3, <2>4, <2>5 DEF Saved!Next
<1> QED BY <1>1, <1>2, ImplementsSavedCard, PTL DEF SavedCardSpec, Saved!Spec
=============================================================================
