----------------------- MODULE InvoiceAllocation_proofs -----------------------
(***************************************************************************)
(* For any number of handlers and attempts the Authority is never made to  *)
(* give two numbers, what is issued is booked, and only a stale copy takes *)
(* a number off an invoice.  An invoice that is finalized alone is never   *)
(* issued without a number it may have got, and is booked once.            *)
(***************************************************************************)
EXTENDS InvoiceAllocation, TLAPS

USE AllocationAssumption DEF rows, attempts, vars, Attempts, Numbers

-----------------------------------------------------------------------------
(* The inductive invariant of the requests. *)

Calling == {"submit", "wait", "persist", "fail"}

\* No number can come of an attempt any more, or yet.
Dead(n) ==
  /\ verdict[n] \in {"unsent", "refused"}
  /\ \A h \in Handlers : ~(job[h].step = "submit" /\ job[h].attempt = n)

\* What a handler knows of its attempt.
JobsFit == \A h \in Handlers :
  /\ job[h].step \in Calling \cup {"lapse"} => job[h].attempt \in 1 .. latest
  /\ job[h].step = "submit" => verdict[job[h].attempt] = "unsent"
  /\ job[h].step = "wait" => verdict[job[h].attempt] # "unsent"
  /\ job[h].step = "persist" => verdict[job[h].attempt] = "accepted"
  /\ job[h].step = "fail" =>
       \/ job[h].outcome = "UNKNOWN_OUTCOME"
       \/ job[h].outcome \in Failures /\ verdict[job[h].attempt] \in {"unsent", "refused"}

\* An attempt belongs to the handler that began it.
CallersFit == \A g, h \in Handlers :
  /\ job[g].step \in Calling
  /\ job[h].step \in Calling
  /\ job[g].attempt = job[h].attempt
  => g = h

\* Only the latest attempt is open, and none that was decided against.
AttemptsFit == \A n \in Attempts :
  /\ n > latest => state[n] = "NONE" /\ verdict[n] = "unsent"
  /\ n < latest => Dead(n) /\ state[n] # "PROCESSING"
  /\ state[n] \in Failures \cup {"SAFE_TO_RETRY"} => Dead(n)

IInv == TypeOK /\ JobsFit /\ CallersFit /\ AttemptsFit

-----------------------------------------------------------------------------
(* The steps. *)

LEMMA InitIInv == Init => IInv
BY DEF Init, IInv, TypeOK, JobsFit, CallersFit, AttemptsFit, Dead, Idle, Jobs, Steps, States,
       Requesting, Finalizing, Calling, Failures

\* The attempt a handler is about.
LEMMA OwnAttempt ==
  ASSUME IInv, NEW h \in Handlers, job[h].step \in Calling \cup {"lapse"}
  PROVE  job[h].attempt \in Attempts /\ job[h].attempt <= latest
BY DEF IInv, JobsFit, TypeOK

LEMMA JobFields ==
  ASSUME TypeOK, NEW h \in Handlers
  PROVE  /\ job[h] \in Jobs
         /\ job[h].attempt \in Attempts \cup {0}
         /\ job[h].outcome \in States
         /\ job[h].typed \in {NoNumber, Typed}
         /\ job[h].number \in Numbers
         /\ job[h].pending \in BOOLEAN
<1>1. job[h] \in Jobs BY DEF TypeOK
<1> QED BY <1>1 DEF Jobs

\* Every job that is written is one, and the rest stay.
LEMMA JobsTyped ==
  ASSUME TypeOK, NEW h \in Handlers
  PROVE  /\ Idle \in Jobs
         /\ \A s \in Steps : [job[h] EXCEPT !.step = s] \in Jobs
         /\ \A s \in Steps, t \in States : [job[h] EXCEPT !.step = s, !.outcome = t] \in Jobs
         /\ \A s \in Steps, n \in Attempts \cup {0} : [Idle EXCEPT !.step = s, !.attempt = n] \in Jobs
         /\ \A s \in Steps, t \in {NoNumber, Typed} : [job[h] EXCEPT !.step = s, !.typed = t] \in Jobs
         /\ \A s \in Steps : [job[h] EXCEPT !.step = s, !.number = number, !.pending = pending] \in Jobs
         /\ \A j \in Jobs : [job EXCEPT ![h] = j] \in [Handlers -> Jobs]
<1>0. job[h] \in Jobs BY DEF TypeOK
<1>1. Idle \in Jobs BY DEF Idle, Jobs, Steps, States
<1>2. \A s \in Steps : [job[h] EXCEPT !.step = s] \in Jobs BY <1>0 DEF Jobs
<1>3. \A s \in Steps, t \in States : [job[h] EXCEPT !.step = s, !.outcome = t] \in Jobs
  BY <1>0 DEF Jobs
<1>4. \A s \in Steps, n \in Attempts \cup {0} : [Idle EXCEPT !.step = s, !.attempt = n] \in Jobs
  BY <1>1 DEF Jobs
<1>5. \A s \in Steps, t \in {NoNumber, Typed} : [job[h] EXCEPT !.step = s, !.typed = t] \in Jobs
  BY <1>0 DEF Jobs
<1>6. \A s \in Steps : [job[h] EXCEPT !.step = s, !.number = number, !.pending = pending] \in Jobs
  BY <1>0 DEF Jobs, TypeOK
<1>7. \A j \in Jobs : [job EXCEPT ![h] = j] \in [Handlers -> Jobs] BY DEF TypeOK
<1> QED BY <1>1, <1>2, <1>3, <1>4, <1>5, <1>6, <1>7

\* A handler that leaves its attempt, or has none, disturbs no other.
LEMMA Elsewhere ==
  ASSUME IInv, NEW h \in Handlers, NEW j \in Jobs, j.step \notin Calling \cup {"lapse"},
         job' = [job EXCEPT ![h] = j], UNCHANGED <<latest, state, verdict>>
  PROVE  JobsFit' /\ CallersFit' /\ AttemptsFit'
<1> USE DEF IInv, TypeOK, Calling
<1>1. JobsFit' BY DEF JobsFit
<1>2. CallersFit' BY DEF CallersFit
<1>3. AttemptsFit' BY DEF AttemptsFit, Dead
<1> QED BY <1>1, <1>2, <1>3

LEMMA TypeStep ==
  ASSUME IInv, [Next]_vars
  PROVE  TypeOK'
<1> USE DEF TypeOK, IInv
<1>1. ASSUME NEW h \in Handlers, Handle(h) PROVE TypeOK'
  <2>17. BeginAttempt(h) => latest' \in Attempts BY DEF BeginAttempt
  <2>18. SaveInvoice(h) => booked' \in Nat BY DEF SaveInvoice
  <2> USE JobsTyped, <1>1 DEF Goto, Take, Leave, Settle, Steps, Requesting, Finalizing, States
  <2>1. CASE BeginAttempt(h)
    <3>1. latest' \in Attempts BY <2>1, <2>17
    <3>2. state' \in [Attempts -> States] BY <2>1, <3>1 DEF BeginAttempt
    <3>3. job' \in [Handlers -> Jobs] BY <2>1, <3>1 DEF BeginAttempt
    <3> QED BY <2>1, <3>1, <3>2, <3>3 DEF BeginAttempt
  <2>2. CASE BeginLapses(h) BY <2>2 DEF BeginLapses
  <2>3. CASE BeginRefused(h) BY <2>3 DEF BeginRefused
  <2>4. CASE Submit(h) BY <2>4, OwnAttempt DEF Submit, Calling
  <2>5. CASE SubmitRefused(h) BY <2>5 DEF SubmitRefused, Failures
  <2>6. CASE ReceiveApproval(h) BY <2>6 DEF ReceiveApproval
  <2>7. CASE ReceiveFailure(h)
    <3>1. PICK s \in States : job' = [job EXCEPT ![h] = [@ EXCEPT !.step = "fail", !.outcome = s]]
      BY <2>7 DEF ReceiveFailure
    <3>2. [job[h] EXCEPT !.step = "fail", !.outcome = s] \in Jobs OBVIOUS
    <3> QED BY <2>7, <3>1, <3>2 DEF ReceiveFailure
  <2>8. CASE FinishFailure(h)
    <3>1. job[h].outcome \in States BY JobFields
    <3> QED BY <2>8, <3>1, OwnAttempt DEF FinishFailure, Calling
  <2>9. CASE PersistApproval(h) BY <2>9, OwnAttempt DEF PersistApproval, Calling
  <2>10. CASE PersistRefused(h) BY <2>10 DEF PersistRefused
  <2>11. CASE PersistFails(h) BY <2>11 DEF PersistFails
  <2>12. CASE ReadInvoice(h)
    <3>1. PICK s \in Steps :
            \/ job' = [job EXCEPT ![h] = Idle]
            \/ job' = [job EXCEPT ![h] = [@ EXCEPT !.step = s, !.number = number, !.pending = pending]]
      BY <2>12 DEF ReadInvoice
    <3>2. [job[h] EXCEPT !.step = s, !.number = number, !.pending = pending] \in Jobs OBVIOUS
    <3>3. job' \in [Handlers -> Jobs] BY <3>1, <3>2
    <3>4. UNCHANGED <<rows, attempts, verdict>> BY <2>12 DEF ReadInvoice
    <3> QED BY <3>3, <3>4
  <2>13. CASE CheckAttempt(h)
    <3>1. [Idle EXCEPT !.step = "lapse", !.attempt = latest] \in Jobs OBVIOUS
    <3>2. [job[h] EXCEPT !.step = "print"] \in Jobs OBVIOUS
    <3>3. job' \in [Handlers -> Jobs] BY <2>13, <3>1, <3>2 DEF CheckAttempt
    <3> QED BY <2>13, <3>3 DEF CheckAttempt
  <2>14. CASE SaveInvoice(h)
    <3>1. job[h].number \in Numbers /\ job[h].typed \in Numbers BY JobFields
    <3>2. job' \in [Handlers -> Jobs] BY <2>14 DEF SaveInvoice
    <3>3. number' \in Numbers /\ pending' \in BOOLEAN BY <2>14, <3>1 DEF SaveInvoice
    <3>4. booked' \in Nat BY <2>14, <2>18
    <3> QED BY <2>14, <3>2, <3>3, <3>4 DEF SaveInvoice
  <2>15. CASE FinalizeFails(h) BY <2>15 DEF FinalizeFails
  <2>16. CASE Lapse(h) BY <2>16, OwnAttempt DEF Lapse
  <2> QED
    BY <1>1, <2>1, <2>2, <2>3, <2>4, <2>5, <2>6, <2>7, <2>8, <2>9, <2>10, <2>11, <2>12, <2>13,
       <2>14, <2>15, <2>16 DEF Handle
<1>2. ASSUME NEW h \in Handlers, Request(h) PROVE TypeOK'
  BY <1>2, JobsTyped DEF Request, Take, Steps, Requesting, Finalizing
<1>3. ASSUME NEW h \in Handlers, NEW t \in {NoNumber, Typed}, Finalize(h, t) PROVE TypeOK'
  BY <1>3, JobsTyped DEF Finalize, Steps, Finalizing
<1>4. ASSUME NEW h \in Handlers, GetStatus(h) PROVE TypeOK'
  BY <1>4, JobsTyped DEF GetStatus, Take, Steps
<1>5. ASSUME NEW h \in Handlers, Crash(h) PROVE TypeOK'
  BY <1>5, JobsTyped DEF Crash, Leave
<1>6. ASSUME NEW n \in Attempts,
             AuthorityDecides(n) \/ ResolveApproved(n) \/ ResolveNotAccepted(n) \/ LeaseExpires(n)
      PROVE  TypeOK'
  BY <1>6 DEF AuthorityDecides, ResolveApproved, ResolveNotAccepted, LeaseExpires, Settle, States
<1> QED BY <1>1, <1>2, <1>3, <1>4, <1>5, <1>6 DEF Next

\* An attempt that is open is given another state; its handler, if any, leaves.
LEMMA SettleKeeps ==
  ASSUME IInv, NEW n \in Attempts, n <= latest, NEW s \in States \ {"NONE", "PROCESSING"},
         Settle(n, s), UNCHANGED verdict,
         \/ UNCHANGED job
         \/ \E h \in Handlers, j \in Jobs :
              j.step \notin Calling \cup {"lapse"} /\ job' = [job EXCEPT ![h] = j],
         s \in Failures \cup {"SAFE_TO_RETRY"} => Dead(n)
  PROVE  JobsFit' /\ CallersFit' /\ AttemptsFit'
<1> USE DEF IInv, TypeOK, Calling, Settle
<1>1. JobsFit' BY DEF JobsFit
<1>2. CallersFit' BY DEF CallersFit
<1>3. \A m \in Attempts : Dead(m) => Dead(m)' BY DEF Dead
<1>4. AttemptsFit' BY <1>3 DEF AttemptsFit
<1> QED BY <1>1, <1>2, <1>4

\* The handler of an attempt goes on with it; the Authority may have its say.
LEMMA CallKeeps ==
  ASSUME IInv, NEW h \in Handlers, NEW j \in Jobs,
         job[h].step \in Calling, j.step \in {"wait", "persist", "fail"},
         j.attempt = job[h].attempt, job' = [job EXCEPT ![h] = j],
         UNCHANGED <<latest, state, verdict>>,
         JobsFit'
  PROVE  CallersFit' /\ AttemptsFit'
<1> USE DEF IInv, TypeOK, Calling
<1>1. CallersFit' BY DEF CallersFit
<1>2. \A m \in Attempts : Dead(m) => Dead(m)' BY DEF Dead
<1>3. AttemptsFit' BY <1>2 DEF AttemptsFit
<1> QED BY <1>1, <1>3

\* A step of a handler that is about the requests.
LEMMA RequestKeeps ==
  ASSUME IInv, NEW h \in Handlers, Handle(h)
  PROVE  JobsFit' /\ CallersFit' /\ AttemptsFit'
<1> USE DEF Goto, Take, Leave
<1>0. TypeOK BY DEF IInv
<1>1. Idle \in Jobs /\ Idle.step = "idle" BY <1>0, JobsTyped DEF Idle
<1>2. ASSUME Leave(h), UNCHANGED <<latest, state, verdict>>
      PROVE  JobsFit' /\ CallersFit' /\ AttemptsFit'
  BY <1>1, <1>2, Elsewhere DEF Calling
<1>3. ASSUME NEW s \in {"read", "check", "print"}, Goto(h, s) \/ Take(h, s, 0),
             UNCHANGED <<latest, state, verdict>>
      PROVE  JobsFit' /\ CallersFit' /\ AttemptsFit'
  <2>1. [job[h] EXCEPT !.step = s] \in Jobs /\ [Idle EXCEPT !.step = s, !.attempt = 0] \in Jobs
    BY <1>0, JobsTyped DEF Steps, Finalizing
  <2>2. [job[h] EXCEPT !.step = s].step = s /\ [Idle EXCEPT !.step = s, !.attempt = 0].step = s
    BY <1>0, JobFields DEF Jobs, Idle
  <2> QED BY <1>3, <2>1, <2>2, Elsewhere DEF Calling
<1>4. CASE BeginAttempt(h)
  <2> USE <1>4 DEF BeginAttempt, IInv, TypeOK, Calling
  <2>1. job'[h].step = "submit" /\ job'[h].attempt = latest' /\ latest' = latest + 1
    BY DEF Idle
  <2>2. \A g \in Handlers : g # h => job'[g] = job[g] OBVIOUS
  <2>3. \A n \in Attempts : Dead(n) /\ n < latest' => Dead(n)' BY <2>1, <2>2 DEF Dead
  <2>4. latest # 0 => Dead(latest) BY DEF AttemptsFit, Retryable, Failures
  <2>5. latest' \in Attempts OBVIOUS
  <2>6. verdict[latest'] = "unsent" BY <2>1, <2>5 DEF AttemptsFit
  <2>7. JobsFit' BY <2>1, <2>2, <2>6 DEF JobsFit
  <2>8. CallersFit' BY <2>1, <2>2 DEF CallersFit, JobsFit
  <2>9. ASSUME NEW n \in Attempts, n < latest' PROVE Dead(n)' /\ state'[n] # "PROCESSING"
    <3>1. Dead(n) BY <2>1, <2>4, <2>9 DEF AttemptsFit
    <3>2. state'[n] = state[n] BY <2>1, <2>9
    <3>3. state[n] # "PROCESSING" BY <2>1, <2>9 DEF AttemptsFit, Retryable
    <3> QED BY <3>1, <3>2, <3>3, <2>3, <2>9
  <2>10. \A n \in Attempts : n > latest' => state'[n] = "NONE" /\ verdict'[n] = "unsent"
    BY <2>1 DEF AttemptsFit
  <2>11. state'[latest'] = "PROCESSING" BY <2>5
  <2>12. AttemptsFit' BY <2>1, <2>5, <2>9, <2>10, <2>11 DEF AttemptsFit, Failures
  <2> QED BY <2>7, <2>8, <2>12
<1>5. CASE BeginLapses(h)
  <2>1. latest \in Attempts /\ latest <= latest BY <1>5 DEF BeginLapses, IInv, TypeOK
  <2> QED BY <1>1, <1>5, <2>1, SettleKeeps DEF BeginLapses, States, Failures, Calling
<1>6. CASE BeginRefused(h) BY <1>6, <1>2 DEF BeginRefused
<1>7. CASE Submit(h)
  <2> USE <1>7 DEF Submit, IInv, TypeOK, Calling
  <2>1. job'[h].step = "wait" /\ job'[h].attempt = job[h].attempt BY DEF Jobs
  <2>2. \A g \in Handlers : g # h => job'[g] = job[g] OBVIOUS
  <2>3. job[h].attempt \in Attempts BY OwnAttempt
  <2>4. ~Dead(job[h].attempt) BY DEF Dead
  <2>5. \A n \in Attempts : Dead(n) => Dead(n)' BY <2>1, <2>2, <2>4 DEF Dead
  <2>6. JobsFit' BY <2>1, <2>2, <2>3 DEF JobsFit, CallersFit
  <2>7. CallersFit' BY <2>1, <2>2 DEF CallersFit
  <2>8. AttemptsFit' BY <2>4, <2>5 DEF AttemptsFit, JobsFit
  <2> QED BY <2>6, <2>7, <2>8
<1>8. CASE SubmitRefused(h)
  <2> DEFINE j == [job[h] EXCEPT !.step = "fail", !.outcome = "VALIDATION_FAILED"]
  <2>2. j \in Jobs BY <1>0, JobsTyped DEF Steps, Requesting, States, Failures
  <2>3. j.step = "fail" /\ j.outcome = "VALIDATION_FAILED" /\ j.attempt = job[h].attempt
    BY <1>0, JobFields DEF Jobs
  <2>4. job' = [job EXCEPT ![h] = j] /\ job[h].step = "submit" /\ UNCHANGED <<latest, state, verdict>>
    BY <1>8 DEF SubmitRefused
  <2> HIDE DEF j
  <2>5. JobsFit' BY <2>3, <2>4 DEF IInv, TypeOK, JobsFit, Calling, Failures
  <2> QED BY <2>2, <2>3, <2>4, <2>5, CallKeeps DEF Calling
<1>9. CASE ReceiveApproval(h)
  <2> DEFINE j == [job[h] EXCEPT !.step = "persist"]
  <2>2. j \in Jobs BY <1>0, JobsTyped DEF Steps, Requesting
  <2>3. j.step = "persist" /\ j.attempt = job[h].attempt BY <1>0, JobFields DEF Jobs
  <2>4. job' = [job EXCEPT ![h] = j] /\ job[h].step = "wait" /\ UNCHANGED <<latest, state, verdict>>
    BY <1>9 DEF ReceiveApproval
  <2> HIDE DEF j
  <2>5. JobsFit' BY <1>9, <2>3, <2>4 DEF IInv, TypeOK, JobsFit, Calling, ReceiveApproval
  <2> QED BY <2>2, <2>3, <2>4, <2>5, CallKeeps DEF Calling
<1>10. CASE ReceiveFailure(h)
  <2>1. PICK s \in Failures \cup {"UNKNOWN_OUTCOME"} :
          /\ s \in Failures => verdict[job[h].attempt] = "refused"
          /\ job' = [job EXCEPT ![h] = [@ EXCEPT !.step = "fail", !.outcome = s]]
    BY <1>10 DEF ReceiveFailure
  <2> DEFINE j == [job[h] EXCEPT !.step = "fail", !.outcome = s]
  <2>3. j \in Jobs BY <1>0, JobsTyped DEF Steps, Requesting, States
  <2>4. j.step = "fail" /\ j.outcome = s /\ j.attempt = job[h].attempt
    BY <1>0, JobFields DEF Jobs
  <2>5. job' = [job EXCEPT ![h] = j] /\ job[h].step = "wait" /\ UNCHANGED <<latest, state, verdict>>
    BY <1>10, <2>1 DEF ReceiveFailure
  <2> HIDE DEF j
  <2>6. JobsFit' BY <2>1, <2>4, <2>5 DEF IInv, TypeOK, JobsFit, Calling
  <2> QED BY <2>3, <2>4, <2>5, <2>6, CallKeeps DEF Calling
<1>11. CASE FinishFailure(h)
  <2>1. job[h].attempt \in Attempts /\ job[h].attempt <= latest
    BY <1>11, OwnAttempt DEF FinishFailure, Calling
  <2>2. job[h].outcome \in Failures \cup {"UNKNOWN_OUTCOME"}
    BY <1>11 DEF FinishFailure, IInv, JobsFit
  <2>3. job[h].outcome \in Failures => Dead(job[h].attempt)
    BY <1>11 DEF FinishFailure, IInv, JobsFit, CallersFit, Dead, Calling, Failures
  <2> QED BY <1>1, <1>11, <2>1, <2>2, <2>3, SettleKeeps
        DEF FinishFailure, States, Failures, Calling
<1>12. CASE PersistApproval(h)
  <2>1. job[h].attempt \in Attempts /\ job[h].attempt <= latest
    BY <1>12, OwnAttempt DEF PersistApproval, Calling
  <2>2. [Idle EXCEPT !.step = "read", !.attempt = 0] \in Jobs
    BY <1>0, JobsTyped DEF Steps, Finalizing
  <2>3. [Idle EXCEPT !.step = "read", !.attempt = 0].step = "read" BY DEF Idle
  <2> QED BY <1>12, <2>1, <2>2, <2>3, SettleKeeps DEF PersistApproval, States, Failures, Calling
<1>13. CASE PersistRefused(h) BY <1>13, <1>2 DEF PersistRefused
<1>14. CASE PersistFails(h)
  <2> DEFINE j == [job[h] EXCEPT !.step = "fail", !.outcome = "UNKNOWN_OUTCOME"]
  <2>2. j \in Jobs BY <1>0, JobsTyped DEF Steps, Requesting, States
  <2>3. j.step = "fail" /\ j.outcome = "UNKNOWN_OUTCOME" /\ j.attempt = job[h].attempt
    BY <1>0, JobFields DEF Jobs
  <2>4. job' = [job EXCEPT ![h] = j] /\ job[h].step = "persist" /\ UNCHANGED <<latest, state, verdict>>
    BY <1>14 DEF PersistFails
  <2> HIDE DEF j
  <2>5. JobsFit' BY <2>3, <2>4 DEF IInv, TypeOK, JobsFit, Calling
  <2> QED BY <2>2, <2>3, <2>4, <2>5, CallKeeps DEF Calling
<1>15. CASE ReadInvoice(h)
  <2>1. PICK s \in {"check", "print"} :
          \/ Leave(h)
          \/ job' = [job EXCEPT ![h] = [@ EXCEPT !.step = s, !.number = number, !.pending = pending]]
    BY <1>15 DEF ReadInvoice
  <2> DEFINE j == [job[h] EXCEPT !.step = s, !.number = number, !.pending = pending]
  <2>3. j \in Jobs BY <1>0, JobsTyped DEF Steps, Finalizing
  <2>4. j.step = s BY <1>0, JobFields DEF Jobs
  <2> HIDE DEF j
  <2> QED BY <1>2, <1>15, <2>1, <2>3, <2>4, Elsewhere DEF ReadInvoice, Calling, j
<1>16. CASE CheckAttempt(h)
  <2>1. CASE Take(h, "lapse", latest) /\ latest # 0 /\ UNCHANGED <<latest, state, verdict>>
    <3> USE <2>1 DEF IInv, TypeOK, Calling
    <3>1. job'[h].step = "lapse" /\ job'[h].attempt = latest BY DEF Idle
    <3>2. \A g \in Handlers : g # h => job'[g] = job[g] OBVIOUS
    <3>3. \A n \in Attempts : Dead(n) => Dead(n)' BY <3>1, <3>2 DEF Dead
    <3>4. JobsFit' BY <3>1, <3>2 DEF JobsFit
    <3>5. CallersFit' BY <3>1, <3>2 DEF CallersFit
    <3>6. AttemptsFit' BY <3>3 DEF AttemptsFit
    <3> QED BY <3>4, <3>5, <3>6
  <2> QED BY <1>2, <1>3, <1>16, <2>1 DEF CheckAttempt
<1>17. CASE SaveInvoice(h) BY <1>17, <1>2 DEF SaveInvoice
<1>18. CASE FinalizeFails(h) BY <1>18, <1>2 DEF FinalizeFails
<1>19. CASE Lapse(h)
  <2>1. job[h].attempt \in Attempts /\ job[h].attempt <= latest BY <1>19, OwnAttempt DEF Lapse
  <2> QED BY <1>1, <1>19, <2>1, SettleKeeps DEF Lapse, States, Failures, Calling
<1> QED
  BY <1>4, <1>5, <1>6, <1>7, <1>8, <1>9, <1>10, <1>11, <1>12, <1>13, <1>14, <1>15, <1>16,
     <1>17, <1>18, <1>19 DEF Handle

LEMMA NextKeeps ==
  ASSUME IInv, [Next]_vars
  PROVE  IInv'
<1>0. TypeOK /\ TypeOK' BY TypeStep DEF IInv
<1>1. ASSUME NEW h \in Handlers, Handle(h) PROVE JobsFit' /\ CallersFit' /\ AttemptsFit'
  BY <1>1, RequestKeeps
<1>2. ASSUME NEW h \in Handlers,
             Request(h) \/ (\E t \in {NoNumber, Typed} : Finalize(h, t)) \/ Crash(h)
      PROVE  JobsFit' /\ CallersFit' /\ AttemptsFit'
  <2>1. UNCHANGED <<latest, state, verdict>> /\ \E j \in Jobs :
          j.step \notin Calling \cup {"lapse"} /\ job' = [job EXCEPT ![h] = j]
    <3>1. CASE Request(h)
      <4> DEFINE s == IF number = NoNumber THEN "begin" ELSE "read"
      <4> DEFINE j == [Idle EXCEPT !.step = s, !.attempt = 0]
      <4>1. j \in Jobs BY <1>0, JobsTyped DEF Steps, Requesting, Finalizing
      <4>2. j.step \notin Calling \cup {"lapse"} BY DEF Idle, Calling
      <4> QED BY <3>1, <4>1, <4>2 DEF Request, Take
    <3>2. ASSUME NEW t \in {NoNumber, Typed}, Finalize(h, t)
          PROVE  UNCHANGED <<latest, state, verdict>> /\ \E j \in Jobs :
                   j.step \notin Calling \cup {"lapse"} /\ job' = [job EXCEPT ![h] = j]
      <4> DEFINE j == [job[h] EXCEPT !.step = "read", !.typed = t]
      <4>1. j \in Jobs BY <1>0, JobsTyped DEF Steps, Finalizing
      <4>2. j.step \notin Calling \cup {"lapse"} BY <1>0, JobFields DEF Jobs, Calling
      <4> QED BY <3>2, <4>1, <4>2 DEF Finalize
    <3>3. CASE Crash(h)
      <4>1. Idle \in Jobs /\ Idle.step \notin Calling \cup {"lapse"}
        BY <1>0, JobsTyped DEF Idle, Calling
      <4> QED BY <3>3, <4>1 DEF Crash, Leave
    <3> QED BY <1>2, <3>1, <3>2, <3>3
  <2> QED BY <2>1, Elsewhere
<1>3. ASSUME NEW h \in Handlers, GetStatus(h) PROVE JobsFit' /\ CallersFit' /\ AttemptsFit'
  <2> USE <1>3 DEF IInv, TypeOK, Calling, GetStatus, Take
  <2>1. job'[h].step = "lapse" /\ job'[h].attempt = latest BY DEF Idle
  <2>2. \A g \in Handlers : g # h => job'[g] = job[g] OBVIOUS
  <2>3. \A n \in Attempts : Dead(n) => Dead(n)' BY <2>1, <2>2 DEF Dead
  <2>4. JobsFit' BY <2>1, <2>2 DEF JobsFit
  <2>5. CallersFit' BY <2>1, <2>2 DEF CallersFit
  <2>6. AttemptsFit' BY <2>3 DEF AttemptsFit
  <2> QED BY <2>4, <2>5, <2>6
<1>4. ASSUME NEW n \in Attempts, AuthorityDecides(n) PROVE JobsFit' /\ CallersFit' /\ AttemptsFit'
  <2> USE <1>4 DEF AuthorityDecides, IInv, TypeOK
  <2>1. \A m \in Attempts : Dead(m) => Dead(m)' BY DEF Dead
  <2>2. JobsFit' BY DEF JobsFit, Calling
  <2>3. CallersFit' BY DEF CallersFit
  <2>4. \A m \in Attempts : m > latest => verdict'[m] = verdict[m]
    BY DEF AttemptsFit
  <2>5. AttemptsFit' BY <2>1, <2>4 DEF AttemptsFit
  <2> QED BY <2>2, <2>3, <2>5
<1>5. ASSUME NEW n \in Attempts, ResolveApproved(n) \/ ResolveNotAccepted(n)
      PROVE  JobsFit' /\ CallersFit' /\ AttemptsFit'
  <2>1. state[n] = "UNKNOWN_OUTCOME" /\ n <= latest
    BY <1>0, <1>5 DEF ResolveApproved, ResolveNotAccepted, IInv, AttemptsFit, TypeOK
  <2>2. CASE ResolveApproved(n)
    BY <2>1, <2>2, SettleKeeps DEF ResolveApproved, States, Failures
  <2>3. CASE ResolveNotAccepted(n)
    <3>1. Dead(n) BY <2>3 DEF ResolveNotAccepted, Dead, IInv, JobsFit
    <3> QED BY <2>1, <2>3, <3>1, SettleKeeps DEF ResolveNotAccepted, States
  <2> QED BY <1>5, <2>2, <2>3
<1>6. ASSUME UNCHANGED <<latest, state, verdict, job>>
      PROVE  JobsFit' /\ CallersFit' /\ AttemptsFit'
  <2> USE <1>6 DEF IInv
  <2>1. \A m \in Attempts : Dead(m) => Dead(m)' BY DEF Dead
  <2>2. JobsFit' BY DEF JobsFit
  <2>3. CallersFit' BY DEF CallersFit
  <2>4. AttemptsFit' BY <2>1 DEF AttemptsFit
  <2> QED BY <2>2, <2>3, <2>4
<1>7. JobsFit' /\ CallersFit' /\ AttemptsFit'
  BY <1>1, <1>2, <1>3, <1>4, <1>5, <1>6 DEF Next, LeaseExpires
<1> QED BY <1>0, <1>7 DEF IInv

THEOREM AllocationInductive == Spec => []IInv
BY InitIInv, NextKeeps, PTL DEF Spec

\* Invoice, attempts and handlers keep their types.
THEOREM AllocationTypeInvariant == Spec => []TypeOK
<1>1. IInv => TypeOK BY DEF IInv
<1> QED BY <1>1, AllocationInductive, PTL

LEMMA IInvAcceptsOnce == IInv => AcceptedOnce
<1> SUFFICES ASSUME IInv PROVE AcceptedOnce OBVIOUS
<1>1. ASSUME NEW n \in Attempts, verdict[n] \in {"sent", "accepted"} PROVE n = latest
  BY <1>1 DEF IInv, TypeOK, AttemptsFit, Dead
<1> QED BY <1>1 DEF AcceptedOnce

\* The Authority is never asked again while it may have accepted, nor accepts twice,
\* whatever overlaps, lapses, crashes or comes late, finalized alone or not.
THEOREM NumberGivenOnce == Spec => []AcceptedOnce
BY IInvAcceptsOnce, AllocationInductive, PTL

-----------------------------------------------------------------------------
(* The invoice and the rows that finalizations hold of it, however they overlap. *)

\* A number on the invoice, or on a copy of it, was given if it is the Authority's; what
\* was read as issued is issued; and the invoice is in the journal when it is issued.
HeldFits ==
  /\ \A n \in Attempts : number = n => verdict[n] = "accepted"
  /\ \A h \in Handlers :
       /\ \A n \in Attempts : job[h].number = n => verdict[n] = "accepted"
       /\ job[h].step \in {"check", "print"} /\ ~job[h].pending => ~pending
  /\ pending <=> booked = 0

LEMMA NotGiven == Typed \notin Attempts /\ NoNumber \notin Attempts
OBVIOUS

LEMMA InitHeld == Init => HeldFits
<1> SUFFICES ASSUME Init PROVE HeldFits OBVIOUS
<1>1. \A h \in Handlers : job[h].step = "idle" /\ job[h].number = NoNumber BY DEF Init, Idle
<1> QED BY <1>1, NotGiven DEF Init, HeldFits

\* What a number was given for stays given.
LEMMA GivenStays ==
  ASSUME IInv, [Next]_vars, NEW n \in Attempts, verdict[n] = "accepted"
  PROVE  verdict'[n] = "accepted"
<1>1. ASSUME NEW h \in Handlers, Submit(h) PROVE verdict'[n] = "accepted"
  BY <1>1 DEF Submit, IInv, TypeOK, JobsFit
<1>2. ASSUME NEW m \in Attempts, AuthorityDecides(m) PROVE verdict'[n] = "accepted"
  BY <1>2 DEF AuthorityDecides, IInv, TypeOK
<1>3. ASSUME NEW h \in Handlers, Handle(h), ~Submit(h) PROVE verdict' = verdict
  BY <1>3 DEF Handle, BeginAttempt, BeginLapses, BeginRefused, SubmitRefused, ReceiveApproval,
     ReceiveFailure, FinishFailure, PersistApproval, PersistRefused, PersistFails, ReadInvoice,
     CheckAttempt, SaveInvoice, FinalizeFails, Lapse
<1>4. ASSUME NEW h \in Handlers,
             \/ Request(h) \/ (\E t \in {NoNumber, Typed} : Finalize(h, t))
             \/ GetStatus(h) \/ Crash(h)
      PROVE  verdict' = verdict
  BY <1>4 DEF Request, Finalize, GetStatus, Crash
<1>5. ASSUME NEW m \in Attempts, ResolveApproved(m) \/ ResolveNotAccepted(m) \/ LeaseExpires(m)
      PROVE  verdict' = verdict
  BY <1>5 DEF ResolveApproved, ResolveNotAccepted, LeaseExpires
<1> QED BY <1>1, <1>2, <1>3, <1>4, <1>5 DEF Next

\* A handler holds what it held, what it has just read, or nothing.
Holds(h) ==
  \/ /\ job'[h].number = job[h].number /\ job'[h].pending = job[h].pending
     /\ job'[h].step \in {"check", "print"} => job[h].step \in {"check", "print"}
  \/ job'[h].number = number /\ job'[h].pending = pending
  \/ job'[h].number = NoNumber /\ job'[h].step \notin {"check", "print"}

LEMMA CopiesMade ==
  ASSUME IInv, [Next]_vars, NEW h \in Handlers
  PROVE  Holds(h)
<1>0. TypeOK /\ job[h] \in Jobs BY JobFields DEF IInv
<1> USE DEF Goto, Take, Leave, Holds
<1>1. ASSUME NEW g \in Handlers, g # h,
             \/ Handle(g) \/ Request(g) \/ (\E t \in {NoNumber, Typed} : Finalize(g, t))
             \/ GetStatus(g) \/ Crash(g)
      PROVE  job'[h] = job[h]
  BY <1>0, <1>1 DEF TypeOK, Handle, BeginAttempt, BeginLapses, BeginRefused, Submit,
     SubmitRefused, ReceiveApproval, ReceiveFailure, FinishFailure, PersistApproval,
     PersistRefused, PersistFails, ReadInvoice, CheckAttempt, SaveInvoice, FinalizeFails, Lapse,
     Request, Finalize, GetStatus, Crash
<1>2. ASSUME job'[h] = Idle PROVE Holds(h) BY <1>2 DEF Idle
<1>3. ASSUME NEW s, NEW n, s \notin {"check", "print"},
             job'[h] = [Idle EXCEPT !.step = s, !.attempt = n]
      PROVE  Holds(h)
  BY <1>3 DEF Idle
<1>4. ASSUME NEW s, s \notin {"check", "print"} \/ job[h].step \in {"check", "print"},
             NEW o, NEW t,
             \/ job'[h] = [job[h] EXCEPT !.step = s]
             \/ job'[h] = [job[h] EXCEPT !.step = s, !.outcome = o]
             \/ job'[h] = [job[h] EXCEPT !.step = s, !.typed = t]
      PROVE  Holds(h)
  BY <1>0, <1>4 DEF Jobs
<1>5. CASE \/ BeginLapses(h) \/ BeginRefused(h) \/ FinishFailure(h) \/ PersistRefused(h)
           \/ SaveInvoice(h) \/ FinalizeFails(h) \/ Lapse(h) \/ Crash(h)
  BY <1>0, <1>2, <1>5 DEF TypeOK, BeginLapses, BeginRefused, FinishFailure, PersistRefused,
     SaveInvoice, FinalizeFails, Lapse, Crash
<1> HIDE DEF Holds
<1>6. CASE \/ Request(h) \/ BeginAttempt(h) \/ PersistApproval(h) \/ GetStatus(h)
  <2>1. \E s \in {"begin", "submit", "read", "lapse"} : \E n : Take(h, s, n)
    BY <1>6 DEF Request, BeginAttempt, PersistApproval, GetStatus
  <2>2. \E s \in {"begin", "submit", "read", "lapse"} : \E n :
          job'[h] = [Idle EXCEPT !.step = s, !.attempt = n]
    BY <1>0, <2>1 DEF TypeOK
  <2> QED BY <1>3, <2>2
<1>7. CASE Submit(h) \/ ReceiveApproval(h)
  <2>1. \E s \in {"wait", "persist"} : job'[h] = [job[h] EXCEPT !.step = s]
    BY <1>0, <1>7 DEF TypeOK, Submit, ReceiveApproval
  <2> QED BY <1>4, <2>1
<1>8. CASE SubmitRefused(h) \/ ReceiveFailure(h) \/ PersistFails(h)
  <2>1. \E o : job'[h] = [job[h] EXCEPT !.step = "fail", !.outcome = o]
    BY <1>0, <1>8 DEF TypeOK, SubmitRefused, ReceiveFailure, PersistFails
  <2> QED BY <1>4, <2>1
<1>9. CASE \E t \in {NoNumber, Typed} : Finalize(h, t)
  <2>1. \E t : job'[h] = [job[h] EXCEPT !.step = "read", !.typed = t]
    BY <1>0, <1>9 DEF TypeOK, Finalize
  <2> QED BY <1>4, <2>1
<1>10. CASE CheckAttempt(h)
  <2>1. \/ job'[h] = Idle \/ job'[h] = [job[h] EXCEPT !.step = "print"]
        \/ job'[h] = [Idle EXCEPT !.step = "lapse", !.attempt = latest]
    BY <1>0, <1>10 DEF TypeOK, CheckAttempt
  <2>2. job[h].step \in {"check", "print"} BY <1>10 DEF CheckAttempt
  <2>3. CASE job'[h] = [job[h] EXCEPT !.step = "print"] BY <1>4, <2>2, <2>3
  <2>4. CASE job'[h] = [Idle EXCEPT !.step = "lapse", !.attempt = latest]
    BY <2>4 DEF Idle, Holds
  <2> QED BY <1>2, <2>1, <2>3, <2>4
<1>11. CASE ReadInvoice(h)
  <2>1. \/ job'[h] = Idle
        \/ \E s \in {"check", "print"} :
             job'[h] = [job[h] EXCEPT !.step = s, !.number = number, !.pending = pending]
    BY <1>0, <1>11 DEF TypeOK, ReadInvoice
  <2> QED BY <1>0, <1>2, <2>1 DEF Jobs, Holds
<1>12. ASSUME NEW n \in Attempts,
              \/ AuthorityDecides(n) \/ ResolveApproved(n) \/ ResolveNotAccepted(n) \/ LeaseExpires(n)
       PROVE  job' = job
  BY <1>12 DEF AuthorityDecides, ResolveApproved, ResolveNotAccepted, LeaseExpires
<1>13. CASE job'[h] = job[h] BY <1>13 DEF Holds
<1>14. CASE UNCHANGED vars BY <1>14 DEF Holds
<1> QED
  BY <1>1, <1>5, <1>6, <1>7, <1>8, <1>9, <1>10, <1>11, <1>12, <1>13, <1>14 DEF Next, Handle

\* What becomes of the invoice: nothing, an attempt's number, or a copy and its number.
LEMMA InvoiceWritten ==
  ASSUME IInv, [Next]_vars
  PROVE  \/ UNCHANGED rows
         \/ \E n \in Attempts : /\ verdict[n] = "accepted" /\ number' = n
                                /\ UNCHANGED <<pending, booked>>
         \/ \E h \in Handlers : SaveInvoice(h)
<1>1. ASSUME NEW h \in Handlers, Handle(h), ~PersistApproval(h), ~SaveInvoice(h)
      PROVE  UNCHANGED rows
  BY <1>1 DEF Handle, BeginAttempt, BeginLapses, BeginRefused, Submit, SubmitRefused,
     ReceiveApproval, ReceiveFailure, FinishFailure, PersistRefused, PersistFails, ReadInvoice,
     CheckAttempt, FinalizeFails, Lapse
<1>2. ASSUME NEW h \in Handlers, PersistApproval(h)
      PROVE  /\ job[h].attempt \in Attempts /\ verdict[job[h].attempt] = "accepted"
             /\ number' = job[h].attempt /\ UNCHANGED <<pending, booked>>
  BY <1>2, OwnAttempt DEF PersistApproval, Calling, IInv, JobsFit
<1>3. ASSUME NEW h \in Handlers,
             \/ Request(h) \/ (\E t \in {NoNumber, Typed} : Finalize(h, t))
             \/ GetStatus(h) \/ Crash(h)
      PROVE  UNCHANGED rows
  BY <1>3 DEF Request, Finalize, GetStatus, Crash
<1>4. ASSUME NEW n \in Attempts, ResolveApproved(n)
      PROVE  verdict[n] = "accepted" /\ number' = n /\ UNCHANGED <<pending, booked>>
  BY <1>4 DEF ResolveApproved
<1>5. ASSUME NEW n \in Attempts, AuthorityDecides(n) \/ ResolveNotAccepted(n) \/ LeaseExpires(n)
      PROVE  UNCHANGED rows
  BY <1>5 DEF AuthorityDecides, ResolveNotAccepted, LeaseExpires
<1>6. CASE UNCHANGED vars BY <1>6
<1> HIDE DEF rows
<1> QED BY <1>1, <1>2, <1>3, <1>4, <1>5, <1>6 DEF Next

LEMMA HeldStep ==
  ASSUME IInv, HeldFits, [Next]_vars
  PROVE  HeldFits'
<1> USE DEF HeldFits
<1>0. booked \in Nat /\ pending \in BOOLEAN BY DEF IInv, TypeOK
<1>1. \A n \in Attempts : verdict[n] = "accepted" => verdict'[n] = "accepted" BY GivenStays
<1>2. /\ \A n \in Attempts : number' = n => verdict[n] = "accepted"
      /\ ~pending => ~pending'
      /\ pending' <=> booked' = 0
  <2>1. CASE UNCHANGED rows BY <2>1
  <2>2. CASE \E n \in Attempts : /\ verdict[n] = "accepted" /\ number' = n
                                 /\ UNCHANGED <<pending, booked>>
    BY <2>2
  <2>3. ASSUME NEW h \in Handlers, SaveInvoice(h)
        PROVE  /\ \A n \in Attempts : number' = n => verdict[n] = "accepted"
               /\ ~pending' /\ booked' # 0
    <3>1. job[h].typed \in {NoNumber, Typed} /\ job[h].pending \in BOOLEAN
      BY JobFields DEF IInv
    <3>2. /\ number' \in {Typed, job[h].number} /\ pending' = FALSE
          /\ booked' = booked + (IF job[h].pending THEN 1 ELSE 0)
          /\ job[h].step = "print"
      BY <2>3, <3>1 DEF SaveInvoice
    <3>3. booked' # 0
      <4>1. CASE job[h].pending BY <1>0, <3>2, <4>1
      <4>2. CASE ~job[h].pending BY <1>0, <3>2, <4>2
      <4> QED BY <4>1, <4>2
    <3> QED BY <3>2, <3>3, NotGiven
  <2> QED BY <2>1, <2>2, <2>3, InvoiceWritten
<1>3. ASSUME NEW h \in Handlers
      PROVE  /\ \A n \in Attempts : job'[h].number = n => verdict[n] = "accepted"
             /\ job'[h].step \in {"check", "print"} /\ ~job'[h].pending => ~pending
  BY CopiesMade DEF Holds
<1> QED BY <1>1, <1>2, <1>3

THEOREM HeldInductive == Spec => [](IInv /\ HeldFits)
<1>1. Init => IInv /\ HeldFits BY InitIInv, InitHeld
<1>2. IInv /\ HeldFits /\ [Next]_vars => (IInv /\ HeldFits)' BY NextKeeps, HeldStep
<1> QED BY <1>1, <1>2, PTL DEF Spec

\* However finalizations overlap, fail and crash, no invoice is issued that is not in the
\* journal, and none is in the journal that is not issued.  (One that two finalizations
\* read pending is in it twice.)
THEOREM IssuedIsBooked == Spec => [](pending <=> booked = 0)
<1>1. IInv /\ HeldFits => (pending <=> booked = 0) BY DEF HeldFits
<1> QED BY <1>1, HeldInductive, PTL

\* A finalization that read another number, or none, saves its copy of the invoice.
SavesStaleCopy(n) ==
  \E h \in Handlers : job[h].step = "print" /\ job[h].number # n /\ number' = job[h].number

\* However requests, finalizations and operators overlap, an invoice loses a number of the
\* Authority's in one way only: a finalization that had read the invoice without it saves
\* what it read.  None gets another number of the Authority's instead.
THEOREM OnlyStaleCopiesErase ==
  Spec => [][\A n \in Attempts : number = n /\ number' \notin {n, Typed} =>
                SavesStaleCopy(n) /\ number' = NoNumber]_vars
<1> DEFINE Lost == \A n \in Attempts : number = n /\ number' \notin {n, Typed} =>
                     SavesStaleCopy(n) /\ number' = NoNumber
<1>1. ASSUME IInv, HeldFits, [Next]_vars PROVE Lost
  <2> SUFFICES ASSUME NEW n \in Attempts, number = n, number' \notin {n, Typed}
               PROVE  SavesStaleCopy(n) /\ number' = NoNumber
    OBVIOUS
  <2>1. \A m \in Attempts : verdict[m] = "accepted" => m = n
    <3>1. AcceptedOnce BY <1>1, IInvAcceptsOnce
    <3>2. verdict[n] = "accepted" BY <1>1 DEF HeldFits
    <3> QED BY <3>1, <3>2 DEF AcceptedOnce
  <2>2. PICK h \in Handlers : SaveInvoice(h) BY <1>1, <2>1, InvoiceWritten DEF rows
  <2>3. job[h].number \in Numbers /\ job[h].typed \in {NoNumber, Typed}
    BY <1>1, JobFields DEF IInv
  <2>4. number' = job[h].number /\ job[h].step = "print" BY <2>2, <2>3 DEF SaveInvoice
  <2>5. job[h].number \notin Attempts BY <1>1, <2>1, <2>4 DEF HeldFits
  <2> QED BY <2>3, <2>4, <2>5 DEF SavesStaleCopy, Numbers
<1>2. IInv /\ HeldFits /\ [Next]_vars => [Lost]_vars BY <1>1
<1> QED BY <1>2, HeldInductive, PTL DEF Spec

-----------------------------------------------------------------------------
(* The inductive invariant of an invoice that is finalized alone. *)

\* One handler finalizes, and beside it another requests only in vain.
AloneFits == \A g, h \in Handlers : g # h /\ job[g].step \in Finalizing =>
  /\ job[h].step \notin Finalizing
  /\ job[h].step \in Requesting => number # NoNumber

\* No attempt runs once the number is there.
NumberFits == number # NoNumber => \A n \in Attempts : state[n] # "PROCESSING"

\* The rows a finalization has read are the rows, those of an invoice that wants a
\* number or has yet to be issued, and no number is to come.
CopiesFit == \A h \in Handlers :
  /\ job[h].step \in {"check", "print"} =>
       /\ job[h].number = number /\ job[h].pending = pending
       /\ pending \/ number = NoNumber
  /\ job[h].step = "check" => number = NoNumber
  /\ job[h].step = "print" /\ number = NoNumber =>
       \A n \in Attempts : Dead(n) /\ state[n] # "PROCESSING"

\* An open attempt holds the invoice back until its number is there.
OpenFits == \A n \in Attempts : ~Dead(n) =>
  \/ number = NoNumber /\ pending /\ state[n] \in Unresolved
  \/ number \in {n, Typed} /\ verdict[n] = "accepted"

IssueInv == AloneFits /\ NumberFits /\ CopiesFit /\ OpenFits /\ BookedOnce

LEMMA InitIssueInv == Init => IssueInv
<1> SUFFICES ASSUME Init PROVE IssueInv OBVIOUS
<1>1. \A h \in Handlers : job[h].step = "idle" BY DEF Init, Idle
<1>2. \A n \in Attempts : Dead(n) BY <1>1 DEF Init, Dead
<1> QED
  BY <1>1, <1>2 DEF Init, IssueInv, AloneFits, NumberFits, CopiesFit, OpenFits, BookedOnce,
     Finalizing

\* No handler starts on a request or a finalization.
NothingBegins == \A h \in Handlers :
  \/ job'[h] = job[h]
  \/ /\ job'[h].step \notin Finalizing \cup {"submit"}
     /\ job'[h].step \in Requesting => job[h].step \in Requesting

\* Only what is open goes on, and only what is dead is decided against.
OpenGoesOn == \A n \in Attempts :
  /\ verdict'[n] = verdict[n] \/ (~Dead(n) /\ verdict[n] \in {"unsent", "sent"})
  /\ \/ state'[n] \in {state[n], "UNKNOWN_OUTCOME"}
     \/ state'[n] # "PROCESSING" /\ Dead(n)

\* A step that begins nothing, leaves the invoice alone and settles only what is dead.
LEMMA Undisturbed ==
  ASSUME IInv, IssueInv, UNCHANGED <<pending, number, booked>>, NothingBegins, OpenGoesOn
  PROVE  IssueInv'
<1> USE DEF NothingBegins, OpenGoesOn
<1> USE DEF IssueInv
<1>1. \A n \in Attempts : Dead(n) => Dead(n)'
  BY DEF Dead, IInv, TypeOK, Finalizing
<1>2. AloneFits' BY DEF AloneFits, Finalizing
<1>3. NumberFits' BY DEF NumberFits
<1>4. CopiesFit' BY <1>1 DEF CopiesFit, Finalizing
<1>5. OpenFits' BY <1>1 DEF OpenFits, Unresolved
<1>6. BookedOnce' BY DEF BookedOnce
<1> QED BY <1>2, <1>3, <1>4, <1>5, <1>6

\* The steps that begin nothing.
LEMMA QuietSteps ==
  ASSUME IInv, IssueInv, NEW h \in Handlers,
         \/ BeginLapses(h) \/ BeginRefused(h) \/ Submit(h) \/ SubmitRefused(h)
         \/ ReceiveApproval(h) \/ ReceiveFailure(h) \/ FinishFailure(h) \/ PersistRefused(h)
         \/ PersistFails(h) \/ FinalizeFails(h) \/ Lapse(h) \/ GetStatus(h) \/ Crash(h)
  PROVE  IssueInv'
<1>0. TypeOK /\ job[h] \in Jobs /\ latest \in Attempts \cup {0} BY JobFields DEF IInv, TypeOK
<1> USE DEF Goto, Take, Leave, Settle, Finalizing, Requesting
<1>1. \A g \in Handlers : g # h => job'[g] = job[g]
  BY <1>0 DEF TypeOK, BeginLapses, BeginRefused, Submit, SubmitRefused, ReceiveApproval,
     ReceiveFailure, FinishFailure, PersistRefused, PersistFails, FinalizeFails, Lapse,
     GetStatus, Crash
<1>2. ASSUME job'[h] = Idle PROVE job'[h].step \notin Finalizing \cup Requesting
  BY <1>2 DEF Idle
<1>3. ASSUME job'[h].step \notin Finalizing \cup {"submit"},
             job'[h].step \in Requesting => job[h].step \in Requesting
      PROVE  NothingBegins
  BY <1>1, <1>3 DEF NothingBegins
<1>4. ASSUME UNCHANGED <<state, verdict>> PROVE OpenGoesOn
  BY <1>4 DEF OpenGoesOn
<1>5. CASE BeginLapses(h) \/ BeginRefused(h) \/ PersistRefused(h) \/ FinalizeFails(h) \/ Crash(h)
  <2>1. job'[h] = Idle
    BY <1>0, <1>5 DEF TypeOK, BeginLapses, BeginRefused, PersistRefused, FinalizeFails, Crash
  <2>2. UNCHANGED <<pending, number, booked, verdict>>
    BY <1>5 DEF BeginLapses, BeginRefused, PersistRefused, FinalizeFails, Crash
  <2>3. \A n \in Attempts : state'[n] \in {state[n], "UNKNOWN_OUTCOME"}
    BY <1>0, <1>5 DEF TypeOK, BeginLapses, BeginRefused, PersistRefused, FinalizeFails, Crash
  <2>4. NothingBegins BY <1>2, <1>3, <2>1
  <2>5. OpenGoesOn BY <2>2, <2>3 DEF OpenGoesOn
  <2> QED BY <2>2, <2>4, <2>5, Undisturbed
<1>6. CASE Submit(h)
  <2>1. job'[h].step = "wait" /\ job[h].step = "submit" BY <1>0, <1>6 DEF TypeOK, Submit, Jobs
  <2>2. ~Dead(job[h].attempt) /\ verdict[job[h].attempt] = "unsent"
    BY <1>6 DEF Submit, Dead, IInv, JobsFit
  <2>3. OpenGoesOn BY <1>0, <1>6, <2>2 DEF OpenGoesOn, Submit, TypeOK
  <2>4. NothingBegins BY <1>3, <2>1
  <2> QED BY <1>6, <2>3, <2>4, Undisturbed DEF Submit
<1>7. CASE SubmitRefused(h) \/ ReceiveApproval(h) \/ ReceiveFailure(h) \/ PersistFails(h)
  <2>1. \E s \in {"persist", "fail"}, t \in States :
          \/ job'[h] = [job[h] EXCEPT !.step = s]
          \/ job'[h] = [job[h] EXCEPT !.step = s, !.outcome = t]
    BY <1>0, <1>7 DEF TypeOK, SubmitRefused, ReceiveApproval, ReceiveFailure, PersistFails,
       States, Failures
  <2>2. job'[h].step \in {"persist", "fail"} BY <1>0, <2>1 DEF Jobs
  <2>3. job[h].step \in Requesting
    BY <1>7 DEF SubmitRefused, ReceiveApproval, ReceiveFailure, PersistFails
  <2>4. UNCHANGED <<pending, number, booked, state, verdict>>
    BY <1>7 DEF SubmitRefused, ReceiveApproval, ReceiveFailure, PersistFails
  <2> QED BY <1>3, <1>4, <2>2, <2>3, <2>4, Undisturbed
<1>8. CASE FinishFailure(h) \/ Lapse(h)
  <2>1. job'[h] = Idle BY <1>0, <1>8 DEF TypeOK, FinishFailure, Lapse
  <2>2. UNCHANGED <<pending, number, booked, verdict>> BY <1>8 DEF FinishFailure, Lapse
  <2>3. ASSUME NEW n \in Attempts, state'[n] # state[n], state'[n] # "UNKNOWN_OUTCOME"
        PROVE  state'[n] # "PROCESSING" /\ Dead(n)
    <3>1. FinishFailure(h) /\ n = job[h].attempt /\ state'[n] = job[h].outcome
      BY <1>0, <1>8, <2>3 DEF TypeOK, FinishFailure, Lapse
    <3>2. state'[n] \in Failures /\ verdict[n] \in {"unsent", "refused"}
      BY <2>3, <3>1 DEF FinishFailure, IInv, JobsFit
    <3>3. \A g \in Handlers : ~(job[g].step = "submit" /\ job[g].attempt = n)
      BY <3>1 DEF FinishFailure, IInv, CallersFit, Calling
    <3> QED BY <3>2, <3>3 DEF Dead, Failures
  <2>4. NothingBegins BY <1>2, <1>3, <2>1
  <2>5. OpenGoesOn BY <2>2, <2>3 DEF OpenGoesOn
  <2> QED BY <2>2, <2>4, <2>5, Undisturbed
<1>9. CASE GetStatus(h)
  <2>1. job'[h].step = "lapse" BY <1>0, <1>9 DEF TypeOK, GetStatus, Idle
  <2> QED BY <1>3, <1>4, <1>9, <2>1, Undisturbed DEF GetStatus
<1> QED BY <1>5, <1>6, <1>7, <1>8, <1>9

\* A handler comes in, alone where it has to be.
LEMMA ArrivalKeeps ==
  ASSUME FinalizedAlone, IInv, IssueInv, NEW h \in Handlers,
         Request(h) \/ (\E t \in {NoNumber, Typed} : Finalize(h, t))
  PROVE  IssueInv'
<1>0. TypeOK /\ job[h] \in Jobs BY JobFields DEF IInv
<1> USE DEF IssueInv
<1>1. \A g \in Handlers : g # h => job'[g] = job[g]
  BY <1>0 DEF TypeOK, Request, Finalize, Take
<1>2. ASSUME NEW t \in {NoNumber, Typed}, Finalize(h, t)
      PROVE  /\ job'[h].step = "read"
             /\ \A g \in Handlers : job[g].step \notin Requesting \cup Finalizing
  <2>1. job'[h] = [job[h] EXCEPT !.step = "read", !.typed = t]
    BY <1>0, <1>2 DEF TypeOK, Finalize
  <2> QED BY <1>0, <1>2, <2>1 DEF Finalize, Quiet, Jobs
<1>3. /\ job'[h].step \in {"begin", "read"}
      /\ \A g \in Handlers : job[g].step \notin Finalizing
      /\ job'[h].step = "read" =>
           \A g \in Handlers : job[g].step \in Requesting => number # NoNumber
  <2>1. CASE Request(h)
    <3>1. job'[h].step = IF number = NoNumber THEN "begin" ELSE "read"
      BY <1>0, <2>1 DEF TypeOK, Request, Take, Idle
    <3> QED BY <2>1, <3>1 DEF Request, Quiet
  <2> QED BY <1>2, <2>1
<1>4. UNCHANGED <<pending, number, booked, latest, state, verdict>>
  BY DEF Request, Finalize
<1>5. \A n \in Attempts : Dead(n) => Dead(n)' BY <1>1, <1>3, <1>4 DEF Dead
<1>6. AloneFits' BY <1>1, <1>3, <1>4 DEF AloneFits, Finalizing, Requesting
<1>7. NumberFits' BY <1>4 DEF NumberFits
<1>8. CopiesFit' BY <1>1, <1>3, <1>4, <1>5 DEF CopiesFit
<1>9. OpenFits' BY <1>4, <1>5 DEF OpenFits
<1>10. BookedOnce' BY <1>4 DEF BookedOnce
<1> QED BY <1>6, <1>7, <1>8, <1>9, <1>10

\* A new attempt finds an invoice that nobody finalizes.
LEMMA BeginKeeps ==
  ASSUME IInv, IssueInv, NEW h \in Handlers, BeginAttempt(h)
  PROVE  IssueInv'
<1>0. TypeOK /\ latest' \in Attempts BY DEF IInv, TypeOK, BeginAttempt
<1> USE DEF IssueInv
<1>1. \A g \in Handlers : g # h => job'[g] = job[g]
  BY <1>0 DEF TypeOK, BeginAttempt, Take
<1>2. job'[h].step = "submit" /\ job'[h].attempt = latest'
  BY <1>0 DEF TypeOK, BeginAttempt, Take, Idle
<1>3. \A g \in Handlers : job[g].step \notin Finalizing
  BY DEF AloneFits, BeginAttempt, Requesting, Finalizing
<1>4. UNCHANGED <<pending, number, booked, verdict>> /\ number = NoNumber /\ pending
  BY DEF BeginAttempt
<1>5. \A n \in Attempts : n # latest' => state'[n] = state[n] /\ (Dead(n) => Dead(n)')
  BY <1>0, <1>1, <1>2, <1>4 DEF TypeOK, BeginAttempt, Dead
<1>6. state'[latest'] = "PROCESSING" BY <1>0 DEF TypeOK, BeginAttempt
<1>7. \A g \in Handlers : job'[g].step \notin Finalizing BY <1>1, <1>2, <1>3 DEF Finalizing
<1>8. AloneFits' BY <1>7 DEF AloneFits
<1>9. NumberFits' BY <1>4 DEF NumberFits
<1>10. CopiesFit' BY <1>7 DEF CopiesFit, Finalizing
<1>11. OpenFits' BY <1>4, <1>5, <1>6 DEF OpenFits, Unresolved
<1>12. BookedOnce' BY <1>4 DEF BookedOnce
<1> QED BY <1>8, <1>9, <1>10, <1>11, <1>12

\* An answer in time finds the invoice without a number, and nobody who finalizes it.
LEMMA PersistKeeps ==
  ASSUME IInv, IssueInv, NEW h \in Handlers, PersistApproval(h)
  PROVE  IssueInv' /\ number = NoNumber
<1> DEFINE n == job[h].attempt
<1>0. TypeOK /\ n \in Attempts BY OwnAttempt DEF IInv, PersistApproval, Calling
<1> USE DEF IssueInv
<1>1. \A g \in Handlers : g # h => job'[g] = job[g]
  BY <1>0 DEF TypeOK, PersistApproval, Take
<1>2. job'[h].step = "read" BY <1>0 DEF TypeOK, PersistApproval, Take, Idle
<1>3. state[n] = "PROCESSING" /\ verdict[n] = "accepted"
  BY DEF PersistApproval, IInv, JobsFit
<1>4. number = NoNumber BY <1>0, <1>3 DEF NumberFits
<1>5. \A g \in Handlers : job[g].step \notin Finalizing
  BY <1>4 DEF AloneFits, PersistApproval, Requesting, Finalizing
<1>6. UNCHANGED <<pending, booked, verdict>> /\ number' = n /\ number' # NoNumber
  BY <1>0 DEF PersistApproval
<1>7. \A m \in Attempts : m # n => Dead(m) /\ state[m] # "PROCESSING"
  <2>1. ~Dead(n) BY <1>3 DEF Dead
  <2>2. n = latest BY <1>0, <1>3, <2>1 DEF IInv, AttemptsFit, TypeOK
  <2> QED BY <1>0, <2>2 DEF IInv, AttemptsFit, JobsFit, Dead, Calling, TypeOK
<1>8. \A m \in Attempts : state'[m] # "PROCESSING"
  BY <1>0, <1>7 DEF TypeOK, PersistApproval, Settle
<1>9. \A m \in Attempts : Dead(m) => Dead(m)' BY <1>1, <1>2, <1>6 DEF Dead
<1>10. AloneFits' BY <1>1, <1>2, <1>5, <1>6 DEF AloneFits
<1>11. NumberFits' BY <1>8 DEF NumberFits
<1>12. CopiesFit' BY <1>1, <1>2, <1>5 DEF CopiesFit, Finalizing
<1>13. OpenFits' BY <1>3, <1>6, <1>7, <1>9 DEF OpenFits
<1>14. BookedOnce' BY <1>6 DEF BookedOnce
<1> QED BY <1>4, <1>10, <1>11, <1>12, <1>13, <1>14

\* The handler that finalizes reads the rows and looks at the attempts.
LEMMA ReadingKeeps ==
  ASSUME IInv, IssueInv, NEW h \in Handlers, ReadInvoice(h) \/ CheckAttempt(h)
  PROVE  IssueInv'
<1>0. TypeOK /\ job[h] \in Jobs /\ latest \in Attempts \cup {0} BY JobFields DEF IInv, TypeOK
<1>1. \A g \in Handlers : g # h => job'[g] = job[g]
  BY <1>0 DEF TypeOK, ReadInvoice, CheckAttempt, Goto, Take, Leave
<1>2. UNCHANGED <<pending, number, booked, latest, state, verdict>> /\ job[h].step \in Finalizing
  BY DEF ReadInvoice, CheckAttempt, Finalizing
<1>3. OpenGoesOn BY <1>2 DEF OpenGoesOn
<1>4. CASE job'[h].step \notin Finalizing \cup Requesting
  BY <1>1, <1>2, <1>3, <1>4, Undisturbed DEF NothingBegins, Requesting
<1>5. ASSUME job'[h].step \in {"check", "print"},
             job'[h].number = number /\ job'[h].pending = pending,
             pending \/ number = NoNumber,
             job'[h].step = "check" => number = NoNumber,
             job'[h].step = "print" /\ number = NoNumber =>
               \A n \in Attempts : Dead(n) /\ state[n] # "PROCESSING"
      PROVE  IssueInv'
  <2> USE DEF IssueInv
  <2>1. \A n \in Attempts : Dead(n) => Dead(n)' BY <1>1, <1>2, <1>5 DEF Dead
  <2>2. AloneFits' BY <1>1, <1>2, <1>5 DEF AloneFits, Finalizing, Requesting
  <2>3. NumberFits' BY <1>2 DEF NumberFits
  <2>4. CopiesFit' BY <1>1, <1>2, <1>5, <2>1 DEF CopiesFit
  <2>5. OpenFits' BY <1>2, <2>1 DEF OpenFits
  <2>6. BookedOnce' BY <1>2 DEF BookedOnce
  <2> QED BY <2>2, <2>3, <2>4, <2>5, <2>6
<1>6. CASE ReadInvoice(h)
  <2>1. CASE number # NoNumber /\ ~pending
    <3>1. job' = [job EXCEPT ![h] = Idle] BY <1>6, <2>1 DEF ReadInvoice, Leave
    <3> QED BY <1>0, <1>4, <3>1 DEF TypeOK, Idle, Finalizing, Requesting
  <2>2. CASE ~(number # NoNumber /\ ~pending)
    <3>1. job' = [job EXCEPT ![h] =
            [@ EXCEPT !.step = IF number = NoNumber THEN "check" ELSE "print",
                      !.number = number, !.pending = pending]]
      BY <1>6, <2>2 DEF ReadInvoice
    <3>2. pending \/ number = NoNumber BY <1>0, <2>2 DEF TypeOK
    <3>3. job'[h] = [job[h] EXCEPT !.step = IF number = NoNumber THEN "check" ELSE "print",
                                   !.number = number, !.pending = pending]
      BY <1>0, <3>1 DEF TypeOK
    <3>4. /\ job'[h].step = IF number = NoNumber THEN "check" ELSE "print"
          /\ job'[h].number = number /\ job'[h].pending = pending
      BY <1>0, <3>3 DEF Jobs
    <3> QED BY <1>5, <3>2, <3>4
  <2> QED BY <2>1, <2>2
<1>7. CASE CheckAttempt(h)
  <2>1. CASE Take(h, "lapse", latest) \/ Leave(h)
    <3>1. job'[h] = [Idle EXCEPT !.step = "lapse", !.attempt = latest] \/ job'[h] = Idle
      BY <1>0, <2>1 DEF TypeOK, Take, Leave
    <3>2. [Idle EXCEPT !.step = "lapse", !.attempt = latest].step = "lapse" /\ Idle.step = "idle"
      BY DEF Idle
    <3>3. job'[h].step \in {"lapse", "idle"} BY <3>1, <3>2
    <3> QED BY <1>4, <3>3 DEF Finalizing, Requesting
  <2>2. CASE Goto(h, "print") /\ (latest # 0 => state[latest] \notin Unresolved)
    <3>1. job'[h] = [job[h] EXCEPT !.step = "print"] BY <1>0, <2>2 DEF TypeOK, Goto
    <3>2. job[h].number = number /\ job[h].pending = pending /\ number = NoNumber
      BY <1>7 DEF CheckAttempt, IssueInv, CopiesFit
    <3>3. job'[h].step = "print" /\ job'[h].number = number /\ job'[h].pending = pending
      BY <1>0, <3>1, <3>2 DEF Jobs
    <3>4. ASSUME NEW n \in Attempts PROVE Dead(n) /\ state[n] # "PROCESSING"
      <4>1. CASE n = latest
        BY <1>0, <2>2, <3>2, <4>1 DEF IssueInv, OpenFits, Unresolved
      <4>2. CASE n > latest
        BY <1>0, <4>2 DEF IInv, AttemptsFit, JobsFit, Dead, Calling
      <4>3. CASE n < latest BY <4>3 DEF IInv, AttemptsFit
      <4> QED BY <1>0, <4>1, <4>2, <4>3
    <3> QED BY <1>5, <3>2, <3>3, <3>4
  <2> QED BY <1>7, <2>1, <2>2 DEF CheckAttempt
<1> QED BY <1>6, <1>7

\* What is saved is what was read, or what the owner typed.
LEMMA SaveKeeps ==
  ASSUME IInv, IssueInv, NEW h \in Handlers, SaveInvoice(h)
  PROVE  IssueInv' /\ number' \in {number, Typed}
<1>0. TypeOK /\ job[h].typed \in {NoNumber, Typed} BY JobFields DEF IInv
<1> USE DEF IssueInv
<1>1. \A g \in Handlers : g # h => job'[g] = job[g]
  BY <1>0 DEF TypeOK, SaveInvoice, Leave
<1>2. job'[h].step = "idle" BY <1>0 DEF TypeOK, SaveInvoice, Leave, Idle
<1>3. job[h].number = number /\ job[h].pending = pending BY DEF SaveInvoice, CopiesFit
<1>4. number' \in {number, Typed} BY <1>0, <1>3 DEF SaveInvoice
<1>5. UNCHANGED <<state, verdict>> /\ pending' = FALSE BY DEF SaveInvoice
<1>6. \A n \in Attempts : Dead(n) => Dead(n)' BY <1>1, <1>2, <1>5 DEF Dead
<1>7. number = NoNumber => \A n \in Attempts : Dead(n) /\ state[n] # "PROCESSING"
  BY DEF SaveInvoice, CopiesFit
<1>8. \A g \in Handlers : job'[g].step \notin Finalizing
  BY <1>1, <1>2 DEF AloneFits, SaveInvoice, Finalizing
<1>9. AloneFits' BY <1>8 DEF AloneFits
<1>10. NumberFits' BY <1>5, <1>7 DEF NumberFits
<1>11. CopiesFit' BY <1>8 DEF CopiesFit, Finalizing
<1>12. OpenFits' BY <1>4, <1>5, <1>6, <1>7 DEF OpenFits
<1>13. BookedOnce' BY <1>0, <1>3, <1>5 DEF BookedOnce, SaveInvoice, TypeOK
<1> QED BY <1>4, <1>9, <1>10, <1>11, <1>12, <1>13

\* The operator finds the invoice without a number, or with the one that is confirmed.
LEMMA ResolveKeeps ==
  ASSUME FinalizedAlone, IInv, IssueInv, NEW n \in Attempts, ResolveApproved(n)
  PROVE  IssueInv'
<1>0. TypeOK BY DEF IInv
<1> USE DEF IssueInv
<1>1. UNCHANGED <<pending, booked, verdict, job>> /\ number' = n /\ verdict[n] = "accepted"
  BY DEF ResolveApproved
<1>2. \A g \in Handlers : job[g].step \notin Finalizing BY DEF ResolveApproved, Quiet
<1>3. ~Dead(n) /\ n = latest
  BY <1>0, <1>1 DEF IInv, AttemptsFit, Dead, TypeOK
<1>4. \A m \in Attempts : m # n => Dead(m) /\ state[m] # "PROCESSING"
  BY <1>0, <1>3 DEF IInv, AttemptsFit, JobsFit, Dead, Calling, TypeOK
<1>5. \A m \in Attempts : state'[m] # "PROCESSING"
  BY <1>0, <1>4 DEF TypeOK, ResolveApproved, Settle
<1>6. \A m \in Attempts : Dead(m) => Dead(m)' BY <1>1 DEF Dead
<1>7. AloneFits' BY <1>1, <1>2 DEF AloneFits
<1>8. NumberFits' BY <1>5 DEF NumberFits
<1>9. CopiesFit' BY <1>1, <1>2 DEF CopiesFit, Finalizing
<1>10. OpenFits' BY <1>1, <1>4, <1>6 DEF OpenFits
<1>11. BookedOnce' BY <1>1 DEF BookedOnce
<1> QED BY <1>7, <1>8, <1>9, <1>10, <1>11

\* The Authority's own decision, the end of a lease, the operator's refusal.
LEMMA OutsideKeeps ==
  ASSUME IInv, IssueInv, NEW n \in Attempts,
         AuthorityDecides(n) \/ ResolveNotAccepted(n) \/ LeaseExpires(n)
  PROVE  IssueInv'
<1>0. TypeOK BY DEF IInv
<1>1. UNCHANGED <<pending, number, booked, job>>
  BY DEF AuthorityDecides, ResolveNotAccepted, LeaseExpires
<1>2. NothingBegins BY <1>1 DEF NothingBegins
<1>3. OpenGoesOn
  <2>1. CASE AuthorityDecides(n) BY <1>0, <2>1 DEF AuthorityDecides, OpenGoesOn, Dead, TypeOK
  <2>2. CASE ResolveNotAccepted(n)
    <3>1. Dead(n) BY <2>2 DEF ResolveNotAccepted, Dead, IInv, JobsFit
    <3> QED BY <1>0, <2>2, <3>1 DEF ResolveNotAccepted, Settle, OpenGoesOn, TypeOK
  <2>3. CASE LeaseExpires(n) BY <2>3 DEF LeaseExpires, OpenGoesOn
  <2> QED BY <2>1, <2>2, <2>3
<1> QED BY <1>1, <1>2, <1>3, Undisturbed

LEMMA IssueKeeps ==
  ASSUME FinalizedAlone, IInv, IssueInv, [Next]_vars
  PROVE  IssueInv'
<1>1. ASSUME NEW h \in Handlers, Handle(h) PROVE IssueInv'
  BY <1>1, QuietSteps, BeginKeeps, PersistKeeps, ReadingKeeps, SaveKeeps DEF Handle
<1>2. ASSUME NEW h \in Handlers,
             Request(h) \/ (\E t \in {NoNumber, Typed} : Finalize(h, t))
      PROVE  IssueInv'
  BY <1>2, ArrivalKeeps
<1>3. ASSUME NEW h \in Handlers, GetStatus(h) \/ Crash(h) PROVE IssueInv'
  BY <1>3, QuietSteps
<1>4. ASSUME NEW n \in Attempts,
             AuthorityDecides(n) \/ ResolveApproved(n) \/ ResolveNotAccepted(n) \/ LeaseExpires(n)
      PROVE  IssueInv'
  BY <1>4, OutsideKeeps, ResolveKeeps
<1>5. CASE UNCHANGED vars
  BY <1>5, Undisturbed DEF NothingBegins, OpenGoesOn
<1> QED BY <1>1, <1>2, <1>3, <1>4, <1>5 DEF Next

THEOREM IssueInductive == FinalizedAlone => (Spec => [](IInv /\ IssueInv))
<1> SUFFICES ASSUME FinalizedAlone PROVE Spec => [](IInv /\ IssueInv) OBVIOUS
<1>1. Init => IInv /\ IssueInv BY InitIInv, InitIssueInv
<1>2. IInv /\ IssueInv /\ [Next]_vars => (IInv /\ IssueInv)' BY NextKeeps, IssueKeeps
<1> QED BY <1>1, <1>2, PTL DEF Spec

\* No invoice is issued behind the back of a request that may still get a number.
THEOREM NothingIssuedBlindly == FinalizedAlone => (Spec => []IssuedKnowingly)
<1>1. ASSUME IInv, IssueInv PROVE IssuedKnowingly
  BY <1>1 DEF IssueInv, OpenFits, Dead, IssuedKnowingly
<1> QED BY <1>1, IssueInductive, PTL

-----------------------------------------------------------------------------
(* An invoice that is finalized alone implements the numbered invoice. *)

\* What the promise is about.
visible == <<pending, number, booked, verdict>>

LEMMA Invisible == UNCHANGED visible => UNCHANGED Invoice!invoice
BY DEF visible, Invoice!invoice

\* Beside an attempt that may get a number, or has one, no other was or will be accepted.
LEMMA AloneAtTheAuthority ==
  ASSUME IInv, NEW n \in Attempts, ~Dead(n), NEW m \in Attempts, m # n
  PROVE  verdict[m] \notin {"sent", "accepted"}
<1>1. latest \in Attempts \cup {0} BY DEF IInv, TypeOK
<1>2. ~(n < latest) BY DEF IInv, AttemptsFit
<1>3. ~(n > latest)
  <2>1. ASSUME n > latest PROVE Dead(n) BY <1>1, <2>1 DEF IInv, AttemptsFit, JobsFit, Dead, Calling
  <2> QED BY <2>1
<1>4. n = latest BY <1>1, <1>2, <1>3
<1>5. CASE m > latest BY <1>5 DEF IInv, AttemptsFit
<1>6. CASE m < latest BY <1>6 DEF IInv, AttemptsFit, Dead
<1> QED BY <1>1, <1>4, <1>5, <1>6

\* A request that leaves finds the invoice waiting and the Authority without another.
LEMMA SubmitAsks ==
  ASSUME IInv, IssueInv, NEW h \in Handlers, Submit(h)
  PROVE  \E n \in Attempts : Invoice!Ask(n)
<1> DEFINE n == job[h].attempt
<1>1. n \in Attempts BY OwnAttempt DEF Submit, Calling
<1>2. verdict[n] = "unsent" /\ ~Dead(n) BY DEF Submit, IInv, JobsFit, Dead
<1>3. number = NoNumber /\ pending BY <1>1, <1>2 DEF IssueInv, OpenFits
<1>4. \A m \in Attempts : verdict[m] \notin {"sent", "accepted"}
  BY <1>1, <1>2, AloneAtTheAuthority
<1>5. \A m \in Attempts : verdict'[m] = IF m = n THEN "sent" ELSE verdict[m]
  BY <1>1 DEF Submit, IInv, TypeOK
<1>6. UNCHANGED <<pending, number, booked>> BY DEF Submit
<1> HIDE DEF n
<1>7. {m \in Attempts : verdict[m] = "sent"} = {} /\ {m \in Attempts : verdict[m] = "accepted"} = {}
  BY <1>4
<1>8. {m \in Attempts : verdict'[m] = "sent"} = {n} BY <1>1, <1>4, <1>5
<1>9. {m \in Attempts : verdict'[m] = "accepted"} = {} BY <1>4, <1>5
<1> QED BY <1>1, <1>3, <1>6, <1>7, <1>8, <1>9 DEF Invoice!Ask

LEMMA DecisionAnswers ==
  ASSUME IInv, NEW n \in Attempts, AuthorityDecides(n)
  PROVE  Invoice!Grant(n) \/ Invoice!Refuse(n)
<1>1. UNCHANGED <<pending, number, booked>> /\ verdict[n] = "sent" BY DEF AuthorityDecides
<1>2. PICK v \in {"accepted", "refused"} :
        \A m \in Attempts : verdict'[m] = IF m = n THEN v ELSE verdict[m]
  BY DEF AuthorityDecides, IInv, TypeOK
<1>3. {m \in Attempts : verdict'[m] = "sent"} = {m \in Attempts : verdict[m] = "sent"} \ {n}
  BY <1>2
<1>4. CASE v = "accepted"
  <2>1. {m \in Attempts : verdict'[m] = "accepted"} =
        {m \in Attempts : verdict[m] = "accepted"} \cup {n}
    BY <1>2, <1>4
  <2> QED BY <1>1, <1>3, <2>1 DEF Invoice!Grant
<1>5. CASE v = "refused"
  <2>1. {m \in Attempts : verdict'[m] = "accepted"} = {m \in Attempts : verdict[m] = "accepted"}
    BY <1>1, <1>2, <1>5
  <2> QED BY <1>1, <1>3, <2>1 DEF Invoice!Refuse
<1> QED BY <1>2, <1>4, <1>5

\* An answer in time and the operator put the number that was given on an open invoice.
LEMMA ApprovalRecords ==
  ASSUME IInv, IssueInv,
         (\E h \in Handlers : PersistApproval(h)) \/ (\E n \in Attempts : ResolveApproved(n))
  PROVE  (\E n \in Attempts : Invoice!Record(n)) \/ UNCHANGED visible
<1>1. PICK n \in Attempts : /\ verdict[n] = "accepted" /\ number' = n
                            /\ number \in {NoNumber, n}
                            /\ UNCHANGED <<pending, booked, verdict>>
  <2>1. ASSUME NEW h \in Handlers, PersistApproval(h)
        PROVE  /\ job[h].attempt \in Attempts /\ verdict[job[h].attempt] = "accepted"
               /\ number' = job[h].attempt /\ number = NoNumber
               /\ UNCHANGED <<pending, booked, verdict>>
    BY <2>1, OwnAttempt, PersistKeeps DEF PersistApproval, Calling, IInv, JobsFit
  <2>2. ASSUME NEW n \in Attempts, ResolveApproved(n)
        PROVE  /\ verdict[n] = "accepted" /\ number' = n /\ number \in {NoNumber, n}
               /\ UNCHANGED <<pending, booked, verdict>>
    BY <2>2 DEF ResolveApproved
  <2> QED BY <2>1, <2>2
<1>2. CASE number = NoNumber
  <2>1. pending BY <1>1, <1>2 DEF IssueInv, OpenFits, Dead
  <2> QED BY <1>1, <1>2, <2>1 DEF Invoice!Record
<1> QED BY <1>1, <1>2 DEF visible

\* What is saved is issued, or gets its owner's number, or was saved before.
LEMMA SaveIssues ==
  ASSUME IInv, IssueInv, NEW h \in Handlers, SaveInvoice(h)
  PROVE  Invoice!Issue \/ Invoice!Attach \/ UNCHANGED visible
<1>1. /\ job[h].pending = pending
      /\ pending \/ number = NoNumber
      /\ number = NoNumber => \A n \in Attempts : Dead(n)
  BY DEF SaveInvoice, IssueInv, CopiesFit
<1>2. number' \in {number, Typed} BY SaveKeeps
<1>3. pending' = FALSE /\ verdict' = verdict /\ booked \in Nat /\ pending \in BOOLEAN
  BY DEF SaveInvoice, IInv, TypeOK
<1>4. booked' = IF pending THEN booked + 1 ELSE booked BY <1>1, <1>3 DEF SaveInvoice
<1>5. CASE pending
  <2>1. number = NoNumber =>
          {n \in Attempts : verdict[n] = "sent"} \cup {n \in Attempts : verdict[n] = "accepted"} = {}
    BY <1>1 DEF Dead
  <2> QED BY <1>2, <1>3, <1>4, <1>5, <2>1 DEF Invoice!Issue
<1>6. CASE ~pending
  BY <1>1, <1>2, <1>3, <1>4, <1>6 DEF Invoice!Attach, visible
<1> QED BY <1>5, <1>6

LEMMA NextImplements ==
  ASSUME IInv, IssueInv, [Next]_vars
  PROVE  [Invoice!Next]_Invoice!invoice
<1>1. ASSUME NEW h \in Handlers, Handle(h)
      PROVE  Invoice!Next \/ UNCHANGED Invoice!invoice
  <2>1. CASE Submit(h) BY <2>1, SubmitAsks DEF Invoice!Next
  <2>2. CASE PersistApproval(h) BY <2>2, ApprovalRecords, Invisible DEF Invoice!Next
  <2>3. CASE SaveInvoice(h) BY <2>3, SaveIssues, Invisible DEF Invoice!Next
  <2>4. CASE ~Submit(h) /\ ~PersistApproval(h) /\ ~SaveInvoice(h)
    <3>1. UNCHANGED visible
      BY <1>1, <2>4 DEF Handle, visible, BeginAttempt, BeginLapses, BeginRefused, SubmitRefused,
         ReceiveApproval, ReceiveFailure, FinishFailure, PersistRefused, PersistFails,
         ReadInvoice, CheckAttempt, FinalizeFails, Lapse
    <3> QED BY <3>1, Invisible
  <2> QED BY <2>1, <2>2, <2>3, <2>4
<1>2. ASSUME NEW h \in Handlers,
             \/ Request(h) \/ (\E t \in {NoNumber, Typed} : Finalize(h, t))
             \/ GetStatus(h) \/ Crash(h)
      PROVE  UNCHANGED Invoice!invoice
  <2>1. UNCHANGED visible BY <1>2 DEF visible, Request, Finalize, GetStatus, Crash
  <2> QED BY <2>1, Invisible
<1>3. ASSUME NEW n \in Attempts, AuthorityDecides(n) PROVE Invoice!Next
  BY <1>3, DecisionAnswers DEF Invoice!Next
<1>4. ASSUME NEW n \in Attempts, ResolveApproved(n)
      PROVE  Invoice!Next \/ UNCHANGED Invoice!invoice
  BY <1>4, ApprovalRecords, Invisible DEF Invoice!Next
<1>5. ASSUME NEW n \in Attempts, ResolveNotAccepted(n) \/ LeaseExpires(n)
      PROVE  UNCHANGED Invoice!invoice
  <2>1. UNCHANGED visible BY <1>5 DEF visible, ResolveNotAccepted, LeaseExpires
  <2> QED BY <2>1, Invisible
<1>6. CASE UNCHANGED vars BY <1>6, Invisible DEF visible
<1> QED BY <1>1, <1>2, <1>3, <1>4, <1>5, <1>6 DEF Next

\* Whatever requests overlap, lapse, crash or are clarified, the rows of an invoice that
\* is finalized alone implement the promise to its owner (requestAndFinalize,
\* finalizeAllocation, resolveUnknown).
THEOREM ImplementsInvoice == FinalizedAlone => (Spec => InvoiceSpec)
<1> SUFFICES ASSUME FinalizedAlone PROVE Spec => InvoiceSpec OBVIOUS
<1>1. Init => Invoice!Init BY DEF Init, Invoice!Init
<1> QED BY <1>1, IssueInductive, NextImplements, PTL DEF Spec, InvoiceSpec, Invoice!Spec

\* What the promise amounts to: an issued invoice waits for no number, was booked once,
\* and has the number it was given unless its owner had another.
THEOREM InvoiceIsSound == FinalizedAlone => (Spec => []Invoice!InvoiceSound)
<1> SUFFICES ASSUME FinalizedAlone PROVE Spec => []Invoice!InvoiceSound OBVIOUS
<1>1. Invoice!Init => Invoice!InvoiceSound BY DEF Invoice!Init, Invoice!InvoiceSound
<1>2. Invoice!InvoiceSound /\ [Invoice!Next]_Invoice!invoice => Invoice!InvoiceSound'
  <2> SUFFICES ASSUME Invoice!InvoiceSound, [Invoice!Next]_Invoice!invoice
               PROVE  Invoice!InvoiceSound'
    OBVIOUS
  <2> USE DEF Invoice!InvoiceSound
  <2>1. ASSUME NEW n \in Attempts, Invoice!Ask(n) PROVE Invoice!InvoiceSound'
    BY <2>1 DEF Invoice!Ask
  <2>2. ASSUME NEW n \in Attempts, Invoice!Grant(n) PROVE Invoice!InvoiceSound'
    BY <2>2 DEF Invoice!Grant
  <2>3. ASSUME NEW n \in Attempts, Invoice!Refuse(n) PROVE Invoice!InvoiceSound'
    BY <2>3 DEF Invoice!Refuse
  <2>4. ASSUME NEW n \in Attempts, Invoice!Record(n) PROVE Invoice!InvoiceSound'
    BY <2>4 DEF Invoice!Record
  <2>5. CASE Invoice!Issue BY <2>5 DEF Invoice!Issue
  <2>6. CASE Invoice!Attach BY <2>6 DEF Invoice!Attach
  <2>7. CASE UNCHANGED Invoice!invoice BY <2>7 DEF Invoice!invoice
  <2> QED BY <2>1, <2>2, <2>3, <2>4, <2>5, <2>6, <2>7 DEF Invoice!Next
<1> QED BY <1>1, <1>2, ImplementsInvoice, PTL DEF InvoiceSpec, Invoice!Spec
=============================================================================
