-------------------------- MODULE InvoiceAllocation --------------------------
(***************************************************************************)
(* The allocation number of one invoice.  A large invoice is saved without *)
(* PDF and journal entry, as PENDING_ALLOCATION.  Its owner has the Tax    *)
(* Authority (SHAAM) asked for a number, types one in, or goes without;    *)
(* finalization then prints, books and issues the invoice.                 *)
(*                                                                         *)
(* A request whose outcome is unknown is not repeated before an operator   *)
(* has clarified it.  The number of an attempt is the attempt itself.      *)
(* Amounts, tokens, payload hash (the rows of a saved invoice are not      *)
(* edited), PDF contents and file names, which are unique, are left out.   *)
(***************************************************************************)
EXTENDS Naturals

CONSTANTS
  Handlers,     \* HTTP requests about the invoice, handled at the same time
  MaxAttempts,  \* bound on the attempts of the invoice
  Typed,        \* a number the owner brings along
  NoNumber,
  FinalizedAlone  \* nothing else happens to the invoice while it is finalized,
                  \* which no code ensures

ASSUME AllocationAssumption ==
  /\ MaxAttempts \in Nat
  /\ FinalizedAlone \in BOOLEAN
  /\ Typed # NoNumber
  /\ {Typed, NoNumber} \cap Nat = {}

VARIABLES
  pending,  \* documents.docStatus is PENDING_ALLOCATION
  number,   \* documents.allocationNum
  booked,   \* journal entries of the invoice
  latest,   \* the highest attemptNumber
  state,    \* shaam_invoice_allocation_attempt.state
  live,     \* attempts whose lease has not expired
  verdict,  \* what became of the request of an attempt at the Authority
  job       \* what each handler is doing, and the rows it has read

rows == <<pending, number, booked>>
attempts == <<latest, state, live>>
vars == <<rows, attempts, verdict, job>>

Attempts == 1 .. MaxAttempts
Numbers == Attempts \cup {Typed, NoNumber}
Failures == {"REJECTED", "VALIDATION_FAILED", "DEFINITIVE_FAILURE"}
States == Failures \cup
  {"NONE", "PROCESSING", "APPROVED", "APPROVED_MANUAL", "UNKNOWN_OUTCOME", "SAFE_TO_RETRY"}
Unresolved == {"PROCESSING", "UNKNOWN_OUTCOME"}
Requesting == {"begin", "submit", "wait", "persist", "fail"}
Finalizing == {"read", "check", "print"}
Steps == Requesting \cup Finalizing \cup {"idle", "lapse"}

Idle == [step |-> "idle", attempt |-> 0, outcome |-> "NONE",
         typed |-> NoNumber, number |-> NoNumber, pending |-> FALSE]
Jobs == [step : Steps, attempt : Attempts \cup {0}, outcome : States,
         typed : {Typed, NoNumber}, number : Numbers, pending : BOOLEAN]

Init ==
  /\ pending = TRUE /\ number = NoNumber /\ booked = 0
  /\ latest = 0 /\ live = {}
  /\ state = [n \in Attempts |-> "NONE"]
  /\ verdict = [n \in Attempts |-> "unsent"]
  /\ job = [h \in Handlers |-> Idle]

Goto(h, s) == job' = [job EXCEPT ![h] = [@ EXCEPT !.step = s]]
Take(h, s, n) == job' = [job EXCEPT ![h] = [Idle EXCEPT !.step = s, !.attempt = n]]
Leave(h) == job' = [job EXCEPT ![h] = Idle]

\* No handler is at one of the steps S, if the invoice is finalized alone.
Quiet(S) == FinalizedAlone => \A h \in Handlers : job[h].step \notin S

\* An attempt gets the state s, and with it loses its lease.
Settle(n, s) ==
  /\ state' = [state EXCEPT ![n] = s]
  /\ live' = live \ {n}
  /\ UNCHANGED latest

-----------------------------------------------------------------------------
(* requestAndFinalize *)

\* Read without a lock: a number that is there already is only finalized.
Request(h) ==
  /\ job[h] = Idle /\ pending
  /\ Quiet(Finalizing)
  /\ Take(h, IF number = NoNumber THEN "begin" ELSE "read", 0)
  /\ UNCHANGED <<rows, attempts, verdict>>

\* Mutant of Retryable: an unknown outcome is tried again.
RetryableUnlessApproved ==
  latest # 0 => state[latest] \in {"UNKNOWN_OUTCOME", "SAFE_TO_RETRY", "DEFINITIVE_FAILURE"}

Retryable == latest # 0 => state[latest] \in {"SAFE_TO_RETRY", "DEFINITIVE_FAILURE"}

\* Under the locks of the invoice and its latest attempt, a new attempt is written.
BeginAttempt(h) ==
  /\ job[h].step = "begin"
  /\ number = NoNumber /\ pending
  /\ Retryable
  /\ latest < MaxAttempts
  /\ latest' = latest + 1
  /\ state' = [state EXCEPT ![latest'] = "PROCESSING"]
  /\ live' = live \cup {latest'}
  /\ Take(h, "submit", latest')
  /\ UNCHANGED <<rows, verdict>>

\* The request of a handler that is gone is declared unknown, the caller refused.
BeginLapses(h) ==
  /\ job[h].step = "begin"
  /\ number = NoNumber /\ pending
  /\ latest # 0 /\ state[latest] = "PROCESSING" /\ latest \notin live
  /\ Settle(latest, "UNKNOWN_OUTCOME")
  /\ Leave(h)
  /\ UNCHANGED <<rows, verdict>>

\* The number is there, the invoice issued, or the attempt running, unknown or terminal.
BeginRefused(h) ==
  /\ job[h].step = "begin"
  /\ \/ number # NoNumber \/ ~pending
     \/ ~Retryable /\ (state[latest] = "PROCESSING" => latest \in live)
  /\ Leave(h)
  /\ UNCHANGED <<rows, attempts, verdict>>

Submit(h) ==
  /\ job[h].step = "submit"
  /\ verdict' = [verdict EXCEPT ![job[h].attempt] = "sent"]
  /\ Goto(h, "wait")
  /\ UNCHANGED <<rows, attempts>>

\* Amounts that do not add up are not sent.
SubmitRefused(h) ==
  /\ job[h].step = "submit"
  /\ job' = [job EXCEPT ![h] = [@ EXCEPT !.step = "fail", !.outcome = "VALIDATION_FAILED"]]
  /\ UNCHANGED <<rows, attempts, verdict>>

\* The Authority gives a number, or refuses; a request that never arrives is refused.
AuthorityDecides(n) ==
  /\ verdict[n] = "sent"
  /\ \E v \in {"accepted", "refused"} : verdict' = [verdict EXCEPT ![n] = v]
  /\ UNCHANGED <<rows, attempts, job>>

ReceiveApproval(h) ==
  /\ job[h].step = "wait" /\ verdict[job[h].attempt] = "accepted"
  /\ Goto(h, "persist")
  /\ UNCHANGED <<rows, attempts, verdict>>

\* Mutant of ReceiveFailure: a timeout is taken for a definitive failure.
ReceiveTimeoutAsFailure(h) ==
  /\ job[h].step = "wait"
  /\ \E s \in Failures : job' = [job EXCEPT ![h] = [@ EXCEPT !.step = "fail", !.outcome = s]]
  /\ UNCHANGED <<rows, attempts, verdict>>

\* approved = false, 400 and 422, and the definite client errors; anything else (timeout,
\* network, 5xx, a success that cannot be read) leaves the outcome unknown.
ReceiveFailure(h) ==
  /\ job[h].step = "wait"
  /\ \E s \in Failures \cup {"UNKNOWN_OUTCOME"} :
       /\ s \in Failures => verdict[job[h].attempt] = "refused"
       /\ job' = [job EXCEPT ![h] = [@ EXCEPT !.step = "fail", !.outcome = s]]
  /\ UNCHANGED <<rows, attempts, verdict>>

\* The attempt read before the request is saved, whatever its row says by now.
FinishFailure(h) ==
  /\ job[h].step = "fail"
  /\ Settle(job[h].attempt, job[h].outcome)
  /\ Leave(h)
  /\ UNCHANGED <<rows, verdict>>

\* Number and attempt in one transaction; finalization follows.
PersistApproval(h) ==
  /\ job[h].step = "persist" /\ state[job[h].attempt] = "PROCESSING"
  /\ number' = job[h].attempt
  /\ Settle(job[h].attempt, "APPROVED")
  /\ Take(h, "read", 0)
  /\ UNCHANGED <<pending, booked, verdict>>

\* Somebody declared the attempt unknown: the number is not kept.
PersistRefused(h) ==
  /\ job[h].step = "persist" /\ state[job[h].attempt] # "PROCESSING"
  /\ Leave(h)
  /\ UNCHANGED <<rows, attempts, verdict>>

\* The transaction is rolled back: it locks attempt and invoice in the other order than
\* beginAttempt and may be the victim of a deadlock, or the connection fails.
PersistFails(h) ==
  /\ job[h].step = "persist"
  /\ job' = [job EXCEPT ![h] = [@ EXCEPT !.step = "fail", !.outcome = "UNKNOWN_OUTCOME"]]
  /\ UNCHANGED <<rows, attempts, verdict>>

-----------------------------------------------------------------------------
(* finalizeAllocation *)

\* With a number of the owner's, or without one.
Finalize(h, t) ==
  /\ job[h] = Idle
  /\ Quiet(Requesting \cup Finalizing)
  /\ job' = [job EXCEPT ![h] = [@ EXCEPT !.step = "read", !.typed = t]]
  /\ UNCHANGED <<rows, attempts, verdict>>

\* Mutant of ReadInvoice: an invoice that has its number is saved once more.
ReadAnyInvoice(h) ==
  /\ job[h].step = "read"
  /\ job' = [job EXCEPT ![h] =
       [@ EXCEPT !.step = IF number = NoNumber THEN "check" ELSE "print",
                 !.number = number, !.pending = pending]]
  /\ UNCHANGED <<rows, attempts, verdict>>

\* Read without a lock, and kept until SaveInvoice.
ReadInvoice(h) ==
  /\ job[h].step = "read"
  /\ IF number # NoNumber /\ ~pending
     THEN Leave(h)
     ELSE job' = [job EXCEPT ![h] =
            [@ EXCEPT !.step = IF number = NoNumber THEN "check" ELSE "print",
                      !.number = number, !.pending = pending]]
  /\ UNCHANGED <<rows, attempts, verdict>>

\* Mutant of CheckAttempt: the attempts are not looked at.
SkipCheck(h) ==
  /\ job[h].step = "check"
  /\ Goto(h, "print")
  /\ UNCHANGED <<rows, attempts, verdict>>

\* Not while the outcome of a request is open.
CheckAttempt(h) ==
  /\ job[h].step = "check"
  /\ \/ /\ latest # 0 => state[latest] \notin Unresolved
        /\ Goto(h, "print")
     \/ /\ latest # 0 /\ state[latest] = "PROCESSING" /\ latest \notin live
        /\ Take(h, "lapse", latest)
     \/ /\ latest # 0 /\ state[latest] \in Unresolved
        /\ state[latest] = "PROCESSING" => latest \in live
        /\ Leave(h)
  /\ UNCHANGED <<rows, attempts, verdict>>

\* The PDFs are made, and the whole invoice saved as it was read; it is booked if it
\* was pending then.
SaveInvoice(h) ==
  /\ job[h].step = "print"
  /\ number' = IF job[h].typed # NoNumber THEN job[h].typed ELSE job[h].number
  /\ pending' = FALSE
  /\ booked' = booked + (IF job[h].pending THEN 1 ELSE 0)
  /\ Leave(h)
  /\ UNCHANGED <<attempts, verdict>>

\* PDF, upload or database: the transaction is rolled back, the files deleted.
FinalizeFails(h) ==
  /\ job[h].step = "print"
  /\ Leave(h)
  /\ UNCHANGED <<rows, attempts, verdict>>

-----------------------------------------------------------------------------
(* getStatus, and the operator *)

\* Mutant of GetStatus: the status is only reported.
ReportStatus(h) ==
  /\ job[h] = Idle
  /\ latest # 0 /\ state[latest] = "PROCESSING" /\ latest \notin live
  /\ UNCHANGED vars

\* The page asks for the status, and finds a request that runs for too long.
GetStatus(h) ==
  /\ job[h] = Idle
  /\ latest # 0 /\ state[latest] = "PROCESSING" /\ latest \notin live
  /\ Take(h, "lapse", latest)
  /\ UNCHANGED <<rows, attempts, verdict>>

\* The attempt that was read is saved as unknown, whatever its row says by now.
Lapse(h) ==
  /\ job[h].step = "lapse"
  /\ Settle(job[h].attempt, "UNKNOWN_OUTCOME")
  /\ Leave(h)
  /\ UNCHANGED <<rows, verdict>>

\* The Authority confirms to the operator that it gave the number.
ResolveApproved(n) ==
  /\ state[n] = "UNKNOWN_OUTCOME" /\ Quiet(Finalizing)
  /\ verdict[n] = "accepted"
  /\ number \in {NoNumber, n}
  /\ number' = n
  /\ Settle(n, "APPROVED_MANUAL")
  /\ UNCHANGED <<pending, booked, verdict, job>>

\* ... or that it did not, and that nothing is on its way.
ResolveNotAccepted(n) ==
  /\ state[n] = "UNKNOWN_OUTCOME"
  /\ \/ verdict[n] = "refused"
     \/ verdict[n] = "unsent" /\ \A h \in Handlers : job[h].attempt = n => job[h].step # "submit"
  /\ Settle(n, "SAFE_TO_RETRY")
  /\ UNCHANGED <<rows, verdict, job>>

-----------------------------------------------------------------------------
(* Time and crashes *)

LeaseExpires(n) ==
  /\ n \in live
  /\ live' = live \ {n}
  /\ UNCHANGED <<rows, latest, state, verdict, job>>

\* The handler is gone; what it had committed stays.
Crash(h) ==
  /\ job[h] # Idle
  /\ Leave(h)
  /\ UNCHANGED <<rows, attempts, verdict>>

Handle(h) ==
  \/ BeginAttempt(h) \/ BeginLapses(h) \/ BeginRefused(h)
  \/ Submit(h) \/ SubmitRefused(h) \/ ReceiveApproval(h) \/ ReceiveFailure(h)
  \/ FinishFailure(h) \/ PersistApproval(h) \/ PersistRefused(h) \/ PersistFails(h)
  \/ ReadInvoice(h) \/ CheckAttempt(h) \/ SaveInvoice(h) \/ FinalizeFails(h)
  \/ Lapse(h)

Next ==
  \/ \E h \in Handlers :
       \/ Request(h)
       \/ \E t \in {NoNumber, Typed} : Finalize(h, t)
       \/ GetStatus(h)
       \/ Handle(h)
       \/ Crash(h)
  \/ \E n \in Attempts :
       \/ AuthorityDecides(n)
       \/ ResolveApproved(n) \/ ResolveNotAccepted(n)
       \/ LeaseExpires(n)

Spec == Init /\ [][Next]_vars

\* A handler comes to its end or is gone, a lease ends, the page asks for the status
\* again and again and is answered in the end, and the operator works through
\* listUnknownAttempts.
Fairness ==
  /\ \A h \in Handlers : WF_vars(Handle(h) \/ Crash(h))
  /\ SF_vars(\E h \in Handlers : GetStatus(h)) /\ SF_vars(\E h \in Handlers : Lapse(h))
  /\ \A n \in Attempts : WF_vars(LeaseExpires(n)) /\ SF_vars(ResolveApproved(n))

FairSpec == Spec /\ Fairness

-----------------------------------------------------------------------------
TypeOK ==
  /\ pending \in BOOLEAN /\ number \in Numbers /\ booked \in Nat
  /\ latest \in Attempts \cup {0}
  /\ state \in [Attempts -> States]
  /\ live \subseteq Attempts
  /\ verdict \in [Attempts -> {"unsent", "sent", "accepted", "refused"}]
  /\ job \in [Handlers -> Jobs]

\* The Authority never gives two numbers for one invoice, and a request is not sent
\* while another may still be accepted: attempts are repeated only after an answer that
\* excludes it, whatever handlers run, lapse or crash (beginAttempt, classifyFailure).
AcceptedOnce ==
  \A m, n \in Attempts :
    verdict[m] \in {"sent", "accepted"} /\ verdict[n] \in {"sent", "accepted"} => m = n

\* An invoice is in the journal exactly when it is issued, and once: a retry after a
\* failure, or a number attached later, books nothing again (finalizeAllocation).
\* (The code breaks this when two finalizations overlap.)
BookedOnce == booked = IF pending THEN 0 ELSE 1

\* No invoice is issued while the Authority may have given, or has given, a number that
\* is not on it, unless its owner typed one in (finalizeAllocation, resolveUnknown).
IssuedKnowingly ==
  \A n \in Attempts :
    verdict[n] \in {"sent", "accepted"} => pending \/ number \in {n, Typed}

\* A number of the Authority's is never erased or replaced by another of its own; only
\* a number the owner types takes its place (documents.service.ts:1660).  (The code
\* breaks this when a finalization saves a copy read before the number was stored.)
NumberKept == [][\A n \in Attempts : number = n => number' \in {n, Typed}]_vars

\* What the owner is promised: requests, leases, copies of rows and clarifications
\* implement it.  Beyond the properties above, no number is asked for once the invoice is
\* issued or has one, and an issued invoice with a number is not touched again
\* (requestAndFinalize, beginAttempt, finalizeAllocation).
Invoice == INSTANCE NumberedInvoice WITH
  Requests <- Attempts,
  asked <- {n \in Attempts : verdict[n] = "sent"},
  granted <- {n \in Attempts : verdict[n] = "accepted"},
  issued <- ~pending,
  entries <- booked

InvoiceSpec == Invoice!Spec

\* A number the Authority gave reaches the invoice although answers are lost, saved
\* rows overwritten and handlers crash: the attempt is found unknown, and clarified.
AcceptedIsRecorded ==
  \A n \in Attempts : verdict[n] = "accepted" ~> number \in {n, Typed}
=============================================================================
