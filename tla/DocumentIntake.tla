--------------------------- MODULE DocumentIntake ---------------------------
(* The intake of a WhatsApp document (lychee-intake.service.ts over           *)
(* lychee-event.store.ts): one document, the replies to its question, the     *)
(* import pipeline (DocumentImport) and the question's way to the phone       *)
(* (MessageOutbox).  A notice joins the outbox in the transaction that writes *)
(* the status it reports, so a status stands for its notice too; its delivery *)
(* is MessageOutbox again.  A worker is one run of the intake tick; its       *)
(* random lease token is its own name.                                        *)
EXTENDS DocumentImport, MessageOutbox

CONSTANTS Document, Replies, \* the event of the document and those of the answers
          Label(_),          \* the business a reply names
          MaxAttempts        \* 5 in the code

Question == CHOOSE m \in Messages : TRUE  \* the one message followed to the phone
ASSUME IntakeAssumption ==
  /\ Document \notin Replies /\ Nobody \notin Importers \cup Senders \cup Messages
  /\ Nobody \notin Replies \cup {Document}
  /\ Businesses # {} /\ NoBusiness \notin Businesses /\ NoFile \notin Files
  /\ \A r \in Replies : Label(r) \in Businesses
  /\ \E m \in Messages : Messages = {m}
  /\ MaxAttempts \in Nat \ {0}

Workers == Importers  \* the intake ticks are the importers of this document
Events == {Document} \cup Replies

VARIABLES row,    \* the lychee_intake_events row of each event
          job,    \* the event each tick has claimed and how far it is
          owned   \* the businesses of the account: several, or one

vars == <<row, job, owned, importVars, out, sender>>

Undecided == {"PENDING", "PROCESSING", "RETRY"}
Imported == {"IMPORTED", "ALREADY_IMPORTED"}
Terminal == Imported \cup
  {"REJECTED", "FAILED", "BLOCKED_IMPORT", "BUSINESS_SELECTED", "BUSINESS_LOCKED",
   "REJECTED_BUSINESS_SELECTION"}
EventStatuses == Undecided \cup Terminal \cup {"NONE", "WAITING_FOR_BUSINESS"}

EventRows == [status: EventStatuses, owner: Workers \cup {Nobody}, live: BOOLEAN,
              attempts: 0..MaxAttempts, business: Businesses \cup {NoBusiness}, linked: BOOLEAN]
WorkerSteps == {"IDLE", "PROCESS", "IMPORT", "SELECT", "SELECTED", "EXPLAIN"}

TypeOK ==
  /\ ImportTypeOK /\ OutboxTypeOK
  /\ row \in [Events -> EventRows]
  /\ job \in [Workers -> [event: Events \cup {Nobody}, step: WorkerSteps]]
  /\ owned \in SUBSET Businesses

IdleWorker == [event |-> Nobody, step |-> "IDLE"]

Init ==
  /\ ImportInit /\ OutboxInit
  /\ row = [e \in Events |-> [status |-> "NONE", owner |-> Nobody, live |-> FALSE,
                              attempts |-> 0, business |-> NoBusiness, linked |-> FALSE]]
  /\ job = [w \in Workers |-> IdleWorker]
  /\ owned \in {Businesses, {CHOOSE b \in Businesses : TRUE}}

At(w, step) == job[w].step = step
Idle(w) == job' = [job EXCEPT ![w] = IdleWorker]
GoesTo(w, step) == job' = [job EXCEPT ![w].step = step]

\* ---- The webhook ----

\* The event is stored before the webhook is acknowledged; repeated deliveries change nothing.
Accept ==
  /\ row[Document].status = "NONE"
  /\ row' = [row EXCEPT ![Document].status = "PENDING"]
  /\ UNCHANGED <<job, owned, importVars, outboxVars>>

\* The customer answers the question that reached the phone, perhaps twice.
Answer(r) ==
  /\ out[Question].delivered > 0
  /\ row[r].status = "NONE"
  /\ row' = [row EXCEPT ![r].status = "PENDING"]
  /\ UNCHANGED <<job, owned, importVars, outboxVars>>

\* ---- Leases and attempts ----

\* Nobody reads the attempts of a decided event again.
Released(e, status) ==
  [row[e] EXCEPT !.status = status, !.owner = Nobody, !.live = FALSE,
                 !.attempts = IF status \in Terminal THEN 0 ELSE @]

\* Every update of a claimed row names the token of the claim.
Owns(w) == row[job[w].event].owner = w

LastAttemptLost(e) ==
  row[e].status = "PROCESSING" /\ ~row[e].live /\ row[e].attempts >= MaxAttempts

\* A claim first fails the events whose last attempt never came back.
FailLost(e) ==
  /\ \E w \in Workers : At(w, "IDLE")
  /\ LastAttemptLost(e)
  /\ row' = [row EXCEPT ![e] = Released(e, "FAILED")]
  /\ UNCHANGED <<job, owned, importVars, outboxVars>>

\* Mutant of ClaimEvent: only rows that are due are claimed, not those of a tick that died.
ClaimDue(w, e) ==
  /\ At(w, "IDLE")
  /\ row[e].status \in {"PENDING", "RETRY"}
  /\ row' = [row EXCEPT ![e] = [@ EXCEPT !.status = "PROCESSING", !.owner = w, !.live = TRUE,
                                         !.attempts = row[e].attempts + 1]]
  /\ job' = [job EXCEPT ![w] = [event |-> e, step |-> "PROCESS"]]
  /\ UNCHANGED <<owned, importVars, outboxVars>>

\* It then takes an event that is due, or one whose lease has run out.
ClaimEvent(w, e) ==
  /\ At(w, "IDLE")
  /\ \A x \in Events : ~LastAttemptLost(x)
  /\ \/ row[e].status \in {"PENDING", "RETRY"}
     \/ row[e].status = "PROCESSING" /\ ~row[e].live
  /\ row' = [row EXCEPT ![e] = [@ EXCEPT !.status = "PROCESSING", !.owner = w, !.live = TRUE,
                                         !.attempts = row[e].attempts + 1]]
  /\ job' = [job EXCEPT ![w] = [event |-> e, step |-> "PROCESS"]]
  /\ UNCHANGED <<owned, importVars, outboxVars>>

\* The attempt ends with this status, or finds that its lease is lost.
Conclude(w, status) ==
  LET e == job[w].event
  IN  /\ row' = IF Owns(w) THEN [row EXCEPT ![e] = Released(e, status)] ELSE row
      /\ Idle(w)
      /\ UNCHANGED <<owned, outboxVars>>

\* Any error: the attempt is repeated after a minute, or was the last one.
Retry(w) ==
  Conclude(w, IF row[job[w].event].attempts >= MaxAttempts THEN "FAILED" ELSE "RETRY")

\* Mutant of Destination: without a choice the first business of the account is taken.
FirstBusiness(w) ==
  IF Owns(w) /\ row[Document].business # NoBusiness THEN row[Document].business
  ELSE CHOOSE b \in owned : TRUE

\* The business a document goes to: the one the customer chose, which only the owner of
\* the lease can read, or the only one there is.
Destination(w) ==
  IF Owns(w) /\ row[Document].business # NoBusiness THEN row[Document].business
  ELSE IF Cardinality(owned) = 1 THEN CHOOSE b \in owned : TRUE ELSE NoBusiness

\* No account or sender, a changed owner, an unsupported medium, a business lost meanwhile.
Reject(w) ==
  /\ At(w, "PROCESS")
  /\ row' = IF ~Owns(w) THEN row
            ELSE [row EXCEPT ![job[w].event] =
                    [Released(job[w].event, "REJECTED") EXCEPT !.business = NoBusiness]]
  /\ Idle(w)
  /\ UNCHANGED <<owned, importVars, outboxVars>>

ProcessFails(w) ==
  /\ At(w, "PROCESS")
  /\ Retry(w)
  /\ UNCHANGED importVars

\* ---- The document ----

Processes(w) == At(w, "PROCESS") /\ job[w].event = Document

\* The document waits and its question joins the outbox in one transaction.
AskBusiness(w) ==
  /\ Processes(w)
  /\ Destination(w) = NoBusiness
  /\ IF Owns(w)
     THEN /\ row' = [row EXCEPT ![Document] = Released(Document, "WAITING_FOR_BUSINESS")]
          /\ out' = [out EXCEPT ![Question] = Staged(Question)]
     ELSE UNCHANGED <<row, out>>
  /\ Idle(w)
  /\ UNCHANGED <<owned, importVars, sender>>

\* The file was downloaded and the import begins, in the business read from the row.
BeginImport(w) ==
  /\ Processes(w)
  /\ Destination(w) # NoBusiness
  /\ StartImport(w, Destination(w))
  /\ GoesTo(w, "IMPORT")
  /\ UNCHANGED <<row, owned, archive, outboxVars>>

\* A typed blocker: a file of the wrong kind or size, a folder that was never provisioned.
Block(w) ==
  /\ Processes(w)
  /\ Destination(w) # NoBusiness
  /\ Conclude(w, "BLOCKED_IMPORT")
  /\ UNCHANGED importVars

\* The row names the business and the result.
Complete(w) ==
  /\ At(w, "IMPORT") /\ importer[w].step \in Imported
  /\ LET done == [Released(Document, importer[w].step) EXCEPT !.business = importer[w].business]
     IN  row' = IF Owns(w) THEN [row EXCEPT ![Document] = done] ELSE row
  /\ Idle(w)
  /\ EndImport(w)
  /\ UNCHANGED <<owned, archive, outboxVars>>

\* The import was skipped, or its result could not be stored.
ImportFails(w) ==
  /\ At(w, "IMPORT") /\ importer[w].step \in Imported \cup {"SKIPPED"}
  /\ Retry(w)
  /\ EndImport(w)
  /\ UNCHANGED archive

\* ---- The answers ----

\* A reply is matched by the quoted question of a document that still waits.
Match(w) ==
  /\ At(w, "PROCESS") /\ job[w].event \in Replies
  /\ LET waits == row[Document].status = "WAITING_FOR_BUSINESS" /\ row[Document].linked
     IN  GoesTo(w, IF waits THEN "SELECT" ELSE "EXPLAIN")
  /\ UNCHANGED <<row, owned, importVars, outboxVars>>

\* Mutant of StillWaits: the document found by the match is updated by its identifier alone.
StillFound == TRUE

StillWaits == row[Document].status = "WAITING_FOR_BUSINESS"

\* The first answer decides and puts the document back to work with fresh attempts.
Select(w) ==
  /\ At(w, "SELECT")
  /\ IF StillWaits
     THEN /\ row' = [row EXCEPT ![Document] =
                      [@ EXCEPT !.business = Label(job[w].event),
                                !.status = "PENDING", !.attempts = 0]]
          /\ GoesTo(w, "SELECTED")
     ELSE GoesTo(w, "EXPLAIN") /\ UNCHANGED row
  /\ UNCHANGED <<owned, importVars, outboxVars>>

ReplyAccepted(w) ==
  /\ At(w, "SELECTED")
  /\ Conclude(w, "BUSINESS_SELECTED")
  /\ UNCHANGED importVars

\* A later answer is told which business the document has, or that it was not accepted.
ReplyExplained(w) ==
  /\ At(w, "EXPLAIN")
  /\ Conclude(w, IF row[Document].linked /\ row[Document].business # NoBusiness
                 THEN "BUSINESS_LOCKED" ELSE "REJECTED_BUSINESS_SELECTION")
  /\ UNCHANGED importVars

ReplyFails(w) ==
  /\ job[w].step \in {"SELECT", "SELECTED", "EXPLAIN"}
  /\ Retry(w)
  /\ UNCHANGED importVars

\* ---- Time, crashes ----

LeaseExpires(e) ==
  /\ row[e].live
  /\ row' = [row EXCEPT ![e].live = FALSE]
  /\ UNCHANGED <<job, owned, importVars, outboxVars>>

\* The process of a tick dies; its row keeps the lease, Drive keeps what was uploaded.
WorkerCrashes(w) ==
  /\ ~At(w, "IDLE")
  /\ Idle(w)
  /\ EndImport(w)
  /\ UNCHANGED <<row, owned, archive, outboxVars>>

Imports(w) == ImportStep(w) /\ UNCHANGED <<row, job, owned, outboxVars>>

\* ---- The outbox meets the document ----

Delivers(s) == Deliver(s) /\ UNCHANGED <<row, job, owned, importVars>>

\* A question is sent only while its document waits.
Checks(s) ==
  /\ row[Document].status = "WAITING_FOR_BUSINESS"
  /\ CheckPasses(s)
  /\ UNCHANGED <<row, job, owned, importVars>>

\* The owner, the phone or the business is no longer what the message was written for.
Refuses(s) == CheckRefuses(s) /\ UNCHANGED <<row, job, owned, importVars>>

\* The identifier of the delivered question is written to the document, never a second one.
Links(s) ==
  /\ Link(s)
  /\ row[Document].status = "WAITING_FOR_BUSINESS" \/ row[Document].linked
  /\ row' = [row EXCEPT ![Document].linked = TRUE]
  /\ UNCHANGED <<job, owned, importVars>>

Expires(m) == MessageLeaseExpires(m) /\ UNCHANGED <<row, job, owned, importVars>>

Step(w) ==
  \/ \E e \in Events : ClaimEvent(w, e)
  \/ Reject(w) \/ ProcessFails(w)
  \/ AskBusiness(w) \/ BeginImport(w) \/ Block(w)
  \/ Imports(w) \/ Complete(w) \/ ImportFails(w)
  \/ Match(w) \/ Select(w) \/ ReplyAccepted(w) \/ ReplyExplained(w) \/ ReplyFails(w)

Next ==
  \/ Accept
  \/ \E r \in Replies : Answer(r)
  \/ \E e \in Events : FailLost(e) \/ LeaseExpires(e)
  \/ \E w \in Workers : Step(w) \/ WorkerCrashes(w)
  \/ \E s \in Senders : Delivers(s) \/ Checks(s) \/ Refuses(s) \/ Links(s)
  \/ \E m \in Messages : Expires(m)

Spec == Init /\ [][Next]_vars

\* The interval calls the tick for ever, a tick that runs goes on or fails, time passes:
\* one of these happens as long as one of them can.  No tick is promised its turn, because
\* attempts are bounded.  (They leave the senders alone, whose steps do not count.)
Scheduling ==
  WF_vars(/\ UNCHANGED sender
          /\ \/ \E w \in Workers : Step(w)
             \/ \E e \in Events : FailLost(e) \/ LeaseExpires(e))

FairSpec == Spec /\ Scheduling

----------------------------------------------------------------------------
\* No question is sent to the phone twice, whatever crash, stall or lost answer (comments
\* of tick and claim in lychee-prompt.service.ts and its store).
MessagesSentOnce == SentOnce /\ ReceiptsAreReal

\* What the customer is told has happened: a document called saved, or already there, is
\* in the ledger of its business, an accepted answer named the document's business, and
\* a question that can be answered has reached the phone.
NoticeIsTrue ==
  /\ row[Document].status \in Imported => ledger[row[Document].business] # NoFile
  /\ \A r \in Replies :
       row[r].status = "BUSINESS_SELECTED" =>
         row[Document].business = Label(r) \/ row[Document].status = "REJECTED"
  /\ row[Document].linked => out[Question].delivered = 1

\* However many replies arrive and however late a tick that lost its lease goes on, WhatsApp
\* brings a document of an account with several businesses into the chosen one only.
OneBusiness ==
  \A w \in Workers :
    Cardinality(owned) > 1 /\ importer[w].step # "IDLE"
      => \/ importer[w].business = row[Document].business
         \/ row[Document].status = "REJECTED"

\* A decided event keeps its outcome, and a chosen business is never exchanged.
OutcomeIsFinal ==
  [][\A e \in Events :
       /\ row[e].status \in Terminal => row'[e].status = row[e].status
       /\ row[Document].business # NoBusiness =>
            \/ row'[Document].business = row[Document].business
            \/ row'[Document].status = "REJECTED"]_vars

\* An accepted document does not stay in the queue: it is decided, or waits for an answer.
DocumentIsDecided ==
  row[Document].status \in Undecided
    ~> row[Document].status \in Terminal \cup {"WAITING_FOR_BUSINESS"}
=============================================================================
