--------------------------- MODULE MessageOutbox ---------------------------
(* The outbox of WhatsApp messages: the question which business a document   *)
(* belongs to (lychee-prompt.store.ts, lychee-prompt.service.ts) and the      *)
(* notice of its result (lychee-notification.store.ts and .service.ts) are    *)
(* delivered by one protocol.  The provider gives no guarantee against        *)
(* repetition, so a message whose fate is unknown is never sent again.        *)
(* PROMPT_LINK and NOTICE_RECORD are LINK here, PROMPT_LINKING and            *)
(* NOTICE_RECORDING are LINKING.  A sender is one run of a tick; its random   *)
(* lease token is its own name.                                               *)
EXTENDS Naturals

CONSTANTS Messages, Senders, Nobody

VARIABLES out,     \* the outbox row of each message, and how often it reached WhatsApp
          sender   \* what each running tick has claimed and how far it is

outboxVars == <<out, sender>>

MessageStatuses ==
  {"NONE", "PENDING", "SENDING", "LINK", "LINKING", "UNKNOWN", "SENT", "CANCELLED"}
SenderSteps == {"IDLE", "CHECK", "SEND", "UNCLEAR", "RECEIPT", "LINK", "FINISH"}

MessageRows == [status: MessageStatuses, owner: Senders \cup {Nobody}, live: BOOLEAN,
                receipt: BOOLEAN, delivered: Nat]

OutboxTypeOK ==
  /\ out \in [Messages -> MessageRows]
  /\ sender \in [Senders -> [message: Messages \cup {Nobody}, step: SenderSteps]]

IdleSender == [message |-> Nobody, step |-> "IDLE"]

OutboxInit ==
  /\ out = [m \in Messages |-> [status |-> "NONE", owner |-> Nobody, live |-> FALSE,
                                receipt |-> FALSE, delivered |-> 0]]
  /\ sender = [s \in Senders |-> IdleSender]

\* The row of a message joins the outbox, once, in the transaction that makes it due.
Staged(m) == IF out[m].status = "NONE" THEN [out[m] EXCEPT !.status = "PENDING"] ELSE out[m]

Free(row, status) == [row EXCEPT !.status = status, !.owner = Nobody, !.live = FALSE]

\* Mutant of AfterStall: an expired send is simply tried again.
StallResends(row) ==
  IF row.status = "SENDING" /\ ~row.live THEN Free(row, "PENDING") ELSE row

\* A lease ran out while the message may or may not have been sent.
AfterStall(row) ==
  IF row.status = "SENDING" /\ ~row.live THEN Free(row, "UNKNOWN") ELSE row

AfterLostLink(row) ==
  IF row.status = "LINKING" /\ ~row.live THEN Free(row, "LINK") ELSE row

WithReceipt(row) ==
  IF row.status = "UNKNOWN" /\ row.receipt THEN [row EXCEPT !.status = "LINK"] ELSE row

\* What the three updates at the head of a claim make of a row.
Tidied(m) == WithReceipt(AfterLostLink(AfterStall(out[m])))

\* A tick tidies the outbox and takes a row that is due ...
ClaimMessage(s) ==
  /\ sender[s].step = "IDLE"
  /\ \E m \in Messages :
       /\ Tidied(m).status \in {"PENDING", "LINK"}
       /\ LET linking == Tidied(m).status = "LINK"
          IN  /\ out' = [x \in Messages |->
                   IF x # m THEN Tidied(x)
                   ELSE [Tidied(m) EXCEPT !.owner = s, !.live = TRUE,
                           !.status = IF linking THEN "LINKING" ELSE "SENDING"]]
              /\ sender' = [sender EXCEPT ![s] =
                   [message |-> m, step |-> IF linking THEN "LINK" ELSE "CHECK"]]

\* ... or finds nothing that is due.
TidyOutbox(s) ==
  /\ sender[s].step = "IDLE"
  /\ out' = [m \in Messages |-> Tidied(m)]
  /\ out' # out
  /\ UNCHANGED sender

\* The row is updated only under the token of the claim.
Finish(s, status) ==
  LET m == sender[s].message
  IN  /\ out' = [out EXCEPT ![m] = IF @.owner = s THEN Free(@, status) ELSE @]
      /\ sender' = [sender EXCEPT ![s] = IdleSender]

Moves(s, from, to) ==
  /\ sender[s].step = from
  /\ sender' = [sender EXCEPT ![s].step = to]

\* Owner, document and recipient are read again before anything is sent.
CheckPasses(s) == Moves(s, "CHECK", "SEND") /\ UNCHANGED out

CheckRefuses(s) == sender[s].step = "CHECK" /\ Finish(s, "CANCELLED")

CheckFails(s) == sender[s].step = "CHECK" /\ Finish(s, "PENDING")

\* One HTTP request: the message may arrive although its answer is lost or useless.
Send(s) ==
  \/ /\ Moves(s, "SEND", "RECEIPT")
     /\ out' = [out EXCEPT ![sender[s].message].delivered = @ + 1]
  \/ /\ Moves(s, "SEND", "UNCLEAR")
     /\ out' = [out EXCEPT ![sender[s].message].delivered = @ + 1]
  \/ Moves(s, "SEND", "UNCLEAR") /\ UNCHANGED out

Quarantine(s) == sender[s].step = "UNCLEAR" /\ Finish(s, "UNKNOWN")

OwnsMessage(s) == out[sender[s].message].owner = s

\* The receipt is stored under the lease; a tick that has lost it gives up.
StoreReceipt(s) ==
  /\ Moves(s, "RECEIPT", "LINK")
  /\ OwnsMessage(s)
  /\ out' = [out EXCEPT ![sender[s].message] =
               [@ EXCEPT !.receipt = TRUE, !.status = "LINKING"]]

ReceiptRefused(s) ==
  sender[s].step = "RECEIPT" /\ ~OwnsMessage(s) /\ Finish(s, "CANCELLED")

\* Both writes of the receipt report an error; one of them may have been carried out.
ReceiptFails(s) ==
  /\ sender[s].step = "RECEIPT"
  /\ OwnsMessage(s)
  /\ \E stored \in {TRUE, out[sender[s].message].receipt} :
       out' = [out EXCEPT ![sender[s].message] =
                 [Free(@, "UNKNOWN") EXCEPT !.receipt = stored]]
  /\ sender' = [sender EXCEPT ![s] = IdleSender]

\* A question is linked to its document, a notice has nothing to link.
Link(s) == Moves(s, "LINK", "FINISH") /\ UNCHANGED out

LinkConflicts(s) == sender[s].step = "LINK" /\ Finish(s, "CANCELLED")

LinkFails(s) == sender[s].step \in {"LINK", "FINISH"} /\ Finish(s, "LINK")

FinishSent(s) == sender[s].step = "FINISH" /\ Finish(s, "SENT")

MessageLeaseExpires(m) ==
  /\ out[m].live
  /\ out' = [out EXCEPT ![m].live = FALSE]
  /\ UNCHANGED sender

\* A restart, or a database that also fails the write that would record the failure.
SenderCrashes(s) ==
  /\ sender[s].step # "IDLE"
  /\ sender' = [sender EXCEPT ![s] = IdleSender]
  /\ UNCHANGED out

StageAny(m) ==
  /\ out[m].status = "NONE"
  /\ out' = [out EXCEPT ![m] = Staged(m)]
  /\ UNCHANGED sender

\* A tick's steps other than those that read or write the document.
Deliver(s) ==
  \/ ClaimMessage(s) \/ TidyOutbox(s) \/ CheckFails(s) \/ Send(s) \/ Quarantine(s)
  \/ StoreReceipt(s) \/ ReceiptRefused(s) \/ ReceiptFails(s)
  \/ LinkFails(s) \/ FinishSent(s) \/ SenderCrashes(s)

OutboxNext ==
  \/ \E s \in Senders :
       Deliver(s) \/ CheckPasses(s) \/ CheckRefuses(s) \/ Link(s) \/ LinkConflicts(s)
  \/ \E m \in Messages : StageAny(m) \/ MessageLeaseExpires(m)

OutboxSpec == OutboxInit /\ [][OutboxNext]_outboxVars

----------------------------------------------------------------------------
(* No message reaches WhatsApp twice, whatever crash, stall or lost answer:   *)
(* "a single send attempt" of the two delivery services.                      *)
SentOnce == \A m \in Messages : out[m].delivered <= 1

(* A stored receipt belongs to a message that was delivered.                  *)
ReceiptsAreReal == \A m \in Messages : out[m].receipt => out[m].delivered = 1
=============================================================================
