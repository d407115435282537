------------------------- MODULE DocumentIntake_proofs -------------------------
(***************************************************************************)
(* For any number of ticks, replies, senders and attempts: no question is  *)
(* sent twice, an outcome is final, an answer decides once, a document is  *)
(* imported where it belongs, and a file a ledger row names is deleted     *)
(* only if it was taken over from a running import, or if the insert of    *)
(* its row was not answered.                                               *)
(***************************************************************************)
EXTENDS DocumentIntake, TLAPS

-----------------------------------------------------------------------------
(* The outbox. *)

\* A tick that holds a message it may still send.
Sending(s, m) == sender[s].message = m /\ sender[s].step \in {"CHECK", "SEND"}

SendersFit == \A s \in Senders : sender[s].step # "IDLE" => sender[s].message \in Messages

\* Only one tick may still send a message, and only if nobody has: a row that can be
\* claimed for sending has no such tick.
OneSender ==
  /\ \A s, t \in Senders, m \in Messages : Sending(s, m) /\ Sending(t, m) => s = t
  /\ \A s \in Senders, m \in Messages : Sending(s, m) =>
       /\ out[m].status \notin {"NONE", "PENDING"}
       /\ out[m].delivered = 0

\* Everything that speaks of a delivery follows one.
DeliveriesFit ==
  /\ \A m \in Messages :
       /\ out[m].delivered \in {0, 1}
       /\ out[m].status \in {"NONE", "PENDING"} => out[m].delivered = 0
       /\ out[m].receipt \/ out[m].status \in {"LINK", "LINKING", "SENT"}
            => out[m].delivered = 1
  /\ \A s \in Senders : sender[s].step \in {"RECEIPT", "LINK", "FINISH"}
       => out[sender[s].message].delivered = 1

OutboxInv == OutboxTypeOK /\ SendersFit /\ OneSender /\ DeliveriesFit

LEMMA OutboxInitInv == OutboxInit => OutboxInv
<1> SUFFICES ASSUME OutboxInit PROVE OutboxInv OBVIOUS
<1> USE DEF OutboxInit, IdleSender
<1>1. OutboxTypeOK BY DEF OutboxTypeOK, MessageRows, MessageStatuses, SenderSteps
<1>2. SendersFit BY DEF SendersFit
<1>3. OneSender BY DEF OneSender, Sending
<1>4. DeliveriesFit BY DEF DeliveriesFit
<1> QED BY <1>1, <1>2, <1>3, <1>4 DEF OutboxInv

\* Tidying a row changes neither its deliveries nor whether it waits to be sent, and what
\* it hands to the linker was delivered.
LEMMA TidiedFits ==
  ASSUME OutboxInv, NEW m \in Messages
  PROVE  /\ Tidied(m) \in MessageRows
         /\ Tidied(m).delivered = out[m].delivered
         /\ Tidied(m).receipt = out[m].receipt
         /\ Tidied(m).status \in {"NONE", "PENDING"} <=> out[m].status \in {"NONE", "PENDING"}
         /\ Tidied(m).status \in {"LINK", "LINKING", "SENT"} => out[m].delivered = 1
<1> DEFINE a == AfterStall(out[m])
           b == AfterLostLink(a)
<1> USE DEF MessageRows, MessageStatuses
<1>1. out[m] \in MessageRows BY DEF OutboxInv, OutboxTypeOK
<1>2. /\ a \in MessageRows /\ a.delivered = out[m].delivered /\ a.receipt = out[m].receipt
      /\ a.status = out[m].status \/ (out[m].status = "SENDING" /\ a.status = "UNKNOWN")
  BY <1>1 DEF AfterStall, Free
<1> HIDE DEF a
<1>3. /\ b \in MessageRows /\ b.delivered = a.delivered /\ b.receipt = a.receipt
      /\ b.status = a.status \/ (a.status = "LINKING" /\ b.status = "LINK")
  BY <1>2 DEF AfterLostLink, Free
<1> HIDE DEF b
<1>4. /\ WithReceipt(b) \in MessageRows
      /\ WithReceipt(b).delivered = b.delivered /\ WithReceipt(b).receipt = b.receipt
      /\ \/ WithReceipt(b).status = b.status
         \/ b.receipt /\ b.status = "UNKNOWN" /\ WithReceipt(b).status = "LINK"
  BY <1>3 DEF WithReceipt
<1>5. Tidied(m) = WithReceipt(b) BY DEF Tidied, a, b
<1> QED BY <1>2, <1>3, <1>4, <1>5 DEF OutboxInv, DeliveriesFit

\* A tick claims, or only tidies.
LEMMA ClaimKeepsOutbox ==
  ASSUME OutboxInv, NEW s \in Senders, ClaimMessage(s) \/ TidyOutbox(s)
  PROVE  OutboxInv'
<1>1. \A m \in Messages :
         /\ Tidied(m) \in MessageRows
         /\ Tidied(m).delivered = out[m].delivered
         /\ Tidied(m).receipt = out[m].receipt
         /\ Tidied(m).status \in {"NONE", "PENDING"} <=> out[m].status \in {"NONE", "PENDING"}
         /\ Tidied(m).status \in {"LINK", "LINKING", "SENT"} => out[m].delivered = 1
  BY TidiedFits
<1> USE DEF OutboxInv, SenderSteps
<1>2. CASE TidyOutbox(s)
  <2>1. /\ sender' = sender /\ \A m \in Messages : out'[m] = Tidied(m)
        /\ out' = [m \in Messages |-> Tidied(m)]
    BY <1>2 DEF TidyOutbox
  <2> HIDE DEF OutboxInv
  <2>2. OutboxTypeOK' BY <1>1, <2>1 DEF OutboxTypeOK, OutboxInv
  <2>3. SendersFit' BY <2>1 DEF SendersFit, OutboxInv
  <2>4. OneSender' BY <1>1, <2>1 DEF OneSender, Sending, OutboxInv
  <2>5. DeliveriesFit' BY <1>1, <2>1 DEF DeliveriesFit, SendersFit, OutboxInv
  <2> QED BY <2>2, <2>3, <2>4, <2>5 DEF OutboxInv
<1>3. CASE ClaimMessage(s)
  <2> PICK m \in Messages :
        /\ Tidied(m).status \in {"PENDING", "LINK"}
        /\ LET linking == Tidied(m).status = "LINK"
           IN  /\ out' = [x \in Messages |->
                    IF x # m THEN Tidied(x)
                    ELSE [Tidied(m) EXCEPT !.owner = s, !.live = TRUE,
                            !.status = IF linking THEN "LINKING" ELSE "SENDING"]]
               /\ sender' = [sender EXCEPT ![s] =
                    [message |-> m, step |-> IF linking THEN "LINK" ELSE "CHECK"]]
    BY <1>3 DEF ClaimMessage
  <2>1. /\ \A x \in Messages : x # m => out'[x] = Tidied(x)
        /\ out'[m] \in MessageRows
        /\ out'[m].delivered = out[m].delivered /\ out'[m].receipt = out[m].receipt
        /\ out'[m].status = IF Tidied(m).status = "LINK" THEN "LINKING" ELSE "SENDING"
    BY <1>1 DEF MessageRows, MessageStatuses
  <2>2. /\ \A t \in Senders : t # s => sender'[t] = sender[t]
        /\ sender'[s].message = m
        /\ sender'[s].step = IF Tidied(m).status = "LINK" THEN "LINK" ELSE "CHECK"
    BY DEF OutboxTypeOK
  <2>3. /\ Tidied(m).status = "PENDING" => out[m].status \in {"NONE", "PENDING"}
        /\ Tidied(m).status = "LINK" => out[m].delivered = 1
    BY <1>1
  <2>4. OutboxTypeOK'
    <3>1. out' \in [Messages -> MessageRows] BY <1>1, <2>1
    <3> QED BY <3>1 DEF OutboxTypeOK
  <2> HIDE DEF OutboxInv
  <2>5. SendersFit' BY <2>2 DEF SendersFit, OutboxInv
  <2>6. OneSender'
    <3>1. \A t \in Senders, x \in Messages : Sending(t, x)' =>
            \/ t # s /\ Sending(t, x)
            \/ t = s /\ x = m /\ out[m].status \in {"NONE", "PENDING"}
      BY <2>2, <2>3 DEF Sending
    <3>2. \A x \in Messages : x # m =>
            /\ out'[x].delivered = out[x].delivered
            /\ out'[x].status \in {"NONE", "PENDING"} <=> out[x].status \in {"NONE", "PENDING"}
      BY <1>1, <2>1
    <3>3. \A t \in Senders : ~Sending(t, m)
      BY <1>1 DEF OneSender, OutboxInv
    <3>4. \A t \in Senders, x \in Messages : Sending(t, x)' =>
            IF x = m THEN t = s /\ out[m].status \in {"NONE", "PENDING"}
            ELSE t # s /\ Sending(t, x)
      BY <3>1, <3>3
    <3>5. \A t, u \in Senders, x \in Messages : Sending(t, x)' /\ Sending(u, x)' => t = u
      BY <3>4 DEF OneSender, OutboxInv
    <3>6. ASSUME NEW t \in Senders, NEW x \in Messages, Sending(t, x)'
          PROVE  out'[x].status \notin {"NONE", "PENDING"} /\ out'[x].delivered = 0
      <4>1. CASE x = m BY <2>1, <3>4, <3>6, <4>1 DEF DeliveriesFit, OutboxInv
      <4>2. CASE x # m BY <3>2, <3>4, <3>6, <4>2 DEF OneSender, OutboxInv
      <4> QED BY <4>1, <4>2
    <3> QED BY <3>5, <3>6 DEF OneSender
  <2>7. DeliveriesFit'
    BY <1>1, <2>1, <2>2, <2>3 DEF DeliveriesFit, SendersFit, OutboxInv
  <2> QED BY <2>4, <2>5, <2>6, <2>7 DEF OutboxInv
<1> QED BY <1>2, <1>3

\* A tick ends: its row takes a status that the deliveries allow, or is left alone.
LEMMA FinishKeepsOutbox ==
  ASSUME OutboxInv, NEW s \in Senders, NEW status \in MessageStatuses, Finish(s, status),
         sender[s].step # "IDLE",
         status \in {"LINK", "LINKING", "SENT"} => out[sender[s].message].delivered = 1,
         status \in {"NONE", "PENDING"} => sender[s].step \in {"CHECK", "SEND"}
                                           /\ ~out[sender[s].message].receipt
  PROVE  OutboxInv'
<1> DEFINE m == sender[s].message
<1> USE DEF OutboxInv, SenderSteps, IdleSender
<1>1. m \in Messages BY DEF SendersFit
<1>2. /\ \A x \in Messages : x # m => out'[x] = out[x]
      /\ out'[m] = IF out[m].owner = s THEN Free(out[m], status) ELSE out[m]
      /\ out' \in [Messages -> MessageRows]
  <2>1. out \in [Messages -> MessageRows] /\ out[m] \in MessageRows
    BY <1>1 DEF OutboxTypeOK
  <2>2. Free(out[m], status) \in MessageRows
    BY <2>1 DEF MessageRows, Free
  <2>3. out' = [out EXCEPT ![m] = IF out[m].owner = s THEN Free(out[m], status) ELSE out[m]]
    BY <1>1, <2>1 DEF Finish
  <2> HIDE DEF m
  <2> QED BY <1>1, <2>1, <2>2, <2>3
<1>3. /\ out'[m].delivered = out[m].delivered /\ out'[m].receipt = out[m].receipt
      /\ out'[m].status \in {out[m].status, status}
  BY <1>1, <1>2 DEF Free, OutboxTypeOK, MessageRows
<1>4. /\ \A t \in Senders : t # s => sender'[t] = sender[t]
      /\ sender'[s] = [message |-> Nobody, step |-> "IDLE"]
  BY DEF Finish, OutboxTypeOK
<1>5. OutboxTypeOK' BY <1>2 DEF OutboxTypeOK, Finish
<1> HIDE DEF m, OutboxInv
<1>6. SendersFit' BY <1>4 DEF SendersFit, OutboxInv
<1>7. OneSender'
  <2>1. \A t \in Senders, x \in Messages : Sending(t, x)' => t # s /\ Sending(t, x)
    BY <1>4 DEF Sending
  <2>2. status \in {"NONE", "PENDING"} => Sending(s, m)
    BY DEF Sending, m
  <2>3. \A t \in Senders, x \in Messages :
          x = m /\ Sending(t, x)' => status \notin {"NONE", "PENDING"}
    BY <1>1, <2>1, <2>2 DEF OneSender, OutboxInv
  <2>4. \A t, u \in Senders, x \in Messages : Sending(t, x)' /\ Sending(u, x)' => t = u
    BY <2>1 DEF OneSender, OutboxInv
  <2>5. ASSUME NEW t \in Senders, NEW x \in Messages, Sending(t, x)'
        PROVE  out'[x].status \notin {"NONE", "PENDING"} /\ out'[x].delivered = 0
    <3>1. out[x].status \notin {"NONE", "PENDING"} /\ out[x].delivered = 0
      BY <2>1, <2>5 DEF OneSender, OutboxInv
    <3>2. CASE x = m BY <1>3, <2>3, <2>5, <3>1, <3>2
    <3>3. CASE x # m BY <1>2, <3>1, <3>3
    <3> QED BY <3>2, <3>3
  <2> QED BY <2>4, <2>5 DEF OneSender
<1>8. DeliveriesFit'
  <2>0. status \in {"NONE", "PENDING"} => Sending(s, m)
    BY DEF Sending, m
  <2>1. status \in {"NONE", "PENDING"} => out[m].delivered = 0
    BY <1>1, <2>0 DEF OneSender, OutboxInv
  <2>2. \A x \in Messages : x # m => out'[x] = out[x]
    BY <1>2
  <2>3. out'[m].delivered = out[m].delivered /\ out'[m].status \in {out[m].status, status}
    BY <1>3
  <2> QED BY <1>1, <1>3, <1>4, <2>1, <2>2, <2>3 DEF DeliveriesFit, SendersFit, OutboxInv, m
<1> QED BY <1>5, <1>6, <1>7, <1>8 DEF OutboxInv

\* A tick moves on with the message it holds.
LEMMA MoveKeepsOutbox ==
  ASSUME OutboxInv, NEW s \in Senders, UNCHANGED out,
         \/ CheckPasses(s) \/ Link(s) \/ Moves(s, "SEND", "UNCLEAR") \/ SenderCrashes(s)
  PROVE  OutboxInv'
<1> USE DEF CheckPasses, Link, Moves, SenderCrashes, IdleSender
<1>1. /\ \A t \in Senders : t # s => sender'[t] = sender[t]
      /\ \/ sender'[s].step = "IDLE"
         \/ /\ sender'[s].message = sender[s].message
            /\ \/ sender[s].step = "CHECK" /\ sender'[s].step = "SEND"
               \/ sender[s].step = "LINK" /\ sender'[s].step = "FINISH"
               \/ sender[s].step = "SEND" /\ sender'[s].step = "UNCLEAR"
  BY DEF OutboxInv, OutboxTypeOK
<1>2. OutboxTypeOK' BY DEF OutboxInv, OutboxTypeOK, SenderSteps
<1>3. SendersFit' BY <1>1 DEF OutboxInv, SendersFit
<1>4. \A t \in Senders, x \in Messages : Sending(t, x)' => Sending(t, x)
  BY <1>1 DEF Sending
<1>5. OneSender' BY <1>4 DEF OutboxInv, OneSender
<1>6. DeliveriesFit' BY <1>1 DEF OutboxInv, DeliveriesFit
<1> QED BY <1>2, <1>3, <1>5, <1>6 DEF OutboxInv

\* The message leaves: it had not been sent before, and nobody else may send it.
LEMMA SendKeepsOutbox ==
  ASSUME OutboxInv, NEW s \in Senders, Send(s)
  PROVE  OutboxInv'
<1> DEFINE m == sender[s].message
<1>1. CASE Moves(s, "SEND", "UNCLEAR") /\ UNCHANGED out
  BY <1>1, MoveKeepsOutbox
<1>2. CASE /\ Moves(s, "SEND", "RECEIPT") \/ Moves(s, "SEND", "UNCLEAR")
           /\ out' = [out EXCEPT ![m].delivered = @ + 1]
  <2>1. m \in Messages /\ Sending(s, m)
    BY <1>2 DEF Moves, OutboxInv, SendersFit, Sending
  <2>2. /\ out[m].delivered = 0 /\ out[m].status \notin {"NONE", "PENDING"}
        /\ \A t \in Senders : Sending(t, m) => t = s
    BY <2>1 DEF OutboxInv, OneSender
  <2>3. /\ \A x \in Messages : x # m => out'[x] = out[x]
        /\ out'[m].delivered = 1 /\ out'[m].status = out[m].status
        /\ out'[m].receipt = out[m].receipt
        /\ out' \in [Messages -> MessageRows]
    <3>1. out \in [Messages -> MessageRows] /\ out[m] \in MessageRows
      BY <2>1 DEF OutboxInv, OutboxTypeOK
    <3>2. [out[m] EXCEPT !.delivered = @ + 1] \in MessageRows
      BY <3>1 DEF MessageRows
    <3>3. out' = [out EXCEPT ![m] = [out[m] EXCEPT !.delivered = @ + 1]]
      BY <1>2
    <3> HIDE DEF m
    <3>4. out'[m] = [out[m] EXCEPT !.delivered = @ + 1] /\ out' \in [Messages -> MessageRows]
      BY <2>1, <3>1, <3>2, <3>3
    <3> QED BY <2>1, <2>2, <3>1, <3>3, <3>4 DEF MessageRows
  <2>4. /\ \A t \in Senders : t # s => sender'[t] = sender[t]
        /\ sender'[s].message = m /\ sender'[s].step \in {"RECEIPT", "UNCLEAR"}
    BY <1>2 DEF Moves, OutboxInv, OutboxTypeOK
  <2>5. OutboxTypeOK'
    BY <1>2, <2>3 DEF OutboxInv, OutboxTypeOK, Moves, SenderSteps
  <2> HIDE DEF m
  <2>6. SendersFit' BY <2>1, <2>4 DEF OutboxInv, SendersFit
  <2>7. \A t \in Senders, x \in Messages : Sending(t, x)' => Sending(t, x) /\ t # s
    BY <2>4 DEF Sending
  <2>8. OneSender'
    <3>1. \A t \in Senders, x \in Messages : Sending(t, x)' => x # m /\ Sending(t, x)
      BY <2>2, <2>7
    <3> QED BY <2>3, <3>1 DEF OutboxInv, OneSender
  <2>9. DeliveriesFit' BY <2>1, <2>2, <2>3, <2>4 DEF OutboxInv, DeliveriesFit, SendersFit
  <2> QED BY <2>5, <2>6, <2>8, <2>9 DEF OutboxInv
<1> QED BY <1>1, <1>2 DEF Send

\* The receipt of a message that was delivered is stored, or may have been.
LEMMA ReceiptKeepsOutbox ==
  ASSUME OutboxInv, NEW s \in Senders, StoreReceipt(s) \/ ReceiptFails(s)
  PROVE  OutboxInv'
<1> DEFINE m == sender[s].message
<1> USE DEF StoreReceipt, ReceiptFails, Moves, IdleSender, Free
<1>1. m \in Messages /\ sender[s].step = "RECEIPT" /\ out[m].delivered = 1
  BY DEF OutboxInv, SendersFit, DeliveriesFit
<1>2. /\ \A x \in Messages : x # m => out'[x] = out[x]
      /\ out'[m].delivered = 1 /\ out'[m].status \in {"LINKING", "UNKNOWN"}
      /\ out' \in [Messages -> MessageRows]
  <2>1. out \in [Messages -> MessageRows] BY DEF OutboxInv, OutboxTypeOK
  <2>2. PICK row1 \in MessageRows :
          /\ out' = [out EXCEPT ![m] = row1]
          /\ row1.delivered = 1 /\ row1.status \in {"LINKING", "UNKNOWN"}
    <3>1. CASE StoreReceipt(s)
      <4> DEFINE r == [out[m] EXCEPT !.receipt = TRUE, !.status = "LINKING"]
      <4>1. out' = [out EXCEPT ![m] = r] BY <3>1
      <4>2. out[m] \in MessageRows BY <1>1, <2>1
      <4>3. r \in MessageRows /\ r.delivered = 1 /\ r.status = "LINKING"
        BY <1>1, <4>2 DEF MessageRows, MessageStatuses
      <4> QED BY <4>1, <4>3
    <3>2. CASE ReceiptFails(s)
      <4>1. PICK stored \in {TRUE, out[m].receipt} :
              out' = [out EXCEPT ![m] = [Free(@, "UNKNOWN") EXCEPT !.receipt = stored]]
        BY <3>2
      <4> DEFINE r == [Free(out[m], "UNKNOWN") EXCEPT !.receipt = stored]
      <4>2. out' = [out EXCEPT ![m] = r] BY <4>1
      <4>3. out[m] \in MessageRows BY <1>1, <2>1
      <4>4. r \in MessageRows /\ r.delivered = 1 /\ r.status = "UNKNOWN"
        BY <1>1, <4>3 DEF MessageRows, MessageStatuses
      <4> QED BY <4>2, <4>4
    <3> QED BY <3>1, <3>2
  <2> QED BY <1>1, <2>1, <2>2
<1>3. /\ \A t \in Senders : t # s => sender'[t] = sender[t]
      /\ \/ sender'[s].step = "IDLE"
         \/ sender'[s].step = "LINK" /\ sender'[s].message = m
  <2>1. CASE StoreReceipt(s) BY <2>1 DEF OutboxInv, OutboxTypeOK
  <2>2. CASE ReceiptFails(s) BY <2>2 DEF OutboxInv, OutboxTypeOK
  <2> QED BY <2>1, <2>2
<1>4. OutboxTypeOK' BY <1>2 DEF OutboxInv, OutboxTypeOK, SenderSteps
<1> HIDE DEF m
<1>5. SendersFit' BY <1>1, <1>3 DEF OutboxInv, SendersFit
<1>6. \A t \in Senders, x \in Messages : Sending(t, x)' => x # m /\ Sending(t, x)
  BY <1>1, <1>3 DEF OutboxInv, OneSender, Sending
<1>7. OneSender' BY <1>2, <1>6 DEF OutboxInv, OneSender
<1>8. DeliveriesFit' BY <1>1, <1>2, <1>3 DEF OutboxInv, DeliveriesFit, SendersFit
<1> QED BY <1>4, <1>5, <1>7, <1>8 DEF OutboxInv

LEMMA RowKeepsOutbox ==
  ASSUME OutboxInv, NEW m \in Messages, StageAny(m) \/ MessageLeaseExpires(m)
  PROVE  OutboxInv'
<1>1. /\ \A x \in Messages : x # m => out'[x] = out[x]
      /\ out'[m].delivered = out[m].delivered /\ out'[m].receipt = out[m].receipt
      /\ \/ out'[m].status = out[m].status
         \/ out[m].status = "NONE" /\ out'[m].status = "PENDING"
      /\ out' \in [Messages -> MessageRows] /\ sender' = sender
  <2>1. out \in [Messages -> MessageRows] BY DEF OutboxInv, OutboxTypeOK
  <2>2. CASE StageAny(m)
    <3> DEFINE r == [out[m] EXCEPT !.status = "PENDING"]
    <3>1. out' = [out EXCEPT ![m] = r] /\ sender' = sender /\ out[m].status = "NONE"
      BY <2>2 DEF StageAny, Staged
    <3>2. out[m] \in MessageRows BY <2>1
    <3>3. /\ r \in MessageRows /\ r.delivered = out[m].delivered
          /\ r.receipt = out[m].receipt /\ r.status = "PENDING"
      BY <3>2 DEF MessageRows, MessageStatuses
    <3> QED BY <2>1, <3>1, <3>3
  <2>3. CASE MessageLeaseExpires(m)
    <3>1. out' = [out EXCEPT ![m].live = FALSE] /\ sender' = sender
      BY <2>3 DEF MessageLeaseExpires
    <3>2. \A x \in Messages : x # m => out'[x] = out[x]
      BY <2>1, <3>1
    <3>3. /\ out'[m].delivered = out[m].delivered /\ out'[m].receipt = out[m].receipt
          /\ out'[m].status = out[m].status
      BY <2>1, <3>1 DEF MessageRows
    <3>4. out' \in [Messages -> MessageRows]
      BY <2>1, <3>1 DEF MessageRows
    <3> QED BY <3>1, <3>2, <3>3, <3>4
  <2> QED BY <2>2, <2>3
<1>2. OutboxTypeOK' BY <1>1 DEF OutboxInv, OutboxTypeOK
<1>3. SendersFit' BY <1>1 DEF OutboxInv, SendersFit
<1>4. OneSender' BY <1>1 DEF OutboxInv, OneSender, Sending
<1>5. DeliveriesFit' BY <1>1 DEF OutboxInv, DeliveriesFit, SendersFit
<1> QED BY <1>2, <1>3, <1>4, <1>5 DEF OutboxInv

LEMMA OutboxStep ==
  ASSUME OutboxInv, [OutboxNext]_outboxVars
  PROVE  OutboxInv'
<1>1. CASE UNCHANGED outboxVars
  BY <1>1 DEF outboxVars, OutboxInv, OutboxTypeOK, SendersFit, OneSender, Sending,
              DeliveriesFit
<1>2. ASSUME NEW m \in Messages, StageAny(m) \/ MessageLeaseExpires(m) PROVE OutboxInv'
  BY <1>2, RowKeepsOutbox
<1>3. ASSUME NEW s \in Senders,
             Deliver(s) \/ CheckPasses(s) \/ CheckRefuses(s) \/ Link(s) \/ LinkConflicts(s)
      PROVE  OutboxInv'
  <2>1. CASE ClaimMessage(s) \/ TidyOutbox(s) BY <2>1, ClaimKeepsOutbox
  <2>2. CASE CheckPasses(s) \/ Link(s) \/ SenderCrashes(s)
    BY <2>2, MoveKeepsOutbox DEF CheckPasses, Link, SenderCrashes
  <2>3. CASE Send(s) BY <2>3, SendKeepsOutbox
  <2>4. CASE StoreReceipt(s) \/ ReceiptFails(s) BY <2>4, ReceiptKeepsOutbox
  <2>5. CASE CheckRefuses(s) \/ LinkConflicts(s) \/ ReceiptRefused(s)
    BY <2>5, FinishKeepsOutbox
    DEF CheckRefuses, LinkConflicts, ReceiptRefused, MessageStatuses
  <2>6. CASE Quarantine(s)
    BY <2>6, FinishKeepsOutbox DEF Quarantine, MessageStatuses
  <2>7. CASE CheckFails(s)
    <3>1. sender[s].step = "CHECK" /\ Finish(s, "PENDING") BY <2>7 DEF CheckFails
    <3>2. sender[s].message \in Messages /\ Sending(s, sender[s].message)
      BY <3>1 DEF OutboxInv, SendersFit, Sending
    <3>3. ~out[sender[s].message].receipt
      BY <3>2 DEF OutboxInv, OneSender, DeliveriesFit
    <3> QED BY <3>1, <3>3, FinishKeepsOutbox DEF MessageStatuses
  <2>8. CASE LinkFails(s) \/ FinishSent(s)
    <3>1. sender[s].step \in {"LINK", "FINISH"} /\ (Finish(s, "LINK") \/ Finish(s, "SENT"))
      BY <2>8 DEF LinkFails, FinishSent
    <3>2. out[sender[s].message].delivered = 1
      BY <3>1 DEF OutboxInv, DeliveriesFit
    <3> QED BY <3>1, <3>2, FinishKeepsOutbox DEF MessageStatuses
  <2> QED BY <1>3, <2>1, <2>2, <2>3, <2>4, <2>5, <2>6, <2>7, <2>8 DEF Deliver
<1> QED BY <1>1, <1>2, <1>3 DEF OutboxNext

\* Every step of the intake is a step of the outbox, or leaves it alone.
LEMMA IntakeIsOutbox ==
  ASSUME IntakeAssumption, OutboxInv, [Next]_vars
  PROVE  [OutboxNext]_outboxVars
<1> USE DEF outboxVars
<1>1. Question \in Messages BY DEF IntakeAssumption, Question
<1>2. CASE UNCHANGED vars BY <1>2 DEF vars
<1>3. CASE Accept \/ \E r \in Replies : Answer(r) BY <1>3 DEF Accept, Answer
<1>4. CASE \E e \in Events : FailLost(e) \/ LeaseExpires(e)
  BY <1>4 DEF FailLost, LeaseExpires
<1>5. ASSUME NEW w \in Workers, Step(w) \/ WorkerCrashes(w) PROVE [OutboxNext]_outboxVars
  <2>1. CASE AskBusiness(w)
    <3>1. /\ UNCHANGED sender
          /\ out' = [out EXCEPT ![Question] = Staged(Question)] \/ UNCHANGED out
      BY <2>1 DEF AskBusiness
    <3>2. CASE out[Question].status = "NONE" /\ ~UNCHANGED out
      BY <1>1, <3>1, <3>2 DEF OutboxNext, StageAny
    <3>3. CASE out[Question].status # "NONE"
      BY <1>1, <3>1, <3>3 DEF Staged, OutboxInv, OutboxTypeOK
    <3> QED BY <3>1, <3>2, <3>3
  <2> QED
    BY <1>5, <2>1 DEF Step, WorkerCrashes, ClaimEvent, Reject, ProcessFails, BeginImport,
       Block, Imports, Complete, ImportFails, Match, Select, ReplyAccepted, ReplyExplained,
       ReplyFails, Retry, Conclude
<1>6. CASE \E s \in Senders : Delivers(s) \/ Checks(s) \/ Refuses(s) \/ Links(s)
  BY <1>6 DEF Delivers, Checks, Refuses, Links, OutboxNext
<1>7. CASE \E m \in Messages : Expires(m)
  BY <1>7 DEF Expires, OutboxNext
<1> QED BY <1>2, <1>3, <1>4, <1>5, <1>6, <1>7 DEF Next

\* The question of the intake is delivered by the protocol that also delivers the notices
\* (lychee-prompt.store.ts, lychee-notification.store.ts), whatever the document does.
THEOREM IntakeRefinesOutbox == IntakeAssumption => (Spec => OutboxSpec)
<1> SUFFICES ASSUME IntakeAssumption PROVE Spec => OutboxSpec OBVIOUS
<1>1. Init => OutboxInit /\ OutboxInv BY OutboxInitInv DEF Init
<1>2. OutboxInv /\ [Next]_vars => [OutboxNext]_outboxVars BY IntakeIsOutbox
<1>3. OutboxInv /\ [OutboxNext]_outboxVars => OutboxInv' BY OutboxStep
<1> QED BY <1>1, <1>2, <1>3, PTL DEF Spec, OutboxSpec

\* No WhatsApp message is delivered twice and no receipt is invented, for any number of
\* messages and ticks (claim, receipt and finish of the two stores).
THEOREM OutboxSendsOnce == OutboxSpec => []MessagesSentOnce
<1>1. OutboxInit => OutboxInv BY OutboxInitInv
<1>2. OutboxInv /\ [OutboxNext]_outboxVars => OutboxInv' BY OutboxStep
<1>3. OutboxInv => MessagesSentOnce
  BY DEF OutboxInv, DeliveriesFit, MessagesSentOnce, SentOnce, ReceiptsAreReal
<1> QED BY <1>1, <1>2, <1>3, PTL DEF OutboxSpec

-----------------------------------------------------------------------------
(* The import. *)

\* Only an import that is about to record or to compensate holds an upload of its own.
UploadsFit == \A i \in Importers :
  /\ importer[i].step # "IDLE" => Target(i) \in Businesses
  /\ importer[i].uploadedHere => importer[i].step \in {"INSERT", "CLEAN"}
  /\ importer[i].step = "CLEAN" => importer[i].uploadedHere
  /\ importer[i].step \in {"ADOPT", "INSERT", "CLEAN"} <=> importer[i].file \in Files
  /\ importer[i].step \in Imported \/ importer[i].duplicate => ledger[Target(i)] # NoFile

\* A file that a running import may delete is recorded, or held by another one, only if it
\* is exposed; so a file about to be recorded is there, or exposed.
FilesFit ==
  /\ OnlyExposedFilesAreLost
  /\ \A i \in Importers :
       /\ importer[i].step = "INSERT" =>
            importer[i].file \in drive[Target(i)] \cup exposed[Target(i)]
       /\ importer[i].uploadedHere =>
            /\ ledger[Target(i)] = importer[i].file => importer[i].file \in exposed[Target(i)]
            /\ \A j \in Importers \ {i} :
                 Target(j) = Target(i) /\ importer[j].file = importer[i].file =>
                   importer[i].file \in exposed[Target(i)] /\ ~importer[j].uploadedHere

ImportInv == ImportTypeOK /\ UploadsFit /\ FilesFit

\* What an import leaves of itself when it ends, in words the provers need.
LEMMA EndsFits ==
  ASSUME ImportTypeOK, NEW i \in Importers, NEW result \in ImportSteps, Ends(i, result)
  PROVE  /\ importer' \in [Importers -> [step: ImportSteps,
                              business: Businesses \cup {NoBusiness},
                              file: Files \cup {NoFile}, uploadedHere: BOOLEAN,
                              duplicate: BOOLEAN]]
         /\ \A j \in Importers : j # i => importer'[j] = importer[j]
         /\ importer'[i].step = result /\ importer'[i].business = importer[i].business
         /\ importer'[i].file = NoFile
         /\ ~importer'[i].uploadedHere /\ ~importer'[i].duplicate
<1> DEFINE ended == [IdleImporter EXCEPT !.step = result, !.business = importer[i].business]
<1>1. importer' = [importer EXCEPT ![i] = ended] BY DEF Ends
<1>2. importer[i].business \in Businesses \cup {NoBusiness} BY DEF ImportTypeOK
<1>3. /\ ended.step = result /\ ended.business = importer[i].business
      /\ ended.file = NoFile /\ ended.uploadedHere = FALSE /\ ended.duplicate = FALSE
      /\ ended \in [step: ImportSteps, business: Businesses \cup {NoBusiness},
                    file: Files \cup {NoFile}, uploadedHere: BOOLEAN, duplicate: BOOLEAN]
  BY <1>2 DEF IdleImporter
<1> HIDE DEF ended
<1> QED BY <1>1, <1>3 DEF ImportTypeOK

\* An import that ends takes nothing from the others, if it leaves Drive and ledger alone.
LEMMA EndKeepsImports ==
  ASSUME ImportInv, IntakeAssumption, NEW i \in Importers, importer[i].step # "IDLE",
         UNCHANGED archive,
         \/ Ends(i, "SKIPPED")
         \/ Ends(i, "ALREADY_IMPORTED") /\ ledger[Target(i)] # NoFile
  PROVE  ImportInv'
<1> USE DEF Target, archive
<1>1. PICK result \in ImportSteps :
        /\ Ends(i, result) /\ result \in {"SKIPPED", "ALREADY_IMPORTED"}
        /\ result = "ALREADY_IMPORTED" => ledger[Target(i)] # NoFile
  BY DEF ImportSteps
<1>2. /\ importer' \in [Importers -> [step: ImportSteps,
                            business: Businesses \cup {NoBusiness},
                            file: Files \cup {NoFile}, uploadedHere: BOOLEAN,
                            duplicate: BOOLEAN]]
      /\ \A j \in Importers : j # i => importer'[j] = importer[j]
      /\ importer'[i].step = result /\ importer'[i].business = importer[i].business
      /\ importer'[i].file = NoFile
      /\ ~importer'[i].uploadedHere /\ ~importer'[i].duplicate
  BY <1>1, EndsFits DEF ImportInv
<1>3. ImportTypeOK' BY <1>2 DEF ImportInv, ImportTypeOK
<1>4. UploadsFit'
  BY <1>1, <1>2 DEF ImportInv, UploadsFit, Imported, IntakeAssumption
<1>5. FilesFit'
  BY <1>1, <1>2 DEF ImportInv, FilesFit, UploadsFit, OnlyExposedFilesAreLost, IntakeAssumption
<1> QED BY <1>3, <1>4, <1>5 DEF ImportInv

\* The bookkeeping of an import that goes on with the next step.
LEMMA MoveKeepsImports ==
  ASSUME ImportInv, IntakeAssumption, NEW i \in Importers, UNCHANGED archive,
         NEW step \in {"LIST", "UPLOAD", "INSERT", "CLEAN"},
         /\ importer' \in [Importers -> [step: ImportSteps,
                              business: Businesses \cup {NoBusiness},
                              file: Files \cup {NoFile}, uploadedHere: BOOLEAN,
                              duplicate: BOOLEAN]]
         /\ \A j \in Importers : j # i => importer'[j] = importer[j]
         /\ importer'[i].step = step /\ importer'[i].business = importer[i].business
         /\ importer'[i].file = importer[i].file
         /\ importer'[i].uploadedHere = importer[i].uploadedHere,
         importer'[i].duplicate =>
           (step = "CLEAN" /\ ledger[Target(i)] # NoFile) \/ importer[i].duplicate,
         \/ importer[i].step = "LOOKUP" /\ step = "LIST"
         \/ importer[i].step = "LIST" /\ step = "UPLOAD"
         \/ /\ importer[i].step = "ADOPT" /\ step = "INSERT"
            /\ importer[i].file \in drive[Target(i)]
         \/ importer[i].step = "INSERT" /\ step = "CLEAN" /\ importer[i].uploadedHere
  PROVE  ImportInv'
<1> USE DEF Target, archive
<1>1. ImportTypeOK' BY DEF ImportInv, ImportTypeOK
<1>2. UploadsFit' BY DEF ImportInv, UploadsFit, Imported
<1>3. FilesFit' BY DEF ImportInv, FilesFit, OnlyExposedFilesAreLost
<1> QED BY <1>1, <1>2, <1>3 DEF ImportInv

\* What each step has to say of the files.
LEMMA FilesKept ==
  ASSUME ImportInv,
         \A b \in Businesses : ledger'[b] # NoFile => ledger'[b] \in drive'[b] \cup exposed'[b],
         \A j \in Importers : importer'[j].step = "INSERT" =>
           importer'[j].file \in drive'[importer'[j].business] \cup exposed'[importer'[j].business],
         \A j \in Importers : importer'[j].uploadedHere =>
           /\ ledger'[importer'[j].business] = importer'[j].file =>
                importer'[j].file \in exposed'[importer'[j].business]
           /\ \A k \in Importers \ {j} :
                importer'[k].business = importer'[j].business /\ importer'[k].file = importer'[j].file =>
                  importer'[j].file \in exposed'[importer'[j].business] /\ ~importer'[k].uploadedHere
  PROVE  FilesFit'
BY DEF FilesFit, OnlyExposedFilesAreLost, Target

\* A listed file is taken over: if another import may delete it, it is now exposed.
LEMMA ListKeepsImports ==
  ASSUME ImportInv, IntakeAssumption, NEW i \in Importers, ListFolders(i)
  PROVE  ImportInv'
<1> USE DEF Target
<1>1. CASE importer' = [importer EXCEPT ![i].step = "UPLOAD"] /\ UNCHANGED exposed
  <2>1. importer[i].step = "LIST" /\ UNCHANGED archive
    BY <1>1 DEF ListFolders, archive
  <2>2. /\ importer' \in [Importers -> [step: ImportSteps,
                              business: Businesses \cup {NoBusiness},
                              file: Files \cup {NoFile}, uploadedHere: BOOLEAN,
                              duplicate: BOOLEAN]]
        /\ \A j \in Importers : j # i => importer'[j] = importer[j]
        /\ importer'[i].step = "UPLOAD" /\ importer'[i].business = importer[i].business
        /\ importer'[i].file = importer[i].file
        /\ importer'[i].uploadedHere = importer[i].uploadedHere
        /\ importer'[i].duplicate = importer[i].duplicate
    BY <1>1 DEF ImportInv, ImportTypeOK, ImportSteps
  <2> QED BY <2>1, <2>2, MoveKeepsImports
<1>2. CASE \E f \in drive[Target(i)] :
             /\ importer' = [importer EXCEPT ![i].step = "ADOPT", ![i].file = f]
             /\ exposed' = IF Uploaders(Target(i), f) = {} THEN exposed
                           ELSE [exposed EXCEPT ![Target(i)] = @ \cup {f}]
  <2> DEFINE b == importer[i].business
  <2>1. PICK f \in drive[b] :
          /\ importer' = [importer EXCEPT ![i].step = "ADOPT", ![i].file = f]
          /\ exposed' = IF Uploaders(b, f) = {} THEN exposed
                        ELSE [exposed EXCEPT ![b] = @ \cup {f}]
    BY <1>2
  <2>2. b \in Businesses /\ f \in Files /\ importer[i].step = "LIST" /\ UNCHANGED <<drive, ledger>>
    BY <2>1 DEF ListFolders, ImportInv, UploadsFit, ImportTypeOK
  <2>3. /\ importer' \in [Importers -> [step: ImportSteps,
                              business: Businesses \cup {NoBusiness},
                              file: Files \cup {NoFile}, uploadedHere: BOOLEAN,
                              duplicate: BOOLEAN]]
        /\ \A j \in Importers : j # i => importer'[j] = importer[j]
        /\ importer'[i].step = "ADOPT" /\ importer'[i].business = b
        /\ importer'[i].file = f /\ importer'[i].uploadedHere = importer[i].uploadedHere
        /\ importer'[i].duplicate = importer[i].duplicate
    BY <2>1, <2>2 DEF ImportInv, ImportTypeOK, ImportSteps
  <2>4. ~importer[i].uploadedHere BY <2>2 DEF ImportInv, UploadsFit
  <2>5. /\ exposed' \in [Businesses -> SUBSET Files]
        /\ \A c \in Businesses : exposed[c] \subseteq exposed'[c]
        /\ Uploaders(b, f) # {} => f \in exposed'[b]
    BY <2>1, <2>2 DEF ImportInv, ImportTypeOK
  <2> HIDE DEF b
  <2>6. \A j \in Importers :
          importer[j].uploadedHere /\ importer[j].business = b /\ importer[j].file = f
            => f \in exposed'[b]
    BY <2>5 DEF Uploaders
  <2>7. ImportTypeOK' BY <2>2, <2>3, <2>5 DEF ImportInv, ImportTypeOK
  <2>8. UploadsFit' BY <2>2, <2>3, <2>4 DEF b, ImportInv, UploadsFit, Imported
  <2>9. FilesFit'
    <3>1. ASSUME NEW j \in Importers, importer'[j].step = "INSERT"
          PROVE  importer'[j].file \in drive'[importer'[j].business] \cup exposed'[importer'[j].business]
      <4>1. j # i /\ importer'[j] = importer[j] BY <2>3, <3>1
      <4> QED BY <2>2, <2>5, <3>1, <4>1 DEF ImportInv, FilesFit, UploadsFit
    <3>2. ASSUME NEW j \in Importers, importer'[j].uploadedHere
          PROVE  /\ ledger'[importer'[j].business] = importer'[j].file =>
                      importer'[j].file \in exposed'[importer'[j].business]
                 /\ \A k \in Importers \ {j} :
                      importer'[k].business = importer'[j].business /\ importer'[k].file = importer'[j].file =>
                        importer'[j].file \in exposed'[importer'[j].business] /\ ~importer'[k].uploadedHere
      <4>1. j # i /\ importer'[j] = importer[j] BY <2>3, <2>4, <3>2
      <4>2. importer[j].business \in Businesses BY <3>2, <4>1 DEF ImportInv, UploadsFit
      <4> QED BY <2>2, <2>3, <2>4, <2>5, <2>6, <3>2, <4>1, <4>2 DEF ImportInv, FilesFit
    <3>3. \A c \in Businesses : ledger'[c] # NoFile => ledger'[c] \in drive'[c] \cup exposed'[c]
      BY <2>2, <2>5 DEF ImportInv, FilesFit, OnlyExposedFilesAreLost
    <3> QED BY <3>1, <3>2, <3>3, FilesKept
  <2> QED BY <2>7, <2>8, <2>9 DEF ImportInv
<1> QED BY <1>1, <1>2 DEF ListFolders

\* A fresh file is in nobody else's hands; one nobody recorded does no harm.
LEMMA UploadKeepsImports ==
  ASSUME ImportInv, IntakeAssumption, NEW i \in Importers, Upload(i) \/ DriveFails(i)
  PROVE  ImportInv'
<1> DEFINE b == Target(i)
           f == CHOOSE f \in Unused(Target(i)) : TRUE
<1>1. b \in Businesses /\ importer[i].step # "IDLE"
  BY DEF Upload, DriveFails, ImportInv, UploadsFit
<1>2. CASE DriveFails(i) /\ UNCHANGED <<drive, exposed>>
  BY <1>1, <1>2, EndKeepsImports DEF DriveFails, archive
<1>3. CASE Store(Target(i))
  <2>0. /\ drive' = [drive EXCEPT ![b] = @ \cup {f}] /\ Unused(b) # {}
        /\ exposed' = [exposed EXCEPT ![b] = @ \ {f}]
    BY <1>3 DEF Store
  <2>1. f \in Unused(b) BY <2>0
  <2> HIDE DEF f
  <2>2. /\ f \in Files /\ f \notin drive[b] /\ ledger[b] # f
        /\ \A j \in Importers : Target(j) = b => importer[j].file # f
    BY <2>1 DEF Unused
  <2>3. /\ drive' \in [Businesses -> SUBSET Files]
        /\ drive'[b] = drive[b] \cup {f}
        /\ \A c \in Businesses : c # b => drive'[c] = drive[c]
        /\ exposed' \in [Businesses -> SUBSET Files]
        /\ \A c \in Businesses, g \in Files : c # b \/ g # f => (g \in exposed[c] => g \in exposed'[c])
    BY <1>1, <2>0, <2>2 DEF ImportInv, ImportTypeOK
  <2>w. \A c \in Businesses : ledger[c] # NoFile => ledger[c] \in drive'[c] \cup exposed'[c]
    BY <2>2, <2>3 DEF ImportInv, ImportTypeOK, FilesFit, OnlyExposedFilesAreLost
  <2>x. \A j \in Importers : importer[j].step = "INSERT" =>
          importer[j].file \in drive'[importer[j].business] \cup exposed'[importer[j].business]
    BY <2>2, <2>3 DEF ImportInv, UploadsFit, FilesFit, Target
  <2>y. ASSUME NEW j \in Importers, importer[j].uploadedHere
        PROVE  /\ importer[j].business \in Businesses /\ importer[j].file \in Files
               /\ importer[j].business # b \/ importer[j].file # f
               /\ ledger[importer[j].business] = importer[j].file =>
                    importer[j].file \in exposed'[importer[j].business]
               /\ \A k \in Importers \ {j} :
                    importer[k].business = importer[j].business /\ importer[k].file = importer[j].file =>
                      importer[j].file \in exposed'[importer[j].business] /\ ~importer[k].uploadedHere
    <3> HIDE DEF b
    <3>1. importer[j].business \in Businesses /\ importer[j].file \in Files
      BY <2>y DEF ImportInv, UploadsFit, Target
    <3>2. importer[j].business # b \/ importer[j].file # f BY <2>2 DEF Target
    <3>3. importer[j].file \in exposed[importer[j].business] => importer[j].file \in exposed'[importer[j].business]
      BY <2>3, <3>1, <3>2
    <3> QED BY <2>y, <3>1, <3>2, <3>3 DEF ImportInv, FilesFit, Target
  <2>4. CASE Upload(i)
    <3>1. importer' = [importer EXCEPT ![i].step = "INSERT", ![i].file = f,
                                       ![i].uploadedHere = TRUE]
          /\ importer[i].step = "UPLOAD"
      BY <2>4 DEF Upload, f
    <3>2. /\ importer' \in [Importers -> [step: ImportSteps,
                                business: Businesses \cup {NoBusiness},
                                file: Files \cup {NoFile}, uploadedHere: BOOLEAN,
                                duplicate: BOOLEAN]]
          /\ \A j \in Importers : j # i => importer'[j] = importer[j]
          /\ importer'[i].step = "INSERT" /\ importer'[i].business = b
          /\ importer'[i].file = f /\ importer'[i].uploadedHere
          /\ importer'[i].duplicate = importer[i].duplicate
      BY <2>2, <3>1 DEF ImportInv, ImportTypeOK, ImportSteps, Target
    <3> HIDE DEF b
    <3>3. b = importer[i].business /\ ledger' = ledger
      BY <2>4 DEF b, Target, Upload
    <3>4. ImportTypeOK' BY <2>3, <3>2, <3>3 DEF ImportInv, ImportTypeOK
    <3>5. UploadsFit'
      BY <1>1, <2>2, <3>2, <3>3 DEF ImportInv, UploadsFit, Imported, Target
    <3>6. FilesFit'
      <4>1. \A j \in Importers : importer'[j].step = "INSERT" =>
              importer'[j].file \in drive'[importer'[j].business] \cup exposed'[importer'[j].business]
        BY <2>3, <2>x, <3>2
      <4>2. ~importer[i].uploadedHere BY <3>1 DEF ImportInv, UploadsFit
      <4>3. ASSUME NEW j \in Importers, importer'[j].uploadedHere
            PROVE  /\ ledger'[importer'[j].business] = importer'[j].file =>
                        importer'[j].file \in exposed'[importer'[j].business]
                   /\ \A k \in Importers \ {j} :
                        importer'[k].business = importer'[j].business /\ importer'[k].file = importer'[j].file =>
                          importer'[j].file \in exposed'[importer'[j].business] /\ ~importer'[k].uploadedHere
        <5>1. CASE j = i BY <2>2, <3>2, <3>3, <5>1 DEF Target
        <5>2. CASE j # i
          <6>1. importer'[j] = importer[j] /\ importer[j].uploadedHere BY <3>2, <4>3, <5>2
          <6> QED BY <2>y, <3>2, <3>3, <6>1
        <5> QED BY <5>1, <5>2
      <4> QED BY <2>w, <3>3, <4>1, <4>3, FilesKept
    <3> QED BY <3>4, <3>5, <3>6 DEF ImportInv
  <2>5. CASE DriveFails(i)
    <3>1. Ends(i, "SKIPPED") /\ ledger' = ledger /\ "SKIPPED" \in ImportSteps
      BY <2>5 DEF DriveFails, ImportSteps
    <3>2. /\ importer' \in [Importers -> [step: ImportSteps,
                                business: Businesses \cup {NoBusiness},
                                file: Files \cup {NoFile}, uploadedHere: BOOLEAN,
                                duplicate: BOOLEAN]]
          /\ \A j \in Importers : j # i => importer'[j] = importer[j]
          /\ importer'[i].step = "SKIPPED" /\ importer'[i].business = importer[i].business
          /\ importer'[i].file = NoFile
          /\ ~importer'[i].uploadedHere /\ ~importer'[i].duplicate
      BY <3>1, EndsFits DEF ImportInv
    <3> HIDE DEF b
    <3>3. ImportTypeOK' BY <2>3, <3>1, <3>2 DEF ImportInv, ImportTypeOK
    <3>4. UploadsFit'
      BY <1>1, <3>1, <3>2 DEF ImportInv, UploadsFit, Imported, Target, b, IntakeAssumption
    <3>5. FilesFit'
      <4>1. \A j \in Importers : importer'[j].step = "INSERT" =>
              importer'[j].file \in drive'[importer'[j].business] \cup exposed'[importer'[j].business]
        BY <2>x, <3>2
      <4>2. ASSUME NEW j \in Importers, importer'[j].uploadedHere
            PROVE  /\ ledger'[importer'[j].business] = importer'[j].file =>
                        importer'[j].file \in exposed'[importer'[j].business]
                   /\ \A k \in Importers \ {j} :
                        importer'[k].business = importer'[j].business /\ importer'[k].file = importer'[j].file =>
                          importer'[j].file \in exposed'[importer'[j].business] /\ ~importer'[k].uploadedHere
        <5>1. j # i /\ importer'[j] = importer[j] /\ importer[j].uploadedHere BY <3>2, <4>2
        <5> QED BY <2>y, <3>1, <3>2, <5>1 DEF IntakeAssumption
      <4> QED BY <2>w, <3>1, <4>1, <4>2, FilesKept
    <3> QED BY <3>3, <3>4, <3>5 DEF ImportInv
  <2> QED BY <2>4, <2>5
<1> QED BY <1>2, <1>3 DEF Upload, DriveFails

\* The row names a file that nobody is going to delete, or that is exposed: the import
\* ends, or it takes its insert for a failure and is about to delete its upload.
LEMMA InsertKeepsImports ==
  ASSUME ImportInv, IntakeAssumption, NEW i \in Importers,
         importer[i].step = "INSERT", ledger[Target(i)] = NoFile, drive' = drive,
         ledger' = [ledger EXCEPT ![Target(i)] = importer[i].file],
         /\ importer' \in [Importers -> [step: ImportSteps,
                              business: Businesses \cup {NoBusiness},
                              file: Files \cup {NoFile}, uploadedHere: BOOLEAN,
                              duplicate: BOOLEAN]]
         /\ \A j \in Importers : j # i => importer'[j] = importer[j]
         /\ importer'[i].business = importer[i].business
         /\ ~importer'[i].duplicate,
         \/ /\ importer'[i].step \in {"IMPORTED", "SKIPPED"}
            /\ importer'[i].file = NoFile /\ ~importer'[i].uploadedHere
            /\ exposed' = exposed
         \/ /\ importer'[i].step = "CLEAN" /\ importer'[i].file = importer[i].file
            /\ importer[i].uploadedHere /\ importer'[i].uploadedHere
            /\ exposed' = [exposed EXCEPT ![Target(i)] = @ \cup {importer[i].file}]
  PROVE  ImportInv'
<1> DEFINE b == importer[i].business
           f == importer[i].file
<1>1. /\ importer[i].step = "INSERT" /\ ledger[b] = NoFile /\ drive' = drive
      /\ ledger' = [ledger EXCEPT ![b] = f]
  BY DEF Target
<1>2. b \in Businesses /\ f \in Files BY <1>1 DEF ImportInv, UploadsFit, Target
<1>3. /\ \A j \in Importers : j # i => importer'[j] = importer[j]
      /\ importer'[i].business = b /\ ~importer'[i].duplicate
      /\ importer'[i].step \in {"IMPORTED", "SKIPPED", "CLEAN"}
  OBVIOUS
<1>4. /\ ledger' \in [Businesses -> Files \cup {NoFile}] /\ ledger'[b] = f
      /\ \A c \in Businesses : c # b => ledger'[c] = ledger[c]
  BY <1>1, <1>2 DEF ImportInv, ImportTypeOK
<1>5. /\ exposed' \in [Businesses -> SUBSET Files]
      /\ \A c \in Businesses : exposed[c] \subseteq exposed'[c]
      /\ importer'[i].uploadedHere => f \in exposed'[b]
  BY <1>2 DEF ImportInv, ImportTypeOK, Target
<1>x. ImportTypeOK' BY <1>1, <1>4, <1>5 DEF ImportInv, ImportTypeOK
<1>6. UploadsFit'
  <2>1. \A j \in Importers : importer[j].step # "IDLE" => importer[j].business \in Businesses
    BY DEF ImportInv, UploadsFit, Target
  <2>2. \A c \in Businesses : ledger[c] # NoFile => ledger'[c] # NoFile
    BY <1>2, <1>4 DEF IntakeAssumption
  <2>3. ASSUME NEW j \in Importers, j # i
        PROVE  importer'[j].step \in Imported \/ importer'[j].duplicate
                 => ledger'[importer'[j].business] # NoFile
    <3>1. importer'[j] = importer[j] BY <1>3, <2>3
    <3>2. importer[j].step \in Imported \/ importer[j].duplicate
            => ledger[importer[j].business] # NoFile
      BY DEF ImportInv, UploadsFit, Target
    <3>3. CASE importer[j].business = b
      BY <1>2, <1>4, <3>1, <3>3 DEF IntakeAssumption
    <3>4. CASE importer[j].business # b
      <4>1. CASE importer[j].business \in Businesses BY <1>4, <3>1, <3>2, <3>4, <4>1
      <4>2. CASE importer[j].business \notin Businesses
        BY <1>1, <3>1, <3>2, <4>2, <2>1, <1>2 DEF ImportInv, ImportTypeOK
      <4> QED BY <4>1, <4>2
    <3> QED BY <3>3, <3>4
  <2>4. ledger'[importer'[i].business] # NoFile BY <1>2, <1>3, <1>4 DEF IntakeAssumption
  <2> QED
    BY <1>2, <1>3, <2>3, <2>4 DEF ImportInv, UploadsFit, Target, IntakeAssumption
<1>7. FilesFit'
  <2>1. \A c \in Businesses : ledger'[c] # NoFile => ledger'[c] \in drive'[c] \cup exposed'[c]
    <3>1. f \in drive[b] \cup exposed[b] BY <1>1 DEF ImportInv, FilesFit, Target
    <3> QED BY <1>1, <1>4, <1>5, <3>1, <1>2 DEF ImportInv, FilesFit, OnlyExposedFilesAreLost
  <2>2. ASSUME NEW j \in Importers, importer'[j].step = "INSERT"
        PROVE  importer'[j].file \in drive'[importer'[j].business] \cup exposed'[importer'[j].business]
    <3>1. j # i /\ importer'[j] = importer[j] BY <1>3, <2>2
    <3> QED BY <1>1, <1>5, <2>2, <3>1 DEF ImportInv, UploadsFit, FilesFit, Target
  <2>3. ASSUME NEW j \in Importers, importer'[j].uploadedHere
        PROVE  /\ ledger'[importer'[j].business] = importer'[j].file =>
                    importer'[j].file \in exposed'[importer'[j].business]
               /\ \A k \in Importers \ {j} :
                    importer'[k].business = importer'[j].business /\ importer'[k].file = importer'[j].file =>
                      importer'[j].file \in exposed'[importer'[j].business] /\ ~importer'[k].uploadedHere
    <3>1. /\ importer[j].uploadedHere /\ importer'[j].file = importer[j].file
          /\ importer'[j].business = importer[j].business
      BY <1>3, <2>3
    <3>2. importer[j].business \in Businesses /\ importer[j].file \in Files
      BY <3>1 DEF ImportInv, UploadsFit, Target
    <3>3. /\ ledger[importer[j].business] = importer[j].file => importer[j].file \in exposed[importer[j].business]
          /\ \A k \in Importers \ {j} :
               importer[k].business = importer[j].business /\ importer[k].file = importer[j].file =>
                 importer[j].file \in exposed[importer[j].business] /\ ~importer[k].uploadedHere
      BY <3>1 DEF ImportInv, FilesFit, Target
    <3>4. ledger'[importer[j].business] = importer[j].file => importer[j].file \in exposed'[importer[j].business]
      <4>1. CASE j = i BY <1>3, <1>5, <2>3, <4>1
      <4>2. CASE j # i
        <5>1. CASE importer[j].business = b BY <1>4, <1>5, <3>2, <3>3, <4>2, <5>1
        <5>2. CASE importer[j].business # b BY <1>4, <1>5, <3>2, <3>3, <5>2
        <5> QED BY <5>1, <5>2
      <4> QED BY <4>1, <4>2
    <3>5. \A k \in Importers : importer'[k].uploadedHere => importer[k].uploadedHere BY <1>3
    <3>6. \A k \in Importers : importer'[k].file \in {importer[k].file, NoFile}
            /\ importer'[k].business = importer[k].business
      BY <1>3
    <3> QED BY <1>5, <3>1, <3>2, <3>3, <3>4, <3>5, <3>6 DEF IntakeAssumption
  <2> QED BY <2>1, <2>2, <2>3, FilesKept
<1> QED BY <1>x, <1>6, <1>7 DEF ImportInv

\* What a compensation deletes is exposed, if a ledger row names it or another import holds it.
LEMMA CleanKeepsImports ==
  ASSUME ImportInv, IntakeAssumption, NEW i \in Importers, CleanUp(i)
  PROVE  ImportInv'
<1> DEFINE b == importer[i].business
           f == importer[i].file
           result == IF importer[i].duplicate THEN "ALREADY_IMPORTED" ELSE "SKIPPED"
<1>1. importer[i].step = "CLEAN" /\ ledger' = ledger /\ exposed' = exposed /\ Ends(i, result)
  BY DEF CleanUp
<1>2. b \in Businesses /\ f \in Files /\ importer[i].uploadedHere
  BY <1>1 DEF ImportInv, UploadsFit, Target
<1>3. importer[i].duplicate => ledger[b] # NoFile BY DEF ImportInv, UploadsFit, Target
<1>4. CASE UNCHANGED drive
  BY <1>1, <1>3, <1>4, EndKeepsImports DEF Target, archive
<1>5. CASE drive' = [drive EXCEPT ![b] = @ \ {f}]
  <2>1. /\ drive' \in [Businesses -> SUBSET Files]
        /\ drive'[b] = drive[b] \ {f}
        /\ \A c \in Businesses : c # b => drive'[c] = drive[c]
    BY <1>2, <1>5 DEF ImportInv, ImportTypeOK
  <2>2. result \in ImportSteps BY DEF ImportSteps
  <2>3. /\ importer' \in [Importers -> [step: ImportSteps,
                              business: Businesses \cup {NoBusiness},
                              file: Files \cup {NoFile}, uploadedHere: BOOLEAN,
                              duplicate: BOOLEAN]]
        /\ \A j \in Importers : j # i => importer'[j] = importer[j]
        /\ importer'[i].step = result /\ importer'[i].business = b
        /\ importer'[i].file = NoFile
        /\ ~importer'[i].uploadedHere /\ ~importer'[i].duplicate
    BY <1>1, <2>2, EndsFits DEF ImportInv
  <2>4. ImportTypeOK' BY <1>1, <2>1, <2>3 DEF ImportInv, ImportTypeOK
  <2>5. UploadsFit'
    BY <1>1, <1>2, <1>3, <2>3 DEF ImportInv, UploadsFit, Imported, Target, IntakeAssumption
  <2>6. FilesFit'
    <3>1. /\ ledger[b] = f => f \in exposed[b]
          /\ \A k \in Importers \ {i} : importer[k].business = b /\ importer[k].file = f => f \in exposed[b]
      BY <1>2 DEF ImportInv, FilesFit, Target
    <3>2. \A c \in Businesses : ledger'[c] # NoFile => ledger'[c] \in drive'[c] \cup exposed'[c]
      BY <1>1, <2>1, <3>1 DEF ImportInv, FilesFit, OnlyExposedFilesAreLost
    <3>3. ASSUME NEW j \in Importers, importer'[j].step = "INSERT"
          PROVE  importer'[j].file \in drive'[importer'[j].business] \cup exposed'[importer'[j].business]
      <4>1. j # i BY <2>3, <3>3
      <4>2. /\ importer[j].file \in drive[importer[j].business] \cup exposed[importer[j].business]
            /\ importer[j].business \in Businesses
        BY <2>3, <3>3, <4>1 DEF ImportInv, FilesFit, UploadsFit, Target
      <4> QED BY <1>1, <2>1, <2>3, <3>1, <3>3, <4>1, <4>2
    <3>4. ASSUME NEW j \in Importers, importer'[j].uploadedHere
          PROVE  /\ ledger'[importer'[j].business] = importer'[j].file =>
                      importer'[j].file \in exposed'[importer'[j].business]
                 /\ \A k \in Importers \ {j} :
                      importer'[k].business = importer'[j].business /\ importer'[k].file = importer'[j].file =>
                        importer'[j].file \in exposed'[importer'[j].business] /\ ~importer'[k].uploadedHere
      BY <1>1, <2>3, <3>4 DEF ImportInv, FilesFit, UploadsFit, Target, IntakeAssumption
    <3> QED BY <3>2, <3>3, <3>4, FilesKept
  <2> QED BY <2>4, <2>5, <2>6 DEF ImportInv
<1> QED BY <1>4, <1>5 DEF CleanUp, Target

\* An import that is about to delete its upload, in words the provers need.
LEMMA CleanFits ==
  ASSUME ImportTypeOK, NEW i \in Importers, NEW duplicate \in BOOLEAN,
         importer' = [importer EXCEPT ![i].step = "CLEAN", ![i].duplicate = duplicate]
  PROVE  /\ importer' \in [Importers -> [step: ImportSteps,
                              business: Businesses \cup {NoBusiness},
                              file: Files \cup {NoFile}, uploadedHere: BOOLEAN,
                              duplicate: BOOLEAN]]
         /\ \A j \in Importers : j # i => importer'[j] = importer[j]
         /\ importer'[i].step = "CLEAN" /\ importer'[i].business = importer[i].business
         /\ importer'[i].file = importer[i].file
         /\ importer'[i].uploadedHere = importer[i].uploadedHere
         /\ importer'[i].duplicate = duplicate
<1> DEFINE Rows == [step: ImportSteps, business: Businesses \cup {NoBusiness},
                    file: Files \cup {NoFile}, uploadedHere: BOOLEAN, duplicate: BOOLEAN]
           new == [importer[i] EXCEPT !.step = "CLEAN", !.duplicate = duplicate]
<1>1. importer \in [Importers -> Rows] BY DEF ImportTypeOK
<1>2. importer[i] \in Rows BY <1>1
<1>3. /\ new \in Rows
      /\ new.step = "CLEAN" /\ new.business = importer[i].business
      /\ new.file = importer[i].file /\ new.uploadedHere = importer[i].uploadedHere
      /\ new.duplicate = duplicate
  BY <1>2 DEF ImportSteps
<1>4. importer' = [importer EXCEPT ![i] = new] BY <1>1
<1> HIDE DEF new
<1>5. /\ importer'[i] = new /\ importer' \in [Importers -> Rows]
      /\ \A j \in Importers : j # i => importer'[j] = importer[j]
  <2> HIDE DEF Rows
  <2> QED BY <1>1, <1>3, <1>4
<1> QED BY <1>3, <1>5

LEMMA ImportStepKeeps ==
  ASSUME ImportInv, IntakeAssumption, NEW i \in Importers, ImportStep(i)
  PROVE  ImportInv'
<1> USE DEF Target, archive
<1>1. CASE Lookup(i)
  <2>1. CASE Ends(i, "ALREADY_IMPORTED") /\ ledger[Target(i)] # NoFile
    BY <1>1, <2>1, EndKeepsImports DEF Lookup
  <2>2. CASE importer' = [importer EXCEPT ![i].step = "LIST"]
    BY <1>1, <2>2, MoveKeepsImports DEF Lookup, ImportInv, ImportTypeOK, ImportSteps
  <2> QED BY <1>1, <2>1, <2>2 DEF Lookup
<1>2. CASE ListFolders(i) BY <1>2, ListKeepsImports
<1>3. CASE Adopt(i)
  BY <1>3, MoveKeepsImports DEF Adopt, ImportInv, ImportTypeOK, ImportSteps
<1>4. CASE Upload(i) \/ DriveFails(i) BY <1>4, UploadKeepsImports
<1>5. CASE InsertRow(i)
  <2>1. Ends(i, "IMPORTED") /\ "IMPORTED" \in ImportSteps BY <1>5 DEF InsertRow, ImportSteps
  <2>2. /\ importer' \in [Importers -> [step: ImportSteps,
                              business: Businesses \cup {NoBusiness},
                              file: Files \cup {NoFile}, uploadedHere: BOOLEAN,
                              duplicate: BOOLEAN]]
        /\ \A j \in Importers : j # i => importer'[j] = importer[j]
        /\ importer'[i].step = "IMPORTED" /\ importer'[i].business = importer[i].business
        /\ importer'[i].file = NoFile
        /\ ~importer'[i].uploadedHere /\ ~importer'[i].duplicate
    BY <2>1, EndsFits DEF ImportInv
  <2> QED BY <1>5, <2>2, InsertKeepsImports DEF InsertRow
<1>6. CASE CleanUp(i) BY <1>6, CleanKeepsImports
<1>7. ASSUME NEW duplicate \in BOOLEAN, InsertFails(i, duplicate) PROVE ImportInv'
  <2>1. CASE Compensates(i)
    <3>1. /\ importer' = [importer EXCEPT ![i].step = "CLEAN", ![i].duplicate = duplicate]
          /\ importer[i].step = "INSERT" /\ importer[i].uploadedHere
          /\ duplicate => ledger[Target(i)] # NoFile
          /\ UNCHANGED archive
      BY <1>7, <2>1 DEF InsertFails, Fails, Compensates, HitsUniqueKey
    <3>2. /\ importer' \in [Importers -> [step: ImportSteps,
                                business: Businesses \cup {NoBusiness},
                                file: Files \cup {NoFile}, uploadedHere: BOOLEAN,
                                duplicate: BOOLEAN]]
          /\ \A j \in Importers : j # i => importer'[j] = importer[j]
          /\ importer'[i].step = "CLEAN" /\ importer'[i].business = importer[i].business
          /\ importer'[i].file = importer[i].file
          /\ importer'[i].uploadedHere = importer[i].uploadedHere
          /\ importer'[i].duplicate = duplicate
      BY <3>1, CleanFits DEF ImportInv
    <3>3. importer'[i].duplicate => ledger[Target(i)] # NoFile
      BY <3>1, <3>2
    <3>4. /\ "CLEAN" \in {"LIST", "UPLOAD", "INSERT", "CLEAN"}
          /\ importer[i].step = "INSERT" /\ importer[i].uploadedHere
          /\ UNCHANGED archive
      BY <3>1
    <3> HIDE DEF Target
    <3> QED BY ONLY ImportInv, IntakeAssumption, i \in Importers, <3>2, <3>3, <3>4, MoveKeepsImports
  <2>2. CASE ~Compensates(i)
    BY <1>7, <2>2, EndKeepsImports DEF InsertFails, Fails, HitsUniqueKey
  <2> QED BY <2>1, <2>2
<1>8. CASE InsertUnanswered(i)
  <2>1. CASE Compensates(i)
    <3>1. /\ importer' = [importer EXCEPT ![i].step = "CLEAN", ![i].duplicate = FALSE]
          /\ importer[i].uploadedHere
      BY <1>8, <2>1 DEF InsertUnanswered, Fails, Compensates
    <3>2. /\ importer' \in [Importers -> [step: ImportSteps,
                                business: Businesses \cup {NoBusiness},
                                file: Files \cup {NoFile}, uploadedHere: BOOLEAN,
                                duplicate: BOOLEAN]]
          /\ \A j \in Importers : j # i => importer'[j] = importer[j]
          /\ importer'[i].step = "CLEAN" /\ importer'[i].business = importer[i].business
          /\ importer'[i].file = importer[i].file
          /\ importer'[i].uploadedHere = importer[i].uploadedHere
          /\ importer'[i].duplicate = FALSE
      BY <3>1, CleanFits DEF ImportInv
    <3> QED BY <1>8, <3>1, <3>2, InsertKeepsImports DEF InsertUnanswered
  <2>2. CASE ~Compensates(i)
    <3>1. Ends(i, "SKIPPED") /\ "SKIPPED" \in ImportSteps /\ ~importer[i].uploadedHere
      BY <1>8, <2>2 DEF InsertUnanswered, Fails, Compensates, ImportSteps
    <3>2. /\ importer' \in [Importers -> [step: ImportSteps,
                                business: Businesses \cup {NoBusiness},
                                file: Files \cup {NoFile}, uploadedHere: BOOLEAN,
                                duplicate: BOOLEAN]]
          /\ \A j \in Importers : j # i => importer'[j] = importer[j]
          /\ importer'[i].step = "SKIPPED" /\ importer'[i].business = importer[i].business
          /\ importer'[i].file = NoFile
          /\ ~importer'[i].uploadedHere /\ ~importer'[i].duplicate
      BY <3>1, EndsFits DEF ImportInv
    <3> QED BY <1>8, <3>1, <3>2, InsertKeepsImports DEF InsertUnanswered
  <2> QED BY <2>1, <2>2
<1> QED BY <1>1, <1>2, <1>3, <1>4, <1>5, <1>6, <1>7, <1>8 DEF ImportStep

\* An import changes nothing of the others, keeps its business, and no ledger row goes.
LEMMA ImportStepIsLocal ==
  ASSUME ImportInv, IntakeAssumption, NEW i \in Importers, ImportStep(i)
  PROVE  /\ \A j \in Importers : j # i => importer'[j] = importer[j]
         /\ importer'[i].business = importer[i].business
         /\ importer[i].step # "IDLE" /\ importer'[i].step # "IDLE"
         /\ \A b \in Businesses : ledger[b] # NoFile => ledger'[b] # NoFile
<1> DEFINE Local == /\ \A j \in Importers : j # i => importer'[j] = importer[j]
                    /\ importer'[i].business = importer[i].business
                    /\ importer[i].step # "IDLE" /\ importer'[i].step # "IDLE"
<1>1. ASSUME NEW result \in {"ALREADY_IMPORTED", "SKIPPED", "IMPORTED"}, Ends(i, result),
             importer[i].step # "IDLE"
      PROVE  Local
  BY <1>1, EndsFits DEF ImportInv, ImportSteps
<1> USE DEF ImportInv, ImportTypeOK
<1>2. Local
  <2>1. CASE Lookup(i) BY <1>1, <2>1 DEF Lookup
  <2>2. CASE ListFolders(i)
    <3>1. importer[i].step = "LIST" BY <2>2 DEF ListFolders
    <3>2. CASE importer' = [importer EXCEPT ![i].step = "UPLOAD"]
      BY <3>1, <3>2
    <3>3. ASSUME NEW f, importer' = [importer EXCEPT ![i].step = "ADOPT", ![i].file = f]
          PROVE  Local
      BY <3>1, <3>3
    <3> HIDE DEF Local
    <3>4. \/ importer' = [importer EXCEPT ![i].step = "UPLOAD"]
          \/ \E f : importer' = [importer EXCEPT ![i].step = "ADOPT", ![i].file = f]
      BY <2>2 DEF ListFolders
    <3> QED BY <3>2, <3>3, <3>4
  <2>3. CASE Adopt(i) BY <2>3 DEF Adopt
  <2>4. CASE Upload(i)
    <3> DEFINE f == CHOOSE f \in Unused(Target(i)) : TRUE
    <3>1. /\ importer' = [importer EXCEPT ![i].step = "INSERT", ![i].file = f,
                                          ![i].uploadedHere = TRUE]
          /\ importer[i].step = "UPLOAD"
      BY <2>4 DEF Upload
    <3> HIDE DEF f
    <3> QED BY <3>1
  <2>5. CASE DriveFails(i) BY <1>1, <2>5 DEF DriveFails
  <2>6. CASE InsertRow(i) BY <1>1, <2>6 DEF InsertRow
  <2>7. CASE CleanUp(i) BY <1>1, <2>7 DEF CleanUp
  <2>8. ASSUME NEW duplicate \in BOOLEAN, InsertFails(i, duplicate) PROVE Local
    <3>1. CASE Compensates(i) BY <2>8, <3>1, CleanFits DEF InsertFails, Fails
    <3>2. CASE ~Compensates(i) BY <1>1, <2>8, <3>2 DEF InsertFails, Fails
    <3> QED BY <3>1, <3>2
  <2>9. CASE InsertUnanswered(i)
    <3>1. CASE Compensates(i) BY <2>9, <3>1, CleanFits DEF InsertUnanswered, Fails
    <3>2. CASE ~Compensates(i) BY <1>1, <2>9, <3>2 DEF InsertUnanswered, Fails
    <3> QED BY <3>1, <3>2
  <2> QED BY <2>1, <2>2, <2>3, <2>4, <2>5, <2>6, <2>7, <2>8, <2>9 DEF ImportStep
<1>3. \A b \in Businesses : ledger[b] # NoFile => ledger'[b] # NoFile
  <2>1. CASE InsertRow(i) \/ InsertUnanswered(i)
    BY <2>1 DEF InsertRow, InsertUnanswered, UploadsFit, Target
  <2> QED BY <2>1 DEF ImportStep, Lookup, ListFolders, Adopt, Upload, DriveFails, CleanUp,
                      InsertFails, archive
<1> QED BY <1>2, <1>3

-----------------------------------------------------------------------------
(* The document and its answers. *)

IntakeTypeOK ==
  /\ row \in [Events -> EventRows]
  /\ job \in [Workers -> [event: Events \cup {Nobody}, step: WorkerSteps]]
  /\ owned \in SUBSET Businesses

JobsFit == \A w \in Workers :
  /\ At(w, "IDLE") <=> job[w].event = Nobody
  /\ At(w, "IMPORT") => job[w].event = Document
  /\ job[w].step \in {"SELECT", "SELECTED", "EXPLAIN"} => job[w].event \in Replies
  /\ importer[w].step # "IDLE" <=> At(w, "IMPORT")

\* Only an event at work has an owner, and an event that can be claimed has an attempt left.
RowsFit == \A e \in Events :
  /\ row[e].owner # Nobody \/ row[e].live => row[e].status = "PROCESSING"
  /\ row[e].status \in {"NONE", "PENDING"} => row[e].attempts = 0
  /\ row[e].status = "RETRY" => row[e].attempts < MaxAttempts

Chooses == Cardinality(owned) # 1

\* A document waits only while nothing is chosen, and nothing is imported meanwhile.
ChoiceFits ==
  /\ owned # {}
  /\ row[Document].status \in {"NONE", "WAITING_FOR_BUSINESS"}
       => row[Document].business = NoBusiness
  /\ row[Document].status = "WAITING_FOR_BUSINESS" => Chooses
  /\ row[Document].business # NoBusiness => Chooses \/ row[Document].status \in Imported
  /\ row[Document].status \in Imported =>
       /\ row[Document].business # NoBusiness
       /\ ledger[row[Document].business] # NoFile
  /\ Chooses => \A w \in Workers : At(w, "IMPORT") =>
       importer[w].business = row[Document].business \/ row[Document].status = "REJECTED"

ChosenBy(r) ==
  Chooses /\ (row[Document].business = Label(r) \/ row[Document].status = "REJECTED")

AnswersFit ==
  /\ \A w \in Workers : At(w, "SELECTED") => ChosenBy(job[w].event)
  /\ \A r \in Replies : row[r].status = "BUSINESS_SELECTED" => ChosenBy(r)

LinkFits == row[Document].linked => out[Question].delivered = 1

IntakeInv == IntakeTypeOK /\ JobsFit /\ RowsFit /\ ChoiceFits /\ AnswersFit /\ LinkFits

IInv == ImportInv /\ OutboxInv /\ IntakeInv

\* What OutcomeIsFinal asks of a step.
Final ==
  \A e \in Events :
    /\ row[e].status \in Terminal => row'[e].status = row[e].status
    /\ row[Document].business # NoBusiness =>
         \/ row'[Document].business = row[Document].business
         \/ row'[Document].status = "REJECTED"

\* A row that may take the place of an undecided one.
Suits(e, r) ==
  /\ row[e].status \notin Terminal
  /\ r \in EventRows /\ r.linked = row[e].linked
  /\ r.owner # Nobody \/ r.live => r.status = "PROCESSING"
  /\ r.status \in {"NONE", "PENDING"} => r.attempts = 0
  /\ r.status = "RETRY" => r.attempts < MaxAttempts
  /\ r.status = "BUSINESS_SELECTED" => e # Document /\ ChosenBy(e)
  /\ e = Document =>
       /\ r.status # "NONE"
       /\ r.status = "WAITING_FOR_BUSINESS" => row[e].business = NoBusiness /\ Chooses
       /\ \/ r.business = row[e].business /\ r.status \notin Imported \cup {"REJECTED"}
          \/ r.business = NoBusiness /\ r.status = "REJECTED"
          \/ /\ r.status \in Imported
             /\ r.business \in Businesses /\ ledger[r.business] # NoFile
             /\ Chooses => r.business = row[e].business

\* A worker goes on as it was, or holds nothing but a freshly claimed event.
SettlesJobs ==
  /\ job' \in [Workers -> [event: Events \cup {Nobody}, step: WorkerSteps]]
  /\ \A w \in Workers :
       \/ job'[w] = job[w] /\ importer'[w] = importer[w]
       \/ /\ job'[w].step \in {"IDLE", "PROCESS"} /\ importer'[w].step = "IDLE"
          /\ job'[w].step = "IDLE" <=> job'[w].event = Nobody

\* One row changes for one that suits, or none does.
LEMMA RowKeepsIntake ==
  ASSUME IInv, IntakeAssumption, NEW e \in Events,
         row' = row \/ \E r : Suits(e, r) /\ row' = [row EXCEPT ![e] = r],
         SettlesJobs, owned' = owned, ledger' = ledger,
         out[Question].delivered = 1 => out'[Question].delivered = 1
  PROVE  IntakeInv' /\ Final
<1>a. PICK r : row' = row \/ (Suits(e, r) /\ row' = [row EXCEPT ![e] = r])
  OBVIOUS
<1>0. /\ row \in [Events -> EventRows] /\ Document \in Events /\ Document \notin Replies
      /\ Replies \subseteq Events
  BY DEF IInv, IntakeInv, IntakeTypeOK, Events, IntakeAssumption
<1>1. /\ \A x \in Events : x # e => row'[x] = row[x]
      /\ row'[e] = row[e] \/ (Suits(e, r) /\ row'[e] = r)
      /\ row' \in [Events -> EventRows]
  <2>1. CASE row' = row
    <3>1. row'[e] = row[e] /\ \A x \in Events : row'[x] = row[x] BY <2>1
    <3>2. row' \in [Events -> EventRows] BY <1>0, <2>1
    <3> QED BY <3>1, <3>2
  <2>2. CASE Suits(e, r) /\ row' = [row EXCEPT ![e] = r]
    BY <1>0, <2>2 DEF Suits
  <2> QED BY <1>a, <2>1, <2>2
<1>2. IntakeTypeOK'
  BY <1>1 DEF IInv, IntakeInv, IntakeTypeOK, SettlesJobs
<1>3. JobsFit' BY DEF IInv, IntakeInv, JobsFit, SettlesJobs, At
<1>4. RowsFit' BY <1>1 DEF IInv, IntakeInv, RowsFit, Suits
<1>5. Chooses' <=> Chooses BY DEF Chooses
<1>6. /\ \/ row'[Document] = row[Document]
         \/ Suits(Document, row'[Document])
      /\ \A x \in Replies : row'[x] = row[x] \/ Suits(x, row'[x])
  BY <1>0, <1>1
<1>7. /\ Chooses => \/ row'[Document].business = row[Document].business
                    \/ row'[Document].status = "REJECTED"
      /\ row[Document].status = "REJECTED" => row'[Document].status = "REJECTED"
  BY <1>6 DEF Suits, Terminal
<1>8. ChoiceFits'
  <2>1. ASSUME Chooses, NEW w \in Workers, At(w, "IMPORT")'
        PROVE  \/ importer'[w].business = row'[Document].business
               \/ row'[Document].status = "REJECTED"
    <3>1. At(w, "IMPORT") /\ importer'[w] = importer[w]
      BY <2>1 DEF SettlesJobs, At
    <3> QED BY <1>7, <2>1, <3>1 DEF IInv, IntakeInv, ChoiceFits
  <2>2. /\ owned' # {}
        /\ row'[Document].status \in {"NONE", "WAITING_FOR_BUSINESS"}
             => row'[Document].business = NoBusiness
        /\ row'[Document].status = "WAITING_FOR_BUSINESS" => Chooses
        /\ row'[Document].business # NoBusiness
             => Chooses \/ row'[Document].status \in Imported
        /\ row'[Document].status \in Imported =>
             row'[Document].business # NoBusiness /\ ledger[row'[Document].business] # NoFile
    <3>1. CASE row'[Document] = row[Document]
      BY <3>1 DEF IInv, IntakeInv, ChoiceFits
    <3>2. CASE Suits(Document, row'[Document])
      BY <3>2 DEF IInv, IntakeInv, ChoiceFits, Suits, Terminal, Imported, IntakeAssumption
    <3> QED BY <1>6, <3>1, <3>2
  <2> QED BY <1>5, <2>1, <2>2 DEF ChoiceFits
<1>9. AnswersFit'
  <2>1. ASSUME NEW x \in Replies, ChosenBy(x) PROVE ChosenBy(x)'
    BY <1>5, <1>7, <2>1 DEF ChosenBy
  <2>2. ASSUME NEW w \in Workers, At(w, "SELECTED")' PROVE ChosenBy(job[w].event)'
    <3>1. At(w, "SELECTED") /\ job'[w] = job[w] BY <2>2 DEF SettlesJobs, At
    <3>2. ChosenBy(job[w].event) /\ job[w].event \in Replies
      BY <3>1 DEF IInv, IntakeInv, AnswersFit, JobsFit, At
    <3> QED BY <2>1, <3>1, <3>2
  <2>3. ASSUME NEW x \in Replies, row'[x].status = "BUSINESS_SELECTED" PROVE ChosenBy(x)'
    <3>1. ChosenBy(x) BY <1>6, <2>3 DEF IInv, IntakeInv, AnswersFit, Suits
    <3> QED BY <2>1, <3>1
  <2> QED BY <2>2, <2>3 DEF AnswersFit, At
<1>10. LinkFits' BY <1>6 DEF IInv, IntakeInv, LinkFits, Suits
<1>11. Final
  <2>1. ASSUME NEW x \in Events, row[x].status \in Terminal
        PROVE  row'[x].status = row[x].status
    BY <1>1, <2>1 DEF Suits
  <2>2. row[Document].business # NoBusiness =>
          \/ row'[Document].business = row[Document].business
          \/ row'[Document].status = "REJECTED"
    <3>1. CASE row'[Document] = row[Document] BY <3>1
    <3>2. CASE Suits(Document, row'[Document])
      BY <1>7, <3>2 DEF IInv, IntakeInv, ChoiceFits, Suits, Terminal
    <3> QED BY <1>6, <3>1, <3>2
  <2> QED BY <2>1, <2>2 DEF Final
<1> QED BY <1>2, <1>3, <1>4, <1>8, <1>9, <1>10, <1>11 DEF IntakeInv

\* A worker holds an event of its own kind.
LEMMA EventIsHeld ==
  ASSUME IInv, IntakeAssumption, NEW w \in Workers, ~At(w, "IDLE")
  PROVE  /\ job[w].event \in Events /\ row[job[w].event] \in EventRows
         /\ Owns(w) => row[job[w].event].status = "PROCESSING"
<1>1. job[w].event \in Events
  BY DEF IInv, IntakeInv, IntakeTypeOK, JobsFit
<1>2. row[job[w].event] \in EventRows BY <1>1 DEF IInv, IntakeInv, IntakeTypeOK
<1>3. w # Nobody BY DEF Workers, IntakeAssumption
<1> QED BY <1>1, <1>2, <1>3 DEF Owns, IInv, IntakeInv, RowsFit

LEMMA ReleasedFits ==
  ASSUME NEW e, row[e] \in EventRows, NEW status \in EventStatuses, IntakeAssumption
  PROVE  /\ Released(e, status) \in EventRows
         /\ Released(e, status).status = status /\ Released(e, status).owner = Nobody
         /\ ~Released(e, status).live
         /\ Released(e, status).attempts = IF status \in Terminal THEN 0 ELSE row[e].attempts
         /\ Released(e, status).business = row[e].business
         /\ Released(e, status).linked = row[e].linked
<1>1. 0 \in 0..MaxAttempts BY DEF IntakeAssumption
<1> QED BY <1>1 DEF Released, EventRows

\* Worker w drops what it held, or picks up an event, and its import with it.
LEMMA IdleSettles ==
  ASSUME IInv, IntakeAssumption, NEW w \in Workers,
         \/ Idle(w)
         \/ \E e \in Events : job' = [job EXCEPT ![w] = [event |-> e, step |-> "PROCESS"]],
         \/ EndImport(w)
         \/ importer' = importer /\ ~At(w, "IMPORT")
  PROVE  SettlesJobs
<1>1. Nobody \notin Events BY DEF IntakeAssumption, Events
<1> DEFINE Settled ==
      /\ \A x \in Workers : x # w => job'[x] = job[x]
      /\ job' \in [Workers -> [event: Events \cup {Nobody}, step: WorkerSteps]]
      /\ job'[w].step \in {"IDLE", "PROCESS"}
      /\ job'[w].step = "IDLE" <=> job'[w].event = Nobody
<1>2. Settled
  <2>1. CASE Idle(w)
    BY <2>1 DEF Idle, IdleWorker, IInv, IntakeInv, IntakeTypeOK, WorkerSteps
  <2>2. ASSUME NEW e \in Events, job' = [job EXCEPT ![w] = [event |-> e, step |-> "PROCESS"]]
        PROVE  Settled
    BY <1>1, <2>2 DEF IInv, IntakeInv, IntakeTypeOK, WorkerSteps
  <2> QED BY <2>1, <2>2
<1>3. /\ \A x \in Workers : x # w => importer'[x] = importer[x]
      /\ importer'[w].step = "IDLE"
  <2>1. CASE EndImport(w)
    BY <2>1 DEF EndImport, IdleImporter, IInv, ImportInv, ImportTypeOK, Workers
  <2>2. CASE importer' = importer /\ ~At(w, "IMPORT")
    BY <2>2 DEF IInv, IntakeInv, JobsFit
  <2> QED BY <2>1, <2>2
<1> QED BY <1>2, <1>3 DEF SettlesJobs

LEMMA ConcludeKeepsIntake ==
  ASSUME IInv, IntakeAssumption, NEW w \in Workers, ~At(w, "IDLE"),
         NEW status \in {"RETRY", "FAILED", "BLOCKED_IMPORT", "BUSINESS_SELECTED",
                         "BUSINESS_LOCKED", "REJECTED_BUSINESS_SELECTION"},
         Conclude(w, status),
         status = "RETRY" => row[job[w].event].attempts < MaxAttempts,
         status = "BUSINESS_SELECTED" => At(w, "SELECTED"),
         EndImport(w) \/ (importer' = importer /\ ~At(w, "IMPORT")), ledger' = ledger
  PROVE  IntakeInv' /\ Final
<1> DEFINE e == job[w].event
<1>1. e \in Events /\ row[e] \in EventRows /\ (Owns(w) => row[e].status = "PROCESSING")
  BY EventIsHeld
<1>2. SettlesJobs /\ owned' = owned /\ out' = out
  BY IdleSettles DEF Conclude, outboxVars
<1>3. row' = row \/ (Owns(w) /\ row' = [row EXCEPT ![e] = Released(e, status)])
  BY DEF Conclude
<1>4. status = "BUSINESS_SELECTED" => e # Document /\ ChosenBy(e)
  BY DEF IInv, IntakeInv, AnswersFit, JobsFit, At, IntakeAssumption
<1>5. Owns(w) => Suits(e, Released(e, status))
  BY <1>1, <1>4, ReleasedFits DEF Suits, Terminal, EventStatuses, Imported, Undecided
<1> HIDE DEF e
<1>6. CASE row' = row BY <1>1, <1>2, <1>6, RowKeepsIntake
<1>7. CASE Owns(w) /\ row' = [row EXCEPT ![e] = Released(e, status)]
  BY <1>1, <1>2, <1>5, <1>7, RowKeepsIntake
<1> QED BY <1>3, <1>6, <1>7

LEMMA RetryKeepsIntake ==
  ASSUME IInv, IntakeAssumption, NEW w \in Workers, ~At(w, "IDLE"), Retry(w),
         EndImport(w) \/ (importer' = importer /\ ~At(w, "IMPORT")), ledger' = ledger
  PROVE  IntakeInv' /\ Final
<1>1. row[job[w].event].attempts \in Nat
  BY EventIsHeld DEF EventRows, IntakeAssumption
<1>2. CASE Conclude(w, "FAILED") BY <1>2, ConcludeKeepsIntake
<1>3. CASE Conclude(w, "RETRY") /\ row[job[w].event].attempts < MaxAttempts
  BY <1>3, ConcludeKeepsIntake
<1> QED BY <1>1, <1>2, <1>3 DEF Retry, IntakeAssumption

USE DEF archive

\* Events arrive, leases run out, ticks claim events and die.
LEMMA QueueKeepsIntake ==
  ASSUME IInv, IntakeAssumption,
         \/ Accept \/ \E r \in Replies : Answer(r)
         \/ \E e \in Events : FailLost(e) \/ LeaseExpires(e)
         \/ \E w \in Workers : WorkerCrashes(w) \/ \E e \in Events : ClaimEvent(w, e)
  PROVE  IntakeInv' /\ Final
<1> USE DEF importVars, outboxVars
<1>1. /\ row \in [Events -> EventRows] /\ Document \in Events /\ Replies \subseteq Events
      /\ Document \notin Replies
  BY DEF IInv, IntakeInv, IntakeTypeOK, Events, IntakeAssumption
<1>2. (job' = job /\ importer' = importer) => SettlesJobs
  BY DEF SettlesJobs, IInv, IntakeInv, IntakeTypeOK
<1>3. ASSUME NEW e \in Events, row[e].status = "NONE",
             row' = [row EXCEPT ![e].status = "PENDING"],
             UNCHANGED <<job, owned, importVars, outboxVars>>
      PROVE  IntakeInv' /\ Final
  <2> DEFINE r == [row[e] EXCEPT !.status = "PENDING"]
  <2>1. row[e] \in EventRows BY <1>1
  <2>2. /\ r \in EventRows /\ r.status = "PENDING" /\ r.owner = row[e].owner
        /\ r.live = row[e].live /\ r.attempts = row[e].attempts
        /\ r.business = row[e].business /\ r.linked = row[e].linked
    BY <2>1 DEF EventRows, EventStatuses, Undecided
  <2>3. row' = [row EXCEPT ![e] = r] BY <1>1, <1>3
  <2> HIDE DEF r
  <2>4. Suits(e, r)
    BY <1>3, <2>2 DEF Suits, Terminal, Imported, IInv, IntakeInv, RowsFit
  <2> QED BY <1>2, <1>3, <2>3, <2>4, RowKeepsIntake
<1>4. CASE Accept \/ \E r \in Replies : Answer(r)
  BY <1>1, <1>3, <1>4 DEF Accept, Answer
<1>5. ASSUME NEW e \in Events, LeaseExpires(e) PROVE IntakeInv' /\ Final
  <2> DEFINE r == [row[e] EXCEPT !.live = FALSE]
  <2>1. row[e] \in EventRows BY <1>1
  <2>2. /\ r \in EventRows /\ r.status = row[e].status /\ r.owner = row[e].owner
        /\ r.live = FALSE /\ r.attempts = row[e].attempts
        /\ r.business = row[e].business /\ r.linked = row[e].linked
    BY <2>1 DEF EventRows
  <2>3. row' = [row EXCEPT ![e] = r] BY <1>1, <1>5 DEF LeaseExpires
  <2>4. row[e].status = "PROCESSING" BY <1>5 DEF LeaseExpires, IInv, IntakeInv, RowsFit
  <2> HIDE DEF r
  <2>5. Suits(e, r) BY <2>2, <2>4 DEF Suits, Terminal, Imported
  <2> QED BY <1>2, <1>5, <2>3, <2>5, RowKeepsIntake DEF LeaseExpires
<1>6. ASSUME NEW e \in Events, FailLost(e) PROVE IntakeInv' /\ Final
  <2>1. /\ row' = [row EXCEPT ![e] = Released(e, "FAILED")] /\ row[e].status = "PROCESSING"
        /\ UNCHANGED <<job, owned, importVars, outboxVars>>
    BY <1>6 DEF FailLost, LastAttemptLost
  <2>2. Suits(e, Released(e, "FAILED"))
    BY <1>1, <2>1, ReleasedFits DEF Suits, Terminal, Imported, EventStatuses
  <2> QED BY <1>2, <2>1, <2>2, RowKeepsIntake
<1>7. ASSUME NEW w \in Workers, WorkerCrashes(w) PROVE IntakeInv' /\ Final
  <2>1. SettlesJobs BY <1>7, IdleSettles DEF WorkerCrashes
  <2> QED BY <1>1, <1>7, <2>1, RowKeepsIntake DEF WorkerCrashes
<1>8. ASSUME NEW w \in Workers, NEW e \in Events, ClaimEvent(w, e) PROVE IntakeInv' /\ Final
  <2> DEFINE r == [row[e] EXCEPT !.status = "PROCESSING", !.owner = w, !.live = TRUE,
                                 !.attempts = row[e].attempts + 1]
  <2>1. row[e] \in EventRows BY <1>1
  <2>2. row[e].attempts \in 0..MaxAttempts /\ row[e].attempts < MaxAttempts
    <3>1. row[e].attempts \in 0..MaxAttempts /\ MaxAttempts \in Nat \ {0}
      BY <2>1 DEF EventRows, IntakeAssumption
    <3>2. CASE row[e].status \in {"PENDING", "RETRY"}
      BY <3>1, <3>2 DEF IInv, IntakeInv, RowsFit
    <3>3. CASE row[e].status = "PROCESSING" /\ ~row[e].live
      <4>1. ~LastAttemptLost(e) BY <1>8 DEF ClaimEvent
      <4> QED BY <3>1, <3>3, <4>1 DEF LastAttemptLost
    <3> QED BY <1>8, <3>1, <3>2, <3>3 DEF ClaimEvent
  <2>3. /\ r \in EventRows /\ r.status = "PROCESSING"
        /\ r.business = row[e].business /\ r.linked = row[e].linked
    <3>1. row[e].attempts + 1 \in 0..MaxAttempts BY <2>2 DEF IntakeAssumption
    <3>2. w \in Workers \cup {Nobody} /\ "PROCESSING" \in EventStatuses
      BY DEF EventStatuses, Undecided
    <3> QED BY <2>1, <3>1, <3>2 DEF EventRows
  <2>4. row' = [row EXCEPT ![e] = r] BY <1>8 DEF ClaimEvent
  <2>5. row[e].status \in {"PENDING", "RETRY", "PROCESSING"} BY <1>8 DEF ClaimEvent
  <2> HIDE DEF r
  <2>6. Suits(e, r) BY <2>3, <2>5 DEF Suits, Terminal, Imported
  <2>7. SettlesJobs BY <1>8, IdleSettles DEF ClaimEvent, At
  <2> QED BY <1>8, <2>4, <2>6, <2>7, RowKeepsIntake DEF ClaimEvent
<1> QED BY <1>4, <1>5, <1>6, <1>7, <1>8

\* A document goes to the chosen business, or to the only one.
LEMMA DestinationFits ==
  ASSUME IInv, IntakeAssumption, NEW w \in Workers, Destination(w) # NoBusiness
  PROVE  /\ Destination(w) \in Businesses
         /\ Chooses => Destination(w) = row[Document].business
<1>1. row[Document].business \in Businesses \cup {NoBusiness}
  BY DEF IInv, IntakeInv, IntakeTypeOK, Events, EventRows
<1>2. owned \subseteq Businesses /\ owned # {}
  BY DEF IInv, IntakeInv, IntakeTypeOK, ChoiceFits
<1> QED BY <1>1, <1>2 DEF Destination, Chooses

\* A tick that owns the document and has no destination may ask for one.
LEMMA NoDestination ==
  ASSUME IInv, IntakeAssumption, NEW w \in Workers, Destination(w) = NoBusiness
  PROVE  Chooses /\ (Owns(w) => row[Document].business = NoBusiness)
<1>1. owned \subseteq Businesses /\ owned # {}
  BY DEF IInv, IntakeInv, IntakeTypeOK, ChoiceFits
<1>2. Cardinality(owned) # 1 BY <1>1 DEF Destination, IntakeAssumption
<1> QED BY <1>2 DEF Destination, Chooses

\* Attempts that end without an import.
LEMMA AttemptKeepsIntake ==
  ASSUME IInv, IntakeAssumption, NEW w \in Workers,
         \/ Reject(w) \/ ProcessFails(w) \/ AskBusiness(w) \/ Block(w)
         \/ ReplyAccepted(w) \/ ReplyExplained(w) \/ ReplyFails(w)
  PROVE  IntakeInv' /\ Final
<1> USE DEF importVars, outboxVars
<1>1. /\ ~At(w, "IDLE") /\ ~At(w, "IMPORT") /\ importer' = importer /\ ledger' = ledger
      /\ owned' = owned
  BY DEF Reject, ProcessFails, AskBusiness, Block, ReplyAccepted, ReplyExplained, ReplyFails,
         Processes, At, Retry, Conclude
<1>2. /\ job[w].event \in Events /\ row[job[w].event] \in EventRows
      /\ Owns(w) => row[job[w].event].status = "PROCESSING"
  BY <1>1, EventIsHeld
<1>3. CASE ProcessFails(w) \/ ReplyFails(w)
  BY <1>1, <1>3, RetryKeepsIntake DEF ProcessFails, ReplyFails
<1>4. CASE Block(w) \/ ReplyAccepted(w) \/ ReplyExplained(w)
  BY <1>1, <1>4, ConcludeKeepsIntake DEF Block, ReplyAccepted, ReplyExplained
<1>5. CASE Reject(w)
  <2> DEFINE e == job[w].event
             r == [Released(e, "REJECTED") EXCEPT !.business = NoBusiness]
  <2>1. SettlesJobs BY <1>1, <1>5, IdleSettles DEF Reject
  <2>2. out' = out BY <1>5 DEF Reject
  <2>3. row' = row \/ (Owns(w) /\ row' = [row EXCEPT ![e] = r]) BY <1>5 DEF Reject
  <2>4. "REJECTED" \in EventStatuses /\ "REJECTED" \in Terminal BY DEF EventStatuses, Terminal
  <2>5. /\ Released(e, "REJECTED") \in EventRows
        /\ Released(e, "REJECTED").status = "REJECTED"
        /\ Released(e, "REJECTED").owner = Nobody /\ ~Released(e, "REJECTED").live
        /\ Released(e, "REJECTED").linked = row[e].linked
    BY <1>2, <2>4, ReleasedFits
  <2>6. /\ r \in EventRows /\ r.status = "REJECTED" /\ r.owner = Nobody /\ ~r.live
        /\ r.linked = row[e].linked /\ r.business = NoBusiness
    BY <2>5 DEF EventRows
  <2> HIDE DEF r, e
  <2>7. Owns(w) => Suits(e, r)
    BY <1>2, <2>6 DEF Suits, Terminal, Imported, e
  <2>8. row' = row \/ \E q : Suits(e, q) /\ row' = [row EXCEPT ![e] = q]
    BY <2>3, <2>7
  <2> QED BY <1>1, <1>2, <2>1, <2>2, <2>8, RowKeepsIntake DEF e
<1>6. CASE AskBusiness(w)
  <2> DEFINE r == Released(Document, "WAITING_FOR_BUSINESS")
  <2>1. SettlesJobs BY <1>1, <1>6, IdleSettles DEF AskBusiness
  <2>2. job[w].event = Document /\ Destination(w) = NoBusiness
    BY <1>6 DEF AskBusiness, Processes
  <2>3. row' = row \/ (Owns(w) /\ row' = [row EXCEPT ![Document] = r])
    BY <1>6 DEF AskBusiness
  <2>4. "WAITING_FOR_BUSINESS" \in EventStatuses /\ "WAITING_FOR_BUSINESS" \notin Terminal
    BY DEF EventStatuses, Terminal, Imported
  <2>5. Owns(w) => Suits(Document, r)
    BY <1>2, <2>2, <2>4, NoDestination, ReleasedFits DEF Suits, Terminal, Imported
  <2>6. row' = row \/ \E q : Suits(Document, q) /\ row' = [row EXCEPT ![Document] = q]
    BY <2>3, <2>5
  <2>7. out[Question].delivered = 1 => out'[Question].delivered = 1
    <3>1. Question \in Messages BY DEF Question, IntakeAssumption
    <3>2. out[Question] \in MessageRows
      BY <3>1 DEF IInv, OutboxInv, OutboxTypeOK
    <3>3. out' = out \/ out' = [out EXCEPT ![Question] = Staged(Question)]
      BY <1>6 DEF AskBusiness
    <3>4. Staged(Question).delivered = out[Question].delivered
      BY <3>2 DEF Staged, MessageRows
    <3> QED BY <3>1, <3>3, <3>4 DEF IInv, OutboxInv, OutboxTypeOK
  <2> QED BY <1>1, <1>2, <2>1, <2>2, <2>6, <2>7, RowKeepsIntake
<1> QED BY <1>3, <1>4, <1>5, <1>6

\* The import of a document begins, goes on and ends.
LEMMA ImportKeepsIntake ==
  ASSUME IInv, IntakeAssumption, NEW w \in Workers,
         BeginImport(w) \/ Imports(w) \/ Complete(w) \/ ImportFails(w)
  PROVE  IntakeInv' /\ Final
<1> USE DEF outboxVars
<1>1. CASE ImportFails(w)
  BY <1>1, RetryKeepsIntake DEF ImportFails, At, EndImport
<1>2. CASE Complete(w)
  <2> DEFINE b == importer[w].business
             r == [Released(Document, importer[w].step) EXCEPT !.business = b]
  <2>1. /\ At(w, "IMPORT") /\ job[w].event = Document /\ importer[w].step \in Imported
        /\ ledger' = ledger /\ out' = out /\ owned' = owned
    BY <1>2 DEF Complete, At, IInv, IntakeInv, JobsFit
  <2>2. SettlesJobs BY <1>2, IdleSettles DEF Complete
  <2>3. row' = row \/ (Owns(w) /\ row' = [row EXCEPT ![Document] = r])
    BY <1>2 DEF Complete
  <2>4. /\ row[Document] \in EventRows /\ Document \in Events
        /\ Owns(w) => row[Document].status = "PROCESSING"
    BY <2>1, EventIsHeld DEF At
  <2>5. importer[w].step \in EventStatuses BY <2>1 DEF EventStatuses, Terminal
  <2>6. /\ Released(Document, importer[w].step) \in EventRows
        /\ Released(Document, importer[w].step).status = importer[w].step
        /\ Released(Document, importer[w].step).owner = Nobody
        /\ ~Released(Document, importer[w].step).live
        /\ Released(Document, importer[w].step).linked = row[Document].linked
    BY <2>4, <2>5, ReleasedFits
  <2>7. b \in Businesses /\ ledger[b] # NoFile
    BY <2>1 DEF IInv, ImportInv, UploadsFit, Target, Workers, Imported
  <2>8. /\ r \in EventRows /\ r.status = importer[w].step /\ r.owner = Nobody /\ ~r.live
        /\ r.linked = row[Document].linked /\ r.business = b
    BY <2>6, <2>7 DEF EventRows
  <2>9. Owns(w) /\ Chooses => b = row[Document].business
    BY <2>1, <2>4 DEF IInv, IntakeInv, ChoiceFits
  <2> HIDE DEF r, b
  <2>10. Owns(w) => Suits(Document, r)
    BY <2>1, <2>4, <2>7, <2>8, <2>9 DEF Suits, Terminal, Imported
  <2>11. row' = row \/ \E q : Suits(Document, q) /\ row' = [row EXCEPT ![Document] = q]
    BY <2>3, <2>10
  <2> QED BY <2>1, <2>2, <2>4, <2>11, RowKeepsIntake
<1>3. CASE BeginImport(w)
  <2>1. /\ row' = row /\ owned' = owned /\ ledger' = ledger /\ out' = out
        /\ At(w, "PROCESS") /\ job[w].event = Document
        /\ job' = [job EXCEPT ![w].step = "IMPORT"]
        /\ importer' = [importer EXCEPT ![w] =
             [IdleImporter EXCEPT !.step = "LOOKUP", !.business = Destination(w)]]
    BY <1>3 DEF BeginImport, Processes, GoesTo, StartImport
  <2>2. Destination(w) \in Businesses /\ (Chooses => Destination(w) = row[Document].business)
    BY <1>3, DestinationFits DEF BeginImport
  <2>3. /\ \A x \in Workers : x # w => job'[x] = job[x] /\ importer'[x] = importer[x]
        /\ job'[w].step = "IMPORT" /\ job'[w].event = Document
        /\ importer'[w].step = "LOOKUP" /\ importer'[w].business = Destination(w)
        /\ job' \in [Workers -> [event: Events \cup {Nobody}, step: WorkerSteps]]
    BY <2>1 DEF IInv, IntakeInv, IntakeTypeOK, ImportInv, ImportTypeOK, Workers, WorkerSteps,
                IdleImporter
  <2>4. Document # Nobody BY DEF IntakeAssumption
  <2>5. IntakeTypeOK' BY <2>1, <2>3 DEF IInv, IntakeInv, IntakeTypeOK
  <2>6. JobsFit' BY <2>3, <2>4 DEF IInv, IntakeInv, JobsFit, At
  <2>7. RowsFit' /\ LinkFits' BY <2>1 DEF IInv, IntakeInv, RowsFit, LinkFits
  <2>8. ChoiceFits' BY <2>1, <2>2, <2>3 DEF IInv, IntakeInv, ChoiceFits, Chooses, At
  <2>9. AnswersFit'
    BY <2>1, <2>3 DEF IInv, IntakeInv, AnswersFit, ChosenBy, Chooses, At
  <2>10. Final BY <2>1 DEF Final
  <2> QED BY <2>5, <2>6, <2>7, <2>8, <2>9, <2>10 DEF IntakeInv
<1>4. CASE Imports(w)
  <2>1. /\ row' = row /\ job' = job /\ owned' = owned /\ out' = out /\ ImportStep(w)
    BY <1>4 DEF Imports
  <2>2. /\ \A x \in Workers : x # w => importer'[x] = importer[x]
        /\ importer'[w].business = importer[w].business
        /\ importer[w].step # "IDLE" /\ importer'[w].step # "IDLE"
        /\ \A b \in Businesses : ledger[b] # NoFile => ledger'[b] # NoFile
    BY <2>1, ImportStepIsLocal DEF IInv, Workers
  <2>3. IntakeTypeOK' BY <2>1 DEF IInv, IntakeInv, IntakeTypeOK
  <2>4. JobsFit' BY <2>1, <2>2 DEF IInv, IntakeInv, JobsFit, At
  <2>5. RowsFit' /\ LinkFits' BY <2>1 DEF IInv, IntakeInv, RowsFit, LinkFits
  <2>6. ChoiceFits'
    <3>1. row[Document].business \in Businesses \cup {NoBusiness}
      BY DEF IInv, IntakeInv, IntakeTypeOK, Events, EventRows
    <3>2. row[Document].status \in Imported =>
            row[Document].business # NoBusiness /\ ledger'[row[Document].business] # NoFile
      BY <2>2, <3>1 DEF IInv, IntakeInv, ChoiceFits
    <3>3. Chooses => \A x \in Workers : At(x, "IMPORT") =>
            \/ importer'[x].business = row[Document].business
            \/ row[Document].status = "REJECTED"
      BY <2>2 DEF IInv, IntakeInv, ChoiceFits
    <3> QED BY <2>1, <3>2, <3>3 DEF IInv, IntakeInv, ChoiceFits, Chooses, At
  <2>7. AnswersFit' BY <2>1 DEF IInv, IntakeInv, AnswersFit, ChosenBy, Chooses, At
  <2>8. Final BY <2>1 DEF Final
  <2> QED BY <2>3, <2>4, <2>5, <2>6, <2>7, <2>8 DEF IntakeInv
<1> QED BY <1>1, <1>2, <1>3, <1>4

\* Nothing is imported while the document waits: an answer meets no running import.
LEMMA AnswerKeepsIntake ==
  ASSUME IInv, IntakeAssumption, NEW w \in Workers, Match(w) \/ Select(w)
  PROVE  IntakeInv' /\ Final
<1> DEFINE e == job[w].event
<1> USE DEF importVars, outboxVars
<1>1. /\ owned' = owned /\ importer' = importer /\ ledger' = ledger /\ out' = out
      /\ e \in Replies /\ ~At(w, "IDLE") /\ ~At(w, "IMPORT")
  BY DEF Match, Select, At, IInv, IntakeInv, JobsFit
<1>2. PICK step \in {"SELECT", "SELECTED", "EXPLAIN"} :
        /\ job' = [job EXCEPT ![w].step = step]
        /\ \/ row' = row /\ step # "SELECTED"
           \/ /\ StillWaits /\ step = "SELECTED" /\ Select(w)
              /\ row' = [row EXCEPT ![Document] =
                          [@ EXCEPT !.business = Label(e), !.status = "PENDING",
                                    !.attempts = 0]]
  BY DEF Match, Select, GoesTo
<1>3. /\ \A x \in Workers : x # w => job'[x] = job[x]
      /\ job'[w].step = step /\ job'[w].event = e
      /\ job' \in [Workers -> [event: Events \cup {Nobody}, step: WorkerSteps]]
  BY <1>2 DEF IInv, IntakeInv, IntakeTypeOK, WorkerSteps
<1>4. Nobody \notin Replies /\ Label(e) \in Businesses /\ NoBusiness \notin Businesses
      /\ Document \notin Replies /\ Document \in Events /\ Replies \subseteq Events
  BY <1>1 DEF IntakeAssumption, Events
<1> HIDE DEF e
<1>5. JobsFit'
  BY <1>1, <1>3, <1>4 DEF IInv, IntakeInv, JobsFit, At
<1>6. CASE row' = row /\ step # "SELECTED"
  <2>1. IntakeTypeOK' BY <1>1, <1>3, <1>6 DEF IInv, IntakeInv, IntakeTypeOK
  <2>2. RowsFit' /\ LinkFits' BY <1>1, <1>6 DEF IInv, IntakeInv, RowsFit, LinkFits
  <2>3. ChoiceFits'
    BY <1>1, <1>3, <1>6 DEF IInv, IntakeInv, ChoiceFits, Chooses, At
  <2>4. AnswersFit'
    BY <1>1, <1>3, <1>6 DEF IInv, IntakeInv, AnswersFit, ChosenBy, Chooses, At
  <2>5. Final BY <1>6 DEF Final
  <2> QED BY <1>5, <2>1, <2>2, <2>3, <2>4, <2>5 DEF IntakeInv
<1>7. CASE /\ StillWaits /\ step = "SELECTED"
           /\ row' = [row EXCEPT ![Document] =
                       [@ EXCEPT !.business = Label(e), !.status = "PENDING", !.attempts = 0]]
  <2> DEFINE r == [row[Document] EXCEPT !.business = Label(e), !.status = "PENDING",
                                        !.attempts = 0]
  <2>1. row[Document] \in EventRows /\ row \in [Events -> EventRows]
    BY <1>4 DEF IInv, IntakeInv, IntakeTypeOK
  <2>2. 0 \in 0..MaxAttempts /\ "PENDING" \in EventStatuses
    BY DEF IntakeAssumption, EventStatuses, Undecided
  <2>3. /\ r \in EventRows /\ r.status = "PENDING" /\ r.business = Label(e)
        /\ r.attempts = 0 /\ r.owner = row[Document].owner /\ r.live = row[Document].live
        /\ r.linked = row[Document].linked
    BY <1>4, <2>1, <2>2 DEF EventRows
  <2>4. row' = [row EXCEPT ![Document] = r] BY <1>7
  <2> HIDE DEF r
  <2>5. /\ row'[Document] = r /\ row' \in [Events -> EventRows]
        /\ \A x \in Events : x # Document => row'[x] = row[x]
    BY <1>4, <2>1, <2>3, <2>4
  <2>6. /\ row[Document].status = "WAITING_FOR_BUSINESS"
        /\ row[Document].business = NoBusiness /\ Chooses
    BY <1>7 DEF StillWaits, IInv, IntakeInv, ChoiceFits
  <2>7. \A x \in Workers : ~At(x, "IMPORT")
    BY <1>4, <2>6 DEF IInv, IntakeInv, ChoiceFits, JobsFit, ImportInv, UploadsFit, Target,
                      Workers
  <2>8. IntakeTypeOK' BY <1>1, <1>3, <2>5 DEF IInv, IntakeInv, IntakeTypeOK
  <2>9. RowsFit'
    BY <2>3, <2>5, <2>6 DEF IInv, IntakeInv, RowsFit
  <2>10. LinkFits' BY <1>1, <2>3, <2>5 DEF IInv, IntakeInv, LinkFits
  <2>11. Chooses' BY <1>1, <2>6 DEF Chooses
  <2>12. \A x \in Workers : ~(At(x, "IMPORT")')
    BY <1>3, <1>7, <2>7 DEF At
  <2>13. ChoiceFits'
    BY <1>1, <2>3, <2>5, <2>11, <2>12 DEF IInv, IntakeInv, ChoiceFits, Imported
  <2>14. \A x \in Replies : ~ChosenBy(x)
    BY <2>6 DEF ChosenBy, IntakeAssumption
  <2>15. AnswersFit'
    <3>1. ASSUME NEW x \in Workers, At(x, "SELECTED")' PROVE ChosenBy(job[x].event)'
      <4>1. x = w
        BY <1>3, <2>14, <3>1 DEF IInv, IntakeInv, AnswersFit, JobsFit, At
      <4> QED BY <1>3, <2>3, <2>5, <2>11, <4>1 DEF ChosenBy
    <3>2. \A x \in Replies : row'[x].status # "BUSINESS_SELECTED"
      BY <1>4, <2>5, <2>14 DEF IInv, IntakeInv, AnswersFit
    <3> QED BY <3>1, <3>2 DEF AnswersFit
  <2>16. Final BY <2>5, <2>6 DEF Final, Terminal, Imported
  <2> QED BY <1>5, <2>8, <2>9, <2>10, <2>13, <2>15, <2>16 DEF IntakeInv
<1> QED BY <1>2, <1>6, <1>7

\* What reached the phone is never taken back.
LEMMA DeliveredStays ==
  ASSUME OutboxInv, [OutboxNext]_outboxVars, NEW m \in Messages, out[m].delivered = 1
  PROVE  out'[m].delivered = 1
<1>1. out \in [Messages -> MessageRows] /\ out[m] \in MessageRows
  BY DEF OutboxInv, OutboxTypeOK
<1>2. \A x \in Messages, status \in MessageStatuses : Free(out[x], status).delivered = out[x].delivered
  BY <1>1 DEF Free, MessageRows
<1>3. CASE UNCHANGED outboxVars BY <1>3 DEF outboxVars
<1>4. ASSUME NEW x \in Messages, StageAny(x) \/ MessageLeaseExpires(x)
      PROVE  out'[m].delivered = 1
  <2>1. CASE StageAny(x)
    <3>1. Staged(x).delivered = out[x].delivered
      BY <1>1 DEF Staged, MessageRows
    <3> QED BY <1>1, <2>1, <3>1 DEF StageAny
  <2>2. CASE MessageLeaseExpires(x)
    BY <1>1, <2>2 DEF MessageLeaseExpires, MessageRows
  <2> QED BY <1>4, <2>1, <2>2
<1>5. ASSUME NEW s \in Senders,
             Deliver(s) \/ CheckPasses(s) \/ CheckRefuses(s) \/ Link(s) \/ LinkConflicts(s)
      PROVE  out'[m].delivered = 1
  <2>1. CASE ClaimMessage(s) \/ TidyOutbox(s)
    <3>1. Tidied(m).delivered = 1 /\ Tidied(m) \in MessageRows BY TidiedFits
    <3>2. CASE TidyOutbox(s) BY <3>1, <3>2 DEF TidyOutbox
    <3>3. CASE ClaimMessage(s)
      <4> PICK x \in Messages :
            LET linking == Tidied(x).status = "LINK"
            IN  out' = [y \in Messages |->
                  IF y # x THEN Tidied(y)
                  ELSE [Tidied(x) EXCEPT !.owner = s, !.live = TRUE,
                          !.status = IF linking THEN "LINKING" ELSE "SENDING"]]
        BY <3>3 DEF ClaimMessage
      <4> QED BY <3>1 DEF MessageRows
    <3> QED BY <2>1, <3>2, <3>3
  <2>2. CASE \E status \in MessageStatuses : Finish(s, status)
    <3> PICK status \in MessageStatuses :
          out' = [out EXCEPT ![sender[s].message] =
                    IF @.owner = s THEN Free(@, status) ELSE @]
      BY <2>2 DEF Finish
    <3>1. CASE sender[s].message = m BY <1>1, <1>2, <3>1
    <3>2. CASE sender[s].message # m BY <1>1, <3>2
    <3> QED BY <3>1, <3>2
  <2>3. CASE UNCHANGED out BY <2>3
  <2>4. CASE Send(s)
    <3>1. CASE sender[s].message = m
      <4>1. sender[s].step = "SEND" BY <2>4 DEF Send, Moves
      <4> QED BY <3>1, <4>1 DEF OutboxInv, OneSender, Sending
    <3>2. CASE sender[s].message # m BY <1>1, <2>4, <3>2 DEF Send
    <3> QED BY <3>1, <3>2
  <2>5. CASE StoreReceipt(s) \/ ReceiptFails(s)
    <3>1. CASE sender[s].message # m
      BY <1>1, <2>5, <3>1 DEF StoreReceipt, ReceiptFails
    <3>2. CASE sender[s].message = m /\ StoreReceipt(s)
      BY <1>1, <3>2 DEF StoreReceipt, MessageRows
    <3>3. CASE sender[s].message = m /\ ReceiptFails(s)
      <4>1. PICK stored \in {TRUE, out[m].receipt} :
              out' = [out EXCEPT ![m] = [Free(@, "UNKNOWN") EXCEPT !.receipt = stored]]
        BY <3>3 DEF ReceiptFails
      <4> QED BY <1>1, <4>1 DEF Free, MessageRows
    <3> QED BY <2>5, <3>1, <3>2, <3>3
  <2> QED
    BY <1>5, <2>1, <2>2, <2>3, <2>4, <2>5
    DEF Deliver, CheckPasses, CheckRefuses, CheckFails, Quarantine, ReceiptRefused, Link,
        LinkConflicts, LinkFails, FinishSent, SenderCrashes, MessageStatuses
<1> QED BY <1>3, <1>4, <1>5 DEF OutboxNext

\* A tick of the outbox reads the document and, at most, links its delivered question.
LEMMA DeliveryKeepsIntake ==
  ASSUME IInv, IntakeAssumption, OutboxInv', [OutboxNext]_outboxVars,
         \/ \E s \in Senders : Delivers(s) \/ Checks(s) \/ Refuses(s) \/ Links(s)
         \/ \E m \in Messages : Expires(m)
  PROVE  IntakeInv' /\ Final
<1>1. /\ job' = job /\ owned' = owned /\ importer' = importer /\ ledger' = ledger
  BY DEF Delivers, Checks, Refuses, Links, Expires, importVars
<1>2. Question \in Messages /\ Document \in Events
  BY DEF Question, IntakeAssumption, Events
<1>3. out[Question].delivered = 1 => out'[Question].delivered = 1
  BY <1>2, DeliveredStays DEF IInv
<1>4. CASE row' = row
  <2>1. SettlesJobs BY <1>1 DEF SettlesJobs, IInv, IntakeInv, IntakeTypeOK
  <2> QED BY <1>1, <1>2, <1>3, <1>4, <2>1, RowKeepsIntake
<1>5. ASSUME NEW s \in Senders, Links(s) PROVE IntakeInv' /\ Final
  <2> DEFINE r == [row[Document] EXCEPT !.linked = TRUE]
  <2>1. row \in [Events -> EventRows] /\ row[Document] \in EventRows
    BY <1>2 DEF IInv, IntakeInv, IntakeTypeOK
  <2>2. /\ r \in EventRows /\ r.status = row[Document].status /\ r.owner = row[Document].owner
        /\ r.live = row[Document].live /\ r.attempts = row[Document].attempts
        /\ r.business = row[Document].business
    BY <2>1 DEF EventRows
  <2>3. row' = [row EXCEPT ![Document] = r] BY <1>5, <2>1 DEF Links
  <2> HIDE DEF r
  <2>4. /\ row'[Document] = r /\ row' \in [Events -> EventRows]
        /\ \A x \in Events : x # Document => row'[x] = row[x]
    BY <1>2, <2>1, <2>2, <2>3
  <2>5. out'[Question].delivered = 1
    <3>1. sender[s].step = "LINK" /\ out' = out BY <1>5 DEF Links, Link, Moves
    <3>2. sender[s].message \in Messages
      BY <3>1 DEF IInv, OutboxInv, SendersFit
    <3>3. sender[s].message = Question BY <1>2, <3>2 DEF IntakeAssumption
    <3> QED BY <3>1, <3>3 DEF IInv, OutboxInv, DeliveriesFit
  <2>6. IntakeTypeOK' BY <1>1, <2>4 DEF IInv, IntakeInv, IntakeTypeOK
  <2>7. JobsFit' BY <1>1 DEF IInv, IntakeInv, JobsFit, At
  <2>8. RowsFit' BY <2>2, <2>4 DEF IInv, IntakeInv, RowsFit
  <2>9. ChoiceFits' BY <1>1, <2>2, <2>4 DEF IInv, IntakeInv, ChoiceFits, Chooses, At
  <2>10. AnswersFit'
    BY <1>1, <2>2, <2>4 DEF IInv, IntakeInv, AnswersFit, ChosenBy, Chooses, At, Events,
                            IntakeAssumption
  <2>11. LinkFits' BY <2>5 DEF LinkFits
  <2>12. Final BY <2>2, <2>4 DEF Final
  <2> QED BY <2>6, <2>7, <2>8, <2>9, <2>10, <2>11, <2>12 DEF IntakeInv
<1> QED BY <1>4, <1>5 DEF Delivers, Checks, Refuses, Expires

\* The import's own part of a step of the intake.
LEMMA StepKeepsImports ==
  ASSUME IInv, IntakeAssumption, [Next]_vars
  PROVE  ImportInv'
<1> USE DEF importVars, archive
<1>1. CASE UNCHANGED importVars
  BY <1>1 DEF IInv, ImportInv, ImportTypeOK, UploadsFit, FilesFit, OnlyExposedFilesAreLost, Target
<1>2. ASSUME NEW w \in Workers, Imports(w) PROVE ImportInv'
  BY <1>2, ImportStepKeeps DEF Imports, IInv, Workers
<1>3. ASSUME NEW w \in Workers, NEW new,
             new = IdleImporter \/ \E b \in Businesses :
               new = [IdleImporter EXCEPT !.step = "LOOKUP", !.business = b],
             importer' = [importer EXCEPT ![w] = new], UNCHANGED archive
      PROVE  ImportInv'
  <2> DEFINE Fresh(n) ==
        /\ n \in [step: ImportSteps, business: Businesses \cup {NoBusiness},
                  file: Files \cup {NoFile}, uploadedHere: BOOLEAN, duplicate: BOOLEAN]
        /\ n.step \in {"IDLE", "LOOKUP"}
        /\ n.step # "IDLE" => n.business \in Businesses
        /\ n.file = NoFile /\ ~n.uploadedHere /\ ~n.duplicate
  <2>1. Fresh(new)
    <3>1. CASE new = IdleImporter BY <3>1 DEF IdleImporter, ImportSteps
    <3>2. ASSUME NEW b \in Businesses,
                 new = [IdleImporter EXCEPT !.step = "LOOKUP", !.business = b]
          PROVE  Fresh(new)
      BY <3>2 DEF IdleImporter, ImportSteps
    <3> QED BY <1>3, <3>1, <3>2
  <2>2. /\ importer'[w] = new /\ \A x \in Importers : x # w => importer'[x] = importer[x]
        /\ importer' \in [Importers -> [step: ImportSteps,
                            business: Businesses \cup {NoBusiness},
                            file: Files \cup {NoFile}, uploadedHere: BOOLEAN,
                            duplicate: BOOLEAN]]
    BY <1>3, <2>1 DEF IInv, ImportInv, ImportTypeOK, Workers
  <2>3. ImportTypeOK' BY <1>3, <2>2 DEF IInv, ImportInv, ImportTypeOK
  <2> HIDE DEF Fresh
  <2>4. UploadsFit'
    <3>1. /\ importer'[w].step \in {"IDLE", "LOOKUP"}
          /\ importer'[w].step # "IDLE" => importer'[w].business \in Businesses
          /\ importer'[w].file = NoFile
          /\ ~importer'[w].uploadedHere /\ ~importer'[w].duplicate
      BY <2>1, <2>2 DEF Fresh
    <3> QED BY <1>3, <2>2, <3>1 DEF IInv, ImportInv, UploadsFit, Target, Imported,
         IntakeAssumption
  <2> USE DEF Fresh
  <2>5. FilesFit'
    <3>1. \A c \in Businesses : ledger'[c] # NoFile => ledger'[c] \in drive'[c] \cup exposed'[c]
      BY <1>3 DEF IInv, ImportInv, FilesFit, OnlyExposedFilesAreLost
    <3>2. \A j \in Importers : importer'[j].step = "INSERT" =>
            importer'[j].file \in drive'[importer'[j].business] \cup exposed'[importer'[j].business]
      BY <1>3, <2>1, <2>2 DEF IInv, ImportInv, FilesFit, Target
    <3>3. ASSUME NEW j \in Importers, importer'[j].uploadedHere
          PROVE  /\ ledger'[importer'[j].business] = importer'[j].file =>
                      importer'[j].file \in exposed'[importer'[j].business]
                 /\ \A k \in Importers \ {j} :
                      importer'[k].business = importer'[j].business /\ importer'[k].file = importer'[j].file =>
                        importer'[j].file \in exposed'[importer'[j].business] /\ ~importer'[k].uploadedHere
      <4>1. j # w /\ importer'[j] = importer[j] BY <2>1, <2>2, <3>3
      <4>2. importer[j].file \in Files
        BY <3>3, <4>1 DEF IInv, ImportInv, UploadsFit
      <4>3. /\ ledger[importer[j].business] = importer[j].file =>
                 importer[j].file \in exposed[importer[j].business]
            /\ \A k \in Importers \ {j} :
                 importer[k].business = importer[j].business /\ importer[k].file = importer[j].file =>
                   importer[j].file \in exposed[importer[j].business] /\ ~importer[k].uploadedHere
        BY <3>3, <4>1 DEF IInv, ImportInv, FilesFit, Target
      <4>4. importer[j].file # importer'[w].file
        BY <2>1, <2>2, <4>2 DEF IntakeAssumption
      <4> QED BY <1>3, <2>2, <4>1, <4>3, <4>4
    <3>4. ImportInv BY DEF IInv
    <3> QED BY <3>1, <3>2, <3>3, <3>4, FilesKept
  <2> QED BY <2>3, <2>4, <2>5 DEF ImportInv
<1>4. ASSUME NEW w \in Workers, BeginImport(w) PROVE ImportInv'
  <2>1. Destination(w) \in Businesses BY <1>4, DestinationFits DEF BeginImport
  <2> QED BY <1>3, <1>4, <2>1 DEF BeginImport, StartImport
<1>5. ASSUME NEW w \in Workers, Complete(w) \/ ImportFails(w) \/ WorkerCrashes(w)
      PROVE  ImportInv'
  BY <1>3, <1>5 DEF Complete, ImportFails, WorkerCrashes, EndImport
<1> QED
  BY <1>1, <1>2, <1>4, <1>5
  DEF Next, vars, Step, Accept, Answer, FailLost, LeaseExpires, ClaimEvent, Reject,
      ProcessFails, AskBusiness, Block, Match, Select, ReplyAccepted, ReplyExplained,
      ReplyFails, Delivers, Checks, Refuses, Links, Expires

LEMMA IntakeStep ==
  ASSUME IInv, IntakeAssumption, [Next]_vars
  PROVE  IInv' /\ (Final \/ UNCHANGED vars)
<1>1. ImportInv' BY StepKeepsImports
<1>2. [OutboxNext]_outboxVars BY IntakeIsOutbox DEF IInv
<1>3. OutboxInv' BY <1>2, OutboxStep DEF IInv
<1>4. CASE UNCHANGED vars
  BY <1>1, <1>3, <1>4
  DEF vars, importVars, outboxVars, IInv, IntakeInv, IntakeTypeOK, JobsFit, RowsFit,
      ChoiceFits, AnswersFit, LinkFits, ChosenBy, Chooses, At
<1>5. CASE Next
  <2>1. IntakeInv' /\ Final
    BY <1>2, <1>3, <1>5, QueueKeepsIntake, AttemptKeepsIntake, ImportKeepsIntake,
       AnswerKeepsIntake, DeliveryKeepsIntake
    DEF Next, Step
  <2> QED BY <1>1, <1>3, <2>1 DEF IInv
<1> QED BY <1>4, <1>5

LEMMA IntakeInit == Init /\ IntakeAssumption => IInv
<1> SUFFICES ASSUME Init, IntakeAssumption PROVE IInv OBVIOUS
<1>1. OutboxInv BY OutboxInitInv DEF Init
<1>2. ImportInv
  BY DEF Init, ImportInit, ImportInv, ImportTypeOK, UploadsFit, FilesFit, OnlyExposedFilesAreLost,
         Target, IdleImporter, ImportSteps, Imported, IntakeAssumption
<1>3. Document \in Events /\ Question \in Messages
  BY DEF Events, Question, IntakeAssumption
<1>4. IntakeTypeOK
  <2>1. 0 \in 0..MaxAttempts BY DEF IntakeAssumption
  <2>2. (CHOOSE b \in Businesses : TRUE) \in Businesses BY DEF IntakeAssumption
  <2> QED BY <2>1, <2>2 DEF Init, IntakeTypeOK, EventRows, EventStatuses, WorkerSteps,
                            IdleWorker
<1>5. owned # {} BY DEF Init, IntakeAssumption
<1>6. JobsFit /\ RowsFit
  BY DEF Init, JobsFit, RowsFit, At, IdleWorker, ImportInit, IdleImporter, Workers
<1>7. ChoiceFits /\ AnswersFit /\ LinkFits
  BY <1>3, <1>5 DEF Init, ChoiceFits, AnswersFit, LinkFits, At, IdleWorker, Imported, Events
<1> QED BY <1>1, <1>2, <1>4, <1>6, <1>7 DEF IInv, IntakeInv

-----------------------------------------------------------------------------
\* The inductive invariant of intake, import and outbox together.
THEOREM IntakeInvariant == IntakeAssumption => (Spec => []IInv)
<1> SUFFICES ASSUME IntakeAssumption PROVE Spec => []IInv OBVIOUS
<1>1. Init => IInv BY IntakeInit
<1>2. IInv /\ [Next]_vars => IInv' BY IntakeStep
<1> QED BY <1>1, <1>2, PTL DEF Spec

\* Types, for any number of ticks, replies, businesses and attempts (FailLost and the claim
\* of lychee-event.store.ts bound the attempts).
THEOREM IntakeTypeInvariant == IntakeAssumption => (Spec => []TypeOK)
<1> SUFFICES ASSUME IntakeAssumption PROVE Spec => []TypeOK OBVIOUS
<1>1. IInv => TypeOK
  BY DEF IInv, IntakeInv, IntakeTypeOK, ImportInv, OutboxInv, TypeOK
<1> QED BY <1>1, IntakeInvariant, PTL

\* No overlap, crash, retry or failure makes an import delete a file the ledger names, but
\* for those taken over from a running import and those uploaded and recorded without an
\* answer (importDocument, its crash recovery and its compensation).
THEOREM RecordedFilesStay == IntakeAssumption => (Spec => []OnlyExposedFilesAreLost)
<1> SUFFICES ASSUME IntakeAssumption PROVE Spec => []OnlyExposedFilesAreLost OBVIOUS
<1>1. IInv => OnlyExposedFilesAreLost BY DEF IInv, ImportInv, FilesFit
<1> QED BY <1>1, IntakeInvariant, PTL

\* No question is sent twice while documents and answers come and go (lychee-prompt.store.ts).
THEOREM QuestionsSentOnce == IntakeAssumption => (Spec => []MessagesSentOnce)
<1> SUFFICES ASSUME IntakeAssumption PROVE Spec => []MessagesSentOnce OBVIOUS
<1> QED BY IntakeRefinesOutbox, OutboxSendsOnce, PTL

\* What the customer is told is so, for any number of answers (complete, selectBusiness and
\* recordPrompt of lychee-event.store.ts).
THEOREM NoticesAreTrue == IntakeAssumption => (Spec => []NoticeIsTrue)
<1> SUFFICES ASSUME IntakeAssumption PROVE Spec => []NoticeIsTrue OBVIOUS
<1>1. IInv => NoticeIsTrue
  BY DEF IInv, IntakeInv, ChoiceFits, AnswersFit, ChosenBy, LinkFits, NoticeIsTrue
<1> QED BY <1>1, IntakeInvariant, PTL

\* A document goes to the chosen business only, however many answers come and however late
\* a tick that lost its lease goes on (process of lychee-intake.service.ts).
THEOREM ChosenBusinessOnly == IntakeAssumption => (Spec => []OneBusiness)
<1> SUFFICES ASSUME IntakeAssumption PROVE Spec => []OneBusiness OBVIOUS
<1>1. IInv => OneBusiness
  BY DEF IInv, IntakeInv, ChoiceFits, JobsFit, Chooses, OneBusiness
<1> QED BY <1>1, IntakeInvariant, PTL

\* Decisions stand: every update names the lease or the state it found (complete,
\* selectBusiness, explainSelectedBusiness of lychee-event.store.ts).
THEOREM OutcomesStand == IntakeAssumption => (Spec => OutcomeIsFinal)
<1> SUFFICES ASSUME IntakeAssumption PROVE Spec => OutcomeIsFinal OBVIOUS
<1> DEFINE A == \A e \in Events :
     /\ row[e].status \in Terminal => row'[e].status = row[e].status
     /\ row[Document].business # NoBusiness =>
          \/ row'[Document].business = row[Document].business
          \/ row'[Document].status = "REJECTED"
<1>1. IInv /\ [Next]_vars => [A]_vars BY IntakeStep DEF Final
<1> QED BY <1>1, IntakeInvariant, PTL DEF Spec, OutcomeIsFinal
=============================================================================
