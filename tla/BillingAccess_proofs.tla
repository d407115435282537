------------------------- MODULE BillingAccess_proofs -------------------------
(***************************************************************************)
(* What a single step may never do to a verdict or to the subscription,    *)
(* and that captured money can be turned into access: no subscription      *)
(* state makes the completion of a captured attempt refuse for good.       *)
(***************************************************************************)
EXTENDS BillingAttempts_proofs

USE DEF row, debts, cardcom, threads, vars
USE DEF SetStatus

-----------------------------------------------------------------------------
(* A final status is final. *)

\* One attempt, one step.
Advances(a) ==
  /\ status[a] \in Released \cup {"COMPLETED"} => status'[a] = status[a]
  /\ status[a] = "CAPTURED" => status'[a] \in {"CAPTURED", "COMPLETED"}

\* Every transaction that writes a status names the ones it may be written over.
LEMMA StepAdvances ==
  ASSUME TypeOK, [Next]_vars, NEW a \in Attempts
  PROVE  Advances(a)
<1> USE DEF Released, TypeOK
<1>1. ASSUME UNCHANGED status PROVE Advances(a)
  BY <1>1 DEF Advances
<1>2. ASSUME NEW w \in Workers, Begin(w) PROVE Advances(a)
  <2>1. ASSUME NEW b \in Attempts, NEW d \in Debts,
               OpenRenewal(w, d, b) \/ OpenCheckout(w, d, b)
        PROVE  Advances(a)
    BY <2>1 DEF OpenRenewal, OpenCheckout, CreateAttempt, Advances
  <2>2. ASSUME NEW b \in Attempts, NEW S, OpenRecovery(w, S, b) PROVE Advances(a)
    BY <2>2 DEF OpenRecovery, CreateAttempt, Advances
  <2>3. ASSUME NEW b \in Attempts, NEW d,
               \/ ReopenRenewal(w, d) \/ WebhookArrives(w, b)
               \/ ClaimReconciliation(w, b) \/ PickUpCaptured(w, b)
        PROVE  Advances(a)
    BY <2>3, <1>1 DEF ReopenRenewal, WebhookArrives, ClaimReconciliation, PickUpCaptured,
       Advances
  <2> QED BY <1>2, <2>1, <2>2, <2>3 DEF Begin, Debts
<1>3. ASSUME NEW w \in Workers, Submit(w) PROVE Advances(a)
  BY <1>3, <1>1 DEF Submit, ClaimSubmission, SubmissionRefused, SendCharge, ReceiveAnswer,
     LocalFailureOfCustomer, LocalFailureOfSystem, Advances
<1>4. ASSUME NEW w \in Workers, Apply(w) PROVE Advances(a)
  BY <1>4, <1>1 DEF Apply, ApplyCaptured, ApplyDeclined, ApplyUnknown, RejectStale, CanApply,
     Advances
<1>5. ASSUME NEW w \in Workers, Host(w) PROVE Advances(a)
  BY <1>5, <1>1 DEF Host, PageCreated, CreationRejected, CreationUncertain, RecordPage,
     SkipRecording, HandOver, Recordable, Advances
<1>6. ASSUME NEW w \in Workers, Hook(w) PROVE Advances(a)
  BY <1>6, <1>1 DEF Hook, ClaimHostedOutcome, HostedClaimRefused, WebhookActivates,
     HostedClaimable, Unresolved, Advances
<1>7. ASSUME NEW w \in Workers, Complete(w) PROVE Advances(a)
  BY <1>7, <1>1 DEF Complete, ClaimFinalization, FinalizationRefused, Activate, IssueReceipt,
     Finalize, FinalizeAgain, FailCompletion, Advances
<1>8. ASSUME NEW b \in Attempts, ExpireProcessing(b) \/ Operator(b) \/ World(b)
      PROVE  Advances(a)
  BY <1>8, <1>1 DEF ExpireProcessing, Operator, AdminConfirmNoCharge, AdminCompleteCaptured,
     AdminCheckProvider, Unresolved, World, ProviderDecides, LeaseExpires, Advances
<1>9. ASSUME NEW w \in Workers, Lookup(w) \/ Crash(w) PROVE Advances(a)
  BY <1>9, <1>1 DEF Lookup, Crash
<1>10. CASE CancelSubscription \/ UNCHANGED vars
  BY <1>10, <1>1 DEF CancelSubscription
<1> QED BY <1>2, <1>3, <1>4, <1>5, <1>6, <1>7, <1>8, <1>9, <1>10 DEF Next, Continue

\* No late verdict, sweep, crash or operator reopens a finished attempt, and
\* captured money is only ever completed.
THEOREM VerdictsAreFinal == Spec => FinalVerdicts
<1>1. TypeOK /\ [Next]_vars => \A a \in Attempts : Advances(a)
  BY StepAdvances
<1>2. TypeOK /\ [Next]_vars =>
        [\A a \in Attempts :
           /\ status[a] \in Released \cup {"COMPLETED"} => status'[a] = status[a]
           /\ status[a] = "CAPTURED" => status'[a] \in {"CAPTURED", "COMPLETED"}]_vars
  BY <1>1 DEF Advances
<1> QED BY <1>2, TypeCorrect, PTL DEF Spec, FinalVerdicts

-----------------------------------------------------------------------------
(* Access is given back for money only. *)

\* Only a webhook of a recovery and the completion of a captured attempt write
\* ACTIVE; both know a payment whose attempt is not completed.
LEMMA StepActivates ==
  ASSUME IInv, [Next]_vars, sub # "ACTIVE", sub' = "ACTIVE"
  PROVE  \E a \in Attempts : Paid(a) /\ status[a] # "COMPLETED"
<1>1. PICK w \in Workers : WebhookActivates(w) \/ Activate(w)
  <2>1. ASSUME NEW w \in Workers, Begin(w) PROVE FALSE
    BY <2>1 DEF Begin, OpenRenewal, ReopenRenewal, OpenRecovery, OpenCheckout, CreateAttempt,
       WebhookArrives, ClaimReconciliation, PickUpCaptured
  <2>2. ASSUME NEW w \in Workers, Submit(w) \/ Apply(w) PROVE FALSE
    BY <2>2 DEF Submit, ClaimSubmission, SubmissionRefused, SendCharge, ReceiveAnswer,
       LocalFailureOfCustomer, LocalFailureOfSystem, Apply, ApplyCaptured, ApplyDeclined,
       ApplyUnknown, RejectStale
  <2>3. ASSUME NEW w \in Workers, Host(w) \/ Lookup(w) \/ Crash(w) PROVE FALSE
    BY <2>3 DEF Host, PageCreated, CreationRejected, CreationUncertain, RecordPage,
       SkipRecording, HandOver, Lookup, Crash
  <2>4. ASSUME NEW w \in Workers, Hook(w) PROVE WebhookActivates(w)
    BY <2>4 DEF Hook, ClaimHostedOutcome, HostedClaimRefused
  <2>5. ASSUME NEW w \in Workers, Complete(w) PROVE Activate(w)
    BY <2>5 DEF Complete, ClaimFinalization, FinalizationRefused, IssueReceipt, Finalize,
       FinalizeAgain, FailCompletion
  <2>6. ASSUME NEW a \in Attempts, ExpireProcessing(a) \/ Operator(a) \/ World(a) PROVE FALSE
    BY <2>6 DEF ExpireProcessing, Operator, AdminConfirmNoCharge, AdminCompleteCaptured,
       AdminCheckProvider, World, ProviderDecides, LeaseExpires
  <2>7. ~(CancelSubscription \/ UNCHANGED vars)
    BY DEF CancelSubscription
  <2> QED BY <2>1, <2>2, <2>3, <2>4, <2>5, <2>6, <2>7 DEF Next, Continue
<1>2. CASE WebhookActivates(w)
  <2>1. pc[w] = "activating" /\ status[job[w]] # "COMPLETED"
    BY <1>2 DEF WebhookActivates
  <2> QED BY <2>1 DEF IInv, TypeOK, Threads, Relies
<1>3. CASE Activate(w)
  <2>1. pc[w] = "completing" /\ status[job[w]] # "COMPLETED"
    BY <1>3 DEF Activate
  <2>2. job[w] \in Attempts /\ status[job[w]] = "CAPTURED"
    BY <2>1 DEF IInv, TypeOK, Threads, Relies
  <2> QED BY <2>2 DEF IInv, MoneyAgrees
<1> QED BY <1>1, <1>2, <1>3

\* A subscription whose access lapsed becomes ACTIVE again only for money CardCom
\* took, and each payment does so before its attempt is completed.
THEOREM AccessIsPaid == Spec => ActivationIsPaid
<1>1. IInv /\ [Next]_vars =>
        [sub # "ACTIVE" /\ sub' = "ACTIVE" =>
           \E a \in Attempts : money[a] = "paid" /\ status[a] # "COMPLETED"]_vars
  BY StepActivates DEF Paid
<1>2. Spec => []IInv
  BY Inductive
<1> QED BY <1>1, <1>2, PTL DEF Spec, ActivationIsPaid

-----------------------------------------------------------------------------
(* A captured attempt is completed. *)

USE NoAttemptAssumption, DebtsAssumption
USE DEF Debts, Goto, Start, Finish

\* A step that opens no attempt, makes none hold again and leaves the
\* subscription alone keeps the agreement.
LEMMA AccessKept ==
  ASSUME AccessAgrees, UNCHANGED <<mode, debtsOf, sub>>,
         \A a \in Attempts : status'[a] \in Holding => status[a] \in Holding
  PROVE  AccessAgrees'
BY DEF AccessAgrees

\* While a checkout is being paid some debt is pending.
LEMMA CheckoutPending ==
  ASSUME IInv, NEW a \in Attempts, status[a] \in Holding, NEW d \in debtsOf[a]
  PROVE  d \in Debts /\ Open(d) /\ Pending(d)
BY DEF IInv, TypeOK, ReservationsAgree, Open, Pending, Blocking

\* Nothing is opened beside a checkout, and a checkout beside nothing.
LEMMA BeginAccess ==
  ASSUME IInv, AccessAgrees, NEW w \in Workers, Begin(w)
  PROVE  AccessAgrees'
<1>1. ASSUME NEW a \in Attempts, NEW d \in Periods, OpenRenewal(w, d, a) PROVE AccessAgrees'
  <2>1. \A b \in Attempts : status[b] \in Holding => debtsOf[b] \cap Checkouts = {}
    BY <1>1, CheckoutPending DEF OpenRenewal
  <2> QED BY <1>1, <2>1 DEF OpenRenewal, CreateAttempt, AccessAgrees, IInv, TypeOK
<1>2. ASSUME NEW a \in Attempts, NEW S \in SUBSET Periods, OpenRecovery(w, S, a)
      PROVE  AccessAgrees'
  BY <1>2 DEF OpenRecovery, CreateAttempt, AccessAgrees, IInv, TypeOK
<1>3. ASSUME NEW a \in Attempts, NEW d \in Checkouts, OpenCheckout(w, d, a)
      PROVE  AccessAgrees'
  <2>1. \A b \in Attempts : status[b] \notin Holding
    BY <1>3, CheckoutPending DEF OpenCheckout, IInv, Membership, Holding, Unresolved
  <2> QED BY <1>3, <2>1 DEF OpenCheckout, CreateAttempt, AccessAgrees, IInv, TypeOK
<1>4. ASSUME NEW d \in Periods, ReopenRenewal(w, d) PROVE AccessAgrees'
  BY <1>4, AccessKept DEF ReopenRenewal
<1>5. ASSUME NEW a \in Attempts,
             WebhookArrives(w, a) \/ ClaimReconciliation(w, a) \/ PickUpCaptured(w, a)
      PROVE  AccessAgrees'
  BY <1>5, AccessKept DEF WebhookArrives, ClaimReconciliation, PickUpCaptured
<1> QED BY <1>1, <1>2, <1>3, <1>4, <1>5 DEF Begin

\* A renewal that takes access away had no checkout beside it.
LEMMA SubmitAccess ==
  ASSUME IInv, AccessAgrees, NEW w \in Workers, Submit(w)
  PROVE  AccessAgrees'
<1>1. CASE ClaimSubmission(w) \/ SubmissionRefused(w) \/ SendCharge(w) \/ ReceiveAnswer(w)
           \/ LocalFailureOfSystem(w)
  BY <1>1, AccessKept DEF ClaimSubmission, SubmissionRefused, SendCharge, ReceiveAnswer,
     LocalFailureOfSystem, Holding, Unresolved, IInv, TypeOK
<1>2. CASE LocalFailureOfCustomer(w)
  BY <1>2 DEF LocalFailureOfCustomer, AccessAgrees, Holding, Unresolved, IInv, TypeOK
<1> QED BY <1>1, <1>2 DEF Submit

LEMMA ApplyAccess ==
  ASSUME IInv, AccessAgrees, NEW w \in Workers, Apply(w)
  PROVE  AccessAgrees'
<1>1. CASE ApplyCaptured(w) \/ ApplyUnknown(w) \/ RejectStale(w)
  BY <1>1, AccessKept DEF ApplyCaptured, ApplyUnknown, RejectStale, CanApply, Holding,
     Unresolved, IInv, TypeOK
<1>2. CASE ApplyDeclined(w)
  BY <1>2 DEF ApplyDeclined, CanApply, AccessAgrees, Holding, Unresolved, IInv, TypeOK
<1> QED BY <1>1, <1>2 DEF Apply

LEMMA HostAccess ==
  ASSUME IInv, AccessAgrees, NEW w \in Workers, Host(w)
  PROVE  AccessAgrees'
BY AccessKept DEF Host, PageCreated, CreationRejected, CreationUncertain, RecordPage,
   SkipRecording, HandOver, Recordable, Holding, Unresolved, IInv, TypeOK

\* A webhook writes the subscription only after its access has lapsed.
LEMMA HookAccess ==
  ASSUME IInv, AccessAgrees, NEW w \in Workers, Hook(w)
  PROVE  AccessAgrees'
<1>1. CASE ClaimHostedOutcome(w) \/ HostedClaimRefused(w)
  BY <1>1, AccessKept DEF ClaimHostedOutcome, HostedClaimRefused, HostedClaimable, Holding,
     Unresolved, IInv, TypeOK
<1>2. CASE WebhookActivates(w)
  BY <1>2 DEF WebhookActivates, AccessAgrees, IInv, TypeOK, SubStatuses
<1> QED BY <1>1, <1>2 DEF Hook

\* A completion that writes the subscription is of an attempt that still holds
\* its debts: beside a checkout, it is the checkout's own.
LEMMA CompleteAccess ==
  ASSUME IInv, AccessAgrees, NEW w \in Workers, Complete(w)
  PROVE  AccessAgrees'
<1>1. CASE ClaimFinalization(w) \/ FinalizationRefused(w) \/ IssueReceipt(w) \/ Finalize(w)
           \/ FinalizeAgain(w) \/ FailCompletion(w)
  BY <1>1, AccessKept DEF ClaimFinalization, FinalizationRefused, IssueReceipt, Finalize,
     FinalizeAgain, FailCompletion, Holding, Unresolved, IInv, TypeOK
<1>2. CASE Activate(w)
  <2>1. job[w] \in Attempts /\ status[job[w]] \in {"CAPTURED", "COMPLETED"}
    BY <1>2 DEF Activate, IInv, TypeOK, Threads, Relies
  <2>2. CASE status[job[w]] = "COMPLETED"
    BY <1>2, <2>2, AccessKept DEF Activate
  <2>3. CASE status[job[w]] = "CAPTURED"
    <3>1. \A a \in Attempts : status[a] \in Holding /\ debtsOf[a] \cap Checkouts # {} =>
            a = job[w] /\ debtsOf[a] \subseteq Checkouts
      BY <2>1, <2>3 DEF AccessAgrees, Holding
    <3>2. debtsOf[job[w]] \subseteq Checkouts => sub' = "ACTIVE"
      BY <1>2, <2>3 DEF Activate, Activations
    <3>3. sub' = "TRIAL" => sub = "TRIAL"
      BY <1>2, <2>3 DEF Activate, Activations
    <3> QED BY <1>2, <3>1, <3>2, <3>3 DEF Activate, AccessAgrees
  <2> QED BY <2>1, <2>2, <2>3
<1> QED BY <1>1, <1>2 DEF Complete

LEMMA NextAccess == IInv /\ AccessAgrees /\ [Next]_vars => AccessAgrees'
<1> SUFFICES ASSUME IInv, AccessAgrees, [Next]_vars PROVE AccessAgrees'
  OBVIOUS
<1>1. ASSUME NEW w \in Workers, Continue(w) PROVE AccessAgrees'
  <2>1. CASE Lookup(w)
    BY <2>1, AccessKept DEF Lookup
  <2> QED BY <1>1, <2>1, SubmitAccess, ApplyAccess, HostAccess, HookAccess, CompleteAccess
          DEF Continue
<1>2. ASSUME NEW w \in Workers, Crash(w) PROVE AccessAgrees'
  BY <1>2, AccessKept DEF Crash
<1>3. ASSUME NEW a \in Attempts, ExpireProcessing(a) \/ Operator(a) \/ World(a)
      PROVE  AccessAgrees'
  BY <1>3, AccessKept DEF ExpireProcessing, Operator, AdminConfirmNoCharge,
     AdminCompleteCaptured, AdminCheckProvider, Resolvable, World, ProviderDecides,
     LeaseExpires, Holding, Unresolved, IInv, TypeOK
<1>4. CASE CancelSubscription
  <2>1. \A a \in Attempts : status[a] \in Holding => debtsOf[a] = {}
    BY <1>4, CheckoutPending DEF CancelSubscription, Pending
  <2> QED BY <1>4, <2>1 DEF CancelSubscription, AccessAgrees
<1>5. CASE UNCHANGED vars
  BY <1>5, AccessKept
<1> QED BY <1>1, <1>2, <1>3, <1>4, <1>5, BeginAccess DEF Next

\* Without late payments no upgrade is late.
UpgradesInTime == late = {}

LEMMA NextInTime ==
  ASSUME ~LatePayment, UpgradesInTime, [Next]_vars
  PROVE  UpgradesInTime'
<1> USE DEF UpgradesInTime
<1>1. ASSUME NEW w \in Workers, Begin(w) PROVE UpgradesInTime'
  BY <1>1 DEF Begin, OpenRenewal, ReopenRenewal, OpenRecovery, OpenCheckout,
     CreateAttempt, WebhookArrives, ClaimReconciliation, PickUpCaptured
<1>2. ASSUME NEW w \in Workers, Submit(w) \/ Apply(w) PROVE UpgradesInTime'
  BY <1>2 DEF Submit, ClaimSubmission, SubmissionRefused, SendCharge, ReceiveAnswer,
     LocalFailureOfCustomer, LocalFailureOfSystem, Apply, ApplyCaptured, ApplyDeclined,
     ApplyUnknown, RejectStale
<1>3. ASSUME NEW w \in Workers, Lookup(w) \/ Host(w) \/ Hook(w) \/ Crash(w)
      PROVE  UpgradesInTime'
  BY <1>3 DEF Lookup, Host, PageCreated, CreationRejected, CreationUncertain, RecordPage,
     SkipRecording, HandOver, Hook, ClaimHostedOutcome, HostedClaimRefused,
     WebhookActivates, Crash
<1>4. ASSUME NEW w \in Workers, Complete(w) PROVE UpgradesInTime'
  BY <1>4 DEF Complete, ClaimFinalization, FinalizationRefused, Activate, IssueReceipt,
     Finalize, FinalizeAgain, FailCompletion
<1>5. ASSUME NEW a \in Attempts, ExpireProcessing(a) \/ Operator(a) \/ World(a)
      PROVE  UpgradesInTime'
  BY <1>5 DEF ExpireProcessing, Operator, AdminConfirmNoCharge, AdminCompleteCaptured,
     AdminCheckProvider, World, ProviderDecides, LeaseExpires
<1>6. CASE CancelSubscription \/ UNCHANGED vars
  BY <1>6 DEF CancelSubscription
<1> QED BY <1>1, <1>2, <1>3, <1>4, <1>5, <1>6 DEF Next, Continue

\* As long as upgrades are paid within the period they were quoted for, no
\* interleaving leaves captured money that the completion can never apply.
THEOREM CapturedIsUsable == ~LatePayment => (Spec => []ActivationNeverStuck)
<1> SUFFICES ASSUME ~LatePayment PROVE Spec => []ActivationNeverStuck
  OBVIOUS
<1>1. Init => AccessAgrees
  BY DEF Init, AccessAgrees, Holding, Unresolved
<1>2. IInv /\ AccessAgrees /\ UpgradesInTime => ActivationNeverStuck
  <2> SUFFICES ASSUME IInv, AccessAgrees, UpgradesInTime,
                      NEW a \in Attempts, status[a] = "CAPTURED"
               PROVE  Activations(a) # {}
    BY DEF ActivationNeverStuck
  <2>1. CASE debtsOf[a] \subseteq Checkouts
    <3>1. debtsOf[a] \cap Checkouts # {}
      BY <2>1 DEF IInv, Membership
    <3>2. sub \in {"TRIAL", "ACTIVE"}
      BY <3>1 DEF AccessAgrees, Holding
    <3> QED BY <2>1, <3>2 DEF Activations, UpgradesInTime
  <2>2. CASE ~(debtsOf[a] \subseteq Checkouts)
    <3>1. debtsOf[a] \cap Periods # {} /\ mode[a] \in {"TOKEN", "HOSTED"}
      BY <2>2 DEF IInv, TypeOK
    <3> QED BY <2>2, <3>1 DEF Activations, AccessAgrees
  <2> QED BY <2>1, <2>2
<1>3. Spec => []IInv
  BY Inductive
<1>4. Init => UpgradesInTime
  BY DEF Init, UpgradesInTime
<1>5. UpgradesInTime /\ [Next]_vars => UpgradesInTime'
  BY NextInTime
<1> QED BY <1>1, <1>2, <1>3, <1>4, <1>5, NextAccess, PTL DEF Spec
=============================================================================
