------------------------ MODULE BillingAttempts_proofs ------------------------
(***************************************************************************)
(* Proofs about BillingAttempts, for any number of attempts, debts and     *)
(* threads.                                                                *)
(***************************************************************************)
EXTENDS BillingCorrectness, TLAPS

USE NoAttemptAssumption, DebtsAssumption, LookupsAssumption, LatePaymentAssumption
USE DEF Debts, Monies, SubStatuses, Verdicts, Steps
USE DEF row, debts, cardcom, threads, vars
USE DEF SetStatus, Bump, FreeLease, TakeLease, FreeDebts, Goto, Start, Finish
USE DEF MaybeSent

-----------------------------------------------------------------------------
(* Types. *)

LEMMA InitTyped == Init => TypeOK
BY DEF Init, TypeOK, Statuses

\* Opening an attempt, and everything else an idle thread takes on.
LEMMA BeginTyped ==
  ASSUME TypeOK, NEW w \in Workers, Begin(w)
  PROVE  TypeOK'
<1> USE DEF TypeOK, Statuses, Blocking, Holding, Unresolved, Released
<1>1. ASSUME NEW a \in Attempts, NEW d \in Periods, OpenRenewal(w, d, a) PROVE TypeOK'
  BY <1>1 DEF OpenRenewal, CreateAttempt
<1>2. ASSUME NEW d \in Periods, ReopenRenewal(w, d) PROVE TypeOK'
  BY <1>2 DEF ReopenRenewal, Pending
<1>3. ASSUME NEW a \in Attempts, NEW S \in SUBSET Periods, OpenRecovery(w, S, a) PROVE TypeOK'
  BY <1>3 DEF OpenRecovery, CreateAttempt
<1>4. ASSUME NEW a \in Attempts, NEW d \in Checkouts, OpenCheckout(w, d, a) PROVE TypeOK'
  BY <1>4 DEF OpenCheckout, CreateAttempt
<1>5. ASSUME NEW a \in Attempts, WebhookArrives(w, a) PROVE TypeOK'
  BY <1>5 DEF WebhookArrives, LookupResult
<1>6. ASSUME NEW a \in Attempts, ClaimReconciliation(w, a) PROVE TypeOK'
  BY <1>6 DEF ClaimReconciliation
<1>7. ASSUME NEW a \in Attempts, PickUpCaptured(w, a) PROVE TypeOK'
  BY <1>7 DEF PickUpCaptured
<1> QED BY <1>1, <1>2, <1>3, <1>4, <1>5, <1>6, <1>7 DEF Begin

\* The submission of a renewal.
LEMMA SubmitTyped ==
  ASSUME TypeOK, NEW w \in Workers, Submit(w)
  PROVE  TypeOK'
<1> USE DEF TypeOK, Statuses, Blocking, Holding, Unresolved, Released
<1>1. CASE ClaimSubmission(w)
  BY <1>1 DEF ClaimSubmission
<1>2. CASE SubmissionRefused(w)
  BY <1>2 DEF SubmissionRefused
<1>3. CASE SendCharge(w)
  BY <1>3 DEF SendCharge
<1>4. CASE ReceiveAnswer(w)
  BY <1>4 DEF ReceiveAnswer, Response
<1>5. CASE LocalFailureOfCustomer(w)
  BY <1>5 DEF LocalFailureOfCustomer, HoldsLease
<1>6. CASE LocalFailureOfSystem(w)
  BY <1>6 DEF LocalFailureOfSystem, HoldsLease
<1> QED BY <1>1, <1>2, <1>3, <1>4, <1>5, <1>6 DEF Submit

\* A verdict is applied or thrown away.
LEMMA ApplyTyped ==
  ASSUME TypeOK, NEW w \in Workers, Apply(w)
  PROVE  TypeOK'
<1> USE DEF TypeOK, Statuses, Blocking, Holding, Unresolved, Released
<1>1. CASE ApplyCaptured(w)
  BY <1>1 DEF ApplyCaptured, CanApply, AfterCapture
<1>2. CASE ApplyDeclined(w)
  BY <1>2 DEF ApplyDeclined, CanApply, Reserves
<1>3. CASE ApplyUnknown(w)
  BY <1>3 DEF ApplyUnknown, CanApply
<1>4. CASE RejectStale(w)
  BY <1>4 DEF RejectStale, CanApply, HoldsLease
<1> QED BY <1>1, <1>2, <1>3, <1>4 DEF Apply

\* The creation of a hosted page.
LEMMA HostTyped ==
  ASSUME TypeOK, NEW w \in Workers, Host(w)
  PROVE  TypeOK'
<1> USE DEF TypeOK, Statuses, Blocking, Holding, Unresolved, Released
<1>1. CASE PageCreated(w)
  BY <1>1 DEF PageCreated
<1>2. CASE CreationRejected(w)
  BY <1>2 DEF CreationRejected, Reserves
<1>3. CASE CreationUncertain(w)
  BY <1>3 DEF CreationUncertain
<1>4. CASE RecordPage(w)
  BY <1>4 DEF RecordPage, Recordable
<1>5. CASE SkipRecording(w)
  BY <1>5 DEF SkipRecording
<1>6. CASE HandOver(w)
  BY <1>6 DEF HandOver
<1> QED BY <1>1, <1>2, <1>3, <1>4, <1>5, <1>6 DEF Host

\* A webhook delivery.
LEMMA HookTyped ==
  ASSUME TypeOK, NEW w \in Workers, Hook(w)
  PROVE  TypeOK'
<1> USE DEF TypeOK, Statuses, Blocking, Holding, Unresolved, Released
<1>1. CASE ClaimHostedOutcome(w)
  BY <1>1 DEF ClaimHostedOutcome, HostedClaimable
<1>2. CASE HostedClaimRefused(w)
  BY <1>2 DEF HostedClaimRefused, HostedClaimable
<1>3. CASE WebhookActivates(w)
  BY <1>3 DEF WebhookActivates
<1> QED BY <1>1, <1>2, <1>3 DEF Hook

\* The completion of a captured attempt.
LEMMA CompleteTyped ==
  ASSUME TypeOK, NEW w \in Workers, Complete(w)
  PROVE  TypeOK'
<1> USE DEF TypeOK, Statuses, Blocking, Holding, Unresolved, Released
<1>1. CASE ClaimFinalization(w)
  BY <1>1 DEF ClaimFinalization, Finalizable
<1>2. CASE FinalizationRefused(w)
  BY <1>2 DEF FinalizationRefused, Finalizable
<1>3. CASE Activate(w)
  BY <1>3 DEF Activate, Activations
<1>4. CASE IssueReceipt(w)
  BY <1>4 DEF IssueReceipt
<1>5. CASE Finalize(w)
  BY <1>5 DEF Finalize, Open
<1>6. CASE FinalizeAgain(w)
  BY <1>6 DEF FinalizeAgain
<1>7. CASE FailCompletion(w)
  BY <1>7 DEF FailCompletion
<1> QED BY <1>1, <1>2, <1>3, <1>4, <1>5, <1>6, <1>7 DEF Complete

\* The operator, CardCom and time.
LEMMA WorldTyped ==
  ASSUME TypeOK, NEW a \in Attempts, ExpireProcessing(a) \/ Operator(a) \/ World(a)
  PROVE  TypeOK'
<1> USE DEF TypeOK, Statuses, Blocking, Holding, Unresolved, Released
<1>1. CASE ExpireProcessing(a)
  BY <1>1 DEF ExpireProcessing
<1>2. CASE AdminConfirmNoCharge(a)
  BY <1>2 DEF AdminConfirmNoCharge
<1>3. CASE AdminCompleteCaptured(a)
  BY <1>3 DEF AdminCompleteCaptured
<1>4. CASE AdminCheckProvider(a)
  BY <1>4 DEF AdminCheckProvider
<1>5. CASE ProviderDecides(a)
  BY <1>5 DEF ProviderDecides
<1>6. CASE LeaseExpires(a)
  BY <1>6 DEF LeaseExpires
<1> QED BY <1>1, <1>2, <1>3, <1>4, <1>5, <1>6 DEF Operator, World

LEMMA NextTyped == TypeOK /\ [Next]_vars => TypeOK'
<1> SUFFICES ASSUME TypeOK, [Next]_vars PROVE TypeOK'
  OBVIOUS
<1>1. ASSUME NEW w \in Workers, Begin(w) PROVE TypeOK'
  BY <1>1, BeginTyped
<1>2. ASSUME NEW w \in Workers, Continue(w) PROVE TypeOK'
  <2>1. CASE Lookup(w)
    BY <2>1 DEF Lookup, LookupResult, TypeOK
  <2> QED BY <1>2, <2>1, SubmitTyped, ApplyTyped, HostTyped, HookTyped, CompleteTyped DEF Continue
<1>3. ASSUME NEW w \in Workers, Crash(w) PROVE TypeOK'
  BY <1>3 DEF Crash, TypeOK
<1>4. ASSUME NEW a \in Attempts, ExpireProcessing(a) \/ Operator(a) \/ World(a) PROVE TypeOK'
  BY <1>4, WorldTyped
<1>5. CASE CancelSubscription
  BY <1>5 DEF CancelSubscription, TypeOK
<1>6. CASE UNCHANGED vars
  BY <1>6 DEF TypeOK
<1> QED BY <1>1, <1>2, <1>3, <1>4, <1>5, <1>6 DEF Next

\* Every reachable state is well typed; the reconciliation count stays within the
\* table of delays and exactly the busy threads have an attempt.
THEOREM TypeCorrect == Spec => []TypeOK
<1> QED BY InitTyped, NextTyped, PTL DEF Spec

-----------------------------------------------------------------------------
(* The inductive invariant. *)

recorded == <<status, mode, debtsOf, page, debts, sub, receipt, money, requests>>

\* The parts of IInv that speak of the rows and of CardCom only.
Facts ==
  /\ Membership /\ ReservationsAgree /\ CompletionPair /\ MoneyAgrees
  /\ SubmittedOnce /\ ReceiptForRealMoney /\ RecoveryIsAlone

\* A step that writes none of those columns keeps them.
LEMMA Kept == ASSUME IInv, UNCHANGED recorded PROVE Facts'
BY DEF IInv, recorded, Facts, Membership, ReservationsAgree, CompletionPair, MoneyAgrees,
       SubmittedOnce, ReceiptForRealMoney, RecoveryIsAlone, Paid, Open


\* What an idle thread takes on.
LEMMA BeginStep ==
  ASSUME IInv, NEW w \in Workers, Begin(w)
  PROVE  IInv'
<1>1. TypeOK'
  BY BeginTyped DEF IInv
<1>2. ASSUME NEW a \in Attempts, NEW d \in Periods, OpenRenewal(w, d, a)
      PROVE  IInv'
  <2>1. Membership'
    BY <1>2 DEF OpenRenewal, CreateAttempt, Open, Pending, Blocking, IInv, TypeOK,
              Membership
  <2>2. ReservationsAgree'
    BY <1>2 DEF OpenRenewal, CreateAttempt, Open, Pending, Blocking, IInv, TypeOK,
              ReservationsAgree, Holding, Unresolved, Released
  <2>3. CompletionPair'
    BY <1>2 DEF OpenRenewal, CreateAttempt, Open, Pending, Blocking, IInv, TypeOK,
              CompletionPair
  <2>4. MoneyAgrees'
    BY <1>2 DEF OpenRenewal, CreateAttempt, Open, Pending, Blocking, IInv, TypeOK,
              MoneyAgrees, Paid, Released
  <2>5. SubmittedOnce'
    BY <1>2 DEF OpenRenewal, CreateAttempt, Open, Pending, Blocking, IInv, TypeOK,
              SubmittedOnce
  <2>6. ReceiptForRealMoney'
    BY <1>2 DEF OpenRenewal, CreateAttempt, Open, Pending, Blocking, IInv, TypeOK,
              ReceiptForRealMoney
  <2>7. RecoveryIsAlone'
    BY <1>2 DEF OpenRenewal, CreateAttempt, Open, Pending, Blocking, IInv, TypeOK,
              RecoveryIsAlone, Holding, Unresolved, Released
  <2>8. Threads'
    BY <1>2 DEF OpenRenewal, CreateAttempt, Open, Pending, Blocking, IInv, TypeOK, Threads,
              Relies, Paid, Released
  <2>9. OneSender'
    BY <1>2 DEF OpenRenewal, CreateAttempt, Open, Pending, Blocking, IInv, TypeOK, OneSender
  <2> QED BY <1>1, <2>1, <2>2, <2>3, <2>4, <2>5, <2>6, <2>7, <2>8, <2>9 DEF IInv
<1>3. ASSUME NEW d \in Periods, ReopenRenewal(w, d)
      PROVE  IInv'
  <2>1. Facts'
    BY <1>3, Kept DEF ReopenRenewal, recorded, IInv
  <2>2. Threads'
    BY <1>3 DEF ReopenRenewal, Pending, IInv, TypeOK, Threads, Relies, Paid, Released,
              ReservationsAgree, RecoveryIsAlone, Holding, Unresolved
  <2>3. OneSender'
    BY <1>3 DEF ReopenRenewal, Pending, IInv, TypeOK, OneSender
  <2> QED BY <1>1, <2>1, <2>2, <2>3 DEF IInv, Facts
<1>4. ASSUME NEW a \in Attempts, NEW S \in SUBSET Periods, OpenRecovery(w, S, a)
      PROVE  IInv'
  <2>1. Membership'
    BY <1>4 DEF OpenRecovery, CreateAttempt, Settleable, Known, Open, IInv, TypeOK,
              Membership
  <2>2. ReservationsAgree'
    BY <1>4 DEF OpenRecovery, CreateAttempt, Settleable, Known, Open, IInv, TypeOK,
              ReservationsAgree, Holding, Unresolved, Released
  <2>3. CompletionPair'
    BY <1>4 DEF OpenRecovery, CreateAttempt, Settleable, Known, Open, IInv, TypeOK,
              CompletionPair
  <2>4. MoneyAgrees'
    BY <1>4 DEF OpenRecovery, CreateAttempt, Settleable, Known, Open, IInv, TypeOK,
              MoneyAgrees, Paid, Released
  <2>5. SubmittedOnce'
    BY <1>4 DEF OpenRecovery, CreateAttempt, Settleable, Known, Open, IInv, TypeOK,
              SubmittedOnce
  <2>6. ReceiptForRealMoney'
    BY <1>4 DEF OpenRecovery, CreateAttempt, Settleable, Known, Open, IInv, TypeOK,
              ReceiptForRealMoney
  <2>7. RecoveryIsAlone'
    BY <1>4 DEF OpenRecovery, CreateAttempt, Settleable, Known, Open, IInv, TypeOK,
              RecoveryIsAlone, Holding, Unresolved, Released, Membership, ReservationsAgree
  <2>8. Threads'
    BY <1>4 DEF OpenRecovery, CreateAttempt, Settleable, Known, Open, IInv, TypeOK, Threads,
              Relies, Paid, Released, MoneyAgrees
  <2>9. OneSender'
    BY <1>4 DEF OpenRecovery, CreateAttempt, Settleable, Known, Open, IInv, TypeOK,
              OneSender, Threads, Relies, Paid
  <2> QED BY <1>1, <2>1, <2>2, <2>3, <2>4, <2>5, <2>6, <2>7, <2>8, <2>9 DEF IInv
<1>5. ASSUME NEW a \in Attempts, NEW d \in Checkouts, OpenCheckout(w, d, a)
      PROVE  IInv'
  <2>1. Membership'
    BY <1>5 DEF OpenCheckout, CreateAttempt, Open, Pending, Blocking, IInv, TypeOK,
              Membership
  <2>2. ReservationsAgree'
    BY <1>5 DEF OpenCheckout, CreateAttempt, Open, Pending, Blocking, IInv, TypeOK,
              ReservationsAgree, Holding, Unresolved, Released
  <2>3. CompletionPair'
    BY <1>5 DEF OpenCheckout, CreateAttempt, Open, Pending, Blocking, IInv, TypeOK,
              CompletionPair
  <2>4. MoneyAgrees'
    BY <1>5 DEF OpenCheckout, CreateAttempt, Open, Pending, Blocking, IInv, TypeOK,
              MoneyAgrees, Paid, Released
  <2>5. SubmittedOnce'
    BY <1>5 DEF OpenCheckout, CreateAttempt, Open, Pending, Blocking, IInv, TypeOK,
              SubmittedOnce
  <2>6. ReceiptForRealMoney'
    BY <1>5 DEF OpenCheckout, CreateAttempt, Open, Pending, Blocking, IInv, TypeOK,
              ReceiptForRealMoney
  <2>7. RecoveryIsAlone'
    BY <1>5 DEF OpenCheckout, CreateAttempt, Open, Pending, Blocking, IInv, TypeOK,
              RecoveryIsAlone, Holding, Unresolved, Released
  <2>8. Threads'
    BY <1>5 DEF OpenCheckout, CreateAttempt, Open, Pending, Blocking, IInv, TypeOK, Threads,
              Relies, Paid, Released, MoneyAgrees
  <2>9. OneSender'
    BY <1>5 DEF OpenCheckout, CreateAttempt, Open, Pending, Blocking, IInv, TypeOK,
              OneSender, Threads, Relies, Paid
  <2> QED BY <1>1, <2>1, <2>2, <2>3, <2>4, <2>5, <2>6, <2>7, <2>8, <2>9 DEF IInv
<1>6. ASSUME NEW a \in Attempts, WebhookArrives(w, a)
      PROVE  IInv'
  <2>1. Facts'
    BY <1>6, Kept DEF WebhookArrives, recorded, IInv
  <2>2. Threads'
    BY <1>6 DEF WebhookArrives, LookupResult, IInv, TypeOK, Threads, Relies, Paid, Released,
              MoneyAgrees
  <2>3. OneSender'
    BY <1>6 DEF WebhookArrives, LookupResult, IInv, TypeOK, OneSender
  <2> QED BY <1>1, <2>1, <2>2, <2>3 DEF IInv, Facts
<1>7. ASSUME NEW a \in Attempts, ClaimReconciliation(w, a)
      PROVE  IInv'
  <2>1. Facts'
    BY <1>7, Kept DEF ClaimReconciliation, recorded, IInv
  <2>2. Threads'
    BY <1>7 DEF ClaimReconciliation, IInv, TypeOK, Threads, Relies, Paid, Released
  <2>3. OneSender'
    BY <1>7 DEF ClaimReconciliation, IInv, TypeOK, OneSender
  <2> QED BY <1>1, <2>1, <2>2, <2>3 DEF IInv, Facts
<1>8. ASSUME NEW a \in Attempts, PickUpCaptured(w, a)
      PROVE  IInv'
  <2>1. Facts'
    BY <1>8, Kept DEF PickUpCaptured, recorded, IInv
  <2>2. Threads'
    BY <1>8 DEF PickUpCaptured, IInv, TypeOK, Threads, Relies, Paid, Released
  <2>3. OneSender'
    BY <1>8 DEF PickUpCaptured, IInv, TypeOK, OneSender
  <2> QED BY <1>1, <2>1, <2>2, <2>3 DEF IInv, Facts
<1> QED BY <1>2, <1>3, <1>4, <1>5, <1>6, <1>7, <1>8 DEF Begin

\* The submission of a renewal.
LEMMA SubmitStep ==
  ASSUME IInv, NEW w \in Workers, Submit(w)
  PROVE  IInv'
<1>1. TypeOK'
  BY SubmitTyped DEF IInv
<1>2. CASE ClaimSubmission(w)
  <2>1. Membership'
    BY <1>2 DEF ClaimSubmission, IInv, TypeOK, Membership
  <2>2. ReservationsAgree'
    BY <1>2 DEF ClaimSubmission, IInv, TypeOK, ReservationsAgree, Open, Holding, Unresolved,
              Released
  <2>3. CompletionPair'
    BY <1>2 DEF ClaimSubmission, IInv, TypeOK, CompletionPair
  <2>4. MoneyAgrees'
    BY <1>2 DEF ClaimSubmission, IInv, TypeOK, MoneyAgrees, Paid, Released
  <2>5. SubmittedOnce'
    BY <1>2 DEF ClaimSubmission, IInv, TypeOK, SubmittedOnce
  <2>6. ReceiptForRealMoney'
    BY <1>2 DEF ClaimSubmission, IInv, TypeOK, ReceiptForRealMoney
  <2>7. RecoveryIsAlone'
    BY <1>2 DEF ClaimSubmission, IInv, TypeOK, RecoveryIsAlone, Holding, Unresolved,
              Released
  <2>8. Threads'
    BY <1>2 DEF ClaimSubmission, IInv, TypeOK, Threads, Relies, Paid, Released, MoneyAgrees
  <2>9. OneSender'
    BY <1>2 DEF ClaimSubmission, IInv, TypeOK, OneSender, Threads, Relies, Paid
  <2> QED BY <1>1, <2>1, <2>2, <2>3, <2>4, <2>5, <2>6, <2>7, <2>8, <2>9 DEF IInv
<1>3. CASE SubmissionRefused(w)
  <2>1. Facts'
    BY <1>3, Kept DEF SubmissionRefused, recorded, IInv
  <2>2. Threads'
    BY <1>3 DEF SubmissionRefused, IInv, TypeOK, Threads, Relies, Paid, Released
  <2>3. OneSender'
    BY <1>3 DEF SubmissionRefused, IInv, TypeOK, OneSender
  <2> QED BY <1>1, <2>1, <2>2, <2>3 DEF IInv, Facts
<1>4. CASE SendCharge(w)
  <2>1. Membership'
    BY <1>4 DEF SendCharge, IInv, TypeOK, Membership
  <2>2. ReservationsAgree'
    BY <1>4 DEF SendCharge, IInv, TypeOK, ReservationsAgree, Open, Holding, Unresolved,
              Released
  <2>3. CompletionPair'
    BY <1>4 DEF SendCharge, IInv, TypeOK, CompletionPair
  <2>4. MoneyAgrees'
    BY <1>4 DEF SendCharge, IInv, TypeOK, MoneyAgrees, Paid, Released, Threads, Relies
  <2>5. SubmittedOnce'
    BY <1>4 DEF SendCharge, IInv, TypeOK, SubmittedOnce, Threads, Relies, Paid
  <2>6. ReceiptForRealMoney'
    BY <1>4 DEF SendCharge, IInv, TypeOK, ReceiptForRealMoney
  <2>7. RecoveryIsAlone'
    BY <1>4 DEF SendCharge, IInv, TypeOK, RecoveryIsAlone, Holding, Unresolved, Released
  <2>8. Threads'
    BY <1>4 DEF SendCharge, IInv, TypeOK, Threads, Relies, Paid, Released, OneSender
  <2>9. OneSender'
    BY <1>4 DEF SendCharge, IInv, TypeOK, OneSender
  <2> QED BY <1>1, <2>1, <2>2, <2>3, <2>4, <2>5, <2>6, <2>7, <2>8, <2>9 DEF IInv
<1>5. CASE ReceiveAnswer(w)
  <2>1. Facts'
    BY <1>5, Kept DEF ReceiveAnswer, recorded, IInv
  <2>2. Threads'
    BY <1>5 DEF ReceiveAnswer, Response, IInv, TypeOK, Threads, Relies, Paid, Released
  <2>3. OneSender'
    BY <1>5 DEF ReceiveAnswer, IInv, TypeOK, OneSender
  <2> QED BY <1>1, <2>1, <2>2, <2>3 DEF IInv, Facts
<1>6. CASE LocalFailureOfCustomer(w)
  <2>1. Membership'
    BY <1>6 DEF LocalFailureOfCustomer, IInv, TypeOK, Membership
  <2>2. ReservationsAgree'
    BY <1>6 DEF LocalFailureOfCustomer, IInv, TypeOK, ReservationsAgree, Open, Holding,
              Unresolved, Released, Membership, Threads, Relies
  <2>3. CompletionPair'
    BY <1>6 DEF LocalFailureOfCustomer, IInv, TypeOK, CompletionPair
  <2>4. MoneyAgrees'
    BY <1>6 DEF LocalFailureOfCustomer, IInv, TypeOK, MoneyAgrees, Paid, Released, Threads,
              Relies
  <2>5. SubmittedOnce'
    BY <1>6 DEF LocalFailureOfCustomer, IInv, TypeOK, SubmittedOnce
  <2>6. ReceiptForRealMoney'
    BY <1>6 DEF LocalFailureOfCustomer, IInv, TypeOK, ReceiptForRealMoney
  <2>7. RecoveryIsAlone'
    BY <1>6 DEF LocalFailureOfCustomer, IInv, TypeOK, RecoveryIsAlone, Holding, Unresolved,
              Released
  <2>8. Threads'
    BY <1>6 DEF LocalFailureOfCustomer, IInv, TypeOK, Threads, Relies, Paid, Released,
              OneSender
  <2>9. OneSender'
    BY <1>6 DEF LocalFailureOfCustomer, IInv, TypeOK, OneSender
  <2> QED BY <1>1, <2>1, <2>2, <2>3, <2>4, <2>5, <2>6, <2>7, <2>8, <2>9 DEF IInv
<1>7. CASE LocalFailureOfSystem(w)
  <2>1. Membership'
    BY <1>7 DEF LocalFailureOfSystem, IInv, TypeOK, Membership
  <2>2. ReservationsAgree'
    BY <1>7 DEF LocalFailureOfSystem, IInv, TypeOK, ReservationsAgree, Open, Holding,
              Unresolved, Released
  <2>3. CompletionPair'
    BY <1>7 DEF LocalFailureOfSystem, IInv, TypeOK, CompletionPair
  <2>4. MoneyAgrees'
    BY <1>7 DEF LocalFailureOfSystem, IInv, TypeOK, MoneyAgrees, Paid, Released
  <2>5. SubmittedOnce'
    BY <1>7 DEF LocalFailureOfSystem, IInv, TypeOK, SubmittedOnce
  <2>6. ReceiptForRealMoney'
    BY <1>7 DEF LocalFailureOfSystem, IInv, TypeOK, ReceiptForRealMoney
  <2>7. RecoveryIsAlone'
    BY <1>7 DEF LocalFailureOfSystem, IInv, TypeOK, RecoveryIsAlone, Holding, Unresolved,
              Released
  <2>8. Threads'
    BY <1>7 DEF LocalFailureOfSystem, IInv, TypeOK, Threads, Relies, Paid, Released
  <2>9. OneSender'
    BY <1>7 DEF LocalFailureOfSystem, IInv, TypeOK, OneSender
  <2> QED BY <1>1, <2>1, <2>2, <2>3, <2>4, <2>5, <2>6, <2>7, <2>8, <2>9 DEF IInv
<1> QED BY <1>2, <1>3, <1>4, <1>5, <1>6, <1>7 DEF Submit

\* A verdict is applied or thrown away.
LEMMA ApplyStep ==
  ASSUME IInv, NEW w \in Workers, Apply(w)
  PROVE  IInv'
<1>1. TypeOK'
  BY ApplyTyped DEF IInv
<1>2. CASE ApplyCaptured(w)
  <2>1. Membership'
    BY <1>2 DEF ApplyCaptured, CanApply, AfterCapture, IInv, TypeOK, Membership
  <2>2. ReservationsAgree'
    BY <1>2 DEF ApplyCaptured, CanApply, AfterCapture, IInv, TypeOK, ReservationsAgree,
              Open, Holding, Unresolved, Released
  <2>3. CompletionPair'
    BY <1>2 DEF ApplyCaptured, CanApply, AfterCapture, IInv, TypeOK, CompletionPair
  <2>4. MoneyAgrees'
    BY <1>2 DEF ApplyCaptured, CanApply, AfterCapture, IInv, TypeOK, MoneyAgrees, Paid,
              Released, Threads, Relies
  <2>5. SubmittedOnce'
    BY <1>2 DEF ApplyCaptured, CanApply, AfterCapture, IInv, TypeOK, SubmittedOnce
  <2>6. ReceiptForRealMoney'
    BY <1>2 DEF ApplyCaptured, CanApply, AfterCapture, IInv, TypeOK, ReceiptForRealMoney
  <2>7. RecoveryIsAlone'
    BY <1>2 DEF ApplyCaptured, CanApply, AfterCapture, IInv, TypeOK, RecoveryIsAlone,
              Holding, Unresolved, Released
  <2>8. Threads'
    BY <1>2 DEF ApplyCaptured, CanApply, AfterCapture, IInv, TypeOK, Threads, Relies, Paid,
              Released
  <2>9. OneSender'
    BY <1>2 DEF ApplyCaptured, CanApply, AfterCapture, IInv, TypeOK, OneSender
  <2> QED BY <1>1, <2>1, <2>2, <2>3, <2>4, <2>5, <2>6, <2>7, <2>8, <2>9 DEF IInv
<1>3. CASE ApplyDeclined(w)
  <2>1. Membership'
    BY <1>3 DEF ApplyDeclined, CanApply, Reserves, IInv, TypeOK, Membership
  <2>2. ReservationsAgree'
    BY <1>3 DEF ApplyDeclined, CanApply, Reserves, IInv, TypeOK, ReservationsAgree, Open,
              Holding, Unresolved, Released
  <2>3. CompletionPair'
    BY <1>3 DEF ApplyDeclined, CanApply, Reserves, IInv, TypeOK, CompletionPair
  <2>4. MoneyAgrees'
    BY <1>3 DEF ApplyDeclined, CanApply, Reserves, IInv, TypeOK, MoneyAgrees, Paid,
              Released, Threads, Relies
  <2>5. SubmittedOnce'
    BY <1>3 DEF ApplyDeclined, CanApply, Reserves, IInv, TypeOK, SubmittedOnce
  <2>6. ReceiptForRealMoney'
    BY <1>3 DEF ApplyDeclined, CanApply, Reserves, IInv, TypeOK, ReceiptForRealMoney
  <2>7. RecoveryIsAlone'
    BY <1>3 DEF ApplyDeclined, CanApply, Reserves, IInv, TypeOK, RecoveryIsAlone, Holding,
              Unresolved, Released
  <2>8. Threads'
    BY <1>3 DEF ApplyDeclined, CanApply, Reserves, IInv, TypeOK, Threads, Relies, Paid,
              Released
  <2>9. OneSender'
    BY <1>3 DEF ApplyDeclined, CanApply, Reserves, IInv, TypeOK, OneSender
  <2> QED BY <1>1, <2>1, <2>2, <2>3, <2>4, <2>5, <2>6, <2>7, <2>8, <2>9 DEF IInv
<1>4. CASE ApplyUnknown(w)
  <2>1. Membership'
    BY <1>4 DEF ApplyUnknown, CanApply, IInv, TypeOK, Membership
  <2>2. ReservationsAgree'
    BY <1>4 DEF ApplyUnknown, CanApply, IInv, TypeOK, ReservationsAgree, Open, Holding,
              Unresolved, Released
  <2>3. CompletionPair'
    BY <1>4 DEF ApplyUnknown, CanApply, IInv, TypeOK, CompletionPair
  <2>4. MoneyAgrees'
    BY <1>4 DEF ApplyUnknown, CanApply, IInv, TypeOK, MoneyAgrees, Paid, Released
  <2>5. SubmittedOnce'
    BY <1>4 DEF ApplyUnknown, CanApply, IInv, TypeOK, SubmittedOnce
  <2>6. ReceiptForRealMoney'
    BY <1>4 DEF ApplyUnknown, CanApply, IInv, TypeOK, ReceiptForRealMoney
  <2>7. RecoveryIsAlone'
    BY <1>4 DEF ApplyUnknown, CanApply, IInv, TypeOK, RecoveryIsAlone, Holding, Unresolved,
              Released
  <2>8. Threads'
    BY <1>4 DEF ApplyUnknown, CanApply, IInv, TypeOK, Threads, Relies, Paid, Released
  <2>9. OneSender'
    BY <1>4 DEF ApplyUnknown, CanApply, IInv, TypeOK, OneSender
  <2> QED BY <1>1, <2>1, <2>2, <2>3, <2>4, <2>5, <2>6, <2>7, <2>8, <2>9 DEF IInv
<1>5. CASE RejectStale(w)
  <2>1. Facts'
    BY <1>5, Kept DEF RejectStale, recorded, IInv
  <2>2. Threads'
    BY <1>5 DEF RejectStale, IInv, TypeOK, Threads, Relies, Paid, Released
  <2>3. OneSender'
    BY <1>5 DEF RejectStale, IInv, TypeOK, OneSender
  <2> QED BY <1>1, <2>1, <2>2, <2>3 DEF IInv, Facts
<1> QED BY <1>2, <1>3, <1>4, <1>5 DEF Apply

\* The creation of a hosted page.
LEMMA HostStep ==
  ASSUME IInv, NEW w \in Workers, Host(w)
  PROVE  IInv'
<1>1. TypeOK'
  BY HostTyped DEF IInv
<1>2. CASE PageCreated(w)
  <2>1. Membership'
    BY <1>2 DEF PageCreated, IInv, TypeOK, Membership
  <2>2. ReservationsAgree'
    BY <1>2 DEF PageCreated, IInv, TypeOK, ReservationsAgree, Open, Holding, Unresolved,
              Released
  <2>3. CompletionPair'
    BY <1>2 DEF PageCreated, IInv, TypeOK, CompletionPair
  <2>4. MoneyAgrees'
    BY <1>2 DEF PageCreated, IInv, TypeOK, MoneyAgrees, Paid, Released, Threads, Relies
  <2>5. SubmittedOnce'
    BY <1>2 DEF PageCreated, IInv, TypeOK, SubmittedOnce
  <2>6. ReceiptForRealMoney'
    BY <1>2 DEF PageCreated, IInv, TypeOK, ReceiptForRealMoney, Threads, Relies, Paid
  <2>7. RecoveryIsAlone'
    BY <1>2 DEF PageCreated, IInv, TypeOK, RecoveryIsAlone, Holding, Unresolved, Released
  <2>8. Threads'
    BY <1>2 DEF PageCreated, IInv, TypeOK, Threads, Relies, Paid, Released, OneSender
  <2>9. OneSender'
    BY <1>2 DEF PageCreated, IInv, TypeOK, OneSender
  <2> QED BY <1>1, <2>1, <2>2, <2>3, <2>4, <2>5, <2>6, <2>7, <2>8, <2>9 DEF IInv
<1>3. CASE CreationRejected(w)
  <2>1. Membership'
    BY <1>3 DEF CreationRejected, Reserves, IInv, TypeOK, Membership
  <2>2. ReservationsAgree'
    BY <1>3 DEF CreationRejected, Reserves, IInv, TypeOK, ReservationsAgree, Open, Holding,
              Unresolved, Released
  <2>3. CompletionPair'
    BY <1>3 DEF CreationRejected, Reserves, IInv, TypeOK, CompletionPair
  <2>4. MoneyAgrees'
    BY <1>3 DEF CreationRejected, Reserves, IInv, TypeOK, MoneyAgrees, Paid, Released,
              Threads, Relies
  <2>5. SubmittedOnce'
    BY <1>3 DEF CreationRejected, Reserves, IInv, TypeOK, SubmittedOnce
  <2>6. ReceiptForRealMoney'
    BY <1>3 DEF CreationRejected, Reserves, IInv, TypeOK, ReceiptForRealMoney
  <2>7. RecoveryIsAlone'
    BY <1>3 DEF CreationRejected, Reserves, IInv, TypeOK, RecoveryIsAlone, Holding,
              Unresolved, Released
  <2>8. Threads'
    BY <1>3 DEF CreationRejected, Reserves, IInv, TypeOK, Threads, Relies, Paid, Released,
              OneSender
  <2>9. OneSender'
    BY <1>3 DEF CreationRejected, Reserves, IInv, TypeOK, OneSender
  <2> QED BY <1>1, <2>1, <2>2, <2>3, <2>4, <2>5, <2>6, <2>7, <2>8, <2>9 DEF IInv
<1>4. CASE CreationUncertain(w)
  <2>1. Membership'
    BY <1>4 DEF CreationUncertain, IInv, TypeOK, Membership
  <2>2. ReservationsAgree'
    BY <1>4 DEF CreationUncertain, IInv, TypeOK, ReservationsAgree, Open, Holding,
              Unresolved, Released
  <2>3. CompletionPair'
    BY <1>4 DEF CreationUncertain, IInv, TypeOK, CompletionPair
  <2>4. MoneyAgrees'
    BY <1>4 DEF CreationUncertain, IInv, TypeOK, MoneyAgrees, Paid, Released
  <2>5. SubmittedOnce'
    BY <1>4 DEF CreationUncertain, IInv, TypeOK, SubmittedOnce
  <2>6. ReceiptForRealMoney'
    BY <1>4 DEF CreationUncertain, IInv, TypeOK, ReceiptForRealMoney
  <2>7. RecoveryIsAlone'
    BY <1>4 DEF CreationUncertain, IInv, TypeOK, RecoveryIsAlone, Holding, Unresolved,
              Released
  <2>8. Threads'
    BY <1>4 DEF CreationUncertain, IInv, TypeOK, Threads, Relies, Paid, Released, OneSender
  <2>9. OneSender'
    BY <1>4 DEF CreationUncertain, IInv, TypeOK, OneSender
  <2> QED BY <1>1, <2>1, <2>2, <2>3, <2>4, <2>5, <2>6, <2>7, <2>8, <2>9 DEF IInv
<1>5. CASE RecordPage(w)
  <2>1. Membership'
    BY <1>5 DEF RecordPage, Recordable, IInv, TypeOK, Membership
  <2>2. ReservationsAgree'
    BY <1>5 DEF RecordPage, Recordable, IInv, TypeOK, ReservationsAgree, Open, Holding,
              Unresolved, Released
  <2>3. CompletionPair'
    BY <1>5 DEF RecordPage, Recordable, IInv, TypeOK, CompletionPair
  <2>4. MoneyAgrees'
    BY <1>5 DEF RecordPage, Recordable, IInv, TypeOK, MoneyAgrees, Paid, Released
  <2>5. SubmittedOnce'
    BY <1>5 DEF RecordPage, Recordable, IInv, TypeOK, SubmittedOnce
  <2>6. ReceiptForRealMoney'
    BY <1>5 DEF RecordPage, Recordable, IInv, TypeOK, ReceiptForRealMoney
  <2>7. RecoveryIsAlone'
    BY <1>5 DEF RecordPage, Recordable, IInv, TypeOK, RecoveryIsAlone, Holding, Unresolved,
              Released
  <2>8. Threads'
    BY <1>5 DEF RecordPage, Recordable, IInv, TypeOK, Threads, Relies, Paid, Released,
              OneSender
  <2>9. OneSender'
    BY <1>5 DEF RecordPage, Recordable, IInv, TypeOK, OneSender
  <2> QED BY <1>1, <2>1, <2>2, <2>3, <2>4, <2>5, <2>6, <2>7, <2>8, <2>9 DEF IInv
<1>6. CASE SkipRecording(w)
  <2>1. Facts'
    BY <1>6, Kept DEF SkipRecording, recorded, IInv
  <2>2. Threads'
    BY <1>6 DEF SkipRecording, IInv, TypeOK, Threads, Relies, Paid, Released
  <2>3. OneSender'
    BY <1>6 DEF SkipRecording, IInv, TypeOK, OneSender
  <2> QED BY <1>1, <2>1, <2>2, <2>3 DEF IInv, Facts
<1>7. CASE HandOver(w)
  <2>1. Membership'
    BY <1>7 DEF HandOver, IInv, TypeOK, Membership
  <2>2. ReservationsAgree'
    BY <1>7 DEF HandOver, IInv, TypeOK, ReservationsAgree, Open, Holding, Unresolved,
              Released
  <2>3. CompletionPair'
    BY <1>7 DEF HandOver, IInv, TypeOK, CompletionPair
  <2>4. MoneyAgrees'
    BY <1>7 DEF HandOver, IInv, TypeOK, MoneyAgrees, Paid, Released
  <2>5. SubmittedOnce'
    BY <1>7 DEF HandOver, IInv, TypeOK, SubmittedOnce
  <2>6. ReceiptForRealMoney'
    BY <1>7 DEF HandOver, IInv, TypeOK, ReceiptForRealMoney
  <2>7. RecoveryIsAlone'
    BY <1>7 DEF HandOver, IInv, TypeOK, RecoveryIsAlone, Holding, Unresolved, Released
  <2>8. Threads'
    BY <1>7 DEF HandOver, IInv, TypeOK, Threads, Relies, Paid, Released
  <2>9. OneSender'
    BY <1>7 DEF HandOver, IInv, TypeOK, OneSender
  <2> QED BY <1>1, <2>1, <2>2, <2>3, <2>4, <2>5, <2>6, <2>7, <2>8, <2>9 DEF IInv
<1> QED BY <1>2, <1>3, <1>4, <1>5, <1>6, <1>7 DEF Host

\* A webhook delivery.
LEMMA HookStep ==
  ASSUME IInv, NEW w \in Workers, Hook(w)
  PROVE  IInv'
<1>1. TypeOK'
  BY HookTyped DEF IInv
<1>2. CASE ClaimHostedOutcome(w)
  <2>1. Membership'
    BY <1>2 DEF ClaimHostedOutcome, HostedClaimable, IInv, TypeOK, Membership, Holding,
              Unresolved, Released
  <2>2. ReservationsAgree'
    BY <1>2 DEF ClaimHostedOutcome, HostedClaimable, IInv, TypeOK, ReservationsAgree, Open,
              Holding, Unresolved, Released
  <2>3. CompletionPair'
    BY <1>2 DEF ClaimHostedOutcome, HostedClaimable, IInv, TypeOK, CompletionPair, Holding,
              Unresolved, Released
  <2>4. MoneyAgrees'
    BY <1>2 DEF ClaimHostedOutcome, HostedClaimable, IInv, TypeOK, MoneyAgrees, Paid,
              Released
  <2>5. SubmittedOnce'
    BY <1>2 DEF ClaimHostedOutcome, HostedClaimable, IInv, TypeOK, SubmittedOnce
  <2>6. ReceiptForRealMoney'
    BY <1>2 DEF ClaimHostedOutcome, HostedClaimable, IInv, TypeOK, ReceiptForRealMoney,
              Holding, Unresolved, Released
  <2>7. RecoveryIsAlone'
    BY <1>2 DEF ClaimHostedOutcome, HostedClaimable, IInv, TypeOK, RecoveryIsAlone, Holding,
              Unresolved, Released
  <2>8. Threads'
    BY <1>2 DEF ClaimHostedOutcome, HostedClaimable, IInv, TypeOK, Threads, Relies, Paid,
              Released, Holding, Unresolved
  <2>9. OneSender'
    BY <1>2 DEF ClaimHostedOutcome, HostedClaimable, IInv, TypeOK, OneSender
  <2> QED BY <1>1, <2>1, <2>2, <2>3, <2>4, <2>5, <2>6, <2>7, <2>8, <2>9 DEF IInv
<1>3. CASE HostedClaimRefused(w)
  <2>1. Facts'
    BY <1>3, Kept DEF HostedClaimRefused, recorded, IInv
  <2>2. Threads'
    BY <1>3 DEF HostedClaimRefused, IInv, TypeOK, Threads, Relies, Paid, Released
  <2>3. OneSender'
    BY <1>3 DEF HostedClaimRefused, IInv, TypeOK, OneSender
  <2> QED BY <1>1, <2>1, <2>2, <2>3 DEF IInv, Facts
<1>4. CASE WebhookActivates(w)
  <2>1. Membership'
    BY <1>4 DEF WebhookActivates, IInv, TypeOK, Membership
  <2>2. ReservationsAgree'
    BY <1>4 DEF WebhookActivates, IInv, TypeOK, ReservationsAgree, Open, Holding,
              Unresolved, Released
  <2>3. CompletionPair'
    BY <1>4 DEF WebhookActivates, IInv, TypeOK, CompletionPair
  <2>4. MoneyAgrees'
    BY <1>4 DEF WebhookActivates, IInv, TypeOK, MoneyAgrees, Paid, Released
  <2>5. SubmittedOnce'
    BY <1>4 DEF WebhookActivates, IInv, TypeOK, SubmittedOnce
  <2>6. ReceiptForRealMoney'
    BY <1>4 DEF WebhookActivates, IInv, TypeOK, ReceiptForRealMoney
  <2>7. RecoveryIsAlone'
    <3> DEFINE a == job[w]
    <3>1. Paid(a) /\ page[a] /\ mode[a] = "HOSTED"
      BY <1>4 DEF WebhookActivates, IInv, TypeOK, Threads, Relies
    <3>2. CASE status[a] = "COMPLETED" \/ sub \in {"ACTIVE", "TRIAL", "CANCELED"}
      BY <1>4, <3>2 DEF WebhookActivates, IInv, TypeOK, RecoveryIsAlone
    <3>3. CASE status[a] # "COMPLETED"
      BY <1>4, <3>1, <3>3 DEF WebhookActivates, IInv, TypeOK, RecoveryIsAlone, MoneyAgrees,
                Paid, Statuses, Blocking, Holding, Released
    <3> QED BY <3>2, <3>3
  <2>8. Threads'
    BY <1>4 DEF WebhookActivates, IInv, TypeOK, Threads, Relies, Paid, Released
  <2>9. OneSender'
    BY <1>4 DEF WebhookActivates, IInv, TypeOK, OneSender
  <2> QED BY <1>1, <2>1, <2>2, <2>3, <2>4, <2>5, <2>6, <2>7, <2>8, <2>9 DEF IInv
<1> QED BY <1>2, <1>3, <1>4 DEF Hook

\* The completion of a captured attempt.
LEMMA CompleteStep ==
  ASSUME IInv, NEW w \in Workers, Complete(w)
  PROVE  IInv'
<1>1. TypeOK'
  BY CompleteTyped DEF IInv
<1>2. CASE ClaimFinalization(w)
  <2>1. Facts'
    BY <1>2, Kept DEF ClaimFinalization, recorded, IInv
  <2>2. Threads'
    BY <1>2 DEF ClaimFinalization, Finalizable, IInv, TypeOK, Threads, Relies, Paid,
              Released
  <2>3. OneSender'
    BY <1>2 DEF ClaimFinalization, Finalizable, IInv, TypeOK, OneSender
  <2> QED BY <1>1, <2>1, <2>2, <2>3 DEF IInv, Facts
<1>3. CASE FinalizationRefused(w)
  <2>1. Facts'
    BY <1>3, Kept DEF FinalizationRefused, recorded, IInv
  <2>2. Threads'
    BY <1>3 DEF FinalizationRefused, IInv, TypeOK, Threads, Relies, Paid, Released
  <2>3. OneSender'
    BY <1>3 DEF FinalizationRefused, IInv, TypeOK, OneSender
  <2> QED BY <1>1, <2>1, <2>2, <2>3 DEF IInv, Facts
<1>4. CASE Activate(w)
  <2>1. Membership'
    BY <1>4 DEF Activate, Activations, IInv, TypeOK, Membership
  <2>2. ReservationsAgree'
    BY <1>4 DEF Activate, Activations, IInv, TypeOK, ReservationsAgree, Open, Holding,
              Unresolved, Released
  <2>3. CompletionPair'
    BY <1>4 DEF Activate, Activations, IInv, TypeOK, CompletionPair
  <2>4. MoneyAgrees'
    BY <1>4 DEF Activate, Activations, IInv, TypeOK, MoneyAgrees, Paid, Released
  <2>5. SubmittedOnce'
    BY <1>4 DEF Activate, Activations, IInv, TypeOK, SubmittedOnce
  <2>6. ReceiptForRealMoney'
    BY <1>4 DEF Activate, Activations, IInv, TypeOK, ReceiptForRealMoney
  <2>7. RecoveryIsAlone'
    BY <1>4 DEF Activate, Activations, IInv, TypeOK, RecoveryIsAlone, Holding, Unresolved,
              Released, Threads, Relies, Paid
  <2>8. Threads'
    BY <1>4 DEF Activate, Activations, IInv, TypeOK, Threads, Relies, Paid, Released
  <2>9. OneSender'
    BY <1>4 DEF Activate, Activations, IInv, TypeOK, OneSender
  <2> QED BY <1>1, <2>1, <2>2, <2>3, <2>4, <2>5, <2>6, <2>7, <2>8, <2>9 DEF IInv
<1>5. CASE IssueReceipt(w)
  <2>1. Membership'
    BY <1>5 DEF IssueReceipt, IInv, TypeOK, Membership
  <2>2. ReservationsAgree'
    BY <1>5 DEF IssueReceipt, IInv, TypeOK, ReservationsAgree, Open, Holding, Unresolved,
              Released
  <2>3. CompletionPair'
    BY <1>5 DEF IssueReceipt, IInv, TypeOK, CompletionPair
  <2>4. MoneyAgrees'
    BY <1>5 DEF IssueReceipt, IInv, TypeOK, MoneyAgrees, Paid, Released
  <2>5. SubmittedOnce'
    BY <1>5 DEF IssueReceipt, IInv, TypeOK, SubmittedOnce
  <2>6. ReceiptForRealMoney'
    BY <1>5 DEF IssueReceipt, IInv, TypeOK, ReceiptForRealMoney, Threads, Relies, Paid,
              MoneyAgrees
  <2>7. RecoveryIsAlone'
    BY <1>5 DEF IssueReceipt, IInv, TypeOK, RecoveryIsAlone, Holding, Unresolved, Released
  <2>8. Threads'
    BY <1>5 DEF IssueReceipt, IInv, TypeOK, Threads, Relies, Paid, Released
  <2>9. OneSender'
    BY <1>5 DEF IssueReceipt, IInv, TypeOK, OneSender
  <2> QED BY <1>1, <2>1, <2>2, <2>3, <2>4, <2>5, <2>6, <2>7, <2>8, <2>9 DEF IInv
<1>6. CASE Finalize(w)
  <2>1. Membership'
    BY <1>6 DEF Finalize, Open, IInv, TypeOK, Membership
  <2>2. ReservationsAgree'
    BY <1>6 DEF Finalize, Open, IInv, TypeOK, ReservationsAgree, Holding, Unresolved,
              Released
  <2>3. CompletionPair'
    BY <1>6 DEF Finalize, Open, IInv, TypeOK, CompletionPair
  <2>4. MoneyAgrees'
    BY <1>6 DEF Finalize, Open, IInv, TypeOK, MoneyAgrees, Paid, Released
  <2>5. SubmittedOnce'
    BY <1>6 DEF Finalize, Open, IInv, TypeOK, SubmittedOnce
  <2>6. ReceiptForRealMoney'
    BY <1>6 DEF Finalize, Open, IInv, TypeOK, ReceiptForRealMoney, Threads, Relies, Paid
  <2>7. RecoveryIsAlone'
    BY <1>6 DEF Finalize, Open, IInv, TypeOK, RecoveryIsAlone, Holding, Unresolved, Released
  <2>8. Threads'
    BY <1>6 DEF Finalize, Open, IInv, TypeOK, Threads, Relies, Paid, Released
  <2>9. OneSender'
    BY <1>6 DEF Finalize, Open, IInv, TypeOK, OneSender
  <2> QED BY <1>1, <2>1, <2>2, <2>3, <2>4, <2>5, <2>6, <2>7, <2>8, <2>9 DEF IInv
<1>7. CASE FinalizeAgain(w)
  <2>1. Facts'
    BY <1>7, Kept DEF FinalizeAgain, recorded, IInv
  <2>2. Threads'
    BY <1>7 DEF FinalizeAgain, IInv, TypeOK, Threads, Relies, Paid, Released
  <2>3. OneSender'
    BY <1>7 DEF FinalizeAgain, IInv, TypeOK, OneSender
  <2> QED BY <1>1, <2>1, <2>2, <2>3 DEF IInv, Facts
<1>8. CASE FailCompletion(w)
  <2>1. Facts'
    BY <1>8, Kept DEF FailCompletion, recorded, IInv
  <2>2. Threads'
    BY <1>8 DEF FailCompletion, IInv, TypeOK, Threads, Relies, Paid, Released
  <2>3. OneSender'
    BY <1>8 DEF FailCompletion, IInv, TypeOK, OneSender
  <2> QED BY <1>1, <2>1, <2>2, <2>3 DEF IInv, Facts
<1> QED BY <1>2, <1>3, <1>4, <1>5, <1>6, <1>7, <1>8 DEF Complete

\* The sweep, the operator, CardCom and time.
LEMMA WorldStep ==
  ASSUME IInv, NEW a \in Attempts,
         ExpireProcessing(a) \/ Operator(a) \/ World(a)
  PROVE  IInv'
<1>1. TypeOK'
  BY WorldTyped DEF IInv
<1>2. CASE ExpireProcessing(a)
  <2>1. Membership'
    BY <1>2 DEF ExpireProcessing, IInv, TypeOK, Membership
  <2>2. ReservationsAgree'
    BY <1>2 DEF ExpireProcessing, IInv, TypeOK, ReservationsAgree, Open, Holding,
              Unresolved, Released
  <2>3. CompletionPair'
    BY <1>2 DEF ExpireProcessing, IInv, TypeOK, CompletionPair
  <2>4. MoneyAgrees'
    BY <1>2 DEF ExpireProcessing, IInv, TypeOK, MoneyAgrees, Paid, Released
  <2>5. SubmittedOnce'
    BY <1>2 DEF ExpireProcessing, IInv, TypeOK, SubmittedOnce
  <2>6. ReceiptForRealMoney'
    BY <1>2 DEF ExpireProcessing, IInv, TypeOK, ReceiptForRealMoney
  <2>7. RecoveryIsAlone'
    BY <1>2 DEF ExpireProcessing, IInv, TypeOK, RecoveryIsAlone, Holding, Unresolved,
              Released
  <2>8. Threads'
    BY <1>2 DEF ExpireProcessing, IInv, TypeOK, Threads, Relies, Paid, Released
  <2>9. OneSender'
    BY <1>2 DEF ExpireProcessing, IInv, TypeOK, OneSender
  <2> QED BY <1>1, <2>1, <2>2, <2>3, <2>4, <2>5, <2>6, <2>7, <2>8, <2>9 DEF IInv
<1>3. CASE AdminConfirmNoCharge(a)
  <2>1. Membership'
    BY <1>3 DEF AdminConfirmNoCharge, Resolvable, NoChargeEvidence, Open, IInv, TypeOK,
              Membership, Holding, Unresolved, Released
  <2>2. ReservationsAgree'
    BY <1>3 DEF AdminConfirmNoCharge, Resolvable, NoChargeEvidence, Open, IInv, TypeOK,
              ReservationsAgree, Holding, Unresolved, Released
  <2>3. CompletionPair'
    BY <1>3 DEF AdminConfirmNoCharge, Resolvable, NoChargeEvidence, Open, IInv, TypeOK,
              CompletionPair
  <2>4. MoneyAgrees'
    BY <1>3 DEF AdminConfirmNoCharge, Resolvable, NoChargeEvidence, Open, IInv, TypeOK,
              MoneyAgrees, Paid, Released
  <2>5. SubmittedOnce'
    BY <1>3 DEF AdminConfirmNoCharge, Resolvable, NoChargeEvidence, Open, IInv, TypeOK,
              SubmittedOnce
  <2>6. ReceiptForRealMoney'
    BY <1>3 DEF AdminConfirmNoCharge, Resolvable, NoChargeEvidence, Open, IInv, TypeOK,
              ReceiptForRealMoney
  <2>7. RecoveryIsAlone'
    BY <1>3 DEF AdminConfirmNoCharge, Resolvable, NoChargeEvidence, Open, IInv, TypeOK,
              RecoveryIsAlone, Holding, Unresolved, Released
  <2>8. Threads'
    BY <1>3 DEF AdminConfirmNoCharge, Resolvable, NoChargeEvidence, Open, IInv, TypeOK,
              Threads, Relies, Paid, Released, Holding, Unresolved, MoneyAgrees
  <2>9. OneSender'
    BY <1>3 DEF AdminConfirmNoCharge, Resolvable, NoChargeEvidence, Open, IInv, TypeOK,
              OneSender
  <2> QED BY <1>1, <2>1, <2>2, <2>3, <2>4, <2>5, <2>6, <2>7, <2>8, <2>9 DEF IInv
<1>4. CASE AdminCompleteCaptured(a)
  <2>1. Facts'
    BY <1>4, Kept DEF AdminCompleteCaptured, recorded, IInv
  <2>2. Threads'
    BY <1>4 DEF AdminCompleteCaptured, IInv, TypeOK, Threads, Relies, Paid, Released
  <2>3. OneSender'
    BY <1>4 DEF AdminCompleteCaptured, IInv, TypeOK, OneSender
  <2> QED BY <1>1, <2>1, <2>2, <2>3 DEF IInv, Facts
<1>5. CASE AdminCheckProvider(a)
  <2>1. Membership'
    BY <1>5 DEF AdminCheckProvider, Resolvable, IInv, TypeOK, Membership, Holding,
              Unresolved, Released
  <2>2. ReservationsAgree'
    BY <1>5 DEF AdminCheckProvider, Resolvable, IInv, TypeOK, ReservationsAgree, Open,
              Holding, Unresolved, Released
  <2>3. CompletionPair'
    BY <1>5 DEF AdminCheckProvider, Resolvable, IInv, TypeOK, CompletionPair, Holding,
              Unresolved, Released
  <2>4. MoneyAgrees'
    BY <1>5 DEF AdminCheckProvider, Resolvable, IInv, TypeOK, MoneyAgrees, Paid, Released
  <2>5. SubmittedOnce'
    BY <1>5 DEF AdminCheckProvider, Resolvable, IInv, TypeOK, SubmittedOnce
  <2>6. ReceiptForRealMoney'
    BY <1>5 DEF AdminCheckProvider, Resolvable, IInv, TypeOK, ReceiptForRealMoney, Holding,
              Unresolved, Released
  <2>7. RecoveryIsAlone'
    BY <1>5 DEF AdminCheckProvider, Resolvable, IInv, TypeOK, RecoveryIsAlone, Holding,
              Unresolved, Released
  <2>8. Threads'
    BY <1>5 DEF AdminCheckProvider, Resolvable, IInv, TypeOK, Threads, Relies, Paid,
              Released, Holding, Unresolved
  <2>9. OneSender'
    BY <1>5 DEF AdminCheckProvider, Resolvable, IInv, TypeOK, OneSender
  <2> QED BY <1>1, <2>1, <2>2, <2>3, <2>4, <2>5, <2>6, <2>7, <2>8, <2>9 DEF IInv
<1>6. CASE ProviderDecides(a)
  <2>1. Membership'
    BY <1>6 DEF ProviderDecides, IInv, TypeOK, Membership
  <2>2. ReservationsAgree'
    BY <1>6 DEF ProviderDecides, IInv, TypeOK, ReservationsAgree, Open, Holding, Unresolved,
              Released
  <2>3. CompletionPair'
    BY <1>6 DEF ProviderDecides, IInv, TypeOK, CompletionPair
  <2>4. MoneyAgrees'
    BY <1>6 DEF ProviderDecides, IInv, TypeOK, MoneyAgrees, Paid, Released
  <2>5. SubmittedOnce'
    BY <1>6 DEF ProviderDecides, IInv, TypeOK, SubmittedOnce
  <2>6. ReceiptForRealMoney'
    BY <1>6 DEF ProviderDecides, IInv, TypeOK, ReceiptForRealMoney
  <2>7. RecoveryIsAlone'
    BY <1>6 DEF ProviderDecides, IInv, TypeOK, RecoveryIsAlone, Holding, Unresolved,
              Released
  <2>8. Threads'
    BY <1>6 DEF ProviderDecides, IInv, TypeOK, Threads, Relies, Paid, Released
  <2>9. OneSender'
    BY <1>6 DEF ProviderDecides, IInv, TypeOK, OneSender
  <2> QED BY <1>1, <2>1, <2>2, <2>3, <2>4, <2>5, <2>6, <2>7, <2>8, <2>9 DEF IInv
<1>7. CASE LeaseExpires(a)
  <2>1. Facts'
    BY <1>7, Kept DEF LeaseExpires, recorded, IInv
  <2>2. Threads'
    BY <1>7 DEF LeaseExpires, IInv, TypeOK, Threads, Relies, Paid, Released
  <2>3. OneSender'
    BY <1>7 DEF LeaseExpires, IInv, TypeOK, OneSender
  <2> QED BY <1>1, <2>1, <2>2, <2>3 DEF IInv, Facts
<1> QED BY <1>2, <1>3, <1>4, <1>5, <1>6, <1>7 DEF Operator, World

\* No row, no debt, no thread: everything holds of the empty tables.
LEMMA InitStep == Init => IInv
<1> SUFFICES ASSUME Init PROVE IInv
  OBVIOUS
<1>1. TypeOK
  BY InitTyped
<1>2. Membership /\ ReservationsAgree /\ CompletionPair
  BY DEF Init, Membership, ReservationsAgree, CompletionPair, Holding, Unresolved, Open
<1>3. MoneyAgrees /\ SubmittedOnce /\ ReceiptForRealMoney
  BY DEF Init, MoneyAgrees, SubmittedOnce, ReceiptForRealMoney, Released, Paid
<1>4. Threads /\ OneSender /\ RecoveryIsAlone
  BY DEF Init, Threads, OneSender, RecoveryIsAlone
<1> QED BY <1>1, <1>2, <1>3, <1>4 DEF IInv

\* A lookup reads CardCom and the row and writes neither.
LEMMA LookupStep ==
  ASSUME IInv, NEW w \in Workers, Lookup(w)
  PROVE  IInv'
<1>1. TypeOK'
  BY NextTyped DEF IInv, Next, Continue
<1>2. Facts'
  BY Kept DEF Lookup, recorded
<1>3. Threads'
  BY DEF Lookup, LookupResult, IInv, TypeOK, Threads, Relies, Paid, Released, MoneyAgrees
<1>4. OneSender'
  BY DEF Lookup, IInv, TypeOK, OneSender
<1> QED BY <1>1, <1>2, <1>3, <1>4 DEF IInv, Facts

\* A crash forgets what the thread knew, and only that.
LEMMA CrashStep ==
  ASSUME IInv, NEW w \in Workers, Crash(w)
  PROVE  IInv'
<1>1. TypeOK'
  BY NextTyped DEF IInv, Next
<1>2. Facts'
  BY Kept DEF Crash, recorded
<1>3. Threads'
  BY DEF Crash, IInv, TypeOK, Threads, Relies, Paid, Released
<1>4. OneSender'
  BY DEF Crash, IInv, TypeOK, OneSender
<1> QED BY <1>1, <1>2, <1>3, <1>4 DEF IInv, Facts

\* A cancellation meets no debt that is being collected.
LEMMA CancelStep ==
  ASSUME IInv, CancelSubscription
  PROVE  IInv'
<1> USE DEF CancelSubscription
<1>1. TypeOK'
  BY NextTyped DEF IInv, Next
<1>2. Membership' /\ ReservationsAgree' /\ CompletionPair'
  BY DEF IInv, Membership, ReservationsAgree, CompletionPair, Open
<1>3. MoneyAgrees' /\ SubmittedOnce' /\ ReceiptForRealMoney'
  BY DEF IInv, MoneyAgrees, SubmittedOnce, ReceiptForRealMoney, Paid
<1>4. Threads' /\ OneSender'
  BY DEF IInv, Threads, Relies, OneSender, Paid
<1>5. RecoveryIsAlone'
  BY DEF IInv, RecoveryIsAlone
<1> QED BY <1>1, <1>2, <1>3, <1>4, <1>5 DEF IInv

\* The invariant is inductive, whatever the operator's evidence covers.
LEMMA NextStep == IInv /\ [Next]_vars => IInv'
<1> SUFFICES ASSUME IInv, [Next]_vars PROVE IInv'
  OBVIOUS
<1>1. ASSUME NEW w \in Workers, Begin(w) PROVE IInv'
  BY <1>1, BeginStep
<1>2. ASSUME NEW w \in Workers, Continue(w) PROVE IInv'
  BY <1>2, SubmitStep, ApplyStep, LookupStep, HostStep, HookStep, CompleteStep DEF Continue
<1>3. ASSUME NEW w \in Workers, Crash(w) PROVE IInv'
  BY <1>3, CrashStep
<1>4. ASSUME NEW a \in Attempts, ExpireProcessing(a) \/ Operator(a) \/ World(a) PROVE IInv'
  BY <1>4, WorldStep
<1>5. CASE CancelSubscription
  BY <1>5, CancelStep
<1>6. CASE UNCHANGED vars
  <2>1. TypeOK'
    BY <1>6, NextTyped DEF IInv
  <2>2. Facts'
    BY <1>6, Kept DEF recorded
  <2>3. Threads' /\ OneSender'
    BY <1>6 DEF IInv, Threads, Relies, OneSender, Paid
  <2> QED BY <2>1, <2>2, <2>3 DEF IInv, Facts
<1> QED BY <1>1, <1>2, <1>3, <1>4, <1>5, <1>6 DEF Next

\* Rows, reservations, money, receipts and threads stay consistent in every
\* reachable state, even if an operator confirms "no charge" while a thread is
\* between its claim and its request.
THEOREM Inductive == Spec => []IInv
BY NextStep, InitStep, PTL DEF Spec

-----------------------------------------------------------------------------
(* What follows from it. *)

\* An attempt that was paid still holds its debts, or has settled them, unless an
\* operator canceled it too early.
LEMMA PaidKeepsDebts ==
  ASSUME IInv, NEW a \in Attempts, Paid(a)
  PROVE  status[a] \in Holding \cup {"COMPLETED"} \/ MaybeSent(a)
BY DEF IInv, TypeOK, MoneyAgrees, Paid, Statuses, Blocking, Holding, Unresolved, Released

\* A debt has one owner: the attempt that holds it, or the one that settled it.
LEMMA OneOwner ==
  ASSUME IInv,
         NEW a \in Attempts, status[a] \in Holding \cup {"COMPLETED"},
         NEW b \in Attempts, status[b] \in Holding \cup {"COMPLETED"},
         debtsOf[a] \cap debtsOf[b] # {}
  PROVE  a = b
<1>1. PICK d \in Debts : d \in debtsOf[a] /\ d \in debtsOf[b]
  BY DEF IInv, TypeOK
<1>2. ASSUME NEW e \in {a, b} PROVE
        IF status[e] = "COMPLETED" THEN settledBy[d] = e ELSE active[d] = e /\ Open(d)
  BY <1>1, <1>2 DEF IInv, ReservationsAgree, CompletionPair, Holding, Unresolved
<1> QED BY <1>2 DEF Open

\* The rows agree with one another in the states IInv describes ...
LEMMA Safe ==
  ASSUME IInv
  PROVE  ReservationsAgree /\ CompletionPair /\ SubmittedOnce /\ ReceiptForRealMoney
BY DEF IInv

\* ... and with CardCom, if the operator's evidence covers the threads that hold a
\* claim and have yet to send.
LEMMA SafeMoney ==
  ASSUME IInv, OperatorSeesSenders
  PROVE  PaidAtMostOnce /\ PaidIsNeverReleased /\ PayablePageIsAlone
<1>1. PaidAtMostOnce
  BY PaidKeepsDebts, OneOwner DEF PaidAtMostOnce, Paid
<1>2. PaidIsNeverReleased
  BY DEF PaidIsNeverReleased, IInv, MoneyAgrees
<1>3. PayablePageIsAlone
  <2> SUFFICES ASSUME NEW a \in Attempts, NEW b \in Attempts,
                      mode[a] = "HOSTED", money[a] = "pending", a # b,
                      debtsOf[a] \cap debtsOf[b] # {}
               PROVE  /\ money[b] \notin {"pending", "paid"}
                      /\ \A w \in Workers : ~(pc[w] = "claimed" /\ job[w] = b)
    BY DEF PayablePageIsAlone
  <2> DEFINE Owns(e) == status[e] \in Holding \cup {"COMPLETED"}
  <2> USE DEF IInv, TypeOK, Statuses, Blocking, Holding, Unresolved, Released
  <2>1. ASSUME NEW e \in Attempts, money[e] \in {"pending", "paid"} PROVE Owns(e)
    BY <2>1 DEF MoneyAgrees
  <2>2. ASSUME NEW w \in Workers, pc[w] = "claimed", job[w] = b PROVE Owns(b)
    BY <2>2 DEF Threads, Relies
  <2> HIDE DEF IInv, TypeOK, Statuses, Blocking, Holding, Unresolved, Released
  <2>3. ~Owns(b)
    BY <2>1, OneOwner
  <2> QED BY <2>1, <2>2, <2>3
<1> QED BY <1>1, <1>2, <1>3

\* The pointer on the debt and the frozen membership agree with the status.
THEOREM ReservationsMatch == Spec => []ReservationsAgree
<1>1. IInv => ReservationsAgree
  BY Safe
<1> QED BY <1>1, Inductive, PTL

\* An attempt is completed exactly when every debt it collected is settled by it.
THEOREM BooksAgree == Spec => []CompletionPair
<1>1. IInv => CompletionPair
  BY Safe
<1> QED BY <1>1, Inductive, PTL

\* The saved card is asked once for one attempt, however many threads submit it.
THEOREM OneSubmission == Spec => []SubmittedOnce
<1>1. IInv => SubmittedOnce
  BY Safe
<1> QED BY <1>1, Inductive, PTL

\* A receipt is issued for money that CardCom has taken, and for nothing else.
THEOREM ReceiptsAreReal == Spec => []ReceiptForRealMoney
<1>1. IInv => ReceiptForRealMoney
  BY Safe
<1> QED BY <1>1, Inductive, PTL

\* No thread, crash, late answer or sweep takes the money of a debt twice: where it
\* happened, an operator had canceled one of the two, a renewal, by hand.
THEOREM DoubleChargeNeedsOperator ==
  Spec => [](\A a, b \in Attempts :
               Paid(a) /\ Paid(b) /\ a # b /\ debtsOf[a] \cap debtsOf[b] # {} =>
                 \E c \in {a, b} : status[c] = "CANCELED" /\ mode[c] = "TOKEN")
<1> DEFINE Doubles ==
      \A a, b \in Attempts :
        Paid(a) /\ Paid(b) /\ a # b /\ debtsOf[a] \cap debtsOf[b] # {} =>
          \E c \in {a, b} : status[c] = "CANCELED" /\ mode[c] = "TOKEN"
<1>1. IInv => Doubles
  BY PaidKeepsDebts, OneOwner
<1> HIDE DEF Doubles
<1>2. Spec => []Doubles
  BY <1>1, Inductive, PTL
<1> QED BY <1>2 DEF Doubles

\* No debt is taken from the customer twice, if an operator confirms "no charge" only
\* when no thread is between its claim and its request.
THEOREM ChargedOnce == OperatorSeesSenders => (Spec => []PaidAtMostOnce)
<1> SUFFICES ASSUME OperatorSeesSenders PROVE Spec => []PaidAtMostOnce
  OBVIOUS
<1>1. IInv => PaidAtMostOnce
  BY SafeMoney
<1> QED BY <1>1, Inductive, PTL

\* No payment is written off: an attempt CardCom has charged is never released.
THEOREM PaymentsAreKept == OperatorSeesSenders => (Spec => []PaidIsNeverReleased)
<1> SUFFICES ASSUME OperatorSeesSenders PROVE Spec => []PaidIsNeverReleased
  OBVIOUS
<1>1. IInv => PaidIsNeverReleased
  BY SafeMoney
<1> QED BY <1>1, Inductive, PTL

\* A customer who can still pay a page is the only one who can pay its debts.
THEOREM PagesAlone == OperatorSeesSenders => (Spec => []PayablePageIsAlone)
<1> SUFFICES ASSUME OperatorSeesSenders PROVE Spec => []PayablePageIsAlone
  OBVIOUS
<1>1. IInv => PayablePageIsAlone
  BY SafeMoney
<1> QED BY <1>1, Inductive, PTL
=============================================================================
