------------------------- MODULE BillingLedger_proofs -------------------------
(***************************************************************************)
(* The billing tables implement the debt ledger: every step of Spec is     *)
(* reserving, charging, releasing or settling debts, or changes nothing    *)
(* the ledger can see.                                                     *)
(***************************************************************************)
EXTENDS BillingAttempts_proofs

USE NoAttemptAssumption
USE DEF Debts, row, debts, cardcom, threads, vars
USE DEF SetStatus, FreeDebts

\* The ledger sees only who holds or settled a debt, and who was paid.
visible == <<active, settledBy, {a \in Attempts : Paid(a)}>>

LEMMA Invisible == ASSUME UNCHANGED visible PROVE UNCHANGED Ledger!ledger
BY DEF visible, Ledger!ledger, Holder, Open

\* An unfinished attempt holds exactly its frozen debts, a finished one none.
LEMMA HoldsItsDebts ==
  ASSUME IInv, NEW a \in Attempts
  PROVE  /\ status[a] \in Holding \cup {"COMPLETED"} => Ledger!Holds(a) = debtsOf[a]
         /\ status[a] \in {"ABSENT"} \cup Released => Ledger!Holds(a) = {}
BY DEF IInv, TypeOK, ReservationsAgree, CompletionPair, Holding, Unresolved, Released,
       Ledger!Holds, Holder, Open

\* A debt that is open and not reserved is held by nobody.
LEMMA FreeDebt ==
  ASSUME NEW d \in Debts, Open(d), active[d] = NoAttempt
  PROVE  Holder[d] = NoAttempt
BY DEF Holder

\* ~Pending and open means not reserved at all.
LEMMA NotPending ==
  ASSUME IInv, NEW d \in Debts, ~Pending(d) PROVE active[d] = NoAttempt
BY DEF IInv, TypeOK, ReservationsAgree, Pending, Blocking

\* A new attempt is a reservation of its debts.
LEMMA CreateReserves ==
  ASSUME IInv, NEW w \in Workers, NEW a \in Attempts, NEW S \in SUBSET Debts,
         NEW m, NEW s, CreateAttempt(w, a, S, m, s),
         S # {}, \A d \in S : Open(d) /\ active[d] = NoAttempt
  PROVE  Ledger!Reserve(a)
<1>1. Ledger!Holds(a) = {}
  BY HoldsItsDebts DEF CreateAttempt
<1>2. ~Paid(a)
  BY DEF CreateAttempt, IInv, MoneyAgrees, Paid
<1>3. \A d \in S : Holder[d] = NoAttempt
  BY FreeDebt
<1>4. Holder' = [d \in Debts |-> IF d \in S THEN a ELSE Holder[d]]
  BY DEF CreateAttempt, Holder, Open
<1>5. UNCHANGED <<{b \in Attempts : Paid(b)}, {d \in Debts : ~Open(d)}>>
  BY DEF CreateAttempt, Paid, Open
<1>6. S \in SUBSET Ledger!Holds(NoAttempt)
  BY <1>3 DEF Ledger!Holds
<1> QED BY <1>1, <1>2, <1>4, <1>5, <1>6 DEF Ledger!Reserve, Paid, Open

\* Letting go of all the debts of an unfinished, unpaid attempt is a release.
LEMMA FreeReleases ==
  ASSUME IInv, NEW a \in Attempts, status[a] \in Unresolved, ~Paid(a),
         \A d \in Debts : active'[d] = IF d \in debtsOf[a] THEN NoAttempt ELSE active[d],
         UNCHANGED settledBy, UNCHANGED {b \in Attempts : Paid(b)}
  PROVE  Ledger!Release(a)
<1>1. Ledger!Holds(a) = debtsOf[a] /\ debtsOf[a] # {}
  BY HoldsItsDebts DEF Holding, Unresolved, IInv, Membership
<1>2. \A d \in debtsOf[a] : Open(d)
  BY DEF IInv, ReservationsAgree, Holding
<1>3. Holder' = [d \in Debts |-> IF Holder[d] = a THEN NoAttempt ELSE Holder[d]]
  <2>1. \A d \in Debts : Holder[d] = a <=> d \in debtsOf[a]
    BY <1>1 DEF Ledger!Holds
  <2> QED BY <1>2, <2>1 DEF Holder, Open
<1> QED BY <1>1, <1>3 DEF Ledger!Release, Open, Paid

\* Step by step.
LEMMA BeginImplements ==
  ASSUME IInv, NEW w \in Workers, Begin(w)
  PROVE  [Ledger!Next]_Ledger!ledger
<1>1. ASSUME NEW a \in Attempts, NEW d \in Periods, OpenRenewal(w, d, a)
      PROVE  Ledger!Reserve(a)
  BY <1>1, NotPending, CreateReserves DEF OpenRenewal
<1>2. ASSUME NEW a \in Attempts, NEW S \in SUBSET Periods, OpenRecovery(w, S, a)
      PROVE  Ledger!Reserve(a)
  BY <1>2, CreateReserves DEF OpenRecovery, Settleable
<1>3. ASSUME NEW a \in Attempts, NEW d \in Checkouts, OpenCheckout(w, d, a)
      PROVE  Ledger!Reserve(a)
  BY <1>3, NotPending, CreateReserves DEF OpenCheckout
<1>4. ASSUME NEW d \in Periods, ReopenRenewal(w, d) PROVE UNCHANGED visible
  BY <1>4 DEF ReopenRenewal, visible, Paid
<1>5. ASSUME NEW a \in Attempts,
             WebhookArrives(w, a) \/ ClaimReconciliation(w, a) \/ PickUpCaptured(w, a)
      PROVE  UNCHANGED visible
  BY <1>5 DEF WebhookArrives, ClaimReconciliation, PickUpCaptured, visible, Paid
<1>6. \A a \in Attempts : Ledger!Reserve(a) => Ledger!Next
  BY DEF Ledger!Next
<1> QED BY <1>1, <1>2, <1>3, <1>4, <1>5, <1>6, Invisible DEF Begin

LEMMA SubmitImplements ==
  ASSUME IInv, NEW w \in Workers, Submit(w)
  PROVE  [Ledger!Next]_Ledger!ledger
<1>1. CASE ClaimSubmission(w) \/ SubmissionRefused(w) \/ ReceiveAnswer(w)
           \/ LocalFailureOfSystem(w)
  BY <1>1, Invisible DEF ClaimSubmission, SubmissionRefused, ReceiveAnswer,
     LocalFailureOfSystem, visible, Paid
<1>2. CASE SendCharge(w)
  <2>1. UNCHANGED visible
    BY <1>2 DEF SendCharge, visible, Paid, IInv, TypeOK
  <2> QED BY <2>1, Invisible
<1>3. CASE LocalFailureOfCustomer(w)
  <2>1. job[w] \in Attempts /\ status[job[w]] = "PROCESSING" /\ ~Paid(job[w])
    BY <1>3 DEF LocalFailureOfCustomer, IInv, TypeOK, Threads, Relies, Paid
  <2>2. \A d, e \in debtsOf[job[w]] : d = e
    BY <1>3 DEF LocalFailureOfCustomer, IInv, TypeOK, Threads, Relies, Membership
  <2>3. \A d \in Debts : active'[d] = IF d \in debtsOf[job[w]] THEN NoAttempt ELSE active[d]
    BY <1>3, <2>1, <2>2 DEF LocalFailureOfCustomer, IInv, TypeOK
  <2>4. Ledger!Release(job[w])
    BY <1>3, <2>1, <2>3, FreeReleases DEF LocalFailureOfCustomer, Unresolved, Paid
  <2> QED BY <2>1, <2>4 DEF Ledger!Next
<1> QED BY <1>1, <1>2, <1>3 DEF Submit

LEMMA ApplyImplements ==
  ASSUME IInv, NEW w \in Workers, Apply(w)
  PROVE  [Ledger!Next]_Ledger!ledger
<1>1. CASE ApplyCaptured(w) \/ ApplyUnknown(w) \/ RejectStale(w)
  BY <1>1, Invisible DEF ApplyCaptured, ApplyUnknown, RejectStale, visible, Paid
<1>2. CASE ApplyDeclined(w)
  <2>1. job[w] \in Attempts /\ status[job[w]] \in Unresolved /\ ~Paid(job[w])
    BY <1>2 DEF ApplyDeclined, CanApply, Unresolved, IInv, TypeOK, Threads, Relies, Paid
  <2>2. Ledger!Release(job[w])
    BY <1>2, <2>1, FreeReleases DEF ApplyDeclined, Paid
  <2> QED BY <2>1, <2>2 DEF Ledger!Next
<1> QED BY <1>1, <1>2 DEF Apply

LEMMA HostImplements ==
  ASSUME IInv, NEW w \in Workers, Host(w)
  PROVE  [Ledger!Next]_Ledger!ledger
<1>1. CASE PageCreated(w) \/ CreationUncertain(w) \/ HandOver(w)
  <2>1. UNCHANGED visible
    BY <1>1 DEF PageCreated, CreationUncertain, HandOver, visible, Paid, IInv, TypeOK,
       Threads, Relies
  <2> QED BY <2>1, Invisible
<1>2. CASE RecordPage(w) \/ SkipRecording(w)
  BY <1>2, Invisible DEF RecordPage, SkipRecording, visible, Paid
<1>3. CASE CreationRejected(w)
  <2>1. job[w] \in Attempts /\ status[job[w]] \in Unresolved /\ ~Paid(job[w])
    BY <1>3 DEF CreationRejected, Unresolved, IInv, TypeOK, Threads, Relies, Paid
  <2>2. Ledger!Release(job[w])
    BY <1>3, <2>1, FreeReleases DEF CreationRejected, Paid
  <2> QED BY <2>1, <2>2 DEF Ledger!Next
<1> QED BY <1>1, <1>2, <1>3 DEF Host

LEMMA CompleteImplements ==
  ASSUME IInv, NEW w \in Workers, Complete(w)
  PROVE  [Ledger!Next]_Ledger!ledger
<1>1. CASE ClaimFinalization(w) \/ FinalizationRefused(w) \/ Activate(w) \/ IssueReceipt(w)
           \/ FinalizeAgain(w) \/ FailCompletion(w)
  BY <1>1, Invisible DEF ClaimFinalization, FinalizationRefused, Activate, IssueReceipt,
     FinalizeAgain, FailCompletion, visible, Paid
<1>2. CASE Finalize(w)
  <2> DEFINE a == job[w]
  <2>1. a \in Attempts /\ status[a] = "CAPTURED" /\ Paid(a)
    BY <1>2 DEF Finalize, IInv, TypeOK, MoneyAgrees
  <2>2. Ledger!Holds(a) = debtsOf[a]
    BY <2>1, HoldsItsDebts DEF Holding
  <2>3. Holder' = Holder
    BY <1>2, <2>1 DEF Finalize, Holder, Open, IInv, TypeOK
  <2>4. {d \in Debts : ~Open(d)}' = {d \in Debts : ~Open(d)} \cup debtsOf[a]
    BY <1>2, <2>1 DEF Finalize, Open, IInv, TypeOK
  <2>5. debtsOf[a] \cap {d \in Debts : ~Open(d)} = {}
    BY <1>2 DEF Finalize
  <2>6. UNCHANGED {b \in Attempts : Paid(b)}
    BY <1>2 DEF Finalize, Paid
  <2>7. Ledger!Settle(a)
    BY <2>1, <2>2, <2>3, <2>4, <2>5, <2>6 DEF Ledger!Settle
  <2> QED BY <2>1, <2>7 DEF Ledger!Next
<1> QED BY <1>1, <1>2 DEF Complete

\* Money is taken for an attempt that holds its debts: the one step that depends on
\* what the operator looked at before releasing a renewal.
LEMMA WorldImplements ==
  ASSUME OperatorSeesSenders, IInv, NEW a \in Attempts, ExpireProcessing(a) \/ Operator(a) \/ World(a)
  PROVE  [Ledger!Next]_Ledger!ledger
<1>1. CASE ExpireProcessing(a) \/ AdminCompleteCaptured(a) \/ AdminCheckProvider(a)
           \/ LeaseExpires(a)
  BY <1>1, Invisible DEF ExpireProcessing, AdminCompleteCaptured, AdminCheckProvider,
     LeaseExpires, visible, Paid
<1>2. CASE AdminConfirmNoCharge(a)
  <2>1. status[a] \in Unresolved /\ ~Paid(a)
    BY <1>2 DEF AdminConfirmNoCharge, NoChargeEvidence, Monies, Paid
  <2>2. UNCHANGED {b \in Attempts : Paid(b)}
    BY <1>2, <2>1 DEF AdminConfirmNoCharge, Paid, IInv, TypeOK
  <2>3. Ledger!Release(a)
    BY <1>2, <2>1, <2>2, FreeReleases DEF AdminConfirmNoCharge
  <2> QED BY <2>3 DEF Ledger!Next
<1>3. CASE ProviderDecides(a)
  <2>1. PICK m \in {"paid", "refused", "closed"} : money' = [money EXCEPT ![a] = m]
    BY <1>3 DEF ProviderDecides
  <2>2. UNCHANGED <<Holder, {d \in Debts : ~Open(d)}>>
    BY <1>3 DEF ProviderDecides, Holder, Open
  <2>3. CASE m = "paid"
    <3>1. {b \in Attempts : Paid(b)}' = {b \in Attempts : Paid(b)} \cup {a}
      BY <2>1, <2>3 DEF Paid, IInv, TypeOK
    <3>2. ~Paid(a)
      BY <1>3 DEF ProviderDecides, Paid
    <3>3. status[a] \in Holding
      BY <1>3 DEF ProviderDecides, IInv, TypeOK, MoneyAgrees, MaybeSent, Paid, Statuses, Blocking,
         Holding, Unresolved, Released
    <3>4. Ledger!Holds(a) # {}
      BY <3>3, HoldsItsDebts DEF IInv, Membership, Holding, Unresolved
    <3>5. Ledger!Charge(a)
      BY <2>2, <3>1, <3>2, <3>4 DEF Ledger!Charge
    <3> QED BY <3>5 DEF Ledger!Next
  <2>4. CASE m # "paid"
    <3>1. UNCHANGED {b \in Attempts : Paid(b)}
      BY <1>3, <2>1, <2>4 DEF ProviderDecides, Paid, IInv, TypeOK
    <3> QED BY <2>2, <3>1 DEF Ledger!ledger
  <2> QED BY <2>3, <2>4
<1> QED BY <1>1, <1>2, <1>3 DEF Operator, World

LEMMA NextImplements ==
  OperatorSeesSenders /\ IInv /\ [Next]_vars => [Ledger!Next]_Ledger!ledger
<1> SUFFICES ASSUME OperatorSeesSenders, IInv, [Next]_vars PROVE [Ledger!Next]_Ledger!ledger
  OBVIOUS
<1>1. ASSUME NEW w \in Workers, Continue(w) PROVE [Ledger!Next]_Ledger!ledger
  <2>1. CASE Lookup(w)
    BY <2>1, Invisible DEF Lookup, visible, Paid
  <2>2. CASE Hook(w)
    BY <2>2, Invisible DEF Hook, ClaimHostedOutcome, HostedClaimRefused, WebhookActivates,
       visible, Paid
  <2> QED BY <1>1, <2>1, <2>2, SubmitImplements, ApplyImplements, HostImplements,
          CompleteImplements DEF Continue
<1>2. ASSUME NEW w \in Workers, Crash(w) PROVE UNCHANGED visible
  BY <1>2 DEF Crash, visible, Paid
<1>3. CASE CancelSubscription
  BY <1>3, Invisible DEF CancelSubscription, visible, Paid
<1>4. CASE UNCHANGED vars
  BY <1>4, Invisible DEF visible, Paid
<1> QED BY <1>1, <1>2, <1>3, <1>4, Invisible, BeginImplements, WorldImplements DEF Next

\* Whatever interleaving of renewals, checkouts, webhooks, sweeps, completions,
\* crashes and operators the tables go through, a debt is collected by one attempt
\* at a time, a charged attempt keeps its debts, and settled is forever.
THEOREM ImplementsLedger == OperatorSeesSenders => (Spec => LedgerSpec)
<1> SUFFICES ASSUME OperatorSeesSenders PROVE Spec => LedgerSpec
  OBVIOUS
<1>1. Init => Ledger!Init
  BY DEF Init, Ledger!Init, Holder, Open, Paid
<1>2. Spec => []IInv
  BY Inductive
<1> QED BY <1>1, <1>2, NextImplements, PTL DEF Spec, LedgerSpec, Ledger!Spec

\* What the ledger promises, the tables keep: every charge stands for debts that the
\* attempt still collects or has settled, and nothing is settled that was not charged.
THEOREM LedgerIsSound == OperatorSeesSenders => (Spec => []Ledger!LedgerSound)
<1>1. Ledger!Init => Ledger!LedgerSound
  BY DEF Ledger!Init, Ledger!LedgerSound
<1>2. Ledger!LedgerSound /\ [Ledger!Next]_Ledger!ledger => Ledger!LedgerSound'
  <2> SUFFICES ASSUME Ledger!LedgerSound, [Ledger!Next]_Ledger!ledger
               PROVE  Ledger!LedgerSound'
    OBVIOUS
  <2> USE DEF Ledger!LedgerSound, Ledger!Holds
  <2>1. ASSUME NEW a \in Attempts, Ledger!Reserve(a)
        PROVE  Ledger!LedgerSound'
    BY <2>1 DEF Ledger!Reserve
  <2>2. ASSUME NEW a \in Attempts, Ledger!Charge(a) PROVE Ledger!LedgerSound'
    BY <2>2 DEF Ledger!Charge
  <2>3. ASSUME NEW a \in Attempts, Ledger!Release(a) PROVE Ledger!LedgerSound'
    BY <2>3 DEF Ledger!Release
  <2>4. ASSUME NEW a \in Attempts, Ledger!Settle(a) PROVE Ledger!LedgerSound'
    BY <2>4 DEF Ledger!Settle
  <2>5. CASE UNCHANGED Ledger!ledger
    BY <2>5 DEF Ledger!ledger
  <2> QED BY <2>1, <2>2, <2>3, <2>4, <2>5 DEF Ledger!Next
<1>3. OperatorSeesSenders => (Spec => LedgerSpec)
  BY ImplementsLedger
<1> QED BY <1>1, <1>2, <1>3, PTL DEF LedgerSpec, Ledger!Spec
=============================================================================
