----------------------------- MODULE Refunds_proofs -----------------------------
(***************************************************************************)
(* For every payment and any number of refunds and workers: never more     *)
(* than the payment goes back, its parts before VAT add up exactly, credit *)
(* documents stand for money that went back, decisions are final, and the  *)
(* rows implement the account of the payment (RefundAccount).              *)
(***************************************************************************)
EXTENDS Refunds, FiniteSetTheorems, TLAPS

USE NobodyAssumption DEF vars, lease, documents

-----------------------------------------------------------------------------
(* The inductive invariant. *)

\* Money that went back is on a row that still reserves it, and only such money is
\* booked; the credit document comes before everything that depends on it.
RowsFit ==
  /\ \A r \in returned : status[r] \notin {"ABSENT", "DECLINED"}
  /\ \A r \in Refunds : status[r] \in {"CAPTURED", "COMPLETED"} => r \in booked
  /\ \A r \in booked \cup credit : r \in returned /\ status[r] \in {"CAPTURED", "COMPLETED"}
  /\ \A r \in Refunds : status[r] = "COMPLETED" =>
       r \in credit /\ r \in linked /\ r \in signed /\ r \in mailed

\* What a worker relies on without looking again.
JobsFit == \A w \in Workers :
  LET r == job[w].refund IN
  /\ job[w].step # "idle" => r \in Refunds /\ status[r] # "ABSENT"
  /\ job[w].step = "send" => status[r] # "DECLINED"
  /\ job[w].verdict = "captured" => r \in returned
  /\ job[w].step \in Completing => status[r] \in {"CAPTURED", "COMPLETED"}
  /\ job[w].step \in {"link", "sign", "check", "mail", "finalize"} => r \in credit
  /\ job[w].step \in {"sign", "check", "mail", "finalize"} => r \in linked
  /\ job[w].step \in {"check", "mail", "finalize"} => r \in signed
  /\ job[w].step = "finalize" => r \in mailed

IInv == TypeOK /\ RowsFit /\ JobsFit

-----------------------------------------------------------------------------
(* The steps. *)

LEMMA InitIInv == Init => IInv
<1> SUFFICES ASSUME Init PROVE IInv OBVIOUS
<1> USE PaymentAssumption DEF Init, Idle
<1>1. TypeOK BY DEF TypeOK, Jobs, Steps, Statuses
<1>2. RowsFit BY DEF RowsFit
<1>3. JobsFit BY DEF JobsFit, Completing
<1> QED BY <1>1, <1>2, <1>3 DEF IInv

\* The operator and the passing of time.
LEMMA RowKeeps ==
  ASSUME IInv, NEW r \in Refunds,
         ConfirmNotRefunded(r) \/ ExpireProcessing(r) \/ LeaseExpires(r)
  PROVE  IInv'
<1> USE DEF IInv, TypeOK, Jobs, Steps, Statuses, Completing, Idle, Goto, Leave, Free, Take
<1>1. CASE ConfirmNotRefunded(r)
  <2>1. TypeOK' BY <1>1 DEF ConfirmNotRefunded, JobsFit
  <2>2. RowsFit' BY <1>1 DEF ConfirmNotRefunded, RowsFit, JobsFit
  <2>3. JobsFit' BY <1>1 DEF ConfirmNotRefunded, RowsFit, JobsFit
  <2> QED BY <2>1, <2>2, <2>3
<1>2. CASE ExpireProcessing(r)
  <2>1. TypeOK' BY <1>2 DEF ExpireProcessing, JobsFit
  <2>2. RowsFit' BY <1>2 DEF ExpireProcessing, RowsFit, JobsFit
  <2>3. JobsFit' BY <1>2 DEF ExpireProcessing, RowsFit, JobsFit
  <2> QED BY <2>1, <2>2, <2>3
<1>3. CASE LeaseExpires(r)
  <2>1. TypeOK' BY <1>3 DEF LeaseExpires, JobsFit
  <2>2. RowsFit' BY <1>3 DEF LeaseExpires, RowsFit, JobsFit
  <2>3. JobsFit' BY <1>3 DEF LeaseExpires, RowsFit, JobsFit
  <2> QED BY <2>1, <2>2, <2>3
<1> QED BY <1>1, <1>2, <1>3

\* A worker takes up a refund.
LEMMA BeginKeeps ==
  ASSUME IInv, NEW w \in Workers, NEW r \in Refunds,
         Reserve(w, r) \/ ConfirmRefunded(w, r) \/ Recover(w, r)
  PROVE  IInv'
<1> USE DEF IInv, TypeOK, Jobs, Steps, Statuses, Completing, Idle, Goto, Leave, Free, Take
<1>1. CASE Reserve(w, r)
  <2>1. TypeOK'
    <3>1. PICK a \in 1 .. Gross : \E n \in Breakdown(GrossOf(Reserved), NetOf(Reserved), a) :
            amount' = [amount EXCEPT ![r] = a] /\ net' = [net EXCEPT ![r] = n]
      BY <1>1 DEF Reserve
    <3>2. PICK n \in 0 .. a : net' = [net EXCEPT ![r] = n]
      BY <3>1 DEF Breakdown
    <3>3. a \in 0 .. Gross /\ n \in 0 .. Gross BY PaymentAssumption, <3>1, <3>2
    <3>4. amount' \in [Refunds -> 0 .. Gross] /\ net' \in [Refunds -> 0 .. Gross]
      BY <3>1, <3>2, <3>3
    <3>5. QED BY <1>1, <3>4 DEF Reserve, JobsFit
  <2>2. RowsFit' BY <1>1 DEF Reserve, Breakdown, RowsFit, JobsFit
  <2>3. JobsFit' BY <1>1 DEF Reserve, Breakdown, RowsFit, JobsFit
  <2> QED BY <2>1, <2>2, <2>3
<1>2. CASE ConfirmRefunded(w, r)
  <2>1. TypeOK' BY <1>2 DEF ConfirmRefunded, JobsFit
  <2>2. RowsFit' BY <1>2 DEF ConfirmRefunded, RowsFit, JobsFit
  <2>3. JobsFit' BY <1>2 DEF ConfirmRefunded, RowsFit, JobsFit
  <2> QED BY <2>1, <2>2, <2>3
<1>3. CASE Recover(w, r)
  <2>1. TypeOK' BY <1>3 DEF Recover, JobsFit
  <2>2. RowsFit' BY <1>3 DEF Recover, RowsFit, JobsFit
  <2>3. JobsFit' BY <1>3 DEF Recover, RowsFit, JobsFit
  <2> QED BY <2>1, <2>2, <2>3
<1> QED BY <1>1, <1>2, <1>3

\* A worker goes on, or dies.
LEMMA ContinueKeeps ==
  ASSUME IInv, NEW w \in Workers, Continue(w) \/ Crash(w)
  PROVE  IInv'
<1> USE DEF IInv, TypeOK, Jobs, Steps, Statuses, Completing, Idle, Goto, Leave, Free, Take
<1>1. CASE SendRefund(w)
  <2>1. TypeOK' BY <1>1 DEF SendRefund, JobsFit
  <2>2. RowsFit' BY <1>1 DEF SendRefund, RowsFit, JobsFit
  <2>3. JobsFit' BY <1>1 DEF SendRefund, RowsFit, JobsFit
  <2> QED BY <2>1, <2>2, <2>3
<1>2. CASE RecordVerdict(w)
  <2>1. TypeOK' BY <1>2 DEF RecordVerdict, AnswerCounts, JobsFit
  <2>2. RowsFit' BY <1>2 DEF RecordVerdict, AnswerCounts, RowsFit, JobsFit
  <2>3. JobsFit' BY <1>2 DEF RecordVerdict, AnswerCounts, RowsFit, JobsFit
  <2> QED BY <2>1, <2>2, <2>3
<1>3. CASE IgnoreVerdict(w)
  <2>1. TypeOK' BY <1>3 DEF IgnoreVerdict, JobsFit
  <2>2. RowsFit' BY <1>3 DEF IgnoreVerdict, RowsFit, JobsFit
  <2>3. JobsFit' BY <1>3 DEF IgnoreVerdict, RowsFit, JobsFit
  <2> QED BY <2>1, <2>2, <2>3
<1>4. CASE ClaimCompletion(w)
  <2>1. TypeOK' BY <1>4 DEF ClaimCompletion, Claimable, JobsFit
  <2>2. RowsFit' BY <1>4 DEF ClaimCompletion, Claimable, RowsFit, JobsFit
  <2>3. JobsFit' BY <1>4 DEF ClaimCompletion, Claimable, RowsFit, JobsFit
  <2> QED BY <2>1, <2>2, <2>3
<1>5. CASE NothingToComplete(w)
  <2>1. TypeOK' BY <1>5 DEF NothingToComplete, JobsFit
  <2>2. RowsFit' BY <1>5 DEF NothingToComplete, RowsFit, JobsFit
  <2>3. JobsFit' BY <1>5 DEF NothingToComplete, RowsFit, JobsFit
  <2> QED BY <2>1, <2>2, <2>3
<1>6. CASE CreateCredit(w)
  <2>1. TypeOK' BY <1>6 DEF CreateCredit, JobsFit
  <2>2. RowsFit' BY <1>6 DEF CreateCredit, RowsFit, JobsFit
  <2>3. JobsFit' BY <1>6 DEF CreateCredit, RowsFit, JobsFit
  <2> QED BY <2>1, <2>2, <2>3
<1>7. CASE LinkCredit(w)
  <2>1. TypeOK' BY <1>7 DEF LinkCredit, JobsFit
  <2>2. RowsFit' BY <1>7 DEF LinkCredit, RowsFit, JobsFit
  <2>3. JobsFit' BY <1>7 DEF LinkCredit, RowsFit, JobsFit
  <2> QED BY <2>1, <2>2, <2>3
<1>8. CASE FinalizePdfs(w)
  <2>1. TypeOK' BY <1>8 DEF FinalizePdfs, JobsFit
  <2>2. RowsFit' BY <1>8 DEF FinalizePdfs, RowsFit, JobsFit
  <2>3. JobsFit' BY <1>8 DEF FinalizePdfs, RowsFit, JobsFit
  <2> QED BY <2>1, <2>2, <2>3
<1>9. CASE CheckLease(w)
  <2>1. TypeOK' BY <1>9 DEF CheckLease, JobsFit
  <2>2. RowsFit' BY <1>9 DEF CheckLease, RowsFit, JobsFit
  <2>3. JobsFit' BY <1>9 DEF CheckLease, RowsFit, JobsFit
  <2> QED BY <2>1, <2>2, <2>3
<1>10. CASE SendEmail(w)
  <2>1. TypeOK' BY <1>10 DEF SendEmail, JobsFit
  <2>2. RowsFit' BY <1>10 DEF SendEmail, RowsFit, JobsFit
  <2>3. JobsFit' BY <1>10 DEF SendEmail, RowsFit, JobsFit
  <2> QED BY <2>1, <2>2, <2>3
<1>11. CASE Finalize(w)
  <2>1. TypeOK' BY <1>11 DEF Finalize, JobsFit
  <2>2. RowsFit' BY <1>11 DEF Finalize, RowsFit, JobsFit
  <2>3. JobsFit' BY <1>11 DEF Finalize, RowsFit, JobsFit
  <2> QED BY <2>1, <2>2, <2>3
<1>12. CASE CompletionFails(w)
  <2>1. TypeOK' BY <1>12 DEF CompletionFails, JobsFit
  <2>2. RowsFit' BY <1>12 DEF CompletionFails, RowsFit, JobsFit
  <2>3. JobsFit' BY <1>12 DEF CompletionFails, RowsFit, JobsFit
  <2> QED BY <2>1, <2>2, <2>3
<1>13. CASE Crash(w)
  <2>1. TypeOK' BY <1>13 DEF Crash, JobsFit
  <2>2. RowsFit' BY <1>13 DEF Crash, RowsFit, JobsFit
  <2>3. JobsFit' BY <1>13 DEF Crash, RowsFit, JobsFit
  <2> QED BY <2>1, <2>2, <2>3
<1> QED BY <1>1, <1>2, <1>3, <1>4, <1>5, <1>6, <1>7, <1>8, <1>9, <1>10, <1>11, <1>12, <1>13 DEF Continue

LEMMA NextIInv == IInv /\ [Next]_vars => IInv'
<1> SUFFICES ASSUME IInv, [Next]_vars PROVE IInv' OBVIOUS
<1>1. CASE \E r \in Refunds : ConfirmNotRefunded(r) \/ ExpireProcessing(r) \/ LeaseExpires(r)
  BY <1>1, RowKeeps
<1>2. CASE \E w \in Workers : Continue(w) \/ Crash(w)
  BY <1>2, ContinueKeeps
<1>3. CASE \E w \in Workers, r \in Refunds : Reserve(w, r) \/ ConfirmRefunded(w, r) \/ Recover(w, r)
  BY <1>3, BeginKeeps
<1>4. CASE UNCHANGED vars
  BY <1>4 DEF IInv, TypeOK, RowsFit, JobsFit
<1> QED BY <1>1, <1>2, <1>3, <1>4 DEF Next

LEMMA Inductive == Spec => []IInv
BY InitIInv, NextIInv, PTL DEF Spec

-----------------------------------------------------------------------------
(* The theorems. *)

\* The type invariant, for any payment, refunds and workers (BillingRefundService).
THEOREM RefundsTypeInvariant == Spec => []TypeOK
<1>1. IInv => TypeOK BY DEF IInv
<1> QED BY Inductive, <1>1, PTL

\* A credit document or a REFUND_SUCCESS event exists only for money CardCom gave back,
\* and a COMPLETED refund has every document (createBillingSystemCredit, complete).
THEOREM CreditIsReal == Spec => []CreditForRealMoney
<1>1. IInv => CreditForRealMoney BY DEF IInv, RowsFit, CreditForRealMoney, TypeOK
<1> QED BY Inductive, <1>1, PTL

\* Money that went back is never available again: its row stays among the reservations
\* that the next refund of the payment is measured against (REFUND_RESERVED_STATUSES).
THEOREM ReturnedStaysReserved == Spec => [](returned \subseteq Reserved)
<1>1. IInv => returned \subseteq Reserved
  BY DEF IInv, RowsFit, Reserved, ReservedStatuses, TypeOK, Statuses
<1> QED BY Inductive, <1>1, PTL

\* No late answer, cron or second operator takes a decision back (create, resolve, recover).
THEOREM DecisionsStand == Spec => DecisionsAreFinal
<1>1. ASSUME IInv, [Next]_vars
      PROVE  \A r \in Refunds :
               /\ status[r] \in {"COMPLETED", "DECLINED"} => status'[r] = status[r]
               /\ status[r] = "CAPTURED" => status'[r] \in {"CAPTURED", "COMPLETED"}
               /\ status[r] = "UNKNOWN" => status'[r] # "PROCESSING"
  <2>0. status \in [Refunds -> Statuses] BY <1>1 DEF IInv, TypeOK
  <2> USE <2>0 DEF Statuses
  <2>1. CASE \E r \in Refunds : ConfirmNotRefunded(r) \/ ExpireProcessing(r) \/ LeaseExpires(r)
    BY <2>1, <2>0 DEF ConfirmNotRefunded, ExpireProcessing, LeaseExpires
  <2>2. CASE \E w \in Workers, r \in Refunds : Reserve(w, r) \/ ConfirmRefunded(w, r) \/ Recover(w, r)
    BY <2>2 DEF Reserve, ConfirmRefunded, Recover
  <2>3. ASSUME NEW w \in Workers, RecordVerdict(w)
        PROVE  \A r \in Refunds : status[r] # "PROCESSING" => status'[r] = status[r]
    BY <2>3 DEF RecordVerdict, AnswerCounts
  <2>4. ASSUME NEW w \in Workers, Finalize(w)
        PROVE  \A r \in Refunds :
                 \/ status'[r] = status[r]
                 \/ status[r] \in {"CAPTURED", "COMPLETED"} /\ status'[r] = "COMPLETED"
    BY <1>1, <2>4 DEF Finalize, IInv, JobsFit, Completing
  <2>5. ASSUME NEW w \in Workers, Continue(w) \/ Crash(w), ~RecordVerdict(w), ~Finalize(w)
        PROVE  status' = status
    BY <2>5 DEF Continue, Crash, SendRefund, IgnoreVerdict, ClaimCompletion, NothingToComplete,
      CreateCredit, LinkCredit, FinalizePdfs, CheckLease, SendEmail, CompletionFails
  <2>6. CASE \E w \in Workers : Continue(w) \/ Crash(w)
    BY <2>3, <2>4, <2>5, <2>6
  <2>7. CASE UNCHANGED vars BY <2>7
  <2> QED BY <1>1, <2>1, <2>2, <2>6, <2>7 DEF Next
<1> QED BY Inductive, <1>1, PTL DEF Spec, DecisionsAreFinal

-----------------------------------------------------------------------------
(* The split of a refund. *)

\* The quotient of naturals, by its remainder.
LEMMA Quotient ==
  ASSUME NEW n \in Nat, NEW d \in Nat \ {0}
  PROVE  /\ n \div d \in Nat
         /\ d * (n \div d) <= n
         /\ n < d * (n \div d) + d
OBVIOUS

LEMMA Cancel ==
  ASSUME NEW d \in Nat \ {0}, NEW x \in Int, NEW y \in Int, d * x < d * y
  PROVE  x < y
<1> SUFFICES ASSUME y <= x PROVE FALSE OBVIOUS
<1>1. 0 <= d * (x - y) OBVIOUS
<1>2. d * (x - y) = d * x - d * y OBVIOUS
<1> QED BY <1>1, <1>2

\* While the earlier refunds of a payment were split by their sum, every refund that
\* fits the rest is split too, both its parts are natural, and the sums agree again:
\* refundBreakdown never throws "Invalid refund VAT balance".
THEOREM RefundIsSplit ==
  ASSUME NEW g \in 0 .. Gross, NEW a \in 1 .. Gross - g
  PROVE  \E n \in Breakdown(g, Rounded(g), a) : Rounded(g) + n = Rounded(g + a)
<1> USE PaymentAssumption
<1> DEFINE d == 2 * Gross
           n1 == 2 * g * Net + Gross
           n2 == 2 * (g + a) * Net + Gross
           q1 == n1 \div d
           q2 == n2 \div d
<1>1. d \in Nat \ {0} /\ n1 \in Nat
  <2>1. g * Net \in Nat OBVIOUS
  <2>2. 2 * g * Net = 2 * (g * Net) OBVIOUS
  <2> QED BY <2>1, <2>2
<1>2. n1 <= n2 /\ n2 <= n1 + d * a /\ n2 \in Nat
  <2>1. a * Net \in Nat /\ a * Net <= a * Gross OBVIOUS
  <2>2. n2 = n1 + 2 * (a * Net) OBVIOUS
  <2>3. d * a = 2 * (a * Gross) OBVIOUS
  <2> QED BY <1>1, <2>1, <2>2, <2>3
<1> HIDE DEF d, n1, n2
<1>3. /\ q1 \in Nat /\ d * q1 <= n1 /\ n1 < d * q1 + d
      /\ q2 \in Nat /\ d * q2 <= n2 /\ n2 < d * q2 + d
  BY <1>1, <1>2, Quotient
<1> HIDE DEF q1, q2
<1>4. q1 < q2 + 1
  <2>1. d * q1 < d * (q2 + 1) BY <1>1, <1>2, <1>3
  <2> QED BY <1>1, <1>3, <2>1, Cancel
<1>5. q2 < q1 + a + 1
  <2>1. d * (q1 + a + 1) = d * q1 + d * a + d BY <1>1, <1>3
  <2>2. d * q2 < d * (q1 + a + 1) BY <1>1, <1>2, <1>3, <2>1
  <2> QED BY <1>1, <1>3, <2>2, Cancel
<1>6. Rounded(g) = q1 /\ Rounded(g + a) = q2 BY DEF Rounded, q1, q2, n1, n2, d
<1>7. q2 - q1 \in 0 .. a /\ g + a <= Gross BY <1>3, <1>4, <1>5
<1>8. q2 - q1 \in Breakdown(g, Rounded(g), a) BY <1>6, <1>7 DEF Breakdown
<1> QED BY <1>3, <1>6, <1>8

\* When all of a payment has gone back, so has exactly its part before VAT.
THEOREM WholeRefundIsExact == Rounded(Gross) = Net /\ Rounded(0) = 0
<1> USE PaymentAssumption
<1>1. 2 * Gross * Net + Gross = (2 * Gross) * Net + Gross OBVIOUS
<1>2. ASSUME NEW q \in Nat, (2 * Gross) * q <= (2 * Gross) * Net + Gross,
             (2 * Gross) * Net + Gross < (2 * Gross) * q + 2 * Gross
      PROVE  q = Net
  <2>1. (2 * Gross) * q < (2 * Gross) * (Net + 1) BY <1>2
  <2>2. q < Net + 1 BY <2>1, Cancel
  <2>3. (2 * Gross) * Net < (2 * Gross) * (q + 1) BY <1>2
  <2>4. Net < q + 1 BY <2>3, Cancel
  <2> QED BY <2>2, <2>4
<1>3. (2 * Gross) * Net + Gross \in Nat OBVIOUS
<1>4. Rounded(Gross) = ((2 * Gross) * Net + Gross) \div (2 * Gross) BY <1>1 DEF Rounded
<1>5. Rounded(Gross) = Net BY <1>2, <1>3, <1>4, Quotient
<1>6. Rounded(0) = Gross \div (2 * Gross) BY DEF Rounded
<1>7. Gross \div (2 * Gross) = 0
  <2>1. (2 * Gross) * (Gross \div (2 * Gross)) <= Gross /\ Gross \div (2 * Gross) \in Nat
    BY Quotient
  <2>2. (2 * Gross) * (Gross \div (2 * Gross)) < (2 * Gross) * 1 BY <2>1
  <2>3. Gross \div (2 * Gross) < 1 BY <2>1, <2>2, Cancel
  <2> QED BY <2>1, <2>3
<1> QED BY <1>5, <1>6, <1>7

-----------------------------------------------------------------------------
(* Sums over finite sets.  What a fold computes needs induction on its set; the form   *)
(* of it used here takes no predicate: a set of counterexamples has a least member.    *)

\* Every collection of subsets of a finite set has a least member.
LEMMA LeastSet ==
  ASSUME NEW S, NEW B, B \subseteq SUBSET S, B # {}, IsFiniteSet(S)
  PROVE  \E T \in B : IsFiniteSet(T) /\ \A U \in SUBSET T : U # T => U \notin B
<1>1. IsWellFoundedOn(StrictSubsetOrdering(S), FiniteSubsetsOf(S))
  BY FS_StrictSubsetOrderingWellFounded
<1>2. B \subseteq FiniteSubsetsOf(S) BY FS_FiniteSubsetsOfFinite
<1>3. PICK T \in B : \A U \in B : ~ (<<U, T>> \in StrictSubsetOrdering(S))
  <2> HIDE DEF StrictSubsetOrdering, FiniteSubsetsOf
  <2> QED BY <1>1, <1>2, WFMin
<1>4. \A U \in SUBSET T : U # T => U \notin B BY <1>3 DEF StrictSubsetOrdering
<1> QED BY <1>2, <1>4 DEF FiniteSubsetsOf

\* The member that the fold takes first.
First(s) == CHOOSE x \in s : TRUE

\* The recursion that SumFunctionOnSet(f, S) solves on the subsets of S.
SumsUp(g, f, S) ==
  g = [s \in SUBSET S |-> IF s = {} THEN 0 ELSE f[First(s)] + g[s \ {First(s)}]]

LEMMA SumUnfold ==
  ASSUME NEW f, NEW S
  PROVE  SumFunctionOnSet(f, S) = (CHOOSE g : SumsUp(g, f, S))[S]
BY DEF SumFunctionOnSet, FoldFunctionOnSet, MapThenFoldSet, SumsUp, First

LEMMA FirstIn == ASSUME NEW s, s # {} PROVE First(s) \in s
BY DEF First

\* Any two solutions agree where both are defined ...
LEMMA SumsUpUnique ==
  ASSUME NEW f, NEW S, IsFiniteSet(S), NEW T, S \subseteq T,
         NEW g, SumsUp(g, f, S), NEW h, SumsUp(h, f, T)
  PROVE  g[S] = h[S]
<1> DEFINE B == {s \in SUBSET S : g[s] # h[s]}
<1> SUFFICES ASSUME B # {} PROVE FALSE OBVIOUS
<1>1. PICK s \in B : \A u \in SUBSET s : u # s => u \notin B
  <2> HIDE DEF B
  <2>1. B \subseteq SUBSET S BY DEF B
  <2> QED BY <2>1, LeastSet
<1>2. s # {} BY DEF SumsUp
<1>3. First(s) \in s BY <1>2, FirstIn
<1>4. g[s \ {First(s)}] = h[s \ {First(s)}] BY <1>1, <1>3
<1>5. s \in SUBSET S /\ s \in SUBSET T OBVIOUS
<1>6. g[s] = f[First(s)] + g[s \ {First(s)}] BY <1>2, <1>5 DEF SumsUp
<1>7. h[s] = f[First(s)] + h[s \ {First(s)}] BY <1>2, <1>5 DEF SumsUp
<1> QED BY <1>4, <1>6, <1>7

\* ... and every finite set has one.
LEMMA SumsUpExists ==
  ASSUME NEW f, NEW S, IsFiniteSet(S)
  PROVE  \E g : SumsUp(g, f, S)
<1> DEFINE B == {s \in SUBSET S : ~ \E g : SumsUp(g, f, s)}
<1> SUFFICES ASSUME B # {} PROVE FALSE OBVIOUS
<1>1. PICK T \in B : IsFiniteSet(T) /\ \A U \in SUBSET T : U # T => U \notin B
  <2> HIDE DEF B
  <2>1. B \subseteq SUBSET S BY DEF B
  <2> QED BY <2>1, LeastSet
<1> DEFINE G(u) == CHOOSE g : SumsUp(g, f, u)
<1>2. ASSUME NEW u \in SUBSET T, u # T PROVE SumsUp(G(u), f, u)
  <2>1. \E h : SumsUp(h, f, u) BY <1>1, <1>2
  <2> QED BY <2>1
<1> DEFINE V(u) == IF u = {} THEN 0 ELSE f[First(u)] + G(u \ {First(u)})[u \ {First(u)}]
           g == [u \in SUBSET T |-> V(u)]
<1>3. ASSUME NEW u \in SUBSET T, u # T PROVE G(u)[u] = V(u)
  <2>1. CASE u = {}
    <3>1. SumsUp(G(u), f, u) BY <1>2, <1>3
    <3> HIDE DEF G
    <3> QED BY <2>1, <3>1 DEF SumsUp
  <2>2. CASE u # {}
    <3>1. First(u) \in u BY <2>2, FirstIn
    <3> DEFINE v == u \ {First(u)}
    <3>2. v \in SUBSET T /\ v # T /\ v \subseteq u BY <3>1
    <3>3. SumsUp(G(u), f, u) BY <1>2, <1>3
    <3>4. SumsUp(G(v), f, v) BY <1>2, <3>2
    <3>5. IsFiniteSet(v) BY <1>1, <3>2, FS_Subset
    <3>6. G(u)[v] = G(v)[v]
      <4> HIDE DEF G, v
      <4> QED BY <3>2, <3>3, <3>4, <3>5, SumsUpUnique
    <3>7. G(u)[u] = f[First(u)] + G(u)[v]
      <4> HIDE DEF G
      <4> QED BY <2>2, <3>3 DEF SumsUp
    <3> QED BY <2>2, <3>6, <3>7
  <2> QED BY <2>1, <2>2
<1>4. SumsUp(g, f, T)
  <2> HIDE DEF G
  <2>1. ASSUME NEW u \in SUBSET T, u # {} PROVE g[u] = f[First(u)] + g[u \ {First(u)}]
    <3>1. First(u) \in u BY <2>1, FirstIn
    <3> DEFINE v == u \ {First(u)}
    <3>2. v \in SUBSET T /\ v # T BY <3>1
    <3>3. G(v)[v] = V(v) BY <1>3, <3>2
    <3>4. g[v] = V(v) BY <3>2
    <3>5. g[u] = f[First(u)] + G(v)[v] BY <2>1
    <3> QED BY <3>3, <3>4, <3>5
  <2>2. g[{}] = 0 OBVIOUS
  <2>3. g = [u \in SUBSET T |-> g[u]] OBVIOUS
  <2> HIDE DEF g
  <2> QED BY <2>1, <2>2, <2>3, Zenon DEF SumsUp
<1> QED BY <1>1, <1>4

\* A sum is its first member and the sum of the rest.
LEMMA SumRecursion ==
  ASSUME NEW f, NEW S, IsFiniteSet(S)
  PROVE  SumFunctionOnSet(f, S) =
           IF S = {} THEN 0 ELSE f[First(S)] + SumFunctionOnSet(f, S \ {First(S)})
<1> DEFINE G(u) == CHOOSE g : SumsUp(g, f, u)
           v == S \ {First(S)}
<1>1. IsFiniteSet(v) BY FS_RemoveElement
<1>2. SumsUp(G(S), f, S) BY SumsUpExists
<1>3. SumsUp(G(v), f, v)
  <2> HIDE DEF v 
  <2> QED BY <1>1, SumsUpExists
<1>4. SumFunctionOnSet(f, S) = G(S)[S] BY SumUnfold
<1>5. SumFunctionOnSet(f, v) = G(v)[v] 
  <2> HIDE DEF v 
  <2> QED BY SumUnfold
<1> HIDE DEF G
<1>6. CASE S = {} BY <1>2, <1>4, <1>6 DEF SumsUp
<1>7. CASE S # {}
  <2>1. G(S)[S] = f[First(S)] + G(S)[v] BY <1>2, <1>7 DEF SumsUp
  <2>2. v \subseteq S OBVIOUS
  <2> HIDE DEF v
  <2>3. G(S)[v] = G(v)[v] BY <1>1, <1>2, <1>3, <2>2, SumsUpUnique
  <2> QED BY <1>4, <1>5, <1>7, <2>1, <2>3 DEF v
<1> QED BY <1>6, <1>7

LEMMA SumEmpty == ASSUME NEW f PROVE SumFunctionOnSet(f, {}) = 0
<1>1. IsFiniteSet({}) BY FS_EmptySet
<1> QED BY <1>1, SumRecursion

LEMMA SumNat ==
  ASSUME NEW f, NEW S, IsFiniteSet(S), \A x \in S : f[x] \in Nat
  PROVE  SumFunctionOnSet(f, S) \in Nat
<1> DEFINE B == {s \in SUBSET S : SumFunctionOnSet(f, s) \notin Nat}
<1> SUFFICES ASSUME B # {} PROVE FALSE OBVIOUS
<1>1. PICK T \in B : IsFiniteSet(T) /\ \A U \in SUBSET T : U # T => U \notin B
  <2>1. B \subseteq SUBSET S OBVIOUS
  <2> HIDE DEF B
  <2> QED BY <2>1, LeastSet
<1>2. T # {} BY SumEmpty
<1>3. First(T) \in T BY <1>2, FirstIn
<1>4. SumFunctionOnSet(f, T) = f[First(T)] + SumFunctionOnSet(f, T \ {First(T)})
  BY <1>1, <1>2, SumRecursion
<1>5. SumFunctionOnSet(f, T \ {First(T)}) \in Nat BY <1>1, <1>3
<1> QED BY <1>3, <1>4, <1>5

\* The order in which the members are added does not matter.
LEMMA SumRemove ==
  ASSUME NEW f, NEW S, IsFiniteSet(S), NEW x \in S, \A y \in S : f[y] \in Nat
  PROVE  SumFunctionOnSet(f, S) = f[x] + SumFunctionOnSet(f, S \ {x})
<1> DEFINE Sum(s) == SumFunctionOnSet(f, s)
           B == {s \in SUBSET S : \E y \in s : Sum(s) # f[y] + Sum(s \ {y})}
<1> SUFFICES ASSUME B # {} PROVE FALSE OBVIOUS
<1>1. PICK T \in B : IsFiniteSet(T) /\ \A U \in SUBSET T : U # T => U \notin B
  <2>1. B \subseteq SUBSET S OBVIOUS
  <2> HIDE DEF B
  <2> QED BY <2>1, LeastSet
<1>2. PICK y \in T : Sum(T) # f[y] + Sum(T \ {y}) OBVIOUS
<1> DEFINE c == First(T)
<1>3. c \in T /\ Sum(T) = f[c] + Sum(T \ {c}) BY <1>1, <1>2, FirstIn, SumRecursion
<1>4. c # y BY <1>2, <1>3
<1> HIDE DEF c
<1>5. Sum(T \ {c}) = f[y] + Sum((T \ {c}) \ {y}) BY <1>1, <1>3, <1>4
<1>6. Sum(T \ {y}) = f[c] + Sum((T \ {y}) \ {c}) BY <1>1, <1>3, <1>4
<1>7. (T \ {c}) \ {y} = (T \ {y}) \ {c} OBVIOUS
<1>8. Sum((T \ {y}) \ {c}) \in Nat
  <2>1. IsFiniteSet((T \ {y}) \ {c}) BY <1>1, FS_RemoveElement
  <2>2. \A z \in (T \ {y}) \ {c} : f[z] \in Nat OBVIOUS
  <2> QED BY <2>1, <2>2, SumNat
<1>9. f[c] \in Nat /\ f[y] \in Nat BY <1>3
<1> HIDE DEF Sum
<1> QED BY <1>2, <1>3, <1>5, <1>6, <1>7, <1>8, <1>9

LEMMA SumAdd ==
  ASSUME NEW f, NEW S, IsFiniteSet(S), NEW x, x \notin S, \A y \in S \cup {x} : f[y] \in Nat
  PROVE  SumFunctionOnSet(f, S \cup {x}) = f[x] + SumFunctionOnSet(f, S)
<1>1. IsFiniteSet(S \cup {x}) BY FS_AddElement
<1>2. (S \cup {x}) \ {x} = S OBVIOUS
<1> QED BY <1>1, <1>2, SumRemove

LEMMA SumOne ==
  ASSUME NEW f, NEW x, f[x] \in Nat
  PROVE  SumFunctionOnSet(f, {x}) = f[x]
<1>1. IsFiniteSet({}) /\ {} \cup {x} = {x} BY FS_EmptySet
<1>2. SumFunctionOnSet(f, {} \cup {x}) = f[x] + SumFunctionOnSet(f, {}) BY <1>1, SumAdd
<1> QED BY <1>1, <1>2, SumEmpty

\* A sum depends on nothing but its terms.
LEMMA SumSame ==
  ASSUME NEW f, NEW g, NEW S, IsFiniteSet(S), \A x \in S : f[x] = g[x]
  PROVE  SumFunctionOnSet(f, S) = SumFunctionOnSet(g, S)
<1> DEFINE B == {s \in SUBSET S : SumFunctionOnSet(f, s) # SumFunctionOnSet(g, s)}
<1> SUFFICES ASSUME B # {} PROVE FALSE OBVIOUS
<1>1. PICK T \in B : IsFiniteSet(T) /\ \A U \in SUBSET T : U # T => U \notin B
  <2>1. B \subseteq SUBSET S OBVIOUS
  <2> HIDE DEF B
  <2> QED BY <2>1, LeastSet
<1>2. T # {} BY SumEmpty
<1>3. First(T) \in T BY <1>2, FirstIn
<1>4. SumFunctionOnSet(f, T \ {First(T)}) = SumFunctionOnSet(g, T \ {First(T)}) BY <1>1, <1>3
<1>5. SumFunctionOnSet(f, T) = f[First(T)] + SumFunctionOnSet(f, T \ {First(T)})
  BY <1>1, <1>2, SumRecursion
<1>6. SumFunctionOnSet(g, T) = g[First(T)] + SumFunctionOnSet(g, T \ {First(T)})
  BY <1>1, <1>2, SumRecursion
<1> QED BY <1>3, <1>4, <1>5, <1>6

\* A part is no more than the whole.
LEMMA SumSubset ==
  ASSUME NEW f, NEW S, IsFiniteSet(S), NEW R \in SUBSET S, \A x \in S : f[x] \in Nat
  PROVE  SumFunctionOnSet(f, R) <= SumFunctionOnSet(f, S)
<1> DEFINE Sum(s) == SumFunctionOnSet(f, s)
           B == {s \in SUBSET S : R \subseteq s /\ ~ Sum(R) <= Sum(s)}
<1> SUFFICES ASSUME B # {} PROVE FALSE OBVIOUS
<1>1. PICK T \in B : IsFiniteSet(T) /\ \A U \in SUBSET T : U # T => U \notin B
  <2>1. B \subseteq SUBSET S OBVIOUS
  <2> HIDE DEF B
  <2> QED BY <2>1, LeastSet
<1>2. Sum(R) \in Nat
  <2>1. IsFiniteSet(R) BY FS_Subset
  <2> QED BY <2>1, SumNat
<1>3. PICK y \in T : y \notin R BY <1>2
<1>4. Sum(T) = f[y] + Sum(T \ {y})
  <2>1. \A z \in T : f[z] \in Nat OBVIOUS
  <2> QED BY <1>1, <2>1, SumRemove
<1>5. Sum(R) <= Sum(T \ {y}) BY <1>1, <1>3
<1>6. Sum(T \ {y}) \in Nat
  <2>1. IsFiniteSet(T \ {y}) BY <1>1, FS_RemoveElement
  <2>2. \A z \in T \ {y} : f[z] \in Nat OBVIOUS
  <2> QED BY <2>1, <2>2, SumNat
<1>7. f[y] \in Nat OBVIOUS
<1>8. ~ Sum(R) <= Sum(T) OBVIOUS
<1> HIDE DEF Sum
<1> QED BY <1>2, <1>4, <1>5, <1>6, <1>7, <1>8

-----------------------------------------------------------------------------
(* The balance of a payment. *)

\* One refund is unfinished at a time, and the balance with it and the balance without
\* it, should it be declined, are both split by their sums.
BalanceFits ==
  /\ IsFiniteSet(Reserved) /\ GrossOf(Reserved) <= Gross /\ VatIsExact
  /\ \A r \in Unfinished :
       /\ Unfinished = {r}
       /\ NetOf(Reserved \ {r}) = Rounded(GrossOf(Reserved \ {r}))

LEMMA InitBalance == Init => BalanceFits
<1> SUFFICES ASSUME Init PROVE BalanceFits OBVIOUS
<1>1. Reserved = {} BY DEF Init, Reserved, ReservedStatuses
<1>2. IsFiniteSet({}) BY FS_EmptySet
<1>3. GrossOf(Reserved) = 0 /\ NetOf(Reserved) = 0 BY <1>1, SumEmpty DEF GrossOf, NetOf
<1>4. Unfinished = {} BY <1>1 DEF Unfinished
<1>5. Rounded(0) = 0 BY WholeRefundIsExact
<1> QED BY <1>1, <1>2, <1>3, <1>4, <1>5, PaymentAssumption DEF BalanceFits, VatIsExact

\* A step that moves no reservation, and leaves no more of them unfinished.
LEMMA SameBalance ==
  ASSUME BalanceFits, amount' = amount, net' = net, Reserved' = Reserved,
         Unfinished' \subseteq Unfinished
  PROVE  BalanceFits'
<1>1. \A S : GrossOf(S)' = GrossOf(S') /\ NetOf(S)' = NetOf(S') BY DEF GrossOf, NetOf
<1> QED BY DEF BalanceFits, VatIsExact, GrossOf, NetOf, Rounded

\* The next refund adds its part to a balance that was split by its sum.
LEMMA ReserveBalance ==
  ASSUME IInv, BalanceFits, NEW w \in Workers, NEW r \in Refunds, Reserve(w, r)
  PROVE  BalanceFits'
<1> DEFINE g == GrossOf(Reserved)
           n == NetOf(Reserved)
<1> USE PaymentAssumption
<1>1. PICK a \in 1 .. Gross : \E b \in Breakdown(g, n, a) :
        amount' = [amount EXCEPT ![r] = a] /\ net' = [net EXCEPT ![r] = b]
  BY DEF Reserve
<1>2. PICK b \in 0 .. a : /\ g + a <= Gross /\ b = Rounded(g + a) - n
                          /\ amount' = [amount EXCEPT ![r] = a]
                          /\ net' = [net EXCEPT ![r] = b]
  BY <1>1 DEF Breakdown
<1>3. /\ amount \in [Refunds -> 0 .. Gross] /\ net \in [Refunds -> 0 .. Gross]
      /\ status \in [Refunds -> Statuses]
  BY DEF IInv, TypeOK
<1>4. r \notin Reserved /\ Reserved' = Reserved \cup {r}
  BY <1>3 DEF Reserve, Reserved, ReservedStatuses
<1>5. Unfinished = {} /\ Unfinished' = {r}
  BY <1>3, <1>4 DEF Reserve, Unfinished, Reserved
<1>6. IsFiniteSet(Reserved) /\ IsFiniteSet(Reserved') BY <1>4, FS_AddElement DEF BalanceFits
<1>7. SumFunctionOnSet(amount', Reserved) = g /\ SumFunctionOnSet(net', Reserved) = n
  <2>1. \A x \in Reserved : amount'[x] = amount[x] /\ net'[x] = net[x] BY <1>2, <1>3, <1>4 DEF Reserved
  <2> QED BY <1>6, <2>1, SumSame DEF GrossOf, NetOf
<1>8. GrossOf(Reserved)' = a + g /\ NetOf(Reserved)' = b + n
  <2>1. \A x \in Reserved \cup {r} : amount'[x] \in Nat /\ net'[x] \in Nat
    BY <1>2, <1>3 DEF Reserved
  <2>2. amount'[r] = a /\ net'[r] = b BY <1>2, <1>3
  <2>3. SumFunctionOnSet(amount', Reserved \cup {r}) = amount'[r] + SumFunctionOnSet(amount', Reserved)
    BY <1>4, <1>6, <2>1, SumAdd
  <2>4. SumFunctionOnSet(net', Reserved \cup {r}) = net'[r] + SumFunctionOnSet(net', Reserved)
    BY <1>4, <1>6, <2>1, SumAdd
  <2> QED BY <1>4, <1>7, <2>2, <2>3, <2>4 DEF GrossOf, NetOf
<1>9. n = Rounded(g) /\ g \in Nat /\ n \in Nat
  <2>1. \A x \in Reserved : amount[x] \in Nat /\ net[x] \in Nat BY <1>3 DEF Reserved
  <2> QED BY <1>6, <2>1, SumNat DEF BalanceFits, VatIsExact, GrossOf, NetOf
<1>10. Rounded(g + a) \in Int
  <2>1. PICK c \in Breakdown(g, Rounded(g), a) : Rounded(g) + c = Rounded(g + a)
    <3>1. g \in 0 .. Gross /\ a \in 1 .. Gross - g BY <1>2, <1>9
    <3> QED BY <3>1, RefundIsSplit
  <2> QED BY <1>9, <2>1 DEF Breakdown
<1>11. a + g <= Gross /\ b + n = Rounded(a + g) BY <1>2, <1>9, <1>10
<1>12. NetOf(Reserved \ {r})' = n /\ GrossOf(Reserved \ {r})' = g
  <2>1. Reserved' \ {r} = Reserved BY <1>4
  <2>2. NetOf(Reserved \ {r})' = SumFunctionOnSet(net', Reserved' \ {r}) BY DEF NetOf
  <2>3. GrossOf(Reserved \ {r})' = SumFunctionOnSet(amount', Reserved' \ {r}) BY DEF GrossOf
  <2> QED BY <1>7, <2>1, <2>2, <2>3
<1> HIDE DEF g, n
<1>13. VatIsExact' BY <1>8, <1>11 DEF VatIsExact, Rounded
<1>14. NetOf(Reserved \ {r})' = Rounded(GrossOf(Reserved \ {r}))' BY <1>9, <1>12 DEF Rounded
<1> QED BY <1>5, <1>6, <1>8, <1>11, <1>13, <1>14 DEF BalanceFits

\* A refund that is declined is the last one that was split, so the rest still fits.
LEMMA DeclineBalance ==
  ASSUME IInv, BalanceFits, NEW r \in Refunds, ConfirmNotRefunded(r)
  PROVE  BalanceFits'
<1>1. status \in [Refunds -> Statuses] BY DEF IInv, TypeOK
<1>2. r \in Unfinished /\ Reserved' = Reserved \ {r}
  BY <1>1 DEF ConfirmNotRefunded, Unfinished, Reserved, ReservedStatuses
<1>3. Unfinished = {r} BY <1>2 DEF BalanceFits
<1>4. Unfinished' = {}
  BY <1>1, <1>2, <1>3 DEF ConfirmNotRefunded, Unfinished
<1>5. amount' = amount /\ net' = net BY DEF ConfirmNotRefunded
<1>6. /\ GrossOf(Reserved)' = GrossOf(Reserved \ {r})
      /\ NetOf(Reserved)' = NetOf(Reserved \ {r})
  BY <1>2, <1>5 DEF GrossOf, NetOf
<1>7. VatIsExact' BY <1>2, <1>6 DEF BalanceFits, VatIsExact, Rounded
<1>8. IsFiniteSet(Reserved') BY <1>2, FS_RemoveElement DEF BalanceFits
<1>9. GrossOf(Reserved \ {r}) <= Gross
  <2>1. \A x \in Reserved : amount[x] \in Nat BY PaymentAssumption DEF IInv, TypeOK, Reserved
  <2>2. GrossOf(Reserved \ {r}) <= GrossOf(Reserved)
    BY <2>1, SumSubset DEF GrossOf, BalanceFits
  <2>3. IsFiniteSet(Reserved \ {r}) BY FS_RemoveElement DEF BalanceFits
  <2>4. GrossOf(Reserved) \in Nat /\ GrossOf(Reserved \ {r}) \in Nat
    BY <2>1, <2>3, SumNat DEF GrossOf, BalanceFits
  <2> QED BY <2>2, <2>4, PaymentAssumption DEF BalanceFits
<1> QED BY <1>4, <1>6, <1>7, <1>8, <1>9 DEF BalanceFits

LEMMA NextBalance == IInv /\ BalanceFits /\ [Next]_vars => BalanceFits'
<1> SUFFICES ASSUME IInv, BalanceFits, [Next]_vars PROVE BalanceFits' OBVIOUS
<1>1. status \in [Refunds -> Statuses] BY DEF IInv, TypeOK
<1>2. CASE \E w \in Workers, r \in Refunds : Reserve(w, r) BY <1>2, ReserveBalance
<1>3. CASE \E r \in Refunds : ConfirmNotRefunded(r) BY <1>3, DeclineBalance
<1>4. ASSUME amount' = amount, net' = net, Reserved' = Reserved, Unfinished' \subseteq Unfinished
      PROVE  BalanceFits'
  BY <1>4, SameBalance
<1> USE DEF Statuses, Reserved, ReservedStatuses, Unfinished
<1>5. CASE \E r \in Refunds : ExpireProcessing(r) \/ LeaseExpires(r)
  BY <1>1, <1>4, <1>5 DEF ExpireProcessing, LeaseExpires
<1>6. CASE \E w \in Workers, r \in Refunds : ConfirmRefunded(w, r) \/ Recover(w, r)
  BY <1>1, <1>4, <1>6 DEF ConfirmRefunded, Recover
<1>7. ASSUME NEW w \in Workers, RecordVerdict(w) PROVE BalanceFits'
  BY <1>1, <1>4, <1>7 DEF RecordVerdict, AnswerCounts
<1>8. ASSUME NEW w \in Workers, Finalize(w) PROVE BalanceFits'
  <2>1. status[job[w].refund] \in {"CAPTURED", "COMPLETED"}
    BY <1>8 DEF Finalize, IInv, JobsFit, Completing
  <2> QED BY <1>1, <1>4, <1>8, <2>1 DEF Finalize
<1>9. ASSUME NEW w \in Workers, Continue(w) \/ Crash(w), ~ RecordVerdict(w), ~ Finalize(w)
      PROVE  BalanceFits'
  <2>1. status' = status /\ amount' = amount /\ net' = net
    BY <1>9 DEF Continue, Crash, SendRefund, IgnoreVerdict, ClaimCompletion, NothingToComplete,
      CreateCredit, LinkCredit, FinalizePdfs, CheckLease, SendEmail, CompletionFails
  <2> QED BY <1>4, <2>1
<1>10. CASE UNCHANGED vars BY <1>4, <1>10
<1> QED BY <1>2, <1>3, <1>5, <1>6, <1>7, <1>8, <1>9, <1>10 DEF Next

LEMMA Balanced == Spec => [](IInv /\ BalanceFits)
BY InitIInv, InitBalance, NextIInv, NextBalance, PTL DEF Spec

\* CardCom never gives back more than it took, for any payment, amounts, crashes, lost
\* answers and decisions: every transaction under the subscription lock sees what is
\* back among the reservations (BillingRefundService.create, refundBreakdown).
THEOREM NeverOverRefunded == Spec => []RefundsFitThePayment
<1>1. IInv /\ BalanceFits => RefundsFitThePayment
  <2> SUFFICES ASSUME IInv, BalanceFits PROVE RefundsFitThePayment OBVIOUS
  <2>1. \A x \in Reserved : amount[x] \in Nat BY PaymentAssumption DEF IInv, TypeOK, Reserved
  <2>2. returned \subseteq Reserved
    BY DEF IInv, RowsFit, Reserved, ReservedStatuses, TypeOK, Statuses
  <2>3. IsFiniteSet(Reserved) /\ IsFiniteSet(returned) BY <2>2, FS_Subset DEF BalanceFits
  <2>4. GrossOf(returned) <= GrossOf(Reserved) BY <2>1, <2>2, <2>3, SumSubset DEF GrossOf
  <2>5. GrossOf(Reserved) \in Nat /\ GrossOf(returned) \in Nat
    BY <2>1, <2>2, <2>3, SumNat DEF GrossOf
  <2> QED BY <2>4, <2>5, PaymentAssumption DEF BalanceFits, RefundsFitThePayment
<1> QED BY Balanced, <1>1, PTL

\* The parts before VAT of the reserved refunds add up to the rounded share of their sum,
\* in whatever parts the payment is refunded and whichever of them are declined: the
\* credit documents of a whole refund cancel its VAT to the agora (refundBreakdown).
THEOREM VatStaysExact == Spec => []VatIsExact
<1>1. BalanceFits => VatIsExact BY DEF BalanceFits
<1> QED BY Balanced, <1>1, PTL

\* What is left of a payment can be refunded in any amount: refundBreakdown never refuses
\* with "Invalid refund VAT balance" what create() has measured against the rest.
THEOREM RemainderStaysRefundable == Spec => []RemainderIsRefundable
<1>1. IInv /\ BalanceFits => RemainderIsRefundable
  <2> SUFFICES ASSUME IInv, BalanceFits, NEW a \in 1 .. Gross - GrossOf(Reserved)
               PROVE  Breakdown(GrossOf(Reserved), NetOf(Reserved), a) # {}
    BY DEF RemainderIsRefundable
  <2>1. \A x \in Reserved : amount[x] \in Nat BY PaymentAssumption DEF IInv, TypeOK, Reserved
  <2>2. GrossOf(Reserved) \in 0 .. Gross
    BY <2>1, SumNat, PaymentAssumption DEF GrossOf, BalanceFits
  <2> QED BY <2>2, RefundIsSplit DEF BalanceFits, VatIsExact
<1> QED BY Balanced, <1>1, PTL

-----------------------------------------------------------------------------
(* The rows implement the account of the payment. *)

\* A request is sent once: who is about to send it is alone, and nothing of it went
\* back; and no reservation is empty.
SentOnce ==
  /\ \A w \in Workers : job[w].step = "send" =>
       /\ job[w].refund \notin returned
       /\ \A v \in Workers \ {w} : job[v].step = "send" => job[v].refund # job[w].refund
  /\ \A r \in Reserved : amount[r] # 0

LEMMA InitSent == Init => SentOnce
BY DEF Init, SentOnce, Idle, Reserved, ReservedStatuses

LEMMA NextSent == IInv /\ SentOnce /\ [Next]_vars => SentOnce'
<1> SUFFICES ASSUME IInv, SentOnce, [Next]_vars PROVE SentOnce' OBVIOUS
<1>0. /\ status \in [Refunds -> Statuses] /\ job \in [Workers -> Jobs]
      /\ amount \in [Refunds -> 0 .. Gross]
  BY DEF IInv, TypeOK
<1> USE <1>0 DEF Statuses, Reserved, ReservedStatuses, Idle, SentOnce, Goto, Leave
<1>1. ASSUME NEW w \in Workers, NEW r \in Refunds, Reserve(w, r) PROVE SentOnce'
  <2>1. PICK a \in 1 .. Gross : amount' = [amount EXCEPT ![r] = a] BY <1>1 DEF Reserve
  <2>2. /\ status' = [status EXCEPT ![r] = "PROCESSING"] /\ status[r] = "ABSENT"
        /\ job' = [job EXCEPT ![w] = [step |-> "send", refund |-> r, verdict |-> "unknown"]]
        /\ returned' = returned
    BY <1>1 DEF Reserve
  <2>3. r \notin returned /\ \A v \in Workers : job[v].step = "send" => job[v].refund # r
    BY <2>2 DEF IInv, RowsFit, JobsFit
  <2>4. \A x \in Reserved' : amount'[x] # 0 BY <2>1, <2>2
  <2> QED BY <2>2, <2>3, <2>4
<1>2. ASSUME NEW w \in Workers, NEW r \in Refunds, ConfirmRefunded(w, r) \/ Recover(w, r)
      PROVE  SentOnce'
  BY <1>2 DEF ConfirmRefunded, Recover
<1>3. ASSUME NEW r \in Refunds, ConfirmNotRefunded(r) \/ ExpireProcessing(r) \/ LeaseExpires(r)
      PROVE  SentOnce'
  BY <1>3 DEF ConfirmNotRefunded, ExpireProcessing, LeaseExpires
<1>4. ASSUME NEW w \in Workers, SendRefund(w) PROVE SentOnce'
  <2>1. PICK u \in {"captured", "unknown"} :
          job' = [job EXCEPT ![w] = [step |-> "record", refund |-> @.refund, verdict |-> u]]
    BY <1>4 DEF SendRefund
  <2>2. /\ job[w].step = "send" /\ returned' \subseteq returned \cup {job[w].refund}
        /\ status' = status /\ amount' = amount
    BY <1>4 DEF SendRefund
  <2> QED BY <2>1, <2>2
<1>5. ASSUME NEW w \in Workers, Continue(w) \/ Crash(w), ~ SendRefund(w) PROVE SentOnce'
  <2>1. returned' = returned /\ amount' = amount
    BY <1>5 DEF Continue, Crash, RecordVerdict, IgnoreVerdict, ClaimCompletion,
      NothingToComplete, CreateCredit, LinkCredit, FinalizePdfs, CheckLease, SendEmail,
      Finalize, CompletionFails
  <2>2. \A v \in Workers : job'[v].step = "send" => job'[v] = job[v]
    <3> HIDE DEF Goto, Leave
    <3>1. Leave(w) \/ \E s \in Steps \ {"send"} : Goto(w, s)
      BY <1>5 DEF Continue, Crash, RecordVerdict, IgnoreVerdict, ClaimCompletion,
        NothingToComplete, CreateCredit, LinkCredit, FinalizePdfs, CheckLease, SendEmail,
        Finalize, CompletionFails, Steps, Completing
    <3> QED BY <3>1 DEF Goto, Leave, Jobs
  <2>3. Reserved' = Reserved
    <3>1. CASE RecordVerdict(w) BY <3>1 DEF RecordVerdict, AnswerCounts
    <3>2. CASE Finalize(w)
      <4>1. status[job[w].refund] \in {"CAPTURED", "COMPLETED"}
        BY <3>2 DEF Finalize, IInv, JobsFit, Completing
      <4> QED BY <3>2, <4>1 DEF Finalize
    <3>3. CASE status' = status BY <3>3
    <3> QED BY <1>5, <3>1, <3>2, <3>3 DEF Continue, Crash, IgnoreVerdict, ClaimCompletion,
      NothingToComplete, CreateCredit, LinkCredit, FinalizePdfs, CheckLease, SendEmail,
      CompletionFails
  <2> HIDE DEF Reserved
  <2> QED BY <2>1, <2>2, <2>3
<1>6. CASE UNCHANGED vars BY <1>6
<1> QED BY <1>1, <1>2, <1>3, <1>4, <1>5, <1>6 DEF Next

\* Money of a refund that is under way is all that can be missing.
LEMMA Closed ==
  ASSUME IInv, NEW r \in Unfinished, Unfinished = {r}
  PROVE  returned = IF r \in returned THEN Reserved ELSE Reserved \ {r}
<1>1. returned \subseteq Reserved
  BY DEF IInv, RowsFit, Reserved, ReservedStatuses, TypeOK, Statuses
<1>2. \A x \in Reserved \ {r} : x \in returned
  BY DEF IInv, RowsFit, Reserved, Unfinished
<1> QED BY <1>1, <1>2

\* The balance, with and without a refund that is under way.
LEMMA UnderWay ==
  ASSUME IInv, BalanceFits, SentOnce, NEW r \in Unfinished
  PROVE  /\ Unfinished = {r} /\ amount[r] \in Nat \ {0} /\ GrossOf(Unfinished) = amount[r]
         /\ GrossOf(Reserved \ {r}) \in Nat
         /\ GrossOf(Reserved) = GrossOf(Reserved \ {r}) + amount[r]
<1>1. Unfinished = {r} /\ r \in Reserved BY DEF BalanceFits, Unfinished
<1>2. \A x \in Reserved : amount[x] \in Nat BY PaymentAssumption DEF IInv, TypeOK, Reserved
<1>3. IsFiniteSet(Reserved) /\ IsFiniteSet(Reserved \ {r}) BY FS_RemoveElement DEF BalanceFits
<1>4. GrossOf(Reserved) = amount[r] + GrossOf(Reserved \ {r})
  BY <1>1, <1>2, <1>3, SumRemove DEF GrossOf
<1>5. GrossOf(Reserved \ {r}) \in Nat BY <1>2, <1>3, SumNat DEF GrossOf
<1>6. GrossOf({r}) = amount[r] BY <1>1, <1>2, SumOne DEF GrossOf
<1> QED BY <1>1, <1>2, <1>4, <1>5, <1>6 DEF SentOnce

\* What the account sees.
visible == <<amount, net, Reserved, Unfinished, returned>>

LEMMA Invisible == ASSUME UNCHANGED visible PROVE UNCHANGED Account!account
BY DEF visible, Account!account, GrossOf, NetOf

\* Reserving is a promise: the new refund is the only one under way.
LEMMA ReservePromises ==
  ASSUME IInv, BalanceFits, BalanceFits', NEW w \in Workers, NEW r \in Refunds,
         Reserve(w, r)
  PROVE  Account!Promise
<1>1. /\ status \in [Refunds -> Statuses] /\ amount \in [Refunds -> 0 .. Gross]
      /\ net \in [Refunds -> 0 .. Gross]
  BY DEF IInv, TypeOK
<1>2. r \notin Reserved /\ Reserved' = Reserved \cup {r} /\ returned' = returned
  BY <1>1 DEF Reserve, Reserved, ReservedStatuses
<1>3. Unfinished = {} /\ Unfinished' = {r}
  BY <1>1, <1>2 DEF Reserve, Unfinished, Reserved
<1>4. \A x \in Reserved : amount'[x] = amount[x]
  BY <1>1, <1>2 DEF Reserve, Reserved
<1>5. returned \subseteq Reserved
  BY DEF IInv, RowsFit, Reserved, ReservedStatuses, TypeOK, Statuses
<1>6. IsFiniteSet(Reserved) /\ IsFiniteSet(returned) BY <1>5, FS_Subset DEF BalanceFits
<1>7. SumFunctionOnSet(amount', Reserved) = GrossOf(Reserved)
  BY <1>4, <1>6, SumSame DEF GrossOf
<1>8. GrossOf(returned)' = GrossOf(returned)
  BY <1>2, <1>4, <1>5, <1>6, SumSame DEF GrossOf
<1>9. GrossOf(Reserved \ Unfinished)' = GrossOf(Reserved \ Unfinished)
  <2>1. Reserved' \ Unfinished' = Reserved /\ Reserved \ Unfinished = Reserved BY <1>2, <1>3
  <2> QED BY <1>7, <2>1 DEF GrossOf
<1>10. /\ GrossOf(Unfinished)' \in Nat \ {0}
       /\ GrossOf(Reserved)' = GrossOf(Reserved) + GrossOf(Unfinished)'
       /\ GrossOf(Reserved) \in Nat
  <2>1. PICK a \in 1 .. Gross : amount' = [amount EXCEPT ![r] = a] BY DEF Reserve
  <2>2. \A x \in Reserved \cup {r} : amount'[x] \in Nat BY <1>1, <2>1 DEF Reserved
  <2>3. GrossOf(Unfinished)' = a
    <3>1. amount'[r] = a BY <1>1, <2>1
    <3> QED BY <1>3, <3>1, SumOne DEF GrossOf
  <2>4. SumFunctionOnSet(amount', Reserved \cup {r}) = a + GrossOf(Reserved)
    <3>1. amount'[r] = a BY <1>1, <2>1
    <3>2. SumFunctionOnSet(amount', Reserved \cup {r}) =
            amount'[r] + SumFunctionOnSet(amount', Reserved)
      BY <1>2, <1>6, <2>2, SumAdd
    <3> QED BY <1>7, <3>1, <3>2
  <2>5. GrossOf(Reserved)' = a + GrossOf(Reserved) BY <1>2, <2>4 DEF GrossOf
  <2>6. GrossOf(Reserved) \in Nat
    <3>1. \A x \in Reserved : amount[x] \in Nat BY <1>1 DEF Reserved
    <3> QED BY <1>6, <3>1, SumNat DEF GrossOf
  <2> QED BY <2>3, <2>5, <2>6
<1>11. GrossOf(Reserved)' <= Gross /\ NetOf(Reserved)' = Rounded(GrossOf(Reserved)')
  BY DEF BalanceFits, VatIsExact, Rounded
<1>12. Reserved \ Unfinished = Reserved BY <1>3
<1>13. GrossOf(Unfinished) = 0 BY <1>3, SumEmpty DEF GrossOf
<1>14. GrossOf(Unfinished)' \in 1 .. Gross - GrossOf(Reserved \ Unfinished)
  BY <1>10, <1>11, <1>12, PaymentAssumption
<1>15. NetOf(Reserved)' =
         Account!Share(GrossOf(Reserved \ Unfinished) + GrossOf(Unfinished)')
  BY <1>10, <1>11, <1>12 DEF Account!Share, Rounded
<1> QED BY <1>8, <1>9, <1>13, <1>14, <1>15 DEF Account!Promise

\* CardCom gives back the refund that is under way, or nothing that was not back.
LEMMA SendGivesBack ==
  ASSUME IInv, BalanceFits, SentOnce, NEW w \in Workers, SendRefund(w)
  PROVE  Account!GiveBack \/ UNCHANGED Account!account
<1> DEFINE r == job[w].refund
<1>1. status' = status /\ amount' = amount /\ net' = net BY DEF SendRefund
<1>2. Reserved' = Reserved /\ Unfinished' = Unfinished BY <1>1 DEF Reserved, Unfinished
<1>3. CASE returned' = returned BY <1>1, <1>2, <1>3, Invisible DEF visible
<1>4. CASE returned' = returned \cup {r}
  <2>1. r \in Refunds /\ r \notin returned /\ status[r] \notin {"ABSENT", "DECLINED"}
    BY DEF SendRefund, SentOnce, IInv, JobsFit
  <2>2. r \in Unfinished
    BY <2>1 DEF IInv, TypeOK, RowsFit, Statuses, Unfinished, Reserved, ReservedStatuses
  <2>3. /\ Unfinished = {r} /\ amount[r] \in Nat \ {0} /\ GrossOf(Unfinished) = amount[r]
        /\ GrossOf(Reserved \ {r}) \in Nat
        /\ GrossOf(Reserved) = GrossOf(Reserved \ {r}) + amount[r]
    BY <2>2, UnderWay
  <2> HIDE DEF r
  <2>4. returned = Reserved \ {r} /\ returned' = Reserved
    BY <1>4, <2>1, <2>2, <2>3, Closed DEF Unfinished
  <2>5. GrossOf(returned)' = GrossOf(Reserved) BY <1>1, <2>4 DEF GrossOf
  <2>6. /\ GrossOf(Reserved \ Unfinished)' = GrossOf(Reserved \ Unfinished)
        /\ GrossOf(Unfinished)' = GrossOf(Unfinished) /\ NetOf(Reserved)' = NetOf(Reserved)
    BY <1>1, <1>2 DEF GrossOf, NetOf
  <2> QED BY <2>3, <2>4, <2>5, <2>6 DEF Account!GiveBack
<1> QED BY <1>3, <1>4 DEF SendRefund

\* A completion closes a refund whose money is back.
LEMMA FinalizeSettles ==
  ASSUME IInv, BalanceFits, SentOnce, NEW w \in Workers, Finalize(w)
  PROVE  Account!Settle \/ UNCHANGED Account!account
<1> DEFINE r == job[w].refund
<1>1. /\ status' = [status EXCEPT ![r] = "COMPLETED"]
      /\ amount' = amount /\ net' = net /\ returned' = returned
  BY DEF Finalize
<1>2. r \in Refunds /\ status[r] \in {"CAPTURED", "COMPLETED"}
  BY DEF Finalize, IInv, JobsFit, Completing
<1>3. r \in returned BY <1>2 DEF IInv, RowsFit
<1> HIDE DEF r
<1>4. status \in [Refunds -> Statuses] BY DEF IInv, TypeOK
<1>5. Reserved' = Reserved /\ r \in Reserved
  BY <1>1, <1>2, <1>4 DEF Reserved, ReservedStatuses, Statuses
<1>6. CASE status[r] = "COMPLETED"
  <2>1. status' = status BY <1>1, <1>2, <1>4, <1>6
  <2>2. Unfinished' = Unfinished BY <1>5, <2>1 DEF Unfinished
  <2> QED BY <1>1, <1>5, <2>2, Invisible DEF visible
<1>7. CASE status[r] = "CAPTURED"
  <2>1. r \in Unfinished BY <1>5, <1>7 DEF Unfinished
  <2>2. /\ Unfinished = {r} /\ amount[r] \in Nat \ {0} /\ GrossOf(Unfinished) = amount[r]
        /\ GrossOf(Reserved \ {r}) \in Nat
        /\ GrossOf(Reserved) = GrossOf(Reserved \ {r}) + amount[r]
    BY <2>1, UnderWay
  <2>3. returned = Reserved BY <1>3, <2>1, <2>2, Closed
  <2>4. Unfinished' = {} BY <1>1, <1>2, <1>4, <1>5, <2>2 DEF Unfinished, Reserved
  <2>5. GrossOf(Unfinished)' = 0 BY <2>4, SumEmpty DEF GrossOf
  <2>6. GrossOf(Reserved \ Unfinished)' = GrossOf(Reserved)
    <3>1. Reserved' \ Unfinished' = Reserved BY <1>5, <2>4
    <3> QED BY <1>1, <3>1 DEF GrossOf
  <2>7. GrossOf(returned)' = GrossOf(returned) /\ NetOf(Reserved)' = NetOf(Reserved)
    BY <1>1, <1>5 DEF GrossOf, NetOf
  <2> QED BY <2>2, <2>3, <2>5, <2>6, <2>7 DEF Account!Settle
<1> QED BY <1>2, <1>6, <1>7

\* An operator withdraws a refund of which nothing went back.
LEMMA DeclineWithdraws ==
  ASSUME IInv, BalanceFits, SentOnce, NEW r \in Refunds, ConfirmNotRefunded(r)
  PROVE  Account!Withdraw
<1>1. status \in [Refunds -> Statuses] BY DEF IInv, TypeOK
<1>2. r \in Unfinished /\ Reserved' = Reserved \ {r} /\ r \notin returned
  BY <1>1 DEF ConfirmNotRefunded, Unfinished, Reserved, ReservedStatuses
<1>3. /\ Unfinished = {r} /\ amount[r] \in Nat \ {0} /\ GrossOf(Unfinished) = amount[r]
      /\ GrossOf(Reserved \ {r}) \in Nat
  BY <1>2, UnderWay
<1>4. Unfinished' = {} BY <1>1, <1>2, <1>3 DEF ConfirmNotRefunded, Unfinished
<1>5. amount' = amount /\ net' = net /\ returned' = returned BY DEF ConfirmNotRefunded
<1>6. returned = Reserved \ {r} BY <1>2, <1>3, Closed
<1>7. GrossOf(Unfinished)' = 0 BY <1>4, SumEmpty DEF GrossOf
<1>8. GrossOf(Reserved \ Unfinished)' = GrossOf(Reserved \ {r})
  <2>1. Reserved' \ Unfinished' = Reserved \ {r} BY <1>2, <1>4
  <2> QED BY <1>5, <2>1 DEF GrossOf
<1>9. GrossOf(returned)' = GrossOf(returned) BY <1>5 DEF GrossOf
<1>10. NetOf(Reserved)' = Rounded(GrossOf(Reserved \ {r}))
  <2>1. NetOf(Reserved)' = NetOf(Reserved \ {r}) BY <1>2, <1>5 DEF NetOf
  <2> QED BY <1>2, <2>1 DEF BalanceFits
<1> QED BY <1>3, <1>6, <1>7, <1>8, <1>9, <1>10 DEF Account!Withdraw, Account!Share, Rounded

LEMMA NextImplements ==
  ASSUME IInv, BalanceFits, SentOnce, BalanceFits', [Next]_vars
  PROVE  [Account!Next]_Account!account
<1>1. status \in [Refunds -> Statuses] BY DEF IInv, TypeOK
<1>2. ASSUME NEW w \in Workers, NEW r \in Refunds, Reserve(w, r) PROVE Account!Promise
  BY <1>2, ReservePromises
<1>3. ASSUME NEW r \in Refunds, ConfirmNotRefunded(r) PROVE Account!Withdraw
  BY <1>3, DeclineWithdraws
<1>4. ASSUME NEW w \in Workers, SendRefund(w)
      PROVE  Account!GiveBack \/ UNCHANGED Account!account
  BY <1>4, SendGivesBack
<1>5. ASSUME NEW w \in Workers, Finalize(w)
      PROVE  Account!Settle \/ UNCHANGED Account!account
  BY <1>5, FinalizeSettles
<1>6. ASSUME NEW r \in Refunds, ExpireProcessing(r) \/ LeaseExpires(r) PROVE UNCHANGED visible
  BY <1>1, <1>6 DEF ExpireProcessing, LeaseExpires, visible, Statuses, Reserved,
    ReservedStatuses, Unfinished
<1>7. ASSUME NEW w \in Workers, NEW r \in Refunds, ConfirmRefunded(w, r) \/ Recover(w, r)
      PROVE  UNCHANGED visible
  BY <1>1, <1>7 DEF ConfirmRefunded, Recover, visible, Statuses, Reserved,
    ReservedStatuses, Unfinished
<1>8. ASSUME NEW w \in Workers, RecordVerdict(w) PROVE UNCHANGED visible
  BY <1>1, <1>8 DEF RecordVerdict, AnswerCounts, visible, Statuses, Reserved,
    ReservedStatuses, Unfinished
<1>9. ASSUME NEW w \in Workers, Continue(w) \/ Crash(w), ~ SendRefund(w), ~ RecordVerdict(w),
             ~ Finalize(w)
      PROVE  UNCHANGED visible
  <2>1. status' = status /\ amount' = amount /\ net' = net /\ returned' = returned
    BY <1>9 DEF Continue, Crash, IgnoreVerdict, ClaimCompletion, NothingToComplete,
      CreateCredit, LinkCredit, FinalizePdfs, CheckLease, SendEmail, CompletionFails
  <2> QED BY <2>1 DEF visible, Reserved, Unfinished
<1>10. CASE UNCHANGED vars BY <1>10, Invisible DEF visible, Reserved, Unfinished
<1> QED BY <1>2, <1>3, <1>4, <1>5, <1>6, <1>7, <1>8, <1>9, <1>10, Invisible
    DEF Next, Account!Next

\* Whatever answers are lost, late or decided by hand, and whoever crashes, the rows
\* implement the account: one refund at a time, its money whole and once, withdrawn only
\* if nothing went back (BillingRefundService.create, resolve, complete).
THEOREM ImplementsAccount == Spec => AccountSpec
<1>1. Init => Account!Init
  <2> SUFFICES ASSUME Init PROVE Account!Init OBVIOUS
  <2>1. Reserved = {} /\ returned = {} BY DEF Init, Reserved, ReservedStatuses
  <2>2. Unfinished = {} /\ Reserved \ Unfinished = {} BY <2>1 DEF Unfinished
  <2> QED BY <2>1, <2>2, SumEmpty DEF Account!Init, GrossOf, NetOf
<1>2. Spec => []SentOnce BY Inductive, InitSent, NextSent, PTL DEF Spec
<1> QED BY <1>1, <1>2, Balanced, NextImplements, PTL DEF Spec, AccountSpec, Account!Spec

\* What the account promises: what went back is what was closed, with or without the one
\* refund under way, never more than the payment, and split exactly.
THEOREM AccountIsSound == Spec => []Account!AccountSound
<1> USE PaymentAssumption
<1>1. Account!Init => Account!AccountSound
  BY WholeRefundIsExact DEF Account!Init, Account!AccountSound, Account!Share, Rounded
<1>2. Account!AccountSound /\ [Account!Next]_Account!account => Account!AccountSound'
  <2> SUFFICES ASSUME Account!AccountSound, [Account!Next]_Account!account
               PROVE  Account!AccountSound'
    OBVIOUS
  <2> USE DEF Account!AccountSound, Account!Share
  <2>1. CASE Account!Promise BY <2>1 DEF Account!Promise
  <2>2. CASE Account!GiveBack BY <2>2 DEF Account!GiveBack
  <2>3. CASE Account!Settle BY <2>3 DEF Account!Settle
  <2>4. CASE Account!Withdraw BY <2>4 DEF Account!Withdraw
  <2>5. CASE UNCHANGED Account!account BY <2>5 DEF Account!account
  <2> QED BY <2>1, <2>2, <2>3, <2>4, <2>5 DEF Account!Next
<1> QED BY <1>1, <1>2, ImplementsAccount, PTL DEF AccountSpec, Account!Spec

================================================================================
