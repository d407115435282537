------------------------------ MODULE DebtLedger ------------------------------
(***************************************************************************)
(* What the billing tables promise, without rows, leases or versions: a    *)
(* debt is collected by one attempt at a time, an attempt that was charged *)
(* keeps its debts until they are settled, and settled is forever.         *)
(***************************************************************************)
CONSTANTS Attempts, Debts, NoAttempt

VARIABLES
  holder,   \* the attempt that collects, or has settled, each debt
  charged,  \* attempts whose money was taken
  settled   \* debts that are paid and booked

ledger == <<holder, charged, settled>>

Init ==
  /\ holder = [d \in Debts |-> NoAttempt]
  /\ charged = {}
  /\ settled = {}

Holds(a) == {d \in Debts : holder[d] = a}

\* A new attempt takes debts nobody collects; it collects nothing else.
Reserve(a) ==
  /\ Holds(a) = {} /\ a \notin charged
  /\ UNCHANGED <<charged, settled>>
  /\ \E S \in SUBSET Holds(NoAttempt) :
       /\ S # {}
       /\ holder' = [d \in Debts |-> IF d \in S THEN a ELSE holder[d]]

\* Only an attempt that holds debts is ever charged, and only once.
Charge(a) ==
  /\ Holds(a) # {} /\ a \notin charged
  /\ charged' = charged \cup {a}
  /\ UNCHANGED <<holder, settled>>

\* Debts go back together, and never from an attempt that was charged.
Release(a) ==
  /\ Holds(a) # {} /\ a \notin charged
  /\ UNCHANGED <<charged, settled>>
  /\ holder' = [d \in Debts |-> IF holder[d] = a THEN NoAttempt ELSE holder[d]]

\* All the debts of a charged attempt are settled in one step, once.
Settle(a) ==
  /\ a \in charged /\ Holds(a) \cap settled = {}
  /\ settled' = settled \cup Holds(a)
  /\ UNCHANGED <<holder, charged>>

Next == \E a \in Attempts :
  Reserve(a) \/ Charge(a) \/ Release(a) \/ Settle(a)

Spec == Init /\ [][Next]_ledger

-----------------------------------------------------------------------------
\* The promise to the customer: whatever was charged is held for debts of its own,
\* so no debt is charged twice, and nothing is settled that was not charged.
LedgerSound ==
  /\ holder \in [Debts -> Attempts \cup {NoAttempt}]
  /\ charged \subseteq Attempts /\ settled \subseteq Debts
  /\ \A a \in charged : Holds(a) # {}
  /\ \A d \in settled : holder[d] \in charged
=============================================================================
