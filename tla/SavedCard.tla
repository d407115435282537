------------------------------- MODULE SavedCard -------------------------------
(***************************************************************************)
(* What the owner is promised about the saved card, without webhooks,      *)
(* polls or log rows: a page gives its card once; an update is confirmed   *)
(* after its card was saved, or refused, and then its card never is,       *)
(* unless it was judged early, by a result without a transaction.          *)
(***************************************************************************)
CONSTANTS Updates, Purchases, Before  \* Before: what may be saved in the beginning

VARIABLES
  card,       \* the saved card, by its page
  used,       \* pages whose card was saved
  confirmed,  \* updates on record as done
  refused,    \* updates on record as failed
  early       \* updates judged by a result that had no transaction

saved == <<card, used, confirmed, refused, early>>

Init == card \in Before /\ used = {} /\ confirmed = {} /\ refused = {} /\ early = {}

Save(p) ==
  /\ p \notin used /\ (p \in refused => p \in early)
  /\ card' = p /\ used' = used \cup {p}
  /\ UNCHANGED <<confirmed, refused, early>>

JudgeEarly(u) ==
  /\ early' = early \cup {u}
  /\ UNCHANGED <<card, used, confirmed, refused>>

\* The latest record of an update counts.
Confirm(u) ==
  /\ u \in used
  /\ confirmed' = confirmed \cup {u} /\ refused' = refused \ {u}
  /\ UNCHANGED <<card, used, early>>

Refuse(u) ==
  /\ u \in used => u \in early
  /\ refused' = refused \cup {u} /\ confirmed' = confirmed \ {u}
  /\ UNCHANGED <<card, used, early>>

Next ==
  \/ \E p \in Updates \cup Purchases : Save(p)
  \/ \E u \in Updates : JudgeEarly(u) \/ Confirm(u) \/ Refuse(u)

Spec == Init /\ [][Next]_saved

-----------------------------------------------------------------------------
\* The record of an update done is true for good; that of a failed one is, unless it
\* was judged early; and the card that is charged is one the owner gave.
SavedCardSound ==
  /\ confirmed \subseteq used /\ refused \cap used \subseteq early
  /\ card \in IF used = {} THEN Before ELSE used
================================================================================
