---------------------------- MODULE NumberedInvoice ----------------------------
(***************************************************************************)
(* What the owner of a large invoice is promised, without handlers, leases *)
(* or saved copies of rows.  One request at a time may bring a number; the *)
(* invoice is issued and booked once, and not while a number may still     *)
(* come, with the one that was given or one of its owner's; and nothing is *)
(* asked for an invoice that is issued.                                    *)
(***************************************************************************)
EXTENDS Naturals

CONSTANTS Requests, Typed, NoNumber

VARIABLES
  asked,    \* requests the Authority may still grant
  granted,  \* requests it has granted
  number,   \* the number of the invoice
  issued,
  entries   \* journal entries of the invoice

invoice == <<asked, granted, number, issued, entries>>

Init ==
  /\ asked = {} /\ granted = {}
  /\ number = NoNumber /\ issued = FALSE /\ entries = 0

Ask(n) ==
  /\ ~issued /\ number = NoNumber
  /\ asked = {} /\ granted = {}
  /\ asked' = {n}
  /\ UNCHANGED <<granted, number, issued, entries>>

Grant(n) ==
  /\ n \in asked
  /\ asked' = asked \ {n} /\ granted' = granted \cup {n}
  /\ UNCHANGED <<number, issued, entries>>

Refuse(n) ==
  /\ n \in asked
  /\ asked' = asked \ {n}
  /\ UNCHANGED <<granted, number, issued, entries>>

\* The number that was given is put on the invoice.
Record(n) ==
  /\ n \in granted
  /\ ~issued /\ number = NoNumber
  /\ number' = n
  /\ UNCHANGED <<asked, granted, issued, entries>>

\* With the number it has, the owner's or none; without one only if none is on its way.
Issue ==
  /\ ~issued
  /\ number' \in {number, Typed}
  /\ number = NoNumber => asked \cup granted = {}
  /\ issued' = TRUE /\ entries' = entries + 1
  /\ UNCHANGED <<asked, granted>>

\* An invoice that went out without a number gets its owner's.
Attach ==
  /\ issued /\ number = NoNumber
  /\ number' = Typed
  /\ UNCHANGED <<asked, granted, issued, entries>>

Next ==
  \/ \E n \in Requests : Ask(n) \/ Grant(n) \/ Refuse(n) \/ Record(n)
  \/ Issue \/ Attach

Spec == Init /\ [][Next]_invoice

-----------------------------------------------------------------------------
\* One request can bring a number and one at most has; an issued invoice is booked once,
\* waits for nothing, and carries the number that was given unless its owner had another.
InvoiceSound ==
  /\ asked \cup granted \subseteq Requests
  /\ \A m, n \in asked \cup granted : m = n
  /\ asked \cap granted = {}
  /\ \/ number \in granted \cup {NoNumber}
     \/ issued /\ number = Typed
  /\ entries = IF issued THEN 1 ELSE 0
  /\ issued => asked = {}
  /\ issued => granted \subseteq {number} \/ number = Typed
================================================================================
