------------------------ MODULE MCInvoiceAllocation ------------------------
(***************************************************************************)
(* Two handlers and two attempts.  The invoice is booked at most twice,    *)
(* by two handlers that read it pending, before pending is FALSE for good. *)
(***************************************************************************)
EXTENDS InvoiceAllocation
=============================================================================
