----------------------------- MODULE MCInvoiceDesk -----------------------------
(***************************************************************************)
(* A small instance of InvoiceDesk for TLC: two customers with a shipment  *)
(* each, an invoice of 3.                                                  *)
(***************************************************************************)
EXTENDS InvoiceDesk

CONSTANTS c1, c2, s1, s2

MCOwnerOf == [s \in {s1, s2} |-> IF s = s1 THEN c1 ELSE c2]
=============================================================================
