--------------------------- MODULE MCPartInvoices ---------------------------
(* Small instance of PartInvoices for TLC.                                  *)
EXTENDS PartInvoices, TLC

CONSTANTS c1, c2, p1, i1, i2

Symmetric == Permutations(Calls) \cup Permutations(Invoices)
=============================================================================
