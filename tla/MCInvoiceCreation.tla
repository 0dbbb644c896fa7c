--------------------------- MODULE MCInvoiceCreation ---------------------------
(* Instances of InvoiceCreation for TLC.                                   *)
EXTENDS InvoiceCreation, TLC

\* A devis or a facture may be given the number F-000002 by hand.
TypedNumbers == {[text |-> "F", n |-> 2]}

Symmetry == Permutations(Requests)
===============================================================================
