------------------------ MODULE MCEInvoiceTransmission ------------------------
(* Instances of EInvoiceTransmission for TLC.                              *)
EXTENDS EInvoiceTransmission, TLC

\* Sweeps are interchangeable, and so are the ids the PA hands out.
Symmetry == Permutations(Sweeps) \cup Permutations(Submissions)
===============================================================================
