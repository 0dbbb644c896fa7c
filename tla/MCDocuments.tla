------------------------------- MODULE MCDocuments -------------------------------
(***************************************************************************)
(* The documents of a company as the server creates them, as the page that *)
(* lists them shows them, and what a draft saves in the catalogue on its   *)
(* way to becoming one. No property relates two of them, so a behaviour    *)
(* moves one part, the focus, and the state spaces add instead of          *)
(* multiplying.                                                            *)
(***************************************************************************)
EXTENDS MCInvoiceCreation, InvoiceBoard, CatalogueSaving

VARIABLE focus

\* The factures of the list are alike, as the requests are.
DocumentsSymmetry == Symmetry \cup Permutations(BoardFactures)

DocumentsTypeOK ==
  /\ focus \in {"server", "page", "catalogue"}
  /\ CASE focus = "server"    -> TypeOK
       [] focus = "page"      -> BoardTypeOK
       [] focus = "catalogue" -> CatalogueTypeOK

DocumentsInit ==
  /\ focus \in {"server", "page", "catalogue"}
  /\ Init /\ BoardInit /\ CatalogueInit
  /\ focus # "server" => tier /\ prefix = "F"
  /\ focus # "catalogue" => allowed

Still(part, partVars) == IF focus = part THEN TRUE ELSE UNCHANGED partVars

DocumentsNext ==
  /\ UNCHANGED focus
  /\ Still("server", vars) /\ Still("page", boardVars) /\ Still("catalogue", catalogueVars)
  /\ \/ focus = "server" /\ Next
     \/ focus = "page" /\ BoardNext
     \/ focus = "catalogue" /\ CatalogueNext

DocumentsSpec == DocumentsInit /\ [][DocumentsNext]_<<focus, vars, boardVars, catalogueVars>>

\* A bound: behaviours are followed up to a submission sent while a refused preview is still
\* saving, past which SavedOnceInItsPlace claims nothing.
NotMixed == ~mixed
===============================================================================
