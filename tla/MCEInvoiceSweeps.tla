---------------------------- MODULE MCEInvoiceSweeps ---------------------------
(***************************************************************************)
(* The scheduled jobs: the sweep that transmits the factures whose grace   *)
(* period is over, the one that fetches the received invoices, and the     *)
(* nudge to inactive companies. No property relates two of them, so a      *)
(* behaviour moves one part, the focus, and the state spaces add instead   *)
(* of multiplying; no fair action of a part that stands still is enabled.  *)
(***************************************************************************)
EXTENDS EInvoiceTransmission, ReceivedInvoiceSync, InvoiceNudge

VARIABLE focus

mcMaxIncoming == [c \in SyncCompanies |-> IF c = "a" THEN 3 ELSE 1]

SweepsTypeOK ==
  /\ focus \in {"transmit", "inbox", "nudge"}
  /\ CASE focus = "transmit" -> TypeOK
       [] focus = "inbox"    -> SyncTypeOK
       [] focus = "nudge"    -> PushTypeOK

SweepsInit ==
  /\ focus \in {"transmit", "inbox", "nudge"}
  /\ Init /\ SyncInit /\ PushInit
  /\ focus # "transmit" => ~connected /\ ~tier
  /\ focus # "nudge" => \A p \in Phones : owner[p] = NoCompany

SweepsNext ==
  /\ UNCHANGED focus
  /\ \/ focus = "transmit" /\ Next /\ UNCHANGED <<syncVars, pushVars>>
     \/ focus = "inbox" /\ SyncNext /\ UNCHANGED <<vars, pushVars>>
     \/ focus = "nudge" /\ PushNext /\ UNCHANGED <<vars, syncVars>>

SweepsSpec ==
  /\ SweepsInit /\ [][SweepsNext]_<<focus, vars, syncVars, pushVars>>
  /\ Fairness /\ SyncFairness
===============================================================================
