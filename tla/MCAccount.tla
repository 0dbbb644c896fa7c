------------------------------- MODULE MCAccount -------------------------------
(***************************************************************************)
(* The parts of an account that meet only through the rows of one company: *)
(* its subscriptions, its grants, its sessions, its free quota, the draft  *)
(* on its screen and one of its documents. No property relates two of      *)
(* them, so a behaviour moves one part, the focus, and the state spaces    *)
(* add instead of multiplying.                                             *)
(***************************************************************************)
EXTENDS StripeSubscription, AppleSubscription, PlanGrants, RefreshSession,
        SessionClient, InvoiceRow, FacturXQuota, GuidedDraft, TLC

VARIABLE focus

Parts == {"stripe", "apple", "grants", "session", "client", "row", "quota", "draft"}

mcSymmetry ==
  Permutations(AppleRequests) \cup Permutations(StripeSubs)

AccountTypeOK ==
  /\ focus \in Parts
  /\ CASE focus = "stripe"  -> StripeTypeOK
       [] focus = "apple"   -> AppleTypeOK
       [] focus = "grants"  -> GrantTypeOK
       [] focus = "session" -> SessionTypeOK
       [] focus = "client"  -> ClientTypeOK
       [] focus = "row"     -> InvoiceRowTypeOK
       [] focus = "quota"   -> QuotaTypeOK
       [] focus = "draft"   -> GuidedTypeOK

AccountInit ==
  /\ focus \in Parts
  /\ StripeInit /\ AppleInit /\ GrantInit /\ SessionInit /\ ClientInit
  /\ QuotaInit /\ GuidedInit /\ InvoiceRowInit
  /\ focus # "row" => document.kind = "DEVIS"

Still(part, vars) == IF focus = part THEN TRUE ELSE UNCHANGED vars

AccountNext ==
  /\ UNCHANGED focus
  /\ Still("stripe", stripeVars)   /\ Still("apple", appleVars)
  /\ Still("grants", grantVars)    /\ Still("session", sessionVars)
  /\ Still("client", clientVars)   /\ Still("row", invoiceRowVars)
  /\ Still("quota", quotaVars)    /\ Still("draft", guidedVars)
  /\ \/ focus = "stripe"  /\ StripeNext
     \/ focus = "apple"   /\ AppleNext
     \/ focus = "grants"  /\ GrantNext
     \/ focus = "session" /\ SessionNext
     \/ focus = "client"  /\ ClientNext
     \/ focus = "row"     /\ InvoiceRowNext
     \/ focus = "quota"   /\ QuotaNext
     \/ focus = "draft"   /\ GuidedNext

AccountSpec ==
  AccountInit /\ [][AccountNext]_<<focus, stripeVars, appleVars, grantVars, sessionVars,
                                   clientVars, invoiceRowVars, quotaVars, guidedVars>>
===============================================================================
