-------------------------- MODULE AppleSubscription ---------------------------
(***************************************************************************)
(* Subscriptions bought through the App Store: a purchase is linked to the *)
(* company that first verifies it (BillingService.verifyApplePurchase),    *)
(* and Apple's notifications find the company again by that link           *)
(* (handleAppleNotification). Devices re-verify old signed transactions    *)
(* ("Restaurer mes achats", Transaction.updates), notifications are late   *)
(* or repeated, and both handlers read the link before they write the row. *)
(***************************************************************************)
EXTENDS PlanTiers, FiniteSets

CONSTANTS
  AppleCompanies,
  Purchases,     \* originalTransactionIds
  NoPurchase,
  AppleTiers,    \* tiers with a configured product
  AppleRequests, \* requests in progress at one time
  AppleSeconds,  \* bound of the clock
  MaxNotifications \* bound of the notifications Apple signs

ASSUME AppleTiersAssumption == AppleTiers \subseteq PlanTier
ASSUME NoPurchaseAssumption == NoPurchase \notin Purchases
ASSUME AppleSecondsAssumption == AppleSeconds \in Nat \ {0}

VARIABLES
  \* Apple
  purchase,      \* [Purchases -> status ("unbought" at first) and tier now]
  transactions,  \* signed transactions on the devices
  notifications, \* signed notifications, delivered late and more than once
  appleSecond,   \* the clock
  \* the Company rows
  appleRow,      \* [AppleCompanies -> Apple columns]
  \* the process
  request,       \* [AppleRequests -> the update a handler is about to write]
  \* history
  toldOf         \* [AppleCompanies -> the updates written or dropped by their date]

appleVars == <<purchase, transactions, notifications, appleSecond, appleRow, request, toldOf>>

\* A grace period is mapped like a retry, a refund like an expiry.
AppleStatus == {"ACTIVE", "BILLING_RETRY", "EXPIRED"}
Dates == 1..AppleSeconds
Transactions == [id : Purchases, tier : AppleTiers, at : Dates, expires : Dates]
Notifications == [id : Purchases, status : AppleStatus, tier : AppleTiers, at : Dates]
\* What one update writes: the columns and their date.
AppleUpdates ==
  [id : Purchases, status : SubscriptionStatus, tier : AppleTiers, at : Dates]
NoUpdate == [id |-> NoPurchase, status |-> "NONE", tier |-> NoTier, at |-> 0]
NoRequest == [company |-> {}, update |-> NoUpdate]

AppleTypeOK ==
  /\ transactions \subseteq Transactions
  /\ notifications \subseteq Notifications
  /\ appleSecond \in Dates
  /\ appleRow \in [AppleCompanies -> AppleUpdates \cup {NoUpdate}]
  /\ request \in [AppleRequests -> [company : {{c} : c \in AppleCompanies},
                                    update : AppleUpdates] \cup {NoRequest}]
  /\ toldOf \in [AppleCompanies -> SUBSET AppleUpdates]

AppleInit ==
  /\ purchase = [x \in Purchases |-> "unbought"]
  /\ transactions = {} /\ notifications = {}
  /\ appleSecond = 1
  /\ appleRow = [c \in AppleCompanies |-> NoUpdate]
  /\ request = [r \in AppleRequests |-> NoRequest]
  /\ toldOf = [c \in AppleCompanies |-> {}]

-------------------------------------------------------------------------------
MapAppleStatus(status) ==
  CASE status = "ACTIVE"        -> "ACTIVE"
    [] status = "BILLING_RETRY" -> "PAST_DUE"
    [] status = "EXPIRED"       -> "CANCELED"

\* A transaction shows no more than whether it has run out since.
StatusFromTransaction(tx) == IF tx.expires < appleSecond THEN "CANCELED" ELSE "ACTIVE"

LinkedTo(id) == {c \in AppleCompanies : appleRow[c].id = id}

\* The client posts a signed transaction; one that another company holds is refused.
VerifyPurchase(r, c, tx) ==
  /\ request[r] = NoRequest
  /\ LinkedTo(tx.id) \subseteq {c}
  /\ request' = [request EXCEPT ![r] = [company |-> {c}, update |->
       [id |-> tx.id, status |-> StatusFromTransaction(tx), tier |-> tx.tier, at |-> tx.at]]]
  /\ UNCHANGED <<purchase, transactions, notifications, appleSecond, appleRow, toldOf>>

\* Apple posts a notification; one of a purchase no company holds is dropped.
HandleNotification(r, n) ==
  /\ request[r] = NoRequest
  /\ LinkedTo(n.id) # {}
  /\ request' = [request EXCEPT ![r] = [company |-> LinkedTo(n.id), update |->
       [id |-> n.id, status |-> MapAppleStatus(n.status), tier |-> n.tier, at |-> n.at]]]
  /\ UNCHANGED <<purchase, transactions, notifications, appleSecond, appleRow, toldOf>>

(* Mutant: an update without regard to its date. *)
AnyDate(c, u) == TRUE
\* The date of the row allows the update.
NotOlderApple(c, u) == appleRow[c].at = 0 \/ appleRow[c].at <= u.at

\* The conditional update that ends both handlers. The link is unique: the row of
\* another company that holds it makes the statement fail.
ApplyAppleUpdate(r) ==
  /\ request[r] # NoRequest
  /\ request' = [request EXCEPT ![r] = NoRequest]
  /\ LET u == request[r].update
         owner == CHOOSE c \in AppleCompanies : c \in request[r].company
     IN CASE ~NotOlderApple(owner, u) ->
               /\ toldOf' = [toldOf EXCEPT ![owner] = @ \cup {u}]
               /\ UNCHANGED appleRow
          [] NotOlderApple(owner, u) /\ LinkedTo(u.id) \subseteq {owner} ->
               /\ toldOf' = [toldOf EXCEPT ![owner] = @ \cup {u}]
               /\ appleRow' = [appleRow EXCEPT ![owner] = u]
          [] OTHER -> UNCHANGED <<appleRow, toldOf>>
  /\ UNCHANGED <<purchase, transactions, notifications, appleSecond>>

-------------------------------------------------------------------------------
(* Apple and the clock, outside the code                                   *)

Buy(x) ==
  /\ purchase[x] # "ACTIVE"
  /\ purchase' = [purchase EXCEPT ![x] = "ACTIVE"]
  /\ \E tier \in AppleTiers, expires \in appleSecond..AppleSeconds :
       /\ transactions' = transactions \cup
            {[id |-> x, tier |-> tier, at |-> appleSecond, expires |-> expires]}
       /\ notifications' = notifications \cup
            {[id |-> x, status |-> "ACTIVE", tier |-> tier, at |-> appleSecond]}
  /\ Cardinality(notifications') <= MaxNotifications
  /\ UNCHANGED <<appleSecond, appleRow, request, toldOf>>

StatusChanges(x) ==
  /\ purchase[x] \in {"ACTIVE", "BILLING_RETRY"}
  /\ \E status \in AppleStatus \ {purchase[x]}, tier \in AppleTiers :
       /\ purchase' = [purchase EXCEPT ![x] = status]
       /\ notifications' = notifications \cup
            {[id |-> x, status |-> status, tier |-> tier, at |-> appleSecond]}
  /\ Cardinality(notifications') <= MaxNotifications
  /\ UNCHANGED <<transactions, appleSecond, appleRow, request, toldOf>>

AppleSecondPasses ==
  /\ appleSecond < AppleSeconds
  /\ appleSecond' = appleSecond + 1
  /\ UNCHANGED <<purchase, transactions, notifications, appleRow, request, toldOf>>

AppleNext ==
  \/ \E r \in AppleRequests :
       \/ \E c \in AppleCompanies, tx \in transactions : VerifyPurchase(r, c, tx)
       \/ \E n \in notifications : HandleNotification(r, n)
       \/ ApplyAppleUpdate(r)
  \/ \E x \in Purchases : Buy(x) \/ StatusChanges(x)
  \/ AppleSecondPasses

AppleSpec == AppleInit /\ [][AppleNext]_appleVars

-------------------------------------------------------------------------------
Register == INSTANCE NewestEvent
              WITH Rows <- AppleCompanies, Event <- AppleUpdates, Nothing <- NoUpdate,
                   told <- toldOf, shown <- appleRow

(* Each company's row shows the newest update it was told of, whatever     *)
(* the order in which purchases are restored and notifications arrive      *)
(* (BillingRepository.applyAppleSubscriptionUpdate).                       *)
AppleRowIsNewest == Register!NewestSpec
===============================================================================
