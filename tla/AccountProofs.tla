----------------------------- MODULE AccountProofs -----------------------------
(* Theorems about the parts of MCAccount: StripeSubscription and            *)
(* AppleSubscription, PlanGrants, RefreshSession and SessionClient,         *)
(* InvoiceRow and FacturXQuota, for every number of companies, requests,    *)
(* purchases, events, codes, devices, tokens, calls and documents; then     *)
(* about all of them side by side.                                          *)
EXTENDS MCAccount, GuidedProofs

-------------------------------------------------------------------------------
(* AppleSubscription                                                       *)

(* A purchase is linked to one company at most: the unique column.         *)
LinkInv ==
  \A c, d \in AppleCompanies :
    appleRow[c].id # NoPurchase /\ appleRow[c].id = appleRow[d].id => c = d

(* A row shows one of the newest updates it was told of, and is empty only *)
(* before the first.                                                       *)
ShownInv ==
  \A c \in AppleCompanies :
    \/ toldOf[c] = {} /\ appleRow[c] = NoUpdate
    \/ appleRow[c] \in Register!Newest(toldOf[c])

AppleInv == AppleTypeOK /\ LinkInv /\ ShownInv

(* A company found by its link is the only one.                            *)
LEMMA OneLink ==
  ASSUME AppleInv, NEW id \in Purchases, LinkedTo(id) # {}
  PROVE  \E c \in AppleCompanies : LinkedTo(id) = {c}
<1>1. PICK c \in AppleCompanies : c \in LinkedTo(id)
  BY DEF LinkedTo
<1>2. \A d \in LinkedTo(id) : d = c
  BY <1>1, NoPurchaseAssumption DEF AppleInv, LinkInv, LinkedTo
<1> QED
  BY <1>1, <1>2

(* What a handler is about to write is dated, and for one company.         *)
LEMMA PendingUpdate ==
  ASSUME AppleInv, NEW r \in AppleRequests, request[r] # NoRequest
  PROVE  \E c \in AppleCompanies :
           /\ request[r].company = {c}
           /\ (CHOOSE d \in AppleCompanies : d \in request[r].company) = c
           /\ request[r].update \in AppleUpdates
<1>1. request[r] \in [company : {{c} : c \in AppleCompanies}, update : AppleUpdates]
  BY DEF AppleInv, AppleTypeOK
<1>2. PICK c \in AppleCompanies : request[r].company = {c}
  BY <1>1
<1>3. (CHOOSE d \in AppleCompanies : d \in request[r].company) = c
  BY <1>2
<1> QED
  BY <1>1, <1>2, <1>3

(* An update that is not older than the row is among the newest, one that  *)
(* is older leaves the newest as they were.                                *)
LEMMA NewestOfMore ==
  ASSUME AppleInv, NEW c \in AppleCompanies, NEW u \in AppleUpdates
  PROVE  /\ NotOlderApple(c, u) => u \in Register!Newest(toldOf[c] \cup {u})
         /\ ~NotOlderApple(c, u) => appleRow[c] \in Register!Newest(toldOf[c] \cup {u})
<1> USE DEF AppleInv, AppleTypeOK, NotOlderApple, Register!Newest, AppleUpdates, Dates
<1>1. u.at \in Nat /\ u.at >= 1
  BY AppleSecondsAssumption
<1>2. \A e \in toldOf[c] : e.at \in Nat /\ e.at >= 1
  BY AppleSecondsAssumption
<1>3. CASE toldOf[c] = {} /\ appleRow[c] = NoUpdate
  BY <1>1, <1>3 DEF NoUpdate
<1>4. CASE appleRow[c] \in Register!Newest(toldOf[c])
  BY <1>1, <1>2, <1>4
<1> QED
  BY <1>3, <1>4 DEF ShownInv

(* The write that ends a handler tells the row of its update, and shows it *)
(* unless it is older.                                                     *)
LEMMA ApplyTells ==
  ASSUME AppleInv, NEW r \in AppleRequests, ApplyAppleUpdate(r)
  PROVE  /\ AppleInv'
         /\ Register!NewestNext \/ UNCHANGED <<toldOf, appleRow>>
<1> DEFINE u == request[r].update
           owner == CHOOSE c \in AppleCompanies : c \in request[r].company
<1>1. /\ owner \in AppleCompanies
      /\ u \in AppleUpdates
  BY PendingUpdate DEF ApplyAppleUpdate
<1>2. /\ purchase' = purchase /\ transactions' = transactions
      /\ notifications' = notifications /\ appleSecond' = appleSecond
      /\ request' = [request EXCEPT ![r] = NoRequest]
  BY DEF ApplyAppleUpdate
<1> HIDE DEF u, owner
<1>3. CASE ~NotOlderApple(owner, u)
  <2>1. toldOf' = [toldOf EXCEPT ![owner] = @ \cup {u}] /\ appleRow' = appleRow
    BY <1>3 DEF ApplyAppleUpdate, u, owner
  <2>2. appleRow[owner] \in Register!Newest(toldOf[owner] \cup {u})
    BY <1>1, <1>3, NewestOfMore
  <2>3. AppleTypeOK'
    BY <1>1, <1>2, <2>1 DEF AppleInv, AppleTypeOK
  <2>4. ShownInv'
    BY <1>1, <2>1, <2>2 DEF AppleInv, AppleTypeOK, ShownInv, Register!Newest
  <2>5. appleRow' = [appleRow EXCEPT ![owner] = appleRow[owner]]
    BY <2>1 DEF AppleInv, AppleTypeOK
  <2>6. Register!Tell(owner, u)
    BY <2>1, <2>2, <2>5 DEF Register!Tell
  <2> QED
    BY <1>1, <2>1, <2>3, <2>4, <2>6 DEF AppleInv, LinkInv, Register!NewestNext
<1>4. CASE NotOlderApple(owner, u) /\ LinkedTo(u.id) \subseteq {owner}
  <2>1. /\ toldOf' = [toldOf EXCEPT ![owner] = @ \cup {u}]
        /\ appleRow' = [appleRow EXCEPT ![owner] = u]
    BY <1>4 DEF ApplyAppleUpdate, u, owner
  <2>2. u \in Register!Newest(toldOf[owner] \cup {u})
    BY <1>1, <1>4, NewestOfMore
  <2>3. AppleTypeOK'
    BY <1>1, <1>2, <2>1 DEF AppleInv, AppleTypeOK
  <2>4. ShownInv'
    BY <1>1, <2>1, <2>2 DEF AppleInv, AppleTypeOK, ShownInv, Register!Newest
  <2>5. LinkInv'
    BY <1>1, <1>4, <2>1 DEF AppleInv, AppleTypeOK, LinkInv, LinkedTo
  <2>6. Register!Tell(owner, u)
    BY <2>1, <2>2 DEF Register!Tell
  <2> QED
    BY <1>1, <2>3, <2>4, <2>5, <2>6 DEF AppleInv, Register!NewestNext
<1>5. CASE NotOlderApple(owner, u) /\ ~(LinkedTo(u.id) \subseteq {owner})
  <2>1. toldOf' = toldOf /\ appleRow' = appleRow
    BY <1>5 DEF ApplyAppleUpdate, u, owner
  <2> QED
    BY <1>2, <2>1 DEF AppleInv, AppleTypeOK, LinkInv, ShownInv, Register!Newest
<1> QED
  BY <1>3, <1>4, <1>5

(* Every other action leaves the rows and what they were told alone.       *)
LEMMA AppleOtherSteps ==
  ASSUME AppleInv,
         UNCHANGED <<appleRow, toldOf>>,
         AppleTypeOK'
  PROVE  AppleInv'
BY DEF AppleInv, LinkInv, ShownInv, Register!Newest

(* The invariant is inductive, and each step tells one row of one update   *)
(* or changes nothing that is shown.                                       *)
LEMMA AppleStep ==
  ASSUME AppleInv, [AppleNext]_appleVars
  PROVE  /\ AppleInv'
         /\ [Register!NewestNext]_<<toldOf, appleRow>>
<1>1. ASSUME NEW r \in AppleRequests, NEW c \in AppleCompanies, NEW tx \in transactions,
             VerifyPurchase(r, c, tx)
      PROVE  AppleTypeOK' /\ UNCHANGED <<appleRow, toldOf>>
  <2>1. tx \in Transactions
    BY DEF AppleInv, AppleTypeOK
  <2>2. [id |-> tx.id, status |-> StatusFromTransaction(tx), tier |-> tx.tier, at |-> tx.at]
          \in AppleUpdates
    BY <2>1 DEF Transactions, AppleUpdates, StatusFromTransaction, SubscriptionStatus
  <2> QED
    BY <1>1, <2>2 DEF VerifyPurchase, AppleInv, AppleTypeOK
<1>2. ASSUME NEW r \in AppleRequests, NEW n \in notifications, HandleNotification(r, n)
      PROVE  AppleTypeOK' /\ UNCHANGED <<appleRow, toldOf>>
  <2>1. n \in Notifications
    BY DEF AppleInv, AppleTypeOK
  <2>2. [id |-> n.id, status |-> MapAppleStatus(n.status), tier |-> n.tier, at |-> n.at]
          \in AppleUpdates
    BY <2>1 DEF Notifications, AppleUpdates, AppleStatus, MapAppleStatus, SubscriptionStatus
  <2>3. LinkedTo(n.id) \in {{c} : c \in AppleCompanies}
    BY <1>2, <2>1, OneLink DEF HandleNotification, Notifications
  <2> QED
    BY <1>2, <2>2, <2>3 DEF HandleNotification, AppleInv, AppleTypeOK
<1>3. ASSUME NEW x \in Purchases, Buy(x)
      PROVE  AppleTypeOK' /\ UNCHANGED <<appleRow, toldOf>>
  BY <1>3, AppleSecondsAssumption
  DEF Buy, AppleInv, AppleTypeOK, Transactions, Notifications, AppleStatus, Dates
<1>4. ASSUME NEW x \in Purchases, StatusChanges(x)
      PROVE  AppleTypeOK' /\ UNCHANGED <<appleRow, toldOf>>
  BY <1>4 DEF StatusChanges, AppleInv, AppleTypeOK, Notifications, AppleStatus
<1>5. CASE AppleSecondPasses
  BY <1>5, AppleOtherSteps, AppleSecondsAssumption DEF AppleSecondPasses, AppleInv, AppleTypeOK, Dates
<1>6. ASSUME NEW r \in AppleRequests, ApplyAppleUpdate(r)
      PROVE  AppleInv' /\ [Register!NewestNext]_<<toldOf, appleRow>>
  BY <1>6, ApplyTells
<1>7. CASE UNCHANGED appleVars
  BY <1>7, AppleOtherSteps DEF appleVars, AppleInv, AppleTypeOK
<1> QED
  BY <1>1, <1>2, <1>3, <1>4, <1>5, <1>6, <1>7, AppleOtherSteps DEF AppleNext

LEMMA AppleStarts == AppleInit => AppleInv /\ Register!NewestInit
BY AppleSecondsAssumption
DEF AppleInit, AppleInv, AppleTypeOK, LinkInv, ShownInv, Register!NewestInit, NoUpdate, Dates

(* A purchase is never linked to two companies, however its verifications  *)
(* interleave (applyAppleSubscriptionUpdate and its unique column).        *)
THEOREM AppleTypes == AppleSpec => [](AppleTypeOK /\ LinkInv)
<1>1. AppleSpec => []AppleInv
  BY AppleStarts, AppleStep, PTL DEF AppleSpec
<1> QED
  BY <1>1, PTL DEF AppleInv

(* Each company's row shows the newest update it was told of, whatever     *)
(* the order in which purchases are restored and notifications arrive: the *)
(* two handlers implement NewestEvent.                                     *)
THEOREM AppleShowsNewest == AppleSpec => AppleRowIsNewest
<1>1. AppleSpec => []AppleInv
  BY AppleStarts, AppleStep, PTL DEF AppleSpec
<1>2. AppleInit => Register!NewestInit
  BY AppleStarts
<1>3. AppleInv /\ [AppleNext]_appleVars => [Register!NewestNext]_(Register!newestVars)
  BY AppleStep DEF Register!newestVars
<1> QED
  BY <1>1, <1>2, <1>3, PTL DEF AppleSpec, AppleRowIsNewest, Register!NewestSpec

-------------------------------------------------------------------------------
(* StripeSubscription                                                      *)

(* An idempotency key names one session, and a session makes one           *)
(* subscription.                                                           *)
SessionInv ==
  /\ \A x, y \in sessions : x.key = y.key => x = y
  /\ \A s, r \in StripeSubs :
       s # r /\ subscriptions[s] # NoSub => subscriptions[s].session # subscriptions[r].session

\* e is what Stripe said last of its subscription.
LatestOfSub(e) == \A f \in sent : f.sub = e.sub => f.at <= e.at

(* No event is of the future, and what a subscription is now was said by   *)
(* an event that none of its own follows.                                  *)
EventInv ==
  /\ IsFiniteSet(sent)
  /\ \A e \in sent : e.at <= second /\ subscriptions[e.sub] # NoSub
  /\ \A s \in StripeSubs : subscriptions[s] # NoSub =>
       \E e \in sent : /\ e.sub = s /\ LatestOfSub(e)
                       /\ e.status = subscriptions[s].status
                       /\ e.tier = subscriptions[s].tier

\* The row is what e left.
RowShows(e) ==
  /\ billing.sub = e.sub /\ billing.eventAt = e.at
  /\ billing.status = MapStripeStatus(e.status) /\ billing.tier = e.tier

(* The row shows one of the newest events it received.                     *)
RowInv ==
  \/ received = {} /\ billing.eventAt = 0
  \/ \E e \in received : RowShows(e) /\ \A f \in received : f.at <= e.at

(* A checkout under way is for a tier that is sold.                        *)
CheckoutInv == \A t \in Tabs : checkout[t].pc # "idle" => checkout[t].tier \in SoldTiers

StripeInv == StripeTypeOK /\ SessionInv /\ EventInv /\ RowInv /\ CheckoutInv

LEMMA StripeStarts == StripeInit => StripeInv
BY FS_EmptySet, StripeSecondsAssumption
DEF StripeInit, StripeInv, StripeTypeOK, SessionInv, EventInv, RowInv, CheckoutInv, NoSub, NoCheckout,
    SubscriptionStatus, Coupons

(* An event sent now is the latest of its subscription, and changes        *)
(* nothing for the others.                                                 *)
LEMMA EmitKeeps ==
  ASSUME StripeInv, NEW s \in StripeSubs, NEW x \in sessions, NEW status \in StripeStatus,
         NEW tier \in SoldTiers,
         Emit(s, [status |-> status, tier |-> tier, session |-> <<x>>]),
         subscriptions[s] = NoSub \/ subscriptions[s].session = <<x>>,
         \A r \in StripeSubs : r # s => subscriptions[r].session # <<x>>
  PROVE  StripeInv'
<1> DEFINE e == [sub |-> s, status |-> status, tier |-> tier, at |-> second]
           sub == [status |-> status, tier |-> tier, session |-> <<x>>]
<1>1. /\ subscriptions' = [subscriptions EXCEPT ![s] = sub]
      /\ sent' = sent \cup {e}
      /\ UNCHANGED <<sessions, customers, billing, checkout, referral, offers, second, received>>
  BY DEF Emit
<1>2. e \in StripeEvents
  BY DEF StripeEvents, StripeInv, StripeTypeOK
<1>3. sub # NoSub
  BY DEF NoSub, StripeStatus
<1>4. /\ subscriptions'[s] = sub
      /\ \A r \in StripeSubs : r # s => subscriptions'[r] = subscriptions[r]
  BY <1>1 DEF StripeInv, StripeTypeOK
<1> HIDE DEF sub
<1>5. StripeTypeOK'
  <2>1. sub \in [status : StripeStatus, tier : SoldTiers, session : {<<y>> : y \in sessions}]
    BY DEF sub
  <2> QED
    BY <1>1, <1>2, <2>1 DEF StripeInv, StripeTypeOK
<1>6. SessionInv'
  <2>1. sub.session = <<x>>
    BY DEF sub
  <2>2. ASSUME NEW q \in StripeSubs, NEW r \in StripeSubs, q # r, subscriptions'[q] # NoSub
        PROVE  subscriptions'[q].session # subscriptions'[r].session
    BY <1>4, <2>1, <2>2 DEF StripeInv, SessionInv
  <2> QED
    BY <1>1, <2>2 DEF StripeInv, SessionInv
<1>7. EventInv'
  <2>1. IsFiniteSet(sent')
    BY <1>1, FS_AddElement DEF StripeInv, EventInv
  <2>2. \A f \in sent' : f.at <= second /\ subscriptions'[f.sub] # NoSub
    BY <1>1, <1>2, <1>3, <1>4 DEF StripeInv, StripeTypeOK, EventInv, StripeEvents
  <2>3. e \in sent' /\ \A f \in sent' : f.at <= e.at
    BY <1>1, <2>2
  <2>4. ASSUME NEW r \in StripeSubs, subscriptions'[r] # NoSub
        PROVE  \E f \in sent' : /\ f.sub = r /\ LatestOfSub(f)'
                                /\ f.status = subscriptions'[r].status
                                /\ f.tier = subscriptions'[r].tier
    <3>1. CASE r = s
      <4>1. PICK f \in sent' : f = e
        BY <2>3
      <4>2. LatestOfSub(f)'
        BY <2>3, <4>1 DEF LatestOfSub
      <4> QED
        BY <1>4, <3>1, <4>1, <4>2 DEF sub
    <3>2. CASE r # s
      <4>1. PICK f \in sent : /\ f.sub = r /\ LatestOfSub(f)
                             /\ f.status = subscriptions[r].status
                             /\ f.tier = subscriptions[r].tier
        BY <1>4, <2>4, <3>2 DEF StripeInv, EventInv
      <4>2. LatestOfSub(f)'
        BY <1>1, <3>2, <4>1 DEF LatestOfSub
      <4> QED
        BY <1>1, <1>4, <3>2, <4>1, <4>2
    <3> QED
      BY <3>1, <3>2
  <2> QED
    BY <1>1, <2>1, <2>2, <2>4 DEF EventInv
<1>8. RowInv'
  BY <1>1 DEF StripeInv, RowInv, RowShows
<1> QED
  BY <1>1, <1>5, <1>6, <1>7, <1>8 DEF StripeInv, CheckoutInv

(* The conditional update keeps the newest event received in the row.      *)
LEMMA WebhookKeeps ==
  ASSUME StripeInv, NEW e \in sent, HandleWebhook(e)
  PROVE  StripeInv'
<1>1. /\ received' = received \cup {e}
      /\ UNCHANGED <<subscriptions, sessions, customers, sent, checkout, referral, offers, second>>
  BY DEF HandleWebhook
<1>2. /\ \A f \in sent : f.at \in Nat /\ f.at >= 1
      /\ received \subseteq sent
  BY DEF StripeInv, StripeTypeOK, StripeEvents
<1>3. CASE NotOlder(e)
  <2>1. billing' = [billing EXCEPT !.sub = e.sub, !.status = MapStripeStatus(e.status),
                      !.tier = e.tier, !.eventAt = e.at, !.pendingReferralDiscount = FALSE]
    BY <1>3 DEF HandleWebhook, ApplySubscriptionUpdate
  <2>2. MapStripeStatus(e.status) \in SubscriptionStatus
    BY DEF MapStripeStatus, SubscriptionStatus
  <2>3. /\ e.sub \in StripeSubs \cup {"none"} /\ e.tier \in PlanTier \cup {NoTier}
        /\ e.at \in 0..StripeSeconds
    BY SoldTiersAssumption DEF StripeInv, StripeTypeOK, StripeEvents
  <2>4. billing' \in [customer : 0..customers, sub : StripeSubs \cup {"none"},
                    status : SubscriptionStatus, tier : PlanTier \cup {NoTier},
                    eventAt : 0..StripeSeconds, pendingReferralDiscount : BOOLEAN]
    BY <2>1, <2>2, <2>3 DEF StripeInv, StripeTypeOK
  <2>7. StripeTypeOK'
    BY <1>1, <2>4 DEF StripeInv, StripeTypeOK
  <2>5. RowShows(e)'
    BY <2>1 DEF RowShows, StripeInv, StripeTypeOK, MapStripeStatus
  <2>6. \A f \in received' : f.at <= e.at
    BY <1>1, <1>2, <1>3 DEF NotOlder, StripeInv, RowInv, RowShows
  <2> QED
    BY <1>1, <2>5, <2>6, <2>7 DEF StripeInv, SessionInv, EventInv, LatestOfSub, RowInv, CheckoutInv
<1>4. CASE ~NotOlder(e)
  <2>1. billing' = billing
    BY <1>4 DEF HandleWebhook
  <2>2. PICK f \in received : RowShows(f) /\ \A g \in received : g.at <= f.at
    BY <1>4 DEF NotOlder, StripeInv, RowInv
  <2>3. e.at <= f.at
    BY <1>2, <1>4, <2>2 DEF NotOlder, RowShows
  <2>4. RowInv'
    BY <1>1, <2>1, <2>2, <2>3 DEF RowInv, RowShows
  <2> QED
    BY <1>1, <2>1, <2>4 DEF StripeInv, StripeTypeOK, SessionInv, EventInv, LatestOfSub, CheckoutInv
<1> QED
  BY <1>3, <1>4

(* The second invariant part: what only the checkout and the clock move.   *)
LEMMA UnmovedKeeps ==
  ASSUME StripeInv, StripeTypeOK', SessionInv', CheckoutInv',
         UNCHANGED <<subscriptions, sent, received, second>>,
         billing'.sub = billing.sub, billing'.status = billing.status,
         billing'.tier = billing.tier, billing'.eventAt = billing.eventAt
  PROVE  StripeInv'
BY DEF StripeInv, EventInv, LatestOfSub, RowInv, RowShows

(* Opening a checkout, and the Customer made and saved for it.             *)
LEMMA CheckoutKeeps ==
  ASSUME StripeInv, NEW t \in Tabs,
         \/ \E tier \in SoldTiers : StartCheckout(t, tier)
         \/ CreateCustomer(t) \/ SetStripeCustomerId(t)
  PROVE  StripeInv'
<1>1. ASSUME NEW tier \in SoldTiers, StartCheckout(t, tier) PROVE StripeInv'
  <2>1. DiscountKind(tier, billing.pendingReferralDiscount, "trial" \in offers, "launch" \in offers)
          \in Coupons
    BY DEF DiscountKind, Coupons
  <2>2. billing.customer \in 0..customers
    BY DEF StripeInv, StripeTypeOK
  <2>3. StripeTypeOK' /\ CheckoutInv'
    BY <1>1, <2>1, <2>2 DEF StartCheckout, StripeInv, StripeTypeOK, CheckoutInv
  <2> QED
    BY <1>1, <2>3, UnmovedKeeps DEF StartCheckout, StripeInv, SessionInv
<1>2. CASE CreateCustomer(t)
  <2>1. billing.customer \in 0..(customers + 1) /\ customers + 1 \in Nat
    BY DEF StripeInv, StripeTypeOK
  <2>2. \A u \in Tabs : checkout[u].customer \in 0..(customers + 1)
    BY DEF StripeInv, StripeTypeOK
  <2>3. billing' \in [customer : 0..customers', sub : StripeSubs \cup {"none"},
                    status : SubscriptionStatus, tier : PlanTier \cup {NoTier},
                    eventAt : 0..StripeSeconds, pendingReferralDiscount : BOOLEAN]
    BY <1>2, <2>1 DEF CreateCustomer, StripeInv, StripeTypeOK
  <2>4. checkout' \in [Tabs -> [pc : {"idle", "customer", "save", "session"},
                               tier : SoldTiers \cup {NoTier}, customer : 0..customers',
                               coupon : Coupons]]
    BY <1>2, <2>1, <2>2 DEF CreateCustomer, StripeInv, StripeTypeOK
  <2>5. StripeTypeOK'
    BY <1>2, <2>1, <2>3, <2>4 DEF CreateCustomer, StripeInv, StripeTypeOK
  <2>6. CheckoutInv'
    BY <1>2 DEF CreateCustomer, StripeInv, StripeTypeOK, CheckoutInv
  <2> QED
    BY <1>2, <2>5, <2>6, UnmovedKeeps DEF CreateCustomer, StripeInv, SessionInv
<1>3. CASE SetStripeCustomerId(t)
  <2>1. checkout[t].customer \in 0..customers
    BY DEF StripeInv, StripeTypeOK
  <2>2. StripeTypeOK' /\ CheckoutInv'
    BY <1>3, <2>1 DEF SetStripeCustomerId, StripeInv, StripeTypeOK, CheckoutInv
  <2>3. /\ billing'.sub = billing.sub /\ billing'.status = billing.status
        /\ billing'.tier = billing.tier /\ billing'.eventAt = billing.eventAt
    BY <1>3 DEF SetStripeCustomerId, StripeInv, StripeTypeOK
  <2> QED
    BY <1>3, <2>2, <2>3, UnmovedKeeps DEF SetStripeCustomerId, StripeInv, SessionInv
<1> QED
  BY <1>1, <1>2, <1>3

(* A session opened has a key no other has.                                *)
LEMMA CreateSessionKeeps ==
  ASSUME StripeInv, NEW t \in Tabs, CreateSession(t)
  PROVE  StripeInv'
<1>1. /\ UNCHANGED <<subscriptions, customers, sent, billing, referral, offers, second, received>>
      /\ checkout' = [checkout EXCEPT ![t] = NoCheckout]
      /\ sessions \subseteq sessions'
  BY DEF CreateSession
<1>2. StripeTypeOK'
  <2>1. \A x \in sessions' : x.tier \in SoldTiers /\ x.coupon \in Coupons
    BY DEF CreateSession, SessionOf, StripeInv, StripeTypeOK, CheckoutInv
  <2>2. NoCheckout \in [pc : {"idle", "customer", "save", "session"},
                       tier : SoldTiers \cup {NoTier}, customer : 0..customers, coupon : Coupons]
    BY DEF NoCheckout, Coupons, StripeInv, StripeTypeOK
  <2>3. \A sub : sub \in [status : StripeStatus, tier : SoldTiers, session : {<<x>> : x \in sessions}]
          => sub \in [status : StripeStatus, tier : SoldTiers, session : {<<x>> : x \in sessions'}]
    BY <1>1
  <2>4. subscriptions' \in [StripeSubs -> {NoSub} \cup
         [status : StripeStatus, tier : SoldTiers, session : {<<x>> : x \in sessions'}]]
    BY <1>1, <2>3 DEF StripeInv, StripeTypeOK
  <2> QED
    BY <1>1, <2>1, <2>2, <2>4 DEF StripeInv, StripeTypeOK
<1>3. SessionInv'
  BY <1>1 DEF CreateSession, StripeInv, SessionInv
<1>4. CheckoutInv'
  BY <1>1 DEF StripeInv, StripeTypeOK, CheckoutInv, NoCheckout
<1> QED
  BY <1>1, <1>2, <1>3, <1>4, UnmovedKeeps

(* What Stripe does to a subscription, it does to one of a session of its  *)
(* own.                                                                    *)
LEMMA StripeEmits ==
  ASSUME StripeInv, NEW s \in StripeSubs,
         ChangeSubscription(s) \/ \E x \in sessions : CompleteSession(s, x)
  PROVE  StripeInv'
<1>1. ASSUME NEW x \in sessions, CompleteSession(s, x) PROVE StripeInv'
  <2>1. PICK status \in {"active", "incomplete"} :
          Emit(s, [status |-> status, tier |-> x.tier, session |-> <<x>>])
    BY <1>1 DEF CompleteSession
  <2>2. status \in StripeStatus /\ x.tier \in SoldTiers
    BY DEF StripeStatus, StripeInv, StripeTypeOK
  <2> QED
    BY <1>1, <2>1, <2>2, EmitKeeps DEF CompleteSession
<1>2. CASE ChangeSubscription(s)
  <2>1. PICK status \in NextStatus[subscriptions[s].status], tier \in SoldTiers :
          Emit(s, [status |-> status, tier |-> tier, session |-> subscriptions[s].session])
    BY <1>2 DEF ChangeSubscription
  <2>2. subscriptions[s] # NoSub
    BY <2>1 DEF NoSub, NextStatus
  <2>3. PICK x \in sessions :
          /\ subscriptions[s] \in [status : StripeStatus, tier : SoldTiers, session : {<<x>>}]
    BY <2>2 DEF StripeInv, StripeTypeOK
  <2>4. status \in StripeStatus
    BY <2>1, <2>3 DEF NextStatus, StripeStatus
  <2>5. /\ subscriptions[s].session = <<x>>
        /\ \A r \in StripeSubs : r # s => subscriptions[r].session # <<x>>
    BY <2>2, <2>3 DEF StripeInv, SessionInv
  <2> QED
    BY <2>1, <2>4, <2>5, EmitKeeps
<1> QED
  BY <1>1, <1>2

(* The referral, the end of an offer and the clock leave the rest alone.   *)
LEMMA StripeAsideKeeps ==
  ASSUME StripeInv,
         \/ ReadForReferral \/ GrantReferralDiscount \/ SecondPasses
         \/ \E o \in offers : OfferEnds(o)
         \/ UNCHANGED stripeVars
  PROVE  StripeInv'
<1>1. CASE SecondPasses
  <2>1. \A e \in sent : e.at \in Nat
    BY DEF StripeInv, StripeTypeOK, StripeEvents
  <2>2. StripeTypeOK' /\ EventInv'
    BY <1>1, <2>1, StripeSecondsAssumption
    DEF SecondPasses, StripeInv, StripeTypeOK, EventInv, LatestOfSub
  <2> QED
    BY <1>1, <2>2 DEF SecondPasses, StripeInv, SessionInv, RowInv, RowShows, CheckoutInv
<1>2. CASE GrantReferralDiscount
  <2>1. billing' = [billing EXCEPT !.pendingReferralDiscount = @ \/ ~referral.live]
    BY <1>2 DEF GrantReferralDiscount
  <2>2. StripeTypeOK'
    BY <1>2, <2>1 DEF GrantReferralDiscount, StripeInv, StripeTypeOK
  <2>3. /\ billing'.sub = billing.sub /\ billing'.status = billing.status
        /\ billing'.tier = billing.tier /\ billing'.eventAt = billing.eventAt
    BY <2>1 DEF StripeInv, StripeTypeOK
  <2> QED
    BY <1>2, <2>2, <2>3, UnmovedKeeps DEF GrantReferralDiscount, StripeInv, SessionInv, CheckoutInv
<1>3. CASE ReadForReferral
  BY <1>3, UnmovedKeeps DEF ReadForReferral, StripeInv, StripeTypeOK, SessionInv, CheckoutInv
<1>4. CASE \E o \in offers : OfferEnds(o)
  BY <1>4, UnmovedKeeps DEF OfferEnds, StripeInv, StripeTypeOK, SessionInv, CheckoutInv
<1>5. CASE UNCHANGED stripeVars
  BY <1>5, UnmovedKeeps DEF stripeVars, StripeInv, StripeTypeOK, SessionInv, CheckoutInv
<1> QED
  BY <1>1, <1>2, <1>3, <1>4, <1>5

LEMMA StripeStep == StripeInv /\ [StripeNext]_stripeVars => StripeInv'
BY WebhookKeeps, CheckoutKeeps, CreateSessionKeeps, StripeEmits, StripeAsideKeeps DEF StripeNext

LEMMA StripeAlways == StripeSpec => []StripeInv
BY StripeStarts, StripeStep, PTL DEF StripeSpec

(* The row, the checkouts under way and the events keep their types: a     *)
(* customer saved is one that was created, and an event received one that  *)
(* was sent.                                                               *)
THEOREM StripeTypes == StripeSpec => []StripeTypeOK
<1>1. StripeInv => StripeTypeOK
  BY DEF StripeInv
<1> QED
  BY <1>1, StripeAlways, PTL

(* Once every event was delivered, in whatever order and however often,    *)
(* the row shows what Stripe has for the subscription that changed last:   *)
(* the newest event received is in the row, and the newest sent says what  *)
(* the subscription is.                                                    *)
THEOREM SettledRow == StripeSpec => []SettledRowIsTrue
<1>1. StripeInv => SettledRowIsTrue
  <2> SUFFICES ASSUME StripeInv, received = sent, Cardinality(LastEvents) = 1,
                      NEW e \in LastEvents
               PROVE  /\ billing.sub = e.sub
                      /\ billing.status = MapStripeStatus(subscriptions[e.sub].status)
                      /\ billing.tier = subscriptions[e.sub].tier
    BY DEF SettledRowIsTrue
  <2>1. LastEvents = {e}
    <3>1. IsFiniteSet(LastEvents)
      BY FS_Subset DEF LastEvents, StripeInv, EventInv
    <3> QED
      BY <3>1, FS_Singleton
  <2>2. \A f \in sent : f.at \in Nat /\ f.sub \in StripeSubs
    BY DEF StripeInv, StripeTypeOK, StripeEvents
  <2>3. e \in sent /\ \A f \in sent : f.at <= e.at
    BY DEF LastEvents
  <2>4. RowShows(e)
    <3>1. PICK f \in received : RowShows(f) /\ \A g \in received : g.at <= f.at
      BY <2>3 DEF StripeInv, RowInv
    <3>2. f \in LastEvents
      BY <3>1 DEF LastEvents
    <3> QED
      BY <2>1, <3>1, <3>2
  <2>5. PICK f \in sent : /\ f.sub = e.sub /\ LatestOfSub(f)
                         /\ f.status = subscriptions[e.sub].status
                         /\ f.tier = subscriptions[e.sub].tier
    BY <2>2, <2>3 DEF StripeInv, EventInv
  <2>6. f.at = e.at
    BY <2>2, <2>3, <2>5 DEF LatestOfSub
  <2>7. f = e
    BY <2>1, <2>3, <2>6 DEF LastEvents
  <2> QED
    BY <2>4, <2>5, <2>7 DEF RowShows
<1> QED
  BY <1>1, StripeAlways, PTL

(* Two subscriptions never come from one tier in one window: a key opens   *)
(* one session, and a session makes one subscription.                      *)
THEOREM OnePerWindow == StripeSpec => []OneSubscriptionPerWindow
<1>1. StripeInv => OneSubscriptionPerWindow
  <2> SUFFICES ASSUME StripeInv, NEW s \in StripeSubs, NEW r \in StripeSubs, s # r,
                      subscriptions[s] # NoSub, subscriptions[r] # NoSub
               PROVE  subscriptions[s].session[1].key # subscriptions[r].session[1].key
    BY DEF OneSubscriptionPerWindow
  <2>1. PICK x \in sessions : subscriptions[s].session = <<x>>
    BY DEF StripeInv, StripeTypeOK
  <2>2. PICK y \in sessions : subscriptions[r].session = <<y>>
    BY DEF StripeInv, StripeTypeOK
  <2>3. x # y
    BY <2>1, <2>2 DEF StripeInv, SessionInv
  <2> QED
    BY <2>1, <2>2, <2>3 DEF StripeInv, SessionInv
<1> QED
  BY <1>1, StripeAlways, PTL

-------------------------------------------------------------------------------
(* PlanGrants                                                              *)

\* What a request carries fits the statement it is about to run.
GoodRequest(q) ==
  /\ q.pc \in {"has", "record"} => q.kind = "redeem"
  /\ q.kind = "redeem" => q.code \in Codes /\ q.tier \in PlanTier /\ q.days > 0
  /\ q.pc \in {"consume", "referral", "tier", "discount", "mark"} => q.kind = "verify"
  /\ q.kind = "verify" => q.code \in Mails
  /\ q.pc \in {"read", "write"} => q.tier \in PlanTier /\ q.days > 0
  /\ q.pc = "write" => q.at <= today

RequestInv == \A g \in GrantRequests : GoodRequest(grantReq[g])

\* g has recorded its redemption of k by c and has not yet written the grant.
Owes(g, k, c) ==
  /\ grantReq[g].pc \in {"read", "write"} /\ grantReq[g].kind = "redeem"
  /\ grantReq[g].code = k /\ grantReq[g].company = c

\* No request can record a redemption of k by c any more.
Spent(k, c) == <<k, c>> \in redemptions \/ code[k].state = "deleted"

(* A redemption is recorded before its days are given, by one request, and *)
(* never a second time.                                                    *)
OnceFor(k, c) ==
  /\ credited[<<k, c>>] \in {0, 1}
  /\ credited[<<k, c>>] = 1 => Spent(k, c) /\ \A g \in GrantRequests : ~Owes(g, k, c)
  /\ \A g \in GrantRequests : Owes(g, k, c) =>
       Spent(k, c) /\ \A h \in GrantRequests : Owes(h, k, c) => h = g

OnceInv == \A k \in Codes, c \in GrantCompanies : OnceFor(k, c)

\* The redemptions of one code.
RowsOf(k) == {x \in redemptions : x[1] = k}

CountInv ==
  /\ IsFiniteSet(redemptions)
  /\ \A k \in Codes : code[k].state # "deleted" => code[k].count = Cardinality(RowsOf(k))

GrantInv == GrantTypeOK /\ RequestInv /\ OnceInv /\ CountInv

(* A request that has not begun, and what an update of one field or three  *)
(* leaves of its type.                                                     *)
LEMMA FreshRequest ==
  /\ FreshReq.seen = NoGrant /\ NoGrant \in Grants
  /\ FreshReq \in RequestRecords
BY ReferralAssumption DEF FreshReq, NoGrant, Grants, RequestRecords

LEMMA RequestMoves ==
  ASSUME NEW q \in RequestRecords,
         NEW pc \in {"done", "record", "referral", "tier", "mark", "discount", "read", "write"}
  PROVE  /\ [q EXCEPT !.pc = pc] \in RequestRecords
         /\ \A at \in Nat, seen \in Grants :
              [q EXCEPT !.pc = pc, !.at = at, !.seen = seen] \in RequestRecords
         /\ \A tier \in PlanTier, days \in Nat :
              [q EXCEPT !.pc = pc, !.tier = tier, !.days = days] \in RequestRecords
<1> USE DEF RequestRecords
<1>1. [q EXCEPT !.pc = pc] \in RequestRecords
  OBVIOUS
<1>2. ASSUME NEW at \in Nat, NEW seen \in Grants
      PROVE  [q EXCEPT !.pc = pc, !.at = at, !.seen = seen] \in RequestRecords
  OBVIOUS
<1>3. ASSUME NEW tier \in PlanTier, NEW days \in Nat
      PROVE  [q EXCEPT !.pc = pc, !.tier = tier, !.days = days] \in RequestRecords
  OBVIOUS
<1> QED
  BY <1>1, <1>2, <1>3

LEMMA GrantStarts == GrantInit => GrantInv
<1> SUFFICES ASSUME GrantInit PROVE GrantInv
  OBVIOUS
<1>2. GrantTypeOK
  <2>1. /\ grant \in [GrantCompanies -> Grants]
        /\ grantReq \in [GrantRequests -> RequestRecords]
    BY FreshRequest DEF GrantInit
  <2>2. code \in [Codes -> [state : {"active", "inactive", "deleted"}, count : Nat]]
    BY DEF GrantInit
  <2>3. credited \in [Codes \X GrantCompanies -> Nat]
    BY DEF GrantInit
  <2>4. rewardGranted \in BOOLEAN
    BY DEF GrantInit
  <2> QED
    BY <2>1, <2>2, <2>3, <2>4 DEF GrantInit, GrantTypeOK
<1>3. RequestInv /\ OnceInv
  BY DEF GrantInit, RequestInv, GoodRequest, FreshReq, OnceInv, OnceFor, Owes
<1>4. CountInv
  <2>1. \A k : RowsOf(k) = {}
    BY DEF GrantInit, RowsOf
  <2> QED
    BY <2>1, FS_EmptySet DEF GrantInit, CountInv
<1> QED
  BY <1>2, <1>3, <1>4 DEF GrantInv

(* What is known of a code and a company stays known while no request      *)
(* starts to owe its days, none of its rows is taken back and nothing is   *)
(* credited.                                                               *)
LEMMA OnceMoves ==
  ASSUME NEW k \in Codes, NEW c \in GrantCompanies, OnceFor(k, c),
         credited'[<<k, c>>] = credited[<<k, c>>],
         \A h \in GrantRequests : Owes(h, k, c)' => Owes(h, k, c),
         Spent(k, c) => Spent(k, c)'
  PROVE  OnceFor(k, c)'
BY DEF OnceFor

(* A request that moves on without recording or writing keeps what is      *)
(* known of the codes, as long as it owes nothing it did not owe before.   *)
LEMMA MovesKeep ==
  ASSUME GrantInv, GrantTypeOK', RequestInv',
         UNCHANGED <<code, redemptions, credited>>,
         \A h \in GrantRequests, k \in Codes, c \in GrantCompanies : Owes(h, k, c)' => Owes(h, k, c)
  PROVE  GrantInv'
<1>1. OnceInv'
  BY OnceMoves DEF GrantInv, OnceInv, Spent
<1>2. CountInv'
  BY DEF GrantInv, CountInv, RowsOf
<1> QED
  BY <1>1, <1>2 DEF GrantInv

(* The statements that read, and the failures.                             *)
LEMMA ReadsKeep ==
  ASSUME GrantInv, NEW g \in GrantRequests,
         \/ ReadGrant(g) \/ HasRedeemed(g) \/ ConsumeMailToken(g) \/ FindReferral(g)
         \/ ReadReferrerTier(g) \/ GiveDiscount(g) \/ MarkRewardGranted(g) \/ RequestDies(g)
  PROVE  GrantInv'
<1> USE DEF Goto
<1>1. CASE ReadGrant(g)
  <2>1. GrantTypeOK'
    <3>1. grantReq[g] \in RequestRecords /\ today \in Nat
      BY DEF GrantInv, GrantTypeOK
    <3>2. grant[grantReq[g].company] \in Grants
      BY <3>1 DEF GrantInv, GrantTypeOK, RequestRecords
    <3> QED
      BY <1>1, <3>1, <3>2, RequestMoves DEF ReadGrant, GrantInv, GrantTypeOK
  <2>2. RequestInv'
    BY <1>1 DEF ReadGrant, GrantInv, GrantTypeOK, RequestRecords, RequestInv, GoodRequest
  <2>3. \A h \in GrantRequests, k \in Codes, c \in GrantCompanies : Owes(h, k, c)' => Owes(h, k, c)
    BY <1>1 DEF ReadGrant, GrantInv, GrantTypeOK, RequestRecords, Owes
  <2> QED
    BY <1>1, <2>1, <2>2, <2>3, MovesKeep DEF ReadGrant
<1>2. CASE ReadReferrerTier(g)
  <2>1. ReferrerTier \in PlanTier
    BY ReferralAssumption
    DEF GrantInv, GrantTypeOK, Grants, ReferrerTier, CapsTier, EffectivePlanTier, GrantTier, HigherTier,
        NoTier, PlanTier, Essentiel, Pro, Premium
  <2>2. RewardDays[ReferrerTier] \in Nat \ {0}
    BY <2>1 DEF RewardDays, PlanTier, Essentiel, Pro, Premium
  <2>3. GrantTypeOK'
    <3>1. grantReq[g] \in RequestRecords /\ Premium \in PlanTier
      BY DEF GrantInv, GrantTypeOK, PlanTier
    <3> QED
      BY <1>2, <2>2, <3>1, RequestMoves DEF ReadReferrerTier, GrantInv, GrantTypeOK
  <2>4. RequestInv'
    BY <1>2, <2>2
    DEF ReadReferrerTier, GrantInv, GrantTypeOK, RequestRecords, RequestInv, GoodRequest, PlanTier
  <2>5. \A h \in GrantRequests, k \in Codes, c \in GrantCompanies : Owes(h, k, c)' => Owes(h, k, c)
    BY <1>2 DEF ReadReferrerTier, GrantInv, GrantTypeOK, RequestRecords, RequestInv, GoodRequest, Owes
  <2> QED
    BY <1>2, <2>3, <2>4, <2>5, MovesKeep DEF ReadReferrerTier
<1>3. ASSUME NEW pc \in {"done", "record", "referral", "tier", "mark"},
             grantReq' = [grantReq EXCEPT ![g].pc = pc],
             pc = "record" => grantReq[g].kind = "redeem",
             pc \in {"referral", "tier", "mark"} => grantReq[g].kind = "verify",
             UNCHANGED <<grant, code, redemptions, today, credited>>,
             consumed' \subseteq Mails, rewardGranted' \in BOOLEAN
      PROVE  GrantInv'
  <2>1. GrantTypeOK'
    BY <1>3, RequestMoves DEF GrantInv, GrantTypeOK
  <2>2. RequestInv'
    BY <1>3 DEF GrantInv, GrantTypeOK, RequestRecords, RequestInv, GoodRequest
  <2>3. \A h \in GrantRequests, k \in Codes, c \in GrantCompanies : Owes(h, k, c)' => Owes(h, k, c)
    BY <1>3 DEF GrantInv, GrantTypeOK, RequestRecords, Owes
  <2> QED
    BY <1>3, <2>1, <2>2, <2>3, MovesKeep
<1>4. CASE HasRedeemed(g)
  BY <1>3, <1>4 DEF HasRedeemed, GrantInv, GrantTypeOK, RequestRecords, RequestInv, GoodRequest
<1>5. CASE ConsumeMailToken(g)
  BY <1>3, <1>5 DEF ConsumeMailToken, GrantInv, GrantTypeOK, RequestRecords, RequestInv, GoodRequest
<1>6. CASE FindReferral(g) \/ GiveDiscount(g)
  BY <1>3, <1>6 DEF FindReferral, GiveDiscount, GrantInv, GrantTypeOK, RequestRecords, RequestInv, GoodRequest
<1>7. CASE MarkRewardGranted(g) \/ RequestDies(g)
  BY <1>3, <1>7 DEF MarkRewardGranted, RequestDies, GrantInv, GrantTypeOK
<1> QED
  BY <1>1, <1>2, <1>4, <1>5, <1>6, <1>7

(* A request that begins owes nothing yet.                                 *)
LEMMA RequestBegins ==
  ASSUME GrantInv, NEW g \in GrantRequests,
         \/ \E c \in GrantCompanies : \/ \E k \in Codes : FindCode(g, c, k)
                                      \/ \E tier \in PlanTier : AdminGrant(g, c, tier)
         \/ \E e \in Mails : FindMailToken(g, e)
  PROVE  GrantInv'
<1>1. ASSUME NEW q, grantReq' = [grantReq EXCEPT ![g] = q],
             q \in RequestRecords, q.pc \in {"has", "read", "consume"},
             GoodRequest(q), q.pc = "read" => q.kind # "redeem",
             UNCHANGED <<grant, code, redemptions, consumed, rewardGranted, today, credited>>
      PROVE  GrantInv'
  <2>1. GrantTypeOK'
    BY <1>1 DEF GrantInv, GrantTypeOK
  <2>2. RequestInv'
    BY <1>1 DEF GrantInv, GrantTypeOK, RequestRecords, RequestInv, GoodRequest
  <2>3. \A h \in GrantRequests, k \in Codes, c \in GrantCompanies : Owes(h, k, c)' => Owes(h, k, c)
    BY <1>1 DEF GrantInv, GrantTypeOK, RequestRecords, Owes
  <2> QED
    BY <1>1, <2>1, <2>2, <2>3, MovesKeep
<1>3. ASSUME NEW c \in GrantCompanies, NEW k \in Codes, FindCode(g, c, k) PROVE GrantInv'
  <2> DEFINE q == [FreshReq EXCEPT !.pc = "has", !.kind = "redeem", !.company = c, !.code = k,
                                   !.tier = CodeTier, !.days = CodeDays]
  <2>1. /\ q.pc = "has" /\ q.kind = "redeem" /\ q.code = k /\ q.tier = CodeTier
        /\ q.days = CodeDays /\ q \in RequestRecords
    BY FreshRequest, CodeAssumption DEF RequestRecords
  <2>2. grantReq' = [grantReq EXCEPT ![g] = q]
    BY <1>3 DEF FindCode
  <2> HIDE DEF q
  <2>3. GoodRequest(q)
    BY <2>1, CodeAssumption DEF GoodRequest
  <2> QED
    BY <1>1, <1>3, <2>1, <2>2, <2>3 DEF FindCode
<1>4. ASSUME NEW c \in GrantCompanies, NEW tier \in PlanTier, AdminGrant(g, c, tier) PROVE GrantInv'
  <2> DEFINE q == [FreshReq EXCEPT !.pc = "read", !.kind = "admin", !.company = c,
                                   !.tier = tier, !.days = 1]
  <2>1. /\ q.pc = "read" /\ q.kind = "admin" /\ q.tier = tier /\ q.days = 1
        /\ q \in RequestRecords
    BY FreshRequest DEF RequestRecords
  <2>2. grantReq' = [grantReq EXCEPT ![g] = q]
    BY <1>4 DEF AdminGrant
  <2> HIDE DEF q
  <2>3. GoodRequest(q)
    BY <2>1 DEF GoodRequest
  <2> QED
    BY <1>1, <1>4, <2>1, <2>2, <2>3 DEF AdminGrant
<1>5. ASSUME NEW e \in Mails, FindMailToken(g, e) PROVE GrantInv'
  <2> DEFINE q == [FreshReq EXCEPT !.pc = "consume", !.kind = "verify", !.code = e]
  <2>1. q.pc = "consume" /\ q.kind = "verify" /\ q.code = e /\ q \in RequestRecords
    BY FreshRequest DEF RequestRecords
  <2>2. grantReq' = [grantReq EXCEPT ![g] = q]
    BY <1>5 DEF FindMailToken
  <2> HIDE DEF q
  <2>3. GoodRequest(q)
    BY <2>1 DEF GoodRequest
  <2> QED
    BY <1>1, <1>5, <2>1, <2>2, <2>3 DEF FindMailToken
<1> QED
  BY <1>3, <1>4, <1>5

(* The end of a grant is after the end it was computed from and in the     *)
(* future of the read.                                                     *)
LEMMA ExtendedGrant ==
  ASSUME NEW q, q.seen \in Grants, q.tier \in PlanTier, q.days \in Nat, q.days > 0, q.at \in Nat
  PROVE  /\ Extended(q) \in Grants
         /\ Extended(q).until > q.seen.until /\ Extended(q).until > q.at
         /\ q.seen.until > q.at => Extended(q).tier >= q.seen.tier
BY DEF Extended, Grants, HigherTier, PlanTier, NoTier, Essentiel, Pro, Premium

(* The write gives the days of the one redemption it owes.                 *)
LEMMA WriteKeeps ==
  ASSUME GrantInv, NEW g \in GrantRequests, WriteGrant(g)
  PROVE  GrantInv'
<1> DEFINE q == grantReq[g]
<1>1. /\ grantReq' = [grantReq EXCEPT ![g].pc = IF q.kind = "verify" THEN "discount" ELSE "done"]
      /\ grant' = [grant EXCEPT ![q.company] = Extended(q)]
      /\ credited' = IF q.kind = "redeem"
                     THEN [credited EXCEPT ![<<q.code, q.company>>] = @ + 1] ELSE credited
      /\ UNCHANGED <<code, redemptions, consumed, rewardGranted, today>>
  BY DEF WriteGrant, Goto
<1>2. Extended(q) \in Grants
  BY ExtendedGrant DEF WriteGrant, GrantInv, GrantTypeOK, RequestRecords, RequestInv, GoodRequest
<1>3. GrantTypeOK'
  <2>1. q \in RequestRecords
    BY DEF GrantInv, GrantTypeOK
  <2>2. grantReq' \in [GrantRequests -> RequestRecords]
    BY <1>1, <2>1, RequestMoves DEF GrantInv, GrantTypeOK
  <2>3. grant' \in [GrantCompanies -> Grants]
    BY <1>1, <1>2 DEF GrantInv, GrantTypeOK
  <2>4. credited' \in [Codes \X GrantCompanies -> Nat]
    <3> DEFINE x == <<q.code, q.company>>
    <3>1. credited' = credited \/ credited' = [credited EXCEPT ![x] = @ + 1]
      BY <1>1
    <3> HIDE DEF x
    <3> QED
      BY <3>1 DEF GrantInv, GrantTypeOK
  <2> QED
    BY <1>1, <2>2, <2>3, <2>4 DEF GrantInv, GrantTypeOK
<1>4. RequestInv'
  BY <1>1 DEF GrantInv, GrantTypeOK, RequestRecords, RequestInv, GoodRequest
<1>5. \A h \in GrantRequests, k \in Codes, c \in GrantCompanies :
        Owes(h, k, c)' => Owes(h, k, c) /\ h # g
  BY <1>1 DEF GrantInv, GrantTypeOK, RequestRecords, Owes
<1>6. OnceInv'
  <2>1. CASE q.kind = "redeem"
    <3>1. Owes(g, q.code, q.company) /\ q.code \in Codes /\ q.company \in GrantCompanies
      BY <2>1 DEF WriteGrant, Owes, GrantInv, GrantTypeOK, RequestRecords, RequestInv, GoodRequest
    <3>2. credited[<<q.code, q.company>>] = 0
      BY <3>1 DEF GrantInv, OnceInv, OnceFor
    <3>3. credited' = [credited EXCEPT ![<<q.code, q.company>>] = 1]
      BY <1>1, <2>1, <3>2
    <3>4. \A k \in Codes, c \in GrantCompanies :
            credited'[<<k, c>>] = IF <<k, c>> = <<q.code, q.company>> THEN 1 ELSE credited[<<k, c>>]
      BY <3>3 DEF GrantInv, GrantTypeOK
    <3> SUFFICES ASSUME NEW k \in Codes, NEW c \in GrantCompanies PROVE OnceFor(k, c)'
      BY DEF OnceInv
    <3>5. OnceFor(k, c) /\ (Spent(k, c) => Spent(k, c)')
      BY <1>1 DEF GrantInv, OnceInv, Spent
    <3>6. CASE k = q.code /\ c = q.company
      <4>1. credited'[<<k, c>>] = 1
        BY <3>4, <3>6
      <4>2. Spent(k, c)' /\ \A h \in GrantRequests : ~Owes(h, k, c)'
        BY <1>5, <3>1, <3>5, <3>6 DEF OnceFor
      <4> QED
        BY <4>1, <4>2 DEF OnceFor
    <3>7. CASE ~(k = q.code /\ c = q.company)
      BY <1>5, <3>4, <3>5, <3>7, OnceMoves
    <3> QED
      BY <3>6, <3>7
  <2>2. CASE q.kind # "redeem"
    BY <1>1, <1>5, <2>2, OnceMoves DEF GrantInv, OnceInv, Spent
  <2> QED
    BY <2>1, <2>2
<1>7. CountInv'
  BY <1>1 DEF GrantInv, CountInv, RowsOf
<1> QED
  BY <1>3, <1>4, <1>6, <1>7 DEF GrantInv

(* The transaction records a redemption that nobody recorded.              *)
LEMMA RecordKeeps ==
  ASSUME GrantInv, NEW g \in GrantRequests, RecordRedemption(g)
  PROVE  GrantInv'
<1>1. PICK k \in Codes, c \in GrantCompanies : k = grantReq[g].code /\ c = grantReq[g].company
  BY DEF RecordRedemption, GrantInv, GrantTypeOK, RequestRecords, RequestInv, GoodRequest
<1> DEFINE row == <<k, c>>
<1>2. CASE row \in redemptions \/ code[k].state = "deleted"
  <2>1. grantReq' = [grantReq EXCEPT ![g].pc = "done"]
        /\ UNCHANGED <<grant, code, redemptions, consumed, rewardGranted, today, credited>>
    BY <1>1, <1>2 DEF RecordRedemption, Goto
  <2>2. GrantTypeOK'
    BY <2>1, RequestMoves DEF GrantInv, GrantTypeOK
  <2>3. RequestInv'
    BY <2>1 DEF GrantInv, GrantTypeOK, RequestRecords, RequestInv, GoodRequest
  <2>4. \A h \in GrantRequests, l \in Codes, d \in GrantCompanies : Owes(h, l, d)' => Owes(h, l, d)
    BY <2>1 DEF GrantInv, GrantTypeOK, RequestRecords, Owes
  <2> QED
    BY <2>1, <2>2, <2>3, <2>4, MovesKeep
<1>3. CASE ~(row \in redemptions \/ code[k].state = "deleted")
  <2>1. /\ grantReq' = [grantReq EXCEPT ![g].pc = "read"]
        /\ redemptions' = redemptions \cup {row}
        /\ code' = [code EXCEPT ![k].count = @ + 1]
        /\ UNCHANGED <<grant, consumed, rewardGranted, today, credited>>
    BY <1>1, <1>3 DEF RecordRedemption, Goto
  <2>2. GrantTypeOK'
    <3>1. code[k] \in [state : {"active", "inactive", "deleted"}, count : Nat]
      BY DEF GrantInv, GrantTypeOK
    <3>2. code' \in [Codes -> [state : {"active", "inactive", "deleted"}, count : Nat]]
      BY <2>1, <3>1 DEF GrantInv, GrantTypeOK
    <3>3. grantReq' \in [GrantRequests -> RequestRecords]
      BY <2>1, RequestMoves DEF GrantInv, GrantTypeOK
    <3>4. redemptions' \subseteq Codes \X GrantCompanies
      BY <2>1 DEF GrantInv, GrantTypeOK
    <3> QED
      BY <2>1, <3>2, <3>3, <3>4 DEF GrantInv, GrantTypeOK
  <2>3. RequestInv'
    BY <2>1 DEF RecordRedemption, GrantInv, GrantTypeOK, RequestRecords, RequestInv, GoodRequest
  <2>4. \A l \in Codes, d \in GrantCompanies : Spent(l, d) => Spent(l, d)'
    BY <2>1 DEF Spent, GrantInv, GrantTypeOK
  <2>5. \A h \in GrantRequests, l \in Codes, d \in GrantCompanies :
          Owes(h, l, d)' => Owes(h, l, d) \/ (h = g /\ l = k /\ d = c)
    BY <1>1, <2>1 DEF GrantInv, GrantTypeOK, RequestRecords, Owes
  <2>6. Spent(k, c)' /\ ~Spent(k, c)
    BY <1>3, <2>1 DEF Spent
  <2>7. OnceInv'
    <3> SUFFICES ASSUME NEW l \in Codes, NEW d \in GrantCompanies PROVE OnceFor(l, d)'
      BY DEF OnceInv
    <3>1. OnceFor(l, d) /\ credited' = credited
      BY <2>1 DEF GrantInv, OnceInv
    <3>2. CASE l = k /\ d = c
      <4>1. credited'[<<l, d>>] = 0 /\ \A h \in GrantRequests : ~Owes(h, l, d)
        BY <2>6, <3>1, <3>2 DEF OnceFor
      <4> QED
        BY <2>5, <2>6, <3>2, <4>1 DEF OnceFor
    <3>3. CASE ~(l = k /\ d = c)
      BY <2>4, <2>5, <3>1, <3>3, OnceMoves
    <3> QED
      BY <3>2, <3>3
  <2>8. CountInv'
    <3>1. IsFiniteSet(redemptions')
      BY <2>1, FS_AddElement DEF GrantInv, CountInv
    <3>2. /\ RowsOf(k)' = RowsOf(k) \cup {row} /\ row \notin RowsOf(k)
          /\ \A l \in Codes : l # k => RowsOf(l)' = RowsOf(l)
      BY <1>3, <2>1 DEF RowsOf
    <3>3. IsFiniteSet(RowsOf(k))
      BY FS_Subset DEF GrantInv, CountInv, RowsOf
    <3>4. Cardinality(RowsOf(k)') = Cardinality(RowsOf(k)) + 1
      BY <3>2, <3>3, FS_AddElement
    <3>5. \A l \in Codes : /\ code'[l].state = code[l].state
                           /\ code'[l].count = IF l = k THEN code[l].count + 1 ELSE code[l].count
      BY <2>1 DEF GrantInv, GrantTypeOK
    <3>6. ASSUME NEW l \in Codes, code'[l].state # "deleted"
          PROVE  code'[l].count = Cardinality(RowsOf(l)')
      BY <3>2, <3>4, <3>5, <3>6 DEF GrantInv, CountInv
    <3> QED
      BY <3>1, <3>6 DEF CountInv
  <2> QED
    BY <2>2, <2>3, <2>7, <2>8 DEF GrantInv
<1> QED
  BY <1>2, <1>3

(* The administrator and the clock.                                        *)
LEMMA CodesKeep ==
  ASSUME GrantInv, (\E k \in Codes : SetCodeActive(k) \/ DeleteCode(k)) \/ DayPasses
  PROVE  GrantInv'
<1>1. ASSUME NEW k \in Codes, SetCodeActive(k) PROVE GrantInv'
  <2>1. \A l \in Codes : /\ code'[l].count = code[l].count
                         /\ code'[l].state = "deleted" <=> code[l].state = "deleted"
    BY <1>1 DEF SetCodeActive, GrantInv, GrantTypeOK
  <2>2. GrantTypeOK' /\ RequestInv'
    BY <1>1 DEF SetCodeActive, GrantInv, GrantTypeOK, RequestRecords, RequestInv, GoodRequest
  <2>3. OnceInv'
    BY <1>1, <2>1, OnceMoves DEF SetCodeActive, GrantInv, OnceInv, Owes, Spent
  <2>4. CountInv'
    <3>1. redemptions' = redemptions
      BY <1>1 DEF SetCodeActive
    <3>2. ASSUME NEW l \in Codes, code'[l].state # "deleted"
          PROVE  code'[l].count = Cardinality(RowsOf(l)')
      <4>1. RowsOf(l)' = RowsOf(l)
        BY <3>1 DEF RowsOf
      <4> QED
        BY <2>1, <3>2, <4>1 DEF GrantInv, CountInv
    <3>3. IsFiniteSet(redemptions')
      BY <3>1 DEF GrantInv, CountInv
    <3> QED
      BY <3>2, <3>3 DEF CountInv
  <2> QED
    BY <2>2, <2>3, <2>4 DEF GrantInv
<1>2. ASSUME NEW k \in Codes, DeleteCode(k) PROVE GrantInv'
  <2>1. \A l \in Codes : l # k => code'[l] = code[l] /\ RowsOf(l)' = RowsOf(l)
    BY <1>2 DEF DeleteCode, GrantInv, GrantTypeOK, RowsOf
  <2>2. code'[k].state = "deleted"
    BY <1>2 DEF DeleteCode, GrantInv, GrantTypeOK
  <2>3. GrantTypeOK' /\ RequestInv'
    BY <1>2 DEF DeleteCode, GrantInv, GrantTypeOK, RequestRecords, RequestInv, GoodRequest
  <2>4. \A l \in Codes, c \in GrantCompanies : Spent(l, c) => Spent(l, c)'
    BY <1>2, <2>1, <2>2 DEF DeleteCode, Spent
  <2>5. OnceInv'
    BY <1>2, <2>4, OnceMoves DEF DeleteCode, GrantInv, OnceInv, Owes
  <2>6. CountInv'
    BY <1>2, <2>1, <2>2, FS_Subset DEF DeleteCode, GrantInv, CountInv
  <2> QED
    BY <2>3, <2>5, <2>6 DEF GrantInv
<1>3. CASE DayPasses
  <2>1. GrantTypeOK' /\ RequestInv'
    BY <1>3 DEF DayPasses, GrantInv, GrantTypeOK, RequestRecords, RequestInv, GoodRequest
  <2> QED
    BY <1>3, <2>1, MovesKeep DEF DayPasses, Owes
<1> QED
  BY <1>1, <1>2, <1>3

LEMMA GrantStepKeeps == GrantInv /\ [GrantNext]_grantVars => GrantInv'
<1>1. ASSUME GrantInv, UNCHANGED grantVars PROVE GrantInv'
  BY <1>1, MovesKeep DEF grantVars, GrantInv, GrantTypeOK, RequestRecords, RequestInv, GoodRequest, Owes
<1> QED
  BY <1>1, ReadsKeep, RequestBegins, WriteKeeps, RecordKeeps, CodesKeep DEF GrantNext, GrantStep

LEMMA GrantAlways == GrantSpec => []GrantInv
BY GrantStarts, GrantStepKeeps, PTL DEF GrantSpec

(* Grants, codes and requests keep their types: a grant has a tier exactly *)
(* when it has an end.                                                     *)
THEOREM GrantTypes == GrantSpec => []GrantTypeOK
<1>1. GrantInv => GrantTypeOK
  BY DEF GrantInv
<1> QED
  BY <1>1, GrantAlways, PTL

(* A code gives a company its days at most once, however many requests     *)
(* redeem it at the same time, and its counter is the number of its rows.  *)
THEOREM GivenOnce == GrantSpec => []RedeemedOnce
<1>1. GrantInv => RedeemedOnce
  <2> SUFFICES ASSUME GrantInv PROVE RedeemedOnce
    OBVIOUS
  <2>1. ASSUME NEW x \in Codes \X GrantCompanies PROVE credited[x] <= 1
    <3>1. PICK k \in Codes, c \in GrantCompanies : x = <<k, c>>
      OBVIOUS
    <3> QED
      BY <3>1 DEF GrantInv, OnceInv, OnceFor
  <2> QED
    BY <2>1 DEF GrantInv, CountInv, RowsOf, RedeemedOnce
<1> QED
  BY <1>1, GrantAlways, PTL

(* A grant written on top of the one it was computed from never shortens   *)
(* it and never lowers the tier of one that still runs.                    *)
THEOREM GrantsAdd == GrantSpec => GrantsStack
<1> DEFINE Stack ==
      \A c \in GrantCompanies :
        grant'[c] # grant[c] =>
          \E g \in GrantRequests :
            /\ grantReq[g].company = c /\ grantReq[g].pc = "write"
            /\ grantReq[g].seen = grant[c] =>
                 /\ grant'[c].until > grant[c].until
                 /\ grant[c].until > today => grant'[c].tier >= grant[c].tier
<1>1. ASSUME GrantInv, NEW g \in GrantRequests, WriteGrant(g) PROVE Stack
  <2>1. grant' = [grant EXCEPT ![grantReq[g].company] = Extended(grantReq[g])]
    BY <1>1 DEF WriteGrant
  <2>2. grantReq[g].pc = "write" /\ grantReq[g].at <= today /\ today \in Nat
    BY <1>1 DEF WriteGrant, GrantInv, GrantTypeOK, RequestRecords, RequestInv, GoodRequest
  <2>3. /\ grantReq[g].company \in GrantCompanies /\ grantReq[g].at \in Nat
        /\ grantReq[g].seen \in Grants /\ grantReq[g].days \in Nat
    BY <1>1 DEF GrantInv, GrantTypeOK, RequestRecords
  <2>4. /\ Extended(grantReq[g]).until > grantReq[g].seen.until
        /\ grantReq[g].seen.until > grantReq[g].at =>
             Extended(grantReq[g]).tier >= grantReq[g].seen.tier
    BY <1>1, <2>2, <2>3, ExtendedGrant DEF GrantInv, RequestInv, GoodRequest
  <2>5. \A c \in GrantCompanies :
          grant'[c] = IF c = grantReq[g].company THEN Extended(grantReq[g]) ELSE grant[c]
    BY <1>1, <2>1, <2>3 DEF GrantInv, GrantTypeOK
  <2>6. grantReq[g].seen.until \in Nat
    BY <2>3 DEF Grants
  <2> QED
    BY <2>2, <2>3, <2>4, <2>5, <2>6
<1>2. ASSUME GrantNext, \A g \in GrantRequests : ~WriteGrant(g) PROVE UNCHANGED grant
  BY <1>2
  DEF GrantNext, GrantStep, ReadGrant, HasRedeemed, RecordRedemption, ConsumeMailToken, FindReferral,
      ReadReferrerTier, GiveDiscount, MarkRewardGranted, RequestDies, FindCode, AdminGrant,
      FindMailToken, SetCodeActive, DeleteCode, DayPasses
<1>3. GrantInv /\ [GrantNext]_grantVars => [Stack]_grantVars
  BY <1>1, <1>2
<1> QED
  BY <1>3, GrantAlways, PTL DEF GrantSpec, GrantsStack

-------------------------------------------------------------------------------
(* RefreshSession                                                          *)

\* What a request is about to do fits what it carries.
GoodCall(q) ==
  /\ q.pc = "find" => q.op \in {"refresh", "logout"} /\ q.sent # NoToken
  /\ q.pc \in {"issue", "stamp"} => q.op \in {"login", "refresh"}
  /\ q.pc = "stamp" => q.sent # NoToken
  /\ q.op = "login" => q.sent = NoToken
  /\ q.pc \notin {"stamp", "answer"} => q.issued = NoToken
  /\ q.pc \in {"stamp", "answer"} /\ q.op \in {"login", "refresh"} => q.issued # NoToken
  /\ q.op \notin {"login", "refresh"} => q.issued = NoToken

CallInv == \A c \in Calls : GoodCall(call[c])

\* An answer on its way replaces the cookie t of device d.
Replaces(c, d, t) ==
  /\ call[c].op = "refresh" /\ call[c].pc = "answer"
  /\ call[c].device = d /\ call[c].sent = t

(* A token belongs to one device: it is in its jar, in the requests it     *)
(* sends, or in the answer that brings it.                                 *)
OwnerInv ==
  /\ \A d, e \in Devices : jar[d] # NoToken /\ jar[d] = jar[e] => d = e
  /\ \A c \in Calls, d \in Devices : jar[d] # NoToken /\ call[c].sent = jar[d] =>
       call[c].device = d
  /\ \A c \in Calls : call[c].issued # NoToken =>
       /\ token[call[c].issued].state = "active"
       /\ \A d \in Devices : jar[d] # call[c].issued
       /\ \A b \in Calls : call[b].sent # call[c].issued
       /\ \A b \in Calls : call[b].issued = call[c].issued => b = c

(* What a request carries can be refreshed; what a jar holds is active, or *)
(* was rotated just now by a request whose answer replaces it.             *)
UsableInv ==
  /\ ~alarm
  /\ \A t \in Tokens : token[t].state = "unissued" => ~token[t].replaced
  /\ \A c \in Calls : call[c].pc # "alarm"
  /\ \A c \in Calls : call[c].sent # NoToken => Usable(call[c].sent)
  /\ \A d \in Devices : jar[d] # NoToken =>
       /\ Usable(jar[d])
       /\ \/ token[jar[d]].state = "active"
          \/ \E c \in Calls : Replaces(c, d, jar[d])

SurviveInv ==
  /\ SessionTypeOK /\ CallInv
  /\ ~lost /\ ~revoked => OwnerInv /\ UsableInv

LEMMA SessionStarts == SessionInit => SurviveInv
<1> SUFFICES ASSUME SessionInit PROVE SurviveInv
  OBVIOUS
<1>1. SessionTypeOK
  <2>1. lost \in BOOLEAN /\ revoked \in BOOLEAN /\ alarm \in BOOLEAN
    BY DEF SessionInit
  <2>2. token \in [Tokens -> TokenRows]
    BY DEF SessionInit, TokenRows, Unissued
  <2> QED
    BY <2>1, <2>2 DEF SessionInit, SessionTypeOK
<1>2. CallInv
  BY DEF SessionInit, CallInv, GoodCall, Idle
<1>3. OwnerInv /\ UsableInv
  BY DEF SessionInit, OwnerInv, UsableInv, Idle, Unissued
<1> QED
  BY <1>1, <1>2, <1>3 DEF SurviveInv

(* The rows a token can become.                                            *)
LEMMA SessionRowTypes ==
  /\ Active \in TokenRows
  /\ \A t, b : b \in BOOLEAN => Revoked(t, b) \in TokenRows
  /\ \A r \in TokenRows : [r EXCEPT !.recent = FALSE] \in TokenRows
BY DEF TokenRows, Active, Revoked

(* What an update leaves of the type of a request.                         *)
LEMMA CallMoves ==
  ASSUME NEW q \in CallRecords, NEW pc \in {"issue", "stamp", "alarm", "revoke", "answer"}
  PROVE  /\ [q EXCEPT !.pc = pc] \in CallRecords
         /\ \A t \in Tokens : [q EXCEPT !.pc = pc, !.issued = t] \in CallRecords
BY DEF CallRecords

LEMMA NewTokenIsUnissued ==
  CanIssue => NewToken \in Tokens /\ token[NewToken].state = "unissued"
BY DEF CanIssue, NewToken

(* The parts of the invariant that hold whatever was lost or revoked.      *)
LEMMA CallsKeep ==
  ASSUME SessionTypeOK, CallInv, [SessionNext]_sessionVars
  PROVE  SessionTypeOK' /\ CallInv'
<1> USE DEF SessionTypeOK, CallInv
<1>1. \A c \in Calls : call[c].pc # "idle" => call[c] \in CallRecords
  BY DEF Idle
<1>2. ASSUME NEW c \in Calls, NEW d \in Devices, NEW op \in SessionOps, Send(c, d, op)
      PROVE  SessionTypeOK' /\ CallInv'
  <2> DEFINE q == [pc |-> FirstStatement[op], op |-> op, device |-> d,
                   sent |-> IF op \in {"login", "reset"} THEN NoToken ELSE jar[d],
                   issued |-> NoToken]
  <2>1. /\ call' = [call EXCEPT ![c] = q]
        /\ UNCHANGED <<token, jar, lost, revoked, alarm>>
        /\ op \in {"refresh", "logout", "password"} => jar[d] # NoToken
    BY <1>2 DEF Send
  <2>2. q \in CallRecords /\ GoodCall(q)
    BY <2>1, SessionOpsAssumption DEF FirstStatement, CallRecords, GoodCall
  <2> HIDE DEF q
  <2> QED
    BY <2>1, <2>2
<1>3. ASSUME NEW c \in Calls, NEW pc \in {"issue", "stamp", "alarm", "revoke", "answer"},
             call[c].pc # "idle", call' = [call EXCEPT ![c].pc = pc],
             GoodCall([call[c] EXCEPT !.pc = pc])
      PROVE  call' \in [Calls -> CallRecords \cup {Idle}] /\ CallInv'
  BY <1>1, <1>3, CallMoves
<1>4. ASSUME NEW c \in Calls, FindForRefresh(c) PROVE SessionTypeOK' /\ CallInv'
  <2>1. PICK pc \in {"issue", "alarm"} : call' = [call EXCEPT ![c].pc = pc]
    BY <1>4 DEF FindForRefresh
  <2>2. GoodCall([call[c] EXCEPT !.pc = pc])
    BY <1>1, <1>4 DEF FindForRefresh, GoodCall, CallRecords
  <2> QED
    BY <1>3, <1>4, <2>1, <2>2 DEF FindForRefresh
<1>5. ASSUME NEW c \in Calls, FindForLogout(c) PROVE SessionTypeOK' /\ CallInv'
  <2>1. PICK pc \in {"revoke", "answer"} : call' = [call EXCEPT ![c].pc = pc]
    BY <1>5 DEF FindForLogout
  <2>2. GoodCall([call[c] EXCEPT !.pc = pc])
    BY <1>1, <1>5 DEF FindForLogout, GoodCall, CallRecords
  <2> QED
    BY <1>3, <1>5, <2>1, <2>2 DEF FindForLogout
<1>6. ASSUME NEW c \in Calls, RevokeIfActive(c) PROVE SessionTypeOK' /\ CallInv'
  <2>1. GoodCall([call[c] EXCEPT !.pc = "answer"])
    BY <1>1, <1>6 DEF RevokeIfActive, GoodCall, CallRecords
  <2>2. token' \in [Tokens -> TokenRows]
    BY <1>6, SessionRowTypes DEF RevokeIfActive
  <2> QED
    BY <1>3, <1>6, <2>1, <2>2 DEF RevokeIfActive
<1>7. ASSUME NEW c \in Calls, RevokeOne(c) \/ RevokeOthers(c) PROVE SessionTypeOK' /\ CallInv'
  <2>1. GoodCall([call[c] EXCEPT !.pc = "answer"])
    BY <1>1, <1>7 DEF RevokeOne, RevokeOthers, GoodCall, CallRecords
  <2>2. token' \in [Tokens -> TokenRows]
    <3>1. CASE RevokeOne(c)
      <4>1. \A t \in Tokens : token[t].replaced \in BOOLEAN
        BY DEF TokenRows
      <4> QED
        BY <3>1, <4>1, SessionRowTypes DEF RevokeOne
    <3>2. CASE RevokeOthers(c)
      BY <3>2, SessionRowTypes DEF RevokeOthers, RevokeAllExcept
    <3> QED
      BY <1>7, <3>1, <3>2
  <2> QED
    BY <1>3, <1>7, <2>1, <2>2 DEF RevokeOne, RevokeOthers
<1>8. ASSUME NEW c \in Calls, IssueTokens(c) PROVE SessionTypeOK' /\ CallInv'
  <2>1. PICK t \in Tokens, pc \in {"stamp", "answer"} :
          /\ token' = [token EXCEPT ![t] = Active]
          /\ call' = [call EXCEPT ![c].pc = pc, ![c].issued = t]
          /\ pc = "stamp" <=> call[c].op = "refresh"
    BY <1>8, NewTokenIsUnissued DEF IssueTokens
  <2>2. [call[c] EXCEPT !.pc = pc, !.issued = t] \in CallRecords
    BY <1>1, <1>8, CallMoves DEF IssueTokens
  <2>3. GoodCall([call[c] EXCEPT !.pc = pc, !.issued = t])
    BY <1>1, <1>8, <2>1, NoTokenAssumption DEF IssueTokens, GoodCall, CallRecords
  <2>4. token' \in [Tokens -> TokenRows]
    BY <2>1, SessionRowTypes
  <2>5. call' \in [Calls -> CallRecords \cup {Idle}]
    BY <2>1, <2>2
  <2>6. CallInv'
    BY <2>1, <2>3
  <2> QED
    BY <1>8, <2>4, <2>5, <2>6 DEF IssueTokens
<1>9. ASSUME NEW c \in Calls, call' = [call EXCEPT ![c] = Idle]
      PROVE  call' \in [Calls -> CallRecords \cup {Idle}] /\ CallInv'
  BY <1>9 DEF GoodCall, Idle
<1>10. ASSUME NEW c \in Calls, RevokeEverySession(c) PROVE SessionTypeOK' /\ CallInv'
  <2>1. token' \in [Tokens -> TokenRows]
    BY <1>10, SessionRowTypes DEF RevokeEverySession, RevokeAllExcept
  <2> QED
    BY <1>9, <1>10, <2>1 DEF RevokeEverySession
<1>11. ASSUME NEW c \in Calls, Arrive(c) PROVE SessionTypeOK' /\ CallInv'
  <2>1. jar' \in [Devices -> Tokens \cup {NoToken}]
    BY <1>1, <1>11 DEF Arrive, CallRecords
  <2> QED
    BY <1>9, <1>11, <2>1 DEF Arrive
<1>12. ASSUME NEW c \in Calls, LoseAnswer(c) PROVE SessionTypeOK' /\ CallInv'
  BY <1>9, <1>12 DEF LoseAnswer
<1>13. ASSUME NEW t \in Tokens, GraceEnds(t) PROVE SessionTypeOK' /\ CallInv'
  BY <1>13, SessionRowTypes DEF GraceEnds
<1>14. CASE UNCHANGED sessionVars
  BY <1>14 DEF sessionVars
<1> QED
  BY <1>2, <1>4, <1>5, <1>6, <1>7, <1>8, <1>10, <1>11, <1>12, <1>13, <1>14 DEF SessionNext

(* Requests that move on, or end, with the token they sent or none, change *)
(* neither whose a token is nor whether it can be refreshed.               *)
LEMMA OthersStay ==
  ASSUME SessionTypeOK, OwnerInv, UsableInv, UNCHANGED <<token, jar, alarm>>,
         \A b \in Calls :
           /\ call'[b].sent # NoToken =>
                call'[b].sent = call[b].sent /\ call'[b].device = call[b].device
           /\ call'[b].issued # NoToken => call'[b].issued = call[b].issued
           /\ call'[b].pc # "alarm",
         \A b \in Calls, d \in Devices :
           jar[d] # NoToken /\ Replaces(b, d, jar[d]) => Replaces(b, d, jar[d])'
  PROVE  OwnerInv' /\ UsableInv'
<1>1. OwnerInv'
  BY DEF OwnerInv
<1>2. UsableInv'
  BY DEF UsableInv, Usable, Forgiven
<1> QED
  BY <1>1, <1>2

LEMMA SendSurvives ==
  ASSUME SurviveInv, OwnerInv, UsableInv,
         NEW c \in Calls, NEW d \in Devices, NEW op \in SessionOps, Send(c, d, op)
  PROVE  OwnerInv' /\ UsableInv'
<1>1. /\ call[c] = Idle
      /\ \A b \in Calls : b # c => call'[b] = call[b]
      /\ call'[c].pc # "alarm" /\ call'[c].device = d /\ call'[c].issued = NoToken
      /\ call'[c].sent \in {NoToken, jar[d]}
      /\ UNCHANGED <<token, jar, alarm>>
  BY SessionOpsAssumption DEF Send, SurviveInv, SessionTypeOK, FirstStatement
<1>2. \A b \in Calls, e \in Devices, t \in Tokens : Replaces(b, e, t) => Replaces(b, e, t)'
  BY <1>1 DEF Replaces, Idle
<1>3. OwnerInv'
  BY <1>1 DEF OwnerInv
<1>4. UsableInv'
  BY <1>1, <1>2 DEF UsableInv, Usable, Forgiven, SurviveInv, SessionTypeOK
<1> QED
  BY <1>3, <1>4

(* A new token is nobody's yet.                                            *)
LEMMA IssueSurvives ==
  ASSUME SurviveInv, OwnerInv, UsableInv, NEW c \in Calls, IssueTokens(c)
  PROVE  OwnerInv' /\ UsableInv'
<1>1. PICK t \in Tokens : /\ token[t].state = "unissued"
                          /\ token' = [token EXCEPT ![t] = Active]
                          /\ call' = [call EXCEPT
                                        ![c].pc = IF call[c].op = "refresh" THEN "stamp" ELSE "answer",
                                        ![c].issued = t]
  BY NewTokenIsUnissued DEF IssueTokens
<1>2. /\ \A b \in Calls : b # c => call'[b] = call[b]
      /\ call'[c].issued = t /\ call'[c].pc \in {"stamp", "answer"}
      /\ call'[c].sent = call[c].sent /\ call'[c].device = call[c].device
      /\ call'[c].op = call[c].op /\ call[c].pc = "issue"
      /\ UNCHANGED <<jar, alarm>>
  BY <1>1 DEF IssueTokens, SurviveInv, SessionTypeOK, CallRecords, Idle
<1>3. /\ \A u \in Tokens : u # t => token'[u] = token[u]
      /\ token'[t].state = "active" /\ t # NoToken
  BY <1>1, NoTokenAssumption DEF SurviveInv, SessionTypeOK, Active
<1>4. /\ \A d \in Devices : jar[d] # t
      /\ \A b \in Calls : call[b].sent # t /\ call[b].issued # t
  <2>1. ~Usable(t)
    BY <1>1 DEF UsableInv, Usable, Forgiven
  <2> QED
    BY <1>1, <1>3, <2>1 DEF UsableInv, OwnerInv
<1>5. \A b \in Calls, d \in Devices, u \in Tokens : Replaces(b, d, u) => Replaces(b, d, u)'
  BY <1>2 DEF Replaces
<1>6. OwnerInv'
  <2>1. ASSUME NEW b \in Calls, call'[b].issued # NoToken
        PROVE  /\ token'[call'[b].issued].state = "active"
               /\ \A d \in Devices : jar'[d] # call'[b].issued
               /\ \A a \in Calls : call'[a].sent # call'[b].issued
               /\ \A a \in Calls : call'[a].issued = call'[b].issued => a = b
    <3>1. CASE b = c
      BY <1>2, <1>3, <1>4, <3>1
    <3>2. CASE b # c
      <4>1. call'[b] = call[b] /\ call[b].issued # t /\ call[b].issued \in Tokens
        BY <1>2, <1>4, <2>1, <3>2 DEF SurviveInv, SessionTypeOK, CallRecords, Idle
      <4> QED
        BY <1>2, <1>3, <2>1, <3>2, <4>1 DEF OwnerInv
    <3> QED
      BY <3>1, <3>2
  <2> QED
    BY <1>2, <2>1 DEF OwnerInv
<1>7. UsableInv'
  <2>1. \A u \in Tokens : Usable(u) => token'[u] = token[u]
    BY <1>1, <1>3 DEF Usable, Forgiven, UsableInv
  <2>2. \A u \in Tokens : token'[u].state = "unissued" => ~token'[u].replaced
    BY <1>3 DEF UsableInv
  <2>3. \A b \in Calls : call'[b].pc # "alarm" /\ call'[b].sent = call[b].sent
    BY <1>2 DEF UsableInv
  <2>4. \A b \in Calls : call[b].sent \in Tokens \cup {NoToken}
    BY DEF SurviveInv, SessionTypeOK, CallRecords, Idle
  <2>5. ASSUME NEW b \in Calls, call'[b].sent # NoToken PROVE Usable(call[b].sent)'
    BY <2>1, <2>3, <2>4, <2>5 DEF UsableInv, Usable, Forgiven
  <2>6. ASSUME NEW d \in Devices, jar'[d] # NoToken
        PROVE  /\ Usable(jar[d])'
               /\ \/ token'[jar'[d]].state = "active"
                  \/ \E b \in Calls : Replaces(b, d, jar[d])'
    <3>1. jar'[d] = jar[d] /\ jar[d] \in Tokens
      BY <1>2, <2>6 DEF SurviveInv, SessionTypeOK
    <3>2. Usable(jar[d]) /\ token'[jar[d]] = token[jar[d]]
      BY <2>1, <2>6, <3>1 DEF UsableInv
    <3>3. token[jar[d]].state = "active" \/ \E b \in Calls : Replaces(b, d, jar[d])'
      BY <1>2, <1>5, <2>6, <3>1 DEF UsableInv, Replaces
    <3> QED
      BY <3>1, <3>2, <3>3 DEF Usable, Forgiven
  <2> QED
    BY <1>2, <2>2, <2>3, <2>5, <2>6 DEF UsableInv
<1> QED
  BY <1>6, <1>7

(* The token rotated away is one a request sent, and the answer of this    *)
(* request replaces it.                                                    *)
LEMMA StampSurvives ==
  ASSUME SurviveInv, OwnerInv, UsableInv, NEW c \in Calls, RevokeIfActive(c)
  PROVE  OwnerInv' /\ UsableInv'
<1>1. PICK t \in Tokens : t = call[c].sent
  BY DEF RevokeIfActive, SurviveInv, SessionTypeOK, CallInv, GoodCall, CallRecords, Idle
<1>2. /\ call' = [call EXCEPT ![c].pc = "answer"]
      /\ UNCHANGED <<jar, alarm>>
      /\ call[c].op = "refresh" /\ call[c].issued # NoToken
  BY NoTokenAssumption
  DEF RevokeIfActive, SurviveInv, SessionTypeOK, CallInv, GoodCall, CallRecords, Idle
<1>3. \A b \in Calls :
        /\ call'[b].sent = call[b].sent /\ call'[b].issued = call[b].issued
        /\ call'[b].device = call[b].device /\ call'[b].op = call[b].op
        /\ call'[b].pc = IF b = c THEN "answer" ELSE call[b].pc
  BY <1>2 DEF RevokeIfActive, SurviveInv, SessionTypeOK, CallRecords, Idle
<1>4. \A b \in Calls, d \in Devices, u \in Tokens : Replaces(b, d, u) => Replaces(b, d, u)'
  BY <1>3 DEF Replaces
<1>5. /\ \A u \in Tokens : u # t => token'[u] = token[u]
      /\ token'[t].state # "unissued" /\ (token'[t] # token[t] => token'[t] = Revoked(t, TRUE))
  <2>1. token' = IF token[t].state = "active"
                 THEN [token EXCEPT ![t] = Revoked(t, TRUE)] ELSE token
    BY <1>1 DEF RevokeIfActive
  <2>2. Usable(t) /\ token \in [Tokens -> TokenRows]
    BY <1>1, NoTokenAssumption DEF UsableInv, SurviveInv, SessionTypeOK
  <2> QED
    BY <2>1, <2>2 DEF Usable, Forgiven, UsableInv, Revoked
<1>6. \A u \in Tokens : token[u].state = "active" \/ (token[u].replaced /\ token[u].recent)
        => token'[u].state = "active" \/ (token'[u].replaced /\ token'[u].recent)
  BY <1>5 DEF Revoked
<1>7. \A b \in Calls : /\ call[b].sent \in Tokens \cup {NoToken}
                       /\ call[b].issued \in Tokens \cup {NoToken}
  BY DEF SurviveInv, SessionTypeOK, CallRecords, Idle
<1>8. OwnerInv'
  BY <1>1, <1>2, <1>3, <1>5, <1>7 DEF OwnerInv
<1>9. UsableInv'
  <2>1. \A u \in Tokens : token'[u].state = "unissued" => ~token'[u].replaced
    BY <1>5 DEF UsableInv
  <2>2. ASSUME NEW b \in Calls, call'[b].sent # NoToken PROVE Usable(call[b].sent)'
    BY <1>3, <1>6, <1>7, <2>2 DEF UsableInv, Usable, Forgiven
  <2>3. ASSUME NEW d \in Devices, jar'[d] # NoToken
        PROVE  /\ Usable(jar[d])'
               /\ \/ token'[jar'[d]].state = "active"
                  \/ \E b \in Calls : Replaces(b, d, jar[d])'
    <3>1. jar'[d] = jar[d] /\ jar[d] \in Tokens
      BY <1>2, <2>3 DEF SurviveInv, SessionTypeOK
    <3>2. Usable(jar[d])'
      BY <1>6, <2>3, <3>1 DEF UsableInv, Usable, Forgiven
    <3>3. CASE jar[d] = t
      <4>1. call[c].device = d
        BY <1>1, <2>3, <3>1, <3>3 DEF OwnerInv
      <4>2. Replaces(c, d, jar[d])'
        BY <1>1, <1>2, <1>3, <3>1, <3>3, <4>1 DEF Replaces
      <4> QED
        BY <3>2, <4>2
    <3>4. CASE jar[d] # t
      <4>1. token[jar[d]].state = "active" \/ \E b \in Calls : Replaces(b, d, jar[d])'
        BY <1>2, <1>4, <2>3, <3>1 DEF UsableInv, Replaces
      <4> QED
        BY <1>5, <3>1, <3>2, <3>4, <4>1
    <3> QED
      BY <3>3, <3>4
  <2> QED
    BY <1>2, <1>3, <2>1, <2>2, <2>3 DEF UsableInv
<1> QED
  BY <1>8, <1>9

(* An answer that brings a token takes the one it was sent with out of the *)
(* jar.                                                                    *)
LEMMA ArriveSurvives ==
  ASSUME SurviveInv, OwnerInv, UsableInv, NEW c \in Calls, Arrive(c)
  PROVE  OwnerInv' /\ UsableInv'
<1>1. /\ call' = [call EXCEPT ![c] = Idle] /\ UNCHANGED <<token, alarm>>
      /\ call[c].pc = "answer" /\ call[c] \in CallRecords
  BY DEF Arrive, SurviveInv, SessionTypeOK, Idle
<1>2. /\ \A b \in Calls : b # c => call'[b] = call[b]
      /\ call'[c] = Idle
  BY <1>1 DEF SurviveInv, SessionTypeOK
<1>3. PICK d \in Devices : d = call[c].device
  BY <1>1 DEF CallRecords
<1>4. \A e \in Devices : e # d => jar'[e] = jar[e]
  BY <1>3 DEF Arrive, SurviveInv, SessionTypeOK
<1>5. \/ jar'[d] = NoToken
      \/ jar'[d] = call[c].issued /\ call[c].issued # NoToken
      \/ jar'[d] = jar[d] /\ call[c].op # "refresh" /\ call[c].issued = NoToken
  BY <1>1, <1>3 DEF Arrive, SurviveInv, SessionTypeOK, CallInv, GoodCall
<1>6. \A b \in Calls, e \in Devices, u \in Tokens :
        Replaces(b, e, u) /\ b # c => Replaces(b, e, u)'
  BY <1>2 DEF Replaces
<1>7. OwnerInv'
  BY <1>1, <1>2, <1>4, <1>5 DEF OwnerInv, Idle
<1>8. UsableInv'
  <2>1. \A b \in Calls : call'[b].pc # "alarm"
    BY <1>2 DEF UsableInv, Idle
  <2>2. ASSUME NEW b \in Calls, call'[b].sent # NoToken PROVE Usable(call[b].sent)'
    BY <1>1, <1>2, <2>2 DEF UsableInv, Usable, Forgiven, Idle
  <2>3. ASSUME NEW e \in Devices, jar'[e] # NoToken
        PROVE  /\ Usable(jar[e])'
               /\ \/ token'[jar'[e]].state = "active"
                  \/ \E b \in Calls : Replaces(b, e, jar[e])'
    <3>1. CASE e = d /\ jar'[e] = call[c].issued /\ call[c].issued # NoToken
      BY <1>1, <2>3, <3>1 DEF OwnerInv, Usable
    <3>2. CASE e # d \/ (jar'[d] = jar[d] /\ call[c].op # "refresh")
      <4>1. jar'[e] = jar[e] /\ jar[e] \in Tokens
        BY <1>4, <2>3, <3>2 DEF SurviveInv, SessionTypeOK
      <4>2. \A b \in Calls : Replaces(b, e, jar[e]) => b # c
        BY <1>3, <3>2 DEF Replaces
      <4>3. token[jar[e]].state = "active" \/ \E b \in Calls : Replaces(b, e, jar[e])'
        BY <1>2, <2>3, <4>1, <4>2 DEF UsableInv, Replaces
      <4> QED
        BY <1>1, <2>3, <4>1, <4>3 DEF UsableInv, Usable, Forgiven
    <3> QED
      BY <1>5, <2>3, <3>1, <3>2
  <2> QED
    BY <1>1, <2>1, <2>2, <2>3 DEF UsableInv
<1> QED
  BY <1>7, <1>8

(* The grace ends of a token that no request carries: no jar needs it.     *)
LEMMA GraceSurvives ==
  ASSUME SurviveInv, OwnerInv, UsableInv, NEW t \in Tokens, GraceEnds(t)
  PROVE  OwnerInv' /\ UsableInv'
<1>1. /\ UNCHANGED <<jar, call, alarm>>
      /\ \A b \in Calls : call[b].sent # t
      /\ \A u \in Tokens : /\ token'[u].state = token[u].state
                           /\ token'[u].replaced = token[u].replaced
                           /\ u # t => token'[u] = token[u]
  BY DEF GraceEnds, SurviveInv, SessionTypeOK, TokenRows
<1>2. \A b \in Calls : /\ call[b].sent \in Tokens \cup {NoToken}
                       /\ call[b].issued \in Tokens \cup {NoToken}
  BY DEF SurviveInv, SessionTypeOK, CallRecords, Idle
<1>3. \A d \in Devices : jar[d] \in Tokens \cup {NoToken}
  BY DEF SurviveInv, SessionTypeOK
<1>4. \A d \in Devices : jar[d] = t => token[t].state = "active" \/ jar[d] = NoToken
  BY <1>1 DEF UsableInv, Replaces
<1>5. OwnerInv'
  BY <1>1, <1>2 DEF OwnerInv
<1>6. UsableInv'
  BY <1>1, <1>2, <1>3, <1>4 DEF UsableInv, Usable, Forgiven, Replaces
<1> QED
  BY <1>5, <1>6

LEMMA SurviveStep == SurviveInv /\ [SessionNext]_sessionVars => SurviveInv'
<1> SUFFICES ASSUME SurviveInv, [SessionNext]_sessionVars, ~lost', ~revoked'
             PROVE  OwnerInv' /\ UsableInv'
  BY CallsKeep DEF SurviveInv
<1>1. OwnerInv /\ UsableInv
  BY DEF SurviveInv, SessionNext, sessionVars, Send, FindForRefresh, IssueTokens, RevokeIfActive,
         RevokeEverySession, FindForLogout, RevokeOne, RevokeOthers, Arrive, LoseAnswer, GraceEnds
<1>2. ASSUME NEW c \in Calls, FindForRefresh(c) PROVE OwnerInv' /\ UsableInv'
  <2>1. Usable(call[c].sent)
    BY <1>1, <1>2 DEF UsableInv, FindForRefresh, SurviveInv, CallInv, GoodCall
  <2>2. call' = [call EXCEPT ![c].pc = "issue"] /\ call[c].pc = "find"
        /\ UNCHANGED <<token, jar, alarm>>
    BY <1>2, <2>1 DEF FindForRefresh, Usable, Forgiven
  <2>3. /\ \A b \in Calls : b # c => call'[b] = call[b]
        /\ call'[c].sent = call[c].sent /\ call'[c].device = call[c].device
        /\ call'[c].issued = call[c].issued /\ call'[c].pc = "issue"
    BY <2>2 DEF SurviveInv, SessionTypeOK, CallRecords, Idle
  <2> QED
    BY <1>1, <2>2, <2>3, OthersStay DEF SurviveInv, UsableInv, Replaces
<1>3. ASSUME NEW c \in Calls, FindForLogout(c) PROVE OwnerInv' /\ UsableInv'
  <2>1. /\ \A b \in Calls : b # c => call'[b] = call[b]
        /\ call'[c].sent = call[c].sent /\ call'[c].device = call[c].device
        /\ call'[c].issued = call[c].issued /\ call'[c].pc # "alarm"
        /\ call[c].op = "logout" /\ UNCHANGED <<token, jar, alarm>>
    BY <1>3 DEF FindForLogout, SurviveInv, SessionTypeOK, CallRecords, Idle
  <2> QED
    BY <1>1, <2>1, OthersStay DEF SurviveInv, UsableInv, Replaces
<1>4. ASSUME NEW c \in Calls, LoseAnswer(c) PROVE OwnerInv' /\ UsableInv'
  <2>1. call[c].issued = NoToken /\ call[c].pc = "answer" /\ UNCHANGED <<token, jar, alarm>>
    BY <1>4 DEF LoseAnswer
  <2>2. call[c].op # "refresh"
    BY <2>1 DEF SurviveInv, CallInv, GoodCall
  <2>3. /\ \A b \in Calls : b # c => call'[b] = call[b]
        /\ call'[c] = Idle
    BY <1>4 DEF LoseAnswer, SurviveInv, SessionTypeOK
  <2> QED
    BY <1>1, <2>1, <2>2, <2>3, OthersStay DEF SurviveInv, UsableInv, Replaces, Idle
<1>5. ASSUME NEW c \in Calls,
             RevokeEverySession(c) \/ RevokeOne(c) \/ RevokeOthers(c)
      PROVE  FALSE
  BY <1>1, <1>5 DEF UsableInv, RevokeEverySession, RevokeOne, RevokeOthers
<1>6. CASE UNCHANGED sessionVars
  BY <1>1, <1>6 DEF sessionVars, OwnerInv, UsableInv, Usable, Forgiven, Replaces
<1> QED
  BY <1>1, <1>2, <1>3, <1>4, <1>5, <1>6, SendSurvives, IssueSurvives, StampSurvives, ArriveSurvives,
     GraceSurvives
  DEF SessionNext

LEMMA SurviveAlways == SessionSpec => []SurviveInv
BY SessionStarts, SurviveStep, PTL DEF SessionSpec

(* Rows, jars and requests keep their types.                               *)
THEOREM SessionTypes == SessionSpec => []SessionTypeOK
<1>1. SurviveInv => SessionTypeOK
  BY DEF SurviveInv
<1> QED
  BY <1>1, SurviveAlways, PTL

(* As long as no session was ended on purpose and no answer was lost, the  *)
(* alarm stays silent and what a jar holds can be refreshed, whatever the  *)
(* tabs and devices send at the same time: a token belongs to one device,  *)
(* and one rotated away is still in a jar only while the answer that       *)
(* replaces it is on its way.                                              *)
THEOREM SessionsSurvive == SessionSpec => []SessionSurvives
<1>1. SurviveInv => SessionSurvives
  BY DEF SurviveInv, UsableInv, SessionSurvives
<1> QED
  BY <1>1, SurviveAlways, PTL

-------------------------------------------------------------------------------
(* SessionClient                                                           *)

(* Without a user only a public page is shown; a call is remembered as     *)
(* refused before a sign-in or a sign-out only from its refusal on, and    *)
(* the user has been another object since.                                 *)
SinceInv ==
  /\ user <= users /\ \A c \in ApiCalls : snapshot[c] <= users
  /\ user = NoUser => page = "public"
  /\ \A c \in signedSince : apiCall[c] # "sent"
  /\ \A c \in signedSince : apiCall[c] \in {"waiting", "retried"} =>
       user = NoUser \/ snapshot[c] # user

ClientInv == ClientTypeOK /\ SinceInv /\ NewSessionIsKept

LEMMA ClientStarts == ClientInit => ClientInv
<1> SUFFICES ASSUME ClientInit PROVE ClientInv
  OBVIOUS
<1>1. live \in BOOLEAN /\ fresh \in BOOLEAN /\ yanked \in BOOLEAN
  BY DEF ClientInit
<1>2. ClientTypeOK
  BY <1>1, MaxUsersAssumption DEF ClientInit, ClientTypeOK, NoUser
<1>3. SinceInv
  BY DEF ClientInit, SinceInv, NoUser
<1>4. NewSessionIsKept
  BY DEF ClientInit, NewSessionIsKept, WaitingCalls
<1> QED
  BY <1>2, <1>3, <1>4 DEF ClientInv

(* A call that waits was refused with the user of its snapshot.            *)
LEMMA NobodyYanked ==
  ASSUME ClientInv, NEW c \in signedSince, apiCall[c] \in {"waiting", "retried"}
  PROVE  ~SessionExpired(c)
BY DEF ClientInv, SinceInv, SessionExpired

LEMMA ClientStep == ClientInv /\ [ClientNext]_clientVars => ClientInv'
<1> SUFFICES ASSUME ClientInv, [ClientNext]_clientVars PROVE ClientInv'
  OBVIOUS
<1> USE MaxUsersAssumption DEF ClientInv, ClientTypeOK, SinceInv, NewSessionIsKept, WaitingCalls, InFlight
<1>1. CASE AccessExpires \/ SessionEnds
  <2>1. live' \in BOOLEAN /\ fresh' \in BOOLEAN
    BY <1>1 DEF AccessExpires, SessionEnds
  <2> QED
    BY <1>1, <2>1 DEF AccessExpires, SessionEnds
<1>2. CASE SignIn
  <2>1. user' = users + 1 /\ users' = users + 1 /\ users < MaxUsers
    BY <1>2 DEF SignIn, Install
  <2>2. ClientTypeOK'
    BY <1>2, <2>1 DEF SignIn
  <2>3. SinceInv'
    BY <1>2, <2>1 DEF SignIn, NoUser
  <2>4. NewSessionIsKept'
    BY <1>2 DEF SignIn
  <2> QED
    BY <2>2, <2>3, <2>4
<1>3. CASE SignOut
  <2>1. live' \in BOOLEAN /\ fresh' \in BOOLEAN
    BY <1>3 DEF SignOut
  <2> QED
    BY <1>3, <2>1 DEF SignOut, NoUser
<1>4. CASE Visit
  BY <1>4 DEF Visit
<1>5. CASE ServerRefreshes
  BY <1>5 DEF ServerRefreshes
<1>6. CASE RefreshSucceeds
  <2>1. user' = users + 1 /\ users' = users + 1 /\ users < MaxUsers
    BY <1>6 DEF RefreshSucceeds, Install
  <2>2. \A c \in ApiCalls :
          apiCall'[c] = IF apiCall[c] = "waiting" THEN "retried" ELSE apiCall[c]
    BY <1>6 DEF RefreshSucceeds
  <2>3. ClientTypeOK'
    BY <1>6, <2>1 DEF RefreshSucceeds
  <2>4. SinceInv'
    BY <1>6, <2>1, <2>2 DEF RefreshSucceeds, NoUser
  <2>5. NewSessionIsKept'
    BY <1>6, <2>2 DEF RefreshSucceeds
  <2> QED
    BY <2>3, <2>4, <2>5
<1>7. CASE RefreshFails
  <2>1. \A c \in ApiCalls :
          apiCall'[c] = IF apiCall[c] = "waiting" THEN "failed" ELSE apiCall[c]
    BY <1>7 DEF RefreshFails
  <2>2. ~yanked'
    BY <1>7, NobodyYanked DEF RefreshFails
  <2>3. ClientTypeOK'
    BY <1>7, <2>2 DEF RefreshFails
  <2>4. SinceInv'
    BY <1>7, <2>1 DEF RefreshFails
  <2>5. NewSessionIsKept'
    BY <1>7, <2>1, <2>2
  <2> QED
    BY <2>3, <2>4, <2>5
<1>8. ASSUME NEW c \in ApiCalls, SendCall(c) \/ Served(c) \/ CallFails(c) PROVE ClientInv'
  BY <1>8 DEF SendCall, Served, CallFails, Settle
<1>9. ASSUME NEW c \in ApiCalls, Refused(c) PROVE ClientInv'
  BY <1>9 DEF Refused, Settle
<1>10. ASSUME NEW c \in ApiCalls, RetryRefused(c) PROVE ClientInv'
  <2>1. ~yanked'
    BY <1>10, NobodyYanked DEF RetryRefused
  <2> QED
    BY <1>10, <2>1 DEF RetryRefused, Settle
<1>11. CASE UNCHANGED clientVars
  BY <1>11 DEF clientVars
<1> QED
  BY <1>1, <1>2, <1>3, <1>4, <1>5, <1>6, <1>7, <1>8, <1>9, <1>10, <1>11 DEF ClientNext

LEMMA ClientAlways == ClientSpec => []ClientInv
BY ClientStarts, ClientStep, PTL DEF ClientSpec

(* The state of the tab keeps its types.                                   *)
THEOREM ClientTypes == ClientSpec => []ClientTypeOK
<1>1. ClientInv => ClientTypeOK
  BY DEF ClientInv
<1> QED
  BY <1>1, ClientAlways, PTL

(* A call refused before the visitor signed in again never throws the      *)
(* visitor back to /connexion, and a call waits only for a refresh that is *)
(* in flight: a sign-in installs a user object no snapshot can be.         *)
THEOREM SignInIsKept == ClientSpec => []NewSessionIsKept
<1>1. ClientInv => NewSessionIsKept
  BY DEF ClientInv
<1> QED
  BY <1>1, ClientAlways, PTL

-------------------------------------------------------------------------------
(* InvoiceRow                                                              *)

(* The handlers between their read and their write: a status is written    *)
(* only of a facture, and the dates it carries are those of the status it  *)
(* read, whatever the row has become since.                                *)
GoodHandler(h) ==
  h.pc = "write" =>
    /\ document.kind = "FACTURE"
    /\ h.to = "ACOMPTE_VERSE" => document.deposit
    /\ h.paid <=> h.read = "PAYEE"
    /\ h.depositPaid <=> h.read = "ACOMPTE_VERSE"

HandlersInv == \A r \in Requests : GoodHandler(handler[r])

DocumentInv == InvoiceRowTypeOK /\ PaymentFactsMatchStatus /\ HandlersInv

LEMMA RowStarts == InvoiceRowInit => DocumentInv
<1> SUFFICES ASSUME InvoiceRowInit PROVE DocumentInv
  OBVIOUS
<1>1. NoHandler \in Handlers /\ NoHandler.pc = "idle"
  BY DEF NoHandler, Handlers, PaymentStatus
<1>2. handler \in [Requests -> Handlers] /\ \A r \in Requests : handler[r].pc = "idle"
  BY <1>1 DEF InvoiceRowInit
<1>3. PICK kind \in {"DEVIS", "FACTURE"}, deposit \in BOOLEAN :
        document = [kind |-> kind, deposit |-> deposit, status |-> "NON_PAYEE",
                    paidAt |-> FALSE, depositPaidAt |-> FALSE, dueDate |-> FALSE,
                    sentAt |-> FALSE, lastReminderAt |-> FALSE, shareToken |-> NoLink,
                    links |-> 0, signature |-> FALSE, manuallySigned |-> FALSE]
  BY DEF InvoiceRowInit
<1>4. document \in Documents /\ document.shareToken <= document.links
  BY <1>3, MaxLinksAssumption DEF Documents, NoLink, PaymentStatus
<1> QED
  BY <1>2, <1>3, <1>4 DEF DocumentInv, InvoiceRowTypeOK, PaymentFactsMatchStatus, HandlersInv, GoodHandler

(* A handler that goes back, or on to a statement that writes no status.   *)
LEMMA HandlerMoves ==
  ASSUME NEW h \in Handlers
  PROVE  /\ NoHandler \in Handlers /\ GoodHandler(NoHandler)
         /\ \A pc \in {"idle", "link", "send", "mark", "tick"} :
              [h EXCEPT !.pc = pc] \in Handlers /\ GoodHandler([h EXCEPT !.pc = pc])
         /\ \A pc \in {"idle", "link", "send", "mark", "tick"}, op \in {"share", "tick"} :
              /\ [h EXCEPT !.pc = pc, !.op = op] \in Handlers
              /\ GoodHandler([h EXCEPT !.pc = pc, !.op = op])
         /\ \A pc \in {"link", "send"}, read \in PaymentStatus :
              /\ [h EXCEPT !.op = "mail", !.read = read, !.pc = pc] \in Handlers
              /\ GoodHandler([h EXCEPT !.op = "mail", !.read = read, !.pc = pc])
BY DEF Handlers, NoHandler, GoodHandler, PaymentStatus

(* One handler moves, and the row keeps what the others rely on.           *)
LEMMA RowMoves ==
  ASSUME DocumentInv, NEW r \in Requests, NEW h \in Handlers,
         handler' = [handler EXCEPT ![r] = h], GoodHandler(h),
         document' \in Documents, document'.shareToken <= document'.links,
         document'.kind = document.kind, document'.deposit = document.deposit,
         PaymentFactsMatchStatus'
  PROVE  DocumentInv'
<1>1. handler' \in [Requests -> Handlers]
  BY DEF DocumentInv, InvoiceRowTypeOK
<1>2. ASSUME NEW s \in Requests
      PROVE  GoodHandler(handler[s])'
  BY DEF DocumentInv, InvoiceRowTypeOK, HandlersInv, GoodHandler
<1> QED
  BY <1>1, <1>2 DEF DocumentInv, InvoiceRowTypeOK, HandlersInv

(* The columns of the row other than those of its payment.                 *)
LEMMA RowColumns ==
  ASSUME DocumentInv
  PROVE  \A doc \in Documents :
           (/\ doc.kind = document.kind /\ doc.deposit = document.deposit
            /\ doc.status = document.status /\ doc.paidAt = document.paidAt
            /\ doc.depositPaidAt = document.depositPaidAt) =>
             (document' = doc => PaymentFactsMatchStatus')
BY DEF DocumentInv, PaymentFactsMatchStatus

LEMMA StatusKeeps ==
  ASSUME DocumentInv, NEW r \in Requests,
         \/ \E to \in PaymentStatus : ReadForStatus(r, to)
         \/ \E due \in BOOLEAN : UpdateStatus(r, due)
  PROVE  DocumentInv'
<1>0. handler[r] \in Handlers /\ GoodHandler(handler[r]) /\ document \in Documents
  BY DEF DocumentInv, InvoiceRowTypeOK, HandlersInv
<1>1. ASSUME NEW to \in PaymentStatus, ReadForStatus(r, to)
      PROVE  DocumentInv'
  <2> DEFINE h == [pc |-> "write", op |-> "status", to |-> to, read |-> document.status,
                   paid |-> document.paidAt, depositPaid |-> document.depositPaidAt]
  <2>1. h \in Handlers
    BY <1>0 DEF Handlers, Documents
  <2>2. GoodHandler(h)
    BY <1>1 DEF ReadForStatus, GoodHandler, DocumentInv, PaymentFactsMatchStatus
  <2>3. UNCHANGED document /\ handler' = [handler EXCEPT ![r] = h]
    BY <1>1 DEF ReadForStatus
  <2>4. PaymentFactsMatchStatus' /\ document.shareToken <= document.links
    BY <2>3 DEF DocumentInv, InvoiceRowTypeOK, PaymentFactsMatchStatus
  <2> HIDE DEF h
  <2> QED
    BY <1>0, <2>1, <2>2, <2>3, <2>4, RowMoves
<1>2. ASSUME NEW due \in BOOLEAN, UpdateStatus(r, due)
      PROVE  DocumentInv'
  <2>0. /\ document.kind = "FACTURE"
        /\ handler[r].to = "ACOMPTE_VERSE" => document.deposit
        /\ handler[r].paid <=> handler[r].read = "PAYEE"
        /\ handler[r].depositPaid <=> handler[r].read = "ACOMPTE_VERSE"
    BY <1>0, <1>2 DEF UpdateStatus, GoodHandler
  <2>a. handler[r].paid \in BOOLEAN /\ handler[r].depositPaid \in BOOLEAN
    BY <1>0 DEF Handlers
  <2>1. PaidAt(r) \in BOOLEAN /\ (PaidAt(r) <=> handler[r].to = "PAYEE")
    BY <2>0, <2>a DEF PaidAt
  <2>2. DepositPaidAt(r) \in BOOLEAN /\ (DepositPaidAt(r) <=> handler[r].to = "ACOMPTE_VERSE")
    BY <2>0, <2>a DEF DepositPaidAt
  <2> DEFINE doc == [document EXCEPT !.status = handler[r].to, !.paidAt = PaidAt(r),
                       !.depositPaidAt = DepositPaidAt(r), !.dueDate = @ \/ due]
  <2>3. document' = doc /\ handler' = [handler EXCEPT ![r] = NoHandler]
    BY <1>2 DEF UpdateStatus, Answer
  <2>4. PaidAt(r) \in BOOLEAN /\ DepositPaidAt(r) \in BOOLEAN /\ (document.dueDate \/ due) \in BOOLEAN
    BY <2>1, <2>2
  <2>5. /\ doc \in Documents
        /\ doc.kind = document.kind /\ doc.deposit = document.deposit
        /\ doc.shareToken = document.shareToken /\ doc.links = document.links
        /\ doc.status = handler[r].to /\ doc.paidAt = PaidAt(r)
        /\ doc.depositPaidAt = DepositPaidAt(r)
    <3> HIDE DEF PaidAt, DepositPaidAt
    <3> QED
      BY <1>0, <2>4 DEF Documents, Handlers
  <2> HIDE DEF doc
  <2>6. PaymentFactsMatchStatus'
    <3>1. (doc.paidAt <=> doc.status = "PAYEE") /\ (doc.depositPaidAt <=> doc.status = "ACOMPTE_VERSE")
      BY <2>1, <2>2, <2>5
    <3>2. /\ doc.status = "ACOMPTE_VERSE" => doc.deposit
          /\ doc.kind = "DEVIS" => doc.status = "NON_PAYEE"
      BY <2>0, <2>5
    <3> QED
      BY <2>3, <3>1, <3>2 DEF PaymentFactsMatchStatus
  <2> QED
    BY <1>0, <2>3, <2>5, <2>6, RowMoves, HandlerMoves DEF DocumentInv, InvoiceRowTypeOK
<1> QED
  BY <1>1, <1>2

LEMMA MailKeeps ==
  ASSUME DocumentInv, NEW r \in Requests,
         \/ ReadForShare(r) \/ WriteLink(r) \/ LoadForMail(r) \/ DeliveryFails(r)
         \/ Deliver(r) \/ MarkSent(r) \/ ReadForTick(r)
         \/ \E value \in BOOLEAN : SetManuallySigned(r, value)
  PROVE  DocumentInv'
<1>0. /\ handler[r] \in Handlers /\ document \in Documents
      /\ document.shareToken <= document.links
  BY DEF DocumentInv, InvoiceRowTypeOK
<1> USE DEF Answer, Continue
<1>a. ASSUME UNCHANGED document PROVE PaymentFactsMatchStatus'
  BY <1>a DEF DocumentInv, PaymentFactsMatchStatus
<1>1. CASE ReadForShare(r) \/ ReadForTick(r)
  <2>1. PICK h \in Handlers : GoodHandler(h) /\ handler' = [handler EXCEPT ![r] = h]
    <3>1. CASE ReadForShare(r)
      BY <1>0, <3>1, HandlerMoves DEF ReadForShare
    <3>2. CASE ReadForTick(r)
      BY <1>0, <3>2, HandlerMoves DEF ReadForTick
    <3> QED
      BY <1>1, <3>1, <3>2
  <2> QED
    BY <1>0, <1>1, <1>a, <2>1, RowMoves DEF ReadForShare, ReadForTick
<1>2. CASE LoadForMail(r)
  <2>1. document.status \in PaymentStatus
    BY <1>0 DEF Documents
  <2>2. PICK h \in Handlers : GoodHandler(h) /\ handler' = [handler EXCEPT ![r] = h]
    BY <1>0, <1>2, <2>1, HandlerMoves DEF LoadForMail
  <2> QED
    BY <1>0, <1>2, <1>a, <2>2, RowMoves DEF LoadForMail
<1>3. CASE DeliveryFails(r) \/ Deliver(r)
  <2>1. PICK h \in Handlers : GoodHandler(h) /\ handler' = [handler EXCEPT ![r] = h]
    BY <1>0, <1>3, HandlerMoves DEF DeliveryFails, Deliver
  <2> QED
    BY <1>0, <1>3, <1>a, <2>1, RowMoves DEF DeliveryFails, Deliver
<1>4. CASE WriteLink(r)
  <2>1. PICK h \in Handlers : GoodHandler(h) /\ handler' = [handler EXCEPT ![r] = h]
    BY <1>0, <1>4, HandlerMoves DEF WriteLink
  <2> DEFINE doc == [document EXCEPT !.links = @ + 1, !.shareToken = document.links + 1]
  <2>2. document.links + 1 \in 0..MaxLinks
    BY <1>0, <1>4, MaxLinksAssumption DEF WriteLink, Documents
  <2>3. /\ doc \in Documents /\ doc.shareToken <= doc.links
        /\ doc.kind = document.kind /\ doc.deposit = document.deposit
        /\ doc.status = document.status /\ doc.paidAt = document.paidAt
        /\ doc.depositPaidAt = document.depositPaidAt
    <3>1. PICK n \in 0..MaxLinks : n = document.links + 1
      BY <2>2
    <3>2. doc = [document EXCEPT !.links = n, !.shareToken = n]
      BY <3>1
    <3> HIDE DEF doc
    <3>3. /\ doc.kind = document.kind /\ doc.deposit = document.deposit
          /\ doc.status = document.status /\ doc.paidAt = document.paidAt
          /\ doc.depositPaidAt = document.depositPaidAt
      BY <1>0, <3>2 DEF Documents
    <3>4. doc.shareToken = n /\ doc.links = n /\ n \in Nat
      BY <1>0, <3>2, MaxLinksAssumption DEF Documents
    <3>5. doc \in Documents
      BY <1>0, <3>2 DEF Documents
    <3> QED
      BY <3>3, <3>4, <3>5
  <2>4. document' = doc
    BY <1>4 DEF WriteLink
  <2> HIDE DEF doc
  <2> QED
    BY <2>1, <2>3, <2>4, RowMoves, RowColumns
<1>5. CASE MarkSent(r)
  <2> DEFINE due == document.lastReminderAt \/ handler[r].read = "NON_PAYEE"
             doc == [document EXCEPT !.sentAt = TRUE, !.lastReminderAt = due]
  <2>1. due \in BOOLEAN
    OBVIOUS
  <2>2. document' = doc /\ handler' = [handler EXCEPT ![r] = NoHandler]
    BY <1>5 DEF MarkSent
  <2> HIDE DEF due
  <2>3. /\ doc \in Documents /\ doc.shareToken <= doc.links
        /\ doc.kind = document.kind /\ doc.deposit = document.deposit
        /\ doc.status = document.status /\ doc.paidAt = document.paidAt
        /\ doc.depositPaidAt = document.depositPaidAt
    BY <1>0, <2>1 DEF Documents
  <2> HIDE DEF doc
  <2> QED
    BY <1>0, <2>2, <2>3, RowMoves, RowColumns, HandlerMoves
<1>6. ASSUME NEW value \in BOOLEAN, SetManuallySigned(r, value)
      PROVE  DocumentInv'
  <2> DEFINE doc == [document EXCEPT !.manuallySigned = value]
  <2>1. document' = doc /\ handler' = [handler EXCEPT ![r] = NoHandler]
    BY <1>6 DEF SetManuallySigned
  <2>2. /\ doc \in Documents /\ doc.shareToken <= doc.links
        /\ doc.kind = document.kind /\ doc.deposit = document.deposit
        /\ doc.status = document.status /\ doc.paidAt = document.paidAt
        /\ doc.depositPaidAt = document.depositPaidAt
    BY <1>0 DEF Documents
  <2> HIDE DEF doc
  <2> QED
    BY <1>0, <2>1, <2>2, RowMoves, RowColumns, HandlerMoves
<1> QED
  BY <1>1, <1>2, <1>3, <1>4, <1>5, <1>6

LEMMA RowStep ==
  ASSUME DocumentInv, [InvoiceRowNext]_invoiceRowVars
  PROVE  DocumentInv'
<1>0. document \in Documents /\ document.shareToken <= document.links
  BY DEF DocumentInv, InvoiceRowTypeOK
<1>1. ASSUME NEW doc \in Documents, document' = doc, UNCHANGED handler,
             doc.shareToken <= doc.links,
             doc.kind = document.kind, doc.deposit = document.deposit,
             doc.status = document.status, doc.paidAt = document.paidAt,
             doc.depositPaidAt = document.depositPaidAt
      PROVE  DocumentInv'
  <2>1. PaymentFactsMatchStatus'
    BY <1>1, RowColumns
  <2> QED
    BY <1>1, <2>1 DEF DocumentInv, InvoiceRowTypeOK, HandlersInv, GoodHandler
<1>2. CASE UNCHANGED invoiceRowVars
  BY <1>0, <1>1, <1>2 DEF invoiceRowVars
<1>3. CASE RevokeShareToken
  <2>1. [document EXCEPT !.shareToken = NoLink] \in Documents
    BY <1>0, MaxLinksAssumption DEF Documents, NoLink
  <2> QED
    BY <1>0, <1>1, <1>3, <2>1, MaxLinksAssumption DEF RevokeShareToken, Documents, NoLink
<1>4. CASE UploadSignature \/ DeleteSignature
  <2>1. PICK value \in BOOLEAN : document' = [document EXCEPT !.signature = value]
                                 /\ UNCHANGED handler
    BY <1>4 DEF UploadSignature, DeleteSignature
  <2>2. [document EXCEPT !.signature = value] \in Documents
    BY <1>0 DEF Documents
  <2> QED
    BY <1>0, <1>1, <2>1, <2>2 DEF Documents
<1> QED
  BY <1>2, <1>3, <1>4, StatusKeeps, MailKeeps DEF InvoiceRowNext

LEMMA RowAlways == InvoiceRowSpec => []DocumentInv
BY RowStarts, RowStep, PTL DEF InvoiceRowSpec

(* The row and the handlers have the values the code gives them            *)
(* (InvoiceService, InvoiceMailService).                                   *)
THEOREM RowTypes == InvoiceRowSpec => []InvoiceRowTypeOK
<1>1. DocumentInv => InvoiceRowTypeOK
  BY DEF DocumentInv
<1> QED
  BY <1>1, RowAlways, PTL

(* However many requests change the status of a document at once, its date *)
(* of payment and its date of deposit say what its status says             *)
(* (InvoiceService.updateStatus).                                          *)
THEOREM PaymentFacts == InvoiceRowSpec => []PaymentFactsMatchStatus
<1>1. DocumentInv => PaymentFactsMatchStatus
  BY DEF DocumentInv
<1> QED
  BY <1>1, RowAlways, PTL

-------------------------------------------------------------------------------
(* FacturXQuota                                                            *)

\* The documents given this month and those of the uses allowed for nothing.
Charged == GivenThisMonth \cup {quotaCall[r].doc : r \in Waiting}

\* A request was allowed for nothing only while it renders.
CallsInv == \A r \in QuotaRequests : granted[r] # 0 => quotaCall[r].pc = "render"

(* No credit is spent in a month that has not begun, and a document given  *)
(* for nothing has spent its own.                                          *)
PastInv == /\ \A d \in QuotaDocs : usedAt[d] <= month
           /\ \A d \in givenFree : usedAt[d] # 0

QuotaInv == QuotaTypeOK /\ CallsInv /\ PastInv /\ QuotaOverrunIsBounded

\* The documents of a set of requests.
DocsOf(calls, W) == {calls[r].doc : r \in W}

(* The documents of a set of requests are no more than the requests.       *)
LEMMA DocsOfRequests ==
  ASSUME NEW W \in SUBSET QuotaRequests, NEW calls
  PROVE  /\ IsFiniteSet(DocsOf(calls, W)) /\ Cardinality(DocsOf(calls, W)) \in Nat
         /\ Cardinality(QuotaRequests) \in Nat
         /\ Cardinality(DocsOf(calls, W)) <= Cardinality(QuotaRequests)
<1> DEFINE D == DocsOf(calls, W)
           f == [r \in W |-> calls[r].doc]
<1>1. IsFiniteSet(W) /\ Cardinality(W) <= Cardinality(QuotaRequests)
  BY QuotaAssumption, FS_Subset
<1>2. f \in Surjection(W, D)
  BY DEF Surjection, DocsOf
<1>3. IsFiniteSet(D) /\ Cardinality(D) <= Cardinality(W)
  <2> HIDE DEF D, f
  <2> QED
    BY <1>1, <1>2, FS_Surjection
<1>4. /\ Cardinality(D) \in Nat /\ Cardinality(W) \in Nat
      /\ Cardinality(QuotaRequests) \in Nat
  BY <1>1, <1>3, QuotaAssumption, FS_CardinalityType
<1> QED
  BY <1>1, <1>3, <1>4

(* Documents are finite in number, and a smaller set has fewer.            *)
LEMMA FewerDocs ==
  ASSUME NEW S \in SUBSET QuotaDocs, NEW T \in SUBSET S
  PROVE  /\ IsFiniteSet(S) /\ IsFiniteSet(T) /\ Cardinality(S) \in Nat /\ Cardinality(T) \in Nat
         /\ Cardinality(T) <= Cardinality(S)
BY QuotaAssumption, FS_Subset, FS_CardinalityType

(* A step that charges nothing new keeps the bound.                        *)
LEMMA ChargedShrinks ==
  ASSUME QuotaInv, QuotaTypeOK', CallsInv', PastInv', Charged' \subseteq Charged
  PROVE  QuotaInv'
<1>1. Charged \in SUBSET QuotaDocs
  BY DEF QuotaInv, QuotaTypeOK, Charged, GivenThisMonth, Waiting
<1>2. Cardinality(Charged') <= Cardinality(Charged)
      /\ Cardinality(Charged') \in Nat /\ Cardinality(Charged) \in Nat
  BY <1>1, FewerDocs
<1>3. Cardinality(Charged) <= MonthlyLimit + Cardinality(QuotaRequests) - 1
  BY DEF QuotaInv, QuotaOverrunIsBounded, Charged
<1>4. Cardinality(QuotaRequests) \in Nat /\ MonthlyLimit \in Nat
  BY QuotaAssumption, FS_CardinalityType
<1>5. Cardinality(Charged') <= MonthlyLimit + Cardinality(QuotaRequests) - 1
  BY <1>2, <1>3, <1>4
<1>6. QuotaOverrunIsBounded'
  BY <1>5 DEF QuotaOverrunIsBounded, Charged
<1> QED
  BY <1>6 DEF QuotaInv

LEMMA QuotaStarts == QuotaInit => QuotaInv
<1> SUFFICES ASSUME QuotaInit PROVE QuotaInv
  OBVIOUS
<1>1. QuotaIdle.doc \in QuotaDocs /\ QuotaIdle.pc = "idle"
      /\ QuotaIdle \in [pc : {"idle", "plan", "count", "render"}, doc : QuotaDocs]
  BY QuotaAssumption DEF QuotaIdle
<1>2. QuotaTypeOK /\ CallsInv /\ PastInv
  <2>1. 0 \in 0..LastMonth /\ 1 \in 1..LastMonth
    BY QuotaAssumption
  <2>2. QuotaTypeOK
    BY <1>1, <2>1 DEF QuotaInit, QuotaTypeOK
  <2>3. \A r \in QuotaRequests : quotaCall[r] = QuotaIdle /\ granted[r] = 0
    BY DEF QuotaInit
  <2>4. CallsInv /\ PastInv
    BY <1>1, <2>3 DEF QuotaInit, CallsInv, PastInv
  <2> QED
    BY <2>2, <2>4
<1>3. Charged = {}
  BY <1>1 DEF QuotaInit, Charged, GivenThisMonth, Waiting
<1>4. Cardinality(QuotaRequests) \in Nat
  BY QuotaAssumption, FS_CardinalityType
<1>5. QuotaOverrunIsBounded
  <2>1. Cardinality(Charged) = 0
    BY <1>3, FS_EmptySet
  <2> QED
    BY <1>4, <2>1, QuotaAssumption DEF QuotaOverrunIsBounded, Charged
<1> QED
  BY <1>2, <1>5 DEF QuotaInv

LEMMA QuotaNextKeeps ==
  ASSUME QuotaInv, [QuotaNext]_quotaVars
  PROVE  QuotaInv'
<1> USE DEF QuotaInv, QuotaTypeOK, QuotaStep, QuotaDone
<1>0. QuotaIdle.doc \in QuotaDocs /\ QuotaIdle.pc = "idle"
      /\ QuotaIdle \in [pc : {"idle", "plan", "count", "render"}, doc : QuotaDocs]
  BY QuotaAssumption DEF QuotaIdle
<1>1. CASE UNCHANGED quotaVars
  <2>1. QuotaTypeOK' /\ CallsInv' /\ PastInv'
    BY <1>1 DEF quotaVars, CallsInv, PastInv
  <2>2. Charged' = Charged
    BY <1>1 DEF quotaVars, Charged, GivenThisMonth, Waiting
  <2> QED
    BY <2>1, <2>2, ChargedShrinks
<1>2. ASSUME NEW r \in QuotaRequests, NEW d \in QuotaDocs, ReadUsed(r, d)
      PROVE  QuotaInv'
  <2>1. QuotaTypeOK'
    BY <1>2 DEF ReadUsed
  <2>2. CallsInv' /\ PastInv'
    BY <1>2 DEF ReadUsed, CallsInv, PastInv
  <2>3. Charged' \subseteq Charged
    BY <1>2 DEF ReadUsed, CallsInv, Charged, GivenThisMonth, Waiting
  <2> QED
    BY <2>1, <2>2, <2>3, ChargedShrinks
<1>3. ASSUME NEW r \in QuotaRequests, ReadPlan(r)
      PROVE  QuotaInv'
  <2>1. QuotaTypeOK'
    BY <1>3 DEF ReadPlan
  <2>2. CallsInv' /\ PastInv'
    BY <1>3 DEF ReadPlan, CallsInv, PastInv
  <2>3. Charged' \subseteq Charged
    BY <1>3 DEF ReadPlan, CallsInv, Charged, GivenThisMonth, Waiting
  <2> QED
    BY <2>1, <2>2, <2>3, ChargedShrinks
<1>4. ASSUME NEW r \in QuotaRequests, CountUsed(r)
      PROVE  QuotaInv'
  <2>1. QuotaTypeOK'
    <3>1. 0 \in 0..LastMonth /\ month \in 0..LastMonth
      BY QuotaAssumption
    <3> QED
      BY <1>0, <1>4, <3>1 DEF CountUsed
  <2>2. CallsInv' /\ PastInv'
    BY <1>0, <1>4 DEF CountUsed, CallsInv, PastInv
  <2>3. /\ GivenThisMonth' = GivenThisMonth
        /\ UsedThisMonth \in SUBSET QuotaDocs /\ GivenThisMonth \in SUBSET UsedThisMonth
    BY <1>4 DEF CountUsed, UsedThisMonth, GivenThisMonth
  <2>4. CASE UnderLimit
    <3> DEFINE D == {quotaCall[s].doc : s \in Waiting}
    <3>1. Waiting' \in SUBSET QuotaRequests
      BY DEF Waiting
    <3>2. /\ IsFiniteSet(D') /\ Cardinality(D') \in Nat /\ Cardinality(QuotaRequests) \in Nat
          /\ Cardinality(D') <= Cardinality(QuotaRequests)
      <4>1. PICK W \in SUBSET QuotaRequests : W = Waiting'
        BY <3>1
      <4>2. PICK calls : calls = quotaCall'
        OBVIOUS
      <4>3. D' = DocsOf(calls, W)
        BY <4>1, <4>2 DEF DocsOf
      <4> HIDE DEF D
      <4> QED
        BY <4>3, DocsOfRequests
    <3>3. Cardinality(GivenThisMonth) <= MonthlyLimit - 1 /\ IsFiniteSet(GivenThisMonth)
          /\ Cardinality(GivenThisMonth) \in Nat
      BY <2>3, <2>4, QuotaAssumption, FewerDocs DEF UnderLimit
    <3>4. /\ IsFiniteSet(GivenThisMonth \cap D')
          /\ Cardinality(GivenThisMonth \cap D') \in Nat
      BY <3>3, FS_Subset, FS_CardinalityType
    <3>5. Cardinality(GivenThisMonth \cup D') <= MonthlyLimit - 1 + Cardinality(QuotaRequests)
      <4> HIDE DEF D
      <4>1. Cardinality(GivenThisMonth \cup D') =
              Cardinality(GivenThisMonth) + Cardinality(D') - Cardinality(GivenThisMonth \cap D')
        BY <3>2, <3>3, FS_Union
      <4> QED
        BY <4>1, <3>2, <3>3, <3>4, QuotaAssumption
    <3>6. QuotaOverrunIsBounded'
      BY <2>3, <3>2, <3>5, QuotaAssumption DEF QuotaOverrunIsBounded
    <3> QED
      BY <2>1, <2>2, <3>6
  <2>5. CASE ~UnderLimit
    <3>1. Charged' \subseteq Charged
      BY <1>0, <1>4, <2>5 DEF CountUsed, CallsInv, Charged, GivenThisMonth, Waiting
    <3> QED
      BY <2>1, <2>2, <3>1, ChargedShrinks
  <2> QED
    BY <2>4, <2>5
<1>5. ASSUME NEW r \in QuotaRequests, RecordFacturXUsed(r)
      PROVE  QuotaInv'
  <2>1. QuotaTypeOK'
    <3>1. 0 \in 0..LastMonth /\ month \in 0..LastMonth
      BY QuotaAssumption
    <3> QED
      BY <1>0, <1>5, <3>1 DEF RecordFacturXUsed
  <2>2. CallsInv' /\ PastInv'
    BY <1>0, <1>5 DEF RecordFacturXUsed, CallsInv, PastInv
  <2>3. Charged' \subseteq Charged
    <3>1. \A s \in Waiting' : s \in Waiting /\ quotaCall'[s].doc = quotaCall[s].doc
      BY <1>0, <1>5 DEF RecordFacturXUsed, Waiting
    <3>2. GivenThisMonth' \subseteq GivenThisMonth
            \cup {x \in {quotaCall[r].doc} : granted[r] # 0}
      <4>1. ASSUME NEW x \in givenFree', usedAt'[x] = month'
            PROVE  \/ x \in givenFree /\ usedAt[x] = month
                   \/ x = quotaCall[r].doc /\ granted[r] # 0
        BY <1>5, <4>1 DEF RecordFacturXUsed, PastInv
      <4> QED
        BY <4>1 DEF GivenThisMonth
    <3>3. granted[r] # 0 => r \in Waiting
      BY <1>5 DEF RecordFacturXUsed, Waiting
    <3> QED
      BY <3>1, <3>2, <3>3 DEF Charged
  <2> QED
    BY <2>1, <2>2, <2>3, ChargedShrinks
<1>6. ASSUME NEW r \in QuotaRequests, RenderFails(r)
      PROVE  QuotaInv'
  <2>1. QuotaTypeOK'
    <3>1. 0 \in 0..LastMonth /\ month \in 0..LastMonth
      BY QuotaAssumption
    <3> QED
      BY <1>0, <1>6, <3>1 DEF RenderFails
  <2>2. CallsInv' /\ PastInv'
    BY <1>0, <1>6 DEF RenderFails, CallsInv, PastInv
  <2>3. Charged' \subseteq Charged
    BY <1>0, <1>6 DEF RenderFails, Charged, GivenThisMonth, Waiting
  <2> QED
    BY <2>1, <2>2, <2>3, ChargedShrinks
<1>7. CASE MonthPasses
  <2>1. QuotaTypeOK'
    BY <1>7, QuotaAssumption DEF MonthPasses
  <2>2. CallsInv' /\ PastInv'
    BY <1>7, QuotaAssumption DEF MonthPasses, CallsInv, PastInv
  <2>3. GivenThisMonth' = {}
    BY <1>7, QuotaAssumption DEF MonthPasses, PastInv, GivenThisMonth
  <2>4. Charged' \subseteq Charged
    BY <1>7, <2>3 DEF MonthPasses, Charged, Waiting
  <2> QED
    BY <2>1, <2>2, <2>4, ChargedShrinks
<1>8. CASE PlanStarts \/ PlanEnds
  <2>1. QuotaTypeOK' /\ CallsInv' /\ PastInv'
    BY <1>8 DEF PlanStarts, PlanEnds, CallsInv, PastInv
  <2>2. Charged' = Charged
    BY <1>8 DEF PlanStarts, PlanEnds, Charged, GivenThisMonth, Waiting
  <2> QED
    BY <2>1, <2>2, ChargedShrinks
<1> QED
  BY <1>1, <1>2, <1>3, <1>4, <1>5, <1>6, <1>7, <1>8 DEF QuotaNext

LEMMA QuotaAlways == QuotaSpec => []QuotaInv
BY QuotaStarts, QuotaNextKeeps, PTL DEF QuotaSpec

(* The credits, the calendar and the requests have the values the code     *)
(* gives them (PlanGateService).                                           *)
THEOREM QuotaTypes == QuotaSpec => []QuotaTypeOK
<1>1. QuotaInv => QuotaTypeOK
  BY DEF QuotaInv
<1> QED
  BY <1>1, QuotaAlways, PTL

(* However many requests count the credits of a month before one of them   *)
(* spends its own, and whatever plan starts or lapses meanwhile, the       *)
(* documents given for nothing overrun the quota of the month by less than *)
(* their number (canUseFacturX, recordFacturXUsed).                        *)
THEOREM QuotaOverrun == QuotaSpec => []QuotaOverrunIsBounded
<1>1. QuotaInv => QuotaOverrunIsBounded
  BY DEF QuotaInv
<1> QED
  BY <1>1, QuotaAlways, PTL

-------------------------------------------------------------------------------
(* The parts side by side                                                  *)

(* Whichever part moves, each behaves as it does alone: a run of MCAccount *)
(* explores every part exactly as its own specification allows.            *)
THEOREM AccountParts ==
  AccountSpec => /\ StripeSpec /\ AppleSpec /\ GrantSpec /\ SessionSpec /\ ClientSpec
                 /\ InvoiceRowSpec /\ QuotaSpec /\ GuidedSpec
<1> DEFINE all == <<focus, stripeVars, appleVars, grantVars, sessionVars,
                    clientVars, invoiceRowVars, quotaVars, guidedVars>>
<1>1. AccountInit => /\ StripeInit /\ AppleInit /\ GrantInit /\ SessionInit /\ ClientInit
                     /\ InvoiceRowInit /\ QuotaInit /\ GuidedInit
  BY DEF AccountInit
<1>2. [AccountNext]_all =>
        /\ [StripeNext]_stripeVars /\ [AppleNext]_appleVars /\ [GrantNext]_grantVars
        /\ [SessionNext]_sessionVars /\ [ClientNext]_clientVars
        /\ [InvoiceRowNext]_invoiceRowVars /\ [QuotaNext]_quotaVars /\ [GuidedNext]_guidedVars
  BY DEF AccountNext, Still
<1> QED
  BY <1>1, <1>2, PTL DEF AccountSpec, StripeSpec, AppleSpec, GrantSpec, SessionSpec,
                         ClientSpec, InvoiceRowSpec, QuotaSpec, GuidedSpec

(* The types of the part that moves, for every part.                       *)
THEOREM AccountTypes == AccountSpec => []AccountTypeOK
<1>1. AccountInit => focus \in Parts
  BY DEF AccountInit
<1>2. focus \in Parts /\ [AccountNext]_<<focus, stripeVars, appleVars, grantVars, sessionVars,
                    clientVars, invoiceRowVars, quotaVars, guidedVars>> => (focus \in Parts)'
  BY DEF AccountNext
<1>3. /\ focus \in Parts /\ StripeTypeOK /\ (AppleTypeOK /\ LinkInv) /\ GrantTypeOK
      /\ SessionTypeOK /\ ClientTypeOK /\ InvoiceRowTypeOK /\ QuotaTypeOK /\ GuidedTypeOK
      => AccountTypeOK
  BY DEF AccountTypeOK, Parts
<1> QED
  BY <1>1, <1>2, <1>3, AccountParts, StripeTypes, AppleTypes, GrantTypes, SessionTypes,
     ClientTypes, RowTypes, QuotaTypes, GuidedTypes, PTL DEF AccountSpec

===============================================================================
