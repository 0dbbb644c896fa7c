-------------------------- MODULE StripeSubscription --------------------------
(***************************************************************************)
(* One company's subscription through Stripe: the checkout that leads to   *)
(* it (BillingService.createCheckoutSession), the referral discount that   *)
(* waits for it, and the webhook events that alone may change the row      *)
(* (applySubscriptionEvent, BillingRepository.applySubscriptionUpdate).    *)
(*                                                                         *)
(* Stripe delivers each event at least once and in any order. An event     *)
(* carries the second it was created in, the only order the code has.      *)
(***************************************************************************)
EXTENDS PlanTiers, FiniteSets

CONSTANTS
  Tabs,          \* checkout requests of the company (tabs, clicks, retries)
  StripeSubs,    \* subscriptions Stripe can create for it
  StripeSeconds, \* bound of the clock
  CheckoutWindow,\* CHECKOUT_IDEMPOTENCY_WINDOW_MS, in the unit of the clock
  MaxStripeEvents, \* bound of the events sent
  MaxSessions,   \* bound of the sessions opened
  SoldTiers,     \* tiers with a configured price
  Offers         \* the offers running at first

ASSUME SoldTiersAssumption == SoldTiers \subseteq PlanTier
ASSUME OffersAssumption == Offers \subseteq {"trial", "launch"}
ASSUME StripeSecondsAssumption == StripeSeconds \in Nat \ {0}
ASSUME WindowAssumption == CheckoutWindow \in Nat \ {0}

VARIABLES
  \* Stripe
  subscriptions, \* [StripeSubs -> status, tier and session of a subscription]
  sessions,      \* open Checkout Sessions, by idempotency key
  customers,     \* number of Stripe Customers created
  sent,          \* events created so far; delivery may come late and twice
  \* the Company row
  billing,       \* its Stripe columns
  \* the process
  checkout,      \* [Tabs -> the checkout request of a tab]
  referral,      \* grantReferralDiscount: where it stands and what it read
  \* others
  offers,        \* offers running now: "trial", "launch"
  second,        \* the clock
  received       \* history: events applied or dropped so far

stripeVars == <<subscriptions, sessions, customers, sent, billing, checkout,
                referral, offers, second, received>>

StripeStatus == {"incomplete", "active", "past_due", "unpaid", "canceled",
                 "incomplete_expired"}
NoSub == [status |-> "absent", tier |-> NoTier, session |-> <<>>]
Coupons == {"none", "referral", "trial", "launch"}
StripeEvents ==
  [sub : StripeSubs, status : StripeStatus, tier : SoldTiers, at : 1..StripeSeconds]

NoCheckout == [pc |-> "idle", tier |-> NoTier, customer |-> 0, coupon |-> "none"]

StripeTypeOK ==
  /\ subscriptions \in [StripeSubs -> {NoSub} \cup
       [status : StripeStatus, tier : SoldTiers, session : {<<x>> : x \in sessions}]]
  /\ \A x \in sessions : x.tier \in SoldTiers /\ x.coupon \in Coupons
  /\ sent \subseteq StripeEvents /\ received \subseteq sent
  /\ customers \in Nat /\ second \in 1..StripeSeconds
  /\ billing \in [customer : 0..customers, sub : StripeSubs \cup {"none"},
                  status : SubscriptionStatus, tier : PlanTier \cup {NoTier},
                  eventAt : 0..StripeSeconds, pendingReferralDiscount : BOOLEAN]
  /\ checkout \in [Tabs -> [pc : {"idle", "customer", "save", "session"},
                            tier : SoldTiers \cup {NoTier}, customer : 0..customers,
                            coupon : Coupons]]

StripeInit ==
  /\ subscriptions = [s \in StripeSubs |-> NoSub]
  /\ sessions = {} /\ sent = {} /\ received = {}
  /\ customers = 0 /\ second = 1
  /\ billing = [customer |-> 0, sub |-> "none", status |-> "NONE", tier |-> NoTier,
                eventAt |-> 0, pendingReferralDiscount |-> FALSE]
  /\ checkout = [t \in Tabs |-> NoCheckout]
  /\ referral = [pc |-> "due", live |-> FALSE]
  /\ offers = Offers

-------------------------------------------------------------------------------
(* Webhook                                                                 *)

(* Mutant: the row stores the status as Stripe names it. *)
StripeStatusAsIs(status) == status
\* incomplete and incomplete_expired are no subscription at all.
MapStripeStatus(status) ==
  CASE status = "active"                -> "ACTIVE"
    [] status = "past_due"              -> "PAST_DUE"
    [] status \in {"canceled", "unpaid"} -> "CANCELED"
    [] OTHER                            -> "NONE"

(* Mutant: events are applied in the order they arrive. *)
AnyAge(e) == TRUE
\* The conditional update of the row: an event older than the last one applied
\* changes nothing, one of the same second does.
NotOlder(e) == billing.eventAt = 0 \/ billing.eventAt <= e.at

ApplySubscriptionUpdate(e) ==
  billing' = [billing EXCEPT !.sub = e.sub, !.status = MapStripeStatus(e.status),
                !.tier = e.tier, !.eventAt = e.at, !.pendingReferralDiscount = FALSE]

HandleWebhook(e) ==
  /\ e \in sent
  /\ IF NotOlder(e) THEN ApplySubscriptionUpdate(e) ELSE UNCHANGED billing
  /\ received' = received \cup {e}
  /\ UNCHANGED <<subscriptions, sessions, customers, sent, checkout, referral, offers, second>>

-------------------------------------------------------------------------------
(* Checkout: every call is awaited, so requests interleave between them.   *)

StartCheckout(t, tier) ==
  /\ checkout[t].pc = "idle"
  /\ billing.status \notin {"ACTIVE", "PAST_DUE"}
  /\ LET coupon == DiscountKind(tier, billing.pendingReferralDiscount,
                                "trial" \in offers, "launch" \in offers)
     IN checkout' = [checkout EXCEPT ![t] =
          [pc |-> IF billing.customer = 0 THEN "customer" ELSE "session",
           tier |-> tier, customer |-> billing.customer, coupon |-> coupon]]
  /\ UNCHANGED <<subscriptions, sessions, customers, sent, billing, referral, offers,
                 second, received>>

CreateCustomer(t) ==
  /\ checkout[t].pc = "customer"
  /\ customers' = customers + 1
  /\ checkout' = [checkout EXCEPT ![t].pc = "save", ![t].customer = customers + 1]
  /\ UNCHANGED <<subscriptions, sessions, sent, billing, referral, offers, second, received>>

SetStripeCustomerId(t) ==
  /\ checkout[t].pc = "save"
  /\ billing' = [billing EXCEPT !.customer = checkout[t].customer]
  /\ checkout' = [checkout EXCEPT ![t].pc = "session"]
  /\ UNCHANGED <<subscriptions, sessions, customers, sent, referral, offers, second, received>>

\* The tier and the five-minute window of the clock; the company is the only one here.
IdempotencyKey(tier) == [tier |-> tier, window |-> second \div CheckoutWindow]

SessionOf(t) ==
  [key |-> IdempotencyKey(checkout[t].tier), tier |-> checkout[t].tier,
   customer |-> checkout[t].customer, coupon |-> checkout[t].coupon]

(* Mutant: no idempotency key is sent. *)
CreateSessionAnyway(t) ==
  /\ checkout[t].pc = "session"
  /\ sessions' = sessions \cup {SessionOf(t)} /\ Cardinality(sessions') <= MaxSessions
  /\ checkout' = [checkout EXCEPT ![t] = NoCheckout]
  /\ UNCHANGED <<subscriptions, customers, sent, billing, referral, offers, second, received>>

\* Stripe answers a known key with the first session, or refuses it when the
\* parameters differ; a new key opens a session.
CreateSession(t) ==
  /\ checkout[t].pc = "session"
  /\ LET s == SessionOf(t)
     IN sessions' = IF \E x \in sessions : x.key = s.key THEN sessions
                                                         ELSE sessions \cup {s}
  /\ Cardinality(sessions') <= MaxSessions
  /\ checkout' = [checkout EXCEPT ![t] = NoCheckout]
  /\ UNCHANGED <<subscriptions, customers, sent, billing, referral, offers, second, received>>

-------------------------------------------------------------------------------
(* grantReferralDiscount: the read of the row, then one of two writes.     *)

ReadForReferral ==
  /\ referral.pc = "due"
  /\ referral' = [pc |-> "read", live |-> billing.sub # "none"
                                          /\ billing.status \in {"ACTIVE", "PAST_DUE"}]
  /\ UNCHANGED <<subscriptions, sessions, customers, sent, billing, checkout, offers,
                 second, received>>

\* A live subscription gets the coupon at Stripe, any other company a mark for
\* its next checkout.
GrantReferralDiscount ==
  /\ referral.pc = "read"
  /\ referral' = [referral EXCEPT !.pc = "done"]
  /\ billing' = [billing EXCEPT !.pendingReferralDiscount = @ \/ ~referral.live]
  /\ UNCHANGED <<subscriptions, sessions, customers, sent, checkout, offers, second, received>>

-------------------------------------------------------------------------------
(* Stripe and the artisan, outside the code                                *)

Emit(s, sub) ==
  /\ subscriptions' = [subscriptions EXCEPT ![s] = sub]
  /\ sent' = sent \cup {[sub |-> s, status |-> sub.status, tier |-> sub.tier, at |-> second]}
  /\ Cardinality(sent) < MaxStripeEvents
  /\ UNCHANGED <<sessions, customers, billing, checkout, referral, offers, second, received>>

\* A session is completed at most once; the first payment succeeds or waits.
CompleteSession(s, x) ==
  /\ subscriptions[s] = NoSub /\ x \in sessions
  /\ \A other \in StripeSubs : subscriptions[other].session # <<x>>
  /\ \E status \in {"active", "incomplete"} :
       Emit(s, [status |-> status, tier |-> x.tier, session |-> <<x>>])

NextStatus == [absent |-> {}, incomplete |-> {"active", "incomplete_expired"},
               active |-> {"active", "past_due", "canceled"},
               past_due |-> {"active", "unpaid", "canceled"},
               unpaid |-> {"canceled"}, canceled |-> {}, incomplete_expired |-> {}]

\* A renewal, a failed payment, a cancellation, or a change of tier in the portal.
ChangeSubscription(s) ==
  \E status \in NextStatus[subscriptions[s].status], tier \in SoldTiers :
    /\ status = "active" \/ tier = subscriptions[s].tier
    /\ Emit(s, [status |-> status, tier |-> tier, session |-> subscriptions[s].session])

OfferEnds(o) ==
  /\ o \in offers
  /\ offers' = offers \ {o}
  /\ UNCHANGED <<subscriptions, sessions, customers, sent, billing, checkout, referral,
                 second, received>>

SecondPasses ==
  /\ second < StripeSeconds
  /\ second' = second + 1
  /\ UNCHANGED <<subscriptions, sessions, customers, sent, billing, checkout, referral,
                 offers, received>>

StripeNext ==
  \/ \E e \in sent : HandleWebhook(e)
  \/ \E t \in Tabs : \/ \E tier \in SoldTiers : StartCheckout(t, tier)
                     \/ CreateCustomer(t) \/ SetStripeCustomerId(t) \/ CreateSession(t)
  \/ ReadForReferral \/ GrantReferralDiscount
  \/ \E s \in StripeSubs : ChangeSubscription(s) \/ \E x \in sessions : CompleteSession(s, x)
  \/ \E o \in offers : OfferEnds(o)
  \/ SecondPasses

StripeSpec == StripeInit /\ [][StripeNext]_stripeVars

-------------------------------------------------------------------------------
LastEvents == {e \in sent : \A f \in sent : f.at <= e.at}

(* Once every event was delivered, in whatever order and however often,    *)
(* the row shows what Stripe has for the subscription that changed last,   *)
(* unless two changes fell in one second                                   *)
(* (BillingRepository.applySubscriptionUpdate).                            *)
SettledRowIsTrue ==
  received = sent /\ Cardinality(LastEvents) = 1 =>
    \A e \in LastEvents :
      /\ billing.sub = e.sub
      /\ billing.status = MapStripeStatus(subscriptions[e.sub].status)
      /\ billing.tier = subscriptions[e.sub].tier

(* Two subscriptions never come from one tier in one window: a double      *)
(* click, a retry or a second tab ends in the session of the first         *)
(* (BillingService.buildCheckoutIdempotencyKey).                           *)
OneSubscriptionPerWindow ==
  \A s, r \in StripeSubs :
    s # r /\ subscriptions[s] # NoSub /\ subscriptions[r] # NoSub =>
      subscriptions[s].session[1].key # subscriptions[r].session[1].key

===============================================================================
