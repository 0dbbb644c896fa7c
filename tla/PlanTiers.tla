------------------------------- MODULE PlanTiers -------------------------------
(***************************************************************************)
(* The three tiers and what a company is entitled to: the pure part of     *)
(* the plan gate (plan-config.ts, the functions under PlanGateService).    *)
(*                                                                         *)
(* A tier is its rank in PLAN_TIER_ORDER; NoTier, below all of them, is    *)
(* the absence of a plan (null in the code). Dates are natural numbers, 0  *)
(* the null date.                                                          *)
(***************************************************************************)
EXTENDS Naturals

NoTier    == 0
Essentiel == 1
Pro       == 2
Premium   == 3

PlanTier == {Essentiel, Pro, Premium}
SubscriptionStatus == {"NONE", "ACTIVE", "PAST_DUE", "CANCELED"}

\* The better of two tiers, null counting as none at all.
HigherTier(a, b) == IF a >= b THEN a ELSE b

\* The tier an active subscription gives, Stripe's or Apple's.
SubscribedTier(status, tier) == IF status = "ACTIVE" THEN tier ELSE NoTier

\* The tier a grant gives while it runs.
GrantTier(until, tier, now) == IF until > now THEN tier ELSE NoTier

EffectivePlanTier(stripeTier, appleTier, grantTier) ==
  HigherTier(HigherTier(stripeTier, appleTier), grantTier)

\* A company without a plan has the caps of Essentiel.
CapsTier(tier) == IF tier = NoTier THEN Essentiel ELSE tier

PriceEuros == [t \in PlanTier |-> CASE t = Essentiel -> 7 [] t = Pro -> 12 [] t = Premium -> 15]
TrialOfferTier == Premium
TrialOfferPrice == 2
ReferralPercentOff == 30

\* The one discount of a checkout. A referral outranks the launch offer; between
\* a referral and the trial offer the cheaper for the artisan wins.
DiscountKind(tier, referral, trialRunning, launchRunning) ==
  LET trial == tier = TrialOfferTier /\ trialRunning
      trialIsCheaper ==
        TrialOfferPrice * 100 <= PriceEuros[tier] * (100 - ReferralPercentOff)
  IN CASE referral /\ trial  -> IF trialIsCheaper THEN "trial" ELSE "referral"
       [] referral /\ ~trial -> "referral"
       [] ~referral /\ trial -> "trial"
       [] ~referral /\ ~trial /\ tier = Premium /\ launchRunning -> "launch"
       [] OTHER -> "none"

\* Days of Premium a referrer earns, by its own tier when the reward fires.
RewardDays == [t \in PlanTier |-> 10 * t]
===============================================================================
