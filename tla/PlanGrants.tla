------------------------------ MODULE PlanGrants ------------------------------
(***************************************************************************)
(* Days of a plan given without a subscription: a redeemed promo code      *)
(* (PromoCodeService.redeem), an administrator's grant, and the reward of  *)
(* a referrer when the referred company verifies its email                 *)
(* (ReferralService.grantRewardForVerifiedEmail). All end in               *)
(* BillingRepository.grantPlanDays, which reads the grant of the company   *)
(* and writes the longer one.                                              *)
(*                                                                         *)
(* Requests interleave at their awaits; a statement may fail, and a        *)
(* restart ends a request where it stands.                                 *)
(***************************************************************************)
EXTENDS PlanTiers, FiniteSets

CONSTANTS
  GrantCompanies,
  Referrer, Referred,  \* the one referral
  Codes,               \* promo codes
  CodeTier, CodeDays, CodeMax, \* what they grant, and maxRedemptions
  Mails,               \* verification links sent to the referred company
  GrantRequests,       \* requests, each run once
  LastDay              \* bound of the clock, in days

ASSUME ReferralAssumption == Referrer \in GrantCompanies /\ Referred \in GrantCompanies \ {Referrer}
ASSUME CodeAssumption == CodeTier \in PlanTier /\ CodeDays \in Nat \ {0} /\ CodeMax \in Nat \ {0}

VARIABLES
  grant,        \* [GrantCompanies -> premiumGrantedUntil and grantedPlanTier]
  code,         \* [Codes -> "active", "inactive" or "deleted", and redemptionsCount]
  redemptions,  \* the PromoCodeRedemption rows
  consumed,     \* verification links used up
  rewardGranted,\* rewardGrantedAt of the referral is set
  grantReq,     \* [GrantRequests -> the state of a request]
  today,        \* the clock
  credited      \* history: [Codes \X GrantCompanies -> grants a code gave a company]

grantVars == <<grant, code, redemptions, consumed, rewardGranted, grantReq, today,
               credited>>

NoGrant == [until |-> 0, tier |-> NoTier]
FreshReq == [pc |-> "idle", kind |-> "none", company |-> Referrer, code |-> "none",
             tier |-> NoTier, days |-> 0, seen |-> NoGrant, at |-> 0]

Grants == {g \in [until : Nat, tier : PlanTier \cup {NoTier}] : g.until = 0 <=> g.tier = NoTier}

RequestRecords ==
  [pc : {"idle", "has", "record", "read", "write", "consume", "referral", "tier", "discount",
         "mark", "done"},
   kind : {"none", "redeem", "admin", "verify"}, company : GrantCompanies,
   code : Codes \cup Mails \cup {"none"}, tier : PlanTier \cup {NoTier}, days : Nat,
   seen : Grants, at : Nat]

GrantTypeOK ==
  /\ grant \in [GrantCompanies -> Grants]
  /\ code \in [Codes -> [state : {"active", "inactive", "deleted"}, count : Nat]]
  /\ redemptions \subseteq Codes \X GrantCompanies
  /\ consumed \subseteq Mails /\ rewardGranted \in BOOLEAN /\ today \in Nat \ {0}
  /\ grantReq \in [GrantRequests -> RequestRecords]
  /\ credited \in [Codes \X GrantCompanies -> Nat]

GrantInit ==
  /\ grant = [c \in GrantCompanies |-> NoGrant]
  /\ code = [k \in Codes |-> [state |-> "active", count |-> 0]]
  /\ redemptions = {} /\ consumed = {} /\ rewardGranted = FALSE
  /\ grantReq = [g \in GrantRequests |-> FreshReq]
  /\ today = 1
  /\ credited = [x \in Codes \X GrantCompanies |-> 0]

Goto(g, pc) == grantReq' = [grantReq EXCEPT ![g].pc = pc]

-------------------------------------------------------------------------------
(* BillingRepository.grantPlanDays                                         *)

ReadGrant(g) ==
  /\ grantReq[g].pc = "read"
  /\ grantReq' = [grantReq EXCEPT ![g].pc = "write", ![g].at = today,
                                  ![g].seen = grant[grantReq[g].company]]
  /\ UNCHANGED <<grant, code, redemptions, consumed, rewardGranted, today, credited>>

(* Mutant: the days count from today, whatever still runs. *)
FromToday(q) == [until |-> q.at + q.days, tier |-> q.tier]
\* The end the request computed from what it read: a running grant is extended and
\* keeps the better tier, one that is over starts again today.
Extended(q) ==
  LET running == q.seen.until > q.at
  IN [until |-> (IF running THEN q.seen.until ELSE q.at) + q.days,
      tier  |-> IF running THEN HigherTier(q.seen.tier, q.tier) ELSE q.tier]

WriteGrant(g) ==
  /\ grantReq[g].pc = "write"
  /\ LET q == grantReq[g] IN
       /\ grant' = [grant EXCEPT ![q.company] = Extended(q)]
       /\ credited' = IF q.kind = "redeem"
                      THEN [credited EXCEPT ![<<q.code, q.company>>] = @ + 1] ELSE credited
       /\ Goto(g, IF q.kind = "verify" THEN "discount" ELSE "done")
  /\ UNCHANGED <<code, redemptions, consumed, rewardGranted, today>>

-------------------------------------------------------------------------------
(* PromoCodeService.redeem                                                 *)

FindCode(g, c, k) ==
  /\ grantReq[g].pc = "idle"
  /\ code[k].state = "active" /\ code[k].count < CodeMax
  /\ grantReq' = [grantReq EXCEPT ![g] =
       [FreshReq EXCEPT !.pc = "has", !.kind = "redeem", !.company = c, !.code = k,
                        !.tier = CodeTier, !.days = CodeDays]]
  /\ UNCHANGED <<grant, code, redemptions, consumed, rewardGranted, today, credited>>

HasRedeemed(g) ==
  /\ grantReq[g].pc = "has"
  /\ Goto(g, IF <<grantReq[g].code, grantReq[g].company>> \in redemptions
             THEN "done" ELSE "record")
  /\ UNCHANGED <<grant, code, redemptions, consumed, rewardGranted, today, credited>>

(* Mutant: no unique index on the redemptions. *)
RecordAnyRedemption(g) ==
  /\ grantReq[g].pc = "record"
  /\ LET k == grantReq[g].code
     IN IF code[k].state = "deleted"
        THEN Goto(g, "done") /\ UNCHANGED <<code, redemptions>>
        ELSE /\ redemptions' = redemptions \cup {<<k, grantReq[g].company>>}
             /\ code' = [code EXCEPT ![k].count = @ + 1]
             /\ Goto(g, "read")
  /\ UNCHANGED <<grant, consumed, rewardGranted, today, credited>>

\* One transaction, refused by the unique index or by the missing code.
RecordRedemption(g) ==
  /\ grantReq[g].pc = "record"
  /\ LET k == grantReq[g].code
         row == <<k, grantReq[g].company>>
     IN IF row \in redemptions \/ code[k].state = "deleted"
        THEN Goto(g, "done") /\ UNCHANGED <<code, redemptions>>
        ELSE /\ redemptions' = redemptions \cup {row}
             /\ code' = [code EXCEPT ![k].count = @ + 1]
             /\ Goto(g, "read")
  /\ UNCHANGED <<grant, consumed, rewardGranted, today, credited>>

\* The administrator's switch and deletion; the redemptions go with the code.
SetCodeActive(k) ==
  /\ code[k].state # "deleted"
  /\ code' = [code EXCEPT ![k].state = IF @ = "active" THEN "inactive" ELSE "active"]
  /\ UNCHANGED <<grant, redemptions, consumed, rewardGranted, grantReq, today, credited>>

DeleteCode(k) ==
  /\ code[k].state # "deleted"
  /\ code' = [code EXCEPT ![k].state = "deleted"]
  /\ redemptions' = {x \in redemptions : x[1] # k}
  /\ UNCHANGED <<grant, consumed, rewardGranted, grantReq, today, credited>>

AdminGrant(g, c, tier) ==
  /\ grantReq[g].pc = "idle"
  /\ grantReq' = [grantReq EXCEPT ![g] =
       [FreshReq EXCEPT !.pc = "read", !.kind = "admin", !.company = c, !.tier = tier, !.days = 1]]
  /\ UNCHANGED <<grant, code, redemptions, consumed, rewardGranted, today, credited>>

-------------------------------------------------------------------------------
(* AuthService.verifyEmail and the referral reward                         *)

FindMailToken(g, e) ==
  /\ grantReq[g].pc = "idle" /\ e \notin consumed
  /\ grantReq' = [grantReq EXCEPT ![g] =
       [FreshReq EXCEPT !.pc = "consume", !.kind = "verify", !.code = e]]
  /\ UNCHANGED <<grant, code, redemptions, consumed, rewardGranted, today, credited>>

ConsumeMailToken(g) ==
  /\ grantReq[g].pc = "consume"
  /\ consumed' = consumed \cup {grantReq[g].code}
  /\ Goto(g, "referral")
  /\ UNCHANGED <<grant, code, redemptions, rewardGranted, today, credited>>

FindReferral(g) ==
  /\ grantReq[g].pc = "referral"
  /\ Goto(g, IF rewardGranted THEN "done" ELSE "tier")
  /\ UNCHANGED <<grant, code, redemptions, consumed, rewardGranted, today, credited>>

\* The referrer, a company without a subscription, earns by its tier of this moment.
ReferrerTier ==
  CapsTier(EffectivePlanTier(NoTier, NoTier,
                             GrantTier(grant[Referrer].until, grant[Referrer].tier, today)))

ReadReferrerTier(g) ==
  /\ grantReq[g].pc = "tier"
  /\ grantReq' = [grantReq EXCEPT ![g].pc = "read", ![g].tier = Premium,
                                  ![g].days = RewardDays[ReferrerTier]]
  /\ UNCHANGED <<grant, code, redemptions, consumed, rewardGranted, today, credited>>

\* The discount of the referred company runs beside the grant; when Stripe refuses
\* it, Promise.all rejects and the reward stays unmarked.
GiveDiscount(g) ==
  /\ grantReq[g].pc = "discount"
  /\ Goto(g, "mark") \/ Goto(g, "done")
  /\ UNCHANGED <<grant, code, redemptions, consumed, rewardGranted, today, credited>>

MarkRewardGranted(g) ==
  /\ grantReq[g].pc = "mark"
  /\ rewardGranted' = TRUE
  /\ Goto(g, "done")
  /\ UNCHANGED <<grant, code, redemptions, consumed, today, credited>>

-------------------------------------------------------------------------------
\* A statement fails, or a restart ends the request.
RequestDies(g) ==
  /\ grantReq[g].pc \notin {"idle", "done"}
  /\ Goto(g, "done")
  /\ UNCHANGED <<grant, code, redemptions, consumed, rewardGranted, today, credited>>

DayPasses ==
  /\ today < LastDay
  /\ today' = today + 1
  /\ UNCHANGED <<grant, code, redemptions, consumed, rewardGranted, grantReq, credited>>

GrantStep(g) ==
  \/ ReadGrant(g) \/ WriteGrant(g)
  \/ HasRedeemed(g) \/ RecordRedemption(g)
  \/ ConsumeMailToken(g) \/ FindReferral(g) \/ ReadReferrerTier(g)
  \/ GiveDiscount(g) \/ MarkRewardGranted(g)
  \/ RequestDies(g)
  \/ \E c \in GrantCompanies : \/ \E k \in Codes : FindCode(g, c, k)
                               \/ \E tier \in PlanTier : AdminGrant(g, c, tier)
  \/ \E e \in Mails : FindMailToken(g, e)

GrantNext ==
  \/ \E g \in GrantRequests : GrantStep(g)
  \/ \E k \in Codes : SetCodeActive(k) \/ DeleteCode(k)
  \/ DayPasses

GrantSpec == GrantInit /\ [][GrantNext]_grantVars

-------------------------------------------------------------------------------
(* A code gives a company its days at most once, however many requests     *)
(* redeem it at the same time, and its counter is the number of its rows   *)
(* (PromoCodeRepository.recordRedemption).                                 *)
RedeemedOnce ==
  /\ \A x \in Codes \X GrantCompanies : credited[x] <= 1
  /\ \A k \in Codes : code[k].state # "deleted" =>
       code[k].count = Cardinality({x \in redemptions : x[1] = k})

(* A grant written on top of the one it was computed from never shortens   *)
(* it and never lowers the tier of one that still runs; only a grant       *)
(* written in between can be lost (BillingRepository.grantPlanDays).       *)
GrantsStack ==
  [][\A c \in GrantCompanies :
       grant'[c] # grant[c] =>
         \E g \in GrantRequests :
           /\ grantReq[g].company = c /\ grantReq[g].pc = "write"
           /\ grantReq[g].seen = grant[c] =>
                /\ grant'[c].until > grant[c].until
                /\ grant[c].until > today => grant'[c].tier >= grant[c].tier
    ]_grantVars

===============================================================================
