------------------------------ MODULE FacturXQuota ------------------------------
(***************************************************************************)
(* The monthly quota of Factur-X documents of a company without a plan.    *)
(* A plan starts and lapses at any time; the documents made under it spend *)
(* credits of their month like the others.                                 *)
(* A download, a mail and a transmission all ask canUseFacturX, then       *)
(* produce the hybrid, and only then spend the credit of the document:     *)
(* requests that overlap count the same credits                            *)
(* (PlanGateService, BillingRepository).                                   *)
(***************************************************************************)
EXTENDS Naturals, FiniteSets

CONSTANTS
  QuotaDocs,     \* factures of the company
  QuotaRequests, \* requests in flight at one time
  MonthlyLimit,  \* FACTURX_FREE_MONTHLY_LIMIT
  LastMonth      \* bound of the calendar

ASSUME QuotaAssumption ==
  /\ IsFiniteSet(QuotaDocs) /\ QuotaDocs # {} /\ IsFiniteSet(QuotaRequests)
  /\ MonthlyLimit \in Nat \ {0} /\ LastMonth \in Nat \ {0}

VARIABLES
  usedAt,  \* [QuotaDocs -> month of facturXFirstUsedAt, 0 for none]
  month,   \* the calendar month
  hasPlan, \* the company's plan is in force
  quotaCall, \* [QuotaRequests -> a request: its next statement and its document]
  granted, \* history: [QuotaRequests -> the month its use was allowed as free]
  givenFree \* history: the documents whose credit a use allowed as free spent

quotaVars == <<usedAt, month, hasPlan, quotaCall, granted, givenFree>>

QuotaIdle == [pc |-> "idle", doc |-> CHOOSE d \in QuotaDocs : TRUE]

QuotaTypeOK ==
  /\ usedAt \in [QuotaDocs -> 0..LastMonth] /\ month \in 1..LastMonth
  /\ hasPlan \in BOOLEAN /\ granted \in [QuotaRequests -> 0..LastMonth]
  /\ quotaCall \in [QuotaRequests -> [pc : {"idle", "plan", "count", "render"}, doc : QuotaDocs]]
  /\ givenFree \subseteq QuotaDocs

QuotaInit ==
  /\ usedAt = [d \in QuotaDocs |-> 0] /\ month = 1 /\ hasPlan = FALSE
  /\ quotaCall = [r \in QuotaRequests |-> QuotaIdle]
  /\ granted = [r \in QuotaRequests |-> 0] /\ givenFree = {}

QuotaStep(r, pc) == quotaCall' = [quotaCall EXCEPT ![r].pc = pc]
QuotaDone(r) == /\ quotaCall' = [quotaCall EXCEPT ![r] = QuotaIdle]
                /\ granted' = [granted EXCEPT ![r] = 0]

\* getInvoiceFacturXUsedAt: a credit spent once serves for ever.
ReadUsed(r, d) ==
  /\ quotaCall[r].pc = "idle"
  /\ quotaCall' = [quotaCall EXCEPT ![r] =
       [pc |-> IF usedAt[d] # 0 THEN "render" ELSE "plan", doc |-> d]]
  /\ UNCHANGED <<usedAt, month, hasPlan, granted, givenFree>>

ReadPlan(r) ==
  /\ quotaCall[r].pc = "plan"
  /\ QuotaStep(r, IF hasPlan THEN "render" ELSE "count")
  /\ UNCHANGED <<usedAt, month, hasPlan, granted, givenFree>>

UsedThisMonth == {d \in QuotaDocs : usedAt[d] = month}
(* Mutant: one credit too many. *)
UpToLimit == Cardinality(UsedThisMonth) <= MonthlyLimit
UnderLimit == Cardinality(UsedThisMonth) < MonthlyLimit

\* Over the quota, a download or a transmission is refused and a mail goes out
\* with the plain document: neither spends anything.
CountUsed(r) ==
  /\ quotaCall[r].pc = "count"
  /\ IF UnderLimit
     THEN QuotaStep(r, "render") /\ granted' = [granted EXCEPT ![r] = month]
     ELSE QuotaDone(r)
  /\ UNCHANGED <<usedAt, month, hasPlan, givenFree>>

\* generateHybridPdf, then recordFacturXUsed: a conditional update.
RecordFacturXUsed(r) ==
  /\ quotaCall[r].pc = "render"
  /\ LET d == quotaCall[r].doc
     IN /\ usedAt' = [usedAt EXCEPT ![d] = IF @ = 0 THEN month ELSE @]
        /\ givenFree' = givenFree \cup {x \in {d} : usedAt[d] = 0 /\ granted[r] # 0}
  /\ QuotaDone(r)
  /\ UNCHANGED <<month, hasPlan>>

\* The hybrid could not be produced.
RenderFails(r) ==
  /\ quotaCall[r].pc = "render" /\ QuotaDone(r)
  /\ UNCHANGED <<usedAt, month, hasPlan, givenFree>>

MonthPasses ==
  /\ month < LastMonth /\ month' = month + 1
  /\ UNCHANGED <<usedAt, hasPlan, quotaCall, granted, givenFree>>

PlanStarts ==
  /\ ~hasPlan /\ hasPlan' = TRUE
  /\ UNCHANGED <<usedAt, month, quotaCall, granted, givenFree>>

\* getEffectivePlanTier: a grant expires, a subscription is active no more.
PlanEnds ==
  /\ hasPlan /\ hasPlan' = FALSE
  /\ UNCHANGED <<usedAt, month, quotaCall, granted, givenFree>>

QuotaNext ==
  \/ \E r \in QuotaRequests :
       \/ \E d \in QuotaDocs : ReadUsed(r, d)
       \/ ReadPlan(r) \/ CountUsed(r) \/ RecordFacturXUsed(r) \/ RenderFails(r)
  \/ MonthPasses \/ PlanStarts \/ PlanEnds

QuotaSpec == QuotaInit /\ [][QuotaNext]_quotaVars

-------------------------------------------------------------------------------
Waiting == {r \in QuotaRequests : quotaCall[r].pc = "render" /\ granted[r] # 0}

GivenThisMonth == {d \in givenFree : usedAt[d] = month}

(* The quota is soft, by as much as requests overlap and no more: however  *)
(* often a plan starts and lapses, the documents that spent a credit of    *)
(* the month for nothing and those of the uses already allowed for nothing *)
(* (this month or before) never exceed the limit by more than the requests *)
(* in flight beside the last one. Documents made under a plan are counted  *)
(* in the month and not bounded by it: a company whose plan lapses may be  *)
(* over its limit already (canUseFacturX, recordFacturXUsed).              *)
QuotaOverrunIsBounded ==
  Cardinality(GivenThisMonth \cup {quotaCall[r].doc : r \in Waiting})
    <= MonthlyLimit + Cardinality(QuotaRequests) - 1
===============================================================================
