# FactureLeBat: a TLA+ model of its protocols

FactureLeBat is an invoicing application for French artisans: a NestJS backend
(`src/backend`, PostgreSQL through Prisma) and an Angular frontend
(`src/frontend`). Most of its code is single-statement CRUD and screens. What is
hard in it is the rest: chains of `await`s on one row that interleave with other
requests and with cron sweeps, calls to an approved e-invoicing platform (SUPER
PDP, "the PA"), to Stripe and to Apple that cannot be undone, single-use tokens,
numbers the law wants in sequence, amounts computed in four places that must
agree, and screens whose answers come late. This directory models those
protocols, model-checks them with TLC and proves their invariants with TLAPS.

- [Inventory](#inventory)
- [Modules](#modules)
- [Modelling decisions](#modelling-decisions)
- [Runs](#runs)
- [Fairness](#fairness)
- [Proofs](#proofs)
- [Where the code and its comments disagree](#where-the-code-and-its-comments-disagree)
- [Noted, without a run](#noted-without-a-run)
- [What is not modelled](#what-is-not-modelled)
- [Plan](#plan)

Paths below are relative to `src/backend/src` unless they begin with `src/`;
those of the screens, to `src/frontend/src/app`.

## Inventory

One Node process serves every request. JavaScript runs without preemption, so
the units of interleaving are the stretches between two `await`s; one database
statement is atomic, and a `$transaction` with a `FOR UPDATE` lock is the only
larger unit. Crons (`@nestjs/schedule`) fire on time whether or not the last
tick has ended. In the browser the units are the handlers of events and answers.

| Component | State | Operations | What is hard | What makes it correct |
|---|---|---|---|---|
| **E-invoice transmission** (`invoice/e-invoicing/e-invoice-transmission.service.ts`, `super-pdp-provider.service.ts`, `super-pdp-status.util.ts`) | `Invoice.eInvoiceTransmissionStatus`, `eInvoiceRejectionReason`, `superPdpInvoiceId`, `facturXFirstUsedAt`; the PA's event log | `transmit`, `refreshStatus` | five awaits between the status guard and the write; an answer lost after the PA accepted; unconditional writes of values read long before | the credit is spent before the irreversible call; the row shows only what the PA said of that invoice; a rejection has its reason |
| **Auto-transmit sweep** (`auto-transmit-cron.service.ts`, `invoice.repository.ts`) | `scheduledTransmitAt`, `transmitCancelledAt` | cron every five minutes, cancellation, scheduling at creation | overlapping sweeps, a cancellation between query and claim, one failing row among many | an invoice leaves the queue once, by one claim or a cancellation; nothing puts it back; none is forgotten |
| **SUPER PDP connection** (`company-super-pdp.service.ts`, `company-super-pdp.controller.ts`, `super-pdp-client.service.ts`) | encrypted token pair and its expiry, `superPdpConnectedAt`, `refreshInFlight` (in memory) | OAuth callback, `disconnect`, `getValidAccessToken` | refresh tokens are good once; racing refreshes; a disconnection during a refresh; a lost rotated token | one refresh at a time; racing never costs the connection; a severed connection stays severed |
| **Provisioning sweep** (`super-pdp-provisioning-cron.service.ts`) | `superPdpDirectoryRegisteredAt`; the PA's directory | cron every thirty minutes: verification, VAT regime, directory entry, mark | four PA calls between reading the row and marking it | the mark means "registered under this connection" |
| **Invoice creation and conversion** (`invoice/invoice.service.ts`, `invoice.repository.ts`, `next-number.util.ts`) | `Invoice` rows, `convertedFromDevisId`, `createdFromFactureId`, the number prefixes | `create`, `convertToFacture`, `convertToDevis` | checks outside the transaction; numbers computed per type but unique across types | numbers follow the order of issue without a gap; a document is converted once |
| **Plan gate** (`billing/plan-gate.service.ts`) | `trialOfferExpiresAt`, counts of rows | `assertCanCreateInvoice`, `recordInvoiceCreated`, Factur-X quota, catalogue limits | counts that are stale when used | the offer is for the first invoice |
| **Invoice row** (payment status, signatures, share links, mail) | `status`, `paidAt`, `depositPaidAt`, `sentAt`, signature columns, `shareToken` | `updateStatus`, signing, sharing, revoking, sending | every handler reads the row, awaits, and writes some columns | dates and status agree |
| **Factur-X quota** (`billing/plan-gate.service.ts`, its three spenders) | `facturXFirstUsedAt` per facture, the month | download, mail, transmission | counted before the file is made, spent after | the overrun is bounded by what overlaps |
| **Subscriptions** (`billing/billing.service.ts`, `billing.repository.ts`, `stripe/`, `apple/`) | the Stripe and Apple columns of `Company`; Stripe's sessions and subscriptions; Apple's transactions | checkout, webhooks, `verifyApplePurchase`, `handleAppleNotification`, referral discount | events late, repeated and reordered; two tabs; a link read before the row is written | the row shows the newest event; one subscription per tier and window |
| **Grants** (`billing/promo-code/`, `referral/`) | `premiumGrantedUntil`, redemptions, `rewardGrantedAt` | redeem, an administrator's grant, the referrer's reward | a request dies between the redemption and the grant; two grants at once | a code is given once; grants add up |
| **Sessions** (`auth/`) | `RefreshToken` rows, cookies | login, `refresh`, reuse detection, logout, password change and reset | parallel tabs refresh with one token; a retry looks like a theft | a device that plays by the rules keeps its session |
| **Frontend session** (`core/interceptors/auth-refresh.interceptor.ts`, `core/services/auth.service.ts`) | the user, calls in flight, the shared refresh | retry of a 401, sign-in, sign-out | a refresh that fails after a new sign-in | the new session is kept |
| **Received invoices** (`received-invoice/`) | rows keyed by PA id; the cursor is the highest one | `sync` by hand, daily sweep | overlapping syncs, a failure in the middle of the pages | no invoice is skipped; the sweep catches up |
| **Push notifications and reminders** (`push-notification/`) | `lastInvoiceNudgeAt`, `PushDevice` rows | daily nudge, registration of phones | one mark for all after the loop; phones change hands | nudges are spaced; only inactive companies get one |
| **Totals and redistribution** (`invoice/calculation`, `invoice/redistribution.util.ts`, `invoice.mapper.ts`) | none: recomputed at every read | preview, creation, conversion, reload; Factur-X amounts | rounding, floors, weights read in no order, a VAT regime that changes | every read shows the amounts agreed to; cents add up |
| **Reports and quarterly statement** (`reports/`, `features/stats-reports`) | none: sums over the factures | statement, margin, activity, ceiling | four different sums of the same rows; local and UTC months | a euro is declared once, the screens agree |
| **Catalogue, customers, discounts** | rows of one company | CRUD under a capacity; saving from a draft | saved before its document, retried | an entry is created once |
| **Voice draft** (`invoice-voice-draft/`, `features/invoice-create/voice`) | a draft with doubts | parse or ask a model, search, read again, review | what is found is stale when shown; doubts by position | never silently wrong |
| **Frontend guided draft** (`features/invoice-create`) | `InvoiceDraftStore`, FormArrays | edit, remove with an animation, load, reset | parts that refer to each other by position or by id | weights, targets and flags stay aligned |
| **Frontend running total** (`calculation-preview.ts`, the stores) | a cached profile, what was typed | every edit recomputes | a second copy of the formulas; late profile answers | the card is the document |
| **Frontend manual table** (`features/invoice-create/manual`) | columns and cells by id | add, remove, clone, reload | ids in the browser, positions in a request, other ids in the database | a value stays under its heading |
| **Frontend invoice board** (`features/invoice-board`) | rows held, modals, calls in flight | status, convert, mail, sign, preview | answers out of order, modals reused | a settled row is the row of the database |
| **PDF, Factur-X, CSV; SUPER PDP HTTP client; company profile** | files, request bodies, columns | generation, delivery, settings | I/O | only what other parts rely on |
| **Other screens** (`app.ts`, settings, tour, …) | forms | one request each | layout | not modelled |

How they meet: creation schedules a transmission when the company opted in
and is connected; the sweep and the board's button call the same `transmit`;
`transmit`, `refreshStatus`, the reception of invoices, the status page and the
provisioning sweep all obtain their token from `getValidAccessToken`; the plan
gate, which reads what subscriptions and grants wrote, is asked by creation, by
the catalogue and by everything that spends a Factur-X credit; the browser
computes with a copy of the server's formulas, and shows a copy of its rows.
`PROJECT.json` lists the components, and, under `hazards`, every place where
one of these can go wrong in a way a test would hardly reach.

## Modules

| Module | What it is |
|---|---|
| `AutoTransmitQueue` | Abstract: what "delayed automatic transmission" promises, with no request, sweep or platform in sight |
| `NewestEvent` | Abstract: what a subscription row promises of the dated events it is told of |
| `EInvoiceTransmission` | Invoice rows, clicks, overlapping sweeps, refreshes, cancellations, restarts and the PA, statement by statement |
| `SuperPdpConnection` | Consent, shared refresh, disconnection, provisioning |
| `ReceivedInvoiceSync`, `InvoiceNudge` | The two other scheduled jobs with a memory: inbox pages, nudges |
| `InvoiceCreation` | The three creating endpoints around one locked transaction |
| `InvoiceRow`, `FacturXQuota` | What happens to a row after its creation; the free quota and its three spenders |
| `PlanTiers` | Pure: tiers, prices, discounts, capacities, the effective tier |
| `StripeSubscription`, `AppleSubscription`, `PlanGrants` | How a company gets a tier: checkout and webhooks, App Store, days given |
| `RefreshSession`, `SessionClient` | Refresh tokens on the server; the browser that shares one refresh |
| `InvoiceTotals`, `Reports` | The amounts of a document at each of its reads; the sums of the screens and the statement |
| `GuidedDraft`, `DraftTotals`, `ManualTable`, `VoiceDraft`, `CatalogueSaving`, `InvoiceBoard` | The browser: draft, running total, table, dictation, catalogue, list |
| `MCEInvoiceTransmission`, `MCInvoiceCreation`, `MCSuperPdpConnection`, `MCInvoiceTotals` | Symmetry sets, inputs and bounds for TLC |
| `MCEInvoiceSweeps`, `MCDocuments`, `MCAccount`, `MCDesk` | Several specifications in one run (see [Runs](#runs)) |
| `…Proofs` | The theorems: `EInvoiceTransmissionProofs`, `SuperPdpConnectionProofs`, `SweepsProofs`, `DocumentProofs`, `AccountProofs`, `GuidedProofs`, `TotalsProofs`, `DeskProofs` |

### EInvoiceTransmission

A worker is a click or a sweep. `pc[w]` names the next statement of `transmit`
and `cur[w]`, `sub[w]` are its local variables.

| Code | Action |
|---|---|
| `computeScheduledTransmitAt`, then `createWithSequentialNumber` | `ComputeScheduledTransmitAt`, `InsertInvoice` (the connection may end in between) |
| the twenty minutes elapse | `GracePeriodEnds` |
| `cancelScheduledTransmit` | `CancelAutoTransmit` (gated on nothing, as in the code) |
| `AutoTransmitCronService.sweep` | `SweepBegin` (the query), `ClaimAutoTransmit` or `SkipUnclaimed` per row, `SweepEnd` |
| `transmit` | `ReadAndGuard`, `AssertCanUseFacturX`, `GenerateAndRecord`, `GetValidAccessToken`, `Submit`, then `PersistSent` or `AnswerLost` |
| `refreshStatus` | `RefreshRead`, `RefreshToken`, `RefreshFetch`, `RefreshPersist` |
| the PA appends an event | `PlatformEvent`, through `Resolve`, one turn of `resolveTransmissionStatus` |
| the process restarts | `Crash` |

`paInvoice`, `paBy` and `paStatus` are the PA's side: which submission ids it
handed out, for which invoice, and where each stands. `claims` is history.

### AutoTransmitQueue and the refinement

An invoice is `absent`, `manual`, `queued`, `claimed` or `cancelled`. It enters
the queue at its creation only; a claim (which counts one attempt) or a
cancellation takes it out, and nothing puts it back. `EInvoiceTransmission`
implements it with `attempts <- claims` and `phase` computed from the row
(`Queue == INSTANCE AutoTransmitQueue WITH attempts <- claims`,
`ImplementsQueue == Queue!QueueSpec`). The interesting steps are a sweep whose
list is stale, two sweeps on one row, and a cancellation that comes after the
claim: it must be a stutter.

### InvoiceCreation

A row is named by the request that inserts it. `step[r]` names the next
statement, `wish[r]` is the request's body, `number[r]` the number asked for
or given, `lock` the holder of the `Company` row lock, `born` (history) the order
of commits. A request is `Ask`ed, passes `AssertCanCreateInvoice` (and
`CountInvoices`), `CheckSource`, `LockCompany`, `AssignNumber`, `InsertInvoice`
(to the commit or the rollback), `RecordInvoiceCreated` and
`StartTrialOfferWindow`. `UpdatePrefix`, `ChangePlan` and `Crash` interleave.
`Unique` holds the three unique constraints, `SourceAccepted` what each of the
three endpoints checks of the document it starts from: `convertToFacture`
checks the type only, and leaves the rest to the constraint.

### SuperPdpConnection

A pair of tokens is a model value; a consent is named by its first pair, and
`origin` maps every pair to the consent it descends from. `stored`,
`connectedAt`, `registered` and `siret` are columns of `Company`; `inFlight` is
the entry of `refreshInFlight` (its owner), `step`, `seen`, `token` and
`siretRead` the local variables of a caller; `old` the pairs whose access token
is about to expire, `spent` the pairs whose refresh token has been used.
A caller runs `FindSuperPdpTokens`, then one of `UseStoredToken`, `JoinRefresh`,
`StartRefresh` (from the answer of the query on, no other code runs until the
next await), then `RefreshAccessToken` or `RefreshRefused`, then
`RefreshSuperPdpTokens` (the conditional `updateMany`) or `PersistFails`.
`Settle` is the shared promise settling: it leaves the map and answers the owner
and those who joined. A sweep goes on to `GetSessionStatus`, `UpdateVatRegime`,
`EnsureDirectoryEntry`, `MarkSuperPdpDirectoryRegistered`, and may `GiveUp` at
each.

### StripeSubscription, AppleSubscription, NewestEvent

Stripe's side is `subscriptions`, `sessions` (by idempotency key) and `sent`, the
events, each with the second it was created in; the `Company` row is `billing`;
`checkout[t]` and `referral` are the local variables of `createCheckoutSession` and
`grantReferralDiscount`. `StartCheckout`, `CreateCustomer`, `SetStripeCustomerId`,
`CreateSession` are the statements of a checkout, `ReadForReferral` and
`GrantReferralDiscount` those of the other; `HandleWebhook` takes *any* event sent
so far, so that delivery is late, repeated and reordered by construction, and
`ApplySubscriptionUpdate` is its conditional update. `CompleteSession`,
`ChangeSubscription`, `OfferEnds` and `SecondPasses` belong to Stripe and to time.

With Apple, `VerifyPurchase` and `HandleNotification` find the company by the link
and `ApplyAppleUpdate` writes later: `request[r]` is what a handler is about to
write. `NewestEvent` is the promise: a row shows one of the newest updates it was
told of. `AppleSubscription` implements it under `told <- toldOf`,
`shown <- appleRow` (`AppleRowIsNewest`). For Stripe the promise is stated on the
settled state (`SettledRowIsTrue`), because an event carries seconds and two
changes in one second have no order.

### PlanGrants

`grantReq[g]` runs one of three requests (redeem a code, an administrator's grant,
the reward of a verified email) statement by statement; all end in
`grantPlanDays`, a read (`seen`) and a write. `SetCodeActive`, `DeleteCode` and
`DayPasses` interleave. `credited` is history.

### RefreshSession and SessionClient

`token` holds the `RefreshToken` rows, `jar` the cookie of a device, which its
tabs share, and `call[c]` a request: the token it carried and its handler's next
statement. `FindForRefresh`, `IssueTokens`, `RevokeIfActive` (the conditional
rotation), `RevokeEverySession` (the alarm) are `refresh`; `Arrive` and
`LoseAnswer` are the way back; `GraceEnds` is time. `SessionClient` is one tab:
the calls refused with 401 that wait for `refreshCall`, `snapshot` the user each
one remembers, and `SignIn`, `SignOut` in between.

### InvoiceRow and FacturXQuota

`document` is the row, `handler[r]` a request between its read and its write:
`ReadForStatus`/`UpdateStatus` (an unconditional write of what was computed from the row read),
`ReadForShare`/`WriteLink`, `LoadForMail`/`Deliver`/`MarkSent`,
`ReadForTick`/`SetManuallySigned`. In `FacturXQuota` a request is at `plan`, `count`
or `render`, and spends its credit (`RecordFacturXUsed`) after the file exists;
`PlanStarts` and `PlanEnds` are a subscription or a grant that begins to count in
`getEffectivePlanTier` or does no more, in any month and between any two statements of
a request. `givenFree` (history) holds the documents whose credit was spent by a use
allowed as free. Documents made under a plan are stamped in their month like the
others and counted in it: after a plan lapses in mid-month a company may be over its
limit by as many as it made, and the next free use is refused. `QuotaOverrunIsBounded`
bounds what is *given*, which the code does limit; it bounds no count of documents made
under a plan.

### ReceivedInvoiceSync and InvoiceNudge

`job[j]` is a running sync (one per company by hand, one of the sweep): `List`
reads a page from `cursor`, `Upsert` stores its head, `Abandon` and `SweepSkips`
are a failure in one or the other, `SyncRestart` the process. A nudge `run` reads
whom to push (`StartRun`), their phones (`FindDeviceTokens`), pushes one by one
(`PushOne`), marks all (`MarkPushed`) or dies (`RunDies`); `UpsertDevice` and
`DeleteByToken` move phones between companies meanwhile.

### InvoiceTotals, Reports

Amounts are cents. `Preview` shows totals of the request, `CreateDocument` makes
rows, `Convert` copies a row into a row, and "Créer la facture à partir du devis" loads
one into a request, by the store of its mode: `LoadDevis` rebuilds the weights of a
devis of mode rapide from its amounts, `LoadDevisTable` blanks what was typed over the
subtotal, the VAT and the total of a manual one and takes its VAT as the choice of the
facture. `TotalsAgree` therefore says of a manual devis left as it is that every amount
is kept *unless* one of the three was typed over (`Reconciles`), which is what the
comment of the store says (`manual-invoice-draft.store.ts:632-638`). An `order` is
a permutation of a document's lines: the weights come back from the database in
none in particular, and every property quantifies over all of them. `Reports`
issues bills, changes their status and moves the clock; the sums of the
statement (`Declared`), the margin screen (`MarginTotal`, `MarginByMonth`), the
activity screen (`RevenueByMonth`, `RevenueByClient`) and the ceiling are operators.

### The browser

- `GuidedDraft`: `draft` is `InvoiceDraftStore`, `form` the FormArrays of the lines
  step, `leaving` the cards in their exit animation (`StartRemoval`/`EndRemoval`),
  `flags` the positional store of the dictation's doubts. `Change` writes the form
  back into the store, as its `valueChanges` does.
- `DraftTotals`: `draft` what was typed, `cached` the store's copy of the profile,
  `answers` the requests about it on their way (`Serve`, `Receive`, `Lose`), `sent`
  what the card showed when the document was asked for; creation goes through
  `InvoiceTotals`. `LoadSource` and `LoadSourceTable` put a devis back into a draft of
  its mode; one made under an earlier profile is there from the start, so that a reload
  meets a profile that says otherwise.
- `ManualTable`: `columns` and `rows` of the store, `posted` the request, `tables`
  the rows of the database. A *mark* on a value is the row and heading it was
  typed under, whatever ids these get later.
- `VoiceDraft`: `spoken`, the engine's claims (`RulesAnswer`, `ModelAnswers`), the
  searches (`Search`), the second reading (`FindByIdOrNull`,
  `RevalidateSuggestion`) one look-up at a time, then the review. `engine` (history)
  is who answered: a line without an id always gets a doubt, but `resolveCustomer`
  (`invoice-voice-draft.service.ts:92-119`) leaves a customer with neither id nor doubt
  as it is. The rules never answer one; the language model may, and
  `NeverSilentlyWrong` excepts exactly that.
- `CatalogueSaving`: `slots` the draft's positions, `saver[b]` the calls of one
  reason to save (a refused preview, a submission), `orphans` those of a page
  that was left and that the server may still serve.
- `InvoiceBoard`: `row` the database, `board` the page, `boardCall[k]` a call and its
  answer, `modal`, `pdf`, `previewUrl`. An answer is merged by `Merge`,
  `Converted` or `DevisCreated`. `blurred` (history) collects the rows the page
  cannot know.

## Modelling decisions

- **Atomicity.** One database statement is one step; between two awaits nothing
  else runs. `createWithSequentialNumber` is split where other requests can see
  a difference: taking the lock, computing the number, committing. Statements
  that write the `Company` row wait for the lock, as in PostgreSQL.
- **Statuses.** `Codes` is `STATUS_CODE_MAP` read backwards. A code of no status
  (payment, internal) changes nothing. After a verdict (`ACCEPTED`, `REJECTED`)
  the PA sends no further mapped event: that is an assumption about an external
  party, taken from the comment of `super-pdp-status.util.ts:46-51`; events
  before the verdict come in any order.
- **Factur-X credit.** In `EInvoiceTransmission` a month is one period, and only
  `transmit` spends the credit; `FacturXQuota` has the calendar and the three
  spenders.
- **Numbers.** A document number is a text and its trailing number, which is all
  that `computeNextDocumentNumber` reads. They are exact integers: a number of
  more than sixteen digits, which JavaScript would round, is left out.
- **One company.** No statement of these protocols mixes rows of two companies.
  Every query in them carries a `companyId`.
- **The PA.** A submission that arrives gets an id and is accepted for good; its
  answer may be lost, late or malformed. A refresh token is good once. The access
  tokens of a severed consent still work at the PA, as nothing in the code
  revokes them. The outcome of the verification is a free choice.
- **Stripe and Apple.** They sign what happened, deliver it late, repeated and in
  any order, or never; both number moments by the clock the code compares. A
  notification that fails its verification changes nothing.
- **Amounts.** Integers of cents, quantities in thousandths, rates in basis points;
  a rounding is written as the code rounds (half up, down for the shares of a
  split). The server's decimals are exact; in the browser's card `slip`
  says whether the draft's doubles get a line at an edge wrong, both ways being
  possible.
- **Identity.** `crypto.randomUUID` gives an id nothing refers to (`IdsBeside`). Descriptions, names and texts are model values or marks.
- **Time.** Days, months and seconds are natural numbers with a bound. In
  `Reports` month *m* is the moment 2*m*, and 2*m*+1 its last hours in UTC, when the
  browser in France is already in the next month.
- **Records of requests.** A handler is a record `[pc, …]` that names its next
  statement; an idle one keeps no memory. A request that ends frees its slot.
- **Bounds.** `Submissions` and `Pairs` bound what the PA hands out,
  `MaxCrashes` the restarts of `EInvoiceTransmission`, `MaxNumber` the trailing
  numbers, `Events` the codes. When the ids run out, an action that needs a new
  one is disabled and its failing alternative remains; the theorems hold
  for every value of these constants.

## Runs

| Run | Instance | What it shows |
|---|---|---|
| `e_invoice_races` | one invoice, one click, two sweeps, one refresh, two submissions, both verdicts and an unmapped code, one restart | `TypeOK`, `CreditBeforeSubmission`, `StatusComesFromPlatform`, `RejectionIsExplained`, `SweepSubmitsOnce` and the refinement `ImplementsQueue` |
| `e_invoice_sweep` | `MCEInvoiceSweeps`: the transmission sweep (two invoices, one credit), the inbox (companies of three and one invoices), the nudges (two companies, one phone, five days) | `SweepsTypeOK`, `InboxHasNoGap`, `NudgesAreSpaced`; `DueIsPickedUp`: a due row is claimed, cancelled or found transmitted, also behind a row that fails; `AutoSyncDelivers`: an enrolled company catches up, whatever happens to the others |
| `e_invoice_double` | one click, one sweep | counterexample to `NeverADoubleTransmission` |
| `e_invoice_partial` | one sweep | counterexample to `NeverPartiallyApplied` |
| `invoice_creation` | `MCDocuments`: three creations or conversions, the page with two calls, a draft that saves its entries | `DocumentsTypeOK`, `ChronologicalNumbers`, `LineageIsSound`, `OfferIsForTheFirst`; `BoardShowsTheRow`, `PreviewIsOfItsInvoice`; `SavedOnceInItsPlace` |
| `invoice_number_conflict` | three creations | counterexample to `AutomaticNeverConflicts` |
| `super_pdp_tokens` | two requests, one provisioning sweep, three pairs | `TypeOK`, `SeveredStaysSevered`, `ConnectionSurvives`, `OneRefreshAtATime` |
| `super_pdp_reprovision` | one sweep, two pairs | counterexample to `RegistrationIsNotSevered` |
| `super_pdp_no_siret` | one sweep, two pairs | counterexample to `RegisteredOnlyOnceDone` |
| `account` | `MCAccount`: Stripe, Apple, grants, refresh tokens, the browser's session, one row, the quota, the guided draft | `AccountTypeOK`, `SettledRowIsTrue`, `OneSubscriptionPerWindow`, `AppleRowIsNewest` (refinement), `RedeemedOnce`, `GrantsStack`, `SessionSurvives`, `NewSessionIsKept`, `PaymentFactsMatchStatus`, `QuotaOverrunIsBounded`, `DraftStaysAligned` |
| `desk` | `MCDesk`: amounts on the server, the card, the manual table, the reports, a dictation | `DeskTypeOK`, `TotalsAgree`, `LinesAgree`, `CardIsTheDocument`, `ValuesStayInPlace`, `ReportsAgree`, `NeverSilentlyWrong` |
| `factur_x_header` | the amounts of two documents | counterexample to `HeaderAddsUp` |

**One run, several parts.** `MCEInvoiceSweeps`, `MCDocuments`, `MCAccount` and
`MCDesk` put specifications together that share no state and that no property
relates. A behaviour moves one of them, its `focus`, chosen at first, and the
others stand still: the state spaces add instead of multiplying, and each part
is explored exactly as it would be alone, which is proved (`SweepsParts`,
`DocumentsParts`, `AccountParts`, `DeskParts`). Under fairness the actions of a part
out of focus are not enabled, so the fairness of one part asks nothing of a
behaviour of another. Parts that do meet are one specification (`DraftTotals`
and `Reports` extend `InvoiceTotals`).

Why these bounds are enough.

- *Transmission.* The properties relate the actors on *one* invoice: two sweeps
  are needed to overlap, a second submission to be confused with the first, a
  refresh to be overtaken by a new transmission, and the restart to fall
  anywhere. Only the queue (a failing row before another) and the credit relate two
  invoices: `e_invoice_sweep` has two and one credit. DEVIS rows are absent from
  the instances, since the guard turns them away at once; the theorems cover them.
- *Inbox.* Three invoices with `PageSize = 2` and `MaxSyncPages = 1` (100 and 20 in
  the code) make a full page, a short one and a cut-off; one fault or restart
  falls anywhere; the second company is the one a failure must not starve.
- *Nudges.* `Inactivity = 1`, `Cooldown = 2` (7 and 30 days) over five days hold two
  cooldowns and a run that dies; one phone passes between two companies.
- *Creation.* Three creations are the fewest in which two race behind a third that
  already exists; the typed number 2 is the first that a sequence of three can
  run into; `MaxNumber = 5` is never reached.
- *Board.* One devis and two factures, two calls, two other events and two writes
  of a row: two calls on one row, on a devis and what it became, and on two rows
  with a modal in between are all there.
- *Catalogue.* Two lines, three things, caps of 1 and 2 (20 and 30) and four edits:
  a refusal, a retry and an edit between them. `NotMixed` cuts behaviours after a
  submission sent while a refused preview is still saving, where
  `SavedOnceInItsPlace` claims nothing (see [Noted](#noted-without-a-run)).
- *Connection.* Three pairs allow a consent, its rotation, and a second consent with
  the refresh of the first in flight; two requests and a sweep give an owner, one
  that joins and one that arrives late.
- *Account.* Stripe: one tab, asked again and again, two tiers, two sessions and two
  subscriptions, two seconds and a window of two, two events. Apple: one purchase
  fought over by two companies, two requests in flight, two dates, four
  notifications. Grants: two requests on one code, one mail, three days. Sessions:
  two devices, two calls, three tokens; five user objects in the browser. A row:
  two requests, two links. Quota: two requests, three documents, a limit of 1
  (5 in the code), two months, a plan that starts and lapses at will. Draft: two lines, one prestation, one remise.
  Apple's requests and Stripe's subscriptions are symmetric.
- *Desk.* Amounts that do not divide (101 over two lines, a third of 333), a
  discount above the subtotal, a zero service, weights 1:2, tables with their totals
  typed over and without; two documents, so that one is made of the other; two companies with different VAT
  regimes and one late answer of the profile. The table: two rows, one column of its
  own beside the fixed ones, one typed cell, since each value moves on its own,
  typed under a description, a total or a custom heading; a row is sent only when
  it is described, so the tables TLC sees posted hold a description and nothing else,
  and it is the theorem `ValuesAlwaysInPlace` that covers several values in one. Reports: two factures of
  four bills, three margins, quarters, years and windows of two months, five
  moments. Voice: four dictations, a catalogue of four, four answers of a model (prices
  and ids of nobody's, a doubt with a suggestion, a customer with neither id nor doubt),
  one change of the catalogue at any moment.

Deadlock is checked where the system can always go on. `account`, `desk`,
`e_invoice_sweep` and `factur_x_header` say `CHECK_DEADLOCK FALSE`, because a bounded clock, calendar or
book there really comes to its end.

Every property of a passing run has a mutant: an operator next to the one it
replaces (marked `Mutant:` in the module), the way a plausible bug would change
it. Examples: the claim keeps the schedule, the conditional update is keyed by the
company alone, the lock is a plain `SELECT`, the promise is removed from the
map only on success, an event is applied whatever its date, the weights go by the
order they are read in.

## Fairness

Safety is checked and proved without fairness. `DueIsPickedUp` uses

- `WF_vars(Sweep(w))` and `WF_vars(Transmit(w))` for every sweep: the cron fires
  every five minutes for as long as the process lives, a restarted process fires
  it again, and every await of a sweep ends, because the PA calls carry a timeout;
- `WF_vars(GracePeriodEnds(i))`: time passes.

`AutoSyncDelivers` uses `SyncFairness`: weak fairness of `StartSweep` and `SweepNext`
(the cron fires every day and the loop goes on) and of the moves of each running
job (a call ends, at the latest by its timeout). The property is conditional: it
speaks of a company that from some time on stays enrolled and accepted.

Nothing is assumed of clicks, cancellations, refreshes, the OAuth callback, the
artisan or the PA. `MaxCrashes = 0` in that run: a restart only returns the
transmission sweep to its start, and a bounded number of restarts does not change
what follows them.

## Proofs

All theorems hold for every value of the constants under the assumptions named
in the modules (`…Assumption`, `…Bounds`, `…Data`), which TLC evaluates in the runs:
bounds are natural numbers, the tokens that mean "none" are none of the others, the
companies and documents that are counted are finite sets, windows and limits are
positive, and what is typed or read has the form its validator asks for:

| Assumption | Says | Because |
|---|---|---|
| `TotalsData` | quantities, prices, discounts and rates are not negative, a split has a weight per line | `create-invoice.dto.ts`, `service-line-weights-match-lines.validator.ts`; that the weights are not all zero is a guard of the model (`Valid`), as in the code |
| `CardData` | the same of what the forms hold, a percentage of any size; the rate of a company is among the rates | the validators of the forms, `UpdateCompanyDto` |
| `TableBounds` | there is a bound on columns and documents | bounds of the model |
| `VoiceData` | a language model's answer has the form of a draft, `nobody` is no entry | the answer is parsed by its schema |
| `ReportData` | the bodies of factures as above, percentages up to 100 % | the validators, the constants of the cotisations |

The theorems are of the form `Spec => []P`, or `Spec => [][A]_v` for an action
property, or `Spec => Abstract!Spec` for a refinement, from an inductive
invariant that is a conjunction of named parts; each part has a step lemma with
one case per action that can disturb it.

**`EInvoiceTransmissionProofs`.** `TypeCorrect`, `CreditIsSpentFirst`,
`BoardIsTruthful`, `RejectedWithReason` and `SweepOnce`. `SweepSubmitsOnce` is not
inductive: one must know that a sweep inside `transmit` owns the only claim of its
invoice (`SweepInv`), that a claimed row has no schedule left and a cancelled one
neither (`QueueInv`), and that the list of a sweep names existing rows (`DueInv`).
`StatusComesFromPlatform` needs that a refresh in flight polls a submission of its
own invoice and that what it fetched, if a verdict, is still the PA's verdict
(`RefreshInv`, `PlatformInv`), which is where the assumption on verdicts is used.
`QueueRefinement` proves `Spec => ImplementsQueue` action by action;
`QueueAttemptsOnce` carries the abstract theorem over through it.

**`SuperPdpConnectionProofs`.** `TypeCorrect`, `DisconnectIsFinal`,
`RefreshIsSafe`, `RefreshIsShared`. The conditional update is sound because
every pair keeps the consent it descends from (`GrantInv`), a pending callback
holds a pair used nowhere else (`CallbackInv`), and a refresh gets a new pair
of the same consent (`CallerInv`); that nobody waits on a promise that is gone
needs `FlightInv`. `AttemptedOnce`, of the abstract queue of what goes out over the
connection: an invoice is attempted at most once and never after a cancellation
that found it queued. `QueueAttemptsOnce` is the same of `EInvoiceTransmission`.

**`AccountProofs`.**
- `AppleTypes`, `AppleShowsNewest`: `AppleSubscription` implements `NewestEvent`.
  The invariant says that a purchase is linked to one company (`LinkInv`, the
  unique column) and that a row shows one of the newest updates it was told of
  (`ShownInv`); a handler that looked up the link long before it writes still
  writes the row the link names, because links are never taken back.
- `StripeTypes`, `SettledRow`, `OnePerWindow`. `SettledRowIsTrue` is about the last
  state only; `RowInv` says at every moment that the row shows one of the newest
  events *received*, and `EventInv` that what a subscription is now was said by an
  event none of its own follows. `OneSubscriptionPerWindow` needs `SessionInv`: a
  key names one session, and a session makes one subscription.
- `GrantTypes`, `GivenOnce`, `GrantsAdd`. `RedeemedOnce` counts what was given, but
  the days come two statements after the redemption: `OnceInv` says that at most
  one request owes them (`Owes`), and that nobody can record the redemption again
  (`Spent`: its row exists or the code is gone); `CountInv` ties the counter to the
  rows. `GrantsStack` needs the ranges of what a request computed (`RequestInv`).
  It is the arithmetic of one grant on a row still as it was read; of two grants that
  overlap it says nothing, since the first is lost then (see [Noted](#noted-without-a-run)).
- `SessionTypes`, `SessionsSurvive`. `SessionSurvives` is not inductive: while no
  answer was lost and nothing revoked, a token belongs to one device, wherever it
  is (`OwnerInv`), and the token in a jar is active, or was rotated by a request of
  that device whose answer is still on its way and will replace it (`UsableInv`).
  That is the argument for the grace window.
- `ClientTypes`, `SignInIsKept`. A call refused before a sign-in remembers another
  user than the present one (`SinceInv`), so that `AuthService`'s comparison of the
  two objects is enough.
- `RowTypes`, `PaymentFacts`. The write of a status is unconditional; it keeps dates
  and status together because what a handler carries between its read and its
  write is consistent with the status it *read* and *writes* (`HandlersInv`),
  whatever the row has become.
- `QuotaTypes`, `QuotaOverrun`. The bound is `MonthlyLimit` plus the requests less
  one, whatever plan starts or lapses meanwhile. It counts the documents given for
  nothing this month together with those allowed for nothing but not yet rendered
  (`Charged`), of whatever month: with the allowances of past months left out, the
  bound is not inductive when the month changes under a request. A use is allowed only
  while *all* documents of the month, those made under a plan included, are fewer than
  the limit; `CallsInv` says that only a request that renders holds an allowance,
  `PastInv` that a document given has spent a credit, and none of a month to come.
- `AccountTypes`: the types of all parts side by side.

**`DocumentProofs`.**
- `TypeCorrect`, `NumbersFollow`, `LineageHolds`, `OfferHolds`. The heart is `NumberInv`: the number computed under the lock is
  still the next one at the insert, since nobody else can commit in between
  (`LockInv`). `RowInv` says that the rank of a row is the number of rows there
  were. `SourceInv` keeps that a checked source is a row of the right type.
- `BoardTypes`, `BoardIsOfTheRows`, `PreviewOfInvoice`. `RowsInv` says that a row the
  page holds is the database's or the row is on its way (`RowComes`), and the same
  of its link (`LinkComes`); `AnswerInv` that an answer on its way is a row the
  database held, and that one document is made by one call; `SentInv`, `ShownInv`,
  that calls and modals are about rows held. `PreviewInv`: only the preview that is
  open waits for a PDF.
- `CatalogueTypes`, `SavedOnce`, for a draft of any length, any caps and any number of
  things. `SavingInv` has to say what the property leaves out: `PageInv`, that nothing
  is saved while the draft is edited and that two batches are under way only in a
  draft that is `mixed`; `CallInv`, that a call is about the position it was sent for
  and that the entry it made is linked to no position and told by no other call;
  `SlotsInv`, that two positions are about one thing only when its entry was never
  told, which the second pick of an entry (`Picked`) has to keep; `UnlinkedInv`, that
  of what is not linked, and was not just made, there is no entry; `OrphanInv`, that
  the calls of a page that was left are among the untold.
- `DocumentsTypes`: the types of the three side by side.

**`GuidedProofs`.**
- `GuidedTypes`, `DraftAligned`, for drafts of any length.
  `DraftStaysAligned` is not inductive. `FormInv` says what the form of the lines step
  has to do with the draft it was built from: the same lines, targets and prestations,
  and *every* weight there, while the draft, whose arrays are written only when they
  change, may still lack those of a prestation nobody split. `ReviewInv`: what is
  under review was dictated, so removing a line there, which syncs no weight and clears
  no target, leaves none behind. That a leaving card is still in the form bounds the
  ids in use by what the form holds, among which `FreshId` finds one for the next card.

**`SweepsProofs`.**
- `NudgeTypes`, `Spaced`: `NudgesAreSpaced` is an action property. `RunInv` keeps, of
  the companies a run has still to push, what the query found of them; `MarkInv`
  that a mark is the day of the last nudge except where a run goes on or died.
- `SyncTypes`, `NoInvoiceSkipped`. `StoredInv`: what is stored is `1..n` for some *n*
  (the gap-free form); `PagesInv`: the page a job holds is contiguous, ends at its
  cursor, and everything below it is stored. An overlapping sync can only have
  stored more.
- `SweepsTypes`: the types of the three jobs side by side.

**`TotalsProofs`.** About amounts, for any number of lines, services, discounts,
weights, documents and factures.

*Sums.* `Sigma` is a recursive function over sets of places. What it computes of every
table is an induction, and the library's induction theorems are out of reach because
they take an operator. They are not needed: the set of the places for which a fact
fails is a *set*, and a non-empty set of numbers has a least element (`LeastNumber`,
from the well-foundedness of `<`, which is stated without an operator). From it come
`ByInduction` and `BySubsets` (an induction over the subsets of a finite set, one
element taken away at each step), and from these that `Sigma` exists (`SumsExist`),
takes one place away in any order (`TotalPick`), adds up over a partition
(`SigmaSplit`, `SigmaApart`), is kept by a renaming of the places (`SigmaRename`), and
is the same by rows and by columns (`SigmaTurned`).

*Documents.* `TotalsTyped`, `TotalsAlwaysAgree`, `LinesAlwaysAgree`. A split is exact
(`SplitIsExact`): what the floors leave is less than the number of lines that have a
remainder (`LeftIsSmall`), and the ranks by decreasing remainder name each line once
(`Ranks`), so that exactly that many get a cent. Read through a permutation it stays
exact (`DistributionExact`), which is why totals do not depend on the order the weights
come back in, while a line may move by a cent per service (`LinesStayClose`). The
invariant (`TotalsInv`) relates what is shown to the request, each row to what was
shown for it, and each row to the row it comes from (`Derived`: the same amounts, and
the same weights or those some order gave; `KeepsVat`: the VAT of a manual devis that
was not typed over). A request reloaded from a table asks for that VAT as a choice of
its own (`Reloaded`), so that the profile of the day no longer matters to it.

*Reports.* `ReportsTyped`, `ReportsAlwaysAgree`. The inductive invariant is small
(`ReportsInv`: the moment of payment is in the past and there exactly when the
facture is paid); the work is in the sums. The categories of a facture add up to its
amount (`CategoriesAddUp`: a table summed by columns and by rows); months and clients
are the fibers of a key over the same factures (`SigmaFibers`); every past moment is
in exactly one period of the picker (`PeriodHolds`, `PeriodReached`); discounts
only take away (`NetAgainstGross`) and no more is owed than billed (`OwedAtMost`).
Another order of the weights gives to some lines what it takes from others
(`SharesTrade`): at most half the lines' number in cents per service, and margin and
rounded charges move no more than their base (`MarginGrows`, `RoundedGrows`).

**`DeskProofs`.** What the artisan has on the desk.

- `CardTypes`, `CardAlwaysTheDocument`. The formulas of the browser and of the API are
  proved equal wherever the doubles do not slip (`GuidedAgrees`, `ManualAgrees`). The
  rest is who knows what when: `CardInv` says that the draft is one the forms allow
  (`GoodDraft`) and that the request on its way is the one built from the draft it
  remembers (`SentIsTheRequest`), and that the rows of a table are ones that can be put
  back into a draft (`TablesHold`). `CardTyped` counts the requests about the profile: those
  that were allowed, and one for each document made, since a creation asks again.
- `VoiceTypes`, `VoiceNeverSilentlyWrong`. `VoiceInv`: during the second reading an item is
  still to be read again or is vouched for (in doubt, or an entry at a price it had since
  that reading began); on the screen each line has its doubt beside it and an
  identity of its own, so that removing one moves nobody's doubt. The customer goes
  with it (`CustomerRead`, `CustomerHolds`): the rules name one or doubt it
  (`CustomerNamed`), the second reading keeps an id only of one of the company's.
- `TableTyped`, `ValuesAlwaysInPlace`. `TableInv`: in a draft, a request and a document,
  each required role has one column, under its own mark; ids are apart; a draft row has a
  cell for each column and nothing else, a request's cells go by position, and a
  document's cell refers to the one column it was typed under. The ids the database
  generates differ from the fixed ones, which the reload relies on.
- `DeskParts`, `DeskTypes`: the part in focus behaves as its own specification says,
  for ever, and keeps its types.

**The composed runs.** `…Parts` say that a behaviour of a composed run is a behaviour of
each of its parts (of the part in focus, for the desk, whose card and totals share
state). So what is proved of a part alone holds in the run, and what the run shows
of a part is shown of it alone.

What came out of the attempts, and was corrected in the models:

- the payment dates (`PaidAt`, `DepositPaidAt`) and the margin of an entry
  (`ResolveMargin`) were `CASE`s with overlapping arms, under which a model says less
  than it seems to;
- `QuotaOverrunIsBounded` was weaker than what the code guarantees, and spoke of
  companies without a plan in a model where none lapsed: it now bounds what is given
  for nothing, under plans that start and end;
- `ReportsAgree` allowed the net profit too little room between two orders of the
  weights: where an activity has two rates, a cent that moves is charged by both.
  No instance small enough for TLC met it; the proof did not go through until the bound
  counted the rates (`MostRates`);
- the visible services, the described rows and the phrases of a dictation were
  sequences that had been sorted or filtered; they are sets of positions now, since
  nothing depends on their order but the searches, which go by position;
- the VAT profile a creation read (`sent.served`) is recorded at that moment, instead
  of being compared with the profile of a later one.

Model-checked only, and why:

- `DueIsPickedUp`, `AutoSyncDelivers`: liveness under fairness and `ENABLED` are out
  of the prover's reach.
- The six counterexample runs.

No module uses a `RECURSIVE` operator, and no theorem rests on an unproved fact.

## Where the code and its comments disagree

Each is a run that must end in a violation; the trace is the explanation.

1. **A double transmission is possible** (`e_invoice_double`).
   `transmit` reads the status guard, then generates, obtains a token and submits;
   a click takes no claim. A click and a sweep, or two clicks, both pass the
   guard and both submit. The sweep's comment says "never a double
   transmission". What does hold is `SweepSubmitsOnce`: the *cron* submits an
   invoice at most once.
2. **`transmit()` can be partially applied** (`e_invoice_partial`). If the answer
   of an accepted submission is lost, the row says `NOT_SENT` and has no
   reference, while a live invoice exists at the PA; a retry submits it again.
3. **An automatic number can collide without a race** (`invoice_number_conflict`).
   Numbers are computed per document type and unique across types.
4. **A severed registration can be trusted** (`super_pdp_reprovision`). The
   provisioning sweep marks the row on no condition, also after a disconnection
   cleared it; the next consent is never provisioned.
5. **A company without a siret is marked registered** (`super_pdp_no_siret`). A new
   company has an empty siret; the directory entry is skipped, with a warning,
   and the mark is written, so that no later sweep makes up for it.
   `company-super-pdp.service.spec.ts:333-342` expects this; the comment above
   `provisionCompany` says the opposite.

6. **The header of a Factur-X file may not be the sum of its lines**
   (`factur_x_header`). The line total of the header comes from the document's
   subtotal, which is floored at zero under a larger discount and replaced by a
   total typed over; the lines keep their own amounts. The comment of
   `invoice/facturx/facturx-invoice.mapper.ts:295-301` says that the two must agree for
   the file to pass its cross-check.

## Noted, without a run

Read on the way, at the edges of the models. None is claimed by a run.

*Billing.* Two tiers, or two windows, give two subscriptions. Documents made under a
plan use up the free quota of the month it lapses in (`plan-gate.service.ts:167-183`). `grantReferralDiscount`
(`billing.service.ts:379`) and `grantPlanDays` (`billing.repository.ts:249`) read, then
write: concurrent ones lose a discount or days. An event is applied whichever
subscription of the company it is about, and an incomplete one clears the pending discount. A request that dies between the redemption and the grant
has burnt the code (`promo-code.service.ts:96`). Two verifications of one email
reward the referrer twice (`referral.service.ts:78`), contrary to the comment of
`billing.service.ts:363-364`. An Apple notification that precedes the first
verification is dropped with a 200; the iOS plugin finishes transactions before
the server verified them.

*Sessions.* A password change that races a refresh logs its own device out
(`auth.service.ts:592`, against the comment at 569). In the browser, a network
failure during a refresh reads as an expired session, and a refresh answered after
a logout signs back in. `app.ts:259-260` says a stale button never survives a
logout; a status answer in flight brings it back.

*Documents.* Two first shares rotate the link (`invoice-mail.service.ts:71-72` says
never); `markSent` bumps the reminder from a stale status. Two settings tabs
overwrite each other, since `updateProfile` replaces the whole profile.

*Amounts.* The XML's quantity is `billedQuantity ?? quantity`. Weights are read
without `orderBy` (`invoice.repository.ts:208`), so a leftover cent may move, which
`redistribution.util.ts:8-9` rules out. A reloaded devis with a 0 € prestation
spread equally is refused (all weights are zero). Amounts times weights may
exceed 2^53. A manual devis with its subtotal, VAT or total typed over does not
reconcile with the facture reloaded from it, which recomputes all three
(`manual-invoice-draft.store.ts:696-698`); the comment at 632-638 admits it, and no
screen says so to the artisan.

*Guided draft.* A late answer of `ensureNumberSuggestion` overwrites a typed
number; a services-only draft can be previewed and is refused by the API;
`syncServiceLineWeights` drops the last weight whichever line goes; changing the
customer clears lines and prestations and keeps remises; the reverse charge
outlives a switch to DEVIS. A profile answer of a reset that arrives after a load
brings back the habitual deposit (`invoice-draft.store.ts:582-593`, against 844-850).
A document whose answer was lost can be submitted again.

*Manual table.* The preview keeps the `LINE_TOTAL` column the document drops
(`invoice.mapper.ts:928-934`, 482-512). The browser parses up to 999,999,999, the API
refuses above 1,000,000; a text in a price cell passes `canPreview` and is refused.
A devis loaded late overwrites what was typed; what is typed during a creation is
lost to the reset. The card counts rows without a description, which the request
leaves out.

*Catalogue.* The update of `persistFreeEntities` omits folders, margin, supplier
and description, and so wipes them. "Créer" while a refused preview is still
saving saves twice, and the late write-back may put the previous customer's id on
the emptied draft. Parallel creations exceed the capacity; refused ones are silent;
an entry whose answer was lost is created again. Toggling a folder wipes margins.

*Board.* The modal of a new devis can be closed and reopened over another row while
it submits: the answer links that row. Late answers overwrite a typed number,
another row's mail form, a newer state of a row.

*Voice.* A quantity with a known unit and no name after it leaves no line. The
suggestion on an unmatched line that is a prestation is always dropped. Doubts go
by position and are not kept over a reload. A customer's name and address are the
engine's, only the id is read again. A customer the language model answers with neither
id nor flag reaches the review without a doubt (`invoice-voice-draft.service.ts:92-119`),
while `docs/1.4/1.4-1:50-54` promises every field resolved or flagged, whichever engine
answered; the model is not bound today. `VoiceDraftReviewStore.active` is never read.

*Reminders.* `lastPushReminderAt`, the guard of the digest, is written and never read
(`schema.prisma:984-986`). An error of Firebase ends the loop before any mark. A token
registered after the logout's deletion stays with the account that left.

*Reports.* The quarterly statement ignores discounts; the picker's months are local,
the server's UTC; the list of outstanding factures is capped; `loadReport` does not cancel the previous request.

*Tour.* A step in flight of an abandoned tour goes on in the next one.

## What is not modelled

- Within the modelled components: the HTTP client's bodies and its OAuth
  `state` parameter, encryption of the tokens, two Node processes (the code runs
  one; `refreshInFlight` is in memory), expired refresh tokens (a plain 401), the
  PA's verification beyond "verified or not yet", the five-entry cut of the
  reports, and texts, layouts and formats everywhere.
- The company's settings beyond the columns other parts read, registration and
  verification mails beyond the reward, the PDF's layout, CSV, file storage.
- The other screens (settings, subscription page, catalogue lists, tour, shell):
  forms over one request each.

## Plan

Done: every specification of the table above with its runs, and a theorem for every
property the passing runs check, the two of liveness excepted.

Left, in this order:

1. The company's settings as a component: two tabs, the automatic transmission
   kept on across a disconnection.
2. The subscription page and the plan screen, which show a cached tier.
3. The tour, whose steps in flight outlive it.
