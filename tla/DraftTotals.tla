-------------------------------- MODULE DraftTotals --------------------------------
(***************************************************************************)
(* The running total of a draft, in both modes: the browser computes it    *)
(* with its own copy of the formulas and a cached profile, the API then    *)
(* computes the document from the request (InvoiceTotals). Percentages are *)
(* resolved once, in the browser, and sent as cents. The profile is        *)
(* fetched by the store's constructor and again by each reset, and the     *)
(* answers come in any order; what the artisan types is not waited for.    *)
(*                                                                         *)
(* The browser's numbers are doubles. They agree with the decimals of the  *)
(* API except at an edge: 9.9 / 3.3 is more than 3, so a whole number of   *)
(* packages may count one more, and 1.005 * 100 less than 100.5, so half a *)
(* cent may be rounded down. slip says whether the draft's doubles do.     *)
(***************************************************************************)
EXTENDS InvoiceTotals

CONSTANTS
  DraftBodies, \* what may be typed and sent, per mode (see MCDesk)
  Companies,   \* what a company's profile may say: liable, rate, habit
  Overrides,   \* amounts typed over the deposit or over the total
  MaxAnswers   \* bound of the profile requests on their way

\* What the forms take, which is what the requests' validators let through.
IsDraftService(s, n) ==
  /\ s.pricing \in {"FIXED", "PERCENTAGE"} /\ s.amount \in Nat /\ s.visible \in BOOLEAN
  /\ s.strategy = "EQUAL" \/ (s.weights \in Seq(Nat) /\ Len(s.weights) >= n)
IsDraftRemise(r) == r.pricing \in {"FIXED", "PERCENTAGE"} /\ r.amount \in Int
IsGuidedDraft(b) ==
  /\ Len(b.lines) \in Nat /\ DOMAIN b.lines = 1..Len(b.lines)
  /\ \A i \in DOMAIN b.lines : IsLineItem(b.lines[i])
  /\ IsFiniteSet(DOMAIN b.services) /\ IsFiniteSet(DOMAIN b.remises)
  /\ \A j \in DOMAIN b.services : IsDraftService(b.services[j], Len(b.lines))
  /\ \A k \in DOMAIN b.remises : IsDraftRemise(b.remises[k])
IsManualDraft(b) ==
  IsFiniteSet(DOMAIN b.rows) /\ \A i \in DOMAIN b.rows : b.rows[i].amount \in Int

ASSUME CardData ==
  /\ \A b \in DraftBodies["GUIDED"] : IsGuidedDraft(b)
  /\ \A b \in DraftBodies["MANUAL"] : IsManualDraft(b)
  /\ \A c \in Companies : c.liable \in BOOLEAN /\ c.rate \in Rates
  /\ MaxAnswers \in Nat /\ MaxDocuments > 0

VARIABLES
  habit,    \* the habitual deposit in the profile, or Unset
  cached,   \* the store's copy of the profile, or NoProfile
  answers,  \* requests about the profile on their way, served or not
  hydrated, \* depositWasHydrated
  draft,    \* the store's signals, and slip
  sent      \* what the card showed when the request was built, and the VAT profile
            \* the API read for it, or NotSent

cardVars == <<habit, cached, answers, hydrated, draft, sent>>

NoProfile == [liable |-> FALSE, rate |-> 0, habit |-> Unset, known |-> FALSE]
NotSent == [known |-> FALSE]
Habits == {c.habit : c \in Companies} \ {Unset}
VatProfile(c) == [liable |-> c.liable, rate |-> c.rate]
NoChoice == [liable |-> "profile", rate |-> Unset]

-------------------------------------------------------------------------------
(* calculation-preview.ts, in the doubles of the browser                    *)

(* Mutant: waste is billed on what is not a surface. *)
ScreenNeededAlways(l) == l.quantity * (10 + l.wasteTenths)
ScreenNeeded(l) == l.quantity * (IF l.area THEN 10 + l.wasteTenths ELSE 10)

Packaged(l) == l.roundUp /\ l.packaging > 0
WholePackages(l) == Packaged(l) /\ ScreenNeeded(l) > 0 /\ ScreenNeeded(l) % (10 * l.packaging) = 0
ScreenBilled(l) ==
  IF ~Packaged(l) THEN ScreenNeeded(l)
  ELSE CeilTo(ScreenNeeded(l), 10 * l.packaging)
         + (IF WholePackages(l) /\ draft.slip THEN 10 * l.packaging ELSE 0)
HalfCent(l) == (2 * ScreenBilled(l) * l.unitPrice) % 20000 = 10000
ScreenLineTotal(l) ==
  HalfUp(ScreenBilled(l) * l.unitPrice, 10000)
    - (IF HalfCent(l) /\ draft.slip THEN 1 ELSE 0)
AtAnEdge(l) == WholePackages(l) \/ HalfCent(l)

Percent(base, basisPoints) == HalfUp(base * basisPoints, 10000)

-------------------------------------------------------------------------------
(* InvoiceDraftStore: what a percentage is a percentage of                  *)

ScreenLines(b) == Sigma([i \in DOMAIN b.lines |-> ScreenLineTotal(b.lines[i])])

\* Product lines and fixed visible services: no percentage counts in the base of another.
PercentageBase(b) ==
  ScreenLines(b)
    + Sigma([j \in DOMAIN b.services |->
               IF b.services[j].pricing = "FIXED" /\ b.services[j].visible
                 THEN b.services[j].amount ELSE 0])
ResolvedService(b, j) ==
  LET s == b.services[j]
  IN IF s.pricing = "FIXED" THEN s.amount ELSE Percent(PercentageBase(b), s.amount)

\* The line or the service it designates, else, or when that one is gone, everything.
RemiseBase(b, r) ==
  IF r.line \in DOMAIN b.lines THEN ScreenLineTotal(b.lines[r.line])
  ELSE IF r.service \in DOMAIN b.services THEN ResolvedService(b, r.service)
  ELSE PercentageBase(b)
ResolvedRemise(b, r) == IF r.pricing = "FIXED" THEN r.amount ELSE Percent(RemiseBase(b, r), r.amount)

ServiceAmounts(b) == [j \in DOMAIN b.services |-> ResolvedService(b, j)]
RemiseAmounts(b) == [k \in DOMAIN b.remises |-> ResolvedRemise(b, b.remises[k])]

-------------------------------------------------------------------------------
(* The card: totalsPreview and depositAmountCents of the two stores         *)

CardVat ==
  [applicable |-> ~draft.reverse /\ (IF draft.choice = NoChoice THEN cached.liable
                                     ELSE draft.choice.liable = "yes"),
   rate |-> OrElse(draft.choice.rate, cached.rate)]

GuidedCard(b) ==
  Totals(Max({0, ScreenLines(b) + Sigma(ServiceAmounts(b)) - Sigma(RemiseAmounts(b))}), CardVat)
\* Every row counts on the screen, described or not.
ManualCard(b) ==
  ManualTotals([rows |-> [i \in DOMAIN b.rows |-> b.rows[i].amount],
                subtotal |-> b.subtotal, vat |-> b.vat, total |-> draft.total], CardVat)
Card == IF draft.mode = "MANUAL" THEN ManualCard(draft.body) ELSE GuidedCard(draft.body)

CardDeposit ==
  IF ~draft.deposit.requested THEN 0
  ELSE OrElse(draft.deposit.override, Percent(Card.total, draft.deposit.percent))

-------------------------------------------------------------------------------
(* buildInvoiceRequest                                                      *)

\* Neither a deposit nor an autoliquidation is sent for a devis.
ReverseSent == draft.reverse /\ draft.type = "FACTURE"

GuidedRequest(b) ==
  [mode |-> "GUIDED", lines |-> b.lines,
   services |-> [j \in DOMAIN b.services |->
                   [amount |-> ResolvedService(b, j), visible |-> b.services[j].visible,
                    strategy |-> b.services[j].strategy, weights |-> b.services[j].weights]],
   remises |-> RemiseAmounts(b), reverse |-> ReverseSent, from |-> draft.from,
   liable |-> "profile", rate |-> Unset]

\* A row without a description is not sent: the others keep their places.
Described(b) == {i \in DOMAIN b.rows : b.rows[i].described}
ManualRequest(b) ==
  [mode |-> "MANUAL", lines |-> <<>>, services |-> <<>>, remises |-> <<>>,
   reverse |-> ReverseSent, from |-> draft.from,
   liable |-> draft.choice.liable, rate |-> draft.choice.rate,
   rows |-> [i \in Described(b) |-> b.rows[i].amount],
   subtotal |-> b.subtotal, vat |-> b.vat, total |-> draft.total]

InvoiceRequest ==
  IF draft.mode = "MANUAL" THEN ManualRequest(draft.body) ELSE GuidedRequest(draft.body)

CanPreview ==
  IF draft.mode = "MANUAL" THEN Described(draft.body) # {}
  ELSE draft.body.lines # <<>>
         \/ \E j \in DOMAIN draft.body.services :
              draft.body.services[j].visible /\ ResolvedService(draft.body, j) > 0

-------------------------------------------------------------------------------
(* The profile and the deposit it suggests                                  *)

EmptyDeposit == [requested |-> FALSE, percent |-> 0, override |-> Unset]
(* Mutant: no habitual rate is taken for one. *)
DepositOfAnyRate(p) == [requested |-> TRUE, percent |-> p.habit, override |-> Unset]
DefaultDeposit(p) ==
  IF p.habit = Unset THEN EmptyDeposit
  ELSE [requested |-> TRUE, percent |-> p.habit, override |-> Unset]

EmptyBody(mode) ==
  IF mode = "MANUAL" THEN [rows |-> <<>>, subtotal |-> Unset, vat |-> Unset]
  ELSE [lines |-> <<>>, services |-> <<>>, remises |-> <<>>]
EmptyDraftOf(mode, deposit) ==
  [mode |-> mode, body |-> EmptyBody(mode), slip |-> FALSE, type |-> "FACTURE", reverse |-> FALSE,
   choice |-> NoChoice, total |-> Unset, deposit |-> deposit, from |-> 0]

AskProfile(kind) == [kind |-> kind, profile |-> NoProfile]

CardStart ==
  /\ cached = NoProfile /\ answers = <<AskProfile("open")>> /\ hydrated = FALSE
  /\ sent = NotSent

MadeUnder(c, r) ==
  [applicable |-> r.liable = "yes" \/ (r.liable = "profile" /\ c.liable), rate |-> OrElse(r.rate, c.rate)]
Reloadable(mode) ==
  IF mode = "MANUAL" THEN ManualRequests
  ELSE {r \in GuidedRequests : Valid(r) /\ SpreadServices(r) # {}}

\* A devis of the draft's mode, made under one of the profiles, is there to be reloaded.
CardInit ==
  /\ \E c \in Companies : profile = VatProfile(c) /\ habit = c.habit
  /\ request = NoBody /\ shown = NothingShown
  /\ CardStart
  /\ \E mode \in {"GUIDED", "MANUAL"} :
       LET r == CHOOSE r \in Reloadable(mode) : TRUE
           earlier == CHOOSE c \in Companies : TRUE
       IN /\ draft = EmptyDraftOf(mode, EmptyDeposit)
          /\ documents = IF Reloadable(mode) = {} THEN <<>>
                         ELSE <<[body |-> Expanded(r), type |-> "DEVIS", vat |-> MadeUnder(earlier, r), from |-> 0,
                                 cloned |-> FALSE, agreed |-> NothingShown]>>

\* What is typed while the request is on its way does not reach it.
Editing == request = NoBody /\ Len(documents) < MaxDocuments

EditCompany ==
  /\ Len(documents) < MaxDocuments
  /\ \E c \in Companies : profile' = VatProfile(c) /\ habit' = c.habit
  /\ UNCHANGED <<request, shown, documents, cached, answers, hydrated, draft, sent>>

\* The API reads the profile; confirmLegalStatus writes it first.
Serve(i) ==
  /\ Editing /\ i \in DOMAIN answers /\ ~answers[i].profile.known
  /\ IF answers[i].kind = "confirm"
       THEN \E c \in Companies : profile' = VatProfile(c)
       ELSE UNCHANGED profile
  /\ answers' = [answers EXCEPT ![i].profile =
                   [liable |-> profile'.liable, rate |-> profile'.rate, habit |-> habit, known |-> TRUE]]
  /\ UNCHANGED <<request, shown, documents, habit, cached, hydrated, draft, sent>>

\* The constructor's answer sets the deposit of a fresh draft only, that of a reset
\* always; a confirmation is merged into the profile if there is one.
Receive(i) ==
  /\ Editing /\ i \in DOMAIN answers /\ answers[i].profile.known
  /\ LET a == answers[i]
     IN /\ cached' = IF a.kind # "confirm" THEN a.profile
                     ELSE IF cached.known THEN [a.profile EXCEPT !.habit = cached.habit]
                     ELSE cached
        /\ draft' = IF a.kind = "fresh" \/ (a.kind = "open" /\ ~hydrated)
                      THEN [draft EXCEPT !.deposit = DefaultDeposit(a.profile)] ELSE draft
  /\ answers' = RemoveAt(answers, i)
  /\ UNCHANGED <<request, shown, documents, profile, habit, hydrated, sent>>

\* A failed load is ignored.
Lose(i) ==
  /\ Editing /\ i \in DOMAIN answers
  /\ answers' = RemoveAt(answers, i)
  /\ UNCHANGED <<request, shown, documents, profile, habit, cached, hydrated, draft, sent>>

\* The one-time question on the VAT regime, in mode rapide.
ConfirmLegalStatus ==
  /\ Editing /\ draft.mode = "GUIDED" /\ Len(answers) < MaxAnswers
  /\ answers' = Append(answers, AskProfile("confirm"))
  /\ UNCHANGED <<request, shown, documents, profile, habit, cached, hydrated, draft, sent>>

\* Another page load: the draft and its deposit come back from localStorage.
ReloadPage ==
  /\ Editing
  /\ cached' = NoProfile /\ answers' = <<AskProfile("open")>> /\ hydrated' = TRUE
  /\ UNCHANGED <<request, shown, documents, profile, habit, draft, sent>>

-------------------------------------------------------------------------------
(* What the artisan does to the draft                                       *)

Edit(d) ==
  /\ Editing /\ draft' = d
  /\ UNCHANGED <<request, shown, documents, profile, habit, cached, answers, hydrated, sent>>

\* Whether the doubles get a line at an edge wrong comes with the line.
SlipIn(b) == {FALSE, draft.mode = "GUIDED" /\ \E i \in DOMAIN b.lines : AtAnEdge(b.lines[i])}
TypeBody ==
  \E b \in DraftBodies[draft.mode] : \E slip \in SlipIn(b) :
    Edit([draft EXCEPT !.body = b, !.slip = slip])
SetDocumentType(type) == Edit([draft EXCEPT !.type = type])
\* Offered for a facture only.
ToggleReverse == draft.type = "FACTURE" /\ Edit([draft EXCEPT !.reverse = ~@])
SetVatChoice(choice) == draft.mode = "MANUAL" /\ Edit([draft EXCEPT !.choice = choice])
RequestDeposit(yes) == Edit([draft EXCEPT !.deposit.requested = yes])
\* Both fields are there once a deposit is requested.
SetDepositPercentage(p) ==
  draft.deposit.requested /\ Edit([draft EXCEPT !.deposit.percent = p])
OverrideDeposit(amount) ==
  draft.deposit.requested /\ Edit([draft EXCEPT !.deposit.override = amount])
ResetDeposit == OverrideDeposit(Unset)

\* setTotalOverrideText: an automatic deposit stays at what the screen showed.
OverrideTotal(amount) ==
  /\ draft.mode = "MANUAL"
  /\ LET frozen == IF draft.deposit.requested THEN CardDeposit ELSE Unset
     IN Edit([draft EXCEPT !.total = amount,
                           !.deposit.override = OrElse(@, frozen)])

\* reset: mode rapide asks for the profile again, mode manuel trusts its copy.
StartAfresh ==
  /\ draft' = EmptyDraftOf(draft.mode, DefaultDeposit(cached))
  /\ answers' = IF draft.mode = "GUIDED" THEN Append(answers, AskProfile("fresh")) ELSE answers

ResetDraft ==
  /\ Editing
  /\ draft.mode = "GUIDED" => Len(answers) < MaxAnswers
  /\ StartAfresh
  /\ UNCHANGED <<request, shown, documents, profile, habit, cached, hydrated, sent>>

\* A dictated draft has neither waste, nor packages, nor discounts, and services of its own.
Dictated(b) ==
  /\ b.remises = <<>>
  /\ \A i \in DOMAIN b.lines : b.lines[i].wasteTenths = 0 /\ b.lines[i].packaging = 0
  /\ \A j \in DOMAIN b.services : b.services[j].visible /\ b.services[j].pricing = "FIXED"

\* loadFromVoiceDraft: a dictated deposit is kept on a facture, else as a reset.
LoadVoiceDraft(type, percent) ==
  /\ Editing /\ draft.mode = "GUIDED" /\ Len(answers) < MaxAnswers
  /\ LET dictated == type = "FACTURE" /\ percent # Unset
         deposit == IF dictated THEN [requested |-> TRUE, percent |-> percent, override |-> Unset]
                    ELSE DefaultDeposit(cached)
     IN /\ \E b \in DraftBodies["GUIDED"] :
             /\ Dictated(b)
             /\ \E slip \in SlipIn(b) :
                  draft' = [EmptyDraftOf("GUIDED", deposit) EXCEPT
                              !.body = b, !.slip = slip, !.type = type]
        /\ answers' = IF dictated THEN answers ELSE Append(answers, AskProfile("fresh"))
  /\ UNCHANGED <<request, shown, documents, profile, habit, cached, hydrated, sent>>

\* loadFromInvoice: amounts without their percentages, no deposit.
LoadSource(i) ==
  /\ draft.mode = "GUIDED" /\ documents[i].type = "DEVIS"
  /\ LET source == documents[i].body
         loaded(s) == [pricing |-> "FIXED", amount |-> s.amount, visible |-> s.visible,
                       strategy |-> "WEIGHTED",
                       weights |-> IF s.visible THEN s.weights ELSE Distribution(s, InPosition(source))]
         remise(amount) == [pricing |-> "FIXED", amount |-> amount, line |-> 0, service |-> 0]
         body == [lines |-> source.lines,
                  services |-> [j \in DOMAIN source.services |-> loaded(source.services[j])],
                  remises |-> [k \in DOMAIN source.remises |-> remise(source.remises[k])]]
     IN \E slip \in SlipIn(body) :
          Edit([EmptyDraftOf("GUIDED", EmptyDeposit) EXCEPT
                  !.body = body, !.slip = slip, !.from = i])

\* loadFromInvoice, mode manuel: every row sent was described; the devis's VAT is the choice,
\* and what was typed over its amounts is left blank.
LoadSourceTable(i) ==
  /\ draft.mode = "MANUAL" /\ documents[i].type = "DEVIS"
  /\ LET vat == documents[i].vat
         row(amount) == [described |-> TRUE, amount |-> amount]
     IN Edit([EmptyDraftOf("MANUAL", EmptyDeposit) EXCEPT
                !.body = [rows |-> [k \in DOMAIN documents[i].body.rows |-> row(documents[i].body.rows[k])],
                          subtotal |-> Unset, vat |-> Unset],
                !.choice = [liable |-> IF vat.applicable THEN "yes" ELSE "no", rate |-> vat.rate],
                !.from = i])

\* submit
Submit ==
  /\ Editing /\ CanPreview
  /\ request' = InvoiceRequest
  /\ sent' = [known |-> TRUE, card |-> Card, vat |-> CardVat, deposit |-> CardDeposit,
              draft |-> draft, profile |-> cached, served |-> VatProfile(NoProfile)]
  /\ UNCHANGED <<shown, documents, profile, habit, cached, answers, hydrated, draft>>

\* InvoiceService.create, with the profile of that moment; the draft is reset.
CreateSent ==
  /\ sent.known /\ CreateDocument(sent.draft.type)
  /\ sent' = [sent EXCEPT !.served = profile]
  /\ StartAfresh
  /\ UNCHANGED <<habit, cached, hydrated>>

\* 402, 409 or no answer: the draft is still there.
CreateRefused ==
  /\ request # NoBody
  /\ request' = NoBody /\ sent' = NotSent
  /\ UNCHANGED <<shown, documents, profile, habit, cached, answers, hydrated, draft>>

CardNext ==
  \/ EditCompany \/ ConfirmLegalStatus \/ ReloadPage \/ TypeBody \/ ToggleReverse \/ ResetDeposit
  \/ ResetDraft \/ Submit \/ CreateSent \/ CreateRefused
  \/ \E i \in 1..MaxAnswers : Serve(i) \/ Receive(i) \/ Lose(i)
  \/ \E type \in {"DEVIS", "FACTURE"} :
       SetDocumentType(type) \/ \E p \in Habits \cup {Unset} : LoadVoiceDraft(type, p)
  \/ \E yes \in {"yes", "no"}, r \in Rates : SetVatChoice([liable |-> yes, rate |-> r])
  \/ \E yes \in BOOLEAN : RequestDeposit(yes)
  \/ \E p \in Habits : SetDepositPercentage(p)
  \/ \E amount \in Overrides : OverrideDeposit(amount) \/ OverrideTotal(amount)
  \/ \E i \in DOMAIN documents : LoadSource(i) \/ LoadSourceTable(i)

CardSpec == CardInit /\ [][CardNext]_<<cardVars, totalsVars>>

-------------------------------------------------------------------------------
CardTypeOK ==
  /\ draft.slip \in BOOLEAN /\ habit \in Habits \cup {Unset}
  /\ cached.known \in BOOLEAN /\ hydrated \in BOOLEAN
  /\ Len(answers) <= MaxAnswers + Len(documents) + 1
  /\ \A i \in DOMAIN answers : answers[i].kind \in {"open", "fresh", "confirm"}
  /\ draft.mode \in {"GUIDED", "MANUAL"} /\ draft.type \in {"DEVIS", "FACTURE"}
  /\ draft.deposit.requested \in BOOLEAN /\ draft.deposit.percent \in Habits \cup {0}
  /\ sent.known \in BOOLEAN

Created == sent.known /\ request = NoBody
CreatedTotals ==
  LET d == documents[Len(documents)] IN BodyTotals(d.body, d.vat, InPosition(d.body))

\* Lines at an edge of the doubles, and rows of mode manuel that are not sent.
Exact(d) ==
  IF d.mode = "MANUAL" THEN \A i \in DOMAIN d.body.rows : d.body.rows[i].described \/ d.body.rows[i].amount = 0
  ELSE ~d.slip \/ \A i \in DOMAIN d.body.lines : ~AtAnEdge(d.body.lines[i])

\* The VAT the card applied is the document's: nothing typed decides otherwise than the
\* API does, and what the profile decides was up to date.
SameVat ==
  /\ sent.draft.choice # NoChoice
       \/ (sent.profile.known /\ sent.served = VatProfile(sent.profile))
  /\ ~(sent.draft.reverse /\ sent.draft.type = "DEVIS")

\* The artisan gets the document of the card: whatever was fetched, reset, reloaded,
\* dictated or typed over, and in whatever order the profile's answers came, the document
\* has the subtotal of the card, and its VAT, its total and an automatic deposit that is
\* the stated share of that total as soon as the card knew the current VAT regime. Where
\* the doubles slip, a card is off by the packages and the cents of its lines at an edge.
CardIsTheDocument ==
  Created =>
    /\ Exact(sent.draft) => sent.card.subtotal = CreatedTotals.subtotal
    /\ Exact(sent.draft) /\ SameVat => sent.card = CreatedTotals
    /\ LET deposit == sent.draft.deposit
       IN Exact(sent.draft) /\ SameVat /\ deposit.requested /\ deposit.override = Unset =>
            sent.deposit = Percent(CreatedTotals.total, deposit.percent)

===============================================================================
