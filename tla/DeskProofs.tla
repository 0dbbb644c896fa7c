-------------------------------- MODULE DeskProofs --------------------------------
(***************************************************************************)
(* Theorems about what the artisan has on the desk: the card of a draft    *)
(* (DraftTotals), for whatever is typed and however many requests about    *)
(* the profile are on their way; what a dictation shows (VoiceDraft), for  *)
(* any words, catalogue and answer of an engine; and where the values of a *)
(* table are (ManualTable), however many rows, columns and documents.      *)
(***************************************************************************)
EXTENDS TotalsProofs, MCDesk

-------------------------------------------------------------------------------
(* The card of a draft                                                      *)

\* The browser's total of a line is a natural number, also where its doubles slip.
LEMMA ScreenLineNat ==
  ASSUME NEW l, IsLineItem(l)
  PROVE  ScreenLineTotal(l) \in Nat
<1>1. ScreenNeeded(l) \in Nat /\ l.packaging \in Nat /\ l.unitPrice \in Nat
  <2>1. l.quantity \in Nat /\ l.wasteTenths \in Nat /\ l.packaging \in Nat /\ l.unitPrice \in Nat
    BY DEF IsLineItem
  <2>2. (10 + l.wasteTenths) \in Nat
    BY <2>1
  <2>3. \A x, y \in Nat : x * y \in Nat
    OBVIOUS
  <2> QED
    BY <2>1, <2>2, <2>3 DEF ScreenNeeded
<1>2. ScreenBilled(l) \in Nat
  <2>1. CASE ~Packaged(l)
    BY <1>1, <2>1 DEF ScreenBilled
  <2>2. CASE Packaged(l)
    <3> DEFINE p == 10 * l.packaging
    <3>1. p \in Nat /\ 0 < p
      BY <1>1, <2>2 DEF Packaged
    <3> HIDE DEF p
    <3>2. CeilTo(ScreenNeeded(l), p) \in Nat
      BY <1>1, <3>1, CeilToNat
    <3>3. ScreenBilled(l) = CeilTo(ScreenNeeded(l), p) + (IF WholePackages(l) /\ draft.slip THEN p ELSE 0)
      BY <2>2 DEF ScreenBilled, p
    <3> QED
      BY <3>1, <3>2, <3>3
  <2> QED
    BY <2>1, <2>2
<1> DEFINE x == ScreenBilled(l) * l.unitPrice
<1>3. x \in Nat
  <2>1. \A m, n \in Nat : m * n \in Nat
    OBVIOUS
  <2> QED
    BY <1>1, <1>2, <2>1
<1>4. HalfCent(l) => (2 * x) % 20000 = 10000
  <2>1. 2 * ScreenBilled(l) * l.unitPrice = 2 * x
    <3>1. \A m, n \in Nat : 2 * m * n = 2 * (m * n)
      OBVIOUS
    <3> QED
      BY <1>1, <1>2, <3>1
  <2> QED
    BY <2>1 DEF HalfCent
<1>5. ScreenLineTotal(l) = HalfUp(x, 10000) - (IF HalfCent(l) /\ draft.slip THEN 1 ELSE 0)
  BY DEF ScreenLineTotal
<1> HIDE DEF x
<1>6. HalfUp(x, 10000) \in Nat
  BY <1>3, HalfUpNat
<1>7. (2 * x) % 20000 = 10000 => HalfUp(x, 10000) > 0
  <2>1. HalfUp(x, 10000) = (2 * x + 10000) \div 20000
    BY DEF HalfUp
  <2> QED
    BY <1>3, <2>1
<1> QED
  BY <1>4, <1>5, <1>6, <1>7

\* It is the API's when the line is at no edge or the doubles did not slip.
LEMMA ScreenLineExact ==
  ASSUME NEW l, IsLineItem(l), ~draft.slip \/ ~AtAnEdge(l)
  PROVE  ScreenLineTotal(l) = LineTotal(l)
<1>1. ScreenNeeded(l) = NeededQuantity(l)
  BY DEF ScreenNeeded, NeededQuantity
<1>2. ScreenBilled(l) = BilledQuantity(l)
  <2>1. CASE ~Packaged(l)
    BY <1>1, <2>1 DEF ScreenBilled, BilledQuantity, Packaged
  <2>2. CASE Packaged(l)
    <3> DEFINE p == 10 * l.packaging
               c == CeilTo(ScreenNeeded(l), p)
    <3>1. p \in Nat /\ 0 < p
      BY <2>2 DEF Packaged, IsLineItem
    <3>2. ScreenNeeded(l) \in Nat
      <4>1. l.quantity \in Nat /\ l.wasteTenths \in Nat
        BY DEF IsLineItem
      <4>2. \A x, y \in Nat : x * y \in Nat
        OBVIOUS
      <4> QED
        BY <4>1, <4>2 DEF ScreenNeeded
    <3>3. ScreenBilled(l) = c + (IF WholePackages(l) /\ draft.slip THEN p ELSE 0)
      BY <2>2 DEF ScreenBilled
    <3>4. BilledQuantity(l) = c
      BY <1>1, <2>2 DEF BilledQuantity, Packaged
    <3> HIDE DEF p
    <3>5. c \in Nat
      BY <3>1, <3>2, CeilToNat
    <3>6. ~(WholePackages(l) /\ draft.slip)
      BY DEF AtAnEdge
    <3> HIDE DEF c
    <3> QED
      BY <3>3, <3>4, <3>5, <3>6
  <2> QED
    BY <2>1, <2>2
<1>3. LineTotal(l) \in Nat
  BY LineNumbers
<1>4. ScreenLineTotal(l) = LineTotal(l) - (IF HalfCent(l) /\ draft.slip THEN 1 ELSE 0)
  BY <1>2 DEF ScreenLineTotal, LineTotal
<1>5. ~(HalfCent(l) /\ draft.slip)
  BY DEF AtAnEdge
<1> QED
  BY <1>3, <1>4, <1>5

\* Whether a line is at an edge does not depend on what the doubles did of it.
LEMMA EdgeStays ==
  ASSUME NEW l
  PROVE  AtAnEdge(l)' <=> AtAnEdge(l)
  BY DEF AtAnEdge, WholePackages, HalfCent, ScreenBilled, Packaged, ScreenNeeded

\* What the screen shows of a guided draft is made of natural numbers.
LEMMA BasesNat ==
  ASSUME NEW b, IsGuidedDraft(b)
  PROVE  /\ ScreenLines(b) \in Nat /\ PercentageBase(b) \in Nat
         /\ \A j \in DOMAIN b.services : ResolvedService(b, j) \in Nat
         /\ \A k \in DOMAIN b.remises : ResolvedRemise(b, b.remises[k]) \in Int
<1>1. \A i \in DOMAIN b.lines : ScreenLineTotal(b.lines[i]) \in Nat
  BY ScreenLineNat DEF IsGuidedDraft
<1>2. IsFiniteSet(DOMAIN b.lines)
  BY FS_Interval DEF IsGuidedDraft
<1>3. ScreenLines(b) \in Nat
  <2> DEFINE f == [i \in DOMAIN b.lines |-> ScreenLineTotal(b.lines[i])]
  <2>1. IsFiniteSet(DOMAIN f) /\ \A x \in DOMAIN f : f[x] \in Nat
    BY <1>1, <1>2
  <2> HIDE DEF f
  <2>2. Sigma(f) \in Nat
    BY <2>1, SigmaNat DEF Numbers
  <2> QED
    BY <2>2 DEF f, ScreenLines
<1>4. PercentageBase(b) \in Nat
  <2> DEFINE f == [j \in DOMAIN b.services |->
                     IF b.services[j].pricing = "FIXED" /\ b.services[j].visible
                       THEN b.services[j].amount ELSE 0]
  <2>1. IsFiniteSet(DOMAIN f) /\ \A x \in DOMAIN f : f[x] \in Nat
    BY DEF IsGuidedDraft, IsDraftService
  <2>2. PercentageBase(b) = ScreenLines(b) + Sigma(f)
    BY DEF PercentageBase
  <2> HIDE DEF f
  <2>3. Sigma(f) \in Nat
    BY <2>1, SigmaNat DEF Numbers
  <2> QED
    BY <1>3, <2>2, <2>3
<1>5. ASSUME NEW base \in Nat, NEW p \in Int
      PROVE  Percent(base, p) \in Int /\ (p \in Nat => Percent(base, p) \in Nat)
  <2> DEFINE x == base * p
             d == 10000
  <2>1. x \in Int /\ (p \in Nat => x \in Nat) /\ d \in Nat /\ 0 < d
    <3>1. (\A m \in Nat, n \in Int : m * n \in Int) /\ \A m, n \in Nat : m * n \in Nat
      OBVIOUS
    <3> QED
      BY <3>1
  <2>2. Percent(base, p) = HalfUp(x, d)
    BY DEF Percent
  <2> HIDE DEF x, d
  <2>3. HalfUp(x, d) \in Int
    BY <2>1, HalfUpRounds
  <2>4. p \in Nat => HalfUp(x, d) \in Nat
    BY <2>1, HalfUpNat
  <2> QED
    BY <2>2, <2>3, <2>4
<1>6. ASSUME NEW j \in DOMAIN b.services PROVE ResolvedService(b, j) \in Nat
  <2>1. b.services[j].amount \in Nat
    BY DEF IsGuidedDraft, IsDraftService
  <2>2. Percent(PercentageBase(b), b.services[j].amount) \in Nat
    <3> DEFINE p == b.services[j].amount
               base == PercentageBase(b)
    <3>1. p \in Int /\ p \in Nat /\ base \in Nat
      BY <1>4, <2>1
    <3> HIDE DEF p, base
    <3>2. Percent(base, p) \in Nat
      BY <1>5, <3>1
    <3> QED
      BY <3>2 DEF p, base
  <2> QED
    BY <2>1, <2>2 DEF ResolvedService
<1>7. ASSUME NEW k \in DOMAIN b.remises PROVE ResolvedRemise(b, b.remises[k]) \in Int
  <2>1. b.remises[k].amount \in Int
    BY DEF IsGuidedDraft, IsDraftRemise
  <2>2. RemiseBase(b, b.remises[k]) \in Nat
    BY <1>1, <1>4, <1>6 DEF RemiseBase
  <2>3. Percent(RemiseBase(b, b.remises[k]), b.remises[k].amount) \in Int
    BY <1>5, <2>1, <2>2
  <2> QED
    BY <2>1, <2>3 DEF ResolvedRemise
<1> QED
  BY <1>3, <1>4, <1>6, <1>7

\* The request of a guided draft is one that the boundary lets through.
LEMMA GuidedRequestGood ==
  ASSUME NEW b, IsGuidedDraft(b)
  PROVE  GoodRequest(GuidedRequest(b))
<1> DEFINE q == GuidedRequest(b)
<1>1. /\ q.lines = b.lines /\ q.remises = RemiseAmounts(b) /\ DOMAIN q.services = DOMAIN b.services
      /\ \A j \in DOMAIN b.services :
           /\ q.services[j].amount = ResolvedService(b, j)
           /\ q.services[j].visible = b.services[j].visible
           /\ q.services[j].strategy = b.services[j].strategy
           /\ q.services[j].weights = b.services[j].weights
  BY DEF GuidedRequest
<1>2. Shape(q)
  BY DEF Shape, GuidedRequest, Unset
<1> HIDE DEF q
<1>3. Len(b.lines) \in Nat /\ DOMAIN b.lines = 1..Len(b.lines)
  BY DEF IsGuidedDraft
<1>4. Numbers(RemiseAmounts(b))
  <2>1. IsFiniteSet(DOMAIN b.remises)
    BY DEF IsGuidedDraft
  <2> QED
    BY <2>1, BasesNat DEF Numbers, RemiseAmounts
<1>5. LinesOf(q, Len(q.lines))
  BY <1>1, <1>3, <1>4 DEF LinesOf, IsGuidedDraft
<1>6. ASSUME NEW j \in DOMAIN q.services PROVE TypedService(q.services[j], Len(q.lines))
  <2>1. IsDraftService(b.services[j], Len(b.lines))
    BY <1>1 DEF IsGuidedDraft
  <2>2. ResolvedService(b, j) \in Nat
    BY <1>1, BasesNat
  <2> QED
    BY <1>1, <2>1, <2>2 DEF TypedService, IsDraftService
<1> QED
  BY <1>1, <1>2, <1>3, <1>5, <1>6 DEF GoodRequest, q

\* What the card of a guided draft adds up to.
ScreenSubtotal(b) ==
  Max({0, ScreenLines(b) + Sigma(ServiceAmounts(b)) - Sigma(RemiseAmounts(b))})

\* The API adds up the same amounts: lines as the browser had them, services apart and
\* folded in, discounts already in cents.
LEMMA GuidedAgrees ==
  ASSUME NEW b, IsGuidedDraft(b), Valid(GuidedRequest(b)),
         ~draft.slip \/ \A i \in DOMAIN b.lines : ~AtAnEdge(b.lines[i])
  PROVE  /\ GoodBody(Expanded(GuidedRequest(b))) /\ Expanded(GuidedRequest(b)).mode = "GUIDED"
         /\ Before(Expanded(GuidedRequest(b))) = ScreenSubtotal(b)
<1> DEFINE q == GuidedRequest(b)
           e == Expanded(q)
           f == ServiceAmounts(b)
<1>1. GoodRequest(q)
  BY GuidedRequestGood
<1>2. GoodBody(e)
  BY <1>1, ExpandedGood
<1>3. /\ q.lines = b.lines /\ q.remises = RemiseAmounts(b) /\ q.mode = "GUIDED"
      /\ DOMAIN q.services = DOMAIN b.services
      /\ \A j \in DOMAIN b.services : q.services[j].amount = ResolvedService(b, j)
  BY DEF GuidedRequest
<1> HIDE DEF q
<1>4. /\ e.mode = "GUIDED" /\ e.lines = b.lines /\ e.remises = RemiseAmounts(b)
      /\ DOMAIN e.services = DOMAIN b.services
      /\ \A j \in DOMAIN b.services : e.services[j].amount = ResolvedService(b, j)
  BY <1>1, <1>3, ExpandedAre
<1> HIDE DEF e
<1>5. Own(e) = ScreenLines(b)
  <2>1. \A i \in DOMAIN b.lines : LineTotal(b.lines[i]) = ScreenLineTotal(b.lines[i])
    BY ScreenLineExact DEF IsGuidedDraft
  <2>2. [i \in DOMAIN b.lines |-> LineTotal(b.lines[i])]
          = [i \in DOMAIN b.lines |-> ScreenLineTotal(b.lines[i])]
    BY <2>1
  <2> QED
    BY <1>4, <2>2 DEF Own, ScreenLines
<1>6. /\ Numbers(f) /\ DOMAIN f = DOMAIN b.services
      /\ \A j \in DOMAIN b.services : f[j] = e.services[j].amount
  <2>1. IsFiniteSet(DOMAIN b.services)
    BY DEF IsGuidedDraft
  <2> QED
    BY <1>4, <2>1, BasesNat DEF Numbers, ServiceAmounts
<1>7. /\ SpreadServices(e) \subseteq DOMAIN f /\ Visible(e) = DOMAIN f \ SpreadServices(e)
  BY <1>4, <1>6 DEF SpreadServices, Visible
<1>8. ASSUME NEW S \in SUBSET DOMAIN f PROVE Amounts(e, S) = Total(f, S)
  <2>1. [j \in S |-> e.services[j].amount] = [x \in S |-> f[x]]
    BY <1>6
  <2>2. Sigma([x \in S |-> f[x]]) = Total(f, S)
    <3> HIDE DEF f
    <3> QED
      BY <1>6, SigmaOnSubset
  <2> QED
    BY <2>1, <2>2 DEF Amounts
<1> HIDE DEF f
<1>9. Amounts(e, SpreadServices(e)) + Amounts(e, Visible(e)) = Sigma(f)
  BY <1>6, <1>7, <1>8, SigmaSplit
<1>10. /\ Own(e) \in Int /\ Amounts(e, SpreadServices(e)) \in Int /\ Amounts(e, Visible(e)) \in Int
  <2>1. Own(e) \in Int
    BY <1>5, BasesNat
  <2> QED
    BY <1>6, <1>7, <1>8, <2>1, TotalInt
<1>11. Before(e) = GuidedSubtotal(e)
  BY <1>4 DEF Before
<1>12. GuidedSubtotal(e) = Max({0, Own(e) + Sigma(f) - Sigma(e.remises)})
  <2> DEFINE own == Own(e)
             in == Amounts(e, SpreadServices(e))
             apart == Amounts(e, Visible(e))
             off == Sigma(e.remises)
             all == Sigma(f)
             x == own + in + apart - off
             y == own + all - off
  <2>1. Numbers(e.remises)
    BY <1>2 DEF GoodBody, GoodOf, LinesOf
  <2>2. off \in Int
    BY <2>1, SigmaInt
  <2>3. own \in Int /\ in \in Int /\ apart \in Int /\ in + apart = all
    BY <1>9, <1>10
  <2>4. GuidedSubtotal(e) = Max({0, x})
    BY Zenon DEF GuidedSubtotal
  <2> HIDE DEF own, in, apart, off, all
  <2>5. x = y
    BY <2>2, <2>3
  <2> HIDE DEF x
  <2>6. GuidedSubtotal(e) = Max({0, y})
    BY <2>4, <2>5
  <2> QED
    BY <2>6 DEF own, off, all
<1>13. Before(e) = ScreenSubtotal(b)
  BY <1>4, <1>5, <1>11, <1>12 DEF ScreenSubtotal, f
<1> QED
  BY <1>2, <1>4, <1>13 DEF e, q

\* In mode manuel what is not sent counts for nothing.
LEMMA ManualAgrees ==
  ASSUME NEW b, IsManualDraft(b),
         \A i \in DOMAIN b.rows : b.rows[i].described \/ b.rows[i].amount = 0
  PROVE  Sigma([i \in Described(b) |-> b.rows[i].amount]) = Sigma([i \in DOMAIN b.rows |-> b.rows[i].amount])
<1> DEFINE f == [i \in DOMAIN b.rows |-> b.rows[i].amount]
           S == Described(b)
           T == DOMAIN f \ S
           z == [x \in T |-> f[x]]
<1>1. Numbers(f) /\ S \in SUBSET DOMAIN f /\ T \in SUBSET DOMAIN f
  BY DEF Numbers, IsManualDraft, Described
<1>2. [i \in S |-> b.rows[i].amount] = [x \in S |-> f[x]]
  BY <1>1
<1>3. \A x \in T : f[x] = 0
  BY DEF Described
<1>4. IsFiniteSet(T)
  BY <1>1, FS_Subset DEF Numbers
<1> HIDE DEF f, S
<1>5. Sigma([x \in S |-> f[x]]) = Total(f, S)
  BY <1>1, SigmaOnSubset
<1>6. Sigma(z) = Total(f, T)
  <2> HIDE DEF T
  <2> QED
    BY <1>1, SigmaOnSubset
<1>7. Sigma(z) = 0
  <2> DEFINE c == 0
  <2>1. z = [x \in T |-> c] /\ c \in Int
    BY <1>3
  <2> HIDE DEF c, T, z
  <2>2. Sigma([x \in T |-> c]) = c * Cardinality(T)
    BY <1>4, <2>1, SigmaConst
  <2>3. Cardinality(T) \in Nat
    BY <1>4, FS_CardinalityType
  <2> QED
    BY <2>1, <2>2, <2>3 DEF c
<1>8. Sigma(f) = Total(f, S) + Total(f, T) /\ Total(f, S) \in Int
  BY <1>1, SigmaSplit, TotalInt
<1>9. Sigma([x \in S |-> f[x]]) = Sigma(f)
  BY <1>5, <1>6, <1>7, <1>8
<1> QED
  BY <1>2, <1>9 DEF f, S

\* A draft as the two stores keep it.
GoodDraft(d) ==
  /\ DOMAIN d = {"mode", "body", "slip", "type", "reverse", "choice", "total", "deposit", "from"}
  /\ d.mode \in {"GUIDED", "MANUAL"} /\ d.type \in {"DEVIS", "FACTURE"} /\ d.reverse \in BOOLEAN
  /\ d.mode = "GUIDED" => IsGuidedDraft(d.body) /\ d.choice = NoChoice
  /\ d.mode = "MANUAL" => IsManualDraft(d.body)
  /\ d.choice = NoChoice \/ (d.choice.liable \in {"yes", "no"} /\ d.choice.rate \in Nat)

\* What a reload of mode manuel puts in the draft may be typed there.
TablesHold ==
  /\ profile.rate \in Nat
  /\ draft.mode = "MANUAL" =>
       /\ request # NoBody => Numbers(request.rows) /\ (request.rate = Unset \/ request.rate \in Nat)
       /\ \A i \in DOMAIN documents : Numbers(documents[i].body.rows) /\ documents[i].vat.rate \in Nat

\* The VAT the card applied, by what it was computed from.
SentVat ==
  [applicable |-> ~sent.draft.reverse /\ (IF sent.draft.choice = NoChoice THEN sent.profile.liable
                                          ELSE sent.draft.choice.liable = "yes"),
   rate |-> OrElse(sent.draft.choice.rate, sent.profile.rate)]

\* What is on its way to the API is what the card showed, but for what the card could not know.
SentIsTheRequest ==
  /\ DOMAIN sent = {"known", "card", "vat", "deposit", "draft", "profile", "served"}
  /\ sent.known /\ sent.vat = SentVat
  /\ sent.draft.type \in {"DEVIS", "FACTURE"} /\ sent.draft.reverse \in BOOLEAN
  /\ sent.draft.choice = NoChoice
       \/ (sent.draft.choice.liable \in {"yes", "no"} /\ sent.draft.choice.rate \in Nat)
  /\ request.mode = draft.mode
  /\ draft.mode = "GUIDED" => GoodRequest(request)
  /\ request.reverse = (sent.draft.reverse /\ sent.draft.type = "FACTURE")
  /\ request.liable = sent.draft.choice.liable /\ request.rate = sent.draft.choice.rate
  /\ Valid(request) /\ Exact(sent.draft) =>
       /\ Before(Expanded(request)) = sent.card.subtotal
       /\ BodyTotals(Expanded(request), sent.vat, InPosition(Expanded(request))) = sent.card
  /\ sent.draft.deposit.requested /\ sent.draft.deposit.override = Unset =>
       sent.deposit = Percent(sent.card.total, sent.draft.deposit.percent)

\* The inductive invariant of the card.
CardInv ==
  /\ GoodDraft(draft) /\ IsList(documents)
  /\ draft.mode = "GUIDED" =>
       \A i \in DOMAIN documents :
         GoodBody(documents[i].body) /\ documents[i].body.mode = "GUIDED"
  /\ TablesHold
  /\ request # NoBody => SentIsTheRequest
  /\ CardIsTheDocument

\* What is exact of a draft does not depend on the one in the store.
LEMMA ExactStays ==
  ASSUME sent'.draft = sent.draft
  PROVE  Exact(sent.draft)' <=> Exact(sent.draft)
<1>1. \A l : AtAnEdge(l)' <=> AtAnEdge(l)
  BY EdgeStays
<1> QED
  BY <1>1 DEF Exact

\* Submitting sends what the card shows.
LEMMA SubmitKeeps ==
  ASSUME CardInv, Submit
  PROVE  CardInv'
<1>1. /\ request' = InvoiceRequest /\ draft' = draft /\ documents' = documents /\ Editing /\ CanPreview
      /\ sent' = [known |-> TRUE, card |-> Card, vat |-> CardVat, deposit |-> CardDeposit,
                  draft |-> draft, profile |-> cached, served |-> VatProfile(NoProfile)]
  BY DEF Submit
<1>2. GoodDraft(draft)
  BY DEF CardInv
<1>3. request'.mode = draft.mode /\ request' # NoBody
  BY <1>1, <1>2 DEF InvoiceRequest, ManualRequest, GuidedRequest, GoodDraft, NoBody
<1>4. CardIsTheDocument'
  BY <1>3 DEF CardIsTheDocument, Created
<1>5. /\ DOMAIN sent' = {"known", "card", "vat", "deposit", "draft", "profile", "served"}
      /\ sent'.known /\ sent'.card = Card /\ sent'.vat = CardVat /\ sent'.deposit = CardDeposit
      /\ sent'.draft = draft /\ sent'.profile = cached
  BY <1>1
<1>6. sent'.vat = SentVat'
  BY <1>5 DEF SentVat, CardVat
<1>7. /\ request'.reverse = (draft.reverse /\ draft.type = "FACTURE")
      /\ request'.liable = draft.choice.liable /\ request'.rate = draft.choice.rate
  BY <1>1, <1>2 DEF InvoiceRequest, ManualRequest, GuidedRequest, GoodDraft, ReverseSent, NoChoice
<1>8. draft.mode = "GUIDED" => GoodRequest(request')
  BY <1>1, <1>2, GuidedRequestGood DEF InvoiceRequest, GoodDraft
<1>9. ASSUME draft.deposit.requested, draft.deposit.override = Unset
      PROVE  CardDeposit = Percent(Card.total, draft.deposit.percent)
  BY <1>9 DEF CardDeposit, OrElse
<1>10. ASSUME Valid(request'), Exact(sent.draft)'
       PROVE  /\ Before(Expanded(request')) = Card.subtotal
              /\ BodyTotals(Expanded(request'), CardVat, InPosition(Expanded(request'))) = Card
  <2>1. Exact(draft)
    <3>1. \A l : AtAnEdge(l)' <=> AtAnEdge(l)
      BY EdgeStays
    <3> QED
      BY <1>5, <1>10, <3>1 DEF Exact
  <2>2. CASE draft.mode = "GUIDED"
    <3> DEFINE b == draft.body
               q == GuidedRequest(b)
               e == Expanded(q)
    <3>1. request' = q /\ IsGuidedDraft(b)
      BY <1>1, <1>2, <2>2 DEF InvoiceRequest, GoodDraft
    <3>2. ~draft.slip \/ \A i \in DOMAIN b.lines : ~AtAnEdge(b.lines[i])
      BY <2>1, <2>2 DEF Exact
    <3>3. GoodBody(e) /\ e.mode = "GUIDED" /\ Before(e) = ScreenSubtotal(b)
      <4>1. Valid(GuidedRequest(b))
        BY <1>10, <3>1
      <4> QED
        BY <3>1, <3>2, <4>1, GuidedAgrees
    <3>4. Card = Totals(ScreenSubtotal(b), CardVat)
      BY <2>2 DEF Card, GuidedCard, ScreenSubtotal
    <3> HIDE DEF e
    <3>5. InPosition(e) \in Orders(e)
      BY <3>3, OrdersOf DEF GoodBody
    <3>6. BodyTotals(e, CardVat, InPosition(e)) = Totals(GuidedSubtotal(e), CardVat)
      <4>1. GuidedTotals(e, CardVat, InPosition(e)) = Totals(GuidedSubtotal(e), CardVat)
        BY <3>3, <3>5, GuidedTotalsAre
      <4> QED
        BY <3>3, <4>1 DEF BodyTotals
    <3>7. GuidedSubtotal(e) = ScreenSubtotal(b)
      BY <3>3 DEF Before
    <3>8. Card.subtotal = ScreenSubtotal(b)
      BY <3>4 DEF Totals
    <3> QED
      BY <3>1, <3>3, <3>4, <3>6, <3>7, <3>8 DEF e
  <2>3. CASE draft.mode = "MANUAL"
    <3> DEFINE b == draft.body
               q == ManualRequest(b)
               e == Expanded(q)
               all == [i \in DOMAIN b.rows |-> b.rows[i].amount]
    <3>1. request' = q /\ IsManualDraft(b)
      BY <1>1, <1>2, <2>3 DEF InvoiceRequest, GoodDraft
    <3>2. \A i \in DOMAIN b.rows : b.rows[i].described \/ b.rows[i].amount = 0
      BY <2>1, <2>3 DEF Exact
    <3>3. Sigma([i \in Described(b) |-> b.rows[i].amount]) = Sigma(all)
      BY <3>1, <3>2, ManualAgrees
    <3>4. /\ e.mode = "MANUAL" /\ e.rows = [i \in Described(b) |-> b.rows[i].amount]
          /\ e.subtotal = b.subtotal /\ e.vat = b.vat /\ e.total = draft.total
      BY DEF Expanded, ManualRequest
    <3>5. Card = ManualTotals([rows |-> all, subtotal |-> b.subtotal, vat |-> b.vat,
                               total |-> draft.total], CardVat)
      BY <2>3 DEF Card, ManualCard
    <3> HIDE DEF all, e
    <3>6. ManualTotals(e, CardVat) = Card
      BY <3>3, <3>4, <3>5 DEF ManualTotals
    <3>7. BodyTotals(e, CardVat, InPosition(e)) = Card
      BY <3>4, <3>6 DEF BodyTotals
    <3>8. Before(e) = Card.subtotal
      BY <3>3, <3>4, <3>5 DEF Before, ManualTotals
    <3> QED
      BY <3>1, <3>7, <3>8 DEF e
  <2> QED
    BY <1>2, <2>2, <2>3 DEF GoodDraft
<1>11. SentIsTheRequest'
  BY <1>1, <1>2, <1>3, <1>5, <1>6, <1>7, <1>8, <1>9, <1>10 DEF SentIsTheRequest, GoodDraft
<1>12. TablesHold'
  <2>1. profile' = profile /\ TablesHold /\ draft'.mode = draft.mode
    BY <1>1 DEF Submit, CardInv
  <2>2. ASSUME draft.mode = "MANUAL"
        PROVE  Numbers(request'.rows) /\ (request'.rate = Unset \/ request'.rate \in Nat)
    <3> DEFINE b == draft.body
    <3>1. request'.rows = [i \in Described(b) |-> b.rows[i].amount] /\ IsManualDraft(b)
      BY <1>1, <1>2, <2>2 DEF InvoiceRequest, ManualRequest, GoodDraft
    <3> HIDE DEF b
    <3>2. IsFiniteSet(Described(b)) /\ \A i \in Described(b) : b.rows[i].amount \in Int
      BY <3>1, FS_Subset DEF Described, IsManualDraft
    <3>3. request'.rate = Unset \/ request'.rate \in Nat
      BY <1>2, <1>7 DEF GoodDraft, NoChoice
    <3> QED
      BY <3>1, <3>2, <3>3 DEF Numbers
  <2> QED
    BY <1>1, <2>1, <2>2 DEF TablesHold
<1> QED
  BY <1>1, <1>4, <1>11, <1>12 DEF CardInv

\* Steps that touch neither the request nor what was sent: the documents stay as well.
LEMMA CardStays ==
  ASSUME CardInv, GoodDraft(draft)', UNCHANGED <<request, documents, sent>>,
         draft'.mode = draft.mode, profile'.rate \in Nat
  PROVE  CardInv'
<1>1. sent'.draft = sent.draft
  OBVIOUS
<1>2. Exact(sent.draft)' <=> Exact(sent.draft)
  BY <1>1, ExactStays
<1>3. CardIsTheDocument'
  BY <1>2 DEF CardInv, CardIsTheDocument, Created, CreatedTotals, SameVat
<1>4. request' # NoBody => SentIsTheRequest'
  BY <1>2 DEF CardInv, SentIsTheRequest, SentVat
<1>5. TablesHold'
  BY DEF CardInv, TablesHold
<1> QED
  BY <1>3, <1>4, <1>5 DEF CardInv

\* Whatever the artisan does to the draft.
LEMMA EditKeeps ==
  ASSUME CardInv, NEW d, Edit(d), GoodDraft(d), d.mode = draft.mode
  PROVE  CardInv'
<1>1. draft' = d /\ UNCHANGED <<request, documents, sent>> /\ profile'.rate \in Nat
  BY DEF Edit, CardInv, TablesHold
<1>2. GoodDraft(draft)'
  BY <1>1 DEF GoodDraft
<1> QED
  BY <1>1, <1>2, CardStays

\* A fresh draft is a good one.
LEMMA EmptyDraftGood ==
  ASSUME NEW mode \in {"GUIDED", "MANUAL"}, NEW deposit
  PROVE  GoodDraft(EmptyDraftOf(mode, deposit)) /\ EmptyDraftOf(mode, deposit).mode = mode
<1> DEFINE d == EmptyDraftOf(mode, deposit)
<1>1. /\ DOMAIN d = {"mode", "body", "slip", "type", "reverse", "choice", "total", "deposit", "from"}
      /\ d.mode = mode /\ d.body = EmptyBody(mode) /\ d.choice = NoChoice
      /\ d.type = "FACTURE" /\ d.reverse = FALSE
  BY DEF EmptyDraftOf
<1>2. DOMAIN <<>> = 1..0 /\ Len(<<>>) = 0 /\ IsFiniteSet(1..0)
  BY FS_Interval
<1>3. 1..0 = {}
  OBVIOUS
<1> HIDE DEF d
<1>4. mode = "GUIDED" => IsGuidedDraft(d.body)
  BY <1>1, <1>2, <1>3 DEF EmptyBody, IsGuidedDraft
<1>5. mode = "MANUAL" => IsManualDraft(d.body)
  BY <1>1, <1>2, <1>3 DEF EmptyBody, IsManualDraft
<1> QED
  BY <1>1, <1>4, <1>5 DEF GoodDraft, d

\* A creation gives the document of the card, then starts afresh.
LEMMA CreateSentKeeps ==
  ASSUME CardInv, CreateSent
  PROVE  CardInv'
<1> DEFINE e == Expanded(request)
           v == VatOf(request)
           type == sent.draft.type
<1>1. /\ request # NoBody /\ Valid(request) /\ request' = NoBody
      /\ \E from, cloned, agreed :
           documents' = Append(documents, [body |-> e, type |-> type, vat |-> v, from |-> from,
                                           cloned |-> cloned, agreed |-> agreed])
      /\ sent' = [sent EXCEPT !.served = profile] /\ profile' = profile
      /\ draft' = EmptyDraftOf(draft.mode, DefaultDeposit(cached))
  BY DEF CreateSent, CreateDocument, Persist, StartAfresh
<1>2. SentIsTheRequest /\ GoodDraft(draft) /\ IsList(documents)
  BY <1>1 DEF CardInv
<1>3. PICK d : d.body = e /\ d.vat = v /\ documents' = Append(documents, d)
  BY <1>1
<1>4. /\ IsList(documents') /\ Len(documents') = Len(documents) + 1
      /\ documents'[Len(documents')] = d
      /\ DOMAIN documents' = DOMAIN documents \cup {Len(documents')}
      /\ \A i \in DOMAIN documents : documents'[i] = documents[i]
  <2>1. /\ Len(documents) \in Nat /\ DOMAIN documents = 1..Len(documents) /\ IsList(documents')
        /\ Len(documents') = Len(documents) + 1 /\ documents'[Len(documents) + 1] = d
        /\ \A i \in 1..Len(documents) : documents'[i] = documents[i]
    BY <1>2, <1>3, ListAppend
  <2>2. DOMAIN documents' = 1..Len(documents')
    BY <2>1 DEF IsList
  <2> QED
    BY <2>1, <2>2
<1>5. /\ sent'.known /\ sent'.card = sent.card /\ sent'.deposit = sent.deposit
      /\ sent'.draft = sent.draft /\ sent'.profile = sent.profile /\ sent'.served = profile
  BY <1>1, <1>2 DEF SentIsTheRequest
<1>6. draft'.mode = draft.mode /\ GoodDraft(draft)'
  <2>1. GoodDraft(draft') /\ draft'.mode = draft.mode
    BY <1>1, <1>2, EmptyDraftGood DEF GoodDraft
  <2> QED
    BY <2>1 DEF GoodDraft
<1>7. ASSUME draft.mode = "GUIDED"
      PROVE  \A i \in DOMAIN documents' :
               GoodBody(documents'[i].body) /\ documents'[i].body.mode = "GUIDED"
  <2>1. GoodRequest(request) /\ request.mode = "GUIDED"
    BY <1>2, <1>7 DEF SentIsTheRequest
  <2>2. GoodBody(e) /\ e.mode = "GUIDED"
    BY <1>1, <2>1, ExpandedGood, ExpandedAre
  <2>3. \A i \in DOMAIN documents :
          GoodBody(documents[i].body) /\ documents[i].body.mode = "GUIDED"
    BY <1>7 DEF CardInv
  <2> HIDE DEF e
  <2> QED
    BY <1>3, <1>4, <2>2, <2>3
<1>8. CreatedTotals' = BodyTotals(e, v, InPosition(e))
  BY <1>3, <1>4 DEF CreatedTotals
<1>9. Exact(sent.draft)' <=> Exact(sent.draft)
  BY <1>5, ExactStays
<1>10. ASSUME SameVat' PROVE v = sent.vat
  <2>1. ~(sent.draft.reverse /\ sent.draft.type = "DEVIS")
    BY <1>5, <1>10 DEF SameVat
  <2>2. sent.draft.choice # NoChoice \/ profile = VatProfile(sent.profile)
    BY <1>5, <1>10 DEF SameVat
  <2>3. request.reverse = sent.draft.reverse /\ sent.draft.reverse \in BOOLEAN
    BY <1>2, <2>1 DEF SentIsTheRequest
  <2>4. request.liable = sent.draft.choice.liable /\ request.rate = sent.draft.choice.rate
    BY <1>2 DEF SentIsTheRequest
  <2>5. CASE sent.draft.choice = NoChoice
    <3>1. profile.liable = sent.profile.liable /\ profile.rate = sent.profile.rate
      BY <2>2, <2>5 DEF VatProfile
    <3>2. request.liable = "profile" /\ request.rate = Unset
      BY <2>4, <2>5 DEF NoChoice
    <3>3. /\ v = [applicable |-> ~request.reverse /\ profile.liable, rate |-> profile.rate]
      BY <3>2 DEF VatOf, OrElse
    <3>4. sent.vat = [applicable |-> ~sent.draft.reverse /\ sent.profile.liable,
                      rate |-> sent.profile.rate]
      BY <1>2, <2>5 DEF SentIsTheRequest, SentVat, NoChoice, OrElse
    <3> QED
      BY <2>3, <3>1, <3>3, <3>4
  <2>6. CASE sent.draft.choice # NoChoice
    <3>1. sent.draft.choice.liable \in {"yes", "no"} /\ sent.draft.choice.rate # Unset
      BY <1>2, <2>6, TotalsData DEF SentIsTheRequest, Unset
    <3>2. v = [applicable |-> ~request.reverse /\ request.liable = "yes", rate |-> request.rate]
      BY <2>4, <3>1 DEF VatOf, OrElse
    <3>3. sent.vat = [applicable |-> ~sent.draft.reverse /\ sent.draft.choice.liable = "yes",
                      rate |-> sent.draft.choice.rate]
      BY <1>2, <2>6, <3>1 DEF SentIsTheRequest, SentVat, OrElse
    <3> QED
      BY <2>3, <2>4, <3>2, <3>3
  <2> QED
    BY <2>5, <2>6
<1>11. ASSUME Exact(sent.draft)
       PROVE  BodyTotals(e, v, InPosition(e)).subtotal = sent.card.subtotal
  <2>1. Before(e) = sent.card.subtotal
    BY <1>1, <1>2, <1>11 DEF SentIsTheRequest
  <2>2. CASE draft.mode = "GUIDED"
    <3>1. GoodBody(e)
      BY <1>1, <1>2, <2>2, ExpandedGood DEF SentIsTheRequest
    <3> HIDE DEF e, v
    <3>2. InPosition(e) \in Orders(e)
      BY <3>1, OrdersOf DEF GoodBody
    <3>3. BodyTotals(e, v, InPosition(e)).subtotal = Before(e)
      BY <3>1, <3>2, BodyTotalsAre
    <3> QED
      BY <2>1, <3>3
  <2>3. CASE draft.mode = "MANUAL"
    <3>1. e.mode = "MANUAL"
      BY <1>2, <2>3 DEF SentIsTheRequest, Expanded
    <3> HIDE DEF e, v
    <3> QED
      BY <2>1, <3>1 DEF BodyTotals, ManualTotals, Before
  <2> QED
    BY <1>2, <2>2, <2>3 DEF GoodDraft
<1>12. Exact(sent.draft) /\ SameVat' => sent.card = BodyTotals(e, v, InPosition(e))
  BY <1>1, <1>2, <1>10 DEF SentIsTheRequest
<1>13. CardIsTheDocument'
  <2>1. sent.draft.deposit.requested /\ sent.draft.deposit.override = Unset =>
          sent.deposit = Percent(sent.card.total, sent.draft.deposit.percent)
    BY <1>2 DEF SentIsTheRequest
  <2> HIDE DEF e, v
  <2>2. /\ Exact(sent.draft)' => sent'.card.subtotal = CreatedTotals'.subtotal
        /\ Exact(sent.draft)' /\ SameVat' => sent'.card = CreatedTotals'
    BY <1>5, <1>8, <1>9, <1>11, <1>12
  <2>3. Exact(sent.draft)' /\ SameVat' /\ sent'.draft.deposit.requested
          /\ sent'.draft.deposit.override = Unset =>
            sent'.deposit = Percent(CreatedTotals'.total, sent'.draft.deposit.percent)
    BY <1>5, <1>8, <1>9, <1>12, <2>1
  <2> QED
    BY <2>2, <2>3 DEF CardIsTheDocument
<1>14. TablesHold'
  <2>1. TablesHold /\ profile'.rate \in Nat
    BY <1>1 DEF CardInv, TablesHold
  <2>2. ASSUME draft.mode = "MANUAL"
        PROVE  \A i \in DOMAIN documents' :
                 Numbers(documents'[i].body.rows) /\ documents'[i].vat.rate \in Nat
    <3>1. e.rows = request.rows /\ v.rate = OrElse(request.rate, profile.rate)
      BY <1>1, <1>2, <2>2 DEF Expanded, VatOf
    <3>2. Numbers(e.rows) /\ v.rate \in Nat
      BY <1>1, <2>1, <2>2, <3>1 DEF TablesHold, OrElse
    <3>3. \A i \in DOMAIN documents : Numbers(documents[i].body.rows) /\ documents[i].vat.rate \in Nat
      BY <2>1, <2>2 DEF TablesHold
    <3> HIDE DEF e, v
    <3> QED
      BY <1>3, <1>4, <3>2, <3>3
  <2> QED
    BY <1>1, <1>6, <2>1, <2>2 DEF TablesHold
<1> QED
  BY <1>1, <1>4, <1>6, <1>7, <1>13, <1>14 DEF CardInv

\* Only the body and the VAT chosen decide whether a draft is a good one.
LEMMA GoodDraftStays ==
  ASSUME NEW d, GoodDraft(d), NEW e, DOMAIN e = DOMAIN d,
         e.mode = d.mode, e.body = d.body, e.choice = d.choice,
         e.type \in {"DEVIS", "FACTURE"}, e.reverse \in BOOLEAN
  PROVE  GoodDraft(e)
BY DEF GoodDraft

\* What is typed of the body, the documents' type, the VAT and the deposit.
LEMMA TypingKeeps ==
  ASSUME CardInv,
         \/ TypeBody \/ ToggleReverse
         \/ \E type \in {"DEVIS", "FACTURE"} : SetDocumentType(type)
         \/ \E yes \in {"yes", "no"}, r \in Rates : SetVatChoice([liable |-> yes, rate |-> r])
  PROVE  CardInv'
<1>1. /\ GoodDraft(draft)
      /\ DOMAIN draft = {"mode", "body", "slip", "type", "reverse", "choice", "total", "deposit", "from"}
      /\ draft.mode \in {"GUIDED", "MANUAL"} /\ draft.type \in {"DEVIS", "FACTURE"}
      /\ draft.reverse \in BOOLEAN
  BY DEF CardInv, GoodDraft
<1>2. CASE TypeBody
  <2>1. PICK b \in DraftBodies[draft.mode] : \E slip : Edit([draft EXCEPT !.body = b, !.slip = slip])
    BY <1>2 DEF TypeBody
  <2>2. PICK slip : Edit([draft EXCEPT !.body = b, !.slip = slip])
    BY <2>1
  <2> DEFINE e == [draft EXCEPT !.body = b, !.slip = slip]
  <2>3. /\ DOMAIN e = DOMAIN draft /\ e.mode = draft.mode /\ e.body = b /\ e.type = draft.type
        /\ e.reverse = draft.reverse /\ e.choice = draft.choice
    BY <1>1
  <2>4. Edit(e)
    BY <2>2
  <2> HIDE DEF e
  <2>5. /\ draft.mode = "GUIDED" => IsGuidedDraft(b)
        /\ draft.mode = "MANUAL" => IsManualDraft(b)
    BY <2>1, CardData
  <2>6. GoodDraft(e)
    BY <1>1, <2>3, <2>5 DEF GoodDraft
  <2> QED
    BY <2>3, <2>4, <2>6, EditKeeps
<1>3. CASE ToggleReverse
  <2> DEFINE e == [draft EXCEPT !.reverse = ~@]
  <2>1. Edit(e)
    BY <1>3 DEF ToggleReverse
  <2>2. /\ DOMAIN e = DOMAIN draft /\ e.mode = draft.mode /\ e.body = draft.body
        /\ e.choice = draft.choice /\ e.type = draft.type /\ e.reverse \in BOOLEAN
    BY <1>1
  <2> HIDE DEF e
  <2>3. GoodDraft(e)
    BY <1>1, <2>2, GoodDraftStays
  <2> QED
    BY <2>1, <2>2, <2>3, EditKeeps
<1>4. CASE \E type \in {"DEVIS", "FACTURE"} : SetDocumentType(type)
  <2>1. PICK type \in {"DEVIS", "FACTURE"} : SetDocumentType(type)
    BY <1>4
  <2> DEFINE e == [draft EXCEPT !.type = type]
  <2>2. Edit(e)
    BY <2>1 DEF SetDocumentType
  <2>3. /\ DOMAIN e = DOMAIN draft /\ e.mode = draft.mode /\ e.body = draft.body
        /\ e.choice = draft.choice /\ e.type = type /\ e.reverse = draft.reverse
    BY <1>1
  <2> HIDE DEF e
  <2>4. GoodDraft(e)
    BY <1>1, <2>3, GoodDraftStays
  <2> QED
    BY <2>2, <2>3, <2>4, EditKeeps
<1>5. CASE \E yes \in {"yes", "no"}, r \in Rates : SetVatChoice([liable |-> yes, rate |-> r])
  <2>1. PICK yes \in {"yes", "no"}, r \in Rates : SetVatChoice([liable |-> yes, rate |-> r])
    BY <1>5
  <2> DEFINE choice == [liable |-> yes, rate |-> r]
             e == [draft EXCEPT !.choice = choice]
  <2>2. Edit(e) /\ draft.mode = "MANUAL"
    BY <2>1 DEF SetVatChoice
  <2>3. choice.liable = yes /\ choice.rate = r
    OBVIOUS
  <2> HIDE DEF choice
  <2>4. /\ DOMAIN e = DOMAIN draft /\ e.mode = draft.mode /\ e.body = draft.body
        /\ e.choice = choice /\ e.type = draft.type /\ e.reverse = draft.reverse
    BY <1>1
  <2> HIDE DEF e
  <2>5. GoodDraft(e)
    BY <1>1, <2>1, <2>2, <2>3, <2>4, TotalsData DEF GoodDraft
  <2> QED
    BY <2>2, <2>4, <2>5, EditKeeps
<1> QED
  BY <1>2, <1>3, <1>4, <1>5

\* Only the deposit and the total of the draft change.
LEMMA AmountsKeep ==
  ASSUME CardInv,
         \/ ResetDeposit \/ \E yes \in BOOLEAN : RequestDeposit(yes)
         \/ \E p \in Habits : SetDepositPercentage(p)
         \/ \E amount \in Overrides : OverrideDeposit(amount) \/ OverrideTotal(amount)
  PROVE  CardInv'
<1>1. /\ GoodDraft(draft)
      /\ DOMAIN draft = {"mode", "body", "slip", "type", "reverse", "choice", "total", "deposit", "from"}
      /\ draft.type \in {"DEVIS", "FACTURE"} /\ draft.reverse \in BOOLEAN
  BY DEF CardInv, GoodDraft
<1>2. \E total, deposit : Edit([draft EXCEPT !.total = total, !.deposit = deposit])
  <2>1. ASSUME NEW deposit, Edit([draft EXCEPT !.deposit = deposit])
        PROVE  \E total, other : Edit([draft EXCEPT !.total = total, !.deposit = other])
    <3>1. [draft EXCEPT !.deposit = deposit] = [draft EXCEPT !.total = draft.total, !.deposit = deposit]
      BY <1>1
    <3> QED
      BY <2>1, <3>1
  <2>2. CASE \E yes \in BOOLEAN : RequestDeposit(yes)
    BY <2>1, <2>2 DEF RequestDeposit
  <2>3. CASE \E p \in Habits : SetDepositPercentage(p)
    BY <2>1, <2>3 DEF SetDepositPercentage
  <2>4. CASE ResetDeposit \/ \E amount \in Overrides : OverrideDeposit(amount)
    BY <2>1, <2>4 DEF ResetDeposit, OverrideDeposit
  <2>5. CASE \E amount \in Overrides : OverrideTotal(amount)
    BY <2>5 DEF OverrideTotal
  <2> QED
    BY <2>2, <2>3, <2>4, <2>5
<1>3. PICK total, deposit : Edit([draft EXCEPT !.total = total, !.deposit = deposit])
  BY <1>2
<1> DEFINE e == [draft EXCEPT !.total = total, !.deposit = deposit]
<1>4. /\ DOMAIN e = DOMAIN draft /\ e.mode = draft.mode /\ e.body = draft.body
      /\ e.choice = draft.choice /\ e.type = draft.type /\ e.reverse = draft.reverse
  BY <1>1
<1>5. Edit(e)
  BY <1>3
<1> HIDE DEF e
<1>6. GoodDraft(e)
  BY <1>1, <1>4, GoodDraftStays
<1> QED
  BY <1>4, <1>5, <1>6, EditKeeps

\* Whatever is asked of the profile, answered or lost, and another page load.
LEMMA ProfileKeeps ==
  ASSUME CardInv,
         \/ EditCompany \/ ConfirmLegalStatus \/ ReloadPage
         \/ \E i \in 1..MaxAnswers : Serve(i) \/ Receive(i) \/ Lose(i)
  PROVE  CardInv'
<1>1. /\ GoodDraft(draft)
      /\ DOMAIN draft = {"mode", "body", "slip", "type", "reverse", "choice", "total", "deposit", "from"}
      /\ draft.type \in {"DEVIS", "FACTURE"} /\ draft.reverse \in BOOLEAN
  BY DEF CardInv, GoodDraft
<1>2. UNCHANGED <<request, documents, sent>>
  BY DEF EditCompany, ConfirmLegalStatus, ReloadPage, Serve, Receive, Lose
<1>3. draft' = draft \/ \E deposit : draft' = [draft EXCEPT !.deposit = deposit]
  <2>1. CASE EditCompany \/ ConfirmLegalStatus \/ ReloadPage
    BY <2>1 DEF EditCompany, ConfirmLegalStatus, ReloadPage
  <2>2. CASE \E i \in 1..MaxAnswers : Serve(i) \/ Lose(i)
    BY <2>2 DEF Serve, Lose
  <2>3. CASE \E i \in 1..MaxAnswers : Receive(i)
    BY <2>3 DEF Receive
  <2> QED
    BY <2>1, <2>2, <2>3
<1>4. /\ DOMAIN draft' = DOMAIN draft /\ draft'.mode = draft.mode /\ draft'.body = draft.body
      /\ draft'.choice = draft.choice /\ draft'.type = draft.type
      /\ draft'.reverse = draft.reverse
  BY <1>1, <1>3
<1>5. GoodDraft(draft')
  BY <1>1, <1>4, GoodDraftStays
<1>6. GoodDraft(draft)'
  BY <1>5 DEF GoodDraft
<1>7. profile'.rate \in Nat
  <2>1. profile' = profile \/ \E c \in Companies : profile' = VatProfile(c)
    BY DEF EditCompany, ConfirmLegalStatus, ReloadPage, Serve, Receive, Lose
  <2>2. \A c \in Companies : VatProfile(c).rate \in Nat
    BY CardData, TotalsData DEF VatProfile
  <2> QED
    BY <2>1, <2>2 DEF CardInv, TablesHold
<1> QED
  BY <1>2, <1>4, <1>6, <1>7, CardStays

\* A reset, or a dictated draft in the place of the one there was.
LEMMA AfreshKeeps ==
  ASSUME CardInv,
         \/ ResetDraft
         \/ \E type \in {"DEVIS", "FACTURE"}, p \in Habits \cup {Unset} : LoadVoiceDraft(type, p)
  PROVE  CardInv'
<1>1. GoodDraft(draft) /\ draft.mode \in {"GUIDED", "MANUAL"} /\ profile'.rate \in Nat
  BY DEF CardInv, GoodDraft, TablesHold, ResetDraft, LoadVoiceDraft
<1>2. CASE ResetDraft
  <2>1. /\ draft' = EmptyDraftOf(draft.mode, DefaultDeposit(cached))
        /\ UNCHANGED <<request, documents, sent>>
    BY <1>2 DEF ResetDraft, StartAfresh
  <2>2. GoodDraft(draft') /\ draft'.mode = draft.mode
    BY <1>1, <2>1, EmptyDraftGood
  <2>3. GoodDraft(draft)'
    BY <2>2 DEF GoodDraft
  <2> QED
    BY <1>1, <2>1, <2>2, <2>3, CardStays
<1>3. CASE \E type \in {"DEVIS", "FACTURE"}, p \in Habits \cup {Unset} : LoadVoiceDraft(type, p)
  <2>1. PICK type \in {"DEVIS", "FACTURE"}, p \in Habits \cup {Unset} : LoadVoiceDraft(type, p)
    BY <1>3
  <2> DEFINE dictated == type = "FACTURE" /\ p # Unset
             deposit == IF dictated THEN [requested |-> TRUE, percent |-> p, override |-> Unset]
                        ELSE DefaultDeposit(cached)
             Made(b, slip) == [EmptyDraftOf("GUIDED", deposit) EXCEPT !.body = b, !.slip = slip, !.type = type]
  <2>2. /\ draft.mode = "GUIDED" /\ UNCHANGED <<request, documents, sent>>
        /\ \E b \in DraftBodies["GUIDED"] : Dictated(b) /\ \E slip \in SlipIn(b) : draft' = Made(b, slip)
    BY <2>1, Zenon DEF LoadVoiceDraft
  <2> HIDE DEF deposit, Made
  <2>3. PICK b \in DraftBodies["GUIDED"] : \E slip \in SlipIn(b) : draft' = Made(b, slip)
    BY <2>2
  <2>4. PICK slip \in SlipIn(b) : draft' = Made(b, slip)
    BY <2>3
  <2> DEFINE d == EmptyDraftOf("GUIDED", deposit)
  <2>5. GoodDraft(d) /\ d.mode = "GUIDED"
    BY EmptyDraftGood
  <2> HIDE DEF d
  <2>6. /\ DOMAIN d = {"mode", "body", "slip", "type", "reverse", "choice", "total", "deposit", "from"}
        /\ d.reverse \in BOOLEAN /\ d.choice = NoChoice
    BY <2>5 DEF GoodDraft
  <2>7. draft' = [d EXCEPT !.body = b, !.slip = slip, !.type = type]
    BY <2>4 DEF d, Made
  <2>8. /\ DOMAIN draft' = DOMAIN d /\ draft'.mode = "GUIDED" /\ draft'.body = b
        /\ draft'.type = type /\ draft'.reverse = d.reverse /\ draft'.choice = NoChoice
    BY <2>5, <2>6, <2>7
  <2>9. IsGuidedDraft(b)
    BY <2>3, CardData
  <2>10. GoodDraft(draft)'
    BY <2>6, <2>8, <2>9 DEF GoodDraft, IsGuidedDraft, IsLineItem, IsDraftService, IsDraftRemise
  <2> QED
    BY <1>1, <2>2, <2>8, <2>10, CardStays
<1> QED
  BY <1>2, <1>3

\* What a devis becomes in the draft is what may be typed there.
LEMMA LoadedDraftGood ==
  ASSUME NEW source, GoodBody(source), NEW services, NEW remises,
         DOMAIN services = DOMAIN source.services,
         \A j \in DOMAIN services :
           services[j] = [pricing |-> "FIXED", amount |-> source.services[j].amount,
                          visible |-> source.services[j].visible, strategy |-> "WEIGHTED",
                          weights |-> IF source.services[j].visible THEN source.services[j].weights
                                      ELSE Distribution(source.services[j], InPosition(source))],
         DOMAIN remises = DOMAIN source.remises,
         \A k \in DOMAIN remises :
           remises[k] = [pricing |-> "FIXED", amount |-> source.remises[k], line |-> 0, service |-> 0]
  PROVE  IsGuidedDraft([lines |-> source.lines, services |-> services, remises |-> remises])
<1> DEFINE order == InPosition(source)
           b == [lines |-> source.lines, services |-> services, remises |-> remises]
<1>1. PICK n \in Nat : GoodOf(source, n)
  BY DEF GoodBody
<1>2. LinesOf(source, n) /\ Reorders(order, n)
      /\ \A j \in DOMAIN source.services : GoodService(source.services[j], n)
  BY <1>1, OrdersOf DEF GoodOf
<1>3. ASSUME NEW j \in DOMAIN services
      PROVE  IsDraftService(services[j], n)
  <2> DEFINE s == source.services[j]
             weights == IF s.visible THEN s.weights ELSE Distribution(s, order)
  <2>1. s.amount \in Nat /\ s.visible \in BOOLEAN /\ s.weights \in [1..n -> Nat]
    BY <1>2 DEF GoodService
  <2>2. ~s.visible => Distribution(s, order) \in [1..n -> Nat]
    <3>1. ASSUME ~s.visible PROVE IsSpread(s, n)
      BY <1>2, <3>1 DEF GoodService, IsSpread
    <3> HIDE DEF s
    <3> QED
      BY <1>2, <3>1, SharesAreExact
  <2>3. services[j] = [pricing |-> "FIXED", amount |-> s.amount, visible |-> s.visible,
                       strategy |-> "WEIGHTED", weights |-> weights]
    OBVIOUS
  <2> HIDE DEF s, order
  <2>4. weights \in [1..n -> Nat]
    BY <2>1, <2>2
  <2> HIDE DEF weights
  <2>5. weights \in Seq(Nat) /\ Len(weights) = n
    BY <2>4
  <2>6. /\ services[j].pricing = "FIXED" /\ services[j].amount = s.amount
        /\ services[j].visible = s.visible /\ services[j].weights = weights
    BY <2>3
  <2> QED
    BY <2>1, <2>5, <2>6 DEF IsDraftService
<1>4. ASSUME NEW k \in DOMAIN remises
      PROVE  IsDraftRemise(remises[k])
  <2>1. source.remises[k] \in Int
    BY <1>2, <1>4 DEF LinesOf, Numbers
  <2>2. remises[k] = [pricing |-> "FIXED", amount |-> source.remises[k], line |-> 0, service |-> 0]
    BY <1>4
  <2>3. remises[k].pricing = "FIXED" /\ remises[k].amount = source.remises[k]
    BY <2>2
  <2> QED
    BY <2>1, <2>3 DEF IsDraftRemise
<1>5. /\ b.lines = source.lines /\ b.services = services /\ b.remises = remises
  OBVIOUS
<1>6. /\ IsFiniteSet(DOMAIN services) /\ IsFiniteSet(DOMAIN remises)
      /\ DOMAIN source.lines = 1..n /\ Len(source.lines) = n
      /\ \A i \in 1..n : IsLineItem(source.lines[i])
  BY <1>2 DEF LinesOf, Numbers
<1> HIDE DEF b
<1>7. IsGuidedDraft(b)
  BY <1>3, <1>4, <1>5, <1>6 DEF IsGuidedDraft
<1> QED
  BY <1>7 DEF b

\* A devis comes back into the draft.
LEMMA LoadSourceKeeps ==
  ASSUME CardInv, NEW i \in DOMAIN documents, LoadSource(i)
  PROVE  CardInv'
<1> DEFINE source == documents[i].body
           services == [j \in DOMAIN source.services |->
             [pricing |-> "FIXED", amount |-> source.services[j].amount,
              visible |-> source.services[j].visible, strategy |-> "WEIGHTED",
              weights |-> IF source.services[j].visible THEN source.services[j].weights
                          ELSE Distribution(source.services[j], InPosition(source))]]
           remises == [k \in DOMAIN source.remises |->
             [pricing |-> "FIXED", amount |-> source.remises[k], line |-> 0, service |-> 0]]
           body == [lines |-> source.lines, services |-> services, remises |-> remises]
           d == EmptyDraftOf("GUIDED", EmptyDeposit)
<1>1. draft.mode = "GUIDED" /\ \E slip : Edit([d EXCEPT !.body = body, !.slip = slip, !.from = i])
  BY DEF LoadSource
<1>2. PICK slip : Edit([d EXCEPT !.body = body, !.slip = slip, !.from = i])
  BY <1>1
<1>3. GoodBody(source)
  BY <1>1 DEF CardInv
<1>4. IsGuidedDraft(body)
  <2>1. /\ DOMAIN services = DOMAIN source.services
        /\ \A j \in DOMAIN services :
             services[j] = [pricing |-> "FIXED", amount |-> source.services[j].amount,
                            visible |-> source.services[j].visible, strategy |-> "WEIGHTED",
                            weights |-> IF source.services[j].visible THEN source.services[j].weights
                                        ELSE Distribution(source.services[j], InPosition(source))]
    OBVIOUS
  <2>2. /\ DOMAIN remises = DOMAIN source.remises
        /\ \A k \in DOMAIN remises :
             remises[k] = [pricing |-> "FIXED", amount |-> source.remises[k], line |-> 0, service |-> 0]
    OBVIOUS
  <2> HIDE DEF services, remises, source
  <2> QED
    BY <1>3, <2>1, <2>2, LoadedDraftGood
<1> HIDE DEF body
<1>5. GoodDraft(d) /\ d.mode = "GUIDED"
  BY EmptyDraftGood
<1> HIDE DEF d
<1>6. /\ DOMAIN d = {"mode", "body", "slip", "type", "reverse", "choice", "total", "deposit", "from"}
      /\ d.type \in {"DEVIS", "FACTURE"} /\ d.reverse \in BOOLEAN /\ d.choice = NoChoice
  BY <1>5 DEF GoodDraft
<1> DEFINE e == [d EXCEPT !.body = body, !.slip = slip, !.from = i]
<1>7. /\ DOMAIN e = DOMAIN d /\ e.mode = "GUIDED" /\ e.body = body /\ e.type = d.type
      /\ e.reverse = d.reverse /\ e.choice = NoChoice
  BY <1>5, <1>6
<1>8. Edit(e)
  BY <1>2
<1> HIDE DEF e
<1>9. GoodDraft(e)
  BY <1>4, <1>6, <1>7 DEF GoodDraft
<1> QED
  BY <1>1, <1>7, <1>8, <1>9, EditKeeps

\* So does one of mode manuel: its rows, its VAT as the choice.
LEMMA LoadSourceTableKeeps ==
  ASSUME CardInv, NEW i \in DOMAIN documents, LoadSourceTable(i)
  PROVE  CardInv'
<1> DEFINE amounts == documents[i].body.rows
           vat == documents[i].vat
           body == [rows |-> [k \in DOMAIN amounts |-> [described |-> TRUE, amount |-> amounts[k]]],
                    subtotal |-> Unset, vat |-> Unset]
           choice == [liable |-> IF vat.applicable THEN "yes" ELSE "no", rate |-> vat.rate]
           d == EmptyDraftOf("MANUAL", EmptyDeposit)
           e == [d EXCEPT !.body = body, !.choice = choice, !.from = i]
<1>1. draft.mode = "MANUAL" /\ Edit(e)
  BY DEF LoadSourceTable
<1>2. Numbers(amounts) /\ vat.rate \in Nat
  BY <1>1 DEF CardInv, TablesHold
<1>3. IsManualDraft(body)
  <2> HIDE DEF amounts
  <2> QED
    BY <1>2 DEF IsManualDraft, Numbers
<1>4. choice.liable \in {"yes", "no"} /\ choice.rate \in Nat
  BY <1>2
<1> HIDE DEF body, choice
<1>5. GoodDraft(d) /\ d.mode = "MANUAL"
  BY EmptyDraftGood
<1> HIDE DEF d
<1>6. /\ DOMAIN d = {"mode", "body", "slip", "type", "reverse", "choice", "total", "deposit", "from"}
      /\ d.type \in {"DEVIS", "FACTURE"} /\ d.reverse \in BOOLEAN
  BY <1>5 DEF GoodDraft
<1>7. /\ DOMAIN e = DOMAIN d /\ e.mode = "MANUAL" /\ e.body = body /\ e.type = d.type
      /\ e.reverse = d.reverse /\ e.choice = choice
  BY <1>5, <1>6
<1> HIDE DEF e
<1>8. GoodDraft(e)
  BY <1>3, <1>4, <1>6, <1>7 DEF GoodDraft
<1> QED
  BY <1>1, <1>7, <1>8, EditKeeps

\* A refused creation leaves the draft as it was.
LEMMA CreateRefusedKeeps ==
  ASSUME CardInv, CreateRefused
  PROVE  CardInv'
<1>1. /\ request' = NoBody /\ sent' = NotSent /\ UNCHANGED <<documents, draft>>
  BY DEF CreateRefused
<1>2. GoodDraft(draft)'
  BY <1>1 DEF CardInv, GoodDraft
<1>3. CardIsTheDocument'
  BY <1>1 DEF CardIsTheDocument, Created, NotSent
<1>4. TablesHold'
  BY <1>1 DEF CardInv, TablesHold, CreateRefused
<1> QED
  BY <1>1, <1>2, <1>3, <1>4 DEF CardInv

\* The card starts empty, with the devis there is to reload.
LEMMA CardInvInit == CardInit => CardInv
<1> SUFFICES ASSUME CardInit PROVE CardInv
  OBVIOUS
<1>1. request = NoBody /\ sent = NotSent /\ profile.rate \in Nat
  <2>1. \A c \in Companies : VatProfile(c).rate \in Nat
    BY CardData, TotalsData DEF VatProfile
  <2> QED
    BY <2>1 DEF CardInit, CardStart
<1>2. PICK mode \in {"GUIDED", "MANUAL"} :
        /\ draft = EmptyDraftOf(mode, EmptyDeposit)
        /\ \/ documents = <<>>
           \/ \E r \in Reloadable(mode) : \E d :
                d.body = Expanded(r) /\ d.vat.rate \in Nat /\ documents = <<d>>
  <2> DEFINE r(mode) == CHOOSE x \in Reloadable(mode) : TRUE
             earlier == CHOOSE c \in Companies : TRUE
             seed(mode) == [body |-> Expanded(r(mode)), type |-> "DEVIS", vat |-> MadeUnder(earlier, r(mode)),
                            from |-> 0, cloned |-> FALSE, agreed |-> NothingShown]
  <2>1. PICK mode \in {"GUIDED", "MANUAL"} :
          /\ draft = EmptyDraftOf(mode, EmptyDeposit)
          /\ documents = IF Reloadable(mode) = {} THEN <<>> ELSE <<seed(mode)>>
    BY Zenon DEF CardInit
  <2>2. ASSUME Reloadable(mode) # {}
        PROVE  r(mode) \in Reloadable(mode) /\ seed(mode).vat.rate \in Nat
    <3>1. r(mode) \in Reloadable(mode)
      BY <2>2
    <3>2. earlier \in Companies
      BY DEF CardInit
    <3>3. earlier.rate \in Nat
      BY <3>2, CardData, TotalsData
    <3>4. r(mode).rate = Unset \/ r(mode).rate \in Nat
      <4>1. \A q \in GuidedRequests : q.rate = Unset
        BY DEF GuidedRequests
      <4>2. \A q \in ManualRequests : q.rate = Unset \/ q.rate \in Nat
        BY TotalsData DEF ManualRequests, IsManualTable
      <4> HIDE DEF r
      <4> QED
        BY <3>1, <4>1, <4>2 DEF Reloadable
    <3> HIDE DEF r, earlier
    <3> QED
      BY <3>1, <3>3, <3>4 DEF MadeUnder, OrElse
  <2>3. seed(mode).body = Expanded(r(mode))
    OBVIOUS
  <2> HIDE DEF seed, r, earlier
  <2> QED
    BY <2>1, <2>2, <2>3
<1>3. GoodDraft(draft) /\ draft.mode = mode
  BY <1>2, EmptyDraftGood
<1>4. CardIsTheDocument
  BY <1>1 DEF CardIsTheDocument, Created, NotSent
<1>5. /\ IsList(documents)
      /\ \A i \in DOMAIN documents :
           \E r \in Reloadable(mode) : documents[i].body = Expanded(r) /\ documents[i].vat.rate \in Nat
  <2>1. CASE documents = <<>>
    BY <2>1 DEF IsList
  <2>2. CASE documents # <<>>
    <3>1. PICK r \in Reloadable(mode) :
            \E d : d.body = Expanded(r) /\ d.vat.rate \in Nat /\ documents = <<d>>
      BY <1>2, <2>2
    <3>2. PICK d : d.body = Expanded(r) /\ d.vat.rate \in Nat /\ documents = <<d>>
      BY <3>1
    <3>3. ToSet(documents) = {d} /\ documents \in Seq({d}) /\ DOMAIN documents = {1} /\ documents[1] = d
      BY <3>2 DEF ToSet
    <3> QED
      BY <3>2, <3>3 DEF IsList
  <2> QED
    BY <2>1, <2>2
<1>6. ASSUME mode = "GUIDED", NEW r \in Reloadable(mode)
      PROVE  GoodBody(Expanded(r)) /\ Expanded(r).mode = "GUIDED"
  <2>1. r \in GuidedRequests /\ Valid(r) /\ r.mode = "GUIDED"
    BY <1>6 DEF Reloadable, GuidedRequests
  <2>2. GoodRequest(r)
    BY <2>1, RequestsGood
  <2> QED
    BY <2>1, <2>2, ExpandedGood, ExpandedAre
<1>7. ASSUME mode = "MANUAL", NEW r \in Reloadable(mode)
      PROVE  Numbers(Expanded(r).rows)
  <2>1. r \in ManualRequests /\ r.mode = "MANUAL"
    BY <1>7 DEF Reloadable, ManualRequests
  <2>2. GoodRequest(r)
    BY <2>1, RequestsGood
  <2>3. Numbers(r.rows) /\ Expanded(r).rows = r.rows
    BY <2>1, <2>2 DEF GoodRequest, Shape, Expanded
  <2> QED
    BY <2>3
<1>8. TablesHold
  BY <1>1, <1>3, <1>5, <1>7 DEF TablesHold
<1> QED
  BY <1>1, <1>3, <1>4, <1>5, <1>6, <1>8 DEF CardInv

\* A step of nothing.
LEMMA CardStutterKeeps ==
  ASSUME CardInv, UNCHANGED <<cardVars, totalsVars>>
  PROVE  CardInv'
<1>1. UNCHANGED <<request, documents, sent, draft>> /\ profile'.rate \in Nat
  BY DEF cardVars, totalsVars, CardInv, TablesHold
<1>2. GoodDraft(draft)'
  BY <1>1 DEF CardInv, GoodDraft
<1> QED
  BY <1>1, <1>2, CardStays

\* Every step of the card keeps its invariant.
LEMMA CardInvNext == CardInv /\ [CardNext]_<<cardVars, totalsVars>> => CardInv'
<1> SUFFICES ASSUME CardInv, [CardNext]_<<cardVars, totalsVars>> PROVE CardInv'
  OBVIOUS
<1>1. CASE EditCompany \/ ConfirmLegalStatus \/ ReloadPage
  BY <1>1, ProfileKeeps
<1>2. CASE \E i \in 1..MaxAnswers : Serve(i) \/ Receive(i) \/ Lose(i)
  BY <1>2, ProfileKeeps
<1>3. CASE \/ TypeBody \/ ToggleReverse
           \/ \E type \in {"DEVIS", "FACTURE"} : SetDocumentType(type)
           \/ \E yes \in {"yes", "no"}, r \in Rates : SetVatChoice([liable |-> yes, rate |-> r])
  BY <1>3, TypingKeeps
<1>4. CASE \/ ResetDeposit \/ \E yes \in BOOLEAN : RequestDeposit(yes)
           \/ \E p \in Habits : SetDepositPercentage(p)
           \/ \E amount \in Overrides : OverrideDeposit(amount) \/ OverrideTotal(amount)
  BY <1>4, AmountsKeep
<1>5. CASE \/ ResetDraft
           \/ \E type \in {"DEVIS", "FACTURE"}, p \in Habits \cup {Unset} : LoadVoiceDraft(type, p)
  BY <1>5, AfreshKeeps
<1>6. CASE Submit
  BY <1>6, SubmitKeeps
<1>7. CASE CreateSent
  BY <1>7, CreateSentKeeps
<1>8. CASE CreateRefused
  BY <1>8, CreateRefusedKeeps
<1>9. CASE \E i \in DOMAIN documents : LoadSource(i) \/ LoadSourceTable(i)
  BY <1>9, LoadSourceKeeps, LoadSourceTableKeeps
<1>10. CASE UNCHANGED <<cardVars, totalsVars>>
  BY <1>10, CardStutterKeeps
<1> QED
  BY <1>1, <1>2, <1>3, <1>4, <1>5, <1>6, <1>7, <1>8, <1>9, <1>10, Zenon DEF CardNext

\* The invariant of the card, for any profiles, bodies and bounds the constants describe.
THEOREM CardInvariant == CardSpec => []CardInv
<1> QED
  BY CardInvInit, CardInvNext, PTL DEF CardSpec

\* The artisan gets the document of the card (buildInvoiceRequest, submit and
\* InvoiceService.create): its subtotal, its VAT and total once the card knew the VAT of
\* the day, and the stated share of them as a deposit.
THEOREM CardAlwaysTheDocument == CardSpec => []CardIsTheDocument
<1>1. CardInv => CardIsTheDocument
  BY DEF CardInv
<1> QED
  BY <1>1, CardInvariant, PTL

\* What RemoveAt leaves of a list.
LEMMA ListRemove ==
  ASSUME NEW s, IsList(s), NEW i \in DOMAIN s
  PROVE  /\ Len(s) \in Nat /\ DOMAIN s = 1..Len(s)
         /\ IsList(RemoveAt(s, i)) /\ Len(RemoveAt(s, i)) = Len(s) - 1
         /\ \A k \in 1..(Len(s) - 1) : RemoveAt(s, i)[k] = IF k < i THEN s[k] ELSE s[k + 1]
<1> DEFINE S == ToSet(s)
           front == SubSeq(s, 1, i - 1)
           back == SubSeq(s, i + 1, Len(s))
           t == front \o back
<1>1. s \in Seq(S)
  BY DEF IsList
<1> HIDE DEF S
<1>2. Len(s) \in Nat /\ DOMAIN s = 1..Len(s) /\ i \in 1..Len(s) /\ i \in Nat
  BY <1>1
<1>3. front \in Seq(S) /\ Len(front) = i - 1 /\ \A k \in 1..(i - 1) : front[k] = s[k]
  BY <1>1, <1>2, SubSeqProperties
<1>4. back \in Seq(S) /\ Len(back) = Len(s) - i /\ \A k \in 1..(Len(s) - i) : back[k] = s[k + i]
  BY <1>1, <1>2, SubSeqProperties
<1>5. RemoveAt(s, i) = t
  BY DEF RemoveAt
<1> HIDE DEF front, back
<1>6. /\ t \in Seq(S) /\ Len(t) = Len(front) + Len(back)
      /\ \A k \in 1..(Len(front) + Len(back)) :
           t[k] = IF k <= Len(front) THEN front[k] ELSE back[k - Len(front)]
  BY <1>3, <1>4, ConcatProperties
<1> HIDE DEF t
<1>7. Len(t) = Len(s) - 1 /\ DOMAIN t = 1..(Len(s) - 1)
  BY <1>2, <1>3, <1>4, <1>6
<1>8. ASSUME NEW k \in 1..(Len(s) - 1) PROVE t[k] = IF k < i THEN s[k] ELSE s[k + 1]
  <2>1. t[k] = IF k < i THEN front[k] ELSE back[k - (i - 1)]
    <3>1. /\ k \in 1..(Len(front) + Len(back)) /\ (k <= Len(front) <=> k < i)
          /\ Len(front) = i - 1
      BY <1>2, <1>3, <1>4
    <3>2. t[k] = IF k <= Len(front) THEN front[k] ELSE back[k - Len(front)]
      BY <1>6, <3>1
    <3> QED
      BY <3>1, <3>2
  <2>2. k < i => front[k] = s[k]
    BY <1>2, <1>3
  <2>3. ~(k < i) => back[k - (i - 1)] = s[k + 1]
    <3>1. ~(k < i) => k - (i - 1) \in 1..(Len(s) - i) /\ (k - (i - 1)) + i = k + 1
      BY <1>2
    <3> QED
      BY <1>4, <3>1
  <2> QED
    BY <2>1, <2>2, <2>3
<1>9. t \in Seq(ToSet(t))
  <2>1. t \in [1..(Len(s) - 1) -> ToSet(t)]
    BY <1>6, <1>7 DEF ToSet
  <2> QED
    BY <1>2, <1>7, <2>1
<1> QED
  BY <1>2, <1>5, <1>7, <1>8, <1>9 DEF IsList

-------------------------------------------------------------------------------
(* The draft of a dictation                                                 *)

\* What is not in doubt is an entry of the catalogue, at one of its prices.
Vouched(name, price, flag) ==
  flag # "" \/ (name # Nobody /\ name \in DOMAIN since /\ price \in since[name])

\* Nor is a customer without a doubt another than one of the company, but for what the
\* language model may leave without an id.
Known(name) == name \in DOMAIN since /\ VoiceRows[name].kind = "customer" /\ since[name] # {}
CustomerVouched(c) ==
  c.flag # "" \/ (IF c.name = Nobody THEN engine = "model" ELSE Known(c.name))
NamedOrInDoubt(c) == c.name # Nobody \/ c.flag # ""

\* The customer on the screen, until the artisan touches it.
CustomerHolds ==
  /\ 1 \in DOMAIN review.draft.customer
  /\ IF NotTouched(<<"customer", 0>>) THEN CustomerVouched(review.draft.customer[1])
     ELSE review.draft.customer[1].flag = ""

\* The lines on the screen, each with its doubt beside it and an identity of its own.
LinesHold(l) ==
  LET lines == review.draft[l]
      flagged == review.flags[l]
  IN /\ IsList(lines) /\ IsList(flagged) /\ Len(flagged) = Len(lines)
     /\ \A i \in DOMAIN lines :
          /\ DOMAIN lines[i] = {"id", "name", "price"} /\ lines[i].id[1] = l
          /\ IF NotTouched(lines[i].id) THEN Vouched(lines[i].name, lines[i].price, flagged[i].flag)
             ELSE flagged[i].flag = ""
     /\ \A i, j \in DOMAIN lines : lines[i].id = lines[j].id => i = j

\* The screen: a dictated rate is applied or in doubt, and both lists hold.
ReviewHolds ==
  /\ DOMAIN review = {"draft", "flags", "deposit"} /\ DOMAIN review.flags = Lists
  /\ DOMAIN review.draft = {"type", "typeFlag", "rate", "depositFlag", "customer", "lines", "serviceLines"}
  /\ review.draft.rate /\ NotTouched(<<"deposit", 0>>)
       => review.deposit = "dictated" \/ review.draft.depositFlag # ""
  /\ CustomerHolds
  /\ \A l \in Lists : LinesHold(l)

\* What the draft knows of its customer while the request is on its way.
CustomerRead ==
  /\ stage = "search" /\ <<"customer", 1, "search">> \notin todo =>
       1 \in DOMAIN rawDraft.customer /\ NamedOrInDoubt(rawDraft.customer[1])
  /\ stage = "again" =>
       /\ 1 \in DOMAIN rawDraft.customer
       /\ IF <<"customer", 1, "entry">> \in todo
            THEN engine = "rules" => NamedOrInDoubt(rawDraft.customer[1])
            ELSE CustomerVouched(rawDraft.customer[1])

\* The inductive invariant of a dictation.
VoiceInv ==
  /\ CustomerRead /\ engine \in {"rules", "model"}
  /\ DOMAIN since = DOMAIN VoiceRows /\ DOMAIN entries \subseteq DOMAIN VoiceRows
  /\ \A n \in DOMAIN entries :
       DOMAIN entries[n] = {"kind", "price", "fixed"} /\ entries[n].kind = VoiceRows[n].kind
  /\ IsDictated(rawDraft)
  /\ \A t \in todo : t[1] \in {"customer", "lines", "serviceLines"}
  /\ stage \in {"read", "search", "again"} => touched = {}
  /\ stage \in {"again", "review"} => \A n \in DOMAIN entries : entries[n].price \in since[n]
  /\ stage = "again" =>
       \A l \in Lists : \A i \in DOMAIN rawDraft[l] :
         \/ <<l, i, "entry">> \in todo
         \/ Vouched(rawDraft[l][i].name, rawDraft[l][i].price, rawDraft[l][i].flag)
  /\ stage = "review" => ReviewHolds

\* An empty draft has the form of one.
LEMMA EmptyDictated == IsDictated(NoDraft)
<1>1. /\ DOMAIN NoDraft = {"type", "typeFlag", "rate", "depositFlag", "customer", "lines", "serviceLines"}
      /\ NoDraft.type = "FACTURE" /\ NoDraft["customer"] = <<>> /\ NoDraft["lines"] = <<>> /\ NoDraft["serviceLines"] = <<>>
  BY DEF NoDraft
<1>2. <<>> \in Seq(ToSet(<<>>)) /\ DOMAIN <<>> = {}
  OBVIOUS
<1> QED
  BY <1>1, <1>2 DEF IsDictated

\* Before the first dictation nothing is claimed.
LEMMA VoiceInvInit == VoiceInit => VoiceInv
<1> SUFFICES ASSUME VoiceInit PROVE VoiceInv
  OBVIOUS
<1>1. /\ stage = "capture" /\ entries = VoiceRows /\ rawDraft = NoDraft /\ todo = {}
      /\ since = [n \in DOMAIN VoiceRows |-> {}] /\ engine = "rules"
  BY DEF VoiceInit
<1>2. IsDictated(NoDraft)
  BY EmptyDictated
<1> QED
  BY <1>1, <1>2, VoiceData DEF VoiceInv, CustomerRead

\* Before the second reading, nothing of the draft is relied on but its form.
LEMMA CaptureKeeps ==
  ASSUME VoiceInv,
         \/ Rejected \/ RequestFails \/ FindCompany \/ StartAgain
         \/ \E d \in Dictations : SubmitDictation(d)
  PROVE  VoiceInv'
<1>1. IsDictated(NoDraft)
  BY EmptyDictated
<1>2. CASE Rejected \/ RequestFails
  <2>1. stage' = "capture" /\ rawDraft' = NoDraft /\ todo' = {} /\ UNCHANGED <<entries, since, engine, touched>>
    BY <1>2 DEF Rejected, RequestFails, BackToCapture
  <2> QED
    BY <1>1, <2>1 DEF VoiceInv, CustomerRead
<1>3. CASE StartAgain
  <2>1. stage' = "capture" /\ UNCHANGED <<rawDraft, todo, entries, since, engine>>
    BY <1>3 DEF StartAgain
  <2> QED
    BY <2>1 DEF VoiceInv, CustomerRead
<1>4. CASE \E d \in Dictations : SubmitDictation(d)
  <2>1. stage' = "read" /\ touched' = {} /\ UNCHANGED <<rawDraft, todo, entries, since, engine>>
    BY <1>4 DEF SubmitDictation
  <2> QED
    BY <2>1 DEF VoiceInv, CustomerRead
<1>5. CASE FindCompany
  <2>1. /\ stage = "read" /\ stage' = "search" /\ UNCHANGED <<entries, since, engine, touched>>
        /\ \E b, c, d : rawDraft' = [NoDraft EXCEPT !.type = DetectDocumentType(spoken).type,
                                                   !.typeFlag = b, !.rate = c, !.depositFlag = d]
    BY <1>5, Zenon DEF FindCompany
  <2>2. todo' = {<<"customer", 1, "search">>}
                  \cup {<<"lines", i, "search">> : i \in ExtractLineCandidates(spoken)}
    BY <1>5 DEF FindCompany
  <2> DEFINE type == DetectDocumentType(spoken).type
  <2>3. type \in {"DEVIS", "FACTURE"}
    BY DEF DetectDocumentType
  <2> HIDE DEF type
  <2>4. PICK b, c, d : rawDraft' = [NoDraft EXCEPT !.type = type, !.typeFlag = b, !.rate = c, !.depositFlag = d]
    BY <2>1, Zenon DEF type
  <2>5. DOMAIN rawDraft' = DOMAIN NoDraft /\ rawDraft'.type = type /\ \A p \in {"customer", "lines", "serviceLines"} : rawDraft'[p] = NoDraft[p]
    BY <2>4 DEF NoDraft
  <2>6. IsDictated(rawDraft')
    BY <1>1, <2>5, <2>3 DEF IsDictated
  <2> QED
    BY <2>1, <2>6, <2>2 DEF VoiceInv, CustomerRead
<1> QED
  BY <1>2, <1>3, <1>4, <1>5

\* A phrase becomes an item of one of the two lists.
LEMMA ResolvedIs ==
  ASSUME NEW heard
  PROVE  /\ ResolveOneLine(heard).list \in Lists
         /\ DOMAIN ResolveOneLine(heard).item = {"name", "price", "flag", "hint"}
BY DEF ResolveOneLine, Lists, Item

\* The customer of a draft is an item as well.
LEMMA CustomerIs ==
  ASSUME NEW d
  PROVE  DOMAIN ResolveCustomer(d) = {"name", "price", "flag", "hint"}
BY DEF ResolveCustomer, Item

\* The rules name a customer of the catalogue or doubt.
LEMMA CustomerNamed ==
  ASSUME VoiceInv, NEW d
  PROVE  NamedOrInDoubt(ResolveCustomer(d))
<1> DEFINE found == SearchFuzzy("customer", ExtractCustomer(d))
           best == PickBestMatch(found)
           top == CHOOSE m \in found : \A n \in found : m.score >= n.score
<1>1. found \subseteq Likeness /\ \A m \in found : m.name # Nobody
  BY VoiceData DEF SearchFuzzy, OfKind, VoiceInv, Nobody
<1>2. ResolveCustomer(d).name = (IF ExtractCustomer(d) = <<>> THEN Nobody ELSE best.picked.name)
  BY DEF ResolveCustomer, Item
<1>3. ResolveCustomer(d).flag = (IF ExtractCustomer(d) = <<>> THEN "no_match" ELSE best.flag)
  BY DEF ResolveCustomer, Item
<1> HIDE DEF found
<1>4. best.flag # "" \/ best.picked.name # Nobody
  <2>1. CASE found = {}
    BY <2>1 DEF PickBestMatch
  <2>2. CASE found # {}
    <3>1. top \in found
      BY <1>1, <2>2, VoiceData
    <3>2. best.flag # "" \/ best.picked = top
      BY <2>2 DEF PickBestMatch
    <3> HIDE DEF top, best
    <3> QED
      BY <1>1, <3>1, <3>2
  <2> QED
    BY <2>1, <2>2
<1> HIDE DEF best
<1> QED
  BY <1>2, <1>3, <1>4 DEF NamedOrInDoubt

\* One list replaced by another in a draft.
LEMMA DictatedWith ==
  ASSUME NEW d, IsDictated(d), NEW place \in {"customer", "lines", "serviceLines"}, NEW items, IsList(items),
         \A i \in DOMAIN items : DOMAIN items[i] = {"name", "price", "flag", "hint"},
         NEW e, e = [d EXCEPT ![place] = items]
  PROVE  IsDictated(e)
<1>1. DOMAIN e = DOMAIN d
  OBVIOUS
<1>2. \A p \in DOMAIN d : e[p] = IF p = place THEN items ELSE d[p]
  OBVIOUS
<1> QED
  BY <1>1, <1>2 DEF IsDictated, IsList

\* One item of a draft replaced by another.
LEMMA ItemReplaced ==
  ASSUME NEW d, IsDictated(d), NEW place \in {"customer", "lines", "serviceLines"}, NEW i, NEW y,
         i \in DOMAIN d[place] =>
           DOMAIN y = {"name", "price", "flag", "hint"},
         NEW e, e = [d EXCEPT ![place][i] = y]
  PROVE  IsDictated(e)
<1> DEFINE items == [d[place] EXCEPT ![i] = y]
<1>1. /\ IsList(d[place]) /\ place \in DOMAIN d
      /\ \A k \in DOMAIN d[place] : DOMAIN d[place][k] = {"name", "price", "flag", "hint"}
  BY DEF IsDictated, IsList
<1>2. IsList(items) /\ \A k \in DOMAIN items : DOMAIN items[k] = {"name", "price", "flag", "hint"}
  <2>1. DOMAIN items = DOMAIN d[place]
    OBVIOUS
  <2>2. d[place] \in Seq(ToSet(d[place]))
    BY <1>1 DEF IsList
  <2>3. \A k \in DOMAIN items : items[k] = IF k = i THEN y ELSE d[place][k]
    OBVIOUS
  <2> DEFINE n == Len(d[place])
  <2>4. n \in Nat /\ DOMAIN items = 1..n
    BY <2>1, <2>2
  <2>5. items = [k \in 1..n |-> items[k]]
    BY <2>4
  <2> HIDE DEF items, n
  <2>6. items \in [1..n -> ToSet(items)]
    BY <2>4, <2>5 DEF ToSet
  <2>7. items \in Seq(ToSet(items))
    BY <2>4, <2>6
  <2> QED
    BY <1>1, <2>1, <2>3, <2>7 DEF IsList
<1>3. e = [d EXCEPT ![place] = items]
  OBVIOUS
<1> HIDE DEF items
<1> QED
  BY <1>2, <1>3, DictatedWith

\* A search adds an item to a list, or names the customer.
LEMMA SearchKeeps ==
  ASSUME VoiceInv, NEW t \in todo, Search(t)
  PROVE  VoiceInv'
<1>1. /\ stage = "search" /\ UNCHANGED <<stage, entries, touched, since, engine>> /\ IsDictated(rawDraft)
      /\ todo' = todo \ {t}
  BY DEF Search, VoiceInv
<1>2. IsDictated(rawDraft')
  <2>1. CASE t[1] = "customer"
    <3> DEFINE items == <<ResolveCustomer(spoken)>>
    <3>1. rawDraft' = [rawDraft EXCEPT !["customer"] = items]
      BY <2>1 DEF Search
    <3>2. IsList(items) /\ \A i \in DOMAIN items : DOMAIN items[i] = {"name", "price", "flag", "hint"}
      BY CustomerIs DEF IsList, ToSet
    <3> HIDE DEF items
    <3> QED
      BY <1>1, <3>1, <3>2, DictatedWith
  <2>2. CASE t[1] # "customer"
    <3> DEFINE hit == ResolveOneLine(Description(spoken, t[2]))
               place == hit.list
               x == hit.item
    <3>1. rawDraft' = [rawDraft EXCEPT ![place] = Append(@, x)]
      BY <2>2 DEF Search
    <3>2. place \in Lists /\ place \in {"customer", "lines", "serviceLines"} /\ DOMAIN x = {"name", "price", "flag", "hint"}
      BY ResolvedIs DEF Lists
    <3> HIDE DEF hit, place, x
    <3>3. /\ IsList(rawDraft[place]) /\ place \in DOMAIN rawDraft
          /\ \A i \in DOMAIN rawDraft[place] : DOMAIN rawDraft[place][i] = {"name", "price", "flag", "hint"}
      BY <1>1, <3>2 DEF IsDictated, IsList, Lists
    <3> DEFINE items == Append(rawDraft[place], x)
    <3>4. IsList(items) /\ \A i \in DOMAIN items : DOMAIN items[i] = {"name", "price", "flag", "hint"}
      <4>1. /\ Len(rawDraft[place]) \in Nat /\ DOMAIN rawDraft[place] = 1..Len(rawDraft[place])
            /\ IsList(items) /\ Len(items) = Len(rawDraft[place]) + 1
            /\ items[Len(rawDraft[place]) + 1] = x
            /\ \A i \in 1..Len(rawDraft[place]) : items[i] = rawDraft[place][i]
        BY <3>3, ListAppend
      <4>2. DOMAIN items = 1..Len(items)
        BY <4>1 DEF IsList
      <4> HIDE DEF items
      <4> QED
        BY <3>2, <3>3, <4>1, <4>2
    <3>5. rawDraft' = [rawDraft EXCEPT ![place] = items]
      BY <3>1
    <3> HIDE DEF items
    <3> QED
      BY <1>1, <3>2, <3>4, <3>5, DictatedWith
  <2> QED
    BY <2>1, <2>2
<1>3. CustomerRead'
  <2>1. CASE t[1] = "customer"
    <3> DEFINE c == ResolveCustomer(spoken)
    <3>1. rawDraft' = [rawDraft EXCEPT !["customer"] = <<c>>] /\ NamedOrInDoubt(c)
      BY <2>1, CustomerNamed DEF Search
    <3> HIDE DEF c
    <3>2. rawDraft'.customer = <<c>>
      BY <1>1, <3>1 DEF IsDictated
    <3>3. 1 \in DOMAIN rawDraft'.customer /\ rawDraft'.customer[1] = c
      BY <3>2
    <3> QED
      BY <1>1, <3>1, <3>3 DEF CustomerRead, NamedOrInDoubt
  <2>2. CASE t[1] # "customer"
    <3> DEFINE hit == ResolveOneLine(Description(spoken, t[2]))
    <3>1. rawDraft' = [rawDraft EXCEPT ![hit.list] = Append(@, hit.item)] /\ hit.list # "customer"
      BY <2>2, ResolvedIs DEF Search, Lists
    <3> HIDE DEF hit
    <3>2. rawDraft'.customer = rawDraft.customer
      BY <1>1, <3>1 DEF IsDictated
    <3>3. <<"customer", 1, "search">> \notin todo' => <<"customer", 1, "search">> \notin todo
      <4>1. <<"customer", 1, "search">>[1] = "customer"
        OBVIOUS
      <4> QED
        BY <1>1, <2>2, <4>1
    <3> QED
      BY <1>1, <3>2, <3>3 DEF VoiceInv, CustomerRead, NamedOrInDoubt
  <2> QED
    BY <2>1, <2>2
<1> QED
  BY <1>1, <1>2, <1>3 DEF VoiceInv

\* The second reading has everything to read again.
LEMMA ValidateKeeps ==
  ASSUME VoiceInv, RulesAnswer \/ ModelAnswers
  PROVE  VoiceInv'
<1>1. PICK d, by : /\ IsDictated(d) /\ ValidateDraft(d, by) /\ touched = {} /\ by \in {"rules", "model"}
                   /\ 1 \in DOMAIN d.customer /\ (by = "rules" => NamedOrInDoubt(d.customer[1]))
  <2>1. CASE RulesAnswer
    <3>1. ValidateDraft(rawDraft, "rules") /\ stage = "search" /\ todo = {}
      BY <2>1 DEF RulesAnswer
    <3> QED
      BY <3>1 DEF VoiceInv, CustomerRead
  <2>2. CASE ModelAnswers
    <3>1. PICK d \in ModelDrafts : ValidateDraft(d, "model")
      BY <2>2 DEF ModelAnswers
    <3>2. IsDictated(d) /\ Len(d.customer) = 1
      BY VoiceData
    <3>3. 1 \in DOMAIN d.customer
      <4>1. d["customer"] \in Seq(ToSet(d["customer"]))
        BY <3>2 DEF IsDictated
      <4> QED
        BY <3>2, <4>1
    <3>4. touched = {}
      BY <2>2 DEF ModelAnswers, VoiceInv
    <3> QED
      BY <3>1, <3>2, <3>3, <3>4
  <2> QED
    BY <2>1, <2>2
<1>2. /\ stage' = "again" /\ rawDraft' = d /\ todo' = ToReadAgain(d) /\ UNCHANGED <<entries, touched>>
      /\ engine' = by
      /\ since' = [n \in DOMAIN since |-> IF n \in DOMAIN entries THEN {entries[n].price} ELSE {}]
  BY <1>1 DEF ValidateDraft
<1>3. /\ \A l \in Lists : \A i \in DOMAIN d[l] : <<l, i, "entry">> \in ToReadAgain(d)
      /\ \A t \in ToReadAgain(d) : t[1] \in {"customer", "lines", "serviceLines"}
      /\ <<"customer", 1, "entry">> \in ToReadAgain(d)
  BY DEF ToReadAgain, Lists
<1>4. /\ DOMAIN since = DOMAIN VoiceRows /\ DOMAIN entries \subseteq DOMAIN VoiceRows
      /\ \A n \in DOMAIN entries :
           DOMAIN entries[n] = {"kind", "price", "fixed"} /\ entries[n].kind = VoiceRows[n].kind
  BY DEF VoiceInv
<1>5. DOMAIN since' = DOMAIN VoiceRows /\ \A n \in DOMAIN entries : entries[n].price \in since'[n]
  BY <1>2, <1>4
<1>6. CustomerRead'
  BY <1>1, <1>2, <1>3 DEF CustomerRead, NamedOrInDoubt
<1> QED
  BY <1>1, <1>2, <1>3, <1>4, <1>5, <1>6 DEF VoiceInv

\* What the second reading leaves without a doubt is in the catalogue at its price.
LEMMA FindKeeps ==
  ASSUME VoiceInv, NEW place \in {"customer", "lines", "serviceLines"}, NEW i, FindByIdOrNull(place, i)
  PROVE  VoiceInv'
<1> DEFINE item == rawDraft[place][i]
           found == OfKind(KindOf[place], item.name)
           vouched == found /\ (place = "serviceLines" => entries[item.name].fixed)
           kept == vouched \/ (item.name = Nobody /\ (item.flag # "" \/ place = "customer"))
           flag == IF kept THEN item.flag ELSE "no_match"
           hint == IF vouched \/ item.name = Nobody THEN item.hint ELSE Nobody
           name == IF found THEN item.name ELSE Nobody
           price == IF vouched THEN PriceFound(item) ELSE item.price
           y == Item(name, price, flag, hint)
<1>1. /\ stage = "again" /\ UNCHANGED <<stage, entries, touched, since, engine>>
      /\ rawDraft' = [rawDraft EXCEPT ![place][i] = y]
      /\ todo' = (todo \ {<<place, i, "entry">>}) \cup (IF hint = Nobody THEN {} ELSE {<<place, i, "hint">>})
  BY DEF FindByIdOrNull
<1>2. DOMAIN y = {"name", "price", "flag", "hint"} /\ y.name = name /\ y.price = price /\ y.flag = flag
  BY DEF Item
<1>3. place \in Lists => Vouched(name, price, flag)
  <2>1. ASSUME place \in Lists, vouched PROVE name # Nobody /\ name \in DOMAIN since /\ price \in since[name]
    <3>1. item.name \in DOMAIN entries /\ name = item.name /\ price = entries[item.name].price
      BY <2>1 DEF OfKind, PriceFound
    <3> HIDE DEF item
    <3> QED
      BY <1>1, <3>1, VoiceData DEF VoiceInv, Nobody
  <2>2. ASSUME place \in Lists, ~vouched PROVE flag # ""
    BY <2>2 DEF Lists
  <2> QED
    BY <2>1, <2>2 DEF Vouched
<1>8. place = "customer" /\ (engine = "rules" => NamedOrInDoubt(item)) =>
        flag # "" \/ (IF name = Nobody THEN engine = "model" ELSE Known(name))
  <2> SUFFICES ASSUME place = "customer", engine = "rules" => NamedOrInDoubt(item), flag = ""
               PROVE  IF name = Nobody THEN engine = "model" ELSE Known(name)
    OBVIOUS
  <2>1. CASE found
    <3>1. item.name \in DOMAIN entries /\ entries[item.name].kind = "customer" /\ name = item.name
      BY <2>1 DEF OfKind, KindOf
    <3> HIDE DEF item
    <3>2. /\ item.name # Nobody /\ item.name \in DOMAIN since /\ VoiceRows[item.name].kind = "customer"
          /\ entries[item.name].price \in since[item.name]
      BY <1>1, <3>1, VoiceData DEF VoiceInv, Nobody
    <3> QED
      BY <3>1, <3>2 DEF Known
  <2>2. CASE ~found
    <3>1. kept
      OBVIOUS
    <3>2. item.name = Nobody /\ item.flag = "" /\ name = Nobody
      BY <2>2, <3>1
    <3> HIDE DEF item
    <3> QED
      BY <3>2 DEF NamedOrInDoubt, VoiceInv
  <2> QED
    BY <2>1, <2>2
<1> HIDE DEF name, price, flag, y, item, hint
<1>4. IsDictated(rawDraft)
  BY DEF VoiceInv
<1>5. IsDictated(rawDraft')
  BY <1>1, <1>2, <1>4, ItemReplaced
<1>6. ASSUME NEW l \in Lists, NEW k \in DOMAIN rawDraft'[l]
      PROVE  <<l, k, "entry">> \in todo' \/ Vouched(rawDraft'[l][k].name, rawDraft'[l][k].price, rawDraft'[l][k].flag)
  <2>1. l \in DOMAIN rawDraft
    BY <1>4 DEF IsDictated, Lists
  <2>2. CASE l = place /\ k = i
    <3>1. rawDraft'[l][k] = y
      BY <1>1, <1>6, <2>1, <2>2
    <3> QED
      BY <1>2, <1>3, <2>2, <3>1
  <2>3. CASE ~(l = place /\ k = i)
    <3>1. k \in DOMAIN rawDraft[l] /\ rawDraft'[l][k] = rawDraft[l][k]
      BY <1>1, <1>6, <2>1, <2>3
    <3>2. <<l, k, "entry">> \in todo => <<l, k, "entry">> \in todo'
      BY <1>1, <2>3
    <3>3. \/ <<l, k, "entry">> \in todo
          \/ Vouched(rawDraft[l][k].name, rawDraft[l][k].price, rawDraft[l][k].flag)
      BY <1>1, <3>1 DEF VoiceInv
    <3> QED
      BY <3>1, <3>2, <3>3
  <2> QED
    BY <2>2, <2>3
<1>7. (\A l \in Lists : \A k \in DOMAIN rawDraft[l] :
         <<l, k, "entry">> \in todo \/ Vouched(rawDraft[l][k].name, rawDraft[l][k].price, rawDraft[l][k].flag))'
  BY <1>1, <1>6 DEF Vouched
<1>9. CustomerRead'
  <2>0. "customer" \in DOMAIN rawDraft /\ 1 \in DOMAIN rawDraft["customer"]
    BY <1>1, <1>4 DEF VoiceInv, CustomerRead, IsDictated
  <2>1. 1 \in DOMAIN rawDraft'["customer"]
    BY <1>1, <2>0
  <2>2. CASE place = "customer" /\ i = 1
    <3>1. rawDraft'["customer"][1] = y /\ <<"customer", 1, "entry">> \notin todo'
      <4>1. <<"customer", 1, "entry">> # <<place, i, "hint">>
        OBVIOUS
      <4> QED
        BY <1>1, <2>0, <2>2, <4>1
    <3>2. engine = "rules" => NamedOrInDoubt(item)
      <4>1. <<"customer", 1, "entry">> \in todo
        BY <2>2 DEF FindByIdOrNull
      <4> QED
        BY <1>1, <2>2, <4>1 DEF VoiceInv, CustomerRead, item
    <3>3. CustomerVouched(y)
      BY <1>2, <1>8, <2>2, <3>2, Zenon DEF CustomerVouched
    <3>4. CustomerVouched(rawDraft'["customer"][1])
      BY <3>1, <3>3
    <3>5. CustomerVouched(rawDraft.customer[1])'
      BY <1>1, <3>4, Zenon DEF CustomerVouched, Known
    <3> QED
      BY <1>1, <2>1, <3>1, <3>5 DEF CustomerRead
  <2>3. CASE ~(place = "customer" /\ i = 1)
    <3>1. rawDraft'["customer"][1] = rawDraft["customer"][1]
      BY <1>1, <2>0, <2>3
    <3>2. <<"customer", 1, "entry">> \in todo' <=> <<"customer", 1, "entry">> \in todo
      <4>1. <<"customer", 1, "entry">> # <<place, i, "hint">> /\ <<"customer", 1, "entry">> # <<place, i, "entry">>
        BY <2>3
      <4> QED
        BY <1>1, <4>1
    <3> QED
      BY <1>1, <2>1, <3>1, <3>2 DEF VoiceInv, CustomerRead, CustomerVouched, NamedOrInDoubt, Known
  <2> QED
    BY <2>2, <2>3
<1> QED
  BY <1>1, <1>5, <1>7, <1>9 DEF VoiceInv

\* A suggestion withdrawn leaves the rest of its item.
LEMMA RevalidateKeeps ==
  ASSUME VoiceInv, NEW place \in {"customer", "lines", "serviceLines"}, NEW i, RevalidateSuggestion(place, i)
  PROVE  VoiceInv'
<1> DEFINE y == [rawDraft[place][i] EXCEPT !.hint = Nobody]
<1>1. /\ stage = "again" /\ UNCHANGED <<stage, entries, touched, since, engine>>
      /\ todo' = todo \ {<<place, i, "hint">>}
      /\ rawDraft' = rawDraft \/ rawDraft' = [rawDraft EXCEPT ![place][i].hint = Nobody]
  BY DEF RevalidateSuggestion
<1>2. IsDictated(rawDraft)
  BY DEF VoiceInv
<1>3. \A l, k : <<l, k, "entry">> \in todo <=> <<l, k, "entry">> \in todo'
  BY <1>1
<1>6. ASSUME /\ DOMAIN rawDraft'.customer = DOMAIN rawDraft.customer
             /\ 1 \in DOMAIN rawDraft.customer =>
                  /\ rawDraft'.customer[1].name = rawDraft.customer[1].name
                  /\ rawDraft'.customer[1].flag = rawDraft.customer[1].flag
      PROVE  CustomerRead'
  BY <1>1, <1>3, <1>6 DEF VoiceInv, CustomerRead, CustomerVouched, NamedOrInDoubt, Known
<1>4. CASE rawDraft' = rawDraft
  BY <1>1, <1>3, <1>4, <1>6 DEF VoiceInv, Vouched
<1>5. CASE rawDraft' = [rawDraft EXCEPT ![place][i].hint = Nobody]
  <2>1. rawDraft' = [rawDraft EXCEPT ![place][i] = y]
    BY <1>5
  <2>2. i \in DOMAIN rawDraft[place] =>
          /\ DOMAIN y = {"name", "price", "flag", "hint"}
          /\ y.name = rawDraft[place][i].name /\ y.price = rawDraft[place][i].price
          /\ y.flag = rawDraft[place][i].flag
    BY <1>2 DEF IsDictated
  <2> HIDE DEF y
  <2>3. IsDictated(rawDraft')
    BY <1>2, <2>1, <2>2, ItemReplaced
  <2>4. ASSUME NEW l \in Lists, NEW k \in DOMAIN rawDraft'[l]
        PROVE  /\ k \in DOMAIN rawDraft[l] /\ rawDraft'[l][k].name = rawDraft[l][k].name
               /\ rawDraft'[l][k].price = rawDraft[l][k].price /\ rawDraft'[l][k].flag = rawDraft[l][k].flag
    <3>1. l \in DOMAIN rawDraft /\ l \in {"customer", "lines", "serviceLines"}
      BY <1>2 DEF IsDictated, Lists
    <3>2. k \in DOMAIN rawDraft[l]
      BY <2>1, <2>4, <3>1
    <3>3. CASE l = place /\ k = i
      BY <2>1, <2>2, <3>1, <3>2, <3>3
    <3>4. CASE ~(l = place /\ k = i)
      BY <2>1, <3>1, <3>2, <3>4
    <3> QED
      BY <3>2, <3>3, <3>4
  <2>5. ASSUME NEW l \in Lists, NEW k \in DOMAIN rawDraft'[l]
        PROVE  \/ <<l, k, "entry">> \in todo'
               \/ Vouched(rawDraft[l][k].name, rawDraft[l][k].price, rawDraft[l][k].flag)
    <3>1. k \in DOMAIN rawDraft[l]
      BY <2>4
    <3>2. \/ <<l, k, "entry">> \in todo
          \/ Vouched(rawDraft[l][k].name, rawDraft[l][k].price, rawDraft[l][k].flag)
      BY <1>1, <3>1 DEF VoiceInv
    <3> QED
      BY <1>3, <3>2
  <2>6. ASSUME NEW l \in Lists, NEW k \in DOMAIN rawDraft'[l]
        PROVE  \/ <<l, k, "entry">> \in todo'
               \/ Vouched(rawDraft'[l][k].name, rawDraft'[l][k].price, rawDraft'[l][k].flag)
    BY <2>4, <2>5, Zenon
  <2>7. (\A l \in Lists : \A k \in DOMAIN rawDraft[l] :
           <<l, k, "entry">> \in todo \/ Vouched(rawDraft[l][k].name, rawDraft[l][k].price, rawDraft[l][k].flag))'
    BY <1>1, <2>6 DEF Vouched
  <2>8. CustomerRead'
    <3>1. "customer" \in DOMAIN rawDraft
      BY <1>2 DEF IsDictated
    <3>2. DOMAIN rawDraft'["customer"] = DOMAIN rawDraft["customer"]
      BY <2>1, <3>1
    <3>3. ASSUME 1 \in DOMAIN rawDraft["customer"]
          PROVE  /\ rawDraft'["customer"][1].name = rawDraft["customer"][1].name
                 /\ rawDraft'["customer"][1].flag = rawDraft["customer"][1].flag
      <4>1. CASE place = "customer" /\ i = 1
        BY <2>1, <2>2, <3>1, <3>3, <4>1
      <4>2. CASE ~(place = "customer" /\ i = 1)
        BY <2>1, <3>1, <3>3, <4>2
      <4> QED
        BY <4>1, <4>2
    <3> QED
      BY <1>6, <3>2, <3>3
  <2> QED
    BY <1>1, <2>3, <2>7, <2>8 DEF VoiceInv
<1> QED
  BY <1>1, <1>4, <1>5

\* The draft goes to the screen with its doubts.
LEMMA LoadKeeps ==
  ASSUME VoiceInv, LoadFromVoiceDraft
  PROVE  VoiceInv'
<1> DEFINE applied == rawDraft.type = "FACTURE" /\ rawDraft.rate
           named(l) == [i \in DOMAIN rawDraft[l] |-> [id |-> <<l, i>>, name |-> rawDraft[l][i].name,
                                                      price |-> rawDraft[l][i].price]]
           doubts(l) == [i \in DOMAIN rawDraft[l] |-> [flag |-> rawDraft[l][i].flag, hint |-> rawDraft[l][i].hint]]
           conflict == IF rawDraft.rate /\ rawDraft.type = "DEVIS"
                         THEN "document_type_conflict" ELSE rawDraft.depositFlag
           d == [rawDraft EXCEPT !.lines = named("lines"), !.serviceLines = named("serviceLines"),
                                 !.depositFlag = conflict]
<1>1. /\ stage = "again" /\ todo = {} /\ stage' = "review" /\ rawDraft' = NoDraft
      /\ UNCHANGED <<todo, entries, touched, since, engine>>
      /\ review' = [draft |-> d, flags |-> [l \in Lists |-> doubts(l)],
                    deposit |-> IF applied THEN "dictated" ELSE Habit]
  BY DEF LoadFromVoiceDraft
<1>2. IsDictated(rawDraft) /\ touched = {}
  BY <1>1 DEF VoiceInv
<1>3. /\ DOMAIN d = {"type", "typeFlag", "rate", "depositFlag", "customer", "lines", "serviceLines"}
      /\ d.depositFlag = conflict /\ d.rate = rawDraft.rate /\ d.customer = rawDraft.customer
      /\ \A l \in Lists : d[l] = named(l)
  BY <1>2 DEF IsDictated, Lists
<1>4. /\ DOMAIN review' = {"draft", "flags", "deposit"} /\ review'.draft = d
      /\ DOMAIN review'.flags = Lists /\ \A l \in Lists : review'.flags[l] = doubts(l)
      /\ review'.deposit = IF applied THEN "dictated" ELSE Habit
  BY <1>1
<1> HIDE DEF d
<1>5. ASSUME NEW l \in Lists PROVE LinesHold(l)'
  <2> DEFINE n == Len(rawDraft[l])
             lines == named(l)
             flagged == doubts(l)
  <2>1. rawDraft[l] \in Seq(ToSet(rawDraft[l]))
    BY <1>2 DEF IsDictated, Lists
  <2>2. n \in Nat /\ DOMAIN rawDraft[l] = 1..n
    BY <2>1
  <2> HIDE DEF n
  <2>3. /\ DOMAIN lines = 1..n /\ DOMAIN flagged = 1..n
        /\ lines \in Seq(ToSet(lines)) /\ flagged \in Seq(ToSet(flagged))
    <3>1. DOMAIN lines = 1..n /\ DOMAIN flagged = 1..n
      BY <2>2
    <3>2. lines = [i \in 1..n |-> lines[i]] /\ flagged = [i \in 1..n |-> flagged[i]]
      BY <3>1
    <3> HIDE DEF lines, flagged
    <3>3. lines \in [1..n -> ToSet(lines)] /\ flagged \in [1..n -> ToSet(flagged)]
      BY <3>1, <3>2 DEF ToSet
    <3> QED
      BY <2>2, <3>1, <3>3
  <2>4. \A i \in 1..n : /\ DOMAIN lines[i] = {"id", "name", "price"} /\ lines[i].id = <<l, i>>
                        /\ lines[i].name = rawDraft[l][i].name /\ lines[i].price = rawDraft[l][i].price
                        /\ flagged[i].flag = rawDraft[l][i].flag
    BY <2>2
  <2>5. \A i \in 1..n : Vouched(rawDraft[l][i].name, rawDraft[l][i].price, rawDraft[l][i].flag)
    BY <1>1, <2>2 DEF VoiceInv
  <2>6. review'.draft[l] = lines /\ review'.flags[l] = flagged
    BY <1>3, <1>4
  <2> HIDE DEF lines, flagged
  <2>7. Len(lines) = n /\ Len(flagged) = n
    BY <2>2, <2>3
  <2>8. \A i \in 1..n :
          \/ flagged[i].flag # ""
          \/ /\ lines[i].name # Nobody /\ lines[i].name \in DOMAIN since'
             /\ lines[i].price \in since'[lines[i].name]
    BY <1>1, <2>4, <2>5 DEF Vouched
  <2>9. IsList(lines) /\ IsList(flagged)
    BY <2>3 DEF IsList
  <2>10. \A i, j \in 1..n : lines[i].id = lines[j].id => i = j
    <3>1. ASSUME NEW i \in 1..n, NEW j \in 1..n, lines[i].id = lines[j].id PROVE i = j
      <4>1. <<l, i>> = <<l, j>>
        BY <2>4, <3>1
      <4> QED
        BY <4>1
    <3> QED
      BY <3>1
  <2>11. \A i \in 1..n : lines[i].id[1] = l /\ lines[i].id \notin touched'
    BY <1>1, <1>2, <2>4
  <2> QED
    BY <2>3, <2>4, <2>6, <2>7, <2>8, <2>9, <2>10, <2>11 DEF LinesHold, NotTouched, Vouched
<1>6. IsDictated(rawDraft')
  BY <1>1, EmptyDictated
<1>7. ReviewHolds'
  <2>1. review'.draft.rate => review'.deposit = "dictated" \/ review'.draft.depositFlag # ""
    <3>1. rawDraft.rate => applied \/ conflict # ""
      BY <1>2 DEF IsDictated
    <3> QED
      BY <1>3, <1>4, <3>1
  <2>2. 1 \in DOMAIN rawDraft.customer /\ CustomerVouched(rawDraft.customer[1])
    BY <1>1 DEF VoiceInv, CustomerRead
  <2>3. CustomerHolds'
    BY <1>1, <1>2, <1>3, <1>4, <2>2 DEF CustomerHolds, CustomerVouched, Known, NotTouched
  <2> QED
    BY <1>3, <1>4, <1>5, <2>1, <2>3 DEF ReviewHolds
<1> QED
  BY <1>1, <1>6, <1>7 DEF VoiceInv, CustomerRead

\* A list nobody touches stays as it holds.
LEMMA LinesStay ==
  ASSUME NEW l, LinesHold(l), review'.draft[l] = review.draft[l], review'.flags[l] = review.flags[l],
         since' = since,
         \A i \in DOMAIN review.draft[l] :
           review.draft[l][i].id \in touched' <=> review.draft[l][i].id \in touched
  PROVE  LinesHold(l)'
BY DEF LinesHold, NotTouched, Vouched

\* So does the customer.
LEMMA CustomerStays ==
  ASSUME CustomerHolds, review'.draft.customer = review.draft.customer, since' = since, engine' = engine,
         <<"customer", 0>> \in touched' <=> <<"customer", 0>> \in touched
  PROVE  CustomerHolds'
BY DEF CustomerHolds, NotTouched, CustomerVouched, Known

\* On the review screen nothing but the draft shown changes.
LEMMA ScreenKeeps ==
  ASSUME VoiceInv, stage = "review", OnScreen, ReviewHolds'
  PROVE  VoiceInv'
BY DEF VoiceInv, OnScreen, CustomerRead

\* A field above the lines.
LEMMA HeaderKeeps ==
  ASSUME VoiceInv,
         \/ \E type \in {"DEVIS", "FACTURE"} : ReviewDocumentType(type)
         \/ \E name : UpdateCustomer(name)
         \/ OnDepositChange
  PROVE  VoiceInv'
<1>1. stage = "review" /\ OnScreen /\ since' = since /\ engine' = engine
  BY DEF ReviewDocumentType, UpdateCustomer, OnDepositChange, OnScreen
<1>2. ReviewHolds
  BY <1>1 DEF VoiceInv
<1>3. /\ DOMAIN review' = DOMAIN review /\ DOMAIN review'.draft = DOMAIN review.draft
      /\ review'.flags = review.flags /\ review'.draft.rate = review.draft.rate
      /\ review'.draft.lines = review.draft.lines /\ review'.draft.serviceLines = review.draft.serviceLines
  <2>1. CASE \E type \in {"DEVIS", "FACTURE"} : ReviewDocumentType(type)
    <3>1. PICK type : review' = [review EXCEPT !.draft.type = type, !.draft.typeFlag = ""]
      BY <2>1, Zenon DEF ReviewDocumentType
    <3>2. DOMAIN review = {"draft", "flags", "deposit"}
          /\ DOMAIN review.draft = {"type", "typeFlag", "rate", "depositFlag", "customer", "lines", "serviceLines"}
      BY <1>2 DEF ReviewHolds
    <3>3. DOMAIN review' = DOMAIN review /\ review'.flags = review.flags
          /\ review'.draft = [review.draft EXCEPT !.type = type, !.typeFlag = ""]
      BY <3>1, <3>2
    <3> QED
      BY <3>2, <3>3
  <2>2. CASE \E name : UpdateCustomer(name)
    BY <1>2, <2>2 DEF UpdateCustomer, ReviewHolds
  <2>3. CASE OnDepositChange
    BY <1>2, <2>3 DEF OnDepositChange, ReviewHolds
  <2> QED
    BY <2>1, <2>2, <2>3
<1>4. touched' = touched \/ touched' = touched \cup {<<"customer", 0>>} \/ touched' = touched \cup {<<"deposit", 0>>}
  BY DEF ReviewDocumentType, UpdateCustomer, OnDepositChange, Touch
<1>5. <<"deposit", 0>> \in touched' \/ (review'.deposit = review.deposit /\ review'.draft.depositFlag = review.draft.depositFlag)
  <2>1. CASE \E type \in {"DEVIS", "FACTURE"} : ReviewDocumentType(type)
    BY <1>2, <2>1 DEF ReviewDocumentType, ReviewHolds
  <2>2. CASE \E name : UpdateCustomer(name)
    BY <1>2, <2>2 DEF UpdateCustomer, ReviewHolds
  <2>3. CASE OnDepositChange
    BY <2>3 DEF OnDepositChange, Touch
  <2> QED
    BY <2>1, <2>2, <2>3
<1>6. ASSUME NEW l \in Lists PROVE LinesHold(l)'
  <2>1. LinesHold(l)
    BY <1>2 DEF ReviewHolds
  <2>2. review'.draft[l] = review.draft[l] /\ review'.flags[l] = review.flags[l]
    BY <1>3 DEF Lists
  <2>3. ASSUME NEW i \in DOMAIN review.draft[l]
        PROVE  review.draft[l][i].id \notin {<<"customer", 0>>, <<"deposit", 0>>}
    <3>1. review.draft[l][i].id[1] = l /\ l \notin {"customer", "deposit"}
      BY <2>1 DEF LinesHold, Lists
    <3>2. <<"customer", 0>>[1] = "customer" /\ <<"deposit", 0>>[1] = "deposit"
      OBVIOUS
    <3> QED
      BY <3>1, <3>2
  <2> QED
    BY <1>1, <1>4, <2>1, <2>2, <2>3, LinesStay
<1>8. CustomerHolds'
  <2>1. CustomerHolds /\ "customer" \in DOMAIN review.draft
    BY <1>2 DEF ReviewHolds
  <2>2. CASE \E name : UpdateCustomer(name)
    <3>1. PICK name : UpdateCustomer(name)
      BY <2>2
    <3>2. /\ review'.draft.customer = [review.draft.customer EXCEPT ![1] = Item(name, @.price, "", Nobody)]
          /\ <<"customer", 0>> \in touched'
      BY <1>2, <3>1 DEF UpdateCustomer, ReviewHolds, Touch
    <3>3. 1 \in DOMAIN review'.draft.customer /\ review'.draft.customer[1].flag = ""
      <4> DEFINE x == Item(name, review.draft.customer[1].price, "", Nobody)
      <4>1. x.flag = ""
        BY DEF Item
      <4>2. review'.draft.customer = [review.draft.customer EXCEPT ![1] = x]
        BY <3>2, Zenon
      <4>3. 1 \in DOMAIN review.draft.customer
        BY <2>1 DEF CustomerHolds
      <4> HIDE DEF x
      <4>4. 1 \in DOMAIN review'.draft.customer /\ review'.draft.customer[1] = x
        BY <4>2, <4>3
      <4> QED
        BY <4>1, <4>4
    <3> QED
      BY <3>2, <3>3 DEF CustomerHolds, NotTouched
  <2>3. CASE (\E type \in {"DEVIS", "FACTURE"} : ReviewDocumentType(type)) \/ OnDepositChange
    <3>1. review'.draft.customer = review.draft.customer
      BY <1>2, <2>3 DEF ReviewDocumentType, OnDepositChange, ReviewHolds
    <3>2. <<"customer", 0>> # <<"deposit", 0>>
      OBVIOUS
    <3>3. touched' = touched \/ touched' = touched \cup {<<"deposit", 0>>}
      BY <2>3 DEF ReviewDocumentType, OnDepositChange, Touch
    <3> QED
      BY <1>1, <2>1, <3>1, <3>2, <3>3, CustomerStays
  <2> QED
    BY <2>2, <2>3
<1>7. ReviewHolds'
  BY <1>2, <1>3, <1>4, <1>5, <1>6, <1>8 DEF ReviewHolds, NotTouched
<1> QED
  BY <1>1, <1>7, ScreenKeeps

\* A line typed over loses its doubt and belongs to the artisan.
LEMMA UpdateLineKeeps ==
  ASSUME VoiceInv, NEW l \in Lists, NEW i, NEW name, UpdateLine(l, i, name)
  PROVE  VoiceInv'
<1> DEFINE old == review.draft[l]
           line == [old[i] EXCEPT !.name = name, !.price = 0]
           lines == [old EXCEPT ![i] = line]
           flagged == [review.flags[l] EXCEPT ![i] = Cleared]
<1>1. /\ stage = "review" /\ OnScreen /\ since' = since /\ engine' = engine /\ i \in DOMAIN old
      /\ touched' = touched \cup {old[i].id}
      /\ review' = [review EXCEPT !.draft[l] = lines, !.flags[l] = flagged]
  BY ZenonT(30) DEF UpdateLine, OnScreen, Touch
<1>2. ReviewHolds
  BY <1>1 DEF VoiceInv
<1>3. l \in DOMAIN review.draft /\ l \in DOMAIN review.flags
  BY <1>2 DEF ReviewHolds, Lists
<1>4. LinesHold(l)
  BY <1>2 DEF ReviewHolds
<1>5. /\ IsList(old) /\ IsList(review.flags[l]) /\ Len(review.flags[l]) = Len(old)
      /\ \A k \in DOMAIN old : DOMAIN old[k] = {"id", "name", "price"} /\ old[k].id[1] = l
      /\ \A j, k \in DOMAIN old : old[j].id = old[k].id => j = k
  BY <1>4 DEF LinesHold
<1> DEFINE n == Len(old)
<1>6. n \in Nat /\ DOMAIN old = 1..n /\ DOMAIN review.flags[l] = 1..n
  BY <1>5 DEF IsList
<1>7. /\ DOMAIN lines = 1..n /\ \A k \in 1..n : lines[k] = IF k = i THEN line ELSE old[k]
      /\ DOMAIN flagged = 1..n
      /\ \A k \in 1..n : flagged[k] = IF k = i THEN Cleared ELSE review.flags[l][k]
  BY <1>6
<1>8. DOMAIN line = {"id", "name", "price"} /\ line.id = old[i].id
  BY <1>1, <1>5
<1>9. /\ DOMAIN review' = DOMAIN review /\ DOMAIN review'.draft = DOMAIN review.draft
      /\ DOMAIN review'.flags = DOMAIN review.flags
      /\ review'.draft[l] = lines /\ review'.flags[l] = flagged
      /\ review'.deposit = review.deposit
      /\ \A k \in DOMAIN review.draft \ {l} : review'.draft[k] = review.draft[k]
      /\ \A k \in Lists \ {l} : review'.flags[k] = review.flags[k]
  <2> HIDE DEF lines, flagged
  <2> QED
    BY <1>1, <1>2, <1>3 DEF ReviewHolds
<1>10. lines \in Seq(ToSet(lines)) /\ flagged \in Seq(ToSet(flagged))
  <2>1. lines = [k \in 1..n |-> lines[k]] /\ flagged = [k \in 1..n |-> flagged[k]]
    BY <1>7
  <2> HIDE DEF lines, flagged, n
  <2>2. lines \in [1..n -> ToSet(lines)] /\ flagged \in [1..n -> ToSet(flagged)]
    BY <1>7, <2>1 DEF ToSet
  <2> QED
    BY <1>6, <2>2
<1> HIDE DEF lines, flagged, line, n
<1>11. Len(lines) = n /\ Len(flagged) = n
  BY <1>6, <1>7, <1>10
<1>12. \A k \in 1..n : /\ DOMAIN lines[k] = {"id", "name", "price"} /\ lines[k].id = old[k].id
  BY <1>5, <1>6, <1>7, <1>8
<1>13. ASSUME NEW k \in 1..n
       PROVE  IF lines[k].id \notin touched'
                THEN \/ flagged[k].flag # ""
                     \/ /\ lines[k].name # Nobody /\ lines[k].name \in DOMAIN since'
                        /\ lines[k].price \in since'[lines[k].name]
                ELSE flagged[k].flag = ""
  <2>1. CASE k = i
    <3>1. lines[k].id = old[i].id
      BY <1>12, <2>1
    <3>2. flagged[k].flag = ""
      <4>1. flagged[k] = Cleared
        BY <1>7, <2>1
      <4>2. Cleared.flag = ""
        BY DEF Cleared
      <4> QED
        BY <4>1, <4>2
    <3> HIDE DEF old
    <3> QED
      BY <1>1, <3>1, <3>2
  <2>2. CASE k # i
    <3>1. lines[k] = old[k] /\ flagged[k] = review.flags[l][k]
      BY <1>7, <2>2
    <3>2. old[k].id # old[i].id
      BY <1>1, <1>5, <1>6, <2>2
    <3>3. IF old[k].id \notin touched THEN Vouched(old[k].name, old[k].price, review.flags[l][k].flag)
          ELSE review.flags[l][k].flag = ""
      BY <1>4, <1>6 DEF LinesHold, NotTouched
    <3> HIDE DEF old
    <3> QED
      BY <1>1, <3>1, <3>2, <3>3 DEF Vouched
  <2> QED
    BY <2>1, <2>2
<1>14. \A j, k \in 1..n : lines[j].id = lines[k].id => j = k
  BY <1>5, <1>6, <1>12
<1>15. LinesHold(l)'
  <2> HIDE DEF old
  <2>1. \A k \in 1..n : lines[k].id[1] = l
    BY <1>5, <1>6, <1>12
  <2> QED
    BY <1>7, <1>9, <1>10, <1>11, <1>12, <1>13, <1>14, <2>1 DEF LinesHold, NotTouched, Vouched, IsList
<1>16. ASSUME NEW m \in Lists, m # l PROVE LinesHold(m)'
  <2>1. LinesHold(m)
    BY <1>2 DEF ReviewHolds
  <2>2. review'.draft[m] = review.draft[m] /\ review'.flags[m] = review.flags[m]
    BY <1>2, <1>9, <1>16 DEF ReviewHolds, Lists
  <2>3. \A k \in DOMAIN review.draft[m] : review.draft[m][k].id # old[i].id
    <3>1. \A k \in DOMAIN review.draft[m] : review.draft[m][k].id[1] = m
      BY <2>1 DEF LinesHold
    <3>2. old[i].id[1] = l
      BY <1>1, <1>5
    <3> HIDE DEF old
    <3> QED
      BY <1>16, <3>1, <3>2
  <2> HIDE DEF old
  <2> QED
    BY <1>1, <2>1, <2>2, <2>3, LinesStay
<1>17. old[i].id # <<"deposit", 0>>
  BY <1>1, <1>5 DEF Lists
<1>18. /\ review'.draft.rate = review.draft.rate /\ review'.draft.depositFlag = review.draft.depositFlag
  BY <1>2, <1>9 DEF ReviewHolds, Lists
<1>19. CustomerHolds'
  <2>1. CustomerHolds /\ review'.draft.customer = review.draft.customer
    BY <1>2, <1>9 DEF ReviewHolds, Lists
  <2>2. old[i].id # <<"customer", 0>>
    BY <1>1, <1>5 DEF Lists
  <2> HIDE DEF old
  <2> QED
    BY <1>1, <2>1, <2>2, CustomerStays
<1>20. ReviewHolds'
  <2> HIDE DEF old
  <2> QED
    BY <1>1, <1>2, <1>9, <1>15, <1>16, <1>17, <1>18, <1>19 DEF ReviewHolds, NotTouched
<1> QED
  BY <1>1, <1>20, ScreenKeeps

\* Removing a line removes its doubt with it, and moves none to another line.
LEMMA RemoveLineKeeps ==
  ASSUME VoiceInv, NEW l \in Lists, NEW i, RemoveLine(l, i)
  PROVE  VoiceInv'
<1> DEFINE old == review.draft[l]
           flags == review.flags[l]
           lines == RemoveAt(old, i)
           flagged == RemoveAt(flags, i)
           n == Len(old)
           at(k) == IF k < i THEN k ELSE k + 1
<1>1. /\ stage = "review" /\ OnScreen /\ since' = since /\ engine' = engine /\ i \in DOMAIN old
      /\ touched' = touched \cup {old[i].id}
      /\ review' = [review EXCEPT !.draft[l] = lines, !.flags[l] = flagged]
  BY DEF RemoveLine, OnScreen, Touch
<1>2. ReviewHolds
  BY <1>1 DEF VoiceInv
<1>3. l \in DOMAIN review.draft /\ l \in DOMAIN review.flags
  BY <1>2 DEF ReviewHolds, Lists
<1>4. LinesHold(l)
  BY <1>2 DEF ReviewHolds
<1>5. /\ IsList(old) /\ IsList(flags) /\ Len(flags) = n
      /\ \A k \in DOMAIN old : DOMAIN old[k] = {"id", "name", "price"} /\ old[k].id[1] = l
      /\ \A j, k \in DOMAIN old : old[j].id = old[k].id => j = k
  BY <1>4 DEF LinesHold
<1>6. n \in Nat /\ DOMAIN old = 1..n /\ DOMAIN flags = 1..n /\ i \in 1..n
  BY <1>1, <1>5 DEF IsList
<1>7. /\ IsList(lines) /\ Len(lines) = n - 1
      /\ \A k \in 1..(n - 1) : lines[k] = IF k < i THEN old[k] ELSE old[k + 1]
  <2>1. i \in DOMAIN old
    BY <1>1
  <2> HIDE DEF old, flags
  <2>2. /\ IsList(RemoveAt(old, i)) /\ Len(RemoveAt(old, i)) = Len(old) - 1
        /\ \A k \in 1..(Len(old) - 1) : RemoveAt(old, i)[k] = IF k < i THEN old[k] ELSE old[k + 1]
    BY <1>5, <2>1, ListRemove
  <2> QED
    BY <2>2
<1>8. /\ IsList(flagged) /\ Len(flagged) = n - 1
      /\ \A k \in 1..(n - 1) : flagged[k] = IF k < i THEN flags[k] ELSE flags[k + 1]
  <2>1. i \in DOMAIN flags
    BY <1>6
  <2>2. IsList(flags) /\ Len(flags) = n
    BY <1>5
  <2> HIDE DEF old, flags, n
  <2>3. /\ IsList(RemoveAt(flags, i)) /\ Len(RemoveAt(flags, i)) = Len(flags) - 1
        /\ \A k \in 1..(Len(flags) - 1) : RemoveAt(flags, i)[k] = IF k < i THEN flags[k] ELSE flags[k + 1]
    BY <2>1, <2>2, ListRemove
  <2> QED
    BY <2>2, <2>3
<1>9. /\ DOMAIN review' = DOMAIN review /\ DOMAIN review'.draft = DOMAIN review.draft
      /\ DOMAIN review'.flags = DOMAIN review.flags
      /\ review'.draft[l] = lines /\ review'.flags[l] = flagged
      /\ review'.deposit = review.deposit
      /\ \A k \in DOMAIN review.draft \ {l} : review'.draft[k] = review.draft[k]
      /\ \A k \in Lists \ {l} : review'.flags[k] = review.flags[k]
  <2> HIDE DEF lines, flagged
  <2> QED
    BY <1>1, <1>2, <1>3 DEF ReviewHolds
<1> HIDE DEF lines, flagged, n
<1>10. /\ \A k \in 1..(n - 1) : /\ at(k) \in 1..n /\ at(k) # i
                                /\ lines[k] = old[at(k)] /\ flagged[k] = flags[at(k)]
       /\ \A j, k \in 1..(n - 1) : at(j) = at(k) => j = k
       /\ DOMAIN lines = 1..(n - 1)
  <2> HIDE DEF old, flags
  <2>1. ASSUME NEW k \in 1..(n - 1)
        PROVE  at(k) \in 1..n /\ at(k) # i /\ lines[k] = old[at(k)] /\ flagged[k] = flags[at(k)]
    <3>1. n \in Nat /\ i \in 1..n /\ k \in Nat
      BY <1>6
    <3>2. CASE k < i
      BY <1>7, <1>8, <3>1, <3>2
    <3>3. CASE ~(k < i)
      BY <1>7, <1>8, <3>1, <3>3
    <3> QED
      BY <3>2, <3>3
  <2>2. ASSUME NEW j \in 1..(n - 1), NEW k \in 1..(n - 1), at(j) = at(k) PROVE j = k
    BY <1>6, <2>2
  <2>3. DOMAIN lines = 1..(n - 1)
    BY <1>7 DEF IsList
  <2> QED
    BY <2>1, <2>2, <2>3
<1> HIDE DEF at
<1>11. ASSUME NEW k \in 1..(n - 1)
       PROVE  /\ lines[k].id # old[i].id /\ lines[k].id[1] = l /\ DOMAIN lines[k] = {"id", "name", "price"}
              /\ IF lines[k].id \notin touched
                   THEN Vouched(lines[k].name, lines[k].price, flagged[k].flag)
                   ELSE flagged[k].flag = ""
  <2>1. at(k) \in 1..n /\ at(k) # i /\ lines[k] = old[at(k)] /\ flagged[k] = flags[at(k)]
    BY <1>10
  <2>2. old[at(k)].id # old[i].id
    BY <1>5, <1>6, <2>1
  <2>3. IF old[at(k)].id \notin touched
          THEN Vouched(old[at(k)].name, old[at(k)].price, flags[at(k)].flag)
          ELSE flags[at(k)].flag = ""
    BY <1>4, <1>6, <2>1 DEF LinesHold, NotTouched
  <2> HIDE DEF old, flags
  <2> QED
    BY <1>5, <1>6, <2>1, <2>2, <2>3
<1>12. \A j, k \in 1..(n - 1) : lines[j].id = lines[k].id => j = k
  <2> HIDE DEF old, flags
  <2> QED
    BY <1>5, <1>6, <1>10
<1>13. LinesHold(l)'
  <2> HIDE DEF old, flags
  <2>1. \A k \in 1..(n - 1) :
          IF lines[k].id \notin touched'
            THEN \/ flagged[k].flag # ""
                 \/ /\ lines[k].name # Nobody /\ lines[k].name \in DOMAIN since'
                    /\ lines[k].price \in since'[lines[k].name]
            ELSE flagged[k].flag = ""
    BY <1>1, <1>11 DEF Vouched
  <2> QED
    BY <1>7, <1>8, <1>9, <1>10, <1>11, <1>12, <2>1 DEF LinesHold, NotTouched, Vouched
<1>14. ASSUME NEW m \in Lists, m # l PROVE LinesHold(m)'
  <2>1. LinesHold(m)
    BY <1>2 DEF ReviewHolds
  <2>2. review'.draft[m] = review.draft[m] /\ review'.flags[m] = review.flags[m]
    BY <1>2, <1>9, <1>14 DEF ReviewHolds, Lists
  <2>3. \A k \in DOMAIN review.draft[m] : review.draft[m][k].id # old[i].id
    <3>1. \A k \in DOMAIN review.draft[m] : review.draft[m][k].id[1] = m
      BY <2>1 DEF LinesHold
    <3>2. old[i].id[1] = l
      BY <1>1, <1>5
    <3> HIDE DEF old
    <3> QED
      BY <1>14, <3>1, <3>2
  <2> HIDE DEF old
  <2> QED
    BY <1>1, <2>1, <2>2, <2>3, LinesStay
<1>15. old[i].id # <<"deposit", 0>>
  BY <1>1, <1>5 DEF Lists
<1>16. /\ review'.draft.rate = review.draft.rate /\ review'.draft.depositFlag = review.draft.depositFlag
  BY <1>2, <1>9 DEF ReviewHolds, Lists
<1>17. CustomerHolds'
  <2>1. CustomerHolds /\ review'.draft.customer = review.draft.customer
    BY <1>2, <1>9 DEF ReviewHolds, Lists
  <2>2. old[i].id # <<"customer", 0>>
    BY <1>1, <1>5 DEF Lists
  <2> HIDE DEF old
  <2> QED
    BY <1>1, <2>1, <2>2, CustomerStays
<1>18. ReviewHolds'
  <2> HIDE DEF old
  <2> QED
    BY <1>1, <1>2, <1>9, <1>13, <1>14, <1>15, <1>16, <1>17 DEF ReviewHolds, NotTouched
<1> QED
  BY <1>1, <1>18, ScreenKeeps

\* What is known of the customer on the way stays, too.
LEMMA ReadStays ==
  ASSUME CustomerRead, UNCHANGED <<stage, rawDraft, todo, since, engine>>
  PROVE  CustomerRead'
BY DEF CustomerRead, CustomerVouched, NamedOrInDoubt, Known

\* A profile that comes late overwrites the deposit, and no line.
LEMMA ProfileArrivesKeeps ==
  ASSUME VoiceInv, ProfileArrives
  PROVE  VoiceInv'
<1>1. UNCHANGED <<stage, rawDraft, todo, entries, since, engine>> /\ CustomerRead'
  <2>1. UNCHANGED <<stage, rawDraft, todo, entries, since, engine>>
    BY DEF ProfileArrives
  <2> QED
    BY <2>1, ReadStays DEF VoiceInv
<1>2. CASE stage # "review"
  <2>1. UNCHANGED <<review, touched>>
    BY <1>2 DEF ProfileArrives
  <2> QED
    BY <1>1, <1>2, <2>1 DEF VoiceInv, Vouched
<1>3. CASE stage = "review"
  <2>1. ReviewHolds
    BY <1>3 DEF VoiceInv
  <2>2. /\ DOMAIN review' = DOMAIN review /\ review'.draft = review.draft /\ review'.flags = review.flags
        /\ touched' = touched \cup {<<"deposit", 0>>}
    BY <1>3, <2>1 DEF ProfileArrives, ReviewHolds
  <2>3. ASSUME NEW l \in Lists PROVE LinesHold(l)'
    <3>1. LinesHold(l)
      BY <2>1 DEF ReviewHolds
    <3>2. ASSUME NEW i \in DOMAIN review.draft[l]
          PROVE  review.draft[l][i].id # <<"deposit", 0>>
      <4>1. review.draft[l][i].id[1] = l /\ l # "deposit"
        BY <3>1 DEF LinesHold, Lists
      <4>2. <<"deposit", 0>>[1] = "deposit"
        OBVIOUS
      <4> QED
        BY <4>1, <4>2
    <3> QED
      BY <1>1, <2>2, <3>1, <3>2, LinesStay
  <2>5. CustomerHolds'
    <3>1. <<"customer", 0>> # <<"deposit", 0>>
      OBVIOUS
    <3> QED
      BY <1>1, <2>1, <2>2, <3>1, CustomerStays DEF ReviewHolds
  <2>4. ReviewHolds'
    BY <2>1, <2>2, <2>3, <2>5 DEF ReviewHolds, NotTouched
  <2> QED
    BY <1>1, <1>3, <2>4 DEF VoiceInv
<1> QED
  BY <1>2, <1>3

\* Another tab: the prices a row had are remembered.
LEMMA CatalogueKeeps ==
  ASSUME VoiceInv, ChangeHabit \/ \E n : ChangeRow(n)
  PROVE  VoiceInv'
<1>1. UNCHANGED <<stage, rawDraft, todo, review, engine, touched>>
  BY DEF ChangeHabit, ChangeRow
<1>2. /\ DOMAIN since = DOMAIN VoiceRows /\ DOMAIN entries \subseteq DOMAIN VoiceRows
      /\ \A n \in DOMAIN entries :
           DOMAIN entries[n] = {"kind", "price", "fixed"} /\ entries[n].kind = VoiceRows[n].kind
  BY DEF VoiceInv
<1>3. /\ DOMAIN since' = DOMAIN since /\ DOMAIN entries' \subseteq DOMAIN entries
      /\ \A m \in DOMAIN since : since[m] \subseteq since'[m]
      /\ \A m \in DOMAIN entries' :
           DOMAIN entries'[m] = {"kind", "price", "fixed"} /\ entries'[m].kind = VoiceRows[m].kind
      /\ stage \in {"again", "review"} => \A m \in DOMAIN entries' : entries'[m].price \in since'[m]
  <2>1. CASE ChangeHabit
    BY <1>2, <2>1 DEF ChangeHabit, VoiceInv
  <2>2. CASE \E n : ChangeRow(n)
    <3>1. PICK n : ChangeRow(n)
      BY <2>2
    <3>2. /\ n \in DOMAIN entries
          /\ \/ entries' = [m \in DOMAIN entries \ {n} |-> entries[m]]
             \/ entries' = [entries EXCEPT ![n].price = @ + 1]
             \/ entries' = [entries EXCEPT ![n].fixed = ~@]
          /\ since' = [m \in DOMAIN since |->
                         since[m] \cup (IF m \in DOMAIN entries' THEN {entries'[m].price} ELSE {})]
      BY <3>1 DEF ChangeRow
    <3>3. DOMAIN entries' \subseteq DOMAIN entries
      BY <3>2
    <3>4. ASSUME NEW m \in DOMAIN entries' 
          PROVE  DOMAIN entries'[m] = {"kind", "price", "fixed"} /\ entries'[m].kind = VoiceRows[m].kind
      BY <1>2, <3>2, <3>3
    <3>5. /\ DOMAIN since' = DOMAIN since
          /\ \A m \in DOMAIN since : since[m] \subseteq since'[m]
          /\ \A m \in DOMAIN entries' : entries'[m].price \in since'[m]
      BY <1>2, <3>2, <3>3
    <3> QED
      BY <3>3, <3>4, <3>5
  <2> QED
    BY <2>1, <2>2
<1>4. ASSUME NEW name, NEW price, NEW flag, Vouched(name, price, flag)
      PROVE  flag # "" \/ (name # Nobody /\ name \in DOMAIN since' /\ price \in since'[name])
  BY <1>3, <1>4 DEF Vouched
<1>7. ASSUME NEW c, CustomerVouched(c)
      PROVE  c.flag # "" \/ (IF c.name = Nobody THEN engine' = "model" ELSE Known(c.name)')
  <2>1. \A n \in DOMAIN since : since[n] # {} => n \in DOMAIN since' /\ since'[n] # {}
    BY <1>3
  <2> QED
    BY <1>1, <1>7, <2>1 DEF CustomerVouched, Known
<1>8. CustomerRead'
  <2> DEFINE c == rawDraft.customer[1]
  <2>1. CustomerVouched(c) => CustomerVouched(c)'
    BY <1>1, <1>7 DEF CustomerVouched
  <2> QED
    BY <1>1, <2>1 DEF VoiceInv, CustomerRead, NamedOrInDoubt
<1>5. stage = "review" => ReviewHolds'
  <2>1. ASSUME stage = "review" PROVE ReviewHolds
    BY <2>1 DEF VoiceInv
  <2>2. ASSUME NEW l \in Lists, LinesHold(l) PROVE LinesHold(l)'
    BY <1>1, <1>4, <2>2 DEF LinesHold, NotTouched, Vouched
  <2>3. ASSUME CustomerHolds PROVE CustomerHolds'
    <3> DEFINE c == review.draft.customer[1]
    <3>1. CustomerVouched(c) => CustomerVouched(c)'
      BY <1>1, <1>7 DEF CustomerVouched
    <3> QED
      BY <1>1, <2>3, <3>1 DEF CustomerHolds, NotTouched
  <2> QED
    BY <1>1, <2>1, <2>2, <2>3 DEF ReviewHolds, NotTouched
<1>6. ASSUME stage = "again", NEW l \in Lists, NEW i \in DOMAIN rawDraft[l], <<l, i, "entry">> \notin todo
      PROVE  LET x == rawDraft[l][i]
             IN x.flag # "" \/ (x.name # Nobody /\ x.name \in DOMAIN since' /\ x.price \in since'[x.name])
  <2>1. Vouched(rawDraft[l][i].name, rawDraft[l][i].price, rawDraft[l][i].flag)
    BY <1>6 DEF VoiceInv
  <2> QED
    BY <1>4, <2>1
<1> QED
  BY <1>1, <1>2, <1>3, <1>5, <1>6, <1>8 DEF VoiceInv, Vouched

\* A step of nothing.
LEMMA VoiceStutterKeeps ==
  ASSUME VoiceInv, UNCHANGED voiceVars
  PROVE  VoiceInv'
<1>1. UNCHANGED <<stage, rawDraft, todo, entries, review, since, engine, touched>>
  BY DEF voiceVars
<1>2. ASSUME NEW l \in Lists, LinesHold(l) PROVE LinesHold(l)'
  BY <1>1, <1>2, LinesStay
<1>3. ASSUME ReviewHolds PROVE ReviewHolds'
  BY <1>1, <1>2, <1>3, CustomerStays DEF ReviewHolds, NotTouched
<1>4. CustomerRead'
  BY <1>1, ReadStays DEF VoiceInv
<1> QED
  BY <1>1, <1>3, <1>4 DEF VoiceInv, Vouched

\* Every step of a dictation keeps its invariant.
LEMMA VoiceInvNext == VoiceInv /\ [VoiceNext]_voiceVars => VoiceInv'
<1> SUFFICES ASSUME VoiceInv, [VoiceNext]_voiceVars PROVE VoiceInv'
  OBVIOUS
<1>1. CASE \/ Rejected \/ RequestFails \/ FindCompany \/ StartAgain
           \/ \E d \in Dictations : SubmitDictation(d)
  BY <1>1, CaptureKeeps
<1>2. CASE RulesAnswer \/ ModelAnswers
  BY <1>2, ValidateKeeps
<1>3. CASE \E t \in todo : Search(t) \/ FindByIdOrNull(t[1], t[2]) \/ RevalidateSuggestion(t[1], t[2])
  <2>1. PICK t \in todo : Search(t) \/ FindByIdOrNull(t[1], t[2]) \/ RevalidateSuggestion(t[1], t[2])
    BY <1>3
  <2>2. t[1] \in {"customer", "lines", "serviceLines"}
    BY DEF VoiceInv
  <2> QED
    BY <2>1, <2>2, SearchKeeps, FindKeeps, RevalidateKeeps
<1>4. CASE LoadFromVoiceDraft
  BY <1>4, LoadKeeps
<1>5. CASE ProfileArrives
  BY <1>5, ProfileArrivesKeeps
<1>6. CASE \/ \E type \in {"DEVIS", "FACTURE"} : ReviewDocumentType(type)
           \/ \E name : UpdateCustomer(name)
           \/ OnDepositChange
  BY <1>6, HeaderKeeps
<1>7. CASE \E l \in Lists : \E i, name : UpdateLine(l, i, name)
  BY <1>7, UpdateLineKeeps
<1>8. CASE \E l \in Lists : \E i : RemoveLine(l, i)
  BY <1>8, RemoveLineKeeps
<1>9. CASE ChangeHabit \/ \E n : ChangeRow(n)
  BY <1>9, CatalogueKeeps
<1>10. CASE UNCHANGED voiceVars
  BY <1>10, VoiceStutterKeeps
<1> QED
  BY <1>1, <1>2, <1>3, <1>4, <1>5, <1>6, <1>7, <1>8, <1>9, <1>10, Zenon DEF VoiceNext

\* What the screen shows without a doubt is vouched for by the invariant.
LEMMA VouchedScreen == VoiceInv => NeverSilentlyWrong
<1> SUFFICES ASSUME VoiceInv, stage = "review" PROVE NeverSilentlyWrong
  BY DEF NeverSilentlyWrong
<1>1. ReviewHolds
  BY DEF VoiceInv
<1> QED
  BY <1>1 DEF ReviewHolds, LinesHold, Vouched, CustomerHolds, CustomerVouched, Known, NeverSilentlyWrong

\* The invariant of a dictation holds in every state, with any catalogue and engine answer.
THEOREM DictationInvariant == VoiceSpec => []VoiceInv
<1> QED
  BY VoiceInvInit, VoiceInvNext, PTL DEF VoiceSpec

\* What the review screen shows without a doubt beside it, untouched, is an entry of the
\* catalogue at a price it had since the second reading began, a customer of the company
\* included unless the language model left it with neither id nor doubt
\* (InvoiceVoiceDraftService, VoiceReviewStore), for any dictation, catalogue and answer
\* of either engine.
THEOREM VoiceNeverSilentlyWrong == VoiceSpec => []NeverSilentlyWrong
<1> QED
  BY VouchedScreen, DictationInvariant, PTL

-------------------------------------------------------------------------------
(* The table of mode manuel                                                 *)

\* The ids of the required columns are their places.
LEMMA FixedIds ==
  /\ Len(Required) = 4 /\ DOMAIN Required = 1..4 /\ Fixed = 1..4
  /\ Required[1] = "DESCRIPTION" /\ Required[2] = "QUANTITY"
  /\ Required[3] = "UNIT_PRICE" /\ Required[4] = "LINE_TOTAL"
  /\ \A k \in 1..4 : FixedId(Required[k]) = k /\ Required[k] # "CUSTOM"
  /\ FixedId("DESCRIPTION") = 1 /\ FixedId("LINE_TOTAL") = 4
<1>1. /\ Len(Required) = 4 /\ DOMAIN Required = 1..4
      /\ Required[1] = "DESCRIPTION" /\ Required[2] = "QUANTITY"
      /\ Required[3] = "UNIT_PRICE" /\ Required[4] = "LINE_TOTAL"
  BY DEF Required
<1>2. Fixed = 1..4
  BY <1>1 DEF Fixed
<1>3. 1..4 = {1, 2, 3, 4}
  OBVIOUS
<1>4. \A j, k \in 1..4 : Required[j] = Required[k] => j = k
  BY <1>1, <1>3
<1>5. ASSUME NEW k \in 1..4 PROVE FixedId(Required[k]) = k
  <2>1. FixedId(Required[k]) \in 1..4 /\ Required[FixedId(Required[k])] = Required[k]
    BY <1>2 DEF FixedId
  <2> QED
    BY <1>4, <2>1
<1>6. \A k \in 1..4 : Required[k] # "CUSTOM"
  BY <1>1, <1>3
<1> QED
  BY <1>1, <1>2, <1>3, <1>5, <1>6

\* A fresh name is above the fixed ids and not in use.
LEMMA FreshIs ==
  ASSUME NEW used, IsFiniteSet(used)
  PROVE  FreshName(used, 1) \in Nat /\ FreshName(used, 1) > 4 /\ FreshName(used, 1) \notin used
<1> DEFINE c == Cardinality(used)
           free == {k \in Nat : k >= 5 /\ k \notin used}
<1>1. c \in Nat
  BY FS_CardinalityType
<1>2. \E k \in 5..(5 + c) : k \notin used
  <2>1. SUFFICES ASSUME 5..(5 + c) \subseteq used PROVE FALSE
    OBVIOUS
  <2>2. Cardinality(5..(5 + c)) <= c
    BY <2>1, FS_Subset
  <2>3. Cardinality(5..(5 + c)) = (5 + c) - 5 + 1
    BY <1>1, FS_Interval
  <2> QED
    BY <1>1, <2>2, <2>3
<1> HIDE DEF c
<1>3. free \in SUBSET Nat /\ free # {}
  BY <1>1, <1>2
<1>4. PICK k \in free : \A m \in free : k <= m
  BY <1>3, LeastNumber
<1>5. k \in 5..(5 + c) /\ k \notin used
  BY <1>1, <1>2, <1>4
<1>6. (5..k) \ used = {k}
  BY <1>4, <1>5
<1>7. Cardinality((5..k) \ used) = 1
  BY <1>6, FS_Singleton
<1>8. Len(Required) = 4
  BY FixedIds
<1>9. \E l \in (Len(Required) + 1)..(Len(Required) + c + 1) :
         l \notin used /\ Cardinality(((Len(Required) + 1)..l) \ used) = 1
  <2>1. k \in (4 + 1)..(4 + c + 1)
    BY <1>1, <1>5
  <2>2. k \notin used /\ Cardinality(((4 + 1)..k) \ used) = 1
    BY <1>5, <1>7
  <2> QED
    BY <1>8, <2>1, <2>2
<1>10. /\ FreshName(used, 1) \in (Len(Required) + 1)..(Len(Required) + c + 1)
       /\ FreshName(used, 1) \notin used
  BY <1>9, Zenon DEF FreshName, c
<1> QED
  BY <1>1, <1>8, <1>10

\* A set of places can be put in order.
LEMMA InOrderIs ==
  ASSUME NEW n \in Nat, NEW S \in SUBSET (1..n)
  PROVE  /\ Cardinality(S) \in Nat
         /\ InOrder(S) \in [1..Cardinality(S) -> S]
         /\ {InOrder(S)[k] : k \in DOMAIN InOrder(S)} = S
         /\ \A j, k \in DOMAIN InOrder(S) : j < k => InOrder(S)[j] < InOrder(S)[k]
<1> DEFINE Ordered(s, T) == /\ s \in [1..Cardinality(T) -> T]
                            /\ {s[k] : k \in DOMAIN s} = T
                            /\ \A j, k \in DOMAIN s : j < k => s[j] < s[k]
           U == {m \in Nat : \E s : Ordered(s, S \cap (1..m))}
<1>1. 0 \in U
  <2>1. S \cap (1..0) = {} /\ Cardinality({}) = 0
    BY FS_EmptySet
  <2>2. Ordered([k \in 1..0 |-> 0], {})
    BY <2>1
  <2> QED
    BY <2>1, <2>2
<1>2. ASSUME NEW m \in Nat, m \in U PROVE m + 1 \in U
  <2> DEFINE T == S \cap (1..m)
             c == Cardinality(T)
  <2>1. PICK s : Ordered(s, T)
    BY <1>2
  <2>2. CASE m + 1 \notin S
    <3>1. S \cap (1..(m + 1)) = T
      BY <2>2
    <3> HIDE DEF T
    <3>2. \E r : Ordered(r, T)
      BY <2>1
    <3> HIDE DEF Ordered
    <3> QED
      <4>1. \E r : Ordered(r, S \cap (1..(m + 1)))
        BY <3>1, <3>2
      <4> QED
        BY <4>1
  <2>3. CASE m + 1 \in S
    <3> DEFINE t == [k \in 1..(c + 1) |-> IF k = c + 1 THEN m + 1 ELSE s[k]]
               T1 == S \cap (1..(m + 1))
    <3>1. T1 = T \cup {m + 1} /\ m + 1 \notin T
      BY <2>3
    <3>2. IsFiniteSet(T)
      <4>1. IsFiniteSet(1..m)
        BY FS_Interval
      <4>2. T \subseteq 1..m
        OBVIOUS
      <4> HIDE DEF T
      <4> QED
        BY <4>1, <4>2, FS_Subset
    <3>3. c \in Nat /\ Cardinality(T1) = c + 1
      BY <3>1, <3>2, FS_CardinalityType, FS_AddElement
    <3> HIDE DEF T, c, T1
    <3>4. T \subseteq 1..m
      BY DEF T
    <3>5. s \in [1..c -> T] /\ {s[k] : k \in DOMAIN s} = T /\ \A j, k \in 1..c : j < k => s[j] < s[k]
      BY <2>1 DEF c
    <3>6. t \in [1..(c + 1) -> T1]
      BY <3>1, <3>3, <3>5
    <3>7. t[c + 1] = m + 1 /\ \A k \in 1..c : t[k] = s[k] /\ s[k] \in T
      BY <3>3, <3>5
    <3>8. DOMAIN t = 1..(c + 1)
      OBVIOUS
    <3> HIDE DEF t
    <3>9. ASSUME NEW x \in T1 PROVE \E k \in 1..(c + 1) : t[k] = x
      BY <3>1, <3>3, <3>5, <3>7
    <3>10. ASSUME NEW j \in 1..(c + 1), NEW k \in 1..(c + 1), j < k PROVE t[j] < t[k]
      <4>1. j \in 1..c /\ t[j] = s[j] /\ s[j] \in 1..m
        <5>1. j \in 1..c
          BY <3>3, <3>10
        <5> QED
          BY <3>4, <3>7, <5>1
      <4>2. CASE k = c + 1
        BY <3>7, <4>1, <4>2
      <4>3. CASE k \in 1..c
        BY <3>5, <3>7, <3>10, <4>1, <4>3
      <4> QED
        BY <3>3, <4>2, <4>3
    <3>11. {t[k] : k \in DOMAIN t} = T1
      BY <3>6, <3>8, <3>9
    <3>12. Ordered(t, T1)
      BY <3>3, <3>6, <3>8, <3>10, <3>11
    <3>13. \E r : Ordered(r, T1)
      BY <3>12
    <3> HIDE DEF Ordered
    <3>14. \E r : Ordered(r, S \cap (1..(m + 1)))
      BY <3>13 DEF T1
    <3> QED
      BY <3>14
  <2> QED
    BY <2>2, <2>3
<1> HIDE DEF U
<1>3. n \in U
  BY <1>1, <1>2, ByInduction
<1>4. S \cap (1..n) = S
  OBVIOUS
<1>5. \E s : Ordered(s, S)
  BY <1>3, <1>4 DEF U
<1>6. Ordered(InOrder(S), S)
  BY <1>5, Zenon DEF InOrder
<1>7. Cardinality(S) \in Nat
  <2>1. IsFiniteSet(1..n)
    BY FS_Interval
  <2>2. IsFiniteSet(S)
    BY <2>1, FS_Subset
  <2> QED
    BY <2>2, FS_CardinalityType
<1> QED
  BY <1>6, <1>7

\* A function over the first places is a list.
LEMMA ListOver ==
  ASSUME NEW n \in Nat, NEW s, DOMAIN s = 1..n, s = [i \in 1..n |-> s[i]]
  PROVE  IsList(s) /\ Len(s) = n
<1>1. s \in [1..n -> ToSet(s)]
  BY DEF ToSet
<1> QED
  BY <1>1 DEF IsList

\* A list is finite, and so is what it holds.
LEMMA ListFinite ==
  ASSUME NEW s, IsList(s)
  PROVE  /\ Len(s) \in Nat /\ DOMAIN s = 1..Len(s) /\ IsFiniteSet(DOMAIN s) /\ IsFiniteSet(ToSet(s))
<1>1. Len(s) \in Nat /\ DOMAIN s = 1..Len(s)
  BY DEF IsList
<1>2. IsFiniteSet(DOMAIN s)
  BY <1>1, FS_Interval
<1>3. ToSet(s) = {s[i] : i \in DOMAIN s}
  BY DEF ToSet
<1>4. IsFiniteSet(ToSet(s))
  BY <1>2, <1>3, FiniteValues
<1> QED
  BY <1>1, <1>2, <1>4

\* No two of a list bear the same mark.
Apart(s) == \A i, j \in DOMAIN s : s[i].mark = s[j].mark => i = j

\* Each required role has its column, under its own mark, and no custom column has one of those.
ColumnsHold(cs) ==
  /\ IsList(cs) /\ Apart(cs)
  /\ \A k \in 1..4 : \E j \in DOMAIN cs : cs[j].role = Required[k]
  /\ \A j \in DOMAIN cs :
       \/ cs[j].role = "CUSTOM" /\ cs[j].mark \notin 1..4
       \/ \E k \in 1..4 : cs[j].role = Required[k] /\ cs[j].mark = k

IdsApart(cs) == \A i, j \in DOMAIN cs : cs[i].id = cs[j].id => i = j

\* The columns of a draft: the description is known by its id.
DraftColumns(cs) ==
  /\ ColumnsHold(cs) /\ IdsApart(cs)
  /\ \A j \in DOMAIN cs : /\ DOMAIN cs[j] = {"id", "role", "mark"}
                          /\ cs[j].role = "DESCRIPTION" => cs[j].id = 1

\* A row of a draft has a cell for each column, with what was typed there.
DraftRowHolds(r, cs) ==
  /\ DOMAIN r = {"mark", "cells"} /\ DOMAIN r.cells = IdsOf(cs)
  /\ \A j \in DOMAIN cs : InPlace(r.cells[cs[j].id], r, cs[j])
RowsHold(rs, cs) ==
  /\ IsList(rs) /\ rs # <<>> /\ Apart(rs)
  /\ \A i \in DOMAIN rs : DraftRowHolds(rs[i], cs)

\* The table on its way: by position.
RequestHolds(t) ==
  /\ t.type \in {"DEVIS", "FACTURE"} /\ ColumnsHold(t.columns)
  /\ IsList(t.rows) /\ Apart(t.rows)
  /\ AlignedTable(t)

\* The table of a document: a cell refers to one column, and that is where it was typed.
TableHolds(t) ==
  /\ t.type \in {"DEVIS", "FACTURE"} /\ ColumnsHold(t.columns) /\ IdsApart(t.columns)
  /\ \A j \in DOMAIN t.columns : /\ DOMAIN t.columns[j] = {"id", "role", "mark"}
                                 /\ t.columns[j].id \notin 1..4
  /\ IsList(t.rows) /\ t.rows # <<>> /\ Apart(t.rows)
  /\ \A i \in DOMAIN t.rows, j \in DOMAIN t.columns : \A c \in t.rows[i].cells :
       c.column = t.columns[j].id => InPlace(c.value, t.rows[i], t.columns[j])

\* The inductive invariant of the table of mode manuel.
TableInv ==
  /\ DraftColumns(columns) /\ RowsHold(rows, columns)
  /\ posted = NoTable \/ RequestHolds(posted)
  /\ IsList(tables) /\ Len(tables) <= MaxTables /\ loading \subseteq DOMAIN tables
  /\ \A i \in DOMAIN tables : TableHolds(tables[i])

\* The ids of a list of columns, by position.
LEMMA IdsOfIs ==
  ASSUME NEW cs
  PROVE  IdsOf(cs) = {cs[j].id : j \in DOMAIN cs}
BY DEF IdsOf, ToSet

\* Nothing is in the wrong place that is blank.
LEMMA BlankInPlace == \A r, c : InPlace(Blank, r, c)
BY DEF InPlace, Blank

\* What is typed in a row and a column is in place there.
LEMMA TypedInPlace == \A r, c, number : InPlace(Typed(r, c, number), r, c)
BY DEF InPlace, Typed

\* A cell that is there is what is read.
LEMMA CellIs ==
  ASSUME NEW cs, NEW r, DraftRowHolds(r, cs), NEW j \in DOMAIN cs
  PROVE  /\ cs[j].id \in DOMAIN r.cells /\ Cell(r, cs[j].id) = r.cells[cs[j].id]
         /\ InPlace(Cell(r, cs[j].id), r, cs[j])
<1>1. cs[j].id \in DOMAIN r.cells /\ Cell(r, cs[j].id) = r.cells[cs[j].id]
  BY IdsOfIs DEF DraftRowHolds, Cell
<1>2. InPlace(r.cells[cs[j].id], r, cs[j])
  BY DEF DraftRowHolds
<1> QED
  BY <1>1, <1>2

\* The columns a draft starts with.
LEMMA FreshColumns ==
  /\ DraftColumns(DefaultColumns) /\ DraftColumns(LegacyColumns)
<1>1. Required[1] = "DESCRIPTION" /\ \A k \in 1..4 : Required[k] = "DESCRIPTION" => k = 1
  <2>1. 1..4 = {1, 2, 3, 4}
    OBVIOUS
  <2> QED
    BY FixedIds, <2>1
<1>2. FirstRow = 5
  BY FixedIds DEF FirstRow
<1>3. ASSUME NEW cs, DOMAIN cs = 1..4, cs = [n \in 1..4 |-> cs[n]],
             \A n \in 1..4 : /\ DOMAIN cs[n] = {"id", "role", "mark"}
                             /\ cs[n].role = Required[n] /\ cs[n].mark = n
                             /\ cs[n].id = n \/ (n = 4 /\ cs[n].id = 5)
      PROVE  DraftColumns(cs)
  <2>1. IsList(cs)
    BY <1>3, ListOver
  <2>2. Apart(cs) /\ IdsApart(cs)
    BY <1>3 DEF Apart, IdsApart
  <2>3. \A k \in 1..4 : \E j \in DOMAIN cs : cs[j].role = Required[k]
    BY <1>3
  <2>4. \A j \in DOMAIN cs : \E k \in 1..4 : cs[j].role = Required[k] /\ cs[j].mark = k
    BY <1>3
  <2>5. ColumnsHold(cs)
    BY <2>1, <2>2, <2>3, <2>4 DEF ColumnsHold
  <2> QED
    BY <1>1, <1>3, <2>2, <2>5 DEF DraftColumns
<1> DEFINE default == [n \in 1..4 |-> [id |-> n, role |-> Required[n], mark |-> n]]
           legacy == [default EXCEPT ![4].id = 5]
<1>4. DefaultColumns = default /\ LegacyColumns = legacy
  BY FixedIds, <1>2 DEF DefaultColumns, LegacyColumns
<1>5. \A n \in 1..4 : default[n] = [id |-> n, role |-> Required[n], mark |-> n]
  OBVIOUS
<1>6. \A n \in 1..4 : /\ DOMAIN default[n] = {"id", "role", "mark"}
                      /\ default[n].role = Required[n] /\ default[n].mark = n /\ default[n].id = n
  BY <1>5
<1>7. DOMAIN default = 1..4 /\ default = [n \in 1..4 |-> default[n]]
  OBVIOUS
<1> HIDE DEF default
<1>8. /\ DOMAIN legacy = 1..4 /\ legacy = [n \in 1..4 |-> legacy[n]]
      /\ \A n \in 1..4 : /\ DOMAIN legacy[n] = {"id", "role", "mark"}
                         /\ legacy[n].role = Required[n] /\ legacy[n].mark = n
                         /\ legacy[n].id = n \/ (n = 4 /\ legacy[n].id = 5)
  BY <1>6, <1>7
<1> HIDE DEF legacy
<1> QED
  BY <1>3, <1>4, <1>6, <1>7, <1>8

\* A row of blanks.
LEMMA EmptyRowHolds ==
  ASSUME NEW cs, NEW mark
  PROVE  DraftRowHolds(EmptyRow(cs, mark), cs) /\ EmptyRow(cs, mark).mark = mark
<1> DEFINE r == EmptyRow(cs, mark)
<1>1. DOMAIN r = {"mark", "cells"} /\ r.mark = mark /\ r.cells = [id \in IdsOf(cs) |-> Blank]
  BY DEF EmptyRow
<1>2. \A j \in DOMAIN cs : r.cells[cs[j].id] = Blank
  BY <1>1, IdsOfIs
<1> HIDE DEF r
<1>3. DraftRowHolds(r, cs)
  BY <1>1, <1>2, BlankInPlace DEF DraftRowHolds
<1> QED
  BY <1>1, <1>3 DEF r

\* The rows a draft starts with.
LEMMA FreshRows ==
  ASSUME NEW cs, NEW mark
  PROVE  RowsHold(<<EmptyRow(cs, mark)>>, cs)
<1> DEFINE r == EmptyRow(cs, mark)
           rs == <<r>>
<1>1. DraftRowHolds(r, cs)
  BY EmptyRowHolds
<1> HIDE DEF r
<1>2. DOMAIN rs = 1..1 /\ rs[1] = r /\ rs # <<>> /\ rs = [i \in 1..1 |-> rs[i]]
  OBVIOUS
<1> HIDE DEF rs
<1>3. IsList(rs)
  BY <1>2, ListOver
<1>4. Apart(rs) /\ \A i \in DOMAIN rs : DraftRowHolds(rs[i], cs)
  BY <1>1, <1>2 DEF Apart
<1>5. RowsHold(rs, cs)
  BY <1>2, <1>3, <1>4 DEF RowsHold
<1> QED
  BY <1>5 DEF rs, r

\* A cell put in its place leaves the row as it holds.
LEMMA PutCellHolds ==
  ASSUME NEW cs, IdsApart(cs), NEW r, DraftRowHolds(r, cs), NEW j \in DOMAIN cs,
         NEW value, InPlace(value, r, cs[j])
  PROVE  LET s == [r EXCEPT !.cells = PutCell(@, cs[j].id, value)]
         IN DraftRowHolds(s, cs) /\ s.mark = r.mark
<1> DEFINE cells == PutCell(r.cells, cs[j].id, value)
           s == [r EXCEPT !.cells = cells]
<1>1. /\ DOMAIN r = {"mark", "cells"} /\ DOMAIN r.cells = IdsOf(cs) /\ cs[j].id \in IdsOf(cs)
  BY IdsOfIs DEF DraftRowHolds
<1>2. /\ DOMAIN cells = IdsOf(cs) /\ cells[cs[j].id] = value
      /\ \A k \in IdsOf(cs) : k # cs[j].id => cells[k] = r.cells[k]
  BY <1>1 DEF PutCell
<1> HIDE DEF cells
<1>3. DOMAIN s = {"mark", "cells"} /\ s.mark = r.mark /\ s.cells = cells
  BY <1>1
<1> HIDE DEF s
<1>4. ASSUME NEW k \in DOMAIN cs PROVE InPlace(s.cells[cs[k].id], s, cs[k])
  <2>1. cs[k].id \in IdsOf(cs) /\ InPlace(r.cells[cs[k].id], r, cs[k])
    BY IdsOfIs DEF DraftRowHolds
  <2>2. CASE k = j
    BY <1>2, <1>3, <2>2 DEF InPlace
  <2>3. CASE k # j
    <3>1. cs[k].id # cs[j].id
      BY <2>3 DEF IdsApart
    <3> QED
      BY <1>2, <1>3, <2>1, <3>1 DEF InPlace
  <2> QED
    BY <2>2, <2>3
<1>5. DraftRowHolds(s, cs) /\ s.mark = r.mark
  BY <1>2, <1>3, <1>4 DEF DraftRowHolds
<1> QED
  BY <1>5 DEF s, cells

\* One row replaced by another of the same mark.
LEMMA RowReplaced ==
  ASSUME NEW cs, NEW rs, RowsHold(rs, cs), NEW i \in DOMAIN rs, NEW r, DraftRowHolds(r, cs), r.mark = rs[i].mark
  PROVE  RowsHold([rs EXCEPT ![i] = r], cs)
<1> DEFINE t == [rs EXCEPT ![i] = r]
<1>1. /\ Len(rs) \in Nat /\ DOMAIN rs = 1..Len(rs)
  BY ListFinite DEF RowsHold
<1>2. DOMAIN t = 1..Len(rs) /\ t = [k \in 1..Len(rs) |-> t[k]]
      /\ \A k \in 1..Len(rs) : t[k] = IF k = i THEN r ELSE rs[k]
  <2>1. rs = [k \in 1..Len(rs) |-> rs[k]]
    BY <1>1 DEF RowsHold, IsList
  <2> QED
    BY <1>1, <2>1
<1> HIDE DEF t
<1>3. IsList(t)
  BY <1>1, <1>2, ListOver
<1>4. t # <<>>
  BY <1>1, <1>2
<1>5. \A k \in 1..Len(rs) : DraftRowHolds(t[k], cs) /\ t[k].mark = rs[k].mark
  BY <1>1, <1>2 DEF RowsHold
<1>6. Apart(t)
  BY <1>1, <1>2, <1>5 DEF RowsHold, Apart
<1>7. RowsHold(t, cs)
  BY <1>2, <1>3, <1>4, <1>5, <1>6 DEF RowsHold
<1> QED
  BY <1>7 DEF t

\* Every row replaced by another of the same mark, for other columns.
LEMMA RowsReplaced ==
  ASSUME NEW cs, NEW ds, NEW rs, RowsHold(rs, cs), NEW t, DOMAIN t = DOMAIN rs,
         t = [i \in DOMAIN rs |-> t[i]],
         \A i \in DOMAIN rs : DraftRowHolds(t[i], ds) /\ t[i].mark = rs[i].mark
  PROVE  RowsHold(t, ds)
<1>1. Len(rs) \in Nat /\ DOMAIN rs = 1..Len(rs)
  BY ListFinite DEF RowsHold
<1>2. IsList(t)
  BY <1>1, ListOver
<1>3. t # <<>>
  <2>1. Len(rs) # 0
    BY <1>1 DEF RowsHold, IsList
  <2> QED
    BY <1>1, <2>1
<1>4. Apart(t)
  BY DEF RowsHold, Apart
<1> QED
  BY <1>2, <1>3, <1>4 DEF RowsHold

\* A column of its own appended.
LEMMA ColumnAdded ==
  ASSUME NEW cs, DraftColumns(cs), NEW c, DOMAIN c = {"id", "role", "mark"}, c.role = "CUSTOM",
         c.mark \notin 1..4, c.id \notin IdsOf(cs), c.mark \notin Marks(cs)
  PROVE  DraftColumns(Append(cs, c))
<1> DEFINE t == Append(cs, c)
           n == Len(cs)
<1>1. /\ n \in Nat /\ DOMAIN cs = 1..n /\ IsList(t) /\ Len(t) = n + 1
      /\ t[n + 1] = c /\ \A i \in 1..n : t[i] = cs[i]
  BY ListAppend DEF DraftColumns, ColumnsHold
<1>2. DOMAIN t = 1..(n + 1)
  BY <1>1 DEF IsList
<1> HIDE DEF t, n
<1>3. \A i \in 1..n : cs[i].id # c.id /\ cs[i].mark # c.mark
  BY <1>1, IdsOfIs DEF Marks, ToSet
<1>4. /\ \A i, j \in 1..n : cs[i].id = cs[j].id => i = j
      /\ \A i, j \in 1..n : cs[i].mark = cs[j].mark => i = j
  BY <1>1 DEF DraftColumns, ColumnsHold, IdsApart, Apart
<1>5. \A i \in 1..(n + 1) : i \in 1..n \/ i = n + 1
  BY <1>1
<1>6. IdsApart(t) /\ Apart(t)
  BY <1>1, <1>2, <1>3, <1>4, <1>5 DEF IdsApart, Apart
<1>7. ASSUME NEW k \in 1..4 PROVE \E j \in DOMAIN t : t[j].role = Required[k]
  <2>1. PICK j \in 1..n : cs[j].role = Required[k]
    BY <1>1 DEF DraftColumns, ColumnsHold
  <2>2. j \in 1..(n + 1) /\ t[j] = cs[j]
    BY <1>1
  <2> QED
    BY <1>2, <2>1, <2>2
<1>8. ASSUME NEW j \in DOMAIN t
      PROVE  /\ \/ t[j].role = "CUSTOM" /\ t[j].mark \notin 1..4
                \/ \E k \in 1..4 : t[j].role = Required[k] /\ t[j].mark = k
             /\ DOMAIN t[j] = {"id", "role", "mark"} /\ (t[j].role = "DESCRIPTION" => t[j].id = 1)
  <2>1. CASE j = n + 1
    BY <1>1, <2>1
  <2>2. CASE j \in 1..n
    <3>1. t[j] = cs[j] /\ j \in DOMAIN cs
      BY <1>1, <2>2
    <3>2. /\ \/ cs[j].role = "CUSTOM" /\ cs[j].mark \notin 1..4
             \/ \E k \in 1..4 : cs[j].role = Required[k] /\ cs[j].mark = k
          /\ DOMAIN cs[j] = {"id", "role", "mark"} /\ (cs[j].role = "DESCRIPTION" => cs[j].id = 1)
      BY <3>1 DEF DraftColumns, ColumnsHold
    <3> QED
      BY <3>1, <3>2
  <2> QED
    BY <1>2, <1>5, <2>1, <2>2
<1>9. DraftColumns(t)
  BY <1>1, <1>6, <1>7, <1>8 DEF DraftColumns, ColumnsHold
<1> QED
  BY <1>9 DEF t

\* A custom column removed.
LEMMA ColumnRemoved ==
  ASSUME NEW cs, DraftColumns(cs), NEW j \in DOMAIN cs, cs[j].role = "CUSTOM"
  PROVE  /\ DraftColumns(RemoveAt(cs, j)) /\ IdsOf(RemoveAt(cs, j)) = IdsOf(cs) \ {cs[j].id}
         /\ \A k \in DOMAIN RemoveAt(cs, j) : \E l \in DOMAIN cs : l # j /\ RemoveAt(cs, j)[k] = cs[l]
<1> DEFINE t == RemoveAt(cs, j)
           n == Len(cs)
           at(k) == IF k < j THEN k ELSE k + 1
<1>1. /\ n \in Nat /\ DOMAIN cs = 1..n /\ IsList(t) /\ Len(t) = n - 1
      /\ \A k \in 1..(n - 1) : t[k] = IF k < j THEN cs[k] ELSE cs[k + 1]
  BY ListRemove DEF DraftColumns, ColumnsHold
<1>2. DOMAIN t = 1..(n - 1)
  BY <1>1 DEF IsList
<1> HIDE DEF t, n
<1>3. /\ j \in 1..n
      /\ \A k \in 1..(n - 1) : at(k) \in 1..n /\ at(k) # j /\ t[k] = cs[at(k)]
      /\ \A k, l \in 1..(n - 1) : at(k) = at(l) => k = l
  <2>1. j \in 1..n
    BY <1>1
  <2>2. ASSUME NEW k \in 1..(n - 1) PROVE at(k) \in 1..n /\ at(k) # j /\ t[k] = cs[at(k)]
    <3>1. CASE k < j
      BY <1>1, <2>1, <3>1
    <3>2. CASE ~(k < j)
      BY <1>1, <2>1, <3>2
    <3> QED
      BY <3>1, <3>2
  <2>3. \A k, l \in 1..(n - 1) : at(k) = at(l) => k = l
    BY <1>1, <2>1
  <2> QED
    BY <2>1, <2>2, <2>3
<1>4. ASSUME NEW l \in 1..n, l # j PROVE \E k \in 1..(n - 1) : t[k] = cs[l]
  <2>1. CASE l < j
    <3>1. l \in 1..(n - 1) /\ at(l) = l
      BY <1>1, <1>3, <2>1
    <3> QED
      BY <1>3, <3>1
  <2>2. CASE ~(l < j)
    <3>1. l - 1 \in 1..(n - 1) /\ at(l - 1) = l
      BY <1>1, <1>3, <1>4, <2>2
    <3> QED
      BY <1>3, <3>1
  <2> QED
    BY <2>1, <2>2
<1> HIDE DEF at
<1>5. /\ \A i, k \in 1..n : cs[i].id = cs[k].id => i = k
      /\ \A i, k \in 1..n : cs[i].mark = cs[k].mark => i = k
  BY <1>1 DEF DraftColumns, ColumnsHold, IdsApart, Apart
<1>6. IdsApart(t) /\ Apart(t)
  BY <1>2, <1>3, <1>5 DEF IdsApart, Apart
<1>7. ASSUME NEW k \in 1..4 PROVE \E i \in DOMAIN t : t[i].role = Required[k]
  <2>1. PICK l \in 1..n : cs[l].role = Required[k]
    BY <1>1 DEF DraftColumns, ColumnsHold
  <2>2. l # j
    BY <2>1, FixedIds
  <2> QED
    BY <1>2, <1>4, <2>1, <2>2
<1>8. ASSUME NEW i \in DOMAIN t
      PROVE  /\ \/ t[i].role = "CUSTOM" /\ t[i].mark \notin 1..4
                \/ \E k \in 1..4 : t[i].role = Required[k] /\ t[i].mark = k
             /\ DOMAIN t[i] = {"id", "role", "mark"} /\ (t[i].role = "DESCRIPTION" => t[i].id = 1)
             /\ \E l \in DOMAIN cs : l # j /\ t[i] = cs[l]
  <2>1. PICK l \in 1..n : l # j /\ t[i] = cs[l]
    BY <1>2, <1>3
  <2> QED
    BY <1>1, <2>1 DEF DraftColumns, ColumnsHold
<1>9. DraftColumns(t)
  BY <1>1, <1>6, <1>7, <1>8 DEF DraftColumns, ColumnsHold
<1>10. IdsOf(t) = IdsOf(cs) \ {cs[j].id}
  <2>1. IdsOf(t) = {t[i].id : i \in 1..(n - 1)} /\ IdsOf(cs) = {cs[l].id : l \in 1..n}
    BY <1>1, <1>2, IdsOfIs
  <2>2. ASSUME NEW x \in IdsOf(t) PROVE x \in IdsOf(cs) \ {cs[j].id}
    <3>1. PICK i \in 1..(n - 1) : x = t[i].id
      BY <2>1
    <3>2. at(i) \in 1..n /\ at(i) # j /\ t[i] = cs[at(i)]
      BY <1>3
    <3> QED
      BY <1>3, <1>5, <2>1, <3>1, <3>2
  <2>3. ASSUME NEW x \in IdsOf(cs), x # cs[j].id PROVE x \in IdsOf(t)
    <3>1. PICK l \in 1..n : x = cs[l].id
      BY <2>1
    <3> QED
      BY <1>4, <2>1, <2>3, <3>1
  <2> QED
    BY <2>2, <2>3
<1> QED
  BY <1>8, <1>9, <1>10 DEF t

\* Editing: the draft is replaced, the documents and the request stay.
LEMMA EditHolds ==
  ASSUME TableInv, NEW cs, NEW rs, EditTable(cs, rs), DraftColumns(cs), RowsHold(rs, cs)
  PROVE  TableInv'
<1>1. columns' = cs /\ rows' = rs /\ UNCHANGED <<loading, posted, tables>>
  BY DEF EditTable
<1> QED
  BY <1>1 DEF TableInv

\* A cell set in its place.
LEMMA SetCellHolds ==
  ASSUME TableInv, NEW i \in DOMAIN rows, NEW j \in DOMAIN columns, NEW value,
         InPlace(value, rows[i], columns[j]), SetCellValue(i, columns[j].id, value)
  PROVE  TableInv'
<1> DEFINE r == [rows[i] EXCEPT !.cells = PutCell(@, columns[j].id, value)]
           changed == [rows EXCEPT ![i].cells = PutCell(@, columns[j].id, value)]
<1>1. EditTable(columns, changed)
  BY DEF SetCellValue
<1>2. changed = [rows EXCEPT ![i] = r]
  OBVIOUS
<1>3. DraftColumns(columns) /\ IdsApart(columns) /\ RowsHold(rows, columns) /\ DraftRowHolds(rows[i], columns)
  BY DEF TableInv, DraftColumns, RowsHold
<1>4. DraftRowHolds(r, columns) /\ r.mark = rows[i].mark
  BY <1>3, PutCellHolds
<1> HIDE DEF r
<1>5. RowsHold([rows EXCEPT ![i] = r], columns)
  BY <1>3, <1>4, RowReplaced
<1> HIDE DEF changed
<1> QED
  BY <1>1, <1>2, <1>3, <1>5, EditHolds

\* What is typed, cleared or filled in goes to the cell of its row and column.
LEMMA CellsKeep ==
  ASSUME TableInv, TypeCell \/ ClearCell \/ AutofillTotal
  PROVE  TableInv'
<1>1. CASE TypeCell
  <2>1. PICK i \in DOMAIN rows, j \in DOMAIN columns, number \in BOOLEAN :
          SetCellValue(i, columns[j].id, Typed(rows[i], columns[j], number))
    BY <1>1, Zenon DEF TypeCell
  <2> QED
    BY <2>1, TypedInPlace, SetCellHolds
<1>2. CASE ClearCell
  <2>1. PICK i \in DOMAIN rows, j \in DOMAIN columns : SetCellValue(i, columns[j].id, Blank)
    BY <1>2, Zenon DEF ClearCell
  <2> QED
    BY <2>1, BlankInPlace, SetCellHolds
<1>3. CASE AutofillTotal
  <2> DEFINE c == CHOOSE c \in ToSet(columns) : c.role = "LINE_TOTAL"
  <2>1. PICK i \in DOMAIN rows, number \in BOOLEAN : SetCellValue(i, c.id, Typed(rows[i], c, number))
    BY <1>3, Zenon DEF AutofillTotal
  <2>2. \E j \in DOMAIN columns : columns[j].role = "LINE_TOTAL"
    BY FixedIds DEF TableInv, DraftColumns, ColumnsHold
  <2>3. c \in ToSet(columns)
    BY <2>2 DEF ToSet
  <2> HIDE DEF c
  <2>4. PICK j \in DOMAIN columns : c = columns[j]
    BY <2>3 DEF ToSet
  <2> QED
    BY <2>1, <2>4, TypedInPlace, SetCellHolds
<1> QED
  BY <1>1, <1>2, <1>3

\* The marks and the ids in use are finitely many.
LEMMA UsedAreFinite ==
  ASSUME TableInv
  PROVE  IsFiniteSet(UsedIds) /\ IsFiniteSet(Marks(rows)) /\ IsFiniteSet(Marks(columns) \cup {v.column : v \in DraftValues})
<1>1. /\ IsFiniteSet(ToSet(columns)) /\ IsFiniteSet(ToSet(rows)) /\ IsFiniteSet(ToSet(tables))
      /\ IsFiniteSet(DOMAIN columns) /\ IsFiniteSet(DOMAIN rows)
  BY ListFinite DEF TableInv, DraftColumns, ColumnsHold, RowsHold
<1>2. \A t \in ToSet(tables) : IsFiniteSet(ToSet(t.columns))
  BY ListFinite DEF TableInv, TableHolds, ColumnsHold, ToSet
<1>3. IsFiniteSet({ToSet(t.columns) : t \in ToSet(tables)})
  <2> DEFINE f == [t \in ToSet(tables) |-> ToSet(t.columns)]
  <2>1. IsFiniteSet(DOMAIN f) /\ {f[x] : x \in DOMAIN f} = {ToSet(t.columns) : t \in ToSet(tables)}
    BY <1>1
  <2> HIDE DEF f
  <2> QED
    BY <2>1, FiniteValues
<1>4. IsFiniteSet(AllColumns)
  <2>1. IsFiniteSet(UNION {ToSet(t.columns) : t \in ToSet(tables)})
    BY <1>2, <1>3, FS_UNION
  <2> QED
    BY <1>1, <2>1, FS_Union DEF AllColumns
<1>5. IsFiniteSet({c.id : c \in AllColumns})
  <2> DEFINE f == [c \in AllColumns |-> c.id]
  <2>1. IsFiniteSet(DOMAIN f) /\ {f[x] : x \in DOMAIN f} = {c.id : c \in AllColumns}
    BY <1>4
  <2> HIDE DEF f
  <2> QED
    BY <2>1, FiniteValues
<1>6. IsFiniteSet(IdsOf(columns))
  <2> DEFINE f == [j \in DOMAIN columns |-> columns[j].id]
  <2>1. IsFiniteSet(DOMAIN f) /\ {f[x] : x \in DOMAIN f} = IdsOf(columns)
    BY <1>1, IdsOfIs
  <2> HIDE DEF f
  <2> QED
    BY <2>1, FiniteValues
<1>7. \A r \in ToSet(rows) : DOMAIN r.cells = IdsOf(columns)
  BY DEF TableInv, RowsHold, DraftRowHolds, ToSet
<1>8. IsFiniteSet(UsedIds)
  <2>1. {DOMAIN r.cells : r \in ToSet(rows)} \subseteq {IdsOf(columns)}
    BY <1>7
  <2>2. UNION {DOMAIN r.cells : r \in ToSet(rows)} \subseteq IdsOf(columns)
    BY <2>1
  <2>3. IsFiniteSet(UNION {DOMAIN r.cells : r \in ToSet(rows)})
    BY <1>6, <2>2, FS_Subset
  <2> QED
    BY <1>5, <2>3, FS_Union DEF UsedIds
<1>9. ASSUME NEW s, IsFiniteSet(ToSet(s)) PROVE IsFiniteSet(Marks(s))
  <2> DEFINE f == [e \in ToSet(s) |-> e.mark]
  <2>1. IsFiniteSet(DOMAIN f) /\ {f[x] : x \in DOMAIN f} = Marks(s)
    BY <1>9 DEF Marks
  <2> HIDE DEF f
  <2> QED
    BY <2>1, FiniteValues
<1>10. IsFiniteSet({v.column : v \in DraftValues})
  <2>1. ASSUME NEW r \in ToSet(rows) PROVE IsFiniteSet({r.cells[id] : id \in DOMAIN r.cells})
    BY <1>6, <1>7, FiniteValues
  <2>2. IsFiniteSet({{r.cells[id] : id \in DOMAIN r.cells} : r \in ToSet(rows)})
    <3> DEFINE f == [r \in ToSet(rows) |-> {r.cells[id] : id \in DOMAIN r.cells}]
    <3>1. IsFiniteSet(DOMAIN f) /\ {f[x] : x \in DOMAIN f} = {{r.cells[id] : id \in DOMAIN r.cells} : r \in ToSet(rows)}
      BY <1>1
    <3> HIDE DEF f
    <3> QED
      BY <3>1, FiniteValues
  <2>3. IsFiniteSet(DraftValues)
    BY <2>1, <2>2, FS_UNION DEF DraftValues
  <2> DEFINE f == [v \in DraftValues |-> v.column]
  <2>4. IsFiniteSet(DOMAIN f) /\ {f[x] : x \in DOMAIN f} = {v.column : v \in DraftValues}
    BY <2>3
  <2> HIDE DEF f
  <2> QED
    BY <2>4, FiniteValues
<1> QED
  BY <1>1, <1>8, <1>9, <1>10, FS_Union

\* A row of blanks, with a mark of its own, at the end.
LEMMA AddRowKeeps ==
  ASSUME TableInv, AddRow
  PROVE  TableInv'
<1> DEFINE r == EmptyRow(columns, FreshRowMark)
           t == Append(rows, r)
           n == Len(rows)
<1>1. EditTable(columns, t)
  BY DEF AddRow
<1>2. DraftRowHolds(r, columns) /\ r.mark \notin Marks(rows)
  <2>1. r.mark = FreshRowMark /\ DraftRowHolds(r, columns)
    BY EmptyRowHolds
  <2> QED
    BY <2>1, UsedAreFinite, FreshIs DEF FreshRowMark
<1>3. DraftColumns(columns) /\ RowsHold(rows, columns) /\ IsList(rows)
  BY DEF TableInv, RowsHold
<1> HIDE DEF r
<1>4. /\ n \in Nat /\ DOMAIN rows = 1..n /\ IsList(t) /\ Len(t) = n + 1
      /\ t[n + 1] = r /\ \A i \in 1..n : t[i] = rows[i]
  BY <1>3, ListAppend
<1>5. DOMAIN t = 1..(n + 1)
  BY <1>4 DEF IsList
<1> HIDE DEF t, n
<1>6. \A i \in 1..(n + 1) : i \in 1..n \/ i = n + 1
  BY <1>4
<1>7. \A i \in 1..n : rows[i].mark # r.mark
  BY <1>2, <1>4 DEF Marks, ToSet
<1>8. Apart(t)
  <2>1. \A i, j \in 1..n : rows[i].mark = rows[j].mark => i = j
    BY <1>3, <1>4 DEF RowsHold, Apart
  <2> QED
    BY <1>4, <1>5, <1>6, <1>7, <2>1 DEF Apart
<1>9. \A i \in 1..(n + 1) : DraftRowHolds(t[i], columns)
  BY <1>2, <1>3, <1>4, <1>6 DEF RowsHold
<1>10. t # <<>>
  BY <1>4, <1>5
<1>11. RowsHold(t, columns)
  BY <1>4, <1>5, <1>8, <1>9, <1>10 DEF RowsHold
<1> QED
  BY <1>1, <1>3, <1>11, EditHolds

\* A row goes with its cells.
LEMMA RemoveRowKeeps ==
  ASSUME TableInv, RemoveRow
  PROVE  TableInv'
<1>1. PICK i \in DOMAIN rows : EditTable(columns, RemoveAt(rows, i))
  BY DEF RemoveRow
<1> DEFINE t == RemoveAt(rows, i)
           n == Len(rows)
           at(k) == IF k < i THEN k ELSE k + 1
<1>2. DraftColumns(columns) /\ RowsHold(rows, columns) /\ IsList(rows) /\ n > 1
  BY DEF TableInv, RowsHold, RemoveRow
<1>3. /\ n \in Nat /\ DOMAIN rows = 1..n /\ IsList(t) /\ Len(t) = n - 1
      /\ \A k \in 1..(n - 1) : t[k] = IF k < i THEN rows[k] ELSE rows[k + 1]
  BY <1>2, ListRemove
<1>4. DOMAIN t = 1..(n - 1)
  BY <1>3 DEF IsList
<1> HIDE DEF t, n
<1>5. /\ \A k \in 1..(n - 1) : at(k) \in 1..n /\ t[k] = rows[at(k)]
      /\ \A k, l \in 1..(n - 1) : at(k) = at(l) => k = l
  <2>1. i \in 1..n
    BY <1>3
  <2>2. ASSUME NEW k \in 1..(n - 1) PROVE at(k) \in 1..n /\ t[k] = rows[at(k)]
    <3>1. CASE k < i
      BY <1>3, <2>1, <3>1
    <3>2. CASE ~(k < i)
      BY <1>3, <2>1, <3>2
    <3> QED
      BY <3>1, <3>2
  <2>3. \A k, l \in 1..(n - 1) : at(k) = at(l) => k = l
    BY <1>3, <2>1
  <2> QED
    BY <2>2, <2>3
<1> HIDE DEF at
<1>6. Apart(t)
  <2>1. \A k, l \in 1..n : rows[k].mark = rows[l].mark => k = l
    BY <1>2, <1>3 DEF RowsHold, Apart
  <2> QED
    BY <1>4, <1>5, <2>1 DEF Apart
<1>7. \A k \in 1..(n - 1) : DraftRowHolds(t[k], columns)
  BY <1>2, <1>3, <1>5 DEF RowsHold
<1>8. t # <<>>
  BY <1>2, <1>3, <1>4
<1>9. RowsHold(t, columns)
  BY <1>3, <1>4, <1>6, <1>7, <1>8 DEF RowsHold
<1> QED
  BY <1>1, <1>2, <1>9, EditHolds DEF t

\* A custom column comes with an id and a mark of its own, and blanks.
LEMMA AddColumnKeeps ==
  ASSUME TableInv, AddCustomColumn
  PROVE  TableInv'
<1> DEFINE id == FreshId
           c == [id |-> id, role |-> "CUSTOM", mark |-> FreshColumnMark]
           cs == Append(columns, c)
           t == [i \in DOMAIN rows |-> [rows[i] EXCEPT !.cells = PutCell(@, id, Blank)]]
           n == Len(columns)
<1>1. EditTable(cs, t)
  BY DEF AddCustomColumn
<1>2. id \notin UsedIds /\ FreshColumnMark \notin Marks(columns) /\ FreshColumnMark \notin 1..4
  <2>1. FreshColumnMark \notin Marks(columns) /\ FreshColumnMark > 4 /\ FreshColumnMark \in Nat
    BY UsedAreFinite, FreshIs DEF FreshColumnMark
  <2> QED
    BY <2>1, UsedAreFinite, FreshIs DEF FreshId
<1>3. id \notin IdsOf(columns)
  BY <1>2 DEF IdsOf, UsedIds, AllColumns
<1>4. /\ DOMAIN c = {"id", "role", "mark"} /\ c.role = "CUSTOM" /\ c.id = id
      /\ c.mark \notin 1..4 /\ c.mark \notin Marks(columns)
  BY <1>2
<1>5. DraftColumns(columns) /\ RowsHold(rows, columns) /\ IsList(columns)
  BY DEF TableInv, DraftColumns, ColumnsHold
<1> HIDE DEF id, c
<1>6. DraftColumns(cs)
  BY <1>3, <1>4, <1>5, ColumnAdded
<1>7. /\ n \in Nat /\ DOMAIN columns = 1..n /\ Len(cs) = n + 1 /\ IsList(cs)
      /\ cs[n + 1] = c /\ \A k \in 1..n : cs[k] = columns[k]
  BY <1>5, ListAppend
<1>8. DOMAIN cs = 1..(n + 1) /\ \A k \in 1..(n + 1) : k \in 1..n \/ k = n + 1
  BY <1>7 DEF IsList
<1> HIDE DEF cs, n
<1>9. IdsOf(cs) = IdsOf(columns) \cup {id}
  <2>1. IdsOf(cs) = {cs[k].id : k \in 1..(n + 1)} /\ IdsOf(columns) = {columns[k].id : k \in 1..n}
    BY <1>7, <1>8, IdsOfIs
  <2>2. \A k \in 1..n : k \in 1..(n + 1) /\ cs[k].id = columns[k].id
    BY <1>7
  <2>3. n + 1 \in 1..(n + 1) /\ cs[n + 1].id = id
    BY <1>4, <1>7
  <2> QED
    BY <1>8, <2>1, <2>2, <2>3
<1>10. ASSUME NEW i \in DOMAIN rows PROVE DraftRowHolds(t[i], cs) /\ t[i].mark = rows[i].mark
  <2> DEFINE r == rows[i]
             cells == PutCell(r.cells, id, Blank)
  <2>1. DraftRowHolds(r, columns)
    BY <1>5 DEF RowsHold
  <2>2. DOMAIN r = {"mark", "cells"} /\ DOMAIN r.cells = IdsOf(columns)
    BY <2>1 DEF DraftRowHolds
  <2>3. t[i] = [r EXCEPT !.cells = cells]
    OBVIOUS
  <2>4. DOMAIN cells = IdsOf(cs) /\ cells[id] = Blank /\ \A k \in IdsOf(columns) : cells[k] = r.cells[k]
    BY <1>3, <1>9, <2>2 DEF PutCell
  <2> HIDE DEF cells, t
  <2>5. DOMAIN t[i] = {"mark", "cells"} /\ t[i].mark = r.mark /\ t[i].cells = cells
    BY <2>2, <2>3
  <2>6. ASSUME NEW k \in DOMAIN cs PROVE InPlace(t[i].cells[cs[k].id], t[i], cs[k])
    <3>1. CASE k = n + 1
      BY <1>4, <1>7, <2>4, <2>5, <3>1, BlankInPlace
    <3>2. CASE k \in 1..n
      <4>1. cs[k] = columns[k] /\ columns[k].id \in IdsOf(columns)
            /\ InPlace(r.cells[columns[k].id], r, columns[k])
        BY <1>7, <2>1, <3>2, IdsOfIs DEF DraftRowHolds
      <4> QED
        BY <2>4, <2>5, <4>1 DEF InPlace
    <3> QED
      BY <1>8, <3>1, <3>2
  <2> QED
    BY <2>4, <2>5, <2>6 DEF DraftRowHolds
<1>11. DOMAIN t = DOMAIN rows /\ t = [i \in DOMAIN rows |-> t[i]]
  OBVIOUS
<1> HIDE DEF t
<1>12. RowsHold(t, cs)
  BY <1>5, <1>10, <1>11, RowsReplaced
<1> QED
  BY <1>1, <1>6, <1>12, EditHolds

\* A custom column goes with its cells.
LEMMA RemoveColumnKeeps ==
  ASSUME TableInv, RemoveColumn
  PROVE  TableInv'
<1>1. PICK j \in DOMAIN columns :
        /\ columns[j].role = "CUSTOM"
        /\ EditTable(RemoveAt(columns, j),
                     [i \in DOMAIN rows |->
                        [rows[i] EXCEPT !.cells = Restrict(@, DOMAIN @ \ {columns[j].id})]])
  BY Zenon DEF RemoveColumn
<1> DEFINE id == columns[j].id
           cs == RemoveAt(columns, j)
           t == [i \in DOMAIN rows |-> [rows[i] EXCEPT !.cells = Restrict(@, DOMAIN @ \ {id})]]
<1>2. DraftColumns(columns) /\ RowsHold(rows, columns)
  BY DEF TableInv
<1>3. /\ DraftColumns(cs) /\ IdsOf(cs) = IdsOf(columns) \ {id}
      /\ \A k \in DOMAIN cs : \E l \in DOMAIN columns : l # j /\ cs[k] = columns[l]
  BY <1>1, <1>2, ColumnRemoved
<1> HIDE DEF cs
<1>4. ASSUME NEW i \in DOMAIN rows PROVE DraftRowHolds(t[i], cs) /\ t[i].mark = rows[i].mark
  <2> DEFINE r == rows[i]
             cells == Restrict(r.cells, DOMAIN r.cells \ {id})
  <2>1. DraftRowHolds(r, columns)
    BY <1>2 DEF RowsHold
  <2>2. DOMAIN r = {"mark", "cells"} /\ DOMAIN r.cells = IdsOf(columns)
    BY <2>1 DEF DraftRowHolds
  <2>3. t[i] = [r EXCEPT !.cells = cells]
    OBVIOUS
  <2>4. DOMAIN cells = IdsOf(cs) /\ \A k \in IdsOf(cs) : cells[k] = r.cells[k]
    BY <1>3, <2>2 DEF Restrict
  <2> HIDE DEF cells, t
  <2>5. DOMAIN t[i] = {"mark", "cells"} /\ t[i].mark = r.mark /\ t[i].cells = cells
    BY <2>2, <2>3
  <2>6. ASSUME NEW k \in DOMAIN cs PROVE InPlace(t[i].cells[cs[k].id], t[i], cs[k])
    <3>1. PICK l \in DOMAIN columns : cs[k] = columns[l]
      BY <1>3
    <3>2. cs[k].id \in IdsOf(cs) /\ InPlace(r.cells[columns[l].id], r, columns[l])
      BY <2>1, IdsOfIs DEF DraftRowHolds
    <3> QED
      BY <2>4, <2>5, <3>1, <3>2 DEF InPlace
  <2> QED
    BY <2>4, <2>5, <2>6 DEF DraftRowHolds
<1>5. DOMAIN t = DOMAIN rows /\ t = [i \in DOMAIN rows |-> t[i]]
  OBVIOUS
<1>6. EditTable(cs, t)
  BY <1>1 DEF cs
<1> HIDE DEF t
<1>7. RowsHold(t, cs)
  BY <1>2, <1>4, <1>5, RowsReplaced
<1> QED
  BY <1>3, <1>6, <1>7, EditHolds

\* A cell per column, the same ones.
LEMMA FormatKeeps ==
  ASSUME TableInv, Format
  PROVE  TableInv'
<1> DEFINE t == [i \in DOMAIN rows |->
                   [rows[i] EXCEPT !.cells = [id \in IdsOf(columns) |-> Cell(rows[i], id)]]]
<1>1. EditTable(columns, t)
  BY DEF Format
<1>2. DraftColumns(columns) /\ RowsHold(rows, columns)
  BY DEF TableInv
<1>3. ASSUME NEW i \in DOMAIN rows PROVE DraftRowHolds(t[i], columns) /\ t[i].mark = rows[i].mark
  <2> DEFINE r == rows[i]
             cells == [id \in IdsOf(columns) |-> Cell(r, id)]
  <2>1. DraftRowHolds(r, columns)
    BY <1>2 DEF RowsHold
  <2>2. DOMAIN r = {"mark", "cells"} /\ t[i] = [r EXCEPT !.cells = cells]
    BY <2>1 DEF DraftRowHolds
  <2>3. DOMAIN cells = IdsOf(columns) /\ \A id \in IdsOf(columns) : cells[id] = Cell(r, id)
    OBVIOUS
  <2> HIDE DEF cells, t
  <2>4. DOMAIN t[i] = {"mark", "cells"} /\ t[i].mark = r.mark /\ t[i].cells = cells
    BY <2>2
  <2>5. ASSUME NEW k \in DOMAIN columns PROVE InPlace(t[i].cells[columns[k].id], t[i], columns[k])
    <3>1. columns[k].id \in IdsOf(columns) /\ InPlace(r.cells[columns[k].id], r, columns[k])
      BY <2>1, IdsOfIs DEF DraftRowHolds
    <3>2. Cell(r, columns[k].id) = r.cells[columns[k].id]
      BY <2>1, CellIs
    <3> QED
      BY <2>3, <2>4, <3>1, <3>2 DEF InPlace
  <2> QED
    BY <2>3, <2>4, <2>5 DEF DraftRowHolds
<1>4. DOMAIN t = DOMAIN rows /\ t = [i \in DOMAIN rows |-> t[i]]
  OBVIOUS
<1> HIDE DEF t
<1>5. RowsHold(t, columns)
  BY <1>2, <1>3, <1>4, RowsReplaced
<1> QED
  BY <1>1, <1>2, <1>5, EditHolds

\* The table a draft starts with.
LEMMA FreshTableHolds ==
  ASSUME FreshTable
  PROVE  (DraftColumns(columns) /\ RowsHold(rows, columns))'
<1>1. columns' = DefaultColumns /\ rows' = <<EmptyRow(DefaultColumns, FirstRow)>>
  BY DEF FreshTable
<1>2. RowsHold(<<EmptyRow(DefaultColumns, FirstRow)>>, DefaultColumns)
  BY FreshRows
<1>3. DraftColumns(DefaultColumns)
  BY FreshColumns
<1> QED
  BY <1>1, <1>2, <1>3

\* Columns given other ids keep their roles and marks.
LEMMA ColumnsKept ==
  ASSUME NEW cs, ColumnsHold(cs), NEW t, DOMAIN t = DOMAIN cs, t = [j \in DOMAIN cs |-> t[j]],
         \A j \in DOMAIN cs : t[j].role = cs[j].role /\ t[j].mark = cs[j].mark
  PROVE  ColumnsHold(t)
<1>1. Len(cs) \in Nat /\ DOMAIN cs = 1..Len(cs)
  BY ListFinite DEF ColumnsHold
<1>2. IsList(t)
  BY <1>1, ListOver
<1>3. Apart(t)
  BY DEF ColumnsHold, Apart
<1>4. \A k \in 1..4 : \E j \in DOMAIN t : t[j].role = Required[k]
  BY DEF ColumnsHold
<1>5. \A j \in DOMAIN t : \/ t[j].role = "CUSTOM" /\ t[j].mark \notin 1..4
                          \/ \E k \in 1..4 : t[j].role = Required[k] /\ t[j].mark = k
  BY DEF ColumnsHold
<1> QED
  BY <1>2, <1>3, <1>4, <1>5 DEF ColumnsHold

\* Rows with other cells keep their marks.
LEMMA RowsKept ==
  ASSUME NEW rs, IsList(rs), Apart(rs), NEW t, DOMAIN t = DOMAIN rs, t = [i \in DOMAIN rs |-> t[i]],
         \A i \in DOMAIN rs : t[i].mark = rs[i].mark
  PROVE  IsList(t) /\ Apart(t) /\ (rs # <<>> => t # <<>>)
<1>1. Len(rs) \in Nat /\ DOMAIN rs = 1..Len(rs)
  BY ListFinite
<1>2. IsList(t)
  BY <1>1, ListOver
<1>3. Apart(t)
  BY DEF Apart
<1>4. rs # <<>> => t # <<>>
  <2>1. rs # <<>> => Len(rs) # 0
    BY <1>1 DEF IsList
  <2> QED
    BY <1>1, <2>1
<1> QED
  BY <1>2, <1>3, <1>4

\* The description of a row is in the column of that mark.
LEMMA DescribedIs ==
  ASSUME NEW cs, DraftColumns(cs), NEW r, DraftRowHolds(r, cs)
  PROVE  IsDescribed(r) <=> \E id \in DOMAIN r.cells : ~r.cells[id].blank /\ r.cells[id].column = 1
<1>1. DOMAIN r.cells = {cs[j].id : j \in DOMAIN cs}
  BY IdsOfIs DEF DraftRowHolds
<1>2. PICK d \in DOMAIN cs : cs[d].role = "DESCRIPTION"
  BY FixedIds DEF DraftColumns, ColumnsHold
<1>3. cs[d].id = 1 /\ cs[d].mark = 1
  <2>1. PICK k \in 1..4 : cs[d].role = Required[k] /\ cs[d].mark = k
    BY <1>2 DEF DraftColumns, ColumnsHold
  <2>2. k = 1
    BY <1>2, <2>1, FixedIds
  <2> QED
    BY <1>2, <2>1, <2>2 DEF DraftColumns
<1>4. 1 \in DOMAIN r.cells /\ Cell(r, 1) = r.cells[1]
  BY <1>1, <1>2, <1>3 DEF Cell
<1>5. IsDescribed(r) <=> ~r.cells[1].blank
  BY <1>4, FixedIds DEF IsDescribed
<1>6. InPlace(r.cells[1], r, cs[d])
  BY <1>2, <1>3 DEF DraftRowHolds
<1>7. ~r.cells[1].blank => r.cells[1].column = 1
  BY <1>3, <1>6 DEF InPlace
<1>8. ASSUME NEW id \in DOMAIN r.cells, ~r.cells[id].blank, r.cells[id].column = 1 PROVE id = 1
  <2>1. PICK j \in DOMAIN cs : cs[j].id = id
    BY <1>1
  <2>2. InPlace(r.cells[id], r, cs[j])
    BY <2>1 DEF DraftRowHolds
  <2>3. cs[j].mark = 1
    BY <1>8, <2>2 DEF InPlace
  <2>4. j = d
    BY <1>2, <1>3, <2>1, <2>3 DEF DraftColumns, ColumnsHold, Apart
  <2> QED
    BY <1>3, <2>1, <2>4
<1> QED
  BY <1>4, <1>5, <1>7, <1>8

\* What is posted: the rows that are described, with every value under its heading.
LEMMA RequestIs ==
  ASSUME DraftColumns(columns), RowsHold(rows, columns), NEW type \in {"DEVIS", "FACTURE"}
  PROVE  RequestHolds(TableRequest(type)) /\ Marks(TableRequest(type).rows) = DescribedMarks
<1> DEFINE S == {i \in DOMAIN rows : IsDescribed(rows[i])}
           kept == InOrder(S)
           n == Cardinality(S)
           cs == [j \in DOMAIN columns |-> [role |-> columns[j].role, mark |-> columns[j].mark]]
           rs == [k \in DOMAIN kept |-> [mark |-> rows[kept[k]].mark,
                    cells |-> [j \in DOMAIN columns |-> Cell(rows[kept[k]], columns[j].id)]]]
           t == TableRequest(type)
<1>1. t.type = type /\ t.columns = cs /\ t.rows = rs
  BY DEF TableRequest
<1>2. Len(rows) \in Nat /\ DOMAIN rows = 1..Len(rows) /\ Apart(rows) /\ \A i \in DOMAIN rows : DraftRowHolds(rows[i], columns)
  BY ListFinite DEF RowsHold
<1>3. S \in SUBSET (1..Len(rows))
  BY <1>2
<1> HIDE DEF S
<1>4. /\ n \in Nat /\ kept \in [1..n -> S] /\ {kept[k] : k \in DOMAIN kept} = S
      /\ \A j, k \in DOMAIN kept : j < k => kept[j] < kept[k]
  BY <1>2, <1>3, InOrderIs
<1> HIDE DEF t, kept, n
<1>5. DOMAIN kept = 1..n /\ \A k \in 1..n : kept[k] \in S /\ kept[k] \in DOMAIN rows
  BY <1>2, <1>3, <1>4
<1>6. ColumnsHold(cs)
  <2>1. /\ DOMAIN cs = DOMAIN columns /\ cs = [j \in DOMAIN columns |-> cs[j]]
        /\ \A j \in DOMAIN columns : cs[j].role = columns[j].role /\ cs[j].mark = columns[j].mark
    OBVIOUS
  <2> HIDE DEF cs
  <2> QED
    BY <2>1, ColumnsKept DEF DraftColumns
<1>7. /\ DOMAIN rs = 1..n /\ rs = [k \in 1..n |-> rs[k]]
      /\ \A k \in 1..n : rs[k].mark = rows[kept[k]].mark
      /\ \A k \in 1..n : \A j \in DOMAIN columns : rs[k].cells[j] = Cell(rows[kept[k]], columns[j].id)
  BY <1>5
<1>8. DOMAIN cs = DOMAIN columns /\ \A j \in DOMAIN columns : cs[j].mark = columns[j].mark
  OBVIOUS
<1> HIDE DEF cs, rs
<1>9. IsList(rs)
  BY <1>4, <1>7, ListOver
<1>10. Apart(rs)
  <2>1. ASSUME NEW j \in 1..n, NEW k \in 1..n, kept[j] = kept[k] PROVE j = k
    <3>1. kept[j] \in Nat /\ kept[k] \in Nat /\ j \in Nat /\ k \in Nat
      BY <1>2, <1>4, <1>5
    <3>2. ~(j < k) /\ ~(k < j)
      BY <1>4, <1>5, <2>1, <3>1
    <3> QED
      BY <3>1, <3>2
  <2> QED
    BY <1>2, <1>5, <1>7, <2>1 DEF Apart
<1>11. AlignedTable(t)
  <2>1. ASSUME NEW k \in 1..n, NEW j \in DOMAIN columns PROVE InPlace(rs[k].cells[j], rs[k], cs[j])
    <3>1. DraftRowHolds(rows[kept[k]], columns)
      BY <1>2, <1>5
    <3>2. InPlace(Cell(rows[kept[k]], columns[j].id), rows[kept[k]], columns[j])
      BY <3>1, CellIs
    <3> QED
      BY <1>7, <1>8, <3>2 DEF InPlace
  <2> QED
    BY <1>1, <1>7, <1>8, <2>1 DEF AlignedTable
<1>12. RequestHolds(t)
  BY <1>1, <1>6, <1>9, <1>10, <1>11 DEF RequestHolds
<1>13. Marks(rs) = {rows[i].mark : i \in S}
  <2>1. Marks(rs) = {rs[k].mark : k \in 1..n}
    BY <1>7 DEF Marks, ToSet
  <2>2. \A i \in S : \E k \in 1..n : kept[k] = i
    BY <1>4, <1>5
  <2> QED
    BY <1>5, <1>7, <2>1, <2>2
<1>14. DescribedMarks = {rows[i].mark : i \in S}
  <2>1. ASSUME NEW q \in ToSet(rows)
        PROVE  IsDescribed(q) <=> \E id \in DOMAIN q.cells : ~q.cells[id].blank /\ q.cells[id].column = FixedId("DESCRIPTION")
    <3>1. DraftRowHolds(q, columns)
      BY <1>2 DEF ToSet
    <3> QED
      BY <3>1, DescribedIs, FixedIds
  <2>2. DescribedMarks = {r.mark : r \in {q \in ToSet(rows) : IsDescribed(q)}}
    BY <2>1 DEF DescribedMarks
  <2>3. {q \in ToSet(rows) : IsDescribed(q)} = {rows[i] : i \in S}
    BY DEF S, ToSet
  <2> QED
    BY <2>2, <2>3
<1> QED
  BY <1>1, <1>12, <1>13, <1>14 DEF t

\* The ids of a document are those of no required column, and apart.
LEMMA GeneratedIds ==
  ASSUME TableInv
  PROVE  /\ \A n \in Nat : n > 0 => GeneratedId(n) \in Nat /\ GeneratedId(n) > 4
         /\ \A m, n \in Nat : GeneratedId(m) = GeneratedId(n) => m = n
<1>1. IsFiniteSet(Blocks)
  <2> DEFINE f == [id \in UsedIds |-> id \div Width]
  <2>1. IsFiniteSet(DOMAIN f) /\ {f[x] : x \in DOMAIN f} = Blocks
    BY UsedAreFinite DEF Blocks
  <2> HIDE DEF f
  <2> QED
    BY <2>1, FiniteValues
<1> DEFINE c == Cardinality(Blocks)
           free == (1..(c + 1)) \ Blocks
<1>2. c \in Nat
  BY <1>1, FS_CardinalityType
<1>3. free # {}
  <2>1. SUFFICES ASSUME 1..(c + 1) \subseteq Blocks PROVE FALSE
    OBVIOUS
  <2>2. Cardinality(1..(c + 1)) <= c
    BY <1>1, <2>1, FS_Subset
  <2>3. Cardinality(1..(c + 1)) = (c + 1) - 1 + 1
    BY <1>2, FS_Interval
  <2> QED
    BY <1>2, <2>2, <2>3
<1> HIDE DEF c
<1>4. free \in SUBSET Nat
  BY <1>2
<1>5. PICK b \in free : \A m \in free : b <= m
  BY <1>3, <1>4, LeastNumber
<1>6. NewBlock \in free
  <2>1. \E x \in free : \A y \in free : x =< y
    BY <1>5
  <2> HIDE DEF free
  <2>2. Min(free) \in free
    BY <2>1 DEF Min
  <2> QED
    BY <2>2 DEF NewBlock, free, c
<1>7. NewBlock \in Nat /\ NewBlock >= 1
  BY <1>2, <1>6
<1>8. Width \in Nat /\ Width >= 5
  BY TableBounds, FixedIds DEF Width
<1>9. Width * NewBlock \in Nat /\ Width * NewBlock >= 5
  <2>1. \A w, d \in Nat : w >= 5 /\ d >= 1 => w * d \in Nat /\ w * d >= 5
    OBVIOUS
  <2> QED
    BY <1>7, <1>8, <2>1
<1> DEFINE p == Width * NewBlock
<1>10. \A n : GeneratedId(n) = p + n
  BY DEF GeneratedId
<1>11. p \in Nat /\ p >= 5
  BY <1>9
<1> HIDE DEF p
<1> QED
  BY <1>10, <1>11

\* A table created from a request, or from another document's table put back in order.
LEMMA PersistedHolds ==
  ASSUME TableInv, NEW t, RequestHolds(t), t.rows # <<>>
  PROVE  TableHolds(PersistedTable(t)) /\ PersistedTable(t).type = t.type
         /\ DOMAIN PersistedTable(t) = {"type", "columns", "rows"}
<1> DEFINE cs == [j \in DOMAIN t.columns |-> [id |-> GeneratedId(j), role |-> t.columns[j].role,
                                              mark |-> t.columns[j].mark]]
           rs == [i \in DOMAIN t.rows |->
                    [mark |-> t.rows[i].mark,
                     cells |-> {[column |-> GeneratedId(j), value |-> t.rows[i].cells[j]] :
                                  j \in DOMAIN t.columns}]]
           p == PersistedTable(t)
<1>1. p.type = t.type /\ p.columns = cs /\ p.rows = rs /\ DOMAIN p = {"type", "columns", "rows"}
  BY DEF PersistedTable
<1>2. /\ t.type \in {"DEVIS", "FACTURE"} /\ ColumnsHold(t.columns) /\ IsList(t.rows) /\ Apart(t.rows)
      /\ \A i \in DOMAIN t.rows, j \in DOMAIN t.columns : InPlace(t.rows[i].cells[j], t.rows[i], t.columns[j])
  BY DEF RequestHolds, AlignedTable
<1>3. Len(t.columns) \in Nat /\ DOMAIN t.columns = 1..Len(t.columns)
  BY <1>2, ListFinite DEF ColumnsHold
<1>4. /\ \A j \in DOMAIN t.columns : GeneratedId(j) \notin 1..4
      /\ \A j, k \in DOMAIN t.columns : GeneratedId(j) = GeneratedId(k) => j = k
  <2>1. \A j \in DOMAIN t.columns : j \in Nat /\ j > 0
    BY <1>3
  <2>2. /\ \A j \in Nat : j > 0 => GeneratedId(j) \in Nat /\ GeneratedId(j) > 4
        /\ \A j, k \in Nat : GeneratedId(j) = GeneratedId(k) => j = k
    BY GeneratedIds
  <2>3. \A j \in DOMAIN t.columns : GeneratedId(j) \notin 1..4
    BY <2>1, <2>2
  <2> QED
    BY <2>1, <2>2, <2>3
<1>5. /\ DOMAIN cs = DOMAIN t.columns /\ cs = [j \in DOMAIN t.columns |-> cs[j]]
      /\ \A j \in DOMAIN t.columns :
           /\ DOMAIN cs[j] = {"id", "role", "mark"} /\ cs[j].id = GeneratedId(j)
           /\ cs[j].role = t.columns[j].role /\ cs[j].mark = t.columns[j].mark
  OBVIOUS
<1>6. /\ DOMAIN rs = DOMAIN t.rows /\ rs = [i \in DOMAIN t.rows |-> rs[i]]
      /\ \A i \in DOMAIN t.rows : rs[i].mark = t.rows[i].mark
      /\ \A i \in DOMAIN t.rows : \A c \in rs[i].cells : \E j \in DOMAIN t.columns :
           c = [column |-> GeneratedId(j), value |-> t.rows[i].cells[j]]
  OBVIOUS
<1> HIDE DEF cs, rs, p
<1>7. ColumnsHold(cs)
  BY <1>2, <1>5, ColumnsKept
<1>8. IdsApart(cs) /\ \A j \in DOMAIN cs : cs[j].id \notin 1..4
  <2>1. \A j \in DOMAIN cs : j \in DOMAIN t.columns /\ cs[j].id = GeneratedId(j)
    BY <1>5
  <2> QED
    BY <1>4, <2>1 DEF IdsApart
<1>9. IsList(rs) /\ Apart(rs) /\ rs # <<>>
  BY <1>2, <1>6, RowsKept
<1>10. ASSUME NEW i \in DOMAIN rs, NEW j \in DOMAIN cs, NEW c \in rs[i].cells, c.column = cs[j].id
       PROVE  InPlace(c.value, rs[i], cs[j])
  <2>1. PICK k \in DOMAIN t.columns : c = [column |-> GeneratedId(k), value |-> t.rows[i].cells[k]]
    BY <1>6
  <2>2. c.column = GeneratedId(k) /\ c.value = t.rows[i].cells[k]
    BY <2>1
  <2>3. k = j
    BY <1>4, <1>5, <1>10, <2>2
  <2>4. InPlace(t.rows[i].cells[j], t.rows[i], t.columns[j])
    BY <1>2, <1>5, <1>6
  <2> QED
    BY <1>5, <1>6, <2>2, <2>3, <2>4 DEF InPlace
<1>11. TableHolds(p)
  BY <1>1, <1>2, <1>5, <1>7, <1>8, <1>9, <1>10 DEF TableHolds
<1> QED
  BY <1>1, <1>11 DEF p

\* The cell of a column is one typed there.
LEMMA CellOfInPlace ==
  ASSUME NEW t, TableHolds(t), NEW i \in DOMAIN t.rows, NEW j \in DOMAIN t.columns
  PROVE  InPlace(CellOf(t.rows[i], t.columns[j].id), t.rows[i], t.columns[j])
<1> DEFINE found == {c \in t.rows[i].cells : c.column = t.columns[j].id}
<1>1. CASE found = {}
  BY <1>1, BlankInPlace DEF CellOf
<1>2. CASE found # {}
  <2> DEFINE c == CHOOSE c \in found : TRUE
  <2>1. c \in found /\ CellOf(t.rows[i], t.columns[j].id) = c.value
    BY <1>2 DEF CellOf
  <2> HIDE DEF c
  <2> QED
    BY <2>1 DEF TableHolds
<1> QED
  BY <1>1, <1>2

\* A document's table put back in order.
LEMMA OrderedHolds ==
  ASSUME NEW t, TableHolds(t)
  PROVE  RequestHolds(OrderedTable(t)) /\ OrderedTable(t).rows # <<>>
<1> DEFINE cs == [j \in DOMAIN t.columns |-> [role |-> t.columns[j].role, mark |-> t.columns[j].mark]]
           rs == [i \in DOMAIN t.rows |->
                    [mark |-> t.rows[i].mark,
                     cells |-> [j \in DOMAIN t.columns |-> CellOf(t.rows[i], t.columns[j].id)]]]
           o == OrderedTable(t)
<1>1. o.type = t.type /\ o.columns = cs /\ o.rows = rs
  BY DEF OrderedTable
<1>2. /\ DOMAIN cs = DOMAIN t.columns /\ cs = [j \in DOMAIN t.columns |-> cs[j]]
      /\ \A j \in DOMAIN t.columns : cs[j].role = t.columns[j].role /\ cs[j].mark = t.columns[j].mark
  OBVIOUS
<1>3. /\ DOMAIN rs = DOMAIN t.rows /\ rs = [i \in DOMAIN t.rows |-> rs[i]]
      /\ \A i \in DOMAIN t.rows : rs[i].mark = t.rows[i].mark
      /\ \A i \in DOMAIN t.rows : rs[i].cells = [j \in DOMAIN t.columns |-> CellOf(t.rows[i], t.columns[j].id)]
  OBVIOUS
<1>4. \A i \in DOMAIN t.rows : \A j \in DOMAIN t.columns : rs[i].cells[j] = CellOf(t.rows[i], t.columns[j].id)
  BY <1>3
<1> HIDE DEF cs, rs, o
<1>5. ColumnsHold(cs)
  BY <1>2, ColumnsKept DEF TableHolds
<1>6. IsList(rs) /\ Apart(rs) /\ rs # <<>>
  BY <1>3, RowsKept DEF TableHolds
<1>7. ASSUME NEW i \in DOMAIN rs, NEW j \in DOMAIN cs PROVE InPlace(rs[i].cells[j], rs[i], cs[j])
  <2>1. InPlace(CellOf(t.rows[i], t.columns[j].id), t.rows[i], t.columns[j])
    BY <1>2, <1>3, CellOfInPlace
  <2> QED
    BY <1>2, <1>3, <1>4, <2>1 DEF InPlace
<1>8. RequestHolds(o)
  BY <1>1, <1>5, <1>6, <1>7 DEF RequestHolds, AlignedTable, TableHolds
<1> QED
  BY <1>1, <1>6, <1>8 DEF o

\* A row of a table in order has one cell per column.
LEMMA OrderedCells ==
  ASSUME NEW t, NEW i \in DOMAIN OrderedTable(t).rows
  PROVE  /\ DOMAIN OrderedTable(t).rows[i].cells = DOMAIN OrderedTable(t).columns
         /\ OrderedTable(t).rows[i].cells
              = [j \in DOMAIN OrderedTable(t).columns |-> OrderedTable(t).rows[i].cells[j]]
<1> DEFINE o == OrderedTable(t)
           cells == [j \in DOMAIN t.columns |-> CellOf(t.rows[i], t.columns[j].id)]
<1>1. DOMAIN o.columns = DOMAIN t.columns
  BY DEF OrderedTable
<1>2. i \in DOMAIN t.rows /\ o.rows[i].cells = cells
  BY DEF OrderedTable
<1>3. DOMAIN cells = DOMAIN t.columns /\ cells = [j \in DOMAIN t.columns |-> cells[j]]
  OBVIOUS
<1> HIDE DEF o, cells
<1>4. DOMAIN o.rows[i].cells = DOMAIN o.columns
      /\ o.rows[i].cells = [j \in DOMAIN o.columns |-> o.rows[i].cells[j]]
  BY <1>1, <1>2, <1>3
<1> QED
  BY <1>4 DEF o

\* The PDF: the column of the totals is taken out of the heads and of every row.
LEMMA PrintedHolds ==
  ASSUME NEW t, RequestHolds(t),
         \A i \in DOMAIN t.rows : /\ DOMAIN t.rows[i].cells = DOMAIN t.columns
                                  /\ t.rows[i].cells = [j \in DOMAIN t.columns |-> t.rows[i].cells[j]]
  PROVE  PrintedInPlace(PrintedTable(t))
<1> DEFINE q == RoleIndex(t.columns, "LINE_TOTAL")
           heads == RemoveAt(t.columns, q)
           n == Len(t.columns)
           p == PrintedTable(t)
           at(k) == IF k < q THEN k ELSE k + 1
<1>1. /\ ColumnsHold(t.columns) /\ IsList(t.columns)
      /\ \A i \in DOMAIN t.rows, j \in DOMAIN t.columns : InPlace(t.rows[i].cells[j], t.rows[i], t.columns[j])
  BY DEF RequestHolds, AlignedTable, ColumnsHold
<1>2. n \in Nat /\ DOMAIN t.columns = 1..n
  BY <1>1, ListFinite
<1>3. q \in DOMAIN t.columns /\ t.columns[q].role = "LINE_TOTAL"
  <2>1. \E j \in DOMAIN t.columns : t.columns[j].role = "LINE_TOTAL"
    BY <1>1, FixedIds DEF ColumnsHold
  <2> QED
    BY <2>1 DEF RoleIndex
<1>4. t.columns[q].mark = 4
  <2>1. PICK k \in 1..4 : t.columns[q].role = Required[k] /\ t.columns[q].mark = k
    BY <1>1, <1>3 DEF ColumnsHold
  <2>2. k = FixedId(Required[k])
    BY FixedIds
  <2> QED
    BY <1>3, <2>1, <2>2, FixedIds
<1>5. /\ p.heads = heads /\ DOMAIN p.rows = DOMAIN t.rows
      /\ \A i \in DOMAIN t.rows : p.rows[i] = [mark |-> t.rows[i].mark, cells |-> RemoveAt(t.rows[i].cells, q),
                                               total |-> t.rows[i].cells[q]]
  BY DEF PrintedTable, TotalCell
<1>6. ASSUME NEW i \in DOMAIN t.rows
      PROVE  p.rows[i].mark = t.rows[i].mark /\ p.rows[i].cells = RemoveAt(t.rows[i].cells, q)
             /\ p.rows[i].total = t.rows[i].cells[q]
  <2> HIDE DEF p, q
  <2>1. p.rows[i] = [mark |-> t.rows[i].mark, cells |-> RemoveAt(t.rows[i].cells, q),
                     total |-> t.rows[i].cells[q]]
    BY <1>5
  <2> QED
    BY <2>1
<1> HIDE DEF p, q, n
<1>7. IsList(heads) /\ Len(heads) = n - 1
      /\ \A k \in 1..(n - 1) : heads[k] = IF k < q THEN t.columns[k] ELSE t.columns[k + 1]
  <2>1. /\ IsList(heads) /\ Len(heads) = Len(t.columns) - 1
        /\ \A k \in 1..(Len(t.columns) - 1) : heads[k] = IF k < q THEN t.columns[k] ELSE t.columns[k + 1]
    BY <1>1, <1>3, ListRemove
  <2> QED
    BY <2>1 DEF n
<1>8. DOMAIN heads = 1..(n - 1)
  BY <1>7 DEF IsList
<1> HIDE DEF heads
<1>9. \A k \in 1..(n - 1) : at(k) \in 1..n /\ heads[k] = t.columns[at(k)]
  BY <1>2, <1>3, <1>7
<1>10. ASSUME NEW i \in DOMAIN t.rows, NEW k \in 1..(n - 1)
       PROVE  RemoveAt(t.rows[i].cells, q)[k] = t.rows[i].cells[at(k)]
  <2> DEFINE s == t.rows[i].cells
  <2>1. DOMAIN s = 1..n /\ s = [j \in 1..n |-> s[j]]
    BY <1>2
  <2> HIDE DEF s
  <2>2. IsList(s) /\ Len(s) = n
    BY <1>2, <2>1, ListOver
  <2>3. q \in DOMAIN s
    BY <1>2, <1>3, <2>1
  <2>4. \A l \in 1..(Len(s) - 1) : RemoveAt(s, q)[l] = IF l < q THEN s[l] ELSE s[l + 1]
    BY <2>2, <2>3, ListRemove
  <2>5. RemoveAt(s, q)[k] = s[at(k)]
    BY <2>2, <2>4
  <2> QED
    BY <2>5 DEF s
<1> HIDE DEF at
<1>11. ASSUME NEW i \in DOMAIN p.rows
       PROVE  /\ \A k \in DOMAIN p.heads : InPlace(p.rows[i].cells[k], p.rows[i], p.heads[k])
              /\ InPlace(p.rows[i].total, p.rows[i], [mark |-> FixedId("LINE_TOTAL")])
  <2>1. i \in DOMAIN t.rows
    BY <1>5
  <2>2. ASSUME NEW k \in DOMAIN p.heads PROVE InPlace(p.rows[i].cells[k], p.rows[i], p.heads[k])
    <3>1. k \in 1..(n - 1)
      BY <1>5, <1>8
    <3>2. at(k) \in DOMAIN t.columns /\ p.heads[k] = t.columns[at(k)]
      BY <1>2, <1>5, <1>9, <3>1
    <3>3. InPlace(t.rows[i].cells[at(k)], t.rows[i], t.columns[at(k)])
      BY <1>1, <2>1, <3>2
    <3>4. p.rows[i].cells[k] = t.rows[i].cells[at(k)] /\ p.rows[i].mark = t.rows[i].mark
      BY <1>6, <1>10, <2>1, <3>1
    <3> QED
      BY <3>2, <3>3, <3>4 DEF InPlace
  <2>3. InPlace(p.rows[i].total, p.rows[i], [mark |-> FixedId("LINE_TOTAL")])
    <3>1. InPlace(t.rows[i].cells[q], t.rows[i], t.columns[q])
      BY <1>1, <1>3, <2>1
    <3>2. FixedId("LINE_TOTAL") = 4
      BY FixedIds
    <3> QED
      BY <1>4, <1>6, <2>1, <3>1, <3>2 DEF InPlace
  <2> QED
    BY <2>2, <2>3
<1>12. PrintedInPlace(p)
  BY <1>11 DEF PrintedInPlace
<1> QED
  BY <1>12 DEF p

\* What the invariant says of the draft, the request, the documents and the PDF.
LEMMA TablesInPlace == TableInv => ValuesStayInPlace
<1> SUFFICES ASSUME TableInv PROVE ValuesStayInPlace
  OBVIOUS
<1>1. ASSUME NEW i \in DOMAIN rows, NEW j \in DOMAIN columns
      PROVE  InPlace(Cell(rows[i], columns[j].id), rows[i], columns[j])
  <2>1. DraftRowHolds(rows[i], columns)
    BY DEF TableInv, RowsHold
  <2> QED
    BY <2>1, CellIs
<1>2. AlignedTable(posted)
  <2>1. CASE posted = NoTable
    <3>1. posted.rows = <<>>
      BY <2>1 DEF NoTable
    <3> QED
      BY <3>1 DEF AlignedTable
  <2>2. CASE RequestHolds(posted)
    BY <2>2 DEF RequestHolds
  <2> QED
    BY <2>1, <2>2 DEF TableInv
<1>3. Marks(TableRequest("DEVIS").rows) = DescribedMarks
  BY RequestIs DEF TableInv
<1>4. ASSUME NEW i \in DOMAIN tables
      PROVE  AlignedTable(OrderedTable(tables[i])) /\ PrintedInPlace(PrintedTable(OrderedTable(tables[i])))
  <2>1. TableHolds(tables[i])
    BY DEF TableInv
  <2>2. RequestHolds(OrderedTable(tables[i]))
    BY <2>1, OrderedHolds
  <2>3. AlignedTable(OrderedTable(tables[i]))
    BY <2>2 DEF RequestHolds
  <2>4. PrintedInPlace(PrintedTable(OrderedTable(tables[i])))
    BY <2>2, OrderedCells, PrintedHolds
  <2> QED
    BY <2>3, <2>4
<1> QED
  BY <1>1, <1>2, <1>3, <1>4 DEF ValuesStayInPlace

\* One document's table replaced.
LEMMA TableReplaced ==
  ASSUME TableInv, NEW i \in DOMAIN tables, NEW t, TableHolds(t), tables' = [tables EXCEPT ![i] = t],
         UNCHANGED <<columns, rows, loading, posted>>
  PROVE  TableInv'
<1> DEFINE ts == [tables EXCEPT ![i] = t]
<1>1. Len(tables) \in Nat /\ DOMAIN tables = 1..Len(tables) /\ Len(tables) <= MaxTables
  BY ListFinite DEF TableInv
<1>2. /\ DOMAIN ts = 1..Len(tables) /\ ts = [k \in 1..Len(tables) |-> ts[k]]
      /\ \A k \in 1..Len(tables) : ts[k] = IF k = i THEN t ELSE tables[k]
  <2>1. tables = [k \in 1..Len(tables) |-> tables[k]]
    BY <1>1 DEF TableInv, IsList
  <2> QED
    BY <1>1, <2>1
<1> HIDE DEF ts
<1>3. IsList(ts) /\ Len(ts) = Len(tables)
  BY <1>1, <1>2, ListOver
<1>4. \A k \in DOMAIN ts : TableHolds(ts[k])
  BY <1>1, <1>2 DEF TableInv
<1>5. tables' = ts
  BY DEF ts
<1> QED
  BY <1>1, <1>2, <1>3, <1>4, <1>5 DEF TableInv

\* The last document's table is looked at no more.
LEMMA LastForgotten ==
  ASSUME TableInv, NEW i, i = Len(tables), tables # <<>>
  PROVE  /\ IsList(RemoveAt(tables, i)) /\ Len(RemoveAt(tables, i)) <= MaxTables
         /\ i \in DOMAIN tables /\ DOMAIN RemoveAt(tables, i) = DOMAIN tables \ {i}
         /\ \A k \in DOMAIN RemoveAt(tables, i) : TableHolds(RemoveAt(tables, i)[k])
<1> DEFINE ts == RemoveAt(tables, i)
           n == Len(tables)
<1>1. n \in Nat /\ DOMAIN tables = 1..n /\ n <= MaxTables /\ IsList(tables)
  BY ListFinite DEF TableInv
<1>2. n # 0
  BY <1>1 DEF IsList
<1>3. i \in DOMAIN tables /\ i = n
  BY <1>1, <1>2
<1>4. IsList(ts) /\ Len(ts) = n - 1 /\ \A k \in 1..(n - 1) : ts[k] = IF k < i THEN tables[k] ELSE tables[k + 1]
  BY <1>1, <1>3, ListRemove
<1>5. DOMAIN ts = 1..(n - 1)
  BY <1>4 DEF IsList
<1> HIDE DEF ts, n
<1>6. \A k \in 1..(n - 1) : k \in DOMAIN tables /\ ts[k] = tables[k]
  BY <1>1, <1>3, <1>4
<1>7. DOMAIN ts = DOMAIN tables \ {i}
  BY <1>1, <1>3, <1>5
<1>8. Len(ts) <= MaxTables
  BY <1>1, <1>4, TableBounds
<1>9. \A k \in DOMAIN ts : TableHolds(ts[k])
  BY <1>5, <1>6 DEF TableInv
<1> QED
  BY <1>3, <1>4, <1>7, <1>8, <1>9 DEF ts

\* A draft is posted, refused, or created as a document.
LEMMA PostingKeeps ==
  ASSUME TableInv, PostTable \/ RefuseTable \/ CreateTable \/ ResetTable
  PROVE  TableInv'
<1>1. CASE PostTable
  <2>1. PICK type \in {"DEVIS", "FACTURE"} : posted' = TableRequest(type)
    BY <1>1, Zenon DEF PostTable
  <2>2. RequestHolds(posted')
    BY <2>1, RequestIs DEF TableInv
  <2>3. UNCHANGED <<columns, rows, loading, tables>>
    BY <1>1 DEF PostTable
  <2> QED
    BY <2>2, <2>3 DEF TableInv
<1>2. CASE RefuseTable
  BY <1>2 DEF RefuseTable, TableInv
<1>3. CASE CreateTable
  <2> DEFINE t == PersistedTable(posted)
             ts == Append(tables, t)
  <2>1. /\ posted # NoTable /\ posted.rows # <<>> /\ Len(tables) < MaxTables
        /\ tables' = ts /\ posted' = NoTable /\ loading' = loading
    BY <1>3 DEF CreateTable, AcceptedTable
  <2>2. TableHolds(t)
    BY <2>1, PersistedHolds DEF TableInv
  <2> HIDE DEF t
  <2>3. /\ Len(tables) \in Nat /\ DOMAIN tables = 1..Len(tables) /\ IsList(ts) /\ Len(ts) = Len(tables) + 1
        /\ ts[Len(tables) + 1] = t /\ \A k \in 1..Len(tables) : ts[k] = tables[k]
    BY ListAppend DEF TableInv
  <2>4. DOMAIN ts = 1..(Len(tables) + 1)
    BY <2>3 DEF IsList
  <2> HIDE DEF ts
  <2>5. ASSUME NEW k \in DOMAIN ts PROVE TableHolds(ts[k])
    <3>1. CASE k = Len(tables) + 1
      BY <2>2, <2>3, <3>1
    <3>2. CASE k \in 1..Len(tables)
      BY <2>3, <3>2 DEF TableInv
    <3> QED
      BY <2>3, <2>4, <3>1, <3>2
  <2>6. Len(ts) <= MaxTables /\ DOMAIN tables \subseteq DOMAIN ts
    BY <2>1, <2>3, <2>4, TableBounds
  <2>7. (DraftColumns(columns) /\ RowsHold(rows, columns))'
    <3>1. CASE FreshTable
      BY <3>1, FreshTableHolds
    <3>2. CASE UNCHANGED <<columns, rows>>
      BY <3>2 DEF TableInv
    <3> QED
      BY <1>3, <3>1, <3>2 DEF CreateTable
  <2> QED
    BY <2>1, <2>3, <2>5, <2>6, <2>7 DEF TableInv
<1>4. CASE ResetTable
  <2>1. FreshTable /\ UNCHANGED <<loading, posted, tables>>
    BY <1>4 DEF ResetTable
  <2>2. (DraftColumns(columns) /\ RowsHold(rows, columns))'
    BY <2>1, FreshTableHolds
  <2> QED
    BY <2>1, <2>2 DEF TableInv
<1> QED
  BY <1>1, <1>2, <1>3, <1>4

\* A clone has ids of its own, and the values where they were.
LEMMA CloneKeeps ==
  ASSUME TableInv, NEW i \in DOMAIN tables, CloneTable(i)
  PROVE  TableInv'
<1> DEFINE p == PersistedTable(OrderedTable(tables[i]))
           q == [p EXCEPT !.type = IF @ = "DEVIS" THEN "FACTURE" ELSE "DEVIS"]
<1>1. TableHolds(tables[i])
  BY DEF TableInv
<1>2. TableHolds(p) /\ DOMAIN p = {"type", "columns", "rows"}
  BY <1>1, OrderedHolds, PersistedHolds
<1>3. tables' = [tables EXCEPT ![i] = q] /\ UNCHANGED <<columns, rows, loading, posted>>
  BY DEF CloneTable
<1> HIDE DEF p
<1>4. q.type \in {"DEVIS", "FACTURE"} /\ q.columns = p.columns /\ q.rows = p.rows
  BY <1>2
<1> HIDE DEF q
<1>5. TableHolds(q)
  BY <1>2, <1>4 DEF TableHolds
<1> QED
  BY <1>3, <1>5, TableReplaced

\* A document is asked for, given up or forgotten.
LEMMA LookingKeeps ==
  ASSUME TableInv, LeaveManualPage \/ \E i \in DOMAIN tables : AskForDevis(i) \/ ForgetTable(i)
  PROVE  TableInv'
<1>1. CASE LeaveManualPage
  BY <1>1 DEF LeaveManualPage, TableInv
<1>2. ASSUME NEW i \in DOMAIN tables, AskForDevis(i) PROVE TableInv'
  BY <1>2 DEF AskForDevis, TableInv
<1>3. ASSUME NEW i \in DOMAIN tables, ForgetTable(i) PROVE TableInv'
  <2> DEFINE ts == RemoveAt(tables, i)
  <2>1. i = Len(tables) /\ i \notin loading /\ tables' = ts /\ UNCHANGED <<columns, rows, loading, posted>>
    BY <1>3 DEF ForgetTable
  <2>2. /\ IsList(ts) /\ Len(ts) <= MaxTables /\ DOMAIN ts = DOMAIN tables \ {i}
        /\ \A k \in DOMAIN ts : TableHolds(ts[k])
    <3>1. tables # <<>>
      OBVIOUS
    <3> QED
      BY <2>1, <3>1, LastForgotten
  <2> HIDE DEF ts
  <2> QED
    BY <2>1, <2>2 DEF TableInv
<1> QED
  BY <1>1, <1>2, <1>3

\* A devis loaded into the draft: the ids of the required columns become the fixed ones.
LEMMA LoadedDevisKeeps ==
  ASSUME TableInv, NEW i \in DOMAIN tables, LoadManualDevis(i)
  PROVE  TableInv'
<1> DEFINE source == tables[i]
           cs == [j \in DOMAIN source.columns |->
                    [source.columns[j] EXCEPT !.id = DraftId(source.columns[j])]]
           rs == [k \in DOMAIN source.rows |->
                    [mark |-> source.rows[k].mark,
                     cells |-> [id \in IdsOf(cs) |->
                        LET j == CHOOSE j \in DOMAIN cs : cs[j].id = id
                        IN CellOf(source.rows[k], source.columns[j].id)]]]
           ts == RemoveAt(tables, i)
<1>1. /\ i = Len(tables) /\ loading' = loading \ {i} /\ tables' = ts /\ columns' = cs /\ rows' = rs
      /\ posted' = posted
  BY DEF LoadManualDevis
<1>2. TableHolds(source)
  BY DEF TableInv
<1>3. /\ IsList(ts) /\ Len(ts) <= MaxTables /\ DOMAIN ts = DOMAIN tables \ {i}
      /\ \A k \in DOMAIN ts : TableHolds(ts[k])
  <2>1. tables # <<>>
    OBVIOUS
  <2> QED
    BY <1>1, <2>1, LastForgotten
<1>4. /\ ColumnsHold(source.columns) /\ IdsApart(source.columns)
      /\ \A j \in DOMAIN source.columns : DOMAIN source.columns[j] = {"id", "role", "mark"}
                                          /\ source.columns[j].id \notin 1..4
  BY <1>2 DEF TableHolds
<1>5. /\ DOMAIN cs = DOMAIN source.columns /\ cs = [j \in DOMAIN source.columns |-> cs[j]]
      /\ \A j \in DOMAIN source.columns : cs[j] = [source.columns[j] EXCEPT !.id = DraftId(source.columns[j])]
  OBVIOUS
<1> HIDE DEF source, ts, cs
<1>6. ASSUME NEW j \in DOMAIN source.columns
      PROVE  /\ DOMAIN cs[j] = {"id", "role", "mark"} /\ cs[j].id = DraftId(source.columns[j])
             /\ cs[j].role = source.columns[j].role /\ cs[j].mark = source.columns[j].mark
  <2>1. cs[j] = [source.columns[j] EXCEPT !.id = DraftId(source.columns[j])]
    BY <1>5
  <2>2. DOMAIN source.columns[j] = {"id", "role", "mark"}
    BY <1>4
  <2> QED
    BY <2>1, <2>2
<1>7. ColumnsHold(cs)
  <2>1. \A j \in DOMAIN source.columns :
          cs[j].role = source.columns[j].role /\ cs[j].mark = source.columns[j].mark
    BY <1>6
  <2> QED
    BY <1>4, <1>5, <2>1, ColumnsKept
<1>8. ASSUME NEW j \in DOMAIN cs
      PROVE  \/ cs[j].role = "CUSTOM" /\ cs[j].id = source.columns[j].id /\ cs[j].id \notin 1..4
             \/ cs[j].mark \in 1..4 /\ cs[j].id = cs[j].mark /\ cs[j].role = Required[cs[j].mark]
  <2>1. j \in DOMAIN source.columns
    BY <1>5
  <2>2. CASE cs[j].role = "CUSTOM"
    BY <1>4, <1>6, <2>1, <2>2 DEF DraftId
  <2>3. CASE cs[j].role # "CUSTOM"
    <3>1. PICK k \in 1..4 : cs[j].role = Required[k] /\ cs[j].mark = k
      BY <1>7, <2>3 DEF ColumnsHold
    <3>2. cs[j].id = FixedId(cs[j].role)
      BY <1>6, <2>1, <2>3 DEF DraftId
    <3> QED
      BY <3>1, <3>2, FixedIds
  <2> QED
    BY <2>2, <2>3
<1>9. IdsApart(cs)
  <2>1. ASSUME NEW j \in DOMAIN cs, NEW k \in DOMAIN cs, cs[j].id = cs[k].id PROVE j = k
    <3>1. CASE cs[j].mark \in 1..4 /\ cs[j].id = cs[j].mark
      <4>1. cs[k].id = cs[k].mark
        BY <1>8, <2>1, <3>1
      <4> QED
        BY <1>7, <2>1, <3>1, <4>1 DEF ColumnsHold, Apart
    <3>2. CASE cs[j].id \notin 1..4 /\ cs[j].id = source.columns[j].id
      <4>1. cs[k].id = source.columns[k].id
        BY <1>8, <2>1, <3>2
      <4> QED
        BY <1>4, <1>5, <2>1, <3>2, <4>1 DEF IdsApart
    <3> QED
      BY <1>8, <3>1, <3>2
  <2> QED
    BY <2>1 DEF IdsApart
<1>10. DraftColumns(cs)
  <2>1. ASSUME NEW j \in DOMAIN cs
        PROVE  DOMAIN cs[j] = {"id", "role", "mark"} /\ (cs[j].role = "DESCRIPTION" => cs[j].id = 1)
    <3>1. DOMAIN cs[j] = {"id", "role", "mark"}
      BY <1>5, <1>6
    <3>2. ASSUME cs[j].role = "DESCRIPTION" PROVE cs[j].id = 1
      <4>1. cs[j].mark \in 1..4 /\ cs[j].id = cs[j].mark /\ cs[j].role = Required[cs[j].mark]
        BY <1>8, <3>2
      <4>2. FixedId(Required[cs[j].mark]) = cs[j].mark
        BY <4>1, FixedIds
      <4> QED
        BY <3>2, <4>1, <4>2, FixedIds
    <3> QED
      BY <3>1, <3>2
  <2> QED
    BY <1>7, <1>9, <2>1 DEF DraftColumns
<1>11. /\ DOMAIN rs = DOMAIN source.rows /\ rs = [k \in DOMAIN source.rows |-> rs[k]]
       /\ \A k \in DOMAIN source.rows :
            rs[k] = [mark |-> source.rows[k].mark,
                     cells |-> [id \in IdsOf(cs) |->
                        CellOf(source.rows[k], source.columns[CHOOSE j \in DOMAIN cs : cs[j].id = id].id)]]
  OBVIOUS
<1> HIDE DEF rs
<1>12. ASSUME NEW k \in DOMAIN source.rows
       PROVE  DraftRowHolds(rs[k], cs) /\ rs[k].mark = source.rows[k].mark
  <2> DEFINE cells == [id \in IdsOf(cs) |->
                         CellOf(source.rows[k], source.columns[CHOOSE j \in DOMAIN cs : cs[j].id = id].id)]
  <2>1. rs[k] = [mark |-> source.rows[k].mark, cells |-> cells]
    BY <1>11
  <2>2. ASSUME NEW j \in DOMAIN cs PROVE cells[cs[j].id] = CellOf(source.rows[k], source.columns[j].id)
    <3>1. cs[j].id \in IdsOf(cs)
      BY IdsOfIs
    <3>2. (CHOOSE l \in DOMAIN cs : cs[l].id = cs[j].id) = j
      BY <1>9 DEF IdsApart
    <3> QED
      BY <3>1, <3>2
  <2>3. DOMAIN cells = IdsOf(cs)
    OBVIOUS
  <2> HIDE DEF cells
  <2>4. DOMAIN rs[k] = {"mark", "cells"} /\ rs[k].mark = source.rows[k].mark /\ rs[k].cells = cells
    BY <2>1
  <2>5. ASSUME NEW j \in DOMAIN cs PROVE InPlace(rs[k].cells[cs[j].id], rs[k], cs[j])
    <3>1. j \in DOMAIN source.columns /\ cs[j].mark = source.columns[j].mark
      BY <1>5, <1>6
    <3>2. InPlace(CellOf(source.rows[k], source.columns[j].id), source.rows[k], source.columns[j])
      BY <1>2, <3>1, CellOfInPlace
    <3> QED
      BY <2>2, <2>4, <3>1, <3>2 DEF InPlace
  <2> QED
    BY <2>3, <2>4, <2>5 DEF DraftRowHolds
<1>13. RowsHold(rs, cs)
  <2>1. IsList(rs) /\ Apart(rs) /\ rs # <<>>
    <3>1. IsList(source.rows) /\ Apart(source.rows) /\ source.rows # <<>>
      BY <1>2 DEF TableHolds
    <3>2. \A k \in DOMAIN source.rows : rs[k].mark = source.rows[k].mark
      BY <1>12
    <3> QED
      BY <1>11, <3>1, <3>2, RowsKept
  <2>2. \A k \in DOMAIN rs : DraftRowHolds(rs[k], cs)
    BY <1>11, <1>12
  <2> QED
    BY <2>1, <2>2 DEF RowsHold
<1> QED
  BY <1>1, <1>3, <1>10, <1>13 DEF TableInv

\* A step of nothing.
LEMMA TableStutterKeeps ==
  ASSUME TableInv, UNCHANGED tableVars
  PROVE  TableInv'
<1>1. UNCHANGED <<columns, rows, loading, posted, tables>>
  BY DEF tableVars
<1> QED
  BY <1>1 DEF TableInv

\* A draft starts in place, one of before LINE_TOTAL as well.
LEMMA TableInvInit == TableInit => TableInv
<1> SUFFICES ASSUME TableInit PROVE TableInv
  OBVIOUS
<1>1. /\ columns \in {DefaultColumns, LegacyColumns} /\ rows = <<EmptyRow(columns, FirstRow)>>
      /\ loading = {} /\ posted = NoTable /\ tables = <<>>
  BY DEF TableInit
<1>2. DraftColumns(columns)
  BY <1>1, FreshColumns
<1>3. RowsHold(rows, columns)
  BY <1>1, FreshRows
<1>4. IsList(tables) /\ Len(tables) = 0 /\ DOMAIN tables = {}
  BY <1>1 DEF IsList
<1> QED
  BY <1>1, <1>2, <1>3, <1>4, TableBounds DEF TableInv

\* Every step keeps the values in place.
LEMMA TableInvNext == TableInv /\ [TableNext]_tableVars => TableInv'
<1> SUFFICES ASSUME TableInv, [TableNext]_tableVars PROVE TableInv'
  OBVIOUS
<1>1. CASE TypeCell \/ ClearCell \/ AutofillTotal
  BY <1>1, CellsKeep
<1>2. CASE AddRow
  BY <1>2, AddRowKeeps
<1>3. CASE RemoveRow
  BY <1>3, RemoveRowKeeps
<1>4. CASE AddCustomColumn
  BY <1>4, AddColumnKeeps
<1>5. CASE RemoveColumn
  BY <1>5, RemoveColumnKeeps
<1>6. CASE Format
  BY <1>6, FormatKeeps
<1>7. CASE ResetTable \/ PostTable \/ CreateTable \/ RefuseTable
  BY <1>7, PostingKeeps
<1>8. CASE LeaveManualPage \/ \E i \in DOMAIN tables : ForgetTable(i) \/ AskForDevis(i)
  BY <1>8, LookingKeeps
<1>9. CASE \E i \in DOMAIN tables : CloneTable(i)
  BY <1>9, CloneKeeps
<1>10. CASE \E i \in DOMAIN tables : LoadManualDevis(i)
  BY <1>10, LoadedDevisKeeps
<1>11. CASE UNCHANGED tableVars
  BY <1>11, TableStutterKeeps
<1> QED
  BY <1>1, <1>2, <1>3, <1>4, <1>5, <1>6, <1>7, <1>8, <1>9, <1>10, <1>11, Zenon DEF TableNext

\* The invariant holds in every state, for any number of rows, columns and documents.
THEOREM TableInvariant == TableSpec => []TableInv
<1> QED
  BY TableInvInit, TableInvNext, PTL DEF TableSpec

\* The type invariant is part of it.
THEOREM TableTyped == TableSpec => []TableTypeOK
<1>1. TableInv => TableTypeOK
  BY DEF TableInv, TableTypeOK, RowsHold, DraftRowHolds, TableHolds
<1> QED
  BY <1>1, TableInvariant, PTL

\* What the artisan types stays in its row and under its heading (ManualInvoiceDraftStore,
\* InvoiceRepository.createWithNextNumber, InvoiceService.convertToFacture, PdfService).
THEOREM ValuesAlwaysInPlace == TableSpec => []ValuesStayInPlace
<1> QED
  BY TablesInPlace, TableInvariant, PTL

-------------------------------------------------------------------------------
(* The types of the card                                                    *)

\* A copy of the company's profile, and a deposit in a draft.
Profiles == [liable : BOOLEAN, rate : Rates \cup {0}, habit : Habits \cup {Unset}, known : BOOLEAN]
Kinds == {"open", "fresh", "confirm"}
GoodDeposit(x) ==
  /\ DOMAIN x = {"requested", "percent", "override"}
  /\ x.requested \in BOOLEAN /\ x.percent \in Habits \cup {0}
DraftTyped(d) ==
  /\ d.mode \in {"GUIDED", "MANUAL"} /\ d.type \in {"DEVIS", "FACTURE"} /\ d.slip \in BOOLEAN
  /\ d.from \in 0..MaxDocuments /\ GoodDeposit(d.deposit)

\* The requests about the profile that are on their way.
AnswersTyped ==
  /\ IsList(answers) /\ Len(answers) <= MaxAnswers + Len(documents) + 1
  /\ \A i \in DOMAIN answers : answers[i] \in [kind : Kinds, profile : Profiles]

\* The rows of the documents.
RowTyped(d) ==
  /\ d.type \in {"DEVIS", "FACTURE"} /\ d.from \in 0..MaxDocuments /\ d.cloned \in BOOLEAN
  /\ d.vat.applicable \in BOOLEAN /\ IsTotals(d.agreed.totals)
RowsTyped ==
  /\ IsList(documents) /\ Len(documents) <= MaxDocuments
  /\ \A i \in DOMAIN documents : RowTyped(documents[i])

CardTyped ==
  /\ profile \in [liable : BOOLEAN, rate : Rates] /\ shown = NothingShown
  /\ request # NoBody => request.mode \in {"GUIDED", "MANUAL"} /\ request.from \in 0..MaxDocuments
  /\ habit \in Habits \cup {Unset} /\ cached \in Profiles /\ hydrated \in BOOLEAN
  /\ sent.known \in BOOLEAN
  /\ RowsTyped /\ AnswersTyped /\ DraftTyped(draft)

\* It says more than the type invariants of the card and of the documents.
LEMMA CardTypedIs == CardTyped => TotalsTypeOK /\ CardTypeOK
<1> SUFFICES ASSUME CardTyped PROVE TotalsTypeOK /\ CardTypeOK
  OBVIOUS
<1>1. \A d \in ToSet(documents) : RowTyped(d)
  BY DEF CardTyped, RowsTyped, ToSet
<1>2. request.mode \in {"NONE", "GUIDED", "MANUAL"} /\ IsTotals(shown.totals)
  BY DEF CardTyped, NoBody, NothingShown, NoTotals, IsTotals
<1>3. TotalsTypeOK
  BY <1>1, <1>2 DEF CardTyped, RowsTyped, RowTyped, TotalsTypeOK
<1>4. /\ cached.known \in BOOLEAN /\ \A i \in DOMAIN answers : answers[i].kind \in Kinds
      /\ Len(answers) <= MaxAnswers + Len(documents) + 1
  BY DEF CardTyped, AnswersTyped, Profiles
<1> QED
  BY <1>3, <1>4 DEF CardTyped, DraftTyped, GoodDeposit, CardTypeOK, Kinds

\* The company's profile as a copy holds it, and the deposit it suggests.
LEMMA ProfilesAre ==
  /\ NoProfile \in Profiles
  /\ \A c \in Companies : VatProfile(c) \in [liable : BOOLEAN, rate : Rates]
                          /\ c.habit \in Habits \cup {Unset}
  /\ GoodDeposit(EmptyDeposit)
  /\ \A p \in Profiles : GoodDeposit(DefaultDeposit(p))
<1>1. NoProfile \in Profiles
  BY DEF NoProfile, Profiles
<1>2. \A c \in Companies : VatProfile(c) \in [liable : BOOLEAN, rate : Rates]
                           /\ c.habit \in Habits \cup {Unset}
  BY CardData DEF VatProfile, Habits
<1>3. GoodDeposit(EmptyDeposit)
  BY DEF GoodDeposit, EmptyDeposit
<1>4. ASSUME NEW p \in Profiles PROVE GoodDeposit(DefaultDeposit(p))
  <2>1. p.habit \in Habits \cup {Unset}
    BY DEF Profiles
  <2> QED
    BY <1>3, <2>1 DEF GoodDeposit, DefaultDeposit
<1> QED
  BY <1>1, <1>2, <1>3, <1>4

\* An empty draft is typed, and one that starts afresh.
LEMMA EmptyTyped ==
  ASSUME NEW mode \in {"GUIDED", "MANUAL"}, NEW deposit, GoodDeposit(deposit)
  PROVE  DraftTyped(EmptyDraftOf(mode, deposit))
<1>1. 0 \in 0..MaxDocuments
  BY TotalsBounds
<1>2. /\ EmptyDraftOf(mode, deposit).mode = mode /\ EmptyDraftOf(mode, deposit).type = "FACTURE"
      /\ EmptyDraftOf(mode, deposit).slip = FALSE /\ EmptyDraftOf(mode, deposit).from = 0
      /\ EmptyDraftOf(mode, deposit).deposit = deposit
  BY DEF EmptyDraftOf
<1> QED
  BY <1>1, <1>2 DEF DraftTyped

\* One more request about the profile, if there is room.
LEMMA AskTyped ==
  ASSUME AnswersTyped, NEW kind \in Kinds, answers' = Append(answers, AskProfile(kind)),
         Len(answers) + 1 <= MaxAnswers + Len(documents') + 1
  PROVE  AnswersTyped'
<1>1. /\ Len(answers) \in Nat /\ DOMAIN answers = 1..Len(answers) /\ IsList(answers')
      /\ Len(answers') = Len(answers) + 1 /\ answers'[Len(answers) + 1] = AskProfile(kind)
      /\ \A i \in 1..Len(answers) : answers'[i] = answers[i]
  BY ListAppend DEF AnswersTyped
<1>2. DOMAIN answers' = 1..(Len(answers) + 1)
  BY <1>1 DEF IsList
<1>3. AskProfile(kind) \in [kind : Kinds, profile : Profiles]
  BY ProfilesAre DEF AskProfile
<1>4. ASSUME NEW i \in DOMAIN answers' PROVE answers'[i] \in [kind : Kinds, profile : Profiles]
  <2>1. i \in 1..Len(answers) \/ i = Len(answers) + 1
    BY <1>1, <1>2
  <2> QED
    BY <1>1, <1>3, <2>1 DEF AnswersTyped
<1> QED
  BY <1>1, <1>4 DEF AnswersTyped

\* What asks for no profile and makes no document leaves the requests as they are.
LEMMA AnswersStay ==
  ASSUME AnswersTyped, UNCHANGED <<answers, documents>>
  PROVE  AnswersTyped'
BY DEF AnswersTyped

\* What makes no document leaves the rows as they are.
LEMMA RowsStay ==
  ASSUME RowsTyped, UNCHANGED documents
  PROVE  RowsTyped'
BY DEF RowsTyped, RowTyped

\* An edit of the draft touches nothing else.
LEMMA EditTyped ==
  ASSUME CardTyped, NEW d, Edit(d), DraftTyped(d)
  PROVE  CardTyped'
<1>1. draft' = d /\ UNCHANGED <<profile, request, shown, documents, habit, cached, answers, hydrated, sent>>
  BY DEF Edit
<1>2. RowsTyped' /\ AnswersTyped'
  BY <1>1, RowsStay, AnswersStay DEF CardTyped, Edit
<1>3. DraftTyped(draft)'
  BY <1>1 DEF DraftTyped, GoodDeposit
<1> QED
  BY <1>1, <1>2, <1>3 DEF CardTyped


\* What the artisan types keeps the types of the draft.
LEMMA TypingTyped ==
  ASSUME CardTyped, CardInv,
         \/ TypeBody \/ ToggleReverse \/ ResetDeposit
         \/ \E type \in {"DEVIS", "FACTURE"} : SetDocumentType(type)
         \/ \E choice : SetVatChoice(choice)
         \/ \E yes \in BOOLEAN : RequestDeposit(yes)
         \/ \E p \in Habits : SetDepositPercentage(p)
         \/ \E amount : OverrideDeposit(amount) \/ OverrideTotal(amount)
  PROVE  CardTyped'
<1>1. /\ DraftTyped(draft) /\ GoodDeposit(draft.deposit)
      /\ DOMAIN draft = {"mode", "body", "slip", "type", "reverse", "choice", "total", "deposit", "from"}
  BY DEF CardTyped, DraftTyped, CardInv, GoodDraft
<1>2. CASE TypeBody
  <2>1. PICK b, slip : slip \in BOOLEAN /\ Edit([draft EXCEPT !.body = b, !.slip = slip])
    <3>1. PICK b \in DraftBodies[draft.mode] :
            \E slip \in SlipIn(b) : Edit([draft EXCEPT !.body = b, !.slip = slip])
      BY <1>2 DEF TypeBody
    <3>2. SlipIn(b) \subseteq BOOLEAN
      BY DEF SlipIn
    <3> QED
      BY <3>1, <3>2
  <2> DEFINE e == [draft EXCEPT !.body = b, !.slip = slip]
  <2>2. /\ e.mode = draft.mode /\ e.type = draft.type /\ e.slip = slip /\ e.from = draft.from
        /\ e.deposit = draft.deposit
    BY <1>1
  <2>3. Edit(e) /\ slip \in BOOLEAN
    BY <2>1
  <2> HIDE DEF e
  <2> QED
    BY <1>1, <2>2, <2>3, EditTyped DEF DraftTyped
<1>3. CASE ToggleReverse
  <2> DEFINE e == [draft EXCEPT !.reverse = ~@]
  <2>1. Edit(e)
    BY <1>3 DEF ToggleReverse
  <2>2. /\ e.mode = draft.mode /\ e.type = draft.type /\ e.slip = draft.slip /\ e.from = draft.from
        /\ e.deposit = draft.deposit
    BY <1>1
  <2> HIDE DEF e
  <2> QED
    BY <1>1, <2>1, <2>2, EditTyped DEF DraftTyped
<1>4. CASE \E type \in {"DEVIS", "FACTURE"} : SetDocumentType(type)
  <2>1. PICK type \in {"DEVIS", "FACTURE"} : Edit([draft EXCEPT !.type = type])
    BY <1>4 DEF SetDocumentType
  <2> DEFINE e == [draft EXCEPT !.type = type]
  <2>2. /\ e.mode = draft.mode /\ e.type = type /\ e.slip = draft.slip /\ e.from = draft.from
        /\ e.deposit = draft.deposit
    BY <1>1
  <2>3. Edit(e)
    BY <2>1
  <2> HIDE DEF e
  <2> QED
    BY <1>1, <2>2, <2>3, EditTyped DEF DraftTyped
<1>5. CASE \E choice : SetVatChoice(choice)
  <2>1. PICK choice : Edit([draft EXCEPT !.choice = choice])
    BY <1>5 DEF SetVatChoice
  <2> DEFINE e == [draft EXCEPT !.choice = choice]
  <2>2. /\ e.mode = draft.mode /\ e.type = draft.type /\ e.slip = draft.slip /\ e.from = draft.from
        /\ e.deposit = draft.deposit
    BY <1>1
  <2>3. Edit(e)
    BY <2>1
  <2> HIDE DEF e
  <2> QED
    BY <1>1, <2>2, <2>3, EditTyped DEF DraftTyped
<1>6. ASSUME NEW deposit, GoodDeposit(deposit), Edit([draft EXCEPT !.deposit = deposit])
      PROVE  CardTyped'
  <2> DEFINE e == [draft EXCEPT !.deposit = deposit]
  <2>1. /\ e.mode = draft.mode /\ e.type = draft.type /\ e.slip = draft.slip /\ e.from = draft.from
        /\ e.deposit = deposit
    BY <1>1
  <2>2. Edit(e)
    BY <1>6
  <2> HIDE DEF e
  <2> QED
    BY <1>1, <1>6, <2>1, <2>2, EditTyped DEF DraftTyped
<1>7. CASE \E yes \in BOOLEAN : RequestDeposit(yes)
  <2>1. PICK yes \in BOOLEAN : Edit([draft EXCEPT !.deposit.requested = yes])
    BY <1>7 DEF RequestDeposit
  <2>2. GoodDeposit([draft.deposit EXCEPT !.requested = yes])
    BY <1>1 DEF GoodDeposit
  <2> QED
    BY <1>6, <2>1, <2>2
<1>8. CASE \E p \in Habits : SetDepositPercentage(p)
  <2>1. PICK p \in Habits : Edit([draft EXCEPT !.deposit.percent = p])
    BY <1>8 DEF SetDepositPercentage
  <2>2. GoodDeposit([draft.deposit EXCEPT !.percent = p])
    BY <1>1 DEF GoodDeposit
  <2> QED
    BY <1>6, <2>1, <2>2
<1>9. CASE ResetDeposit \/ \E amount : OverrideDeposit(amount)
  <2>1. PICK amount : Edit([draft EXCEPT !.deposit.override = amount])
    BY <1>9 DEF OverrideDeposit, ResetDeposit
  <2>2. GoodDeposit([draft.deposit EXCEPT !.override = amount])
    BY <1>1 DEF GoodDeposit
  <2> QED
    BY <1>6, <2>1, <2>2
<1>10. CASE \E amount : OverrideTotal(amount)
  <2>1. PICK amount, frozen : Edit([draft EXCEPT !.total = amount, !.deposit.override = OrElse(@, frozen)])
    BY <1>10 DEF OverrideTotal
  <2> DEFINE x == OrElse(draft.deposit.override, frozen)
             e == [draft EXCEPT !.total = amount, !.deposit = [draft.deposit EXCEPT !.override = x]]
  <2>2. GoodDeposit([draft.deposit EXCEPT !.override = x])
    BY <1>1 DEF GoodDeposit
  <2>3. Edit(e)
    BY <2>1
  <2>4. /\ e.mode = draft.mode /\ e.type = draft.type /\ e.slip = draft.slip /\ e.from = draft.from
        /\ e.deposit = [draft.deposit EXCEPT !.override = x]
    BY <1>1
  <2> HIDE DEF e, x
  <2> QED
    BY <1>1, <2>2, <2>3, <2>4, EditTyped DEF DraftTyped
<1> QED
  BY <1>2, <1>3, <1>4, <1>5, <1>7, <1>8, <1>9, <1>10

\* A dictation and a devis come into an empty draft, a reset leaves one.
LEMMA AfreshTyped ==
  ASSUME CardTyped, CardInv,
         \/ ResetDraft
         \/ \E type \in {"DEVIS", "FACTURE"}, p \in Habits \cup {Unset} : LoadVoiceDraft(type, p)
  PROVE  CardTyped'
<1>1. UNCHANGED <<request, shown, documents, profile, habit, cached, hydrated, sent>> /\ RowsTyped'
  BY RowsStay DEF ResetDraft, LoadVoiceDraft, CardTyped
<1>2. /\ Len(answers) \in Nat /\ Len(documents) \in Nat
      /\ "fresh" \in Kinds /\ AnswersTyped /\ draft.mode \in {"GUIDED", "MANUAL"} /\ cached \in Profiles
  BY DEF CardTyped, AnswersTyped, IsList, Kinds, RowsTyped, DraftTyped
<1>3. CASE ResetDraft
  <2>1. /\ draft' = EmptyDraftOf(draft.mode, DefaultDeposit(cached))
        /\ \/ draft.mode = "GUIDED" /\ answers' = Append(answers, AskProfile("fresh")) /\ Len(answers) < MaxAnswers
           \/ answers' = answers
    BY <1>3 DEF ResetDraft, StartAfresh
  <2>2. DraftTyped(draft')
    BY <1>2, <2>1, ProfilesAre, EmptyTyped
  <2>3. AnswersTyped'
    <3>1. CASE answers' = answers
      BY <1>1, <1>2, <3>1, AnswersStay
    <3>2. CASE answers' = Append(answers, AskProfile("fresh")) /\ Len(answers) < MaxAnswers
      <4>1. Len(answers) + 1 <= MaxAnswers + Len(documents') + 1
        BY <1>1, <1>2, <3>2, CardData
      <4> QED
        BY <1>2, <3>2, <4>1, AskTyped
    <3> QED
      BY <2>1, <3>1, <3>2
  <2> QED
    BY <1>1, <2>2, <2>3 DEF CardTyped, DraftTyped, GoodDeposit
<1>4. CASE \E type \in {"DEVIS", "FACTURE"}, p \in Habits \cup {Unset} : LoadVoiceDraft(type, p)
  <2>1. PICK type \in {"DEVIS", "FACTURE"}, p \in Habits \cup {Unset} : LoadVoiceDraft(type, p)
    BY <1>4
  <2> DEFINE dictated == type = "FACTURE" /\ p # Unset
             deposit == IF dictated THEN [requested |-> TRUE, percent |-> p, override |-> Unset]
                        ELSE DefaultDeposit(cached)
             d == EmptyDraftOf("GUIDED", deposit)
  <2>2. /\ Len(answers) < MaxAnswers
        /\ \E b : \E slip \in SlipIn(b) : draft' = [d EXCEPT !.body = b, !.slip = slip, !.type = type]
        /\ answers' = answers \/ answers' = Append(answers, AskProfile("fresh"))
    BY <2>1, Zenon DEF LoadVoiceDraft
  <2>3. GoodDeposit(deposit)
    <3>1. CASE dictated
      BY <3>1 DEF GoodDeposit
    <3>2. CASE ~dictated
      BY <1>2, <3>2, ProfilesAre
    <3> QED
      BY <3>1, <3>2
  <2> HIDE DEF deposit
  <2>4. /\ DraftTyped(d)
        /\ DOMAIN d = {"mode", "body", "slip", "type", "reverse", "choice", "total", "deposit", "from"}
    BY <2>3, EmptyTyped DEF EmptyDraftOf
  <2> HIDE DEF d
  <2>5. PICK b, slip : slip \in BOOLEAN /\ draft' = [d EXCEPT !.body = b, !.slip = slip, !.type = type]
    BY <2>2 DEF SlipIn
  <2>6. /\ draft'.mode = d.mode /\ draft'.type = type /\ draft'.slip = slip /\ draft'.from = d.from
        /\ draft'.deposit = d.deposit /\ slip \in BOOLEAN
    BY <2>4, <2>5
  <2>7. DraftTyped(draft')
    BY <2>4, <2>6 DEF DraftTyped
  <2>8. AnswersTyped'
    <3>1. CASE answers' = answers
      BY <1>1, <1>2, <3>1, AnswersStay
    <3>2. CASE answers' = Append(answers, AskProfile("fresh"))
      <4>1. Len(answers) + 1 <= MaxAnswers + Len(documents') + 1
        BY <1>1, <1>2, <2>2, CardData
      <4> QED
        BY <1>2, <3>2, <4>1, AskTyped
    <3> QED
      BY <2>2, <3>1, <3>2
  <2> QED
    BY <1>1, <2>7, <2>8 DEF CardTyped, DraftTyped, GoodDeposit
<1> QED
  BY <1>3, <1>4

\* A devis reloaded is named by its place among the documents.
LEMMA LoadSourceTyped ==
  ASSUME CardTyped, CardInv, NEW i \in DOMAIN documents, LoadSource(i)
  PROVE  CardTyped'
<1> DEFINE d == EmptyDraftOf("GUIDED", EmptyDeposit)
<1>1. PICK b, slip : slip \in BOOLEAN /\ Edit([d EXCEPT !.body = b, !.slip = slip, !.from = i])
  <2>1. \E b : \E slip \in SlipIn(b) : Edit([d EXCEPT !.body = b, !.slip = slip, !.from = i])
    BY Zenon DEF LoadSource
  <2>2. \A b : SlipIn(b) \subseteq BOOLEAN
    BY DEF SlipIn
  <2> QED
    BY <2>1, <2>2
<1>2. /\ DraftTyped(d)
      /\ DOMAIN d = {"mode", "body", "slip", "type", "reverse", "choice", "total", "deposit", "from"}
  BY ProfilesAre, EmptyTyped DEF EmptyDraftOf
<1> HIDE DEF d
<1> DEFINE e == [d EXCEPT !.body = b, !.slip = slip, !.from = i]
<1>3. /\ e.mode = d.mode /\ e.type = d.type /\ e.slip = slip /\ e.from = i /\ e.deposit = d.deposit
  BY <1>2
<1>4. i \in 0..MaxDocuments
  BY TotalsBounds DEF CardTyped, RowsTyped, IsList
<1>5. Edit(e) /\ slip \in BOOLEAN
  BY <1>1
<1> HIDE DEF e
<1> QED
  BY <1>2, <1>3, <1>4, <1>5, EditTyped DEF DraftTyped

\* So is one of mode manuel.
LEMMA LoadTableTyped ==
  ASSUME CardTyped, CardInv, NEW i \in DOMAIN documents, LoadSourceTable(i)
  PROVE  CardTyped'
<1> DEFINE d == EmptyDraftOf("MANUAL", EmptyDeposit)
<1>1. \E b, c : Edit([d EXCEPT !.body = b, !.choice = c, !.from = i])
  BY Zenon DEF LoadSourceTable
<1>2. PICK b, c : Edit([d EXCEPT !.body = b, !.choice = c, !.from = i])
  BY <1>1
<1>3. /\ DraftTyped(d)
      /\ DOMAIN d = {"mode", "body", "slip", "type", "reverse", "choice", "total", "deposit", "from"}
  BY ProfilesAre, EmptyTyped DEF EmptyDraftOf
<1> HIDE DEF d
<1> DEFINE e == [d EXCEPT !.body = b, !.choice = c, !.from = i]
<1>4. /\ e.mode = d.mode /\ e.type = d.type /\ e.slip = d.slip /\ e.from = i /\ e.deposit = d.deposit
  BY <1>3
<1>5. i \in 0..MaxDocuments
  BY TotalsBounds DEF CardTyped, RowsTyped, IsList
<1>6. Edit(e)
  BY <1>2
<1> HIDE DEF e
<1> QED
  BY <1>3, <1>4, <1>5, <1>6, EditTyped DEF DraftTyped

\* The profile changes, is asked for, read, received or lost.
LEMMA ProfileTyped ==
  ASSUME CardTyped, CardInv,
         \/ EditCompany \/ ConfirmLegalStatus \/ ReloadPage
         \/ \E i \in 1..MaxAnswers : Serve(i) \/ Receive(i) \/ Lose(i)
  PROVE  CardTyped'
<1>1. /\ UNCHANGED <<request, shown, documents, sent>> /\ RowsTyped' /\ AnswersTyped /\ DraftTyped(draft)
      /\ Len(answers) \in Nat /\ DOMAIN answers = 1..Len(answers) /\ Len(documents) \in Nat
  BY RowsStay DEF EditCompany, ConfirmLegalStatus, ReloadPage, Serve, Receive, Lose, CardTyped,
                  AnswersTyped, IsList, RowsTyped
<1>2. ASSUME UNCHANGED draft PROVE DraftTyped(draft)'
  BY <1>1, <1>2 DEF DraftTyped, GoodDeposit
<1>3. CASE EditCompany
  <2>1. /\ UNCHANGED <<cached, answers, hydrated, draft>>
        /\ profile' \in [liable : BOOLEAN, rate : Rates] /\ habit' \in Habits \cup {Unset}
    BY <1>3, ProfilesAre DEF EditCompany
  <2>2. AnswersTyped'
    BY <1>1, <2>1, AnswersStay
  <2> QED
    BY <1>1, <1>2, <2>1, <2>2 DEF CardTyped
<1>4. CASE ConfirmLegalStatus
  <2>1. /\ UNCHANGED <<profile, habit, cached, hydrated, draft>> /\ Len(answers) < MaxAnswers
        /\ answers' = Append(answers, AskProfile("confirm"))
    BY <1>4 DEF ConfirmLegalStatus
  <2>2. "confirm" \in Kinds /\ Len(answers) + 1 <= MaxAnswers + Len(documents') + 1
    BY <1>1, <2>1, CardData DEF Kinds
  <2>3. AnswersTyped'
    BY <1>1, <2>1, <2>2, AskTyped
  <2> QED
    BY <1>1, <1>2, <2>1, <2>3 DEF CardTyped
<1>5. CASE ReloadPage
  <2>1. /\ UNCHANGED <<profile, habit, draft>> /\ cached' = NoProfile /\ hydrated' = TRUE
        /\ answers' = <<AskProfile("open")>>
    BY <1>5 DEF ReloadPage
  <2>2. AskProfile("open") \in [kind : Kinds, profile : Profiles]
    BY ProfilesAre DEF AskProfile, Kinds
  <2>3. AnswersTyped'
    <3>1. /\ ToSet(answers') = {AskProfile("open")} /\ answers' \in Seq({AskProfile("open")})
          /\ DOMAIN answers' = {1} /\ answers'[1] = AskProfile("open") /\ Len(answers') = 1
      BY <2>1 DEF ToSet
    <3> QED
      BY <1>1, <2>2, <3>1, CardData DEF AnswersTyped, IsList
  <2> QED
    BY <1>1, <1>2, <2>1, <2>3, ProfilesAre DEF CardTyped
<1>6. CASE \E i \in 1..MaxAnswers : Serve(i)
  <2>1. PICK i \in 1..MaxAnswers : Serve(i)
    BY <1>6
  <2> DEFINE copy == [liable |-> profile'.liable, rate |-> profile'.rate, habit |-> habit, known |-> TRUE]
  <2>2. /\ i \in DOMAIN answers /\ UNCHANGED <<habit, cached, hydrated, draft>>
        /\ answers' = [answers EXCEPT ![i].profile = copy]
        /\ profile' = profile \/ \E c \in Companies : profile' = VatProfile(c)
    BY <2>1 DEF Serve
  <2>3. profile' \in [liable : BOOLEAN, rate : Rates]
    BY <2>2, ProfilesAre DEF CardTyped
  <2>4. copy \in Profiles
    BY <2>3 DEF Profiles, CardTyped
  <2> HIDE DEF copy
  <2>5. AnswersTyped'
    <3>1. answers[i] \in [kind : Kinds, profile : Profiles]
      BY <1>1, <2>2 DEF AnswersTyped
    <3> DEFINE a == [answers[i] EXCEPT !.profile = copy]
    <3>2. a \in [kind : Kinds, profile : Profiles] /\ answers' = [answers EXCEPT ![i] = a]
      BY <2>2, <2>4, <3>1
    <3> HIDE DEF a
    <3>3. /\ DOMAIN answers' = 1..Len(answers)
          /\ \A k \in DOMAIN answers' : answers'[k] \in [kind : Kinds, profile : Profiles]
          /\ answers' = [k \in 1..Len(answers) |-> answers'[k]]
      BY <1>1, <2>2, <3>2 DEF AnswersTyped
    <3>4. IsList(answers') /\ Len(answers') = Len(answers)
      BY <1>1, <3>3, ListOver
    <3> QED
      BY <1>1, <3>3, <3>4 DEF AnswersTyped, IsList
  <2> QED
    BY <1>1, <1>2, <2>2, <2>3, <2>5 DEF CardTyped
<1>7. ASSUME NEW i \in DOMAIN answers, answers' = RemoveAt(answers, i)
      PROVE  AnswersTyped'
  <2>1. /\ IsList(answers') /\ Len(answers') = Len(answers) - 1
        /\ \A k \in 1..(Len(answers) - 1) : answers'[k] = IF k < i THEN answers[k] ELSE answers[k + 1]
    BY <1>1, <1>7, ListRemove DEF AnswersTyped
  <2>2. DOMAIN answers' = 1..(Len(answers) - 1)
    BY <2>1 DEF IsList
  <2>3. \A k \in 1..(Len(answers) - 1) : k \in DOMAIN answers /\ k + 1 \in DOMAIN answers
    BY <1>1
  <2>4. ASSUME NEW k \in DOMAIN answers' PROVE answers'[k] \in [kind : Kinds, profile : Profiles]
    BY <1>1, <2>1, <2>2, <2>3, <2>4 DEF AnswersTyped
  <2> QED
    BY <1>1, <2>1, <2>4, CardData DEF AnswersTyped
<1>8. CASE \E i \in 1..MaxAnswers : Lose(i)
  <2>1. PICK i \in DOMAIN answers : answers' = RemoveAt(answers, i)
    BY <1>8 DEF Lose
  <2>2. UNCHANGED <<profile, habit, cached, hydrated, draft>>
    BY <1>8 DEF Lose
  <2> QED
    BY <1>1, <1>2, <1>7, <2>1, <2>2 DEF CardTyped
<1>9. CASE \E i \in 1..MaxAnswers : Receive(i)
  <2>1. PICK i \in 1..MaxAnswers : Receive(i)
    BY <1>9
  <2> DEFINE a == answers[i]
             d == DefaultDeposit(a.profile)
  <2>2. /\ i \in DOMAIN answers /\ answers' = RemoveAt(answers, i) /\ UNCHANGED <<profile, habit, hydrated>>
        /\ \/ cached' = a.profile \/ cached' = [a.profile EXCEPT !.habit = cached.habit] \/ cached' = cached
        /\ draft' = draft \/ draft' = [draft EXCEPT !.deposit = d]
    BY <2>1 DEF Receive
  <2>3. a.profile \in Profiles
    BY <1>1, <2>2 DEF AnswersTyped
  <2>4. GoodDeposit(d)
    BY <2>3, ProfilesAre
  <2>5. cached' \in Profiles
    <3>1. cached.habit \in Habits \cup {Unset} /\ cached \in Profiles
      BY DEF CardTyped, Profiles
    <3> HIDE DEF a
    <3>2. [a.profile EXCEPT !.habit = cached.habit] \in Profiles
      BY <2>3, <3>1 DEF Profiles
    <3> QED
      BY <2>2, <2>3, <3>1, <3>2
  <2> HIDE DEF d
  <2>6. DraftTyped(draft')
    <3>1. CASE draft' = draft
      BY <1>1, <3>1
    <3>2. CASE draft' = [draft EXCEPT !.deposit = d]
      <4>1. DOMAIN draft = {"mode", "body", "slip", "type", "reverse", "choice", "total", "deposit", "from"}
        BY DEF CardInv, GoodDraft
      <4>2. /\ draft'.mode = draft.mode /\ draft'.type = draft.type /\ draft'.slip = draft.slip
            /\ draft'.from = draft.from /\ draft'.deposit = d
        BY <3>2, <4>1
      <4> QED
        BY <1>1, <2>4, <4>2 DEF DraftTyped
    <3> QED
      BY <2>2, <3>1, <3>2
  <2>7. AnswersTyped'
    BY <1>7, <2>2
  <2> QED
    BY <1>1, <2>2, <2>5, <2>6, <2>7 DEF CardTyped, DraftTyped, GoodDeposit
<1> QED
  BY <1>3, <1>4, <1>5, <1>6, <1>8, <1>9

\* The request has the mode of the draft and names the same source.
LEMMA SubmitTyped ==
  ASSUME CardTyped, Submit
  PROVE  CardTyped'
<1>1. /\ request' = InvoiceRequest /\ sent'.known = TRUE
      /\ UNCHANGED <<shown, documents, profile, habit, cached, answers, hydrated, draft>>
  BY DEF Submit
<1>2. InvoiceRequest.mode \in {"GUIDED", "MANUAL"} /\ InvoiceRequest.from = draft.from
  BY DEF InvoiceRequest, ManualRequest, GuidedRequest
<1>3. RowsTyped' /\ AnswersTyped' /\ DraftTyped(draft)'
  BY <1>1, RowsStay, AnswersStay DEF CardTyped, DraftTyped, GoodDeposit
<1> QED
  BY <1>1, <1>2, <1>3 DEF CardTyped, DraftTyped

\* The document has the type the draft had; the draft starts afresh.
LEMMA CreateSentTyped ==
  ASSUME CardTyped, CardInv, CreateSent
  PROVE  CardTyped'
<1>1. /\ sent.known /\ CreateDocument(sent.draft.type) /\ StartAfresh
      /\ sent' = [sent EXCEPT !.served = profile] /\ UNCHANGED <<habit, cached, hydrated>>
  BY DEF CreateSent
<1>2. /\ request # NoBody /\ Len(documents) < MaxDocuments
      /\ request' = NoBody /\ shown' = NothingShown /\ profile' = profile
      /\ Persist(Expanded(request), sent.draft.type, VatOf(request), request.from, FALSE, shown)
  BY <1>1 DEF CreateDocument
<1>3. /\ sent.draft.type \in {"DEVIS", "FACTURE"} /\ "known" \in DOMAIN sent
      /\ request.from \in 0..MaxDocuments /\ shown = NothingShown
      /\ cached \in Profiles /\ draft.mode \in {"GUIDED", "MANUAL"} /\ AnswersTyped /\ RowsTyped
  BY <1>2 DEF CardInv, SentIsTheRequest, CardTyped, DraftTyped
<1> DEFINE d == [body |-> Expanded(request), type |-> sent.draft.type, vat |-> VatOf(request),
                 from |-> request.from, cloned |-> FALSE, agreed |-> shown]
<1>4. documents' = Append(documents, d)
  BY <1>2 DEF Persist
<1>5. RowTyped(d)
  <2>1. VatOf(request).applicable \in BOOLEAN
    BY DEF VatOf
  <2>2. IsTotals(shown.totals)
    BY <1>3 DEF IsTotals, NothingShown, NoTotals
  <2> QED
    BY <1>3, <2>1, <2>2 DEF RowTyped
<1> HIDE DEF d
<1>6. /\ Len(documents) \in Nat /\ DOMAIN documents = 1..Len(documents) /\ IsList(documents')
      /\ Len(documents') = Len(documents) + 1 /\ documents'[Len(documents) + 1] = d
      /\ \A i \in 1..Len(documents) : documents'[i] = documents[i]
  BY <1>3, <1>4, ListAppend DEF RowsTyped
<1>7. RowsTyped'
  <2>1. DOMAIN documents' = 1..(Len(documents) + 1)
    BY <1>6 DEF IsList
  <2>2. \A i \in DOMAIN documents' : i \in 1..Len(documents) \/ i = Len(documents) + 1
    BY <1>6, <2>1
  <2>3. ASSUME NEW i \in DOMAIN documents' PROVE RowTyped(documents'[i])
    BY <1>3, <1>5, <1>6, <2>2, <2>3 DEF RowsTyped
  <2>4. Len(documents') <= MaxDocuments
    BY <1>2, <1>6, TotalsBounds
  <2> QED
    BY <1>6, <2>3, <2>4 DEF RowsTyped, RowTyped
<1>8. AnswersTyped'
  <2>1. answers' = answers \/ answers' = Append(answers, AskProfile("fresh"))
    BY <1>1 DEF StartAfresh
  <2>2. Len(answers) \in Nat /\ IsList(answers) /\ "fresh" \in Kinds
    BY <1>3 DEF AnswersTyped, IsList, Kinds
  <2>3. Len(answers) + 1 <= MaxAnswers + Len(documents') + 1
    BY <1>3, <1>6, <2>2, CardData DEF AnswersTyped
  <2>4. CASE answers' = answers
    BY <1>3, <1>6, <2>2, <2>3, <2>4, CardData DEF AnswersTyped
  <2>5. CASE answers' = Append(answers, AskProfile("fresh"))
    BY <1>3, <2>2, <2>3, <2>5, AskTyped
  <2> QED
    BY <2>1, <2>4, <2>5
<1>9. DraftTyped(draft')
  BY <1>1, <1>3, ProfilesAre, EmptyTyped DEF StartAfresh
<1>10. sent'.known = sent.known
  BY <1>1, <1>3
<1> QED
  BY <1>1, <1>2, <1>7, <1>8, <1>9, <1>10 DEF CardTyped, DraftTyped, GoodDeposit

\* The card starts with nothing typed and its profile asked for.
LEMMA CardTypedInit == CardInit => CardTyped
<1> SUFFICES ASSUME CardInit PROVE CardTyped
  OBVIOUS
<1>1. /\ request = NoBody /\ shown = NothingShown /\ cached = NoProfile /\ hydrated = FALSE
      /\ sent = NotSent /\ answers = <<AskProfile("open")>>
      /\ profile \in [liable : BOOLEAN, rate : Rates] /\ habit \in Habits \cup {Unset}
  BY ProfilesAre DEF CardInit, CardStart
<1>2. DraftTyped(draft)
  BY EmptyTyped, ProfilesAre DEF CardInit
<1>3. RowsTyped
  <2>1. CASE documents = <<>>
    BY <2>1, TotalsBounds DEF RowsTyped, IsList
  <2>2. ASSUME NEW b, NEW vat, vat.applicable \in BOOLEAN,
               documents = <<[body |-> b, type |-> "DEVIS", vat |-> vat, from |-> 0,
                              cloned |-> FALSE, agreed |-> NothingShown]>>
        PROVE  RowsTyped
    <3> DEFINE d == [body |-> b, type |-> "DEVIS", vat |-> vat, from |-> 0,
                     cloned |-> FALSE, agreed |-> NothingShown]
    <3>1. RowTyped(d)
      <4>1. d.agreed = NothingShown /\ d.vat = vat /\ d.type = "DEVIS" /\ d.from = 0 /\ d.cloned = FALSE
        OBVIOUS
      <4>2. IsTotals(NothingShown.totals) /\ 0 \in 0..MaxDocuments
        BY TotalsBounds DEF NothingShown, NoTotals, IsTotals
      <4> QED
        BY <2>2, <4>1, <4>2 DEF RowTyped
    <3>2. documents = <<d>>
      BY <2>2
    <3> HIDE DEF d
    <3>3. /\ ToSet(documents) = {d} /\ documents \in Seq({d}) /\ DOMAIN documents = {1}
          /\ documents[1] = d /\ Len(documents) = 1
      BY <3>2 DEF ToSet
    <3> QED
      BY <3>1, <3>3, TotalsBounds, CardData DEF RowsTyped, IsList
  <2>3. \/ documents = <<>>
        \/ \E b, c, r : documents = <<[body |-> b, type |-> "DEVIS", vat |-> MadeUnder(c, r), from |-> 0,
                                       cloned |-> FALSE, agreed |-> NothingShown]>>
                      /\ c \in Companies
    <3>1. (CHOOSE c \in Companies : TRUE) \in Companies
      BY DEF CardInit
    <3> QED
      BY <3>1, Zenon DEF CardInit
  <2>4. ASSUME NEW c \in Companies, NEW r PROVE MadeUnder(c, r).applicable \in BOOLEAN
    BY CardData DEF MadeUnder
  <2>5. CASE documents # <<>>
    <3>1. PICK b, c, r : /\ documents = <<[body |-> b, type |-> "DEVIS", vat |-> MadeUnder(c, r), from |-> 0,
                                           cloned |-> FALSE, agreed |-> NothingShown]>>
                         /\ c \in Companies
      BY <2>3, <2>5
    <3>2. MadeUnder(c, r).applicable \in BOOLEAN
      BY <2>4, <3>1
    <3> QED
      BY <2>2, <3>1, <3>2
  <2> QED
    BY <2>1, <2>5
<1>4. AnswersTyped
  <2>1. AskProfile("open") \in [kind : Kinds, profile : Profiles]
    BY ProfilesAre DEF AskProfile, Kinds
  <2>2. /\ ToSet(answers) = {AskProfile("open")} /\ answers \in Seq({AskProfile("open")})
        /\ DOMAIN answers = {1} /\ answers[1] = AskProfile("open") /\ Len(answers) = 1
    BY <1>1 DEF ToSet
  <2>3. Len(documents) \in Nat
    BY <1>3 DEF RowsTyped, IsList
  <2> QED
    BY <2>1, <2>2, <2>3, CardData DEF AnswersTyped, IsList
<1> QED
  BY <1>1, <1>2, <1>3, <1>4, ProfilesAre DEF CardTyped, NotSent

\* Every step of the card keeps its types.
LEMMA CardTypedNext == CardTyped /\ CardInv /\ [CardNext]_<<cardVars, totalsVars>> => CardTyped'
<1> SUFFICES ASSUME CardTyped, CardInv, [CardNext]_<<cardVars, totalsVars>> PROVE CardTyped'
  OBVIOUS
<1>1. CASE EditCompany \/ ConfirmLegalStatus \/ ReloadPage
  BY <1>1, ProfileTyped
<1>2. CASE \E i \in 1..MaxAnswers : Serve(i) \/ Receive(i) \/ Lose(i)
  BY <1>2, ProfileTyped
<1>3. CASE \/ TypeBody \/ ToggleReverse \/ ResetDeposit
           \/ \E type \in {"DEVIS", "FACTURE"} : SetDocumentType(type)
           \/ \E choice : SetVatChoice(choice)
           \/ \E yes \in BOOLEAN : RequestDeposit(yes)
           \/ \E p \in Habits : SetDepositPercentage(p)
           \/ \E amount : OverrideDeposit(amount) \/ OverrideTotal(amount)
  BY <1>3, TypingTyped
<1>4. CASE \/ ResetDraft
           \/ \E type \in {"DEVIS", "FACTURE"}, p \in Habits \cup {Unset} : LoadVoiceDraft(type, p)
  BY <1>4, AfreshTyped
<1>5. CASE Submit
  BY <1>5, SubmitTyped
<1>6. CASE CreateSent
  BY <1>6, CreateSentTyped
<1>7. CASE CreateRefused
  <2>1. /\ request' = NoBody /\ sent' = NotSent
        /\ UNCHANGED <<shown, documents, profile, habit, cached, answers, hydrated, draft>>
    BY <1>7 DEF CreateRefused
  <2>2. RowsTyped' /\ AnswersTyped' /\ DraftTyped(draft)'
    BY <2>1, RowsStay, AnswersStay DEF CardTyped, DraftTyped, GoodDeposit
  <2> QED
    BY <2>1, <2>2 DEF CardTyped, NotSent
<1>8. CASE \E i \in DOMAIN documents : LoadSource(i) \/ LoadSourceTable(i)
  BY <1>8, LoadSourceTyped, LoadTableTyped
<1>9. CASE UNCHANGED <<cardVars, totalsVars>>
  <2>1. UNCHANGED <<profile, request, shown, documents, habit, cached, answers, hydrated, draft, sent>>
    BY <1>9 DEF cardVars, totalsVars
  <2>2. RowsTyped' /\ AnswersTyped' /\ DraftTyped(draft)'
    BY <2>1, RowsStay, AnswersStay DEF CardTyped, DraftTyped, GoodDeposit
  <2> QED
    BY <2>1, <2>2 DEF CardTyped
<1> QED
  BY <1>1, <1>2, <1>3, <1>4, <1>5, <1>6, <1>7, <1>8, <1>9, Zenon DEF CardNext

\* The card, its copy of the profile and the requests about it have the values the code
\* gives them (InvoiceDraftStore, ManualInvoiceDraftStore, InvoiceService.create); no more
\* requests are on their way than were allowed, and one for each document made.
THEOREM CardTypes == CardSpec => [](TotalsTypeOK /\ CardTypeOK)
<1>1. CardSpec => []CardTyped
  BY CardTypedInit, CardTypedNext, CardInvariant, PTL DEF CardSpec
<1> QED
  BY <1>1, CardTypedIs, PTL

-------------------------------------------------------------------------------
(* The types of a dictation                                                 *)

Places == {"customer", "lines", "serviceLines"}

\* What is still to be looked up is named by its list and its position.
ToLookUp(t) == t \subseteq Places \X Nat \X {"search", "entry", "hint"}

VoiceTyped ==
  /\ stage \in {"capture", "read", "search", "again", "review"}
  /\ IsList(spoken) /\ ToLookUp(todo)
  /\ DOMAIN entries \subseteq DOMAIN VoiceRows /\ habitual \in BOOLEAN /\ awaited \in BOOLEAN
  /\ review.deposit \in {"dictated", "habitual", "none", "typed"} /\ entryEdits \in 0..MaxEntryEdits

\* It says more than the type invariant.
LEMMA VoiceTypedIs == VoiceTyped => VoiceTypeOK
<1>1. DOMAIN KindOf = Places
  BY DEF KindOf, Places
<1> QED
  BY <1>1 DEF VoiceTyped, ToLookUp, VoiceTypeOK

\* Before the first dictation nothing is looked up.
LEMMA VoiceTypedInit == VoiceInit => VoiceTyped
<1> SUFFICES ASSUME VoiceInit PROVE VoiceTyped
  OBVIOUS
<1>1. /\ spoken = <<>> /\ stage = "capture" /\ todo = {} /\ entries = VoiceRows /\ habitual \in BOOLEAN
      /\ awaited = FALSE /\ review.deposit = "none" /\ entryEdits = 0
  BY DEF VoiceInit, NoReview
<1>2. IsList(spoken)
  BY <1>1 DEF IsList
<1>3. ToLookUp(todo)
  BY <1>1 DEF ToLookUp
<1>4. entryEdits \in 0..MaxEntryEdits
  BY <1>1, VoiceData
<1> QED
  BY <1>1, <1>2, <1>3, <1>4 DEF VoiceTyped

\* What a request looks up is named by positions in the dictation or in the draft.
LEMMA LookUpsTyped ==
  /\ \A d : IsList(d) => ToLookUp({<<"customer", 1, "search">>}
                                    \cup {<<"lines", i, "search">> : i \in ExtractLineCandidates(d)})
  /\ \A d : IsDictated(d) => ToLookUp(ToReadAgain(d))
<1>1. ASSUME NEW d, IsList(d)
      PROVE  ToLookUp({<<"customer", 1, "search">>}
                        \cup {<<"lines", i, "search">> : i \in ExtractLineCandidates(d)})
  <2>1. ExtractLineCandidates(d) \subseteq DOMAIN d
    BY DEF ExtractLineCandidates, Quantities
  <2>2. DOMAIN d \subseteq Nat
    BY <1>1 DEF IsList
  <2>3. ExtractLineCandidates(d) \subseteq Nat
    BY <2>1, <2>2
  <2> QED
    BY <2>3 DEF ToLookUp, Places
<1>2. ASSUME NEW d, IsDictated(d)
      PROVE  ToLookUp(ToReadAgain(d))
  <2>1. ASSUME NEW l \in Lists PROVE DOMAIN d[l] \subseteq Nat
    <3>1. d[l] \in Seq(ToSet(d[l]))
      BY <1>2 DEF IsDictated, Lists
    <3>2. Len(d[l]) \in Nat /\ DOMAIN d[l] = 1..Len(d[l])
      BY <3>1
    <3> QED
      BY <3>2
  <2>2. ASSUME NEW t \in ToReadAgain(d)
        PROVE  t \in Places \X Nat \X {"search", "entry", "hint"}
    <3>1. t = <<"customer", 1, "entry">> \/ \E l \in Lists : \E i \in DOMAIN d[l] : t = <<l, i, "entry">>
      BY <2>2 DEF ToReadAgain
    <3> QED
      BY <2>1, <3>1 DEF Places, Lists
  <2> QED
    BY <2>2 DEF ToLookUp
<1> QED
  BY <1>1, <1>2

\* A request looks up positions, and fewer as it goes.
LEMMA RequestTyped ==
  ASSUME VoiceTyped, VoiceInv,
         \/ Rejected \/ RequestFails \/ FindCompany \/ RulesAnswer \/ ModelAnswers
         \/ \E d \in Dictations : SubmitDictation(d)
         \/ \E t \in todo : Search(t) \/ FindByIdOrNull(t[1], t[2]) \/ RevalidateSuggestion(t[1], t[2])
  PROVE  VoiceTyped'
<1>1. ASSUME UNCHANGED <<spoken, entries, habitual, awaited, review, entryEdits>>,
             stage' \in {"capture", "read", "search", "again", "review"}, ToLookUp(todo')
      PROVE  VoiceTyped'
  BY <1>1 DEF VoiceTyped, IsList, ToLookUp
<1>2. CASE Rejected \/ RequestFails
  BY <1>1, <1>2 DEF Rejected, RequestFails, BackToCapture, ToLookUp
<1>3. CASE FindCompany
  <2>1. /\ UNCHANGED <<spoken, entries, habitual, awaited, review, entryEdits>> /\ stage' = "search"
        /\ todo' = {<<"customer", 1, "search">>}
                     \cup {<<"lines", i, "search">> : i \in ExtractLineCandidates(spoken)}
    BY <1>3 DEF FindCompany
  <2>2. IsList(spoken)
    BY DEF VoiceTyped
  <2>3. ToLookUp(todo')
    BY <2>1, <2>2, LookUpsTyped
  <2> QED
    BY <1>1, <2>1, <2>3
<1>4. CASE RulesAnswer \/ ModelAnswers
  <2>1. PICK d, by : IsDictated(d) /\ ValidateDraft(d, by)
    <3>1. CASE RulesAnswer
      BY <3>1 DEF RulesAnswer, VoiceInv
    <3>2. CASE ModelAnswers
      BY <3>2, VoiceData DEF ModelAnswers
    <3> QED
      BY <1>4, <3>1, <3>2
  <2>2. /\ UNCHANGED <<spoken, entries, habitual, awaited, review, entryEdits>> /\ stage' = "again"
        /\ todo' = ToReadAgain(d)
    BY <2>1 DEF ValidateDraft
  <2>3. ToLookUp(todo')
    BY <2>1, <2>2, LookUpsTyped
  <2> QED
    BY <1>1, <2>2, <2>3
<1>5. CASE \E d \in Dictations : SubmitDictation(d)
  <2>1. PICK d \in Dictations : SubmitDictation(d)
    BY <1>5
  <2>2. /\ spoken' = d /\ stage' = "read" /\ awaited' \in BOOLEAN /\ review' = NoReview
        /\ UNCHANGED <<todo, entries, habitual, entryEdits>>
    BY <2>1 DEF SubmitDictation
  <2>3. IsList(d)
    BY VoiceData DEF IsList
  <2>4. review'.deposit = "none"
    BY <2>2 DEF NoReview
  <2> QED
    BY <2>2, <2>3, <2>4 DEF VoiceTyped, IsList, ToLookUp
<1>6. CASE \E t \in todo : Search(t) \/ FindByIdOrNull(t[1], t[2]) \/ RevalidateSuggestion(t[1], t[2])
  <2>1. PICK t \in todo : Search(t) \/ FindByIdOrNull(t[1], t[2]) \/ RevalidateSuggestion(t[1], t[2])
    BY <1>6
  <2>2. /\ UNCHANGED <<spoken, entries, habitual, awaited, review, entryEdits>> /\ stage' = stage
        /\ todo' \subseteq todo \cup {<<t[1], t[2], "hint">>}
    BY <2>1, Zenon DEF Search, FindByIdOrNull, RevalidateSuggestion
  <2>3. t \in Places \X Nat \X {"search", "entry", "hint"} /\ ToLookUp(todo)
    BY DEF VoiceTyped, ToLookUp
  <2>4. <<t[1], t[2], "hint">> \in Places \X Nat \X {"search", "entry", "hint"}
    BY <2>3
  <2>5. ToLookUp(todo')
    BY <2>2, <2>3, <2>4 DEF ToLookUp
  <2> QED
    BY <1>1, <2>2, <2>5 DEF VoiceTyped
<1> QED
  BY <1>2, <1>3, <1>4, <1>5, <1>6

\* The screen's deposit is dictated, usual, typed or none.
LEMMA ReviewTyped ==
  ASSUME VoiceTyped, VoiceInv,
         \/ LoadFromVoiceDraft \/ ProfileArrives \/ StartAgain \/ OnDepositChange
         \/ \E type \in {"DEVIS", "FACTURE"} : ReviewDocumentType(type)
         \/ \E name : UpdateCustomer(name)
         \/ \E l \in Lists : \E i, name : UpdateLine(l, i, name)
         \/ \E l \in Lists : \E i : RemoveLine(l, i)
  PROVE  VoiceTyped'
<1>1. ASSUME UNCHANGED <<spoken, todo, entries, habitual, entryEdits>>, awaited' \in BOOLEAN,
             stage' \in {"capture", "read", "search", "again", "review"},
             review'.deposit \in {"dictated", "habitual", "none", "typed"}
      PROVE  VoiceTyped'
  BY <1>1 DEF VoiceTyped, IsList, ToLookUp
<1>2. stage = "review" => DOMAIN review = {"draft", "flags", "deposit"}
  BY DEF VoiceInv, ReviewHolds
<1>3. Habit \in {"habitual", "none"}
  BY DEF Habit
<1>4. CASE LoadFromVoiceDraft
  <2>1. /\ UNCHANGED <<spoken, todo, entries, habitual, entryEdits>> /\ stage' = "review"
        /\ \E x, y \in BOOLEAN : awaited' = (awaited \/ x) /\ review'.deposit = IF y THEN "dictated" ELSE Habit
    BY <1>4, Zenon DEF LoadFromVoiceDraft
  <2> QED
    BY <1>1, <1>3, <2>1 DEF VoiceTyped
<1>5. CASE ProfileArrives
  <2>1. /\ UNCHANGED <<spoken, stage, todo, entries, habitual, entryEdits>> /\ awaited' = FALSE
        /\ IF stage = "review" THEN review' = [review EXCEPT !.deposit = Habit] ELSE review' = review
    BY <1>5 DEF ProfileArrives
  <2>2. review'.deposit \in {"dictated", "habitual", "none", "typed"}
    BY <1>2, <1>3, <2>1 DEF VoiceTyped
  <2> QED
    BY <1>1, <2>1, <2>2 DEF VoiceTyped
<1>6. CASE StartAgain
  <2>1. /\ UNCHANGED <<spoken, todo, entries, habitual, awaited, entryEdits>> /\ stage' = "capture"
        /\ review'.deposit = "none"
    BY <1>6 DEF StartAgain, NoReview
  <2> QED
    BY <1>1, <2>1 DEF VoiceTyped
<1>7. ASSUME stage = "review", OnScreen, NEW d, review' = [review EXCEPT !.draft = d]
      PROVE  VoiceTyped'
  <2>1. review'.deposit = review.deposit
    BY <1>2, <1>7
  <2> QED
    BY <1>1, <1>7, <2>1 DEF VoiceTyped, OnScreen
<1>8. CASE OnDepositChange
  <2>1. /\ stage = "review" /\ OnScreen
        /\ review' = [review EXCEPT !.deposit = "typed", !.draft.depositFlag = ""]
    BY <1>8 DEF OnDepositChange
  <2>2. review'.deposit = "typed"
    BY <1>2, <2>1
  <2> QED
    BY <1>1, <2>1, <2>2 DEF VoiceTyped, OnScreen
<1>9. CASE \E type \in {"DEVIS", "FACTURE"} : ReviewDocumentType(type)
  <2>1. PICK type : /\ stage = "review" /\ OnScreen
                    /\ review' = [review EXCEPT !.draft.type = type, !.draft.typeFlag = ""]
    BY <1>9 DEF ReviewDocumentType
  <2>2. review'.deposit = review.deposit
    BY <1>2, <2>1
  <2> QED
    BY <1>1, <2>1, <2>2 DEF VoiceTyped, OnScreen
<1>10. CASE \E name : UpdateCustomer(name)
  BY <1>7, <1>10 DEF UpdateCustomer
<1>11. CASE \E l \in Lists : \E i, name : UpdateLine(l, i, name)
  <2>1. PICK l, i, name : UpdateLine(l, i, name)
    BY <1>11
  <2>2. /\ stage = "review" /\ OnScreen
        /\ review' = [review EXCEPT !.draft[l][i].name = name, !.draft[l][i].price = 0,
                                    !.flags[l][i] = Cleared]
    BY <2>1 DEF UpdateLine
  <2>3. review'.deposit = review.deposit
    BY <1>2, <2>2
  <2> QED
    BY <1>1, <2>2, <2>3 DEF VoiceTyped, OnScreen
<1>12. CASE \E l \in Lists : \E i : RemoveLine(l, i)
  <2>1. PICK l, i : RemoveLine(l, i)
    BY <1>12
  <2>2. /\ stage = "review" /\ OnScreen
        /\ review' = [review EXCEPT !.draft[l] = RemoveAt(@, i), !.flags[l] = RemoveAt(@, i)]
    BY <2>1 DEF RemoveLine
  <2>3. review'.deposit = review.deposit
    BY <1>2, <2>2
  <2> QED
    BY <1>1, <2>2, <2>3 DEF VoiceTyped, OnScreen
<1> QED
  BY <1>4, <1>5, <1>6, <1>8, <1>9, <1>10, <1>11, <1>12

\* No change of the catalogue adds an entry.
LEMMA CatalogueTyped ==
  ASSUME VoiceTyped, ChangeHabit \/ \E n : ChangeRow(n)
  PROVE  VoiceTyped'
<1>1. UNCHANGED <<spoken, stage, todo, awaited, review>>
  BY DEF ChangeHabit, ChangeRow
<1>2. entryEdits' \in 0..MaxEntryEdits
  <2>1. /\ entryEdits < MaxEntryEdits /\ entryEdits' = entryEdits + 1
        /\ entryEdits \in 0..MaxEntryEdits /\ MaxEntryEdits \in Nat
    BY VoiceData DEF ChangeHabit, ChangeRow, VoiceTyped
  <2> QED
    BY <2>1
<1>3. habitual' \in BOOLEAN
  BY DEF ChangeHabit, ChangeRow, VoiceTyped
<1>4. DOMAIN entries' \subseteq DOMAIN entries
  BY DEF ChangeHabit, ChangeRow
<1> QED
  BY <1>1, <1>2, <1>3, <1>4 DEF VoiceTyped, IsList, ToLookUp

\* Every step of a dictation keeps its types.
LEMMA VoiceTypedNext == VoiceTyped /\ VoiceInv /\ [VoiceNext]_voiceVars => VoiceTyped'
<1> SUFFICES ASSUME VoiceTyped, VoiceInv, [VoiceNext]_voiceVars PROVE VoiceTyped'
  OBVIOUS
<1>1. CASE \/ Rejected \/ RequestFails \/ FindCompany \/ RulesAnswer \/ ModelAnswers
           \/ \E d \in Dictations : SubmitDictation(d)
           \/ \E t \in todo : Search(t) \/ FindByIdOrNull(t[1], t[2]) \/ RevalidateSuggestion(t[1], t[2])
  BY <1>1, RequestTyped
<1>2. CASE \/ LoadFromVoiceDraft \/ ProfileArrives \/ StartAgain \/ OnDepositChange
           \/ \E type \in {"DEVIS", "FACTURE"} : ReviewDocumentType(type)
           \/ \E name : UpdateCustomer(name)
           \/ \E l \in Lists : \E i, name : UpdateLine(l, i, name)
           \/ \E l \in Lists : \E i : RemoveLine(l, i)
  BY <1>2, ReviewTyped
<1>3. CASE ChangeHabit \/ \E n : ChangeRow(n)
  BY <1>3, CatalogueTyped
<1>4. CASE UNCHANGED voiceVars
  BY <1>4 DEF voiceVars, VoiceTyped, IsList, ToLookUp
<1> QED
  BY <1>1, <1>2, <1>3, <1>4, Zenon DEF VoiceNext

\* A dictation, what it looks up and the screen have the values the code gives them
\* (InvoiceVoiceDraftService, VoiceReviewStore), and no change adds to the catalogue.
THEOREM VoiceTypes == VoiceSpec => []VoiceTypeOK
<1>1. VoiceSpec => []VoiceTyped
  BY VoiceTypedInit, VoiceTypedNext, DictationInvariant, PTL DEF VoiceSpec
<1> QED
  BY <1>1, VoiceTypedIs, PTL

-------------------------------------------------------------------------------
(* The parts side by side                                                   *)

\* Whichever part moves, it behaves as it does alone, and it is the same one for ever: a
\* run of MCDesk explores every part exactly as its own specification allows.
THEOREM DeskParts ==
  DeskSpec => /\ focus = "totals" => TotalsSpec
              /\ focus = "card" => CardSpec
              /\ focus = "table" => TableSpec
              /\ focus = "reports" => ReportsSpec
              /\ focus = "voice" => VoiceSpec
<1> DEFINE step == [DeskNext]_<<focus, totalsVars, cardVars, tableVars, reportVars, voiceVars>>
<1>1. /\ DeskInit /\ focus = "totals" => TotalsInit
      /\ DeskInit /\ focus = "card" => CardInit
      /\ DeskInit /\ focus = "table" => TableInit
      /\ DeskInit /\ focus = "reports" => ReportsInit
      /\ DeskInit /\ focus = "voice" => VoiceInit
  BY Zenon DEF DeskInit
<1>2. focus = "totals" /\ step => (focus = "totals")' /\ [TotalsNext]_totalsVars
  BY DEF DeskNext
<1>3. focus = "card" /\ step => (focus = "card")' /\ [CardNext]_<<cardVars, totalsVars>>
  BY DEF DeskNext
<1>4. focus = "table" /\ step => (focus = "table")' /\ [TableNext]_tableVars
  BY DEF DeskNext
<1>5. focus = "reports" /\ step => (focus = "reports")' /\ [ReportsNext]_reportVars
  BY DEF DeskNext
<1>6. focus = "voice" /\ step => (focus = "voice")' /\ [VoiceNext]_voiceVars
  BY DEF DeskNext
<1> QED
  BY <1>1, <1>2, <1>3, <1>4, <1>5, <1>6, PTL
     DEF DeskSpec, TotalsSpec, CardSpec, TableSpec, ReportsSpec, VoiceSpec

\* The types of the part that moves, for every part of MCDesk.
THEOREM DeskTypes == DeskSpec => []DeskTypeOK
<1> DEFINE parts == focus \in {"totals", "card", "table", "reports", "voice"}
           step == [DeskNext]_<<focus, totalsVars, cardVars, tableVars, reportVars, voiceVars>>
<1>1. DeskInit => parts
  BY Zenon DEF DeskInit
<1>2. parts /\ step => parts'
  BY DEF DeskNext
<1>3. /\ focus = "totals" /\ TotalsTypeOK => DeskTypeOK
      /\ focus = "card" /\ TotalsTypeOK /\ CardTypeOK => DeskTypeOK
      /\ focus = "table" /\ TableTypeOK => DeskTypeOK
      /\ focus = "reports" /\ ReportsTypeOK => DeskTypeOK
      /\ focus = "voice" /\ VoiceTypeOK => DeskTypeOK
  BY DEF DeskTypeOK
<1>4. parts => \/ focus = "totals" \/ focus = "card" \/ focus = "table" \/ focus = "reports"
               \/ focus = "voice"
  OBVIOUS
<1>5. /\ focus = "totals" /\ step => (focus = "totals")'
      /\ focus = "card" /\ step => (focus = "card")'
      /\ focus = "table" /\ step => (focus = "table")'
      /\ focus = "reports" /\ step => (focus = "reports")'
      /\ focus = "voice" /\ step => (focus = "voice")'
  BY DEF DeskNext
<1> HIDE DEF parts
<1> QED
  BY <1>1, <1>2, <1>3, <1>4, <1>5, DeskParts, TotalsTyped, CardTypes, TableTyped, ReportsTyped,
     VoiceTypes, PTL DEF DeskSpec

===================================================================================
