------------------------------ MODULE InvoiceTotals ------------------------------
(***************************************************************************)
(* Where the amounts of a document come from. Nothing computed is stored:  *)
(* the preview works on the request, every later read on the rows, a       *)
(* conversion copies the rows and a devis reloaded into the draft comes    *)
(* back as a request. The four must not drift apart.                       *)
(*                                                                         *)
(* Amounts are cents; a quantity is in thousandths of its unit. Decimals   *)
(* are exact. The weights of a redistributed service are rows keyed by     *)
(* line, which the repository reads back in no stated order: an order is   *)
(* any permutation of the lines.                                           *)
(***************************************************************************)
EXTENDS Integers, Sequences, SequencesExt, FiniteSetsExt

CONSTANTS
  LineItems,    \* product lines the artisan may type
  ServiceItems, \* services: amount, visibility and the weights typed for two lines
  Remises,      \* amounts of a discount
  ManualTables, \* bodies of mode manuel: amounts of the rows and the overrides (liable
                \* is "yes", "no" or "profile")
  Rates,        \* VAT rates, in basis points
  MaxLines,     \* bound of the product lines of a document
  MaxDocuments  \* bound of the documents created

ASSUME TotalsBounds == MaxLines \in Nat \ {0} /\ MaxDocuments \in Nat

Unset == -1 \* an absent override

\* What the validators of the requests let through.
IsLineItem(l) ==
  /\ {l.quantity, l.unitPrice, l.wasteTenths, l.packaging} \subseteq Nat
  /\ l.area \in BOOLEAN /\ l.roundUp \in BOOLEAN
IsServiceItem(s) ==
  /\ s.amount \in Nat /\ s.visible \in BOOLEAN
  /\ s.strategy = "EQUAL" \/ (s.weights \in Seq(Nat) /\ Len(s.weights) >= MaxLines)
IsManualTable(t) ==
  /\ t.rows \in Seq(Int) /\ {t.subtotal, t.vat, t.total} \subseteq Int
  /\ t.rate \in Nat \cup {Unset}

ASSUME TotalsData ==
  /\ \A l \in LineItems : IsLineItem(l)
  /\ \A s \in ServiceItems : IsServiceItem(s)
  /\ \A t \in ManualTables : IsManualTable(t)
  /\ Remises \subseteq Nat /\ Rates \subseteq Nat

VARIABLES
  profile,   \* what the company's profile says of VAT
  request,   \* the CreateInvoiceDto being prepared, or NoBody
  shown,     \* the totals the last preview of this request put on the screen
  documents  \* the rows of the documents created, with what was shown for them

totalsVars == <<profile, request, shown, documents>>

NoBody == [mode |-> "NONE"]
NoTotals == [subtotal |-> -1, vat |-> -1, total |-> -1]
NoVat == [applicable |-> FALSE, rate |-> -1]
NothingShown == [totals |-> NoTotals, vat |-> NoVat]

-------------------------------------------------------------------------------
(* InvoiceCalculationService                                                *)

\* As SumFunction: TLC's coverage expands the library's folds at every use.
Sigma(f) ==
  LET sum[S \in SUBSET DOMAIN f] ==
        IF S = {} THEN 0 ELSE LET x == CHOOSE x \in S : TRUE IN f[x] + sum[S \ {x}]
  IN sum[DOMAIN f]
HalfUp(n, d) == (2 * n + d) \div (2 * d)
CeilTo(n, d) == ((n + d - 1) \div d) * d

\* In ten-thousandths of the unit: waste counts only for a surface.
NeededQuantity(l) == l.quantity * (IF l.area THEN 10 + l.wasteTenths ELSE 10)
BilledQuantity(l) == IF l.roundUp /\ l.packaging > 0
                       THEN CeilTo(NeededQuantity(l), 10 * l.packaging)
                       ELSE NeededQuantity(l)
LineTotal(l) == HalfUp(BilledQuantity(l) * l.unitPrice, 10000)
EffectiveUnitPrice(total, billed) == IF billed = 0 THEN 0 ELSE HalfUp(total * 10000, billed)
VatAmount(subtotal, vat) == IF vat.applicable THEN HalfUp(subtotal * vat.rate, 10000) ELSE 0

\* The shares rounded down, then a leftover cent each to the largest remainders.
WeightedSplit(amount, weights) ==
  LET whole == Sigma(weights)
      share == [i \in DOMAIN weights |-> (amount * weights[i]) \div whole]
      remainder == [i \in DOMAIN weights |-> (amount * weights[i]) % whole]
      rank(i) == Quantify(DOMAIN weights,
                   LAMBDA j : remainder[j] > remainder[i] \/ (remainder[j] = remainder[i] /\ j < i))
      left == amount - Sigma(share)
  IN [i \in DOMAIN weights |-> share[i] + (IF rank(i) < left THEN 1 ELSE 0)]

-------------------------------------------------------------------------------
(* InvoiceMapper: the totals of a request and of the rows of a document     *)

Totals(subtotal, vat) ==
  LET tax == VatAmount(subtotal, vat)
  IN [subtotal |-> subtotal, vat |-> tax, total |-> subtotal + tax]

OrElse(override, computed) == IF override = Unset THEN computed ELSE override
ManualTotals(body, vat) ==
  LET subtotal == OrElse(body.subtotal, Sigma(body.rows))
      tax == OrElse(body.vat, VatAmount(subtotal, vat))
  IN [subtotal |-> subtotal, vat |-> tax, total |-> OrElse(body.total, subtotal + tax)]

\* The services billed apart and those folded into the lines, by their positions.
Visible(body) == {j \in DOMAIN body.services : body.services[j].visible}
SpreadServices(body) == {j \in DOMAIN body.services : ~body.services[j].visible}
Amounts(body, which) == Sigma([j \in which |-> body.services[j].amount])

\* What service s adds to each line when its weights are read in this order.
Distribution(s, order) ==
  LET read == WeightedSplit(s.amount, [k \in DOMAIN order |-> s.weights[order[k]]])
  IN [i \in DOMAIN order |-> read[CHOOSE k \in DOMAIN order : order[k] = i]]

\* The printed total of each line: its own and the shares folded into it.
LineTotals(body, order) ==
  LET shares == [j \in SpreadServices(body) |-> Distribution(body.services[j], order)]
  IN [i \in DOMAIN body.lines |->
        LineTotal(body.lines[i]) + Sigma([j \in DOMAIN shares |-> shares[j][i]])]
\* What is printed on a line l with this total.
DisplayUnitPrice(l, total) ==
  IF total = LineTotal(l) THEN l.unitPrice ELSE EffectiveUnitPrice(total, BilledQuantity(l))

GuidedTotals(body, vat, order) ==
  LET subtotal == Sigma(LineTotals(body, order)) + Amounts(body, Visible(body)) - Sigma(body.remises)
  IN Totals(Max({0, subtotal}), vat)

InPosition(body) == [i \in DOMAIN body.lines |-> i]
Orders(body) == {p \in [DOMAIN body.lines -> DOMAIN body.lines] : IsInjective(p)}

BodyTotals(body, vat, order) ==
  IF body.mode = "MANUAL" THEN ManualTotals(body, vat) ELSE GuidedTotals(body, vat, order)

-------------------------------------------------------------------------------
(* Requests the boundary accepts                                            *)

\* expandServiceLineWeights: EQUAL is a weight of 1 per line.
Expand(service, n) ==
  [amount |-> service.amount, visible |-> service.visible,
   weights |-> IF service.strategy = "EQUAL" THEN [i \in 1..n |-> 1]
               ELSE SubSeq(service.weights, 1, n)]

GuidedRequests ==
  {[mode |-> "GUIDED", lines |-> l, services |-> s, remises |-> r, reverse |-> FALSE, from |-> 0,
    liable |-> "profile", rate |-> Unset] :
     l \in BoundedSeq(LineItems, MaxLines) \ {<<>>},
     s \in {<<>>} \cup {<<x>> : x \in ServiceItems}, r \in {<<>>} \cup {<<x>> : x \in Remises}}
ManualRequests ==
  {[mode |-> "MANUAL", lines |-> <<>>, services |-> <<>>, remises |-> <<>>, reverse |-> FALSE,
    from |-> 0, liable |-> t.liable, rate |-> t.rate, rows |-> t.rows, subtotal |-> t.subtotal, vat |-> t.vat, total |-> t.total] :
     t \in ManualTables}

Expanded(r) ==
  [r EXCEPT !.services = [j \in DOMAIN r.services |-> Expand(r.services[j], Len(r.lines))]]

\* ServiceLineWeightsMatchLines
Valid(r) == \A j \in DOMAIN r.services :
              ~r.services[j].visible => Sigma(Expanded(r).services[j].weights) > 0

\* reverseChargeApplicable wins over everything, then what a MANUAL document overrides
\* (the validator forbids it in GUIDED), then what the profile says.
VatOf(r) ==
  [applicable |-> ~r.reverse /\ (r.liable = "yes" \/ (r.liable = "profile" /\ profile.liable)),
   rate |-> OrElse(r.rate, profile.rate)]

-------------------------------------------------------------------------------
(* Actions                                                                  *)

TotalsInit ==
  /\ profile \in [liable : BOOLEAN, rate : Rates]
  /\ request \in GuidedRequests \cup ManualRequests
  /\ shown = NothingShown /\ documents = <<>>

\* The company edits its legal status or its rate.
ChangeProfile ==
  /\ profile' \in [liable : BOOLEAN, rate : Rates]
  /\ UNCHANGED <<request, shown, documents>>

\* Autoliquidation, in either mode (a facture only).
SetReverseCharge ==
  /\ request # NoBody
  /\ request' = [request EXCEPT !.reverse = TRUE]
  /\ shown' = NothingShown
  /\ UNCHANGED <<profile, documents>>

\* toPreviewInvoiceWithTotals, toManualPreviewInvoiceWithTotals: from the request
\* alone, the lines in their positions.
Preview ==
  /\ request # NoBody /\ Valid(request)
  /\ LET body == Expanded(request)
     IN shown' = [totals |-> BodyTotals(body, VatOf(request), InPosition(body)),
                  vat |-> VatOf(request)]
  /\ UNCHANGED <<profile, request, documents>>

\* The rows of a new document; from is the one it is made of, or 0, cloned
\* whether as it is; agreed what the artisan last saw for it.
Persist(body, type, vat, from, cloned, agreed) ==
  documents' = Append(documents, [body |-> body, type |-> type, vat |-> vat,
                                  from |-> from, cloned |-> cloned, agreed |-> agreed])

\* InvoiceService.create: the VAT is the profile's at this moment, copied on the row.
CreateDocument(type) ==
  /\ request # NoBody /\ Valid(request) /\ Len(documents) < MaxDocuments
  /\ request.reverse \/ request.from # 0 => type = "FACTURE"
  /\ \A d \in ToSet(documents) : request.from # 0 => d.from # request.from
  /\ Persist(Expanded(request), type, VatOf(request), request.from, FALSE, shown)
  /\ request' = NoBody /\ shown' = NothingShown
  /\ UNCHANGED profile

(* Mutant: the weights are taken in the order they came. *)
WeightsAsRead(rows, lines) == [k \in DOMAIN rows |-> rows[k].weight]
\* The weight of each line of the source, found by the id of its line.
ClonedWeights(rows, lines) ==
  [i \in DOMAIN lines |->
     LET mine == {k \in DOMAIN rows : rows[k].line = i}
     IN IF mine = {} THEN 0 ELSE rows[CHOOSE k \in mine : TRUE].weight]
WeightRows(s, order) == [k \in DOMAIN order |-> [line |-> order[k], weight |-> s.weights[order[k]]]]

(* Mutant: a conversion takes the VAT of the day. *)
CurrentVat(i) == VatOf(documents[i].body)
SnapshotVat(i) == documents[i].vat

\* convertToFacture and convertToDevis: an untouched clone, VAT snapshot included.
Convert(i, type) ==
  /\ Len(documents) < MaxDocuments /\ documents[i].type # type
  /\ \A d \in ToSet(documents) : d.from # i
  /\ \E order \in Orders(documents[i].body) :
       LET source == documents[i].body
           clone(s) == IF s.visible THEN s
                       ELSE [s EXCEPT !.weights = ClonedWeights(WeightRows(s, order), source.lines)]
           body == [source EXCEPT !.services = [j \in DOMAIN @ |-> clone(@[j])]]
       IN Persist(body, type, SnapshotVat(i), i, TRUE,
                  [totals |-> BodyTotals(source, documents[i].vat, InPosition(source)),
                   vat |-> documents[i].vat])
  /\ UNCHANGED <<profile, request, shown>>

Load(i, mode, body) ==
  /\ request = NoBody
  /\ documents[i].type = "DEVIS" /\ documents[i].body.mode = mode
  /\ request' = body /\ shown' = NothingShown
  /\ UNCHANGED <<profile, documents>>

\* loadFromInvoice, mode rapide: the devis's own split, in cents, becomes the weights.
LoadDevis(i) ==
  \E order \in Orders(documents[i].body) :
    LET loaded(s) == [amount |-> s.amount, visible |-> s.visible, strategy |-> "WEIGHTED",
                      weights |-> IF s.visible THEN s.weights ELSE Distribution(s, order)]
    IN Load(i, "GUIDED", [documents[i].body EXCEPT !.reverse = FALSE, !.from = i,
                            !.services = [j \in DOMAIN @ |-> loaded(@[j])]])

\* loadFromInvoice, mode manuel: the VAT of the devis becomes the choice of the facture,
\* and what was typed over its subtotal, its VAT and its total is left blank.
LoadDevisTable(i) ==
  Load(i, "MANUAL", [documents[i].body EXCEPT !.reverse = FALSE, !.from = i,
                       !.liable = IF documents[i].vat.applicable THEN "yes" ELSE "no",
                       !.rate = documents[i].vat.rate,
                       !.subtotal = Unset, !.vat = Unset, !.total = Unset])

TotalsNext ==
  \/ ChangeProfile \/ SetReverseCharge \/ Preview
  \/ \E type \in {"DEVIS", "FACTURE"} : CreateDocument(type)
  \/ \E i \in DOMAIN documents :
       LoadDevis(i) \/ LoadDevisTable(i) \/ \E type \in {"DEVIS", "FACTURE"} : Convert(i, type)

TotalsSpec == TotalsInit /\ [][TotalsNext]_totalsVars

-------------------------------------------------------------------------------
(* Factur-X: the header of the XML and its lines                            *)

XmlLines(d) ==
  IF d.body.mode = "MANUAL" THEN Sigma(d.body.rows)
  ELSE Sigma(LineTotals(d.body, InPosition(d.body))) + Amounts(d.body, Visible(d.body))
HeaderLineTotal(d) ==
  BodyTotals(d.body, d.vat, InPosition(d.body)).subtotal + Sigma(d.body.remises)

-------------------------------------------------------------------------------
(* Properties                                                               *)

IsTotals(t) == t \in [subtotal : Int, vat : Int, total : Int]
TotalsTypeOK ==
  /\ profile \in [liable : BOOLEAN, rate : Rates]
  /\ request.mode \in {"NONE", "GUIDED", "MANUAL"}
  /\ IsTotals(shown.totals) /\ Len(documents) <= MaxDocuments
  /\ \A d \in ToSet(documents) :
       /\ d.type \in {"DEVIS", "FACTURE"} /\ d.from \in 0..MaxDocuments /\ d.cloned \in BOOLEAN
       /\ d.vat.applicable \in BOOLEAN /\ IsTotals(d.agreed.totals)

Subtotal(d, order) == BodyTotals(d.body, d.vat, order).subtotal
\* Made of another document, nothing but its shares of the services typed again.
Untouched(d) ==
  /\ d.from # 0
  /\ LET source == documents[d.from].body
         amounts(body) == [j \in DOMAIN body.services |->
                             <<body.services[j].amount, body.services[j].visible>>]
     IN d.body.lines = source.lines /\ d.body.remises = source.remises /\ amounts(d.body) = amounts(source)

\* Neither table typed over, row for row the same, and no other VAT chosen in the draft.
AllComputed(body) == {body.subtotal, body.vat, body.total} = {Unset}
Reconciles(d) ==
  /\ d.from # 0 /\ d.body.mode = "MANUAL" /\ ~d.body.reverse /\ AllComputed(d.body)
  /\ LET source == documents[d.from]
     IN /\ source.body.mode = "MANUAL" /\ d.body.rows = source.body.rows /\ AllComputed(source.body)
        /\ d.body.liable = "profile"
             \/ [applicable |-> d.body.liable = "yes", rate |-> d.body.rate] = source.vat

\* A document never shows another amount than the one its artisan agreed to: every read
\* of its rows gives the totals of the document it was cloned from, or of the preview it
\* was created from unless the profile's VAT changed since. Reloaded into the draft and
\* left as it is, a devis of mode rapide keeps its amount before VAT; one of mode manuel
\* keeps every amount, whatever the profile says by then, unless one of the three was
\* typed over, which the reload forgets (manual-invoice-draft.store.ts, loadFromInvoice).
TotalsAgree ==
  \A d \in ToSet(documents) : \A order \in Orders(d.body) :
    /\ d.agreed # NothingShown =>
         /\ Subtotal(d, order) = d.agreed.totals.subtotal
         /\ d.cloned \/ d.agreed.vat = d.vat => BodyTotals(d.body, d.vat, order) = d.agreed.totals
    /\ Untouched(d) /\ d.body.mode = "GUIDED" =>
         Subtotal(d, order) = Subtotal(documents[d.from], InPosition(d.body))
    /\ Reconciles(d) =>
         BodyTotals(d.body, d.vat, order) =
           BodyTotals(documents[d.from].body, documents[d.from].vat, order)

\* Of a redistributed service each line gets its proportion rounded down or up.
SharesExactly(s, order) ==
  LET share == Distribution(s, order)
      whole == Sigma(s.weights)
  IN /\ Sigma(share) = s.amount
     /\ \A i \in DOMAIN share :
          LET proportion == (s.amount * s.weights[i]) \div whole
          IN /\ share[i] \in {proportion, proportion + 1}
             /\ s.weights[i] = 0 => share[i] = 0

\* The lines tell the same story as the totals. A redistributed service costs the document
\* exactly its amount, whatever order its weights come back in: no cent is lost or
\* invented, and a line of weight 0 gets nothing; a line of a converted document is the
\* source's to the cent a service's leftover may move (its weights followed their lines);
\* and the unit price printed, recomputed when a share was folded in, gives the line's
\* total back up to its rounding.
LinesAgree ==
  \A d \in ToSet(documents) : \A order \in Orders(d.body) :
    /\ \A j \in SpreadServices(d.body) : SharesExactly(d.body.services[j], order)
    /\ \A i \in DOMAIN d.body.lines :
         LET mine == LineTotals(d.body, order)[i]
             theirs == LineTotals(documents[d.from].body, InPosition(d.body))[i]
             slack == Cardinality(SpreadServices(d.body))
             billed == BilledQuantity(d.body.lines[i])
             product == DisplayUnitPrice(d.body.lines[i], mine) * billed
             rounding == 5000 + billed \div 2
         IN /\ Untouched(d) => mine - theirs \in -slack..slack
            /\ billed # 0 => product - mine * 10000 \in -rounding..rounding

\* The Factur-X header spells out the sum of the lines before the discounts "or the
\* Schematron cross-check between the header total and the sum of every line's own
\* LineTotalAmount fails" (facturx-invoice.mapper.ts): an over-discounted facture floors
\* its subtotal and an overridden one replaces it, and the header no longer adds up.
HeaderAddsUp ==
  \A d \in ToSet(documents) : d.type = "FACTURE" => HeaderLineTotal(d) = XmlLines(d)

===============================================================================
