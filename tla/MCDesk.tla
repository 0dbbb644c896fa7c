--------------------------------- MODULE MCDesk --------------------------------
(***************************************************************************)
(* What the artisan has on the desk: the amounts of the documents on the   *)
(* server, the draft in the browser with the total it shows, the table of  *)
(* mode manuel, a dictation, and the reports. A behaviour moves one part,  *)
(* the focus, so that the state spaces add instead of multiplying.         *)
(***************************************************************************)
EXTENDS MCInvoiceTotals, DraftTotals, ManualTable, Reports, VoiceDraft

VARIABLE focus

mcDraftLine(area, quantity, price, waste, pack) ==
  [quantity |-> quantity, unitPrice |-> price, area |-> area, wasteTenths |-> waste,
   packaging |-> pack, roundUp |-> TRUE]
\* 9 m2 and a tenth of waste in packages of 3.3; half a piece, whose price is half a cent.
packageLine == mcDraftLine(TRUE, 9000, 100, 1, 3300)
pieceLine == mcDraftLine(FALSE, 500, 201, 1, 0)

fixedService(amount, visible) ==
  [pricing |-> "FIXED", amount |-> amount, visible |-> visible, strategy |-> "EQUAL",
   weights |-> <<0, 0>>]
percentService(basisPoints, visible) ==
  [fixedService(basisPoints, visible) EXCEPT !.pricing = "PERCENTAGE"]
percentRemise(basisPoints, line, service) ==
  [pricing |-> "PERCENTAGE", amount |-> basisPoints, line |-> line, service |-> service]
row(amount, described) == [described |-> described, amount |-> amount]

\* Percentages that do not divide, of a line, of a service and of everything, and a
\* discount whose line is gone; a table with a row that is not described.
mcDraftBodies ==
  [GUIDED |->
     {[lines |-> <<packageLine, pieceLine>>,
       services |-> <<fixedService(333, TRUE), percentService(1250, FALSE)>>,
       remises |-> <<percentRemise(3333, 0, 2), percentRemise(100, 3, 0)>>],
      [lines |-> <<>>, services |-> <<fixedService(50, TRUE)>>, remises |-> <<>>]},
   MANUAL |->
     {[rows |-> <<row(333, TRUE), row(100, FALSE)>>, subtotal |-> -1, vat |-> -1],
      [rows |-> <<row(333, TRUE)>>, subtotal |-> -1, vat |-> 10]}]
mcCompanies ==
  {[liable |-> FALSE, rate |-> 2000, habit |-> -1],
   [liable |-> TRUE, rate |-> 2000, habit |-> 3000]}

mcRow == [reverse |-> FALSE, from |-> 0, liable |-> "profile", rate |-> -1]
mcOf(x, category, item) == x @@ [category |-> category, item |-> item]
mcBill(customer, deposit, lines, services, remises) ==
  [customer |-> customer, deposit |-> deposit, vat |-> [applicable |-> TRUE, rate |-> 2000],
   body |-> mcRow @@ [mode |-> "GUIDED", lines |-> lines, services |-> services, remises |-> remises]]
mcSpread == [amount |-> 100, visible |-> FALSE, weights |-> <<1, 2>>]
mcShown == [amount |-> 40, visible |-> TRUE, weights |-> <<1>>]
\* A service spread over two activities, one billed apart by freehand with a deposit asked,
\* a discount larger than what it is taken from, and a table.
mcBills ==
  {mcBill("a", -1, <<mcOf(mcLine(1500, 33, 1, 0, FALSE), "VENTE", TRUE),
                     mcOf(mcLine(2000, 100, 0, 1500, TRUE), "BIC", FALSE)>>,
          <<mcOf(mcSpread, "BIC", TRUE)>>, <<50>>),
   mcBill("b", 100, <<mcOf(mcLine(2000, 100, 0, 1500, TRUE), "VENTE", TRUE)>>,
          <<mcOf(mcShown, "none", FALSE)>>, <<>>),
   mcBill("a", 10, <<mcOf(mcLine(1500, 33, 1, 0, FALSE), "BIC", TRUE)>>, <<>>, <<9000>>),
   [customer |-> "b", deposit |-> -1, vat |-> [applicable |-> TRUE, rate |-> 2000],
    body |-> mcRow @@
             [mode |-> "MANUAL", lines |-> <<>>, services |-> <<>>, remises |-> <<>>,
              rows |-> <<100, 250>>, subtotal |-> 300, vat |-> -1, total |-> -1]]}
mcMargins ==
  {[mode |-> "NONE", value |-> 0], [mode |-> "PERCENTAGE", value |-> 3333],
   [mode |-> "AMOUNT", value |-> 50]}
mcCotisations == [VENTE |-> <<1230, 100>>, BIC |-> <<2120, 170>>]

\* A rate and a product, a usual deposit and a name half known, a quantity of nothing and a
\* deposit without a rate, nothing at all.
mcDictations ==
  {<<"facture", "pour", "dupont", ",", "25", "m2", "de", "parquet", "et", "2", "heures", "de",
     "pose", ",", "acompte", "de", "30%">>,
   <<"devis", "pour", "durand", ",", "2", "trucs", "de", "colle", ",", "acompte", "habituel">>,
   <<"2", "heures", "de", "ponçage", "et", "25", "m2", ",", "acompte">>,
   <<"bonjour">>}
mcVoiceRow(kind, price, fixed) == [kind |-> kind, price |-> price, fixed |-> fixed]
mcVoiceRows ==
  [dupont |-> mcVoiceRow("customer", 0, FALSE), parquet |-> mcVoiceRow("product", 4, FALSE),
   colle |-> mcVoiceRow("product", 4, FALSE), pose |-> mcVoiceRow("service", 4, TRUE)]
mcAlike(heard, name, score) == [heard |-> heard, name |-> name, score |-> score]
mcLikeness ==
  {mcAlike(<<"dupont">>, "dupont", 100), mcAlike(<<"durand">>, "dupont", 30),
   mcAlike(<<"parquet">>, "parquet", 90), mcAlike(<<"pose">>, "pose", 80),
   mcAlike(<<"pose">>, "colle", 60), mcAlike(<<"trucs", "colle">>, "colle", 45),
   mcAlike(<<"ponçage">>, "pose", 40)}
\* Prices that are nobody's, ids that are not the company's, a doubt with a suggestion, a
\* customer with neither id nor doubt.
mcModelDraft(customer, product, flag, hint) ==
  [NoDraft EXCEPT !.type = "DEVIS", !.rate = TRUE, !.customer = <<Item(customer, 0, "", Nobody)>>,
                  !.lines = <<Item(product, 1, "", Nobody)>>,
                  !.serviceLines = <<Item("pose", 1, flag, hint)>>]
mcModelDrafts ==
  {mcModelDraft("dupont", "parquet", "low_confidence_match", "pose"),
   mcModelDraft("stranger", "stranger", "", Nobody), mcModelDraft("dupont", Nobody, "", Nobody),
   mcModelDraft(Nobody, "parquet", "", Nobody)}

-------------------------------------------------------------------------------
DeskTypeOK ==
  /\ focus \in {"totals", "card", "table", "reports", "voice"}
  /\ CASE focus = "totals"  -> TotalsTypeOK
       [] focus = "card"    -> TotalsTypeOK /\ CardTypeOK
       [] focus = "table"   -> TableTypeOK
       [] focus = "reports" -> ReportsTypeOK
       [] focus = "voice"   -> VoiceTypeOK

\* What the parts out of focus start and stay with.
TotalsAside ==
  /\ profile = [liable |-> FALSE, rate |-> Max(Rates)]
  /\ request = NoBody /\ shown = NothingShown /\ documents = <<>>
CardAside ==
  /\ CardStart /\ habit = Unset /\ draft = EmptyDraftOf("GUIDED", EmptyDeposit)
TableAside == TableInit /\ columns = DefaultColumns
ReportsAside == book = <<>> /\ margin = [mode |-> "NONE", value |-> 0] /\ now = 0
VoiceAside == VoiceInit /\ habitual

DeskInit ==
  \/ focus = "totals" /\ TotalsInit /\ CardAside /\ TableAside /\ ReportsAside /\ VoiceAside
  \/ focus = "card" /\ CardInit /\ TableAside /\ ReportsAside /\ VoiceAside
  \/ focus = "table" /\ TableInit /\ TotalsAside /\ CardAside /\ ReportsAside /\ VoiceAside
  \/ focus = "reports" /\ ReportsInit /\ TotalsAside /\ CardAside /\ TableAside /\ VoiceAside
  \/ focus = "voice" /\ VoiceInit /\ TotalsAside /\ CardAside /\ TableAside /\ ReportsAside

Still(parts, partVars) == IF focus \in parts THEN TRUE ELSE UNCHANGED partVars

DeskNext ==
  /\ UNCHANGED focus
  /\ Still({"totals", "card"}, totalsVars) /\ Still({"card"}, cardVars)
  /\ Still({"table"}, tableVars) /\ Still({"reports"}, reportVars) /\ Still({"voice"}, voiceVars)
  /\ \/ focus = "totals" /\ TotalsNext
     \/ focus = "card" /\ CardNext
     \/ focus = "table" /\ TableNext
     \/ focus = "reports" /\ ReportsNext
     \/ focus = "voice" /\ VoiceNext

DeskSpec ==
  DeskInit /\ [][DeskNext]_<<focus, totalsVars, cardVars, tableVars, reportVars, voiceVars>>
===============================================================================
