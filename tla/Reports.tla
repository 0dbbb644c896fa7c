--------------------------------- MODULE Reports --------------------------------
(***************************************************************************)
(* The sums the artisan declares and steers by: the quarterly statement,   *)
(* the activity and margin screens, the ceiling of a micro-entrepreneur.   *)
(* ReportsService and the period picker. Each screen reads the factures    *)
(* again, over a range of its own, and adds other amounts of the same      *)
(* rows; none is stored, and the weights come back in any order.           *)
(*                                                                         *)
(* Time is in moments: month m is 2m, and 2m+1 its last hours in UTC, when *)
(* the browser is already in month m+1. The picker counts in local months, *)
(* the server in UTC ones. The five highest entries a list keeps are not   *)
(* cut out of it.                                                          *)
(***************************************************************************)
EXTENDS InvoiceTotals

CONSTANTS
  Bills,         \* factures: [body, vat, customer, deposit (Unset: none asked)]
  Margins,       \* margins an item of the catalogue may declare
  Cotisations,   \* the rates an activity is charged, each rounded apart, in basis points
  QuarterMonths, \* months of a quarter (the code: 3)
  YearMonths,    \* months of a year (the code: 12)
  WindowMonths,  \* months of the rolling window (the code: 12)
  MaxBooked,     \* bound of the factures issued
  LastMoment     \* bound of the clock

ASSUME ReportBounds ==
  /\ {QuarterMonths, YearMonths, WindowMonths} \subseteq Nat \ {0}
  /\ MaxBooked \in Nat /\ LastMoment \in Nat

\* What the validators let through: the rows of a facture, each amount with its category and
\* whether it came from an item of the catalogue; the margin of an item; a rate of 100% at most.
IsBilledService(s, n) ==
  /\ s \in [amount : Nat, visible : BOOLEAN, weights : [1..n -> Nat], category : {s.category},
            item : BOOLEAN]
  /\ ~s.visible => Sigma(s.weights) > 0
IsBilledBody(b) ==
  /\ {"mode", "lines", "services", "remises", "reverse", "from", "liable", "rate"} \subseteq DOMAIN b
  /\ b.lines \in Seq(ToSet(b.lines)) /\ b.services \in Seq(ToSet(b.services)) /\ b.remises \in Seq(Nat)
  /\ \A k \in DOMAIN b.lines : IsLineItem(b.lines[k]) /\ b.lines[k].item \in BOOLEAN
  /\ \A j \in DOMAIN b.services : IsBilledService(b.services[j], Len(b.lines))
  /\ b.mode \in {"GUIDED", "MANUAL"} /\ b.rate \in Nat \cup {Unset}
  /\ b.mode = "MANUAL" => /\ b.lines = <<>> /\ b.services = <<>> /\ b.remises = <<>>
                          /\ {"rows", "subtotal", "vat", "total"} \subseteq DOMAIN b
                          /\ b.rows \in Seq(Nat) /\ {b.subtotal, b.vat, b.total} \subseteq Nat \cup {Unset}
ASSUME ReportData ==
  /\ \A bill \in Bills : /\ IsBilledBody(bill.body) /\ bill.deposit \in Nat \cup {Unset}
                         /\ bill.vat \in [applicable : BOOLEAN, rate : Nat]
  /\ \A m \in Margins : /\ m.mode \in {"NONE", "PERCENTAGE", "AMOUNT"} /\ m.value \in Nat
                        /\ m.mode = "PERCENTAGE" => m.value <= 10000
  /\ IsFiniteSet(DOMAIN Cotisations) /\ \A c \in DOMAIN Cotisations : Cotisations[c] \in Seq(0..10000)

VARIABLES
  book,   \* the factures issued, each a bill with its status and paidAt
  margin, \* what the item of the catalogue declares
  now     \* the present moment

reportVars == <<book, margin, now>>

NotPaid == -1
UtcMonth(t) == t \div 2
LocalMonth(t) == (t + 1) \div 2

-------------------------------------------------------------------------------
(* Actions                                                                  *)

ReportsInit == book = <<>> /\ margin \in Margins /\ now = 0

IssueFacture ==
  /\ Len(book) < MaxBooked
  /\ \E bill \in Bills :
       book' = Append(book, [bill |-> bill, status |-> "NON_PAYEE", paidAt |-> NotPaid])
  /\ UNCHANGED <<margin, now>>

\* updateStatus, one request at a time (its races are those of InvoiceRow).
SetStatus(i, to) ==
  /\ to = "ACOMPTE_VERSE" => book[i].bill.deposit # Unset
  /\ book' = [book EXCEPT ![i].status = to,
                ![i].paidAt = IF to = "PAYEE" THEN (IF @ = NotPaid THEN now ELSE @)
                              ELSE IF to # book[i].status THEN NotPaid ELSE @]
  /\ UNCHANGED <<margin, now>>

\* The artisan edits the item: the margin screen reads its present margin.
EditMargin == margin' \in Margins /\ UNCHANGED <<book, now>>

TimePasses == now < LastMoment /\ now' = now + 1 /\ UNCHANGED <<book, margin>>

ReportsNext ==
  \/ IssueFacture \/ EditMargin \/ TimePasses
  \/ \E i \in DOMAIN book, to \in {"NON_PAYEE", "ACOMPTE_VERSE", "PAYEE", "ANNULEE"} :
       SetStatus(i, to)

ReportsSpec == ReportsInit /\ [][ReportsNext]_reportVars

-------------------------------------------------------------------------------
(* What a screen reads: order[i] is the order the weights of i come back in *)

Readings ==
  LET orders(i) == Orders(book[i].bill.body)
  IN {order \in [DOMAIN book -> UNION {orders(i) : i \in DOMAIN book}] :
        \A i \in DOMAIN book : order[i] \in orders(i)}

FindPaidInRange(range) ==
  {i \in DOMAIN book : book[i].status = "PAYEE" /\ book[i].paidAt \in range}
FindOutstanding == {i \in DOMAIN book : book[i].status \in {"NON_PAYEE", "ACOMPTE_VERSE"}}

Body(i) == book[i].bill.body
TotalsOf(i, order) == BodyTotals(Body(i), book[i].bill.vat, order[i])

-------------------------------------------------------------------------------
(* Ranges: the picker's, by the local month m it stands in, and the server's *)

MonthStep(mode) == IF mode = "month" THEN 1 ELSE QuarterMonths
PeriodRange(mode, m) ==
  LET first == (m \div MonthStep(mode)) * MonthStep(mode)
  IN (2 * first - 1) .. (2 * (first + MonthStep(mode)) - 2)
\* Where "previous" stops, one shiftPeriod after the other, from today.
Periods(mode) ==
  {PeriodRange(mode, m) : m \in
     {m \in 0..LocalMonth(now) : (LocalMonth(now) - m) % MonthStep(mode) = 0}}

StartOfMonthsAgo(months) == 2 * (UtcMonth(now) - months)
Window == StartOfMonthsAgo(WindowMonths - 1) .. now
\* The months a screen shows, the quiet ones included.
MonthKeys == {UtcMonth(StartOfMonthsAgo(WindowMonths - 1)) + k : k \in 0..(WindowMonths - 1)}
YearToDate == 2 * (UtcMonth(now) \div YearMonths) * YearMonths .. now

-------------------------------------------------------------------------------
(* The quarterly statement and its estimate of the charges                  *)

Activities == DOMAIN Cotisations
Uncategorized == "NON_CATEGORISE"
CategoryOf(x) == IF x.category \in Activities THEN x.category ELSE Uncategorized

(* Mutant: a redistributed service is counted beside the lines it is folded into. *)
CountedWithSpread(body) == DOMAIN body.services
\* The services a sum of revenue adds to the lines.
Counted(body) == Visible(body)

\* What i puts in category c.
InCategory(i, order, c) ==
  LET body == Body(i)
      lines == LineTotals(body, order[i])
  IN IF body.mode = "MANUAL"
       THEN IF c = Uncategorized THEN TotalsOf(i, order).subtotal ELSE 0
       ELSE Sigma([k \in DOMAIN lines |-> IF CategoryOf(body.lines[k]) = c THEN lines[k] ELSE 0])
            + Amounts(body, {j \in Counted(body) : CategoryOf(body.services[j]) = c})
ByCategory(range, order) ==
  [c \in Activities \cup {Uncategorized} |->
     Sigma([i \in FindPaidInRange(range) |-> InCategory(i, order, c)])]
Declared(range, order) ==
  Sigma(ByCategory(range, order))
EstimatedCharges(range, order) ==
  LET charge(c) == [k \in DOMAIN Cotisations[c] |->
                      HalfUp(ByCategory(range, order)[c] * Cotisations[c][k], 10000)]
  IN Sigma([c \in Activities |-> Sigma(charge(c))])

-------------------------------------------------------------------------------
(* Activity: revenue after discounts, and what is still owed                *)

Revenue(S, order) == Sigma([i \in S |-> TotalsOf(i, order).subtotal])
RevenueByMonth(order) ==
  [m \in MonthKeys |->
     Revenue({i \in FindPaidInRange(Window) : UtcMonth(book[i].paidAt) = m}, order)]
RevenueByClient(order) ==
  [c \in {book[i].bill.customer : i \in FindPaidInRange(Window)} |->
     Revenue({i \in FindPaidInRange(Window) : book[i].bill.customer = c}, order)]
PlafondYearToDate(order) == Revenue(FindPaidInRange(YearToDate), order)

\* The share of the subtotal the deposit leaves, once it was received.
OutstandingHt(i, order) ==
  LET t == TotalsOf(i, order)
      deposit == book[i].bill.deposit
  IN IF book[i].status # "ACOMPTE_VERSE" \/ deposit \in {Unset, 0} \/ t.total <= 0 THEN t.subtotal
     ELSE HalfUp(t.subtotal * Max({0, t.total - deposit}), t.total)

-------------------------------------------------------------------------------
(* Margin: what each line and service leaves, by the item it came from      *)

\* count is in ten-thousandths of the unit; freehand has no item at all.
ResolveMargin(x, base, count) ==
  IF ~x.item THEN 0
  ELSE CASE margin.mode = "NONE"        -> Max({base, 0})
         [] margin.mode = "PERCENTAGE"  -> HalfUp(base * margin.value, 10000)
         [] margin.mode = "AMOUNT"      ->
              Min({HalfUp(margin.value * count, 10000), Max({base, 0})})

LineMargins(i, order) ==
  LET lines == LineTotals(Body(i), order[i])
  IN [k \in DOMAIN lines |->
        ResolveMargin(Body(i).lines[k], lines[k], BilledQuantity(Body(i).lines[k]))]
ServiceMargins(i) ==
  [j \in DOMAIN Body(i).services |->
     ResolveMargin(Body(i).services[j], Body(i).services[j].amount, 10000)]

\* Revenue, margin and what of the revenue has no item; a redistributed service is in the
\* revenue through its lines, in the margin on its own.
MarginOf(i, order) ==
  LET body == Body(i)
      lines == LineTotals(body, order[i])
      freehand == {j \in Counted(body) : ~body.services[j].item}
      subtotal == TotalsOf(i, order).subtotal
  IN IF body.mode = "MANUAL" THEN [revenue |-> subtotal, margin |-> 0, unknown |-> subtotal]
     ELSE [revenue |-> Sigma(lines) + Amounts(body, Counted(body)),
           margin |-> Sigma(LineMargins(i, order)) + Sigma(ServiceMargins(i)),
           unknown |-> Amounts(body, freehand)
             + Sigma([k \in DOMAIN lines |-> IF body.lines[k].item THEN 0 ELSE lines[k]])]
MarginTotal(S, order, figure) == Sigma([i \in S |-> MarginOf(i, order)[figure]])
MarginByMonth(order, figure) ==
  [m \in MonthKeys |->
     MarginTotal({i \in FindPaidInRange(Window) : UtcMonth(book[i].paidAt) = m}, order, figure)]
NetProfit(order) ==
  MarginTotal(FindPaidInRange(Window), order, "margin") - EstimatedCharges(Window, order)

-------------------------------------------------------------------------------
(* Properties                                                               *)

ReportsTypeOK ==
  /\ margin \in Margins /\ now \in 0..LastMoment /\ Len(book) <= MaxBooked
  /\ \A i \in DOMAIN book : /\ book[i].bill \in Bills
                            /\ book[i].paidAt \in {NotPaid} \cup 0..now


\* The most rates an activity is charged.
MostRates == Max({0} \cup {Len(Cotisations[c]) : c \in Activities})

\* Every euro is told once, and the same on every screen, whatever order each of them reads
\* the weights in. Going back in the picker, month by month or quarter by quarter, declares
\* each paid facture in exactly one period although its months are not the server's; the
\* margin screen's revenue is what the statement would declare over the same window, the
\* activity screen's the same less the discounts; the parts of a screen (months, clients,
\* facture by facture) add up to its totals; and a facture that is not cancelled is either
\* paid or still owed, for no more than its amount. What is left after the charges, read
\* again, moves by no more than the leftover cents a redistributed service can move do: each
\* by itself, and by rounding every rate of its activity another way.
ReportsAgree ==
  book # <<>> => \A again \in Readings :
    LET order == [i \in DOMAIN book |-> InPosition(Body(i))]
        paid == FindPaidInRange(Window)
        remises == Sigma([i \in paid |-> Sigma(Body(i).remises)])
        whole == Declared(0..now, order)
    IN /\ \A mode \in {"month", "quarter"} :
            Sigma([range \in Periods(mode) |-> Declared(range, again)]) = whole
       /\ MarginTotal(paid, again, "revenue") = Declared(Window, order)
       /\ Sigma(MarginByMonth(again, "revenue")) = Declared(Window, order)
       /\ Sigma(RevenueByMonth(order)) = Sigma(RevenueByClient(again))
       /\ Sigma(RevenueByMonth(order)) >= Declared(Window, again) - remises
       /\ (\A i \in paid : TotalsOf(i, order).subtotal > 0)
            => Sigma(RevenueByMonth(order)) = Declared(Window, again) - remises
       /\ MarginTotal(paid, order, "unknown") <= Declared(Window, again)
       /\ PlafondYearToDate(order) <= whole
       /\ LET leftovers == Sigma([i \in paid |->
                               Cardinality(SpreadServices(Body(i))) * (Len(Body(i).lines) \div 2)])
              slack == (1 + MostRates) * leftovers
          IN NetProfit(order) - NetProfit(again) \in -slack..slack
       /\ \A i \in DOMAIN book :
            /\ book[i].status # "ANNULEE" => (i \in FindPaidInRange(0..now)) # (i \in FindOutstanding)
            /\ OutstandingHt(i, order) \in 0..TotalsOf(i, again).subtotal
            /\ \A k \in DOMAIN LineMargins(i, order) :
                 LineMargins(i, order)[k] \in 0..Max({0, LineTotals(Body(i), order[i])[k]})

===============================================================================
