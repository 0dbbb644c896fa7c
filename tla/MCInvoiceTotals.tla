---------------------------- MODULE MCInvoiceTotals ----------------------------
(* Instances of InvoiceTotals for TLC: small amounts that do not divide.   *)
EXTENDS InvoiceTotals

\* One line rounded by its waste and its packaging, and one that is not.
mcLine(quantity, price, waste, pack, roundUp) ==
  [quantity |-> quantity, unitPrice |-> price, area |-> TRUE, wasteTenths |-> waste,
   packaging |-> pack, roundUp |-> roundUp]
mcLineItems == {mcLine(1500, 33, 1, 0, FALSE), mcLine(2000, 100, 0, 1500, TRUE)}

\* Amounts that two lines cannot share without a leftover cent, and nothing at all.
mcService(amount, visible, strategy, weights) ==
  [amount |-> amount, visible |-> visible, strategy |-> strategy, weights |-> weights]
mcServiceItems ==
  {mcService(101, FALSE, "EQUAL", <<0, 0, 0>>), mcService(100, FALSE, "WEIGHTED", <<1, 2, 0>>),
   mcService(40, TRUE, "EQUAL", <<0, 0, 0>>), mcService(0, FALSE, "EQUAL", <<0, 0, 0>>)}

\* Tables with a rate of their own, under the profile's VAT, and with totals typed over.
mcManualTables ==
  {[rows |-> <<100, 250>>, subtotal |-> -1, vat |-> -1, total |-> -1,
    liable |-> "yes", rate |-> 1000],
   [rows |-> <<330>>, subtotal |-> -1, vat |-> -1, total |-> -1,
    liable |-> "profile", rate |-> -1],
   [rows |-> <<100>>, subtotal |-> 90, vat |-> -1, total |-> 130,
    liable |-> "profile", rate |-> -1]}
===============================================================================
