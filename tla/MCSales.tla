------------------------------ MODULE MCSales ------------------------------
(***************************************************************************)
(* Small instances of sales for TLC: the documents of Aftersales, and with *)
(* it of Sales and Selling, whose requests overlap, or the amounts that    *)
(* Pricing computes for them.  Where the shop is closed, documents run.    *)
(***************************************************************************)
EXTENDS Screens, Pricing, TLC

CONSTANTS w1, w2, o1, o2, o3, o4, i1, i2, p1, p2, s1, s2, q1, n1, n2, r1, r2

\* Workers and rows are told apart by nothing else.
RowSymmetry ==
  Permutations({w1, w2}) \union Permutations({i1, i2}) \union Permutations({p1, p2})
    \union Permutations({n1, n2}) \union Permutations({r1, r2})

\* Two orders, and two that may come of a quotation.  One wants both products, the
\* other two units of the first.
OrderLines == o1 :> <<1, 1>> @@ o2 :> <<2, 0>> @@ o3 :> <<1, 0>> @@ o4 :> <<1, 0>>
FirstStock == <<2, 1>>

Of(kinds) == [kinds : {kinds}, overlap : BOOLEAN]

\* What clients do in a behaviour.
MCStarts == UNION {
  Of({"confirm_order", "sell", "void_sale"}),
  Of({"confirm_order", "edit_order", "sell"}),
  Of({"edit_order", "convert_order", "void_invoice"}),
  Of({"create_invoice", "edit_invoice", "void_invoice", "delete_invoice"}),
  Of({"create_invoice", "create_payment"}),
  Of({"create_invoice", "create_payment", "void_invoice"}),
  Of({"create_invoice", "create_payment", "edit_invoice"}),
  Of({"create_invoice", "set_paid", "create_payment", "void_invoice"}),
  Of({"create_invoice", "set_paid", "edit_invoice", "create_payment"}),
  Of({"create_invoice", "name_order", "convert_order"}),
  Of({"convert_order", "edit_invoice", "name_order"}),
  Of({"create_invoice", "create_payment", "edit_payment", "delete_payment"}),
  Of({"convert_order", "edit_invoice", "delete_invoice"}),
  Of({"convert_order", "create_payment", "delete_invoice"}),
  Of({"edit_quote", "send_quote", "convert_quote", "reject_quote", "accept_quote"}),
  Of({"edit_quote", "convert_quote", "convert_order"}),
  Of({"create_note", "deliver_note", "edit_note"}),
  Of({"create_note", "dispatch_note", "edit_note"}),
  Of({"create_note", "deliver_note", "delete_note"}),
  Of({"create_note", "deliver_note", "edit_order"}),
  Of({"create_return", "edit_return", "delete_return"}),
  Of({"create_return", "approve_return", "reject_return", "complete_return"}),
  Of({"create_return", "submit_return", "approve_return", "cancel_return"}),
  Of({"create_return", "submit_return", "reject_return", "edit_return"}),
  Of({"create_return", "repeat_lines", "delete_return"})
}

Shut == [kinds |-> {}, lines |-> {}, charges |-> {}, portions |-> {}]
Line(quantity, price, rated) == [quantity |-> quantity, price |-> price, rated |-> rated, item |-> 0]
Charge(shipping, discount) == [shipping |-> shipping, discount |-> discount]
Shop(kinds, lines, charges, portions) ==
  [kinds |-> kinds, lines |-> lines, charges |-> charges, portions |-> portions]

\* Prices whose tax is half a cent, tax that rounds up and down, parts of a unit.
Baskets == {<<Line(q, p, r)>> : q \in {50, 100, 300}, p \in {1, 10, 30, 33, 99}, r \in BOOLEAN}
             \union {<<Line(100, p, TRUE), Line(q, 7, r)>> : p \in {10, 30}, q \in {150, 200}, r \in BOOLEAN}
TwoLines == {<<Line(200, 30, TRUE), Line(300, 7, FALSE)>>}
Usual == {Charge(0, 0), Charge(5, 2), Charge(0, 40)}

MCShops ==
  {Shut,
   Shop({"quote", "convert_quote", "recharge", "convert_order"}, TwoLines, Usual, {}),
   Shop({"quote", "convert_quote", "convert_order"}, Baskets, {Charge(5, 2)}, {}),
   Shop({"order", "bill", "convert_order", "void", "take_back"}, TwoLines, {Charge(0, 2)}, {100, 300}),
   Shop({"order", "edit_order", "bill", "unnamed", "past"}, TwoLines, {Charge(0, 2)}, {100}),
   Shop({"order", "bill", "repeat_lines", "take_back"}, TwoLines, {Charge(0, 2)}, {100}),
   Shop({"order", "take_back"}, Baskets, {Charge(5, 2)}, {50, 300}),
   Shop({"ring", "void_sale"}, Baskets, Usual, {})}

TradeInit ==
  /\ AllInit /\ PricingInit
  /\ shop # Shut => ~overlap /\ clients = {"confirm_order", "edit_order", "sell"}

\* Bound: where the payments or the invoice of an invoice are edited, there is one
\* invoice; where delivered notes are deleted, one note; and delivered notes, and edited
\* returns, are of one order.
Few ==
  /\ "create_payment" \in clients /\ {"edit_invoice", "edit_payment"} \intersect clients # {} =>
       Cardinality({i \in Invoices : invoices[i].status # "ABSENT"}) <= 1
  /\ "deliver_note" \in clients =>
       Cardinality({notes[n].order : n \in {x \in Notes : notes[x] # NoRow}}) <= 1
  /\ {"deliver_note", "delete_note"} \subseteq clients => \E n \in Notes : notes[n] = NoRow
  /\ "edit_return" \in clients =>
       Cardinality({saleReturns[r].order : r \in {x \in Returns : saleReturns[x] # NoRow}}) <= 1

TradeNext ==
  \/ shop = Shut /\ AllNext /\ Few' /\ UNCHANGED priceVars
  \/ shop # Shut /\ PricingNext /\ UNCHANGED allVars

TradeSpec == TradeInit /\ [][TradeNext]_<<allVars, priceVars>>
=============================================================================
