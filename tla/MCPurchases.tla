---------------------------- MODULE MCPurchases ----------------------------
(* Small instance of Spending, and with it of all of purchases, for TLC. *)
EXTENDS Spending, TLC

CONSTANTS w1, w2, g1, g2, p1, p2, r1, r2, c1, c2

\* Workers, receipts, payments, returns and clients' credits are told apart by nothing else.
RowSymmetry ==
  Permutations({w1, w2}) \union Permutations({g1, g2}) \union Permutations({p1, p2})
    \union Permutations({r1, r2}) \union Permutations({c1, c2})

TwoLines == <<2, 1>>

Row(line, got, accepted) ==
  [state |-> "CONFIRMED", line |-> line, received |-> got, accepted |-> accepted]
Fresh == [g \in Receipts |-> NoReceipt]
\* One receipt of line 1 is there: all of it accepted, or none.
Delivered == {[Fresh EXCEPT ![g] = Row(1, 2, 2)] : g \in Receipts}
Refused == {[Fresh EXCEPT ![g] = Row(1, 2, 0)] : g \in Receipts}

\* The shipment of the goods has come in; or it is on its way, not inspected yet.
In == [status |-> "RECEIVED", qc |-> "PASSED", receiver |-> TRUE]
Underway == [status |-> "IN_TRANSIT", qc |-> "PENDING", receiver |-> FALSE]
One(row) == [s \in Shipments |-> IF s = 1 THEN row ELSE NoShipment]

NoReturns == [r \in Returns |-> NoReturn]
\* Receipt g has been returned by r, and the credit of the return was deleted.
SentBack(g, r) ==
  [NoReturns EXCEPT ![r] = [status |-> "CREDIT_ISSUED", receipt |-> g, quantity |-> 2,
                          largest |-> 2]]

Start(receiptRows, shipment, returnRows, kinds) ==
  [receipts |-> receiptRows, shipments |-> One(shipment), returns |-> returnRows,
   kinds |-> kinds]

From(receiptSets, kinds) == {Start(rs, In, NoReturns, kinds) : rs \in receiptSets}
Awaited(kinds) == {Start(Fresh, Underway, NoReturns, kinds)}
Returned(kinds) ==
  {Start([Fresh EXCEPT ![g] = Row(1, 2, 2)], In, SentBack(g, r), kinds) :
     g \in Receipts, r \in Returns}

\* Bound: where a bill is edited and paid, or credits are posted, there is one bill;
\* where shipments and receipts are edited, one receipt; where a return is edited and
\* approved, one return.
Few ==
  /\ {"edit_bill", "pay"} \subseteq clients => bills[2] = NoBill
  /\ "post_credit" \in clients => bills[2] = NoBill
  /\ {"edit_shipment", "edit_receipt"} \subseteq clients => \E g \in Receipts : receipts[g] = NoReceipt
  /\ {"edit_return", "approve_return"} \subseteq clients => \E r \in Returns : returns[r] = NoReturn

PurchasesNext == AllNext /\ Few'

PurchasesSpec == AllInit /\ [][PurchasesNext]_allVars

\* What clients do in a behaviour: the goods of the order, or money over
\* receipts that are there.
MCStarts == UNION {
  From({Fresh}, {"order_status", "create_receipt", "confirm"}),
  From({Fresh}, {"edit_order", "create_receipt", "confirm"}),
  From({Fresh}, {"create_receipt", "delete_receipt", "confirm"}),
  From({Fresh}, {"create_receipt", "delete_receipt", "edit_receipt"}),
  From({Fresh}, {"create_receipt", "confirm", "create_bill", "create_return"}),
  From(Delivered, {"create_receipt", "edit_receipt", "confirm", "create_bill",
                   "approve_bill"}),
  From(Delivered, {"create_bill", "edit_bill", "approve_bill"}),
  From(Delivered, {"create_bill", "approve_bill", "repeat_lines"}),
  From(Delivered, {"create_bill", "edit_bill", "approve_bill", "pay"}),
  From(Refused, {"create_bill", "approve_bill"}),
  From(Delivered, {"create_bill", "delete_bill", "approve_bill", "pay", "delete_payment"}),
  From(Delivered, {"create_return", "submit_return", "edit_return"}),
  From(Delivered, {"create_return", "approve_return", "edit_return"}),
  From(Delivered, {"create_return", "submit_return", "approve_return", "withdraw_return"}),
  From(Delivered, {"create_return", "submit_return", "approve_return", "delete_return"}),
  From(Delivered, {"create_return", "approve_return", "repeat_lines"}),
  From(Delivered, {"create_bill", "pay", "create_return", "approve_return", "view_credit",
                   "open_credit"}),
  From(Delivered, {"create_bill", "approve_bill", "create_return", "approve_return",
                   "approve_credit", "open_credit"}),
  From(Delivered, {"create_bill", "create_return", "approve_return", "view_credit",
                   "open_credit", "void_status"}),
  Returned({"create_bill", "pay", "create_credit", "open_credit", "void_status"}),
  Returned({"create_bill", "create_credit", "edit_credit", "open_credit"}),
  Returned({"create_bill", "create_credit", "open_credit", "delete_credit",
            "delete_return"}),
  Awaited({"create_shipment", "shipment_status", "create_receipt"}),
  Awaited({"edit_shipment", "shipment_status", "create_receipt"}),
  Awaited({"edit_shipment", "create_receipt", "edit_receipt"}),
  Awaited({"shipment_status", "delete_shipment", "create_receipt", "edit_receipt"}),
  From({Fresh}, {"create_expense", "expense_status", "approve_expense", "pay_expense"}),
  From({Fresh}, {"create_expense", "edit_expense", "expense_status"}),
  From({Fresh}, {"create_expense", "delete_expense", "expense_status"}),
  From(Delivered, {"create_bill", "create_return", "approve_return", "approve_credit",
                   "post_credit", "void_credit"})
}
=============================================================================
