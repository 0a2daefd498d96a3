------------------------------- MODULE Offers -------------------------------
(***************************************************************************)
(* What the screens of apps/purchases show of an order: the lines that the *)
(* receipt form offers, the bills that the payment form offers, the amount *)
(* that the bill summary says is still payable.  Each is computed from     *)
(* rows that other requests write, by a query of its own.                  *)
(***************************************************************************)
EXTENDS Purchases

\* Mutant: what came in before is not subtracted.
CameInUnread(l) == 0

\* What confirmed receipts say has come in of a line, rejected goods included;
\* PurchaseOrderItem.received_quantity, which validation looks at, is not asked.
CameIn(l) == SumFunctionOnSet([g \in Receipts |-> receipts[g].received], Confirmed(l))

LeftToReceive(l) == Max({0, Ordered[l] - CameIn(l)})

\* Lines on the receipt form of an order whose shipment has come in.
OfferedLines ==
  {l \in Lines : order \in ReceivableStatuses /\ ReceivedBySomeone /\ LeftToReceive(l) > 0}

\* The receipt that the form proposes for a line.
Proposed(l) ==
  [state |-> "DRAFT", line |-> l, received |-> LeftToReceive(l), accepted |-> LeftToReceive(l)]

\* Bills on the payment form.
PayableBills == {b \in Bills : bills[b].balance > 0 /\ bills[b].status \notin {"PAID", "ABSENT"}}

\* total_payable of the bill summary.
TotalPayable ==
  SumFunctionOnSet([b \in Bills |-> bills[b].balance],
                   {b \in Bills : bills[b].status \notin {"PAID", "ABSENT"}})

\* What the receipt form proposes passes the validation of receipts, although the
\* form adds up receipts and validation asks the order's line.  And whatever is
\* owed shows: the summary's total is what is billed and not paid, and each bill
\* that owes something is on the payment form, whichever of a payment, a credit,
\* an approval and a stale edit wrote its status and its balance.
OffersFit ==
  /\ Without({"edit_receipt", "delete_receipt"},
       \A l \in OfferedLines : Proposed(l) \in ValidRows)
  /\ TotalPayable = SumFunctionOnSet([b \in Bills |-> bills[b].total - bills[b].paid], Bills)
  /\ \A b \in Bills : bills[b].total > bills[b].paid => b \in PayableBills
=============================================================================
