------------------------------ MODULE Screens ------------------------------
(***************************************************************************)
(* What the screens of apps/sales show of the documents: the quotations,   *)
(* orders and invoices that forms offer to go on with, the sums of the     *)
(* summaries and the rows of the sales report.  Each is computed from rows *)
(* that other requests write, by a query of its own, and of all dates and  *)
(* branches.                                                               *)
(***************************************************************************)
EXTENDS Aftersales

Standing == {i \in Invoices : invoices[i].status \notin {"ABSENT", "VOID"}}
Recordings(status) == {p \in Payments : payments[p].status = status}
Total(S, of) == SumFunctionOnSet(of, S)

\* The product list of every form: units that no order has reserved.
UnitsOffered(p) == Max({0, Available(p)})

\* The order form: quotations to make an order of.
QuotesOffered == {q \in Quotations : quotations[q] \in {"ACCEPTED", "SENT", "PENDING"}}

\* The quotation summary.
OpenQuotes == {q \in Quotations : quotations[q] \in {"DRAFT", "SENT", "PENDING"}}

\* The payment form: invoices that owe something.
InvoicesOffered ==
  {i \in Standing : /\ \/ invoices[i].balance > 0
                       \/ invoices[i].status \in {"UNPAID", "PARTIALLY_PAID", "OVERDUE"}
                    /\ invoices[i].balance > 0}

\* The invoice summary.
Outstanding == Total({i \in Standing : invoices[i].balance > 0}, [i \in Invoices |-> invoices[i].balance])

\* The payment summary.
ReceivedTotal == Total(Recordings("PAID"), [p \in Payments |-> payments[p].amount])

\* Mutant: the report counts void invoices.
ReportedEver == {i \in Invoices : invoices[i].status # "ABSENT"}

\* Invoices that the sales report and its summary count.
Reported == Standing

\* The sales report: sums of all customers, sums of orders and of direct invoices,
\* and payments by their method.
ReportRows ==
  [sales |-> Total(Reported, [i \in Invoices |-> invoices[i].total]),
   paid |-> Total(Reported, [i \in Invoices |-> invoices[i].paid]),
   balance |-> Total(Reported, [i \in Invoices |-> invoices[i].balance]),
   received |-> ReceivedTotal]

\* The figure above the report, by a query of its own.
Revenue == Total(Standing, [i \in Invoices |-> invoices[i].total])

ChannelRow(ordered) ==
  Total({i \in Reported : (invoices[i].order # "none") = ordered}, [i \in Invoices |-> invoices[i].total])

\* Mutant: an order that has been delivered in part is not offered again.
UnstartedStatuses == {"CONFIRMED", "AWAITING_FULFILLMENT"}

DeliverableStatuses == {"CONFIRMED", "AWAITING_FULFILLMENT", "PARTIALLY_FULFILLED"}

LeftToDeliver(o, p) == Max({0, Quantity[o][p] - fulfilled[o][p]})

\* The delivery form: orders with a line that is not full.
OrdersOffered ==
  {o \in Orders : orders[o] \in DeliverableStatuses /\ \E p \in Lines(o) : LeftToDeliver(o, p) > 0}

\* The order summary counts an order as open and as awaiting fulfilment.
OpenOrders == {o \in Orders : orders[o] \in DeliverableStatuses \union {"DRAFT", "PENDING"}}

\* The return form: units of an order line that no standing return has.
ReturnOffered(o, p) == Max({0, Quantity[o][p] - ReturnedUnits(o, p, "none")})

----------------------------------------------------------------------------

\* The screens agree with each other and with what can be done.  Whatever is owed is
\* on the payment form and in the summary, and the report's sales are no more than what
\* was paid and what is owed, however requests overlap, unless an edit and a payment
\* write the totals of one invoice from what they read of each other, or a PATCH of an
\* invoice says what is paid.  One at a time they are just that, and what the report
\* calls paid is what the payment pages received, but for payments that are edited or
\* deleted and amounts that the client of an invoice says are paid, which do not add up;
\* no unit is offered that was sold or that a confirmed order waits for; an order
\* delivered in part is offered until it is full and stays open; no quotation is
\* offered or open that has become an order; and the return form offers what is left of
\* a line that no return repeats.
ScreensAgree ==
  LET rows == ReportRows IN
  /\ Outstanding = rows.balance
  /\ \/ overlap /\ {"edit_invoice", "create_payment"} \subseteq clients
     \/ {"edit_invoice", "set_paid"} \subseteq clients
     \/ /\ InvoicesOffered = {i \in Standing : invoices[i].total > invoices[i].paid}
        /\ rows.sales <= rows.paid + rows.balance
  /\ rows.sales = Revenue
  /\ rows.sales = ChannelRow(TRUE) + ChannelRow(FALSE)
  /\ ~overlap =>
       /\ \/ clients \intersect {"edit_payment", "delete_payment", "set_paid"} # {}
          \/ /\ rows.sales = rows.paid + rows.balance
             /\ rows.paid = rows.received
       /\ Unless({"edit_order"},
            \A p \in Products :
              UnitsOffered(p) + Cardinality({s \in PosSales : sales[s] = [status |-> "PAID", product |-> p]})
                + Total({o \in Orders : orders[o] = "CONFIRMED"}, [o \in Orders |-> Quantity[o][p]]) <= Opening[p])
       /\ Unless({"edit_order"},
            \A o \in Orders : orders[o] = "PARTIALLY_FULFILLED" => o \in OrdersOffered \intersect OpenOrders)
       /\ \/ "accept_quote" \in clients
          \/ {"reject_quote", "edit_quote"} \subseteq clients
          \/ \A q \in QuotesOffered \union OpenQuotes : OrdersOf(q) = {}
       /\ \/ BroughtBack
          \/ {"edit_return", "repeat_lines"} \intersect clients # {}
          \/ \A o \in Orders, p \in Products :
               ReturnOffered(o, p) + ReturnedUnits(o, p, "none") = Quantity[o][p]
=============================================================================
