------------------------------ MODULE Pricing ------------------------------
(***************************************************************************)
(* The amounts of a sale in apps/sales: the lines of a quotation, of the   *)
(* order it becomes, of the invoices of that order, of a POS sale and of a *)
(* credit, with their tax, and the totals that each document keeps.        *)
(*                                                                         *)
(* Money is in cents and quantities are in hundredths of a unit.  Requests *)
(* are served one at a time; Sales and Aftersales have them overlap.  The  *)
(* line serializers declare tax_inclusive on a class that is no serializer *)
(* and so never see it: every line is priced without its tax.              *)
(***************************************************************************)
EXTENDS Integers, Sequences, FiniteSets, FiniteSetsExt, SequencesExt

CONSTANTS
  Bills,   \* primary keys of SalesInvoice
  Shops    \* what clients do in a behaviour: kinds of request, lines, charges, portions

VARIABLES
  shop,     \* the kinds of request that clients send, and the amounts in them
  quote,    \* a Quotation
  placed,   \* the SalesOrder made from it, or by hand
  bills,    \* SalesInvoice rows
  till,     \* a POSSale
  credit    \* a SalesReturn of the order

priceVars == <<shop, quote, placed, bills, till, credit>>

Unit == 100
NoDocument == [state |-> "ABSENT", lines |-> <<>>, subtotal |-> 0, vat |-> 0,
               shipping |-> 0, discount |-> 0, total |-> 0, of |-> "none", cash |-> 0, card |-> 0,
               taken |-> 0]

ASSUME PricingAssumption ==
  \A s \in Shops : \A lines \in s.lines : \A n \in DOMAIN lines :
    lines[n].quantity \in Nat \ {0} /\ lines[n].price \in Nat

PricingInit ==
  /\ shop \in Shops
  /\ quote = NoDocument /\ placed = NoDocument
  /\ bills = [b \in Bills |-> NoDocument]
  /\ till = NoDocument
  /\ credit = NoDocument

Wants(kind) == kind \in shop.kinds

----------------------------------------------------------------------------
(* Lines and totals. *)

\* Decimal.quantize of n / d: half-way goes to the even neighbour.
HalfEven(n, d) ==
  LET floor == n \div d
      over == 2 * (n % d)
  IN IF over > d \/ (over = d /\ floor % 2 = 1) THEN floor + 1 ELSE floor

Taxable(l) == HalfEven(l.quantity * l.price, Unit)

\* Mutant: the tax alone is rounded half up.
TaxHalfUp(l) == IF l.rated THEN (5 * l.quantity * l.price + 50 * Unit) \div (100 * Unit) ELSE 0

Tax(l) == IF l.rated THEN HalfEven(5 * l.quantity * l.price, 100 * Unit) ELSE 0
LineTotal(l) ==
  IF l.rated THEN HalfEven(105 * l.quantity * l.price, 100 * Unit) ELSE Taxable(l)

\* A line as it is saved: with its total, and the order line that it invoices.
Saved(l) == [quantity |-> l.quantity, price |-> l.price, rated |-> l.rated,
             total |-> LineTotal(l), item |-> l.item]
SavedLines(lines) == [n \in DOMAIN lines |-> Saved(lines[n])]

Over(lines, Amount(_)) == MapThenSumSet(LAMBDA n : Amount(lines[n]), DOMAIN lines)

\* Mutant: the discount is taken off before the shipping, and never below zero.
DiscountedFirst(subtotal, vat, c) == Max({0, subtotal + vat - c.discount}) + c.shipping

TotalOf(subtotal, vat, c) == Max({0, subtotal + vat + c.shipping - c.discount})

\* A document with its lines, and the amounts that it keeps of them.
Document(lines, c) ==
  [NoDocument EXCEPT
     !.state = "OPEN", !.lines = SavedLines(lines),
     !.subtotal = Over(lines, Taxable), !.vat = Over(lines, Tax),
     !.shipping = c.shipping, !.discount = c.discount,
     !.total = TotalOf(Over(lines, Taxable), Over(lines, Tax), c)]

Charges(doc) == [shipping |-> doc.shipping, discount |-> doc.discount]

\* PATCH without lines: the charges change and the total stays.
Recharged(doc, c) == [doc EXCEPT !.shipping = c.shipping, !.discount = c.discount]

----------------------------------------------------------------------------
(* Quotations and orders. *)

WriteQuote ==
  /\ Wants("quote") /\ quote.state # "CONVERTED"
  /\ \/ \E lines \in shop.lines, c \in shop.charges : quote' = Document(lines, c)
     \/ /\ Wants("recharge") /\ quote.state = "OPEN"
        /\ \E c \in shop.charges : quote' = Recharged(quote, c)
  /\ UNCHANGED <<shop, placed, bills, till, credit>>

\* The order has the amounts of the quotation, and its lines without their treatment.
ConvertQuote ==
  /\ Wants("convert_quote") /\ quote.state = "OPEN" /\ placed = NoDocument
  /\ placed' = [quote EXCEPT !.lines =
                  [n \in DOMAIN quote.lines |-> [quote.lines[n] EXCEPT !.rated = TRUE]]]
  /\ quote' = [quote EXCEPT !.state = "CONVERTED"]
  /\ UNCHANGED <<shop, bills, till, credit>>

\* The lines of an invoice forget an order line that is deleted.
Unlinked(lines) == [n \in DOMAIN lines |-> [lines[n] EXCEPT !.item = 0]]

\* The lines of an order are deleted and created again, which a return of one forbids.
WriteOrder ==
  /\ \/ /\ Wants(IF placed = NoDocument THEN "order" ELSE "edit_order")
        /\ credit = NoDocument
        /\ \E lines \in shop.lines, c \in shop.charges : placed' = Document(lines, c)
        /\ bills' = [b \in Bills |-> [bills[b] EXCEPT !.lines = Unlinked(bills[b].lines)]]
     \/ /\ placed # NoDocument /\ Wants("recharge")
        /\ \E c \in shop.charges : placed' = Recharged(placed, c)
        /\ UNCHANGED bills
  /\ UNCHANGED <<shop, quote, till, credit>>

----------------------------------------------------------------------------
(* Invoices. *)

OnInvoices(n, b) ==
  MapThenSumSet(LAMBDA a :
    MapThenSumSet(LAMBDA k : bills[a].lines[k].quantity,
                  {k \in DOMAIN bills[a].lines : bills[a].lines[k].item = n}),
    Bills \ {b})

\* Mutant: what other invoices have of the order line is not looked at.
LeftUnbilled(n, b) == placed.lines[n].quantity

\* Of an order line, what no other invoice has, void ones included.
LeftToInvoice(n, b) == placed.lines[n].quantity - OnInvoices(n, b)

\* Lines that the form proposes, a portion of some lines of the order; a request may
\* repeat them.
Portions ==
  LET proposed ==
        {[k \in 1..Cardinality(S) |->
            LET n == SetToSortSeq(S, <)[k]
            IN [placed.lines[n] EXCEPT !.item = n, !.quantity = Min({@, portion})]] :
           S \in SUBSET DOMAIN placed.lines \ {{}}, portion \in shop.portions}
  IN proposed \union {lines \o lines : lines \in {l \in proposed : Wants("repeat_lines")}}

\* Each line alone fits what is left of its order line, the discount fits the lines.
ValidBill(lines, c, b) ==
  /\ \A k \in DOMAIN lines :
       lines[k].item # 0 => lines[k].quantity <= LeftToInvoice(lines[k].item, b)
  /\ c.discount <= Over(lines, Taxable) + Over(lines, Tax) + c.shipping

\* PAID when there is nothing to pay; a previous invoice is UNPAID whatever it says.
Invoice(lines, c, of) ==
  LET doc == Document(lines, c)
  IN [doc EXCEPT !.state = IF doc.total = 0 /\ of # "past" THEN "PAID" ELSE "UNPAID", !.of = of]

\* An invoice by hand: of the order, with lines of it but without naming it, or of sales
\* that were made before the system.
WriteBill ==
  /\ \E b \in Bills, c \in shop.charges :
       \/ /\ Wants("bill") /\ placed # NoDocument
          /\ \/ bills[b] = NoDocument
             \/ bills[b].state = "UNPAID" /\ bills[b].of = "order"
          /\ \E lines \in Portions :
               /\ ValidBill(lines, c, b)
               /\ bills' = [bills EXCEPT ![b] = Invoice(lines, c, "order")]
       \/ /\ Wants("unnamed") /\ placed # NoDocument /\ bills[b] = NoDocument
          /\ \E lines \in Portions :
               /\ ValidBill(lines, c, b)
               /\ bills' = [bills EXCEPT ![b] = Invoice(lines, c, "none")]
       \/ /\ Wants("past") /\ bills[b] = NoDocument
          /\ \E lines \in shop.lines :
               /\ ValidBill(lines, c, b)
               /\ bills' = [bills EXCEPT ![b] = Invoice(lines, c, "past")]
       \/ /\ Wants("recharge") /\ bills[b].state = "UNPAID" /\ bills[b].of # "past"
          /\ bills' = [bills EXCEPT ![b] = Recharged(@, c)]
  /\ UNCHANGED <<shop, quote, placed, till, credit>>

\* convert_to_invoice: all lines with the amounts of the order, unless an invoice stands.
ConvertOrder ==
  /\ Wants("convert_order") /\ placed # NoDocument
  /\ \A b \in Bills : bills[b].of = "order" => bills[b].state = "VOID"
  /\ \E b \in Bills :
       /\ bills[b] = NoDocument
       /\ bills' = [bills EXCEPT ![b] =
            [placed EXCEPT !.state = "UNPAID", !.of = "order",
               !.lines = [n \in DOMAIN placed.lines |-> [placed.lines[n] EXCEPT !.item = n]]]]
  /\ UNCHANGED <<shop, quote, placed, till, credit>>

VoidBill ==
  /\ Wants("void") /\ \E b \in Bills : /\ bills[b].state = "UNPAID"
                                       /\ bills' = [bills EXCEPT ![b].state = "VOID"]
  /\ UNCHANGED <<shop, quote, placed, till, credit>>

----------------------------------------------------------------------------
(* POS sales and credits. *)

\* adjust_stock cuts a quantity off to whole units, and refuses none.
Deducted(l) == l.quantity \div Unit

\* A sale is paid in cash, by card, or by both, which must make up its total.
Tendered(method, total) ==
  CASE method = "CASH" -> {<<total, 0>>}
    [] method = "CARD" -> {<<0, total>>}
    [] method = "SPLIT" -> {<<cash, total - cash>> : cash \in {0, total \div 2}}

Ring ==
  /\ Wants("ring") /\ till = NoDocument
  /\ \E lines \in shop.lines, c \in shop.charges, method \in {"CASH", "CARD", "SPLIT"} :
       LET doc == Document(lines, [c EXCEPT !.shipping = 0])
       IN /\ \A n \in DOMAIN lines : Deducted(lines[n]) > 0
          /\ \E paid \in Tendered(method, doc.total) :
               till' = [doc EXCEPT !.state = "PAID", !.of = method, !.cash = paid[1],
                          !.card = paid[2], !.taken = Over(lines, Deducted)]
  /\ UNCHANGED <<shop, quote, placed, bills, credit>>

VoidSale ==
  /\ Wants("void_sale") /\ till.state = "PAID"
  /\ till' = [till EXCEPT !.state = "VOID", !.taken = @ - Over(till.lines, Deducted)]
  /\ UNCHANGED <<shop, quote, placed, bills, credit>>

\* The POS summary: what was sold, and what was paid in cash and by card.
TillSummary ==
  [sales |-> IF till.state = "PAID" THEN till.total ELSE 0,
   cash |-> IF till.state # "PAID" THEN 0
            ELSE CASE till.of = "CASH" -> till.total [] till.of = "SPLIT" -> till.cash [] OTHER -> 0,
   card |-> IF till.state # "PAID" THEN 0
            ELSE CASE till.of = "CARD" -> till.total [] till.of = "SPLIT" -> till.card [] OTHER -> 0]

\* The tax of a credit is that of standard lines, rounded once.
Credited(lines) ==
  LET gross == Over(lines, LAMBDA l : l.quantity * l.price)
  IN [NoDocument EXCEPT !.state = "OPEN", !.lines = lines,
        !.subtotal = HalfEven(gross, Unit), !.vat = HalfEven(5 * gross, 100 * Unit),
        !.total = HalfEven(105 * gross, 100 * Unit)]

TakeBack ==
  /\ Wants("take_back") /\ placed # NoDocument /\ credit = NoDocument
  /\ \E lines \in Portions : credit' = Credited(lines)
  /\ UNCHANGED <<shop, quote, placed, bills, till>>

PricingNext ==
  \/ WriteQuote \/ ConvertQuote \/ WriteOrder \/ WriteBill \/ ConvertOrder \/ VoidBill
  \/ Ring \/ VoidSale \/ TakeBack

PricingSpec == PricingInit /\ [][PricingNext]_priceVars

----------------------------------------------------------------------------
(* Properties. *)

Sells(kinds) == kinds \intersect shop.kinds # {}
SaleDocuments == {quote, placed, till} \union {bills[b] : b \in Bills}
WholeUnits(lines) == \A n \in DOMAIN lines : lines[n].quantity % Unit = 0
Between(x, y, cents) == x - y \in (-cents)..cents

\* Tax and net amount are rounded line by line and so is their sum: for whole units the
\* document keeps what its lines say, for parts of a unit at most a cent per line apart.
LinesAdd ==
  \A doc \in SaleDocuments :
    Between(Over(doc.lines, LAMBDA l : l.total), doc.subtotal + doc.vat,
            IF WholeUnits(doc.lines) THEN 0 ELSE Len(doc.lines))

\* The total is that of the amounts shown with it, unless a PATCH brings charges without
\* lines, and an order whose lines keep their treatment is worth what its lines are.
TotalsAdd ==
  ~Sells({"recharge"}) =>
    /\ \A doc \in SaleDocuments : doc.total = Max({0, doc.subtotal + doc.vat + doc.shipping - doc.discount})
    /\ (\A n \in DOMAIN quote.lines : quote.lines[n].rated) /\ placed # NoDocument =>
         placed.total = Document(placed.lines, Charges(placed)).total

\* No order line is on standing invoices beyond what was ordered, whether invoices are
\* converted, written by hand or void, unless the order's lines are replaced, or an
\* invoice repeats a line or has lines of an order that it does not name.
InvoicedOnce ==
  ~Sells({"edit_order", "unnamed", "repeat_lines"}) =>
    \A n \in DOMAIN placed.lines :
      MapThenSumSet(LAMBDA b :
        MapThenSumSet(LAMBDA k : bills[b].lines[k].quantity,
                      {k \in DOMAIN bills[b].lines : bills[b].lines[k].item = n}),
        {b \in Bills : bills[b].state # "VOID"}) <= placed.lines[n].quantity

\* A sale is paid in full, the POS summary shows as much, and takes its whole units
\* from stock until it is void.  A credit of standard lines gives back what those lines
\* were sold for, give or take a cent for each, and its amounts add up the same way.
MoneyMatches ==
  /\ TillSummary.cash + TillSummary.card = TillSummary.sales
  /\ till.cash + till.card = till.total
  /\ Unit * till.taken \in (IF till.state # "PAID" THEN {0}
                           ELSE LET sold == Over(till.lines, LAMBDA l : l.quantity)
                                IN (sold - (IF WholeUnits(till.lines) THEN 0 ELSE Unit * Len(till.lines))) .. sold)
  /\ Between(credit.total, credit.subtotal + credit.vat, IF WholeUnits(credit.lines) THEN 0 ELSE 1)
  /\ (\A n \in DOMAIN credit.lines : credit.lines[n].rated) =>
       Between(credit.total, Over(credit.lines, LineTotal), Len(credit.lines))

\* The amounts of a sale add up from the quotation to the credit.
PricingSound == LinesAdd /\ TotalsAdd /\ InvoicedOnce /\ MoneyMatches
=============================================================================
