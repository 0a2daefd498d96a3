------------------------------ MODULE Selling ------------------------------
(***************************************************************************)
(* Sales orders of apps/sales with the stock they reserve, and the POS     *)
(* sales that take stock at once.                                          *)
(*                                                                         *)
(* Requests read rows without a lock (get_object) and act on them later;   *)
(* what a request locks before it reads it, and keeps until it commits, is *)
(* read and written in one step.  A behaviour serves one set of request    *)
(* kinds, its requests overlapping or one at a time.                       *)
(***************************************************************************)
EXTENDS Integers, Sequences, FiniteSets, FiniteSetsExt, SequencesExt

CONSTANTS
  Workers,     \* web processes
  Orders,      \* sales orders
  Drafts,      \* those that are there at first; the others come from quotations
  Products,    \* the products of their lines, one stock row each, in line order
  Quantity,    \* SalesOrderItem.quantity, per order and product
  Opening,     \* current_stock at first, per product
  PosSales,    \* POS receipts that clients may make, of one unit each
  OrderEdits,  \* statuses that clients write with PATCH
  Starts       \* the request kinds of a behaviour, and whether they overlap

OrderStatuses == {"DRAFT", "PENDING", "CONFIRMED", "AWAITING_FULFILLMENT",
                  "PARTIALLY_FULFILLED", "FULFILLED", "CANCELLED"}
SaleRows == [status : {"ABSENT", "PAID", "VOID"}, product : Products]

ASSUME SellingAssumption ==
  /\ Products \subseteq Nat /\ IsFiniteSet(Products) /\ Products # {}
  /\ Quantity \in [Orders -> [Products -> Nat]] /\ IsFiniteSet(Orders)
  /\ \A o \in Orders : \E p \in Products : Quantity[o][p] > 0
  /\ Drafts \subseteq Orders
  /\ Opening \in [Products -> Nat] /\ IsFiniteSet(PosSales)
  /\ OrderEdits \subseteq OrderStatuses
  /\ \A s \in Starts : s.overlap \in BOOLEAN

VARIABLES
  clients,   \* the request kinds that clients send in this behaviour
  overlap,   \* whether requests are served at the same time
  orders,    \* SalesOrder.status
  stock,     \* ProductStock: current and reserved, per product
  sales,     \* POSSale rows, each with its one item
  job        \* what each worker is doing

goods == <<orders, stock, sales>>

Idle == [step |-> "idle"]

SellingInit ==
  /\ \E s \in Starts : clients = s.kinds /\ overlap = s.overlap
  /\ orders = [o \in Orders |-> IF o \in Drafts THEN "DRAFT" ELSE "ABSENT"]
  /\ stock = [p \in Products |-> [current |-> Opening[p], reserved |-> 0]]
  /\ sales = [s \in PosSales |-> [status |-> "ABSENT", product |-> Min(Products)]]
  /\ job = [w \in Workers |-> Idle]

Others(w) == Workers \ {w}
At(w, step) == job[w].step = step
Becomes(w, next) == job' = [job EXCEPT ![w] = next]
Respond(w) == Becomes(w, Idle)

\* Worker w takes a request of one of the kinds.
Takes(w, kind) ==
  /\ At(w, "idle")
  /\ kind \in clients
  /\ overlap \/ \A v \in Others(w) : At(v, "idle")

----------------------------------------------------------------------------
(* Orders. *)

\* Mutant: what other orders have reserved is not taken off.
AvailableDespiteReserved(p) == stock[p].current

Available(p) == stock[p].current - stock[p].reserved

Lines(o) == {p \in Products : Quantity[o][p] > 0}

\* The lines that confirm reserves before it meets one that is short.
Reservable(o) ==
  {p \in Lines(o) : \A q \in Lines(o) : q <= p => Available(q) >= Quantity[o][q]}

\* confirm locks the order and the rows of its lines.  The answer for a line
\* that is short ends the transaction without an error: what has been reserved
\* for the lines before it is committed.
ConfirmOrder(w) ==
  /\ Takes(w, "confirm_order")
  /\ \E o \in Orders :
       /\ orders[o] = "DRAFT"
       /\ stock' = [p \in Products |->
            IF p \in Reservable(o)
            THEN [stock[p] EXCEPT !.reserved = @ + Quantity[o][p]] ELSE stock[p]]
       /\ orders' = IF Reservable(o) = Lines(o)
                    THEN [orders EXCEPT ![o] = "CONFIRMED"] ELSE orders
  /\ UNCHANGED <<clients, overlap, sales, job>>

\* PATCH reads the order and may change its status; nothing is released.
OrderEditLoad(w) ==
  /\ Takes(w, "edit_order")
  /\ \E o \in Orders, s \in OrderEdits :
       /\ orders[o] \notin {"ABSENT", "FULFILLED", "CANCELLED"}
       /\ Becomes(w, [step |-> "order_edit", order |-> o, status |-> s])
  /\ UNCHANGED <<clients, overlap, goods>>

OrderEditSave(w) ==
  /\ At(w, "order_edit")
  /\ orders' = [orders EXCEPT ![job[w].order] = job[w].status]
  /\ Respond(w)
  /\ UNCHANGED <<clients, overlap, stock, sales>>

----------------------------------------------------------------------------
(* POS sales. *)

\* adjust_stock locks the row and keeps the reserved units on hand.
Sell(w) ==
  /\ Takes(w, "sell")
  /\ \E s \in PosSales, p \in Products :
       /\ sales[s].status = "ABSENT"
       /\ Available(p) >= 1
       /\ sales' = [sales EXCEPT ![s] = [status |-> "PAID", product |-> p]]
       /\ stock' = [stock EXCEPT ![p].current = @ - 1]
  /\ UNCHANGED <<clients, overlap, orders, job>>

\* Mutant: a void sale is voided again.
VoidableAgain(s) == sales[s].status # "ABSENT"

Voidable(s) == sales[s].status = "PAID"

\* void checks the status before it takes the lock.
VoidSaleLoad(w) ==
  /\ Takes(w, "void_sale")
  /\ \E s \in PosSales :
       /\ Voidable(s)
       /\ Becomes(w, [step |-> "sale_void", sale |-> s])
  /\ UNCHANGED <<clients, overlap, goods>>

VoidSaleSave(w) ==
  LET s == job[w].sale
  IN /\ At(w, "sale_void")
     /\ stock' = [stock EXCEPT ![sales[s].product].current = @ + 1]
     /\ sales' = [sales EXCEPT ![s].status = "VOID"]
     /\ Respond(w)
     /\ UNCHANGED <<clients, overlap, orders>>

SellingStep(w) ==
  \/ ConfirmOrder(w) \/ OrderEditLoad(w) \/ OrderEditSave(w)
  \/ Sell(w) \/ VoidSaleLoad(w) \/ VoidSaleSave(w)

----------------------------------------------------------------------------
(* Properties. *)

\* What holds unless clients send all of the given kinds of request.
Unless(kinds, P) == kinds \subseteq clients \/ P

SellingTypes ==
  /\ clients \in {s.kinds : s \in Starts}
  /\ overlap \in BOOLEAN
  /\ orders \in [Orders -> OrderStatuses \union {"ABSENT"}]
  /\ stock \in [Products -> [current : Nat, reserved : Nat]]
  /\ sales \in [PosSales -> SaleRows]

\* Whatever POS sells and whichever confirmation ran out of stock half-way, the
\* units of every confirmed order are reserved, and reserved units are on hand.
ConfirmedBacked ==
  \A p \in Products :
    /\ stock[p].reserved <= stock[p].current
    /\ Unless({"edit_order"},
         SumFunctionOnSet([o \in Orders |-> Quantity[o][p]], {o \in Orders : orders[o] = "CONFIRMED"})
           <= stock[p].reserved)
=============================================================================
