----------------------------- MODULE Receiving -----------------------------
(***************************************************************************)
(* A purchase order of apps/purchases and the goods received notes (GRN)   *)
(* of its lines: status changes and edits of the order, and the creation,  *)
(* edit, confirmation and deletion of receipts.                            *)
(*                                                                         *)
(* One order is enough: receipts of different orders share nothing but the *)
(* stock row, which apps/inventory moves under its own lock.  Each receipt *)
(* is of one line; two receipts of one or of two lines interleave.         *)
(***************************************************************************)
EXTENDS Shipping

CONSTANTS
  Lines,             \* lines of the purchase order
  Receipts,          \* GRNs that clients may create
  Ordered,           \* PurchaseOrderItem.quantity, per line
  NewOrderStatuses,  \* statuses that clients create the order with
  OrderTargets,      \* statuses that clients ask update_status for
  OrderEdits,        \* statuses that clients write with PATCH
  MaxMoved           \* bound: goods ever moved for one document

OrderStatuses == {"DRAFT", "PENDING_APPROVAL", "APPROVED",
                  "PARTIALLY_RECEIVED", "RECEIVED", "CANCELLED"}

ReceiptStates == {"ABSENT", "DRAFT", "CONFIRMED"}
ReceiptRows == [state : ReceiptStates, line : Lines, received : Nat, accepted : Nat]
NoReceipt == [state |-> "ABSENT", line |-> CHOOSE l \in Lines : TRUE,
              received |-> 0, accepted |-> 0]

\* A start gives the request kinds that clients send in a behaviour and the
\* receipts that had been confirmed before it.
ASSUME ReceivingAssumption ==
  /\ IsFiniteSet(Lines) /\ IsFiniteSet(Receipts)
  /\ Ordered \in [Lines -> Nat]
  /\ MaxMoved \in Nat
  /\ NewOrderStatuses \union OrderTargets \union OrderEdits \subseteq OrderStatuses
  /\ \A s \in Starts :
       /\ s.receipts \in [Receipts -> ReceiptRows]
       /\ \A g \in Receipts :
            /\ s.receipts[g] = NoReceipt \/ s.receipts[g].state = "CONFIRMED"
            /\ s.receipts[g].accepted <= s.receipts[g].received

VARIABLES
  received,   \* PurchaseOrderItem.received_quantity, per line
  receipts,   \* GoodsReceivedNote rows, each with its one item
  stocked     \* quantity of the PURCHASE movements that refer to a receipt

goods == <<order, shipments, received, receipts, stocked>>

Confirmed(l) == {g \in Receipts : receipts[g].state = "CONFIRMED" /\ receipts[g].line = l}
Accepted(l) == SumFunctionOnSet([g \in Receipts |-> receipts[g].accepted], Confirmed(l))
Arrived(l) == Min({Ordered[l], Accepted(l)})

\* Mutant: one full line is enough.
DecidedByAny(status, lines) ==
  IF \E l \in Lines : lines[l] >= Ordered[l] THEN "RECEIVED" ELSE "PARTIALLY_RECEIVED"

\* The status of an order whose lines have received so much; when nothing has
\* arrived it stays as it is.
Decided(status, lines) ==
  IF \A l \in Lines : lines[l] >= Ordered[l] THEN "RECEIVED"
  ELSE IF \E l \in Lines : lines[l] > 0 THEN "PARTIALLY_RECEIVED"
  ELSE status

ReceivingInit(s) ==
  /\ clients = s.kinds
  /\ shipments = s.shipments
  /\ receipts = s.receipts
  /\ received = [l \in Lines |-> Arrived(l)]
  /\ \E status \in NewOrderStatuses : order = Decided(status, received)
  /\ stocked = [g \in Receipts |-> receipts[g].accepted]
  /\ job = [w \in Workers |-> Idle]

----------------------------------------------------------------------------
(* Confirmations. *)

Present(g) == receipts[g].state # "ABSENT"

\* Steps of a confirmation, which holds the locks of its receipt and its line.
ConfirmSteps == {"confirm", "confirmed"}
Confirming(v, g) == job[v].step \in ConfirmSteps /\ job[v].receipt = g
ReceiptFree(w, g) == \A v \in Others(w) : ~Confirming(v, g)
\* Mutant: the line of the order is read without select_for_update.
LineFreeUnlocked(w, l) == TRUE

LineFree(w, l) ==
  \A v \in Others(w) : ~(job[v].step \in ConfirmSteps /\ job[v].line = l)

----------------------------------------------------------------------------
(* The order. *)

Transitions == [DRAFT              |-> {"PENDING_APPROVAL", "CANCELLED"},
                PENDING_APPROVAL   |-> {"DRAFT", "APPROVED", "CANCELLED"},
                APPROVED           |-> {"PARTIALLY_RECEIVED", "RECEIVED", "CANCELLED"},
                PARTIALLY_RECEIVED |-> {"RECEIVED", "CANCELLED"},
                RECEIVED           |-> {},
                CANCELLED          |-> {}]

\* update_status checks the transition from a status read without a lock.
OrderStatusLoad(w) ==
  /\ Takes(w, "order_status")
  /\ \E s \in Transitions[order] \intersect OrderTargets :
       Becomes(w, [step |-> "order_status", status |-> s])
  /\ UNCHANGED <<clients, goods>>

OrderStatusSave(w) ==
  /\ At(w, "order_status")
  /\ order' = job[w].status
  /\ Respond(w)
  /\ UNCHANGED <<clients, shipments, received, receipts, stocked>>

\* PATCH reads the order; it may change the status, and replace the lines.
OrderEditLoad(w) ==
  /\ Takes(w, "edit_order")
  /\ \E s \in OrderEdits \union {order}, lines \in BOOLEAN :
       Becomes(w, [step |-> "order_edit", status |-> s, lines |-> lines])
  /\ UNCHANGED <<clients, goods>>

\* The whole row is saved back.  New lines, here for the same quantities, start
\* with nothing received, and deleting the old ones waits for the confirmations that lock them.
OrderEditSave(w) ==
  /\ At(w, "order_edit")
  /\ job[w].lines => \A l \in Lines : LineFree(w, l)
  /\ order' = job[w].status
  /\ received' = IF job[w].lines THEN [l \in Lines |-> 0] ELSE received
  /\ Respond(w)
  /\ UNCHANGED <<clients, shipments, receipts, stocked>>

----------------------------------------------------------------------------
(* Receipts. *)

\* What validation lets a new or edited receipt hold: an accepted part of a
\* received quantity that the line still waits for.
Receivable(l) == Max({0, Ordered[l] - received[l]})
DraftRows ==
  {[state |-> "DRAFT", line |-> l, received |-> r, accepted |-> a] :
     l \in Lines, r \in 1..Max({0} \union {Ordered[l] : l \in Lines}),
     a \in 0..Max({0} \union {Ordered[l] : l \in Lines})}
ValidRows == {row \in DraftRows : /\ row.received <= Receivable(row.line)
                                  /\ row.accepted <= row.received}

\* Nothing that others write refuses an insert, so validation and insert are
\* one step.  The key is new: nobody still has a row of it in memory.
CreateReceipt(w) ==
  /\ Takes(w, "create_receipt")
  /\ order \in ReceivableStatuses
  /\ ReceivedBySomeone
  /\ \E g \in Receipts, row \in ValidRows :
       /\ ~Present(g)
       /\ \A v \in Workers : ~(At(v, "receipt_edit") /\ job[v].receipt = g)
       /\ receipts' = [receipts EXCEPT ![g] = row]
       /\ stocked' = [stocked EXCEPT ![g] = 0]
  /\ UNCHANGED <<clients, order, shipments, received, job>>

\* An edit starts from a draft; it may replace the item.  One that does not
\* name the order again needs a shipment that has arrived, inspected or not.
ReceiptEditLoad(w) ==
  /\ Takes(w, "edit_receipt")
  /\ order \in ReceivableStatuses
  /\ HasArrived
  /\ \E g \in Receipts :
       /\ receipts[g].state = "DRAFT"
       /\ \E row \in ValidRows \union {receipts[g]} :
            Becomes(w, [step |-> "receipt_edit", receipt |-> g, row |-> row,
                        item |-> row # receipts[g]])
  /\ UNCHANGED <<clients, goods>>

\* The row is saved back unconfirmed, whatever it has become; one that has been
\* deleted is inserted again, without an item unless the edit brings one.
\* referenced are the receipts whose item a bill or a return protects.
ReceiptEditSave(w, referenced) ==
  LET g == job[w].receipt
      new == job[w].row
  IN /\ At(w, "receipt_edit")
     /\ ReceiptFree(w, g)
     /\ job[w].item => g \notin referenced
     /\ receipts' = [receipts EXCEPT ![g] =
          IF job[w].item THEN new ELSE [@ EXCEPT !.state = "DRAFT"]]
     /\ Respond(w)
     /\ UNCHANGED <<clients, order, shipments, received, stocked>>

\* The item of a deleted receipt goes with it; the goods stay in stock.
DeleteReceipt(w, referenced) ==
  /\ Takes(w, "delete_receipt")
  /\ \E g \in Receipts \ referenced :
       /\ Present(g)
       /\ ReceiptFree(w, g)
       /\ receipts' = [receipts EXCEPT ![g] = NoReceipt]
  /\ UNCHANGED <<clients, order, shipments, received, stocked, job>>

\* Mutant: is_confirmed is not looked at.
ConfirmableAgain(w, g) == ReceiptFree(w, g) /\ Present(g)

\* Confirm goes on under the receipt's lock when it is not confirmed yet.
Confirmable(w, g) == ReceiptFree(w, g) /\ receipts[g].state = "DRAFT"

\* Lock the receipt, read the order, then lock the line.
ConfirmLock(w) ==
  /\ Takes(w, "confirm")
  /\ \E g \in Receipts :
       LET l == receipts[g].line
       IN /\ Confirmable(w, g)
          /\ LineFree(w, l)
          /\ stocked[g] + receipts[g].accepted <= MaxMoved
          /\ Becomes(w, [step |-> "confirm", receipt |-> g, line |-> l,
                         order |-> order, received |-> received[l]])
  /\ UNCHANGED <<clients, goods>>

\* The line's received quantity after worker w's receipt, capped at the order's.
Counted(w) ==
  Min({Ordered[job[w].line], job[w].received + receipts[job[w].receipt].accepted})

\* The other lines are read without a lock.
ConfirmDecide(w) ==
  /\ At(w, "confirm")
  /\ Becomes(w, [job[w] EXCEPT !.step = "confirmed",
                   !.order = Decided(@, [received EXCEPT ![job[w].line] = Counted(w)])])
  /\ UNCHANGED <<clients, goods>>

\* Write the stock movement, the line, the order's status and the receipt.
ConfirmCommit(w) ==
  LET g == job[w].receipt
  IN /\ At(w, "confirmed")
     /\ stocked' = [stocked EXCEPT ![g] = @ + receipts[g].accepted]
     /\ received' = [received EXCEPT ![job[w].line] = Counted(w)]
     /\ order' = job[w].order
     /\ receipts' = [receipts EXCEPT ![g].state = "CONFIRMED"]
     /\ Respond(w)
     /\ UNCHANGED <<clients, shipments>>

\* A request that ends in an error, on a dead connection or as the victim of a
\* deadlock: its transaction is rolled back.
Abort(w) ==
  /\ job[w].step # "idle"
  /\ Respond(w)
  /\ UNCHANGED <<clients, goods>>

ReceivingStep(w, referenced) ==
  \/ ShippingStep(w) /\ UNCHANGED <<received, receipts, stocked>>
  \/ OrderStatusLoad(w) \/ OrderStatusSave(w)
  \/ OrderEditLoad(w) \/ OrderEditSave(w)
  \/ CreateReceipt(w)
  \/ ReceiptEditLoad(w) \/ ReceiptEditSave(w, referenced)
  \/ DeleteReceipt(w, referenced)
  \/ ConfirmLock(w) \/ ConfirmDecide(w) \/ ConfirmCommit(w)
  \/ Abort(w)

----------------------------------------------------------------------------
(* Properties. *)

ReceivingTypes ==
  /\ clients \in {s.kinds : s \in Starts}
  /\ order \in OrderStatuses
  /\ shipments \in [Shipments -> ShipmentRows \union {NoShipment}]
  /\ received \in [Lines -> Nat]
  /\ receipts \in [Receipts -> ReceiptRows]
  /\ stocked \in [Receipts -> Nat]

\* The goods of a receipt are in stock once when it is confirmed and not at all
\* before: two confirmations of one receipt (confirm_grn) do not add it twice.
StockedOnce ==
  Without({"edit_receipt"},
    \A g \in {x \in Receipts : Present(x)} :
      stocked[g] = IF receipts[g].state = "CONFIRMED" THEN receipts[g].accepted ELSE 0)

\* received_quantity of a line counts every confirmed receipt, up to what was
\* ordered, although confirm_grn reads, adds and writes it back; and a confirmation
\* calls the order RECEIVED only when every line is full, though it reads the lines
\* of other receipts without a lock.
ReceivedCounted ==
  Without({"edit_order"},
    /\ Without({"edit_receipt", "delete_receipt"}, \A l \in Lines : received[l] = Arrived(l))
    /\ "RECEIVED" \notin OrderTargets \union NewOrderStatuses =>
         (order = "RECEIVED" => \A l \in Lines : received[l] >= Ordered[l]))

\* What was accepted on receipts is what came into stock, what the lines have received,
\* and what their order says.
ReceiptsCounted == StockedOnce /\ ReceivedCounted
=============================================================================
