----------------------------- MODULE Aftersales -----------------------------
(***************************************************************************)
(* What comes before and after a sales order: the quotation that it is     *)
(* made from, the delivery notes that fulfil it and the returns of what it *)
(* sold, served by the same workers as its reservation, invoices and       *)
(* payments.                                                               *)
(*                                                                         *)
(* A note has one line, and a return lines of one order line, their sum    *)
(* one quantity.  Neither moves stock: only the order and its lines learn  *)
(* of them.                                                                *)
(***************************************************************************)
EXTENDS Sales

CONSTANTS
  Quotations,         \* quotations, DRAFT at first
  QuoteEdits,         \* statuses that clients write to a quotation with PATCH
  Notes, Returns,     \* delivery notes and sales returns that clients may create
  NoteEdits,          \* statuses that clients write to a note with PATCH
  NewReturnStatuses,  \* statuses that clients write to a return
  MaxLines,           \* bound: how many lines of an order line a return has
  MaxHanded           \* bound: what deliver is ever called for, per order line

QuoteStatuses == {"DRAFT", "SENT", "PENDING", "ACCEPTED", "REJECTED", "EXPIRED", "CONVERTED"}
NoteStatuses == {"PENDING", "IN_TRANSIT", "DELIVERED", "PARTIALLY_DELIVERED", "FAILED",
                 "CANCELLED", "DRAFT", "READY", "DISPATCHED"}
ReturnStatuses == {"DRAFT", "PENDING_APPROVAL", "APPROVED", "COMPLETED", "REJECTED", "CANCELLED"}

ASSUME AftersalesAssumption ==
  /\ IsFiniteSet(Returns) /\ "none" \notin Quotations
  /\ QuoteEdits \subseteq QuoteStatuses
  /\ NoteEdits \subseteq NoteStatuses
  /\ NewReturnStatuses \subseteq ReturnStatuses
  /\ MaxHanded \in Nat /\ MaxLines \in Nat \ {0}

VARIABLES
  quotations,   \* Quotation.status
  origin,       \* SalesOrder.quotation
  fulfilled,    \* SalesOrderItem.fulfilled_quantity, per order and product
  notes,        \* DeliveryNote rows, each with its one line
  handed,       \* history: what deliver has counted for each order line
  saleReturns   \* SalesReturn rows, each with the sum of its lines

quoting == <<quotations, origin>>
delivering == <<fulfilled, notes, handed>>
follow == <<quoting, delivering, saleReturns>>
trade == <<stock, sales, invoices, payments, books>>
allVars == <<vars, follow>>

\* A delivery note or a return that is not there.
NoRow == [status |-> "ABSENT", order |-> "none", product |-> Min(Products), quantity |-> 0]

AllInit ==
  /\ Init
  /\ quotations = [q \in Quotations |-> "DRAFT"]
  /\ origin = [o \in Orders |-> "none"]
  /\ fulfilled = [o \in Orders |-> [p \in Products |-> 0]]
  /\ notes = [n \in Notes |-> NoRow]
  /\ handed = fulfilled
  /\ saleReturns = [r \in Returns |-> NoRow]

----------------------------------------------------------------------------
(* Quotations. *)

OrdersOf(q) == {o \in Orders : origin[o] = q}

\* send, and PATCH, which saves the row as it was read.
QuoteLoad(w) ==
  /\ \E q \in Quotations : \E s \in QuoteEdits \union {"SENT", quotations[q]} :
       /\ \/ /\ Takes(w, "send_quote")
             /\ s = "SENT"
             /\ quotations[q] \notin {"CONVERTED", "REJECTED", "EXPIRED"}
          \/ /\ Takes(w, "edit_quote")
             /\ quotations[q] # "CONVERTED"
       /\ Becomes(w, [step |-> "quote_save", quotation |-> q, status |-> s])
  /\ UNCHANGED <<clients, overlap, orders, trade, follow>>

QuoteSave(w) ==
  /\ At(w, "quote_save")
  /\ quotations' = [quotations EXCEPT ![job[w].quotation] = job[w].status]
  /\ Respond(w)
  /\ UNCHANGED <<clients, overlap, orders, trade, origin, delivering, saleReturns>>

\* accept and reject look at nothing.
AnswerQuote(w) ==
  /\ \E q \in Quotations :
       \/ /\ Takes(w, "accept_quote")
          /\ quotations' = [quotations EXCEPT ![q] = "ACCEPTED"]
       \/ /\ Takes(w, "reject_quote")
          /\ quotations' = [quotations EXCEPT ![q] = "REJECTED"]
  /\ UNCHANGED <<clients, overlap, orders, job, trade, origin, delivering, saleReturns>>

\* A converted quotation answers with the order that it has.
QuoteConvertLoad(w) ==
  /\ Takes(w, "convert_quote")
  /\ \E q \in Quotations :
       /\ quotations[q] = "CONVERTED" => OrdersOf(q) = {}
       /\ quotations[q] \notin {"REJECTED", "EXPIRED"}
       /\ Becomes(w, [step |-> "quote_convert", quotation |-> q])
  /\ UNCHANGED <<clients, overlap, orders, trade, follow>>

QuoteConvertSave(w) ==
  LET q == job[w].quotation
  IN /\ At(w, "quote_convert")
     /\ \E o \in Orders :
          /\ orders[o] = "ABSENT"
          /\ orders' = [orders EXCEPT ![o] = "DRAFT"]
          /\ origin' = [origin EXCEPT ![o] = q]
     /\ quotations' = [quotations EXCEPT ![q] = "CONVERTED"]
     /\ Respond(w)
     /\ UNCHANGED <<clients, overlap, trade, delivering, saleReturns>>

----------------------------------------------------------------------------
(* Delivery notes. *)

\* Keys of new notes and returns are new: no request knows them.
NewFollow(key, x) == \A v \in Workers : key \in DOMAIN job[v] => job[v][key] # x

Deliverable(o) == orders[o] \notin {"ABSENT", "CANCELLED"}

\* The quantity is validated against what the client says was ordered.
CreateNote(w) ==
  /\ Takes(w, "create_note")
  /\ \E n \in Notes, o \in Orders, quantity \in Amounts : \E p \in Lines(o) :
       /\ notes[n] = NoRow /\ NewFollow("note", n)
       /\ Deliverable(o)
       /\ notes' = [notes EXCEPT ![n] = [status |-> "DRAFT", order |-> o, product |-> p,
                                         quantity |-> quantity]]
  /\ UNCHANGED <<clients, overlap, orders, job, trade, quoting, fulfilled, handed, saleReturns>>

\* PATCH of a note, whatever its status, with a line or without.
NoteLoad(w) ==
  /\ Takes(w, "edit_note")
  /\ \E n \in Notes, quantity \in Amounts, lined \in BOOLEAN :
       /\ notes[n].status # "ABSENT"
       /\ Deliverable(notes[n].order)
       /\ \E s \in NoteEdits \union {notes[n].status} :
            Becomes(w, [step |-> "note_save", note |-> n, lined |-> lined,
                        row |-> [notes[n] EXCEPT !.status = s, !.quantity = quantity]])
  /\ UNCHANGED <<clients, overlap, orders, trade, follow>>

\* The whole row is saved as it was read, inserted again when it is gone; its
\* line is replaced when the request brings one.
NoteSave(w) ==
  LET n == job[w].note
      row == job[w].row
  IN /\ At(w, "note_save")
     /\ notes' = [notes EXCEPT ![n] =
          IF job[w].lined THEN row
          ELSE [row EXCEPT !.product = notes[n].product, !.quantity = notes[n].quantity]]
     /\ Respond(w)
     /\ UNCHANGED <<clients, overlap, orders, trade, quoting, fulfilled, handed, saleReturns>>

\* dispatch looks at nothing.
Dispatch(w) ==
  /\ Takes(w, "dispatch_note")
  /\ \E n \in Notes :
       /\ notes[n].status # "ABSENT"
       /\ notes' = [notes EXCEPT ![n].status = "IN_TRANSIT"]
  /\ UNCHANGED <<clients, overlap, orders, job, trade, quoting, fulfilled, handed, saleReturns>>

DeleteNote(w) ==
  /\ Takes(w, "delete_note")
  /\ \E n \in Notes :
       /\ notes[n].status # "ABSENT"
       /\ notes' = [notes EXCEPT ![n] = NoRow]
  /\ UNCHANGED <<clients, overlap, orders, job, trade, quoting, fulfilled, handed, saleReturns>>

\* deliver reads the line of a note of any status, and what the order line has,
\* which never exceeds what was ordered.
DeliverLoad(w) ==
  /\ Takes(w, "deliver_note")
  /\ \E n \in Notes :
       LET o == notes[n].order
           p == notes[n].product
       IN /\ notes[n].status # "ABSENT"
          /\ handed[o][p] + notes[n].quantity <= MaxHanded
          /\ Becomes(w, [step |-> "deliver", note |-> n, order |-> o, product |-> p,
               quantity |-> notes[n].quantity,
               counted |-> Min({Quantity[o][p], fulfilled[o][p] + notes[n].quantity})])
  /\ UNCHANGED <<clients, overlap, orders, trade, follow>>

\* Mutant: one full line is enough.
FilledByAny(o, counted) == \E p \in Lines(o) : counted[p] >= Quantity[o][p]

Filled(o, counted) == \A p \in Lines(o) : counted[p] >= Quantity[o][p]

\* The order line is saved, and so locked; the other lines are read to decide
\* what the order becomes.
DeliverCount(w) ==
  LET o == job[w].order
      p == job[w].product
  IN /\ At(w, "deliver")
     /\ \A v \in Others(w) :
          ~(At(v, "delivering") /\ job[v].order = o /\ job[v].product = p)
     /\ Becomes(w, [step |-> "delivering", note |-> job[w].note, order |-> o, product |-> p,
          quantity |-> job[w].quantity, counted |-> job[w].counted,
          status |-> IF Filled(o, [fulfilled[o] EXCEPT ![p] = job[w].counted])
                     THEN "FULFILLED" ELSE "PARTIALLY_FULFILLED"])
     /\ UNCHANGED <<clients, overlap, orders, trade, follow>>

\* A note that is gone cannot be saved.
DeliverCommit(w) ==
  LET o == job[w].order
      p == job[w].product
  IN /\ At(w, "delivering")
     /\ notes[job[w].note].status # "ABSENT"
     /\ fulfilled' = [fulfilled EXCEPT ![o][p] = job[w].counted]
     /\ handed' = [handed EXCEPT ![o][p] = @ + job[w].quantity]
     /\ orders' = [orders EXCEPT ![o] = job[w].status]
     /\ notes' = [notes EXCEPT ![job[w].note].status = "DELIVERED"]
     /\ Respond(w)
     /\ UNCHANGED <<clients, overlap, trade, quoting, saleReturns>>

----------------------------------------------------------------------------
(* Returns. *)

\* Units of an order line in returns other than r that stand.
ReturnedUnits(o, p, r) ==
  SumFunctionOnSet([x \in Returns |-> saleReturns[x].quantity],
    {x \in Returns \ {r} : /\ saleReturns[x].status \notin {"ABSENT", "REJECTED", "CANCELLED"}
                           /\ saleReturns[x].order = o /\ saleReturns[x].product = p})

\* Mutant: what other returns take back is not looked at.
RemainingUnreturned(o, p, r) == Quantity[o][p]

Remaining(o, p, r) == Quantity[o][p] - ReturnedUnits(o, p, r)

\* Sums of lines of n units each: a request may repeat a line.
Repeated(n) == {k * n : k \in 1..(IF "repeat_lines" \in clients THEN MaxLines ELSE 1)}

\* What a request may write to return r of order o: every line is compared with what
\* other returns leave, and none with the lines next to it.
ReturnLines(o, r) ==
  {row \in [status : NewReturnStatuses, order : {o}, product : Lines(o),
            quantity : UNION {Repeated(n) : n \in Amounts}] :
     \E n \in Amounts : n <= Remaining(o, row.product, r) /\ row.quantity \in Repeated(n)}

\* The status is writable, and the order is not looked at.
CreateReturnLoad(w) ==
  /\ Takes(w, "create_return")
  /\ \E r \in Returns, o \in Orders : \E row \in ReturnLines(o, r) :
       /\ saleReturns[r] = NoRow /\ NewFollow("return", r)
       /\ orders[o] # "ABSENT"
       /\ Becomes(w, [step |-> "return_save", return |-> r, lined |-> TRUE, row |-> row])
  /\ UNCHANGED <<clients, overlap, orders, trade, follow>>

\* A PATCH that brings a line wants a return that is open; one that does not
\* looks at nothing.
EditReturnLoad(w) ==
  /\ Takes(w, "edit_return")
  /\ \E r \in Returns :
       LET now == saleReturns[r]
       IN /\ now.status # "ABSENT"
          /\ \/ /\ now.status \in {"DRAFT", "REJECTED"}
                /\ \E row \in ReturnLines(now.order, r) :
                     Becomes(w, [step |-> "return_save", return |-> r, lined |-> TRUE,
                                 row |-> row])
             \/ \E s \in NewReturnStatuses \union {now.status} :
                  Becomes(w, [step |-> "return_save", return |-> r, lined |-> FALSE,
                              row |-> [now EXCEPT !.status = s]])
  /\ UNCHANGED <<clients, overlap, orders, trade, follow>>

ReturnSave(w) ==
  LET r == job[w].return
      row == job[w].row
  IN /\ At(w, "return_save")
     /\ saleReturns' = [saleReturns EXCEPT ![r] =
          IF job[w].lined THEN row
          ELSE [row EXCEPT !.product = saleReturns[r].product,
                           !.quantity = saleReturns[r].quantity]]
     /\ Respond(w)
     /\ UNCHANGED <<clients, overlap, orders, trade, quoting, delivering>>

\* Requests that only change the status of a return: from which, and to which.
ReturnMoves ==
  {[kind |-> "submit_return", from |-> {"DRAFT", "REJECTED"}, to |-> "PENDING_APPROVAL"],
   [kind |-> "approve_return", from |-> {"PENDING_APPROVAL"}, to |-> "APPROVED"],
   [kind |-> "reject_return", from |-> {"PENDING_APPROVAL"}, to |-> "REJECTED"],
   [kind |-> "complete_return", from |-> {"APPROVED"}, to |-> "COMPLETED"],
   [kind |-> "cancel_return", from |-> ReturnStatuses \ {"COMPLETED", "CANCELLED"},
    to |-> "CANCELLED"]}

MoveReturnLoad(w) ==
  /\ \E r \in Returns, move \in ReturnMoves :
       /\ Takes(w, move.kind)
       /\ saleReturns[r].status \in move.from
       /\ Becomes(w, [step |-> "return_move", return |-> r, status |-> move.to])
  /\ UNCHANGED <<clients, overlap, orders, trade, follow>>

\* Only the status is saved; a return that is gone cannot be.
MoveReturnSave(w) ==
  LET r == job[w].return
  IN /\ At(w, "return_move")
     /\ saleReturns[r].status # "ABSENT"
     /\ saleReturns' = [saleReturns EXCEPT ![r].status = job[w].status]
     /\ Respond(w)
     /\ UNCHANGED <<clients, overlap, orders, trade, quoting, delivering>>

DeleteReturn(w) ==
  /\ Takes(w, "delete_return")
  /\ \E r \in Returns :
       /\ saleReturns[r].status # "ABSENT"
       /\ saleReturns' = [saleReturns EXCEPT ![r] = NoRow]
  /\ UNCHANGED <<clients, overlap, orders, job, trade, quoting, delivering>>

----------------------------------------------------------------------------

QuoteStep(w) ==
  QuoteLoad(w) \/ QuoteSave(w) \/ AnswerQuote(w) \/ QuoteConvertLoad(w) \/ QuoteConvertSave(w)

NoteStep(w) ==
  \/ CreateNote(w) \/ NoteLoad(w) \/ NoteSave(w) \/ Dispatch(w) \/ DeleteNote(w)
  \/ DeliverLoad(w) \/ DeliverCount(w) \/ DeliverCommit(w)

ReturnStep(w) ==
  \/ CreateReturnLoad(w) \/ EditReturnLoad(w) \/ ReturnSave(w)
  \/ MoveReturnLoad(w) \/ MoveReturnSave(w) \/ DeleteReturn(w)

AllNext ==
  \/ Next /\ UNCHANGED follow
  \/ \E w \in Workers : QuoteStep(w) \/ NoteStep(w) \/ ReturnStep(w)

AllSpec == AllInit /\ [][AllNext]_allVars

----------------------------------------------------------------------------
(* Properties. *)

\* Rows keep the shape the models give them: no line has more fulfilled than was
\* ordered, and a note or return that stands belongs to an order.
AllTypeOK ==
  /\ TypeOK
  /\ quotations \in [Quotations -> QuoteStatuses]
  /\ origin \in [Orders -> Quotations \union {"none"}]
  /\ \A o \in Orders : fulfilled[o] \in [Products -> Nat]
  /\ \A n \in Notes : notes[n] = NoRow \/ /\ notes[n].status \in NoteStatuses
                                          /\ notes[n].order \in Orders
  /\ \A r \in Returns : saleReturns[r] = NoRow \/ /\ saleReturns[r].status \in ReturnStatuses
                                                  /\ saleReturns[r].order \in Orders

\* Clients may submit a return again that was rejected, or created as such.
BroughtBack ==
  "submit_return" \in clients /\ ("reject_return" \in clients \/ "REJECTED" \in NewReturnStatuses)

\* One at a time, what follows a document fits it: a quotation becomes one order
\* unless it is answered again once it is converted, an order has one invoice that
\* is not void unless clients name it for another, and the returns of a line never
\* exceed it.  A return that no longer counted may be brought back unchecked, submitted
\* again or by a PATCH, and one that repeats a line is not added up.
FollowUpsFit ==
  ~overlap =>
    /\ \/ "accept_quote" \in clients
       \/ {"reject_quote", "edit_quote"} \subseteq clients
       \/ \A q \in Quotations : Cardinality(OrdersOf(q)) <= 1
    /\ Unless({"name_order"}, \A o \in Orders :
         Cardinality({i \in Invoices : /\ invoices[i].order = o
                                       /\ invoices[i].status \notin {"ABSENT", "VOID"}}) <= 1)
    /\ \/ BroughtBack
       \/ {"edit_return", "repeat_lines"} \intersect clients # {}
       \/ \A o \in Orders, p \in Products :
            SumFunctionOnSet([r \in Returns |-> saleReturns[r].quantity],
              {r \in Returns : /\ saleReturns[r].status \notin {"ABSENT", "REJECTED", "CANCELLED"}
                               /\ saleReturns[r].order = o /\ saleReturns[r].product = p})
              <= Quantity[o][p]

\* However often notes are delivered, edited or deleted, no line is fulfilled
\* beyond what was ordered.  One at a time, a line has all that deliver counted, up
\* to what was ordered, and an order is FULFILLED exactly when every line is full.
DeliveriesAdd ==
  \A o \in Orders :
    /\ \A p \in Products : fulfilled[o][p] <= Quantity[o][p]
    /\ ~overlap =>
         /\ \A p \in Products : fulfilled[o][p] = Min({Quantity[o][p], handed[o][p]})
         /\ Unless({"edit_order"},
              orders[o] = "FULFILLED" <=> \A p \in Products : fulfilled[o][p] = Quantity[o][p])

\* What follows an order never exceeds it: invoices, deliveries and returns.
OrdersFollowed == FollowUpsFit /\ DeliveriesAdd
=============================================================================
