--------------------------- MODULE PurchasesProofs ---------------------------
(***************************************************************************)
(* Purchases for every value of the constants of Spending: the types of    *)
(* its rows, what receipts bring in and what is said of it, what bills,    *)
(* payments, returns and credits come to, what the screens show of it, and *)
(* who answers for an expense.                                             *)
(***************************************************************************)
EXTENDS Spending, Sums

----
(* What a worker may be holding. *)

\* The total of some items and the largest of them.
Itemized(i) ==
  /\ i.quantity \in Nat /\ i.largest \in Nat /\ i.largest <= i.quantity
  /\ i.quantity > 0 => i.largest > 0
ItemRow == {i \in [receipt : Receipts \union {"none"}, quantity : Nat, largest : Nat] : Itemized(i)}
ReturnRow ==
  {i \in [status : ReturnStatuses \union {"ABSENT"}, receipt : Receipts \union {"none"},
          quantity : Nat, largest : Nat] : Itemized(i)}
CreditRow == [status : CreditStatuses \union {"ABSENT"}, of : Returns \union {"none"},
              lines : Nat, total : Nat, applied : Nat, remaining : Nat, posted : BOOLEAN]
ExpenseRow == [status : ExpenseStatuses \union {"ABSENT"}, approved : BOOLEAN]

\* A bill that owes what has not been paid, and nothing when it says so or is not there.
Fair(r) ==
  /\ r \in BillRows
  /\ r.paid + r.balance = r.total
  /\ r.status = "PAID" => r.balance = 0
  /\ r.status = "ABSENT" => r.total = 0

\* A request of the order, its shipments and its receipts.
GoodsShape(j) ==
  /\ j.step = "shipment_save" => j.shipment \in Shipments /\ j.row \in ShipmentRows
  /\ j.step = "order_status" => j.status \in OrderTargets
  /\ j.step = "order_edit" => j.status \in OrderStatuses
  /\ j.step = "receipt_edit" =>
       j.receipt \in Receipts /\ j.row \in ReceiptRows /\ j.row.state = "DRAFT"
  /\ j.step \in ConfirmSteps =>
       j \in [step : ConfirmSteps, receipt : Receipts, line : Lines, order : OrderStatuses,
              received : Nat]

\* A request of the bills.
BillShape(j) ==
  /\ j.step = "bill_save" =>
       /\ j.bill \in Bills /\ j.receipt \in Receipts /\ Itemized(j)
       /\ Fair(j.row) /\ ~j.row.approved /\ j.row.status \in {"DRAFT", "UNMATCHED"}
  /\ j.step = "bill_approve" => j.bill \in Bills

\* A request of the returns.
ReturnShape(j) ==
  /\ j.step = "return_save" => j.return \in Returns /\ j.row \in ReturnRow
  /\ j.step = "return_approve" => j.return \in Returns /\ j.quantity \in Nat

\* A request of the credits.
CreditShape(j) ==
  /\ j.step \in {"credit_new", "credit_save"} =>
       j.row \in CreditRow /\ j.row.of \in Returns /\ j.plan \in Amount
  /\ j.step = "credit_new" => j.credit \in ManualCredits
  /\ j.step = "credit_save" => j.credit \in Credits
  /\ j.step = "credit_post" => j.credit \in Credits /\ j.row \in CreditRow /\ j.plan \in Amount
  /\ j.step = "credit_void" => j.credit \in Credits

\* A request of the expenses.
ExpenseShape(j) ==
  /\ j.step = "expense_edit" => j.expense \in Expenses /\ j.row \in ExpenseRow
  /\ j.step = "expense_save" =>
       j.expense \in Expenses /\ j.status \in ExpenseStatuses /\ j.signed \in BOOLEAN

JobShape(j) ==
  GoodsShape(j) /\ BillShape(j) /\ ReturnShape(j) /\ CreditShape(j) /\ ExpenseShape(j)

Jobs == job = [w \in Workers |-> job[w]] /\ \A w \in Workers : JobShape(job[w])

\* An approval holds the lock of its bill, of which no more has been paid than its
\* item comes to.
Held ==
  \A w \in Workers : At(w, "bill_approve") =>
    /\ bills[job[w].bill].paid <= billed[job[w].bill].quantity
    /\ BillFree(w, job[w].bill)

\* A step of w: what the others hold stays, and what w holds has a shape.
Serves(w) ==
  /\ job' = [v \in Workers |-> job'[v]]
  /\ \A v \in Others(w) : job'[v] = job[v]
  /\ JobShape(job'[w])

\* ... that starts no approval of a bill.
Acts(w) == Serves(w) /\ job'[w].step # "bill_approve"

\* The bills that it changes are not being approved by others.
Spares(w) ==
  \A b \in Bills : \/ bills'[b].paid = bills[b].paid /\ billed'[b].quantity = billed[b].quantity
                   \/ BillFree(w, b)

LEMMA IdleShape == JobShape(Idle)
BY DEF JobShape, GoodsShape, BillShape, ReturnShape, CreditShape, ExpenseShape, Idle, ConfirmSteps

LEMMA ServesJobs ==
  ASSUME Jobs, NEW w \in Workers, Serves(w)
  PROVE  Jobs'
BY DEF Jobs, Serves, Others

LEMMA BecomesServes ==
  ASSUME Jobs, NEW w \in Workers, NEW j, JobShape(j), Becomes(w, j)
  PROVE  Serves(w) /\ job'[w] = j
BY DEF Jobs, Serves, Others, Becomes

LEMMA RespondActs ==
  ASSUME Jobs, NEW w \in Workers, Respond(w)
  PROVE  Acts(w) /\ job'[w] = Idle
<1>1. Becomes(w, Idle)
  BY DEF Respond
<1>2. Serves(w) /\ job'[w] = Idle
  BY <1>1, IdleShape, BecomesServes
<1> QED BY <1>2 DEF Acts, Idle

LEMMA UnchangedActs ==
  ASSUME Jobs, NEW w \in Workers, NEW kind, Takes(w, kind), UNCHANGED job
  PROVE  Acts(w)
BY DEF Jobs, Acts, Serves, Others, Takes

LEMMA SparedHeld ==
  ASSUME Held, NEW w \in Workers, Jobs, Acts(w), Spares(w)
  PROVE  Held'
<1> SUFFICES ASSUME NEW v \in Workers, At(v, "bill_approve")'
             PROVE  /\ (bills[job[v].bill].paid <= billed[job[v].bill].quantity)'
                    /\ BillFree(v, job[v].bill)'
  BY DEF Held
<1>1. v # w /\ v \in Others(w)
  BY DEF Acts, At, Others
<1>2. job'[v] = job[v] /\ At(v, "bill_approve")
  BY <1>1 DEF Acts, Serves, At
<1> DEFINE b == job[v].bill
<1>3. b \in Bills /\ bills[b].paid <= billed[b].quantity /\ BillFree(v, b)
  BY <1>2 DEF Held, Jobs, JobShape, BillShape, At
<1>4. ~BillFree(w, b)
  BY <1>1, <1>2 DEF BillFree
<1>5. bills'[b].paid = bills[b].paid /\ billed'[b].quantity = billed[b].quantity
  BY <1>3, <1>4 DEF Spares
<1>6. \A u \in Others(v) : ~(At(u, "bill_approve") /\ job[u].bill = b)'
  <2> TAKE u \in Others(v)
  <2>1. CASE u = w
    BY <2>1 DEF Acts, At
  <2>2. CASE u # w
    BY <1>3, <2>2 DEF BillFree, At, Others, Acts, Serves
  <2> QED BY <2>1, <2>2
<1> QED BY <1>2, <1>3, <1>5, <1>6 DEF BillFree

----
(* Types: the order, its shipments and its receipts. *)

LEMMA ReceiptInserted ==
  ASSUME NEW g \in Receipts, receipts \in [Receipts -> ReceiptRows]
  PROVE  NoReceipt \in ReceiptRows
<1>1. PICK l \in Lines : TRUE
  BY DEF ReceiptRows
<1>2. (CHOOSE i \in Lines : TRUE) \in Lines
  BY <1>1
<1> QED BY <1>2 DEF NoReceipt, ReceiptRows, ReceiptStates

LEMMA DraftTyped ==
  ASSUME NEW row \in ValidRows
  PROVE  /\ row \in ReceiptRows
         /\ row.state = "DRAFT" /\ row.line \in Lines
         /\ row.received \in Nat /\ row.accepted \in Nat
         /\ row.received <= Receivable(row.line) /\ row.accepted <= row.received
<1> DEFINE top == Max({0} \union {Ordered[l] : l \in Lines})
<1> HIDE DEF top
<1>1. /\ row.received <= Receivable(row.line) /\ row.accepted <= row.received
      /\ row \in DraftRows
  BY DEF ValidRows
<1>2. PICK l \in Lines, r \in 1..top, a \in 0..top :
        row = [state |-> "DRAFT", line |-> l, received |-> r, accepted |-> a]
  <2>1. DraftRows = {[state |-> "DRAFT", line |-> l, received |-> r, accepted |-> a] :
                       l \in Lines, r \in 1..top, a \in 0..top}
    BY DEF DraftRows, top
  <2> QED BY <1>1, <2>1
<1>3. r \in Nat /\ a \in Nat
  OBVIOUS
<1>4. row \in ReceiptRows
  BY <1>2, <1>3 DEF ReceiptRows, ReceiptStates
<1> QED BY <1>1, <1>2, <1>3, <1>4

LEMMA DecidedTyped ==
  ASSUME NEW status \in OrderStatuses, NEW lines
  PROVE  Decided(status, lines) \in OrderStatuses
BY DEF Decided, OrderStatuses

LEMMA MovedTyped ==
  ASSUME NEW row \in ShipmentRows, NEW status \in ShipmentStatuses
  PROVE  Moved(row, status) \in ShipmentRows
BY DEF Moved, ShipmentRows

LEMMA ShippingTyped ==
  ASSUME ReceivingTypes, Jobs, NEW w \in Workers, ShippingStep(w),
         UNCHANGED <<received, receipts, stocked>>
  PROVE  ReceivingTypes' /\ Acts(w)
<1> USE ShippingAssumption DEF ReceivingTypes
<1>0. ASSUME shipments' \in [Shipments -> ShipmentRows \union {NoShipment}],
             UNCHANGED <<clients, order>>
      PROVE  ReceivingTypes'
  BY <1>0
<1>1. CASE CreateShipment(w)
  <2>1. Acts(w) /\ UNCHANGED <<clients, order>>
    BY <1>1, UnchangedActs DEF CreateShipment
  <2>2. shipments' \in [Shipments -> ShipmentRows \union {NoShipment}]
    BY <1>1 DEF CreateShipment
  <2> QED BY <2>1, <2>2, <1>0
<1>2. CASE ShipmentEditLoad(w)
  <2>1. PICK s \in Shipments, row \in ShipmentRows :
          Becomes(w, [step |-> "shipment_save", shipment |-> s, row |-> row])
    BY <1>2 DEF ShipmentEditLoad
  <2> DEFINE j == [step |-> "shipment_save", shipment |-> s, row |-> row]
  <2>2. JobShape(j) /\ j.step # "bill_approve"
    BY DEF JobShape, GoodsShape, BillShape, ReturnShape, CreditShape, ExpenseShape, ConfirmSteps
  <2>3. Acts(w)
    BY <2>1, <2>2, BecomesServes DEF Acts
  <2> QED BY <1>2, <2>3, <1>0 DEF ShipmentEditLoad
<1>3. CASE ShipmentStatusLoad(w)
  <2>1. PICK s \in Shipments, status \in ShipmentStatuses :
          /\ Sent(s)
          /\ Becomes(w, [step |-> "shipment_save", shipment |-> s,
                         row |-> Moved(shipments[s], status)])
    BY <1>3 DEF ShipmentStatusLoad
  <2>2. Moved(shipments[s], status) \in ShipmentRows
    <3>1. shipments[s] \in ShipmentRows
      <4>1. shipments[s] \in ShipmentRows \union {NoShipment}
        OBVIOUS
      <4>2. shipments[s] # NoShipment
        BY <2>1 DEF Sent, NoShipment
      <4> QED BY <4>1, <4>2
    <3> QED BY <3>1, MovedTyped
  <2> DEFINE row == Moved(shipments[s], status)
             j == [step |-> "shipment_save", shipment |-> s, row |-> row]
  <2> HIDE DEF row
  <2>3. JobShape(j) /\ j.step # "bill_approve"
    BY <2>2 DEF row, JobShape, GoodsShape, BillShape, ReturnShape, CreditShape, ExpenseShape, ConfirmSteps
  <2>4. Becomes(w, j)
    BY <2>1 DEF row
  <2>5. Acts(w)
    BY <2>4, <2>3, BecomesServes DEF Acts
  <2> QED BY <1>3, <2>5, <1>0 DEF ShipmentStatusLoad
<1>4. CASE ShipmentSave(w)
  <2>1. Acts(w)
    BY <1>4, RespondActs DEF ShipmentSave
  <2>2. job[w].shipment \in Shipments /\ job[w].row \in ShipmentRows
    BY <1>4 DEF ShipmentSave, At, Jobs, JobShape, GoodsShape
  <2>3. shipments' \in [Shipments -> ShipmentRows \union {NoShipment}]
    BY <1>4, <2>2 DEF ShipmentSave
  <2> QED BY <1>4, <2>1, <2>3, <1>0 DEF ShipmentSave
<1>5. CASE DeleteShipment(w)
  <2>1. Acts(w)
    BY <1>5, UnchangedActs DEF DeleteShipment
  <2>2. shipments' \in [Shipments -> ShipmentRows \union {NoShipment}]
    BY <1>5 DEF DeleteShipment
  <2> QED BY <1>5, <2>1, <2>2, <1>0 DEF DeleteShipment
<1> QED BY <1>1, <1>2, <1>3, <1>4, <1>5 DEF ShippingStep

LEMMA OrderTyped ==
  ASSUME ReceivingTypes, Jobs, NEW w \in Workers,
         \/ OrderStatusLoad(w) \/ OrderStatusSave(w) \/ OrderEditLoad(w) \/ OrderEditSave(w)
  PROVE  ReceivingTypes' /\ Acts(w)
<1> USE ReceivingAssumption DEF ReceivingTypes
<1>1. CASE OrderStatusLoad(w)
  <2>1. PICK s \in OrderTargets : Becomes(w, [step |-> "order_status", status |-> s])
    BY <1>1 DEF OrderStatusLoad
  <2> DEFINE j == [step |-> "order_status", status |-> s]
  <2>2. JobShape(j) /\ j.step # "bill_approve"
    BY DEF JobShape, GoodsShape, BillShape, ReturnShape, CreditShape, ExpenseShape, ConfirmSteps
  <2>3. Acts(w)
    BY <2>1, <2>2, BecomesServes DEF Acts
  <2> QED BY <1>1, <2>3 DEF OrderStatusLoad, goods
<1>2. CASE OrderStatusSave(w)
  <2>1. Acts(w)
    BY <1>2, RespondActs DEF OrderStatusSave
  <2>2. order' \in OrderStatuses
    BY <1>2 DEF OrderStatusSave, At, Jobs, JobShape, GoodsShape
  <2> QED BY <1>2, <2>1, <2>2 DEF OrderStatusSave
<1>3. CASE OrderEditLoad(w)
  <2>1. PICK s \in OrderEdits \union {order}, lines \in BOOLEAN :
          Becomes(w, [step |-> "order_edit", status |-> s, lines |-> lines])
    BY <1>3 DEF OrderEditLoad
  <2> DEFINE j == [step |-> "order_edit", status |-> s, lines |-> lines]
  <2>2. JobShape(j) /\ j.step # "bill_approve"
    BY DEF JobShape, GoodsShape, BillShape, ReturnShape, CreditShape, ExpenseShape, ConfirmSteps
  <2>3. Acts(w)
    BY <2>1, <2>2, BecomesServes DEF Acts
  <2> QED BY <1>3, <2>3 DEF OrderEditLoad, goods
<1>4. CASE OrderEditSave(w)
  <2>1. Acts(w)
    BY <1>4, RespondActs DEF OrderEditSave
  <2>2. order' \in OrderStatuses
    BY <1>4 DEF OrderEditSave, At, Jobs, JobShape, GoodsShape
  <2>3. received' \in [Lines -> Nat]
    BY <1>4 DEF OrderEditSave
  <2> QED BY <1>4, <2>1, <2>2, <2>3 DEF OrderEditSave
<1> QED BY <1>1, <1>2, <1>3, <1>4

LEMMA ReceiptTyped ==
  ASSUME ReceivingTypes, Jobs, NEW w \in Workers, NEW referenced,
         \/ CreateReceipt(w) \/ ReceiptEditLoad(w) \/ ReceiptEditSave(w, referenced)
         \/ DeleteReceipt(w, referenced)
  PROVE  ReceivingTypes' /\ Acts(w)
<1> USE ReceivingAssumption DEF ReceivingTypes
<1>0. ASSUME receipts' \in [Receipts -> ReceiptRows], stocked' \in [Receipts -> Nat],
             UNCHANGED <<clients, order, shipments, received>>
      PROVE  ReceivingTypes'
  BY <1>0
<1>1. CASE CreateReceipt(w)
  <2>1. PICK g \in Receipts, row \in ValidRows :
          /\ receipts' = [receipts EXCEPT ![g] = row]
          /\ stocked' = [stocked EXCEPT ![g] = 0]
    BY <1>1 DEF CreateReceipt
  <2>2. row \in ReceiptRows
    BY DraftTyped
  <2>3. receipts' \in [Receipts -> ReceiptRows] /\ stocked' \in [Receipts -> Nat]
    BY <2>1, <2>2
  <2>4. Acts(w)
    BY <1>1, UnchangedActs DEF CreateReceipt
  <2> QED BY <1>1, <2>3, <2>4, <1>0 DEF CreateReceipt
<1>2. CASE ReceiptEditLoad(w)
  <2>0. PICK g \in Receipts :
          /\ receipts[g].state = "DRAFT"
          /\ \E row \in ValidRows \union {receipts[g]} :
               Becomes(w, [step |-> "receipt_edit", receipt |-> g, row |-> row,
                           item |-> row # receipts[g]])
    BY <1>2 DEF ReceiptEditLoad
  <2>1. PICK row \in ValidRows \union {receipts[g]} :
          Becomes(w, [step |-> "receipt_edit", receipt |-> g, row |-> row,
                      item |-> row # receipts[g]])
    BY <2>0
  <2> DEFINE item == row # receipts[g]
             j == [step |-> "receipt_edit", receipt |-> g, row |-> row, item |-> item]
  <2>2. row \in ReceiptRows /\ row.state = "DRAFT"
    BY <2>0, <2>1, DraftTyped
  <2>3. Becomes(w, j)
    BY <2>1
  <2> HIDE DEF item
  <2>4. JobShape(j) /\ j.step # "bill_approve"
    BY <2>2 DEF JobShape, GoodsShape, BillShape, ReturnShape, CreditShape, ExpenseShape, ConfirmSteps
  <2>5. Acts(w)
    BY <2>3, <2>4, BecomesServes DEF Acts
  <2> QED BY <1>2, <2>5 DEF ReceiptEditLoad, goods
<1>3. CASE ReceiptEditSave(w, referenced)
  <2>1. Acts(w)
    BY <1>3, RespondActs DEF ReceiptEditSave
  <2>2. job[w].receipt \in Receipts /\ job[w].row \in ReceiptRows
    BY <1>3 DEF ReceiptEditSave, At, Jobs, JobShape, GoodsShape
  <2> DEFINE g == job[w].receipt
  <2>3. [receipts[g] EXCEPT !.state = "DRAFT"] \in ReceiptRows
    BY <2>2 DEF ReceiptRows, ReceiptStates
  <2>4. receipts' = [receipts EXCEPT ![g] =
          IF job[w].item THEN job[w].row ELSE [receipts[g] EXCEPT !.state = "DRAFT"]]
    BY <1>3 DEF ReceiptEditSave
  <2>5. receipts' \in [Receipts -> ReceiptRows]
    BY <2>2, <2>3, <2>4
  <2> QED BY <1>3, <2>1, <2>5, <1>0 DEF ReceiptEditSave
<1>4. CASE DeleteReceipt(w, referenced)
  <2>1. Acts(w)
    BY <1>4, UnchangedActs DEF DeleteReceipt
  <2>2. PICK g \in Receipts : receipts' = [receipts EXCEPT ![g] = NoReceipt]
    BY <1>4 DEF DeleteReceipt
  <2>3. receipts' \in [Receipts -> ReceiptRows]
    BY <2>2, ReceiptInserted
  <2> QED BY <1>4, <2>1, <2>3, <1>0 DEF DeleteReceipt
<1> QED BY <1>1, <1>2, <1>3, <1>4

LEMMA CountedTyped ==
  ASSUME ReceivingTypes, Jobs, NEW w \in Workers, job[w].step \in ConfirmSteps
  PROVE  /\ job[w].line \in Lines /\ job[w].receipt \in Receipts
         /\ job[w].received \in Nat /\ job[w].order \in OrderStatuses
         /\ Ordered[job[w].line] \in Nat
         /\ receipts[job[w].receipt].accepted \in Nat
         /\ Counted(w) = IF Ordered[job[w].line] <= job[w].received + receipts[job[w].receipt].accepted
                         THEN Ordered[job[w].line]
                         ELSE job[w].received + receipts[job[w].receipt].accepted
         /\ Counted(w) \in Nat
<1>1. /\ job[w].line \in Lines /\ job[w].receipt \in Receipts
      /\ job[w].received \in Nat /\ job[w].order \in OrderStatuses
  BY DEF Jobs, JobShape, GoodsShape
<1>2. Ordered[job[w].line] \in Nat /\ receipts[job[w].receipt].accepted \in Nat
  BY <1>1, ReceivingAssumption DEF ReceivingTypes, ReceiptRows
<1> DEFINE top == Ordered[job[w].line]
           sum == job[w].received + receipts[job[w].receipt].accepted
<1>3. top \in Int /\ sum \in Int
  BY <1>1, <1>2
<1>4. Counted(w) = Min({top, sum})
  BY DEF Counted
<1> HIDE DEF top, sum
<1>5. Min({top, sum}) = IF top <= sum THEN top ELSE sum
  BY <1>3, MinPair
<1> QED BY <1>1, <1>2, <1>4, <1>5 DEF top, sum

LEMMA ConfirmTyped ==
  ASSUME ReceivingTypes, Jobs, NEW w \in Workers,
         ConfirmLock(w) \/ ConfirmDecide(w) \/ ConfirmCommit(w) \/ Abort(w)
  PROVE  ReceivingTypes' /\ Acts(w)
<1> USE ReceivingAssumption DEF ReceivingTypes
<1>1. CASE ConfirmLock(w)
  <2>1. PICK g \in Receipts :
          Becomes(w, [step |-> "confirm", receipt |-> g, line |-> receipts[g].line,
                      order |-> order, received |-> received[receipts[g].line]])
    BY <1>1 DEF ConfirmLock
  <2> DEFINE l == receipts[g].line
             j == [step |-> "confirm", receipt |-> g, line |-> l,
                   order |-> order, received |-> received[l]]
  <2>2. l \in Lines /\ received[l] \in Nat
    BY DEF ReceiptRows
  <2>3. Becomes(w, j)
    BY <2>1
  <2> HIDE DEF l
  <2>4. JobShape(j) /\ j.step # "bill_approve"
    BY <2>2 DEF JobShape, GoodsShape, BillShape, ReturnShape, CreditShape, ExpenseShape, ConfirmSteps
  <2>5. Acts(w)
    BY <2>3, <2>4, BecomesServes DEF Acts
  <2> QED BY <1>1, <2>5 DEF ConfirmLock, goods
<1>2. CASE ConfirmDecide(w)
  <2>1. job[w] \in [step : ConfirmSteps, receipt : Receipts, line : Lines,
                    order : OrderStatuses, received : Nat]
    BY <1>2 DEF ConfirmDecide, At, Jobs, JobShape, GoodsShape, ConfirmSteps
  <2> DEFINE o == Decided(job[w].order, [received EXCEPT ![job[w].line] = Counted(w)])
             j == [job[w] EXCEPT !.step = "confirmed", !.order = o]
  <2>2. o \in OrderStatuses
    BY <2>1, DecidedTyped
  <2>3. Becomes(w, j)
    BY <1>2, <2>1 DEF ConfirmDecide
  <2> HIDE DEF o
  <2>4. j \in [step : ConfirmSteps, receipt : Receipts, line : Lines,
               order : OrderStatuses, received : Nat] /\ j.step = "confirmed"
    BY <2>1, <2>2 DEF ConfirmSteps
  <2> HIDE DEF j
  <2>5. JobShape(j) /\ j.step # "bill_approve"
    BY <2>4 DEF JobShape, GoodsShape, BillShape, ReturnShape, CreditShape, ExpenseShape
  <2>6. Acts(w)
    BY <2>3, <2>5, BecomesServes DEF Acts
  <2> QED BY <1>2, <2>6 DEF ConfirmDecide, goods
<1>3. CASE ConfirmCommit(w)
  <2>1. Acts(w)
    BY <1>3, RespondActs DEF ConfirmCommit
  <2>2. /\ job[w].line \in Lines /\ job[w].receipt \in Receipts
        /\ job[w].order \in OrderStatuses
        /\ receipts[job[w].receipt].accepted \in Nat /\ Counted(w) \in Nat
    BY <1>3, CountedTyped DEF ConfirmCommit, At, ConfirmSteps
  <2> DEFINE g == job[w].receipt
             l == job[w].line
  <2>3. order' = job[w].order /\ order' \in OrderStatuses
    BY <1>3, <2>2 DEF ConfirmCommit
  <2>4. received' \in [Lines -> Nat]
    BY <1>3, <2>2 DEF ConfirmCommit
  <2>5. stocked' \in [Receipts -> Nat]
    BY <1>3, <2>2 DEF ConfirmCommit
  <2>6. receipts' = [receipts EXCEPT ![g] = [receipts[g] EXCEPT !.state = "CONFIRMED"]]
    BY <1>3 DEF ConfirmCommit
  <2>7. [receipts[g] EXCEPT !.state = "CONFIRMED"] \in ReceiptRows
    <3>1. receipts[g] \in ReceiptRows
      BY <2>2
    <3>2. \A r \in ReceiptRows : [r EXCEPT !.state = "CONFIRMED"] \in ReceiptRows
      BY DEF ReceiptRows, ReceiptStates
    <3> HIDE DEF g
    <3> QED BY <3>1, <3>2
  <2>8. receipts' \in [Receipts -> ReceiptRows]
    BY <2>2, <2>6, <2>7
  <2> QED BY <1>3, <2>1, <2>3, <2>4, <2>5, <2>8 DEF ConfirmCommit
<1>4. CASE Abort(w)
  <2>1. Acts(w)
    BY <1>4, RespondActs DEF Abort
  <2> QED BY <1>4, <2>1 DEF Abort, goods
<1> QED BY <1>1, <1>2, <1>3, <1>4

\* The goods' steps touch no bill.
LEMMA GoodsTyped ==
  ASSUME ReceivingTypes, Jobs, NEW w \in Workers, Goods(w)
  PROVE  ReceivingTypes' /\ Acts(w) /\ UNCHANGED <<money, returns, sentBack>>
<1>1. ReceivingStep(w, Referenced)
  BY DEF Goods
<1>2. ReceivingTypes' /\ Acts(w)
  BY <1>1, ShippingTyped, OrderTyped, ReceiptTyped, ConfirmTyped DEF ReceivingStep
<1> QED BY <1>2 DEF Goods

----
(* Types: bills and payments. *)

BillTypes ==
  /\ bills = [b \in Bills |-> bills[b]] /\ \A b \in Bills : Fair(bills[b])
  /\ billed \in [Bills -> ItemRow]
  /\ payments \in [Payments -> Amount]

LEMMA TotalsItemized ==
  ASSUME NEW n \in Nat \ {0}, NEW q \in Totals(n), NEW i, i.quantity = q, i.largest = n
  PROVE  Itemized(i) /\ q \in Nat
<1> DEFINE most == (IF "repeat_lines" \in clients THEN MaxLines ELSE 1) * n
<1>1. most \in Nat
  BY PayablesAssumption
<1>2. q \in n .. most
  BY DEF Totals
<1> HIDE DEF most
<1>3. q \in Nat /\ n <= q
  BY <1>1, <1>2
<1> QED BY <1>3 DEF Itemized

LEMMA ItemParts ==
  ASSUME NEW i \in ItemRow
  PROVE  Itemized(i) /\ i.receipt \in Receipts \union {"none"}
BY DEF ItemRow

LEMMA NoItemTyped == NoItem \in ItemRow
BY DEF NoItem, ItemRow, Itemized

LEMMA BillParts ==
  ASSUME NEW r \in BillRows
  PROVE  /\ r.status \in BillStatuses \union {"ABSENT"} /\ r.approved \in BOOLEAN
         /\ r.total \in Nat /\ r.paid \in Nat /\ r.balance \in Nat
BY DEF BillRows

LEMMA NoBillTyped ==
  /\ NoBill \in BillRows
  /\ NoBill.status = "ABSENT" /\ ~NoBill.approved
  /\ NoBill.total = 0 /\ NoBill.paid = 0 /\ NoBill.balance = 0
BY DEF NoBill, BillRows

\* A bill with another status, one with new items, and one whose money changes.
WithStatus(r, s) == [r EXCEPT !.status = s]
WithItems(r, q) == [r EXCEPT !.total = q, !.paid = 0, !.balance = q]
WithMoney(r, p, l, s) == [r EXCEPT !.paid = p, !.balance = l, !.status = s]

LEMMA BillWithStatus ==
  ASSUME NEW r \in BillRows, NEW s \in BillStatuses
  PROVE  /\ WithStatus(r, s) \in BillRows
         /\ WithStatus(r, s).status = s
         /\ WithStatus(r, s).total = r.total
         /\ WithStatus(r, s).paid = r.paid
         /\ WithStatus(r, s).balance = r.balance
         /\ WithStatus(r, s).approved <=> r.approved
BY DEF BillRows, WithStatus

LEMMA BillWithItems ==
  ASSUME NEW r \in BillRows, NEW q \in Nat
  PROVE  /\ WithItems(r, q) \in BillRows
         /\ WithItems(r, q).status = r.status
         /\ WithItems(r, q).total = q
         /\ WithItems(r, q).paid = 0
         /\ WithItems(r, q).balance = q
         /\ WithItems(r, q).approved <=> r.approved
BY DEF BillRows, WithItems

LEMMA BillWithMoney ==
  ASSUME NEW r \in BillRows, NEW p \in Nat, NEW l \in Nat, NEW s \in BillStatuses
  PROVE  /\ WithMoney(r, p, l, s) \in BillRows
         /\ WithMoney(r, p, l, s).status = s
         /\ WithMoney(r, p, l, s).total = r.total
         /\ WithMoney(r, p, l, s).paid = p
         /\ WithMoney(r, p, l, s).balance = l
         /\ WithMoney(r, p, l, s).approved <=> r.approved
BY DEF BillRows, WithMoney

LEMMA SettledTyped ==
  ASSUME NEW p, NEW l
  PROVE  /\ Settled(p, l) \in BillStatuses
         /\ Settled(p, l) = "PAID" <=> l = 0
BY DEF Settled, BillStatuses

LEMMA FairParts ==
  ASSUME NEW r, Fair(r)
  PROVE  /\ r.total \in Nat /\ r.paid \in Nat /\ r.balance \in Nat
         /\ r.paid + r.balance = r.total
         /\ r.status \in {"PAID", "ABSENT"} => r.balance = 0
         /\ r.status = "ABSENT" => r.paid = 0
<1>1. r.total \in Nat /\ r.paid \in Nat /\ r.balance \in Nat
  BY BillParts DEF Fair
<1> QED BY <1>1 DEF Fair

\* What a payment makes of a bill ...
LEMMA PayIs ==
  ASSUME NEW b \in Bills, Fair(bills[b]), NEW n \in Nat, n > 0, n <= bills[b].balance
  PROVE  /\ Fair(Pay(b, n))
         /\ Pay(b, n).paid = bills[b].paid + n
         /\ Pay(b, n).total = bills[b].total
         /\ Pay(b, n).status # "ABSENT"
         /\ Pay(b, n).approved <=> bills[b].approved
<1> DEFINE r == bills[b]
           p == r.paid + n
           l == Max({0, r.total - p})
           s == IF l = 0 THEN "PAID" ELSE "PARTIALLY_PAID"
           t == WithMoney(r, p, l, s)
<1>1. /\ r \in BillRows /\ r.paid + r.balance = r.total
      /\ r.total \in Nat /\ r.paid \in Nat /\ r.balance \in Nat /\ 0 \in Int
  BY FairParts DEF Fair
<1>3. Pay(b, n) = t
  BY DEF Pay, WithMoney
<1>2. n <= r.balance
  OBVIOUS
<1> HIDE DEF r
<1>4. p \in Nat /\ r.total - p \in Int /\ r.total - p = r.balance - n /\ 0 <= r.total - p
  BY <1>1, <1>2
<1>5. l = r.total - p
  BY <1>1, <1>4, MaxPair
<1>6. l \in Nat /\ p + l = r.total
  BY <1>1, <1>4, <1>5
<1> HIDE DEF p, l
<1>7. s \in BillStatuses /\ (s = "PAID" => l = 0) /\ s # "ABSENT"
  BY DEF BillStatuses
<1> HIDE DEF s
<1>10. r \in BillRows /\ p \in Nat /\ l \in Nat /\ s \in BillStatuses
  BY <1>1, <1>4, <1>6, <1>7
<1>8. /\ t \in BillRows
      /\ t.status = s /\ t.total = r.total /\ t.paid = p /\ t.balance = l
      /\ t.approved <=> r.approved
  BY <1>10, BillWithMoney
<1> HIDE DEF t
<1>9. Fair(t)
  BY <1>6, <1>7, <1>8 DEF Fair
<1> QED BY <1>3, <1>7, <1>8, <1>9 DEF r, p

\* ... and what a credit makes of it.
LEMMA CreditedIs ==
  ASSUME NEW b \in Bills, Fair(bills[b]), NEW n \in Nat, n > 0, n <= bills[b].balance
  PROVE  /\ Fair(Credited(b, n))
         /\ Credited(b, n).paid = bills[b].paid + n
         /\ Credited(b, n).total = bills[b].total
         /\ Credited(b, n).status # "ABSENT"
         /\ Credited(b, n).approved <=> bills[b].approved
<1> DEFINE r == bills[b]
           l == Max({0, r.balance - n})
           p == Max({0, r.total - l})
           s == Settled(p, l)
           t == [r EXCEPT !.balance = l, !.paid = p, !.status = s]
           u == WithMoney(r, p, l, s)
<1>1. /\ r \in BillRows /\ r.paid + r.balance = r.total
      /\ r.total \in Nat /\ r.paid \in Nat /\ r.balance \in Nat /\ 0 \in Int
  BY FairParts DEF Fair
<1>2. Credited(b, n) = t
  BY DEF Credited
<1>3. n <= r.balance
  OBVIOUS
<1> HIDE DEF r
<1>4. r.balance - n \in Int /\ 0 <= r.balance - n
  BY <1>1, <1>3
<1>5. l = r.balance - n
  BY <1>1, <1>4, MaxPair
<1> HIDE DEF l
<1>6. l \in Nat /\ r.total - l \in Int /\ 0 <= r.total - l /\ r.total - l = r.paid + n
  BY <1>1, <1>4, <1>5
<1>7. p = r.paid + n
  BY <1>1, <1>6, MaxPair
<1> HIDE DEF p
<1>8. p \in Nat /\ p + l = r.total
  BY <1>1, <1>5, <1>7
<1>9. s \in BillStatuses /\ (s = "PAID" => l = 0) /\ s # "ABSENT"
  BY SettledTyped DEF BillStatuses
<1> HIDE DEF s
<1>10. t = u
  BY <1>1 DEF BillRows, WithMoney
<1>11. /\ u \in BillRows
       /\ u.status = s /\ u.total = r.total /\ u.paid = p /\ u.balance = l
       /\ u.approved <=> r.approved
  BY <1>1, <1>6, <1>8, <1>9, BillWithMoney
<1> HIDE DEF t, u
<1>12. Fair(u)
  BY <1>8, <1>9, <1>11 DEF Fair
<1> QED BY <1>2, <1>7, <1>9, <1>10, <1>11, <1>12 DEF r

LEMMA FairNoBill == Fair(NoBill) /\ ~NoBill.approved /\ NoBill.paid = 0 /\ NoBill.total = 0
BY NoBillTyped DEF Fair

LEMMA FairWithStatus ==
  ASSUME NEW r, Fair(r), NEW s \in {"DRAFT", "UNMATCHED"}
  PROVE  /\ Fair(WithStatus(r, s))
         /\ WithStatus(r, s).status = s
         /\ WithStatus(r, s).paid = r.paid
         /\ WithStatus(r, s).approved <=> r.approved
<1>1. s \in BillStatuses /\ r \in BillRows
  BY DEF BillStatuses, Fair
<1>2. /\ WithStatus(r, s) \in BillRows
      /\ WithStatus(r, s).status = s
      /\ WithStatus(r, s).total = r.total
      /\ WithStatus(r, s).paid = r.paid
      /\ WithStatus(r, s).balance = r.balance
      /\ WithStatus(r, s).approved <=> r.approved
  BY <1>1, BillWithStatus
<1> QED BY <1>2 DEF Fair

LEMMA FairWithItems ==
  ASSUME NEW r, Fair(r), r.status \in {"DRAFT", "UNMATCHED"}, NEW q \in Nat
  PROVE  /\ Fair(WithItems(r, q))
         /\ WithItems(r, q).paid = 0
         /\ WithItems(r, q).status = r.status
         /\ WithItems(r, q).approved <=> r.approved
<1>1. r \in BillRows
  BY DEF Fair
<1>2. /\ WithItems(r, q) \in BillRows
      /\ WithItems(r, q).status = r.status
      /\ WithItems(r, q).total = q
      /\ WithItems(r, q).paid = 0
      /\ WithItems(r, q).balance = q
      /\ WithItems(r, q).approved <=> r.approved
  BY <1>1, BillWithItems
<1> QED BY <1>2 DEF Fair

LEMMA BillChanged ==
  ASSUME BillTypes, NEW b \in Bills, NEW r, Fair(r), bills' = [bills EXCEPT ![b] = r]
  PROVE  /\ bills' = [x \in Bills |-> bills'[x]] /\ \A x \in Bills : Fair(bills'[x])
         /\ bills'[b] = r
         /\ \A x \in Bills \ {b} : bills'[x] = bills[x]
<1>1. bills'[b] = r /\ \A x \in Bills \ {b} : bills'[x] = bills[x]
  BY DEF BillTypes
<1>2. bills' = [x \in Bills |-> bills'[x]]
  BY DEF BillTypes
<1>3. \A x \in Bills : Fair(bills'[x])
  BY <1>1 DEF BillTypes
<1> QED BY <1>1, <1>2, <1>3

\* What bill_save writes.
LEMMA SavedBill ==
  ASSUME BillTypes, Jobs, NEW w \in Workers, BillSave(w), NEW b, b = job[w].bill
  PROVE  /\ b \in Bills /\ BillFree(w, b) /\ Acts(w) /\ job'[w] = Idle
         /\ BillTypes'
         /\ ~bills'[b].approved /\ bills'[b].status \in {"DRAFT", "UNMATCHED"}
         /\ IF job[w].items
            THEN /\ Present(job[w].receipt)
                 /\ billed'[b] = [receipt |-> job[w].receipt, quantity |-> job[w].quantity,
                                 largest |-> job[w].largest]
                 /\ bills'[b].paid = 0
            ELSE billed'[b] = billed[b] /\ bills'[b].paid = job[w].row.paid
         /\ \A x \in Bills \ {b} : bills'[x] = bills[x] /\ billed'[x] = billed[x]
<1>1. /\ b \in Bills /\ job[w].receipt \in Receipts /\ Itemized(job[w])
      /\ job[w].quantity \in Nat /\ Fair(job[w].row) /\ ~job[w].row.approved /\ job[w].row.status \in {"DRAFT", "UNMATCHED"}
  BY DEF BillSave, At, Jobs, JobShape, BillShape, Itemized
<1>2. Acts(w) /\ job'[w] = Idle
  BY RespondActs DEF BillSave
<1> DEFINE r == IF job[w].items THEN WithItems(job[w].row, job[w].quantity) ELSE job[w].row
           item == [receipt |-> job[w].receipt, quantity |-> job[w].quantity,
                    largest |-> job[w].largest]
           i == IF job[w].items THEN item ELSE billed[b]
<1>3. bills' = [bills EXCEPT ![b] = r]
  BY DEF BillSave, WithItems
<1>4. billed' = [billed EXCEPT ![b] = i]
  BY DEF BillSave
<1>5. /\ Fair(r) /\ ~r.approved /\ r.status \in {"DRAFT", "UNMATCHED"}
      /\ r.paid = IF job[w].items THEN 0 ELSE job[w].row.paid
  <2>1. CASE job[w].items
    BY <1>1, <2>1, FairWithItems
  <2>2. CASE ~job[w].items
    BY <1>1, <2>2
  <2> QED BY <2>1, <2>2
<1>6. i \in ItemRow
  <2>1. item \in ItemRow
    BY <1>1 DEF ItemRow, Itemized
  <2> HIDE DEF item
  <2> QED BY <1>1, <2>1 DEF BillTypes
<1> HIDE DEF r
<1>7. /\ bills' = [x \in Bills |-> bills'[x]] /\ \A x \in Bills : Fair(bills'[x])
      /\ bills'[b] = r
      /\ \A x \in Bills \ {b} : bills'[x] = bills[x]
  BY <1>1, <1>3, <1>5, BillChanged
<1>8. billed'[b] = i /\ \A x \in Bills \ {b} : billed'[x] = billed[x]
  BY <1>1, <1>4 DEF BillTypes
<1>9. billed' \in [Bills -> ItemRow]
  BY <1>1, <1>4, <1>6 DEF BillTypes
<1>10. BillTypes'
  BY <1>7, <1>9 DEF BillTypes, BillSave
<1> QED BY <1>1, <1>2, <1>5, <1>7, <1>8, <1>10 DEF BillSave

\* The bill that approve_save writes.
LEMMA ApprovedBill ==
  ASSUME BillTypes, Jobs, Held, NEW w \in Workers, ApproveSave(w), NEW b, b = job[w].bill
  PROVE  /\ b \in Bills /\ BillFree(w, b) /\ Acts(w) /\ job'[w] = Idle
         /\ BillTypes'
         /\ bills'[b].paid = bills[b].paid /\ bills'[b].approved /\ bills'[b].status # "ABSENT"
         /\ \A x \in Bills \ {b} : bills'[x] = bills[x]
<1>1. b \in Bills /\ BillFree(w, b) /\ bills[b].paid <= billed[b].quantity
  BY DEF ApproveSave, At, Jobs, JobShape, BillShape, Held
<1>2. Acts(w) /\ job'[w] = Idle
  BY RespondActs DEF ApproveSave
<1> DEFINE total == billed[b].quantity
           paid == bills[b].paid
           left == total - paid
           s == Settled(paid, left)
           r == [status |-> s, total |-> total, paid |-> paid, balance |-> left, approved |-> TRUE]
<1>3. bills' = [bills EXCEPT ![b] = r]
  BY DEF ApproveSave
<1>4. total \in Nat /\ paid \in Nat /\ paid <= total
  BY <1>1, FairParts, ItemParts DEF BillTypes, Itemized
<1>5. left \in Nat /\ paid + left = total
  BY <1>4
<1> HIDE DEF total, paid, left
<1>6. s \in BillStatuses /\ (s = "PAID" => left = 0) /\ s # "ABSENT"
  BY SettledTyped DEF BillStatuses
<1> HIDE DEF s
<1>7. r \in BillRows
  BY <1>4, <1>5, <1>6 DEF BillRows
<1>8. Fair(r) /\ r.paid = paid /\ r.approved /\ r.status # "ABSENT"
  BY <1>5, <1>6, <1>7 DEF Fair
<1> HIDE DEF r
<1>9. /\ bills' = [x \in Bills |-> bills'[x]] /\ \A x \in Bills : Fair(bills'[x])
      /\ bills'[b] = r
      /\ \A x \in Bills \ {b} : bills'[x] = bills[x]
  BY <1>1, <1>3, <1>8, BillChanged
<1>10. BillTypes'
  BY <1>9 DEF BillTypes, ApproveSave
<1> QED BY <1>1, <1>2, <1>8, <1>9, <1>10 DEF paid

LEMMA BillShaped ==
  ASSUME NEW j, BillShape(j), j.step \in {"bill_save", "bill_approve"}
  PROVE  JobShape(j)
BY DEF JobShape, GoodsShape, ReturnShape, CreditShape, ExpenseShape, ConfirmSteps

\* What a request holds that is about to save a bill.
LEMMA LoadedBill ==
  ASSUME BillTypes, Jobs, NEW w \in Workers, BillLoad(w) \/ BillHeaderLoad(w)
  PROVE  /\ Acts(w) /\ UNCHANGED <<clients, goods, money, returns, sentBack>>
         /\ job'[w].step = "bill_save"
         /\ \/ /\ job'[w].items /\ Takes(w, "create_bill")
               /\ bills[job'[w].bill].status = "ABSENT"
               /\ NewBill(w, job'[w].bill)
            \/ /\ Takes(w, "edit_bill")
               /\ job'[w].row.paid = bills[job'[w].bill].paid
<1>1. CASE BillLoad(w)
  <2>1. PICK kind \in {"create_bill", "edit_bill"}, b \in Bills, g \in Receipts,
             s \in NewBillStatuses :
          LET row == IF kind = "create_bill" THEN NoBill ELSE bills[b]
          IN /\ Takes(w, kind)
             /\ (kind = "create_bill") <=> (bills[b].status = "ABSENT")
             /\ kind = "create_bill" => NewBill(w, b)
             /\ ~row.approved
             /\ \E n \in 1..Unbilled(g, b) : \E q \in Totals(n) :
                  Becomes(w, [step |-> "bill_save", bill |-> b, row |-> [row EXCEPT !.status = s],
                              items |-> TRUE, receipt |-> g, quantity |-> q, largest |-> n])
    BY <1>1 DEF BillLoad
  <2> DEFINE row == IF kind = "create_bill" THEN NoBill ELSE bills[b]
  <2>2. PICK n \in 1..Unbilled(g, b) : \E q \in Totals(n) :
          Becomes(w, [step |-> "bill_save", bill |-> b, row |-> WithStatus(row, s),
                      items |-> TRUE, receipt |-> g, quantity |-> q, largest |-> n])
    BY <2>1 DEF WithStatus
  <2>20. PICK q \in Totals(n) :
          Becomes(w, [step |-> "bill_save", bill |-> b, row |-> WithStatus(row, s),
                      items |-> TRUE, receipt |-> g, quantity |-> q, largest |-> n])
    BY <2>2
  <2>3. /\ Takes(w, kind)
        /\ (kind = "create_bill") <=> (bills[b].status = "ABSENT")
        /\ kind = "create_bill" => NewBill(w, b)
        /\ ~row.approved
    BY <2>1
  <2>4. s \in {"DRAFT", "UNMATCHED"} /\ n \in Nat \ {0}
    BY PayablesAssumption
  <2>5. Fair(row) /\ (kind = "edit_bill" => row.paid = bills[b].paid)
    BY FairNoBill DEF BillTypes
  <2> HIDE DEF row
  <2>6. /\ Fair(WithStatus(row, s)) /\ WithStatus(row, s).status = s
        /\ WithStatus(row, s).paid = row.paid /\ ~WithStatus(row, s).approved
    BY <2>3, <2>4, <2>5, FairWithStatus
  <2> DEFINE new == WithStatus(row, s)
             j == [step |-> "bill_save", bill |-> b, row |-> new,
                   items |-> TRUE, receipt |-> g, quantity |-> q, largest |-> n]
  <2>7. Becomes(w, j)
    BY <2>20
  <2> HIDE DEF new
  <2>80. Itemized(j)
    BY <2>4, TotalsItemized
  <2>8. BillShape(j)
    BY <2>4, <2>6, <2>80 DEF BillShape, new
  <2>9. j.step = "bill_save" /\ j.items /\ j.bill = b /\ j.row = new
    OBVIOUS
  <2> HIDE DEF j
  <2>10. JobShape(j)
    BY <2>8, <2>9, BillShaped
  <2>11. Serves(w) /\ job'[w] = j
    BY <2>7, <2>10, BecomesServes
  <2>12. Acts(w)
    BY <2>9, <2>11 DEF Acts
  <2>13. UNCHANGED <<clients, goods, money, returns, sentBack>>
    BY <1>1 DEF BillLoad
  <2> QED BY <2>3, <2>5, <2>6, <2>9, <2>11, <2>12, <2>13 DEF new
<1>2. CASE BillHeaderLoad(w)
  <2>1. PICK b \in Bills, s \in NewBillStatuses :
          /\ bills[b].status # "ABSENT"
          /\ ~bills[b].approved
          /\ billed[b].receipt \in Receipts
          /\ Becomes(w, [step |-> "bill_save", bill |-> b,
                         row |-> WithStatus(bills[b], s), items |-> FALSE,
                         receipt |-> billed[b].receipt, quantity |-> billed[b].quantity,
                         largest |-> billed[b].largest])
    BY <1>2 DEF BillHeaderLoad, WithStatus
  <2>2. s \in {"DRAFT", "UNMATCHED"} /\ Fair(bills[b]) /\ Itemized(billed[b])
    BY PayablesAssumption, ItemParts DEF BillTypes
  <2>3. /\ Fair(WithStatus(bills[b], s)) /\ WithStatus(bills[b], s).status = s
        /\ WithStatus(bills[b], s).paid = bills[b].paid /\ ~WithStatus(bills[b], s).approved
    BY <2>1, <2>2, FairWithStatus
  <2> DEFINE new == WithStatus(bills[b], s)
             j == [step |-> "bill_save", bill |-> b, row |-> new, items |-> FALSE,
                   receipt |-> billed[b].receipt, quantity |-> billed[b].quantity,
                   largest |-> billed[b].largest]
  <2>4. Becomes(w, j)
    BY <2>1
  <2> HIDE DEF new
  <2>5. BillShape(j)
    BY <2>1, <2>2, <2>3 DEF BillShape, Itemized, new
  <2>6. j.step = "bill_save" /\ j.bill = b /\ j.row = new
    OBVIOUS
  <2> HIDE DEF j
  <2>7. JobShape(j)
    BY <2>5, <2>6, BillShaped
  <2>8. Serves(w) /\ job'[w] = j
    BY <2>4, <2>7, BecomesServes
  <2>9. Acts(w)
    BY <2>6, <2>8 DEF Acts
  <2>10. Takes(w, "edit_bill") /\ UNCHANGED <<clients, goods, money, returns, sentBack>>
    BY <1>2 DEF BillHeaderLoad
  <2> QED BY <2>3, <2>6, <2>8, <2>9, <2>10 DEF new
<1> QED BY <1>1, <1>2

\* The item of a bill in approval is within its receipt, with every other bill of it.
LEMMA ApprovalBegun ==
  ASSUME BillTypes, Jobs, Held, NEW w \in Workers, ApproveLoad(w)
  PROVE  /\ Serves(w) /\ UNCHANGED <<clients, goods, money, returns, sentBack>>
         /\ job'[w].step = "bill_approve" /\ job'[w].bill \in Bills
         /\ Approvable(job'[w].bill) /\ BillFree(w, job'[w].bill)
         /\ Held'
<1>1. PICK b \in Bills : /\ BillFree(w, b)
                         /\ Approvable(b)
                         /\ Becomes(w, [step |-> "bill_approve", bill |-> b])
  BY DEF ApproveLoad
<1> DEFINE j == [step |-> "bill_approve", bill |-> b]
<1>2. j.step = "bill_approve" /\ j.bill = b /\ BillShape(j) /\ Becomes(w, j)
  BY <1>1 DEF BillShape
<1> HIDE DEF j
<1>3. Serves(w) /\ job'[w] = j
  BY <1>2, BillShaped, BecomesServes
<1>4. UNCHANGED <<clients, goods, money, returns, sentBack>>
  BY DEF ApproveLoad
<1>5. Held'
  <2> SUFFICES ASSUME NEW v \in Workers, At(v, "bill_approve")'
               PROVE  /\ bills[job'[v].bill].paid <= billed[job'[v].bill].quantity
                      /\ BillFree(v, job[v].bill)'
    BY <1>4 DEF Held, money
  <2>1. \A u \in Others(w) : job'[u] = job[u]
    BY <1>3 DEF Serves
  <2>2. CASE v = w
    <3>1. bills[b].paid <= billed[b].quantity
      BY <1>1 DEF Approvable
    <3> QED BY <1>1, <1>2, <1>3, <2>1, <2>2, <3>1 DEF BillFree, At
  <2>3. CASE v # w
    <3>1. v \in Others(w) /\ At(v, "bill_approve")
      BY <2>1, <2>3 DEF At, Others
    <3>2. bills[job[v].bill].paid <= billed[job[v].bill].quantity /\ BillFree(v, job[v].bill)
      BY <3>1 DEF Held
    <3>3. job[v].bill # b
      BY <1>1, <3>1 DEF BillFree
    <3>4. \A u \in Others(v) : ~(At(u, "bill_approve")' /\ job'[u].bill = job[v].bill)
      <4> TAKE u \in Others(v)
      <4>1. CASE u = w
        BY <1>2, <1>3, <3>3, <4>1
      <4>2. CASE u # w
        BY <2>1, <3>2, <4>2 DEF BillFree, At, Others
      <4> QED BY <4>1, <4>2
    <3> QED BY <2>1, <3>1, <3>2, <3>4 DEF BillFree
  <2> QED BY <2>2, <2>3
<1> QED BY <1>1, <1>2, <1>3, <1>4, <1>5

LEMMA DeletedBill ==
  ASSUME BillTypes, Jobs, NEW w \in Workers, DeleteBill(w)
  PROVE  /\ Acts(w) /\ UNCHANGED job /\ BillTypes'
         /\ \E b \in Bills :
              /\ BillFree(w, b)
              /\ \A p \in Payments : payments[p][b] = 0
              /\ \A c \in Credits : planned[c][b] = 0
              /\ bills'[b] = NoBill /\ billed'[b] = NoItem
              /\ \A x \in Bills \ {b} : bills'[x] = bills[x] /\ billed'[x] = billed[x]
         /\ UNCHANGED <<clients, goods, payments, credits, planned, taken, returns, sentBack>>
<1>1. PICK b \in Bills :
        /\ BillFree(w, b)
        /\ \A p \in Payments : payments[p][b] = 0
        /\ \A c \in Credits : planned[c][b] = 0
        /\ bills' = [bills EXCEPT ![b] = NoBill]
        /\ billed' = [billed EXCEPT ![b] = NoItem]
  BY DEF DeleteBill
<1>2. /\ Acts(w) /\ UNCHANGED job
      /\ UNCHANGED <<clients, goods, payments, credits, planned, taken, returns, sentBack>>
  BY UnchangedActs DEF DeleteBill
<1>3. /\ bills' = [x \in Bills |-> bills'[x]] /\ \A x \in Bills : Fair(bills'[x])
      /\ bills'[b] = NoBill
      /\ \A x \in Bills \ {b} : bills'[x] = bills[x]
  BY <1>1, FairNoBill, BillChanged
<1>4. billed'[b] = NoItem /\ \A x \in Bills \ {b} : billed'[x] = billed[x]
  BY <1>1 DEF BillTypes
<1>5. billed' \in [Bills -> ItemRow]
  BY <1>1, NoItemTyped DEF BillTypes
<1>6. BillTypes'
  BY <1>3, <1>5 DEF BillTypes, DeleteBill
<1> QED BY <1>1, <1>2, <1>3, <1>4, <1>6

\* A payment adds what it allocates to what each bill has been paid.
LEMMA PaidBills ==
  ASSUME BillTypes, Jobs, NEW w \in Workers, MakePayment(w)
  PROVE  /\ Acts(w) /\ UNCHANGED job /\ BillTypes'
         /\ \E p \in Payments, a \in Amount :
              /\ payments[p] = Nothing /\ payments' = [payments EXCEPT ![p] = a]
              /\ \A b \in Bills :
                   /\ bills'[b].paid = bills[b].paid + a[b]
                   /\ bills'[b].approved <=> bills[b].approved
                   /\ \/ bills'[b] = bills[b]
                      \/ BillFree(w, b) /\ "ABSENT" \notin {bills[b].status, bills'[b].status}
<1>1. PICK p \in Payments, a \in Allocations :
        /\ payments[p] = Nothing
        /\ \A b \in Bills : a[b] > 0 => BillFree(w, b)
        /\ payments' = [payments EXCEPT ![p] = a]
        /\ bills' = [b \in Bills |-> IF a[b] > 0 THEN Pay(b, a[b]) ELSE bills[b]]
  BY DEF MakePayment
<1> DEFINE top == Max({0} \union {bills[b].balance : b \in Bills})
<1>2. a \in [Bills -> 0..top] /\ \A b \in Bills : a[b] <= bills[b].balance
  BY DEF Allocations
<1> HIDE DEF top
<1>3. a \in Amount
  <2>1. \A b \in Bills : a[b] \in Nat
    BY <1>2
  <2> QED BY <1>2, <2>1 DEF Amount
<1>4. ASSUME NEW b \in Bills
      PROVE  /\ Fair(bills'[b])
             /\ bills'[b].paid = bills[b].paid + a[b]
             /\ bills'[b].approved <=> bills[b].approved
             /\ \/ bills'[b] = bills[b]
                \/ BillFree(w, b) /\ "ABSENT" \notin {bills[b].status, bills'[b].status}
  <2>1. Fair(bills[b]) /\ a[b] \in Nat /\ a[b] <= bills[b].balance
    BY <1>2, <1>3 DEF BillTypes, Amount
  <2>2. CASE a[b] > 0
    <3>1. bills'[b] = Pay(b, a[b])
      BY <1>1, <2>2
    <3>2. /\ Fair(Pay(b, a[b]))
          /\ Pay(b, a[b]).paid = bills[b].paid + a[b]
          /\ Pay(b, a[b]).status # "ABSENT"
          /\ Pay(b, a[b]).approved <=> bills[b].approved
      BY <2>1, <2>2, PayIs
    <3>3. bills[b].status # "ABSENT"
      BY <2>1, <2>2, FairParts
    <3> QED BY <1>1, <2>2, <3>1, <3>2, <3>3
  <2>3. CASE ~(a[b] > 0)
    <3>1. bills'[b] = bills[b] /\ a[b] = 0
      BY <1>1, <2>1, <2>3
    <3>2. bills[b].paid \in Nat
      BY <2>1, FairParts
    <3> QED BY <2>1, <3>1, <3>2
  <2> QED BY <2>2, <2>3
<1>5. Acts(w) /\ UNCHANGED job
  BY UnchangedActs DEF MakePayment
<1>6. BillTypes'
  <2>1. bills' = [b \in Bills |-> bills'[b]]
    BY <1>1
  <2>2. payments' \in [Payments -> Amount]
    BY <1>1, <1>3 DEF BillTypes
  <2> QED BY <1>4, <2>1, <2>2 DEF BillTypes, MakePayment
<1> QED BY <1>1, <1>3, <1>4, <1>5, <1>6

LEMMA PaymentDeleted ==
  ASSUME BillTypes, Jobs, NEW w \in Workers, DeletePayment(w)
  PROVE  /\ Acts(w) /\ BillTypes' /\ UNCHANGED <<bills, billed>>
         /\ Takes(w, "delete_payment")
<1>1. Acts(w) /\ UNCHANGED <<bills, billed>>
  BY UnchangedActs DEF DeletePayment
<1>2. Nothing \in Amount
  BY DEF Nothing, Amount
<1>3. payments' \in [Payments -> Amount]
  BY <1>2 DEF DeletePayment, BillTypes
<1> QED BY <1>1, <1>3 DEF BillTypes, DeletePayment

\* What a plan takes off the bills.
LEMMA AmountsAre ==
  ASSUME BillTypes, NEW plan \in Amount
  PROVE  /\ Amounts(plan) \in Amount
         /\ \A b \in Bills : /\ Amounts(plan)[b] <= plan[b]
                             /\ Amounts(plan)[b] <= bills[b].balance
<1>1. ASSUME NEW b \in Bills
      PROVE  /\ Amounts(plan)[b] \in Nat /\ Amounts(plan)[b] <= plan[b]
             /\ Amounts(plan)[b] <= bills[b].balance
  <2>1. plan[b] \in Nat /\ bills[b].balance \in Nat
    BY FairParts DEF BillTypes, Amount
  <2>2. Min({plan[b], bills[b].balance})
          = IF plan[b] <= bills[b].balance THEN plan[b] ELSE bills[b].balance
    BY <2>1, MinPair
  <2>3. Amounts(plan)[b] = Min({plan[b], bills[b].balance})
    BY DEF Amounts
  <2> QED BY <2>1, <2>2, <2>3
<1>2. Amounts(plan) = [b \in Bills |-> Amounts(plan)[b]]
  BY DEF Amounts
<1> QED BY <1>1, <1>2 DEF Amount

LEMMA CreditedBills ==
  ASSUME BillTypes, NEW plan \in Amount, bills' = BillsAfter(plan), UNCHANGED <<billed, payments>>
  PROVE  /\ BillTypes'
         /\ \A b \in Bills :
              /\ bills'[b].paid = bills[b].paid + Amounts(plan)[b]
              /\ bills'[b].approved <=> bills[b].approved
              /\ \/ bills'[b] = bills[b]
                 \/ plan[b] > 0 /\ "ABSENT" \notin {bills[b].status, bills'[b].status}
<1> DEFINE a == Amounts(plan)
<1>1. /\ a \in Amount
      /\ \A b \in Bills : a[b] <= plan[b] /\ a[b] <= bills[b].balance
  BY AmountsAre
<1>2. bills' = [b \in Bills |-> IF a[b] > 0 THEN Credited(b, a[b]) ELSE bills[b]]
  BY DEF BillsAfter
<1> HIDE DEF a
<1>3. ASSUME NEW b \in Bills
      PROVE  /\ Fair(bills'[b])
             /\ bills'[b].paid = bills[b].paid + a[b]
             /\ bills'[b].approved <=> bills[b].approved
             /\ \/ bills'[b] = bills[b]
                \/ plan[b] > 0 /\ "ABSENT" \notin {bills[b].status, bills'[b].status}
  <2>1. Fair(bills[b]) /\ a[b] \in Nat /\ a[b] <= bills[b].balance /\ a[b] <= plan[b] /\ plan[b] \in Nat
    BY <1>1 DEF BillTypes, Amount
  <2>2. CASE a[b] > 0
    <3>1. bills'[b] = Credited(b, a[b])
      BY <1>2, <2>2
    <3>2. /\ Fair(Credited(b, a[b]))
          /\ Credited(b, a[b]).paid = bills[b].paid + a[b]
          /\ Credited(b, a[b]).status # "ABSENT"
          /\ Credited(b, a[b]).approved <=> bills[b].approved
      BY <2>1, <2>2, CreditedIs
    <3>3. plan[b] > 0
      BY <2>1, <2>2
    <3>4. bills[b].status # "ABSENT"
      BY <2>1, <2>2, FairParts
    <3> QED BY <3>1, <3>2, <3>3, <3>4
  <2>3. CASE ~(a[b] > 0)
    <3>1. bills'[b] = bills[b] /\ a[b] = 0
      BY <1>2, <2>1, <2>3
    <3>2. bills[b].paid \in Nat
      BY <2>1, FairParts
    <3> QED BY <2>1, <3>1, <3>2
  <2> QED BY <2>2, <2>3
<1>4. bills' = [b \in Bills |-> bills'[b]]
  BY <1>2
<1>5. BillTypes'
  BY <1>3, <1>4 DEF BillTypes
<1> QED BY <1>3, <1>5 DEF a

----
(* Types: returns and credits. *)

ReturnTypes ==
  /\ returns \in [Returns -> ReturnRow]
  /\ sentBack \in [Returns -> Nat]

CreditTypes ==
  /\ credits \in [Credits -> CreditRow]
  /\ planned \in [Credits -> Amount]
  /\ taken \in [Credits -> Amount]

LEMMA ReturnParts ==
  ASSUME NEW r \in ReturnRow
  PROVE  /\ r.status \in ReturnStatuses \union {"ABSENT"}
         /\ r.receipt \in Receipts \union {"none"} /\ Itemized(r) /\ r.quantity \in Nat
BY DEF ReturnRow, Itemized

LEMMA ReturnWithStatus ==
  ASSUME NEW r \in ReturnRow, NEW s \in ReturnStatuses \union {"ABSENT"}
  PROVE  /\ [r EXCEPT !.status = s] \in ReturnRow
         /\ [r EXCEPT !.status = s].status = s
         /\ [r EXCEPT !.status = s].receipt = r.receipt
         /\ [r EXCEPT !.status = s].quantity = r.quantity
         /\ [r EXCEPT !.status = s].largest = r.largest
BY DEF ReturnRow, Itemized

LEMMA ReturnValid ==
  ASSUME NEW r, NEW row \in ValidReturns(r)
  PROVE  /\ row \in ReturnRow
         /\ row.status \in NewReturnStatuses /\ row.receipt \in Receipts /\ row.quantity \in Nat
         /\ receipts[row.receipt].state = "CONFIRMED"
<1> DEFINE most == MaxLines * MostBillable
<1>1. /\ row \in [status : NewReturnStatuses, receipt : Receipts, quantity : 1..most,
                  largest : 1..MostBillable]
      /\ row.quantity \in Totals(row.largest)
  BY DEF ValidReturns
<1>2. receipts[row.receipt].state = "CONFIRMED"
  BY DEF ValidReturns
<1> HIDE DEF most
<1>3. /\ row = [status |-> row.status, receipt |-> row.receipt, quantity |-> row.quantity,
                largest |-> row.largest]
      /\ row.status \in NewReturnStatuses /\ row.receipt \in Receipts /\ row.quantity \in Nat
      /\ row.largest \in Nat \ {0}
  BY <1>1
<1>5. Itemized(row)
  BY <1>1, <1>3, TotalsItemized
<1>4. row \in ReturnRow
  BY <1>3, <1>5, PayablesAssumption DEF ReturnRow
<1> QED BY <1>2, <1>3, <1>4

LEMMA NoReturnTyped ==
  /\ NoReturn \in ReturnRow /\ NoReturn.status = "ABSENT" /\ NoReturn.receipt = "none"
  /\ NoReturn.quantity = 0
BY DEF NoReturn, ReturnRow, Itemized

LEMMA TransitionsTyped ==
  ASSUME NEW t \in ReturnStatuses, NEW s \in ReturnTransitions[t]
  PROVE  /\ s \in {"PENDING_APPROVAL", "CANCELLED", "REJECTED"}
         /\ t \in {"DRAFT", "PENDING_APPROVAL"} /\ (s = "PENDING_APPROVAL" => t = "DRAFT")
BY DEF ReturnTransitions, ReturnStatuses

LEMMA ReturnShaped ==
  ASSUME NEW j, ReturnShape(j), j.step \in {"return_save", "return_approve"}
  PROVE  JobShape(j)
BY DEF JobShape, GoodsShape, BillShape, CreditShape, ExpenseShape, ConfirmSteps

LEMMA CreditParts ==
  ASSUME NEW r \in CreditRow
  PROVE  /\ r.status \in CreditStatuses \union {"ABSENT"} /\ r.of \in Returns \union {"none"}
         /\ r.lines \in Nat /\ r.total \in Nat /\ r.applied \in Nat /\ r.remaining \in Nat
         /\ r.posted \in BOOLEAN
BY DEF CreditRow

LEMMA NoCreditTyped ==
  /\ NoCredit \in CreditRow /\ NoCredit.status = "ABSENT" /\ NoCredit.of = "none"
  /\ NoCredit.lines = 0 /\ NoCredit.total = 0 /\ NoCredit.applied = 0 /\ ~NoCredit.posted
BY DEF NoCredit, CreditRow

LEMMA NothingTyped == Nothing \in Amount /\ \A b \in Bills : Nothing[b] = 0
BY DEF Nothing, Amount

\* The credit that an approval issues.
IssuedRow(r, q) ==
  [NoCredit EXCEPT !.status = "OPEN", !.of = r, !.total = q, !.remaining = q]

LEMMA IssuedTyped ==
  ASSUME NEW r \in Returns, NEW q \in Nat
  PROVE  /\ IssuedRow(r, q) \in CreditRow
         /\ IssuedRow(r, q).status = "OPEN" /\ IssuedRow(r, q).of = r
         /\ IssuedRow(r, q).lines = 0 /\ IssuedRow(r, q).total = q
         /\ IssuedRow(r, q).applied = 0 /\ ~IssuedRow(r, q).posted
BY DEF IssuedRow, NoCredit, CreditRow, CreditStatuses

LEMMA UnlinkedTyped ==
  ASSUME NEW r \in CreditRow
  PROVE  /\ [r EXCEPT !.of = "none"] \in CreditRow
         /\ [r EXCEPT !.of = "none"].status = r.status
         /\ [r EXCEPT !.of = "none"].of = "none"
         /\ [r EXCEPT !.of = "none"].lines = r.lines
         /\ [r EXCEPT !.of = "none"].total = r.total
         /\ [r EXCEPT !.of = "none"].applied = r.applied
         /\ [r EXCEPT !.of = "none"].posted <=> r.posted
BY DEF CreditRow

LEMMA ReturnLoaded ==
  ASSUME ReturnTypes, Jobs, NEW w \in Workers,
         ReturnStatusLoad(w) \/ ReturnEditLoad(w) \/ ReturnApproveLoad(w)
  PROVE  /\ Acts(w) /\ UNCHANGED <<clients, goods, money, returns, sentBack>>
         /\ \/ /\ job'[w].step = "return_save" /\ Takes(w, "edit_return")
            \/ /\ job'[w].step = "return_save" /\ ~job'[w].items /\ ~job'[w].whole
               /\ \/ Takes(w, "withdraw_return")
                  \/ /\ job'[w].row.status = "PENDING_APPROVAL"
                     /\ returns[job'[w].return].status # "ABSENT"
            \/ /\ job'[w].step = "return_approve" /\ ReturnApprovable(job'[w].return)
               /\ job'[w].quantity = returns[job'[w].return].quantity
<1>1. CASE ReturnStatusLoad(w)
  <2>1. PICK kind \in {"submit_return", "withdraw_return"}, r \in Returns :
          /\ Takes(w, kind)
          /\ returns[r].status # "ABSENT"
          /\ \E s \in ReturnTransitions[returns[r].status] :
               /\ kind = "submit_return" <=> s = "PENDING_APPROVAL"
               /\ Becomes(w, [step |-> "return_save", return |-> r, whole |-> FALSE,
                              items |-> FALSE, row |-> [returns[r] EXCEPT !.status = s]])
    BY <1>1 DEF ReturnStatusLoad
  <2>2. PICK s \in ReturnTransitions[returns[r].status] :
               /\ kind = "submit_return" <=> s = "PENDING_APPROVAL"
               /\ Becomes(w, [step |-> "return_save", return |-> r, whole |-> FALSE,
                              items |-> FALSE, row |-> [returns[r] EXCEPT !.status = s]])
    BY <2>1
  <2> DEFINE row == [returns[r] EXCEPT !.status = s]
             j == [step |-> "return_save", return |-> r, whole |-> FALSE, items |-> FALSE,
                   row |-> row]
  <2>3. returns[r] \in ReturnRow /\ returns[r].status \in ReturnStatuses
    BY <2>1, ReturnParts DEF ReturnTypes
  <2>4. s \in ReturnStatuses
    BY <2>2, <2>3, TransitionsTyped DEF ReturnStatuses
  <2>5. row \in ReturnRow /\ row.status = s
    BY <2>3, <2>4, ReturnWithStatus
  <2>6. Becomes(w, j)
    BY <2>2
  <2> HIDE DEF row
  <2>7. /\ j.step = "return_save" /\ ReturnShape(j) /\ ~j.items /\ ~j.whole
        /\ j.row = row /\ j.return = r
    BY <2>5 DEF ReturnShape
  <2> HIDE DEF j
  <2>8. Serves(w) /\ job'[w] = j
    BY <2>6, <2>7, ReturnShaped, BecomesServes
  <2>9. Acts(w)
    BY <2>7, <2>8 DEF Acts
  <2>10. UNCHANGED <<clients, goods, money, returns, sentBack>>
    BY <1>1 DEF ReturnStatusLoad
  <2> QED BY <2>1, <2>2, <2>5, <2>7, <2>8, <2>9, <2>10
<1>2. CASE ReturnEditLoad(w)
  <2>1. PICK r \in Returns, items \in BOOLEAN :
          \E row \in IF items THEN ValidReturns(r) ELSE HeaderEdits(r) :
            Becomes(w, [step |-> "return_save", return |-> r, whole |-> TRUE,
                        items |-> items, row |-> row])
    BY <1>2 DEF ReturnEditLoad
  <2>2. PICK row \in IF items THEN ValidReturns(r) ELSE HeaderEdits(r) :
            Becomes(w, [step |-> "return_save", return |-> r, whole |-> TRUE,
                        items |-> items, row |-> row])
    BY <2>1
  <2>3. row \in ReturnRow
    <3>1. CASE items
      BY <2>2, <3>1, ReturnValid
    <3>2. CASE ~items
      <4>1. PICK s \in NewReturnStatuses \union {returns[r].status} :
              row = [returns[r] EXCEPT !.status = s]
        BY <2>2, <3>2 DEF HeaderEdits
      <4>2. returns[r] \in ReturnRow /\ s \in ReturnStatuses \union {"ABSENT"}
        BY ReturnParts, PayablesAssumption DEF ReturnTypes
      <4> QED BY <4>1, <4>2, ReturnWithStatus
    <3> QED BY <3>1, <3>2
  <2> DEFINE j == [step |-> "return_save", return |-> r, whole |-> TRUE,
                   items |-> items, row |-> row]
  <2>4. j.step = "return_save" /\ ReturnShape(j) /\ Becomes(w, j)
    BY <2>2, <2>3 DEF ReturnShape
  <2> HIDE DEF j
  <2>5. Serves(w) /\ job'[w] = j
    BY <2>4, ReturnShaped, BecomesServes
  <2>6. Acts(w)
    BY <2>4, <2>5 DEF Acts
  <2>7. Takes(w, "edit_return") /\ UNCHANGED <<clients, goods, money, returns, sentBack>>
    BY <1>2 DEF ReturnEditLoad
  <2> QED BY <2>4, <2>5, <2>6, <2>7
<1>3. CASE ReturnApproveLoad(w)
  <2>1. PICK r \in Returns :
          /\ ReturnApprovable(r)
          /\ Becomes(w, [step |-> "return_approve", return |-> r,
                         quantity |-> returns[r].quantity])
    BY <1>3 DEF ReturnApproveLoad
  <2> DEFINE q == returns[r].quantity
             j == [step |-> "return_approve", return |-> r, quantity |-> q]
  <2>2. q \in Nat
    BY ReturnParts DEF ReturnTypes
  <2>3. Becomes(w, j)
    BY <2>1
  <2> HIDE DEF q
  <2>4. j.step = "return_approve" /\ ReturnShape(j) /\ j.return = r /\ j.quantity = q
    BY <2>2 DEF ReturnShape
  <2> HIDE DEF j
  <2>5. Serves(w) /\ job'[w] = j
    BY <2>3, <2>4, ReturnShaped, BecomesServes
  <2>6. Acts(w)
    BY <2>4, <2>5 DEF Acts
  <2>7. UNCHANGED <<clients, goods, money, returns, sentBack>>
    BY <1>3 DEF ReturnApproveLoad
  <2> QED BY <2>1, <2>4, <2>5, <2>6, <2>7 DEF q
<1> QED BY <1>1, <1>2, <1>3

LEMMA ReturnCreated ==
  ASSUME ReturnTypes, Jobs, NEW w \in Workers, CreateReturn(w)
  PROVE  /\ Acts(w) /\ ReturnTypes' /\ UNCHANGED <<job, clients, goods, money, sentBack>>
         /\ \E r \in Returns :
              /\ returns[r].status = "ABSENT" /\ credits[r].status = "ABSENT"
              /\ NewReturn(r) /\ NewCredit(r)
              /\ \E row \in ValidReturns(r) : returns' = [returns EXCEPT ![r] = row]
<1>1. Acts(w) /\ UNCHANGED <<job, clients, goods, money, sentBack>>
  BY UnchangedActs DEF CreateReturn
<1>2. PICK r \in Returns :
        /\ returns[r].status = "ABSENT" /\ credits[r].status = "ABSENT"
        /\ NewReturn(r) /\ NewCredit(r)
        /\ \E row \in ValidReturns(r) : returns' = [returns EXCEPT ![r] = row]
  BY DEF CreateReturn
<1>3. PICK row \in ValidReturns(r) : returns' = [returns EXCEPT ![r] = row]
  BY <1>2
<1>4. row \in ReturnRow
  BY ReturnValid
<1>5. returns' \in [Returns -> ReturnRow]
  BY <1>3, <1>4 DEF ReturnTypes
<1> QED BY <1>1, <1>2, <1>5 DEF ReturnTypes

LEMMA SavedReturn ==
  ASSUME ReturnTypes, Jobs, NEW w \in Workers, ReturnSave(w), NEW r, r = job[w].return
  PROVE  /\ r \in Returns /\ Acts(w) /\ job'[w] = Idle /\ ReturnTypes'
         /\ UNCHANGED <<clients, goods, money, sentBack>>
         /\ \A x \in Returns \ {r} : returns'[x] = returns[x]
         /\ ~job[w].items =>
              /\ returns'[r].status = job[w].row.status
              /\ returns'[r].receipt = returns[r].receipt
              /\ returns'[r].largest = returns[r].largest
<1>1. r \in Returns /\ job[w].row \in ReturnRow
  BY DEF ReturnSave, At, Jobs, JobShape, ReturnShape
<1>2. Acts(w) /\ job'[w] = Idle
  BY RespondActs DEF ReturnSave
<1> DEFINE s == job[w].row.status
           kept == [returns[r] EXCEPT !.status = s]
           new == IF job[w].items THEN job[w].row ELSE kept
<1>3. returns' = [returns EXCEPT ![r] = new]
  BY DEF ReturnSave
<1>4. returns[r] \in ReturnRow /\ s \in ReturnStatuses \union {"ABSENT"}
  BY <1>1, ReturnParts DEF ReturnTypes
<1> HIDE DEF s
<1>5. /\ kept \in ReturnRow /\ kept.status = s
      /\ kept.receipt = returns[r].receipt /\ kept.largest = returns[r].largest
  BY <1>4, ReturnWithStatus
<1> HIDE DEF kept
<1>6. new \in ReturnRow /\ (~job[w].items => new = kept)
  BY <1>1, <1>5
<1> HIDE DEF new
<1>7. /\ returns' \in [Returns -> ReturnRow] /\ returns'[r] = new
      /\ \A x \in Returns \ {r} : returns'[x] = returns[x]
  BY <1>1, <1>3, <1>6 DEF ReturnTypes
<1>8. UNCHANGED <<clients, goods, money, sentBack>>
  BY DEF ReturnSave
<1> QED BY <1>1, <1>2, <1>5, <1>6, <1>7, <1>8 DEF ReturnTypes, s

LEMMA ApprovedReturn ==
  ASSUME ReturnTypes, CreditTypes, Jobs, NEW w \in Workers, ReturnApproveSave(w),
         NEW r, r = job[w].return
  PROVE  /\ r \in Returns /\ Acts(w) /\ job'[w] = Idle /\ ReturnTypes' /\ CreditTypes'
         /\ UNCHANGED <<clients, goods, bills, billed, payments, planned, taken>>
         /\ returns[r].status # "ABSENT"
         /\ returns'[r].status = "CREDIT_ISSUED"
         /\ returns'[r].receipt = returns[r].receipt /\ returns'[r].largest = returns[r].largest
         /\ \A x \in Returns \ {r} : returns'[x] = returns[x]
         /\ \/ credits' = credits
            \/ /\ credits[r].status = "ABSENT" /\ NewCredit(r) /\ CreditsOf(r) = {}
               /\ credits'[r] = IssuedRow(r, job[w].quantity)
               /\ \A c \in Credits \ {r} : credits'[c] = credits[c]
<1>1. r \in Returns /\ job[w].quantity \in Nat /\ r \in Credits
  BY DEF ReturnApproveSave, At, Jobs, JobShape, ReturnShape, Credits
<1>2. Acts(w) /\ job'[w] = Idle
  BY RespondActs DEF ReturnApproveSave
<1> DEFINE new == [returns[r] EXCEPT !.status = "CREDIT_ISSUED"]
<1>3. returns' = [returns EXCEPT ![r] = new]
  BY DEF ReturnApproveSave
<1>4. "CREDIT_ISSUED" \in ReturnStatuses \union {"ABSENT"} /\ returns[r] \in ReturnRow
  BY <1>1 DEF ReturnStatuses, ReturnTypes
<1>5. /\ new \in ReturnRow /\ new.status = "CREDIT_ISSUED"
      /\ new.receipt = returns[r].receipt /\ new.largest = returns[r].largest
  BY <1>4, ReturnWithStatus
<1> HIDE DEF new
<1>6. /\ returns' \in [Returns -> ReturnRow] /\ returns'[r] = new
      /\ \A x \in Returns \ {r} : returns'[x] = returns[x]
  BY <1>1, <1>3, <1>5 DEF ReturnTypes
<1>7. sentBack' \in [Returns -> Nat]
  BY <1>1 DEF ReturnApproveSave, ReturnTypes
<1>8. CASE CreditsOf(r) # {}
  <2>1. credits' = credits
    BY <1>8 DEF ReturnApproveSave
  <2>2. UNCHANGED <<clients, goods, bills, billed, payments, planned, taken>>
        /\ returns[r].status # "ABSENT"
    BY DEF ReturnApproveSave
  <2>3. CreditTypes'
    BY <2>1, <2>2 DEF CreditTypes
  <2> QED BY <1>1, <1>2, <1>5, <1>6, <1>7, <2>1, <2>2, <2>3 DEF ReturnTypes
<1>9. CASE CreditsOf(r) = {}
  <2>1. credits' = [credits EXCEPT ![r] = IssuedRow(r, job[w].quantity)]
    BY <1>9 DEF ReturnApproveSave, IssuedRow
  <2>2. IssuedRow(r, job[w].quantity) \in CreditRow
    BY <1>1, IssuedTyped
  <2>3. credits[r].status = "ABSENT" /\ NewCredit(r)
    BY <1>9 DEF ReturnApproveSave
  <2>4. UNCHANGED <<clients, goods, bills, billed, payments, planned, taken>>
        /\ returns[r].status # "ABSENT"
    BY DEF ReturnApproveSave
  <2>5. /\ credits' \in [Credits -> CreditRow]
        /\ credits'[r] = IssuedRow(r, job[w].quantity)
        /\ \A c \in Credits \ {r} : credits'[c] = credits[c]
    BY <1>1, <2>1, <2>2 DEF CreditTypes
  <2>6. CreditTypes'
    BY <2>4, <2>5 DEF CreditTypes
  <2> QED BY <1>1, <1>2, <1>5, <1>6, <1>7, <1>9, <2>3, <2>4, <2>5, <2>6 DEF ReturnTypes
<1> QED BY <1>8, <1>9

LEMMA DeletedReturn ==
  ASSUME ReturnTypes, CreditTypes, Jobs, NEW w \in Workers, DeleteReturn(w)
  PROVE  /\ Acts(w) /\ ReturnTypes' /\ CreditTypes'
         /\ UNCHANGED <<job, clients, goods, bills, billed, payments, planned, taken>>
         /\ \E r \in Returns :
              /\ returns[r].status # "ABSENT" /\ returns'[r] = NoReturn
              /\ \A x \in Returns \ {r} : returns'[x] = returns[x]
              /\ \A c \in Credits : credits'[c] = IF credits[c].of = r
                                                  THEN [credits[c] EXCEPT !.of = "none"]
                                                  ELSE credits[c]
<1>1. Acts(w) /\ UNCHANGED <<job, clients, goods, bills, billed, payments, planned, taken>>
      /\ UNCHANGED sentBack
  BY UnchangedActs DEF DeleteReturn
<1>2. PICK r \in Returns :
        /\ returns[r].status # "ABSENT"
        /\ returns' = [returns EXCEPT ![r] = NoReturn]
        /\ credits' = [c \in Credits |->
             IF credits[c].of = r THEN [credits[c] EXCEPT !.of = "none"] ELSE credits[c]]
  BY DEF DeleteReturn
<1>3. /\ returns' \in [Returns -> ReturnRow] /\ returns'[r] = NoReturn
      /\ \A x \in Returns \ {r} : returns'[x] = returns[x]
  BY <1>2, NoReturnTyped DEF ReturnTypes
<1>4. \A c \in Credits : [credits[c] EXCEPT !.of = "none"] \in CreditRow
  BY UnlinkedTyped DEF CreditTypes
<1>5. credits' \in [Credits -> CreditRow]
  BY <1>2, <1>4 DEF CreditTypes
<1> QED BY <1>1, <1>2, <1>3, <1>5 DEF ReturnTypes, CreditTypes

\* What is shared out in the order of numbers, each taking its need or what is left,
\* comes to no more than there was.
Below(S, n) == {x \in S : x < n}

LEMMA SharesBefore ==
  ASSUME NEW O, IsFiniteSet(O), O \subseteq Nat, NEW n \in Nat
  PROVE  /\ IsFiniteSet(Below(O, n)) /\ Below(O, n) \subseteq O
         /\ n \notin O => Below(O, n + 1) = Below(O, n)
         /\ n \in O => Below(O, n + 1) = Below(O, n) \union {n} /\ n \notin Below(O, n)
<1>1. Below(O, n) \subseteq O
  BY DEF Below
<1>2. \A x \in O : x < n + 1 <=> x < n \/ x = n
  OBVIOUS
<1>3. n \notin O => Below(O, n + 1) = Below(O, n)
  BY <1>2 DEF Below
<1>4. n \in O => Below(O, n + 1) = Below(O, n) \union {n} /\ n \notin Below(O, n)
  <2>1. ~(n < n)
    OBVIOUS
  <2>2. \A x : x \in Below(O, n + 1) <=> x \in O /\ (x < n \/ x = n)
    BY <1>2 DEF Below
  <2>3. \A x : x \in Below(O, n) <=> x \in O /\ x < n
    BY DEF Below
  <2>4. ASSUME n \in O
        PROVE  \A x : x \in Below(O, n + 1) <=> x \in Below(O, n) \union {n}
    BY <2>2, <2>3, <2>4
  <2> QED BY <2>1, <2>3, <2>4
<1>5. IsFiniteSet(Below(O, n))
  BY <1>1, FS_Subset
<1> QED BY <1>1, <1>3, <1>4, <1>5

LEMMA SharesStep ==
  ASSUME NEW total \in Nat, NEW need \in Nat, NEW owed \in Nat, NEW shares, NEW share,
         shares = IF owed <= total THEN owed ELSE total,
         share = IF total <= owed THEN 0
                 ELSE IF need <= total - owed THEN need ELSE total - owed
  PROVE  share + shares = IF need + owed <= total THEN need + owed ELSE total
OBVIOUS

LEMMA SharesWithin ==
  ASSUME NEW O, IsFiniteSet(O), O \subseteq Nat, NEW f, NEW g, NEW total \in Nat,
         \A b \in O : f[b] \in Nat /\ g[b] \in Nat,
         \A b \in O : g[b] = IF total <= SumFunctionOnSet(f, Below(O, b)) THEN 0
                             ELSE IF f[b] <= total - SumFunctionOnSet(f, Below(O, b))
                                  THEN f[b] ELSE total - SumFunctionOnSet(f, Below(O, b))
  PROVE  SumFunctionOnSet(g, O) <= total
<1> DEFINE Before(n) == Below(O, n)
           Owed(n) == SumFunctionOnSet(f, Before(n))
           Shares(n) == SumFunctionOnSet(g, Before(n))
           Fits(n) == Shares(n) = IF Owed(n) <= total THEN Owed(n) ELSE total
           T == {n \in Nat : ~Fits(n)}
<1>1. ASSUME NEW n \in Nat
      PROVE  /\ IsFiniteSet(Before(n)) /\ Before(n) \subseteq O
             /\ n \notin O => Before(n + 1) = Before(n)
             /\ n \in O => Before(n + 1) = Before(n) \union {n} /\ n \notin Before(n)
  BY SharesBefore
<1>2. \A b \in O : g[b] = IF total <= Owed(b) THEN 0
                          ELSE IF f[b] <= total - Owed(b) THEN f[b] ELSE total - Owed(b)
  OBVIOUS
<1>0. Before(0) = {}
  <2>1. \A x \in O : ~(x < 0)
    OBVIOUS
  <2> QED BY <2>1 DEF Below
<1> HIDE DEF Before
<1>3. \A n \in Nat : Owed(n) \in Nat
  BY <1>1, SumNat
<1>4. Fits(0)
  <2>1. Owed(0) = 0 /\ Shares(0) = 0
    BY <1>0, SumEmpty
  <2> QED BY <2>1
<1>5. ASSUME NEW n \in Nat, Fits(n)
      PROVE  Fits(n + 1)
  <2>1. CASE n \notin O
    <3>1. Before(n + 1) = Before(n)
      BY <1>1, <2>1
    <3> QED BY <1>5, <3>1
  <2>2. CASE n \in O
    <3>1. /\ Before(n + 1) = Before(n) \union {n} /\ n \notin Before(n)
          /\ IsFiniteSet(Before(n)) /\ \A x \in Before(n) \union {n} : x \in O
      BY <1>1, <2>2
    <3>2. Owed(n + 1) = f[n] + Owed(n) /\ Shares(n + 1) = g[n] + Shares(n)
      <4> DEFINE S == Before(n)
                 U == Before(n + 1)
      <4> HIDE DEF S, U
      <4>1. U = S \union {n} /\ n \notin S /\ IsFiniteSet(S)
            /\ \A x \in S \union {n} : f[x] \in Int /\ g[x] \in Int
        <5>1. U = S \union {n} /\ n \notin S /\ IsFiniteSet(S)
              /\ \A x \in S \union {n} : x \in O
          BY <3>1 DEF S, U
        <5>2. \A x \in O : f[x] \in Int /\ g[x] \in Int
          OBVIOUS
        <5> QED BY <5>1, <5>2
      <4>2. SumFunctionOnSet(f, S \union {n}) = f[n] + SumFunctionOnSet(f, S)
        BY <4>1, SumAdd
      <4>3. SumFunctionOnSet(g, S \union {n}) = g[n] + SumFunctionOnSet(g, S)
        BY <4>1, SumAdd
      <4> QED BY <4>1, <4>2, <4>3 DEF S, U
    <3>4. f[n] \in Nat /\ Owed(n) \in Nat /\ total \in Nat
      BY <2>2, <1>3
    <3>5. g[n] = IF total <= Owed(n) THEN 0
                 ELSE IF f[n] <= total - Owed(n) THEN f[n] ELSE total - Owed(n)
      BY <1>2, <2>2
    <3>6. Shares(n) = IF Owed(n) <= total THEN Owed(n) ELSE total
      BY <1>5
    <3> HIDE DEF Owed, Shares
    <3>7. g[n] + Shares(n) = IF f[n] + Owed(n) <= total THEN f[n] + Owed(n) ELSE total
      <4> DEFINE need == f[n]
                 owed == Owed(n)
                 share == g[n]
                 shares == Shares(n)
      <4> HIDE DEF need, owed, share, shares
      <4>1. need \in Nat /\ owed \in Nat /\ total \in Nat
        BY <3>4 DEF need, owed
      <4>2. share = IF total <= owed THEN 0
                    ELSE IF need <= total - owed THEN need ELSE total - owed
        BY <3>5 DEF need, owed, share
      <4>3. shares = IF owed <= total THEN owed ELSE total
        BY <3>6 DEF owed, shares
      <4>4. share + shares = IF need + owed <= total THEN need + owed ELSE total
        BY <4>1, <4>2, <4>3, SharesStep
      <4> QED BY <4>4 DEF need, owed, share, shares
    <3> QED BY <3>2, <3>7
  <2> QED BY <2>1, <2>2
<1> HIDE DEF Fits
<1>6. T = {}
  <2> SUFFICES ASSUME T # {} PROVE FALSE
    OBVIOUS
  <2>1. T \subseteq Nat /\ \A n \in Nat : n \in T <=> ~Fits(n)
    OBVIOUS
  <2> HIDE DEF T
  <2>2. PICK m \in T : \A k \in T : ~(k < m)
    BY <2>1, Least
  <2>3. m \in Nat /\ ~Fits(m)
    BY <2>1
  <2>4. m # 0
    BY <2>3, <1>4
  <2>5. m - 1 \in Nat /\ m - 1 < m /\ (m - 1) + 1 = m
    BY <2>3, <2>4
  <2>6. Fits(m - 1)
    BY <2>1, <2>2, <2>5
  <2> QED BY <1>5, <2>3, <2>5, <2>6
<1>7. \A n \in Nat : Fits(n)
  BY <1>6
\* Every number is before some number.
<1> DEFINE ids == [b \in O |-> b]
           n == SumFunctionOnSet(ids, O) + 1
<1>8. \A b \in O : ids[b] \in Nat /\ ids[b] = b
  OBVIOUS
<1> HIDE DEF ids
<1>9. SumFunctionOnSet(ids, O) \in Nat /\ \A b \in O : ids[b] <= SumFunctionOnSet(ids, O)
  BY <1>8, SumNat, SumPart
<1>10. n \in Nat /\ \A b \in O : b < n
  BY <1>8, <1>9
<1> HIDE DEF n
<1>11. Before(n) = O
  BY <1>10 DEF Before, Below
<1>12. Fits(n) /\ Owed(n) \in Nat
  BY <1>3, <1>7, <1>10
<1>13. Shares(n) = IF Owed(n) <= total THEN Owed(n) ELSE total
  BY <1>12 DEF Fits
<1> HIDE DEF Owed
<1> QED BY <1>11, <1>12, <1>13

\* A credit spread over the open bills: each gets what the ones before leave, and all
\* together no more than the credit.
LEMMA SpreadWithin ==
  ASSUME BillTypes, NEW total \in Nat
  PROVE  Spread(total) \in Amount /\ Total(Spread(total)) <= total
<1> DEFINE O == OpenBills
           f == [x \in Bills |-> bills[x].balance]
           g == Spread(total)
           Owed(b) == SumFunctionOnSet(f, Below(O, b))
<1>1. Bills \subseteq Nat /\ IsFiniteSet(Bills) /\ O \subseteq Bills
  BY PayablesAssumption DEF OpenBills
<1>2. IsFiniteSet(O) /\ O \subseteq Nat
  BY <1>1, FS_Subset
<1>3. \A b \in Bills : f[b] \in Nat
  BY FairParts DEF BillTypes
<1>4. ASSUME NEW b \in Bills PROVE Owed(b) \in Nat
  <2>1. b \in Nat
    BY <1>1
  <2> HIDE DEF f, O
  <2>2. IsFiniteSet(Below(O, b)) /\ Below(O, b) \subseteq O
    BY <1>2, <2>1, SharesBefore
  <2>3. \A x \in Below(O, b) : f[x] \in Nat
    BY <1>1, <1>3, <2>2
  <2> QED BY <2>2, <2>3, SumNat
<1>5. g = [b \in Bills |-> IF b \in O THEN Max({0, Min({f[b], total - Owed(b)})}) ELSE 0]
  BY DEF Spread, Below
<1> HIDE DEF f, O, g, Owed
<1>6. ASSUME NEW b \in O
      PROVE  g[b] = IF total <= Owed(b) THEN 0
                    ELSE IF f[b] <= total - Owed(b) THEN f[b] ELSE total - Owed(b)
  <2> DEFINE need == f[b]
             owed == Owed(b)
             rest == total - owed
             share == Min({need, rest})
  <2>1. g[b] = Max({0, share})
    BY <1>1, <1>5
  <2>2. need \in Nat /\ owed \in Nat
    BY <1>1, <1>3, <1>4
  <2> HIDE DEF need, owed
  <2>3. rest \in Int /\ need \in Int /\ 0 \in Int /\ (total <= owed <=> rest <= 0)
    BY <2>2
  <2> HIDE DEF rest
  <2>4. share = IF need <= rest THEN need ELSE rest
    BY <2>3, MinPair
  <2> HIDE DEF share
  <2>5. share \in Int
    BY <2>3, <2>4
  <2>6. g[b] = IF 0 <= share THEN share ELSE 0
    BY <2>1, <2>3, <2>5, MaxPair
  <2>7. g[b] = IF total <= owed THEN 0 ELSE IF need <= rest THEN need ELSE rest
    BY <2>2, <2>3, <2>4, <2>6
  <2> QED BY <2>7 DEF need, owed, rest
<1>7. \A b \in Bills \ O : g[b] = 0
  BY <1>5
<1>8. \A b \in O : f[b] \in Nat /\ g[b] \in Nat
  <2> TAKE b \in O
  <2>1. b \in Bills /\ f[b] \in Nat /\ Owed(b) \in Nat
    BY <1>1, <1>3, <1>4
  <2> QED BY <1>6, <2>1
<1>9. g \in Amount
  <2>1. \A b \in Bills : g[b] \in Nat
    BY <1>7, <1>8
  <2>2. g = [b \in Bills |-> g[b]]
    BY <1>5
  <2> QED BY <2>1, <2>2 DEF Amount
<1>10. SumFunctionOnSet(g, O) <= total
  <2>1. \A b \in O : g[b] = IF total <= SumFunctionOnSet(f, Below(O, b)) THEN 0
                            ELSE IF f[b] <= total - SumFunctionOnSet(f, Below(O, b))
                                 THEN f[b] ELSE total - SumFunctionOnSet(f, Below(O, b))
    BY <1>6 DEF Owed
  <2> QED BY <1>2, <1>8, <2>1, SharesWithin
<1>11. Total(g) = SumFunctionOnSet(g, O)
  <2> DEFINE R == Bills \ O
  <2>1. Bills = O \union R /\ IsFiniteSet(R) /\ O \intersect R = {}
    BY <1>1, FS_Subset
  <2>2. \A b \in R : g[b] = 0
    BY <1>7
  <2> HIDE DEF R
  <2>3. SumFunctionOnSet(g, R) = 0
    BY <2>1, <2>2, SumZeros
  <2>4. \A x \in O \union R : g[x] \in Int
    BY <1>8, <2>2
  <2>5. SumFunctionOnSet(g, O \union R) = SumFunctionOnSet(g, O) + SumFunctionOnSet(g, R)
    BY <1>2, <2>1, <2>4, SumUnion
  <2>6. SumFunctionOnSet(g, O) \in Int
    BY <1>2, <2>4, SumInt
  <2> QED BY <2>1, <2>3, <2>5, <2>6 DEF Total
<1> QED BY <1>9, <1>10, <1>11 DEF g

\* A credit after its synchronisation with lines of this total, one that clients make,
\* one that has been applied, one that is approved, and one that is void.
SyncedRow(r, n) ==
  [r EXCEPT !.lines = n, !.total = n, !.applied = IF r.posted THEN r.applied ELSE 0,
            !.remaining = IF r.posted THEN r.remaining ELSE n]
ApprovedRow(r) == [r EXCEPT !.status = "APPROVED", !.applied = 0, !.remaining = r.total]
VoidRow(r) == [r EXCEPT !.status = "VOID"]
PostedRow(r, row) == [r EXCEPT !.applied = row.applied, !.remaining = row.remaining,
                               !.status = row.status, !.posted = TRUE]

LEMMA SyncedRowTyped ==
  ASSUME NEW r \in CreditRow, NEW n \in Nat
  PROVE  /\ SyncedRow(r, n) \in CreditRow
         /\ SyncedRow(r, n).status = r.status /\ SyncedRow(r, n).of = r.of
         /\ SyncedRow(r, n).lines = n /\ SyncedRow(r, n).total = n
         /\ SyncedRow(r, n).applied = IF r.posted THEN r.applied ELSE 0
         /\ SyncedRow(r, n).posted = r.posted
<1>1. /\ r.applied \in Nat /\ r.remaining \in Nat
      /\ (IF r.posted THEN r.applied ELSE 0) \in Nat
      /\ (IF r.posted THEN r.remaining ELSE n) \in Nat
  BY DEF CreditRow
<1> QED BY <1>1 DEF SyncedRow, CreditRow

LEMMA DraftedTyped ==
  ASSUME NEW r \in Returns, NEW total \in Nat
  PROVE  /\ Drafted(r, total) \in CreditRow
         /\ Drafted(r, total).status = "DRAFT" /\ Drafted(r, total).of = r
         /\ Drafted(r, total).lines = total /\ Drafted(r, total).total = total
         /\ Drafted(r, total).applied = 0 /\ ~Drafted(r, total).posted
BY DEF Drafted, NoCredit, CreditRow, CreditStatuses

LEMMA ApprovedTyped ==
  ASSUME NEW r \in CreditRow
  PROVE  /\ ApprovedRow(r) \in CreditRow
         /\ ApprovedRow(r).status = "APPROVED" /\ ApprovedRow(r).of = r.of
         /\ ApprovedRow(r).lines = r.lines /\ ApprovedRow(r).total = r.total
         /\ ApprovedRow(r).applied = 0 /\ ApprovedRow(r).posted = r.posted
BY DEF ApprovedRow, CreditRow, CreditStatuses

LEMMA VoidTyped ==
  ASSUME NEW r \in CreditRow
  PROVE  /\ VoidRow(r) \in CreditRow
         /\ VoidRow(r).status = "VOID" /\ VoidRow(r).of = r.of
         /\ VoidRow(r).lines = r.lines /\ VoidRow(r).total = r.total
         /\ VoidRow(r).applied = r.applied /\ VoidRow(r).posted = r.posted
BY DEF VoidRow, CreditRow, CreditStatuses

LEMMA AppliedTyped ==
  ASSUME NEW r \in CreditRow, NEW n \in Nat
  PROVE  /\ Applied(r, n) \in CreditRow
         /\ Applied(r, n).status \in {"FULLY_APPLIED", "PARTIALLY_APPLIED", "OPEN"}
         /\ Applied(r, n).of = r.of
         /\ Applied(r, n).lines = r.lines /\ Applied(r, n).total = r.total
         /\ Applied(r, n).applied = n /\ Applied(r, n).posted
<1> DEFINE left == Max({0, r.total - n})
           s == IF left = 0 THEN "FULLY_APPLIED" ELSE IF n > 0 THEN "PARTIALLY_APPLIED" ELSE "OPEN"
           t == [r EXCEPT !.applied = n, !.remaining = left, !.posted = TRUE, !.status = s]
<1>1. r.total \in Nat /\ r.total - n \in Int /\ 0 \in Int
  BY DEF CreditRow
<1>2. left = IF 0 <= r.total - n THEN r.total - n ELSE 0
  BY <1>1, MaxPair
<1>3. left \in Nat
  BY <1>1, <1>2
<1>4. Applied(r, n) = t
  BY DEF Applied
<1> HIDE DEF left
<1>5. s \in {"FULLY_APPLIED", "PARTIALLY_APPLIED", "OPEN"}
  OBVIOUS
<1> HIDE DEF s
<1>6. /\ t \in CreditRow /\ t.status = s /\ t.of = r.of /\ t.lines = r.lines
      /\ t.total = r.total /\ t.applied = n /\ t.posted
  BY <1>3, <1>5 DEF CreditRow, CreditStatuses
<1> QED BY <1>4, <1>5, <1>6

LEMMA PostedTyped ==
  ASSUME NEW r \in CreditRow, NEW row \in CreditRow
  PROVE  PostedRow(r, row) \in CreditRow
BY DEF PostedRow, CreditRow

\* What synchronisation makes of a credit and of its plan.
LEMMA SyncedIs ==
  ASSUME BillTypes, ReturnTypes, CreditTypes, NEW c \in Credits
  PROVE  /\ Synced(c) \in CreditRow
         /\ Synced(c).status = credits[c].status /\ Synced(c).of = credits[c].of
         /\ Synced(c).posted = credits[c].posted
         /\ PlanOf(c) \in Amount
         /\ \/ /\ ~Linked(c) /\ Synced(c) = credits[c] /\ PlanOf(c) = planned[c]
            \/ /\ Linked(c) /\ LinesOf(c) \in Nat
               /\ Synced(c).lines = LinesOf(c) /\ Synced(c).total = LinesOf(c)
               /\ credits[c].lines # 0 => LinesOf(c) = credits[c].lines
               /\ Synced(c).applied = IF credits[c].posted THEN credits[c].applied ELSE 0
               /\ \/ planned[c] # Nothing /\ PlanOf(c) = planned[c]
                  \/ planned[c] = Nothing /\ Total(PlanOf(c)) <= LinesOf(c)
<1>1. credits[c] \in CreditRow /\ planned[c] \in Amount
  BY DEF CreditTypes
<1>2. CASE ~Linked(c)
  BY <1>1, <1>2 DEF Synced, PlanOf
<1>3. CASE Linked(c)
  <2>1. credits[c].of \in Returns /\ credits[c].lines \in Nat
    BY <1>1, <1>3, CreditParts DEF Linked
  <2>2. returns[credits[c].of].quantity \in Nat
    BY <2>1, ReturnParts DEF ReturnTypes
  <2>3. LinesOf(c) \in Nat /\ (credits[c].lines # 0 => LinesOf(c) = credits[c].lines)
    BY <2>1, <2>2 DEF LinesOf
  <2>4. Synced(c) = SyncedRow(credits[c], LinesOf(c))
    BY <1>3 DEF Synced, SyncedRow
  <2>5. /\ SyncedRow(credits[c], LinesOf(c)) \in CreditRow
        /\ SyncedRow(credits[c], LinesOf(c)).status = credits[c].status
        /\ SyncedRow(credits[c], LinesOf(c)).of = credits[c].of
        /\ SyncedRow(credits[c], LinesOf(c)).lines = LinesOf(c)
        /\ SyncedRow(credits[c], LinesOf(c)).total = LinesOf(c)
        /\ SyncedRow(credits[c], LinesOf(c)).applied
             = IF credits[c].posted THEN credits[c].applied ELSE 0
        /\ SyncedRow(credits[c], LinesOf(c)).posted = credits[c].posted
    BY <1>1, <2>3, SyncedRowTyped
  <2>6. CASE planned[c] = Nothing
    <3>1. PlanOf(c) = Spread(LinesOf(c))
      BY <1>3, <2>6 DEF PlanOf
    <3>2. Spread(LinesOf(c)) \in Amount /\ Total(Spread(LinesOf(c))) <= LinesOf(c)
      BY <2>3, SpreadWithin
    <3> QED BY <1>3, <2>3, <2>4, <2>5, <2>6, <3>1, <3>2
  <2>7. CASE planned[c] # Nothing
    <3>1. PlanOf(c) = planned[c]
      BY <2>7 DEF PlanOf
    <3> QED BY <1>1, <1>3, <2>3, <2>4, <2>5, <2>7, <3>1
  <2> QED BY <2>6, <2>7
<1> QED BY <1>2, <1>3

\* A plan that clients make.
LEMMA PlanValid ==
  ASSUME NEW total \in Nat, NEW a \in ValidPlans(total)
  PROVE  a \in Amount /\ Total(a) <= total
<1>1. a \in [Bills -> 0..total] /\ Total(a) <= total
  BY DEF ValidPlans
<1>2. \A b \in Bills : a[b] \in Nat
  BY <1>1
<1> QED BY <1>1, <1>2 DEF Amount

\* The return of a credit that is marked.
LEMMA IssuedIs ==
  ASSUME ReturnTypes, CreditTypes, NEW c \in Credits, returns' = Issued(c), UNCHANGED sentBack
  PROVE  /\ ReturnTypes'
         /\ \A r \in Returns :
              \/ returns'[r] = returns[r]
              \/ /\ credits[c].of = r /\ returns'[r].status = "CREDIT_ISSUED"
                 /\ returns'[r].receipt = returns[r].receipt
                 /\ returns'[r].largest = returns[r].largest
<1>1. CASE ~Linked(c)
  <2>1. returns' = returns
    BY <1>1 DEF Issued
  <2> QED BY <2>1 DEF ReturnTypes
<1>2. CASE Linked(c)
  <2> DEFINE r == credits[c].of
             new == [returns[r] EXCEPT !.status = "CREDIT_ISSUED"]
  <2>1. r \in Returns
    BY <1>2, CreditParts DEF Linked, CreditTypes
  <2>2. returns' = [returns EXCEPT ![r] = new]
    BY <1>2 DEF Issued
  <2>3. returns[r] \in ReturnRow /\ "CREDIT_ISSUED" \in ReturnStatuses \union {"ABSENT"}
    BY <2>1 DEF ReturnTypes, ReturnStatuses
  <2> HIDE DEF r
  <2>4. /\ new \in ReturnRow /\ new.status = "CREDIT_ISSUED"
        /\ new.receipt = returns[r].receipt /\ new.largest = returns[r].largest
    BY <2>3, ReturnWithStatus
  <2> HIDE DEF new
  <2>5. /\ returns' \in [Returns -> ReturnRow] /\ returns'[r] = new
        /\ \A x \in Returns \ {r} : returns'[x] = returns[x]
    BY <2>1, <2>2, <2>4 DEF ReturnTypes
  <2>6. \A x \in Returns :
              \/ returns'[x] = returns[x]
              \/ /\ r = x /\ returns'[x].status = "CREDIT_ISSUED"
                 /\ returns'[x].receipt = returns[x].receipt
                 /\ returns'[x].largest = returns[x].largest
    BY <2>4, <2>5
  <2> QED BY <2>5, <2>6 DEF ReturnTypes, r
<1> QED BY <1>1, <1>2

\* One credit and its plan are saved.
CreditSaved(c, row, plan) ==
  /\ credits'[c] = row /\ planned'[c] = plan
  /\ \A x \in Credits \ {c} : credits'[x] = credits[x] /\ planned'[x] = planned[x]

LEMMA CreditChanged ==
  ASSUME CreditTypes, NEW c \in Credits, NEW row \in CreditRow, NEW plan \in Amount,
         credits' = [credits EXCEPT ![c] = row], planned' = [planned EXCEPT ![c] = plan],
         taken' \in [Credits -> Amount]
  PROVE  CreditTypes' /\ CreditSaved(c, row, plan)
BY DEF CreditTypes, CreditSaved

LEMMA TakingsAre ==
  ASSUME BillTypes, CreditTypes, NEW c \in Credits, NEW plan \in Amount, taken' = Takings(c, plan)
  PROVE  /\ taken' \in [Credits -> Amount]
         /\ \A b \in Bills : taken'[c][b] = taken[c][b] + Amounts(plan)[b]
         /\ \A x \in Credits \ {c} : taken'[x] = taken[x]
<1> DEFINE t == [b \in Bills |-> taken[c][b] + Amounts(plan)[b]]
<1>1. taken' = [taken EXCEPT ![c] = t]
  BY DEF Takings
<1>2. \A b \in Bills : taken[c][b] \in Nat /\ Amounts(plan)[b] \in Nat
  BY AmountsAre DEF CreditTypes, Amount
<1>3. t \in Amount /\ \A b \in Bills : t[b] = taken[c][b] + Amounts(plan)[b]
  BY <1>2 DEF Amount
<1> HIDE DEF t
<1>4. taken' \in [Credits -> Amount] /\ taken'[c] = t /\ \A x \in Credits \ {c} : taken'[x] = taken[x]
  BY <1>1, <1>3 DEF CreditTypes
<1> QED BY <1>3, <1>4

LEMMA ViewedCredit ==
  ASSUME BillTypes, ReturnTypes, CreditTypes, Jobs, NEW w \in Workers, ViewCredit(w)
  PROVE  /\ Acts(w) /\ CreditTypes'
         /\ UNCHANGED <<job, clients, goods, bills, billed, payments, taken, returns, sentBack>>
         /\ \E c \in Credits : credits[c].status # "ABSENT" /\ CreditSaved(c, Synced(c), PlanOf(c))
<1>1. /\ Acts(w)
      /\ UNCHANGED <<job, clients, goods, bills, billed, payments, taken, returns, sentBack>>
  BY UnchangedActs DEF ViewCredit
<1>2. PICK c \in Credits :
        /\ credits[c].status # "ABSENT"
        /\ credits' = [credits EXCEPT ![c] = Synced(c)]
        /\ planned' = [planned EXCEPT ![c] = PlanOf(c)]
  BY DEF ViewCredit
<1>3. Synced(c) \in CreditRow /\ PlanOf(c) \in Amount
  BY SyncedIs
<1>4. taken' \in [Credits -> Amount]
  BY <1>1 DEF CreditTypes
<1>5. CreditTypes' /\ CreditSaved(c, Synced(c), PlanOf(c))
  BY <1>2, <1>3, <1>4, CreditChanged
<1> QED BY <1>1, <1>2, <1>5

LEMMA CreditShaped ==
  ASSUME NEW j, CreditShape(j), j.step \in {"credit_new", "credit_save", "credit_post", "credit_void"}
  PROVE  JobShape(j)
BY DEF JobShape, GoodsShape, BillShape, ReturnShape, ExpenseShape, ConfirmSteps

\* What requests hold that are about to save a credit.
LEMMA LoadedNewCredit ==
  ASSUME CreditTypes, Jobs, NEW w \in Workers, CreditLoadNew(w)
  PROVE  /\ Acts(w) /\ UNCHANGED <<clients, goods, money, returns, sentBack>>
         /\ \E c \in ManualCredits, r \in Returns, total \in Nat :
              /\ credits[c].status = "ABSENT" /\ NewCredit(c) /\ Creditable(r, c)
              /\ job'[w].step = "credit_new" /\ job'[w].credit = c
              /\ job'[w].row = Drafted(r, total) /\ Total(job'[w].plan) <= total
<1>1. PICK c \in ManualCredits, r \in Returns, total \in 1..MaxCredit :
        /\ credits[c].status = "ABSENT"
        /\ NewCredit(c)
        /\ Creditable(r, c)
        /\ \E a \in ValidPlans(total) :
             Becomes(w, [step |-> "credit_new", credit |-> c, row |-> Drafted(r, total), plan |-> a])
  BY DEF CreditLoadNew
<1>2. PICK a \in ValidPlans(total) :
        Becomes(w, [step |-> "credit_new", credit |-> c, row |-> Drafted(r, total), plan |-> a])
  BY <1>1
<1> DEFINE row == Drafted(r, total)
           j == [step |-> "credit_new", credit |-> c, row |-> row, plan |-> a]
<1>3. total \in Nat
  OBVIOUS
<1>4. a \in Amount /\ Total(a) <= total
  BY <1>2, <1>3, PlanValid
<1>5. row \in CreditRow /\ row.of = r
  BY <1>3, DraftedTyped
<1>6. Becomes(w, j)
  BY <1>2
<1> HIDE DEF row
<1>7. /\ j.step = "credit_new" /\ CreditShape(j) /\ j.credit = c /\ j.row = row /\ j.plan = a
  BY <1>4, <1>5 DEF CreditShape
<1> HIDE DEF j
<1>8. Serves(w) /\ job'[w] = j
  BY <1>6, <1>7, CreditShaped, BecomesServes
<1>9. Acts(w)
  BY <1>7, <1>8 DEF Acts
<1>10. UNCHANGED <<clients, goods, money, returns, sentBack>>
  BY DEF CreditLoadNew
<1> QED BY <1>1, <1>3, <1>4, <1>7, <1>8, <1>9, <1>10 DEF row

LEMMA LoadedCreditEdit ==
  ASSUME CreditTypes, Jobs, NEW w \in Workers, CreditEditLoad(w)
  PROVE  /\ Acts(w) /\ UNCHANGED <<clients, goods, money, returns, sentBack>>
         /\ Takes(w, "edit_credit") /\ job'[w].step = "credit_save"
         /\ \E c \in Credits : Creditable(job'[w].row.of, c) /\ job'[w].row.of = credits[c].of
<1>1. PICK c \in Credits, total \in 1..MaxCredit, keep \in BOOLEAN :
        /\ Linked(c)
        /\ Creditable(credits[c].of, c)
        /\ \E a \in IF keep THEN {Nothing} ELSE ValidPlans(total) :
            Becomes(w, [step |-> "credit_save", credit |-> c, keep |-> keep,
                        row |-> Drafted(credits[c].of, total), plan |-> a])
  BY DEF CreditEditLoad
<1>2. PICK a \in IF keep THEN {Nothing} ELSE ValidPlans(total) :
            Becomes(w, [step |-> "credit_save", credit |-> c, keep |-> keep,
                        row |-> Drafted(credits[c].of, total), plan |-> a])
  BY <1>1
<1> DEFINE row == Drafted(credits[c].of, total)
           j == [step |-> "credit_save", credit |-> c, keep |-> keep, row |-> row, plan |-> a]
<1>3. total \in Nat /\ credits[c].of \in Returns
  BY <1>1, CreditParts DEF Linked, CreditTypes
<1>4. a \in Amount
  <2>1. CASE keep
    BY <1>2, <2>1, NothingTyped
  <2>2. CASE ~keep
    BY <1>2, <1>3, <2>2, PlanValid
  <2> QED BY <2>1, <2>2
<1>5. row \in CreditRow /\ row.of = credits[c].of
  BY <1>3, DraftedTyped
<1>6. Becomes(w, j)
  BY <1>2
<1> HIDE DEF row
<1>7. j.step = "credit_save" /\ CreditShape(j) /\ j.row = row
  BY <1>3, <1>4, <1>5 DEF CreditShape
<1> HIDE DEF j
<1>8. Serves(w) /\ job'[w] = j
  BY <1>6, <1>7, CreditShaped, BecomesServes
<1>9. Acts(w)
  BY <1>7, <1>8 DEF Acts
<1>10. UNCHANGED <<clients, goods, money, returns, sentBack>> /\ Takes(w, "edit_credit")
  BY DEF CreditEditLoad
<1> QED BY <1>1, <1>5, <1>7, <1>8, <1>9, <1>10

LEMMA LoadedCredit ==
  ASSUME CreditTypes, Jobs, NEW w \in Workers, CreditLoad(w)
  PROVE  /\ Acts(w) /\ UNCHANGED <<clients, goods, money, returns, sentBack>>
         /\ \/ job'[w].step = "credit_post" /\ Takes(w, "post_credit")
            \/ job'[w].step = "credit_void" /\ Takes(w, "void_credit")
<1>0. UNCHANGED <<clients, goods, money, returns, sentBack>>
  BY DEF CreditLoad
<1>1. PICK c \in Credits :
        \/ /\ Takes(w, "post_credit")
           /\ Becomes(w, [step |-> "credit_post", credit |-> c, row |-> credits[c],
                          plan |-> planned[c]])
        \/ /\ Takes(w, "void_credit")
           /\ Becomes(w, [step |-> "credit_void", credit |-> c])
  BY DEF CreditLoad
<1>2. credits[c] \in CreditRow /\ planned[c] \in Amount
  BY DEF CreditTypes
<1>3. CASE /\ Takes(w, "post_credit")
           /\ Becomes(w, [step |-> "credit_post", credit |-> c, row |-> credits[c],
                          plan |-> planned[c]])
  <2> DEFINE row == credits[c]
             plan == planned[c]
             j == [step |-> "credit_post", credit |-> c, row |-> row, plan |-> plan]
  <2>1. Becomes(w, j)
    BY <1>3
  <2>2. row \in CreditRow /\ plan \in Amount
    BY <1>2
  <2> HIDE DEF row, plan
  <2>3. j.step = "credit_post" /\ CreditShape(j)
    BY <2>2 DEF CreditShape
  <2> HIDE DEF j
  <2>4. Serves(w) /\ job'[w] = j
    BY <2>1, <2>3, CreditShaped, BecomesServes
  <2> QED BY <1>0, <1>3, <2>3, <2>4 DEF Acts
<1>4. CASE /\ Takes(w, "void_credit")
           /\ Becomes(w, [step |-> "credit_void", credit |-> c])
  <2> DEFINE j == [step |-> "credit_void", credit |-> c]
  <2>1. j.step = "credit_void" /\ CreditShape(j) /\ Becomes(w, j)
    BY <1>4 DEF CreditShape
  <2> HIDE DEF j
  <2>2. Serves(w) /\ job'[w] = j
    BY <2>1, CreditShaped, BecomesServes
  <2> QED BY <1>0, <1>4, <2>1, <2>2 DEF Acts
<1> QED BY <1>1, <1>3, <1>4

\* What saves of a credit make.
LEMMA CreatedCredit ==
  ASSUME BillTypes, ReturnTypes, CreditTypes, Jobs, NEW w \in Workers, CreateCredit(w)
  PROVE  /\ Acts(w) /\ job'[w] = Idle /\ CreditTypes'
         /\ UNCHANGED <<clients, goods, bills, billed, payments, taken, returns, sentBack>>
         /\ job[w].credit \in ManualCredits /\ job[w].credit \in Credits
         /\ job[w].row \in CreditRow
         /\ \E plan \in Amount : /\ CreditSaved(job[w].credit, job[w].row, plan)
                                 /\ plan = job[w].plan \/ Total(plan) <= job[w].row.lines
<1> DEFINE c == job[w].credit
           row == job[w].row
           plan == IF job[w].plan = Nothing THEN Spread(row.lines) ELSE job[w].plan
<1>1. c \in ManualCredits /\ c \in Credits /\ row \in CreditRow /\ job[w].plan \in Amount
  BY DEF CreateCredit, At, Jobs, JobShape, CreditShape, Credits
<1>2. row.lines \in Nat
  BY <1>1, CreditParts
<1>3. Spread(row.lines) \in Amount /\ Total(Spread(row.lines)) <= row.lines
  BY <1>2, SpreadWithin
<1>4. plan \in Amount /\ (plan = job[w].plan \/ Total(plan) <= row.lines)
  BY <1>1, <1>3
<1>5. /\ Acts(w) /\ job'[w] = Idle
      /\ UNCHANGED <<clients, goods, bills, billed, payments, taken, returns, sentBack>>
  BY RespondActs DEF CreateCredit
<1>6. credits' = [credits EXCEPT ![c] = row] /\ planned' = [planned EXCEPT ![c] = plan]
  BY DEF CreateCredit
<1>7. taken' \in [Credits -> Amount]
  BY <1>5 DEF CreditTypes
<1> HIDE DEF c, row, plan
<1>8. CreditTypes' /\ CreditSaved(c, row, plan)
  BY <1>1, <1>4, <1>6, <1>7, CreditChanged
<1> QED BY <1>1, <1>4, <1>5, <1>8 DEF c, row

LEMMA SavedCreditEdit ==
  ASSUME CreditTypes, Jobs, NEW w \in Workers, CreditEditSave(w)
  PROVE  /\ Acts(w) /\ job'[w] = Idle /\ CreditTypes'
         /\ UNCHANGED <<clients, goods, bills, billed, payments, taken, returns, sentBack>>
         /\ job[w].credit \in Credits
         /\ \E plan \in Amount : CreditSaved(job[w].credit, job[w].row, plan)
<1> DEFINE c == job[w].credit
           row == job[w].row
           plan == IF job[w].keep THEN planned[c] ELSE job[w].plan
<1>1. c \in Credits /\ row \in CreditRow /\ job[w].plan \in Amount
  BY DEF CreditEditSave, At, Jobs, JobShape, CreditShape
<1>2. plan \in Amount
  BY <1>1 DEF CreditTypes
<1>3. /\ Acts(w) /\ job'[w] = Idle
      /\ UNCHANGED <<clients, goods, bills, billed, payments, taken, returns, sentBack>>
  BY RespondActs DEF CreditEditSave
<1>4. credits' = [credits EXCEPT ![c] = row] /\ planned' = [planned EXCEPT ![c] = plan]
  <2>1. planned = [planned EXCEPT ![c] = planned[c]]
    BY <1>1 DEF CreditTypes
  <2> QED BY <2>1 DEF CreditEditSave
<1>5. taken' \in [Credits -> Amount]
  BY <1>3 DEF CreditTypes
<1> HIDE DEF c, row, plan
<1>6. CreditTypes' /\ CreditSaved(c, row, plan)
  BY <1>1, <1>2, <1>4, <1>5, CreditChanged
<1> QED BY <1>1, <1>2, <1>3, <1>6 DEF c, row

LEMMA DeletedCredit ==
  ASSUME CreditTypes, Jobs, NEW w \in Workers, DeleteCredit(w)
  PROVE  /\ Acts(w) /\ CreditTypes' /\ Takes(w, "delete_credit")
         /\ UNCHANGED <<job, clients, goods, bills, billed, payments, returns, sentBack>>
         /\ \E c \in Credits : /\ CreditSaved(c, NoCredit, Nothing) /\ taken'[c] = Nothing
                               /\ \A x \in Credits \ {c} : taken'[x] = taken[x]
<1>1. /\ Acts(w) /\ Takes(w, "delete_credit")
      /\ UNCHANGED <<job, clients, goods, bills, billed, payments, returns, sentBack>>
  BY UnchangedActs DEF DeleteCredit
<1>2. PICK c \in Credits :
       /\ credits' = [credits EXCEPT ![c] = NoCredit]
       /\ planned' = [planned EXCEPT ![c] = Nothing]
       /\ taken' = [taken EXCEPT ![c] = Nothing]
  BY DEF DeleteCredit
<1>3. NoCredit \in CreditRow /\ Nothing \in Amount
  BY NoCreditTyped, NothingTyped
<1>4. /\ taken' \in [Credits -> Amount] /\ taken'[c] = Nothing
      /\ \A x \in Credits \ {c} : taken'[x] = taken[x]
  BY <1>2, <1>3 DEF CreditTypes
<1>5. CreditTypes' /\ CreditSaved(c, NoCredit, Nothing)
  BY <1>2, <1>3, <1>4, CreditChanged
<1> QED BY <1>1, <1>4, <1>5

LEMMA ApprovedCredit ==
  ASSUME BillTypes, ReturnTypes, CreditTypes, Jobs, NEW w \in Workers, ApproveCredit(w)
  PROVE  /\ Acts(w) /\ CreditTypes' /\ ReturnTypes'
         /\ UNCHANGED <<job, clients, goods, bills, billed, payments, taken, sentBack>>
         /\ \E c \in Credits :
              /\ credits[c].status = "OPEN" /\ ~credits[c].posted
              /\ CreditSaved(c, ApprovedRow(Synced(c)), PlanOf(c))
              /\ returns' = Issued(c)
<1>1. /\ Acts(w)
      /\ UNCHANGED <<job, clients, goods, bills, billed, payments, taken, sentBack>>
  BY UnchangedActs DEF ApproveCredit
<1>2. PICK c \in Credits :
        /\ credits[c].status = "OPEN" /\ ~credits[c].posted
        /\ credits' = [credits EXCEPT ![c] = ApprovedRow(Synced(c))]
        /\ planned' = [planned EXCEPT ![c] = PlanOf(c)]
        /\ returns' = Issued(c)
  BY DEF ApproveCredit, ApprovedRow
<1>3. Synced(c) \in CreditRow /\ PlanOf(c) \in Amount
  BY SyncedIs
<1>4. ApprovedRow(Synced(c)) \in CreditRow
  BY <1>3, ApprovedTyped
<1>5. taken' \in [Credits -> Amount]
  BY <1>1 DEF CreditTypes
<1>6. CreditTypes' /\ CreditSaved(c, ApprovedRow(Synced(c)), PlanOf(c))
  BY <1>2, <1>3, <1>4, <1>5, CreditChanged
<1>7. ReturnTypes'
  BY <1>1, <1>2, IssuedIs
<1> QED BY <1>1, <1>2, <1>6, <1>7

LEMMA VoidedCredit ==
  ASSUME BillTypes, ReturnTypes, CreditTypes, Jobs, NEW w \in Workers, VoidLocked(w)
  PROVE  /\ Acts(w) /\ CreditTypes'
         /\ UNCHANGED <<job, clients, goods, bills, billed, payments, taken, returns, sentBack>>
         /\ \E c \in Credits :
              /\ credits[c].status \notin {"ABSENT", "VOID"} /\ Synced(c).applied = 0
              /\ CreditSaved(c, VoidRow(Synced(c)), PlanOf(c))
<1>1. /\ Acts(w)
      /\ UNCHANGED <<job, clients, goods, bills, billed, payments, taken, returns, sentBack>>
  BY UnchangedActs DEF VoidLocked
<1>2. PICK c \in Credits :
        /\ credits[c].status \notin {"ABSENT", "VOID"} /\ Synced(c).applied = 0
        /\ credits' = [credits EXCEPT ![c] = VoidRow(Synced(c))]
        /\ planned' = [planned EXCEPT ![c] = PlanOf(c)]
  BY DEF VoidLocked, VoidRow
<1>3. Synced(c) \in CreditRow /\ PlanOf(c) \in Amount
  BY SyncedIs
<1>4. VoidRow(Synced(c)) \in CreditRow
  BY <1>3, VoidTyped
<1>5. taken' \in [Credits -> Amount]
  BY <1>1 DEF CreditTypes
<1>6. CreditTypes' /\ CreditSaved(c, VoidRow(Synced(c)), PlanOf(c))
  BY <1>2, <1>3, <1>4, <1>5, CreditChanged
<1> QED BY <1>1, <1>2, <1>6

LEMMA TotalTyped ==
  ASSUME NEW a \in Amount
  PROVE  Total(a) \in Nat
<1>1. IsFiniteSet(Bills) /\ \A b \in Bills : a[b] \in Nat
  BY PayablesAssumption DEF Amount
<1> QED BY <1>1, SumNat DEF Total

LEMMA OpenedCredit ==
  ASSUME BillTypes, ReturnTypes, CreditTypes, Jobs, NEW w \in Workers, OpenCredit(w)
  PROVE  /\ Acts(w) /\ CreditTypes' /\ ReturnTypes' /\ BillTypes'
         /\ UNCHANGED <<job, clients, goods, billed, payments, sentBack>>
         /\ \E c \in Credits :
              /\ Openable(c) /\ PlanFree(w, PlanOf(c)) /\ PlanOf(c) \in Amount
              /\ bills' = BillsAfter(PlanOf(c))
              /\ CreditSaved(c, Applied(Synced(c), Total(Amounts(PlanOf(c)))), PlanOf(c))
              /\ taken' = Takings(c, PlanOf(c))
              /\ returns' = Issued(c)
<1>1. Acts(w) /\ UNCHANGED <<job, clients, goods, billed, payments, sentBack>>
  BY UnchangedActs DEF OpenCredit
<1>2. PICK c \in Credits :
        /\ Openable(c) /\ PlanFree(w, PlanOf(c))
        /\ bills' = BillsAfter(PlanOf(c))
        /\ credits' = [credits EXCEPT ![c] = Applied(Synced(c), Total(Amounts(PlanOf(c))))]
        /\ planned' = [planned EXCEPT ![c] = PlanOf(c)]
        /\ taken' = Takings(c, PlanOf(c))
        /\ returns' = Issued(c)
  BY DEF OpenCredit
<1>3. Synced(c) \in CreditRow /\ PlanOf(c) \in Amount
  BY SyncedIs
<1>4. Total(Amounts(PlanOf(c))) \in Nat
  BY <1>3, AmountsAre, TotalTyped
<1>5. Applied(Synced(c), Total(Amounts(PlanOf(c)))) \in CreditRow
  BY <1>3, <1>4, AppliedTyped
<1>6. taken' \in [Credits -> Amount]
  BY <1>2, <1>3, TakingsAre
<1>7. CreditTypes' /\ CreditSaved(c, Applied(Synced(c), Total(Amounts(PlanOf(c)))), PlanOf(c))
  BY <1>2, <1>3, <1>5, <1>6, CreditChanged
<1>8. ReturnTypes'
  BY <1>1, <1>2, IssuedIs
<1>9. BillTypes'
  BY <1>1, <1>2, <1>3, CreditedBills
<1> QED BY <1>1, <1>2, <1>3, <1>7, <1>8, <1>9

LEMMA PostedCredit ==
  ASSUME BillTypes, CreditTypes, Jobs, NEW w \in Workers, PostSave(w)
  PROVE  /\ Acts(w) /\ job'[w] = Idle /\ CreditTypes' /\ BillTypes'
         /\ UNCHANGED <<clients, goods, billed, payments, planned, returns, sentBack>>
         /\ job[w].credit \in Credits /\ job[w].plan \in Amount /\ PlanFree(w, job[w].plan)
         /\ bills' = BillsAfter(job[w].plan)
         /\ taken' = Takings(job[w].credit, job[w].plan)
         /\ \A x \in Credits : credits'[x].of = credits[x].of
<1> DEFINE c == job[w].credit
           plan == job[w].plan
           row == Applied(job[w].row, Total(Amounts(plan)))
<1>1. c \in Credits /\ job[w].row \in CreditRow /\ plan \in Amount
  BY DEF PostSave, At, Jobs, JobShape, CreditShape
<1>2. /\ Acts(w) /\ job'[w] = Idle /\ PlanFree(w, plan)
      /\ UNCHANGED <<clients, goods, billed, payments, planned, returns, sentBack>>
      /\ bills' = BillsAfter(plan) /\ taken' = Takings(c, plan)
  BY RespondActs DEF PostSave
<1>3. credits' = [credits EXCEPT ![c] = PostedRow(credits[c], row)]
  BY DEF PostSave, PostedRow
<1> HIDE DEF c, plan
<1>4. Total(Amounts(plan)) \in Nat
  BY <1>1, AmountsAre, TotalTyped
<1>5. row \in CreditRow
  BY <1>1, <1>4, AppliedTyped
<1> HIDE DEF row
<1>6. credits[c] \in CreditRow
  BY <1>1 DEF CreditTypes
<1>7. PostedRow(credits[c], row) \in CreditRow /\ PostedRow(credits[c], row).of = credits[c].of
  <2>1. PostedRow(credits[c], row).of = credits[c].of
    BY <1>6 DEF PostedRow, CreditRow
  <2> QED BY <1>5, <1>6, <2>1, PostedTyped
<1>8. /\ credits' \in [Credits -> CreditRow] /\ credits'[c] = PostedRow(credits[c], row)
      /\ \A x \in Credits \ {c} : credits'[x] = credits[x]
  BY <1>1, <1>3, <1>7 DEF CreditTypes
<1>9. taken' \in [Credits -> Amount]
  BY <1>1, <1>2, TakingsAre
<1>10. CreditTypes'
  BY <1>2, <1>8, <1>9 DEF CreditTypes
<1>11. BillTypes'
  BY <1>1, <1>2, CreditedBills
<1>12. \A x \in Credits : credits'[x].of = credits[x].of
  BY <1>7, <1>8
<1> QED BY <1>1, <1>2, <1>10, <1>11, <1>12 DEF c, plan

LEMMA VoidedUnlocked ==
  ASSUME CreditTypes, Jobs, NEW w \in Workers, VoidSave(w)
  PROVE  /\ Acts(w) /\ job'[w] = Idle /\ CreditTypes'
         /\ UNCHANGED <<clients, goods, bills, billed, payments, planned, taken, returns, sentBack>>
         /\ \A x \in Credits : credits'[x].of = credits[x].of
<1> DEFINE c == job[w].credit
<1>1. c \in Credits /\ credits[c] \in CreditRow
  BY DEF VoidSave, At, Jobs, JobShape, CreditShape, CreditTypes
<1>2. /\ Acts(w) /\ job'[w] = Idle
      /\ UNCHANGED <<clients, goods, bills, billed, payments, planned, taken, returns, sentBack>>
  BY RespondActs DEF VoidSave
<1>3. credits' = [credits EXCEPT ![c] = VoidRow(credits[c])]
  BY DEF VoidSave, VoidRow
<1>4. VoidRow(credits[c]) \in CreditRow /\ VoidRow(credits[c]).of = credits[c].of
  BY <1>1, VoidTyped
<1>5. /\ credits' \in [Credits -> CreditRow]
      /\ \A x \in Credits : credits'[x].of = credits[x].of
  BY <1>1, <1>3, <1>4 DEF CreditTypes
<1> QED BY <1>2, <1>5 DEF CreditTypes

----
(* Types: expenses. *)

ExpenseTypes == expenses \in [Expenses -> ExpenseRow]

LEMMA ExpenseParts ==
  ASSUME NEW r \in ExpenseRow
  PROVE  r.status \in ExpenseStatuses \union {"ABSENT"} /\ r.approved \in BOOLEAN
BY DEF ExpenseRow

LEMMA NoExpenseTyped ==
  ASSUME NEW s \in NewExpenseStatuses
  PROVE  /\ NoExpense \in ExpenseRow
         /\ [NoExpense EXCEPT !.status = s] \in ExpenseRow
         /\ [NoExpense EXCEPT !.status = s].status = s
BY SpendingAssumption DEF NoExpense, ExpenseRow

LEMMA ExpenseWithStatus ==
  ASSUME NEW r \in ExpenseRow, NEW s \in NewExpenseStatuses \union {r.status}
  PROVE  [r EXCEPT !.status = s] \in ExpenseRow
BY SpendingAssumption DEF ExpenseRow

LEMMA ExpenseShaped ==
  ASSUME NEW j, ExpenseShape(j), j.step \in {"expense_edit", "expense_save"}
  PROVE  JobShape(j)
BY DEF JobShape, GoodsShape, BillShape, ReturnShape, CreditShape, ConfirmSteps

LEMMA ExpenseMoves ==
  ASSUME NEW s, NEW t, s \in ExpenseStatuses, t \in ExpenseTransitions[s]
  PROVE  t \in ExpenseStatuses
BY DEF ExpenseTransitions, ExpenseStatuses

\* A request that is about to save an expense.
LEMMA SavingExpense ==
  ASSUME Jobs, NEW w \in Workers, NEW e \in Expenses, NEW s \in ExpenseStatuses, NEW b \in BOOLEAN,
         Becomes(w, [step |-> "expense_save", expense |-> e, status |-> s, signed |-> b])
  PROVE  /\ Acts(w) /\ job'[w].step = "expense_save" /\ job'[w].expense = e
         /\ job'[w].status = s /\ job'[w].signed = b
<1> DEFINE j == [step |-> "expense_save", expense |-> e, status |-> s, signed |-> b]
<1>1. /\ j.step = "expense_save" /\ ExpenseShape(j) /\ Becomes(w, j)
      /\ j.expense = e /\ j.status = s /\ j.signed = b
  BY DEF ExpenseShape
<1> HIDE DEF j
<1>2. Serves(w) /\ job'[w] = j
  BY <1>1, ExpenseShaped, BecomesServes
<1> QED BY <1>1, <1>2 DEF Acts

LEMMA ExpenseLoaded ==
  ASSUME ExpenseTypes, Jobs, NEW w \in Workers,
         ExpenseEditLoad(w) \/ ExpenseStatusLoad(w) \/ ApproveExpenseLoad(w)
  PROVE  /\ Acts(w) /\ UNCHANGED <<Rest, expenses>>
         /\ \/ job'[w].step = "expense_edit" /\ Takes(w, "edit_expense")
            \/ /\ job'[w].step = "expense_save"
               /\ job'[w].status = "PAID" =>
                    job'[w].signed \/ expenses[job'[w].expense].approved
<1>1. CASE ExpenseEditLoad(w)
  <2>1. PICK e \in Expenses : \E s \in NewExpenseStatuses \union {expenses[e].status} :
            Becomes(w, [step |-> "expense_edit", expense |-> e,
                        row |-> [expenses[e] EXCEPT !.status = s]])
    BY <1>1 DEF ExpenseEditLoad
  <2>2. PICK s \in NewExpenseStatuses \union {expenses[e].status} :
            Becomes(w, [step |-> "expense_edit", expense |-> e,
                        row |-> [expenses[e] EXCEPT !.status = s]])
    BY <2>1
  <2> DEFINE row == [expenses[e] EXCEPT !.status = s]
             j == [step |-> "expense_edit", expense |-> e, row |-> row]
  <2>3. expenses[e] \in ExpenseRow
    BY DEF ExpenseTypes
  <2>4. row \in ExpenseRow
    BY <2>3, ExpenseWithStatus
  <2>5. Becomes(w, j)
    BY <2>2
  <2> HIDE DEF row
  <2>6. j.step = "expense_edit" /\ ExpenseShape(j)
    BY <2>4 DEF ExpenseShape
  <2> HIDE DEF j
  <2>7. Serves(w) /\ job'[w] = j
    BY <2>5, <2>6, ExpenseShaped, BecomesServes
  <2>8. Takes(w, "edit_expense") /\ UNCHANGED <<Rest, expenses>>
    BY <1>1 DEF ExpenseEditLoad
  <2> QED BY <2>6, <2>7, <2>8 DEF Acts
<1>2. CASE ExpenseStatusLoad(w)
  <2>1. PICK e \in Expenses :
          /\ Spent(e)
          /\ \E s \in ExpenseTransitions[expenses[e].status] :
            Becomes(w, [step |-> "expense_save", expense |-> e, status |-> s,
                        signed |-> Signs(expenses[e], s)])
    BY <1>2 DEF ExpenseStatusLoad
  <2>2. PICK s \in ExpenseTransitions[expenses[e].status] :
            Becomes(w, [step |-> "expense_save", expense |-> e, status |-> s,
                        signed |-> Signs(expenses[e], s)])
    BY <2>1
  <2> DEFINE b == Signs(expenses[e], s)
  <2>3. expenses[e].status \in ExpenseStatuses
    BY <2>1, ExpenseParts DEF Spent, ExpenseTypes
  <2>4. s \in ExpenseStatuses
    BY <2>2, <2>3, ExpenseMoves
  <2>5. b \in BOOLEAN /\ (s = "PAID" => b \/ expenses[e].approved)
    BY DEF Signs
  <2>6. Becomes(w, [step |-> "expense_save", expense |-> e, status |-> s, signed |-> b])
    BY <2>2
  <2> HIDE DEF b
  <2>7. /\ Acts(w) /\ job'[w].step = "expense_save" /\ job'[w].expense = e
        /\ job'[w].status = s /\ job'[w].signed = b
    BY <2>4, <2>5, <2>6, SavingExpense
  <2>8. UNCHANGED <<Rest, expenses>>
    BY <1>2 DEF ExpenseStatusLoad
  <2> QED BY <2>5, <2>7, <2>8
<1>3. CASE ApproveExpenseLoad(w)
  <2>1. PICK e \in Expenses, s \in {"APPROVED", "PAID"} :
          /\ Becomes(w, [step |-> "expense_save", expense |-> e, status |-> s, signed |-> TRUE])
          /\ UNCHANGED <<Rest, expenses>>
    BY <1>3 DEF ApproveExpenseLoad
  <2>2. s \in ExpenseStatuses
    BY DEF ExpenseStatuses
  <2>3. /\ Acts(w) /\ job'[w].step = "expense_save" /\ job'[w].expense = e
        /\ job'[w].status = s /\ job'[w].signed = TRUE
    BY <2>1, <2>2, SavingExpense
  <2> QED BY <2>1, <2>3
<1> QED BY <1>1, <1>2, <1>3

\* What becomes of an expense: a new one, one that another request does not know, is not
\* paid unless clients say so; a save of the whole row is an edit.
LEMMA ExpenseTyped ==
  ASSUME ExpenseTypes, Jobs, NEW w \in Workers, ExpenseStep(w)
  PROVE  ExpenseTypes' /\ Acts(w) /\ UNCHANGED Rest
<1>1. CASE CreateExpense(w)
  <2>1. PICK e \in Expenses, s \in NewExpenseStatuses :
          expenses' = [expenses EXCEPT ![e] = [NoExpense EXCEPT !.status = s]]
    BY <1>1 DEF CreateExpense
  <2>2. [NoExpense EXCEPT !.status = s] \in ExpenseRow
    BY NoExpenseTyped
  <2>3. expenses' \in [Expenses -> ExpenseRow]
    BY <2>1, <2>2 DEF ExpenseTypes
  <2>4. Acts(w) /\ UNCHANGED Rest
    BY <1>1, UnchangedActs DEF CreateExpense
  <2> QED BY <2>3, <2>4 DEF ExpenseTypes
<1>2. CASE ExpenseEditSave(w)
  <2>1. job[w].expense \in Expenses /\ job[w].row \in ExpenseRow
    BY <1>2 DEF ExpenseEditSave, At, Jobs, JobShape, ExpenseShape
  <2>2. expenses' \in [Expenses -> ExpenseRow]
    BY <1>2, <2>1 DEF ExpenseEditSave, ExpenseTypes
  <2>3. Acts(w) /\ UNCHANGED Rest
    BY <1>2, RespondActs DEF ExpenseEditSave
  <2> QED BY <2>2, <2>3 DEF ExpenseTypes
<1>3. CASE ExpenseStatusSave(w)
  <2> DEFINE e == job[w].expense
             b == expenses[e].approved \/ job[w].signed
             row == [status |-> job[w].status, approved |-> b]
  <2>1. e \in Expenses /\ job[w].status \in ExpenseStatuses /\ b \in BOOLEAN
    BY <1>3 DEF ExpenseStatusSave, At, Jobs, JobShape, ExpenseShape
  <2>2. expenses' = [expenses EXCEPT ![e] = row]
    BY <1>3 DEF ExpenseStatusSave
  <2> HIDE DEF b
  <2>3. row \in ExpenseRow
    BY <2>1 DEF ExpenseRow
  <2>4. expenses' \in [Expenses -> ExpenseRow]
    BY <2>1, <2>2, <2>3 DEF ExpenseTypes
  <2>5. Acts(w) /\ UNCHANGED Rest
    BY <1>3, RespondActs DEF ExpenseStatusSave
  <2> QED BY <2>4, <2>5 DEF ExpenseTypes
<1>4. CASE DeleteExpense(w)
  <2>1. NoExpense \in ExpenseRow
    BY DEF NoExpense, ExpenseRow
  <2>2. expenses' \in [Expenses -> ExpenseRow]
    BY <1>4, <2>1 DEF DeleteExpense, ExpenseTypes
  <2>3. Acts(w) /\ UNCHANGED Rest
    BY <1>4, UnchangedActs DEF DeleteExpense
  <2> QED BY <2>2, <2>3 DEF ExpenseTypes
<1>5. CASE ExpenseEditLoad(w) \/ ExpenseStatusLoad(w) \/ ApproveExpenseLoad(w)
  BY <1>5, ExpenseLoaded DEF ExpenseTypes
<1> QED BY <1>1, <1>2, <1>3, <1>4, <1>5 DEF ExpenseStep

----
(* Types: the whole. *)

Rows == ReceivingTypes /\ BillTypes /\ ReturnTypes /\ CreditTypes /\ ExpenseTypes
Typed == Rows /\ Jobs /\ Held

LEMMA RowsTyped ==
  ASSUME Rows
  PROVE  AllTypeOK /\ BillBalanced
<1>1. bills \in [Bills -> BillRows]
  BY DEF Rows, BillTypes, Fair
<1>2. BillBalanced
  BY DEF Rows, BillTypes, Fair, BillBalanced
<1>4. billed \in [Bills -> [receipt : Receipts \union {"none"}, quantity : Nat, largest : Nat]]
  BY DEF Rows, BillTypes, ItemRow
<1>5. returns \in [Returns -> [status : ReturnStatuses \union {"ABSENT"},
                              receipt : Receipts \union {"none"}, quantity : Nat, largest : Nat]]
  BY DEF Rows, ReturnTypes, ReturnRow
<1>3. TypeOK
  BY <1>1, <1>4, <1>5 DEF TypeOK, Rows, BillTypes, ReturnTypes, CreditTypes, CreditRow
<1> QED BY <1>2, <1>3 DEF AllTypeOK, Rows, ExpenseTypes, ExpenseRow

\* What the confirmed receipts of a line have accepted.
LEMMA AcceptedIs ==
  ASSUME receipts \in [Receipts -> ReceiptRows], NEW l \in Lines
  PROVE  /\ IsFiniteSet(Confirmed(l)) /\ Confirmed(l) \subseteq Receipts
         /\ Accepted(l) \in Nat /\ Ordered[l] \in Nat
         /\ Arrived(l) = IF Ordered[l] <= Accepted(l) THEN Ordered[l] ELSE Accepted(l)
         /\ Arrived(l) \in Nat
<1> DEFINE f == [g \in Receipts |-> receipts[g].accepted]
<1>1. IsFiniteSet(Confirmed(l)) /\ Confirmed(l) \subseteq Receipts
  BY ReceivingAssumption, FS_Subset DEF Confirmed
<1>2. \A g \in Receipts : f[g] \in Nat
  BY DEF ReceiptRows
<1> HIDE DEF f
<1>3. SumFunctionOnSet(f, Confirmed(l)) \in Nat
  BY <1>1, <1>2, SumNat
<1>4. Accepted(l) \in Nat
  BY <1>3 DEF Accepted, f
<1>5. Ordered[l] \in Nat
  BY ReceivingAssumption
<1>6. Arrived(l) = IF Ordered[l] <= Accepted(l) THEN Ordered[l] ELSE Accepted(l)
  BY <1>4, <1>5, MinPair DEF Arrived
<1> QED BY <1>1, <1>4, <1>5, <1>6

LEMMA TypedInit ==
  ASSUME AllInit
  PROVE  Typed
<1>1. PICK s \in Starts : ReceivingInit(s) /\ returns = s.returns
  BY DEF AllInit, Init
<1>2. ReceivingTypes
  <2>1. clients \in {t.kinds : t \in Starts} /\ shipments \in [Shipments -> ShipmentRows \union {NoShipment}]
    BY <1>1, ShippingAssumption DEF ReceivingInit
  <2>2. receipts \in [Receipts -> ReceiptRows]
    BY <1>1, ReceivingAssumption DEF ReceivingInit
  <2>3. received \in [Lines -> Nat]
    <3>1. \A l \in Lines : Arrived(l) \in Nat
      BY <2>2, AcceptedIs
    <3> QED BY <1>1, <3>1 DEF ReceivingInit
  <2>4. stocked \in [Receipts -> Nat]
    BY <1>1, <2>2 DEF ReceivingInit, ReceiptRows
  <2>5. order \in OrderStatuses
    <3>1. PICK status \in NewOrderStatuses : order = Decided(status, received)
      BY <1>1 DEF ReceivingInit
    <3> QED BY <3>1, ReceivingAssumption, DecidedTyped
  <2> QED BY <2>1, <2>2, <2>3, <2>4, <2>5 DEF ReceivingTypes
<1>3. BillTypes
  <2>1. bills = [b \in Bills |-> NoBill] /\ billed = [b \in Bills |-> NoItem]
        /\ payments = [p \in Payments |-> Nothing]
    BY DEF AllInit, Init
  <2> QED BY <2>1, FairNoBill, NothingTyped, NoItemTyped DEF BillTypes
<1>4. ReturnTypes
  <2>1. s.returns \in [Returns -> ReturnRows \union {NoReturn}]
    BY PayablesAssumption
  <2>2. \A r \in Returns : s.returns[r] \in ReturnRow
    <3> SUFFICES ASSUME NEW r \in Returns, s.returns[r] # NoReturn PROVE s.returns[r] \in ReturnRow
      BY NoReturnTyped
    <3>1. s.returns[r] \in ReturnRows /\ s.returns[r].largest = s.returns[r].quantity
      BY <2>1, PayablesAssumption
    <3> QED BY <3>1 DEF ReturnRows, ReturnRow, Itemized
  <2>3. returns \in [Returns -> ReturnRow]
    BY <1>1, <2>1, <2>2
  <2>4. sentBack = [r \in Returns |-> returns[r].quantity]
    BY DEF AllInit, Init
  <2>5. \A r \in Returns : returns[r].quantity \in Nat
    BY <2>3, ReturnParts
  <2> QED BY <2>3, <2>4, <2>5 DEF ReturnTypes
<1>5. CreditTypes
  <2>1. credits = [c \in Credits |-> NoCredit] /\ planned = [c \in Credits |-> Nothing]
        /\ taken = [c \in Credits |-> Nothing]
    BY DEF AllInit, Init
  <2> QED BY <2>1, NoCreditTyped, NothingTyped DEF CreditTypes
<1>6. ExpenseTypes
  <2>1. NoExpense \in ExpenseRow
    BY DEF NoExpense, ExpenseRow
  <2> QED BY <2>1 DEF AllInit, ExpenseTypes
<1>7. job = [w \in Workers |-> Idle]
  BY <1>1 DEF ReceivingInit
<1>8. Jobs
  BY <1>7, IdleShape DEF Jobs
<1>9. Held
  BY <1>7 DEF Held, At, Idle
<1> QED BY <1>2, <1>3, <1>4, <1>5, <1>6, <1>8, <1>9 DEF Typed, Rows

\* No bill changes.
LEMMA UnchangedSpares ==
  ASSUME NEW w \in Workers, UNCHANGED <<bills, billed>>
  PROVE  Spares(w)
BY DEF Spares

LEMMA UnchangedRows ==
  /\ ReceivingTypes /\ UNCHANGED <<clients, goods>> => ReceivingTypes'
  /\ BillTypes /\ UNCHANGED <<bills, billed, payments>> => BillTypes'
  /\ ReturnTypes /\ UNCHANGED <<returns, sentBack>> => ReturnTypes'
  /\ CreditTypes /\ UNCHANGED <<credits, planned, taken>> => CreditTypes'
  /\ ExpenseTypes /\ UNCHANGED expenses => ExpenseTypes'
BY DEF ReceivingTypes, goods, BillTypes, ReturnTypes, CreditTypes, ExpenseTypes

LEMMA BillsTyped ==
  ASSUME Typed, NEW w \in Workers, BillStep(w), UNCHANGED expenses
  PROVE  Typed'
<1> USE DEF Typed, Rows
<1>0. ASSUME BillTypes', Jobs', Held', UNCHANGED <<clients, goods, returns, sentBack, credits, planned, taken>>
      PROVE  Typed'
  BY <1>0, UnchangedRows
<1>1. CASE BillLoad(w) \/ BillHeaderLoad(w)
  <2>1. Acts(w) /\ UNCHANGED <<clients, goods, money, returns, sentBack>>
    BY <1>1, LoadedBill
  <2>2. UNCHANGED <<bills, billed, payments, credits, planned, taken>>
    BY <2>1 DEF money
  <2>3. BillTypes' /\ Jobs' /\ Held'
    BY <2>1, <2>2, UnchangedRows, UnchangedSpares, SparedHeld, ServesJobs DEF Acts
  <2> QED BY <1>0, <2>1, <2>2, <2>3
<1>2. CASE BillSave(w)
  <2> DEFINE b == job[w].bill
  <2>1. /\ b \in Bills /\ BillFree(w, b) /\ Acts(w) /\ BillTypes'
        /\ \A x \in Bills \ {b} : bills'[x] = bills[x] /\ billed'[x] = billed[x]
    BY <1>2, SavedBill
  <2>2. Spares(w)
    BY <2>1 DEF Spares
  <2>3. UNCHANGED <<clients, goods, returns, sentBack, credits, planned, taken>>
    BY <1>2 DEF BillSave
  <2> QED BY <1>0, <2>1, <2>2, <2>3, SparedHeld, ServesJobs DEF Acts
<1>3. CASE ApproveLoad(w)
  <2>1. Serves(w) /\ UNCHANGED <<clients, goods, money, returns, sentBack>> /\ Held'
    BY <1>3, ApprovalBegun
  <2>2. UNCHANGED <<bills, billed, payments, credits, planned, taken>>
    BY <2>1 DEF money
  <2>3. BillTypes' /\ Jobs'
    BY <2>1, <2>2, UnchangedRows, ServesJobs
  <2> QED BY <1>0, <2>1, <2>2, <2>3
<1>4. CASE ApproveSave(w)
  <2> DEFINE b == job[w].bill
  <2>1. /\ b \in Bills /\ BillFree(w, b) /\ Acts(w) /\ BillTypes'
        /\ \A x \in Bills \ {b} : bills'[x] = bills[x]
    BY <1>4, ApprovedBill
  <2>2. UNCHANGED <<billed, clients, goods, returns, sentBack, credits, planned, taken>>
    BY <1>4 DEF ApproveSave
  <2>3. Spares(w)
    BY <2>1, <2>2 DEF Spares
  <2> QED BY <1>0, <2>1, <2>2, <2>3, SparedHeld, ServesJobs DEF Acts
<1>5. CASE DeleteBill(w)
  <2>1. Acts(w) /\ BillTypes'
        /\ UNCHANGED <<clients, goods, payments, credits, planned, taken, returns, sentBack>>
    BY <1>5, DeletedBill
  <2>2. PICK b \in Bills :
          /\ BillFree(w, b)
          /\ \A x \in Bills \ {b} : bills'[x] = bills[x] /\ billed'[x] = billed[x]
    BY <1>5, DeletedBill
  <2>3. Spares(w)
    BY <2>2 DEF Spares
  <2> QED BY <1>0, <2>1, <2>3, SparedHeld, ServesJobs DEF Acts
<1>6. CASE MakePayment(w)
  <2>1. Acts(w) /\ BillTypes'
        /\ \A b \in Bills : bills'[b] = bills[b] \/ BillFree(w, b)
    BY <1>6, PaidBills
  <2>2. UNCHANGED <<billed, clients, goods, returns, sentBack, credits, planned, taken>>
    BY <1>6 DEF MakePayment
  <2>3. Spares(w)
    BY <2>1, <2>2 DEF Spares
  <2> QED BY <1>0, <2>1, <2>2, <2>3, SparedHeld, ServesJobs DEF Acts
<1>7. CASE DeletePayment(w)
  <2>1. Acts(w) /\ BillTypes' /\ UNCHANGED <<bills, billed>>
    BY <1>7, PaymentDeleted
  <2>2. UNCHANGED <<clients, goods, returns, sentBack, credits, planned, taken>>
    BY <1>7 DEF DeletePayment
  <2> QED BY <1>0, <2>1, <2>2, UnchangedSpares, SparedHeld, ServesJobs DEF Acts
<1> QED BY <1>1, <1>2, <1>3, <1>4, <1>5, <1>6, <1>7 DEF BillStep

LEMMA ReturnsTyped ==
  ASSUME Typed, NEW w \in Workers, ReturnStep(w), UNCHANGED expenses
  PROVE  Typed' /\ Acts(w) /\ UNCHANGED <<clients, goods, bills, billed, payments, planned, taken>>
<1> USE DEF Typed, Rows
<1>0. ASSUME ReturnTypes', CreditTypes', Acts(w),
             UNCHANGED <<clients, goods, bills, billed, payments, planned, taken>>
      PROVE  Typed' /\ Acts(w) /\ UNCHANGED <<clients, goods, bills, billed, payments, planned, taken>>
  <2>1. Held' /\ Jobs'
    BY <1>0, UnchangedSpares, SparedHeld, ServesJobs DEF Acts
  <2> QED BY <1>0, <2>1, UnchangedRows
<1>1. CASE ReturnStatusLoad(w) \/ ReturnEditLoad(w) \/ ReturnApproveLoad(w)
  <2>1. Acts(w) /\ UNCHANGED <<clients, goods, money, returns, sentBack>>
    BY <1>1, ReturnLoaded
  <2>2. UNCHANGED <<bills, billed, payments, credits, planned, taken>>
    BY <2>1 DEF money
  <2>3. ReturnTypes' /\ CreditTypes'
    BY <2>1, <2>2, UnchangedRows
  <2> QED BY <1>0, <2>1, <2>2, <2>3
<1>2. CASE CreateReturn(w)
  <2>1. Acts(w) /\ ReturnTypes' /\ UNCHANGED <<clients, goods, money, sentBack>>
    BY <1>2, ReturnCreated
  <2>2. UNCHANGED <<bills, billed, payments, credits, planned, taken>>
    BY <2>1 DEF money
  <2> QED BY <1>0, <2>1, <2>2, UnchangedRows
<1>3. CASE ReturnSave(w)
  <2>1. Acts(w) /\ ReturnTypes' /\ UNCHANGED <<clients, goods, money, sentBack>>
    BY <1>3, SavedReturn
  <2>2. UNCHANGED <<bills, billed, payments, credits, planned, taken>>
    BY <2>1 DEF money
  <2> QED BY <1>0, <2>1, <2>2, UnchangedRows
<1>4. CASE ReturnApproveSave(w)
  <2>1. /\ Acts(w) /\ ReturnTypes' /\ CreditTypes'
        /\ UNCHANGED <<clients, goods, bills, billed, payments, planned, taken>>
    BY <1>4, ApprovedReturn
  <2> QED BY <1>0, <2>1
<1>5. CASE DeleteReturn(w)
  <2>1. /\ Acts(w) /\ ReturnTypes' /\ CreditTypes'
        /\ UNCHANGED <<clients, goods, bills, billed, payments, planned, taken>>
    BY <1>5, DeletedReturn
  <2> QED BY <1>0, <2>1
<1> QED BY <1>1, <1>2, <1>3, <1>4, <1>5 DEF ReturnStep

\* Bills that a plan changes are free.
LEMMA PlanSpares ==
  ASSUME BillTypes, NEW w \in Workers, NEW plan \in Amount, PlanFree(w, plan),
         bills' = BillsAfter(plan), UNCHANGED <<billed, payments>>
  PROVE  Spares(w)
<1>1. \A b \in Bills : bills'[b] = bills[b] \/ plan[b] > 0
  BY CreditedBills
<1> QED BY <1>1 DEF Spares, PlanFree

LEMMA CreditsTyped ==
  ASSUME Typed, NEW w \in Workers, CreditStep(w), UNCHANGED expenses
  PROVE  Typed' /\ Acts(w) /\ UNCHANGED <<clients, goods, billed, payments, sentBack>>
<1> USE DEF Typed, Rows
<1>0. ASSUME BillTypes', ReturnTypes', CreditTypes', Acts(w), Spares(w),
             UNCHANGED <<clients, goods, billed, payments, sentBack>>
      PROVE  Typed' /\ Acts(w) /\ UNCHANGED <<clients, goods, billed, payments, sentBack>>
  <2>1. Held' /\ Jobs'
    BY <1>0, SparedHeld, ServesJobs DEF Acts
  <2> QED BY <1>0, <2>1, UnchangedRows
<1>1. CASE ViewCredit(w) \/ CreateCredit(w) \/ CreditEditSave(w) \/ DeleteCredit(w) \/ VoidLocked(w)
           \/ VoidSave(w)
  <2>1. /\ Acts(w) /\ CreditTypes'
        /\ UNCHANGED <<clients, goods, bills, billed, payments, returns, sentBack>>
    BY <1>1, ViewedCredit, CreatedCredit, SavedCreditEdit, DeletedCredit, VoidedCredit, VoidedUnlocked
  <2>2. BillTypes' /\ ReturnTypes' /\ Spares(w)
    BY <2>1, UnchangedRows, UnchangedSpares
  <2> QED BY <1>0, <2>1, <2>2
<1>2. CASE CreditLoadNew(w) \/ CreditEditLoad(w) \/ CreditLoad(w)
  <2>1. Acts(w) /\ UNCHANGED <<clients, goods, money, returns, sentBack>>
    BY <1>2, LoadedNewCredit, LoadedCreditEdit, LoadedCredit
  <2>2. UNCHANGED <<bills, billed, payments, credits, planned, taken>>
    BY <2>1 DEF money
  <2>3. BillTypes' /\ ReturnTypes' /\ CreditTypes' /\ Spares(w)
    BY <2>1, <2>2, UnchangedRows, UnchangedSpares
  <2> QED BY <1>0, <2>1, <2>2, <2>3
<1>3. CASE ApproveCredit(w)
  <2>1. /\ Acts(w) /\ CreditTypes' /\ ReturnTypes'
        /\ UNCHANGED <<clients, goods, bills, billed, payments, sentBack>>
    BY <1>3, ApprovedCredit
  <2>2. BillTypes' /\ Spares(w)
    BY <2>1, UnchangedRows, UnchangedSpares
  <2> QED BY <1>0, <2>1, <2>2
<1>4. CASE OpenCredit(w)
  <2>1. /\ Acts(w) /\ CreditTypes' /\ ReturnTypes' /\ BillTypes'
        /\ UNCHANGED <<clients, goods, billed, payments, sentBack>>
    BY <1>4, OpenedCredit
  <2>2. PICK c \in Credits : /\ PlanFree(w, PlanOf(c)) /\ PlanOf(c) \in Amount
                             /\ bills' = BillsAfter(PlanOf(c))
    BY <1>4, OpenedCredit
  <2>3. Spares(w)
    BY <2>1, <2>2, PlanSpares
  <2> QED BY <1>0, <2>1, <2>3
<1>5. CASE PostSave(w)
  <2>1. /\ Acts(w) /\ CreditTypes' /\ BillTypes'
        /\ UNCHANGED <<clients, goods, billed, payments, returns, sentBack>>
        /\ job[w].plan \in Amount /\ PlanFree(w, job[w].plan) /\ bills' = BillsAfter(job[w].plan)
    BY <1>5, PostedCredit
  <2>2. Spares(w)
    BY <2>1, PlanSpares
  <2> QED BY <1>0, <2>1, <2>2, UnchangedRows
<1> QED BY <1>1, <1>2, <1>3, <1>4, <1>5 DEF CreditStep

LEMMA GoodsKept ==
  ASSUME Typed, NEW w \in Workers, Goods(w), UNCHANGED expenses
  PROVE  Typed' /\ Acts(w) /\ UNCHANGED <<money, returns, sentBack>>
<1> USE DEF Typed, Rows
<1>1. ReceivingTypes' /\ Acts(w) /\ UNCHANGED <<money, returns, sentBack>>
  BY GoodsTyped
<1>2. UNCHANGED <<bills, billed, payments, credits, planned, taken>>
  BY <1>1 DEF money
<1>3. Held' /\ Jobs'
  BY <1>1, <1>2, UnchangedSpares, SparedHeld, ServesJobs DEF Acts
<1> QED BY <1>1, <1>2, <1>3, UnchangedRows

LEMMA ExpensesKept ==
  ASSUME Typed, NEW w \in Workers, ExpenseStep(w)
  PROVE  Typed' /\ Acts(w) /\ UNCHANGED Rest
<1> USE DEF Typed, Rows
<1>1. ExpenseTypes' /\ Acts(w) /\ UNCHANGED Rest
  BY ExpenseTyped
<1>2. UNCHANGED <<clients, goods, bills, billed, payments, credits, planned, taken, returns, sentBack>>
  BY <1>1 DEF money, Rest
<1>3. Held' /\ Jobs'
  BY <1>1, <1>2, UnchangedSpares, SparedHeld, ServesJobs DEF Acts
<1> QED BY <1>1, <1>2, <1>3, UnchangedRows

\* Who acts in a step.
LEMMA StepCases ==
  ASSUME [AllNext]_allVars
  PROVE  \/ UNCHANGED allVars
         \/ \E w \in Workers : ExpenseStep(w)
         \/ UNCHANGED expenses /\ \E w \in Workers : Goods(w)
         \/ UNCHANGED expenses /\ \E w \in Workers : BillStep(w)
         \/ UNCHANGED expenses /\ \E w \in Workers : ReturnStep(w)
         \/ UNCHANGED expenses /\ \E w \in Workers : CreditStep(w)
BY DEF AllNext, Next

LEMMA TypedStep ==
  ASSUME Typed, [AllNext]_allVars
  PROVE  Typed'
<1>1. CASE UNCHANGED allVars
  <2>1. UNCHANGED <<clients, goods, job, bills, billed, payments, credits, planned, taken,
                    returns, sentBack, expenses>>
    BY <1>1 DEF allVars, vars, money
  <2>2. Jobs' /\ Held'
    BY <2>1 DEF Typed, Jobs, Held, At, BillFree
  <2> QED BY <2>1, <2>2, UnchangedRows DEF Typed, Rows
<1> QED BY <1>1, StepCases, ExpensesKept, GoodsKept, BillsTyped, ReturnsTyped, CreditsTyped

\* Every row keeps the shape of its table, and no amount becomes negative: the rows of
\* an order, its shipments, receipts, bills, payments, returns and credits, and those
\* of expenses.
THEOREM PurchaseRowsTyped == AllSpec => []AllTypeOK
<1>1. AllInit => Typed
  BY TypedInit
<1>2. Typed /\ [AllNext]_allVars => Typed'
  BY TypedStep
<1>3. Typed => AllTypeOK
  BY RowsTyped DEF Typed
<1> QED BY <1>1, <1>2, <1>3, PTL DEF AllSpec

----
(* What a worker may be doing after a step, and the clients that asked for it. *)

GoodsSteps == {"idle", "shipment_save", "order_status", "order_edit", "receipt_edit",
               "confirm", "confirmed"}
ExpenseSteps == {"idle", "expense_edit", "expense_save"}
BillSteps == {"idle", "bill_save", "bill_approve"}
ReturnSteps == {"idle", "return_save", "return_approve"}
CreditSteps == {"idle", "credit_new", "credit_save", "credit_post", "credit_void"}

Asked(j) ==
  /\ j.step = "order_edit" => "edit_order" \in clients
  /\ j.step = "receipt_edit" => "edit_receipt" \in clients
  /\ j.step = "bill_save" => j.items \/ "edit_bill" \in clients
  /\ j.step = "return_save" =>
       \/ {"edit_return", "withdraw_return"} \intersect clients # {}
       \/ ~j.items /\ ~j.whole /\ j.row.status = "PENDING_APPROVAL"
  /\ j.step = "credit_save" => "edit_credit" \in clients
  /\ j.step = "credit_post" => "post_credit" \in clients
  /\ j.step = "credit_void" => "void_credit" \in clients
  /\ j.step = "expense_edit" => "edit_expense" \in clients

LEMMA IdleAsked ==
  ASSUME NEW j, j.step = "idle"
  PROVE  Asked(j)
BY DEF Asked

LEMMA BecomesIs ==
  ASSUME Jobs, NEW w \in Workers, NEW j, Becomes(w, j)
  PROVE  job'[w] = j
BY DEF Jobs, Becomes

LEMMA ShippingAsked ==
  ASSUME Jobs, NEW w \in Workers, ShippingStep(w)
  PROVE  job'[w].step \in {"idle", "shipment_save"} /\ UNCHANGED clients
<1>1. CASE CreateShipment(w) \/ DeleteShipment(w)
  BY <1>1 DEF CreateShipment, DeleteShipment, Takes
<1>2. CASE ShipmentEditLoad(w)
  BY <1>2, BecomesIs DEF ShipmentEditLoad
<1>3. CASE ShipmentStatusLoad(w)
  BY <1>3, BecomesIs DEF ShipmentStatusLoad
<1>4. CASE ShipmentSave(w)
  BY <1>4, BecomesIs DEF ShipmentSave, Respond, Idle
<1> QED BY <1>1, <1>2, <1>3, <1>4 DEF ShippingStep

LEMMA GoodsAsked ==
  ASSUME Jobs, NEW w \in Workers, Goods(w)
  PROVE  job'[w].step \in GoodsSteps /\ Asked(job'[w]) /\ UNCHANGED clients
<1>1. CASE ShippingStep(w)
  BY <1>1, ShippingAsked DEF GoodsSteps, Asked
<1>2. CASE OrderStatusLoad(w)
  <2>1. job'[w].step = "order_status"
    BY <1>2, BecomesIs DEF OrderStatusLoad
  <2> QED BY <1>2, <2>1 DEF OrderStatusLoad, GoodsSteps, Asked
<1>3. CASE OrderEditLoad(w)
  <2>1. job'[w].step = "order_edit"
    BY <1>3, BecomesIs DEF OrderEditLoad
  <2> QED BY <1>3, <2>1 DEF OrderEditLoad, GoodsSteps, Asked, Takes
<1>4. CASE ReceiptEditLoad(w)
  <2>1. job'[w].step = "receipt_edit"
    BY <1>4, BecomesIs DEF ReceiptEditLoad
  <2> QED BY <1>4, <2>1 DEF ReceiptEditLoad, GoodsSteps, Asked, Takes
<1>5. CASE ConfirmLock(w)
  <2>1. job'[w].step = "confirm"
    <3>1. PICK g \in Receipts :
            Becomes(w, [step |-> "confirm", receipt |-> g, line |-> receipts[g].line,
                        order |-> order, received |-> received[receipts[g].line]])
      BY <1>5 DEF ConfirmLock
    <3> QED BY <3>1, BecomesIs
  <2> QED BY <1>5, <2>1 DEF ConfirmLock, GoodsSteps, Asked
<1>6. CASE ConfirmDecide(w)
  <2>1. job'[w].step = "confirmed"
    <3>1. job[w] \in [step : ConfirmSteps, receipt : Receipts, line : Lines,
                      order : OrderStatuses, received : Nat]
      BY <1>6 DEF ConfirmDecide, At, Jobs, JobShape, GoodsShape, ConfirmSteps
    <3> DEFINE o == Decided(job[w].order, [received EXCEPT ![job[w].line] = Counted(w)])
    <3>2. Becomes(w, [job[w] EXCEPT !.step = "confirmed", !.order = o])
      BY <1>6, <3>1 DEF ConfirmDecide
    <3> HIDE DEF o
    <3>3. [job[w] EXCEPT !.step = "confirmed", !.order = o].step = "confirmed"
      BY <3>1
    <3> QED BY <3>2, <3>3, BecomesIs
  <2> QED BY <1>6, <2>1 DEF ConfirmDecide, GoodsSteps, Asked
<1>7. CASE OrderStatusSave(w) \/ OrderEditSave(w) \/ ReceiptEditSave(w, Referenced)
           \/ ConfirmCommit(w) \/ Abort(w)
  <2>1. Respond(w) /\ UNCHANGED clients
    BY <1>7 DEF OrderStatusSave, OrderEditSave, ReceiptEditSave, ConfirmCommit, Abort
  <2> QED BY <2>1, BecomesIs, IdleAsked DEF Respond, Idle, GoodsSteps
<1>8. CASE CreateReceipt(w) \/ DeleteReceipt(w, Referenced)
  <2>1. job'[w] = job[w] /\ job[w].step = "idle" /\ UNCHANGED clients
    BY <1>8 DEF CreateReceipt, DeleteReceipt, Takes
  <2> QED BY <2>1, IdleAsked DEF GoodsSteps
<1> QED BY <1>1, <1>2, <1>3, <1>4, <1>5, <1>6, <1>7, <1>8 DEF Goods, ReceivingStep

LEMMA BillsAsked ==
  ASSUME Typed, NEW w \in Workers, BillStep(w)
  PROVE  job'[w].step \in BillSteps /\ Asked(job'[w]) /\ UNCHANGED clients
<1> USE DEF Typed, Rows
<1>1. CASE BillLoad(w) \/ BillHeaderLoad(w)
  <2>1. job'[w].step = "bill_save" /\ (job'[w].items \/ Takes(w, "edit_bill")) /\ UNCHANGED clients
    BY <1>1, LoadedBill
  <2> QED BY <2>1 DEF BillSteps, Asked, Takes
<1>2. CASE ApproveLoad(w)
  <2>1. job'[w].step = "bill_approve" /\ UNCHANGED clients
    BY <1>2, ApprovalBegun
  <2> QED BY <2>1 DEF BillSteps, Asked
<1>3. CASE BillSave(w) \/ ApproveSave(w)
  <2>1. Respond(w) /\ UNCHANGED clients
    BY <1>3 DEF BillSave, ApproveSave
  <2> QED BY <2>1, BecomesIs, IdleAsked DEF Respond, Idle, BillSteps
<1>4. CASE DeleteBill(w) \/ MakePayment(w) \/ DeletePayment(w)
  <2>1. job'[w] = job[w] /\ job[w].step = "idle" /\ UNCHANGED clients
    BY <1>4 DEF DeleteBill, MakePayment, DeletePayment, Takes
  <2> QED BY <2>1, IdleAsked DEF BillSteps
<1> QED BY <1>1, <1>2, <1>3, <1>4 DEF BillStep

LEMMA ReturnsAsked ==
  ASSUME Typed, NEW w \in Workers, ReturnStep(w)
  PROVE  job'[w].step \in ReturnSteps /\ Asked(job'[w]) /\ UNCHANGED clients
<1> USE DEF Typed, Rows
<1>1. CASE ReturnStatusLoad(w) \/ ReturnEditLoad(w) \/ ReturnApproveLoad(w)
  <2>1. UNCHANGED clients
        /\ \/ /\ job'[w].step = "return_save" /\ Takes(w, "edit_return")
           \/ /\ job'[w].step = "return_save" /\ ~job'[w].items /\ ~job'[w].whole
              /\ Takes(w, "withdraw_return") \/ job'[w].row.status = "PENDING_APPROVAL"
           \/ job'[w].step = "return_approve"
    BY <1>1, ReturnLoaded
  <2> QED BY <2>1 DEF ReturnSteps, Asked, Takes
<1>2. CASE ReturnSave(w) \/ ReturnApproveSave(w)
  <2>1. Respond(w) /\ UNCHANGED clients
    BY <1>2 DEF ReturnSave, ReturnApproveSave
  <2> QED BY <2>1, BecomesIs, IdleAsked DEF Respond, Idle, ReturnSteps
<1>3. CASE CreateReturn(w) \/ DeleteReturn(w)
  <2>1. job'[w] = job[w] /\ job[w].step = "idle" /\ UNCHANGED clients
    BY <1>3 DEF CreateReturn, DeleteReturn, Takes
  <2> QED BY <2>1, IdleAsked DEF ReturnSteps
<1> QED BY <1>1, <1>2, <1>3 DEF ReturnStep

LEMMA CreditsAsked ==
  ASSUME Typed, NEW w \in Workers, CreditStep(w)
  PROVE  job'[w].step \in CreditSteps /\ Asked(job'[w]) /\ UNCHANGED clients
<1> USE DEF Typed, Rows
<1>1. CASE CreditLoadNew(w)
  <2>1. job'[w].step = "credit_new" /\ UNCHANGED clients
    BY <1>1, LoadedNewCredit
  <2> QED BY <2>1 DEF CreditSteps, Asked
<1>2. CASE CreditEditLoad(w)
  <2>1. job'[w].step = "credit_save" /\ Takes(w, "edit_credit") /\ UNCHANGED clients
    BY <1>2, LoadedCreditEdit
  <2> QED BY <2>1 DEF CreditSteps, Asked, Takes
<1>3. CASE CreditLoad(w)
  <2>1. /\ UNCHANGED clients
        /\ \/ job'[w].step = "credit_post" /\ Takes(w, "post_credit")
           \/ job'[w].step = "credit_void" /\ Takes(w, "void_credit")
    BY <1>3, LoadedCredit
  <2> QED BY <2>1 DEF CreditSteps, Asked, Takes
<1>4. CASE CreateCredit(w) \/ CreditEditSave(w) \/ PostSave(w) \/ VoidSave(w)
  <2>1. Respond(w) /\ UNCHANGED clients
    BY <1>4 DEF CreateCredit, CreditEditSave, PostSave, VoidSave
  <2> QED BY <2>1, BecomesIs, IdleAsked DEF Respond, Idle, CreditSteps
<1>5. CASE ViewCredit(w) \/ DeleteCredit(w) \/ ApproveCredit(w) \/ OpenCredit(w) \/ VoidLocked(w)
  <2>1. job'[w] = job[w] /\ job[w].step = "idle" /\ UNCHANGED clients
    BY <1>5 DEF ViewCredit, DeleteCredit, ApproveCredit, OpenCredit, VoidLocked, Takes
  <2> QED BY <2>1, IdleAsked DEF CreditSteps
<1> QED BY <1>1, <1>2, <1>3, <1>4, <1>5 DEF CreditStep

LEMMA ExpensesAsked ==
  ASSUME Typed, NEW w \in Workers, ExpenseStep(w)
  PROVE  job'[w].step \in ExpenseSteps /\ Asked(job'[w]) /\ UNCHANGED clients
<1> USE DEF Typed, Rows
<1>1. CASE ExpenseEditLoad(w) \/ ExpenseStatusLoad(w) \/ ApproveExpenseLoad(w)
  <2>1. /\ UNCHANGED clients
        /\ \/ job'[w].step = "expense_edit" /\ Takes(w, "edit_expense")
           \/ job'[w].step = "expense_save"
    BY <1>1, ExpenseLoaded DEF Rest
  <2> QED BY <2>1 DEF ExpenseSteps, Asked, Takes
<1>2. CASE ExpenseEditSave(w) \/ ExpenseStatusSave(w)
  <2>1. Respond(w) /\ UNCHANGED clients
    BY <1>2 DEF ExpenseEditSave, ExpenseStatusSave, Rest
  <2> QED BY <2>1, BecomesIs, IdleAsked DEF Respond, Idle, ExpenseSteps
<1>3. CASE CreateExpense(w) \/ DeleteExpense(w)
  <2>1. job'[w] = job[w] /\ job[w].step = "idle" /\ UNCHANGED clients
    BY <1>3 DEF CreateExpense, DeleteExpense, Takes, Rest
  <2> QED BY <2>1, IdleAsked DEF ExpenseSteps
<1> QED BY <1>1, <1>2, <1>3 DEF ExpenseStep

\* A step of w that may leave it with one of these steps.
Moves(w, steps) ==
  /\ job'[w].step \in steps
  /\ \A v \in Others(w) : job'[v] = job[v]
  /\ UNCHANGED clients

AllAsked == \A w \in Workers : Asked(job[w])

LEMMA AskedKept ==
  ASSUME AllAsked, NEW w \in Workers, Asked(job'[w]), UNCHANGED clients,
         \A v \in Others(w) : job'[v] = job[v]
  PROVE  AllAsked'
BY DEF AllAsked, Asked, Others

LEMMA EveryStep ==
  ASSUME Typed, NEW w \in Workers
  PROVE  /\ Goods(w) => Moves(w, GoodsSteps) /\ Asked(job'[w])
         /\ BillStep(w) => Moves(w, BillSteps) /\ Asked(job'[w])
         /\ ReturnStep(w) => Moves(w, ReturnSteps) /\ Asked(job'[w])
         /\ CreditStep(w) => Moves(w, CreditSteps) /\ Asked(job'[w])
         /\ ExpenseStep(w) => Moves(w, ExpenseSteps) /\ Asked(job'[w])
<1> USE DEF Typed, Rows
<1>1. ASSUME Goods(w) PROVE Moves(w, GoodsSteps) /\ Asked(job'[w])
  BY <1>1, GoodsAsked, GoodsTyped DEF Moves, Acts, Serves
<1>2. ASSUME ExpenseStep(w) PROVE Moves(w, ExpenseSteps) /\ Asked(job'[w])
  BY <1>2, ExpensesAsked, ExpenseTyped DEF Moves, Acts, Serves
<1>3. ASSUME BillStep(w) PROVE Moves(w, BillSteps) /\ Asked(job'[w])
  <2>1. Serves(w)
    BY <1>3, LoadedBill, SavedBill, ApprovalBegun, ApprovedBill, DeletedBill, PaidBills,
       PaymentDeleted DEF BillStep, Acts
  <2> QED BY <1>3, <2>1, BillsAsked DEF Moves, Serves
<1>4. ASSUME ReturnStep(w) PROVE Moves(w, ReturnSteps) /\ Asked(job'[w])
  <2>1. Serves(w)
    BY <1>4, ReturnLoaded, ReturnCreated, SavedReturn, ApprovedReturn, DeletedReturn
       DEF ReturnStep, Acts
  <2> QED BY <1>4, <2>1, ReturnsAsked DEF Moves, Serves
<1>5. ASSUME CreditStep(w) PROVE Moves(w, CreditSteps) /\ Asked(job'[w])
  <2>1. Serves(w)
    BY <1>5, ViewedCredit, LoadedNewCredit, LoadedCreditEdit, LoadedCredit, CreatedCredit,
       SavedCreditEdit, DeletedCredit, ApprovedCredit, VoidedCredit, OpenedCredit, PostedCredit,
       VoidedUnlocked DEF CreditStep, Acts
  <2> QED BY <1>5, <2>1, CreditsAsked DEF Moves, Serves
<1> QED BY <1>1, <1>2, <1>3, <1>4, <1>5

Served == Typed /\ AllAsked

LEMMA ServedInit ==
  ASSUME AllInit
  PROVE  Served
<1>1. job = [w \in Workers |-> Idle]
  BY DEF AllInit, Init, ReceivingInit
<1>2. AllAsked
  BY <1>1, IdleAsked DEF AllAsked, Idle
<1> QED BY <1>2, TypedInit DEF Served

LEMMA ServedStep ==
  ASSUME Served, [AllNext]_allVars
  PROVE  Served'
<1>1. Typed'
  BY TypedStep DEF Served
<1>2. CASE UNCHANGED allVars
  BY <1>1, <1>2 DEF Served, allVars, vars, AllAsked, Asked
<1>3. CASE \E w \in Workers : Goods(w) \/ BillStep(w) \/ ReturnStep(w) \/ CreditStep(w) \/ ExpenseStep(w)
  <2>1. PICK w \in Workers : Goods(w) \/ BillStep(w) \/ ReturnStep(w) \/ CreditStep(w) \/ ExpenseStep(w)
    BY <1>3
  <2>2. Asked(job'[w]) /\ UNCHANGED clients /\ \A v \in Others(w) : job'[v] = job[v]
    BY <2>1, EveryStep DEF Moves, Served
  <2> QED BY <1>1, <2>2, AskedKept DEF Served
<1> QED BY <1>2, <1>3, StepCases

----
(* Who answers for an expense that is paid. *)

\* Whoever is about to pay an expense signs for it, unless it is approved; so it
\* remains until the payment is saved, or the expense has gone.
Answered ==
  /\ \A e \in Expenses : expenses[e].status = "PAID" => expenses[e].approved
  /\ \A w \in Workers : At(w, "expense_save") /\ job[w].status = "PAID" =>
       job[w].signed \/ ~Spent(job[w].expense) \/ expenses[job[w].expense].approved

SomebodyAnswers ==
  "edit_expense" \notin clients /\ "PAID" \notin NewExpenseStatuses => Answered

LEMMA AnsweredElsewhere ==
  ASSUME Answered, NEW w \in Workers, NEW steps, "expense_save" \notin steps,
         Moves(w, steps), UNCHANGED expenses
  PROVE  Answered'
BY DEF Answered, Moves, Others, At, Spent

LEMMA AnsweredKept ==
  ASSUME Served, Answered, "edit_expense" \notin clients, "PAID" \notin NewExpenseStatuses,
         NEW w \in Workers, ExpenseStep(w)
  PROVE  Answered'
<1> USE DEF Served, Typed, Rows
<1>0. Moves(w, ExpenseSteps)
  BY EveryStep
<1>1. CASE ExpenseEditLoad(w) \/ ExpenseStatusLoad(w) \/ ApproveExpenseLoad(w)
  <2>1. UNCHANGED expenses
        /\ (job'[w].step = "expense_save" /\ job'[w].status = "PAID" =>
              job'[w].signed \/ expenses[job'[w].expense].approved)
    BY <1>1, ExpenseLoaded
  <2> QED BY <1>0, <2>1 DEF Answered, Moves, Others, At, Spent
<1>2. CASE ExpenseEditSave(w)
  BY <1>2 DEF ExpenseEditSave, At, AllAsked, Asked
<1>3. CASE CreateExpense(w)
  <2>1. PICK e \in Expenses, s \in NewExpenseStatuses :
          /\ NewExpense(e)
          /\ expenses' = [expenses EXCEPT ![e] = [NoExpense EXCEPT !.status = s]]
    BY <1>3 DEF CreateExpense
  <2>2. /\ expenses'[e].status # "PAID"
        /\ \A x \in Expenses \ {e} : expenses'[x] = expenses[x]
    BY <2>1, NoExpenseTyped DEF ExpenseTypes
  <2>3. UNCHANGED job
    BY <1>3 DEF CreateExpense
  <2>4. ASSUME NEW v \in Workers, At(v, "expense_save")
        PROVE  job[v].expense \in Expenses \ {e}
    BY <2>1, <2>4 DEF NewExpense, At, Jobs, JobShape, ExpenseShape
  <2> QED BY <2>2, <2>3, <2>4 DEF Answered, At, Spent
<1>4. CASE ExpenseStatusSave(w)
  <2> DEFINE e == job[w].expense
  <2>1. e \in Expenses /\ Spent(e)
    BY <1>4 DEF ExpenseStatusSave, At, Jobs, JobShape, ExpenseShape
  <2>2. /\ expenses'[e].status = job[w].status
        /\ expenses'[e].approved <=> (expenses[e].approved \/ job[w].signed)
        /\ \A x \in Expenses \ {e} : expenses'[x] = expenses[x]
    BY <1>4, <2>1 DEF ExpenseStatusSave, ExpenseTypes
  <2>3. job'[w].step = "idle"
    BY <1>4, RespondActs DEF ExpenseStatusSave, Idle
  <2>4. \A x \in Expenses : expenses'[x].status = "PAID" => expenses'[x].approved
    BY <1>4, <2>1, <2>2 DEF Answered, ExpenseStatusSave
  <2>5. ASSUME NEW v \in Workers, At(v, "expense_save")', job'[v].status = "PAID"
        PROVE  job'[v].signed \/ ~Spent(job[v].expense)' \/ expenses'[job'[v].expense].approved
    <3>1. v # w /\ job'[v] = job[v]
      BY <1>0, <2>3, <2>5 DEF Moves, Others, At
    <3>2. /\ job[v].expense \in Expenses
          /\ job[v].signed \/ ~Spent(job[v].expense) \/ expenses[job[v].expense].approved
      BY <2>5, <3>1 DEF Answered, At, Jobs, JobShape, ExpenseShape
    <3>3. CASE job[v].expense = e
      <4>1. job'[v].expense = e
        BY <3>1, <3>3
      <4>2. CASE job[v].signed
        BY <3>1, <4>2
      <4>4. job[v].signed \/ expenses[e].approved
        BY <2>1, <3>2, <3>3
      <4>3. CASE expenses[e].approved
        BY <2>2, <4>1, <4>3
      <4> QED BY <4>2, <4>3, <4>4
    <3>4. CASE job[v].expense # e
      <4>1. job'[v].expense = job[v].expense /\ expenses'[job[v].expense] = expenses[job[v].expense]
        BY <2>2, <3>1, <3>2, <3>4
      <4> QED BY <3>1, <3>2, <4>1 DEF Spent
    <3> QED BY <3>3, <3>4
  <2> QED BY <2>4, <2>5 DEF Answered
<1>5. CASE DeleteExpense(w)
  <2>1. PICK e \in Expenses : expenses' = [expenses EXCEPT ![e] = NoExpense]
    BY <1>5 DEF DeleteExpense
  <2>2. /\ expenses'[e].status = "ABSENT"
        /\ \A x \in Expenses \ {e} : expenses'[x] = expenses[x]
    BY <2>1 DEF ExpenseTypes, NoExpense
  <2>3. UNCHANGED job
    BY <1>5 DEF DeleteExpense
  <2>4. \A v \in Workers : At(v, "expense_save") => job[v].expense \in Expenses
    BY DEF At, Jobs, JobShape, ExpenseShape
  <2> QED BY <2>2, <2>3, <2>4 DEF Answered, At, Spent
<1> QED BY <1>1, <1>2, <1>3, <1>4, <1>5 DEF ExpenseStep

LEMMA AnswersKept ==
  ASSUME Served, SomebodyAnswers, [AllNext]_allVars
  PROVE  SomebodyAnswers'
<1>1. CASE UNCHANGED allVars
  BY <1>1 DEF SomebodyAnswers, Answered, allVars, vars, At, Spent
<1>2. ASSUME NEW w \in Workers, UNCHANGED expenses,
             Goods(w) \/ BillStep(w) \/ ReturnStep(w) \/ CreditStep(w)
      PROVE  SomebodyAnswers'
  <2>1. PICK steps : "expense_save" \notin steps /\ Moves(w, steps)
    BY <1>2, EveryStep DEF Served, GoodsSteps, BillSteps, ReturnSteps, CreditSteps
  <2>2. UNCHANGED clients
    BY <2>1 DEF Moves
  <2> QED BY <1>2, <2>1, <2>2, AnsweredElsewhere DEF SomebodyAnswers
<1>3. ASSUME NEW w \in Workers, ExpenseStep(w)
      PROVE  SomebodyAnswers'
  <2>1. UNCHANGED clients
    BY <1>3, ExpensesAsked DEF Served
  <2> QED BY <1>3, <2>1, AnsweredKept DEF SomebodyAnswers
<1> QED BY <1>1, <1>2, <1>3, StepCases

\* An expense that is paid has been approved by somebody, unless clients edit expenses or
\* create them paid: whoever pays one that nobody had approved when it was read signs for
\* it, and an approval that others saved meanwhile stays.
THEOREM PaidExpensesApproved == AllSpec => []PaidApproved
<1>1. AllInit => Served /\ SomebodyAnswers
  <2>1. AllInit => Answered
    BY DEF AllInit, Init, ReceivingInit, Answered, At, Idle, NoExpense
  <2> QED BY <2>1, ServedInit DEF SomebodyAnswers
<1>2. Served /\ SomebodyAnswers /\ [AllNext]_allVars => (Served /\ SomebodyAnswers)'
  BY ServedStep, AnswersKept
<1>3. SomebodyAnswers => PaidApproved
  BY DEF SomebodyAnswers, Answered, PaidApproved, Without
<1> QED BY <1>1, <1>2, <1>3, PTL DEF AllSpec


----
(* What the bills of a receipt come to. *)

\* What is left of some terms is at most all of them.
LEMMA SumShrinks ==
  ASSUME NEW f, NEW h, NEW A, IsFiniteSet(A), \A x \in A : f[x] \in Nat,
         NEW B, B \subseteq A, \A x \in B : h[x] = f[x]
  PROVE  IsFiniteSet(B) /\ SumFunctionOnSet(h, B) <= SumFunctionOnSet(f, A)
<1>1. IsFiniteSet(B) /\ IsFiniteSet(A \ B)
  BY FS_Subset
<1>2. SumFunctionOnSet(h, B) = SumFunctionOnSet(f, B)
  BY <1>1, SumSame
<1>3. SumFunctionOnSet(f, B) \in Nat /\ SumFunctionOnSet(f, A \ B) \in Nat
  BY <1>1, SumNat
<1>4. B \intersect (A \ B) = {} /\ B \union (A \ B) = A
  OBVIOUS
<1>5. \A x \in B \union (A \ B) : f[x] \in Int
  BY <1>4
<1>6. SumFunctionOnSet(f, B \union (A \ B)) = SumFunctionOnSet(f, B) + SumFunctionOnSet(f, A \ B)
  BY <1>1, <1>4, <1>5, SumUnion
<1>7. SumFunctionOnSet(f, A) = SumFunctionOnSet(f, B) + SumFunctionOnSet(f, A \ B)
  BY <1>4, <1>6
<1> QED BY <1>1, <1>2, <1>3, <1>7

\* A step of the order and its receipts keeps what the receipts that bills and
\* returns refer to let them claim, and never deletes one.
LEMMA ReceiptsKept ==
  ASSUME Typed, NEW w \in Workers, Goods(w), NEW g \in Receipts
  PROVE  \/ g \notin Referenced
         \/ ~Present(g)
         \/ Billable(g)' = Billable(g) /\ Present(g)'
<1> USE DEF Typed, Rows, ReceivingTypes
<1>0. ASSUME receipts'[g] = receipts[g]
      PROVE  Present(g) => Billable(g)' = Billable(g) /\ Present(g)'
  BY <1>0 DEF Billable, Present
<1>1. CASE UNCHANGED receipts
  BY <1>1, <1>0
<1>2. CASE CreateReceipt(w)
  <2>1. PICK h \in Receipts, row \in ValidRows :
          ~Present(h) /\ receipts' = [receipts EXCEPT ![h] = row]
    BY <1>2 DEF CreateReceipt
  <2>2. h # g => receipts'[g] = receipts[g]
    BY <2>1
  <2> QED BY <2>1, <2>2, <1>0
<1>3. CASE ReceiptEditSave(w, Referenced)
  <2> DEFINE h == job[w].receipt
             kept == [receipts[h] EXCEPT !.state = "DRAFT"]
  <2>1. h \in Receipts
    BY <1>3 DEF ReceiptEditSave, At, Jobs, JobShape, GoodsShape
  <2>2. /\ job[w].item => h \notin Referenced
        /\ receipts' = [receipts EXCEPT ![h] = IF job[w].item THEN job[w].row ELSE kept]
    BY <1>3 DEF ReceiptEditSave
  <2>3. CASE h # g
    <3>1. receipts'[g] = receipts[g]
      BY <2>2, <2>3
    <3> QED BY <3>1, <1>0
  <2>4. CASE h = g /\ ~job[w].item
    <3>1. receipts'[g] = kept
      BY <2>2, <2>4
    <3>2. kept.state = "DRAFT" /\ kept.accepted = receipts[g].accepted
          /\ kept.received = receipts[g].received
      BY <2>1, <2>4 DEF ReceiptRows
    <3> HIDE DEF kept
    <3> QED BY <3>1, <3>2 DEF Billable, BillableOf, Present
  <2> QED BY <2>2, <2>3, <2>4
<1>4. CASE DeleteReceipt(w, Referenced)
  <2>1. PICK h \in Receipts \ Referenced : receipts' = [receipts EXCEPT ![h] = NoReceipt]
    BY <1>4 DEF DeleteReceipt
  <2>2. h # g => receipts'[g] = receipts[g]
    BY <2>1
  <2> QED BY <2>1, <2>2, <1>0
<1>5. CASE ConfirmCommit(w)
  <2> DEFINE h == job[w].receipt
             kept == [receipts[h] EXCEPT !.state = "CONFIRMED"]
  <2>1. h \in Receipts
    BY <1>5 DEF ConfirmCommit, At, Jobs, JobShape, GoodsShape, ConfirmSteps
  <2>2. receipts' = [receipts EXCEPT ![h] = kept]
    BY <1>5 DEF ConfirmCommit
  <2>3. CASE h # g
    <3>1. receipts'[g] = receipts[g]
      BY <2>2, <2>3
    <3> QED BY <3>1, <1>0
  <2>4. CASE h = g
    <3>1. receipts'[g] = kept
      BY <2>2, <2>4
    <3>2. kept.state = "CONFIRMED" /\ kept.accepted = receipts[g].accepted
          /\ kept.received = receipts[g].received
      BY <2>1, <2>4 DEF ReceiptRows
    <3> HIDE DEF kept
    <3> QED BY <3>1, <3>2 DEF Billable, BillableOf, Present
  <2> QED BY <2>3, <2>4
<1>6. ReceivingStep(w, Referenced)
  BY DEF Goods
<1>7. \/ UNCHANGED receipts \/ CreateReceipt(w) \/ ReceiptEditSave(w, Referenced)
      \/ DeleteReceipt(w, Referenced) \/ ConfirmCommit(w)
  BY <1>6 DEF ReceivingStep, OrderStatusLoad, OrderStatusSave, OrderEditLoad, OrderEditSave,
     ReceiptEditLoad, ConfirmLock, ConfirmDecide, Abort, goods
<1> QED BY <1>1, <1>2, <1>3, <1>4, <1>5, <1>7

\* A bill claims goods of its receipt when it is approved or being approved.
InBill(b) == bills[b].approved \/ \E w \in Workers : At(w, "bill_approve") /\ job[w].bill = b
InBills(g) == {b \in Bills : InBill(b) /\ billed[b].receipt = g}
Quantities == [b \in Bills |-> billed[b].largest]

\* The receipts of items are there, and the bills that claim goods have items, which
\* the receipt has goods for.
BillsFitting ==
  /\ \A b \in Bills : billed[b].quantity > 0 =>
       billed[b].receipt \in Receipts /\ Present(billed[b].receipt)
  /\ \A b \in Bills : InBill(b) => billed[b].quantity > 0
  /\ \A g \in Receipts : SumFunctionOnSet(Quantities, InBills(g)) <= Billable(g)

LEMMA BillableTyped ==
  ASSUME ReceivingTypes, NEW g \in Receipts
  PROVE  Billable(g) \in Nat
BY DEF ReceivingTypes, Billable, BillableOf, ReceiptRows

LEMMA QuantitiesTyped ==
  ASSUME BillTypes
  PROVE  /\ IsFiniteSet(Bills)
         /\ \A b \in Bills : Quantities[b] = billed[b].largest /\ Quantities[b] \in Nat
         /\ \A g : IsFiniteSet(InBills(g)) /\ InBills(g) \subseteq Bills
<1>1. IsFiniteSet(Bills)
  BY PayablesAssumption
<1>2. \A g : InBills(g) \subseteq Bills
  BY DEF InBills
<1>3. \A g : IsFiniteSet(InBills(g))
  BY <1>1, <1>2, FS_Subset
<1> QED BY <1>1, <1>2, <1>3, ItemParts DEF Quantities, BillTypes, Itemized

\* A step that makes no other bill claim goods, nor others goods, nor takes away the
\* goods of a receipt that a bill refers to.
LEMMA FittingKept ==
  ASSUME Typed, Typed', BillsFitting,
         \A b \in Bills : InBill(b)' => InBill(b) /\ billed'[b] = billed[b],
         \A b \in Bills : billed'[b].quantity > 0 =>
           billed'[b].receipt \in Receipts /\ Present(billed[b].receipt)',
         \A g \in Receipts : \/ Billable(g)' = Billable(g)
                             \/ \A b \in Bills : billed[b].quantity > 0 => billed[b].receipt # g
  PROVE  BillsFitting'
<1> USE DEF Typed, Rows
<1>1. ASSUME NEW b \in Bills, InBill(b)'
      PROVE  billed'[b].quantity > 0
  BY <1>1 DEF BillsFitting
<1>2. ASSUME NEW g \in Receipts
      PROVE  SumFunctionOnSet(Quantities', InBills(g)') <= Billable(g)'
  <2>1. /\ IsFiniteSet(InBills(g)) /\ IsFiniteSet(InBills(g)')
        /\ InBills(g)' \subseteq InBills(g)
    <3>1. IsFiniteSet(InBills(g))
      BY QuantitiesTyped
    <3>2. InBills(g)' \subseteq InBills(g)
      BY DEF InBills
    <3> QED BY <3>1, <3>2, FS_Subset
  <2>2. \A x \in InBills(g)' : Quantities'[x] = Quantities[x]
    BY DEF InBills, Quantities
  <2>3. \A x \in InBills(g) : Quantities[x] \in Nat
    BY QuantitiesTyped
  <2>4. SumFunctionOnSet(Quantities', InBills(g)') <= SumFunctionOnSet(Quantities, InBills(g))
    BY <2>1, <2>2, <2>3, SumShrinks
  <2>5. CASE Billable(g)' = Billable(g)
    <3>1. SumFunctionOnSet(Quantities, InBills(g)) \in Nat
      BY <2>1, <2>3, SumNat
    <3>2. \A x \in InBills(g)' : Quantities'[x] \in Nat
      BY <2>1, <2>2, <2>3
    <3>3. SumFunctionOnSet(Quantities', InBills(g)') \in Nat
      BY <2>1, <3>2, SumNat
    <3>4. Billable(g) \in Nat
      BY BillableTyped
    <3>5. SumFunctionOnSet(Quantities, InBills(g)) <= Billable(g)
      BY DEF BillsFitting
    <3> QED BY <2>4, <2>5, <3>1, <3>3, <3>4, <3>5
  <2>6. CASE \A b \in Bills : billed[b].quantity > 0 => billed[b].receipt # g
    <3>1. InBills(g) = {}
      BY <2>6 DEF InBills, BillsFitting
    <3>2. InBills(g)' = {}
      BY <2>1, <3>1
    <3>3. SumFunctionOnSet(Quantities', InBills(g)') = 0
      BY <3>2, SumEmpty
    <3>4. Billable(g)' \in Nat
      BY DEF ReceivingTypes, Billable, BillableOf, ReceiptRows
    <3> QED BY <3>3, <3>4
  <2> QED BY <2>5, <2>6
<1> QED BY <1>1, <1>2 DEF BillsFitting

\* A step that approves no bill and begins no approval lets no other bill claim goods.
LEMMA ClaimsKept ==
  ASSUME NEW w \in Workers, NEW steps, "bill_approve" \notin steps, Moves(w, steps),
         NEW b \in Bills, bills'[b].approved => bills[b].approved, InBill(b)'
  PROVE  InBill(b)
<1>1. CASE bills'[b].approved
  BY <1>1 DEF InBill
<1>2. CASE \E v \in Workers : At(v, "bill_approve")' /\ job'[v].bill = b
  <2>1. PICK v \in Workers : At(v, "bill_approve")' /\ job'[v].bill = b
    BY <1>2
  <2>2. v \in Others(w)
    BY <2>1 DEF Moves, At, Others
  <2>3. job'[v] = job[v]
    BY <2>2 DEF Moves
  <2> QED BY <2>1, <2>3 DEF InBill, At
<1> QED BY <1>1, <1>2 DEF InBill

\* A step that changes no bill's item or approval.
LEMMA FittingElsewhere ==
  ASSUME Typed, Typed', BillsFitting, NEW w \in Workers, NEW steps, "bill_approve" \notin steps,
         Moves(w, steps), UNCHANGED <<billed, receipts>>,
         \A b \in Bills : bills'[b].approved => bills[b].approved
  PROVE  BillsFitting'
<1>1. \A b \in Bills : InBill(b)' => InBill(b) /\ billed'[b] = billed[b]
  BY ClaimsKept
<1>2. \A b \in Bills : billed'[b].quantity > 0 =>
        billed'[b].receipt \in Receipts /\ Present(billed[b].receipt)'
  BY DEF BillsFitting, Present
<1>3. \A g \in Receipts : Billable(g)' = Billable(g)
  BY DEF Billable
<1> QED BY <1>1, <1>2, <1>3, FittingKept

LEMMA FittingGoods ==
  ASSUME Typed, Typed', BillsFitting, NEW w \in Workers, Goods(w)
  PROVE  BillsFitting'
<1>1. Moves(w, GoodsSteps) /\ "bill_approve" \notin GoodsSteps
  BY EveryStep DEF GoodsSteps
<1>2. UNCHANGED <<bills, billed>>
  BY DEF Goods, money
<1>3. \A b \in Bills : InBill(b)' => InBill(b) /\ billed'[b] = billed[b]
  BY <1>1, <1>2, ClaimsKept
<1>4. ASSUME NEW b \in Bills, billed[b].quantity > 0
      PROVE  /\ billed[b].receipt \in Receipts /\ billed[b].receipt \in Referenced
             /\ Present(billed[b].receipt)
  BY <1>4 DEF Referenced, BillsFitting
<1>5. \A b \in Bills : billed'[b].quantity > 0 =>
        billed'[b].receipt \in Receipts /\ Present(billed[b].receipt)'
  <2> SUFFICES ASSUME NEW b \in Bills, billed'[b].quantity > 0
               PROVE  billed'[b].receipt \in Receipts /\ Present(billed[b].receipt)'
    OBVIOUS
  <2> DEFINE g == billed[b].receipt
  <2>1. g \in Receipts /\ g \in Referenced /\ Present(g)
    BY <1>2, <1>4
  <2>2. billed'[b].receipt = g
    BY <1>2
  <2> HIDE DEF g
  <2>3. Present(g) /\ receipts'[g].state # "ABSENT"
    BY <2>1, ReceiptsKept DEF Present
  <2>4. Present(billed[b].receipt)'
    BY <2>2, <2>3 DEF Present
  <2> QED BY <2>1, <2>2, <2>4
<1>6. ASSUME NEW g \in Receipts
      PROVE  \/ Billable(g)' = Billable(g)
             \/ \A b \in Bills : billed[b].quantity > 0 => billed[b].receipt # g
  BY <1>4, ReceiptsKept
<1> QED BY <1>3, <1>5, <1>6, FittingKept

\* Saving and deleting a bill end its claim.
LEMMA FittingSave ==
  ASSUME Typed, Typed', BillsFitting, NEW w \in Workers, BillSave(w), NEW b, b = job[w].bill
  PROVE  BillsFitting'
<1> USE DEF Typed, Rows
<1>1. /\ b \in Bills /\ BillFree(w, b) /\ job'[w] = Idle /\ ~bills'[b].approved
      /\ IF job[w].items
         THEN /\ Present(job[w].receipt)
              /\ billed'[b] = [receipt |-> job[w].receipt, quantity |-> job[w].quantity,
                              largest |-> job[w].largest]
         ELSE billed'[b] = billed[b]
      /\ \A x \in Bills \ {b} : bills'[x] = bills[x] /\ billed'[x] = billed[x]
  BY SavedBill
<1>2. job[w].receipt \in Receipts
  BY DEF BillSave, At, Jobs, JobShape, BillShape
<1>3. Moves(w, {"idle"}) /\ "bill_approve" \notin {"idle"}
  BY <1>1, EveryStep DEF Moves, BillStep, Idle
<1>4. UNCHANGED receipts
  BY DEF BillSave, goods
<1>5. ~InBill(b)'
  <2> SUFFICES ASSUME NEW v \in Workers, At(v, "bill_approve")', job'[v].bill = b
               PROVE  FALSE
    BY <1>1 DEF InBill
  <2>1. v \in Others(w)
    BY <1>1 DEF At, Idle, Others
  <2>2. job'[v] = job[v]
    BY <1>3, <2>1 DEF Moves
  <2>3. job[v].step = "bill_approve" /\ job[v].bill = b
    BY <2>2 DEF At
  <2> QED BY <1>1, <2>1, <2>3 DEF BillFree, At
<1>6. ASSUME NEW x \in Bills, InBill(x)'
      PROVE  InBill(x) /\ billed'[x] = billed[x]
  <2>1. x \in Bills \ {b}
    BY <1>5, <1>6
  <2>2. bills'[x].approved => bills[x].approved
    BY <1>1, <2>1
  <2> QED BY <1>1, <1>3, <1>6, <2>1, <2>2, ClaimsKept
<1>7. ASSUME NEW x \in Bills, billed'[x].quantity > 0
      PROVE  billed'[x].receipt \in Receipts /\ Present(billed[x].receipt)'
  <2>1. CASE billed'[x] = billed[x]
    <3>1. billed[x].receipt \in Receipts /\ Present(billed[x].receipt)
      BY <1>7, <2>1 DEF BillsFitting
    <3> QED BY <1>4, <2>1, <3>1 DEF Present
  <2>2. CASE x = b /\ job[w].items
    <3>1. billed'[x].receipt = job[w].receipt
      BY <1>1, <2>2
    <3>2. receipts'[job[w].receipt].state # "ABSENT"
      BY <1>1, <1>4, <2>2 DEF Present
    <3> QED BY <1>2, <3>1, <3>2 DEF Present
  <2>3. billed'[x] = billed[x] \/ (x = b /\ job[w].items)
    BY <1>1
  <2> QED BY <2>1, <2>2, <2>3
<1>8. \A g \in Receipts : Billable(g)' = Billable(g)
  BY <1>4 DEF Billable
<1> QED BY <1>6, <1>7, <1>8, FittingKept

LEMMA FittingDelete ==
  ASSUME Typed, Typed', BillsFitting, NEW w \in Workers, DeleteBill(w)
  PROVE  BillsFitting'
<1> USE DEF Typed, Rows
<1>1. Acts(w) /\ UNCHANGED <<job, clients, goods>>
  BY DeletedBill
<1>2. PICK b \in Bills :
        /\ bills'[b] = NoBill /\ billed'[b] = NoItem /\ BillFree(w, b)
        /\ \A x \in Bills \ {b} : bills'[x] = bills[x] /\ billed'[x] = billed[x]
  BY DeletedBill
<1>3. UNCHANGED receipts
  BY <1>1 DEF goods
<1>4. ~InBill(b)'
  <2>1. job[w].step = "idle"
    BY DEF DeleteBill, Takes
  <2>2. \A v \in Workers : ~(At(v, "bill_approve")' /\ job'[v].bill = b)
    BY <1>1, <1>2, <2>1 DEF At, BillFree, Others
  <2> QED BY <1>2, <2>2, FairNoBill DEF InBill
<1>5. ASSUME NEW x \in Bills, InBill(x)'
      PROVE  InBill(x) /\ billed'[x] = billed[x]
  <2>1. x # b
    BY <1>4, <1>5
  <2> QED BY <1>1, <1>2, <1>5, <2>1 DEF InBill, At
<1>6. ASSUME NEW x \in Bills, billed'[x].quantity > 0
      PROVE  billed'[x].receipt \in Receipts /\ Present(billed[x].receipt)'
  <2>1. x # b
    BY <1>2, <1>6 DEF NoItem
  <2>2. billed'[x] = billed[x]
    BY <1>2, <2>1
  <2> QED BY <1>3, <1>6, <2>2 DEF BillsFitting, Present
<1>7. \A g \in Receipts : Billable(g)' = Billable(g)
  BY <1>3 DEF Billable
<1> QED BY <1>5, <1>6, <1>7, FittingKept

\* An approval that begins counts its bill on top of all others.
LEMMA FittingApproval ==
  ASSUME Typed, Typed', BillsFitting, NEW w \in Workers, ApproveLoad(w)
  PROVE  BillsFitting'
<1> USE DEF Typed, Rows
<1>1. UNCHANGED <<bills, billed, receipts>>
  BY ApprovalBegun DEF goods, money
<1>2. PICK b : b = job'[w].bill
  OBVIOUS
<1>3. b \in Bills /\ Approvable(b) /\ Moves(w, BillSteps)
  BY <1>2, ApprovalBegun, EveryStep DEF BillStep
<1>9. PICK g : g = billed[b].receipt
  OBVIOUS
<1>4. g \in Receipts /\ billed[b].quantity > 0
  BY <1>3, <1>9 DEF Approvable, BillsFitting
<1>5. ASSUME NEW x \in Bills, InBill(x)'
      PROVE  InBill(x) \/ x = b
  <2>1. CASE bills'[x].approved
    BY <1>1, <2>1 DEF InBill
  <2>2. CASE \E v \in Workers : At(v, "bill_approve")' /\ job'[v].bill = x
    <3>1. PICK v \in Workers : At(v, "bill_approve")' /\ job'[v].bill = x
      BY <2>2
    <3>2. v # w => job'[v] = job[v]
      BY <1>3 DEF Moves, Others
    <3> QED BY <1>2, <3>1, <3>2 DEF InBill, At
  <2> QED BY <1>5, <2>1, <2>2 DEF InBill
<1>6. ASSUME NEW h \in Receipts
      PROVE  SumFunctionOnSet(Quantities', InBills(h)') <= Billable(h)'
  <2>1. Quantities' = Quantities /\ Billable(h)' = Billable(h)
    BY <1>1 DEF Quantities, Billable
  <2>2. /\ \A x \in Bills : Quantities[x] \in Nat
        /\ IsFiniteSet(InBills(h)) /\ InBills(h) \subseteq Bills /\ IsFiniteSet(Bills)
    BY QuantitiesTyped
  <2>3. CASE h # g
    <3>1. InBills(h)' \subseteq InBills(h)
      BY <1>1, <1>5, <1>9, <2>3 DEF InBills
    <3>2. \A x \in InBills(h) : Quantities[x] \in Nat
      BY <2>2
    <3>3. /\ IsFiniteSet(InBills(h)')
          /\ SumFunctionOnSet(Quantities, InBills(h)') <= SumFunctionOnSet(Quantities, InBills(h))
      BY <2>2, <3>1, <3>2, SumShrinks
    <3>4. SumFunctionOnSet(Quantities, InBills(h)) \in Nat
          /\ SumFunctionOnSet(Quantities, InBills(h)') \in Nat
      BY <2>2, <3>1, <3>2, <3>3, SumNat
    <3>5. SumFunctionOnSet(Quantities, InBills(h)) <= Billable(h) /\ Billable(h) \in Nat
      BY BillableTyped DEF BillsFitting
    <3> QED BY <2>1, <3>3, <3>4, <3>5
  <2>4. CASE h = g
    <3> DEFINE R == {x \in Bills \ {b} : billed[x].receipt = g}
    <3>1. InBills(g)' \subseteq R \union {b} /\ R \subseteq Bills /\ b \notin R
      BY <1>1, <1>3 DEF InBills
    <3> DEFINE totals == [x \in Bills |-> billed[x].quantity]
    <3>2. Elsewhere(g, b) = SumFunctionOnSet(totals, R)
      BY DEF Elsewhere
    <3> HIDE DEF R
    <3>3. IsFiniteSet(R) /\ IsFiniteSet(R \union {b})
      BY <2>2, <3>1, FS_Subset, FS_AddElement
    <3>4. \A x \in R \union {b} : Quantities[x] \in Nat
      BY <1>3, <2>2, <3>1
    <3>14. \A x \in R : totals[x] \in Nat /\ Quantities[x] <= totals[x]
      BY <3>1, ItemParts DEF BillTypes, Itemized, Quantities
    <3> HIDE DEF totals
    <3>15. SumFunctionOnSet(Quantities, R) <= SumFunctionOnSet(totals, R)
      BY <3>3, <3>4, <3>14, SumLess
    <3>16. SumFunctionOnSet(totals, R) \in Nat
      BY <3>3, <3>14, SumNat
    <3>5. /\ SumFunctionOnSet(Quantities, InBills(g)')
               <= SumFunctionOnSet(Quantities, R \union {b})
          /\ IsFiniteSet(InBills(g)')
      BY <3>1, <3>3, <3>4, SumShrinks
    <3>6. SumFunctionOnSet(Quantities, R \union {b})
            = Quantities[b] + SumFunctionOnSet(Quantities, R)
      <4>1. \A x \in R \union {b} : Quantities[x] \in Int
        BY <3>4
      <4> QED BY <3>1, <3>3, <4>1, SumAdd
    <3>7. SumFunctionOnSet(Quantities, InBills(g)') \in Nat /\ SumFunctionOnSet(Quantities, R) \in Nat
      BY <3>1, <3>3, <3>4, <3>5, SumNat
    <3>8. Quantities[b] \in Nat /\ Quantities[b] > 0 /\ Quantities[b] <= Unbilled(g, b)
      BY <1>3, <1>4, <1>9, <2>2, QuantitiesTyped, ItemParts DEF Approvable, BillTypes, Itemized
    <3>9. Billable(g) \in Nat
      BY <1>4, BillableTyped
    <3>10. Unbilled(g, b) = Max({0, Billable(g) - SumFunctionOnSet(totals, R)})
      BY <3>2 DEF Unbilled
    <3>11. Billable(g) - SumFunctionOnSet(totals, R) \in Int /\ 0 \in Int
      BY <3>9, <3>16
    <3>12. Quantities[b] <= Billable(g) - SumFunctionOnSet(totals, R)
      BY <3>8, <3>10, <3>11, MaxPair
    <3>13. SumFunctionOnSet(Quantities, InBills(g)') <= Billable(g)
      BY <3>5, <3>6, <3>7, <3>8, <3>9, <3>12, <3>15, <3>16
    <3> QED BY <2>1, <2>4, <3>13
  <2> QED BY <2>3, <2>4
<1>7. \A x \in Bills : InBill(x)' => billed'[x].quantity > 0
  BY <1>1, <1>4, <1>5 DEF BillsFitting
<1>8. \A x \in Bills : billed'[x].quantity > 0 =>
        billed'[x].receipt \in Receipts /\ Present(billed[x].receipt)'
  BY <1>1 DEF BillsFitting, Present
<1> QED BY <1>6, <1>7, <1>8 DEF BillsFitting

\* The approval that is saved had claimed its goods when it began.
LEMMA FittingApproved ==
  ASSUME Typed, Typed', BillsFitting, NEW w \in Workers, ApproveSave(w), NEW b, b = job[w].bill
  PROVE  BillsFitting'
<1> USE DEF Typed, Rows
<1>1. b \in Bills /\ job'[w] = Idle /\ \A x \in Bills \ {b} : bills'[x] = bills[x]
  BY ApprovedBill
<1>2. UNCHANGED <<billed, receipts>>
  BY DEF ApproveSave, goods
<1>3. InBill(b)
  BY DEF ApproveSave, InBill
<1>4. Moves(w, {"idle"}) /\ "bill_approve" \notin {"idle"}
  BY <1>1, EveryStep DEF Moves, BillStep, Idle
<1>5. ASSUME NEW x \in Bills, InBill(x)'
      PROVE  InBill(x) /\ billed'[x] = billed[x]
  <2>1. CASE x = b
    BY <1>2, <1>3, <2>1
  <2>2. CASE x # b
    <3>1. bills'[x].approved => bills[x].approved
      BY <1>1, <2>2
    <3> QED BY <1>2, <1>4, <1>5, <3>1, ClaimsKept
  <2> QED BY <2>1, <2>2
<1>6. \A x \in Bills : billed'[x].quantity > 0 =>
        billed'[x].receipt \in Receipts /\ Present(billed[x].receipt)'
  BY <1>2 DEF BillsFitting, Present
<1>7. \A g \in Receipts : Billable(g)' = Billable(g)
  BY <1>2 DEF Billable
<1> QED BY <1>5, <1>6, <1>7, FittingKept

LEMMA FittingBills ==
  ASSUME Typed, Typed', BillsFitting, NEW w \in Workers, BillStep(w)
  PROVE  BillsFitting'
<1> USE DEF Typed, Rows
<1>1. CASE BillLoad(w) \/ BillHeaderLoad(w)
  <2>1. job'[w].step = "bill_save" /\ UNCHANGED <<clients, goods, money, returns, sentBack>>
    BY <1>1, LoadedBill
  <2>2. Moves(w, {"bill_save"}) /\ "bill_approve" \notin {"bill_save"}
    BY <2>1, EveryStep DEF Moves
  <2>3. UNCHANGED <<billed, receipts>> /\ \A b \in Bills : bills'[b].approved => bills[b].approved
    BY <2>1 DEF goods, money
  <2> QED BY <2>2, <2>3, FittingElsewhere
<1>2. CASE BillSave(w)
  BY <1>2, FittingSave
<1>3. CASE ApproveLoad(w)
  BY <1>3, FittingApproval
<1>4. CASE ApproveSave(w)
  BY <1>4, FittingApproved
<1>5. CASE DeleteBill(w)
  BY <1>5, FittingDelete
<1>6. CASE MakePayment(w) \/ DeletePayment(w)
  <2>1. /\ UNCHANGED <<job, billed, receipts>> /\ job[w].step = "idle"
        /\ \A b \in Bills : bills'[b].approved => bills[b].approved
    BY <1>6, PaidBills, PaymentDeleted DEF MakePayment, DeletePayment, Takes, goods
  <2>2. Moves(w, {"idle"}) /\ "bill_approve" \notin {"idle"}
    BY <2>1, EveryStep DEF Moves
  <2> QED BY <2>1, <2>2, FittingElsewhere
<1> QED BY <1>1, <1>2, <1>3, <1>4, <1>5, <1>6 DEF BillStep

\* A credit approves no bill.
LEMMA ApprovalsKept ==
  ASSUME Typed, NEW w \in Workers, CreditStep(w), NEW b \in Bills
  PROVE  bills'[b].approved => bills[b].approved
<1> USE DEF Typed, Rows
<1>1. CASE OpenCredit(w)
  <2>1. PICK c \in Credits : PlanOf(c) \in Amount /\ bills' = BillsAfter(PlanOf(c))
    BY <1>1, OpenedCredit
  <2>2. UNCHANGED <<billed, payments>>
    BY <1>1, OpenedCredit
  <2> QED BY <2>1, <2>2, CreditedBills
<1>2. CASE PostSave(w)
  <2>1. /\ job[w].plan \in Amount /\ bills' = BillsAfter(job[w].plan)
        /\ UNCHANGED <<billed, payments>>
    BY <1>2, PostedCredit
  <2> QED BY <2>1, CreditedBills
<1>3. CASE ~OpenCredit(w) /\ ~PostSave(w)
  <2>1. UNCHANGED bills
    BY <1>3 DEF CreditStep, ViewCredit, CreditLoadNew, CreateCredit, CreditEditLoad, CreditEditSave,
       DeleteCredit, ApproveCredit, VoidLocked, CreditLoad, VoidSave, money
  <2> QED BY <2>1
<1> QED BY <1>1, <1>2, <1>3

LEMMA FittingStep ==
  ASSUME Typed, BillsFitting, [AllNext]_allVars
  PROVE  BillsFitting'
<1>1. Typed'
  BY TypedStep
<1>2. CASE UNCHANGED allVars
  <2>1. UNCHANGED <<bills, billed, receipts, job>>
    BY <1>2 DEF allVars, vars, goods, money
  <2>2. \A b \in Bills : InBill(b)' => InBill(b) /\ billed'[b] = billed[b]
    BY <2>1 DEF InBill, At
  <2>3. \A x \in Bills : billed'[x].quantity > 0 =>
          billed'[x].receipt \in Receipts /\ Present(billed[x].receipt)'
    BY <2>1 DEF BillsFitting, Present
  <2>4. \A g \in Receipts : Billable(g)' = Billable(g)
    BY <2>1 DEF Billable
  <2> QED BY <1>1, <2>2, <2>3, <2>4, FittingKept
<1>3. ASSUME NEW w \in Workers, ExpenseStep(w) \/ (UNCHANGED expenses /\ (ReturnStep(w) \/ CreditStep(w)))
      PROVE  BillsFitting'
  <2>1. PICK steps : "bill_approve" \notin steps /\ Moves(w, steps)
    BY <1>3, EveryStep DEF ExpenseSteps, ReturnSteps, CreditSteps
  <2>2. UNCHANGED <<billed, receipts>>
    BY <1>3, ExpensesKept, ReturnsTyped, CreditsTyped DEF Rest, goods, money
  <2>3. \A b \in Bills : bills'[b].approved => bills[b].approved
    BY <1>3, ExpensesKept, ReturnsTyped, ApprovalsKept DEF Rest, money
  <2> QED BY <1>1, <2>1, <2>2, <2>3, FittingElsewhere
<1> QED BY <1>1, <1>2, <1>3, StepCases, FittingGoods, FittingBills

----
(* What the returns of a receipt come to. *)

\* A return claims goods of its receipt when it is credited or being approved, and
\* while a credit is linked to it or about to be.
InReturn(r) ==
  \/ returns[r].status = "CREDIT_ISSUED"
  \/ \E w \in Workers : At(w, "return_approve") /\ job[w].return = r
  \/ \E c \in Credits : credits[c].of = r
  \/ \E w \in Workers : job[w].step \in {"credit_new", "credit_save"} /\ job[w].row.of = r
InReturns(g) == {r \in Returns : InReturn(r) /\ returns[r].receipt = g}
Returned == [r \in Returns |-> returns[r].largest]

\* Returns refer to receipts that are there, and one that is not there has no credit;
\* a draft claims nothing.
ReturnsSound ==
  /\ \A r \in Returns :
       returns[r].status \in {"ABSENT", "DRAFT", "PENDING_APPROVAL", "CREDIT_ISSUED"}
  /\ \A r \in Returns : returns[r].status = "ABSENT" =>
       returns[r].receipt = "none" /\ \A c \in Credits : credits[c].of # r
  /\ \A r \in Returns : returns[r].status # "ABSENT" =>
       returns[r].receipt \in Receipts /\ Present(returns[r].receipt)
  /\ \A r \in Returns : InReturn(r) => returns[r].status # "DRAFT"

ReturnsFitting ==
  /\ ReturnsSound
  /\ \A g \in Receipts : SumFunctionOnSet(Returned, InReturns(g)) <= Billable(g)

\* A step of w after which no other return claims goods, and no return others goods.
Quiet(w) ==
  /\ \A v \in Others(w) : job'[v] = job[v]
  /\ \A r \in Returns :
       \/ returns'[r] = returns[r]
       \/ returns'[r] = NoReturn /\ \A c \in Credits : credits'[c].of # r
       \/ /\ returns[r].status # "ABSENT"
          /\ \/ returns'[r].status = "PENDING_APPROVAL"
             \/ returns'[r].status = "CREDIT_ISSUED" /\ InReturn(r)
          /\ returns'[r].receipt = returns[r].receipt
          /\ returns'[r].largest = returns[r].largest
  /\ \A r \in Returns :
       \/ job'[w].step = "return_approve" /\ job'[w].return = r
       \/ job'[w].step \in {"credit_new", "credit_save"} /\ job'[w].row.of = r
       => InReturn(r)
  /\ \A c \in Credits, r \in Returns : credits'[c].of = r =>
       credits[c].of = r \/ (InReturn(r) /\ returns'[r].status # "ABSENT")
  /\ UNCHANGED receipts

LEMMA ReturnedTyped ==
  ASSUME ReturnTypes
  PROVE  /\ IsFiniteSet(Returns)
         /\ \A r \in Returns : Returned[r] = returns[r].largest /\ Returned[r] \in Nat
         /\ \A g : IsFiniteSet(InReturns(g)) /\ InReturns(g) \subseteq Returns
<1>1. IsFiniteSet(Returns)
  <2>1. IsFiniteSet(Credits) /\ Returns \subseteq Credits
    BY PayablesAssumption DEF Credits
  <2> QED BY <2>1, FS_Subset
<1>2. \A g : InReturns(g) \subseteq Returns
  BY DEF InReturns
<1>3. \A g : IsFiniteSet(InReturns(g))
  BY <1>1, <1>2, FS_Subset
<1>4. \A r \in Returns : returns[r].largest \in Nat
  BY ReturnParts DEF ReturnTypes, Itemized
<1> QED BY <1>1, <1>2, <1>3, <1>4 DEF Returned

\* A step that lets no other return claim goods, nor others goods, nor takes away the
\* goods of a receipt that a return refers to.
LEMMA ReturnsKept ==
  ASSUME Typed, Typed', ReturnsFitting, ReturnsSound',
         \A r \in Returns : InReturn(r)' /\ returns'[r].status # "ABSENT" =>
           /\ InReturn(r) /\ returns'[r].receipt = returns[r].receipt
           /\ returns'[r].largest = returns[r].largest,
         \A g \in Receipts : \/ Billable(g)' = Billable(g)
                             \/ \A r \in Returns : returns[r].receipt # g
  PROVE  ReturnsFitting'
<1> USE DEF Typed, Rows
<1>1. ASSUME NEW g \in Receipts
      PROVE  SumFunctionOnSet(Returned', InReturns(g)') <= Billable(g)'
  <2>1. IsFiniteSet(InReturns(g)) /\ \A x \in InReturns(g) : Returned[x] \in Nat
    BY ReturnedTyped
  <2>2. ASSUME NEW x \in InReturns(g)'
        PROVE  x \in InReturns(g) /\ Returned'[x] = Returned[x]
    <3>1. x \in Returns /\ InReturn(x)' /\ returns'[x].receipt = g
      BY DEF InReturns
    <3>2. returns'[x].status # "ABSENT"
      BY <3>1, PayablesAssumption DEF ReturnsSound
    <3>3. InReturn(x) /\ returns'[x].receipt = returns[x].receipt
          /\ returns'[x].largest = returns[x].largest
      BY <3>1, <3>2
    <3> QED BY <3>1, <3>3 DEF InReturns, Returned
  <2>3. InReturns(g)' \subseteq InReturns(g) /\ \A x \in InReturns(g)' : Returned'[x] = Returned[x]
    BY <2>2
  <2>4. /\ IsFiniteSet(InReturns(g)')
        /\ SumFunctionOnSet(Returned', InReturns(g)') <= SumFunctionOnSet(Returned, InReturns(g))
    BY <2>1, <2>3, SumShrinks
  <2>5. CASE Billable(g)' = Billable(g)
    <3>1. SumFunctionOnSet(Returned, InReturns(g)) \in Nat
      BY <2>1, SumNat
    <3>2. \A x \in InReturns(g)' : Returned'[x] \in Nat
      BY <2>1, <2>3
    <3>3. SumFunctionOnSet(Returned', InReturns(g)') \in Nat
      BY <2>4, <3>2, SumNat
    <3>4. Billable(g) \in Nat
      BY BillableTyped
    <3>5. SumFunctionOnSet(Returned, InReturns(g)) <= Billable(g)
      BY DEF ReturnsFitting
    <3> QED BY <2>4, <2>5, <3>1, <3>3, <3>4, <3>5
  <2>6. CASE \A r \in Returns : returns[r].receipt # g
    <3>1. InReturns(g) = {}
      BY <2>6 DEF InReturns
    <3>2. InReturns(g)' = {}
      BY <2>3, <3>1
    <3>3. SumFunctionOnSet(Returned', InReturns(g)') = 0
      BY <3>2, SumEmpty
    <3>4. Billable(g)' \in Nat
      BY DEF ReceivingTypes, Billable, BillableOf, ReceiptRows
    <3> QED BY <3>3, <3>4
  <2> QED BY <2>5, <2>6
<1> QED BY <1>1 DEF ReturnsFitting

LEMMA QuietReturns ==
  ASSUME Typed, Typed', ReturnsFitting, NEW w \in Workers, Quiet(w)
  PROVE  ReturnsFitting'
<1> USE DEF Typed, Rows, ReturnsFitting
<1>1. ASSUME NEW r \in Returns, InReturn(r)'
      PROVE  InReturn(r)
  <2>1. CASE returns'[r].status = "CREDIT_ISSUED"
    BY <2>1, NoReturnTyped DEF Quiet, InReturn
  <2>2. CASE \E v \in Workers : At(v, "return_approve")' /\ job'[v].return = r
    BY <2>2 DEF Quiet, InReturn, At, Others
  <2>3. CASE \E c \in Credits : credits'[c].of = r
    BY <2>3 DEF Quiet, InReturn
  <2>4. CASE \E v \in Workers : job'[v].step \in {"credit_new", "credit_save"} /\ job'[v].row.of = r
    BY <2>4 DEF Quiet, InReturn, Others
  <2> QED BY <1>1, <2>1, <2>2, <2>3, <2>4 DEF InReturn
<1>2. ASSUME NEW r \in Returns
      PROVE  /\ returns'[r].status \in {"ABSENT", "DRAFT", "PENDING_APPROVAL", "CREDIT_ISSUED"}
             /\ returns'[r].status = "ABSENT" =>
                  returns'[r].receipt = "none" /\ \A c \in Credits : credits'[c].of # r
             /\ returns'[r].status # "ABSENT" =>
                  /\ returns'[r].receipt \in Receipts /\ receipts'[returns'[r].receipt].state # "ABSENT"
                  /\ returns'[r].receipt = returns[r].receipt
                  /\ returns'[r].largest = returns[r].largest
             /\ returns'[r].status = "DRAFT" => returns[r].status = "DRAFT"
  <2>1. CASE returns'[r] = returns[r]
    BY <2>1 DEF ReturnsSound, Quiet, Present
  <2>2. CASE returns'[r] = NoReturn /\ \A c \in Credits : credits'[c].of # r
    BY <2>2, NoReturnTyped
  <2>3. CASE /\ returns[r].status # "ABSENT"
             /\ returns'[r].status \in {"PENDING_APPROVAL", "CREDIT_ISSUED"}
             /\ returns'[r].receipt = returns[r].receipt
             /\ returns'[r].largest = returns[r].largest
    BY <2>3 DEF ReturnsSound, Quiet, Present
  <2> QED BY <2>1, <2>2, <2>3 DEF Quiet
<1>3. ReturnsSound'
  <2>1. \A r \in Returns : returns'[r].status # "ABSENT" => Present(returns[r].receipt)'
    BY <1>2 DEF Present
  <2>2. \A r \in Returns : InReturn(r)' => returns'[r].status # "DRAFT"
    BY <1>1, <1>2 DEF ReturnsSound
  <2> QED BY <1>2, <2>1, <2>2 DEF ReturnsSound
<1>4. \A g \in Receipts : Billable(g)' = Billable(g)
  BY DEF Quiet, Billable
<1> QED BY <1>1, <1>2, <1>3, <1>4, ReturnsKept

\* Steps of others than returns and credits.
LEMMA QuietElsewhere ==
  ASSUME NEW w \in Workers, NEW steps, Moves(w, steps),
         {"return_approve", "credit_new", "credit_save"} \intersect steps = {},
         UNCHANGED <<returns, credits, receipts>>
  PROVE  Quiet(w)
<1>1. job'[w].step \notin {"return_approve", "credit_new", "credit_save"}
  BY DEF Moves
<1> QED BY <1>1 DEF Quiet, Moves

LEMMA ReturnsGoods ==
  ASSUME Typed, Typed', ReturnsFitting, NEW w \in Workers, Goods(w)
  PROVE  ReturnsFitting'
<1> USE DEF ReturnsFitting
<1>1. Moves(w, GoodsSteps) /\ {"return_approve", "credit_new", "credit_save"} \intersect GoodsSteps = {}
  BY EveryStep DEF GoodsSteps
<1>2. UNCHANGED <<returns, credits>>
  BY DEF Goods, money
<1>3. ASSUME NEW r \in Returns, InReturn(r)'
      PROVE  InReturn(r)
  <2>1. ASSUME NEW v \in Workers,
               job'[v].step \in {"return_approve", "credit_new", "credit_save"}
        PROVE  job'[v] = job[v]
    BY <1>1, <2>1 DEF Moves, Others
  <2> QED BY <1>2, <1>3, <2>1 DEF InReturn, At
<1>4. ASSUME NEW r \in Returns, returns[r].status # "ABSENT"
      PROVE  /\ returns[r].receipt \in Receipts /\ returns[r].receipt \in Referenced
             /\ Present(returns[r].receipt)
  BY <1>4 DEF Referenced, ReturnsSound
<1>5. ASSUME NEW r \in Returns, returns'[r].status # "ABSENT"
      PROVE  returns'[r].receipt \in Receipts /\ Present(returns[r].receipt)'
  <2>1. PICK g : g = returns[r].receipt
    OBVIOUS
  <2>2. g \in Receipts /\ g \in Referenced /\ Present(g)
    BY <1>2, <1>4, <1>5, <2>1
  <2>3. returns'[r].receipt = g
    BY <1>2, <2>1
  <2>4. receipts'[g].state # "ABSENT"
    BY <2>2, ReceiptsKept DEF Present
  <2> QED BY <2>2, <2>3, <2>4 DEF Present
<1>6. ReturnsSound'
  BY <1>2, <1>3, <1>5 DEF ReturnsSound
<1>7. ASSUME NEW g \in Receipts
      PROVE  Billable(g)' = Billable(g) \/ \A r \in Returns : returns[r].receipt # g
  <2>1. CASE \E r \in Returns : returns[r].receipt = g
    <3>1. PICK r \in Returns : returns[r].receipt = g
      BY <2>1
    <3>2. returns[r].status # "ABSENT"
      BY <3>1, PayablesAssumption DEF ReturnsSound
    <3>3. g \in Referenced /\ Present(g)
      BY <1>4, <3>1, <3>2
    <3> QED BY <3>3, ReceiptsKept
  <2> QED BY <2>1
<1> QED BY <1>2, <1>3, <1>6, <1>7, ReturnsKept

\* A new return claims nothing, whatever its key was used for.
LEMMA ReturnsCreated ==
  ASSUME Typed, Typed', ReturnsFitting, NewReturnStatuses \subseteq {"DRAFT", "PENDING_APPROVAL"},
         NEW w \in Workers, CreateReturn(w)
  PROVE  ReturnsFitting'
<1> USE DEF Typed, Rows, ReturnsFitting
<1>1. UNCHANGED <<job, credits, receipts>>
  BY ReturnCreated DEF goods, money
<1>2. PICK r \in Returns :
        /\ returns[r].status = "ABSENT" /\ NewReturn(r)
        /\ \E row \in ValidReturns(r) : returns' = [returns EXCEPT ![r] = row]
  BY ReturnCreated
<1>3. PICK row \in ValidReturns(r) : returns' = [returns EXCEPT ![r] = row]
  BY <1>2
<1>4. /\ row.status \in {"DRAFT", "PENDING_APPROVAL"} /\ row.receipt \in Receipts
      /\ receipts[row.receipt].state = "CONFIRMED"
  BY ReturnValid
<1>5. returns'[r] = row /\ \A x \in Returns \ {r} : returns'[x] = returns[x]
  BY <1>3 DEF ReturnTypes
<1>6. \A c \in Credits : credits[c].of # r
  BY <1>2 DEF ReturnsSound
<1>7. ~InReturn(r)'
  <2>1. \A v \in Workers :
          ~(At(v, "return_approve") /\ job[v].return = r)
          /\ ~(job[v].step \in {"credit_new", "credit_save"} /\ job[v].row.of = r)
    BY <1>2 DEF NewReturn, At
  <2> QED BY <1>1, <1>4, <1>5, <1>6, <2>1 DEF InReturn, At
<1>8. ASSUME NEW x \in Returns, InReturn(x)'
      PROVE  x # r /\ InReturn(x)
  <2>1. x # r
    BY <1>7, <1>8
  <2>2. returns'[x] = returns[x]
    BY <1>5, <2>1
  <2> QED BY <1>1, <1>8, <2>1, <2>2 DEF InReturn, At
<1>9. ReturnsSound'
  <2>1. ASSUME NEW x \in Returns, returns'[x].status # "ABSENT"
        PROVE  returns'[x].receipt \in Receipts /\ Present(returns[x].receipt)'
    <3>1. returns'[x].receipt \in Receipts /\ receipts[returns'[x].receipt].state # "ABSENT"
      BY <1>4, <1>5, <2>1 DEF ReturnsSound, Present
    <3> QED BY <1>1, <3>1 DEF Present
  <2>2. ASSUME NEW x \in Returns
        PROVE  /\ returns'[x].status \in {"ABSENT", "DRAFT", "PENDING_APPROVAL", "CREDIT_ISSUED"}
               /\ returns'[x].status = "ABSENT" =>
                    returns'[x].receipt = "none" /\ \A c \in Credits : credits'[c].of # x
               /\ InReturn(x)' => returns'[x].status # "DRAFT"
    BY <1>1, <1>4, <1>5, <1>8 DEF ReturnsSound
  <2> QED BY <2>1, <2>2 DEF ReturnsSound
<1>10. \A x \in Returns : InReturn(x)' => /\ InReturn(x) /\ returns'[x].receipt = returns[x].receipt
                                          /\ returns'[x].largest = returns[x].largest
  BY <1>5, <1>8
<1>11. \A g \in Receipts : Billable(g)' = Billable(g)
  BY <1>1 DEF Billable
<1> QED BY <1>9, <1>10, <1>11, ReturnsKept

\* An approval that begins counts its return on top of all others that claim goods.
LEMMA ReturnsApproval ==
  ASSUME Typed, Typed', ReturnsFitting, NEW w \in Workers, ReturnApproveLoad(w)
  PROVE  ReturnsFitting'
<1> USE DEF Typed, Rows, ReturnsFitting
<1>1. UNCHANGED <<returns, credits, receipts>>
  BY ReturnLoaded DEF goods, money
<1>2. PICK r \in Returns : ReturnApprovable(r) /\ job'[w].step = "return_approve" /\ job'[w].return = r
  <2>1. PICK r \in Returns : /\ ReturnApprovable(r)
                             /\ Becomes(w, [step |-> "return_approve", return |-> r,
                                            quantity |-> returns[r].quantity])
    BY DEF ReturnApproveLoad
  <2>2. job'[w] = [step |-> "return_approve", return |-> r, quantity |-> returns[r].quantity]
    BY <2>1, BecomesIs
  <2> QED BY <2>1, <2>2
<1>3. \A v \in Others(w) : job'[v] = job[v]
  BY EveryStep DEF Moves, ReturnStep
<1>4. PICK g : g = returns[r].receipt
  OBVIOUS
<1>5. /\ returns[r].status = "PENDING_APPROVAL" /\ g \in Receipts
      /\ returns[r].largest <= Returnable(g, r) /\ returns[r].largest > 0
  BY <1>2, <1>4, ReturnParts DEF ReturnApprovable, ReturnsSound, ReturnTypes, Itemized
<1>6. ASSUME NEW x \in Returns, InReturn(x)'
      PROVE  InReturn(x) \/ x = r
  <2>1. ASSUME NEW v \in Workers, job'[v].step \in {"return_approve", "credit_new", "credit_save"}
        PROVE  v = w \/ job'[v] = job[v]
    BY <1>3 DEF Others
  <2> QED BY <1>1, <1>2, <1>6, <2>1 DEF InReturn, At
<1>7. ASSUME NEW h \in Receipts
      PROVE  SumFunctionOnSet(Returned', InReturns(h)') <= Billable(h)'
  <2>1. Returned' = Returned /\ Billable(h)' = Billable(h)
    BY <1>1 DEF Returned, Billable
  <2>2. /\ \A x \in Returns : Returned[x] \in Nat
        /\ IsFiniteSet(InReturns(h)) /\ InReturns(h) \subseteq Returns /\ IsFiniteSet(Returns)
    BY ReturnedTyped
  <2>3. CASE h # g
    <3>1. InReturns(h)' \subseteq InReturns(h)
      BY <1>1, <1>4, <1>6, <2>3 DEF InReturns
    <3>2. \A x \in InReturns(h) : Returned[x] \in Nat
      BY <2>2
    <3>3. /\ IsFiniteSet(InReturns(h)')
          /\ SumFunctionOnSet(Returned, InReturns(h)') <= SumFunctionOnSet(Returned, InReturns(h))
      BY <2>2, <3>1, <3>2, SumShrinks
    <3>4. SumFunctionOnSet(Returned, InReturns(h)) \in Nat
          /\ SumFunctionOnSet(Returned, InReturns(h)') \in Nat
      BY <2>2, <3>1, <3>2, <3>3, SumNat
    <3>5. SumFunctionOnSet(Returned, InReturns(h)) <= Billable(h) /\ Billable(h) \in Nat
      BY BillableTyped
    <3> QED BY <2>1, <3>3, <3>4, <3>5
  <2>4. CASE h = g
    <3> DEFINE R == {x \in Returns \ {r} : returns[x].receipt = g /\ returns[x].status \in Claiming}
    <3>1. InReturns(g)' \subseteq R \union {r} /\ R \subseteq Returns /\ r \notin R
      <4>1. ASSUME NEW x \in InReturns(g)', x # r
            PROVE  x \in R
        <5>1. x \in Returns /\ InReturn(x) /\ returns[x].receipt = g
          BY <1>1, <1>6, <4>1 DEF InReturns
        <5>2. returns[x].status # "ABSENT" /\ returns[x].status # "DRAFT"
          BY <1>5, <5>1, PayablesAssumption DEF ReturnsSound
        <5>3. returns[x].status \in Claiming
          BY <5>1, <5>2 DEF ReturnsSound, Claiming
        <5> QED BY <4>1, <5>1, <5>3
      <4> QED BY <4>1
    <3> DEFINE totals == [x \in Returns |-> returns[x].quantity]
    <3>2. Returnable(g, r) = Max({0, Billable(g) - SumFunctionOnSet(totals, R)})
      BY DEF Returnable
    <3> HIDE DEF R
    <3>3. IsFiniteSet(R) /\ IsFiniteSet(R \union {r})
      BY <2>2, <3>1, FS_Subset, FS_AddElement
    <3>4. \A x \in R \union {r} : Returned[x] \in Nat
      BY <1>2, <2>2, <3>1
    <3>13. \A x \in R : totals[x] \in Nat /\ Returned[x] <= totals[x]
      BY <3>1, ReturnParts DEF ReturnTypes, Itemized, Returned
    <3> HIDE DEF totals
    <3>14. SumFunctionOnSet(Returned, R) <= SumFunctionOnSet(totals, R)
      BY <3>3, <3>4, <3>13, SumLess
    <3>15. SumFunctionOnSet(totals, R) \in Nat
      BY <3>3, <3>13, SumNat
    <3>5. /\ SumFunctionOnSet(Returned, InReturns(g)')
               <= SumFunctionOnSet(Returned, R \union {r})
          /\ IsFiniteSet(InReturns(g)')
      BY <3>1, <3>3, <3>4, SumShrinks
    <3>6. SumFunctionOnSet(Returned, R \union {r}) = Returned[r] + SumFunctionOnSet(Returned, R)
      <4>1. \A x \in R \union {r} : Returned[x] \in Int
        BY <3>4
      <4> QED BY <3>1, <3>3, <4>1, SumAdd
    <3>7. SumFunctionOnSet(Returned, InReturns(g)') \in Nat /\ SumFunctionOnSet(Returned, R) \in Nat
      BY <3>1, <3>3, <3>4, <3>5, SumNat
    <3>8. Returned[r] \in Nat /\ Returned[r] > 0 /\ Returned[r] <= Returnable(g, r)
      BY <1>5, <2>2, ReturnedTyped
    <3>9. Billable(g) \in Nat
      BY <1>5, BillableTyped
    <3>10. Billable(g) - SumFunctionOnSet(totals, R) \in Int /\ 0 \in Int
      BY <3>9, <3>15
    <3>11. Returned[r] <= Billable(g) - SumFunctionOnSet(totals, R)
      BY <3>2, <3>8, <3>10, MaxPair
    <3>12. SumFunctionOnSet(Returned, InReturns(g)') <= Billable(g)
      BY <3>5, <3>6, <3>7, <3>8, <3>9, <3>11, <3>14, <3>15
    <3> QED BY <2>1, <2>4, <3>12
  <2> QED BY <2>3, <2>4
<1>8. ReturnsSound'
  <2>1. \A x \in Returns : returns'[x].status # "ABSENT" =>
          returns'[x].receipt \in Receipts /\ Present(returns[x].receipt)'
    BY <1>1 DEF ReturnsSound, Present
  <2>2. \A x \in Returns : InReturn(x)' => returns'[x].status # "DRAFT"
    BY <1>1, <1>5, <1>6 DEF ReturnsSound
  <2> QED BY <1>1, <2>1, <2>2 DEF ReturnsSound
<1> QED BY <1>7, <1>8

LEMMA QuietReturnSteps ==
  ASSUME Served, ReturnsFitting, {"withdraw_return", "edit_return"} \intersect clients = {},
         NEW w \in Workers, ReturnStep(w), ~CreateReturn(w), ~ReturnApproveLoad(w)
  PROVE  Quiet(w)
<1> USE DEF Served, Typed, Rows, ReturnsFitting
<1>0. \A v \in Others(w) : job'[v] = job[v]
  BY EveryStep DEF Moves
<1>1. CASE ReturnStatusLoad(w) \/ ReturnEditLoad(w)
  <2>1. UNCHANGED <<returns, credits, receipts>> /\ job'[w].step = "return_save"
    <3>1. job'[w].step = "return_save"
      <4>1. \E r, row, items, whole :
              Becomes(w, [step |-> "return_save", return |-> r, whole |-> whole,
                          items |-> items, row |-> row])
        BY <1>1 DEF ReturnStatusLoad, ReturnEditLoad
      <4> QED BY <4>1, BecomesIs
    <3> QED BY <1>1, <3>1, ReturnLoaded DEF goods, money
  <2> QED BY <1>0, <2>1 DEF Quiet
<1>2. CASE ReturnSave(w)
  <2>1. PICK r : r = job[w].return
    OBVIOUS
  <2>2. ~job[w].items /\ ~job[w].whole /\ job[w].row.status = "PENDING_APPROVAL"
    BY <1>2 DEF ReturnSave, At, AllAsked, Asked
  <2>3. /\ r \in Returns /\ job'[w] = Idle
        /\ UNCHANGED <<clients, goods, money, sentBack>>
        /\ \A x \in Returns \ {r} : returns'[x] = returns[x]
        /\ ~job[w].items =>
             /\ returns'[r].status = job[w].row.status
             /\ returns'[r].receipt = returns[r].receipt
             /\ returns'[r].largest = returns[r].largest
    BY <1>2, <2>1, SavedReturn
  <2>4. UNCHANGED <<credits, receipts>> /\ job'[w].step = "idle"
    BY <2>3 DEF goods, money, Idle
  <2>5. returns[r].status # "ABSENT"
    BY <1>2, <2>1, <2>2 DEF ReturnSave
  <2> QED BY <1>0, <2>2, <2>3, <2>4, <2>5 DEF Quiet
<1>3. CASE ReturnApproveSave(w)
  <2>1. PICK r : r = job[w].return
    OBVIOUS
  <2>2. InReturn(r)
    BY <1>3, <2>1 DEF ReturnApproveSave, InReturn
  <2>3. /\ r \in Returns /\ job'[w] = Idle /\ UNCHANGED goods
        /\ returns[r].status # "ABSENT"
        /\ returns'[r].status = "CREDIT_ISSUED"
        /\ returns'[r].receipt = returns[r].receipt /\ returns'[r].largest = returns[r].largest
        /\ \A x \in Returns \ {r} : returns'[x] = returns[x]
        /\ \/ credits' = credits
           \/ /\ credits'[r] = IssuedRow(r, job[w].quantity)
              /\ \A c \in Credits \ {r} : credits'[c] = credits[c]
    BY <1>3, <2>1, ApprovedReturn
  <2>4. UNCHANGED receipts /\ job'[w].step = "idle"
    BY <2>3 DEF goods, Idle
  <2>5. IssuedRow(r, job[w].quantity).of = r
    BY DEF IssuedRow, NoCredit
  <2>6. \A c \in Credits, x \in Returns : credits'[c].of = x => credits[c].of = x \/ x = r
    BY <2>3, <2>5
  <2>7. returns'[r].status # "ABSENT"
    BY <2>3
  <2> QED BY <1>0, <2>2, <2>3, <2>4, <2>6, <2>7 DEF Quiet
<1>4. CASE DeleteReturn(w)
  <2>1. PICK r \in Returns :
          /\ returns'[r] = NoReturn
          /\ \A x \in Returns \ {r} : returns'[x] = returns[x]
          /\ \A c \in Credits : credits'[c] = IF credits[c].of = r
                                              THEN [credits[c] EXCEPT !.of = "none"]
                                              ELSE credits[c]
    BY <1>4, DeletedReturn
  <2>2. UNCHANGED <<job, receipts>> /\ job[w].step = "idle"
    BY <1>4, DeletedReturn DEF goods, DeleteReturn, Takes
  <2>3. ASSUME NEW c \in Credits
        PROVE  /\ credits'[c].of # r
               /\ \A x \in Returns : credits'[c].of = x => credits[c].of = x
    <3>1. credits[c] \in CreditRow /\ "none" \notin Returns
      BY PayablesAssumption DEF CreditTypes
    <3>2. credits[c].of = r => credits'[c].of = "none"
      BY <2>1, <3>1, UnlinkedTyped
    <3> QED BY <2>1, <3>1, <3>2
  <2> QED BY <1>0, <2>1, <2>2, <2>3 DEF Quiet
<1> QED BY <1>1, <1>2, <1>3, <1>4 DEF ReturnStep

\* Links that a step of the credits leaves or makes.
LEMMA QuietCredits ==
  ASSUME Served, ReturnsFitting, NEW w \in Workers, CreditStep(w)
  PROVE  Quiet(w)
<1> USE DEF Served, Typed, Rows, ReturnsFitting
<1>0. (\A v \in Others(w) : job'[v] = job[v]) /\ UNCHANGED receipts
  BY EveryStep DEF Moves, goods, CreditStep, ViewCredit, CreditLoadNew, CreateCredit,
     CreditEditLoad, CreditEditSave, DeleteCredit, ApproveCredit, OpenCredit, VoidLocked,
     CreditLoad, PostSave, VoidSave
<1>1. ASSUME job'[w].step \notin {"return_approve", "credit_new", "credit_save"}, UNCHANGED returns,
             \A c \in Credits : credits'[c].of = credits[c].of
      PROVE  Quiet(w)
  BY <1>0, <1>1 DEF Quiet
<1>2. \A c \in Credits : Synced(c).of = credits[c].of /\ Synced(c) \in CreditRow
  BY SyncedIs
<1>3. CASE ViewCredit(w) \/ VoidLocked(w)
  <2>1. UNCHANGED <<job, returns>> /\ job[w].step = "idle"
    BY <1>3 DEF ViewCredit, VoidLocked, Takes
  <2>2. PICK c \in Credits : /\ credits'[c].of = credits[c].of
                             /\ \A x \in Credits \ {c} : credits'[x] = credits[x]
    BY <1>2, <1>3, ViewedCredit, VoidedCredit, VoidTyped DEF CreditSaved
  <2> QED BY <1>1, <2>1, <2>2
<1>4. CASE CreditLoadNew(w)
  <2>1. PICK c \in ManualCredits, r \in Returns, total \in Nat :
          /\ Creditable(r, c)
          /\ job'[w].step = "credit_new" /\ job'[w].row = Drafted(r, total)
    BY <1>4, LoadedNewCredit
  <2>2. UNCHANGED <<returns, credits>>
    BY <1>4 DEF CreditLoadNew, money
  <2>3. job'[w].row.of = r
    BY <2>1, DraftedTyped
  <2>4. InReturn(r)
    BY <2>1 DEF Creditable, ReturnsSound, InReturn
  <2> QED BY <1>0, <2>1, <2>2, <2>3, <2>4 DEF Quiet
<1>5. CASE CreateCredit(w) \/ CreditEditSave(w)
  <2>1. UNCHANGED returns /\ job'[w] = Idle
    BY <1>5, CreatedCredit, SavedCreditEdit
  <2>2. PICK c : c = job[w].credit
    OBVIOUS
  <2>3. c \in Credits /\ credits'[c] = job[w].row /\ \A x \in Credits \ {c} : credits'[x] = credits[x]
    BY <1>5, <2>2, CreatedCredit, SavedCreditEdit DEF CreditSaved
  <2>4. PICK r : r = job[w].row.of
    OBVIOUS
  <2>5. InReturn(r) /\ returns[r].status # "ABSENT"
    BY <1>5, <2>4 DEF CreateCredit, CreditEditSave, At, InReturn
  <2> QED BY <1>0, <2>1, <2>3, <2>4, <2>5 DEF Quiet, Idle
<1>6. CASE CreditEditLoad(w)
  <2>1. PICK c \in Credits : job'[w].row.of = credits[c].of
    BY <1>6, LoadedCreditEdit
  <2>2. job'[w].step = "credit_save" /\ UNCHANGED <<returns, credits>>
    BY <1>6, LoadedCreditEdit DEF CreditEditLoad, money
  <2> QED BY <1>0, <2>1, <2>2 DEF Quiet, InReturn
<1>7. CASE DeleteCredit(w)
  <2>1. UNCHANGED <<job, returns>> /\ job[w].step = "idle"
    BY <1>7 DEF DeleteCredit, Takes
  <2>2. PICK c \in Credits : /\ credits'[c] = NoCredit
                             /\ \A x \in Credits \ {c} : credits'[x] = credits[x]
    BY <1>7, DeletedCredit DEF CreditSaved
  <2>3. NoCredit.of \notin Returns
    BY NoCreditTyped, PayablesAssumption
  <2> QED BY <1>0, <2>1, <2>2, <2>3 DEF Quiet
<1>8. CASE ApproveCredit(w) \/ OpenCredit(w)
  <2>1. UNCHANGED <<job, sentBack>> /\ job[w].step = "idle"
    BY <1>8 DEF ApproveCredit, OpenCredit, Takes
  <2>2. PICK c \in Credits : /\ returns' = Issued(c)
                             /\ credits'[c].of = credits[c].of
                             /\ \A x \in Credits \ {c} : credits'[x] = credits[x]
    <3>1. CASE ApproveCredit(w)
      BY <1>2, <3>1, ApprovedCredit, ApprovedTyped DEF CreditSaved
    <3>2. CASE OpenCredit(w)
      <4>1. PICK c \in Credits :
              /\ PlanOf(c) \in Amount /\ returns' = Issued(c)
              /\ CreditSaved(c, Applied(Synced(c), Total(Amounts(PlanOf(c)))), PlanOf(c))
        BY <3>2, OpenedCredit
      <4>2. Total(Amounts(PlanOf(c))) \in Nat
        BY <4>1, AmountsAre, TotalTyped
      <4>3. Applied(Synced(c), Total(Amounts(PlanOf(c)))).of = credits[c].of
        BY <1>2, <4>2, AppliedTyped
      <4> QED BY <4>1, <4>3 DEF CreditSaved
    <3> QED BY <1>8, <3>1, <3>2
  <2>3. \A r \in Returns :
          \/ returns'[r] = returns[r]
          \/ /\ credits[c].of = r /\ returns'[r].status = "CREDIT_ISSUED"
             /\ returns'[r].receipt = returns[r].receipt
             /\ returns'[r].largest = returns[r].largest
    BY <2>1, <2>2, IssuedIs
  <2>4. \A r \in Returns : credits[c].of = r => InReturn(r) /\ returns[r].status # "ABSENT"
    BY DEF InReturn, ReturnsSound
  <2> QED BY <1>0, <2>1, <2>2, <2>3, <2>4 DEF Quiet
<1>9. CASE CreditLoad(w)
  BY <1>1, <1>9, LoadedCredit DEF money
<1>10. CASE PostSave(w) \/ VoidSave(w)
  BY <1>1, <1>10, PostedCredit, VoidedUnlocked DEF Idle
<1> QED BY <1>3, <1>4, <1>5, <1>6, <1>7, <1>8, <1>9, <1>10 DEF CreditStep

\* The invariant of the returns, while clients submit and approve them alone.
ReturnsFit ==
  /\ {"withdraw_return", "edit_return"} \intersect clients = {}
  /\ NewReturnStatuses \subseteq {"DRAFT", "PENDING_APPROVAL"}
  => ReturnsFitting

LEMMA ReturnsStep ==
  ASSUME Served, ReturnsFit, [AllNext]_allVars
  PROVE  ReturnsFit'
<1> USE DEF Served
<1>1. Typed'
  BY TypedStep
<1>2. UNCHANGED clients
  BY StepCases, EveryStep DEF allVars, vars, Moves
<1>3. SUFFICES ASSUME {"withdraw_return", "edit_return"} \intersect clients = {},
                      NewReturnStatuses \subseteq {"DRAFT", "PENDING_APPROVAL"}, ReturnsFitting
               PROVE  ReturnsFitting'
  BY <1>2 DEF ReturnsFit
<1>4. CASE UNCHANGED allVars
  <2>1. UNCHANGED <<job, returns, credits, receipts>>
    BY <1>4 DEF allVars, vars, goods, money
  <2>2. \A r \in Returns : InReturn(r)' => InReturn(r)
    BY <2>1 DEF InReturn, At
  <2>3. ReturnsSound'
    BY <1>3, <2>1, <2>2 DEF ReturnsFitting, ReturnsSound, Present
  <2>4. \A g \in Receipts : Billable(g)' = Billable(g)
    BY <2>1 DEF Billable
  <2> QED BY <1>1, <1>3, <2>1, <2>2, <2>3, <2>4, ReturnsKept
<1>5. ASSUME NEW w \in Workers, ExpenseStep(w) \/ BillStep(w)
      PROVE  ReturnsFitting'
  <2>1. UNCHANGED <<returns, credits, receipts>>
    BY <1>5, ExpensesKept DEF Rest, goods, money, BillStep, BillLoad, BillHeaderLoad, BillSave,
       ApproveLoad, ApproveSave, DeleteBill, MakePayment, DeletePayment
  <2>2. PICK steps : /\ Moves(w, steps)
                     /\ {"return_approve", "credit_new", "credit_save"} \intersect steps = {}
    BY <1>5, EveryStep DEF ExpenseSteps, BillSteps
  <2> QED BY <1>1, <1>3, <2>1, <2>2, QuietElsewhere, QuietReturns
<1>6. ASSUME NEW w \in Workers, ReturnStep(w) \/ CreditStep(w)
      PROVE  ReturnsFitting'
  <2>1. CASE CreateReturn(w)
    BY <1>1, <1>3, <2>1, ReturnsCreated
  <2>2. CASE ReturnApproveLoad(w)
    BY <1>1, <1>3, <2>2, ReturnsApproval
  <2>3. CASE ~CreateReturn(w) /\ ~ReturnApproveLoad(w)
    BY <1>1, <1>3, <1>6, <2>3, QuietReturnSteps, QuietCredits, QuietReturns
  <2> QED BY <2>1, <2>2, <2>3
<1>7. ASSUME NEW w \in Workers, Goods(w)
      PROVE  ReturnsFitting'
  BY <1>1, <1>3, <1>7, ReturnsGoods
<1> QED BY <1>4, <1>5, <1>6, <1>7, StepCases

LEMMA FittingInit ==
  ASSUME AllInit
  PROVE  BillsFitting /\ ReturnsFitting
<1>1. PICK s \in Starts : ReceivingInit(s) /\ returns = s.returns
  BY DEF AllInit, Init
<1>2. /\ bills = [b \in Bills |-> NoBill] /\ billed = [b \in Bills |-> NoItem]
      /\ credits = [c \in Credits |-> NoCredit] /\ job = [w \in Workers |-> Idle]
      /\ receipts = s.receipts
  BY <1>1 DEF AllInit, Init, ReceivingInit
<1>3. Typed
  BY TypedInit
<1>4. BillsFitting
  <2>1. \A b \in Bills : ~InBill(b) /\ billed[b].quantity = 0
    BY <1>2, FairNoBill DEF InBill, At, Idle, NoItem
  <2>2. \A g : InBills(g) = {}
    BY <2>1 DEF InBills
  <2>3. \A g \in Receipts : Billable(g) \in Nat
    BY <1>3, BillableTyped DEF Typed, Rows
  <2>4. \A g : SumFunctionOnSet(Quantities, InBills(g)) = 0
    BY <2>2, SumEmpty
  <2> QED BY <2>1, <2>3, <2>4 DEF BillsFitting
<1>5. ReturnsSound
  <2>1. ASSUME NEW r \in Returns, returns[r] # NoReturn
        PROVE  /\ returns[r].status = "CREDIT_ISSUED" /\ returns[r].receipt \in Receipts
               /\ Present(returns[r].receipt)
    <3>1. returns[r] \in ReturnRows
      BY <1>1, <2>1, PayablesAssumption
    <3>2. /\ returns[r].status = "CREDIT_ISSUED"
          /\ receipts[returns[r].receipt].state = "CONFIRMED"
      BY <1>1, <1>2, <2>1, PayablesAssumption
    <3> QED BY <3>1, <3>2 DEF ReturnRows, Present
  <2>2. \A c \in Credits : credits[c].of \notin Returns
    BY <1>2, NoCreditTyped, PayablesAssumption
  <2> QED BY <2>1, <2>2, NoReturnTyped DEF ReturnsSound
<1>6. ASSUME NEW g \in Receipts
      PROVE  SumFunctionOnSet(Returned, InReturns(g)) <= Billable(g)
  <2> DEFINE f == [r \in Returns |-> s.returns[r].quantity]
             A == {r \in Returns : s.returns[r].receipt = g}
  <2>1. SumFunctionOnSet(f, A) <= BillableOf(s.receipts[g])
    BY <1>1, PayablesAssumption
  <2>2. Billable(g) = BillableOf(s.receipts[g]) /\ Billable(g) \in Nat
    BY <1>2, <1>3, BillableTyped DEF Billable, Typed, Rows
  <2>7. \A r \in Returns : s.returns[r].largest = s.returns[r].quantity
    BY PayablesAssumption DEF NoReturn
  <2>3. f = Returned /\ InReturns(g) \subseteq A /\ A \subseteq Returns
    BY <1>1, <2>7 DEF Returned, InReturns
  <2> HIDE DEF f, A
  <2>4. IsFiniteSet(A) /\ (\A x \in A : Returned[x] \in Nat) /\ IsFiniteSet(InReturns(g))
    BY <1>3, <2>3, ReturnedTyped, FS_Subset DEF Typed, Rows
  <2>5. SumFunctionOnSet(Returned, InReturns(g)) <= SumFunctionOnSet(Returned, A)
    BY <2>3, <2>4, SumShrinks
  <2>6. SumFunctionOnSet(Returned, InReturns(g)) \in Nat /\ SumFunctionOnSet(Returned, A) \in Nat
    BY <2>3, <2>4, SumNat
  <2> QED BY <2>1, <2>2, <2>3, <2>5, <2>6
<1> QED BY <1>4, <1>5, <1>6 DEF ReturnsFitting

LEMMA FittingFits ==
  ASSUME Served, BillsFitting, ReturnsFit
  PROVE  BillsFit
<1> USE DEF Served, Typed, Rows
<1>1. BillBalanced
  BY RowsTyped
<1>2. ASSUME NEW g \in Receipts
      PROVE  SumFunctionOnSet([b \in Bills |-> billed[b].largest], ApprovedFor(g)) <= Billable(g)
  <2>1. ApprovedFor(g) \subseteq InBills(g)
    BY DEF ApprovedFor, InBills, InBill
  <2>2. IsFiniteSet(InBills(g)) /\ \A b \in InBills(g) : Quantities[b] \in Nat
    BY QuantitiesTyped
  <2>3. IsFiniteSet(ApprovedFor(g))
        /\ SumFunctionOnSet(Quantities, ApprovedFor(g)) <= SumFunctionOnSet(Quantities, InBills(g))
    BY <2>1, <2>2, SumShrinks
  <2>4. SumFunctionOnSet(Quantities, ApprovedFor(g)) \in Nat
        /\ SumFunctionOnSet(Quantities, InBills(g)) \in Nat
    BY <2>1, <2>2, <2>3, SumNat
  <2>5. SumFunctionOnSet(Quantities, InBills(g)) <= Billable(g) /\ Billable(g) \in Nat
    BY BillableTyped DEF BillsFitting
  <2> QED BY <2>3, <2>4, <2>5 DEF Quantities
<1>3. ASSUME NEW g \in Receipts, ReturnsFitting
      PROVE  SumFunctionOnSet([r \in Returns |-> returns[r].largest], CreditedFor(g)) <= Billable(g)
  <2>1. CreditedFor(g) \subseteq InReturns(g)
    BY DEF CreditedFor, InReturns, InReturn
  <2>2. IsFiniteSet(InReturns(g)) /\ \A r \in InReturns(g) : Returned[r] \in Nat
    BY ReturnedTyped
  <2>3. IsFiniteSet(CreditedFor(g))
        /\ SumFunctionOnSet(Returned, CreditedFor(g)) <= SumFunctionOnSet(Returned, InReturns(g))
    BY <2>1, <2>2, SumShrinks
  <2>4. SumFunctionOnSet(Returned, CreditedFor(g)) \in Nat
        /\ SumFunctionOnSet(Returned, InReturns(g)) \in Nat
    BY <2>1, <2>2, <2>3, SumNat
  <2>5. SumFunctionOnSet(Returned, InReturns(g)) <= Billable(g) /\ Billable(g) \in Nat
    BY <1>3, BillableTyped DEF ReturnsFitting
  <2> QED BY <2>3, <2>4, <2>5 DEF Returned
<1>4. WithinAccepted
  BY <1>2, <1>3 DEF WithinAccepted, Without, ReturnsFit
<1> QED BY <1>1, <1>4 DEF BillsFit

\* What is paid of a bill and what it owes add up to its total; the approved bills of a
\* receipt never claim more than its goods, although each is checked against bills that
\* were read without a lock, and neither do its credited returns, while nobody edits or
\* withdraws one: whatever claims goods was counted when its approval began.
THEOREM PurchasesFit == AllSpec => []BillsFit
<1> DEFINE Inv == Served /\ BillsFitting /\ ReturnsFit
<1>1. AllInit => Inv
  BY ServedInit, FittingInit DEF ReturnsFit
<1>2. Inv /\ [AllNext]_allVars => Inv'
  BY ServedStep, FittingStep, ReturnsStep DEF Served
<1>3. Inv => BillsFit
  BY FittingFits
<1> QED BY <1>1, <1>2, <1>3, PTL DEF AllSpec

----
(* What has been put on a bill. *)

PaidOn(b) == [p \in Payments |-> payments[p][b]]
TakenOff(b) == [c \in Credits |-> taken[c][b]]

LEMMA BackingIs ==
  ASSUME BillTypes, CreditTypes, NEW b \in Bills
  PROVE  /\ IsFiniteSet(Payments) /\ IsFiniteSet(Credits)
         /\ \A p \in Payments : PaidOn(b)[p] \in Nat
         /\ \A c \in Credits : TakenOff(b)[c] \in Nat
         /\ SumFunctionOnSet(PaidOn(b), Payments) \in Nat
         /\ SumFunctionOnSet(TakenOff(b), Credits) \in Nat
         /\ Backing(b) = SumFunctionOnSet(PaidOn(b), Payments) + SumFunctionOnSet(TakenOff(b), Credits)
         /\ Backing(b) \in Nat
         /\ (\A p \in Payments : payments[p][b] = 0) /\ (\A c \in Credits : taken[c][b] = 0)
              => Backing(b) = 0
<1>1. IsFiniteSet(Payments) /\ IsFiniteSet(Credits)
  BY PayablesAssumption
<1>2. \A p \in Payments : PaidOn(b)[p] \in Nat
  BY DEF BillTypes, Amount, PaidOn
<1>3. \A c \in Credits : TakenOff(b)[c] \in Nat
  BY DEF CreditTypes, Amount, TakenOff
<1>4. /\ SumFunctionOnSet(PaidOn(b), Payments) \in Nat
      /\ SumFunctionOnSet(TakenOff(b), Credits) \in Nat
  BY <1>1, <1>2, <1>3, SumNat
<1>5. Backing(b) = SumFunctionOnSet(PaidOn(b), Payments) + SumFunctionOnSet(TakenOff(b), Credits)
  BY DEF Backing, PaidOn, TakenOff
<1>6. ASSUME \A p \in Payments : payments[p][b] = 0, \A c \in Credits : taken[c][b] = 0
      PROVE  Backing(b) = 0
  <2>1. /\ \A p \in Payments : PaidOn(b)[p] = 0
        /\ \A c \in Credits : TakenOff(b)[c] = 0
    BY <1>6 DEF PaidOn, TakenOff
  <2>2. SumFunctionOnSet(PaidOn(b), Payments) = 0 /\ SumFunctionOnSet(TakenOff(b), Credits) = 0
    BY <1>1, <2>1, SumZeros
  <2> QED BY <1>5, <2>2
<1> QED BY <1>1, <1>2, <1>3, <1>4, <1>5, <1>6

LEMMA BackingSame ==
  ASSUME NEW b \in Bills, UNCHANGED <<payments, taken>>
  PROVE  Backing(b)' = Backing(b)
BY DEF Backing

LEMMA PaymentBacks ==
  ASSUME BillTypes, CreditTypes, UNCHANGED taken,
         NEW p \in Payments, NEW a \in Amount, payments[p] = Nothing,
         payments' = [payments EXCEPT ![p] = a], NEW b \in Bills
  PROVE  /\ Backing(b)' = Backing(b) + a[b]
         /\ a[b] = 0 => \A q \in Payments : payments'[q][b] = payments[q][b]
<1>1. /\ IsFiniteSet(Payments) /\ \A q \in Payments : PaidOn(b)[q] \in Nat
      /\ SumFunctionOnSet(PaidOn(b), Payments) \in Nat
      /\ SumFunctionOnSet(TakenOff(b), Credits) \in Nat
      /\ Backing(b) = SumFunctionOnSet(PaidOn(b), Payments) + SumFunctionOnSet(TakenOff(b), Credits)
  BY BackingIs
<1>2. payments[p][b] = 0 /\ a[b] \in Nat
  BY NothingTyped DEF Amount
<1>3. payments'[p] = a /\ \A q \in Payments \ {p} : payments'[q] = payments[q]
  BY DEF BillTypes
<1>4. PaidOn(b)'[p] = a[b] /\ PaidOn(b)[p] = 0
      /\ \A q \in Payments \ {p} : PaidOn(b)'[q] = PaidOn(b)[q]
  BY <1>2, <1>3 DEF PaidOn
<1>5. SumFunctionOnSet(PaidOn(b)', Payments)
        = SumFunctionOnSet(PaidOn(b), Payments) - PaidOn(b)[p] + PaidOn(b)'[p]
  <2>1. \A q \in Payments : PaidOn(b)[q] \in Int
    BY <1>1
  <2>2. PaidOn(b)'[p] \in Int
    BY <1>2, <1>4
  <2> QED BY <1>1, <1>4, <2>1, <2>2, SumChange
<1>6. SumFunctionOnSet(PaidOn(b)', Payments) = SumFunctionOnSet(PaidOn(b), Payments) + a[b]
  BY <1>1, <1>2, <1>4, <1>5
<1>7. Backing(b)' = SumFunctionOnSet(PaidOn(b)', Payments) + SumFunctionOnSet(TakenOff(b), Credits)
  BY DEF Backing, PaidOn, TakenOff
<1> QED BY <1>1, <1>2, <1>3, <1>6, <1>7

LEMMA CreditBacks ==
  ASSUME BillTypes, CreditTypes, UNCHANGED payments,
         NEW c \in Credits, NEW n \in Amount,
         \A b \in Bills : taken'[c][b] = taken[c][b] + n[b],
         \A x \in Credits \ {c} : taken'[x] = taken[x], NEW b \in Bills
  PROVE  /\ Backing(b)' = Backing(b) + n[b]
         /\ n[b] = 0 => \A x \in Credits : taken'[x][b] = taken[x][b]
<1>1. /\ IsFiniteSet(Credits) /\ \A x \in Credits : TakenOff(b)[x] \in Nat
      /\ SumFunctionOnSet(PaidOn(b), Payments) \in Nat
      /\ SumFunctionOnSet(TakenOff(b), Credits) \in Nat
      /\ Backing(b) = SumFunctionOnSet(PaidOn(b), Payments) + SumFunctionOnSet(TakenOff(b), Credits)
  BY BackingIs
<1>2. n[b] \in Nat /\ taken[c][b] \in Nat
  BY DEF Amount, CreditTypes
<1>3. TakenOff(b)'[c] = TakenOff(b)[c] + n[b]
      /\ \A x \in Credits \ {c} : TakenOff(b)'[x] = TakenOff(b)[x]
  BY DEF TakenOff
<1>4. SumFunctionOnSet(TakenOff(b)', Credits)
        = SumFunctionOnSet(TakenOff(b), Credits) - TakenOff(b)[c] + TakenOff(b)'[c]
  <2>1. \A x \in Credits : TakenOff(b)[x] \in Int
    BY <1>1
  <2>2. TakenOff(b)'[c] \in Int
    BY <1>1, <1>2, <1>3
  <2> QED BY <1>1, <1>3, <2>1, <2>2, SumChange
<1>5. SumFunctionOnSet(TakenOff(b)', Credits) = SumFunctionOnSet(TakenOff(b), Credits) + n[b]
  BY <1>1, <1>2, <1>3, <1>4
<1>6. Backing(b)' = SumFunctionOnSet(PaidOn(b), Payments) + SumFunctionOnSet(TakenOff(b)', Credits)
  BY DEF Backing, PaidOn, TakenOff
<1>7. n[b] = 0 => \A x \in Credits : taken'[x][b] = taken[x][b]
  BY <1>2
<1> QED BY <1>1, <1>2, <1>5, <1>6, <1>7

\* A step that puts n on the bills.
Settles(n) ==
  \A b \in Bills :
    /\ n[b] \in Nat
    /\ bills'[b].paid = bills[b].paid + n[b]
    /\ Backing(b)' = Backing(b) + n[b]
    /\ bills'[b] = bills[b] \/ "ABSENT" \notin {bills[b].status, bills'[b].status}
    /\ n[b] = 0 => /\ \A p \in Payments : payments'[p][b] = payments[p][b]
                   /\ \A c \in Credits : taken'[c][b] = taken[c][b]

LEMMA NothingSettles ==
  ASSUME BillTypes, CreditTypes, UNCHANGED <<bills, payments, taken>>
  PROVE  Settles(Nothing)
<1>1. ASSUME NEW b \in Bills
      PROVE  bills[b].paid \in Nat /\ Backing(b)' = Backing(b) /\ Backing(b) \in Nat
             /\ Nothing[b] = 0
  BY FairParts, BackingSame, BackingIs, NothingTyped DEF BillTypes
<1> QED BY <1>1 DEF Settles

LEMMA PaymentSettles ==
  ASSUME Typed, NEW w \in Workers, MakePayment(w)
  PROVE  \E n : Settles(n)
<1> USE DEF Typed, Rows
<1>1. PICK p \in Payments, a \in Amount :
        /\ payments[p] = Nothing /\ payments' = [payments EXCEPT ![p] = a]
        /\ \A b \in Bills :
             /\ bills'[b].paid = bills[b].paid + a[b]
             /\ bills'[b] = bills[b] \/ "ABSENT" \notin {bills[b].status, bills'[b].status}
  BY PaidBills
<1>2. UNCHANGED taken
  BY DEF MakePayment
<1>3. ASSUME NEW b \in Bills
      PROVE  /\ Backing(b)' = Backing(b) + a[b] /\ a[b] \in Nat
             /\ a[b] = 0 => \A q \in Payments : payments'[q][b] = payments[q][b]
  BY <1>1, <1>2, PaymentBacks DEF Amount
<1>4. Settles(a)
  BY <1>1, <1>2, <1>3 DEF Settles
<1> QED BY <1>4

LEMMA PlanSettles ==
  ASSUME Typed, NEW c \in Credits, NEW plan \in Amount, bills' = BillsAfter(plan),
         taken' = Takings(c, plan), UNCHANGED <<billed, payments>>
  PROVE  Settles(Amounts(plan))
<1> USE DEF Typed, Rows
<1>1. \A b \in Bills :
        /\ bills'[b].paid = bills[b].paid + Amounts(plan)[b]
        /\ bills'[b] = bills[b] \/ "ABSENT" \notin {bills[b].status, bills'[b].status}
  BY CreditedBills
<1>2. Amounts(plan) \in Amount
  BY AmountsAre
<1>3. /\ \A b \in Bills : taken'[c][b] = taken[c][b] + Amounts(plan)[b]
      /\ \A x \in Credits \ {c} : taken'[x] = taken[x]
  BY TakingsAre
<1>4. ASSUME NEW b \in Bills
      PROVE  /\ Backing(b)' = Backing(b) + Amounts(plan)[b] /\ Amounts(plan)[b] \in Nat
             /\ Amounts(plan)[b] = 0 => \A x \in Credits : taken'[x][b] = taken[x][b]
  <2> DEFINE n == Amounts(plan)
  <2>1. n \in Amount /\ (\A x \in Bills : taken'[c][x] = taken[c][x] + n[x])
    BY <1>2, <1>3
  <2> HIDE DEF n
  <2>2. /\ Backing(b)' = Backing(b) + n[b] /\ n[b] \in Nat
        /\ n[b] = 0 => \A x \in Credits : taken'[x][b] = taken[x][b]
    BY <1>3, <2>1, CreditBacks DEF Amount
  <2> QED BY <2>2 DEF n
<1> QED BY <1>1, <1>4 DEF Settles

\* Every step of the credits but a deletion puts something on bills, or nothing.
LEMMA CreditSettles ==
  ASSUME Typed, NEW w \in Workers, CreditStep(w), "delete_credit" \notin clients
  PROVE  \E n : Settles(n)
<1> USE DEF Typed, Rows
<1>1. CASE OpenCredit(w)
  <2>1. PICK c \in Credits : /\ PlanOf(c) \in Amount /\ bills' = BillsAfter(PlanOf(c))
                             /\ taken' = Takings(c, PlanOf(c))
    BY <1>1, OpenedCredit
  <2>2. UNCHANGED <<billed, payments>>
    BY <1>1, OpenedCredit
  <2> QED BY <2>1, <2>2, PlanSettles
<1>2. CASE PostSave(w)
  <2>1. /\ job[w].credit \in Credits /\ job[w].plan \in Amount
        /\ bills' = BillsAfter(job[w].plan) /\ taken' = Takings(job[w].credit, job[w].plan)
        /\ UNCHANGED <<billed, payments>>
    BY <1>2, PostedCredit
  <2> QED BY <2>1, PlanSettles
<1>3. CASE ~OpenCredit(w) /\ ~PostSave(w)
  <2>1. UNCHANGED <<bills, payments, taken>>
    BY <1>3 DEF CreditStep, ViewCredit, CreditLoadNew, CreateCredit, CreditEditLoad, CreditEditSave,
       DeleteCredit, ApproveCredit, VoidLocked, CreditLoad, VoidSave, money, Takes
  <2> QED BY <2>1, NothingSettles
<1> QED BY <1>1, <1>2, <1>3

\* No more is paid of a bill than has been put on it, and no edit remembers more.
Backed ==
  /\ \A b \in Bills : bills[b].paid <= Backing(b)
  /\ \A w \in Workers : At(w, "bill_save") /\ ~job[w].items =>
       job[w].row.paid <= Backing(job[w].bill)

\* Exactly that is paid, when bills are not edited: then a bill that is being saved is a
\* new one, which nothing has been put on and nobody else saves.
Matched ==
  /\ \A b \in Bills : IF bills[b].status = "ABSENT" THEN \A p \in Payments : payments[p][b] = 0
                      ELSE bills[b].paid = Backing(b)
  /\ \A w \in Workers : At(w, "bill_save") =>
       /\ job[w].items /\ bills[job[w].bill].status = "ABSENT"
       /\ NewBill(w, job[w].bill)
  /\ \A w \in Workers : At(w, "bill_approve") => bills[job[w].bill].status # "ABSENT"

\* Steps that save no bill and begin none.
Passes(w) ==
  /\ \A v \in Others(w) : job'[v] = job[v]
  /\ job'[w].step \notin {"bill_save", "bill_approve"}

LEMMA SettledBacked ==
  ASSUME Typed, Backed, NEW w \in Workers, Passes(w), NEW n, Settles(n)
  PROVE  Backed'
<1> USE DEF Typed, Rows
<1>1. \A b \in Bills : Backing(b) \in Nat /\ bills[b].paid \in Nat /\ n[b] \in Nat
  BY BackingIs, FairParts DEF BillTypes, Settles
<1>2. \A b \in Bills : bills'[b].paid <= Backing(b)'
  BY <1>1 DEF Settles, Backed
<1>3. ASSUME NEW v \in Workers, At(v, "bill_save")', ~job'[v].items
      PROVE  job'[v].row.paid <= Backing(job[v].bill)'
  <2>1. v \in Others(w)
    BY <1>3 DEF Passes, At, Others
  <2>2. job'[v] = job[v]
    BY <2>1 DEF Passes
  <2>3. PICK b : b = job[v].bill
    OBVIOUS
  <2>4. /\ b \in Bills /\ job[v].row.paid <= Backing(b) /\ job[v].row.paid \in Nat
    BY <1>3, <2>2, <2>3, FairParts DEF At, Backed, Jobs, JobShape, BillShape
  <2>5. job[v].row.paid <= Backing(b)'
    BY <1>1, <2>4 DEF Settles
  <2> QED BY <2>2, <2>3, <2>5
<1> QED BY <1>2, <1>3 DEF Backed

LEMMA SettledMatched ==
  ASSUME Typed, Matched, NEW w \in Workers, Passes(w), NEW n, Settles(n)
  PROVE  Matched'
<1> USE DEF Typed, Rows
<1>1. ASSUME NEW b \in Bills, bills[b].status = "ABSENT"
      PROVE  /\ bills'[b].status = "ABSENT"
             /\ \A p \in Payments : payments'[p][b] = payments[p][b]
             /\ \A c \in Credits : taken'[c][b] = taken[c][b]
  <2>1. bills'[b] = bills[b]
    BY <1>1 DEF Settles
  <2>2. n[b] = 0
    <3>1. n[b] \in Nat /\ bills'[b].paid = bills[b].paid + n[b]
      BY DEF Settles
    <3>2. bills[b].paid \in Nat
      BY FairParts DEF BillTypes
    <3>3. bills[b].paid = bills[b].paid + n[b]
      BY <2>1, <3>1
    <3> QED BY <3>1, <3>2, <3>3
  <2> QED BY <1>1, <2>1, <2>2 DEF Settles
<1>2. ASSUME NEW b \in Bills
      PROVE  IF bills'[b].status = "ABSENT" THEN \A p \in Payments : payments'[p][b] = 0
             ELSE bills'[b].paid = Backing(b)'
  <2>1. CASE bills[b].status = "ABSENT"
    BY <1>1, <2>1 DEF Matched
  <2>2. CASE bills[b].status # "ABSENT"
    <3>1. bills'[b].status # "ABSENT"
      BY <2>2 DEF Settles
    <3>2. bills'[b].paid = Backing(b)'
      BY <2>2 DEF Settles, Matched
    <3> QED BY <3>1, <3>2
  <2> QED BY <2>1, <2>2
<1>3. ASSUME NEW v \in Workers, job'[v].step \in {"bill_save", "bill_approve"}
      PROVE  job'[v] = job[v] /\ job[v].bill \in Bills
  <2>1. job'[v] = job[v]
    BY <1>3 DEF Passes, Others
  <2> QED BY <1>3, <2>1 DEF Jobs, JobShape, BillShape
<1>4. ASSUME NEW v \in Workers, At(v, "bill_save")'
      PROVE  /\ job'[v].items /\ bills'[job[v].bill].status = "ABSENT"
             /\ NewBill(v, job[v].bill)'
  <2>1. PICK b : b = job[v].bill
    OBVIOUS
  <2>2. job'[v] = job[v] /\ At(v, "bill_save") /\ b \in Bills /\ job'[v].bill = b
    BY <1>3, <1>4, <2>1 DEF At
  <2>3. job[v].items /\ bills[b].status = "ABSENT" /\ NewBill(v, b)
    BY <2>1, <2>2 DEF Matched
  <2>4. \A u \in Others(v) : ~(At(u, "bill_save")' /\ job'[u].bill = b)
    BY <1>3, <2>3 DEF NewBill, At, Others
  <2>5. NewBill(v, b)'
    BY <1>1, <2>2, <2>3, <2>4 DEF NewBill
  <2> QED BY <1>1, <2>1, <2>2, <2>3, <2>5 DEF NewBill
<1>5. ASSUME NEW v \in Workers, At(v, "bill_approve")'
      PROVE  bills'[job'[v].bill].status # "ABSENT"
  <2>1. PICK b : b = job[v].bill
    OBVIOUS
  <2>2. job'[v].bill = b /\ At(v, "bill_approve") /\ b \in Bills
    BY <1>3, <1>5, <2>1 DEF At
  <2>3. bills[b].status # "ABSENT"
    BY <2>1, <2>2 DEF Matched
  <2> QED BY <2>2, <2>3 DEF Settles
<1>6. \A v \in Workers : At(v, "bill_save")' => bills'[job'[v].bill].status = "ABSENT" /\ job'[v].items
  BY <1>3, <1>4 DEF At
<1>7. \A v \in Workers : At(v, "bill_save")' => NewBill(v, job[v].bill)'
  BY <1>4
<1> QED BY <1>2, <1>5, <1>6, <1>7 DEF Matched

\* Loading a bill.
LEMMA LoadedBacked ==
  ASSUME Typed, Backed, NEW w \in Workers, BillLoad(w) \/ BillHeaderLoad(w)
  PROVE  Backed'
<1> USE DEF Typed, Rows
<1>1. /\ UNCHANGED <<bills, payments, taken>>
      /\ \A v \in Others(w) : job'[v] = job[v]
      /\ job'[w].items \/ job'[w].row.paid = bills[job'[w].bill].paid
  BY LoadedBill DEF money, Acts, Serves
<1>2. job'[w].step = "bill_save" /\ job'[w].bill \in Bills
  BY LoadedBill DEF Acts, Serves, JobShape, BillShape
<1>3. \A b \in Bills : Backing(b)' = Backing(b)
  BY <1>1, BackingSame
<1>4. ASSUME NEW v \in Workers, At(v, "bill_save")', ~job'[v].items
      PROVE  job'[v].row.paid <= Backing(job[v].bill)'
  <2>1. PICK b : b = job'[v].bill
    OBVIOUS
  <2>2. CASE v = w
    <3>1. b \in Bills /\ job'[v].row.paid = bills[b].paid
      BY <1>1, <1>2, <1>4, <2>1, <2>2
    <3>2. job'[v].row.paid <= Backing(b)
      BY <3>1 DEF Backed
    <3> QED BY <1>3, <2>1, <3>1, <3>2
  <2>3. CASE v # w
    <3>1. job'[v] = job[v]
      BY <1>1, <2>3 DEF Others
    <3>2. b \in Bills /\ job[v].row.paid <= Backing(b)
      BY <1>4, <2>1, <3>1 DEF At, Backed, Jobs, JobShape, BillShape
    <3> QED BY <1>3, <2>1, <3>1, <3>2
  <2> QED BY <2>2, <2>3
<1> QED BY <1>1, <1>3, <1>4 DEF Backed

LEMMA LoadedMatched ==
  ASSUME Typed, Matched, NEW w \in Workers, BillLoad(w) \/ BillHeaderLoad(w),
         "edit_bill" \notin clients
  PROVE  Matched'
<1> USE DEF Typed, Rows
<1>0. PICK b : b = job'[w].bill
  OBVIOUS
<1>1. /\ UNCHANGED <<bills, payments, taken>>
      /\ \A v \in Others(w) : job'[v] = job[v]
      /\ job'[w].items /\ bills[b].status = "ABSENT" /\ NewBill(w, b)
  BY <1>0, LoadedBill DEF money, Acts, Serves, Takes
<1>2. job'[w].step = "bill_save" /\ b \in Bills
  BY <1>0, LoadedBill DEF Acts, Serves, JobShape, BillShape
<1>3. \A x \in Bills : Backing(x)' = Backing(x)
  BY <1>1, BackingSame
<1>4. \A x \in Bills : IF bills'[x].status = "ABSENT" THEN \A p \in Payments : payments'[p][x] = 0
                       ELSE bills'[x].paid = Backing(x)'
  BY <1>1, <1>3 DEF Matched
<1>5. ASSUME NEW v \in Workers, At(v, "bill_save")'
      PROVE  /\ job'[v].items /\ bills'[job'[v].bill].status = "ABSENT"
             /\ NewBill(v, job[v].bill)'
  <2>1. CASE v = w
    <3>1. \A u \in Others(w) : ~(At(u, "bill_save")' /\ job'[u].bill = b)
      BY <1>1 DEF NewBill, At
    <3>2. NewBill(w, b)'
      BY <1>1, <3>1 DEF NewBill
    <3> QED BY <1>0, <1>1, <2>1, <3>2 DEF NewBill
  <2>2. CASE v # w
    <3>1. job'[v] = job[v]
      BY <1>1, <2>2 DEF Others
    <3>2. PICK x : x = job[v].bill
      OBVIOUS
    <3>3. /\ job[v].items /\ bills[x].status = "ABSENT" /\ NewBill(v, x)
          /\ At(v, "bill_save")
      BY <1>5, <3>1, <3>2 DEF At, Matched
    <3>4. x # b
      BY <1>1, <2>2, <3>2, <3>3 DEF NewBill, Others
    <3>5. \A u \in Others(v) : ~(At(u, "bill_save")' /\ job'[u].bill = x)
      BY <1>0, <1>1, <3>3, <3>4 DEF NewBill, At, Others
    <3>6. NewBill(v, x)'
      BY <1>1, <3>3, <3>5 DEF NewBill
    <3> QED BY <1>1, <3>1, <3>2, <3>3, <3>6 DEF NewBill
  <2> QED BY <2>1, <2>2
<1>6. \A v \in Workers : At(v, "bill_approve")' => bills'[job'[v].bill].status # "ABSENT"
  BY <1>1, <1>2 DEF At, Matched, Others
<1> QED BY <1>4, <1>5, <1>6 DEF Matched

\* Saving a bill.
LEMMA SavedBacked ==
  ASSUME Typed, Backed, NEW w \in Workers, BillSave(w)
  PROVE  Backed'
<1> USE DEF Typed, Rows
<1>0. PICK b : b = job[w].bill
  OBVIOUS
<1>1. /\ b \in Bills /\ Acts(w) /\ job'[w] = Idle
      /\ IF job[w].items THEN bills'[b].paid = 0 ELSE bills'[b].paid = job[w].row.paid
      /\ \A x \in Bills \ {b} : bills'[x] = bills[x]
  BY <1>0, SavedBill
<1>2. UNCHANGED <<payments, taken>>
  BY DEF BillSave
<1>3. \A x \in Bills : Backing(x)' = Backing(x) /\ Backing(x) \in Nat
  BY <1>2, BackingSame, BackingIs
<1>4. \A x \in Bills : bills'[x].paid <= Backing(x)'
  <2>1. bills'[b].paid <= Backing(b)'
    <3>1. CASE job[w].items
      BY <1>1, <1>3, <3>1
    <3>2. CASE ~job[w].items
      BY <1>0, <1>1, <1>3, <3>2 DEF Backed, BillSave
    <3> QED BY <3>1, <3>2
  <2>2. \A x \in Bills \ {b} : bills'[x].paid <= Backing(x)'
    BY <1>1, <1>3 DEF Backed
  <2> QED BY <2>1, <2>2
<1>5. ASSUME NEW v \in Workers, At(v, "bill_save")', ~job'[v].items
      PROVE  job'[v].row.paid <= Backing(job[v].bill)'
  <2>1. job'[v] = job[v]
    BY <1>1, <1>5 DEF At, Acts, Serves, Others, Idle
  <2>2. PICK x : x = job[v].bill
    OBVIOUS
  <2>3. x \in Bills /\ job[v].row.paid <= Backing(x)
    BY <1>5, <2>1, <2>2 DEF At, Backed, Jobs, JobShape, BillShape
  <2> QED BY <1>3, <2>1, <2>2, <2>3
<1> QED BY <1>4, <1>5 DEF Backed

LEMMA SavedMatched ==
  ASSUME Typed, Matched, NEW w \in Workers, BillSave(w)
  PROVE  Matched'
<1> USE DEF Typed, Rows
<1>0. PICK b : b = job[w].bill
  OBVIOUS
<1>1. /\ job[w].items /\ bills[b].status = "ABSENT" /\ NewBill(w, b)
  BY <1>0 DEF Matched, BillSave
<1>2. /\ b \in Bills /\ Acts(w) /\ job'[w] = Idle
      /\ bills'[b].paid = 0 /\ bills'[b].status \in {"DRAFT", "UNMATCHED"}
      /\ \A x \in Bills \ {b} : bills'[x] = bills[x]
  <2>1. BillTypes /\ Jobs /\ BillSave(w) /\ w \in Workers
    OBVIOUS
  <2>2. job[w].items => bills'[b].paid = 0
    BY <1>0, <2>1, SavedBill
  <2>3. /\ b \in Bills /\ Acts(w) /\ job'[w] = Idle
        /\ bills'[b].status \in {"DRAFT", "UNMATCHED"}
        /\ \A x \in Bills \ {b} : bills'[x] = bills[x]
    BY <1>0, <2>1, SavedBill
  <2> QED BY <1>1, <2>2, <2>3
<1>3. UNCHANGED <<payments, taken>>
  BY DEF BillSave
<1>4. \A x \in Bills : Backing(x)' = Backing(x)
  BY <1>3, BackingSame
<1>5. Backing(b) = 0
  BY <1>1, <1>2, BackingIs DEF Matched, NewBill
<1>6. \A x \in Bills : IF bills'[x].status = "ABSENT" THEN \A p \in Payments : payments'[p][x] = 0
                       ELSE bills'[x].paid = Backing(x)'
  BY <1>2, <1>3, <1>4, <1>5 DEF Matched
<1>7. ASSUME NEW v \in Workers, job'[v].step \in {"bill_save", "bill_approve"}
      PROVE  v # w /\ job'[v] = job[v]
  BY <1>2, <1>7 DEF Acts, Serves, Others, Idle
<1>8. ASSUME NEW v \in Workers, At(v, "bill_save")'
      PROVE  /\ job'[v].items /\ bills'[job'[v].bill].status = "ABSENT"
             /\ NewBill(v, job[v].bill)'
  <2>1. v # w /\ job'[v] = job[v]
    BY <1>7, <1>8 DEF At
  <2>2. PICK x : x = job[v].bill
    OBVIOUS
  <2>3. /\ job[v].items /\ bills[x].status = "ABSENT" /\ NewBill(v, x) /\ At(v, "bill_save")
        /\ x \in Bills
    BY <1>8, <2>1, <2>2 DEF At, Matched, Jobs, JobShape, BillShape
  <2>4. x # b
    BY <1>1, <2>1, <2>2, <2>3 DEF NewBill, Others, At
  <2>5. \A u \in Others(v) : ~(At(u, "bill_save")' /\ job'[u].bill = x)
    BY <1>7, <2>3 DEF NewBill, At, Others
  <2>6. NewBill(v, x)'
    BY <1>3, <2>3, <2>5 DEF NewBill
  <2> QED BY <1>2, <2>1, <2>2, <2>3, <2>4, <2>6 DEF NewBill
<1>9. ASSUME NEW v \in Workers, At(v, "bill_approve")'
      PROVE  bills'[job'[v].bill].status # "ABSENT"
  <2>1. PICK x : x = job[v].bill
    OBVIOUS
  <2>2. job'[v].bill = x /\ At(v, "bill_approve")
    BY <1>7, <1>9, <2>1 DEF At
  <2>3. x \in Bills /\ bills[x].status # "ABSENT"
    BY <2>1, <2>2 DEF Matched, At, Jobs, JobShape, BillShape
  <2> QED BY <1>2, <2>2, <2>3
<1> QED BY <1>6, <1>8, <1>9 DEF Matched

\* Approving a bill and deleting one.
ApprovedOrDeleted(w) ==
  /\ \A v \in Others(w) : job'[v] = job[v]
  /\ job'[w].step = "idle"
  /\ UNCHANGED <<payments, taken>>
  /\ \E b \in Bills :
       /\ BillFree(w, b)
       /\ \/ /\ At(w, "bill_approve") /\ b = job[w].bill
             /\ bills'[b].paid = bills[b].paid /\ bills'[b].status # "ABSENT"
          \/ bills'[b] = NoBill /\ \A p \in Payments : payments[p][b] = 0
       /\ \A x \in Bills \ {b} : bills'[x] = bills[x]

LEMMA ApprovedOrDeletedBacked ==
  ASSUME Typed, Backed, NEW w \in Workers, ApprovedOrDeleted(w)
  PROVE  Backed'
<1> USE DEF Typed, Rows, ApprovedOrDeleted
<1>1. \A x \in Bills : Backing(x)' = Backing(x) /\ Backing(x) \in Nat
  BY BackingSame, BackingIs
<1>2. \A x \in Bills : bills'[x].paid <= bills[x].paid
  BY FairParts, FairNoBill DEF BillTypes
<1>3. \A x \in Bills : bills'[x].paid \in Nat /\ bills[x].paid \in Nat
  BY FairParts, FairNoBill DEF BillTypes
<1>4. \A x \in Bills : bills'[x].paid <= Backing(x)'
  BY <1>1, <1>2, <1>3 DEF Backed
<1>5. ASSUME NEW v \in Workers, At(v, "bill_save")', ~job'[v].items
      PROVE  job'[v].row.paid <= Backing(job[v].bill)'
  <2>1. job'[v] = job[v]
    BY <1>5 DEF At, Others
  <2>2. PICK x : x = job[v].bill
    OBVIOUS
  <2>3. x \in Bills /\ job[v].row.paid <= Backing(x)
    BY <1>5, <2>1, <2>2 DEF At, Backed, Jobs, JobShape, BillShape
  <2> QED BY <1>1, <2>1, <2>2, <2>3
<1> QED BY <1>4, <1>5 DEF Backed

LEMMA ApprovedOrDeletedMatched ==
  ASSUME Typed, Matched, NEW w \in Workers, ApprovedOrDeleted(w)
  PROVE  Matched'
<1> USE DEF Typed, Rows
<1>1. /\ \A v \in Others(w) : job'[v] = job[v]
      /\ job'[w].step = "idle"
      /\ UNCHANGED <<payments, taken>>
  BY DEF ApprovedOrDeleted
<1>2. PICK b \in Bills :
        /\ BillFree(w, b)
        /\ \/ bills'[b].paid = bills[b].paid /\ bills'[b].status # "ABSENT" /\ bills[b].status # "ABSENT"
           \/ bills'[b] = NoBill /\ \A p \in Payments : payments[p][b] = 0
        /\ \A x \in Bills \ {b} : bills'[x] = bills[x]
  <2>1. PICK b \in Bills :
          /\ BillFree(w, b)
          /\ \/ /\ At(w, "bill_approve") /\ b = job[w].bill
                /\ bills'[b].paid = bills[b].paid /\ bills'[b].status # "ABSENT"
             \/ bills'[b] = NoBill /\ \A p \in Payments : payments[p][b] = 0
          /\ \A x \in Bills \ {b} : bills'[x] = bills[x]
    BY DEF ApprovedOrDeleted
  <2>2. At(w, "bill_approve") /\ b = job[w].bill => bills[b].status # "ABSENT"
    BY DEF Matched
  <2> QED BY <2>1, <2>2
<1>3. \A x \in Bills : Backing(x)' = Backing(x)
  BY <1>1, BackingSame
<1>4. \A x \in Bills : IF bills'[x].status = "ABSENT" THEN \A p \in Payments : payments'[p][x] = 0
                       ELSE bills'[x].paid = Backing(x)'
  BY <1>1, <1>2, <1>3, NoBillTyped DEF Matched
<1>5. ASSUME NEW v \in Workers, job'[v].step \in {"bill_save", "bill_approve"}
      PROVE  v \in Others(w) /\ job'[v] = job[v] /\ job[v].bill \in Bills
  <2>1. v \in Others(w) /\ job'[v] = job[v]
    BY <1>1, <1>5 DEF Others
  <2> QED BY <1>5, <2>1 DEF Jobs, JobShape, BillShape
<1>6. ASSUME NEW v \in Workers, At(v, "bill_save")'
      PROVE  /\ job'[v].items /\ bills'[job'[v].bill].status = "ABSENT"
             /\ NewBill(v, job[v].bill)'
  <2>1. PICK x : x = job[v].bill
    OBVIOUS
  <2>2. /\ job[v].items /\ bills[x].status = "ABSENT" /\ NewBill(v, x) /\ At(v, "bill_save")
        /\ x \in Bills /\ job'[v] = job[v]
    BY <1>5, <1>6, <2>1 DEF At, Matched
  <2>3. bills'[x].status = "ABSENT"
    BY <1>2, <2>2, NoBillTyped
  <2>4. \A u \in Others(v) : ~(At(u, "bill_save")' /\ job'[u].bill = x)
    BY <1>5, <2>2 DEF NewBill, At, Others
  <2>5. NewBill(v, x)'
    BY <1>1, <2>2, <2>4 DEF NewBill
  <2> QED BY <2>1, <2>2, <2>3, <2>5 DEF NewBill
<1>7. ASSUME NEW v \in Workers, At(v, "bill_approve")'
      PROVE  bills'[job'[v].bill].status # "ABSENT"
  <2>1. PICK x : x = job[v].bill
    OBVIOUS
  <2>2. job'[v].bill = x /\ At(v, "bill_approve") /\ x \in Bills /\ v \in Others(w)
    BY <1>5, <1>7, <2>1 DEF At
  <2>3. bills[x].status # "ABSENT"
    BY <2>1, <2>2 DEF Matched
  <2>4. x # b
    BY <1>2, <2>1, <2>2 DEF BillFree
  <2> QED BY <1>2, <2>2, <2>3, <2>4
<1> QED BY <1>4, <1>6, <1>7 DEF Matched

LEMMA ApprovalsAndDeletions ==
  ASSUME Typed, NEW w \in Workers, ApproveSave(w) \/ DeleteBill(w)
  PROVE  ApprovedOrDeleted(w)
<1> USE DEF Typed, Rows
<1>1. CASE ApproveSave(w)
  <2>1. PICK b : b = job[w].bill
    OBVIOUS
  <2>2. /\ b \in Bills /\ BillFree(w, b) /\ Acts(w) /\ job'[w] = Idle
        /\ bills'[b].paid = bills[b].paid /\ bills'[b].status # "ABSENT"
        /\ \A x \in Bills \ {b} : bills'[x] = bills[x]
    BY <1>1, <2>1, ApprovedBill
  <2>3. At(w, "bill_approve") /\ UNCHANGED <<payments, taken>>
    BY <1>1 DEF ApproveSave
  <2> QED BY <2>1, <2>2, <2>3 DEF ApprovedOrDeleted, Acts, Serves, Idle
<1>2. CASE DeleteBill(w)
  <2>1. /\ Acts(w) /\ UNCHANGED <<job, payments, taken>>
        /\ \E b \in Bills :
             /\ BillFree(w, b)
             /\ \A p \in Payments : payments[p][b] = 0
             /\ bills'[b] = NoBill
             /\ \A x \in Bills \ {b} : bills'[x] = bills[x]
    BY <1>2, DeletedBill
  <2>2. job[w].step = "idle"
    BY <1>2 DEF DeleteBill, Takes
  <2> QED BY <2>1, <2>2 DEF ApprovedOrDeleted, Acts, Serves
<1> QED BY <1>1, <1>2

LEMMA ApprovingBacked ==
  ASSUME Typed, NEW w \in Workers, ApproveLoad(w)
  PROVE  /\ Backed => Backed'
         /\ Matched => Matched'
<1> USE DEF Typed, Rows
<1>1. /\ UNCHANGED <<bills, payments, taken>>
      /\ \A v \in Others(w) : job'[v] = job[v]
      /\ job'[w].step = "bill_approve" /\ bills[job'[w].bill].status # "ABSENT"
  BY ApprovalBegun DEF money, Serves, Approvable
<1>2. \A x \in Bills : Backing(x)' = Backing(x)
  BY <1>1, BackingSame
<1>3. ASSUME NEW v \in Workers, At(v, "bill_save")'
      PROVE  v \in Others(w) /\ job'[v] = job[v] /\ job[v].bill \in Bills /\ At(v, "bill_save")
  <2>1. v \in Others(w) /\ job'[v] = job[v]
    BY <1>1, <1>3 DEF At, Others
  <2> QED BY <1>3, <2>1 DEF At, Jobs, JobShape, BillShape
<1>4. ASSUME Backed
      PROVE  Backed'
  <2>1. \A b \in Bills : bills'[b].paid <= Backing(b)'
    BY <1>1, <1>2, <1>4 DEF Backed
  <2>2. ASSUME NEW v \in Workers, At(v, "bill_save")', ~job'[v].items
        PROVE  job'[v].row.paid <= Backing(job[v].bill)'
    <3>1. PICK x : x = job[v].bill
      OBVIOUS
    <3>2. x \in Bills /\ job'[v] = job[v] /\ job[v].row.paid <= Backing(x)
      BY <1>3, <1>4, <2>2, <3>1 DEF Backed
    <3> QED BY <1>2, <3>1, <3>2
  <2> QED BY <2>1, <2>2 DEF Backed
<1>5. ASSUME Matched
      PROVE  Matched'
  <2>1. \A x \in Bills : IF bills'[x].status = "ABSENT" THEN \A p \in Payments : payments'[p][x] = 0
                         ELSE bills'[x].paid = Backing(x)'
    BY <1>1, <1>2, <1>5 DEF Matched
  <2>2. ASSUME NEW v \in Workers, At(v, "bill_save")'
        PROVE  /\ job'[v].items /\ bills'[job'[v].bill].status = "ABSENT"
               /\ NewBill(v, job[v].bill)'
    <3>1. PICK x : x = job[v].bill
      OBVIOUS
    <3>2. /\ job[v].items /\ bills[x].status = "ABSENT" /\ NewBill(v, x)
          /\ job'[v] = job[v]
      BY <1>3, <1>5, <2>2, <3>1 DEF Matched
    <3>3. \A u \in Others(v) : ~(At(u, "bill_save")' /\ job'[u].bill = x)
      BY <1>1, <3>2 DEF NewBill, At, Others
    <3>4. NewBill(v, x)'
      BY <1>1, <3>2, <3>3 DEF NewBill
    <3> QED BY <1>1, <3>1, <3>2, <3>4 DEF NewBill
  <2>3. ASSUME NEW v \in Workers, At(v, "bill_approve")'
        PROVE  bills'[job'[v].bill].status # "ABSENT"
    <3>1. CASE v = w
      BY <1>1, <3>1
    <3>2. CASE v # w
      <4>1. job'[v] = job[v]
        BY <1>1, <3>2 DEF Others
      <4> QED BY <1>1, <1>5, <2>3, <4>1 DEF At, Matched
    <3> QED BY <3>1, <3>2
  <2> QED BY <2>1, <2>2, <2>3 DEF Matched
<1> QED BY <1>4, <1>5

\* Steps that are not about bills.
LEMMA Settling ==
  ASSUME Typed, NEW w \in Workers,
         \/ Goods(w) \/ ReturnStep(w) \/ ExpenseStep(w)
         \/ CreditStep(w) /\ "delete_credit" \notin clients
         \/ MakePayment(w)
  PROVE  Passes(w) /\ \E n : Settles(n)
<1> USE DEF Typed, Rows
<1>1. CASE Goods(w) \/ ReturnStep(w) \/ ExpenseStep(w)
  <2>1. Passes(w)
    BY <1>1, EveryStep DEF Moves, Passes, GoodsSteps, ReturnSteps, ExpenseSteps
  <2>2. UNCHANGED <<bills, payments, taken>>
    <3>1. CASE Goods(w) \/ ExpenseStep(w)
      BY <3>1, ExpensesKept DEF Goods, money, Rest
    <3>2. CASE ReturnStep(w)
      BY <3>2 DEF ReturnStep, CreateReturn, ReturnStatusLoad, ReturnEditLoad, ReturnSave,
         ReturnApproveLoad, ReturnApproveSave, DeleteReturn, money
    <3> QED BY <1>1, <3>1, <3>2
  <2> QED BY <2>1, <2>2, NothingSettles
<1>2. CASE CreditStep(w) /\ "delete_credit" \notin clients
  <2>1. Passes(w)
    BY <1>2, EveryStep DEF Moves, Passes, CreditSteps
  <2> QED BY <1>2, <2>1, CreditSettles
<1>3. CASE MakePayment(w)
  <2>1. job[w].step = "idle" /\ UNCHANGED job
    BY <1>3 DEF MakePayment, Takes
  <2>2. Passes(w)
    BY <2>1 DEF Passes
  <2> QED BY <1>3, <2>2, PaymentSettles
<1> QED BY <1>1, <1>2, <1>3

\* What backs a bill, when no payment and no credit is deleted, and when no bill is
\* edited besides.
BackedFit == {"delete_payment", "delete_credit"} \intersect clients = {} => Backed
MatchedFit ==
  {"delete_payment", "delete_credit", "edit_bill"} \intersect clients = {} => Matched

LEMMA BackedStep ==
  ASSUME Typed, BackedFit, MatchedFit, [AllNext]_allVars
  PROVE  BackedFit' /\ MatchedFit'
<1> USE DEF Typed, Rows
<1>1. CASE UNCHANGED allVars
  <2>1. UNCHANGED <<clients, job, bills, payments, taken>>
    BY <1>1 DEF allVars, vars, money
  <2>2. \A x \in Bills : Backing(x)' = Backing(x)
    BY <2>1, BackingSame
  <2>3. \A w \in Workers : At(w, "bill_save") => job[w].bill \in Bills
    BY DEF Jobs, JobShape, BillShape, At
  <2>4. Backed => Backed'
    BY <2>1, <2>2, <2>3 DEF Backed, At
  <2>5. Matched => Matched'
    BY <2>1, <2>2 DEF Matched, At, NewBill
  <2> QED BY <2>1, <2>4, <2>5 DEF BackedFit, MatchedFit
<1>2. ASSUME NEW w \in Workers,
             Goods(w) \/ BillStep(w) \/ ReturnStep(w) \/ CreditStep(w) \/ ExpenseStep(w)
      PROVE  BackedFit' /\ MatchedFit'
  <2>1. UNCHANGED clients
    BY <1>2, EveryStep DEF Moves
  <2>2. CASE \/ Goods(w) \/ ReturnStep(w) \/ ExpenseStep(w)
             \/ CreditStep(w) /\ "delete_credit" \notin clients
             \/ MakePayment(w)
    <3>1. PICK n : Passes(w) /\ Settles(n)
      BY <2>2, Settling
    <3> QED BY <2>1, <3>1, SettledBacked, SettledMatched DEF BackedFit, MatchedFit
  <2>3. CASE CreditStep(w) /\ "delete_credit" \in clients
    BY <2>1, <2>3 DEF BackedFit, MatchedFit
  <2>4. CASE BillLoad(w) \/ BillHeaderLoad(w)
    BY <2>1, <2>4, LoadedBacked, LoadedMatched DEF BackedFit, MatchedFit
  <2>5. CASE BillSave(w)
    BY <2>1, <2>5, SavedBacked, SavedMatched DEF BackedFit, MatchedFit
  <2>6. CASE ApproveLoad(w)
    BY <2>1, <2>6, ApprovingBacked DEF BackedFit, MatchedFit
  <2>7. CASE ApproveSave(w) \/ DeleteBill(w)
    BY <2>1, <2>7, ApprovalsAndDeletions, ApprovedOrDeletedBacked, ApprovedOrDeletedMatched
       DEF BackedFit, MatchedFit
  <2>8. CASE DeletePayment(w)
    <3>1. "delete_payment" \in clients
      BY <2>8 DEF DeletePayment, Takes
    <3> QED BY <2>1, <3>1 DEF BackedFit, MatchedFit
  <2> QED BY <1>2, <2>2, <2>3, <2>4, <2>5, <2>6, <2>7, <2>8 DEF BillStep
<1> QED BY <1>1, <1>2, StepCases

LEMMA BackedInit ==
  ASSUME AllInit
  PROVE  BackedFit /\ MatchedFit
<1>1. Typed
  BY TypedInit
<1>2. /\ bills = [b \in Bills |-> NoBill] /\ payments = [p \in Payments |-> Nothing]
      /\ taken = [c \in Credits |-> Nothing] /\ job = [w \in Workers |-> Idle]
  BY DEF AllInit, Init, ReceivingInit
<1>3. \A b \in Bills : bills[b].paid = 0 /\ bills[b].status = "ABSENT"
  BY <1>2 DEF NoBill
<1>4. \A b \in Bills : \A p \in Payments : payments[p][b] = 0
  BY <1>2 DEF Nothing
<1>5. \A w \in Workers : job[w].step = "idle"
  BY <1>2 DEF Idle
<1>6. \A b \in Bills : Backing(b) \in Nat
  BY <1>1, BackingIs DEF Typed, Rows
<1>7. Backed
  BY <1>3, <1>5, <1>6 DEF Backed, At
<1>8. Matched
  BY <1>3, <1>4, <1>5 DEF Matched, At
<1> QED BY <1>7, <1>8 DEF BackedFit, MatchedFit

----
(* What credits take off bills. *)

\* A credit that says what it has taken, all of it out of its lines, and nothing
\* before it is posted nor after it is void.
Accounted(row, plan, off) ==
  /\ Total(off) = row.applied
  /\ Total(plan) <= row.lines /\ row.applied <= row.lines
  /\ row.lines # 0 => row.total = row.lines
  /\ row.status = "DRAFT" => ~row.posted
  /\ row.status = "VOID" \/ ~row.posted => row.applied = 0
  /\ row.status = "ABSENT" => row.lines = 0

CreditsSound == \A c \in Credits : Accounted(credits[c], planned[c], taken[c])

\* Whoever is about to create a credit is alone with it, and creates an accounted one.
CreditsNew ==
  \A w \in Workers : At(w, "credit_new") =>
    /\ credits[job[w].credit].status = "ABSENT"
    /\ Accounted(job[w].row, job[w].plan, Nothing)
    /\ \A v \in Others(w) : ~(At(v, "credit_new") /\ job[v].credit = job[w].credit)

LEMMA TotalNothing == Total(Nothing) = 0
<1>1. IsFiniteSet(Bills) /\ \A b \in Bills : Nothing[b] = 0
  BY PayablesAssumption DEF Nothing
<1> QED BY <1>1, SumZeros DEF Total

LEMMA TotalAmounts ==
  ASSUME BillTypes, NEW plan \in Amount
  PROVE  Total(Amounts(plan)) \in Nat /\ Total(Amounts(plan)) <= Total(plan)
<1> DEFINE a == Amounts(plan)
<1>1. IsFiniteSet(Bills)
  BY PayablesAssumption
<1>2. a \in Amount /\ \A b \in Bills : a[b] <= plan[b]
  BY AmountsAre
<1> HIDE DEF a
<1>3. \A b \in Bills : a[b] \in Int /\ plan[b] \in Int /\ a[b] <= plan[b]
  BY <1>2 DEF Amount
<1>4. Total(a) <= Total(plan)
  BY <1>1, <1>3, SumLess DEF Total
<1>5. Total(a) \in Nat
  BY <1>2, TotalTyped
<1> QED BY <1>4, <1>5 DEF a

LEMMA TotalTaken ==
  ASSUME BillTypes, CreditTypes, NEW c \in Credits, NEW plan \in Amount, taken' = Takings(c, plan)
  PROVE  /\ Total(taken'[c]) = Total(taken[c]) + Total(Amounts(plan))
         /\ \A x \in Credits \ {c} : taken'[x] = taken[x]
<1> DEFINE f == taken[c]
           g == Amounts(plan)
           h == taken'[c]
<1>1. IsFiniteSet(Bills)
  BY PayablesAssumption
<1>2. /\ \A b \in Bills : h[b] = f[b] + g[b]
      /\ \A x \in Credits \ {c} : taken'[x] = taken[x]
  BY TakingsAre
<1>3. f \in Amount /\ g \in Amount
  BY AmountsAre DEF CreditTypes
<1> HIDE DEF f, g, h
<1>4. \A b \in Bills : f[b] \in Int /\ g[b] \in Int /\ h[b] = f[b] + g[b]
  BY <1>2, <1>3 DEF Amount
<1>5. Total(h) = Total(f) + Total(g)
  BY <1>1, <1>4, SumPlus DEF Total
<1> QED BY <1>2, <1>5 DEF f, g, h

LEMMA SyncedAccounted ==
  ASSUME BillTypes, ReturnTypes, CreditTypes, NEW c \in Credits,
         credits[c].status # "ABSENT", Accounted(credits[c], planned[c], taken[c])
  PROVE  Accounted(Synced(c), PlanOf(c), taken[c])
<1>1. CASE ~Linked(c)
  BY <1>1 DEF Synced, PlanOf
<1>2. CASE Linked(c)
  <2> DEFINE r == credits[c]
             s == Synced(c)
             n == LinesOf(c)
             plan == PlanOf(c)
  <2>1. /\ s.status = r.status /\ (s.posted <=> r.posted)
        /\ n \in Nat /\ s.lines = n /\ s.total = n
        /\ r.lines # 0 => n = r.lines
        /\ s.applied = IF r.posted THEN r.applied ELSE 0
        /\ plan = planned[c] \/ Total(plan) <= n
    BY <1>2, SyncedIs
  <2>2. /\ r.lines \in Nat /\ r.applied \in Nat /\ Total(planned[c]) \in Nat /\ r.status # "ABSENT"
    BY CreditParts, TotalTyped DEF CreditTypes
  <2>3. /\ Total(taken[c]) = r.applied
        /\ Total(planned[c]) <= r.lines /\ r.applied <= r.lines
        /\ r.status = "DRAFT" => ~r.posted
        /\ r.status = "VOID" \/ ~r.posted => r.applied = 0
    BY DEF Accounted
  <2> HIDE DEF r, s, n, plan
  <2>4. s.applied = r.applied
    BY <2>1, <2>3
  <2>5. r.lines <= n
    BY <2>1, <2>2
  <2>6. Total(plan) <= n
    <3>1. CASE plan = planned[c]
      BY <2>1, <2>2, <2>3, <2>5, <3>1
    <3>2. CASE plan # planned[c]
      BY <2>1, <3>2
    <3> QED BY <3>1, <3>2
  <2>7. s.applied <= n
    BY <2>1, <2>2, <2>3, <2>4, <2>5
  <2>8. Accounted(s, plan, taken[c])
    BY <2>1, <2>2, <2>3, <2>4, <2>6, <2>7 DEF Accounted
  <2> QED BY <2>8 DEF s, plan
<1> QED BY <1>1, <1>2

\* One credit is saved.
LEMMA SoundSaved ==
  ASSUME CreditsSound, NEW c \in Credits, NEW row, NEW plan, CreditSaved(c, row, plan),
         Accounted(row, plan, taken'[c]), \A x \in Credits \ {c} : taken'[x] = taken[x]
  PROVE  CreditsSound'
<1> SUFFICES ASSUME NEW x \in Credits
             PROVE  Accounted(credits'[x], planned'[x], taken'[x])
  BY DEF CreditsSound, Accounted, Total
<1>1. CASE x = c
  BY <1>1 DEF CreditSaved
<1>2. CASE x # c
  BY <1>2 DEF CreditSaved, CreditsSound
<1> QED BY <1>1, <1>2

\* Requests that are about to create credits are not disturbed.
LEMMA NewCreditsKept ==
  ASSUME CreditsNew, NEW w \in Workers, \A v \in Others(w) : job'[v] = job[v],
         job'[w].step # "credit_new",
         \A v \in Others(w) : At(v, "credit_new") => credits'[job[v].credit].status = "ABSENT"
  PROVE  CreditsNew'
<1> SUFFICES ASSUME NEW v \in Workers, At(v, "credit_new")'
             PROVE  /\ credits'[job'[v].credit].status = "ABSENT"
                    /\ Accounted(job'[v].row, job'[v].plan, Nothing)
                    /\ \A u \in Others(v) : ~(At(u, "credit_new")' /\ job'[u].credit = job'[v].credit)
  BY DEF CreditsNew, Accounted, Total, Nothing
<1>1. v \in Others(w) /\ job'[v] = job[v] /\ At(v, "credit_new")
  BY DEF At, Others
<1> QED BY <1>1 DEF CreditsNew, At, Others

CreditsFit == CreditsSound /\ CreditsNew

LEMMA SoundViewed ==
  ASSUME Typed, CreditsFit, NEW w \in Workers, ViewCredit(w) \/ VoidLocked(w) \/ ApproveCredit(w)
  PROVE  CreditsFit'
<1> USE DEF Typed, Rows, CreditsFit
<1>1. /\ Acts(w) /\ UNCHANGED <<job, taken>>
      /\ \E c \in Credits : \E row \in CreditRow :
           /\ credits[c].status # "ABSENT"
           /\ CreditSaved(c, row, PlanOf(c))
           /\ Accounted(row, PlanOf(c), taken[c])
  <2>1. CASE ViewCredit(w)
    <3>1. PICK c \in Credits : credits[c].status # "ABSENT" /\ CreditSaved(c, Synced(c), PlanOf(c))
      BY <2>1, ViewedCredit
    <3>2. Accounted(Synced(c), PlanOf(c), taken[c])
      BY <3>1, SyncedAccounted DEF CreditsSound
    <3>3. Synced(c) \in CreditRow
      BY SyncedIs
    <3> QED BY <2>1, <3>1, <3>2, <3>3, ViewedCredit
  <2>2. CASE VoidLocked(w)
    <3>1. PICK c \in Credits : /\ credits[c].status \notin {"ABSENT", "VOID"}
                               /\ Synced(c).applied = 0
                               /\ CreditSaved(c, VoidRow(Synced(c)), PlanOf(c))
      BY <2>2, VoidedCredit
    <3> DEFINE s == Synced(c)
               r == VoidRow(s)
    <3>2. Accounted(s, PlanOf(c), taken[c])
      BY <3>1, SyncedAccounted DEF CreditsSound
    <3>3. s \in CreditRow
      BY SyncedIs
    <3>4. s.applied = 0
      BY <3>1
    <3> HIDE DEF s
    <3>5. /\ r \in CreditRow /\ r.status = "VOID" /\ r.lines = s.lines /\ r.total = s.total
          /\ r.applied = s.applied
      BY <3>3, VoidTyped
    <3> HIDE DEF r
    <3>6. Accounted(r, PlanOf(c), taken[c])
      BY <3>2, <3>4, <3>5 DEF Accounted
    <3> QED BY <2>2, <3>1, <3>5, <3>6, VoidedCredit DEF r, s
  <2>3. CASE ApproveCredit(w)
    <3>1. PICK c \in Credits : /\ credits[c].status = "OPEN" /\ ~credits[c].posted
                               /\ CreditSaved(c, ApprovedRow(Synced(c)), PlanOf(c))
      BY <2>3, ApprovedCredit
    <3> DEFINE s == Synced(c)
               r == ApprovedRow(s)
    <3>2. Accounted(s, PlanOf(c), taken[c])
      BY <3>1, SyncedAccounted DEF CreditsSound
    <3>3. s \in CreditRow /\ ~s.posted
      BY <3>1, SyncedIs
    <3> HIDE DEF s
    <3>4. s.applied = 0
      BY <3>2, <3>3 DEF Accounted
    <3>5. /\ r \in CreditRow /\ r.status = "APPROVED" /\ r.lines = s.lines /\ r.total = s.total
          /\ r.applied = 0
      BY <3>3, ApprovedTyped
    <3> HIDE DEF r
    <3>6. Accounted(r, PlanOf(c), taken[c])
      BY <3>2, <3>4, <3>5 DEF Accounted
    <3> QED BY <2>3, <3>1, <3>5, <3>6, ApprovedCredit DEF r, s
  <2> QED BY <2>1, <2>2, <2>3
<1>2. PICK c \in Credits, row \in CreditRow :
        /\ credits[c].status # "ABSENT"
        /\ CreditSaved(c, row, PlanOf(c))
        /\ Accounted(row, PlanOf(c), taken[c])
  BY <1>1
<1>3. CreditsSound'
  BY <1>1, <1>2, SoundSaved
<1>4. \A v \in Others(w) : At(v, "credit_new") => credits'[job[v].credit].status = "ABSENT"
  BY <1>2 DEF CreditSaved, CreditsNew, Others, At, Jobs, JobShape, CreditShape, Credits
<1>5. job[w].step = "idle"
  BY DEF ViewCredit, VoidLocked, ApproveCredit, Takes
<1> QED BY <1>1, <1>3, <1>4, <1>5, NewCreditsKept

LEMMA SoundOpened ==
  ASSUME Typed, CreditsFit, NEW w \in Workers, OpenCredit(w)
  PROVE  CreditsFit'
<1> USE DEF Typed, Rows, CreditsFit
<1>1. PICK c \in Credits :
        /\ Openable(c) /\ PlanOf(c) \in Amount
        /\ CreditSaved(c, Applied(Synced(c), Total(Amounts(PlanOf(c)))), PlanOf(c))
        /\ taken' = Takings(c, PlanOf(c))
  BY OpenedCredit
<1> DEFINE s == Synced(c)
           plan == PlanOf(c)
           n == Total(Amounts(plan))
           r == Applied(s, n)
<1>2. /\ credits[c].status \in {"DRAFT", "OPEN"} /\ ~credits[c].posted
  BY <1>1 DEF Openable, CreditsSound, Accounted
<1>3. Accounted(s, plan, taken[c])
  BY <1>2, SyncedAccounted DEF CreditsSound
<1>4. s \in CreditRow /\ ~s.posted
  BY <1>2, SyncedIs
<1>5. /\ Total(taken'[c]) = Total(taken[c]) + n
      /\ \A x \in Credits \ {c} : taken'[x] = taken[x]
      /\ n \in Nat /\ n <= Total(plan) /\ Total(plan) \in Nat
  BY <1>1, TotalTaken, TotalAmounts, TotalTyped
<1> HIDE DEF s, plan, n
<1>6. Total(taken[c]) = 0 /\ Total(plan) <= s.lines /\ s.lines \in Nat
  BY <1>3, <1>4, CreditParts DEF Accounted
<1>7. /\ r \in CreditRow /\ r.status \notin {"DRAFT", "ABSENT", "VOID"}
      /\ r.lines = s.lines /\ r.total = s.total /\ r.applied = n /\ r.posted
  BY <1>4, <1>5, AppliedTyped
<1> HIDE DEF r
<1>8. Total(taken'[c]) = n /\ n <= s.lines
  BY <1>5, <1>6
<1>9. Accounted(r, plan, taken'[c])
  BY <1>3, <1>7, <1>8 DEF Accounted
<1>10. CreditSaved(c, r, plan)
  BY <1>1 DEF r, n, s, plan
<1>11. CreditsSound'
  BY <1>5, <1>9, <1>10, SoundSaved
<1>12. \A v \in Others(w) : At(v, "credit_new") => credits'[job[v].credit].status = "ABSENT"
  BY <1>2, <1>10 DEF CreditSaved, CreditsNew, Others, At, Jobs, JobShape, CreditShape, Credits
<1>13. job[w].step = "idle" /\ UNCHANGED job
  BY DEF OpenCredit, Takes
<1> QED BY <1>11, <1>12, <1>13, NewCreditsKept

LEMMA SoundDeleted ==
  ASSUME Typed, CreditsFit, NEW w \in Workers, DeleteCredit(w)
  PROVE  CreditsFit'
<1> USE DEF Typed, Rows, CreditsFit
<1>1. PICK c \in Credits : /\ CreditSaved(c, NoCredit, Nothing) /\ taken'[c] = Nothing
                           /\ \A x \in Credits \ {c} : taken'[x] = taken[x]
  BY DeletedCredit
<1>2. Accounted(NoCredit, Nothing, Nothing)
  BY NoCreditTyped, TotalNothing DEF Accounted
<1>3. CreditsSound'
  BY <1>1, <1>2, SoundSaved
<1>4. \A v \in Others(w) : At(v, "credit_new") => credits'[job[v].credit].status = "ABSENT"
  BY <1>1, NoCreditTyped DEF CreditSaved, CreditsNew, Others, At, Jobs, JobShape, CreditShape, Credits
<1>5. job[w].step = "idle" /\ UNCHANGED job
  BY DEF DeleteCredit, Takes
<1> QED BY <1>3, <1>4, <1>5, NewCreditsKept

LEMMA SoundLoaded ==
  ASSUME Typed, CreditsFit, NEW w \in Workers, CreditLoadNew(w)
  PROVE  CreditsFit'
<1> USE DEF Typed, Rows, CreditsFit
<1>1. PICK c \in ManualCredits, r \in Returns, total \in Nat :
        /\ credits[c].status = "ABSENT" /\ NewCredit(c)
        /\ job'[w].step = "credit_new" /\ job'[w].credit = c
        /\ job'[w].row = Drafted(r, total) /\ Total(job'[w].plan) <= total
  BY LoadedNewCredit
<1>2. /\ \A v \in Others(w) : job'[v] = job[v]
      /\ UNCHANGED <<credits, planned, taken>>
  BY LoadedNewCredit DEF Acts, Serves, money
<1>3. CreditsSound'
  BY <1>2 DEF CreditsSound, Accounted, Total
<1>4. Accounted(job'[w].row, job'[w].plan, Nothing)
  BY <1>1, DraftedTyped, TotalNothing DEF Accounted
<1>5. ASSUME NEW v \in Workers, At(v, "credit_new")'
      PROVE  /\ credits'[job'[v].credit].status = "ABSENT"
             /\ Accounted(job'[v].row, job'[v].plan, Nothing)
             /\ \A u \in Others(v) : ~(At(u, "credit_new")' /\ job'[u].credit = job'[v].credit)
  <2>1. CASE v = w
    <3>1. \A u \in Others(w) : ~(At(u, "credit_new")' /\ job'[u].credit = c)
      BY <1>1, <1>2 DEF NewCredit, At, Others
    <3> QED BY <1>1, <1>2, <1>4, <2>1, <3>1
  <2>2. CASE v # w
    <3>1. job'[v] = job[v] /\ At(v, "credit_new")
      BY <1>2, <1>5, <2>2 DEF At, Others
    <3>2. job[v].credit # c
      BY <1>1, <3>1 DEF NewCredit, At
    <3> QED BY <1>1, <1>2, <3>1, <3>2 DEF CreditsNew, At, Others
  <2> QED BY <2>1, <2>2
<1>6. CreditsNew'
  BY <1>5 DEF CreditsNew, Accounted, Total, Nothing
<1> QED BY <1>3, <1>6

LEMMA SoundCreated ==
  ASSUME Typed, CreditsFit, NEW w \in Workers, CreateCredit(w)
  PROVE  CreditsFit'
<1> USE DEF Typed, Rows, CreditsFit
<1>1. PICK c, row : c = job[w].credit /\ row = job[w].row
  OBVIOUS
<1>2. PICK plan \in Amount : /\ CreditSaved(c, row, plan)
                             /\ plan = job[w].plan \/ Total(plan) <= row.lines
  BY <1>1, CreatedCredit
<1>3. /\ c \in Credits /\ job'[w] = Idle /\ UNCHANGED taken
      /\ \A v \in Others(w) : job'[v] = job[v]
  BY <1>1, CreatedCredit DEF Acts, Serves
<1>4. /\ credits[c].status = "ABSENT" /\ At(w, "credit_new")
      /\ Accounted(row, job[w].plan, Nothing)
      /\ \A v \in Others(w) : ~(At(v, "credit_new") /\ job[v].credit = c)
  BY <1>1 DEF CreditsNew, CreateCredit
<1>5. Total(taken[c]) = 0
  <2>1. Accounted(credits[c], planned[c], taken[c]) /\ credits[c] \in CreditRow
    BY <1>3 DEF CreditsSound, CreditTypes
  <2>2. credits[c].applied \in Nat
    BY <2>1, CreditParts
  <2> QED BY <1>4, <2>1, <2>2 DEF Accounted
<1>6. Accounted(row, plan, taken[c])
  BY <1>2, <1>4, <1>5, TotalNothing DEF Accounted
<1>7. CreditsSound'
  BY <1>2, <1>3, <1>6, SoundSaved
<1>8. \A v \in Others(w) : At(v, "credit_new") => credits'[job[v].credit].status = "ABSENT"
  BY <1>2, <1>4 DEF CreditSaved, CreditsNew, Others, At, Jobs, JobShape, CreditShape, Credits
<1> QED BY <1>3, <1>7, <1>8, NewCreditsKept DEF Idle

LEMMA SoundReturns ==
  ASSUME Typed, CreditsFit, NEW w \in Workers, ReturnStep(w)
  PROVE  CreditsFit'
<1> USE DEF Typed, Rows, CreditsFit
<1>1. Moves(w, ReturnSteps)
  BY EveryStep
<1>2. (\A v \in Others(w) : job'[v] = job[v]) /\ job'[w].step # "credit_new"
  BY <1>1 DEF Moves, ReturnSteps
<1>3. CASE UNCHANGED <<credits, planned, taken>>
  <2>1. CreditsSound'
    BY <1>3 DEF CreditsSound, Accounted, Total
  <2>2. \A v \in Others(w) : At(v, "credit_new") => credits'[job[v].credit].status = "ABSENT"
    BY <1>3 DEF CreditsNew, Others
  <2> QED BY <1>2, <2>1, <2>2, NewCreditsKept
<1>4. CASE ReturnApproveSave(w) /\ credits' # credits
  <2>1. PICK r : r = job[w].return
    OBVIOUS
  <2>2. /\ r \in Returns /\ UNCHANGED <<planned, taken>>
        /\ credits[r].status = "ABSENT" /\ NewCredit(r)
        /\ credits'[r] = IssuedRow(r, job[w].quantity)
        /\ \A c \in Credits \ {r} : credits'[c] = credits[c]
    BY <1>4, <2>1, ApprovedReturn
  <2>3. r \in Credits /\ job[w].quantity \in Nat
    BY <1>4, <2>2 DEF Credits, ReturnApproveSave, At, Jobs, JobShape, ReturnShape
  <2>4. CreditSaved(r, IssuedRow(r, job[w].quantity), planned[r])
    BY <2>2 DEF CreditSaved
  <2>5. Accounted(IssuedRow(r, job[w].quantity), planned[r], taken[r])
    <3>1. Accounted(credits[r], planned[r], taken[r]) /\ credits[r] \in CreditRow
          /\ planned[r] \in Amount
      BY <2>3 DEF CreditsSound, CreditTypes
    <3>2. credits[r].applied \in Nat /\ Total(planned[r]) \in Nat
      BY <3>1, CreditParts, TotalTyped
    <3>3. Total(planned[r]) = 0 /\ Total(taken[r]) = 0
      BY <2>2, <3>1, <3>2 DEF Accounted
    <3> QED BY <2>2, <2>3, <3>3, IssuedTyped DEF Accounted
  <2>6. CreditsSound'
    BY <2>2, <2>3, <2>4, <2>5, SoundSaved
  <2>7. \A v \in Others(w) : At(v, "credit_new") => job[v].credit # r
    BY <2>2 DEF NewCredit, Others, At
  <2>8. \A v \in Others(w) : At(v, "credit_new") => credits'[job[v].credit].status = "ABSENT"
    BY <2>2, <2>7 DEF CreditsNew, Others, At, Jobs, JobShape, CreditShape, Credits
  <2> QED BY <1>2, <2>6, <2>8, NewCreditsKept
<1>5. CASE DeleteReturn(w)
  <2>1. PICK r \in Returns :
          \A c \in Credits : credits'[c] = IF credits[c].of = r THEN [credits[c] EXCEPT !.of = "none"]
                                           ELSE credits[c]
    BY <1>5, DeletedReturn
  <2>2. UNCHANGED <<planned, taken>>
    BY <1>5, DeletedReturn
  <2>3. ASSUME NEW c \in Credits
        PROVE  /\ credits'[c].status = credits[c].status
               /\ credits'[c].lines = credits[c].lines /\ credits'[c].total = credits[c].total
               /\ credits'[c].applied = credits[c].applied
               /\ credits'[c].posted <=> credits[c].posted
    <3> DEFINE u == [credits[c] EXCEPT !.of = "none"]
    <3>1. credits[c] \in CreditRow
      BY DEF CreditTypes
    <3>2. /\ u.status = credits[c].status /\ u.lines = credits[c].lines
          /\ u.total = credits[c].total /\ u.applied = credits[c].applied
          /\ u.posted <=> credits[c].posted
      BY <3>1, UnlinkedTyped
    <3>3. credits'[c] = u \/ credits'[c] = credits[c]
      BY <2>1
    <3> HIDE DEF u
    <3> QED BY <3>2, <3>3
  <2>4. \A c \in Credits : Accounted(credits'[c], planned'[c], taken'[c])
    BY <2>2, <2>3 DEF CreditsSound, Accounted
  <2>5. CreditsSound'
    BY <2>4 DEF CreditsSound, Accounted, Total
  <2>6. \A v \in Others(w) : At(v, "credit_new") => credits'[job[v].credit].status = "ABSENT"
    BY <2>3 DEF CreditsNew, Others, At, Jobs, JobShape, CreditShape, Credits
  <2> QED BY <1>2, <2>5, <2>6, NewCreditsKept
<1>6. ReturnApproveSave(w) \/ DeleteReturn(w) \/ UNCHANGED <<credits, planned, taken>>
  BY DEF ReturnStep, CreateReturn, ReturnStatusLoad, ReturnEditLoad, ReturnSave, ReturnApproveLoad, money
<1>7. CASE ReturnApproveSave(w) /\ credits' = credits
  <2>1. UNCHANGED <<credits, planned, taken>>
    BY <1>7 DEF ReturnApproveSave
  <2> QED BY <1>3, <2>1
<1> HIDE DEF CreditsFit, Typed, Rows
<1> QED BY <1>3, <1>4, <1>5, <1>6, <1>7

\* Credits are accounted for while nothing saves them that has read them without a lock.
CreditsSettled ==
  {"post_credit", "void_credit", "edit_credit"} \intersect clients = {} => CreditsFit

LEMMA SettledStep ==
  ASSUME Served, CreditsSettled, [AllNext]_allVars
  PROVE  CreditsSettled'
<1> USE DEF Served, Typed, Rows, CreditsFit
<1>1. CASE UNCHANGED allVars
  <2>1. UNCHANGED <<clients, job, credits, planned, taken>>
    BY <1>1 DEF allVars, vars, money
  <2>2. CreditsFit => CreditsFit'
    BY <2>1 DEF CreditsSound, CreditsNew, Accounted, Total, Nothing, At
  <2> QED BY <2>1, <2>2 DEF CreditsSettled
<1>2. ASSUME NEW w \in Workers,
             Goods(w) \/ BillStep(w) \/ ReturnStep(w) \/ CreditStep(w) \/ ExpenseStep(w)
      PROVE  CreditsSettled'
  <2>1. UNCHANGED clients /\ \A v \in Others(w) : job'[v] = job[v]
    BY <1>2, EveryStep DEF Moves
  <2>2. CASE "post_credit" \in clients \/ "void_credit" \in clients \/ "edit_credit" \in clients
    BY <2>1, <2>2 DEF CreditsSettled
  <2>3. CASE "post_credit" \notin clients /\ "void_credit" \notin clients /\ "edit_credit" \notin clients
    <3>1. CreditsFit
      BY <2>3 DEF CreditsSettled
    <3>2. CASE Goods(w) \/ BillStep(w) \/ ExpenseStep(w)
      <4>1. job'[w].step # "credit_new"
        BY <3>2, EveryStep DEF Moves, BillSteps, GoodsSteps, ExpenseSteps
      <4>2. UNCHANGED <<credits, planned, taken>>
        <5>1. CASE Goods(w) \/ ExpenseStep(w)
          BY <5>1, ExpensesKept DEF Goods, money, Rest
        <5>2. CASE BillStep(w)
          BY <5>2 DEF BillStep, BillLoad, BillHeaderLoad, BillSave, ApproveLoad, ApproveSave,
             DeleteBill, MakePayment, DeletePayment, money
        <5> QED BY <3>2, <5>1, <5>2
      <4>3. CreditsSound'
        BY <3>1, <4>2 DEF CreditsSound, Accounted, Total
      <4>4. \A v \in Others(w) : At(v, "credit_new") => credits'[job[v].credit].status = "ABSENT"
        BY <3>1, <4>2 DEF CreditsNew, Others
      <4>5. CreditsNew'
        BY <2>1, <3>1, <4>1, <4>4, NewCreditsKept
      <4> QED BY <4>3, <4>5 DEF CreditsSettled
    <3>3. CASE ReturnStep(w)
      BY <3>1, <3>3, SoundReturns DEF CreditsSettled
    <3>4. CASE CreditStep(w)
      <4>1. ~CreditEditLoad(w) /\ ~CreditLoad(w)
        BY <2>3 DEF CreditEditLoad, CreditLoad, Takes
      <4>2. ~CreditEditSave(w) /\ ~PostSave(w) /\ ~VoidSave(w)
        BY <2>3 DEF CreditEditSave, PostSave, VoidSave, At, AllAsked, Asked
      <4> QED
        BY <3>1, <3>4, <4>1, <4>2, SoundViewed, SoundOpened, SoundDeleted, SoundLoaded, SoundCreated
           DEF CreditStep, CreditsSettled
    <3> QED BY <1>2, <3>2, <3>3, <3>4
  <2> QED BY <2>2, <2>3
<1> QED BY <1>1, <1>2, StepCases

LEMMA SettledInit ==
  ASSUME AllInit
  PROVE  CreditsSettled
<1>1. /\ credits = [c \in Credits |-> NoCredit] /\ planned = [c \in Credits |-> Nothing]
      /\ taken = [c \in Credits |-> Nothing] /\ job = [w \in Workers |-> Idle]
  BY DEF AllInit, Init, ReceivingInit
<1>2. Accounted(NoCredit, Nothing, Nothing)
  BY NoCreditTyped, TotalNothing DEF Accounted
<1>3. CreditsSound
  BY <1>1, <1>2 DEF CreditsSound
<1>4. CreditsNew
  BY <1>1 DEF CreditsNew, At, Idle
<1> QED BY <1>3, <1>4 DEF CreditsSettled, CreditsFit

LEMMA BacksPaid ==
  ASSUME Typed, BackedFit, MatchedFit, CreditsSettled
  PROVE  PaidBacked
<1> USE DEF Typed, Rows
<1>1. ASSUME {"delete_payment", "delete_credit"} \intersect clients = {}
      PROVE  \A b \in Bills : /\ bills[b].paid <= Backing(b)
                              /\ "edit_bill" \notin clients /\ bills[b].status # "ABSENT" =>
                                   bills[b].paid = Backing(b)
  <2>1. Backed
    BY <1>1 DEF BackedFit
  <2>2. "edit_bill" \notin clients => Matched
    BY <1>1 DEF MatchedFit
  <2> QED BY <2>1, <2>2 DEF Backed, Matched
<1>2. ASSUME {"post_credit", "void_credit", "edit_credit"} \intersect clients = {}, NEW c \in Credits
      PROVE  /\ Total(taken[c]) = credits[c].applied
             /\ credits[c].applied <= credits[c].total
             /\ credits[c].status = "VOID" => credits[c].applied = 0
  <2>1. Accounted(credits[c], planned[c], taken[c])
    BY <1>2 DEF CreditsSettled, CreditsFit, CreditsSound
  <2>2. credits[c].lines \in Nat /\ credits[c].applied \in Nat /\ credits[c].total \in Nat
    BY CreditParts DEF CreditTypes
  <2>3. credits[c].applied <= credits[c].total
    BY <2>1, <2>2 DEF Accounted
  <2> QED BY <2>1, <2>3 DEF Accounted
<1> QED BY <1>1, <1>2 DEF PaidBacked, Without

\* What a bill has been paid is what payments and credits have put on it, whichever
\* requests save the bill meanwhile, and what a credit says it has applied is what it has
\* taken off bills, at most its total.
THEOREM BillsBacked == AllSpec => []PaidBacked
<1> DEFINE Inv == Served /\ BackedFit /\ MatchedFit /\ CreditsSettled
<1>1. AllInit => Inv
  BY ServedInit, BackedInit, SettledInit
<1>2. Inv /\ [AllNext]_allVars => Inv'
  BY ServedStep, BackedStep, SettledStep DEF Served
<1>3. Inv => PaidBacked
  BY BacksPaid DEF Served
<1> QED BY <1>1, <1>2, <1>3, PTL DEF AllSpec

----
(* What a confirmation holds. *)

\* A confirmation keeps what it has locked: its draft receipt, and its line with what it
\* had received.
Locked(w) ==
  job[w].step \in ConfirmSteps =>
    /\ receipts[job[w].receipt].state = "DRAFT"
    /\ receipts[job[w].receipt].line = job[w].line
    /\ received[job[w].line] = job[w].received
    /\ LineFree(w, job[w].line)

Confirmations ==
  /\ \A w \in Workers : Locked(w)
  /\ \A l \in Lines : received[l] <= Ordered[l]

\* A step that confirms nothing and changes no receipt and no line.
Aside(w) ==
  /\ UNCHANGED <<clients, received, receipts, stocked>>
  /\ \A v \in Others(w) : job'[v] = job[v]
  /\ job'[w].step \notin ConfirmSteps

\* A receipt that is not being confirmed is saved or deleted.
Writes(w, g) ==
  /\ ReceiptFree(w, g) \/ ~Present(g)
  /\ \A x \in Receipts \ {g} : receipts'[x] = receipts[x]
  /\ UNCHANGED <<clients, received>>
  /\ \A v \in Others(w) : job'[v] = job[v]
  /\ job'[w].step \notin ConfirmSteps

LEMMA GoodsCases ==
  ASSUME Typed, NEW w \in Workers,
         Goods(w) \/ BillStep(w) \/ ReturnStep(w) \/ CreditStep(w) \/ ExpenseStep(w)
  PROVE  \/ Aside(w) /\ order' = order
         \/ Aside(w) /\ OrderStatusSave(w)
         \/ OrderEditSave(w)
         \/ CreateReceipt(w) \/ ReceiptEditSave(w, Referenced) \/ DeleteReceipt(w, Referenced)
         \/ ConfirmLock(w) \/ ConfirmDecide(w) \/ ConfirmCommit(w)
<1>1. UNCHANGED clients /\ \A v \in Others(w) : job'[v] = job[v]
  BY EveryStep DEF Moves
<1>2. CASE BillStep(w) \/ ReturnStep(w) \/ CreditStep(w) \/ ExpenseStep(w)
  <2>1. job'[w].step \notin ConfirmSteps
    BY <1>2, EveryStep DEF Moves, BillSteps, ReturnSteps, CreditSteps, ExpenseSteps, ConfirmSteps
  <2>2. UNCHANGED goods
    <3>1. CASE BillStep(w)
      BY <3>1 DEF BillStep, BillLoad, BillHeaderLoad, BillSave, ApproveLoad, ApproveSave,
         DeleteBill, MakePayment, DeletePayment
    <3>2. CASE ReturnStep(w)
      BY <3>2 DEF ReturnStep, CreateReturn, ReturnStatusLoad, ReturnEditLoad, ReturnSave,
         ReturnApproveLoad, ReturnApproveSave, DeleteReturn
    <3>3. CASE CreditStep(w)
      BY <3>3 DEF CreditStep, ViewCredit, CreditLoadNew, CreateCredit, CreditEditLoad, CreditEditSave,
         DeleteCredit, ApproveCredit, OpenCredit, VoidLocked, CreditLoad, PostSave, VoidSave
    <3>4. CASE ExpenseStep(w)
      BY <3>4, ExpensesKept DEF Rest
    <3> QED BY <1>2, <3>1, <3>2, <3>3, <3>4
  <2> QED BY <1>1, <2>1, <2>2 DEF Aside, goods
<1>3. CASE Goods(w)
  <2>1. ReceivingStep(w, Referenced)
    BY <1>3 DEF Goods
  <2>2. CASE ShippingStep(w) /\ UNCHANGED <<received, receipts, stocked>>
    <3>1. job'[w].step \in {"idle", "shipment_save"}
      BY <2>2, ShippingAsked DEF Typed
    <3>2. order' = order
      BY <2>2 DEF ShippingStep, CreateShipment, ShipmentEditLoad, ShipmentStatusLoad, ShipmentSave,
         DeleteShipment
    <3> QED BY <1>1, <2>2, <3>1, <3>2 DEF Aside, ConfirmSteps
  <2>3. CASE OrderStatusLoad(w) \/ OrderEditLoad(w) \/ ReceiptEditLoad(w) \/ Abort(w)
    <3>1. UNCHANGED goods
      BY <2>3 DEF OrderStatusLoad, OrderEditLoad, ReceiptEditLoad, Abort
    <3>2. job'[w].step \notin ConfirmSteps
      <4>1. CASE OrderStatusLoad(w)
        BY <4>1, BecomesIs DEF Typed, OrderStatusLoad, ConfirmSteps
      <4>2. CASE OrderEditLoad(w)
        BY <4>2, BecomesIs DEF Typed, OrderEditLoad, ConfirmSteps
      <4>3. CASE ReceiptEditLoad(w)
        BY <4>3, BecomesIs DEF Typed, ReceiptEditLoad, ConfirmSteps
      <4>4. CASE Abort(w)
        BY <4>4, BecomesIs DEF Typed, Abort, Respond, Idle, ConfirmSteps
      <4> QED BY <2>3, <4>1, <4>2, <4>3, <4>4
    <3> QED BY <1>1, <3>1, <3>2 DEF Aside, goods
  <2>4. CASE OrderStatusSave(w)
    <3>1. job'[w].step \notin ConfirmSteps
      BY <2>4, BecomesIs DEF Typed, OrderStatusSave, Respond, Idle, ConfirmSteps
    <3> QED BY <1>1, <2>4, <3>1 DEF Aside, OrderStatusSave
  <2> QED BY <2>1, <2>2, <2>3, <2>4 DEF ReceivingStep
<1> QED BY <1>2, <1>3

LEMMA ReceiptWrites ==
  ASSUME Typed, NEW w \in Workers,
         CreateReceipt(w) \/ ReceiptEditSave(w, Referenced) \/ DeleteReceipt(w, Referenced)
  PROVE  \E g \in Receipts :
           /\ Writes(w, g)
           /\ \/ /\ CreateReceipt(w)
                 /\ ~Present(g) /\ receipts'[g] \in ValidRows /\ stocked'[g] = 0
                 /\ \A x \in Receipts \ {g} : stocked'[x] = stocked[x]
              \/ ReceiptEditSave(w, Referenced) /\ UNCHANGED stocked
              \/ DeleteReceipt(w, Referenced) /\ UNCHANGED stocked /\ receipts'[g] = NoReceipt
<1> USE DEF Typed, Rows, ReceivingTypes
<1>1. CASE CreateReceipt(w)
  <2>1. PICK g \in Receipts, row \in ValidRows :
          /\ ~Present(g)
          /\ receipts' = [receipts EXCEPT ![g] = row]
          /\ stocked' = [stocked EXCEPT ![g] = 0]
    BY <1>1 DEF CreateReceipt
  <2>2. job[w].step = "idle" /\ UNCHANGED <<job, clients, received>>
    BY <1>1 DEF CreateReceipt, Takes
  <2>3. /\ receipts'[g] = row /\ \A x \in Receipts \ {g} : receipts'[x] = receipts[x]
        /\ stocked'[g] = 0 /\ \A x \in Receipts \ {g} : stocked'[x] = stocked[x]
    BY <2>1
  <2>4. Writes(w, g)
    BY <2>1, <2>2, <2>3 DEF Writes, ConfirmSteps
  <2> QED BY <1>1, <2>1, <2>3, <2>4
<1>2. CASE ReceiptEditSave(w, Referenced)
  <2>1. PICK g : g = job[w].receipt
    OBVIOUS
  <2>2. g \in Receipts /\ ReceiptFree(w, g) /\ UNCHANGED <<clients, received, stocked>>
        /\ job[w].step = "receipt_edit"
    BY <1>2, <2>1 DEF ReceiptEditSave, At, Jobs, JobShape, GoodsShape
  <2>3. \A x \in Receipts \ {g} : receipts'[x] = receipts[x]
    BY <1>2, <2>1 DEF ReceiptEditSave
  <2>4. job'[w] = Idle /\ \A v \in Others(w) : job'[v] = job[v]
    BY <1>2, RespondActs DEF ReceiptEditSave, Acts, Serves
  <2>5. Writes(w, g)
    BY <2>2, <2>3, <2>4 DEF Writes, ConfirmSteps, Idle
  <2> QED BY <1>2, <2>2, <2>5
<1>3. CASE DeleteReceipt(w, Referenced)
  <2>1. PICK g \in Receipts : /\ Present(g) /\ ReceiptFree(w, g)
                              /\ receipts' = [receipts EXCEPT ![g] = NoReceipt]
    BY <1>3 DEF DeleteReceipt
  <2>2. job[w].step = "idle" /\ UNCHANGED <<job, clients, received, stocked>>
    BY <1>3 DEF DeleteReceipt, Takes
  <2>3. receipts'[g] = NoReceipt /\ \A x \in Receipts \ {g} : receipts'[x] = receipts[x]
    BY <2>1
  <2>4. Writes(w, g)
    BY <2>1, <2>2, <2>3 DEF Writes, ConfirmSteps
  <2> QED BY <1>3, <2>2, <2>3, <2>4
<1> QED BY <1>1, <1>2, <1>3

LEMMA LockedElsewhere ==
  ASSUME NEW w \in Workers, \A v \in Others(w) : job'[v] = job[v], NEW v \in Others(w), Locked(v),
         job[v].step \in ConfirmSteps =>
           /\ receipts'[job[v].receipt].state = "DRAFT"
           /\ receipts'[job[v].receipt].line = job[v].line
           /\ received'[job[v].line] = job[v].received
           /\ ~(job'[w].step \in ConfirmSteps /\ job'[w].line = job[v].line)
  PROVE  Locked(v)'
<1>1. job'[v] = job[v]
  OBVIOUS
<1> SUFFICES ASSUME job[v].step \in ConfirmSteps
             PROVE  Locked(v)'
  BY <1>1 DEF Locked
<1>2. \A u \in Others(v) : ~(job[u].step \in ConfirmSteps /\ job[u].line = job[v].line)
  BY DEF Locked, LineFree
<1>3. \A u \in Others(v) : ~(job'[u].step \in ConfirmSteps /\ job'[u].line = job[v].line)
  <2> TAKE u \in Others(v)
  <2>1. CASE u = w
    BY <2>1
  <2>2. CASE u # w
    BY <1>2, <2>2 DEF Others
  <2> QED BY <2>1, <2>2
<1> QED BY <1>1, <1>3 DEF Locked, LineFree

\* What a confirmation writes.
LEMMA Committed ==
  ASSUME Typed, Confirmations, NEW w \in Workers, ConfirmCommit(w),
         NEW g, g = job[w].receipt, NEW l, l = job[w].line
  PROVE  /\ g \in Receipts /\ l \in Lines
         /\ receipts[g].state = "DRAFT" /\ receipts[g].line = l
         /\ received[l] = job[w].received
         /\ receipts'[g].state = "CONFIRMED" /\ receipts'[g].line = l
         /\ receipts'[g].accepted = receipts[g].accepted
         /\ receipts'[g].received = receipts[g].received
         /\ \A x \in Receipts \ {g} : receipts'[x] = receipts[x] /\ stocked'[x] = stocked[x]
         /\ received'[l] = Counted(w) /\ \A k \in Lines \ {l} : received'[k] = received[k]
         /\ stocked'[g] = stocked[g] + receipts[g].accepted
         /\ order' = job[w].order
         /\ job'[w] = Idle /\ \A v \in Others(w) : job'[v] = job[v]
         /\ UNCHANGED clients
<1> USE DEF Typed, Rows
<1>1. At(w, "confirmed") /\ job[w].step \in ConfirmSteps
  BY DEF ConfirmCommit, At, ConfirmSteps
<1>2. g \in Receipts /\ l \in Lines
  BY <1>1, CountedTyped
<1>3. receipts[g].state = "DRAFT" /\ receipts[g].line = l /\ received[l] = job[w].received
  BY <1>1 DEF Confirmations, Locked
<1> DEFINE r == [receipts[g] EXCEPT !.state = "CONFIRMED"]
<1>4. receipts' = [receipts EXCEPT ![g] = r]
  BY DEF ConfirmCommit
<1>5. /\ r.state = "CONFIRMED" /\ r.line = receipts[g].line
      /\ r.accepted = receipts[g].accepted /\ r.received = receipts[g].received
  BY <1>2 DEF ReceivingTypes, ReceiptRows
<1> HIDE DEF r
<1>6. receipts'[g] = r /\ \A x \in Receipts \ {g} : receipts'[x] = receipts[x]
  BY <1>2, <1>4 DEF ReceivingTypes
<1>7. received'[l] = Counted(w) /\ \A k \in Lines \ {l} : received'[k] = received[k]
  BY <1>2 DEF ConfirmCommit, ReceivingTypes
<1>8. /\ stocked'[g] = stocked[g] + receipts[g].accepted
      /\ \A x \in Receipts \ {g} : stocked'[x] = stocked[x]
  BY <1>2 DEF ConfirmCommit, ReceivingTypes
<1>9. job'[w] = Idle /\ (\A v \in Others(w) : job'[v] = job[v])
  BY RespondActs DEF ConfirmCommit, Acts, Serves
<1>10. order' = job[w].order /\ UNCHANGED clients
  BY DEF ConfirmCommit
<1> QED BY <1>2, <1>3, <1>5, <1>6, <1>7, <1>8, <1>9, <1>10

\* What it locks, and what it decides.
LEMMA BeganConfirming ==
  ASSUME Typed, NEW w \in Workers, ConfirmLock(w)
  PROVE  /\ UNCHANGED <<clients, goods>> /\ \A v \in Others(w) : job'[v] = job[v]
         /\ job'[w].step = "confirm" /\ job'[w].order = order
         /\ \E g \in Receipts :
              /\ job'[w].receipt = g /\ job'[w].line = receipts[g].line
              /\ receipts[g].line \in Lines /\ job'[w].received = received[receipts[g].line]
              /\ receipts[g].state = "DRAFT"
              /\ LineFree(w, receipts[g].line)
<1> USE DEF Typed, Rows
<1>1. PICK g \in Receipts :
        /\ receipts[g].state = "DRAFT" /\ LineFree(w, receipts[g].line)
        /\ Becomes(w, [step |-> "confirm", receipt |-> g, line |-> receipts[g].line,
                       order |-> order, received |-> received[receipts[g].line]])
  BY DEF ConfirmLock, Confirmable
<1>2. receipts[g].line \in Lines
  BY DEF ReceivingTypes, ReceiptRows
<1>3. job'[w] = [step |-> "confirm", receipt |-> g, line |-> receipts[g].line,
                 order |-> order, received |-> received[receipts[g].line]]
  BY <1>1, BecomesIs
<1>4. \A v \in Others(w) : job'[v] = job[v]
  BY ConfirmTyped DEF Acts, Serves
<1>5. UNCHANGED <<clients, goods>>
  BY DEF ConfirmLock
<1> QED BY <1>1, <1>2, <1>3, <1>4, <1>5

LEMMA DecidedOrder ==
  ASSUME Typed, NEW w \in Workers, ConfirmDecide(w)
  PROVE  /\ UNCHANGED <<clients, goods>> /\ \A v \in Others(w) : job'[v] = job[v]
         /\ At(w, "confirm") /\ job'[w].step = "confirmed"
         /\ job'[w].receipt = job[w].receipt /\ job'[w].line = job[w].line
         /\ job'[w].received = job[w].received
         /\ job'[w].order = Decided(job[w].order, [received EXCEPT ![job[w].line] = Counted(w)])
<1> USE DEF Typed, Rows
<1>1. job[w] \in [step : ConfirmSteps, receipt : Receipts, line : Lines, order : OrderStatuses,
                  received : Nat]
  BY DEF ConfirmDecide, At, Jobs, JobShape, GoodsShape, ConfirmSteps
<1> DEFINE o == Decided(job[w].order, [received EXCEPT ![job[w].line] = Counted(w)])
           j == [job[w] EXCEPT !.step = "confirmed", !.order = o]
<1>2. Becomes(w, j)
  BY <1>1 DEF ConfirmDecide
<1> HIDE DEF o
<1>3. /\ j.step = "confirmed" /\ j.order = o /\ j.receipt = job[w].receipt
      /\ j.line = job[w].line /\ j.received = job[w].received
  BY <1>1
<1> HIDE DEF j
<1>4. job'[w] = j
  BY <1>2, BecomesIs
<1>5. \A v \in Others(w) : job'[v] = job[v]
  BY ConfirmTyped DEF Acts, Serves
<1>6. UNCHANGED <<clients, goods>> /\ At(w, "confirm")
  BY DEF ConfirmDecide
<1> QED BY <1>3, <1>4, <1>5, <1>6 DEF o

LEMMA ConfirmationsStep ==
  ASSUME Typed, Confirmations, NEW w \in Workers,
         Goods(w) \/ BillStep(w) \/ ReturnStep(w) \/ CreditStep(w) \/ ExpenseStep(w)
  PROVE  Confirmations'
<1> USE DEF Typed, Rows
<1>0. \A v \in Others(w) : v \in Workers /\ Locked(v)
  BY DEF Others, Confirmations
<1>1. \A v \in Others(w) : job[v].step \in ConfirmSteps =>
        job[v].line \in Lines /\ job[v].receipt \in Receipts
  BY <1>0, CountedTyped
<1>2. ASSUME Aside(w)
      PROVE  Confirmations'
  <2>1. \A v \in Others(w) : Locked(v)'
    BY <1>0, <1>2, LockedElsewhere DEF Aside, Locked
  <2>2. Locked(w)'
    BY <1>2 DEF Aside, Locked
  <2> QED BY <1>2, <2>1, <2>2 DEF Confirmations, Others, Aside
<1>3. ASSUME NEW g \in Receipts, Writes(w, g)
      PROVE  Confirmations'
  <2>1. ASSUME NEW v \in Others(w), job[v].step \in ConfirmSteps
        PROVE  job[v].receipt \in Receipts \ {g}
    <3>1. receipts[job[v].receipt].state = "DRAFT"
      BY <1>0, <2>1 DEF Locked
    <3>2. job[v].receipt # g
      BY <1>3, <2>1, <3>1 DEF Writes, ReceiptFree, Confirming, Present
    <3> QED BY <1>1, <2>1, <3>2
  <2>2. \A v \in Others(w) : Locked(v)'
    BY <1>0, <1>3, <2>1, LockedElsewhere DEF Writes, Locked
  <2>3. Locked(w)'
    BY <1>3 DEF Writes, Locked
  <2> QED BY <1>3, <2>2, <2>3 DEF Confirmations, Others, Writes
<1>4. CASE OrderEditSave(w)
  <2>1. /\ job'[w] = Idle /\ (\A v \in Others(w) : job'[v] = job[v]) /\ UNCHANGED receipts
    BY <1>4, RespondActs DEF OrderEditSave, Acts, Serves
  <2>2. ASSUME NEW v \in Others(w), job[v].step \in ConfirmSteps
        PROVE  received' = received
    <3>1. ~LineFree(w, job[v].line) /\ job[v].line \in Lines
      BY <1>1, <2>2 DEF LineFree
    <3> QED BY <1>4, <3>1 DEF OrderEditSave
  <2>3. \A v \in Others(w) : Locked(v)'
    BY <1>0, <2>1, <2>2, LockedElsewhere DEF Locked, Idle, ConfirmSteps
  <2>4. Locked(w)'
    BY <2>1 DEF Locked, Idle, ConfirmSteps
  <2>5. \A l \in Lines : received'[l] <= Ordered[l]
    <3>1. \A l \in Lines : 0 <= Ordered[l]
      BY ReceivingAssumption
    <3> QED BY <1>4, <3>1 DEF OrderEditSave, Confirmations
  <2> QED BY <2>3, <2>4, <2>5 DEF Confirmations, Others
<1>5. CASE ConfirmLock(w)
  <2>1. PICK g \in Receipts :
          /\ job'[w].receipt = g /\ job'[w].line = receipts[g].line
          /\ receipts[g].line \in Lines /\ job'[w].received = received[receipts[g].line]
          /\ receipts[g].state = "DRAFT"
          /\ LineFree(w, receipts[g].line)
    BY <1>5, BeganConfirming
  <2>2. UNCHANGED <<received, receipts>> /\ \A v \in Others(w) : job'[v] = job[v]
    BY <1>5, BeganConfirming DEF goods
  <2>3. \A v \in Others(w) : Locked(v)'
    BY <1>0, <2>1, <2>2, LockedElsewhere DEF Locked, LineFree
  <2>4. Locked(w)'
    BY <2>1, <2>2 DEF Locked, LineFree
  <2> QED BY <2>2, <2>3, <2>4 DEF Confirmations, Others
<1>6. CASE ConfirmDecide(w)
  <2>1. /\ UNCHANGED <<received, receipts>> /\ \A v \in Others(w) : job'[v] = job[v]
        /\ job[w].step \in ConfirmSteps
        /\ job'[w].receipt = job[w].receipt /\ job'[w].line = job[w].line
        /\ job'[w].received = job[w].received
    BY <1>6, DecidedOrder DEF goods, At, ConfirmSteps
  <2>2. Locked(w)
    BY DEF Confirmations
  <2>3. \A v \in Others(w) : Locked(v)'
    BY <1>0, <2>1, <2>2, LockedElsewhere DEF Locked, LineFree
  <2>4. Locked(w)'
    BY <2>1, <2>2 DEF Locked, LineFree
  <2> QED BY <2>1, <2>3, <2>4 DEF Confirmations, Others
<1>7. CASE ConfirmCommit(w)
  <2>1. PICK g, l : g = job[w].receipt /\ l = job[w].line
    OBVIOUS
  <2>2. /\ g \in Receipts /\ l \in Lines /\ receipts[g].line = l
        /\ \A x \in Receipts \ {g} : receipts'[x] = receipts[x]
        /\ received'[l] = Counted(w) /\ \A k \in Lines \ {l} : received'[k] = received[k]
        /\ job'[w] = Idle /\ \A v \in Others(w) : job'[v] = job[v]
    BY <1>7, <2>1, Committed
  <2>3. job[w].step \in ConfirmSteps /\ Locked(w)
    BY <1>7 DEF ConfirmCommit, At, ConfirmSteps, Confirmations
  <2>4. ASSUME NEW v \in Others(w), job[v].step \in ConfirmSteps
        PROVE  job[v].line # l /\ job[v].receipt # g
    <3>1. job[v].line # l
      BY <2>1, <2>3, <2>4 DEF Locked, LineFree
    <3>2. receipts[job[v].receipt].line = job[v].line
      BY <1>0, <2>4 DEF Locked
    <3> QED BY <2>2, <3>1, <3>2
  <2>5. \A v \in Others(w) : Locked(v)'
    BY <1>0, <1>1, <2>2, <2>4, LockedElsewhere DEF Locked, Idle, ConfirmSteps
  <2>6. Locked(w)'
    BY <2>2 DEF Locked, Idle, ConfirmSteps
  <2>7. Counted(w) <= Ordered[l]
    BY <2>1, <2>3, CountedTyped
  <2>8. \A k \in Lines : received'[k] <= Ordered[k]
    BY <2>2, <2>7 DEF Confirmations
  <2> QED BY <2>5, <2>6, <2>8 DEF Confirmations, Others
<1> QED BY <1>2, <1>3, <1>4, <1>5, <1>6, <1>7, GoodsCases, ReceiptWrites

----
(* What confirmed receipts add up to. *)

LEMMA ComesIn ==
  ASSUME receipts \in [Receipts -> ReceiptRows], NEW l \in Lines
  PROVE  CameIn(l) \in Nat
<1> DEFINE f == [g \in Receipts |-> receipts[g].received]
<1>1. IsFiniteSet(Confirmed(l)) /\ Confirmed(l) \subseteq Receipts
  BY AcceptedIs
<1>2. \A g \in Receipts : f[g] \in Nat
  BY DEF ReceiptRows
<1> HIDE DEF f
<1>3. SumFunctionOnSet(f, Confirmed(l)) \in Nat
  BY <1>1, <1>2, SumNat
<1> QED BY <1>3 DEF CameIn, f

\* A receipt that is not confirmed counts for nothing.
LEMMA SumsKept ==
  ASSUME receipts \in [Receipts -> ReceiptRows], NEW g \in Receipts,
         receipts[g].state # "CONFIRMED", receipts'[g].state # "CONFIRMED",
         \A x \in Receipts \ {g} : receipts'[x] = receipts[x], NEW l \in Lines
  PROVE  Accepted(l)' = Accepted(l) /\ CameIn(l)' = CameIn(l)
<1> DEFINE f == [x \in Receipts |-> receipts[x].accepted]
           h == [x \in Receipts |-> receipts'[x].accepted]
           e == [x \in Receipts |-> receipts[x].received]
           k == [x \in Receipts |-> receipts'[x].received]
           S == Confirmed(l)
           T == Confirmed(l)'
<1>1. T = S
  BY DEF Confirmed
<1>2. IsFiniteSet(S)
  BY AcceptedIs
<1>3. \A x \in S : h[x] = f[x] /\ k[x] = e[x]
  BY DEF Confirmed
<1>4. Accepted(l) = SumFunctionOnSet(f, S) /\ Accepted(l)' = SumFunctionOnSet(h, T)
  BY DEF Accepted
<1>5. CameIn(l) = SumFunctionOnSet(e, S) /\ CameIn(l)' = SumFunctionOnSet(k, T)
  BY DEF CameIn
<1> HIDE DEF f, h, e, k, S, T
<1>6. SumFunctionOnSet(h, S) = SumFunctionOnSet(f, S)
  BY <1>2, <1>3, SumSame
<1>7. SumFunctionOnSet(k, S) = SumFunctionOnSet(e, S)
  BY <1>2, <1>3, SumSame
<1> QED BY <1>1, <1>4, <1>5, <1>6, <1>7

\* One that is confirmed now counts for its own line.
LEMMA SumsGrow ==
  ASSUME receipts \in [Receipts -> ReceiptRows], NEW g \in Receipts, NEW m \in Lines,
         receipts[g].state = "DRAFT", receipts[g].line = m,
         receipts'[g].state = "CONFIRMED", receipts'[g].line = m,
         receipts'[g].accepted = receipts[g].accepted,
         receipts'[g].received = receipts[g].received,
         \A x \in Receipts \ {g} : receipts'[x] = receipts[x], NEW l \in Lines
  PROVE  /\ l # m => Accepted(l)' = Accepted(l) /\ CameIn(l)' = CameIn(l)
         /\ l = m => /\ Accepted(l)' = Accepted(l) + receipts[g].accepted
                     /\ CameIn(l)' = CameIn(l) + receipts[g].received
<1> DEFINE f == [x \in Receipts |-> receipts[x].accepted]
           h == [x \in Receipts |-> receipts'[x].accepted]
           e == [x \in Receipts |-> receipts[x].received]
           k == [x \in Receipts |-> receipts'[x].received]
           S == Confirmed(l)
           T == Confirmed(l)'
<1>1. T = IF l = m THEN S \union {g} ELSE S
  BY DEF Confirmed
<1>2. IsFiniteSet(S) /\ S \subseteq Receipts /\ g \notin S
  BY AcceptedIs DEF Confirmed
<1>3. \A x \in Receipts : h[x] = f[x] /\ k[x] = e[x] /\ f[x] \in Nat /\ e[x] \in Nat
  BY DEF ReceiptRows
<1>4. Accepted(l) = SumFunctionOnSet(f, S) /\ Accepted(l)' = SumFunctionOnSet(h, T)
  BY DEF Accepted
<1>5. CameIn(l) = SumFunctionOnSet(e, S) /\ CameIn(l)' = SumFunctionOnSet(k, T)
  BY DEF CameIn
<1>6. f[g] = receipts[g].accepted /\ e[g] = receipts[g].received
  OBVIOUS
<1> HIDE DEF f, h, e, k, S, T
<1>7. IsFiniteSet(T) /\ T \subseteq Receipts
  BY <1>1, <1>2, FS_AddElement
<1>8. /\ SumFunctionOnSet(h, T) = SumFunctionOnSet(f, T)
      /\ SumFunctionOnSet(k, T) = SumFunctionOnSet(e, T)
  BY <1>3, <1>7, SumSame
<1>9. \A y \in S \union {g} : f[y] \in Int /\ e[y] \in Int
  BY <1>2, <1>3
<1>10. /\ SumFunctionOnSet(f, S \union {g}) = f[g] + SumFunctionOnSet(f, S)
       /\ SumFunctionOnSet(e, S \union {g}) = e[g] + SumFunctionOnSet(e, S)
  BY <1>2, <1>9, SumAdd
<1>11. /\ f[g] \in Nat /\ e[g] \in Nat
       /\ SumFunctionOnSet(f, S) \in Nat /\ SumFunctionOnSet(e, S) \in Nat
  BY <1>2, <1>3, SumNat
<1>12. CASE l # m
  BY <1>1, <1>4, <1>5, <1>8, <1>12
<1>13. CASE l = m
  <2>1. T = S \union {g}
    BY <1>1, <1>13
  <2> QED BY <1>4, <1>5, <1>6, <1>8, <1>10, <1>11, <1>13, <2>1
<1> QED BY <1>12, <1>13

----
(* What came into stock, and what lines have received. *)

Stocked ==
  \A g \in Receipts : Present(g) =>
    stocked[g] = IF receipts[g].state = "CONFIRMED" THEN receipts[g].accepted ELSE 0
StockFit == "edit_receipt" \notin clients => Stocked

\* No receipt accepts more than it received, lines have received what receipts have
\* accepted, unless the lines of the order are replaced, and no more than came in.
Received ==
  /\ \A g \in Receipts : receipts[g].accepted <= receipts[g].received
  /\ \A l \in Lines : /\ "edit_order" \notin clients => received[l] = Arrived(l)
                      /\ received[l] <= CameIn(l)
ReceivedFit == {"edit_receipt", "delete_receipt"} \intersect clients = {} => Received

LEMMA StockStep ==
  ASSUME Served, Confirmations, StockFit, NEW w \in Workers,
         Goods(w) \/ BillStep(w) \/ ReturnStep(w) \/ CreditStep(w) \/ ExpenseStep(w)
  PROVE  StockFit'
<1> USE DEF Served, Typed, Rows
<1>1. UNCHANGED clients
  BY EveryStep DEF Moves
<1>2. CASE UNCHANGED <<receipts, stocked>>
  BY <1>1, <1>2 DEF StockFit, Stocked, Present
<1>3. CASE CreateReceipt(w) \/ ReceiptEditSave(w, Referenced) \/ DeleteReceipt(w, Referenced)
  <2>1. PICK g \in Receipts :
          /\ Writes(w, g)
          /\ \/ /\ receipts'[g] \in ValidRows /\ stocked'[g] = 0
                /\ \A x \in Receipts \ {g} : stocked'[x] = stocked[x]
             \/ ReceiptEditSave(w, Referenced)
             \/ UNCHANGED stocked /\ receipts'[g] = NoReceipt
    BY <1>3, ReceiptWrites
  <2>2. ReceiptEditSave(w, Referenced) => "edit_receipt" \in clients
    BY DEF ReceiptEditSave, At, AllAsked, Asked
  <2>3. \A x \in Receipts \ {g} : receipts'[x] = receipts[x]
    BY <2>1 DEF Writes
  <2>4. receipts'[g] \in ValidRows => receipts'[g].state = "DRAFT"
    BY DraftTyped
  <2>5. NoReceipt.state = "ABSENT"
    BY DEF NoReceipt
  <2> QED BY <1>1, <2>1, <2>2, <2>3, <2>4, <2>5 DEF StockFit, Stocked, Present
<1>4. CASE ConfirmCommit(w)
  <2>1. PICK g, l : g = job[w].receipt /\ l = job[w].line
    OBVIOUS
  <2>2. /\ g \in Receipts /\ receipts[g].state = "DRAFT"
        /\ receipts'[g].state = "CONFIRMED" /\ receipts'[g].accepted = receipts[g].accepted
        /\ \A x \in Receipts \ {g} : receipts'[x] = receipts[x] /\ stocked'[x] = stocked[x]
        /\ stocked'[g] = stocked[g] + receipts[g].accepted
    BY <1>4, <2>1, Committed
  <2>3. receipts[g].accepted \in Nat
    BY <2>2 DEF ReceivingTypes, ReceiptRows
  <2> QED BY <1>1, <2>2, <2>3 DEF StockFit, Stocked, Present
<1>5. OrderEditSave(w) => UNCHANGED <<receipts, stocked>>
  BY DEF OrderEditSave
<1>6. ConfirmLock(w) \/ ConfirmDecide(w) => UNCHANGED <<receipts, stocked>>
  BY DEF ConfirmLock, ConfirmDecide, goods
<1>7. Aside(w) => UNCHANGED <<receipts, stocked>>
  BY DEF Aside
<1> QED BY <1>2, <1>3, <1>4, <1>5, <1>6, <1>7, GoodsCases

LEMMA ReceivedStep ==
  ASSUME Served, Confirmations, ReceivedFit, NEW w \in Workers,
         Goods(w) \/ BillStep(w) \/ ReturnStep(w) \/ CreditStep(w) \/ ExpenseStep(w)
  PROVE  ReceivedFit'
<1> USE DEF Served, Typed, Rows
<1>1. UNCHANGED clients
  BY EveryStep DEF Moves
<1> SUFFICES ASSUME "edit_receipt" \notin clients, "delete_receipt" \notin clients, Received
             PROVE  Received'
  BY <1>1 DEF ReceivedFit
<1>0. receipts \in [Receipts -> ReceiptRows] /\ received \in [Lines -> Nat]
  BY DEF ReceivingTypes
<1>2. CASE UNCHANGED <<receipts, received>>
  BY <1>1, <1>2 DEF Received, Arrived, Accepted, CameIn, Confirmed
<1>3. CASE CreateReceipt(w) \/ ReceiptEditSave(w, Referenced) \/ DeleteReceipt(w, Referenced)
  <2>1. PICK g \in Receipts :
          /\ Writes(w, g)
          /\ \/ ~Present(g) /\ receipts'[g] \in ValidRows
             \/ ReceiptEditSave(w, Referenced)
             \/ DeleteReceipt(w, Referenced)
    BY <1>3, ReceiptWrites
  <2>2. ~ReceiptEditSave(w, Referenced) /\ ~DeleteReceipt(w, Referenced)
    BY DEF ReceiptEditSave, At, AllAsked, Asked, DeleteReceipt, Takes
  <2>3. /\ \A x \in Receipts \ {g} : receipts'[x] = receipts[x]
        /\ UNCHANGED received
    BY <2>1 DEF Writes
  <2>4. /\ receipts[g].state # "CONFIRMED" /\ receipts'[g].state # "CONFIRMED"
        /\ receipts'[g].accepted <= receipts'[g].received
    BY <2>1, <2>2, DraftTyped DEF Present
  <2>5. \A l \in Lines : Accepted(l)' = Accepted(l) /\ CameIn(l)' = CameIn(l)
    BY <1>0, <2>3, <2>4, SumsKept
  <2>6. \A l \in Lines : Arrived(l)' = Arrived(l)
    BY <2>5 DEF Arrived
  <2>7. \A x \in Receipts : receipts'[x].accepted <= receipts'[x].received
    BY <2>3, <2>4 DEF Received
  <2> QED BY <1>1, <2>3, <2>5, <2>6, <2>7 DEF Received
<1>4. CASE OrderEditSave(w)
  <2>1. "edit_order" \in clients /\ UNCHANGED receipts
    BY <1>4 DEF OrderEditSave, At, AllAsked, Asked
  <2>2. \A l \in Lines : CameIn(l)' = CameIn(l) /\ CameIn(l) \in Nat
    BY <1>0, <2>1, ComesIn DEF CameIn, Confirmed
  <2>3. \A l \in Lines : received'[l] = received[l] \/ received'[l] = 0
    BY <1>4 DEF OrderEditSave
  <2> QED BY <1>1, <2>1, <2>2, <2>3 DEF Received
<1>5. CASE ConfirmCommit(w)
  <2>1. PICK g, m : g = job[w].receipt /\ m = job[w].line
    OBVIOUS
  <2>2. /\ g \in Receipts /\ m \in Lines
        /\ receipts[g].state = "DRAFT" /\ receipts[g].line = m /\ received[m] = job[w].received
        /\ receipts'[g].state = "CONFIRMED" /\ receipts'[g].line = m
        /\ receipts'[g].accepted = receipts[g].accepted
        /\ receipts'[g].received = receipts[g].received
        /\ \A x \in Receipts \ {g} : receipts'[x] = receipts[x]
        /\ received'[m] = Counted(w) /\ \A k \in Lines \ {m} : received'[k] = received[k]
    BY <1>5, <2>1, Committed
  <2>3. /\ Ordered[m] \in Nat
        /\ Counted(w) = IF Ordered[m] <= received[m] + receipts[g].accepted
                        THEN Ordered[m] ELSE received[m] + receipts[g].accepted
    BY <1>5, <2>1, <2>2, CountedTyped DEF ConfirmCommit, At, ConfirmSteps
  <2>4. receipts[g].accepted \in Nat /\ receipts[g].received \in Nat
    BY <1>0, <2>2 DEF ReceiptRows
  <2>6. ASSUME NEW l \in Lines
        PROVE  /\ "edit_order" \notin clients => received'[l] = Arrived(l)'
               /\ received'[l] <= CameIn(l)'
    <3>1. /\ l # m => Accepted(l)' = Accepted(l) /\ CameIn(l)' = CameIn(l)
          /\ l = m => /\ Accepted(l)' = Accepted(l) + receipts[g].accepted
                      /\ CameIn(l)' = CameIn(l) + receipts[g].received
      BY <1>0, <2>2, SumsGrow
    <3>2. /\ Accepted(l) \in Nat /\ Ordered[l] \in Nat /\ CameIn(l) \in Nat
          /\ Arrived(l) = IF Ordered[l] <= Accepted(l) THEN Ordered[l] ELSE Accepted(l)
      BY <1>0, AcceptedIs, ComesIn
    <3>3. /\ "edit_order" \notin clients => received[l] = Arrived(l)
          /\ received[l] <= CameIn(l) /\ receipts[g].accepted <= receipts[g].received
          /\ received[l] \in Nat
      BY <1>0, <2>2 DEF Received
    <3>4. CASE l # m
      <4>1. Arrived(l)' = Arrived(l)
        BY <3>1, <3>4 DEF Arrived
      <4> QED BY <2>2, <3>1, <3>3, <3>4, <4>1
    <3>5. CASE l = m
      <4> DEFINE a == receipts[g].accepted
                 A == Accepted(m)
                 o == Ordered[m]
      <4>1. Arrived(m)' = Min({o, A + a})
        BY <3>1, <3>5 DEF Arrived
      <4>2. a \in Nat /\ A \in Nat /\ o \in Nat
        BY <2>4, <3>2, <3>5
      <4> HIDE DEF a, A, o
      <4>3. Min({o, A + a}) = IF o <= A + a THEN o ELSE A + a
        <5>1. o \in Int /\ A + a \in Int
          BY <4>2
        <5> QED BY <5>1, MinPair
      <4>4. received'[m] = IF o <= received[m] + a THEN o ELSE received[m] + a
        BY <2>2, <2>3 DEF a, o
      <4>5. "edit_order" \notin clients => received[m] = IF o <= A THEN o ELSE A
        BY <3>2, <3>3, <3>5 DEF A, o
      <4>6. "edit_order" \notin clients => received'[m] = Arrived(m)'
        BY <4>1, <4>2, <4>3, <4>4, <4>5
      <4>7. received'[m] <= received[m] + a
        BY <3>3, <3>5, <4>2, <4>4
      <4>8. /\ CameIn(m)' = CameIn(m) + receipts[g].received /\ received[m] <= CameIn(m)
            /\ a <= receipts[g].received /\ CameIn(m) \in Nat /\ received[m] \in Nat
        BY <3>1, <3>2, <3>3, <3>5 DEF a
      <4>9. received'[m] <= CameIn(m)'
        <5>1. received'[m] \in Nat
          BY <4>2, <4>4, <4>8
        <5> QED BY <2>4, <4>2, <4>7, <4>8, <5>1
      <4> QED BY <3>5, <4>6, <4>9
    <3> QED BY <3>4, <3>5
  <2>7. \A x \in Receipts : receipts'[x].accepted <= receipts'[x].received
    BY <2>2 DEF Received
  <2> QED BY <1>1, <2>6, <2>7 DEF Received
<1>6. ConfirmLock(w) \/ ConfirmDecide(w) => UNCHANGED <<receipts, received>>
  BY DEF ConfirmLock, ConfirmDecide, goods
<1>7. Aside(w) => UNCHANGED <<receipts, received>>
  BY DEF Aside
<1> QED BY <1>2, <1>3, <1>4, <1>5, <1>6, <1>7, GoodsCases

----
(* What the order is called. *)

Full == \A l \in Lines : received[l] >= Ordered[l]

\* A confirmation that will call the order RECEIVED has seen the other lines full, and
\* fills its own.
Calls(w) ==
  /\ At(w, "confirm") /\ job[w].order = "RECEIVED" => Full
  /\ At(w, "confirmed") /\ job[w].order = "RECEIVED" =>
       /\ \A l \in Lines \ {job[w].line} : received[l] >= Ordered[l]
       /\ Counted(w) >= Ordered[job[w].line]

Called ==
  /\ order = "RECEIVED" => Full
  /\ \A w \in Workers : Calls(w)
CalledFit ==
  "edit_order" \notin clients /\ "RECEIVED" \notin OrderTargets \union NewOrderStatuses => Called

LEMMA CallsElsewhere ==
  ASSUME NEW w \in Workers, NEW v \in Others(w), job'[v] = job[v], Calls(v),
         received \in [Lines -> Nat], received' \in [Lines -> Nat], Ordered \in [Lines -> Nat],
         \A l \in Lines : received[l] <= received'[l],
         job[v].step \in ConfirmSteps => receipts'[job[v].receipt] = receipts[job[v].receipt]
  PROVE  Calls(v)'
<1>1. ASSUME NEW l \in Lines, received[l] >= Ordered[l]
      PROVE  received'[l] >= Ordered[l]
  <2>1. received[l] \in Nat /\ received'[l] \in Nat /\ Ordered[l] \in Nat
    OBVIOUS
  <2> QED BY <1>1, <2>1
<1>2. Full => Full'
  BY <1>1 DEF Full
<1>3. ASSUME At(v, "confirmed")
      PROVE  Counted(v)' = Counted(v)
  BY <1>3 DEF Counted, At, ConfirmSteps
<1>4. At(v, "confirm")' => At(v, "confirm")
  BY DEF At
<1>5. At(v, "confirmed")' => At(v, "confirmed")
  BY DEF At
<1> QED BY <1>1, <1>2, <1>3, <1>4, <1>5 DEF Calls

LEMMA DecidedReceived ==
  ASSUME Typed, Confirmations, NEW w \in Workers, At(w, "confirm"), Calls(w),
         Decided(job[w].order, [received EXCEPT ![job[w].line] = Counted(w)]) = "RECEIVED"
  PROVE  /\ \A l \in Lines \ {job[w].line} : received[l] >= Ordered[l]
         /\ Counted(w) >= Ordered[job[w].line]
<1> USE DEF Typed, Rows
<1>0. received \in [Lines -> Nat] /\ job[w].step \in ConfirmSteps
  BY DEF ReceivingTypes, At, ConfirmSteps
<1>1. PICK m : m = job[w].line
  OBVIOUS
<1>2. m \in Lines
  BY <1>0, <1>1, CountedTyped
<1> DEFINE lines == [received EXCEPT ![m] = Counted(w)]
<1>3. lines[m] = Counted(w) /\ \A l \in Lines \ {m} : lines[l] = received[l]
  BY <1>0, <1>2
<1>4. Decided(job[w].order, lines) = "RECEIVED"
  BY <1>1
<1> HIDE DEF lines
<1>5. (\A l \in Lines : lines[l] >= Ordered[l]) \/ job[w].order = "RECEIVED"
  BY <1>4 DEF Decided
<1>6. CASE \A l \in Lines : lines[l] >= Ordered[l]
  BY <1>1, <1>2, <1>3, <1>6
<1>7. CASE job[w].order = "RECEIVED"
  <2>1. Full
    BY <1>7 DEF Calls
  <2>2. received[m] = job[w].received
    BY <1>0, <1>1 DEF Confirmations, Locked
  <2>3. Ordered[m] <= received[m] /\ received[m] \in Nat /\ Ordered[m] \in Nat
    BY <1>0, <1>2, <2>1, ReceivingAssumption DEF Full
  <2>4. receipts[job[w].receipt].accepted \in Nat
        /\ Counted(w) = IF Ordered[m] <= received[m] + receipts[job[w].receipt].accepted
                        THEN Ordered[m] ELSE received[m] + receipts[job[w].receipt].accepted
    BY <1>0, <1>1, <2>2, CountedTyped
  <2>5. Counted(w) >= Ordered[m]
    BY <2>3, <2>4
  <2> QED BY <1>1, <2>1, <2>5 DEF Full
<1> QED BY <1>5, <1>6, <1>7

LEMMA CalledStep ==
  ASSUME Served, Confirmations, CalledFit, NEW w \in Workers,
         Goods(w) \/ BillStep(w) \/ ReturnStep(w) \/ CreditStep(w) \/ ExpenseStep(w)
  PROVE  CalledFit'
<1> USE DEF Served, Typed, Rows
<1>0. UNCHANGED clients /\ \A v \in Others(w) : job'[v] = job[v]
  BY EveryStep DEF Moves
<1> SUFFICES ASSUME "edit_order" \notin clients,
                    "RECEIVED" \notin OrderTargets \union NewOrderStatuses, Called
             PROVE  Called'
  BY <1>0 DEF CalledFit
<1>1. /\ received \in [Lines -> Nat] /\ Ordered \in [Lines -> Nat]
      /\ receipts \in [Receipts -> ReceiptRows]
  BY ReceivingAssumption DEF ReceivingTypes
<1>2. \A v \in Others(w) : v \in Workers /\ Locked(v) /\ Calls(v)
  BY DEF Others, Confirmations, Called
<1>3. \A v \in Others(w) : job[v].step \in ConfirmSteps =>
        job[v].line \in Lines /\ job[v].receipt \in Receipts
  BY <1>2, CountedTyped
<1>4. ASSUME UNCHANGED received,
             \A v \in Others(w) : job[v].step \in ConfirmSteps =>
               receipts'[job[v].receipt] = receipts[job[v].receipt]
      PROVE  /\ Full' <=> Full
             /\ \A v \in Others(w) : Calls(v)'
  <2>1. received' \in [Lines -> Nat] /\ \A l \in Lines : received[l] <= received'[l]
    BY <1>1, <1>4
  <2>2. \A v \in Others(w) : Calls(v)'
    BY <1>0, <1>1, <1>2, <1>4, <2>1, CallsElsewhere
  <2> QED BY <1>4, <2>2 DEF Full
<1>5. ASSUME job'[w].step \notin ConfirmSteps
      PROVE  Calls(w)'
  BY <1>5 DEF Calls, At, ConfirmSteps
<1>6. CASE Aside(w)
  <2>1. order' = "RECEIVED" => order = "RECEIVED"
    <3>1. ASSUME OrderStatusSave(w)
          PROVE  order' # "RECEIVED"
      BY <3>1 DEF OrderStatusSave, At, Jobs, JobShape, GoodsShape
    <3>2. CASE order' = order
      BY <3>2
    <3>3. \/ order' = order \/ OrderStatusSave(w)
          \/ OrderEditSave(w)
          \/ CreateReceipt(w) \/ ReceiptEditSave(w, Referenced) \/ DeleteReceipt(w, Referenced)
          \/ ConfirmLock(w) \/ ConfirmDecide(w) \/ ConfirmCommit(w)
      BY GoodsCases
    <3>4. ~OrderEditSave(w)
      BY DEF OrderEditSave, At, AllAsked, Asked
    <3>5. ~ConfirmCommit(w)
      BY <1>6, Committed DEF Aside, ReceivingTypes, ReceiptRows
    <3>6. CreateReceipt(w) \/ ReceiptEditSave(w, Referenced) \/ DeleteReceipt(w, Referenced)
             \/ ConfirmLock(w) \/ ConfirmDecide(w) => order' = order
      BY DEF CreateReceipt, ReceiptEditSave, DeleteReceipt, ConfirmLock, ConfirmDecide, goods
    <3> QED BY <3>1, <3>2, <3>3, <3>4, <3>5, <3>6
  <2> QED BY <1>4, <1>5, <1>6, <2>1 DEF Aside, Called, Others
<1>7. CASE CreateReceipt(w) \/ ReceiptEditSave(w, Referenced) \/ DeleteReceipt(w, Referenced)
  <2>1. PICK g \in Receipts : Writes(w, g)
    BY <1>7, ReceiptWrites
  <2>2. order' = order
    BY <1>7 DEF CreateReceipt, ReceiptEditSave, DeleteReceipt
  <2>3. ASSUME NEW v \in Others(w), job[v].step \in ConfirmSteps
        PROVE  receipts'[job[v].receipt] = receipts[job[v].receipt]
    <3>1. receipts[job[v].receipt].state = "DRAFT"
      BY <1>2, <2>3 DEF Locked
    <3>2. job[v].receipt # g
      BY <2>1, <2>3, <3>1 DEF Writes, ReceiptFree, Confirming, Present
    <3> QED BY <1>3, <2>1, <2>3, <3>2 DEF Writes
  <2> QED BY <1>4, <1>5, <2>1, <2>2, <2>3 DEF Writes, Called, Others
<1>8. ~OrderEditSave(w)
  BY DEF OrderEditSave, At, AllAsked, Asked
<1>9. CASE ConfirmLock(w)
  <2>1. UNCHANGED <<order, received, receipts>> /\ job'[w].step = "confirm" /\ job'[w].order = order
    BY <1>9, BeganConfirming DEF goods
  <2>2. Full' <=> Full
    BY <1>4, <2>1
  <2>3. Calls(w)'
    BY <2>1, <2>2 DEF Calls, At, Called
  <2> QED BY <1>4, <2>1, <2>2, <2>3 DEF Called, Others
<1>10. CASE ConfirmDecide(w)
  <2>1. /\ UNCHANGED <<order, received, receipts>> /\ job'[w].step = "confirmed"
        /\ At(w, "confirm")
        /\ job'[w].receipt = job[w].receipt /\ job'[w].line = job[w].line
        /\ job'[w].received = job[w].received
        /\ job'[w].order = Decided(job[w].order, [received EXCEPT ![job[w].line] = Counted(w)])
    BY <1>10, DecidedOrder DEF goods
  <2>2. Full' <=> Full
    BY <1>4, <2>1
  <2>3. Counted(w)' = Counted(w)
    BY <2>1 DEF Counted
  <2>4. Calls(w)
    BY DEF Called
  <2>5. job'[w].order = "RECEIVED" =>
          /\ \A l \in Lines \ {job[w].line} : received[l] >= Ordered[l]
          /\ Counted(w) >= Ordered[job[w].line]
    BY <2>1, <2>4, DecidedReceived
  <2>6. Calls(w)'
    BY <2>1, <2>3, <2>5 DEF Calls, At
  <2> QED BY <1>4, <2>1, <2>2, <2>6 DEF Called, Others
<1>11. CASE ConfirmCommit(w)
  <2>1. PICK g, m : g = job[w].receipt /\ m = job[w].line
    OBVIOUS
  <2>2. /\ g \in Receipts /\ m \in Lines /\ receipts[g].line = m
        /\ received[m] = job[w].received
        /\ \A x \in Receipts \ {g} : receipts'[x] = receipts[x]
        /\ received'[m] = Counted(w) /\ \A k \in Lines \ {m} : received'[k] = received[k]
        /\ order' = job[w].order /\ job'[w] = Idle
    BY <1>11, <2>1, Committed
  <2>3. At(w, "confirmed") /\ job[w].step \in ConfirmSteps /\ Locked(w) /\ Calls(w)
    BY <1>11 DEF ConfirmCommit, At, ConfirmSteps, Confirmations, Called
  <2>4. ASSUME NEW v \in Others(w), job[v].step \in ConfirmSteps
        PROVE  receipts'[job[v].receipt] = receipts[job[v].receipt]
    <3>1. job[v].line # m
      BY <2>1, <2>3, <2>4 DEF Locked, LineFree
    <3>2. receipts[job[v].receipt].line = job[v].line
      BY <1>2, <2>4 DEF Locked
    <3> QED BY <1>3, <2>2, <2>4, <3>1, <3>2
  <2>5. /\ Ordered[m] \in Nat /\ receipts[g].accepted \in Nat /\ received[m] \in Nat
        /\ Counted(w) = IF Ordered[m] <= received[m] + receipts[g].accepted
                        THEN Ordered[m] ELSE received[m] + receipts[g].accepted
    BY <1>1, <2>1, <2>2, <2>3, CountedTyped
  <2>6. received[m] <= Ordered[m]
    BY <2>2 DEF Confirmations
  <2>7. received[m] <= received'[m]
    BY <2>2, <2>5, <2>6
  <2>8. received' \in [Lines -> Nat]
    <3>1. ReceivingTypes'
      BY <1>11, ConfirmTyped
    <3> QED BY <3>1 DEF ReceivingTypes
  <2>9. \A l \in Lines : received[l] <= received'[l]
    BY <1>1, <2>2, <2>7
  <2>10. \A v \in Others(w) : Calls(v)'
    BY <1>0, <1>1, <1>2, <2>4, <2>8, <2>9, CallsElsewhere
  <2>11. order' = "RECEIVED" => Full'
    <3> SUFFICES ASSUME order' = "RECEIVED", NEW l \in Lines
                 PROVE  received'[l] >= Ordered[l]
      BY DEF Full
    <3>1. /\ \A k \in Lines \ {m} : received[k] >= Ordered[k]
          /\ Counted(w) >= Ordered[m]
      BY <2>1, <2>2, <2>3 DEF Calls
    <3> QED BY <2>2, <3>1
  <2>12. Calls(w)'
    BY <1>5, <2>2 DEF Idle, ConfirmSteps
  <2> QED BY <2>10, <2>11, <2>12 DEF Called, Others
<1> QED BY <1>6, <1>7, <1>8, <1>9, <1>10, <1>11, GoodsCases

----
(* Receipts, what they bring in and what is said of them. *)

ReceiptsFit == Confirmations /\ StockFit /\ ReceivedFit /\ CalledFit

LEMMA ReceiptsInit ==
  ASSUME AllInit
  PROVE  ReceiptsFit
<1>1. ReceivingTypes
  BY TypedInit DEF Typed, Rows
<1>2. PICK s \in Starts : ReceivingInit(s)
  BY DEF AllInit, Init
<1>3. /\ receipts = s.receipts /\ job = [w \in Workers |-> Idle]
      /\ received = [l \in Lines |-> Arrived(l)]
      /\ stocked = [g \in Receipts |-> receipts[g].accepted]
  BY <1>2 DEF ReceivingInit
<1>4. receipts \in [Receipts -> ReceiptRows]
  BY <1>1 DEF ReceivingTypes
<1>5. \A g \in Receipts : /\ receipts[g] = NoReceipt \/ receipts[g].state = "CONFIRMED"
                          /\ receipts[g].accepted <= receipts[g].received
  BY <1>3, ReceivingAssumption
<1>6. \A w \in Workers : job[w].step = "idle"
  BY <1>3 DEF Idle
<1>7. \A l \in Lines : /\ received[l] = Arrived(l)
                       /\ Accepted(l) \in Nat /\ Ordered[l] \in Nat
                       /\ Arrived(l) = IF Ordered[l] <= Accepted(l) THEN Ordered[l] ELSE Accepted(l)
  BY <1>3, <1>4, AcceptedIs
<1>8. \A l \in Lines : received[l] <= Ordered[l] /\ received[l] <= Accepted(l)
  <2> TAKE l \in Lines
  <2>1. /\ received[l] = Arrived(l) /\ Accepted(l) \in Nat /\ Ordered[l] \in Nat
        /\ Arrived(l) = IF Ordered[l] <= Accepted(l) THEN Ordered[l] ELSE Accepted(l)
    BY <1>7
  <2> QED BY <2>1
<1>9. \A l \in Lines : Accepted(l) <= CameIn(l) /\ CameIn(l) \in Nat
  <2> TAKE l \in Lines
  <2> DEFINE f == [g \in Receipts |-> receipts[g].accepted]
             e == [g \in Receipts |-> receipts[g].received]
  <2>1. IsFiniteSet(Confirmed(l)) /\ Confirmed(l) \subseteq Receipts
    BY <1>4, AcceptedIs
  <2>2. \A g \in Receipts : f[g] \in Int /\ e[g] \in Int /\ f[g] <= e[g]
    BY <1>4, <1>5 DEF ReceiptRows
  <2>3. Accepted(l) = SumFunctionOnSet(f, Confirmed(l)) /\ CameIn(l) = SumFunctionOnSet(e, Confirmed(l))
    BY DEF Accepted, CameIn
  <2> HIDE DEF f, e
  <2>4. SumFunctionOnSet(f, Confirmed(l)) <= SumFunctionOnSet(e, Confirmed(l))
    BY <2>1, <2>2, SumLess
  <2>5. CameIn(l) \in Nat
    BY <1>4, ComesIn
  <2> QED BY <2>3, <2>4, <2>5
<1>10. Confirmations
  BY <1>6, <1>8 DEF Confirmations, Locked, ConfirmSteps
<1>11. Stocked
  <2> SUFFICES ASSUME NEW g \in Receipts, Present(g)
               PROVE  receipts[g].state = "CONFIRMED" /\ stocked[g] = receipts[g].accepted
    BY DEF Stocked
  <2>1. receipts[g] # NoReceipt
    BY DEF Present, NoReceipt
  <2> QED BY <1>3, <1>5, <2>1
<1>12. Received
  <2> SUFFICES ASSUME NEW l \in Lines
               PROVE  received[l] = Arrived(l) /\ received[l] <= CameIn(l)
    BY <1>5 DEF Received
  <2>1. received[l] <= Accepted(l) /\ Accepted(l) <= CameIn(l)
    BY <1>8, <1>9
  <2>2. received[l] \in Nat /\ Accepted(l) \in Nat /\ CameIn(l) \in Nat
    BY <1>1, <1>7, <1>9 DEF ReceivingTypes
  <2> QED BY <1>7, <2>1, <2>2
<1>13. CalledFit
  <2>1. \A w \in Workers : Calls(w)
    BY <1>6 DEF Calls, At
  <2>2. PICK status \in NewOrderStatuses : order = Decided(status, received)
    BY <1>2 DEF ReceivingInit
  <2>3. order = "RECEIVED" => Full \/ status = "RECEIVED"
    BY <2>2 DEF Decided, Full
  <2> QED BY <2>1, <2>3 DEF CalledFit, Called
<1> QED BY <1>10, <1>11, <1>12, <1>13 DEF ReceiptsFit, StockFit, ReceivedFit

LEMMA ReceiptsStep ==
  ASSUME Served, ReceiptsFit, [AllNext]_allVars
  PROVE  ReceiptsFit'
<1>1. CASE UNCHANGED allVars
  <2>1. UNCHANGED <<clients, order, job, received, receipts, stocked>>
    BY <1>1 DEF allVars, vars, goods
  <2>2. Confirmations'
    BY <2>1 DEF ReceiptsFit, Confirmations, Locked, LineFree
  <2>3. StockFit'
    BY <2>1 DEF ReceiptsFit, StockFit, Stocked, Present
  <2>4. ReceivedFit'
    BY <2>1 DEF ReceiptsFit, ReceivedFit, Received, Arrived, Accepted, CameIn, Confirmed
  <2>5. \A w \in Workers : Calls(w) => Calls(w)'
    BY <2>1 DEF Calls, At, Full, Counted
  <2>6. CalledFit'
    BY <2>1, <2>5 DEF ReceiptsFit, CalledFit, Called, Full
  <2> QED BY <2>2, <2>3, <2>4, <2>6 DEF ReceiptsFit
<1>2. ASSUME NEW w \in Workers,
             Goods(w) \/ BillStep(w) \/ ReturnStep(w) \/ CreditStep(w) \/ ExpenseStep(w)
      PROVE  ReceiptsFit'
  BY <1>2, ConfirmationsStep, StockStep, ReceivedStep, CalledStep DEF ReceiptsFit, Served
<1> QED BY <1>1, <1>2, StepCases

\* The goods of a receipt come into stock once, lines have received what their confirmed
\* receipts accepted, and a confirmation calls the order RECEIVED when every line is full,
\* although it reads the lines of other receipts without a lock.
THEOREM ReceiptsCount == AllSpec => []ReceiptsCounted
<1> DEFINE Inv == Served /\ ReceiptsFit
<1>1. AllInit => Inv
  BY ServedInit, ReceiptsInit
<1>2. Inv /\ [AllNext]_allVars => Inv'
  BY ServedStep, ReceiptsStep
<1>3. Inv => ReceiptsCounted
  BY DEF ReceiptsFit, StockFit, Stocked, ReceivedFit, Received, CalledFit, Called, Full,
     ReceiptsCounted, StockedOnce, ReceivedCounted, Without
<1> QED BY <1>1, <1>2, <1>3, PTL DEF AllSpec

----
(* What the screens show. *)

LEMMA LargestLine ==
  LET largest == Max({0} \union {Ordered[l] : l \in Lines})
  IN  largest \in Nat /\ \A l \in Lines : Ordered[l] <= largest
<1> DEFINE S == {0} \union {Ordered[l] : l \in Lines}
           total == SumFunctionOnSet(Ordered, Lines)
<1>1. Ordered \in [Lines -> Nat] /\ IsFiniteSet(Lines)
  BY ReceivingAssumption
<1>2. \A l \in Lines : Ordered[l] \in Nat
  BY <1>1
<1>3. total \in Nat
  BY <1>1, <1>2, SumNat
<1>4. ASSUME NEW l \in Lines
      PROVE  Ordered[l] <= total
  <2>1. total = Ordered[l] + SumFunctionOnSet(Ordered, Lines \ {l})
    BY <1>1, <1>2, SumPick
  <2>2. IsFiniteSet(Lines \ {l})
    BY <1>1, FS_Subset
  <2>3. SumFunctionOnSet(Ordered, Lines \ {l}) \in Nat
    BY <1>2, <2>2, SumNat
  <2> QED BY <1>2, <2>1, <2>3
<1> HIDE DEF total
<1>5. S \subseteq Nat /\ S # {} /\ \A x \in S : x <= total
  BY <1>2, <1>3, <1>4
<1> HIDE DEF S
<1>6. Max(S) \in S /\ \A x \in S : x <= Max(S)
  BY <1>3, <1>5, MaxIn
<1>7. Max(S) \in Nat
  BY <1>5, <1>6
<1>8. \A l \in Lines : Ordered[l] \in S
  BY DEF S
<1> QED BY <1>6, <1>7, <1>8 DEF S

\* What the receipt form proposes for a line that has received no more than came in.
LEMMA ProposedValid ==
  ASSUME Typed, Received, NEW l \in OfferedLines
  PROVE  Proposed(l) \in ValidRows
<1> USE DEF Typed, Rows
<1>1. l \in Lines /\ LeftToReceive(l) > 0
  BY DEF OfferedLines
<1>2. /\ received[l] \in Nat /\ Ordered[l] \in Nat /\ CameIn(l) \in Nat
      /\ received[l] <= CameIn(l)
  BY <1>1, ReceivingAssumption, ComesIn DEF ReceivingTypes, Received
<1> DEFINE o == Ordered[l]
           c == CameIn(l)
           r == received[l]
<1>3. LeftToReceive(l) = Max({0, o - c}) /\ Receivable(l) = Max({0, o - r})
  BY DEF LeftToReceive, Receivable
<1>4. o \in Nat /\ c \in Nat /\ r \in Nat /\ r <= c
  BY <1>2
<1> HIDE DEF o, c, r
<1>5. o - c \in Int /\ o - r \in Int /\ 0 \in Int
  BY <1>4
<1>6. /\ LeftToReceive(l) = IF 0 <= o - c THEN o - c ELSE 0
      /\ Receivable(l) = IF 0 <= o - r THEN o - r ELSE 0
  BY <1>3, <1>5, MaxPair
<1>7. LeftToReceive(l) \in 1..o /\ LeftToReceive(l) <= Receivable(l)
  BY <1>1, <1>4, <1>6
<1> DEFINE largest == Max({0} \union {Ordered[k] : k \in Lines})
<1>8. largest \in Nat /\ o <= largest
  BY <1>1, LargestLine DEF o
<1> HIDE DEF largest
<1>9. LeftToReceive(l) \in 1..largest /\ LeftToReceive(l) \in 0..largest
  BY <1>4, <1>7, <1>8
<1>10. Proposed(l) \in DraftRows
  <2>1. DraftRows = {[state |-> "DRAFT", line |-> k, received |-> n, accepted |-> a] :
                       k \in Lines, n \in 1..largest, a \in 0..largest}
    BY DEF DraftRows, largest
  <2> QED BY <1>1, <1>9, <2>1 DEF Proposed
<1>11. /\ Proposed(l).line = l /\ Proposed(l).received = LeftToReceive(l)
       /\ Proposed(l).accepted = LeftToReceive(l)
  BY DEF Proposed
<1>12. LeftToReceive(l) <= LeftToReceive(l)
  BY <1>9
<1> QED BY <1>7, <1>10, <1>11, <1>12 DEF ValidRows

LEMMA PayableShown ==
  ASSUME Typed
  PROVE  /\ TotalPayable = SumFunctionOnSet([b \in Bills |-> bills[b].total - bills[b].paid], Bills)
         /\ \A b \in Bills : bills[b].total > bills[b].paid => b \in PayableBills
<1> USE DEF Typed, Rows
<1>1. \A b \in Bills : /\ bills[b].total \in Nat /\ bills[b].paid \in Nat /\ bills[b].balance \in Nat
                       /\ bills[b].paid + bills[b].balance = bills[b].total
                       /\ bills[b].status \in {"PAID", "ABSENT"} => bills[b].balance = 0
  BY FairParts DEF BillTypes
<1> DEFINE f == [b \in Bills |-> bills[b].balance]
           h == [b \in Bills |-> bills[b].total - bills[b].paid]
           S == {b \in Bills : bills[b].status \notin {"PAID", "ABSENT"}}
           T == Bills \ S
<1>2. \A b \in Bills : f[b] \in Int /\ f[b] = h[b]
  <2> TAKE b \in Bills
  <2>1. /\ bills[b].total \in Nat /\ bills[b].paid \in Nat /\ bills[b].balance \in Nat
        /\ bills[b].paid + bills[b].balance = bills[b].total
    BY <1>1
  <2>2. bills[b].balance = bills[b].total - bills[b].paid
    BY <2>1
  <2> QED BY <2>1, <2>2
<1>3. \A b \in T : f[b] = 0
  BY <1>1
<1>4. S \union T = Bills /\ S \intersect T = {} /\ S \subseteq Bills /\ T \subseteq Bills
  OBVIOUS
<1>5. IsFiniteSet(S) /\ IsFiniteSet(T) /\ IsFiniteSet(Bills)
  BY <1>4, PayablesAssumption, FS_Subset
<1>6. TotalPayable = SumFunctionOnSet(f, S)
  BY DEF TotalPayable
<1> HIDE DEF f, h, S, T
<1>7. SumFunctionOnSet(f, Bills) = SumFunctionOnSet(h, Bills)
  BY <1>2, <1>5, SumSame
<1>8. SumFunctionOnSet(f, S \union T) = SumFunctionOnSet(f, S) + SumFunctionOnSet(f, T)
  BY <1>2, <1>4, <1>5, SumUnion
<1>9. SumFunctionOnSet(f, T) = 0
  BY <1>3, <1>5, SumZeros
<1>10. SumFunctionOnSet(f, S) \in Int
  BY <1>2, <1>4, <1>5, SumInt
<1>11. SumFunctionOnSet(f, Bills) = SumFunctionOnSet(f, S)
  <2>1. SumFunctionOnSet(f, S \union T) = SumFunctionOnSet(f, S)
    BY <1>8, <1>9, <1>10
  <2> QED BY <1>4, <2>1, Zenon
<1>12. ASSUME NEW b \in Bills, bills[b].total > bills[b].paid
       PROVE  b \in PayableBills
  <2>1. bills[b].balance > 0
    <3>1. /\ bills[b].total \in Nat /\ bills[b].paid \in Nat /\ bills[b].balance \in Nat
          /\ bills[b].paid + bills[b].balance = bills[b].total
      BY <1>1
    <3> QED BY <1>12, <3>1
  <2>2. bills[b].status \notin {"PAID", "ABSENT"}
    BY <1>1, <2>1
  <2> QED BY <2>1, <2>2 DEF PayableBills
<1> QED BY <1>6, <1>7, <1>11, <1>12 DEF h

\* What the receipt form proposes passes validation, the bill summary's total is what is
\* billed and not paid, and every bill that owes something is on the payment form.
THEOREM OffersShown == AllSpec => []OffersFit
<1> DEFINE Inv == Served /\ ReceiptsFit
<1>1. AllInit => Inv
  BY ServedInit, ReceiptsInit
<1>2. Inv /\ [AllNext]_allVars => Inv'
  BY ServedStep, ReceiptsStep
<1>3. Inv => OffersFit
  BY ProposedValid, PayableShown DEF Served, ReceiptsFit, ReceivedFit, OffersFit, Without
<1> QED BY <1>1, <1>2, <1>3, PTL DEF AllSpec
=============================================================================
