------------------------------ MODULE Payables ------------------------------
(***************************************************************************)
(* What a purchase order comes to owe: supplier bills over its confirmed   *)
(* receipts, the payments allocated to them, the returns of its goods and  *)
(* the vendor credits that returns and clients make and apply to bills.    *)
(*                                                                         *)
(* The items of a bill and of a return are over one receipt, at a unit     *)
(* cost of one, so that quantities are amounts.  The code compares each    *)
(* item with what the receipt has left and never adds them up: a row keeps *)
(* their total and the largest of them.  Rows that a request locks before  *)
(* it reads them, and keeps locked until it commits, are read and written  *)
(* in one step; whatever it reads without a lock is read in an earlier one.*)
(***************************************************************************)
EXTENDS Receiving

CONSTANTS
  Bills, Payments, Returns,   \* rows that clients may create
  ManualCredits,              \* vendor credits that clients create themselves
  MaxLines,                   \* bound: items of one document over the same receipt
  NewBillStatuses,            \* statuses that clients write to a bill
  NewReturnStatuses           \* statuses that clients write to a return

\* The credit that an approval issues has the number of its return, which is unique.
Credits == Returns \union ManualCredits

BillStatuses == {"DRAFT", "UNMATCHED", "UNPAID", "PARTIALLY_PAID", "PAID"}
ReturnStatuses == {"DRAFT", "PENDING_APPROVAL", "APPROVED", "CREDIT_ISSUED",
                   "REJECTED", "CANCELLED"}
CreditStatuses == {"DRAFT", "OPEN", "APPROVED", "PARTIALLY_APPLIED",
                   "FULLY_APPLIED", "VOID"}

ReturnRows == [status : ReturnStatuses, receipt : Receipts, quantity : Nat, largest : Nat]
NoReturn == [status |-> "ABSENT", receipt |-> "none", quantity |-> 0, largest |-> 0]

\* accepted_quantity or received_quantity: nothing accepted counts as received.
BillableOf(row) == IF row.accepted = 0 THEN row.received ELSE row.accepted

\* A start has returns that were credited before, within what was accepted.
ASSUME PayablesAssumption ==
  /\ IsFiniteSet(Payments) /\ IsFiniteSet(Credits)
  /\ Bills \subseteq Nat /\ IsFiniteSet(Bills)
  /\ MaxLines \in Nat \ {0}
  /\ Returns \intersect ManualCredits = {}
  /\ NewBillStatuses \subseteq {"DRAFT", "UNMATCHED"}
  /\ NewReturnStatuses \subseteq ReturnStatuses
  /\ "none" \notin Receipts \union Returns
  /\ \A s \in Starts :
       /\ s.returns \in [Returns -> ReturnRows \union {NoReturn}]
       /\ \A r \in Returns : s.returns[r] # NoReturn =>
            /\ s.returns[r].status = "CREDIT_ISSUED"
            /\ s.returns[r].largest = s.returns[r].quantity
            /\ s.receipts[s.returns[r].receipt].state = "CONFIRMED"
       /\ \A g \in Receipts :
            SumFunctionOnSet([r \in Returns |-> s.returns[r].quantity],
                             {r \in Returns : s.returns[r].receipt = g})
              <= BillableOf(s.receipts[g])

VARIABLES
  bills,      \* SupplierBill rows
  billed,     \* SupplierBillItem: receipt of a bill, total and largest of its items
  payments,   \* SupplierPaymentAllocation.amount, per payment and bill
  returns,    \* SupplierReturn rows, each with its items
  sentBack,   \* quantity of the SUPPLIER_RETURN movements that refer to a return
  credits,    \* VendorCredit rows; of is the return, lines the total of the items
  planned,    \* VendorCreditApplication.amount, per credit and bill
  taken       \* history: what a credit has really taken off a bill

money == <<bills, billed, payments, credits, planned, taken>>
vars == <<clients, goods, job, money, returns, sentBack>>

NoBill == [status |-> "ABSENT", total |-> 0, paid |-> 0, balance |-> 0, approved |-> FALSE]
BillRows == [status : BillStatuses \union {"ABSENT"}, total : Nat, paid : Nat,
             balance : Nat, approved : BOOLEAN]
Nothing == [b \in Bills |-> 0]
NoItem == [receipt |-> "none", quantity |-> 0, largest |-> 0]
NoCredit == [status |-> "ABSENT", of |-> "none", lines |-> 0, total |-> 0,
             applied |-> 0, remaining |-> 0, posted |-> FALSE]

Init ==
  /\ \E s \in Starts : ReceivingInit(s) /\ returns = s.returns
  /\ bills = [b \in Bills |-> NoBill]
  /\ billed = [b \in Bills |-> NoItem]
  /\ payments = [p \in Payments |-> Nothing]
  /\ sentBack = [r \in Returns |-> returns[r].quantity]
  /\ credits = [c \in Credits |-> NoCredit]
  /\ planned = [c \in Credits |-> Nothing]
  /\ taken = [c \in Credits |-> Nothing]

Total(amounts) == SumFunctionOnSet(amounts, Bills)

\* What the items of one document can come to when the largest is so much: clients
\* of the kind "repeat_lines" send several items over one receipt.
Totals(n) == n .. (IF "repeat_lines" \in clients THEN MaxLines ELSE 1) * n

\* Receipts whose item a bill or a return refers to (on_delete=PROTECT).
Referenced ==
  {billed[b].receipt : b \in {x \in Bills : billed[x].quantity > 0}}
    \union {returns[r].receipt : r \in {x \in Returns : returns[x].status # "ABSENT"}}

Goods(w) == ReceivingStep(w, Referenced) /\ UNCHANGED <<money, returns, sentBack>>

----------------------------------------------------------------------------
(* Bills. *)

Billable(g) == BillableOf(receipts[g])

Elsewhere(g, b) ==
  SumFunctionOnSet([x \in Bills |-> billed[x].quantity],
                   {x \in Bills \ {b} : billed[x].receipt = g})

Unbilled(g, b) == Max({0, Billable(g) - Elsewhere(g, b)})

\* An approval holds the lock of its bill.
BillFree(w, b) == \A v \in Others(w) : ~(At(v, "bill_approve") /\ job[v].bill = b)

\* Serializers accept a confirmed receipt of an approved order.
CanBill(g) ==
  /\ receipts[g].state = "CONFIRMED"
  /\ order \in {"APPROVED", "PARTIALLY_RECEIVED", "RECEIVED"}

\* Keys of new rows are new: no other worker has a bill of that key in memory, and
\* no credit has taken anything off one.
NewBill(w, b) ==
  /\ \A v \in Others(w) : ~(At(v, "bill_save") /\ job[v].bill = b)
  /\ \A c \in Credits : taken[c][b] = 0

\* Create and update validate the quantity of each item without a lock.
BillLoad(w) ==
  \E kind \in {"create_bill", "edit_bill"}, b \in Bills, g \in Receipts,
     s \in NewBillStatuses :
    LET row == IF kind = "create_bill" THEN NoBill ELSE bills[b]
    IN /\ Takes(w, kind)
       /\ (kind = "create_bill") <=> (bills[b].status = "ABSENT")
       /\ kind = "create_bill" => NewBill(w, b)
       /\ ~row.approved
       /\ CanBill(g)
       /\ \E n \in 1..Unbilled(g, b) : \E q \in Totals(n) :
            Becomes(w, [step |-> "bill_save", bill |-> b, row |-> [row EXCEPT !.status = s],
                        items |-> TRUE, receipt |-> g, quantity |-> q, largest |-> n])
  /\ UNCHANGED <<clients, goods, money, returns, sentBack>>

\* An edit without items; a bill that has lost its item is not followed.
BillHeaderLoad(w) ==
  /\ Takes(w, "edit_bill")
  /\ \E b \in Bills, s \in NewBillStatuses :
       /\ bills[b].status # "ABSENT"
       /\ ~bills[b].approved
       /\ billed[b].receipt \in Receipts
       /\ CanBill(billed[b].receipt)
       /\ Becomes(w, [step |-> "bill_save", bill |-> b,
                      row |-> [bills[b] EXCEPT !.status = s], items |-> FALSE,
                      receipt |-> billed[b].receipt, quantity |-> billed[b].quantity,
                      largest |-> billed[b].largest])
  /\ UNCHANGED <<clients, goods, money, returns, sentBack>>

\* The whole row is saved as it was read, also when it has been deleted meanwhile
\* (Django inserts it again).  New items need their receipt and start
\* the bill's money anew.
BillSave(w) ==
  LET b == job[w].bill
      row == job[w].row
      q == job[w].quantity
  IN /\ At(w, "bill_save")
     /\ BillFree(w, b)
     /\ job[w].items => Present(job[w].receipt)
     /\ bills' = [bills EXCEPT ![b] =
          IF job[w].items THEN [row EXCEPT !.total = q, !.paid = 0, !.balance = q]
          ELSE row]
     /\ billed' = [billed EXCEPT ![b] =
          IF job[w].items
          THEN [receipt |-> job[w].receipt, quantity |-> q, largest |-> job[w].largest] ELSE @]
     /\ Respond(w)
     /\ UNCHANGED <<clients, goods, payments, credits, planned, taken, returns, sentBack>>

\* Mutant: approval trusts the validation that the bill was created with.
ApprovableUnchecked(b) ==
  /\ bills[b].status # "ABSENT"
  /\ ~bills[b].approved
  /\ billed[b].quantity > 0
  /\ receipts[billed[b].receipt].state = "CONFIRMED"
  /\ bills[b].paid <= billed[b].quantity

\* Mutant: what has been paid is not compared with the total of the items.
ApprovableOverpaid(b) ==
  /\ bills[b].status # "ABSENT"
  /\ ~bills[b].approved
  /\ billed[b].quantity > 0
  /\ receipts[billed[b].receipt].state = "CONFIRMED"
  /\ billed[b].largest <= Unbilled(billed[b].receipt, b)

\* A bill with items that each still fit, and that nobody has approved.
Approvable(b) ==
  /\ bills[b].status # "ABSENT"
  /\ ~bills[b].approved
  /\ billed[b].quantity > 0
  /\ receipts[billed[b].receipt].state = "CONFIRMED"
  /\ billed[b].largest <= Unbilled(billed[b].receipt, b)
  /\ bills[b].paid <= billed[b].quantity

\* approve locks the bill and reads the other bills of its receipt.
ApproveLoad(w) ==
  /\ Takes(w, "approve_bill")
  /\ \E b \in Bills :
       /\ BillFree(w, b)
       /\ Approvable(b)
       /\ Becomes(w, [step |-> "bill_approve", bill |-> b])
  /\ UNCHANGED <<clients, goods, money, returns, sentBack>>

\* Status of a bill that owes so much.
Settled(paid, balance) ==
  IF balance = 0 THEN "PAID" ELSE IF paid > 0 THEN "PARTIALLY_PAID" ELSE "UNPAID"

ApproveSave(w) ==
  LET b == job[w].bill
      total == billed[b].quantity
      left == total - bills[b].paid
  IN /\ At(w, "bill_approve")
     /\ bills' = [bills EXCEPT ![b] =
          [status |-> Settled(bills[b].paid, left), total |-> total,
           paid |-> bills[b].paid, balance |-> left, approved |-> TRUE]]
     /\ Respond(w)
     /\ UNCHANGED <<clients, goods, billed, payments, credits, planned, taken,
                    returns, sentBack>>

\* Allocations and applications protect a bill; its item goes with it.
DeleteBill(w) ==
  /\ Takes(w, "delete_bill")
  /\ \E b \in Bills :
       /\ bills[b].status # "ABSENT"
       /\ BillFree(w, b)
       /\ \A p \in Payments : payments[p][b] = 0
       /\ \A c \in Credits : planned[c][b] = 0
       /\ bills' = [bills EXCEPT ![b] = NoBill]
       /\ billed' = [billed EXCEPT ![b] = NoItem]
  /\ UNCHANGED <<clients, goods, job, payments, credits, planned, taken, returns, sentBack>>

----------------------------------------------------------------------------
(* Payments. *)

\* Mutant: balance_due is missing from update_fields.
PayBalanceLeft(b, amount) ==
  LET paid == bills[b].paid + amount
  IN [bills[b] EXCEPT !.paid = paid,
                      !.status = IF paid = bills[b].total THEN "PAID" ELSE "PARTIALLY_PAID"]

\* A bill of which some more has been paid.
Pay(b, amount) ==
  LET paid == bills[b].paid + amount
      left == Max({0, bills[b].total - paid})
  IN [bills[b] EXCEPT !.paid = paid, !.balance = left,
                      !.status = IF left = 0 THEN "PAID" ELSE "PARTIALLY_PAID"]

\* Allocations that validation lets through: at most the balance of each bill.
Allocations ==
  {a \in [Bills -> 0..Max({0} \union {bills[b].balance : b \in Bills})] :
     /\ a # Nothing
     /\ \A b \in Bills : a[b] <= bills[b].balance}

\* The bills are locked, checked and changed under the lock.
MakePayment(w) ==
  /\ Takes(w, "pay")
  /\ \E p \in Payments, a \in Allocations :
       /\ payments[p] = Nothing
       /\ \A b \in Bills : a[b] > 0 => BillFree(w, b)
       /\ payments' = [payments EXCEPT ![p] = a]
       /\ bills' = [b \in Bills |-> IF a[b] > 0 THEN Pay(b, a[b]) ELSE bills[b]]
  /\ UNCHANGED <<clients, goods, job, billed, credits, planned, taken, returns, sentBack>>

\* The allocations go with a deleted payment; the bills stay paid.
DeletePayment(w) ==
  /\ Takes(w, "delete_payment")
  /\ \E p \in Payments :
       /\ payments[p] # Nothing
       /\ payments' = [payments EXCEPT ![p] = Nothing]
  /\ UNCHANGED <<clients, goods, job, bills, billed, credits, planned, taken,
                 returns, sentBack>>

----------------------------------------------------------------------------
(* Supplier returns. *)

\* Keys of new rows are new: no worker has a row of that key in memory.
NewReturn(r) ==
  \A v \in Workers :
    /\ ~(job[v].step \in {"return_save", "return_approve"} /\ job[v].return = r)
    /\ ~(job[v].step \in {"credit_new", "credit_save"} /\ job[v].row.of = r)
NewCredit(c) ==
  \A v \in Workers :
    ~(job[v].step \in {"credit_new", "credit_save", "credit_post", "credit_void"}
        /\ job[v].credit = c)

Claiming == {"PENDING_APPROVAL", "APPROVED", "CREDIT_ISSUED"}

Returnable(g, r) ==
  Max({0, Billable(g) - SumFunctionOnSet([x \in Returns |-> returns[x].quantity],
            {x \in Returns \ {r} : returns[x].receipt = g /\ returns[x].status \in Claiming})})

MostBillable == Max({0} \union {Billable(g) : g \in Receipts})

\* The returns that validation accepts for r: it looks at each item.
ValidReturns(r) ==
  {row \in [status : NewReturnStatuses, receipt : Receipts,
            quantity : 1..MaxLines * MostBillable, largest : 1..MostBillable] :
     /\ receipts[row.receipt].state = "CONFIRMED"
     /\ row.largest <= Returnable(row.receipt, r)
     /\ row.quantity \in Totals(row.largest)}

\* Drafts claim nothing, so a validation that is out of date makes no return
\* that could not be made otherwise.
CreateReturn(w) ==
  /\ Takes(w, "create_return")
  /\ \E r \in Returns :
       /\ returns[r].status = "ABSENT"
       /\ credits[r].status = "ABSENT"
       /\ NewReturn(r)
       /\ NewCredit(r)
       /\ \E row \in ValidReturns(r) : returns' = [returns EXCEPT ![r] = row]
  /\ UNCHANGED <<clients, goods, job, money, sentBack>>

ReturnTransitions ==
  [s \in ReturnStatuses |->
     CASE s = "DRAFT" -> {"PENDING_APPROVAL", "CANCELLED"}
       [] s = "PENDING_APPROVAL" -> {"REJECTED", "CANCELLED"}
       [] OTHER -> {}]

\* update_status: submit, or reject and cancel; it writes the status alone.
ReturnStatusLoad(w) ==
  \E kind \in {"submit_return", "withdraw_return"}, r \in Returns :
    /\ Takes(w, kind)
    /\ returns[r].status # "ABSENT"
    /\ \E s \in ReturnTransitions[returns[r].status] :
         /\ kind = "submit_return" <=> s = "PENDING_APPROVAL"
         /\ Becomes(w, [step |-> "return_save", return |-> r, whole |-> FALSE, items |-> FALSE,
                        row |-> [returns[r] EXCEPT !.status = s]])
    /\ UNCHANGED <<clients, goods, money, returns, sentBack>>

\* The return with another status, or as it is.
HeaderEdits(r) ==
  {[returns[r] EXCEPT !.status = s] : s \in NewReturnStatuses \union {returns[r].status}}

\* PATCH of a return that is not approved, credited or cancelled, with new items
\* or without: then its receipt must still be confirmed.
ReturnEditLoad(w) ==
  /\ Takes(w, "edit_return")
  /\ \E r \in Returns, items \in BOOLEAN :
       /\ returns[r].status \in {"DRAFT", "PENDING_APPROVAL", "REJECTED"}
       /\ \E row \in IF items THEN ValidReturns(r) ELSE HeaderEdits(r) :
            /\ row.receipt \in Receipts
            /\ receipts[row.receipt].state = "CONFIRMED"
            /\ Becomes(w, [step |-> "return_save", return |-> r, whole |-> TRUE,
                           items |-> items, row |-> row])
  /\ UNCHANGED <<clients, goods, money, returns, sentBack>>

\* An edit saves the whole row, inserted again when it has been deleted: without an
\* item then, unless the edit brings one.  A status is saved where the return is still there.
ReturnSave(w) ==
  LET r == job[w].return
      row == job[w].row
  IN /\ At(w, "return_save")
     /\ job[w].whole \/ returns[r].status # "ABSENT"
     /\ job[w].items => Present(row.receipt)
     /\ returns' = [returns EXCEPT ![r] =
          IF job[w].items THEN row ELSE [@ EXCEPT !.status = row.status]]
     /\ Respond(w)
     /\ UNCHANGED <<clients, goods, money, sentBack>>

\* Mutant: the quantity is not checked again at approval.
ReturnApprovableUnchecked(r) ==
  returns[r].status = "PENDING_APPROVAL" /\ returns[r].quantity > 0

\* A submitted return with items that each still fit.
ReturnApprovable(r) ==
  /\ returns[r].status = "PENDING_APPROVAL"
  /\ returns[r].quantity > 0
  /\ returns[r].largest <= Returnable(returns[r].receipt, r)

\* The credits that are linked to a return.
CreditsOf(r) == {c \in Credits : credits[c].of = r}

\* approve reads the return and the other returns without a lock.
ReturnApproveLoad(w) ==
  /\ Takes(w, "approve_return")
  /\ \E r \in Returns :
       /\ ReturnApprovable(r)
       /\ sentBack[r] + returns[r].quantity <= MaxMoved
       /\ Becomes(w, [step |-> "return_approve", return |-> r,
                      quantity |-> returns[r].quantity])
  /\ UNCHANGED <<clients, goods, money, returns, sentBack>>

\* The stock row is locked and moved; the rest follows under that lock: a
\* credit unless the return has one, and the status.  The credit's number is
\* unique: a credit of that number that has lost its return refuses another.
ReturnApproveSave(w) ==
  LET r == job[w].return
      q == job[w].quantity
  IN /\ At(w, "return_approve")
     /\ returns[r].status # "ABSENT"
     /\ CreditsOf(r) = {} => credits[r].status = "ABSENT" /\ NewCredit(r)
     /\ sentBack' = [sentBack EXCEPT ![r] = @ + q]
     /\ credits' = IF CreditsOf(r) # {} THEN credits
                   ELSE [credits EXCEPT ![r] = [NoCredit EXCEPT !.status = "OPEN",
                           !.of = r, !.total = q, !.remaining = q]]
     /\ returns' = [returns EXCEPT ![r].status = "CREDIT_ISSUED"]
     /\ Respond(w)
     /\ UNCHANGED <<clients, goods, bills, billed, payments, planned, taken>>

\* The credits of a deleted return stay, without their link to it (SET_NULL).
DeleteReturn(w) ==
  /\ Takes(w, "delete_return")
  /\ \E r \in Returns :
       /\ returns[r].status # "ABSENT"
       /\ returns' = [returns EXCEPT ![r] = NoReturn]
       /\ credits' = [c \in Credits |->
            IF credits[c].of = r THEN [credits[c] EXCEPT !.of = "none"] ELSE credits[c]]
  /\ UNCHANGED <<clients, goods, job, bills, billed, payments, planned, taken, sentBack>>
=============================================================================
