------------------------------- MODULE Sales -------------------------------
(***************************************************************************)
(* Sales invoices, the payments recorded against them, and the system      *)
(* journals that finance/accounting.py posts for both.                     *)
(*                                                                         *)
(* A request that changes an invoice or a payment saves its row first and  *)
(* so locks it, then looks for journals and reads the account, and commits *)
(* the rows, the journal and the account together.  One amount stands for  *)
(* the lines of a journal, and the receivable account for all accounts: it *)
(* is debited by invoices and credited by payments.                        *)
(***************************************************************************)
EXTENDS Selling

CONSTANTS
  Invoices, Payments,   \* rows that clients may create
  Totals,               \* totals that clients give an invoice
  Amounts,              \* amounts that clients pay
  MaxReceivable         \* bound: how far the account strays from zero

Documents == Invoices \union Payments
InvoiceStatuses == {"UNPAID", "PARTIALLY_PAID", "PAID", "VOID"}
NoInvoice == [status |-> "ABSENT", total |-> 0, paid |-> 0, balance |-> 0, order |-> "none"]
NoPayment == [status |-> "ABSENT", invoice |-> "none", amount |-> 0, number |-> 0]

ASSUME SalesAssumption ==
  /\ IsFiniteSet(Invoices) /\ IsFiniteSet(Payments)
  /\ Invoices \intersect Payments = {} /\ "none" \notin Orders
  /\ Totals \union Amounts \subseteq Nat \ {0}
  /\ MaxReceivable \in Nat

VARIABLES
  invoices,    \* SalesInvoice rows
  payments,    \* SalesPayment rows
  posted,      \* amounts of the POSTED system journals of each document
  journaled,   \* documents with any system journal, reversed ones included
  receivable   \* current_balance of the receivable account

books == <<posted, journaled, receivable>>
vars == <<clients, overlap, goods, job, invoices, payments, books>>

Init ==
  /\ SellingInit
  /\ invoices = [i \in Invoices |-> NoInvoice]
  /\ payments = [p \in Payments |-> NoPayment]
  /\ posted = [d \in Documents |-> <<>>]
  /\ journaled = {}
  /\ receivable = 0

----------------------------------------------------------------------------
(* System journals. *)

\* Mutant: the posting does not look for a journal of the document.
PostedAgain(amounts, amount) == Append(amounts, amount)

\* _post_system_journal: a document that has a POSTED journal keeps it.
Posted(amounts, amount) == IF amounts = <<>> THEN <<amount>> ELSE amounts

\* _reverse_reference turns the first POSTED journal into a REVERSED one.
Reversed(amounts) == IF amounts = <<>> THEN amounts ELSE Tail(amounts)

\* Mutant: an amended invoice keeps the journal that it has.
RepostedUnreversed(amounts, amount) == Posted(amounts, amount)

Reposted(amounts, amount) == Posted(Reversed(amounts), amount)

NetOf(amounts) == SumFunctionOnSet(amounts, DOMAIN amounts)

\* A transaction turns the journals of a document that it has seen into these;
\* what others have posted meanwhile stays.
Merged(now, seen, amounts) ==
  IF now = seen THEN amounts ELSE IF amounts = seen THEN now ELSE now \o amounts

\* A transaction books document d, with the journals and the balance it has
\* seen.  An invoice is a debit of the receivable account, a payment a credit.
Books(d, seen, amounts, balance) ==
  LET change == NetOf(amounts) - NetOf(seen)
  IN /\ posted' = [posted EXCEPT ![d] = Merged(@, seen, amounts)]
     /\ journaled' = IF amounts = seen THEN journaled ELSE journaled \union {d}
     /\ receivable' = IF amounts = seen THEN receivable
                      ELSE IF d \in Invoices THEN balance + change ELSE balance - change
     /\ receivable' \in (-MaxReceivable)..MaxReceivable

\* Keys of new rows are new: no row, journal or request knows them.
NewKey(d) ==
  /\ d \notin journaled
  /\ \A v \in Workers : ~At(v, "idle") /\ "document" \in DOMAIN job[v] => job[v].document # d
  /\ \A v \in Workers : job[v].step \in {"payment", "payment_inserted"} => job[v].row.invoice # d

\* Mutant: the row is not locked by the save that comes before the journal.
RowFreeUnlocked(w, d) == TRUE

\* No other transaction has saved row d and goes on.
RowFree(w, d) ==
  \A v \in Others(w) :
    ~(/\ job[v].step \in {"invoice_booking", "void_booking", "payment_booking"}
      /\ d \in {job[v].document, job[v].invoice})

----------------------------------------------------------------------------
(* Invoices. *)

\* Status of an invoice from what is paid and what is owed.
Settled(paid, balance) ==
  IF balance = 0 THEN "PAID" ELSE IF paid > 0 THEN "PARTIALLY_PAID" ELSE "UNPAID"

Billed(total, paid) ==
  [NoInvoice EXCEPT !.status = Settled(paid, total - paid), !.total = total,
                    !.paid = paid, !.balance = total - paid]

\* Saves of an invoice that are followed by a posting: its row and its journals.
Saving(i, row) ==
  [step |-> "invoice_booking", document |-> i, invoice |-> i, row |-> row,
   seen |-> posted[i], balance |-> receivable]

\* Of an invoice with order o, the orders that a request may name: sales_order is
\* writable, and nobody looks for other invoices of it.
Named(o) ==
  {o} \union {x \in Orders : "name_order" \in clients /\ orders[x] # "ABSENT"}

\* What a request says is paid: paid_amount is writable.
SaidPaid == {0} \union {amount \in Amounts : "set_paid" \in clients}

CreateInvoice(w) ==
  /\ Takes(w, "create_invoice")
  /\ \E i \in Invoices, total \in Totals, paid \in SaidPaid, o \in Named("none") :
       /\ paid <= total
       /\ invoices[i].status = "ABSENT"
       /\ NewKey(i)
       /\ Becomes(w, Saving(i, [Billed(total, paid) EXCEPT !.order = o]))
  /\ UNCHANGED <<clients, overlap, goods, invoices, payments, books>>

\* PATCH of an invoice that was unpaid when it was read.  With lines its amounts are
\* computed again; without, the paid amount alone changes, to any amount.
EditInvoiceLoad(w) ==
  /\ Takes(w, "edit_invoice")
  /\ \E i \in Invoices, paid \in SaidPaid : \E o \in Named(invoices[i].order) :
       /\ invoices[i].status \in {"UNPAID", "PARTIALLY_PAID"}
       /\ invoices[i].paid = 0
       /\ \E row \in {invoices[i]} \union
               {Billed(total, paid) : total \in {t \in Totals : paid <= t}} :
            Becomes(w, [step |-> "invoice_edit", document |-> i,
                        row |-> [row EXCEPT !.paid = paid, !.order = o]])
  /\ UNCHANGED <<clients, overlap, goods, invoices, payments, books>>

\* The whole row is saved as it was read, inserted again when it is gone.
EditInvoiceSave(w) ==
  LET i == job[w].document
  IN /\ At(w, "invoice_edit")
     /\ RowFree(w, i)
     /\ Becomes(w, Saving(i, job[w].row))
     /\ UNCHANGED <<clients, overlap, goods, invoices, payments, books>>

InvoiceCommit(w) ==
  LET i == job[w].document
      seen == job[w].seen
  IN /\ At(w, "invoice_booking")
     /\ invoices' = [invoices EXCEPT ![i] = job[w].row]
     /\ Books(i, seen, Reposted(seen, job[w].row.total), job[w].balance)
     /\ Respond(w)
     /\ UNCHANGED <<clients, overlap, goods, payments>>

\* void checks what is paid without a lock.
VoidLoad(w) ==
  /\ Takes(w, "void_invoice")
  /\ \E i \in Invoices :
       /\ invoices[i].status # "ABSENT"
       /\ invoices[i].paid = 0
       /\ Becomes(w, [step |-> "invoice_void", document |-> i])
  /\ UNCHANGED <<clients, overlap, goods, invoices, payments, books>>

VoidSave(w) ==
  LET i == job[w].document
  IN /\ At(w, "invoice_void")
     /\ invoices[i].status # "ABSENT"
     /\ RowFree(w, i)
     /\ Becomes(w, [step |-> "void_booking", document |-> i, invoice |-> i,
                    seen |-> posted[i], balance |-> receivable])
     /\ UNCHANGED <<clients, overlap, goods, invoices, payments, books>>

VoidCommit(w) ==
  LET i == job[w].document
      seen == job[w].seen
  IN /\ At(w, "void_booking")
     /\ invoices' = [invoices EXCEPT ![i].status = "VOID", ![i].balance = 0]
     /\ Books(i, seen, Reversed(seen), job[w].balance)
     /\ Respond(w)
     /\ UNCHANGED <<clients, overlap, goods, payments>>

\* An invoice without journals is deleted; payments protect theirs.
DeleteInvoiceLoad(w) ==
  /\ Takes(w, "delete_invoice")
  /\ \E i \in Invoices \ journaled :
       /\ invoices[i].status # "ABSENT"
       /\ Becomes(w, [step |-> "invoice_delete", document |-> i])
  /\ UNCHANGED <<clients, overlap, goods, invoices, payments, books>>

DeleteInvoiceSave(w) ==
  LET i == job[w].document
  IN /\ At(w, "invoice_delete")
     /\ RowFree(w, i)
     /\ \A p \in Payments : payments[p].invoice # i
     /\ invoices' = [invoices EXCEPT ![i] = NoInvoice]
     /\ Respond(w)
     /\ UNCHANGED <<clients, overlap, goods, payments, books>>

\* convert_to_invoice makes one invoice of an order, from unlocked reads and
\* without a journal.
ConvertLoad(w) ==
  /\ Takes(w, "convert_order")
  /\ \E o \in Orders, i \in Invoices, total \in Totals :
       /\ orders[o] \notin {"ABSENT", "CANCELLED"}
       /\ \A x \in Invoices : invoices[x].order = o => invoices[x].status = "VOID"
       /\ invoices[i].status = "ABSENT"
       /\ NewKey(i)
       /\ Becomes(w, [step |-> "convert", document |-> i,
                      row |-> [Billed(total, 0) EXCEPT !.order = o]])
  /\ UNCHANGED <<clients, overlap, goods, invoices, payments, books>>

ConvertSave(w) ==
  /\ At(w, "convert")
  /\ invoices' = [invoices EXCEPT ![job[w].document] = job[w].row]
  /\ Respond(w)
  /\ UNCHANGED <<clients, overlap, goods, payments, books>>

----------------------------------------------------------------------------
(* Payments. *)

PaidAmount(i) ==
  SumFunctionOnSet([p \in Payments |-> payments[p].amount],
                   {p \in Payments : payments[p].invoice = i /\ payments[p].status = "PAID"})

Recorded == {p \in Payments : payments[p].status # "ABSENT"}

NextNumber == Cardinality(Recorded) + 1

\* Mutant: payment_number is not unique.
NumberFreeUnchecked(w, p, n) == TRUE

\* No other payment has the number, and no other transaction has inserted it.
NumberFree(w, p, n) ==
  /\ \A x \in Recorded \ {p} : payments[x].number # n
  /\ \A v \in Others(w) :
       ~(job[v].step \in {"payment_inserted", "payment_booking"} /\ job[v].row.number = n)

\* Validation against the invoice as it is read.
Payable(i, amount) ==
  /\ invoices[i].status \notin {"ABSENT", "VOID"}
  /\ amount <= invoices[i].balance

\* Mutant: what is owed is not cut off at zero.
OwedUnclamped(total, paid) == total - paid

\* What is owed of a total; two payments may both have been valid.
Owed(total, paid) == Max({0, total - paid})

PayLoad(w) ==
  /\ Takes(w, "create_payment")
  /\ \E p \in Payments, i \in Invoices, amount \in Amounts, s \in {"PAID", "PENDING"} :
       /\ payments[p].status = "ABSENT"
       /\ NewKey(p)
       /\ Payable(i, amount)
       /\ Becomes(w, [step |-> "payment", document |-> p, total |-> invoices[i].total,
                      row |-> [status |-> s, invoice |-> i, amount |-> amount, number |-> 0]])
  /\ UNCHANGED <<clients, overlap, goods, invoices, payments, books>>

\* The payment is inserted under the next number, and the payments of its
\* invoice are added up.
PayInsert(w) ==
  LET row == job[w].row
  IN /\ At(w, "payment")
     /\ NumberFree(w, job[w].document, NextNumber)
     /\ Becomes(w, [step |-> "payment_inserted", document |-> job[w].document,
          row |-> [row EXCEPT !.number = NextNumber], total |-> job[w].total,
          paid |-> PaidAmount(row.invoice) + (IF row.status = "PAID" THEN row.amount ELSE 0)])
     /\ UNCHANGED <<clients, overlap, goods, invoices, payments, books>>

\* Foreign keys are checked at commit.
PendingCommit(w) ==
  LET row == job[w].row
  IN /\ At(w, "payment_inserted")
     /\ row.status = "PENDING"
     /\ invoices[row.invoice].status # "ABSENT"
     /\ payments' = [payments EXCEPT ![job[w].document] = row]
     /\ Respond(w)
     /\ UNCHANGED <<clients, overlap, goods, invoices, books>>

\* A payment that counts writes the invoice it was validated against, with the
\* total of then and whatever its status is by now, and is posted.
PaySave(w) ==
  LET p == job[w].document
      row == job[w].row
      paid == job[w].paid
  IN /\ At(w, "payment_inserted")
     /\ row.status = "PAID"
     /\ invoices[row.invoice].status # "ABSENT"
     /\ RowFree(w, row.invoice)
     /\ Becomes(w, [step |-> "payment_booking", document |-> p, invoice |-> row.invoice,
                    row |-> row, counted |-> <<paid, Owed(job[w].total, paid)>>,
                    seen |-> posted[p], balance |-> receivable])
     /\ UNCHANGED <<clients, overlap, goods, invoices, payments, books>>

\* PATCH of a payment that is not PAID, validated like a new one.
EditPaymentLoad(w) ==
  /\ Takes(w, "edit_payment")
  /\ \E p \in Recorded, amount \in Amounts, s \in {"PAID", "PENDING"} :
       /\ payments[p].status # "PAID"
       /\ Payable(payments[p].invoice, amount)
       /\ Becomes(w, [step |-> "payment_edit", document |-> p,
                      row |-> [payments[p] EXCEPT !.amount = amount, !.status = s]])
  /\ UNCHANGED <<clients, overlap, goods, invoices, payments, books>>

\* The whole row is saved, inserted again when it is gone; a payment that has
\* become PAID is posted.  The invoice is not told.
EditPaymentSave(w) ==
  LET p == job[w].document
  IN /\ At(w, "payment_edit")
     /\ RowFree(w, p)
     /\ NumberFree(w, p, job[w].row.number)
     /\ Becomes(w, [step |-> "payment_booking", document |-> p, invoice |-> p,
                    row |-> job[w].row, counted |-> <<>>, seen |-> posted[p],
                    balance |-> receivable])
     /\ UNCHANGED <<clients, overlap, goods, invoices, payments, books>>

PaymentCommit(w) ==
  LET p == job[w].document
      row == job[w].row
      seen == job[w].seen
      counted == job[w].counted
  IN /\ At(w, "payment_booking")
     /\ invoices[row.invoice].status # "ABSENT"
     /\ payments' = [payments EXCEPT ![p] = row]
     /\ invoices' = IF counted = <<>> THEN invoices
                    ELSE [invoices EXCEPT
                            ![row.invoice].paid = counted[1],
                            ![row.invoice].balance = counted[2],
                            ![row.invoice].status = Settled(counted[1], counted[2])]
     /\ Books(p, seen, IF row.status = "PAID" THEN Posted(seen, row.amount) ELSE seen,
              job[w].balance)
     /\ Respond(w)
     /\ UNCHANGED <<clients, overlap, goods>>

DeletePaymentLoad(w) ==
  /\ Takes(w, "delete_payment")
  /\ \E p \in Recorded :
       /\ payments[p].status # "PAID"
       /\ Becomes(w, [step |-> "payment_delete", document |-> p])
  /\ UNCHANGED <<clients, overlap, goods, invoices, payments, books>>

\* The status is not looked at again.
DeletePaymentSave(w) ==
  LET p == job[w].document
  IN /\ At(w, "payment_delete")
     /\ RowFree(w, p)
     /\ payments' = [payments EXCEPT ![p] = NoPayment]
     /\ Respond(w)
     /\ UNCHANGED <<clients, overlap, goods, invoices, books>>

----------------------------------------------------------------------------

\* A request fails, and with it its transaction.
Abort(w) ==
  /\ ~At(w, "idle")
  /\ Respond(w)
  /\ UNCHANGED <<clients, overlap, goods, invoices, payments, books>>

Trade(w) == SellingStep(w) /\ UNCHANGED <<invoices, payments, books>>

InvoiceStep(w) ==
  \/ CreateInvoice(w) \/ EditInvoiceLoad(w) \/ EditInvoiceSave(w) \/ InvoiceCommit(w)
  \/ VoidLoad(w) \/ VoidSave(w) \/ VoidCommit(w)
  \/ DeleteInvoiceLoad(w) \/ DeleteInvoiceSave(w) \/ ConvertLoad(w) \/ ConvertSave(w)

PaymentStep(w) ==
  \/ PayLoad(w) \/ PayInsert(w) \/ PendingCommit(w) \/ PaySave(w)
  \/ EditPaymentLoad(w) \/ EditPaymentSave(w) \/ PaymentCommit(w)
  \/ DeletePaymentLoad(w) \/ DeletePaymentSave(w)

Next == \E w \in Workers : Trade(w) \/ InvoiceStep(w) \/ PaymentStep(w) \/ Abort(w)

Spec == Init /\ [][Next]_vars

----------------------------------------------------------------------------
(* Properties. *)

\* Rows keep the shape the models give them; stock is never negative.
TypeOK ==
  /\ SellingTypes
  /\ invoices \in [Invoices -> [status : InvoiceStatuses \union {"ABSENT"}, total : Nat,
                                paid : Nat, balance : Nat, order : Orders \union {"none"}]]
  /\ payments \in [Payments -> [status : {"ABSENT", "PAID", "PENDING"},
                                invoice : Invoices \union {"none"},
                                amount : Nat, number : Nat]]
  /\ posted \in [Documents -> Seq(Nat)]
  /\ journaled \subseteq Documents
  /\ receivable \in Int

\* However its requests overlap, a document never has two POSTED journals: the
\* save that comes before the posting locks the row, and the journal is looked
\* for under that lock.
PostedOnce == \A d \in Documents : Len(posted[d]) <= 1

\* An invoice has a journal of the total that it shows, and none once it is void.
\* Invoices converted from an order are not posted, and a payment that races a
\* void brings the void invoice back to life.
JournalMatches ==
  Unless({"convert_order"},
    \/ overlap /\ {"create_payment", "void_invoice"} \subseteq clients
    \/ \A i \in Invoices : invoices[i].status # "ABSENT" =>
         posted[i] = IF invoices[i].status = "VOID" THEN <<>> ELSE <<invoices[i].total>>)

\* An invoice shows what its PAID payments add up to, although they are added up
\* before the invoice is locked: equal numbers keep two payments from being
\* inserted at once.  One at a time they never exceed its total.  Payments that
\* are PAID later, or deleted, stale edits of the invoice and amounts that a client
\* says are paid are not counted.
PaidCounted ==
  \/ clients \intersect {"edit_invoice", "edit_payment", "delete_payment", "set_paid"} # {}
  \/ \A i \in Invoices :
       /\ invoices[i].status # "ABSENT" => invoices[i].paid = PaidAmount(i)
       /\ overlap \/ invoices[i].paid <= invoices[i].total

\* Requests that are served one at a time keep the books: the receivable account
\* is what posted invoices claim less what posted payments brought, and the stock
\* is what was there less the POS sales that stand.
BooksAgree ==
  ~overlap =>
    /\ receivable = SumFunctionOnSet([i \in Invoices |-> NetOf(posted[i])], Invoices)
                     - SumFunctionOnSet([p \in Payments |-> NetOf(posted[p])], Payments)
    /\ \A p \in Products :
         stock[p].current + Cardinality({s \in PosSales : sales[s] = [status |-> "PAID",
                                                                      product |-> p]})
           = Opening[p]
=============================================================================
