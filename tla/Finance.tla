------------------------------ MODULE Finance ------------------------------
(***************************************************************************)
(* The ledger documents of apps/finance with the receipts and payments     *)
(* recorded against them, and the bank accounts: bank transactions, fund   *)
(* transfers, edits of the account, and the payments of other apps that    *)
(* finance/accounting.py adds to its balance.                              *)
(*                                                                         *)
(* A request locks the invoice, bill or account that it adds to and keeps  *)
(* it until it commits, so that the addition is one step.                  *)
(***************************************************************************)
EXTENDS Ledger

CONSTANTS
  Payments,    \* ReceivableReceipt and PayablePayment rows that clients may create
  Accounts,    \* bank accounts
  Opening,     \* their balances at first
  Vouchers,    \* BankTransaction rows that clients may create
  Amounts,     \* amounts that clients send
  MaxDeposits  \* bound: what payments of other apps bring to an account

ASSUME FinanceAssumption ==
  /\ IsFiniteSet(Payments)
  /\ Vouchers \subseteq Nat /\ IsFiniteSet(Vouchers)
  /\ "none" \notin Accounts
  /\ Opening \in [Accounts -> Nat]
  /\ Amounts \subseteq Nat \ {0}
  /\ MaxDeposits \in Nat

VARIABLES
  payments,   \* the document and amount of each payment
  banks,      \* BankAccount.current_balance
  vouchers,   \* the account and amount of each BankTransaction
  deposits    \* history: what payments of other apps brought to each account

money == <<payments, banks, vouchers, deposits>>
vars == <<clients, overlap, documents, job, money>>

NoPayment == [document |-> "none", amount |-> 0]
NoVoucher == [account |-> "none", amount |-> 0]

Init ==
  /\ LedgerInit
  /\ payments = [p \in Payments |-> NoPayment]
  /\ banks = Opening
  /\ vouchers = [v \in Vouchers |-> NoVoucher]
  /\ deposits = [a \in Accounts |-> 0]

----------------------------------------------------------------------------
(* Receipts and payments. *)

Balance(d) == Max({0, papers[d].total - papers[d].paid})

PayableStatuses(d) ==
  IF d \in Invoices THEN {"OPEN", "PARTIALLY_PAID"} ELSE {"POSTED", "PARTIALLY_PAID"}

\* The key of a new payment is new: no row and no request knows it.
NewPayment(p) ==
  /\ payments[p] = NoPayment
  /\ \A v \in Workers : "payment" \in DOMAIN job[v] => job[v].payment # p

\* The document is validated as it is read.
PayLoad(w) ==
  /\ Takes(w, "pay")
  /\ \E d \in Invoices \union Bills, amount \in Amounts :
       /\ papers[d].status \in PayableStatuses(d)
       /\ amount <= Balance(d)
       /\ Becomes(w, [step |-> "pay", document |-> d, amount |-> amount])
  /\ UNCHANGED <<clients, overlap, documents, money>>

\* Mutant: the validation is trusted under the lock.
AcceptableUnchecked(d, paid) == TRUE

\* A receipt is refused when the invoice has been paid meanwhile, a payment of a
\* bill is not.
Acceptable(d, paid) == d \in Invoices => paid <= papers[d].total

PayCommit(w) ==
  LET d == job[w].document
      paid == papers[d].paid + job[w].amount
  IN /\ At(w, "pay")
     /\ Present(d)
     /\ Acceptable(d, paid)
     /\ \E p \in Payments :
          /\ NewPayment(p)
          /\ payments' = [payments EXCEPT ![p] = [document |-> d, amount |-> job[w].amount]]
     /\ papers' = [papers EXCEPT ![d].paid = paid,
          ![d].status = IF paid >= papers[d].total THEN "PAID" ELSE "PARTIALLY_PAID"]
     /\ Respond(w)
     /\ UNCHANGED <<clients, overlap, lines, ledger, account, banks, vouchers, deposits>>

\* A receipt of a customer need not name an invoice.
ReceiveUnapplied(w) ==
  /\ Takes(w, "receive_unapplied")
  /\ \E p \in Payments, amount \in Amounts :
       /\ NewPayment(p)
       /\ payments' = [payments EXCEPT ![p] = [document |-> "none", amount |-> amount]]
  /\ UNCHANGED <<clients, overlap, documents, job, banks, vouchers, deposits>>

\* An edit sends the amount; a payment has to name its bill again and is validated
\* like a new one, a receipt only when it names an invoice.
EditPaymentLoad(w) ==
  /\ Takes(w, "edit_payment")
  /\ \E p \in Payments, d \in Invoices \union Bills \union {"none"}, amount \in Amounts :
       /\ payments[p] # NoPayment
       /\ d \in Bills <=> payments[p].document \in Bills
       /\ \/ d \notin Bills /\ d \in {payments[p].document, "none"}
          \/ d # "none" /\ papers[d].status \in PayableStatuses(d) /\ amount <= Balance(d)
       /\ Becomes(w, [step |-> "edit_payment", payment |-> p, document |-> d, amount |-> amount])
  /\ UNCHANGED <<clients, overlap, documents, money>>

\* The row is saved, inserted again when it is gone; what its documents say was paid
\* stays.
EditPaymentSave(w) ==
  LET d == job[w].document
  IN /\ At(w, "edit_payment")
     /\ d # "none" => Present(d)
     /\ payments' = [payments EXCEPT ![job[w].payment] =
          [document |-> d, amount |-> job[w].amount]]
     /\ Respond(w)
     /\ UNCHANGED <<clients, overlap, documents, banks, vouchers, deposits>>

\* A deleted payment leaves its document paid.
DeletePayment(w) ==
  /\ Takes(w, "delete_payment")
  /\ \E p \in Payments :
       /\ payments[p] # NoPayment
       /\ payments' = [payments EXCEPT ![p] = NoPayment]
  /\ UNCHANGED <<clients, overlap, documents, job, banks, vouchers, deposits>>

Paid == {payments[p].document : p \in Payments}

----------------------------------------------------------------------------
(* Bank accounts. *)

\* Keys of vouchers that nobody has used.
Unused == {v \in Vouchers : vouchers[v] = NoVoucher}

\* The account is locked before its balance is changed; only the validation,
\* which reads it without a lock, looks at what is there.
TransactLoad(w) ==
  /\ Takes(w, "transact")
  /\ \E a \in Accounts, amount \in Amounts \union {-x : x \in Amounts} :
       /\ banks[a] + amount >= 0 \/ amount > 0
       /\ Becomes(w, [step |-> "transact", account |-> a, amount |-> amount])
  /\ UNCHANGED <<clients, overlap, documents, money>>

Transact(w) ==
  LET a == job[w].account
  IN /\ At(w, "transact")
     /\ Unused # {}
     /\ vouchers' = [vouchers EXCEPT ![Min(Unused)] = [account |-> a, amount |-> job[w].amount]]
     /\ banks' = [banks EXCEPT ![a] = @ + job[w].amount]
     /\ Respond(w)
     /\ UNCHANGED <<clients, overlap, documents, payments, deposits>>

\* A voucher is changed or deleted without its account.
ChangeVoucher(w) ==
  /\ Takes(w, "change_voucher")
  /\ \E v \in Vouchers :
       /\ vouchers[v] # NoVoucher
       /\ \E row \in {NoVoucher} \union {[vouchers[v] EXCEPT !.amount = x] : x \in Amounts} :
            vouchers' = [vouchers EXCEPT ![v] = row]
  /\ UNCHANGED <<clients, overlap, documents, job, payments, banks, deposits>>

TransferLoad(w) ==
  /\ Takes(w, "transfer")
  /\ \E a, b \in Accounts, amount \in Amounts :
       /\ a # b
       /\ amount <= banks[a]
       /\ Becomes(w, [step |-> "transfer", account |-> a, to |-> b, amount |-> amount])
  /\ UNCHANGED <<clients, overlap, documents, money>>

\* Mutant: the balance is not looked at again under the lock.
CoveredBefore(a, amount) == TRUE

Covered(a, amount) == amount <= banks[a]

\* Both accounts are locked, the source is checked again, and each side gets a
\* voucher.
Transfer(w) ==
  LET a == job[w].account
      b == job[w].to
      amount == job[w].amount
  IN /\ At(w, "transfer")
     /\ Covered(a, amount)
     /\ Cardinality(Unused) >= 2
     /\ LET out == Min(Unused)
            in == Min(Unused \ {out})
        IN vouchers' = [vouchers EXCEPT ![out] = [account |-> a, amount |-> -amount],
                                        ![in] = [account |-> b, amount |-> amount]]
     /\ banks' = [banks EXCEPT ![a] = @ - amount, ![b] = @ + amount]
     /\ Respond(w)
     /\ UNCHANGED <<clients, overlap, documents, payments, deposits>>

\* What a client may call the balance of an account: clients that set balances send
\* any, the others leave it out.
Stated(a) ==
  {banks[a]} \union (IF "set_balance" \in clients THEN Amounts \union {-x : x \in Amounts} ELSE {})

\* A PATCH of the account, and a payment of another app, hold the row that they
\* have read without a lock.
AccountLoad(w) ==
  /\ \E a \in Accounts :
       \/ /\ Takes(w, "edit_account")
          /\ \E balance \in Stated(a) :
               Becomes(w, [step |-> "account", account |-> a, balance |-> balance, amount |-> 0])
       \/ /\ Takes(w, "money_in")
          /\ \E amount \in Amounts :
               Becomes(w, [step |-> "account", account |-> a, balance |-> banks[a],
                           amount |-> amount])
  /\ UNCHANGED <<clients, overlap, documents, money>>

\* The balance is written back with what the payment brings.
AccountSave(w) ==
  LET a == job[w].account
  IN /\ At(w, "account")
     /\ deposits[a] + job[w].amount <= MaxDeposits
     /\ banks' = [banks EXCEPT ![a] = job[w].balance + job[w].amount]
     /\ deposits' = [deposits EXCEPT ![a] = @ + job[w].amount]
     /\ Respond(w)
     /\ UNCHANGED <<clients, overlap, documents, payments, vouchers>>

----------------------------------------------------------------------------

\* A request fails, and with it its transaction.
Abort(w) ==
  /\ ~At(w, "idle")
  /\ Respond(w)
  /\ UNCHANGED <<clients, overlap, documents, money>>

Paper(w) == LedgerStep(w, Paid) /\ UNCHANGED money

MoneyStep(w) ==
  \/ PayLoad(w) \/ PayCommit(w) \/ ReceiveUnapplied(w)
  \/ EditPaymentLoad(w) \/ EditPaymentSave(w) \/ DeletePayment(w)
  \/ TransactLoad(w) \/ Transact(w) \/ ChangeVoucher(w)
  \/ TransferLoad(w) \/ Transfer(w) \/ AccountLoad(w) \/ AccountSave(w)

Next == \E w \in Workers : Paper(w) \/ MoneyStep(w) \/ Abort(w)

Spec == Init /\ [][Next]_vars

----------------------------------------------------------------------------
(* Properties. *)

\* Every document has a status of its own kind and pays a whole amount.
TypeOK ==
  /\ LedgerTypes
  /\ payments \in [Payments -> [document : Invoices \union Bills \union {"none"}, amount : Nat]]
  /\ banks \in [Accounts -> Int]
  /\ vouchers \in [Vouchers -> [account : Accounts \union {"none"}, amount : Int]]
  /\ deposits \in [Accounts -> 0..MaxDeposits]

\* However receipts overlap, an invoice is paid what its receipts add up to and
\* never more than its total; a bill is paid what its payments add up to, and only
\* one payment at a time keeps that within its total.  No document hears of a
\* payment that is deleted, edited or moved to another, and an edit of the document
\* writes back what was paid when it read.
PaidAddsUp ==
  Unless({"delete_payment"}, Unless({"edit_payment"}, Unless({"edit"},
    \A d \in Invoices \union Bills : Present(d) =>
      /\ papers[d].paid = SumFunctionOnSet([p \in Payments |-> payments[p].amount],
                                           {p \in Payments : payments[p].document = d})
      /\ (d \in Bills /\ overlap) \/ papers[d].paid <= papers[d].total)))

\* What the ledger holds of a document.
Booked(d) ==
  SumFunctionOnSet([n \in DOMAIN ledger[d] |-> ledger[d][n].amount], DOMAIN ledger[d])

\* Money is neither lost nor made: an account holds what it opened with, what its
\* vouchers say and what other apps brought.  Those do not lock the account, and
\* neither does an edit of it: with them it holds one request at a time.  Fund
\* transfers never overdraw an account.  Nothing holds of a balance that clients set.
BankBalanced ==
  /\ Unless({"change_voucher"}, Unless({"set_balance"},
       \/ overlap /\ clients \intersect {"edit_account", "money_in"} # {}
       \/ \A a \in Accounts :
            banks[a] = Opening[a] + deposits[a]
                       + SumFunctionOnSet([v \in Vouchers |-> vouchers[v].amount],
                                          {v \in Vouchers : vouchers[v].account = a})))
  /\ Unless({"set_balance"},
       \/ overlap /\ "transact" \in clients
       \/ \A a \in Accounts : banks[a] >= 0)
  /\ ~overlap => account = SumFunctionOnSet([d \in Documents |-> Booked(d)],
                                            Journals \union Invoices)
=============================================================================
