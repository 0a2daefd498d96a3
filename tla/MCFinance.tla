----------------------------- MODULE MCFinance -----------------------------
(* Small instance of Controls, and with it of all of finance, for TLC. *)
EXTENDS Controls, TLC

CONSTANTS w1, w2, j1, j2, j3, p1, p2, a1, a2, budget, r1, r2, v1, v2

\* Workers and rows are told apart by nothing else.
RowSymmetry ==
  Permutations({w1, w2}) \union Permutations({j1, j2, j3}) \union Permutations({p1, p2})
    \union Permutations({a1, a2})

OneEach == a1 :> 1 @@ a2 :> 1

\* The second asset has less to lose in its last period.
AssetWorth == <<1, 3>>
AssetMonthly == <<1, 2>>
AssetResidual == <<1, 0>>

\* Journals pay costs out of the bank; an account of each type may be misfiled.
CostPaid == {Line("cost", "debit", "total"), Line("bank", "credit", "total")}

Class(type, sub, normal) == [type |-> type, sub |-> sub, normal |-> normal]

UsualChart ==
  "receivable" :> Class("ASSET", "ACCOUNTS_RECEIVABLE", "DEBIT")
  @@ "bank" :> Class("ASSET", "BANK", "DEBIT")
  @@ "fixed_asset" :> Class("ASSET", "FIXED_ASSET", "DEBIT")
  @@ "input_vat" :> Class("ASSET", "CURRENT_ASSET", "DEBIT")
  @@ "payable" :> Class("LIABILITY", "ACCOUNTS_PAYABLE", "CREDIT")
  @@ "output_vat" :> Class("LIABILITY", "VAT_PAYABLE", "CREDIT")
  @@ "revenue" :> Class("INCOME", "SALES_REVENUE", "CREDIT")
  @@ "cost" :> Class("EXPENSE", "COST_OF_GOODS_SOLD", "DEBIT")

ChartsOfAccounts ==
  {UsualChart,
   "cost" :> Class("EXPENSE", "RENT_EXPENSE", "DEBIT")
     @@ "revenue" :> Class("INCOME", "OTHER_INCOME", "CREDIT") @@ UsualChart,
   "revenue" :> Class("INCOME", "COST_OF_GOODS_SOLD", "CREDIT")
     @@ "cost" :> Class("EXPENSE", "OTHER_EXPENSE", "DEBIT")
     @@ "bank" :> Class("EQUITY", "OWNER_EQUITY", "CREDIT") @@ UsualChart}

VatInTotal == <<0, 1>>
DaysOf == [journal |-> 1, invoice |-> 1, reversal |-> 2, bill |-> 2, capitalization |-> 2]
Lateness == [invoice |-> 0, bill |-> 31]

Of(kinds) == [kinds : {kinds}, overlap : BOOLEAN]
Alone(kinds) == [kinds : {kinds}, overlap : {FALSE}]

\* Bound: three journals are for reversals, and one stands next to an invoice; a
\* return is approved alone; the fourth voucher is for edits of the account.
Few ==
  /\ Cardinality({j \in Journals : papers[j].status # "ABSENT"}) <=
       IF "reverse" \in clients THEN 3 ELSE IF "create_invoice" \in clients THEN 1 ELSE 2
  /\ "file_return" \in clients => \E v \in Returns : returns[v] = NoReturn
  /\ "transact" \in clients => vouchers[4].account = "none"

FinanceNext == ControlsNext /\ Few'

FinanceSpec == ControlsInit /\ [][FinanceNext]_controlsVars

\* What clients do in a behaviour.
MCStarts == UNION {
  Of({"create_journal", "submit", "approve", "reject", "post"}),
  Alone({"create_journal", "submit", "approve", "reject", "edit", "post", "delete"}),
  Of({"create_journal", "submit", "approve", "post", "reverse"}),
  Of({"create_journal", "submit", "approve", "post", "delete"}),
  Of({"create_bill", "submit", "approve", "edit", "post", "pay"}),
  Of({"create_bill", "submit", "approve", "reject", "post", "pay"}),
  Of({"create_invoice", "cancel", "edit", "post", "pay"}),
  Of({"create_invoice", "cancel", "post", "pay"}),
  Of({"create_invoice", "cancel", "post", "delete", "pay", "delete_payment"}),
  Of({"create_invoice", "post", "pay", "receive_unapplied", "edit_payment"}),
  Of({"create_bill", "submit", "approve", "post", "pay", "edit_payment", "delete_payment"}),
  Of({"create_invoice", "post", "pay", "receive_unapplied"}),
  Of({"create_journal", "create_invoice", "submit", "approve", "post"}),
  Of({"transact", "transfer"}),
  Of({"transfer", "money_in"}),
  Of({"money_in", "edit_account"}),
  Of({"transfer", "edit_account"}),
  Of({"money_in", "edit_account", "set_balance"}),
  Alone({"transfer", "change_voucher"}),
  Of({"create_asset", "edit_asset", "submit_asset", "approve_asset", "capitalize", "delete_asset"}),
  Of({"create_asset", "submit_asset", "approve_asset", "capitalize", "post_period"}),
  Alone({"create_invoice", "post", "create_asset", "submit_asset", "approve_asset", "capitalize"}),
  Of({"create_budget", "edit_budget", "submit_budget", "approve_budget", "reject_budget",
      "activate_budget"}),
  Of({"create_budget", "edit_budget", "submit_budget", "approve_budget", "delete_budget"}),
  Of({"create_budget", "edit_budget", "create_revision", "submit_revision",
      "approve_revision"}),
  Of({"create_budget", "delete_budget", "create_revision", "submit_revision",
      "approve_revision", "delete_revision"}),
  Of({"create_return", "edit_return", "move_return", "amend", "delete_return"}),
  Of({"prepare_return", "validate_return", "submit_return", "approve_return", "file_return"}),
  Alone({"prepare_return", "validate_return", "submit_return", "approve_return", "edit_return"}),
  Alone({"create_bill", "submit", "approve", "reject", "prepare_return", "set_period"}),
  Of({"create_bill", "submit", "approve", "prepare_return"}),
  Alone({"create_bill", "submit", "approve", "prepare_return", "edit_return", "move_return"}),
  Alone({"create_bill", "create_invoice", "submit", "approve", "post", "prepare_return"})
}
=============================================================================
