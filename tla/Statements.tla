----------------------------- MODULE Statements -----------------------------
(***************************************************************************)
(* The reports of apps/finance, as functions of the documents and of the   *)
(* ledger: trial balance, income statement, balance sheet, changes in      *)
(* equity, cash flow, account summary, receivables and payables with their *)
(* aging, customer statement and VAT.                                      *)
(*                                                                         *)
(* Reports read accounts as they are classified now.  A PATCH of an        *)
(* account classifies it anew whatever was posted to it, so the reports    *)
(* are functions of the chart of accounts, too.  There is one branch, one  *)
(* customer and one supplier, and accounts open with nothing.              *)
(***************************************************************************)
EXTENDS Assets

CONSTANTS
  JournalLines,   \* lines of every journal: account, side and part
  Charts,         \* charts of accounts: type, sub type and normal balance of each
  VatWithin,      \* the VAT within each total
  Residual,       \* what each asset is worth when it has lost all that it has to lose
  DayOf,          \* transaction date of journals, reversals, invoices, bills and
                  \* capitalizations
  DaysLate        \* how long invoices and bills have been due

Line(where, side, part) == [account |-> where, side |-> side, part |-> part]

InvoiceLines ==
  {Line("receivable", "debit", "total"), Line("revenue", "credit", "taxable"),
   Line("output_vat", "credit", "vat")}

BillLines ==
  {Line("cost", "debit", "taxable"), Line("input_vat", "debit", "vat"),
   Line("payable", "credit", "total")}

\* The entry of a capitalization has no other side.
CapitalLine == Line("fixed_asset", "debit", "cost")

ChartAccounts ==
  {l.account : l \in JournalLines \union InvoiceLines \union BillLines \union {CapitalLine}}

\* A journal that does not balance is neither saved nor posted.
ASSUME StatementsAssumption ==
  /\ \A l \in JournalLines : l.side \in {"debit", "credit"} /\ l.part = "total"
  /\ IsFiniteSet(JournalLines)
  /\ Cardinality({l \in JournalLines : l.side = "debit"})
       = Cardinality({l \in JournalLines : l.side = "credit"})
  /\ \A chart \in Charts : \A a \in ChartAccounts :
       /\ chart[a].type \in {"ASSET", "LIABILITY", "EQUITY", "INCOME", "EXPENSE"}
       /\ chart[a].normal \in {"DEBIT", "CREDIT"}
  /\ \A total \in Totals : VatWithin[total] \in 0..total
  /\ Residual \in [FixedAssets -> Nat]

----------------------------------------------------------------------------
(* The rows of LedgerEntry. *)

Kind(d, amount) ==
  IF d \in Invoices THEN "invoice"
  ELSE IF d \in Bills THEN "bill"
  ELSE IF amount < 0 THEN "reversal" ELSE "journal"

LinesOf(d) ==
  IF d \in Invoices THEN InvoiceLines ELSE IF d \in Bills THEN BillLines ELSE JournalLines

\* One row for each line of each set of lines posted ...
DocumentRows ==
  UNION {{[document |-> d, n |-> n, line |-> l] : n \in DOMAIN ledger[d], l \in LinesOf(d)} :
           d \in Documents}

\* ... and one for each asset that was capitalized, whatever became of it.
CapitalRow(a) == [asset |-> a, line |-> CapitalLine]
CapitalRows == {CapitalRow(a) : a \in capitalized}

Rows == DocumentRows \union CapitalRows

CapitalizedCost(a) == Worth[a] + Residual[a]

Portion(total, part) ==
  IF part = "total" THEN total
  ELSE IF part = "vat" THEN VatWithin[total] ELSE total - VatWithin[total]

Entry(r) == ledger[r.document][r.n].amount

OfAsset(r) == "asset" \in DOMAIN r

\* debit_amount - credit_amount; a reversal swaps the sides.
Movement(r) ==
  IF OfAsset(r) THEN CapitalizedCost(r.asset)
  ELSE LET x == Portion(Entry(r), r.line.part)
       IN IF r.line.side = "debit" THEN x ELSE -x

Total(rows) == SumFunctionOnSet([r \in rows |-> Movement(r)], rows)

\* _financial_report_ledger_queryset and the date filters of a report.
Between(first, last) ==
  {r \in Rows : DayOf[IF OfAsset(r) THEN "capitalization" ELSE Kind(r.document, Entry(r))]
                   \in first..last}

On(a, rows) == {r \in rows : r.line.account = a}

----------------------------------------------------------------------------
(* Reports on the ledger. *)

\* The balances of all accounts, each on its side.
TrialBalance(last) ==
  LET balance(a) == Total(On(a, Between(0, last)))
  IN [debit |-> SumFunctionOnSet([a \in ChartAccounts |-> Max({0, balance(a)})], ChartAccounts),
      credit |-> SumFunctionOnSet([a \in ChartAccounts |-> Max({0, -balance(a)})], ChartAccounts)]

\* Where the income statement counts an account.
SectionOf(class) ==
  IF class.type = "INCOME"
  THEN IF class.sub = "OTHER_INCOME" THEN "other_income" ELSE "revenue"
  ELSE IF class.type # "EXPENSE" THEN "none"
  ELSE IF class.sub = "COST_OF_GOODS_SOLD" THEN "cost_of_sales"
  ELSE IF class.sub = "OTHER_EXPENSE" THEN "other_expenses" ELSE "operating_expenses"

\* The accounts that the income statement lists under a section; other income and
\* other expenses are not listed.
Listed(chart, section) ==
  {a \in ChartAccounts :
     CASE section = "revenue" -> chart[a].type = "INCOME" /\ chart[a].sub # "OTHER_INCOME"
       [] section = "cost_of_sales" -> /\ chart[a].type \in {"INCOME", "EXPENSE"}
                                       /\ chart[a].sub = "COST_OF_GOODS_SOLD"
       [] section = "operating_expenses" ->
            /\ chart[a].type = "EXPENSE"
            /\ chart[a].sub \notin {"COST_OF_GOODS_SOLD", "OTHER_EXPENSE"}}

\* An account's row: income as credits, expenses as debits.
Earned(chart, a, rows) ==
  IF chart[a].type = "INCOME" THEN -Total(On(a, rows)) ELSE Total(On(a, rows))

IncomeSection(chart, section, rows) ==
  SumFunctionOnSet([a \in ChartAccounts |-> Earned(chart, a, rows)],
                   {a \in ChartAccounts : SectionOf(chart[a]) = section})

NetProfit(chart, first, last) ==
  LET part(section) == IncomeSection(chart, section, Between(first, last))
  IN part("revenue") - part("cost_of_sales") - part("operating_expenses")
     + part("other_income") - part("other_expenses")

\* Mutant: liabilities are read as debits.
SheetDebits(chart, type, last) ==
  SumFunctionOnSet([a \in ChartAccounts |-> Total(On(a, Between(0, last)))],
                   {a \in ChartAccounts : chart[a].type = type})

\* A side of the balance sheet.
Sheet(chart, type, last) ==
  SumFunctionOnSet([a \in ChartAccounts |-> IF type = "ASSET" THEN Total(On(a, Between(0, last)))
                                            ELSE -Total(On(a, Between(0, last)))],
                   {a \in ChartAccounts : chart[a].type = type})

SheetDifference(chart, last) ==
  Sheet(chart, "ASSET", last) - (Sheet(chart, "LIABILITY", last) + Sheet(chart, "EQUITY", last))

\* Share capital, earnings of the year and the rest.
EquityParts(chart, first, last) ==
  LET part(subs) == SumFunctionOnSet([a \in ChartAccounts |-> -Total(On(a, Between(first, last)))],
                      {a \in ChartAccounts : chart[a].type = "EQUITY" /\ chart[a].sub \in subs})
      capital == {"SHARE_CAPITAL", "CAPITAL", "OWNER_CAPITAL"}
      earnings == {"CURRENT_YEAR_EARNINGS", "CURRENT_YEAR_PROFIT"}
      subTypes == {chart[a].sub : a \in ChartAccounts}
  IN [share_capital |-> part(capital), current_year_profit |-> part(earnings),
      retained_earnings |-> part(subTypes \ (capital \union earnings))]

\* Cash flow goes by sub types; of those that an account may have, only fixed
\* assets count.
CashFlow(chart, first, last) ==
  LET flow(subs) == MapThenSumSet(LAMBDA a : Total(On(a, Between(first, last))),
                                  {a \in ChartAccounts : chart[a].sub \in subs})
  IN [operating |-> flow({"OPERATING", "OPERATING_CASH_FLOW"}),
      investing |-> flow({"INVESTING", "INVESTING_CASH_FLOW", "FIXED_ASSET"}),
      financing |-> flow({"FINANCING", "FINANCING_CASH_FLOW", "LOAN", "SHARE_CAPITAL"})]

\* The closing balance of an account, on its normal side.
ClosingBalance(chart, a) ==
  IF chart[a].normal = "CREDIT" THEN -Total(On(a, Rows)) ELSE Total(On(a, Rows))

\* What a budget line of the account has used: the gross of its normal side, so
\* that a reversal does not give anything back.
Actual(chart, a, rows) ==
  MapThenSumSet(LAMBDA r : Max({0, IF chart[a].normal = "CREDIT" THEN -Movement(r)
                                   ELSE Movement(r)}), On(a, rows))

\* The status of a budget line, by the percentage used; nothing is used of nothing.
LineStatus(annual, actual, warning, block) ==
  LET used == IF annual = 0 THEN 0 ELSE (actual * 100) \div annual
      exact == annual = 0 \/ (actual * 100) % annual = 0
  IN IF used > block \/ (used = block /\ ~exact) THEN "OVER_BUDGET"
     ELSE IF used >= warning THEN "WARNING" ELSE "WITHIN_BUDGET"

----------------------------------------------------------------------------
(* Reports on the documents. *)

\* What is open by status: a bill counts before it is approved.
OpenInvoices == {d \in Invoices : papers[d].status \notin {"ABSENT", "DRAFT", "PAID", "CANCELLED"}}
OpenBills == {d \in Bills : papers[d].status \notin {"ABSENT", "DRAFT", "PAID", "CANCELLED"}}

Due(documentsDue) == MapThenSumSet(Balance, documentsDue)

Bucket(age) ==
  IF age <= 0 THEN "current" ELSE IF age <= 30 THEN "days_1_30"
  ELSE IF age <= 60 THEN "days_31_60" ELSE IF age <= 90 THEN "days_61_90" ELSE "days_90_plus"

Aged(documentsDue, bucket) == Due({d \in documentsDue : Bucket(DaysLate[d]) = bucket})

PayablesAging(bucket) == Aged(OpenBills, bucket)

\* Mutant: drafts are on the statement.
StatementWithDrafts == {d \in Invoices : papers[d].status \notin {"ABSENT", "CANCELLED"}}

\* The invoices of a customer's statement, and what the customer owes by it.
StatementInvoices ==
  {d \in Invoices : papers[d].status \notin {"ABSENT", "DRAFT", "CANCELLED"}}

AmountsOf(receipts) == MapThenSumSet(LAMBDA p : payments[p].amount, receipts)

\* Receipts that name no invoice.
Unapplied == {p \in Payments : payments[p].document = "none"}

CustomerBalance ==
  MapThenSumSet(LAMBDA d : papers[d].total, StatementInvoices)
  - AmountsOf({p \in Payments : payments[p].document \in Invoices} \union Unapplied)

VatOf(taxed) == SumFunctionOnSet([d \in taxed |-> VatWithin[papers[d].total]], taxed)

\* The documents of the VAT dashboard and of a prepared return ...
VatSales == {d \in Invoices : papers[d].status \notin {"ABSENT", "DRAFT", "CANCELLED"}}
VatPurchases ==
  {d \in Bills : papers[d].status \notin {"ABSENT", "DRAFT", "REJECTED", "CANCELLED"}}

\* ... and of the VAT summary, drafts included.
SummarySales == {d \in Invoices : papers[d].status \notin {"ABSENT", "CANCELLED"}}
SummaryPurchases == {d \in Bills : papers[d].status \notin {"ABSENT", "CANCELLED"}}

----------------------------------------------------------------------------
(* Properties. *)

Days == {DayOf[k] : k \in DOMAIN DayOf}
LastDay == Max(Days)

\* Charts that a clerk may call consistent: sub types of cost belong to expenses.
Consistent(chart) ==
  \A a \in ChartAccounts : chart[a].sub = "COST_OF_GOODS_SOLD" => chart[a].type = "EXPENSE"

\* What was capitalized so far.
Capital(last) ==
  IF DayOf["capitalization"] \in 0..last
  THEN SumFunctionOnSet([a \in capitalized |-> CapitalizedCost(a)], capitalized) ELSE 0

\* The trial balance is out by exactly what was capitalized so far, and by nothing
\* else.  The balance sheet never carries profit into equity: it is out by that and by
\* the profit earned so far.  Statements of the same accounts agree with one another,
\* however the accounts are classified.
LedgerCloses ==
  \A last \in Days :
    /\ TrialBalance(last).debit = TrialBalance(last).credit + Capital(last)
    /\ \A chart \in Charts :
         /\ SheetDifference(chart, last) = NetProfit(chart, 0, last) + Capital(last)
         /\ LET parts == EquityParts(chart, 0, last)
            IN Sheet(chart, "EQUITY", last)
               = parts.share_capital + parts.current_year_profit + parts.retained_earnings
         /\ Consistent(chart) =>
              \A section \in {"revenue", "cost_of_sales", "operating_expenses"} :
                IncomeSection(chart, section, Between(0, last))
                = SumFunctionOnSet([a \in ChartAccounts |-> Earned(chart, a, Between(0, last))],
                                   Listed(chart, section))

\* What budgets have used is what was earned or spent, until something is reversed; a
\* line is over budget when nothing is left of it.  What was capitalized counts as cash
\* from investing, and closing balances add up to it.
LedgerReports ==
  /\ LedgerCloses
  /\ \A annual, actual \in Totals :
       LineStatus(annual, actual, 80, 100) = "OVER_BUDGET" <=> annual - actual < 0
  /\ \A last \in Days, chart \in Charts :
       /\ Unless({"reverse"}, \A a \in ChartAccounts :
            chart[a].type \in {"INCOME", "EXPENSE"} =>
              Actual(chart, a, Between(0, last)) = Earned(chart, a, Between(0, last)))
       /\ CashFlow(chart, 0, last).operating = 0
       /\ CashFlow(chart, 0, last).investing = Capital(last)
       /\ MapThenSumSet(LAMBDA a : IF chart[a].normal = "CREDIT" THEN -ClosingBalance(chart, a)
                                   ELSE ClosingBalance(chart, a), ChartAccounts)
            = Capital(LastDay)

\* A customer owes the same by the summary and the aging, and by the statement less
\* the receipts that name no invoice, as long as no receipt is deleted or edited and
\* requests come one at a time; unposted edits change nothing.  The VAT of the dashboard is what the ledger holds: output VAT once
\* invoices are posted, and input VAT but for bills that wait to be approved or
\* posted.  Deleted documents leave their rows in the ledger.
DocumentReports ==
  LET buckets == {"current", "days_1_30", "days_31_60", "days_61_90", "days_90_plus"}
      waiting == {d \in Bills : papers[d].status \in {"PENDING_APPROVAL", "APPROVED"}}
  IN /\ MapThenSumSet(LAMBDA b : Aged(OpenInvoices, b), buckets) = Due(OpenInvoices)
     /\ MapThenSumSet(PayablesAging, buckets) = Due(OpenBills)
     /\ overlap \/ Unless({"delete_payment"}, Unless({"edit_payment"},
          CustomerBalance = Due(OpenInvoices) - AmountsOf(Unapplied)))
     /\ overlap \/ Unless({"delete"},
          /\ VatOf(VatSales) = -Total(On("output_vat", Rows))
          /\ VatOf(VatPurchases) = Total(On("input_vat", Rows)) + VatOf(waiting))
     /\ VatOf(SummarySales) >= VatOf(VatSales)
     /\ VatOf(SummaryPurchases) >= VatOf(VatPurchases)

\* Reports that are made of the same documents or of the same ledger agree.  They
\* are compared when no request is under way: one that fails leaves everything as
\* it is, so that whatever reports may see is seen then.
ReportsAgree == (\A w \in Workers : At(w, "idle")) => LedgerReports /\ DocumentReports
=============================================================================
