# A verification of the GhazaTech inventory back end

TLA+ modules, TLC configurations and TLAPS proofs about the Django back end in
`src/`. The program is an ERP for several branches: inventory, stock transfers,
sales, purchases, a general ledger, payroll and a recovery centre. Its tests are
three small files about branch naming; the interesting behaviour is in how
requests interleave over rows that are locked in some places and not in others,
in operations that span two databases which cannot commit together, and in long
sequences of legal requests that leave two documents disagreeing.

## How the program runs, and what every module assumes

* Several web workers (and a Celery worker) serve one request each at a time.
  There is no `ATOMIC_REQUESTS`: outside an explicit `transaction.atomic` every
  statement commits by itself.
* PostgreSQL at READ COMMITTED: a statement sees what is committed when it
  starts; an `UPDATE` or `SELECT ... FOR UPDATE` waits for the row lock; locks
  are held to the end of the transaction; a cycle of waits is broken by failing
  one of the transactions.
* State is split over databases: `default` (users, branches, transfers,
  notifications, audit log, recovery records), `vat` and `non_vat` (documents),
  and one schema per branch reached through an alias `tenant_<base>_<id>`
  (products, stock rows, stock movements). `apps/branch_data` chooses the
  database of a request and `apps/common/transactions.py` opens the transaction
  there.
* With `GHAZA_SCHEMA_WRITE_ROUTING` on, sales and purchases use the rows of the
  branch schemas as well; the models keep those flows as environment actions, so
  that what is shown holds for either setting.

A request that acts on what it read earlier is modelled as two steps, one that
reads and one that writes, with what it remembers kept in `job[w]` (or `pc`,
`req`, `task`) of its worker. Rows that a request locks before it reads them, and
keeps until it commits, are read and written in one step: nobody can come between.
Permissions are not modelled: every request is taken as permitted.

## The system's parts

| part | state | operations | what makes it correct | modules |
|---|---|---|---|---|
| transfers | workflow rows in `default`, stock rows and movements in two branch databases | create, approve, dispatch, receive, cancel, delete | goods leave once and arrive once, whole; an interrupted operation can be finished; the status agrees with the stock | `StockTransfer`, `TransferGoods` |
| stock rows and catalogue (inventory) | products, variants, `current_stock`, `reserved_stock`, movements, rack allocations | create, edit, `adjust_stock`, adjustments, import, rack placement, overviews | movements chain without gaps, a row is opened once, cost stays between the costs paid, variants have one shape, overviews show every unit | `Warehouse`, `StockTransfer` |
| recovery centre | recovery records in `default`, `is_deleted` flags in all databases | delete, restore, delete for good, clean up | a request reaches the row that was meant; a deleted row stays on offer | `Recovery` |
| sales orders, POS | documents, reservations, stock | confirm, edit, sell, void | units of confirmed orders are reserved and on hand | `Selling` |
| invoices, payments, their journals | documents, balances, system journals, receivable account | create, edit, pay, void, delete, convert | one journal per document that says what the invoice says; invoices count their payments | `Sales` |
| quotations, delivery notes, returns | documents, fulfilled quantities | send, accept, convert, deliver, approve, ... | what follows a document fits it | `Aftersales` |
| amounts of sales | lines and totals of quotation, order, invoices, POS sale, credit | create, convert, edit, void | amounts add up, nothing is invoiced twice | `Pricing` |
| sales forms, summaries, report | - (queries) | - | screens agree with the rows and with each other | `Screens` |
| purchases | order, shipments, receipts, bills, payments, returns, credits, expenses | approve, receive, bill, pay, send back, credit | receipts counted once, bills within what was accepted, a credit applied once | `Shipping`, `Receiving`, `Payables`, `Purchases`, `Offers`, `Spending` |
| general ledger, finance | journals, receivables, payables, bank accounts, assets, budgets, VAT returns, periods | workflow of each, payments, depreciation, reports | one posting per document, balances equal their movements, reports agree, what is in force was approved | `Ledger`, `Finance`, `Assets`, `Statements`, `Controls` |
| payroll (hrms) | payroll entries, advances, loans, repayments | generate, edit, pay, cancel, delete | what is deducted from a salary is what the loan and the advance lose | `Payroll` |
| personnel (hrms) | employees, salary history, leave, balances, papers | hire, revise, ask for leave, approve, issue | salaries follow their history, leave is apart and counted | `Workforce` |
| repairs, fleet, attendance, reminders | records | edit | - | - |
| accounts, branches, routing, notifications, audit, combined views | users, profiles, log rows | administration and queries | - | - |

The parts meet in rows and in calls: transfers, sales, purchases, adjustments and
imports all move stock through `adjust_stock`; sales and purchase documents are
posted by `finance/accounting.py`, which also changes bank balances; payroll reads
employees, leave, advances and loans; deletion everywhere files a recovery record.
`PROJECT.json` names the source files of every part and says for each whether it
is modelled; its hazard list names the line where each difficulty bites.

## Modules

A chain of modules extends one another where operations share rows; the last one
of a chain is the whole of an app, and a run checks all of it.

    TransferGoods <= StockTransfer                               MCStockTransfer
    Payroll                                                      MCPayroll
    Warehouse <- Recovery            Workforce                   MCOffices
    Shipping <- Receiving <- Payables <- Purchases <- Offers <- Spending   MCPurchases
    Selling <- Sales <- Aftersales <- Screens     Pricing        MCSales
    Ledger <- Finance <- Assets <- Statements <- Controls        MCFinance

The proofs are in modules of their own, which extend the module they are about and,
where amounts are added up, `Sums`:

    StockTransfer <- StockTransferProofs -> Sums
    Recovery <- OfficesProofs -> Sums
    Workforce <- WorkforceProofs -> Sums
    Payroll <- PayrollProofs -> Sums
    Spending <- PurchasesProofs -> Sums
    Screens <- SalesProofs -> Sums
    Controls <- FinanceProofs -> Sums

Most of these begin a behaviour by choosing what clients do in it: a set of
request kinds and whether requests overlap (`Starts`, `clients` and `overlap` in
purchases, sales and finance; `desk` in `Warehouse`, `bureau` in `Workforce`,
`shop` in `Pricing`). With all kinds at once the state space is out of reach, and
the properties depend on the mix: a property that speaks of a mix says so
(`Without`, `Unless`, `Never`), and what it excludes is what the code does not
guarantee. `overlap = FALSE` serves one request at a time, which separates what a
race breaks from what a plain sequence of requests breaks.

### Transfers

`StockTransfer` models `apps/transfers` with the parts of the inventory that it
shares.

| in the model | in the code |
|---|---|
| `status`, `dispatched`, `received` | `StockTransfer.status`, the quantities of `StockTransferItem` |
| `stock`, `reserved`, `ledger` | committed `ProductStock` and `StockMovement` rows of the branches |
| `wStock`, `pending`, `rowLock` | the same rows as the transaction that holds their lock sees them |
| `xferLock`, `branchLock`, `itemLock` | row locks on the default database; `select_related` makes `FOR UPDATE` lock both branch rows too |
| `catalog` | the `is_active` and `is_deleted` flags of a product in a branch, `{}` when it has no row |
| `pc`, `req`, `todo`, `target` | where a worker is in its request, and what it has read |
| `Load` then `Approve`, `Cancel`, `DestroyItems`/`DestroyTransfer` | `get_object()` without a lock, then a save or delete by primary key |
| `LockTransfer`, `LockSource`, `LockDestination` | the locking query of `dispatch` and `receive` and the status check behind it |
| `Pick`, `MoveAgain`, `Move`, `MoveRefused` | one turn of the item loop: choice of the warehouse, lookup of the idempotency key, locked re-check and write |
| `TenantCommit`, `DefaultCommit` | the commits of the two nested transactions, the branch's first |
| `Crash`, `DeadlockVictim` | a dead worker or connection, a transaction that PostgreSQL fails |
| `AdjustStock`, `ReserveStock`, `ToggleProduct`, `SoftDeleteProduct` | the other flows that touch the same rows |

`TransferGoods` is the promise without databases, locks, statuses or requests:
the goods of a transfer are at the source, in transit or at the destination, and
each change moves all of them and the balances with them. `StockTransfer`
implements it under the mapping `GoodsPlace`, which reads the place off the
committed movements (`GoodsMoveAsPromised`). `MCStockTransfer` holds the small
instances.

### Stock and recovery

`Warehouse` is the stock of one branch: products with their variants, the stock
rows and movements behind them, and whoever writes them.

| in the model | in the code |
|---|---|
| `desk`, `task[c]` | the request kinds of a behaviour; what a clerk's request has read |
| `goods`, `variantRows` | `Product` (active, `has_variants`, native or imported) and `ProductVariant` rows |
| `onHand`, `moves`, `paid` | `ProductStock` (current, reserved, carrying cost), `StockMovement` rows; the costs that goods came in at (history) |
| `places` | `RackStockAllocation` |
| `Books` | `_adjust_stock_locked`: lock, check, movement, average cost |
| `CreateArticle`, `EditLoad`/`EditSave` | `TenantProductSerializer.create`, `validate` then `_save_variants` |
| `AdjustCheck`/`AdjustBook` | the options the form reads, then `create_tenant_adjustment` under the lock |
| `ImportCheck` ... `ImportCommit`, `ImportFails` | an import: the branch database commits before the shared one |
| `PlaceGoods`, `StockOverview`, `LowStock` | rack allocations; the two overviews |

Articles made in the branch live in its schema (`Native`); imported ones live in
the shared catalogue and the legacy branch tables, because
`GHAZA_SCHEMA_WRITE_ROUTING` is off by default, and the overview lists only the
former. Rack allocations are not reduced when goods leave, a PATCH of
`has_variants` alone hides the rows of the variants, and edits of an adjustment
always fail with a `NameError` and so are no action.

`Recovery` adds the rows that can be deleted and the recovery centre. `SavedIn` is
the router's rule, `SoughtIn` that of `source_database_for_record`; the two differ
for what lives in a branch's schema, suppliers above all, whose restoration looks
into another database, and a primary key names different rows in different databases, which is why
`OnlyTheRowMeant` asks that rows are deleted and restored in the same one.
Deletion files first and flags later, in separate commits; restore and purge hold
one transaction of the shared database that does not cover the others.

### Payroll

`Payroll` models `apps/hrms`: payroll generation, the two payment endpoints, the
recovery of salary advances and loans, and the edits and deletions that the same
view sets inherit. All of it lives in the `default` database, so a request is at
most one transaction, and a crash, a lost connection or an exception rolls it back
whole (`Abort`). The races are those of rows read without a lock.

| in the model | in the code |
|---|---|
| `entries`, `runs` | `PayrollEntry` (unique per employee and period), `PayrollRun.status` |
| `terms` | what the serializer of `EmployeeLoan` lets a PATCH write: amount, start period, installments (`EditTerms`) |
| `balance`, `loanStatus`, `repaid` | `EmployeeLoan.remaining_balance` and `status`, `EmployeeLoanRepayment` per loan and entry |
| `left` | what remains of the paid `SalaryAdvance`s of an employee for a period |
| `job[w].rows`, `.loans`, `.shares` | locked or inserted entries, locked loans with the balance read then, repayments inserted by the open transaction |
| `job[w].seen`, `.seenLoan` | instances that `get_object()` read without a lock |
| `GenerateStart` ... `GenerateEnd` | `generate`: one employee at a time, in primary-key order |
| `GenerateReject` | the 400 response that is *returned* inside the atomic block, so that the employees before it are committed |
| `PayLock`, `PayLoans`, `PayCommit` | `mark_paid` and `update_status`: lock the entry, lock the loans, compute, settle, decide the run's status, commit |
| `DestroyEntry`, `DeleteRun` | `PayrollEntryViewSet.destroy` with its guards, the inherited destroy of a run with its cascade |
| `EditLoad`/`EditSave`, `LoanLoad`/`LoanSave` | whole-row saves of instances read earlier |
| `Planned`, `Settlement` | `_employee_loan_deduction`, `_settle_employee_loans`: both spread an amount over loans, oldest first (`Spread`) |

Coarser than the code: `get_object` of a payment is merged with the locking query
behind it, because only the primary key of what it read is used; the counting
queries that decide a run's status are one read; the advances of an employee and
period are one amount, guarded by the lock on the unique entry, since
`generate` is the only request that reduces them. Balances payable, run totals,
attendance and the salary formula are left out: an entry has a gross salary.
A PATCH of a loan may rewrite its terms and leaves the balance alone, so what a loan
lost is measured by the amount with which it was granted (`LoanLossBacked`). Left out
are a PATCH that gives a loan to another employee and one that writes COMPLETED or any
other status over a run, which `PayrollRunSerializer` accepts: `RunCompleteSound` is
about the statuses that the program decides.

`Workforce` is the office that payroll reads: `staff` and `history` (`Employee`,
`SalaryRevision`), `leaves` and `used` (`LeaveRequest`, `LeaveBalance`), `granted`
advances and loans, `papers` (certificates and letters) and the page that offers
employees for a payroll with its estimate (`Offered`, `Accepted`, `Estimate`).
A PATCH of leave dates that does not name the employee finds no clash, the status
is writable by PATCH, and deleting approved leave keeps the used days; the
properties say so. The numbers of papers are those of one month prefix.

### Purchases

| module | in the model | in the code |
|---|---|---|
| `Shipping` | `order`, `shipments`, `job` | `PurchaseOrder.status`, `Shipment` rows (status, inspection, receiver) |
| `Receiving` | `received`, `receipts`, `stocked` | `PurchaseOrderItem.received_quantity`, `GoodsReceivedNote` with its item, the PURCHASE movements |
| `Payables` | `bills`, `billed`, `payments`, `returns`, `sentBack` | `SupplierBill` and its item, `SupplierPaymentAllocation`, `SupplierReturn`, the SUPPLIER_RETURN movements |
| `Payables`, `Purchases` | `credits`, `planned`, `taken` | `VendorCredit`, `VendorCreditApplication`; what a credit has really taken off a bill (history) |
| `Offers` | `OfferedLines`, `Proposed`, `PayableBills`, `TotalPayable` | form options and the bill summary |
| `Spending` | `expenses` | `PurchaseExpense` |

One order of two lines; a receipt has one item. The items of a bill or a return are
over one receipt, at a unit cost of one, so that quantities are amounts. The code checks
each item against the other documents and never adds up those of one document; clients
of the kind `repeat_lines` therefore send up to `MaxLines` items over the receipt, each
as much as fits. A row keeps the sum (`quantity`, `total`) and the `largest` item, and only
the largest is within what was accepted (`WithinAccepted`). Shipment items, carriers and the
tracking log are left out, and received dates follow ids. Goods rejected at a
receipt are never offered again, since the receipt form counts them as come in.
The vendor credit form offers only APPROVED returns, a status that `approve` never
leaves behind. An edit of a bill or a return that races its deletion saves the row again
without its item; such a bill or return can be edited but no longer approved. The number
of a return's credit is unique, so a return is credited once, also when an earlier credit
has lost its return.

### Sales

| module | in the model | in the code |
|---|---|---|
| `Selling` | `orders`, `stock`, `sales` | `SalesOrder.status`, `ProductStock`, `POSSale` |
| `Sales` | `invoices`, `payments` | `SalesInvoice`, `SalesPayment` |
| `Sales` | `posted`, `journaled`, `receivable` | system `JournalEntry` rows per document, the receivable account |
| `Aftersales` | `quotations`, `origin`, `fulfilled`, `notes`, `saleReturns`, `handed` | `Quotation`, `SalesOrder.quotation`, `fulfilled_quantity`, `DeliveryNote`, `SalesReturn`; what deliver has counted (history) |
| `Screens` | `InvoicesOffered`, `OpenQuotes`, `ReportRows`, ... | form options, summaries, the sales report |
| `Pricing` | `quote`, `placed`, `bills`, `till`, `credit` | the same documents with lines, tax, charges and totals, in cents |

A save of a row locks it, and the posting that follows looks for the journal under
that lock; `NewKey` keeps two payments with the same new number apart because the
unique index makes the second wait. `Pricing` is served one request at a time. Its
facts: `tax_inclusive` is declared on a plain mixin, which the framework ignores,
so every line is priced exclusive of tax; the rate is 5 % whatever
`vat_percentage` says; a quotation that becomes an order loses the tax treatment
of its lines; a PATCH of charges without items leaves the total as it was;
remaining quantities to invoice count void invoices; a credit is taxed at a flat
5 % and names the latest invoice, void or not; POS takes the whole units of a
quantity from stock. Edits of an order's lines delete and recreate them, which is
modelled in `Pricing` (links of invoice lines become null, returns protect theirs)
and left out of `Aftersales`. Line discounts and prefixes over several months are
left out. Three things that serializers accept are request kinds of their own, because
each breaks a property by itself and the property then names it: an invoice whose
`paid_amount` the client writes (`set_paid`), one whose `sales_order` the client names,
which gives an order a second invoice that stands (`name_order`), and an invoice or a
return with several lines of one order line, each of which is compared with other
documents only (`repeat_lines`). An order may be posted as CONFIRMED, which reserves
nothing: it is a written status, and `ConfirmedBacked` excludes those.

### Finance

| module | in the model | in the code |
|---|---|---|
| `Ledger` | `papers`, `lines`, `ledger`, `account` | `JournalEntry`, `ReceivableInvoice`, `PayableBill`, their lines, `LedgerEntry`, `ChartOfAccount.current_balance` |
| `Finance` | `payments`, `banks`, `vouchers`, `deposits` | receipts and payments, `BankAccount`, `BankTransaction`; what other apps' payments brought (history) |
| `Assets` | `assets`, `capitalized`, `depreciated` | `FixedAsset`, its capitalization entry, `FixedAssetDepreciation` |
| `Statements` | functions of the above | the report views |
| `Controls` | `budgets`, `revisions`, `returns`, `periods`, `approvedLines`, `approvedReturns` | `Budget`, `BudgetRevision`, `VatReturn`, `AccountingPeriod`; what was approved (history) |

Lines are abstracted to their total. Bill matching, attachments and credit limits
are taken as given. `AssetDepreciationRun.calculate` and asset disposal use fields
that `FixedAsset` lacks and fail, so they change nothing. No posting reads
`AccountingPeriod`. A revision only raises the version of its budget, and its view set
is not registered in `finance/urls.py`: the requests on revisions are more than
clients can send today. A PATCH may move a VAT return to another period, branch or type
in any status (`move_return`); returns of a branch are unique by period and type
(`ScopeFree`, an original and an amended one by `amend`), those for all branches are not.
Reports read how accounts are classified now, hence `Charts`. Capitalizing an asset
writes a debit without a credit (`CapitalRow`), which the reports include: the trial
balance is out by exactly what was capitalized, and the balance sheet, which never
carries profit into equity, by that and the profit.

Receipts and payments are full view sets: their amount and document can be edited
(`edit_payment`) and a receipt may name no invoice (`receive_unapplied`); neither tells
the document, so `PaidAddsUp` leaves edits out and the customer's statement differs from
the aging by the receipts without an invoice. The balance of a bank account is a
writable field too (`set_balance`), and nothing holds of a balance that a client sets.
Left out: `LedgerViewSet` lets clients write and delete `LedgerEntry` rows directly, on
which no property of the ledger could rest, and edits that change the cost of an
asset.

## Runs

| run | instance | shows |
|---|---|---|
| `transfer_safety` | `MCStockTransfer`: one transfer of two items, two workers, four warehouse rows per product, all requests, one crash, sales and reservations on the source row, a product that is edited or deleted | the type invariant; `LedgerSound` (unbroken movement chains, reservations kept), `MovesSound` (each item moved at most once, arrivals after departures, the status backed by movements, whole transfers), `Conserved` (goods are neither lost nor made), the refinement of `TransferGoods` |
| `transfer_progress` | two transfers of one product in opposite directions, two workers, one crash; dispatch and receive | every request ends although branch rows and item rows are locked in opposite orders; once goods have left, repeated requests bring the transfer to RECEIVED |
| `transfer_withdrawn` | as `transfer_safety`, quiet environment | a counterexample, see Findings |
| `offices` | `MCOffices`: one of twelve desks of the stock pages and the recovery centre, or one of ten bureaus of the personnel office; two clerks, one crash | `WarehouseSound`, `RecoverySound`, `WorkforceSound` |
| `payroll_settlement` | two employees of whom one joins in the second month, two months, two runs, two workers, two loans and an advance of one employee; generate as PENDING, pay, fail, cancel a loan, destroy | the type invariant (no balance or deduction is negative), `SettlementsAdd` (loans add up, deductions of paid salaries are what loans received, advances are deducted once), COMPLETED runs that are paid, PAID that is final |
| `payroll_edits` | one month, two loans, generation as PENDING and as PAID, rejections half-way, stale edits of entries and loans that also rewrite a loan's terms, deletion of runs | no loan loses more of what was granted than its repayments show, repayments keep their entry and are booked once, no circular wait |
| `payroll_reopened`, `payroll_overdrawn`, `payroll_dropped` | one employee with one loan and one advance, two months | counterexamples, see Findings |
| `purchases` | `MCPurchases`: thirty mixes over one two-line order, two rows of each kind, two workers | `ReceiptsCounted` (receipts stocked once and counted on the lines), `PaidBacked` (bills paid by payments and credits, credits applied once), `BillsFit` (paid and due add up; the largest items of approved bills and credited returns within what was accepted), `OffersFit`, `PaidApproved` |
| `sales` | `MCSales`: twenty-five mixes, each overlapping and one at a time, over two orders, one quotation, two rows of every other document; seven shops of `Pricing` with some thirty baskets | `PostedOnce`, `JournalMatches`, `PaidCounted`, `ConfirmedBacked`, `BooksAgree`, `OrdersFollowed`, `ScreensAgree`, `PricingSound` |
| `finance` | `MCFinance`: thirty-three mixes over three journals, an invoice, a bill, two bank accounts, two assets, a budget with two revisions, two VAT returns, three charts of accounts | `LedgerOnce`, `PaidAddsUp`, `BankBalanced`, `DepreciationAdds`, `ReportsAgree`, `ApprovalsStand` |

Properties such as `LedgerSound` are conjunctions of the named parts above them in
their module; the comment of each part says which requests it leaves out and why.

Bounds. Two workers suffice for every race in the code: each hazard is a pair of
requests. Two rows of each kind are needed for one row to compete with another for
the same invoice, receipt, line or account; three journals for a journal that
is reversed twice. In mixes that would be too large together, `Few` of the MC module
says of which row there is one only. For transfers, two items are needed for partial failure, two warehouses
for the choice of the source row and one crash for the gap between the commits; the opening stock makes an item fit one row
only, so that a sale on that row forces the retry to use the earlier movement's
warehouse. Two payroll months let the payments of two entries compete for one
loan, and two loans let a deduction spill over to the younger one.

Counters with a bound, in guards: `MaxCrashes`; `MaxRuns` (payroll runs); `MaxMoved`
(goods moved for one document), `MaxCredit` (what clients put on a credit);
`MaxReceivable` (how far the account strays from zero), `MaxHanded` (deliveries
counted for a line); `MaxLines` (sets of lines of a journal, an invoice or a bill of finance; items of a bill or a return over one receipt; lines of a sales return over one order line), `MaxDeposits`,
`MaxBudgetLines`, `MaxVersion`; `MaxMoves` (movements of a stock row), `MaxFiles`
(recovery records); `MaxRevisions`, `MaxPapers`; an employee is granted advances
and loans only up to a fixed number. Each leaves room for the case to happen twice.
`CHECK_DEADLOCK FALSE` is there because a system whose rows are used up and
documents finished has nothing left to do. Workers, and rows told apart by nothing
else, are symmetric.

Fairness. A worker that can take its next step again and again takes it (strong
fairness of `WorkerStep`: PostgreSQL queues lock waiters, so a waiter is not
passed over for ever), and the deadlock detector acts on a cycle of waits that
stays. `InterruptedFinishes` has two premises of its own: clients repeat the
dispatch and the receipt of a transfer (`Retries`), which is what the module comment
of `services.py` relies on ("retry can finish an interrupted operation safely"), and
deadlocks stop (`DeadlocksStop`): without it TLC shows a repeated dispatch in the
opposite direction that wins every deadlock, which nothing in the code prevents. The
run leaves out cancel and delete, which may race and stop the transfer for good (the
finding below), and products that are deactivated on the way, which block the
receipt until somebody reactivates them.

## Proofs

`StockTransferProofs` proves, for every number of workers, transfers, branches,
products, warehouses and crashes:

* `TypeCorrect`: `Spec => []TypeOK`. It includes that no balance is negative, so
  it already needs to know what a worker's request looks like at each position
  (`RequestOK`).
* `LedgersNeverBreak` and `ReservationsRespected`: `Spec => []LedgerChains` and
  `Spec => []ReservedOnHand`. Neither is inductive: a commit publishes `wStock`
  and `pending`, so the invariant `BalancesOK` says of every row that the ledger
  followed by the uncommitted movements chains to `wStock`, that a row nobody
  holds has no uncommitted movements and shows its committed balance
  (`RowsSettled`), and that the reservation is covered in both views.

Its next part proves that dispatch and receive are idempotent and keep the
two databases consistent: `NothingMovesTwice` (`MovedOnce`),
`NothingArrivesFirst` (`ArrivalsLeft`), `StatusNeverAhead` (`StatusBacked`) and
`TransfersStayWhole` (`WholeTransfers`). None of them is inductive, and the
invariant `MovesOK` shows what they rest on:

* about the data (`DataOK`): every movement, committed or not, is the one its key
  asks for, in the branch and with the quantity of the item (`EntryOK`);
  uncommitted ones belong to the request of the worker that holds their row and
  are off its list (`PendingOK`); the key is unique over ledger and uncommitted
  movements together (`BookedOnce`);
* about the control (`ControlOK`): a service call owns the workflow row from its
  first lock to its end and goes on only from a status it accepts (`WorkerOK`),
  rows are locked only inside a branch transaction (`RowsOwned`), and an item
  that is off the list has a movement that its worker can see (`ItemsSeen`).

The heart of it is `MoveFresh`: when `_move` does not find the key, nobody has
committed it (the worker would see it) and nobody is about to (its holder would
own the same workflow row). The commit of the branch then turns "seen by the
worker" into "booked" for all items at once, which is why transfers stay whole
and why the status written afterwards is backed. Steps that add no movement are
handled once, by `LocalMoves`.

`PayrollProofs` begins with two properties of what payroll never takes back:

* `RepaymentsStay`: `Spec => []RepaymentsKept`. The invariant `Kept` adds what an
  open transaction may publish (`JobOK`): the entries it has locked or inserted
  are whole rows with a real status, and it has inserted repayments only for
  entries that are among them. So the repayment and its entry are committed by
  the same step (`PublishStep`), and every request that removes or rewrites an
  entry either finds no repayment (`Repayments(k) = {}`) or writes a real row.
* `PaidStays`: `Spec => PaidFinal` when clients neither edit entries nor delete
  runs (`PayrollOnly`; `payroll_reopened` shows that the assumption is needed).
  The invariant `Locked` says that no entry is locked by two workers and that a
  locked entry is not PAID in the table, so a commit never writes over a paid
  row (`CommitStep`).

`Sums` has what the proofs below need of sums over finite sets (`SumFunctionOnSet`):
a sum exists (`SumExists`), and it is a first term and the rest (`SumPick`), changes
with one of its terms (`SumChange`), splits over disjoint sets (`SumUnion`,
`SumCover`), and keeps order and type (`SumLess`, `SumNat`, `SumInt`). The library's
induction on finite sets takes an operator and is out of the provers' reach; `Smallest`
replaces it: among the subsets for which a claim fails there would be a smallest one.

The last part of `StockTransferProofs`, which uses `Sums`, proves about amounts what
the part before it proves about items:

* `NothingLostNorMade` (`Conserved`). The invariant `ExactOK` says that a movement of
  an item is in a row of its product, an arrival in the default warehouse. Then the
  movements of a row add up to its change by their unbroken chain, the rows of a
  product to its movements, and every departure without its arrival is on the road.
* `TransfersAsPromised`: `StockTransfer` implements `TransferGoods`, step by step. The
  commit of a branch transaction is the abstract departure or arrival, a sale or an
  adjustment is one, and everything else leaves what the abstract variables are mapped
  to. Liveness is not part of the mapping's theorem.

The rest of `PayrollProofs` proves the amounts of payroll from one invariant, `Balanced`. Its
part `Held` needs no condition: the rows and shares of an open transaction are typed
and held by one worker only (`HeldBy`), a share is only planned for a period that has
not repaid the loan, and a loan save lowers a balance by no more than was repaid
(`StepOK`). `Published` says that a commit publishes rows, shares and balances
together, so that the sums over loans change by what the commit held (`SpreadSum`,
`SettlementSum`). The other parts hold for clients that leave something alone
(`NoEntryEdits`, `NoLoanEdits`, `NoneGeneratedPaid`, `NothingDropped`); the three runs
that expect a violation drop these conditions and show the books coming apart, so none
of them can be spared. `AmountsTyped`, `LossesBacked`, `EntriesRepayOnce` and
`NeverDeadlocked` have no condition; `LoansAddUp`, `CompletedRunsPaid` and
`SettlementsAgree` name theirs. `NeverDeadlocked` gives every worker a rank above that
of whoever it waits for: generations lock entries and loans employee by employee, a
payment its entry before its loans, so a circle of waits would rank above itself.

`SalesProofs` proves every property of sales but `PricingSound`, with all requests and
any finite sets of orders, products, documents, notes, returns and workers. What a step
may do is stated once (`SaleSteps`, `QuoteSteps`, `DeliverySteps`, `ReturnSteps`,
`JournalSteps`, `MoneySteps`), and what the request of a worker becomes in `NextJob`.

* `PostedOnceAlways` (`PostedOnce`): the invariant `Sound` says what the lock of the
  saved row is worth. A transaction that books a document has seen the journals that it
  has (`seen`), no other worker books the same document, and a payment that is being
  created is known to its own request alone.
* `JournalsMatch` (`JournalMatches`): `Matched` adds that every request under way is of
  a kind that clients send, that no row about to be saved is void, and that the invoice
  of a payment in progress is not void unless clients may void it at the same time
  (`Racing`). `Alone` carries the one-at-a-time case: a worker that has begun finds all
  others idle.
* `SalesTyped` (`AllTypeOK`): `Typed` gives each request the shape of what it read.
* `ConfirmedOrdersBacked` (`ConfirmedBacked`): `Reserving` holds at every step, because
  a confirmation reserves and changes the status in one transaction.
* `PaymentsCounted` (`PaidCounted`): what an invoice will show was added up before its
  lock, so `Counting` must say that nobody else inserts a payment in the meantime; it is
  the unique number that keeps a second one out. `Keys` says that a request writes over
  no other's new row, `Owing` that a payment knows the total its invoice has, and
  `Covered`, one request at a time, that no more is paid than that, and nothing of a
  void invoice. Together they are `Money`.
* `BooksKept` (`BooksAgree`): one request at a time, the balance that a booking goes on
  from is the one of the account (`Balanced`), and a sale that is being voided stands
  (`Shelved`).
* `FollowUpsKept` (`OrdersFollowed`): a request that goes on with an order or a quotation
  still finds it without another invoice or order (`Invoiced`, `Quoted`); deliver carries
  the line that was counted and the status that goes with it (`Delivered`); the returns
  of a line with the one about to be written do not exceed it, unless a rejected return
  can be brought back unchecked (`Returned`, `BroughtBack`).
* `ScreensSound` (`ScreensAgree`) follows from all of these: what the report adds up is
  what the payments brought, because payments split by the invoice they are for, and void
  invoices have none (`PaidReceived`).

`FinanceProofs` proves the properties of `finance`, but for the reports, for any sets of
documents, accounts, assets, budgets, returns and workers. All start from `Typed`, which
gives what each request has read a shape of its own (`JobShape`), and from `Serial`,
by which a step is the turn of one worker (`Turn`) that is alone unless requests
overlap (`Alone`). Each theorem then has an invariant that says what a request still
knows of the rows it read, whether they overlap (`Knows...`) or not (`Current...`):

* `FinanceTyped` (`ControlsTypeOK`).
* `PostedOnce` (`LedgerOnce`): an entry of an invoice or bill has the key 0, and that
  of a journal nobody edits the key 1, so the unique entry number turns a second
  posting away; a request that will write a status of a posted document has found it
  posted (`PostingSound`).
* `DepreciationAddsUp` (`DepreciationAdds`): rows are only added, so what a stale
  request writes back is still covered by them (`AssetsCovered`); one run at a time
  adds the same to both (`AssetsAdd`).
* `PaymentsAddUp` (`PaidAddsUp`): the lock makes payment row and paid amount one step,
  a document with payments cannot be deleted, and no other request but an edit of the
  document or of the payment comes between them (`OwedStay`, `PaymentsHeld`).
* `BanksAddUp` (`BankBalanced`): a new voucher adds its amount to those of its account
  (`VoucherAdded`), a posting to what the ledger holds (`EntryAdded`); whoever holds
  a balance one request at a time holds the one that is there (`BankCurrent`).
* `WhatWasApproved` (`ApprovalsStand`): the status that a request is about to write
  has an approval behind it (`KnowsBudget`, `KnowsReturn`), and without rejections,
  deletions and racing edits of bills the VAT of a period only grows (`VatGrows`), so
  that what a prepared return claims stays covered (`ClaimsSound`) unless it is moved.
* `TheBooksClose` (`LedgerCloses`, the part of `ReportsAgree` about the statements): an
  invoice or a bill is posted with a total that one may have (`TotalsPosted`), so its
  lines close whatever VAT is within it, and a journal has as many debits as credits
  (`JournalCloses`). The rows of any days then add up to what was capitalized
  (`RowsClose`, `CapitalAddsUp`), so do the balances of the accounts (`AccountsClose`), and the accounts of the sheet are apart from
  those of the income statement (`SheetCloses`). It needs no moment without requests.

`PurchasesProofs` proves every property of `purchases`, for any sets of lines, receipts,
bills, payments, returns, credits, expenses and workers. All start from `Served`: rows
and requests have their shapes (`Typed`), every request is of a kind that clients send
(`AllAsked`), and an approval holds the lock of its bill (`Held`). `StepCases` says which
actions a turn may be, and each theorem adds what a stale row can still do:

* `PurchaseRowsTyped` (`AllTypeOK`) needs `Held` already: what an approval leaves to pay
  is not negative because nobody pays the bill meanwhile.
* `PaidExpensesApproved` (`PaidApproved`): a request that is about to pay an expense which
  nobody had approved when it was read signs for it (`Answered`), and what others
  approved stays approved (`SomebodyAnswers`).
* `PurchasesFit` (`BillsFit`): a bill claims goods of its receipt from the moment its
  approval begins, not when it is saved (`BillsFitting`), so two approvals that overlap
  count each other; a return claims goods while it is being approved, while it is
  credited and while a credit is linked to it or about to be (`InReturn`), so one whose
  credit fails and is approved again is not counted twice. Both count the largest item.
* `BillsBacked` (`PaidBacked`): no request remembers more paid than payments and credits
  have put on its bill (`Backed`), or exactly that when bills are not edited (`Matched`);
  a credit says what it has taken, all of it out of its lines, nothing before it is
  posted and nothing after it is void (`Accounted`).
* `ReceiptsCount` (`ReceiptsCounted`): a confirmation keeps the draft receipt and the
  line that it has locked (`Confirmations`), which makes stock, line and receipt one step
  (`StockFit`, `ReceivedFit`); when it calls the order RECEIVED, the lines that it read
  without a lock are still full, because lines are never taken back (`CalledFit`).
* `OffersShown` (`OffersFit`): lines have received at most what came in, hence what the
  form proposes of what is left fits the line.

`OfficesProofs` proves the properties of the stock rooms and of the recovery centre,
which share their clerks: an invariant of each (`StockInv`, `RecoveryInv`) is kept by
every action of `OfficeNext` (`OfficeInvariant`). What is not served one at a time is
served by a clerk about whom the others know nothing (`Serial`, `Solitary`).

* `WarehouseKept` (`WarehouseSound`): a stock row says of itself what its movements, its
  opening stock and the costs that came in make of it (`RowOK`), which `Booked` shows
  to be kept by whatever `adjust_stock` may write. Beyond that, a row belongs to an
  article that is there (`Known`); an article with variants keeps nothing in the row
  without variant unless a PATCH reshapes it (`Splitting`); and a request still has the
  shape that it read, or the balances of rows which nobody has opened or which are at
  the quantity of the workbook (`Tasking`), since the SKU of an import that has not
  committed is taken (`Importing`).
* `RowsRecovered` (`RecoverySound`): a record is of a row that has been there (`Filing`),
  a deleted row has exactly one (`Recallable`, `OneFile`), and a request between its
  commits is at a row and a record that agree with its step (`EntryTasking`).

Three things turned out only in these proofs, each confirmed by TLC on an instance made
for it, and the properties now name them. An import that overlaps another import of the
same article takes back what was received or issued in between, and with it goods that
are placed in racks (`MovedBetween`). A deletion takes over the recovery record of
another branch's row with the same primary key, so that purging the record leaves a row
that the record calls permanently deleted, and the clean-up does the same to a row in
the shared database (`Twins`). And names are apart only if they were: behaviours that
start with two customers of one name keep them.

`WorkforceProofs` proves the property of the personnel office, `OfficeKept`
(`WorkforceSound`), for any people, officers, rows of leave, days and salaries. Its
invariant `WorkforceInv` says what the rows and the requests are (`WorkforceTyped`), that
an officer works alone unless requests overlap (`OneByOne`), and what a request then
knows of the rows it will write (`Knows`): a request for leave has found nothing in the
way (`ApartFrom`), a decision has the balance that is there.

* Salaries: the joining revision comes first and the latest open revision has the salary
  (`Followed`), so that filling in the salary of a joining without one, which is done
  only while there is no other kind of revision, fills in the latest one.
* Leave: one written row leaves the others apart (`StillApart`) and changes the days that
  the profile counts by its own (`DaysMore`), which is what approval and deletion book.
* The payroll page: leave that is apart takes from a period exactly the days it covers
  (`DaysLeft`), hence the payable days are those of the calendar (`DaysWorked`); a loan
  instalment never takes more than an advance has left of the pay (`EstimateAdds`).

What stays model-checked only: the pure computations of `Pricing`, the rest of the
reports of `Statements` (budgets, cash flow, aging, what a customer owes, VAT), and
liveness, which the prover does not handle.

The assumptions are the named ones of each module: the shapes of the constants, that
journals have as many debit lines as credit lines of the same amount (the code refuses
to save or to post one that does not balance) and no VAT exceeds its total, that the rows which are summed over are finitely many, that a transfer joins two different
branches, that no kind of variant is called none or base and that the
low-stock mark is positive, that the people an office hires are its staff, with
salaries that are not negative, that model, database and primary key name one row, that
behaviours without creation start with customers whose names are apart,
that a receipt with which a behaviour of purchases starts accepted no more than
it received and its credited returns no more than it accepted, that the values which stand for nothing (`None`, `"none"`) are no row, worker
or account, and that every bound of a counter leaves room for one step.

## Findings

* `transfer_withdrawn`: cancel and delete decide on a status that they read
  without a lock, so a cancel that races a dispatch leaves a CANCELLED transfer
  whose goods have left and can never be received. The view says that it does
  not happen ("Dispatched or received transfers cannot be cancelled without a
  stock reversal.").

* `payroll_reopened`: the payroll editor saves the whole row that it read without
  a lock, so a correction that races `mark_paid` puts PENDING over PAID, although
  its comment promises that a paid salary "remains fully settled". The repayments
  stay, and `RepaidOnce` shows that paying the entry again does not book them
  again.
* `payroll_overdrawn`: generation with status PAID plans the deduction from
  balances read without a lock; when another payroll takes the balance first, the
  salary is reduced by more than the loan receives. `mark_paid` does not have the
  problem, because it computes the deduction again under the lock
  (`PaidSettled` in `payroll_settlement`).
* `payroll_dropped`: deleting a run cascades to entries that the entry's own
  destroy refuses to delete, and the advances they recovered stay recovered.

The properties of the other runs state what the code does keep, and say next to
each exception which requests break it: for instance that an invoice which is
voided while it is paid comes back to life (`JournalMatches`), that the account
balances are lost updates when requests overlap (`BooksAgree`), that a bill can be
overpaid by two payments (`PaidAddsUp`), and that a return or a quotation that was
answered can be answered again (`OrdersFollowed`), or that the items of one bill may
claim what was accepted twice (`BillsFit`).

## Not modelled, and why

* Service repairs, fleet, attendance, documents and reminders: record keeping
  without transitions that depend on one another.
* Accounts, permissions, branch routing and the combined branch views: functions
  of the request; schema provisioning and management commands: one operator at
  start-up. Notifications and the audit log are appended to and not read back.
* Exports, search, wording, dates other than those an operation compares, number
  prefixes over several months, currencies.
* In purchases: tax amounts, attachments and matching against several orders. In
  finance: cheques, bank reconciliation, cost centres, the branch filter and the
  consolidation of reports, direct writes to depreciation rows. In sales: price
  lists, reminders, saved reports, the batch entry of historical invoices. In
  inventory: brands, categories, units and the valuation reports. In hrms: edits
  of an advance, a PATCH that changes the employee or the period of an entry.

## Plan

Done: every part of the table above that keeps records which depend on one another;
proofs of transfers, payroll, finance, purchases, sales, stock, recovery and personnel.
Left, in order:

1. the amounts of purchases, as `Pricing` has them for sales;
2. cheques and bank reconciliation in `Finance`, edits of advances in `Payroll`.
