------------------------------ MODULE Payroll ------------------------------
(***************************************************************************)
(* The payroll of apps/hrms: payroll generation, the payment of payroll    *)
(* entries, the recovery of salary advances and employee loans, and the    *)
(* generic edits and deletions that the same view sets offer.              *)
(*                                                                         *)
(* Everything lives in the one "default" database, so a request is at most *)
(* one read-committed transaction: what it writes stays in job[w].rows and *)
(* job[w].shares, under row locks, until it commits, and is gone when it   *)
(* fails.  What can go wrong is what a request does with rows that it has  *)
(* read without a lock: plan a deduction, decide the status of the payroll *)
(* run, or save a whole row back.                                          *)
(*                                                                         *)
(* A payroll entry is known by its employee and period, which are unique;  *)
(* the run that generated it tells two entries of one employee and period  *)
(* apart.  The salary advances of an employee for a period are one amount. *)
(***************************************************************************)
EXTENDS Integers, FiniteSets, FiniteSetsExt

CONSTANTS
  Workers,            \* web processes
  Employees,          \* primary keys, in the order generate visits them
  Periods,            \* payroll months, in calendar order
  NumLoans,           \* loans 1..NumLoans, oldest first
  LoanOf,             \* per loan: its employee
  LoanAmount, LoanStart,   \* per loan, as it was granted
  Installment,        \* per loan and period, as granted: monthly_installment or its override
  AdvanceAmount,      \* per employee and period: the paid salary advances
  GrossSalary, Joined,   \* per employee: monthly salary, first period
  MaxRuns,            \* bound: payroll runs ever created
  Operations,         \* the request kinds that clients send
  GenerateStatuses,   \* statuses that clients generate payroll with
  Targets,            \* statuses that clients ask update_status for
  BadDays,            \* employees for whom payable_days may be out of range
  EditStatuses,       \* statuses that clients write with PATCH
  EditGross,          \* salaries that clients write with PATCH
  EditTerms           \* loan terms that clients write with PATCH

Loans == 1..NumLoans
Runs == 1..MaxRuns
Keys == Employees \X Periods

EntryStatuses == {"PENDING", "PROCESSING", "PAID", "FAILED", "CANCELLED"}
RunStatuses == {"DRAFT", "PROCESSING", "COMPLETED", "FAILED", "CANCELLED"}
LoanStatuses == {"ACTIVE", "COMPLETED", "CANCELLED"}
OperationKinds == {"generate", "mark_paid", "update_status", "destroy",
                   "edit_entry", "delete_run", "cancel_loan", "edit_loan"}

\* The terms of a loan that its serializer leaves writable: amount, start_period
\* and what it asks for each month.
Terms == [amount : Nat, start : Nat, installment : [Periods -> Nat]]
Granted(l) == [amount |-> LoanAmount[l], start |-> LoanStart[l],
               installment |-> Installment[l]]

ASSUME ShapeAssumption ==
  /\ Employees \subseteq Nat /\ IsFiniteSet(Employees)
  /\ Periods \subseteq Nat /\ IsFiniteSet(Periods)
  /\ NumLoans \in Nat
  /\ MaxRuns \in Nat
  /\ LoanOf \in [Loans -> Employees]
  /\ LoanAmount \in [Loans -> Nat \ {0}]
  /\ LoanStart \in [Loans -> Nat]
  /\ Installment \in [Loans -> [Periods -> Nat]]
  /\ AdvanceAmount \in [Keys -> Nat]
  /\ GrossSalary \in [Employees -> Nat] /\ Joined \in [Employees -> Nat]
  /\ Operations \subseteq OperationKinds
  /\ GenerateStatuses \union Targets \subseteq EntryStatuses
  /\ EditStatuses \subseteq EntryStatuses
  /\ EditGross \subseteq Nat
  /\ EditTerms \subseteq Terms

\* A PayrollEntry; "paid" says that paid_at is set.
Entries == [status : EntryStatuses \union {"ABSENT"}, gross : Nat, adv : Nat,
            loan : Nat, run : 0..MaxRuns, paid : BOOLEAN]
Absent == [status |-> "ABSENT", gross |-> 0, adv |-> 0, loan |-> 0, run |-> 0,
           paid |-> FALSE]

VARIABLES
  entries,     \* PayrollEntry rows, committed
  runs,        \* PayrollRun.status, with "ABSENT" and "DELETED" for no row
  terms,       \* EmployeeLoan.amount, start_period and installments
  balance,     \* EmployeeLoan.remaining_balance
  loanStatus,  \* EmployeeLoan.status
  repaid,      \* EmployeeLoanRepayment.amount, per loan and period of its entry
  left,        \* SalaryAdvance.remaining_amount
  job          \* what each worker is doing, its uncommitted writes and its locks

loanVars == <<terms, balance, loanStatus, repaid>>
dbVars == <<entries, runs, loanVars, left>>
vars == <<dbVars, job>>

NoTerms == [amount |-> 0, start |-> 0, installment |-> [p \in Periods |-> 0]]

\* rows: the payroll entries that the transaction has locked or inserted, as
\* it sees them; loans: the loans that it has locked, with the balance read
\* then; shares: the repayments that it has inserted; seen, seenLoan: rows read
\* without a lock.
Idle == [step |-> "idle", op |-> "none", todo |-> {}, period |-> 0, run |-> 0,
         status |-> "ABSENT", rows |-> [k \in {} |-> Absent],
         shares |-> [l \in Loans |-> 0], loans |-> [l \in {} |-> 0], result |-> "ABSENT",
         seen |-> Absent, loan |-> 0,
         seenLoan |-> [balance |-> 0, status |-> "ABSENT", terms |-> NoTerms]]

Init ==
  /\ entries = [k \in Keys |-> Absent]
  /\ runs = [r \in Runs |-> "ABSENT"]
  /\ terms = [l \in Loans |-> Granted(l)]
  /\ balance = LoanAmount
  /\ loanStatus = [l \in Loans |-> "ACTIVE"]
  /\ repaid = [l \in Loans |-> [p \in Periods |-> 0]]
  /\ left = AdvanceAmount
  /\ job = [w \in Workers |-> Idle]

----------------------------------------------------------------------------
(* Loans. *)

Sum(f) == SumFunctionOnSet(f, Loans)

\* The loans that a payroll entry of employee e and period p recovers.
Eligible(e, p) ==
  {l \in Loans : /\ LoanOf[l] = e
                 /\ loanStatus[l] = "ACTIVE"
                 /\ terms[l].start <= p
                 /\ balance[l] > 0}

\* Mutant: the balance of a loan does not limit what it is repaid.
SpreadUncapped(loans, cap, amount) ==
  [l \in Loans |-> IF l \in loans /\ \A x \in loans : l <= x THEN amount ELSE 0]

\* An amount spread over some loans, oldest first, at most cap[l] on each: loan
\* l gets what the ones before it leave.
Spread(loans, cap, amount) ==
  LET rest(l) == amount - SumFunctionOnSet(cap, {x \in loans : x < l})
  IN [l \in Loans |-> IF l \in loans THEN Max({0, Min({cap[l], rest(l)})}) ELSE 0]

\* What is left of a salary after the advance deduction.
AfterAdvance(row) == Max({0, row.gross - row.adv})

\* The deduction planned for an entry: an installment of each eligible loan.
Planned(e, p, available) ==
  Sum(Spread(Eligible(e, p),
             [l \in Loans |-> Min({terms[l].installment[p], balance[l]})],
             available))

\* Mutant: the loans that the entry has repaid are settled again.
SettlementRepeated(e, p, deduction) == Spread(Eligible(e, p), balance, deduction)

\* The repayments that settle an entry's deduction: what the entry has not
\* repaid yet, from the loans that it has not repaid yet.
Settlement(e, p, deduction) ==
  LET done == Sum([l \in Loans |-> IF LoanOf[l] = e THEN repaid[l][p] ELSE 0])
  IN Spread({l \in Eligible(e, p) : repaid[l][p] = 0}, balance,
            Max({0, deduction - done}))

----------------------------------------------------------------------------
(* Transactions. *)

Present(k) == entries[k].status # "ABSENT"

Others(w) == Workers \ {w}
EntryFree(w, k) == \A v \in Others(w) : k \notin DOMAIN job[v].rows

\* Mutant: the loans are read without select_for_update.
LoansUnlocked(w, loans) == TRUE

LoansFree(w, loans) == \A v \in Others(w) : DOMAIN job[v].loans \intersect loans = {}

\* The rows of a transaction with row k locked, inserted or saved.
With(rows, k, row) ==
  [x \in DOMAIN rows \union {k} |-> IF x = k THEN row ELSE rows[x]]

\* The locked loans of a transaction that locks some more.
WithLocked(locked, loans) ==
  [l \in DOMAIN locked \union loans |->
     IF l \in DOMAIN locked THEN locked[l] ELSE balance[l]]

\* The payroll entries as worker w reads them.
Sees(w, k) == IF k \in DOMAIN job[w].rows THEN job[w].rows[k] ELSE entries[k]

\* Commit the entries and the repayments of worker w.
Publish(w) ==
  LET shares == job[w].shares
      p == job[w].period
  IN /\ entries' = [k \in Keys |-> Sees(w, k)]
     /\ balance' = [l \in Loans |->
          IF shares[l] > 0 THEN job[w].loans[l] - shares[l] ELSE balance[l]]
     /\ loanStatus' = [l \in Loans |->
          IF shares[l] > 0 /\ job[w].loans[l] = shares[l] THEN "COMPLETED"
          ELSE loanStatus[l]]
     /\ repaid' = [l \in Loans |->
          IF shares[l] > 0 THEN [repaid[l] EXCEPT ![p] = @ + shares[l]]
          ELSE repaid[l]]
     /\ UNCHANGED terms

Respond(w) == job' = [job EXCEPT ![w] = Idle]

\* An error or an early return before any write: nothing changes.
Fail(w) == Respond(w) /\ UNCHANGED dbVars

\* A worker that dies, loses its connection or meets an exception on the way:
\* the open transaction is rolled back, and the client may ask again.
Abort(w) == job[w].step # "idle" /\ Fail(w)

----------------------------------------------------------------------------
(* generate: one payroll run for a set of employees. *)

RunStatusMap == [PENDING |-> "DRAFT", PROCESSING |-> "PROCESSING",
                 PAID |-> "COMPLETED", FAILED |-> "FAILED",
                 CANCELLED |-> "CANCELLED"]

\* Primary keys that no run has and no transaction has taken.
FreshRuns == {r \in Runs : /\ runs[r] = "ABSENT"
                           /\ \A v \in Workers : job[v].run # r}

GenerateStart(w) ==
  /\ job[w].step = "idle"
  /\ "generate" \in Operations
  /\ FreshRuns # {}
  /\ \E todo \in (SUBSET Employees) \ {{}}, p \in Periods, s \in GenerateStatuses :
       /\ \A e \in todo : Joined[e] <= p
       /\ job' = [job EXCEPT ![w] =
                    [Idle EXCEPT !.step = "check", !.op = "generate",
                                 !.todo = todo, !.period = p, !.status = s,
                                 !.run = Min(FreshRuns)]]
  /\ UNCHANGED dbVars

\* Mutant: order_by("id") is lost and employees come as the client lists them.
CurrentAsListed(w) ==
  <<IF job[w].run = 1 THEN Min(job[w].todo) ELSE Max(job[w].todo), job[w].period>>

\* The employee whose turn it is, in the order of order_by("id").
Current(w) == <<Min(job[w].todo), job[w].period>>

Checking(w) == job[w].step = "check" /\ job[w].todo # {}

\* An employee who already has an entry for the period is passed over.
GenerateSkip(w) ==
  /\ Checking(w)
  /\ Present(Current(w))
  /\ job' = [job EXCEPT ![w].todo = @ \ {Current(w)[1]}]
  /\ UNCHANGED dbVars

GenerateCheck(w) ==
  /\ Checking(w)
  /\ ~Present(Current(w))
  /\ job' = [job EXCEPT ![w].step = "insert"]
  /\ UNCHANGED dbVars

\* Payable days out of range: an error response is returned, not raised, so
\* the transaction commits what it has done for the employees before, without
\* the update of the advances, which comes last.
GenerateReject(w) ==
  /\ Checking(w)
  /\ ~Present(Current(w))
  /\ Current(w)[1] \in BadDays
  /\ Publish(w)
  /\ runs' = [runs EXCEPT ![job[w].run] = RunStatusMap[job[w].status]]
  /\ Respond(w)
  /\ UNCHANGED left

\* The entry is computed from the locked advances and from loans read without
\* a lock, and inserted.  The advances of an entry are touched by generate
\* alone, so the lock on the unique employee and period stands for theirs.
GenerateInsert(w) ==
  LET k == Current(w)
      e == k[1]
      p == k[2]
      adv == Min({left[k], GrossSalary[e]})
      row == [status |-> job[w].status, gross |-> GrossSalary[e], adv |-> adv,
              loan |-> Planned(e, p, GrossSalary[e] - adv),
              run |-> job[w].run, paid |-> job[w].status = "PAID"]
  IN /\ job[w].step = "insert"
     /\ EntryFree(w, k)
     /\ ~Present(k)
     /\ job' = [job EXCEPT ![w].rows = With(@, k, row),
                           ![w].step = IF row.paid THEN "settle" ELSE "check",
                           ![w].todo = IF row.paid THEN @ ELSE @ \ {e}]
     /\ UNCHANGED dbVars

\* The unique constraint refuses the insert and the request rolls back.
GenerateDuplicate(w) ==
  /\ job[w].step = "insert"
  /\ EntryFree(w, Current(w))
  /\ Present(Current(w))
  /\ Fail(w)

\* The loans to lock for an entry: none when there is nothing to deduct.
LoansToLock(k, amount) == IF amount > 0 THEN Eligible(k[1], k[2]) ELSE {}

GenerateSettle(w) ==
  LET k == Current(w)
      loans == LoansToLock(k, job[w].rows[k].loan)
      own == Settlement(k[1], k[2], job[w].rows[k].loan)
  IN /\ job[w].step = "settle"
     /\ LoansFree(w, loans)
     /\ job' = [job EXCEPT ![w].loans = WithLocked(@, loans),
                           ![w].shares = [l \in Loans |->
                             IF LoanOf[l] = k[1] THEN own[l] ELSE @[l]],
                           ![w].step = "check",
                           ![w].todo = @ \ {k[1]}]
     /\ UNCHANGED dbVars

\* A run without entries is deleted again.
GenerateEnd(w) ==
  LET made == DOMAIN job[w].rows
  IN /\ job[w].step = "check"
     /\ job[w].todo = {}
     /\ Publish(w)
     /\ left' = [k \in Keys |->
                   IF k \in made THEN left[k] - job[w].rows[k].adv ELSE left[k]]
     /\ runs' = IF made = {} THEN runs
                ELSE [runs EXCEPT ![job[w].run] = RunStatusMap[job[w].status]]
     /\ Respond(w)

----------------------------------------------------------------------------
(* mark_paid and update_status. *)

\* Mutant: a paid entry can be cancelled.
TransitionsOutOfPaid ==
  [s \in EntryStatuses |-> EntryStatuses \ {s}]

Transitions == [PENDING    |-> {"PROCESSING", "PAID", "FAILED", "CANCELLED"},
                PROCESSING |-> {"PAID", "FAILED", "CANCELLED"},
                FAILED     |-> {"PENDING", "PROCESSING", "PAID", "CANCELLED"},
                PAID       |-> {},
                CANCELLED  |-> {}]

\* Mutant: one paid entry completes the run.
DecidedByAnyPaid(op, r, rows) ==
  IF \E k \in Keys : rows[k].status = "PAID" /\ rows[k].run = r THEN "COMPLETED"
  ELSE IF op = "mark_paid" THEN "ABSENT" ELSE "DRAFT"

\* The status of run r when its entries are rows: all of them for update_status,
\* while mark_paid ("ABSENT") leaves a run alone that is not complete.
Decided(op, r, rows) ==
  LET statuses == {rows[k].status : k \in {x \in Keys :
                     rows[x].status # "ABSENT" /\ rows[x].run = r}}
  IN IF statuses = {"PAID"} THEN "COMPLETED"
     ELSE IF op = "mark_paid" THEN "ABSENT"
     ELSE IF "PROCESSING" \in statuses THEN "PROCESSING"
     ELSE IF "FAILED" \in statuses THEN "FAILED"
     ELSE IF statuses = {"CANCELLED"} THEN "CANCELLED"
     ELSE "DRAFT"

\* get_object reads no more than the primary key, so the request begins with the
\* lock.  A status other than PAID is saved at once; the status of the run is
\* decided from entries read without a lock.
PayLock(w) ==
  /\ job[w].step = "idle"
  /\ \E op \in {"mark_paid", "update_status"} \intersect Operations,
        k \in Keys, s \in Targets :
       LET row == IF s = "PAID" THEN entries[k]
                  ELSE [entries[k] EXCEPT !.status = s, !.paid = FALSE]
       IN /\ Present(k)
          /\ EntryFree(w, k)
          /\ op = "mark_paid" => s = "PAID"
          /\ s \in Transitions[entries[k].status]
          /\ job' = [job EXCEPT ![w] =
               [Idle EXCEPT !.op = op, !.todo = {k[1]}, !.period = k[2],
                 !.run = row.run, !.rows = With(@, k, row),
                 !.step = IF s = "PAID" THEN "loans" ELSE "commit",
                 !.result = IF s = "PAID" THEN "ABSENT"
                            ELSE Decided(op, row.run, With(entries, k, row))]]
  /\ UNCHANGED dbVars

\* Mutant: _ensure_employee_loan_deduction is not called.
DeductionAsGenerated(k, row) == row.loan

\* _ensure_employee_loan_deduction replaces the deduction that was generated.
Deduction(k, row) == Planned(k[1], k[2], AfterAdvance(row))

\* Lock the loans, compute the deduction afresh, save the entry as paid, settle
\* the deduction and decide the status of the run.
PayLoans(w) ==
  LET k == Current(w)
      row == job[w].rows[k]
      loans == LoansToLock(k, AfterAdvance(row))
      paidRow == [row EXCEPT !.status = "PAID", !.paid = TRUE,
                             !.loan = Deduction(k, row)]
  IN /\ job[w].step = "loans"
     /\ LoansFree(w, loans)
     /\ job' = [job EXCEPT ![w] =
          [job[w] EXCEPT !.rows = With(job[w].rows, k, paidRow),
                         !.loans = WithLocked(job[w].loans, loans),
                         !.shares = Settlement(k[1], k[2], paidRow.loan),
                         !.result = Decided(job[w].op, row.run,
                                            With(entries, k, paidRow)),
                         !.step = "commit"]]
     /\ UNCHANGED dbVars

PayCommit(w) ==
  /\ job[w].step = "commit"
  /\ Publish(w)
  /\ runs' = IF job[w].result = "ABSENT" THEN runs
             ELSE [runs EXCEPT ![job[w].run] = job[w].result]
  /\ Respond(w)
  /\ UNCHANGED left

----------------------------------------------------------------------------
(* Deletions and edits. *)

\* Mutant: EmployeeLoanRepayment.payroll_entry does not protect its entry.
RepaymentsUnprotected(k) == {}

Repayments(k) == {l \in Loans : LoanOf[l] = k[1] /\ repaid[l][k[2]] > 0}

\* Mutant: the advance deduction of the entry is not looked at.
DeletableDespiteAdvance(k) ==
  /\ entries[k].status \in {"PENDING", "PROCESSING", "FAILED", "CANCELLED"}
  /\ ~entries[k].paid
  /\ Repayments(k) = {}
  /\ entries[k].loan = 0

\* destroy refuses an entry that is paid or has recoveries.
Deletable(k) ==
  /\ entries[k].status \in {"PENDING", "PROCESSING", "FAILED", "CANCELLED"}
  /\ ~entries[k].paid
  /\ Repayments(k) = {}
  /\ entries[k].loan = 0
  /\ entries[k].adv = 0

\* One statement locks the entry; nothing happens between that and the commit.
DestroyEntry(w) ==
  /\ job[w].step = "idle"
  /\ "destroy" \in Operations
  /\ \E k \in Keys :
       /\ EntryFree(w, k)
       /\ Deletable(k)
       /\ entries' = [entries EXCEPT ![k] = Absent]
  /\ UNCHANGED <<runs, loanVars, left, job>>

\* Mutant: EmployeeLoanRepayment rows are deleted with their entry (CASCADE).
DeleteRunCascading(w) ==
  /\ job[w].step = "idle" /\ "delete_run" \in Operations
  /\ \E r \in Runs :
       LET own == {k \in Keys : Present(k) /\ entries[k].run = r}
       IN /\ runs[r] \in RunStatuses /\ \A k \in own : EntryFree(w, k)
          /\ entries' = [k \in Keys |-> IF k \in own THEN Absent ELSE entries[k]]
          /\ repaid' = [l \in Loans |-> [p \in Periods |->
                          IF <<LoanOf[l], p>> \in own THEN 0 ELSE repaid[l][p]]]
          /\ runs' = [runs EXCEPT ![r] = "DELETED"]
  /\ UNCHANGED <<terms, balance, loanStatus, left, job>>

\* The inherited destroy of a run cascades to its entries; repayments protect
\* theirs, advances do not.
DeleteRun(w) ==
  /\ job[w].step = "idle"
  /\ "delete_run" \in Operations
  /\ \E r \in Runs :
       LET own == {k \in Keys : Present(k) /\ entries[k].run = r}
       IN /\ runs[r] \in RunStatuses
          /\ \A k \in own : EntryFree(w, k) /\ Repayments(k) = {}
          /\ entries' = [k \in Keys |-> IF k \in own THEN Absent ELSE entries[k]]
          /\ runs' = [runs EXCEPT ![r] = "DELETED"]
  /\ UNCHANGED <<loanVars, left, job>>

\* PATCH reads the whole entry without a lock.
EditLoad(w) ==
  /\ job[w].step = "idle"
  /\ "edit_entry" \in Operations
  /\ \E k \in Keys, g \in EditGross :
       /\ Present(k)
       /\ \E s \in EditStatuses \union {entries[k].status} :
            job' = [job EXCEPT ![w] =
                      [Idle EXCEPT !.step = "edit", !.op = "edit_entry",
                                   !.todo = {k[1]}, !.period = k[2],
                                   !.seen = [entries[k] EXCEPT !.gross = g,
                                                               !.status = s]]]
  /\ UNCHANGED dbVars

\* The whole row is saved back, or inserted again when it has been deleted;
\* the unique constraint and the reference to the run can refuse that.
EditSave(w) ==
  LET k == Current(w)
      row == job[w].seen
  IN /\ job[w].step = "edit"
     /\ EntryFree(w, k)
     /\ entries' = IF \/ Present(k) /\ entries[k].run = row.run
                      \/ ~Present(k) /\ runs[row.run] # "DELETED"
                   THEN [entries EXCEPT ![k] = row]
                   ELSE entries
     /\ Respond(w)
     /\ UNCHANGED <<runs, loanVars, left>>

\* Both requests on a loan read it without a lock; a PATCH changes the terms and
\* cannot change balance and status.
LoanLoad(w) ==
  /\ job[w].step = "idle"
  /\ \E op \in {"cancel_loan", "edit_loan"} \intersect Operations, l \in Loans :
       /\ op = "cancel_loan" => loanStatus[l] = "ACTIVE"
       /\ \E t \in {terms[l]} \union (IF op = "edit_loan" THEN EditTerms ELSE {}) :
            job' = [job EXCEPT ![w] =
                      [Idle EXCEPT !.step = "loan", !.op = op, !.loan = l,
                         !.seenLoan = [balance |-> balance[l],
                                       status |-> loanStatus[l], terms |-> t]]]
  /\ UNCHANGED dbVars

\* cancel writes the status alone, an edit the whole row: the terms it was sent,
\* balance and status as they were read.
LoanSave(w) ==
  LET l == job[w].loan
      seen == job[w].seenLoan
  IN /\ job[w].step = "loan"
     /\ LoansFree(w, {l})
     /\ IF job[w].op = "cancel_loan"
        THEN /\ loanStatus' = [loanStatus EXCEPT ![l] = "CANCELLED"]
             /\ UNCHANGED <<terms, balance>>
        ELSE /\ loanStatus' = [loanStatus EXCEPT ![l] = seen.status]
             /\ terms' = [terms EXCEPT ![l] = seen.terms]
             /\ balance' = [balance EXCEPT ![l] = seen.balance]
     /\ Respond(w)
     /\ UNCHANGED <<entries, runs, repaid, left>>

----------------------------------------------------------------------------
WorkerStep(w) ==
  \/ GenerateSkip(w) \/ GenerateCheck(w) \/ GenerateReject(w)
  \/ GenerateInsert(w) \/ GenerateDuplicate(w) \/ GenerateSettle(w)
  \/ GenerateEnd(w)
  \/ PayLoans(w) \/ PayCommit(w)
  \/ EditSave(w) \/ LoanSave(w)
  \/ Abort(w)

Request(w) ==
  \/ GenerateStart(w) \/ PayLock(w) \/ EditLoad(w) \/ LoanLoad(w)
  \/ DestroyEntry(w) \/ DeleteRun(w)

Next == \E w \in Workers : WorkerStep(w) \/ Request(w)

Spec == Init /\ [][Next]_vars

----------------------------------------------------------------------------
(* Properties. *)

Steps == {"idle", "check", "insert", "settle", "loans",
          "commit", "edit", "loan"}

JobTypes(j) ==
  /\ j.step \in Steps /\ j.op \in OperationKinds \union {"none"}
  /\ j.todo \in SUBSET Employees /\ j.period \in Periods \union {0}
  /\ j.run \in 0..MaxRuns /\ j.loan \in 0..NumLoans
  /\ j.status \in EntryStatuses \union {"ABSENT"}
  /\ DOMAIN j.rows \subseteq Keys /\ j.rows \in [DOMAIN j.rows -> Entries]
  /\ DOMAIN j.loans \subseteq Loans /\ j.loans \in [DOMAIN j.loans -> Nat]
  /\ j.shares \in [Loans -> Nat]
  /\ j.result \in RunStatuses \union {"ABSENT"}
  /\ j.seen \in Entries
  /\ j.seenLoan \in [balance : Nat, status : LoanStatuses \union {"ABSENT"}, terms : Terms]

\* No loan balance, advance or deduction ever becomes negative, in the tables
\* or in an open transaction.
TypeOK ==
  /\ entries \in [Keys -> Entries]
  /\ runs \in [Runs -> RunStatuses \union {"ABSENT", "DELETED"}]
  /\ terms \in [Loans -> Terms]
  /\ balance \in [Loans -> Nat]
  /\ loanStatus \in [Loans -> LoanStatuses]
  /\ repaid \in [Loans -> [Periods -> Nat]]
  /\ left \in [Keys -> Nat]
  /\ DOMAIN job = Workers /\ \A w \in Workers : JobTypes(job[w])

Repaid(l) == SumFunctionOnSet(repaid[l], Periods)

RepaidBy(k) == Sum([l \in Loans |-> IF LoanOf[l] = k[1] THEN repaid[l][k[2]] ELSE 0])

\* A loan adds up: what remains and what payroll entries have repaid is its
\* amount, whoever settles, cancels and retries at the same time
\* (_settle_employee_loans and its copy in generate).
LoanAdds == \A l \in Loans : terms[l].amount = balance[l] + Repaid(l)

\* What a paid salary was reduced by for loans is what the loans received: the
\* deduction planned when the payroll was generated is never paid out stale.
PaidSettled ==
  \A k \in Keys : entries[k].status = "PAID" => entries[k].loan = RepaidBy(k)

\* What has been recovered of the salary advances is what the entry of that
\* employee and period deducts, so an advance is never deducted twice nor
\* forgotten, even when payroll is generated twice or deleted.
AdvancesTaken ==
  \A k \in Keys : AdvanceAmount[k] - left[k] = entries[k].adv

\* What employees owe is settled once: the repayments add up to the loans, and deductions
\* match what loans and advances received, whoever pays, generates, deletes or reverses.
SettlementsAdd == LoanAdds /\ PaidSettled /\ AdvancesTaken

\* A run that says COMPLETED has no salary left to pay, although its entries
\* are counted without locking them.
RunCompleteSound ==
  \A k \in Keys : (Present(k) /\ runs[entries[k].run] = "COMPLETED")
                    => entries[k].status = "PAID"

\* PAID is final (the empty transition set of update_status, the refusal of
\* destroy): no later request takes a paid salary back.
PaidFinal ==
  [][\A k \in Keys : entries[k].status = "PAID" => entries'[k].status = "PAID"]_vars

\* Under stale edits and deletions, no loan loses more of what was lent than the
\* repayments on record account for.  A PATCH may rewrite the amount, the start
\* and the installments of a loan, which leaves its balance alone: what counts
\* is the amount with which the loan was granted.
LoanLossBacked == \A l \in Loans : LoanAmount[l] - balance[l] <= Repaid(l)

\* An entry that has repaid a loan is never deleted, whichever request deletes
\* entries or runs: the repayment would stand for no salary.
RepaymentsKept ==
  \A l \in Loans, p \in Periods : repaid[l][p] > 0 => Present(<<LoanOf[l], p>>)

\* Settling is idempotent: once an entry has repaid a loan, paying that entry
\* again, even after an edit has reopened it, repays nothing more on that loan.
RepaidOnce ==
  [][\A l \in Loans, p \in Periods :
       repaid[l][p] > 0 => repaid'[l][p] = repaid[l][p]]_vars

\* The locks that worker w waits for are held by v.
WaitsFor(w, v) ==
  \/ /\ job[w].step \in {"insert", "edit"}
     /\ Current(w) \in DOMAIN job[v].rows
  \/ /\ job[w].step = "settle"
     /\ LoansToLock(Current(w), job[w].rows[Current(w)].loan)
          \intersect DOMAIN job[v].loans # {}
  \/ /\ job[w].step = "loans"
     /\ LoansToLock(Current(w), AfterAdvance(job[w].rows[Current(w)]))
          \intersect DOMAIN job[v].loans # {}
  \/ job[w].step = "loan" /\ job[w].loan \in DOMAIN job[v].loans

\* Requests never wait for each other in a circle: generate takes entries and
\* loans employee by employee, a payment takes its entry and then the loans of
\* its employee.
NoCircularWait ==
  \A ws \in (SUBSET Workers) \ {{}} :
    \E w \in ws : \A v \in ws \ {w} : ~WaitsFor(w, v)
=============================================================================
