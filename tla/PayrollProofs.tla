--------------------------- MODULE PayrollProofs ---------------------------
(***************************************************************************)
(* Payroll for every value of its constants: RepaymentsKept, PaidFinal for *)
(* clients that neither edit entries nor delete runs, and then the amounts:*)
(* types, the loans and advances that salaries recover, the status of runs *)
(* and the order in which requests wait for one another.                   *)
(***************************************************************************)
EXTENDS Payroll, Sums

\* A payroll entry, and what a worker keeps, have their fields, whatever the
\* amounts in them.
RowShape(r) == DOMAIN r = {"status", "gross", "adv", "loan", "run", "paid"}

JobShape(j) ==
  DOMAIN j = {"step", "op", "todo", "period", "run", "status", "rows", "shares",
              "loans", "result", "seen", "loan", "seenLoan"}

Tables ==
  /\ entries = [k \in Keys |-> entries[k]]
  /\ \A k \in Keys : /\ RowShape(entries[k])
                     /\ entries[k].status \in EntryStatuses \union {"ABSENT"}
  /\ repaid = [l \in Loans |-> [p \in Periods |-> repaid[l][p]]]
  /\ job = [w \in Workers |-> job[w]]

\* The rows that a transaction has locked or inserted are entries, it settles
\* only deductions of those, and a request that will write a row knows a real
\* status for it.
JobOK(j) ==
  /\ JobShape(j)
  /\ j.step \in {"check", "insert", "settle"} => j.status \in EntryStatuses
  /\ j.step \in {"settle", "loans"} => <<Min(j.todo), j.period>> \in DOMAIN j.rows
  /\ j.step = "edit" => RowShape(j.seen) /\ j.seen.status \in EntryStatuses
  /\ \A k \in DOMAIN j.rows : RowShape(j.rows[k]) /\ j.rows[k].status \in EntryStatuses
  /\ \A l \in Loans : j.shares[l] > 0 => <<LoanOf[l], j.period>> \in DOMAIN j.rows

Kept == Tables /\ (\A w \in Workers : JobOK(job[w])) /\ RepaymentsKept

----
(* Operators. *)

\* Only the loans named receive a share.
LEMMA SpreadNamed ==
  ASSUME NEW loans, NEW cap, NEW amount, NEW l \in Loans, l \notin loans
  PROVE  Spread(loans, cap, amount)[l] = 0
BY DEF Spread

\* A settlement touches the loans of its employee alone.
LEMMA SettlementOwn ==
  ASSUME NEW e, NEW p, NEW deduction, NEW l \in Loans, LoanOf[l] # e
  PROVE  Settlement(e, p, deduction)[l] = 0
<1>1. l \notin {x \in Eligible(e, p) : repaid[x][p] = 0}
  BY DEF Eligible
<1> QED BY <1>1, SpreadNamed DEF Settlement

LEMMA MinSingleton ==
  ASSUME NEW e \in Nat
  PROVE  Min({e}) = e
BY DEF Min

LEMMA IdleOK == JobOK(Idle)
<1>1. JobShape(Idle) /\ Idle.step = "idle"
  BY DEF Idle, JobShape
<1>2. DOMAIN Idle.rows = {}
  BY DEF Idle
<1>3. \A l \in Loans : ~(Idle.shares[l] > 0)
  BY DEF Idle
<1> QED BY <1>1, <1>2, <1>3 DEF JobOK

LEMMA InitKept == Init => Kept
<1> SUFFICES ASSUME Init PROVE Kept
  OBVIOUS
<1>1. Tables
  BY ShapeAssumption DEF Init, Tables, RowShape, Absent
<1>2. \A w \in Workers : JobOK(job[w])
  BY IdleOK DEF Init
<1>3. RepaymentsKept
  BY DEF Init, RepaymentsKept
<1> QED BY <1>1, <1>2, <1>3 DEF Kept

----
(* Steps. *)

\* What is left to show of a step that writes no table: the job it leaves.
LEMMA QuietStep ==
  ASSUME Kept, UNCHANGED dbVars, NEW w \in Workers,
         NEW j, JobOK(j), job' = [job EXCEPT ![w] = j]
  PROVE  Kept'
<1>0. UNCHANGED <<entries, repaid>>
  BY DEF dbVars, loanVars
<1>1. Tables'
  <2>1. job' = [v \in Workers |-> job'[v]]
    BY DEF Kept, Tables
  <2> QED BY <1>0, <2>1 DEF Kept, Tables, RowShape
<1>2. \A v \in Workers : JobOK(job'[v])
  BY DEF Kept, Tables
<1>3. RepaymentsKept'
  BY <1>0 DEF Kept, RepaymentsKept, Present
<1> QED BY <1>1, <1>2, <1>3 DEF Kept, JobOK, JobShape

\* A commit: what it writes over was locked, and it is present.
LEMMA PublishStep ==
  ASSUME Kept, NEW w \in Workers, Publish(w), Respond(w)
  PROVE  Kept'
<1> DEFINE j == job[w]
<1>1. JobOK(j)
  BY DEF Kept
<1>2. /\ entries' = [k \in Keys |-> IF k \in DOMAIN j.rows THEN j.rows[k] ELSE entries[k]]
      /\ repaid' = [l \in Loans |->
           IF j.shares[l] > 0 THEN [repaid[l] EXCEPT ![j.period] = @ + j.shares[l]]
           ELSE repaid[l]]
  BY DEF Publish, Sees
<1>3. job' = [v \in Workers |-> job'[v]] /\ \A v \in Workers : JobOK(job'[v])
  BY IdleOK DEF Kept, Tables, Respond
<1>4. \A k \in Keys : /\ RowShape(entries'[k])
                      /\ entries'[k].status \in EntryStatuses \union {"ABSENT"}
                      /\ k \in DOMAIN j.rows => entries'[k].status \in EntryStatuses
                      /\ k \notin DOMAIN j.rows => entries'[k] = entries[k]
  BY <1>1, <1>2 DEF Kept, Tables, JobOK
<1>5. \A l \in Loans : repaid'[l] = [p \in Periods |-> repaid'[l][p]]
  <2> TAKE l \in Loans
  <2>1. repaid[l] = [p \in Periods |-> repaid[l][p]]
    BY DEF Kept, Tables
  <2> QED BY <1>2, <2>1
<1>6. Tables'
  BY <1>2, <1>3, <1>4, <1>5 DEF Tables, RowShape
<1>7. RepaymentsKept'
  <2> SUFFICES ASSUME NEW l \in Loans, NEW p \in Periods, repaid'[l][p] > 0
               PROVE  entries'[<<LoanOf[l], p>>].status # "ABSENT"
    BY DEF RepaymentsKept, Present
  <2>0. <<LoanOf[l], p>> \in Keys /\ "ABSENT" \notin EntryStatuses
    BY ShapeAssumption DEF Keys, EntryStatuses
  <2>1. CASE <<LoanOf[l], p>> \in DOMAIN j.rows
    BY <1>4, <2>0, <2>1
  <2>2. CASE <<LoanOf[l], p>> \notin DOMAIN j.rows
    <3>1. ~(j.shares[l] > 0) \/ p # j.period
      BY <1>1, <2>2 DEF JobOK
    <3>2. repaid'[l][p] = repaid[l][p]
      <4>1. repaid[l] = [q \in Periods |-> repaid[l][q]]
        BY DEF Kept, Tables
      <4> QED BY <1>2, <3>1, <4>1
    <3> QED BY <1>4, <2>0, <2>2, <3>2 DEF Kept, RepaymentsKept, Present
  <2> QED BY <2>1, <2>2
<1> QED BY <1>3, <1>6, <1>7 DEF Kept, JobOK, JobShape

----
(* The actions of generate. *)

LEMMA GenerateStartKept == ASSUME Kept, NEW w \in Workers, GenerateStart(w) PROVE Kept'
<1>1. PICK todo \in SUBSET Employees, p \in Periods, s \in GenerateStatuses :
        job' = [job EXCEPT ![w] =
                  [Idle EXCEPT !.step = "check", !.op = "generate", !.todo = todo,
                               !.period = p, !.status = s, !.run = Min(FreshRuns)]]
  BY DEF GenerateStart
<1> DEFINE r == Min(FreshRuns)
           j == [Idle EXCEPT !.step = "check", !.op = "generate", !.todo = todo,
                             !.period = p, !.status = s, !.run = r]
<1> HIDE DEF r
<1>2. /\ JobShape(j) /\ j.step = "check" /\ j.status = s /\ j.rows = Idle.rows
      /\ j.shares = Idle.shares
  BY IdleOK DEF JobOK, JobShape
<1>3. s \in EntryStatuses
  BY ShapeAssumption
<1>4. JobOK(j)
  <2>1. DOMAIN j.rows = {} /\ \A l \in Loans : ~(j.shares[l] > 0)
    BY <1>2 DEF Idle
  <2> HIDE DEF j
  <2> QED BY <1>2, <1>3, <2>1 DEF JobOK
<1> USE DEF r
<1> QED BY <1>1, <1>4, QuietStep DEF GenerateStart

LEMMA GenerateSkipKept == ASSUME Kept, NEW w \in Workers, GenerateSkip(w) PROVE Kept'
<1> DEFINE rest == job[w].todo \ {Current(w)[1]}
           j == [job[w] EXCEPT !.todo = rest]
<1>1. JobOK(job[w]) /\ job[w].step = "check"
  BY DEF Kept, GenerateSkip, Checking
<1>2. job' = [job EXCEPT ![w] = j]
  BY DEF Kept, Tables, GenerateSkip
<1> HIDE DEF rest
<1>3. /\ JobShape(j) /\ j.step = "check" /\ j.status = job[w].status
      /\ j.rows = job[w].rows /\ j.shares = job[w].shares /\ j.period = job[w].period
  BY <1>1 DEF JobOK, JobShape
<1>4. JobOK(j)
  BY <1>1, <1>3 DEF JobOK
<1> HIDE DEF j
<1> QED BY <1>2, <1>4, QuietStep DEF GenerateSkip

LEMMA GenerateCheckKept == ASSUME Kept, NEW w \in Workers, GenerateCheck(w) PROVE Kept'
<1> DEFINE j == [job[w] EXCEPT !.step = "insert"]
<1>1. JobOK(job[w]) /\ job[w].step = "check"
  BY DEF Kept, GenerateCheck, Checking
<1>2. /\ JobShape(j) /\ j.step = "insert" /\ j.status = job[w].status
      /\ j.rows = job[w].rows /\ j.shares = job[w].shares /\ j.period = job[w].period
  BY <1>1 DEF JobOK, JobShape
<1>3. JobOK(j)
  BY <1>1, <1>2 DEF JobOK
<1>4. job' = [job EXCEPT ![w] = j]
  BY DEF Kept, Tables, GenerateCheck
<1> QED BY <1>3, <1>4, QuietStep DEF GenerateCheck

LEMMA GenerateInsertKept == ASSUME Kept, NEW w \in Workers, GenerateInsert(w) PROVE Kept'
<1> DEFINE k == Current(w)
           adv == Min({left[k], GrossSalary[k[1]]})
           row == [status |-> job[w].status, gross |-> GrossSalary[k[1]], adv |-> adv,
                   loan |-> Planned(k[1], k[2], GrossSalary[k[1]] - adv),
                   run |-> job[w].run, paid |-> job[w].status = "PAID"]
           rows == With(job[w].rows, k, row)
           next == IF row.paid THEN "settle" ELSE "check"
           todo == IF row.paid THEN job[w].todo ELSE job[w].todo \ {k[1]}
           j == [job[w] EXCEPT !.rows = rows, !.step = next, !.todo = todo]
<1>0. job' = [job EXCEPT ![w] = j]
  BY DEF Kept, Tables, GenerateInsert
<1>1. JobOK(job[w]) /\ job[w].step = "insert"
  BY DEF Kept, GenerateInsert
<1>2. RowShape(row) /\ row.status \in EntryStatuses
  BY <1>1 DEF JobOK, RowShape
<1>3. /\ k = <<Min(job[w].todo), job[w].period>>
      /\ next \in {"settle", "check"} /\ (next = "settle" => todo = job[w].todo)
  BY DEF Current
<1>4. /\ k \in DOMAIN rows /\ DOMAIN job[w].rows \subseteq DOMAIN rows
      /\ \A x \in DOMAIN rows : RowShape(rows[x]) /\ rows[x].status \in EntryStatuses
  <2> HIDE DEF row, k
  <2>1. /\ DOMAIN rows = DOMAIN job[w].rows \union {k} /\ rows[k] = row
        /\ \A x \in DOMAIN job[w].rows : x # k => rows[x] = job[w].rows[x]
    BY DEF With
  <2> HIDE DEF rows
  <2> QED BY <1>1, <1>2, <2>1 DEF JobOK
<1> HIDE DEF row, k, rows, next, todo
<1>5. /\ JobShape(j) /\ j.status = job[w].status /\ j.shares = job[w].shares
      /\ j.period = job[w].period /\ j.rows = rows /\ j.step = next /\ j.todo = todo
  BY <1>1 DEF JobOK, JobShape
<1> HIDE DEF j
<1>6. JobOK(j)
  BY <1>1, <1>3, <1>4, <1>5 DEF JobOK
<1> QED BY <1>0, <1>6, QuietStep DEF GenerateInsert

LEMMA GenerateSettleKept == ASSUME Kept, NEW w \in Workers, GenerateSettle(w) PROVE Kept'
<1> DEFINE k == Current(w)
           loans == LoansToLock(k, job[w].rows[k].loan)
           own == Settlement(k[1], k[2], job[w].rows[k].loan)
           shares == [l \in Loans |-> IF LoanOf[l] = k[1] THEN own[l] ELSE job[w].shares[l]]
           locked == WithLocked(job[w].loans, loans)
           todo == job[w].todo \ {k[1]}
           j == [job[w] EXCEPT !.loans = locked, !.shares = shares,
                               !.step = "check", !.todo = todo]
<1>1. JobOK(job[w]) /\ job[w].step = "settle"
  BY DEF Kept, GenerateSettle
<1>2. k = <<Min(job[w].todo), job[w].period>> /\ k \in DOMAIN job[w].rows
  BY <1>1 DEF Current, JobOK
<1>3. job' = [job EXCEPT ![w] = j]
  BY DEF Kept, Tables, GenerateSettle
<1>4. \A l \in Loans : shares[l] > 0 => <<LoanOf[l], job[w].period>> \in DOMAIN job[w].rows
  <2> HIDE DEF k, own
  <2> QED BY <1>1, <1>2 DEF JobOK
<1> HIDE DEF k, loans, own, shares, locked, todo
<1>5. /\ JobShape(j) /\ j.step = "check" /\ j.status = job[w].status
      /\ j.rows = job[w].rows /\ j.shares = shares /\ j.period = job[w].period
  BY <1>1 DEF JobOK, JobShape
<1>6. JobOK(j)
  BY <1>1, <1>4, <1>5 DEF JobOK
<1> HIDE DEF j
<1> QED BY <1>3, <1>6, QuietStep DEF GenerateSettle

----
(* The other actions. *)

LEMMA PayLockKept == ASSUME Kept, NEW w \in Workers, PayLock(w) PROVE Kept'
<1>1. PICK op \in {"mark_paid", "update_status"} \intersect Operations,
           k \in Keys, s \in Targets :
        LET row == IF s = "PAID" THEN entries[k]
                   ELSE [entries[k] EXCEPT !.status = s, !.paid = FALSE]
        IN /\ Present(k)
           /\ job' = [job EXCEPT ![w] =
                [Idle EXCEPT !.op = op, !.todo = {k[1]}, !.period = k[2],
                  !.run = row.run, !.rows = With(@, k, row),
                  !.step = IF s = "PAID" THEN "loans" ELSE "commit",
                  !.result = IF s = "PAID" THEN "ABSENT"
                             ELSE Decided(op, row.run, With(entries, k, row))]]
  BY DEF PayLock
<1> DEFINE row == IF s = "PAID" THEN entries[k]
                  ELSE [entries[k] EXCEPT !.status = s, !.paid = FALSE]
           rows == With(Idle.rows, k, row)
           result == IF s = "PAID" THEN "ABSENT"
                     ELSE Decided(op, row.run, With(entries, k, row))
           next == IF s = "PAID" THEN "loans" ELSE "commit"
           run == row.run
           todo == {k[1]}
           j == [Idle EXCEPT !.op = op, !.todo = todo, !.period = k[2], !.run = run,
                             !.rows = rows, !.step = next, !.result = result]
<1>2. job' = [job EXCEPT ![w] = j]
  BY <1>1
<1>3. RowShape(row) /\ row.status \in EntryStatuses
  BY <1>1, ShapeAssumption DEF Kept, Tables, RowShape, Present
<1>4. DOMAIN rows = {k} /\ rows[k] = row
  <2> HIDE DEF row
  <2>1. DOMAIN Idle.rows = {}
    BY DEF Idle
  <2> QED BY <2>1 DEF With
<1>5. <<Min(todo), k[2]>> = k
  <2>1. k[1] \in Nat /\ k = <<k[1], k[2]>>
    <3>1. PICK e \in Employees, p \in Periods : k = <<e, p>>
      BY DEF Keys
    <3> QED BY <3>1, ShapeAssumption
  <2>2. Min({k[1]}) = k[1]
    BY <2>1, MinSingleton
  <2> QED BY <2>1, <2>2
<1>6. next \in {"loans", "commit"}
  OBVIOUS
<1> HIDE DEF row, rows, result, next, run, todo
<1>7. /\ JobShape(j) /\ j.step = next /\ j.rows = rows /\ j.todo = todo
      /\ j.period = k[2] /\ j.shares = Idle.shares
  BY IdleOK DEF JobOK, JobShape
<1>8. \A l \in Loans : ~(j.shares[l] > 0)
  BY <1>7 DEF Idle
<1> HIDE DEF j
<1>9. JobOK(j)
  BY <1>3, <1>4, <1>5, <1>6, <1>7, <1>8 DEF JobOK
<1> QED BY <1>2, <1>9, QuietStep DEF PayLock

LEMMA PayLoansKept == ASSUME Kept, NEW w \in Workers, PayLoans(w) PROVE Kept'
<1> DEFINE k == Current(w)
           row == job[w].rows[k]
           paidRow == [row EXCEPT !.status = "PAID", !.paid = TRUE,
                                  !.loan = Deduction(k, row)]
           rows == With(job[w].rows, k, paidRow)
           loans == WithLocked(job[w].loans, LoansToLock(k, AfterAdvance(row)))
           shares == Settlement(k[1], k[2], paidRow.loan)
           result == Decided(job[w].op, row.run, With(entries, k, paidRow))
           j == [job[w] EXCEPT !.rows = rows, !.loans = loans, !.shares = shares,
                               !.result = result, !.step = "commit"]
<1>1. JobOK(job[w]) /\ job[w].step = "loans"
  BY DEF Kept, PayLoans
<1>2. k = <<Min(job[w].todo), job[w].period>> /\ k \in DOMAIN job[w].rows
  BY <1>1 DEF Current, JobOK
<1>3. job' = [job EXCEPT ![w] = j]
  BY DEF PayLoans
<1>4. RowShape(paidRow) /\ paidRow.status \in EntryStatuses
  <2> HIDE DEF k
  <2> QED BY <1>1, <1>2 DEF JobOK, RowShape, EntryStatuses
<1>5. /\ DOMAIN rows = DOMAIN job[w].rows /\ rows[k] = paidRow
      /\ \A x \in DOMAIN job[w].rows : x # k => rows[x] = job[w].rows[x]
  <2> HIDE DEF k, paidRow
  <2> QED BY <1>2 DEF With
<1>6. \A l \in Loans : shares[l] > 0 => <<LoanOf[l], job[w].period>> \in DOMAIN job[w].rows
  <2> SUFFICES ASSUME NEW l \in Loans, shares[l] > 0, LoanOf[l] # k[1] PROVE FALSE
    BY <1>2
  <2> HIDE DEF paidRow, k
  <2> QED BY SettlementOwn
<1> HIDE DEF k, row, paidRow, rows, loans, shares, result
<1>7. /\ JobShape(j) /\ j.step = "commit" /\ j.rows = rows /\ j.shares = shares
      /\ j.period = job[w].period
  BY <1>1 DEF JobOK, JobShape
<1> HIDE DEF j
<1>8. JobOK(j)
  BY <1>1, <1>2, <1>4, <1>5, <1>6, <1>7 DEF JobOK
<1> QED BY <1>3, <1>8, QuietStep DEF PayLoans

LEMMA EditLoadKept == ASSUME Kept, NEW w \in Workers, EditLoad(w) PROVE Kept'
<1>1. PICK k \in Keys, g \in EditGross, s \in EntryStatuses \union {"ABSENT"} :
        /\ Present(k)
        /\ s \in EditStatuses \union {entries[k].status}
        /\ job' = [job EXCEPT ![w] =
             [Idle EXCEPT !.step = "edit", !.op = "edit_entry", !.todo = {k[1]},
                !.period = k[2],
                !.seen = [entries[k] EXCEPT !.gross = g, !.status = s]]]
  <2>1. PICK k \in Keys, g \in EditGross :
          /\ Present(k)
          /\ \E s \in EditStatuses \union {entries[k].status} :
               job' = [job EXCEPT ![w] =
                 [Idle EXCEPT !.step = "edit", !.op = "edit_entry", !.todo = {k[1]},
                    !.period = k[2],
                    !.seen = [entries[k] EXCEPT !.gross = g, !.status = s]]]
    BY DEF EditLoad
  <2>2. EditStatuses \union {entries[k].status} \subseteq EntryStatuses \union {"ABSENT"}
    BY ShapeAssumption DEF Kept, Tables
  <2> QED BY <2>1, <2>2
<1> DEFINE row == [entries[k] EXCEPT !.gross = g, !.status = s]
           todo == {k[1]}
           j == [Idle EXCEPT !.step = "edit", !.op = "edit_entry", !.todo = todo,
                             !.period = k[2], !.seen = row]
<1>2. RowShape(row) /\ row.status \in EntryStatuses
  BY <1>1, ShapeAssumption DEF Kept, Tables, RowShape, Present
<1>3. job' = [job EXCEPT ![w] = j]
  BY <1>1
<1> HIDE DEF row, todo
<1>4. /\ JobShape(j) /\ j.step = "edit" /\ j.rows = Idle.rows /\ j.seen = row
      /\ j.shares = Idle.shares
  BY IdleOK DEF JobOK, JobShape
<1>5. DOMAIN j.rows = {} /\ \A l \in Loans : ~(j.shares[l] > 0)
  BY <1>4 DEF Idle
<1> HIDE DEF j
<1>6. JobOK(j)
  BY <1>2, <1>4, <1>5 DEF JobOK
<1> QED BY <1>3, <1>6, QuietStep DEF EditLoad

LEMMA LoanLoadKept == ASSUME Kept, NEW w \in Workers, LoanLoad(w) PROVE Kept'
<1>0. PICK op \in {"cancel_loan", "edit_loan"} \intersect Operations, l \in Loans :
        \E t \in {terms[l]} \union EditTerms :
          job' = [job EXCEPT ![w] =
            [Idle EXCEPT !.step = "loan", !.op = op, !.loan = l,
               !.seenLoan = [balance |-> balance[l], status |-> loanStatus[l], terms |-> t]]]
  BY DEF LoanLoad
<1>1. PICK t \in {terms[l]} \union EditTerms :
        job' = [job EXCEPT ![w] =
          [Idle EXCEPT !.step = "loan", !.op = op, !.loan = l,
             !.seenLoan = [balance |-> balance[l], status |-> loanStatus[l], terms |-> t]]]
  BY <1>0
<1> DEFINE seen == [balance |-> balance[l], status |-> loanStatus[l], terms |-> t]
           j == [Idle EXCEPT !.step = "loan", !.op = op, !.loan = l, !.seenLoan = seen]
<1>2. job' = [job EXCEPT ![w] = j]
  BY <1>1
<1> HIDE DEF seen
<1>3. /\ JobShape(j) /\ j.step = "loan" /\ j.rows = Idle.rows
      /\ j.shares = Idle.shares
  BY IdleOK DEF JobOK, JobShape
<1>4. DOMAIN j.rows = {} /\ \A x \in Loans : ~(j.shares[x] > 0)
  BY <1>3 DEF Idle
<1> HIDE DEF j
<1>5. JobOK(j)
  BY <1>3, <1>4 DEF JobOK
<1> QED BY <1>2, <1>5, QuietStep DEF LoanLoad

\* A step that writes entries alone: rows stay whole and repayments keep theirs.
LEMMA EntryStep ==
  ASSUME Kept, UNCHANGED repaid,
         job' = [w \in Workers |-> job'[w]], \A w \in Workers : JobOK(job'[w]),
         entries' = [k \in Keys |-> entries'[k]],
         \A k \in Keys : \/ entries'[k] = entries[k]
                         \/ /\ RowShape(entries'[k])
                            /\ \/ entries'[k].status \in EntryStatuses
                               \/ entries'[k].status = "ABSENT" /\ Repayments(k) = {}
  PROVE  Kept'
<1>1. Tables'
  BY DEF Kept, Tables, RowShape
<1>2. RepaymentsKept'
  <2> SUFFICES ASSUME NEW l \in Loans, NEW p \in Periods, repaid[l][p] > 0
               PROVE  entries'[<<LoanOf[l], p>>].status # "ABSENT"
    BY DEF RepaymentsKept, Present
  <2>1. <<LoanOf[l], p>> \in Keys /\ "ABSENT" \notin EntryStatuses
    BY ShapeAssumption DEF Keys, EntryStatuses
  <2>2. l \in Repayments(<<LoanOf[l], p>>)
    BY DEF Repayments
  <2> QED BY <2>1, <2>2 DEF Kept, RepaymentsKept, Present
<1> QED BY <1>1, <1>2 DEF Kept, JobOK, JobShape

LEMMA DestroyEntryKept == ASSUME Kept, NEW w \in Workers, DestroyEntry(w) PROVE Kept'
<1>1. PICK k \in Keys : Deletable(k) /\ entries' = [entries EXCEPT ![k] = Absent]
  BY DEF DestroyEntry
<1>2. RowShape(Absent) /\ Absent.status = "ABSENT" /\ Repayments(k) = {}
  BY <1>1 DEF Absent, RowShape, Deletable
<1>3. /\ entries' = [x \in Keys |-> entries'[x]]
      /\ \A x \in Keys : entries'[x] = IF x = k THEN Absent ELSE entries[x]
  BY <1>1 DEF Kept, Tables
<1> QED BY <1>2, <1>3, EntryStep DEF DestroyEntry, loanVars, Kept, Tables

LEMMA DeleteRunKept == ASSUME Kept, NEW w \in Workers, DeleteRun(w) PROVE Kept'
<1>1. PICK r \in Runs :
        LET own == {k \in Keys : Present(k) /\ entries[k].run = r}
        IN /\ \A k \in own : Repayments(k) = {}
           /\ entries' = [k \in Keys |-> IF k \in own THEN Absent ELSE entries[k]]
  BY DEF DeleteRun
<1>2. RowShape(Absent) /\ Absent.status = "ABSENT"
  BY DEF Absent, RowShape
<1> QED BY <1>1, <1>2, EntryStep DEF DeleteRun, loanVars, Kept, Tables

LEMMA EditSaveKept == ASSUME Kept, NEW w \in Workers, EditSave(w) PROVE Kept'
<1>1. RowShape(job[w].seen) /\ job[w].seen.status \in EntryStatuses
  BY DEF Kept, JobOK, EditSave
<1>2. /\ entries' = [x \in Keys |-> entries'[x]]
      /\ \A x \in Keys : entries'[x] \in {entries[x], job[w].seen}
  BY DEF EditSave, Kept, Tables
<1>3. /\ job' = [v \in Workers |-> job'[v]]
      /\ \A v \in Workers : JobOK(job'[v])
  BY IdleOK DEF EditSave, Respond, Kept, Tables
<1> QED BY <1>1, <1>2, <1>3, EntryStep DEF EditSave, loanVars

LEMMA LoanSaveKept == ASSUME Kept, NEW w \in Workers, LoanSave(w) PROVE Kept'
<1>1. /\ job' = [v \in Workers |-> job'[v]]
      /\ \A v \in Workers : JobOK(job'[v])
  BY IdleOK DEF LoanSave, Respond, Kept, Tables
<1>2. UNCHANGED <<entries, repaid>>
  BY DEF LoanSave
<1> QED BY <1>1, <1>2, EntryStep DEF Kept, Tables

LEMMA FailKept == ASSUME Kept, NEW w \in Workers, Fail(w) PROVE Kept'
BY IdleOK, QuietStep DEF Fail, Respond

LEMMA StepKept == ASSUME Kept, [Next]_vars PROVE Kept'
<1>1. CASE Next
  <2>1. PICK w \in Workers : WorkerStep(w) \/ Request(w)
    BY <1>1 DEF Next
  <2>2. CASE GenerateReject(w) \/ GenerateEnd(w) \/ PayCommit(w)
    BY <2>2, PublishStep DEF GenerateReject, GenerateEnd, PayCommit
  <2>3. CASE GenerateDuplicate(w) \/ Abort(w)
    BY <2>3, FailKept DEF GenerateDuplicate, Abort
  <2> QED BY <2>1, <2>2, <2>3, GenerateStartKept, GenerateSkipKept, GenerateCheckKept,
       GenerateInsertKept, GenerateSettleKept, PayLockKept, PayLoansKept,
       EditLoadKept, EditSaveKept, LoanLoadKept, LoanSaveKept, DestroyEntryKept,
       DeleteRunKept
       DEF WorkerStep, Request
<1>2. CASE UNCHANGED vars
  <2>1. UNCHANGED <<entries, repaid, job>>
    BY <1>2 DEF vars, dbVars, loanVars
  <2> QED BY <2>1, EntryStep DEF Kept, Tables
<1> QED BY <1>1, <1>2

\* An entry that has repaid a loan is never deleted, whatever clients send
\* (destroy, the cascade of a deleted run, a stale PATCH).
THEOREM RepaymentsStay == Spec => []RepaymentsKept
<1>1. Kept => RepaymentsKept
  BY DEF Kept
<1> QED BY <1>1, InitKept, StepKept, PTL DEF Spec

----
(* PaidFinal for clients that neither edit entries nor delete runs. *)

PayrollOnly == Operations \intersect {"edit_entry", "delete_run"} = {}

\* Nobody saves a row that was read without a lock, no entry is locked twice,
\* and no locked entry is paid in the table.
Locked ==
  /\ \A w \in Workers : job[w].step # "edit"
  /\ \A w \in Workers : \A k \in Keys :
       k \in DOMAIN job[w].rows =>
         /\ entries[k].status # "PAID"
         /\ \A v \in Workers : v # w => k \notin DOMAIN job[v].rows

\* What is left to show of a step that writes no entry: the rows it locks.
LEMMA LockStep ==
  ASSUME Locked, Kept, UNCHANGED entries, NEW w \in Workers, NEW j,
         job' = [job EXCEPT ![w] = j], j.step # "edit",
         \A k \in Keys : k \in DOMAIN j.rows /\ k \notin DOMAIN job[w].rows
                           => EntryFree(w, k) /\ entries[k].status # "PAID"
  PROVE  Locked'
<1>1. \A v \in Workers : job'[v] = IF v = w THEN j ELSE job[v]
  BY DEF Kept, Tables
<1>2. \A k \in Keys : EntryFree(w, k) => \A v \in Workers : v # w => k \notin DOMAIN job[v].rows
  BY DEF EntryFree, Others
<1>3. \A k \in Keys : k \in DOMAIN j.rows =>
        /\ entries[k].status # "PAID"
        /\ \A v \in Workers : v # w => k \notin DOMAIN job[v].rows
  BY <1>2 DEF Locked
<1> HIDE DEF Locked
<1>4. /\ \A v \in Workers : job[v].step # "edit"
      /\ \A v \in Workers : \A k \in Keys : k \in DOMAIN job[v].rows =>
           /\ entries[k].status # "PAID"
           /\ \A x \in Workers : x # v => k \notin DOMAIN job[x].rows
  BY DEF Locked
<1>5. \A v \in Workers : job'[v].step # "edit"
  BY <1>1, <1>4
<1>6. ASSUME NEW v \in Workers, NEW k \in Keys, k \in DOMAIN job'[v].rows
      PROVE  /\ entries'[k].status # "PAID"
             /\ \A x \in Workers : x # v => k \notin DOMAIN job'[x].rows
  <2>1. CASE v = w
    BY <1>1, <1>3, <1>6, <2>1
  <2>2. CASE v # w
    BY <1>1, <1>3, <1>4, <1>6, <2>2
  <2> QED BY <2>1, <2>2
<1> QED BY <1>5, <1>6 DEF Locked

\* A commit writes rows that were not paid and that nobody else has locked.
LEMMA CommitStep ==
  ASSUME Locked, Kept, NEW w \in Workers, Publish(w), Respond(w)
  PROVE  Locked' /\ \A k \in Keys : entries[k].status = "PAID" => entries'[k] = entries[k]
<1>1. \A v \in Workers : job'[v] = IF v = w THEN Idle ELSE job[v]
  BY DEF Respond, Kept, Tables
<1>2. \A k \in Keys : k \notin DOMAIN job[w].rows => entries'[k] = entries[k]
  BY DEF Publish, Sees
<1>3. Idle.step # "edit" /\ DOMAIN Idle.rows = {}
  BY DEF Idle
<1>4. \A v \in Workers : job'[v].step # "edit"
  BY <1>1, <1>3 DEF Locked
<1>5. ASSUME NEW v \in Workers, NEW k \in Keys, k \in DOMAIN job'[v].rows
      PROVE  /\ entries'[k].status # "PAID"
             /\ \A x \in Workers : x # v => k \notin DOMAIN job'[x].rows
  <2>1. v # w /\ k \in DOMAIN job[v].rows
    BY <1>1, <1>3, <1>5
  <2>2. entries'[k] = entries[k]
    BY <1>2, <2>1 DEF Locked
  <2>3. \A x \in Workers : x # v => k \notin DOMAIN job[x].rows
    BY <2>1 DEF Locked
  <2>4. entries[k].status # "PAID"
    BY <2>1 DEF Locked
  <2> QED BY <1>1, <1>3, <2>2, <2>3, <2>4
<1>6. Locked'
  BY <1>4, <1>5 DEF Locked
<1> QED BY <1>2, <1>6 DEF Locked

\* A request that begins without locking an entry, or that goes on without
\* locking another one.
LEMMA BeginStep ==
  ASSUME Locked, Kept, UNCHANGED entries, NEW w \in Workers, NEW j,
         job' = [job EXCEPT ![w] = j], j.step # "edit",
         DOMAIN j.rows \subseteq DOMAIN job[w].rows
  PROVE  Locked'
BY LockStep

LEMMA DbSame == ASSUME UNCHANGED dbVars PROVE UNCHANGED entries
BY DEF dbVars

\* The requests and steps that lock nothing new.
LEMMA QuietLocked ==
  ASSUME Locked, Kept, NEW w \in Workers,
         \/ GenerateStart(w) \/ GenerateSkip(w) \/ GenerateCheck(w)
         \/ GenerateDuplicate(w) \/ GenerateSettle(w) \/ PayLoans(w)
         \/ LoanLoad(w) \/ LoanSave(w) \/ Abort(w)
  PROVE  Locked' /\ UNCHANGED entries
<1>0. UNCHANGED entries
  BY DbSame DEF GenerateStart, GenerateSkip, GenerateCheck, GenerateDuplicate, Fail,
     GenerateSettle, PayLoans, LoanLoad, LoanSave, Abort
<1>1. \A v \in Workers : job[v] = job[v] /\ JobShape(job[v])
  BY DEF Kept, JobOK
<1>2. JobShape(Idle) /\ DOMAIN Idle.rows = {} /\ Idle.step = "idle"
  BY IdleOK DEF JobOK, Idle
<1>3. \E j : /\ job' = [job EXCEPT ![w] = j]
             /\ j.step # "edit"
             /\ DOMAIN j.rows \subseteq DOMAIN job[w].rows
  <2>1. CASE GenerateStart(w)
    <3>1. PICK todo, p, s, r :
            job' = [job EXCEPT ![w] =
                      [Idle EXCEPT !.step = "check", !.op = "generate", !.todo = todo,
                                   !.period = p, !.status = s, !.run = r]]
      BY <2>1 DEF GenerateStart
    <3> DEFINE j == [Idle EXCEPT !.step = "check", !.op = "generate", !.todo = todo,
                                 !.period = p, !.status = s, !.run = r]
    <3>2. j.step = "check" /\ j.rows = Idle.rows
      BY <1>2 DEF JobShape
    <3> HIDE DEF j
    <3>3. j.step # "edit" /\ DOMAIN j.rows \subseteq DOMAIN job[w].rows
      BY <1>2, <3>2
    <3> QED BY <3>1, <3>3 DEF j
  <2>2. CASE GenerateSkip(w)
    <3> DEFINE rest == job[w].todo \ {Current(w)[1]}
               j == [job[w] EXCEPT !.todo = rest]
    <3>1. job' = [job EXCEPT ![w] = j] /\ job[w].step = "check"
      BY <2>2 DEF GenerateSkip, Checking, Kept, Tables
    <3> HIDE DEF rest
    <3>2. j.step = "check" /\ j.rows = job[w].rows
      BY <1>1, <3>1 DEF JobShape
    <3> HIDE DEF j
    <3> QED BY <3>1, <3>2
  <2>3. CASE GenerateCheck(w)
    <3> DEFINE j == [job[w] EXCEPT !.step = "insert"]
    <3>1. job' = [job EXCEPT ![w] = j]
      BY <2>3 DEF GenerateCheck, Kept, Tables
    <3>2. j.step = "insert" /\ j.rows = job[w].rows
      BY <1>1 DEF JobShape
    <3> HIDE DEF j
    <3> QED BY <3>1, <3>2
  <2>4. CASE GenerateDuplicate(w) \/ Abort(w) \/ LoanSave(w)
    BY <1>2, <2>4 DEF GenerateDuplicate, Abort, Fail, LoanSave, Respond
  <2>5. CASE GenerateSettle(w)
    <3>1. PICK locked, shares, todo :
            job' = [job EXCEPT ![w] =
                      [job[w] EXCEPT !.loans = locked, !.shares = shares,
                                     !.step = "check", !.todo = todo]]
      <4> DEFINE k == Current(w)
                 own == Settlement(k[1], k[2], job[w].rows[k].loan)
                 shares == [l \in Loans |-> IF LoanOf[l] = k[1] THEN own[l]
                                            ELSE job[w].shares[l]]
                 locked == WithLocked(job[w].loans,
                                      LoansToLock(k, job[w].rows[k].loan))
                 todo == job[w].todo \ {k[1]}
      <4>1. job' = [job EXCEPT ![w] =
                      [job[w] EXCEPT !.loans = locked, !.shares = shares,
                                     !.step = "check", !.todo = todo]]
        BY <2>5 DEF GenerateSettle, Kept, Tables
      <4> QED BY ZenonT(60), <4>1
    <3> DEFINE j == [job[w] EXCEPT !.loans = locked, !.shares = shares,
                                   !.step = "check", !.todo = todo]
    <3>2. j.step = "check" /\ j.rows = job[w].rows
      BY <1>1 DEF JobShape
    <3>3. job' = [job EXCEPT ![w] = j]
      BY <3>1
    <3> HIDE DEF j
    <3> QED BY <3>2, <3>3
  <2>6. CASE PayLoans(w)
    <3> DEFINE k == Current(w)
               row == job[w].rows[k]
               paidRow == [row EXCEPT !.status = "PAID", !.paid = TRUE,
                                      !.loan = Deduction(k, row)]
               rows == With(job[w].rows, k, paidRow)
               loans == WithLocked(job[w].loans, LoansToLock(k, AfterAdvance(row)))
               shares == Settlement(k[1], k[2], paidRow.loan)
               result == Decided(job[w].op, row.run, With(entries, k, paidRow))
               j == [job[w] EXCEPT !.rows = rows, !.loans = loans, !.shares = shares,
                                   !.result = result, !.step = "commit"]
    <3>1. job' = [job EXCEPT ![w] = j]
      BY <2>6 DEF PayLoans
    <3>2. k \in DOMAIN job[w].rows
      BY <2>6 DEF Kept, JobOK, PayLoans, Current
    <3>3. DOMAIN rows = DOMAIN job[w].rows
      <4> HIDE DEF k, paidRow
      <4> QED BY <3>2 DEF With
    <3> HIDE DEF rows, loans, shares, result
    <3>4. j.step = "commit" /\ j.rows = rows
      BY <1>1 DEF JobShape
    <3> HIDE DEF j
    <3> QED BY <3>1, <3>3, <3>4
  <2>7. CASE LoanLoad(w)
    <3>0. PICK op \in {"cancel_loan", "edit_loan"} \intersect Operations, l \in Loans :
            \E t \in {terms[l]} \union EditTerms :
              job' = [job EXCEPT ![w] =
                [Idle EXCEPT !.step = "loan", !.op = op, !.loan = l,
                   !.seenLoan = [balance |-> balance[l], status |-> loanStatus[l], terms |-> t]]]
      BY <2>7 DEF LoanLoad
    <3>1. PICK t \in {terms[l]} \union EditTerms :
            job' = [job EXCEPT ![w] =
              [Idle EXCEPT !.step = "loan", !.op = op, !.loan = l,
                 !.seenLoan = [balance |-> balance[l], status |-> loanStatus[l], terms |-> t]]]
      BY <3>0
    <3> DEFINE seen == [balance |-> balance[l], status |-> loanStatus[l], terms |-> t]
               j == [Idle EXCEPT !.step = "loan", !.op = op, !.loan = l,
                                 !.seenLoan = seen]
    <3>3. job' = [job EXCEPT ![w] = j]
      BY <3>1
    <3> HIDE DEF seen
    <3>2. j.step = "loan" /\ j.rows = Idle.rows
      BY <1>2 DEF JobShape
    <3> HIDE DEF j
    <3> QED BY <1>2, <3>2, <3>3
  <2> QED BY <2>1, <2>2, <2>3, <2>4, <2>5, <2>6, <2>7
<1> QED BY <1>0, <1>3, BeginStep

\* The requests and steps that lock an entry, and the deletion of one.
LEMMA GenerateInsertLocked ==
  ASSUME Locked, Kept, NEW w \in Workers, GenerateInsert(w)
  PROVE  Locked' /\ UNCHANGED entries
<1> DEFINE k == Current(w)
           adv == Min({left[k], GrossSalary[k[1]]})
           row == [status |-> job[w].status, gross |-> GrossSalary[k[1]], adv |-> adv,
                   loan |-> Planned(k[1], k[2], GrossSalary[k[1]] - adv),
                   run |-> job[w].run, paid |-> job[w].status = "PAID"]
           rows == With(job[w].rows, k, row)
           next == IF row.paid THEN "settle" ELSE "check"
           todo == IF row.paid THEN job[w].todo ELSE job[w].todo \ {k[1]}
           j == [job[w] EXCEPT !.rows = rows, !.step = next, !.todo = todo]
<1>1. job' = [job EXCEPT ![w] = j] /\ EntryFree(w, k) /\ entries[k].status = "ABSENT"
  BY DEF Kept, Tables, GenerateInsert, Present
<1>2. UNCHANGED entries
  BY DbSame DEF GenerateInsert
<1>3. DOMAIN rows = DOMAIN job[w].rows \union {k}
  <2> HIDE DEF row, k
  <2> QED BY DEF With
<1>4. next # "edit"
  OBVIOUS
<1> HIDE DEF row, k, rows, next, todo
<1>5. j.step = next /\ j.rows = rows
  BY DEF Kept, JobOK, JobShape
<1> HIDE DEF j
<1> QED BY <1>1, <1>2, <1>3, <1>4, <1>5, LockStep

LEMMA PayLockLocked ==
  ASSUME Locked, Kept, NEW w \in Workers, PayLock(w)
  PROVE  Locked' /\ UNCHANGED entries
<1>1. PICK op \in {"mark_paid", "update_status"} \intersect Operations,
           k \in Keys, s \in Targets :
        LET row == IF s = "PAID" THEN entries[k]
                   ELSE [entries[k] EXCEPT !.status = s, !.paid = FALSE]
        IN /\ EntryFree(w, k)
           /\ s \in Transitions[entries[k].status]
           /\ job' = [job EXCEPT ![w] =
                [Idle EXCEPT !.op = op, !.todo = {k[1]}, !.period = k[2],
                  !.run = row.run, !.rows = With(Idle.rows, k, row),
                  !.step = IF s = "PAID" THEN "loans" ELSE "commit",
                  !.result = IF s = "PAID" THEN "ABSENT"
                             ELSE Decided(op, row.run, With(entries, k, row))]]
  BY DEF PayLock
<1> DEFINE row == IF s = "PAID" THEN entries[k]
                  ELSE [entries[k] EXCEPT !.status = s, !.paid = FALSE]
           rows == With(Idle.rows, k, row)
           result == IF s = "PAID" THEN "ABSENT"
                     ELSE Decided(op, row.run, With(entries, k, row))
           next == IF s = "PAID" THEN "loans" ELSE "commit"
           run == row.run
           todo == {k[1]}
           j == [Idle EXCEPT !.op = op, !.todo = todo, !.period = k[2], !.run = run,
                             !.rows = rows, !.step = next, !.result = result]
<1>2. job' = [job EXCEPT ![w] = j] /\ EntryFree(w, k)
  BY <1>1
<1>3. DOMAIN rows = {k}
  <2> HIDE DEF row
  <2>1. DOMAIN Idle.rows = {}
    BY DEF Idle
  <2> QED BY <2>1 DEF With
<1>4. next # "edit" /\ entries[k].status # "PAID"
  BY <1>1 DEF Transitions
<1> HIDE DEF row, rows, result, next, run, todo
<1>5. j.step = next /\ j.rows = rows
  BY IdleOK DEF JobOK, JobShape
<1>6. UNCHANGED entries
  BY DbSame DEF PayLock
<1> HIDE DEF j
<1>7. \A x \in Keys : x \in DOMAIN j.rows => EntryFree(w, x) /\ entries[x].status # "PAID"
  BY <1>2, <1>3, <1>4, <1>5
<1> QED BY <1>2, <1>4, <1>5, <1>6, <1>7, LockStep

LEMMA DestroyEntryLocked ==
  ASSUME Locked, Kept, NEW w \in Workers, DestroyEntry(w)
  PROVE  Locked' /\ \A k \in Keys : entries[k].status = "PAID" => entries'[k] = entries[k]
<1>1. PICK k \in Keys : /\ entries[k].status # "PAID"
                        /\ entries' = [entries EXCEPT ![k] = Absent]
  BY DEF DestroyEntry, Deletable
<1>2. \A x \in Keys : entries'[x] = IF x = k THEN Absent ELSE entries[x]
  BY <1>1 DEF Kept, Tables
<1>3. Absent.status = "ABSENT" /\ UNCHANGED job
  BY DEF Absent, DestroyEntry
<1> QED BY <1>1, <1>2, <1>3 DEF Locked

PaidStep == \A k \in Keys : entries[k].status = "PAID" => entries'[k].status = "PAID"

LEMMA StepLocked ==
  ASSUME PayrollOnly, Kept, Locked, [Next]_vars
  PROVE  Locked' /\ PaidStep
<1>1. CASE Next
  <2>1. PICK w \in Workers : WorkerStep(w) \/ Request(w)
    BY <1>1 DEF Next
  <2>2. ~EditLoad(w) /\ ~EditSave(w) /\ ~DeleteRun(w)
    BY DEF PayrollOnly, Locked, EditLoad, EditSave, DeleteRun
  <2>3. CASE GenerateReject(w) \/ GenerateEnd(w) \/ PayCommit(w)
    BY <2>3, CommitStep DEF GenerateReject, GenerateEnd, PayCommit, PaidStep
  <2>4. CASE DestroyEntry(w)
    BY <2>4, DestroyEntryLocked DEF PaidStep
  <2>5. CASE GenerateInsert(w) \/ PayLock(w)
    BY <2>5, GenerateInsertLocked, PayLockLocked DEF PaidStep
  <2>6. CASE \/ GenerateStart(w) \/ GenerateSkip(w) \/ GenerateCheck(w)
             \/ GenerateDuplicate(w) \/ GenerateSettle(w) \/ PayLoans(w)
             \/ LoanLoad(w) \/ LoanSave(w) \/ Abort(w)
    BY <2>6, QuietLocked DEF PaidStep
  <2> QED BY <2>1, <2>2, <2>3, <2>4, <2>5, <2>6 DEF WorkerStep, Request
<1>2. CASE UNCHANGED vars
  BY <1>2 DEF vars, dbVars, Locked, PaidStep
<1> QED BY <1>1, <1>2

\* PAID is final for clients that use the payroll endpoints and leave entries
\* and runs alone: neither update_status, destroy nor another generation takes
\* a paid salary back.
THEOREM PaidStays == ASSUME PayrollOnly PROVE Spec => PaidFinal
<1>1. Init => Locked
  <2>1. Idle.step = "idle" /\ DOMAIN Idle.rows = {}
    BY DEF Idle
  <2> QED BY <2>1 DEF Init, Locked
<1>2. Kept /\ Locked /\ [Next]_vars => Kept' /\ Locked' /\ PaidStep
  BY StepKept, StepLocked
<1>3. Kept /\ Locked /\ [Next]_vars => [PaidStep]_vars
  BY <1>2
<1>4. PaidFinal <=> [][PaidStep]_vars
  BY DEF PaidFinal, PaidStep
<1> QED BY <1>1, <1>2, <1>3, <1>4, InitKept, PTL DEF Spec

----
(* The members of Loans. *)

LEMMA LoansFinite == IsFiniteSet(Loans) /\ Loans \subseteq Nat /\ (\A L \in SUBSET Loans : IsFiniteSet(L))
<1>1. NumLoans \in Nat
  BY ShapeAssumption
<1>2. IsFiniteSet(1..NumLoans)
  BY <1>1, FS_Interval
<1>3. \A L \in SUBSET Loans : IsFiniteSet(L)
  BY <1>2, FS_Subset DEF Loans
<1> QED BY <1>1, <1>2, <1>3 DEF Loans

----
(* Spreading an amount over loans. *)

\* No loan gets more than its cap, and nothing is spread of nothing.
LEMMA SpreadBounds ==
  ASSUME NEW loans \in SUBSET Loans, NEW cap, \A l \in loans : cap[l] \in Nat,
         NEW amount \in Nat, NEW l \in Loans
  PROVE  /\ Spread(loans, cap, amount)[l] \in Nat
         /\ Spread(loans, cap, amount)[l] > 0 =>
              l \in loans /\ Spread(loans, cap, amount)[l] <= cap[l] /\ amount > 0
<1> DEFINE before == {x \in loans : x < l}
           rest == amount - SumFunctionOnSet(cap, before)
<1>1. SumFunctionOnSet(cap, before) \in Nat
  <2>1. before \in SUBSET Loans /\ \A x \in before : cap[x] \in Nat
    OBVIOUS
  <2> HIDE DEF before
  <2> QED BY <2>1, LoansFinite, SumNat
<1>2. rest \in Int /\ rest <= amount
  BY <1>1
<1>3. CASE l \in loans
  <2>1. Spread(loans, cap, amount)[l] = Max({0, Min({cap[l], rest})})
    BY <1>3 DEF Spread
  <2> HIDE DEF rest
  <2>2. Min({cap[l], rest}) = (IF cap[l] <= rest THEN cap[l] ELSE rest) /\ cap[l] \in Nat
    BY <1>2, <1>3, MinPair
  <2> DEFINE m == Min({cap[l], rest})
  <2>3. m \in Int /\ m <= cap[l] /\ m <= rest
    BY <1>2, <2>2
  <2> HIDE DEF m
  <2>4. Max({0, m}) = IF 0 <= m THEN m ELSE 0
    BY <2>3, MaxPair
  <2> QED BY <1>2, <1>3, <2>1, <2>2, <2>3, <2>4 DEF m
<1>4. CASE l \notin loans
  BY <1>4, SpreadNamed
<1> QED BY <1>3, <1>4

\* All of the amount is spread, unless the caps do not suffice for it.
LEMMA SpreadSum ==
  ASSUME NEW loans \in SUBSET Loans, NEW cap, \A l \in loans : cap[l] \in Nat,
         NEW amount \in Nat
  PROVE  Sum(Spread(loans, cap, amount)) =
           IF amount <= SumFunctionOnSet(cap, loans) THEN amount
           ELSE SumFunctionOnSet(cap, loans)
<1> DEFINE f == Spread(loans, cap, amount)
           To(n) == {x \in loans : x < n}
           C(n) == SumFunctionOnSet(cap, To(n))
           F(n) == SumFunctionOnSet(f, 1..(n - 1))
           Good(n) == F(n) = IF amount <= C(n) THEN amount ELSE C(n)
           T == {n \in 1..(NumLoans + 1) : ~Good(n)}
<1>0. NumLoans \in Nat /\ \A x \in loans : x \in Nat /\ 1 <= x /\ x < NumLoans + 1
  BY ShapeAssumption DEF Loans
<1>1. \A n \in Nat : C(n) \in Nat
  <2> TAKE n \in Nat
  <2>1. To(n) \in SUBSET Loans /\ \A x \in To(n) : cap[x] \in Nat
    OBVIOUS
  <2> HIDE DEF To
  <2> QED BY <2>1, LoansFinite, SumNat
<1>2. T = {}
  <2> SUFFICES ASSUME T # {} PROVE FALSE
    OBVIOUS
  <2>1. PICK n \in T : \A k \in T : ~(k < n)
    <3>1. T \subseteq Nat
      BY <1>0
    <3> HIDE DEF T
    <3> QED BY <3>1, Least
  <2>2. n \in 1..(NumLoans + 1) /\ ~Good(n)
    BY <2>1
  <2>3. n # 1
    <3> SUFFICES ASSUME n = 1 PROVE FALSE
      OBVIOUS
    <3>1. To(1) = {}
      BY <1>0
    <3>2. 1..(1 - 1) = {}
      OBVIOUS
    <3>3. C(1) = 0 /\ F(1) = 0
      BY <3>1, <3>2, SumEmpty
    <3> HIDE DEF C, F
    <3> QED BY <2>2, <3>3
  <2> DEFINE m == n - 1
  <2>4. m \in 1..NumLoans /\ n = m + 1 /\ m \in Loans
    BY <1>0, <2>2, <2>3 DEF Loans
  <2> HIDE DEF m
  <2>9. \A x \in loans : (x < n <=> x < m \/ x = m) /\ (x < m => x # m)
    <3>1. m \in Int /\ n = m + 1 /\ \A x \in loans : x \in Int
      BY <1>0, <2>4
    <3> QED BY <3>1
  <2>5. Good(m)
    <3>1. m \in 1..(NumLoans + 1) /\ m < n
      BY <1>0, <2>4
    <3> HIDE DEF Good
    <3> QED BY <2>1, <3>1
  <2>6. F(n) = f[m] + F(m)
    <3>1. 1..(n - 1) = (1..(m - 1)) \union {m} /\ m \notin 1..(m - 1)
      BY <2>4
    <3>2. IsFiniteSet(1..(m - 1)) /\ \A y \in (1..(m - 1)) \union {m} : f[y] \in Int
      <4>1. \A y \in (1..(m - 1)) \union {m} : y \in Loans
        BY <1>0, <2>4 DEF Loans
      <4>2. \A y \in Loans : f[y] \in Nat
        BY SpreadBounds
      <4> HIDE DEF f
      <4>3. m - 1 \in Int
        BY <2>4
      <4>4. IsFiniteSet(1..(m - 1))
        BY <4>3, FS_Interval
      <4> QED BY <4>1, <4>2, <4>4
    <3> HIDE DEF f
    <3> QED BY <3>1, <3>2, SumAdd
  <2>7. CASE m \in loans
    <3>1. C(n) = cap[m] + C(m)
      <4>1. To(n) = To(m) \union {m} /\ m \notin To(m) /\ To(m) \in SUBSET Loans
        BY <2>7, <2>9
      <4>2. \A y \in To(m) \union {m} : cap[y] \in Int
        BY <2>7
      <4> HIDE DEF To
      <4> QED BY <4>1, <4>2, LoansFinite, SumAdd
    <3>2. f[m] = Max({0, Min({cap[m], amount - C(m)})})
      BY <2>4, <2>7 DEF Spread
    <3>3. C(m) \in Nat /\ cap[m] \in Nat
      BY <1>1, <2>4, <2>7
    <3> HIDE DEF C, f, F
    <3> DEFINE a == amount - C(m)
    <3>4. a \in Int
      BY <3>3
    <3>5. Min({cap[m], a}) = IF cap[m] <= a THEN cap[m] ELSE a
      BY <3>3, <3>4, MinPair
    <3> DEFINE b == Min({cap[m], a})
    <3>6. b \in Int
      BY <3>3, <3>4, <3>5
    <3>7. Max({0, b}) = IF 0 <= b THEN b ELSE 0
      <4> HIDE DEF b
      <4> QED BY <3>6, MaxPair
    <3> HIDE DEF b
    <3>8. f[m] = Max({0, b}) /\ b = IF cap[m] <= amount - C(m) THEN cap[m] ELSE amount - C(m)
      BY <3>2, <3>5 DEF b
    <3>9. F(n) = f[m] + (IF amount <= C(m) THEN amount ELSE C(m))
      BY <2>5, <2>6
    <3>10. \A x, c, d, y \in Int :
             (x >= 0 /\ c >= 0 /\ d >= 0 /\ y = (IF c <= x - d THEN c ELSE x - d)) =>
             (IF 0 <= y THEN y ELSE 0) + (IF x <= d THEN x ELSE d)
               = (IF x <= c + d THEN x ELSE c + d)
      OBVIOUS
    <3>11. F(n) = (IF 0 <= b THEN b ELSE 0) + (IF amount <= C(m) THEN amount ELSE C(m))
      BY <3>7, <3>8, <3>9
    <3>12. F(n) = IF amount <= cap[m] + C(m) THEN amount ELSE cap[m] + C(m)
      BY <3>3, <3>6, <3>8, <3>10, <3>11
    <3> QED BY <2>2, <3>1, <3>12
  <2>8. CASE m \notin loans
    <3>1. C(n) = C(m)
      <4>1. To(n) = To(m)
        BY <2>8, <2>9
      <4> QED BY <4>1
    <3>2. f[m] = 0
      BY <2>4, <2>8, SpreadNamed
    <3>3. C(m) \in Nat
      BY <1>1, <2>4
    <3> HIDE DEF C, f, F
    <3> QED BY <2>2, <2>5, <2>6, <3>1, <3>2, <3>3
  <2> QED BY <2>7, <2>8
<1>3. Good(NumLoans + 1)
  <2> HIDE DEF Good
  <2>1. NumLoans + 1 \in 1..(NumLoans + 1)
    BY <1>0
  <2> QED BY <1>2, <2>1
<1>4. To(NumLoans + 1) = loans /\ 1..((NumLoans + 1) - 1) = Loans
  <2>1. To(NumLoans + 1) = loans
    BY <1>0
  <2>2. (NumLoans + 1) - 1 = NumLoans
    BY <1>0
  <2> QED BY <2>1, <2>2 DEF Loans
<1>5. F(NumLoans + 1) = Sum(f) /\ C(NumLoans + 1) = SumFunctionOnSet(cap, loans)
  BY <1>4 DEF Sum
<1> HIDE DEF F, C
<1> QED BY <1>3, <1>5

----
(* Deductions and settlements. *)

Amounts == terms \in [Loans -> Terms] /\ balance \in [Loans -> Nat] /\ repaid \in [Loans -> [Periods -> Nat]]

\* A deduction is within what it may take from the salary and what the loans hold.
LEMMA PlannedBounds ==
  ASSUME Amounts, NEW e, NEW p \in Periods, NEW available \in Nat
  PROVE  /\ Planned(e, p, available) \in Nat
         /\ Planned(e, p, available) <= available
         /\ Planned(e, p, available) <= SumFunctionOnSet(balance, Eligible(e, p))
<1> DEFINE cap == [l \in Loans |-> Min({terms[l].installment[p], balance[l]})]
           E == Eligible(e, p)
<1>1. \A l \in Loans : cap[l] \in Nat /\ cap[l] <= balance[l] /\ balance[l] \in Nat
  <2> TAKE l \in Loans
  <2>1. terms[l].installment[p] \in Nat /\ balance[l] \in Nat
    BY DEF Amounts, Terms
  <2>2. Min({terms[l].installment[p], balance[l]})
          = IF terms[l].installment[p] <= balance[l] THEN terms[l].installment[p] ELSE balance[l]
    BY <2>1, MinPair
  <2> QED BY <2>1, <2>2
<1>2. E \in SUBSET Loans /\ IsFiniteSet(E)
  BY LoansFinite DEF Eligible
<1>3. Planned(e, p, available) = Sum(Spread(E, cap, available))
  BY DEF Planned
<1> HIDE DEF cap, E
<1>4. Sum(Spread(E, cap, available)) =
        IF available <= SumFunctionOnSet(cap, E) THEN available ELSE SumFunctionOnSet(cap, E)
  BY <1>1, <1>2, SpreadSum
<1>5. /\ SumFunctionOnSet(cap, E) \in Nat /\ SumFunctionOnSet(balance, E) \in Nat
      /\ SumFunctionOnSet(cap, E) <= SumFunctionOnSet(balance, E)
  <2>1. \A l \in E : cap[l] \in Nat /\ balance[l] \in Nat /\ cap[l] <= balance[l]
    BY <1>1, <1>2
  <2>2. \A l \in E : cap[l] \in Int /\ balance[l] \in Int /\ cap[l] <= balance[l]
    BY <2>1
  <2>3. SumFunctionOnSet(cap, E) \in Nat /\ SumFunctionOnSet(balance, E) \in Nat
    BY <1>2, <2>1, SumNat
  <2>4. SumFunctionOnSet(cap, E) <= SumFunctionOnSet(balance, E)
    BY <1>2, <2>2, SumLess
  <2> QED BY <2>3, <2>4
<1> QED BY <1>3, <1>4, <1>5 DEF E

\* What an employee's loans have received for a period.
Done(e, p) == Sum([l \in Loans |-> IF LoanOf[l] = e THEN repaid[l][p] ELSE 0])

LEMMA DoneNat ==
  ASSUME Amounts, NEW e, NEW p \in Periods
  PROVE  /\ Done(e, p) \in Nat
         /\ (\A l \in Loans : LoanOf[l] = e => repaid[l][p] = 0) => Done(e, p) = 0
<1> DEFINE f == [l \in Loans |-> IF LoanOf[l] = e THEN repaid[l][p] ELSE 0]
<1>1. \A l \in Loans : f[l] \in Nat
  BY DEF Amounts
<1>2. (\A l \in Loans : LoanOf[l] = e => repaid[l][p] = 0) => \A l \in Loans : f[l] = 0
  OBVIOUS
<1>3. Done(e, p) = SumFunctionOnSet(f, Loans)
  BY DEF Done, Sum
<1> HIDE DEF f
<1>4. SumFunctionOnSet(f, Loans) \in Nat
  BY <1>1, LoansFinite, SumNat
<1>5. (\A l \in Loans : f[l] = 0) => SumFunctionOnSet(f, Loans) = 0
  BY LoansFinite, SumZeros
<1> QED BY <1>2, <1>3, <1>4, <1>5

\* A settlement takes no more from a loan than it holds, from loans of the employee
\* that the entry has not repaid yet.
LEMMA SettlementBounds ==
  ASSUME Amounts, NEW e, NEW p \in Periods, NEW deduction \in Nat, NEW l \in Loans
  PROVE  /\ Settlement(e, p, deduction)[l] \in Nat
         /\ Settlement(e, p, deduction)[l] > 0 =>
              /\ l \in Eligible(e, p) /\ LoanOf[l] = e /\ repaid[l][p] = 0
              /\ Settlement(e, p, deduction)[l] <= balance[l]
              /\ deduction > 0
<1> DEFINE S == {x \in Eligible(e, p) : repaid[x][p] = 0}
           a == Max({0, deduction - Done(e, p)})
<1>1. Settlement(e, p, deduction) = Spread(S, balance, a)
  BY DEF Settlement, Done
<1>2. a \in Nat /\ a <= deduction
  <2>1. Done(e, p) \in Nat
    BY DoneNat
  <2>2. deduction - Done(e, p) \in Int
    BY <2>1
  <2>3. a = IF 0 <= deduction - Done(e, p) THEN deduction - Done(e, p) ELSE 0
    BY <2>2, MaxPair
  <2> QED BY <2>1, <2>3
<1>3. S \in SUBSET Loans /\ \A x \in S : /\ x \in Eligible(e, p) /\ LoanOf[x] = e
                                         /\ repaid[x][p] = 0 /\ balance[x] \in Nat
  BY DEF Eligible, Amounts
<1> HIDE DEF S, a
<1>4. /\ Spread(S, balance, a)[l] \in Nat
      /\ Spread(S, balance, a)[l] > 0 => l \in S /\ Spread(S, balance, a)[l] <= balance[l] /\ a > 0
  BY <1>2, <1>3, SpreadBounds
<1>5. a > 0 => deduction > 0
  BY <1>2
<1> QED BY <1>1, <1>3, <1>4, <1>5

LEMMA SettlementsBounded ==
  ASSUME Amounts
  PROVE  \A l \in Loans : \A dd \in Nat : \A pp \in Periods : \A ee :
           LET o == Settlement(ee, pp, dd)
           IN /\ o[l] \in Nat
              /\ o[l] > 0 => /\ l \in Eligible(ee, pp) /\ LoanOf[l] = ee
                             /\ repaid[l][pp] = 0 /\ o[l] <= balance[l] /\ dd > 0
<1> QED BY SettlementBounds

\* A deduction that the loans hold is settled whole, when nothing of it has been before.
LEMMA SettlementSum ==
  ASSUME Amounts, NEW e, NEW p \in Periods, NEW deduction \in Nat,
         \A l \in Loans : LoanOf[l] = e => repaid[l][p] = 0,
         deduction <= SumFunctionOnSet(balance, Eligible(e, p))
  PROVE  Sum(Settlement(e, p, deduction)) = deduction
<1> DEFINE S == {x \in Eligible(e, p) : repaid[x][p] = 0}
           a == Max({0, deduction - Done(e, p)})
<1>1. Settlement(e, p, deduction) = Spread(S, balance, a)
  BY DEF Settlement, Done
<1>2. S = Eligible(e, p) /\ S \in SUBSET Loans /\ \A x \in S : balance[x] \in Nat
  BY DEF Eligible, Amounts
<1>3. a = deduction
  <2>1. Done(e, p) = 0
    BY DoneNat
  <2>2. deduction - Done(e, p) = deduction /\ deduction \in Int
    BY <2>1
  <2>3. Max({0, deduction}) = IF 0 <= deduction THEN deduction ELSE 0
    BY <2>2, MaxPair
  <2> QED BY <2>2, <2>3
<1> HIDE DEF S, a
<1> QED BY <1>1, <1>2, <1>3, SpreadSum

\* What is left after the advance can be spent on loans.
LEMMA AfterAdvanceNat ==
  ASSUME NEW row \in Entries
  PROVE  AfterAdvance(row) \in Nat
<1>1. row.gross \in Nat /\ row.adv \in Nat
  BY DEF Entries
<1>2. row.gross - row.adv \in Int
  BY <1>1
<1>3. Max({0, row.gross - row.adv})
        = IF 0 <= row.gross - row.adv THEN row.gross - row.adv ELSE 0
  BY <1>2, MaxPair
<1> QED BY <1>2, <1>3 DEF AfterAdvance

----
(* The invariant. *)

Fresh(j) == j.step \in {"check", "insert", "settle"}
Paying(j) == j.step \in {"loans", "commit"}

\* What a request has at each position, and in which order generate goes through employees.
StepOK(j) ==
  /\ j.step \in {"idle", "edit", "loan"} => DOMAIN j.rows = {}
  /\ j.step \in {"idle", "edit", "loan", "loans"} =>
       DOMAIN j.loans = {} /\ \A l \in Loans : j.shares[l] = 0
  /\ j.step \in {"insert", "settle", "loans", "commit", "edit"} => j.todo # {}
  /\ j.step \notin {"idle", "loan"} => j.period \in Periods
  /\ j.step = "loan" =>
       /\ j.loan \in Loans /\ j.op \in {"cancel_loan", "edit_loan"} \intersect Operations
       /\ j.seenLoan.status \in LoanStatuses
  /\ j.step = "edit" => "edit_entry" \in Operations /\ j.seen.run \in Runs
  /\ j.step = "settle" => j.status = "PAID"
  /\ \A k \in DOMAIN j.rows : k[2] = j.period /\ j.rows[k].run \in Runs
  /\ \A l \in Loans : j.shares[l] > 0 => l \in DOMAIN j.loans /\ j.shares[l] <= j.loans[l]
  /\ Fresh(j) =>
       /\ j.run \in Runs /\ j.status \in GenerateStatuses
       /\ \A k \in DOMAIN j.rows :
            /\ j.rows[k].run = j.run /\ j.rows[k].status = j.status
            /\ \A e \in j.todo : k[1] < e \/ (j.step = "settle" /\ k[1] = Min(j.todo))
       /\ \A l \in DOMAIN j.loans : \A e \in j.todo : LoanOf[l] < e
  /\ Paying(j) =>
       /\ j.todo = {Min(j.todo)}
       /\ DOMAIN j.rows = {<<Min(j.todo), j.period>>}
       /\ j.run = j.rows[<<Min(j.todo), j.period>>].run

\* What the tables say of the rows that worker w has locked in its job j.
HeldBy(w, j) ==
  /\ \A k \in DOMAIN j.rows :
       /\ EntryFree(w, k)
       /\ Fresh(j) => ~Present(k) /\ j.rows[k].adv <= left[k]
       /\ Paying(j) => /\ entries[k].status \notin {"ABSENT", "PAID"}
                       /\ entries[k].run = j.rows[k].run
                       /\ entries[k].adv = j.rows[k].adv
  /\ \A l \in DOMAIN j.loans : j.loans[l] = balance[l]
  /\ LoansFree(w, DOMAIN j.loans)
  /\ \A l \in Loans : j.shares[l] > 0 => repaid[l][j.period] = 0
  /\ j.step = "loan" => LoanAmount[j.loan] - j.seenLoan.balance <= Repaid(j.loan)

RowsOK ==
  \A k \in Keys : IF Present(k) THEN entries[k].run \in Runs ELSE entries[k] = Absent

Held ==
  /\ TypeOK /\ RowsOK /\ LoanLossBacked
  /\ \A w \in Workers : StepOK(job[w]) /\ HeldBy(w, job[w])

\* The runs of open generations are theirs alone, and a run about to be completed is paid.
RunsBy(w, j) ==
  /\ Fresh(j) => runs[j.run] = "ABSENT"
  /\ \A v \in Others(w) : Fresh(j) \/ Fresh(job[v]) => job[v].run # j.run
  /\ j.step = "commit" /\ j.result = "COMPLETED" =>
       \A k \in Keys :
         LET row == IF k \in DOMAIN j.rows THEN j.rows[k] ELSE entries[k]
         IN row.status # "ABSENT" /\ row.run = j.run => row.status = "PAID"

RunsOK ==
  /\ RunCompleteSound
  /\ \A k \in Keys : Present(k) => runs[entries[k].run] # "ABSENT"
  /\ \A w \in Workers : RunsBy(w, job[w])

\* Only the payment of an entry settles, and it settles what the entry deducts.
SettledBy(j) ==
  /\ Fresh(j) => \A l \in Loans : j.shares[l] = 0
  /\ j.step = "commit" =>
       \A k \in DOMAIN j.rows :
         IF j.rows[k].status = "PAID" THEN j.rows[k].loan = Sum(j.shares)
         ELSE \A l \in Loans : j.shares[l] = 0

SettledOK ==
  /\ PaidSettled
  /\ \A l \in Loans, p \in Periods :
       repaid[l][p] > 0 => entries[<<LoanOf[l], p>>].status = "PAID"
  /\ \A w \in Workers : SettledBy(job[w])

\* What clients must leave alone for the deductions to stay what they were.
NoEntryEdits == "edit_entry" \notin Operations
NoLoanEdits == "edit_loan" \notin Operations
NoneGeneratedPaid == "PAID" \notin GenerateStatuses
NothingDropped == "delete_run" \notin Operations /\ BadDays = {}

Balanced ==
  /\ Held
  /\ NoLoanEdits => LoanAdds
  /\ NoEntryEdits /\ NothingDropped => AdvancesTaken
  /\ NoEntryEdits => RunsOK
  /\ NoEntryEdits /\ NoneGeneratedPaid => SettledOK

----
(* Facts about the invariant. *)

LEMMA Typed ==
  ASSUME TypeOK
  PROVE  Amounts
BY DEF TypeOK, Amounts

\* A job that holds nothing.
LEMMA IdleHeld ==
  /\ JobTypes(Idle) /\ StepOK(Idle) /\ SettledBy(Idle)
  /\ DOMAIN Idle.rows = {} /\ DOMAIN Idle.loans = {} /\ Idle.step = "idle" /\ Idle.run = 0
  /\ \A l \in Loans : Idle.shares[l] = 0
<1>1. /\ DOMAIN Idle.rows = {} /\ DOMAIN Idle.loans = {} /\ Idle.step = "idle"
      /\ Idle.run = 0 /\ Idle.todo = {} /\ Idle.period = 0 /\ Idle.op = "none"
      /\ Idle.status = "ABSENT" /\ Idle.result = "ABSENT" /\ Idle.loan = 0
      /\ Idle.seen = Absent /\ Idle.seenLoan = [balance |-> 0, status |-> "ABSENT", terms |-> NoTerms]
      /\ Idle.shares = [l \in Loans |-> 0]
      /\ Idle.rows = [k \in {} |-> Absent] /\ Idle.loans = [l \in {} |-> 0]
  BY DEF Idle
<1>2. Absent \in Entries
  BY ShapeAssumption DEF Absent, Entries
<1>3. JobTypes(Idle)
  <2>1. Idle.rows \in [DOMAIN Idle.rows -> Entries] /\ Idle.loans \in [DOMAIN Idle.loans -> Nat]
    BY <1>1
  <2>2. Idle.run \in 0..MaxRuns /\ Idle.loan \in 0..NumLoans
    BY <1>1, ShapeAssumption
  <2>3. Idle.shares \in [Loans -> Nat]
    BY <1>1
  <2>4. Idle.seenLoan \in [balance : Nat, status : LoanStatuses \union {"ABSENT"}, terms : Terms]
    BY <1>1 DEF NoTerms, Terms
  <2> QED BY <1>1, <1>2, <2>1, <2>2, <2>3, <2>4 DEF JobTypes, Steps
<1>4. StepOK(Idle)
  BY <1>1 DEF StepOK, Fresh, Paying
<1>5. SettledBy(Idle)
  BY <1>1 DEF SettledBy, Fresh
<1> QED BY <1>1, <1>3, <1>4, <1>5

LEMMA IdleHeldBy ==
  ASSUME NEW w
  PROVE  HeldBy(w, Idle)
BY IdleHeld DEF HeldBy, LoansFree

\* No generation has the run 0, which stands for none.
LEMMA IdleRuns ==
  ASSUME Held, NEW w \in Workers
  PROVE  RunsBy(w, Idle)
<1>1. \A v \in Workers : Fresh(job[v]) => job[v].run # 0
  <2>1. 0 \notin Runs
    BY ShapeAssumption DEF Runs
  <2>2. \A v \in Workers : Fresh(job[v]) => job[v].run \in Runs
    BY DEF Held, StepOK
  <2> QED BY <2>1, <2>2
<1> QED BY <1>1, IdleHeld DEF RunsBy, Fresh, Others

----
(* Initial states. *)

LEMMA RepaidZero ==
  ASSUME NEW l \in Loans, \A p \in Periods : repaid[l][p] = 0
  PROVE  Repaid(l) = 0
BY SumZeros, ShapeAssumption DEF Repaid

LEMMA InitBalanced == Init => Balanced
<1> SUFFICES ASSUME Init PROVE Balanced
  OBVIOUS
<1>1. \A w \in Workers : job[w] = Idle
  BY DEF Init
<1>2. TypeOK
  <2>1. Absent \in Entries
    BY ShapeAssumption DEF Absent, Entries
  <2>2. balance \in [Loans -> Nat] /\ left \in [Keys -> Nat]
    BY ShapeAssumption DEF Init
  <2>3. \A w \in Workers : JobTypes(job[w])
    BY <1>1, IdleHeld
  <2>4. DOMAIN job = Workers
    BY DEF Init
  <2>5. entries \in [Keys -> Entries] /\ runs \in [Runs -> RunStatuses \union {"ABSENT", "DELETED"}]
    BY <2>1 DEF Init
  <2>6. loanStatus \in [Loans -> LoanStatuses] /\ repaid \in [Loans -> [Periods -> Nat]]
    BY DEF Init, LoanStatuses
  <2>7. terms \in [Loans -> Terms]
    BY ShapeAssumption DEF Init, Terms, Granted
  <2> QED BY <2>2, <2>3, <2>4, <2>5, <2>6, <2>7 DEF TypeOK
<1>3. \A k \in Keys : entries[k] = Absent /\ ~Present(k) /\ entries[k].adv = 0
                      /\ entries[k].status = "ABSENT"
  BY DEF Init, Present, Absent
<1>4. \A l \in Loans : /\ Repaid(l) = 0 /\ balance[l] = LoanAmount[l] /\ LoanAmount[l] \in Nat
                      /\ terms[l].amount = LoanAmount[l]
  <2> TAKE l \in Loans
  <2>1. \A p \in Periods : repaid[l][p] = 0
    BY DEF Init
  <2> QED BY <2>1, RepaidZero, ShapeAssumption DEF Init, Granted
<1>5. LoanAdds /\ LoanLossBacked
  BY <1>4 DEF LoanAdds, LoanLossBacked
<1>6. Held
  BY <1>1, <1>2, <1>3, <1>5, IdleHeld, IdleHeldBy DEF Held, RowsOK
<1>7. AdvancesTaken
  <2>1. \A k \in Keys : AdvanceAmount[k] \in Nat /\ left[k] = AdvanceAmount[k]
    BY ShapeAssumption DEF Init
  <2> QED BY <1>3, <2>1 DEF AdvancesTaken
<1>8. RunsOK
  BY <1>1, <1>3, <1>6, IdleRuns DEF RunsOK, RunCompleteSound
<1>9. SettledOK
  BY <1>1, <1>3, IdleHeld DEF SettledOK, PaidSettled, Init
<1> QED BY <1>5, <1>6, <1>7, <1>8, <1>9 DEF Balanced

----
(* Steps that write no table. *)

LEMMA QuietBalanced ==
  ASSUME Kept, Balanced, UNCHANGED dbVars, NEW w \in Workers,
         NEW j, job' = [job EXCEPT ![w] = j],
         JobTypes(j), StepOK(j), HeldBy(w, j),
         NoEntryEdits /\ RunsOK => RunsBy(w, j),
         NoEntryEdits /\ NoneGeneratedPaid /\ SettledOK => SettledBy(j)
  PROVE  Balanced'
<1>0. UNCHANGED <<entries, runs, terms, balance, loanStatus, repaid, left>>
  BY DEF dbVars, loanVars
<1>1. \A v \in Workers : job'[v] = IF v = w THEN j ELSE job[v]
  BY DEF Kept, Tables
<1>2. TypeOK'
  <2>1. \A v \in Workers : JobTypes(job'[v])
    BY <1>1 DEF Balanced, Held, TypeOK
  <2>2. DOMAIN job' = Workers
    BY DEF Kept, Tables
  <2>3. \A v \in Workers : JobTypes(job[v])'
    BY <2>1 DEF JobTypes
  <2> QED BY <1>0, <2>2, <2>3 DEF Balanced, Held, TypeOK
<1>3. RowsOK' /\ LoanLossBacked' /\ (LoanAdds => LoanAdds') /\ (AdvancesTaken => AdvancesTaken')
  BY <1>0 DEF Balanced, Held, RowsOK, LoanLossBacked, LoanAdds, AdvancesTaken, Present, Repaid
<1>4. ASSUME NEW v \in Workers
      PROVE  StepOK(job[v])' /\ HeldBy(v, job[v])'
  <2>1. StepOK(job'[v])
    BY <1>1 DEF Balanced, Held
  <2>2. StepOK(job[v])'
    BY <2>1 DEF StepOK, Fresh, Paying
  <2>3. CASE v = w
    <3>1. \A k : EntryFree(w, k) => EntryFree(w, k)'
      BY <1>1 DEF EntryFree, Others
    <3>2. LoansFree(w, DOMAIN j.loans) => LoansFree(w, DOMAIN j.loans)'
      BY <1>1 DEF LoansFree, Others
    <3>3. job'[v] = j
      BY <1>1, <2>3
    <3> QED
      BY <1>0, <2>2, <2>3, <3>1, <3>2, <3>3 DEF HeldBy, Fresh, Paying, Present, Repaid, LoansFree
  <2>4. CASE v # w
    <3>1. HeldBy(v, job[v]) /\ job'[v] = job[v]
      BY <1>1, <2>4 DEF Balanced, Held
    <3>2. \A k \in DOMAIN job[v].rows : EntryFree(v, k)'
      <4> SUFFICES ASSUME NEW k \in DOMAIN job[v].rows, NEW u \in Workers, u # v,
                          k \in DOMAIN job'[u].rows
                   PROVE  FALSE
        BY DEF EntryFree, Others
      <4>1. CASE u = w
        <5>1. k \in DOMAIN j.rows
          BY <1>1, <4>1
        <5> QED BY <2>4, <5>1 DEF HeldBy, EntryFree, Others
      <4>2. CASE u # w
        BY <1>1, <3>1, <4>2 DEF HeldBy, EntryFree, Others
      <4> QED BY <4>1, <4>2
    <3>3. LoansFree(v, DOMAIN job[v].loans)'
      <4> SUFFICES ASSUME NEW l \in DOMAIN job[v].loans, NEW u \in Workers, u # v,
                          l \in DOMAIN job'[u].loans
                   PROVE  FALSE
        BY <3>1 DEF LoansFree, Others
      <4>1. CASE u = w
        <5>1. l \in DOMAIN j.loans
          BY <1>1, <4>1
        <5> QED BY <2>4, <5>1 DEF HeldBy, LoansFree, Others
      <4>2. CASE u # w
        BY <1>1, <3>1, <4>2 DEF HeldBy, LoansFree, Others
      <4> QED BY <4>1, <4>2
    <3> QED BY <1>0, <2>2, <3>1, <3>2, <3>3 DEF HeldBy, Fresh, Paying, Present, Repaid
  <2> QED BY <2>3, <2>4
<1>5. Held'
  BY <1>2, <1>3, <1>4 DEF Held
<1>6. ASSUME NoEntryEdits, RunsOK
      PROVE  RunsOK'
  <2>1. ASSUME NEW v \in Workers
        PROVE  RunsBy(v, job[v])'
    <3>1. CASE v = w
      <4>1. RunsBy(w, j) /\ job'[v] = j
        BY <1>1, <1>6, <3>1
      <4> QED BY <1>0, <1>1, <3>1, <4>1 DEF RunsBy, Fresh, Others
    <3>2. CASE v # w
      <4>1. RunsBy(w, j) /\ RunsBy(v, job[v]) /\ job'[v] = job[v]
        BY <1>1, <1>6, <3>2 DEF RunsOK
      <4>2. \A u \in Others(v) : Fresh(job'[v]) \/ Fresh(job'[u]) => job'[u].run # job'[v].run
        <5> TAKE u \in Others(v)
        <5>1. CASE u = w
          BY <1>1, <3>2, <4>1, <5>1 DEF RunsBy, Others
        <5>2. CASE u # w
          BY <1>1, <4>1, <5>2 DEF RunsBy, Others
        <5> QED BY <5>1, <5>2
      <4>3. \A u \in Others(v) : (Fresh(job[v]) \/ Fresh(job[u]) => job[u].run # job[v].run)'
        BY <4>2 DEF Fresh, Others
      <4> QED BY <1>0, <4>1, <4>3 DEF RunsBy, Fresh, Others
    <3> QED BY <3>1, <3>2
  <2> QED BY <1>0, <1>6, <2>1 DEF RunsOK, RunCompleteSound, Present
<1>7. ASSUME NoEntryEdits, NoneGeneratedPaid, SettledOK
      PROVE  SettledOK'
  <2>1. \A v \in Workers : SettledBy(job'[v])
    BY <1>1, <1>7 DEF SettledOK
  <2>2. \A v \in Workers : SettledBy(job[v])'
    BY <2>1 DEF SettledBy, Fresh, Sum
  <2> QED BY <1>0, <1>7, <2>2 DEF SettledOK, PaidSettled, RepaidBy, Sum
<1> QED
  BY <1>3, <1>5, <1>6, <1>7 DEF Balanced, NoEntryEdits, NoLoanEdits, NoneGeneratedPaid, NothingDropped

\* What the invariant says of the job of one worker.
LEMMA JobFacts ==
  ASSUME Kept, Balanced, NEW w \in Workers
  PROVE  /\ JobShape(job[w]) /\ JobOK(job[w])
         /\ JobTypes(job[w]) /\ StepOK(job[w]) /\ HeldBy(w, job[w])
         /\ TypeOK /\ Amounts
BY Typed DEF Kept, JobOK, Balanced, Held, TypeOK

\* The employee and period whose turn it is.
LEMMA CurrentIs ==
  ASSUME Kept, Balanced, NEW w \in Workers, job[w].todo # {}, job[w].period \in Periods
  PROVE  /\ Current(w) = <<Min(job[w].todo), job[w].period>>
         /\ Current(w)[1] = Min(job[w].todo) /\ Current(w)[2] = job[w].period
         /\ Current(w) \in Keys
         /\ Min(job[w].todo) \in job[w].todo /\ Min(job[w].todo) \in Employees
         /\ Min(job[w].todo) \in Nat
         /\ \A e \in job[w].todo : e \in Nat /\ Min(job[w].todo) <= e
<1>1. job[w].todo \subseteq Employees /\ Employees \subseteq Nat
  BY JobFacts, ShapeAssumption DEF JobTypes
<1>2. Min(job[w].todo) \in job[w].todo /\ \A e \in job[w].todo : Min(job[w].todo) <= e
  BY <1>1, MinIn
<1>3. Current(w) = <<Min(job[w].todo), job[w].period>>
  BY DEF Current
<1>4. Min(job[w].todo) \in Employees /\ Min(job[w].todo) \in Nat
  BY <1>1, <1>2
<1>5. Current(w) \in Keys
  BY <1>3, <1>4 DEF Keys
<1>6. Current(w)[1] = Min(job[w].todo) /\ Current(w)[2] = job[w].period
  BY <1>3
<1>7. \A e \in job[w].todo : e \in Nat
  BY <1>1
<1> QED BY <1>2, <1>3, <1>4, <1>5, <1>6, <1>7

\* A generation that goes on with what it has.
LEMMA FreshGoesOn ==
  ASSUME Kept, Balanced, NEW w \in Workers, NEW j, Fresh(job[w]), Fresh(j),
         j.rows = job[w].rows, j.loans = job[w].loans, j.shares = job[w].shares,
         j.run = job[w].run, j.period = job[w].period
  PROVE  /\ HeldBy(w, j)
         /\ RunsOK => RunsBy(w, j)
         /\ SettledOK => SettledBy(j)
<1>1. HeldBy(w, job[w])
  BY JobFacts
<1>2. j.step # "loan" /\ j.step # "commit" /\ ~Paying(j)
  BY DEF Fresh, Paying
<1>3. HeldBy(w, j)
  BY <1>1, <1>2 DEF HeldBy
<1>4. RunsOK => RunsBy(w, j)
  BY <1>2 DEF RunsOK, RunsBy
<1>5. SettledOK => SettledBy(j)
  BY <1>2 DEF SettledOK, SettledBy
<1> QED BY <1>3, <1>4, <1>5

----
(* The steps of generate. *)

LEMMA GenerateStartBalanced ==
  ASSUME Kept, Balanced, NEW w \in Workers, GenerateStart(w) PROVE Balanced'
<1>1. PICK todo \in SUBSET Employees, p \in Periods, s \in GenerateStatuses :
        job' = [job EXCEPT ![w] =
                  [Idle EXCEPT !.step = "check", !.op = "generate", !.todo = todo,
                               !.period = p, !.status = s, !.run = Min(FreshRuns)]]
  BY DEF GenerateStart
<1> DEFINE r == Min(FreshRuns)
           j == [Idle EXCEPT !.step = "check", !.op = "generate", !.todo = todo,
                             !.period = p, !.status = s, !.run = r]
<1>2. r \in FreshRuns
  <2>1. FreshRuns \subseteq Nat /\ FreshRuns # {}
    BY ShapeAssumption DEF FreshRuns, Runs, GenerateStart
  <2> QED BY <2>1, MinIn
<1>3. /\ r \in Runs /\ runs[r] = "ABSENT" /\ r \in 0..MaxRuns
      /\ \A v \in Workers : job[v].run # r
  <2>1. r \in Runs /\ runs[r] = "ABSENT" /\ \A v \in Workers : job[v].run # r
    BY <1>2 DEF FreshRuns
  <2>2. r \in 0..MaxRuns
    BY <2>1, ShapeAssumption DEF Runs
  <2> QED BY <2>1, <2>2
<1> HIDE DEF r
<1>4. /\ j.step = "check" /\ j.op = "generate" /\ j.todo = todo /\ j.period = p
      /\ j.status = s /\ j.run = r /\ j.rows = Idle.rows /\ j.shares = Idle.shares
      /\ j.loans = Idle.loans /\ j.result = Idle.result /\ j.seen = Idle.seen
      /\ j.loan = Idle.loan /\ j.seenLoan = Idle.seenLoan
  BY IdleOK DEF JobOK, JobShape
<1>5. s \in EntryStatuses
  BY ShapeAssumption
<1> HIDE DEF j
<1>6. JobTypes(j)
  BY <1>3, <1>4, <1>5, IdleHeld DEF JobTypes, Steps, OperationKinds
<1>7. StepOK(j)
  BY <1>3, <1>4, IdleHeld DEF StepOK, Fresh, Paying
<1>8. HeldBy(w, j)
  BY <1>4, IdleHeld DEF HeldBy, LoansFree
<1>9. RunsBy(w, j)
  BY <1>3, <1>4 DEF RunsBy, Others
<1>10. SettledBy(j)
  BY <1>4, IdleHeld DEF SettledBy
<1>11. job' = [job EXCEPT ![w] = j] /\ UNCHANGED dbVars
  BY <1>1 DEF GenerateStart, r, j
<1> QED BY <1>6, <1>7, <1>8, <1>9, <1>10, <1>11, QuietBalanced

LEMMA GenerateSkipBalanced ==
  ASSUME Kept, Balanced, NEW w \in Workers, GenerateSkip(w) PROVE Balanced'
<1> DEFINE rest == job[w].todo \ {Current(w)[1]}
           j == [job[w] EXCEPT !.todo = rest]
<1>1. /\ JobShape(job[w]) /\ JobTypes(job[w]) /\ StepOK(job[w])
      /\ job[w].step = "check"
  BY JobFacts DEF GenerateSkip, Checking
<1>2. job' = [job EXCEPT ![w] = j] /\ UNCHANGED dbVars
  BY DEF Kept, Tables, GenerateSkip
<1>3. rest \subseteq job[w].todo
  OBVIOUS
<1> HIDE DEF rest
<1>4. /\ j.step = job[w].step /\ j.op = job[w].op /\ j.todo = rest
      /\ j.period = job[w].period /\ j.status = job[w].status /\ j.run = job[w].run
      /\ j.rows = job[w].rows /\ j.shares = job[w].shares /\ j.loans = job[w].loans
      /\ j.result = job[w].result /\ j.seen = job[w].seen /\ j.loan = job[w].loan
      /\ j.seenLoan = job[w].seenLoan
  BY <1>1 DEF JobShape
<1> HIDE DEF j
<1>5. JobTypes(j)
  BY <1>1, <1>3, <1>4 DEF JobTypes
<1>6. StepOK(j)
  BY <1>1, <1>3, <1>4 DEF StepOK, Fresh, Paying
<1>7. Fresh(j) /\ Fresh(job[w])
  BY <1>1, <1>4 DEF Fresh
<1>8. HeldBy(w, j) /\ (RunsOK => RunsBy(w, j)) /\ (SettledOK => SettledBy(j))
  BY <1>4, <1>7, FreshGoesOn
<1> QED BY <1>2, <1>5, <1>6, <1>8, QuietBalanced

LEMMA GenerateCheckBalanced ==
  ASSUME Kept, Balanced, NEW w \in Workers, GenerateCheck(w) PROVE Balanced'
<1> DEFINE j == [job[w] EXCEPT !.step = "insert"]
<1>1. /\ JobShape(job[w]) /\ JobTypes(job[w]) /\ StepOK(job[w])
      /\ job[w].step = "check" /\ job[w].todo # {}
  BY JobFacts DEF GenerateCheck, Checking
<1>2. job' = [job EXCEPT ![w] = j] /\ UNCHANGED dbVars
  BY DEF Kept, Tables, GenerateCheck
<1>4. /\ j.step = "insert" /\ j.op = job[w].op /\ j.todo = job[w].todo
      /\ j.period = job[w].period /\ j.status = job[w].status /\ j.run = job[w].run
      /\ j.rows = job[w].rows /\ j.shares = job[w].shares /\ j.loans = job[w].loans
      /\ j.result = job[w].result /\ j.seen = job[w].seen /\ j.loan = job[w].loan
      /\ j.seenLoan = job[w].seenLoan
  BY <1>1 DEF JobShape
<1> HIDE DEF j
<1>5. JobTypes(j)
  BY <1>1, <1>4 DEF JobTypes, Steps
<1>6. StepOK(j)
  BY <1>1, <1>4 DEF StepOK, Fresh, Paying
<1>7. Fresh(j) /\ Fresh(job[w])
  BY <1>1, <1>4 DEF Fresh
<1>8. HeldBy(w, j) /\ (RunsOK => RunsBy(w, j)) /\ (SettledOK => SettledBy(j))
  BY <1>4, <1>7, FreshGoesOn
<1> QED BY <1>2, <1>5, <1>6, <1>8, QuietBalanced

\* The entry that generate inserts for an employee.
LEMMA InsertedRow ==
  ASSUME Kept, Balanced, NEW w \in Workers, job[w].step = "insert",
         NEW k, k = Current(w),
         NEW adv, adv = Min({left[k], GrossSalary[k[1]]}),
         NEW row, row = [status |-> job[w].status, gross |-> GrossSalary[k[1]], adv |-> adv,
                         loan |-> Planned(k[1], k[2], GrossSalary[k[1]] - adv),
                         run |-> job[w].run, paid |-> job[w].status = "PAID"]
  PROVE  row \in Entries /\ row.adv <= left[k]
<1>1. /\ JobTypes(job[w]) /\ StepOK(job[w]) /\ Amounts
      /\ left \in [Keys -> Nat] /\ job[w].status \in EntryStatuses
  BY JobFacts DEF TypeOK, Kept, JobOK
<1>2. k \in Keys /\ k[1] \in Employees /\ k[2] \in Periods
  BY <1>1, CurrentIs DEF StepOK
<1>3. left[k] \in Nat /\ GrossSalary[k[1]] \in Nat
  BY <1>1, <1>2, ShapeAssumption
<1>4. adv = IF left[k] <= GrossSalary[k[1]] THEN left[k] ELSE GrossSalary[k[1]]
  BY <1>3, MinPair
<1>5. adv \in Nat /\ adv <= left[k] /\ GrossSalary[k[1]] - adv \in Nat
  <2>1. \A x, y \in Nat : \A z :
          z = (IF x <= y THEN x ELSE y) => z \in Nat /\ z <= x /\ y - z \in Nat
    OBVIOUS
  <2> QED BY <1>3, <1>4, <2>1
<1>6. Planned(k[1], k[2], GrossSalary[k[1]] - adv) \in Nat
  BY <1>1, <1>2, <1>5, PlannedBounds
<1>7. job[w].run \in 0..MaxRuns
  BY <1>1 DEF JobTypes
<1> QED BY <1>1, <1>3, <1>5, <1>6, <1>7 DEF Entries

LEMMA GenerateInsertBalanced ==
  ASSUME Kept, Balanced, NEW w \in Workers, GenerateInsert(w) PROVE Balanced'
<1> DEFINE k == Current(w)
           adv == Min({left[k], GrossSalary[k[1]]})
           row == [status |-> job[w].status, gross |-> GrossSalary[k[1]], adv |-> adv,
                   loan |-> Planned(k[1], k[2], GrossSalary[k[1]] - adv),
                   run |-> job[w].run, paid |-> job[w].status = "PAID"]
           rows == With(job[w].rows, k, row)
           next == IF row.paid THEN "settle" ELSE "check"
           todo == IF row.paid THEN job[w].todo ELSE job[w].todo \ {k[1]}
           j == [job[w] EXCEPT !.rows = rows, !.step = next, !.todo = todo]
<1>0. /\ job' = [job EXCEPT ![w] = j] /\ UNCHANGED dbVars
      /\ EntryFree(w, k) /\ ~Present(k)
  BY DEF Kept, Tables, GenerateInsert
<1>1. /\ JobShape(job[w]) /\ JobTypes(job[w]) /\ StepOK(job[w]) /\ HeldBy(w, job[w])
      /\ job[w].step = "insert"
  BY JobFacts DEF GenerateInsert
<1>2. row \in Entries /\ row.adv <= left[k]
  BY <1>1, InsertedRow
<1>3. row.run = job[w].run /\ row.status = job[w].status /\ (row.paid <=> job[w].status = "PAID")
  OBVIOUS
<1>4. /\ k = <<Min(job[w].todo), job[w].period>> /\ k[1] = Min(job[w].todo)
      /\ k[2] = job[w].period /\ k \in Keys
      /\ k[1] \in job[w].todo /\ k[1] \in Nat
      /\ \A e \in job[w].todo : e \in Nat /\ k[1] <= e
  BY <1>1, CurrentIs DEF StepOK
<1> HIDE DEF row, k
<1>5. /\ DOMAIN rows = DOMAIN job[w].rows \union {k} /\ rows[k] = row
      /\ \A x \in DOMAIN job[w].rows : x # k => rows[x] = job[w].rows[x]
  BY DEF With
<1>6. /\ next \in {"settle", "check"} /\ (next = "settle" <=> row.paid)
      /\ todo \subseteq job[w].todo
      /\ (next = "settle" => todo = job[w].todo)
      /\ (next = "check" => \A e \in todo : e \in job[w].todo /\ e # k[1])
  OBVIOUS
<1>7. rows \in [DOMAIN rows -> Entries]
  <2>1. rows = [x \in DOMAIN rows |-> rows[x]]
    BY <1>5 DEF With
  <2>2. \A x \in DOMAIN rows : rows[x] \in Entries
    BY <1>1, <1>2, <1>5 DEF JobTypes
  <2> HIDE DEF rows
  <2> QED BY <2>1, <2>2
<1> HIDE DEF rows, next, todo
<1>8. /\ j.step = next /\ j.op = job[w].op /\ j.todo = todo
      /\ j.period = job[w].period /\ j.status = job[w].status /\ j.run = job[w].run
      /\ j.rows = rows /\ j.shares = job[w].shares /\ j.loans = job[w].loans
      /\ j.result = job[w].result /\ j.seen = job[w].seen /\ j.loan = job[w].loan
      /\ j.seenLoan = job[w].seenLoan
  BY <1>1 DEF JobShape
<1> HIDE DEF j
<1>9. JobTypes(j)
  <2>1. DOMAIN rows \subseteq Keys
    BY <1>1, <1>4, <1>5 DEF JobTypes
  <2>2. j.todo \in SUBSET Employees /\ j.step \in Steps
    BY <1>1, <1>6, <1>8 DEF JobTypes, Steps
  <2> QED BY <1>1, <1>7, <1>8, <2>1, <2>2 DEF JobTypes
<1>10. Fresh(j) /\ Fresh(job[w]) /\ ~Paying(j) /\ j.step \notin {"loan", "commit"}
  BY <1>1, <1>6, <1>8 DEF Fresh, Paying
<1>11. StepOK(j)
  <2>1. /\ job[w].run \in Runs /\ job[w].status \in GenerateStatuses
        /\ \A x \in DOMAIN job[w].rows : /\ x[2] = job[w].period
                                         /\ job[w].rows[x].run = job[w].run
                                         /\ job[w].rows[x].status = job[w].status
                                         /\ \A e \in job[w].todo : x[1] < e
        /\ \A l \in DOMAIN job[w].loans : \A e \in job[w].todo : LoanOf[l] < e
        /\ job[w].period \in Periods
        /\ \A l \in Loans : job[w].shares[l] > 0 =>
             l \in DOMAIN job[w].loans /\ job[w].shares[l] <= job[w].loans[l]
    BY <1>1 DEF StepOK, Fresh
  <2>2. \A x \in DOMAIN rows : /\ x[2] = job[w].period
                               /\ rows[x].run = job[w].run /\ rows[x].status = job[w].status
    BY <1>3, <1>4, <1>5, <2>1
  <2>3. \A x \in DOMAIN rows : \A e \in todo : x[1] < e \/ (next = "settle" /\ x[1] = Min(todo))
    <3> TAKE x \in DOMAIN rows
    <3> TAKE e \in todo
    <3>1. CASE x # k
      BY <1>5, <1>6, <2>1, <3>1
    <3>2. CASE x = k /\ next = "settle"
      BY <1>4, <1>6, <3>2
    <3>3. CASE x = k /\ next = "check"
      BY <1>4, <1>6, <3>3
    <3> QED BY <1>6, <3>1, <3>2, <3>3
  <2>4. next = "settle" => todo # {} /\ <<Min(todo), job[w].period>> \in DOMAIN rows
                           /\ job[w].status = "PAID"
    BY <1>3, <1>4, <1>5, <1>6
  <2>5. j.step \notin {"idle", "edit", "loan", "loans", "commit", "insert"}
    BY <1>6, <1>8
  <2> QED BY <1>6, <1>8, <1>10, <2>1, <2>2, <2>3, <2>4, <2>5 DEF StepOK
<1>12. HeldBy(w, j)
  <2>1. \A x \in DOMAIN rows : EntryFree(w, x) /\ ~Present(x) /\ rows[x].adv <= left[x]
    BY <1>0, <1>1, <1>2, <1>5, <1>10 DEF HeldBy
  <2> QED BY <1>1, <1>8, <1>10, <2>1 DEF HeldBy
<1>13. RunsOK => RunsBy(w, j)
  BY <1>8, <1>10 DEF RunsOK, RunsBy
<1>14. SettledOK => SettledBy(j)
  BY <1>8, <1>10 DEF SettledOK, SettledBy
<1> QED BY <1>0, <1>9, <1>11, <1>12, <1>13, <1>14, QuietBalanced

\* The loans of an entry are locked with the balances that the table has.
LEMMA LockedLoans ==
  ASSUME Kept, Balanced, NEW w \in Workers, NEW loans \in SUBSET Loans,
         LoansFree(w, loans),
         NEW locked, locked = WithLocked(job[w].loans, loans)
  PROVE  /\ DOMAIN locked = DOMAIN job[w].loans \union loans
         /\ locked \in [DOMAIN locked -> Nat] /\ DOMAIN locked \subseteq Loans
         /\ \A l \in DOMAIN locked : locked[l] = balance[l]
         /\ \A l \in DOMAIN job[w].loans : locked[l] = job[w].loans[l]
         /\ LoansFree(w, DOMAIN locked)
<1>1. /\ JobTypes(job[w]) /\ HeldBy(w, job[w]) /\ Amounts
  BY JobFacts
<1>2. /\ locked = [l \in DOMAIN job[w].loans \union loans |->
                     IF l \in DOMAIN job[w].loans THEN job[w].loans[l] ELSE balance[l]]
  BY DEF WithLocked
<1>3. DOMAIN locked = DOMAIN job[w].loans \union loans /\ DOMAIN locked \subseteq Loans
  BY <1>1, <1>2 DEF JobTypes
<1>4. \A l \in DOMAIN locked : locked[l] = balance[l] /\ balance[l] \in Nat
  BY <1>1, <1>2, <1>3 DEF HeldBy, Amounts
<1>5. LoansFree(w, DOMAIN locked)
  BY <1>1, <1>3 DEF HeldBy, LoansFree
<1> QED BY <1>1, <1>2, <1>3, <1>4, <1>5 DEF HeldBy

\* The same for any loans.
LEMMA LockedAny ==
  ASSUME Kept, Balanced, NEW w \in Workers
  PROVE  \A loans \in SUBSET Loans :
           LET locked == WithLocked(job[w].loans, loans)
           IN LoansFree(w, loans) =>
                /\ DOMAIN locked = DOMAIN job[w].loans \union loans
                /\ locked \in [DOMAIN locked -> Nat] /\ DOMAIN locked \subseteq Loans
                /\ \A l \in DOMAIN locked : locked[l] = balance[l]
                /\ LoansFree(w, DOMAIN locked)
BY LockedLoans

LEMMA GenerateSettleBalanced ==
  ASSUME Kept, Balanced, NEW w \in Workers, GenerateSettle(w) PROVE Balanced'
<1> DEFINE k == Current(w)
           amount == job[w].rows[k].loan
           loans == LoansToLock(k, amount)
           own == Settlement(k[1], k[2], amount)
           shares == [l \in Loans |-> IF LoanOf[l] = k[1] THEN own[l] ELSE job[w].shares[l]]
           locked == WithLocked(job[w].loans, loans)
           rest == job[w].todo \ {k[1]}
           j == [job[w] EXCEPT !.loans = locked, !.shares = shares,
                               !.step = "check", !.todo = rest]
<1>0. job' = [job EXCEPT ![w] = j] /\ UNCHANGED dbVars /\ LoansFree(w, loans)
  BY DEF Kept, Tables, GenerateSettle
<1>1. /\ JobShape(job[w]) /\ JobTypes(job[w]) /\ StepOK(job[w]) /\ HeldBy(w, job[w])
      /\ job[w].step = "settle" /\ Amounts
  BY JobFacts DEF GenerateSettle
<1>2. /\ k = <<Min(job[w].todo), job[w].period>> /\ k[1] = Min(job[w].todo)
      /\ k[2] = job[w].period /\ k \in Keys /\ k[1] \in Nat
      /\ \A e \in job[w].todo : e \in Nat /\ k[1] <= e
      /\ k \in DOMAIN job[w].rows /\ job[w].period \in Periods
  <2>1. /\ job[w].todo # {} /\ job[w].period \in Periods
        /\ <<Min(job[w].todo), job[w].period>> \in DOMAIN job[w].rows
    BY <1>1, JobFacts DEF StepOK, JobOK
  <2> HIDE DEF k
  <2>2. k = Current(w)
    BY DEF k
  <2> QED BY <2>1, <2>2, CurrentIs
<1>3. amount \in Nat
  BY <1>1, <1>2 DEF JobTypes, Entries
<1> HIDE DEF k, amount
<1>4. loans \in SUBSET Loans /\ \A l \in loans : LoanOf[l] = k[1]
  BY DEF LoansToLock, Eligible
<1>5. \A l \in Loans : /\ own[l] \in Nat
                       /\ own[l] > 0 => /\ LoanOf[l] = k[1] /\ repaid[l][k[2]] = 0
                                        /\ l \in loans /\ own[l] <= balance[l]
  <2> TAKE l \in Loans
  <2>1. k[2] \in Periods
    BY <1>2
  <2>2. /\ own[l] \in Nat
        /\ own[l] > 0 => /\ l \in Eligible(k[1], k[2]) /\ LoanOf[l] = k[1]
                         /\ repaid[l][k[2]] = 0 /\ own[l] <= balance[l] /\ amount > 0
    <3> DEFINE e == k[1]
               p == k[2]
               d == amount
    <3>1. p \in Periods /\ d \in Nat /\ Amounts
      BY <1>1, <1>3, <2>1
    <3>2. own = Settlement(e, p, d)
      OBVIOUS
    <3>4. \A dd \in Nat : \A pp \in Periods : \A ee :
            LET o == Settlement(ee, pp, dd)
            IN /\ o[l] \in Nat
               /\ o[l] > 0 => /\ l \in Eligible(ee, pp) /\ LoanOf[l] = ee
                              /\ repaid[l][pp] = 0 /\ o[l] <= balance[l] /\ dd > 0
      BY <1>1, SettlementsBounded
    <3> HIDE DEF e, p, d, own
    <3>3. /\ own[l] \in Nat
          /\ own[l] > 0 => /\ l \in Eligible(e, p) /\ LoanOf[l] = e
                           /\ repaid[l][p] = 0 /\ own[l] <= balance[l] /\ d > 0
      BY <3>1, <3>2, <3>4
    <3> QED BY <3>3 DEF e, p, d
  <2> QED BY <2>2 DEF LoansToLock
<1> HIDE DEF loans, own
<1>6. /\ DOMAIN locked = DOMAIN job[w].loans \union loans
      /\ locked \in [DOMAIN locked -> Nat] /\ DOMAIN locked \subseteq Loans
      /\ \A l \in DOMAIN locked : locked[l] = balance[l]
      /\ \A l \in DOMAIN job[w].loans : locked[l] = job[w].loans[l]
      /\ LoansFree(w, DOMAIN locked)
  BY <1>0, <1>4, LockedLoans
<1>7. /\ shares \in [Loans -> Nat]
      /\ \A l \in Loans : shares[l] > 0 =>
           /\ l \in DOMAIN locked /\ shares[l] <= locked[l]
           /\ repaid[l][job[w].period] = 0
  <2>1. \A l \in Loans : job[w].shares[l] \in Nat
    BY <1>1 DEF JobTypes
  <2>2. \A l \in Loans : shares[l] \in Nat
    BY <1>5, <2>1
  <2>3. ASSUME NEW l \in Loans, shares[l] > 0
        PROVE  /\ l \in DOMAIN locked /\ shares[l] <= locked[l]
               /\ repaid[l][job[w].period] = 0
    <3>1. CASE LoanOf[l] = k[1]
      BY <1>2, <1>5, <1>6, <2>3, <3>1
    <3>2. CASE LoanOf[l] # k[1]
      BY <1>1, <1>6, <2>3, <3>2 DEF StepOK, HeldBy
    <3> QED BY <3>1, <3>2
  <2> QED BY <2>2, <2>3
<1>8. rest \subseteq job[w].todo /\ k[1] \notin rest
  OBVIOUS
<1> HIDE DEF shares, locked, rest
<1>9. /\ j.step = "check" /\ j.op = job[w].op /\ j.todo = rest
      /\ j.period = job[w].period /\ j.status = job[w].status /\ j.run = job[w].run
      /\ j.rows = job[w].rows /\ j.shares = shares /\ j.loans = locked
      /\ j.result = job[w].result /\ j.seen = job[w].seen /\ j.loan = job[w].loan
      /\ j.seenLoan = job[w].seenLoan
  BY <1>1 DEF JobShape
<1> HIDE DEF j
<1>10. JobTypes(j)
  BY <1>1, <1>6, <1>7, <1>8, <1>9 DEF JobTypes, Steps
<1>11. Fresh(j) /\ Fresh(job[w]) /\ ~Paying(j)
  BY <1>1, <1>9 DEF Fresh, Paying
<1>12. StepOK(j)
  <2>1. \A e \in rest : e \in Nat /\ k[1] < e
    BY <1>2, <1>8
  <2>2. \A x \in DOMAIN job[w].rows : \A e \in rest : x[1] < e
    BY <1>1, <1>2, <1>8, <2>1 DEF StepOK, Fresh
  <2>3. \A l \in DOMAIN locked : \A e \in rest : LoanOf[l] < e
    BY <1>1, <1>4, <1>6, <1>8, <2>1 DEF StepOK, Fresh
  <2> QED BY <1>1, <1>7, <1>9, <1>11, <2>2, <2>3 DEF StepOK, Fresh
<1>13. HeldBy(w, j)
  BY <1>1, <1>6, <1>7, <1>9, <1>11 DEF HeldBy
<1>14. RunsOK => RunsBy(w, j)
  BY <1>9, <1>11 DEF RunsOK, RunsBy
<1>15. ~NoneGeneratedPaid
  BY <1>1 DEF StepOK, Fresh, NoneGeneratedPaid
<1> QED BY <1>0, <1>10, <1>12, <1>13, <1>14, <1>15, QuietBalanced

----
(* The steps of payments. *)

\* The statuses that decide on a run.
LEMMA DecidedIs ==
  ASSUME NEW op, NEW r, NEW rows
  PROVE  /\ Decided(op, r, rows) \in RunStatuses \union {"ABSENT"}
         /\ Decided(op, r, rows) = "COMPLETED" =>
              \A k \in Keys : rows[k].status # "ABSENT" /\ rows[k].run = r
                                => rows[k].status = "PAID"
<1> DEFINE statuses == {rows[k].status : k \in {x \in Keys :
                          rows[x].status # "ABSENT" /\ rows[x].run = r}}
<1>1. Decided(op, r, rows) =
        IF statuses = {"PAID"} THEN "COMPLETED"
        ELSE IF op = "mark_paid" THEN "ABSENT"
        ELSE IF "PROCESSING" \in statuses THEN "PROCESSING"
        ELSE IF "FAILED" \in statuses THEN "FAILED"
        ELSE IF statuses = {"CANCELLED"} THEN "CANCELLED"
        ELSE "DRAFT"
  BY DEF Decided
<1>2. \A k \in Keys : rows[k].status # "ABSENT" /\ rows[k].run = r => rows[k].status \in statuses
  OBVIOUS
<1> HIDE DEF statuses
<1>3. Decided(op, r, rows) \in RunStatuses \union {"ABSENT"}
  BY <1>1 DEF RunStatuses
<1>4. Decided(op, r, rows) = "COMPLETED" => statuses = {"PAID"}
  BY <1>1
<1> QED BY <1>2, <1>3, <1>4

LEMMA PayLockBalanced ==
  ASSUME Kept, Balanced, NEW w \in Workers, PayLock(w) PROVE Balanced'
<1>1. PICK op \in {"mark_paid", "update_status"} \intersect Operations,
           k \in Keys, s \in Targets :
        LET row == IF s = "PAID" THEN entries[k]
                   ELSE [entries[k] EXCEPT !.status = s, !.paid = FALSE]
        IN /\ Present(k) /\ EntryFree(w, k)
           /\ s \in Transitions[entries[k].status]
           /\ job' = [job EXCEPT ![w] =
                [Idle EXCEPT !.op = op, !.todo = {k[1]}, !.period = k[2],
                  !.run = row.run, !.rows = With(Idle.rows, k, row),
                  !.step = IF s = "PAID" THEN "loans" ELSE "commit",
                  !.result = IF s = "PAID" THEN "ABSENT"
                             ELSE Decided(op, row.run, With(entries, k, row))]]
  BY DEF PayLock
<1> DEFINE row == IF s = "PAID" THEN entries[k]
                  ELSE [entries[k] EXCEPT !.status = s, !.paid = FALSE]
           rows == With(Idle.rows, k, row)
           all == With(entries, k, row)
           result == IF s = "PAID" THEN "ABSENT" ELSE Decided(op, row.run, all)
           next == IF s = "PAID" THEN "loans" ELSE "commit"
           run == row.run
           todo == {k[1]}
           j == [Idle EXCEPT !.op = op, !.todo = todo, !.period = k[2], !.run = run,
                             !.rows = rows, !.step = next, !.result = result]
<1>2. /\ job' = [job EXCEPT ![w] = j] /\ Present(k) /\ EntryFree(w, k)
      /\ UNCHANGED dbVars
  BY <1>1 DEF PayLock
<1>3. entries \in [Keys -> Entries] /\ RowsOK
  BY DEF Balanced, Held, TypeOK
<1>4. entries[k] \in Entries /\ entries[k].run \in Runs /\ entries[k].status # "ABSENT"
  BY <1>2, <1>3 DEF RowsOK, Present
<1>5. entries[k].status # "PAID"
  <2>1. Transitions["PAID"] = {}
    BY DEF Transitions
  <2> QED BY <1>1, <2>1
<1>6. /\ row \in Entries /\ row.run = entries[k].run /\ row.adv = entries[k].adv
      /\ (s # "PAID" => row.status # "PAID")
  BY <1>4, ShapeAssumption DEF Entries
<1>7. k[1] \in Employees /\ k[1] \in Nat /\ k[2] \in Periods /\ k = <<k[1], k[2]>>
  <2>1. PICK e \in Employees, p \in Periods : k = <<e, p>>
    BY DEF Keys
  <2> QED BY <2>1, ShapeAssumption
<1>8. Min(todo) = k[1]
  BY <1>7, MinSingleton
<1>9. DOMAIN rows = {k} /\ rows[k] = row /\ rows \in [DOMAIN rows -> Entries]
  <2> HIDE DEF row
  <2>1. rows = [x \in {} \union {k} |-> IF x = k THEN row ELSE Idle.rows[x]]
    BY IdleHeld DEF With
  <2>2. \A x \in {} \union {k} : x = k
    OBVIOUS
  <2>3. DOMAIN rows = {k} /\ rows[k] = row
    BY <2>1
  <2>4. rows \in [{k} -> Entries]
    BY <1>6, <2>1
  <2> QED BY <2>3, <2>4
<1>10. \A x \in Keys : all[x] = IF x = k THEN row ELSE entries[x]
  <2> HIDE DEF row
  <2> QED BY <1>3 DEF With
<1>11. /\ result \in RunStatuses \union {"ABSENT"}
       /\ next = "commit" /\ result = "COMPLETED" =>
            \A x \in Keys : all[x].status # "ABSENT" /\ all[x].run = run => all[x].status = "PAID"
  <2> HIDE DEF row, all
  <2> QED BY DecidedIs DEF RunStatuses
<1>12. /\ next \in {"loans", "commit"} /\ (next = "commit" => s # "PAID") /\ run = row.run
       /\ todo = {k[1]}
  OBVIOUS
<1> HIDE DEF row, rows, all, result, next, run, todo
<1>13. /\ j.step = next /\ j.op = op /\ j.todo = todo /\ j.period = k[2]
       /\ j.status = Idle.status /\ j.run = run /\ j.rows = rows /\ j.shares = Idle.shares
       /\ j.loans = Idle.loans /\ j.result = result /\ j.seen = Idle.seen
       /\ j.loan = Idle.loan /\ j.seenLoan = Idle.seenLoan
  BY IdleOK DEF JobOK, JobShape
<1> HIDE DEF j
<1>14. run \in Runs /\ run \in 0..MaxRuns
  BY <1>4, <1>6, <1>12, ShapeAssumption DEF Runs
<1>15. JobTypes(j)
  <2>1. todo \in SUBSET Employees /\ op \in OperationKinds /\ next \in Steps
    BY <1>7, <1>12, ShapeAssumption DEF Steps
  <2> QED BY <1>7, <1>9, <1>11, <1>13, <1>14, <2>1, IdleHeld DEF JobTypes
<1>16. ~Fresh(j) /\ j.step \notin {"idle", "edit", "loan", "settle"}
  BY <1>12, <1>13 DEF Fresh
<1>17. StepOK(j)
  <2>1. \A x \in DOMAIN j.rows : x = k /\ x[2] = j.period /\ j.rows[x].run \in Runs
    BY <1>4, <1>6, <1>9, <1>13
  <2>2. j.todo # {} /\ j.period \in Periods /\ DOMAIN j.loans = {}
    BY <1>7, <1>12, <1>13, IdleHeld
  <2>3. \A l \in Loans : j.shares[l] = 0
    BY <1>13, IdleHeld
  <2>4. j.todo = {Min(j.todo)} /\ <<Min(j.todo), j.period>> = k
    BY <1>7, <1>8, <1>12, <1>13
  <2>5. DOMAIN j.rows = {k} /\ j.run = j.rows[k].run
    BY <1>9, <1>12, <1>13
  <2>6. \A l \in Loans : ~(j.shares[l] > 0)
    BY <2>3
  <2> QED BY <1>16, <2>1, <2>2, <2>3, <2>4, <2>5, <2>6 DEF StepOK
<1>18. HeldBy(w, j)
  BY <1>2, <1>4, <1>5, <1>6, <1>9, <1>13, <1>16, IdleHeld DEF HeldBy, LoansFree
<1>19. NoEntryEdits /\ RunsOK => RunsBy(w, j)
  <2> SUFFICES ASSUME RunsOK PROVE RunsBy(w, j)
    OBVIOUS
  <2>1. runs[run] # "ABSENT"
    BY <1>2, <1>6, <1>12 DEF RunsOK
  <2>2. \A v \in Workers : Fresh(job[v]) => runs[job[v].run] = "ABSENT"
    BY DEF RunsOK, RunsBy
  <2>3. j.step = "commit" /\ j.result = "COMPLETED" =>
          \A x \in Keys :
            LET r == IF x \in DOMAIN j.rows THEN j.rows[x] ELSE entries[x]
            IN r.status # "ABSENT" /\ r.run = j.run => r.status = "PAID"
    BY <1>9, <1>10, <1>11, <1>13
  <2> QED BY <1>13, <1>16, <2>1, <2>2, <2>3 DEF RunsBy, Others
<1>20. SettledBy(j)
  BY <1>6, <1>9, <1>12, <1>13, <1>16, IdleHeld DEF SettledBy
<1> QED BY <1>2, <1>15, <1>17, <1>18, <1>19, <1>20, QuietBalanced

\* What a payment computes for its entry k under the locks that it takes.
LEMMA Pays ==
  ASSUME Kept, Balanced, NEW w \in Workers, job[w].step = "loans",
         NEW k, k = Current(w), NEW row, row = job[w].rows[k],
         NEW amount, amount = Deduction(k, row),
         NEW loans, loans = LoansToLock(k, AfterAdvance(row)),
         NEW shares, shares = Settlement(k[1], k[2], amount)
  PROVE  /\ k = <<Min(job[w].todo), job[w].period>> /\ k[1] = Min(job[w].todo)
         /\ k[2] = job[w].period /\ k \in Keys /\ k[1] \in Nat /\ k[2] \in Periods
         /\ job[w].todo = {k[1]} /\ DOMAIN job[w].rows = {k} /\ job[w].run = row.run
         /\ DOMAIN job[w].loans = {}
         /\ row \in Entries /\ row.run \in Runs /\ amount \in Nat
         /\ loans \in SUBSET Loans
         /\ shares \in [Loans -> Nat]
         /\ \A l \in Loans : shares[l] > 0 =>
              /\ LoanOf[l] = k[1] /\ repaid[l][k[2]] = 0 /\ l \in loans
              /\ shares[l] <= balance[l]
         /\ (\A l \in Loans : LoanOf[l] = k[1] => repaid[l][k[2]] = 0) => Sum(shares) = amount
<1>1. JobTypes(job[w]) /\ StepOK(job[w]) /\ HeldBy(w, job[w]) /\ Amounts
  BY JobFacts
<1>2. /\ job[w].todo # {} /\ job[w].period \in Periods /\ DOMAIN job[w].loans = {}
      /\ job[w].todo = {Min(job[w].todo)}
      /\ DOMAIN job[w].rows = {<<Min(job[w].todo), job[w].period>>}
      /\ job[w].run = job[w].rows[<<Min(job[w].todo), job[w].period>>].run
      /\ \A x \in DOMAIN job[w].rows : job[w].rows[x].run \in Runs
  BY <1>1 DEF StepOK, Paying
<1>3. /\ k = <<Min(job[w].todo), job[w].period>> /\ k[1] = Min(job[w].todo)
      /\ k[2] = job[w].period /\ k \in Keys /\ k[1] \in Nat /\ k[2] \in Periods
  BY <1>2, CurrentIs
<1>4. row \in Entries /\ row.run \in Runs
  BY <1>1, <1>2, <1>3 DEF JobTypes
<1>5. AfterAdvance(row) \in Nat
  BY <1>4, AfterAdvanceNat
<1>6. \A ee : \A pp \in Periods : \A aa \in Nat :
        /\ Planned(ee, pp, aa) \in Nat
        /\ Planned(ee, pp, aa) <= aa
        /\ Planned(ee, pp, aa) <= SumFunctionOnSet(balance, Eligible(ee, pp))
  BY <1>1, PlannedBounds
<1>7. /\ amount \in Nat /\ amount <= AfterAdvance(row)
      /\ amount <= SumFunctionOnSet(balance, Eligible(k[1], k[2]))
  BY <1>3, <1>5, <1>6 DEF Deduction
<1>8. \A l \in Loans : \A dd \in Nat : \A pp \in Periods : \A ee :
        LET o == Settlement(ee, pp, dd)
        IN /\ o[l] \in Nat
           /\ o[l] > 0 => /\ l \in Eligible(ee, pp) /\ LoanOf[l] = ee
                          /\ repaid[l][pp] = 0 /\ o[l] <= balance[l] /\ dd > 0
  BY <1>1, SettlementsBounded
<1>9. \A l \in Loans :
        /\ shares[l] \in Nat
        /\ shares[l] > 0 => /\ l \in Eligible(k[1], k[2]) /\ LoanOf[l] = k[1]
                            /\ repaid[l][k[2]] = 0 /\ shares[l] <= balance[l] /\ amount > 0
  BY <1>3, <1>7, <1>8
<1>10. amount > 0 => loans = Eligible(k[1], k[2])
  <2>1. amount > 0 => AfterAdvance(row) > 0
    BY <1>5, <1>7
  <2> QED BY <2>1 DEF LoansToLock
<1>11. loans \in SUBSET Loans
  BY DEF LoansToLock, Eligible
<1>12. shares \in [Loans -> Nat]
  <2>1. shares = [l \in Loans |-> shares[l]]
    BY DEF Settlement, Spread
  <2> QED BY <1>9, <2>1
<1>13. (\A l \in Loans : LoanOf[l] = k[1] => repaid[l][k[2]] = 0) => Sum(shares) = amount
  BY <1>1, <1>3, <1>7, SettlementSum
<1> QED BY <1>2, <1>3, <1>4, <1>7, <1>9, <1>10, <1>11, <1>12, <1>13

LEMMA PayLoansBalanced ==
  ASSUME Kept, Balanced, NEW w \in Workers, PayLoans(w) PROVE Balanced'
<1> DEFINE k == Current(w)
           row == job[w].rows[k]
           amount == Deduction(k, row)
           loans == LoansToLock(k, AfterAdvance(row))
           paidRow == [row EXCEPT !.status = "PAID", !.paid = TRUE, !.loan = amount]
           rows == With(job[w].rows, k, paidRow)
           locked == WithLocked(job[w].loans, loans)
           shares == Settlement(k[1], k[2], paidRow.loan)
           all == With(entries, k, paidRow)
           result == Decided(job[w].op, row.run, all)
           j == [job[w] EXCEPT !.rows = rows, !.loans = locked, !.shares = shares,
                               !.result = result, !.step = "commit"]
<1>0. job' = [job EXCEPT ![w] = j] /\ UNCHANGED dbVars /\ LoansFree(w, loans)
  BY DEF PayLoans
<1>1. /\ JobShape(job[w]) /\ JobTypes(job[w]) /\ StepOK(job[w]) /\ HeldBy(w, job[w])
      /\ job[w].step = "loans" /\ entries \in [Keys -> Entries]
  BY JobFacts DEF PayLoans, TypeOK
<1>2. k \in DOMAIN job[w].rows
  BY <1>1, CurrentIs DEF StepOK, Paying
<1>3. row \in Entries
  BY <1>1, <1>2 DEF JobTypes
<1>4. paidRow.loan = amount
  BY <1>3 DEF Entries
<1>5. shares = Settlement(k[1], k[2], amount)
  BY <1>4
<1> HIDE DEF paidRow, shares
<1>6. /\ k = <<Min(job[w].todo), job[w].period>> /\ k[1] = Min(job[w].todo)
      /\ k[2] = job[w].period /\ k \in Keys /\ k[1] \in Nat /\ k[2] \in Periods
      /\ job[w].todo = {k[1]} /\ DOMAIN job[w].rows = {k} /\ job[w].run = row.run
      /\ DOMAIN job[w].loans = {}
      /\ row \in Entries /\ row.run \in Runs /\ amount \in Nat
      /\ loans \in SUBSET Loans
      /\ shares \in [Loans -> Nat]
      /\ \A l \in Loans : shares[l] > 0 =>
           /\ LoanOf[l] = k[1] /\ repaid[l][k[2]] = 0 /\ l \in loans
           /\ shares[l] <= balance[l]
      /\ (\A l \in Loans : LoanOf[l] = k[1] => repaid[l][k[2]] = 0) => Sum(shares) = amount
  <2> HIDE DEF k, row, amount, loans
  <2>1. /\ k = Current(w) /\ row = job[w].rows[k] /\ amount = Deduction(k, row)
        /\ loans = LoansToLock(k, AfterAdvance(row))
    BY DEF k, row, amount, loans
  <2> QED BY <1>1, <1>5, <2>1, Pays
<1>7. /\ paidRow \in Entries /\ paidRow.run = row.run /\ paidRow.status = "PAID"
      /\ paidRow.adv = row.adv /\ paidRow.loan = amount
  <2> HIDE DEF amount, row
  <2> QED BY <1>6 DEF paidRow, Entries, EntryStatuses
<1>8. /\ DOMAIN locked = loans /\ locked \in [DOMAIN locked -> Nat] /\ DOMAIN locked \subseteq Loans
      /\ \A l \in DOMAIN locked : locked[l] = balance[l]
      /\ LoansFree(w, DOMAIN locked)
  <2> HIDE DEF k, row, amount, loans
  <2>1. /\ DOMAIN locked = DOMAIN job[w].loans \union loans
        /\ locked \in [DOMAIN locked -> Nat] /\ DOMAIN locked \subseteq Loans
        /\ \A l \in DOMAIN locked : locked[l] = balance[l]
        /\ LoansFree(w, DOMAIN locked)
    <3>1. loans \in SUBSET Loans /\ LoansFree(w, loans)
      BY <1>0, <1>6
    <3> QED BY <3>1, LockedAny
  <2> QED BY <1>6, <2>1
<1>9. DOMAIN rows = {k} /\ rows[k] = paidRow /\ rows \in [DOMAIN rows -> Entries]
  <2> HIDE DEF k
  <2>1. rows = [x \in {k} \union {k} |-> IF x = k THEN paidRow ELSE job[w].rows[x]]
    BY <1>6 DEF With
  <2>2. DOMAIN rows = {k} /\ rows[k] = paidRow
    BY <2>1
  <2>3. rows \in [{k} -> Entries]
    BY <1>7, <2>1
  <2> QED BY <2>2, <2>3
<1>10. \A x \in Keys : all[x] = IF x = k THEN paidRow ELSE entries[x]
  <2> HIDE DEF k
  <2> QED BY <1>1 DEF With
<1>11. /\ result \in RunStatuses \union {"ABSENT"}
       /\ result = "COMPLETED" =>
            \A x \in Keys : all[x].status # "ABSENT" /\ all[x].run = row.run => all[x].status = "PAID"
  <2> HIDE DEF row, all
  <2> QED BY DecidedIs
<1> HIDE DEF k, row, amount, loans, rows, locked, all, result
<1>12. /\ j.step = "commit" /\ j.op = job[w].op /\ j.todo = job[w].todo
       /\ j.period = job[w].period /\ j.status = job[w].status /\ j.run = job[w].run
       /\ j.rows = rows /\ j.shares = shares /\ j.loans = locked
       /\ j.result = result /\ j.seen = job[w].seen /\ j.loan = job[w].loan
       /\ j.seenLoan = job[w].seenLoan
  BY <1>1 DEF JobShape
<1> HIDE DEF j
<1>13. JobTypes(j)
  BY <1>1, <1>6, <1>8, <1>9, <1>11, <1>12 DEF JobTypes, Steps
<1>14. ~Fresh(j) /\ Paying(j) /\ Paying(job[w]) /\ ~Fresh(job[w])
  BY <1>1, <1>12 DEF Fresh, Paying
<1>15. StepOK(j)
  <2>1. \A x \in DOMAIN j.rows : x[2] = j.period /\ j.rows[x].run \in Runs
    BY <1>6, <1>7, <1>9, <1>12
  <2>2. \A l \in Loans : j.shares[l] > 0 => l \in DOMAIN j.loans /\ j.shares[l] <= j.loans[l]
    BY <1>6, <1>8, <1>12
  <2>3. /\ j.todo = {Min(j.todo)} /\ j.todo # {} /\ j.period \in Periods
        /\ DOMAIN j.rows = {<<Min(j.todo), j.period>>}
        /\ j.run = j.rows[<<Min(j.todo), j.period>>].run
    BY <1>6, <1>7, <1>9, <1>12
  <2> QED BY <1>12, <1>14, <2>1, <2>2, <2>3 DEF StepOK
<1>16. /\ EntryFree(w, k) /\ entries[k].status \notin {"ABSENT", "PAID"}
       /\ entries[k].run = row.run /\ entries[k].adv = row.adv
  BY <1>1, <1>2, <1>14 DEF HeldBy, row
<1>17. HeldBy(w, j)
  <2>1. \A x \in DOMAIN j.rows :
          /\ EntryFree(w, x)
          /\ entries[x].status \notin {"ABSENT", "PAID"}
          /\ entries[x].run = j.rows[x].run
          /\ entries[x].adv = j.rows[x].adv
    BY <1>7, <1>9, <1>12, <1>16
  <2>2. \A l \in Loans : j.shares[l] > 0 => repaid[l][j.period] = 0
    BY <1>6, <1>12
  <2> QED BY <1>8, <1>12, <1>14, <2>1, <2>2 DEF HeldBy
<1>18. RunsOK => RunsBy(w, j)
  <2> SUFFICES ASSUME RunsOK PROVE RunsBy(w, j)
    OBVIOUS
  <2>1. RunsBy(w, job[w])
    BY DEF RunsOK
  <2>2. j.result = "COMPLETED" =>
          \A x \in Keys :
            LET r == IF x \in DOMAIN j.rows THEN j.rows[x] ELSE entries[x]
            IN r.status # "ABSENT" /\ r.run = j.run => r.status = "PAID"
    <3>1. \A x \in Keys : all[x] = IF x \in DOMAIN j.rows THEN j.rows[x] ELSE entries[x]
      BY <1>9, <1>10, <1>12
    <3>2. j.run = row.run /\ j.result = result
      BY <1>6, <1>12
    <3> QED BY <1>11, <3>1, <3>2
  <2> QED BY <1>12, <1>14, <2>1, <2>2 DEF RunsBy
<1>19. SettledOK => SettledBy(j)
  <2> SUFFICES ASSUME SettledOK PROVE SettledBy(j)
    OBVIOUS
  <2>1. \A l \in Loans : LoanOf[l] = k[1] => repaid[l][k[2]] = 0
    <3> SUFFICES ASSUME NEW l \in Loans, LoanOf[l] = k[1], repaid[l][k[2]] # 0 PROVE FALSE
      OBVIOUS
    <3>1. repaid[l][k[2]] > 0
      BY <1>6, JobFacts DEF Amounts
    <3>2. <<LoanOf[l], k[2]>> = k
      BY <1>6
    <3> QED BY ZenonT(60), <1>6, <1>16, <3>1, <3>2 DEF SettledOK
  <2> QED BY ZenonT(60), <1>6, <1>7, <1>9, <1>12, <1>14, <2>1 DEF SettledBy
<1> QED BY <1>0, <1>13, <1>15, <1>17, <1>18, <1>19, QuietBalanced

----
(* Requests that read a row to save it later, and those that fail. *)

LEMMA EditLoadBalanced ==
  ASSUME Kept, Balanced, NEW w \in Workers, EditLoad(w) PROVE Balanced'
<1>1. PICK k \in Keys, g \in EditGross : 
        /\ Present(k)
        /\ \E s \in EditStatuses \union {entries[k].status} :
             job' = [job EXCEPT ![w] =
               [Idle EXCEPT !.step = "edit", !.op = "edit_entry", !.todo = {k[1]},
                  !.period = k[2],
                  !.seen = [entries[k] EXCEPT !.gross = g, !.status = s]]]
  BY DEF EditLoad
<1>2. PICK s \in EditStatuses \union {entries[k].status} :
        job' = [job EXCEPT ![w] =
          [Idle EXCEPT !.step = "edit", !.op = "edit_entry", !.todo = {k[1]},
             !.period = k[2],
             !.seen = [entries[k] EXCEPT !.gross = g, !.status = s]]]
  BY <1>1
<1> DEFINE row == [entries[k] EXCEPT !.gross = g, !.status = s]
           todo == {k[1]}
           j == [Idle EXCEPT !.step = "edit", !.op = "edit_entry", !.todo = todo,
                             !.period = k[2], !.seen = row]
<1>3. /\ job' = [job EXCEPT ![w] = j] /\ UNCHANGED dbVars /\ Present(k)
      /\ "edit_entry" \in Operations
  BY <1>1, <1>2 DEF EditLoad
<1>4. entries[k] \in Entries /\ entries[k].run \in Runs
  BY <1>3 DEF Balanced, Held, TypeOK, RowsOK
<1>5. row \in Entries /\ row.run \in Runs
  BY <1>4, ShapeAssumption DEF Entries
<1>6. k[1] \in Employees /\ k[2] \in Periods /\ todo = {k[1]}
  BY DEF Keys
<1> HIDE DEF row, todo
<1>7. /\ j.step = "edit" /\ j.op = "edit_entry" /\ j.todo = todo /\ j.period = k[2]
      /\ j.status = Idle.status /\ j.run = Idle.run /\ j.rows = Idle.rows
      /\ j.shares = Idle.shares /\ j.loans = Idle.loans /\ j.result = Idle.result
      /\ j.seen = row /\ j.loan = Idle.loan /\ j.seenLoan = Idle.seenLoan
  BY IdleOK DEF JobOK, JobShape
<1> HIDE DEF j
<1>8. JobTypes(j)
  BY <1>5, <1>6, <1>7, IdleHeld DEF JobTypes, Steps, OperationKinds
<1>9. ~Fresh(j) /\ ~Paying(j)
  BY <1>7 DEF Fresh, Paying
<1>10. StepOK(j)
  <2>1. \A l \in Loans : ~(j.shares[l] > 0) /\ j.shares[l] = 0
    BY <1>7, IdleHeld
  <2> QED BY <1>3, <1>5, <1>6, <1>7, <1>9, <2>1, IdleHeld DEF StepOK
<1>11. HeldBy(w, j)
  BY <1>7, IdleHeld DEF HeldBy, LoansFree
<1>12. ~NoEntryEdits
  BY <1>3 DEF NoEntryEdits
<1> QED BY <1>3, <1>8, <1>10, <1>11, <1>12, QuietBalanced

LEMMA LoanLoadBalanced ==
  ASSUME Kept, Balanced, NEW w \in Workers, LoanLoad(w) PROVE Balanced'
<1>0. PICK op \in {"cancel_loan", "edit_loan"} \intersect Operations, l \in Loans :
        \E t \in {terms[l]} \union EditTerms :
          job' = [job EXCEPT ![w] =
            [Idle EXCEPT !.step = "loan", !.op = op, !.loan = l,
               !.seenLoan = [balance |-> balance[l], status |-> loanStatus[l], terms |-> t]]]
  BY DEF LoanLoad
<1>1. PICK t \in {terms[l]} \union EditTerms :
        job' = [job EXCEPT ![w] =
          [Idle EXCEPT !.step = "loan", !.op = op, !.loan = l,
             !.seenLoan = [balance |-> balance[l], status |-> loanStatus[l], terms |-> t]]]
  BY <1>0
<1> DEFINE seen == [balance |-> balance[l], status |-> loanStatus[l], terms |-> t]
           j == [Idle EXCEPT !.step = "loan", !.op = op, !.loan = l, !.seenLoan = seen]
<1>2. job' = [job EXCEPT ![w] = j] /\ UNCHANGED dbVars
  BY <1>1 DEF LoanLoad
<1>3. balance[l] \in Nat /\ loanStatus[l] \in LoanStatuses /\ t \in Terms
  BY ShapeAssumption DEF Balanced, Held, TypeOK
<1>4. seen \in [balance : Nat, status : LoanStatuses \union {"ABSENT"}, terms : Terms] /\ seen.balance = balance[l]
  BY <1>3
<1>13. seen.status \in LoanStatuses
  BY <1>3
<1> HIDE DEF seen
<1>5. /\ j.step = "loan" /\ j.op = op /\ j.todo = Idle.todo /\ j.period = Idle.period
      /\ j.status = Idle.status /\ j.run = Idle.run /\ j.rows = Idle.rows
      /\ j.shares = Idle.shares /\ j.loans = Idle.loans /\ j.result = Idle.result
      /\ j.seen = Idle.seen /\ j.loan = l /\ j.seenLoan = seen
  BY IdleOK DEF JobOK, JobShape
<1> HIDE DEF j
<1>6. JobTypes(j)
  <2>1. l \in 0..NumLoans
    BY ShapeAssumption DEF Loans
  <2> QED BY <1>4, <1>5, <2>1, IdleHeld DEF JobTypes, Steps, OperationKinds
<1>7. ~Fresh(j) /\ ~Paying(j)
  BY <1>5 DEF Fresh, Paying
<1>8. StepOK(j)
  <2>1. \A x \in Loans : ~(j.shares[x] > 0) /\ j.shares[x] = 0
    BY <1>5, IdleHeld
  <2> QED BY <1>5, <1>7, <1>13, <2>1, IdleHeld DEF StepOK
<1>9. HeldBy(w, j)
  <2>1. LoanAmount[l] - seen.balance <= Repaid(l)
    BY <1>4 DEF Balanced, Held, LoanLossBacked
  <2> QED BY <1>5, <2>1, IdleHeld DEF HeldBy, LoansFree
<1>10. RunsBy(w, Idle)
  BY IdleRuns DEF Balanced
<1>11. RunsBy(w, j)
  BY <1>5, <1>7, <1>10 DEF RunsBy
<1>12. SettledBy(j)
  BY <1>5, <1>7 DEF SettledBy
<1> QED BY <1>2, <1>6, <1>8, <1>9, <1>11, <1>12, QuietBalanced

LEMMA FailBalanced ==
  ASSUME Kept, Balanced, NEW w \in Workers, Fail(w) PROVE Balanced'
BY IdleHeld, IdleHeldBy, IdleRuns, QuietBalanced DEF Fail, Respond, Balanced

----
(* Commits. *)

\* What a commit does to the tables: the rows of the request replace those in the
\* table, and its shares go from the balances of the loans to their repayments.
LEMMA Published ==
  ASSUME Kept, Balanced, NEW w \in Workers, Publish(w), Respond(w)
  PROVE  /\ terms' = terms /\ entries' \in [Keys -> Entries] /\ balance' \in [Loans -> Nat]
         /\ loanStatus' \in [Loans -> LoanStatuses] /\ repaid' \in [Loans -> [Periods -> Nat]]
         /\ \A k \in Keys : entries'[k] = IF k \in DOMAIN job[w].rows THEN job[w].rows[k]
                                          ELSE entries[k]
         /\ \A l \in Loans : /\ job[w].shares[l] \in Nat
                             /\ balance'[l] = balance[l] - job[w].shares[l]
                             /\ job[w].shares[l] > 0 => /\ job[w].period \in Periods
                                                        /\ l \in DOMAIN job[w].loans
                                                        /\ repaid[l][job[w].period] = 0
         /\ \A l \in Loans : \A p \in Periods :
              repaid'[l][p] = repaid[l][p] + (IF p = job[w].period THEN job[w].shares[l] ELSE 0)
         /\ DOMAIN job' = Workers
         /\ \A v \in Workers : job'[v] = IF v = w THEN Idle ELSE job[v]
<1> DEFINE j == job[w]
<1>1. JobTypes(j) /\ StepOK(j) /\ HeldBy(w, j) /\ TypeOK
  BY JobFacts
<1>2. \A l \in Loans : /\ j.shares[l] \in Nat /\ balance[l] \in Nat
                       /\ repaid[l] \in [Periods -> Nat] /\ loanStatus[l] \in LoanStatuses
  BY <1>1 DEF JobTypes, TypeOK
<1>3. \A l \in Loans : j.shares[l] > 0 =>
        /\ j.period \in Periods /\ l \in DOMAIN j.loans /\ repaid[l][j.period] = 0
        /\ j.loans[l] = balance[l] /\ j.shares[l] <= balance[l]
  <2>1. \A l \in Loans : j.shares[l] > 0 => j.shares[l] # 0
    BY <1>2
  <2> QED BY <1>1, <2>1 DEF StepOK, HeldBy
<1>4. /\ terms' = terms
      /\ entries' = [k \in Keys |-> IF k \in DOMAIN j.rows THEN j.rows[k] ELSE entries[k]]
      /\ balance' = [l \in Loans |->
           IF j.shares[l] > 0 THEN j.loans[l] - j.shares[l] ELSE balance[l]]
      /\ loanStatus' = [l \in Loans |->
           IF j.shares[l] > 0 /\ j.loans[l] = j.shares[l] THEN "COMPLETED" ELSE loanStatus[l]]
      /\ repaid' = [l \in Loans |->
           IF j.shares[l] > 0 THEN [repaid[l] EXCEPT ![j.period] = @ + j.shares[l]]
           ELSE repaid[l]]
  BY DEF Publish, Sees
<1>5. DOMAIN job' = Workers /\ \A v \in Workers : job'[v] = IF v = w THEN Idle ELSE job[v]
  BY <1>1 DEF Respond, TypeOK
<1> HIDE DEF j
<1>6. entries' \in [Keys -> Entries]
  <2>1. \A k \in Keys : (IF k \in DOMAIN j.rows THEN j.rows[k] ELSE entries[k]) \in Entries
    BY <1>1 DEF JobTypes, TypeOK
  <2> QED BY <1>4, <2>1
<1>7. \A l \in Loans : balance'[l] = balance[l] - j.shares[l] /\ balance'[l] \in Nat
  <2> TAKE l \in Loans
  <2>1. CASE j.shares[l] > 0
    BY <1>2, <1>3, <1>4, <2>1
  <2>2. CASE ~(j.shares[l] > 0)
    BY <1>2, <1>4, <2>2
  <2> QED BY <2>1, <2>2
<1>8. balance' \in [Loans -> Nat]
  <2>1. balance' = [l \in Loans |-> balance'[l]]
    BY <1>4
  <2> QED BY <1>7, <2>1
<1>9. loanStatus' \in [Loans -> LoanStatuses]
  BY <1>2, <1>4 DEF LoanStatuses
<1>10. ASSUME NEW l \in Loans
       PROVE  /\ repaid'[l] \in [Periods -> Nat]
              /\ \A p \in Periods :
                   repaid'[l][p] = repaid[l][p] + (IF p = j.period THEN j.shares[l] ELSE 0)
  <2>1. CASE j.shares[l] > 0
    <3>1. repaid'[l] = [repaid[l] EXCEPT ![j.period] = repaid[l][j.period] + j.shares[l]]
      BY <1>4, <2>1
    <3>2. \A p \in Periods :
            repaid'[l][p] = IF p = j.period THEN repaid[l][p] + j.shares[l] ELSE repaid[l][p]
      BY <1>2, <1>3, <2>1, <3>1
    <3>3. \A p \in Periods : repaid[l][p] \in Nat
      BY <1>2
    <3>4. repaid'[l] \in [Periods -> Nat]
      <4>1. repaid'[l] = [p \in Periods |-> repaid'[l][p]]
        BY <1>2, <3>1
      <4>2. \A p \in Periods : repaid'[l][p] \in Nat
        BY <1>2, <3>2, <3>3
      <4> QED BY <4>1, <4>2
    <3> QED BY <3>2, <3>3, <3>4
  <2>2. CASE ~(j.shares[l] > 0)
    <3>1. repaid'[l] = repaid[l] /\ j.shares[l] = 0
      BY <1>2, <1>4, <2>2
    <3>2. \A p \in Periods : repaid[l][p] \in Nat
      BY <1>2
    <3> QED BY <1>2, <3>1, <3>2
  <2> QED BY <2>1, <2>2
<1>11. repaid' \in [Loans -> [Periods -> Nat]]
  <2>1. repaid' = [l \in Loans |-> repaid'[l]]
    BY <1>4
  <2> QED BY <1>10, <2>1
<1> QED BY <1>2, <1>3, <1>4, <1>5, <1>6, <1>7, <1>8, <1>9, <1>10, <1>11 DEF j

\* What has been repaid of a loan grows by its share.
LEMMA PublishedRepaid ==
  ASSUME Kept, Balanced, NEW w \in Workers, Publish(w), Respond(w), NEW l \in Loans
  PROVE  /\ Repaid(l) \in Nat /\ Repaid(l)' = Repaid(l) + job[w].shares[l]
<1> DEFINE share == job[w].shares[l]
           p == job[w].period
           old == repaid[l]
           new == repaid'[l]
<1>1. /\ share \in Nat /\ (share > 0 => p \in Periods)
      /\ \A q \in Periods : new[q] = old[q] + (IF q = p THEN share ELSE 0)
      /\ new \in [Periods -> Nat]
  BY Published
<1>2. old \in [Periods -> Nat]
  BY JobFacts DEF Amounts
<1>3. Repaid(l) = SumFunctionOnSet(old, Periods) /\ Repaid(l)' = SumFunctionOnSet(new, Periods)
  BY DEF Repaid
<1>4. IsFiniteSet(Periods)
  BY ShapeAssumption
<1> HIDE DEF share, p, old, new
<1>5. SumFunctionOnSet(old, Periods) \in Nat
  BY <1>2, <1>4, SumNat
<1>6. CASE share > 0
  <2>1. p \in Periods /\ new[p] = old[p] + share /\ new[p] \in Int /\ old[p] \in Int
    BY <1>1, <1>2, <1>6
  <2>2. \A q \in Periods : old[q] \in Int
    BY <1>2
  <2>3. \A q \in Periods \ {p} : new[q] = old[q]
    BY <1>1, <1>2
  <2>4. SumFunctionOnSet(new, Periods) = SumFunctionOnSet(old, Periods) - old[p] + new[p]
    BY <1>4, <2>1, <2>2, <2>3, SumChange
  <2> DEFINE a == SumFunctionOnSet(new, Periods)
             b == SumFunctionOnSet(old, Periods)
  <2>5. a = b - old[p] + new[p] /\ b \in Nat
    BY <1>5, <2>4
  <2> HIDE DEF a, b
  <2>6. a = b + share
    BY <1>1, <2>1, <2>5
  <2> QED BY <1>3, <1>5, <2>6 DEF a, b, share
<1>7. CASE share = 0
  <2>1. \A q \in Periods : new[q] = old[q]
    BY <1>1, <1>2, <1>7
  <2>2. SumFunctionOnSet(new, Periods) = SumFunctionOnSet(old, Periods)
    BY <1>4, <2>1, SumSame
  <2>3. SumFunctionOnSet(old, Periods) = SumFunctionOnSet(old, Periods) + share
    BY <1>5, <1>7
  <2> QED BY <1>3, <1>5, <2>2, <2>3 DEF share
<1> QED BY <1>1, <1>6, <1>7

\* A commit keeps what the tables say of the rows that others have locked, and every
\* loan accounts for what it loses.
LEMMA PublishHeld ==
  ASSUME Kept, Balanced, NEW w \in Workers, Publish(w), Respond(w),
         runs' \in [Runs -> RunStatuses \union {"ABSENT", "DELETED"}],
         left' \in [Keys -> Nat],
         \A k \in Keys : k \notin DOMAIN job[w].rows => left'[k] = left[k]
  PROVE  Held' /\ (LoanAdds => LoanAdds')
<1>1. /\ terms' = terms /\ entries' \in [Keys -> Entries] /\ balance' \in [Loans -> Nat]
      /\ loanStatus' \in [Loans -> LoanStatuses] /\ repaid' \in [Loans -> [Periods -> Nat]]
      /\ \A k \in Keys : entries'[k] = IF k \in DOMAIN job[w].rows THEN job[w].rows[k]
                                       ELSE entries[k]
      /\ \A l \in Loans : /\ job[w].shares[l] \in Nat
                          /\ balance'[l] = balance[l] - job[w].shares[l]
                          /\ job[w].shares[l] > 0 => l \in DOMAIN job[w].loans
      /\ \A l \in Loans : \A p \in Periods :
           repaid'[l][p] = repaid[l][p] + (IF p = job[w].period THEN job[w].shares[l] ELSE 0)
      /\ DOMAIN job' = Workers
      /\ \A v \in Workers : job'[v] = IF v = w THEN Idle ELSE job[v]
  BY Published
<1>2. /\ JobOK(job[w]) /\ JobTypes(job[w]) /\ StepOK(job[w]) /\ HeldBy(w, job[w]) /\ TypeOK
      /\ RowsOK /\ LoanLossBacked
  BY JobFacts DEF Balanced, Held
<1>3. \A l \in Loans : Repaid(l) \in Nat /\ Repaid(l)' = Repaid(l) + job[w].shares[l]
  BY PublishedRepaid
<1>4. \A l \in Loans : balance[l] \in Nat /\ LoanAmount[l] \in Nat
  BY <1>2, ShapeAssumption DEF TypeOK
<1>5. TypeOK'
  <2>1. \A v \in Workers : JobTypes(job'[v])
    BY <1>1, <1>2, IdleHeld DEF TypeOK
  <2>2. \A v \in Workers : JobTypes(job[v])'
    BY <2>1 DEF JobTypes
  <2> QED BY <1>1, <1>2, <2>2 DEF TypeOK
<1>6. RowsOK'
  <2> SUFFICES ASSUME NEW k \in Keys
               PROVE  IF entries'[k].status # "ABSENT" THEN entries'[k].run \in Runs
                      ELSE entries'[k] = Absent
    BY DEF RowsOK, Present
  <2>1. CASE k \in DOMAIN job[w].rows
    <3>1. entries'[k].status \in EntryStatuses /\ entries'[k].run \in Runs
      BY <1>1, <1>2, <2>1 DEF JobOK, StepOK
    <3> QED BY <3>1 DEF EntryStatuses
  <2>2. CASE k \notin DOMAIN job[w].rows
    BY <1>1, <1>2, <2>2 DEF RowsOK, Present
  <2> QED BY <2>1, <2>2
<1>7. LoanLossBacked'
  <2> SUFFICES ASSUME NEW l \in Loans
               PROVE  LoanAmount[l] - balance'[l] <= Repaid(l)'
    BY DEF LoanLossBacked
  <2>1. LoanAmount[l] - balance[l] <= Repaid(l)
    BY <1>2 DEF LoanLossBacked
  <2> DEFINE r == Repaid(l)
             q == Repaid(l)'
             s == job[w].shares[l]
  <2>2. /\ r \in Nat /\ q = r + s /\ s \in Nat /\ LoanAmount[l] - balance[l] <= r
        /\ balance'[l] = balance[l] - s
    BY <1>1, <1>3, <2>1
  <2> HIDE DEF r, q, s
  <2>3. LoanAmount[l] - balance'[l] <= q
    BY <1>4, <2>2
  <2> QED BY <2>3 DEF q
<1>8. LoanAdds => LoanAdds'
  <2> SUFFICES ASSUME LoanAdds, NEW l \in Loans
               PROVE  terms'[l].amount = balance'[l] + Repaid(l)'
    BY DEF LoanAdds
  <2>1. terms'[l].amount = balance[l] + Repaid(l)
    BY <1>1 DEF LoanAdds
  <2> DEFINE r == Repaid(l)
             q == Repaid(l)'
             s == job[w].shares[l]
  <2>2. /\ r \in Nat /\ q = r + s /\ s \in Nat /\ terms'[l].amount = balance[l] + r
        /\ balance'[l] = balance[l] - s
    BY <1>1, <1>3, <2>1
  <2> HIDE DEF r, q, s
  <2>3. terms'[l].amount = balance'[l] + q
    BY <1>4, <2>2
  <2> QED BY <2>3 DEF q
<1>9. ASSUME NEW v \in Workers
      PROVE  StepOK(job[v])' /\ HeldBy(v, job[v])'
  <2>1. StepOK(job'[v])
    BY <1>1, IdleHeld DEF Balanced, Held
  <2>2. StepOK(job[v])'
    BY <2>1 DEF StepOK, Fresh, Paying
  <2>3. CASE v = w
    BY <1>1, <2>2, <2>3, IdleHeld DEF HeldBy, LoansFree, Fresh, Paying
  <2>4. CASE v # w
    <3>1. /\ HeldBy(v, job[v]) /\ StepOK(job[v]) /\ JobTypes(job[v]) /\ job'[v] = job[v]
      BY <1>1, <2>4, JobFacts
    <3>2. \A k \in DOMAIN job[v].rows :
            /\ k \in Keys /\ k \notin DOMAIN job[w].rows
            /\ entries'[k] = entries[k] /\ left'[k] = left[k]
      <4>1. \A k \in DOMAIN job[v].rows : k \in Keys /\ k \notin DOMAIN job[w].rows
        BY <2>4, <3>1 DEF HeldBy, EntryFree, Others, JobTypes
      <4> QED BY <1>1, <4>1
    <3>3. \A k : EntryFree(v, k) => EntryFree(v, k)'
      <4>1. \A u \in Others(v) : DOMAIN job'[u].rows \subseteq DOMAIN job[u].rows
        BY <1>1, IdleHeld DEF Others
      <4> QED BY <4>1 DEF EntryFree, Others
    <3>4. \A l \in DOMAIN job[v].loans :
            l \in Loans /\ balance'[l] = balance[l] /\ job[w].shares[l] = 0
      <4>1. \A l \in DOMAIN job[v].loans : l \in Loans /\ l \notin DOMAIN job[w].loans
        BY <2>4, <3>1 DEF HeldBy, LoansFree, Others, JobTypes
      <4>2. \A l \in Loans : l \notin DOMAIN job[w].loans => job[w].shares[l] = 0
        BY <1>1
      <4> QED BY <1>1, <1>4, <4>1, <4>2
    <3>5. LoansFree(v, DOMAIN job[v].loans)'
      <4>1. \A u \in Others(v) : DOMAIN job'[u].loans \subseteq DOMAIN job[u].loans
        BY <1>1, IdleHeld DEF Others
      <4> QED BY <3>1, <4>1 DEF HeldBy, LoansFree, Others
    <3>6. \A l \in Loans : job[v].shares[l] > 0 => repaid'[l][job[v].period] = 0
      <4> SUFFICES ASSUME NEW l \in Loans, job[v].shares[l] > 0
                   PROVE  repaid'[l][job[v].period] = 0
        OBVIOUS
      <4>1. l \in DOMAIN job[v].loans /\ repaid[l][job[v].period] = 0
        BY <3>1 DEF StepOK, HeldBy
      <4>2. job[v].period \in Periods
        <5>1. job[v].step \notin {"idle", "loan"}
          BY <3>1 DEF StepOK
        <5> QED BY <3>1, <5>1 DEF StepOK
      <4> QED BY <1>1, <3>4, <4>1, <4>2
    <3>7. job[v].step = "loan" =>
            LoanAmount[job[v].loan] - job[v].seenLoan.balance <= Repaid(job[v].loan)'
      <4> SUFFICES ASSUME job[v].step = "loan"
                   PROVE  LoanAmount[job[v].loan] - job[v].seenLoan.balance <= Repaid(job[v].loan)'
        OBVIOUS
      <4> DEFINE l == job[v].loan
                 r == Repaid(l)
                 q == SumFunctionOnSet(repaid'[l], Periods)
                 b == job[v].seenLoan.balance
      <4>1. l \in Loans /\ LoanAmount[l] - b <= r /\ b \in Nat
        BY <3>1 DEF StepOK, HeldBy, JobTypes
      <4>2. \A x \in Loans : SumFunctionOnSet(repaid'[x], Periods) = Repaid(x) + job[w].shares[x]
        BY <1>3 DEF Repaid
      <4>3. q = r + job[w].shares[l] /\ r \in Nat /\ job[w].shares[l] \in Nat
        BY <1>1, <1>3, <4>1, <4>2
      <4>4. LoanAmount[l] \in Nat
        BY <1>4, <4>1
      <4>5. Repaid(job[v].loan)' = q
        BY <3>1 DEF Repaid
      <4> HIDE DEF l, r, q, b
      <4>6. LoanAmount[l] - b <= q
        BY <4>1, <4>3, <4>4
      <4> QED BY <4>5, <4>6 DEF l, b
    <3>8. (\A k \in DOMAIN job[v].rows :
             /\ EntryFree(v, k)
             /\ Fresh(job[v]) => ~Present(k) /\ job[v].rows[k].adv <= left[k]
             /\ Paying(job[v]) => /\ entries[k].status \notin {"ABSENT", "PAID"}
                                  /\ entries[k].run = job[v].rows[k].run
                                  /\ entries[k].adv = job[v].rows[k].adv)'
      BY <3>1, <3>2, <3>3 DEF HeldBy, Fresh, Paying, Present
    <3>9. (job[v].step = "loan" =>
             LoanAmount[job[v].loan] - job[v].seenLoan.balance <= Repaid(job[v].loan))'
      BY <3>1, <3>7
    <3>10. (\A l \in DOMAIN job[v].loans : job[v].loans[l] = balance[l])'
      BY <3>1, <3>4 DEF HeldBy
    <3> QED BY <2>2, <3>1, <3>5, <3>6, <3>8, <3>9, <3>10 DEF HeldBy
  <2> QED BY <2>3, <2>4
<1> QED BY <1>5, <1>6, <1>7, <1>8, <1>9 DEF Held

\* A commit settles what its paid entry deducts, and nothing else.
LEMMA PublishSettled ==
  ASSUME Kept, Balanced, SettledOK, NoneGeneratedPaid,
         NEW w \in Workers, Publish(w), Respond(w),
         job[w].step \in {"check", "commit"}
  PROVE  SettledOK'
<1> DEFINE j == job[w]
<1>1. /\ repaid' \in [Loans -> [Periods -> Nat]]
      /\ \A k \in Keys : entries'[k] = IF k \in DOMAIN j.rows THEN j.rows[k] ELSE entries[k]
      /\ \A l \in Loans : /\ j.shares[l] \in Nat
                          /\ j.shares[l] > 0 => repaid[l][j.period] = 0
      /\ \A l \in Loans : \A p \in Periods :
           repaid'[l][p] = repaid[l][p] + (IF p = j.period THEN j.shares[l] ELSE 0)
      /\ \A v \in Workers : job'[v] = IF v = w THEN Idle ELSE job[v]
  BY Published
<1>2. /\ JobOK(j) /\ JobTypes(j) /\ StepOK(j) /\ HeldBy(w, j) /\ Amounts /\ SettledBy(j)
  BY JobFacts DEF SettledOK
<1>3. \A l \in Loans : \A p \in Periods : repaid[l][p] \in Nat /\ <<LoanOf[l], p>> \in Keys
  BY <1>2, ShapeAssumption DEF Amounts, Keys
\* What the request has locked is not paid in the table.
<1>4. \A k \in DOMAIN j.rows : k \in Keys /\ entries[k].status # "PAID"
  <2>1. CASE Fresh(j)
    BY <1>2, <2>1 DEF HeldBy, JobTypes, Present
  <2>2. CASE Paying(j)
    BY <1>2, <2>2 DEF HeldBy, JobTypes
  <2> QED BY <2>1, <2>2 DEF Fresh, Paying
\* A loan receives a share from the entry of its employee alone, which is paid with it.
<1>5. ASSUME NEW l \in Loans, j.shares[l] > 0
      PROVE  /\ j.step = "commit" /\ j.period \in Periods
             /\ DOMAIN j.rows = {<<LoanOf[l], j.period>>}
             /\ j.rows[<<LoanOf[l], j.period>>].status = "PAID"
  <2>0. j.shares[l] # 0
    BY <1>1, <1>5
  <2>1. j.step = "commit"
    BY <1>2, <1>5, <2>0 DEF SettledBy, Fresh
  <2>2. <<LoanOf[l], j.period>> \in DOMAIN j.rows
    BY <1>2, <1>5 DEF JobOK
  <2>3. DOMAIN j.rows = {<<LoanOf[l], j.period>>} /\ j.period \in Periods
    BY <1>2, <2>1, <2>2 DEF StepOK, Paying
  <2>4. j.rows[<<LoanOf[l], j.period>>].status = "PAID"
    BY <1>2, <1>5, <2>0, <2>1, <2>2 DEF SettledBy
  <2> QED BY <2>1, <2>3, <2>4
<1> HIDE DEF j
\* Entries that the request has not locked receive nothing from it.
<1>6. ASSUME NEW k \in Keys, k \notin DOMAIN j.rows, NEW l \in Loans, LoanOf[l] = k[1]
      PROVE  repaid'[l][k[2]] = repaid[l][k[2]]
  <2>1. k[2] \in Periods /\ k = <<LoanOf[l], k[2]>>
    BY <1>6 DEF Keys
  <2>2. CASE j.shares[l] > 0
    <3>1. k[2] # j.period
      BY <1>5, <1>6, <2>1, <2>2
    <3> QED BY <1>1, <1>3, <2>1, <3>1
  <2>3. CASE ~(j.shares[l] > 0)
    BY <1>1, <1>3, <2>1, <2>3
  <2> QED BY <2>2, <2>3
<1>7. \A l \in Loans, p \in Periods :
        repaid'[l][p] > 0 => entries'[<<LoanOf[l], p>>].status = "PAID"
  <2> SUFFICES ASSUME NEW l \in Loans, NEW p \in Periods, repaid'[l][p] > 0
               PROVE  entries'[<<LoanOf[l], p>>].status = "PAID"
    OBVIOUS
  <2> DEFINE k == <<LoanOf[l], p>>
  <2>1. k \in Keys /\ k[1] = LoanOf[l] /\ k[2] = p
    BY <1>3
  <2>2. CASE j.shares[l] > 0 /\ p = j.period
    <3>1. k \in DOMAIN j.rows /\ j.rows[k].status = "PAID"
      BY <1>5, <2>2
    <3> QED BY <1>1, <2>1, <3>1
  <2>3. CASE ~(j.shares[l] > 0 /\ p = j.period)
    <3>1. repaid'[l][p] = repaid[l][p]
      <4>1. (IF p = j.period THEN j.shares[l] ELSE 0) = 0
        BY <1>1, <2>3
      <4>2. repaid'[l][p] = repaid[l][p] + 0 /\ repaid[l][p] \in Nat
        BY ZenonT(60), <1>1, <1>3, <4>1
      <4> QED BY <4>2
    <3>2. entries[k].status = "PAID"
      BY <3>1 DEF SettledOK
    <3> QED BY <1>1, <1>4, <2>1, <3>2
  <2> QED BY <2>2, <2>3
<1>8. PaidSettled'
  <2> SUFFICES ASSUME NEW k \in Keys, entries'[k].status = "PAID"
               PROVE  entries'[k].loan = RepaidBy(k)'
    BY DEF PaidSettled
  <2> DEFINE new == [l \in Loans |-> IF LoanOf[l] = k[1] THEN repaid'[l][k[2]] ELSE 0]
             old == [l \in Loans |-> IF LoanOf[l] = k[1] THEN repaid[l][k[2]] ELSE 0]
  <2>1. RepaidBy(k)' = SumFunctionOnSet(new, Loans) /\ RepaidBy(k) = SumFunctionOnSet(old, Loans)
    BY DEF RepaidBy, Sum
  <2>2. CASE k \notin DOMAIN j.rows
    <3>1. entries[k].loan = RepaidBy(k) /\ entries'[k] = entries[k]
      BY <1>1, <2>2 DEF SettledOK, PaidSettled
    <3>2. \A l \in Loans : new[l] = old[l]
      BY <1>6, <2>2
    <3> HIDE DEF new, old
    <3>3. SumFunctionOnSet(new, Loans) = SumFunctionOnSet(old, Loans)
      BY <3>2, LoansFinite, SumSame
    <3> QED BY <2>1, <3>1, <3>3
  <2>3. CASE k \in DOMAIN j.rows
    <3>1. j.rows[k].status = "PAID" /\ entries'[k] = j.rows[k]
      BY <1>1, <2>3
    <3>2. j.step = "commit"
      <4>1. ~Fresh(j)
        BY <1>2, <2>3, <3>1 DEF StepOK, NoneGeneratedPaid, j
      <4> QED BY <4>1 DEF Fresh, j
    <3>3. entries'[k].loan = SumFunctionOnSet(j.shares, Loans)
      BY <1>2, <2>3, <3>1, <3>2 DEF SettledBy, Sum
    <3>4. k[2] = j.period /\ k[2] \in Periods /\ k = <<k[1], k[2]>>
      BY <1>2, <2>3 DEF StepOK, Keys
    <3>5. \A l \in Loans : j.shares[l] = new[l]
      <4> TAKE l \in Loans
      <4>1. CASE LoanOf[l] = k[1]
        <5>1. <<LoanOf[l], k[2]>> = k
          BY <3>4, <4>1
        <5>2. ~(repaid[l][k[2]] > 0)
          BY <1>4, <2>3, <3>4, <5>1 DEF SettledOK
        <5>3. repaid[l][k[2]] = 0
          <6>1. repaid[l][k[2]] \in Nat
            BY <1>3, <3>4
          <6> QED BY <5>2, <6>1
        <5>4. repaid'[l][k[2]] = 0 + j.shares[l] /\ j.shares[l] \in Nat
          BY <1>1, <3>4, <5>3
        <5> QED BY <4>1, <5>4
      <4>2. CASE LoanOf[l] # k[1]
        <5>1. ~(j.shares[l] > 0)
          <6>1. k # <<LoanOf[l], j.period>>
            BY <3>4, <4>2
          <6> QED BY <1>5, <2>3, <6>1
        <5> QED BY <1>1, <4>2, <5>1
      <4> QED BY <4>1, <4>2
    <3> DEFINE s == j.shares
    <3> HIDE DEF new, s
    <3>6. SumFunctionOnSet(s, Loans) = SumFunctionOnSet(new, Loans)
      BY ZenonT(60), <3>5, LoansFinite, SumSame DEF s
    <3> QED BY <2>1, <3>3, <3>6 DEF s
  <2> QED BY <2>2, <2>3
<1>9. \A v \in Workers : SettledBy(job[v])'
  <2>1. \A v \in Workers : SettledBy(job'[v])
    BY <1>1, IdleHeld DEF SettledOK
  <2> QED BY <2>1 DEF SettledBy, Fresh, Sum
<1> QED BY <1>7, <1>8, <1>9 DEF SettledOK

\* The run of a generation comes to the table with its entries, or not at all.
LEMMA FreshRunsKept ==
  ASSUME Kept, Balanced, RunsOK, NEW w \in Workers, Publish(w), Respond(w), Fresh(job[w]),
         runs' = [runs EXCEPT ![job[w].run] = RunStatusMap[job[w].status]]
           \/ (runs' = runs /\ DOMAIN job[w].rows = {})
  PROVE  RunsOK'
<1> DEFINE j == job[w]
<1>1. /\ \A k \in Keys : entries'[k] = IF k \in DOMAIN j.rows THEN j.rows[k] ELSE entries[k]
      /\ \A v \in Workers : job'[v] = IF v = w THEN Idle ELSE job[v]
  BY Published
<1>2. /\ JobOK(j) /\ JobTypes(j) /\ StepOK(j) /\ HeldBy(w, j) /\ RunsBy(w, j) /\ RowsOK /\ TypeOK
  BY JobFacts DEF RunsOK, Balanced, Held
<1>3. /\ runs[j.run] = "ABSENT" /\ j.run \in Runs /\ j.status \in EntryStatuses
      /\ \A v \in Others(w) : job[v].run # j.run
      /\ \A k \in DOMAIN j.rows : j.rows[k].run = j.run /\ j.rows[k].status = j.status
  BY <1>2, ShapeAssumption DEF RunsBy, StepOK
<1>4. /\ RunStatusMap[j.status] # "ABSENT"
      /\ RunStatusMap[j.status] = "COMPLETED" => j.status = "PAID"
  BY <1>3 DEF RunStatusMap, EntryStatuses
<1>5. /\ \A r \in Runs : r # j.run => runs'[r] = runs[r]
      /\ DOMAIN j.rows # {} => runs'[j.run] = RunStatusMap[j.status]
  BY <1>2, <1>3 DEF TypeOK
<1> HIDE DEF j
\* The entries in the table are of other runs.
<1>6. \A k \in Keys : Present(k) => /\ entries[k].run \in Runs /\ entries[k].run # j.run
                                    /\ runs'[entries[k].run] = runs[entries[k].run]
  BY <1>2, <1>3, <1>5 DEF RunsOK, RowsOK
<1>7. ASSUME NEW k \in Keys, entries'[k].status # "ABSENT"
      PROVE  /\ runs'[entries'[k].run] # "ABSENT"
             /\ runs'[entries'[k].run] = "COMPLETED" => entries'[k].status = "PAID"
  <2>1. CASE k \in DOMAIN j.rows
    BY <1>1, <1>3, <1>4, <1>5, <2>1
  <2>2. CASE k \notin DOMAIN j.rows
    BY <1>1, <1>6, <1>7, <2>2 DEF RunsOK, RunCompleteSound, Present
  <2> QED BY <2>1, <2>2
<1>8. ASSUME NEW v \in Workers
      PROVE  RunsBy(v, job[v])'
  <2>1. CASE v = w
    <3>1. \A u \in Workers : Fresh(job[u]) => job[u].run # 0
      <4>1. 0 \notin Runs
        BY ShapeAssumption DEF Runs
      <4> QED BY <4>1 DEF Balanced, Held, StepOK
    <3>2. \A u \in Others(w) : Fresh(job'[u]) => job'[u].run # 0
      BY <1>1, <3>1 DEF Others
    <3> QED BY <1>1, <2>1, <3>2, IdleHeld DEF RunsBy, Fresh, Others
  <2>2. CASE v # w
    <3>1. /\ job'[v] = job[v] /\ RunsBy(v, job[v]) /\ StepOK(job[v]) /\ HeldBy(v, job[v])
          /\ job[v].run # j.run /\ JobTypes(job[v])
      BY <1>1, <1>3, <2>2, JobFacts DEF RunsOK, Others
    <3>2. Fresh(job[v]) => runs'[job[v].run] = "ABSENT"
      BY <1>5, <3>1 DEF RunsBy, StepOK
    <3>3. \A u \in Others(v) : Fresh(job[v]) \/ Fresh(job'[u]) => job'[u].run # job[v].run
      <4> TAKE u \in Others(v)
      <4>1. CASE u = w
        <5>1. Fresh(job[v]) => job[v].run # 0
          BY <3>1, ShapeAssumption DEF StepOK, Runs
        <5> QED BY <1>1, <4>1, <5>1, IdleHeld DEF Fresh
      <4>2. CASE u # w
        BY <1>1, <3>1, <4>2 DEF RunsBy, Others
      <4> QED BY <4>1, <4>2
    <3>4. job[v].step = "commit" /\ job[v].result = "COMPLETED" =>
            \A k \in Keys :
              LET row == IF k \in DOMAIN job[v].rows THEN job[v].rows[k] ELSE entries'[k]
              IN row.status # "ABSENT" /\ row.run = job[v].run => row.status = "PAID"
      BY <1>1, <1>3, <3>1 DEF RunsBy
    <3>5. (Fresh(job[v]) => runs[job[v].run] = "ABSENT")'
      BY <3>1, <3>2 DEF Fresh
    <3>6. (\A u \in Others(v) : Fresh(job[v]) \/ Fresh(job[u]) => job[u].run # job[v].run)'
      BY <3>1, <3>3 DEF Fresh, Others
    <3> QED BY <3>1, <3>4, <3>5, <3>6 DEF RunsBy
  <2> QED BY <2>1, <2>2
<1> QED BY <1>7, <1>8 DEF RunsOK, RunCompleteSound, Present

\* The status that a payment decides for the run of its entry stands.
LEMMA PayRunsKept ==
  ASSUME Kept, Balanced, RunsOK, NEW w \in Workers, Publish(w), Respond(w),
         job[w].step = "commit",
         runs' = IF job[w].result = "ABSENT" THEN runs
                 ELSE [runs EXCEPT ![job[w].run] = job[w].result]
  PROVE  RunsOK'
<1> DEFINE j == job[w]
<1>1. /\ \A k \in Keys : entries'[k] = IF k \in DOMAIN j.rows THEN j.rows[k] ELSE entries[k]
      /\ \A v \in Workers : job'[v] = IF v = w THEN Idle ELSE job[v]
  BY Published
<1>2. /\ JobOK(j) /\ JobTypes(j) /\ StepOK(j) /\ HeldBy(w, j) /\ RunsBy(w, j) /\ RowsOK /\ TypeOK
  BY JobFacts DEF RunsOK, Balanced, Held
<1>3. /\ j.run \in Runs /\ runs[j.run] # "ABSENT" /\ runs \in [Runs -> RunStatuses \union {"ABSENT", "DELETED"}]
      /\ \A k \in DOMAIN j.rows : /\ k \in Keys /\ j.rows[k].run = j.run
                                  /\ entries[k].status \notin {"ABSENT", "PAID"}
                                  /\ entries[k].run = j.run
  <2>1. PICK k : DOMAIN j.rows = {k} /\ j.run = j.rows[k].run /\ k \in Keys
    BY <1>2 DEF StepOK, Paying, JobTypes
  <2>2. /\ entries[k].status \notin {"ABSENT", "PAID"} /\ entries[k].run = j.run /\ j.run \in Runs
    BY <1>2, <2>1 DEF HeldBy, Paying, StepOK
  <2>3. runs[j.run] # "ABSENT"
    BY <2>1, <2>2 DEF RunsOK, Present
  <2> QED BY <1>2, <2>1, <2>2, <2>3 DEF TypeOK
<1>4. \A v \in Workers : Fresh(job[v]) => job[v].run \in Runs /\ job[v].run # j.run
  <2>1. \A v \in Workers : Fresh(job[v]) => job[v].run \in Runs
    BY DEF Balanced, Held, StepOK
  <2>2. \A v \in Workers : Fresh(job[v]) => runs[job[v].run] = "ABSENT"
    BY DEF RunsOK, RunsBy
  <2> QED BY <1>3, <2>1, <2>2
<1>5. /\ \A r \in Runs : r # j.run \/ j.result = "ABSENT" => runs'[r] = runs[r]
      /\ j.result # "ABSENT" => runs'[j.run] = j.result
  BY <1>3
<1>6. j.result = "COMPLETED" =>
        \A k \in Keys : entries'[k].status # "ABSENT" /\ entries'[k].run = j.run
                          => entries'[k].status = "PAID"
  BY <1>1, <1>2 DEF RunsBy
<1> HIDE DEF j
<1>7. ASSUME NEW k \in Keys, entries'[k].status # "ABSENT"
      PROVE  /\ runs'[entries'[k].run] # "ABSENT"
             /\ runs'[entries'[k].run] = "COMPLETED" => entries'[k].status = "PAID"
  <2> DEFINE r == entries'[k].run
  <2>1. CASE r = j.run /\ j.result # "ABSENT"
    BY <1>5, <1>6, <1>7, <2>1
  <2>2. CASE r # j.run \/ j.result = "ABSENT"
    <3>1. entries[k].status # "ABSENT" /\ entries[k].run = r /\ r \in Runs
      BY <1>1, <1>2, <1>3, <1>7 DEF RowsOK, Present
    <3>2. /\ runs[r] # "ABSENT"
          /\ runs[r] = "COMPLETED" => entries[k].status = "PAID"
      BY <3>1 DEF RunsOK, RunCompleteSound, Present
    <3>3. runs'[r] = runs[r]
      BY <1>5, <2>2, <3>1
    <3>4. CASE k \in DOMAIN j.rows
      BY <1>3, <3>2, <3>3, <3>4
    <3>5. CASE k \notin DOMAIN j.rows
      BY <1>1, <3>2, <3>3, <3>5
    <3> QED BY <3>4, <3>5
  <2> QED BY <2>1, <2>2
<1>8. ASSUME NEW v \in Workers
      PROVE  RunsBy(v, job[v])'
  <2>0. \A u \in Workers : Fresh(job[u]) => job[u].run # 0
    <3>1. 0 \notin Runs
      BY ShapeAssumption DEF Runs
    <3> QED BY <1>4, <3>1
  <2>1. CASE v = w
    <3>1. \A u \in Others(w) : Fresh(job'[u]) => job'[u].run # 0
      BY <1>1, <2>0 DEF Others
    <3> QED BY <1>1, <2>1, <3>1, IdleHeld DEF RunsBy, Fresh, Others
  <2>2. CASE v # w
    <3>1. /\ job'[v] = job[v] /\ RunsBy(v, job[v]) /\ StepOK(job[v]) /\ HeldBy(v, job[v])
          /\ JobTypes(job[v])
      BY <1>1, <2>2, JobFacts DEF RunsOK
    <3>2. Fresh(job[v]) => runs'[job[v].run] = "ABSENT"
      BY <1>4, <1>5, <3>1 DEF RunsBy
    <3>3. \A u \in Others(v) : Fresh(job[v]) \/ Fresh(job'[u]) => job'[u].run # job[v].run
      <4> TAKE u \in Others(v)
      <4>1. CASE u = w
        BY <1>1, <2>0, <4>1, IdleHeld DEF Fresh
      <4>2. CASE u # w
        BY <1>1, <3>1, <4>2 DEF RunsBy, Others
      <4> QED BY <4>1, <4>2
\* What another payment has seen paid includes nothing that this request has locked.
    <3>4. job[v].step = "commit" /\ job[v].result = "COMPLETED" =>
            \A k \in Keys :
              LET row == IF k \in DOMAIN job[v].rows THEN job[v].rows[k] ELSE entries'[k]
              IN row.status # "ABSENT" /\ row.run = job[v].run => row.status = "PAID"
      BY <1>1, <1>3, <3>1 DEF RunsBy
    <3>5. (Fresh(job[v]) => runs[job[v].run] = "ABSENT")'
      BY <3>1, <3>2 DEF Fresh
    <3>6. (\A u \in Others(v) : Fresh(job[v]) \/ Fresh(job[u]) => job[u].run # job[v].run)'
      BY <3>1, <3>3 DEF Fresh, Others
    <3> QED BY <3>1, <3>4, <3>5, <3>6 DEF RunsBy
  <2> QED BY <2>1, <2>2
<1> QED BY <1>7, <1>8 DEF RunsOK, RunCompleteSound, Present

\* The status of a generated run is one of a run.
LEMMA RunsTyped ==
  ASSUME Kept, Balanced, NEW r, NEW status \in RunStatuses
  PROVE  [runs EXCEPT ![r] = status] \in [Runs -> RunStatuses \union {"ABSENT", "DELETED"}]
BY JobFacts DEF Balanced, Held, TypeOK

LEMMA GenerateEndBalanced ==
  ASSUME Kept, Balanced, NEW w \in Workers, GenerateEnd(w) PROVE Balanced'
<1> DEFINE j == job[w]
<1>1. /\ JobOK(j) /\ JobTypes(j) /\ StepOK(j) /\ HeldBy(w, j) /\ TypeOK /\ RowsOK
      /\ j.step = "check" /\ Fresh(j)
  BY JobFacts DEF GenerateEnd, Balanced, Held, Fresh
<1>2. /\ Publish(w) /\ Respond(w)
      /\ left' = [k \in Keys |-> IF k \in DOMAIN j.rows THEN left[k] - j.rows[k].adv ELSE left[k]]
      /\ runs' = IF DOMAIN j.rows = {} THEN runs
                 ELSE [runs EXCEPT ![j.run] = RunStatusMap[j.status]]
  BY DEF GenerateEnd
<1>3. RunStatusMap[j.status] \in RunStatuses
  BY <1>1 DEF JobOK, RunStatusMap, RunStatuses, EntryStatuses
<1>4. runs' \in [Runs -> RunStatuses \union {"ABSENT", "DELETED"}]
  BY <1>1, <1>2, <1>3, RunsTyped DEF TypeOK
<1>5. \A k \in Keys : left[k] \in Nat /\ AdvanceAmount[k] \in Nat
  BY <1>1, ShapeAssumption DEF TypeOK
<1>6. \A k \in DOMAIN j.rows : /\ k \in Keys /\ j.rows[k].adv \in Nat /\ j.rows[k].adv <= left[k]
                               /\ entries[k] = Absent
  BY <1>1 DEF HeldBy, JobTypes, Entries, RowsOK
<1> HIDE DEF j
<1>7. \A k \in Keys : /\ left'[k] \in Nat
                      /\ k \in DOMAIN j.rows => left'[k] = left[k] - j.rows[k].adv
                      /\ k \notin DOMAIN j.rows => left'[k] = left[k]
  BY <1>2, <1>5, <1>6
<1>8. left' \in [Keys -> Nat]
  <2>1. left' = [k \in Keys |-> left'[k]]
    BY <1>2
  <2> QED BY <1>7, <2>1
<1>9. Held' /\ (LoanAdds => LoanAdds')
  BY <1>2, <1>4, <1>7, <1>8, PublishHeld DEF j
<1>10. AdvancesTaken => AdvancesTaken'
  <2> SUFFICES ASSUME AdvancesTaken, NEW k \in Keys
               PROVE  AdvanceAmount[k] - left'[k] = entries'[k].adv
    BY DEF AdvancesTaken
  <2>1. entries'[k] = IF k \in DOMAIN j.rows THEN j.rows[k] ELSE entries[k]
    BY <1>2, Published DEF j
  <2>2. AdvanceAmount[k] - left[k] = entries[k].adv
    BY DEF AdvancesTaken
  <2>3. CASE k \in DOMAIN j.rows
    <3>1. entries[k].adv = 0 /\ entries'[k].adv = j.rows[k].adv
      BY <1>6, <2>1, <2>3 DEF Absent
    <3> QED BY <1>5, <1>6, <1>7, <2>2, <2>3, <3>1
  <2>4. CASE k \notin DOMAIN j.rows
    BY <1>7, <2>1, <2>2, <2>4
  <2> QED BY <2>3, <2>4
<1>11. RunsOK => RunsOK'
  BY <1>1, <1>2, FreshRunsKept DEF j
<1>12. NoneGeneratedPaid /\ SettledOK => SettledOK'
  BY <1>1, <1>2, PublishSettled DEF j
<1> QED BY <1>9, <1>10, <1>11, <1>12
  DEF Balanced, NoEntryEdits, NoLoanEdits, NoneGeneratedPaid, NothingDropped

LEMMA GenerateRejectBalanced ==
  ASSUME Kept, Balanced, NEW w \in Workers, GenerateReject(w) PROVE Balanced'
<1> DEFINE j == job[w]
<1>1. /\ JobOK(j) /\ TypeOK /\ j.step = "check" /\ Fresh(j)
  BY JobFacts DEF GenerateReject, Checking, Fresh
<1>2. /\ Publish(w) /\ Respond(w) /\ left' = left
      /\ runs' = [runs EXCEPT ![j.run] = RunStatusMap[j.status]]
      /\ BadDays # {}
  BY DEF GenerateReject
<1>3. RunStatusMap[j.status] \in RunStatuses
  BY <1>1 DEF JobOK, RunStatusMap, RunStatuses, EntryStatuses
<1>4. runs' \in [Runs -> RunStatuses \union {"ABSENT", "DELETED"}]
  BY <1>2, <1>3, RunsTyped
<1>5. Held' /\ (LoanAdds => LoanAdds')
  <2>1. left' \in [Keys -> Nat]
    BY <1>1, <1>2 DEF TypeOK
  <2> QED BY <1>2, <1>4, <2>1, PublishHeld
<1>6. RunsOK => RunsOK'
  BY <1>1, <1>2, FreshRunsKept
<1>7. NoneGeneratedPaid /\ SettledOK => SettledOK'
  BY <1>1, <1>2, PublishSettled
<1> QED BY <1>2, <1>5, <1>6, <1>7
  DEF Balanced, NoEntryEdits, NoLoanEdits, NoneGeneratedPaid, NothingDropped

LEMMA PayCommitBalanced ==
  ASSUME Kept, Balanced, NEW w \in Workers, PayCommit(w) PROVE Balanced'
<1> DEFINE j == job[w]
<1>1. /\ JobTypes(j) /\ HeldBy(w, j) /\ TypeOK /\ j.step = "commit" /\ Paying(j)
  BY JobFacts DEF PayCommit, Paying
<1>2. /\ Publish(w) /\ Respond(w) /\ left' = left
      /\ runs' = IF j.result = "ABSENT" THEN runs ELSE [runs EXCEPT ![j.run] = j.result]
  BY DEF PayCommit
<1>3. runs' \in [Runs -> RunStatuses \union {"ABSENT", "DELETED"}]
  BY <1>1, <1>2, RunsTyped DEF TypeOK, JobTypes
<1>4. Held' /\ (LoanAdds => LoanAdds')
  <2>1. left' \in [Keys -> Nat]
    BY <1>1, <1>2 DEF TypeOK
  <2> QED BY <1>2, <1>3, <2>1, PublishHeld
<1>5. AdvancesTaken => AdvancesTaken'
  <2> SUFFICES ASSUME AdvancesTaken, NEW k \in Keys
               PROVE  AdvanceAmount[k] - left'[k] = entries'[k].adv
    BY DEF AdvancesTaken
  <2>1. entries'[k] = IF k \in DOMAIN j.rows THEN j.rows[k] ELSE entries[k]
    BY <1>2, Published
  <2>2. entries'[k].adv = entries[k].adv
    BY <1>1, <2>1 DEF HeldBy
  <2> QED BY <1>2, <2>2 DEF AdvancesTaken
<1>6. RunsOK => RunsOK'
  BY <1>1, <1>2, PayRunsKept
<1>7. NoneGeneratedPaid /\ SettledOK => SettledOK'
  BY <1>1, <1>2, PublishSettled
<1> QED BY <1>4, <1>5, <1>6, <1>7
  DEF Balanced, NoEntryEdits, NoLoanEdits, NoneGeneratedPaid, NothingDropped

----
(* Deletions and edits. *)

\* A step that writes entries alone, and only such that no transaction has locked.
LEMMA RowsStep ==
  ASSUME Kept, Balanced, NEW w \in Workers, UNCHANGED <<loanVars, left>>,
         entries' \in [Keys -> Entries], RowsOK',
         runs' \in [Runs -> RunStatuses \union {"ABSENT", "DELETED"}],
         \A k \in Keys : entries'[k] # entries[k] => \A v \in Workers : k \notin DOMAIN job[v].rows,
         job' = job \/ Respond(w)
  PROVE  Held' /\ (LoanAdds => LoanAdds')
<1>0. UNCHANGED <<terms, balance, loanStatus, repaid, left>>
  BY DEF loanVars
<1>1. DOMAIN job' = Workers /\ \A v \in Workers : job'[v] = job[v] \/ job'[v] = Idle
  BY JobFacts DEF Respond, Kept, Tables
<1>2. TypeOK'
  <2>1. \A v \in Workers : JobTypes(job'[v])
    BY <1>1, JobFacts, IdleHeld
  <2>2. \A v \in Workers : JobTypes(job[v])'
    BY <2>1 DEF JobTypes
  <2> QED BY <1>0, <1>1, <2>2 DEF Balanced, Held, TypeOK
<1>3. LoanLossBacked' /\ (LoanAdds => LoanAdds')
  BY <1>0 DEF Balanced, Held, LoanLossBacked, LoanAdds, Repaid
<1>4. ASSUME NEW v \in Workers
      PROVE  StepOK(job[v])' /\ HeldBy(v, job[v])'
  <2>1. StepOK(job'[v])
    BY <1>1, JobFacts, IdleHeld
  <2>2. StepOK(job[v])'
    BY <2>1 DEF StepOK, Fresh, Paying
  <2>3. CASE job'[v] = Idle
    BY <1>1, <2>2, <2>3, IdleHeld DEF HeldBy, LoansFree, Fresh, Paying
  <2>4. CASE job'[v] = job[v]
    <3>1. HeldBy(v, job[v]) /\ JobTypes(job[v])
      BY JobFacts
    <3>2. \A k \in DOMAIN job[v].rows : k \in Keys /\ entries'[k] = entries[k]
      BY <3>1 DEF JobTypes
    <3>3. \A u \in Workers : /\ DOMAIN job'[u].rows \subseteq DOMAIN job[u].rows
                             /\ DOMAIN job'[u].loans \subseteq DOMAIN job[u].loans
      BY <1>1, IdleHeld
    <3>4. \A k : EntryFree(v, k) => EntryFree(v, k)'
      BY <3>3 DEF EntryFree, Others
    <3>5. LoansFree(v, DOMAIN job[v].loans)'
      BY <2>4, <3>1, <3>3 DEF HeldBy, LoansFree, Others
    <3> QED
      BY <1>0, <2>2, <2>4, <3>1, <3>2, <3>4, <3>5 DEF HeldBy, Fresh, Paying, Present, Repaid
  <2> QED BY <1>1, <2>3, <2>4
<1> QED BY <1>2, <1>3, <1>4 DEF Held

\* Entries that disappear, while no transaction has locked them.
LEMMA RowsGone ==
  ASSUME Kept, Balanced, NEW gone, UNCHANGED <<loanVars, left, job>>,
         \A k \in Keys : entries'[k] = IF k \in gone THEN Absent ELSE entries[k],
         \A k \in Keys : k \in gone => \A v \in Workers : k \notin DOMAIN job[v].rows,
         \A l \in Loans, p \in Periods : repaid[l][p] > 0 => <<LoanOf[l], p>> \notin gone,
         \A r \in Runs : \/ runs'[r] = runs[r]
                         \/ /\ runs[r] # "ABSENT" /\ runs'[r] = "DELETED"
                            /\ \A k \in Keys : entries'[k].run # r
  PROVE  (RunsOK => RunsOK') /\ (SettledOK => SettledOK')
<1>0. UNCHANGED <<balance, loanStatus, repaid, left, job>> /\ Absent.status = "ABSENT"
  BY DEF loanVars, Absent
<1>1. RunsOK => RunsOK'
  <2> SUFFICES ASSUME RunsOK PROVE RunsOK'
    OBVIOUS
  <2>1. ASSUME NEW k \in Keys, entries'[k].status # "ABSENT"
        PROVE  /\ entries'[k] = entries[k] /\ runs'[entries[k].run] = runs[entries[k].run]
               /\ Present(k)
    <3>1. entries'[k] = entries[k] /\ Present(k)
      BY <1>0, <2>1 DEF Present
    <3>2. entries[k].run \in Runs
      BY <3>1 DEF Balanced, Held, RowsOK
    <3> QED BY <3>1, <3>2
  <2>2. ASSUME NEW v \in Workers
        PROVE  RunsBy(v, job[v])'
    <3>1. RunsBy(v, job[v]) /\ (Fresh(job[v]) => job[v].run \in Runs)
      BY JobFacts DEF RunsOK, StepOK
    <3>2. Fresh(job[v]) => runs'[job[v].run] = "ABSENT"
      BY <3>1 DEF RunsBy
    <3>3. job[v].step = "commit" /\ job[v].result = "COMPLETED" =>
            \A k \in Keys :
              LET row == IF k \in DOMAIN job[v].rows THEN job[v].rows[k] ELSE entries'[k]
              IN row.status # "ABSENT" /\ row.run = job[v].run => row.status = "PAID"
      BY <1>0, <2>1, <3>1 DEF RunsBy, Present
    <3> QED BY <1>0, <3>1, <3>2, <3>3 DEF RunsBy, Fresh, Others
  <2> QED BY <2>1, <2>2 DEF RunsOK, RunCompleteSound, Present
<1>2. SettledOK => SettledOK'
  <2> SUFFICES ASSUME SettledOK PROVE SettledOK'
    OBVIOUS
  <2>1. \A k \in Keys : entries'[k].status = "PAID" => entries'[k] = entries[k]
    BY <1>0
  <2>2. PaidSettled'
    BY <1>0, <2>1 DEF SettledOK, PaidSettled, RepaidBy, Sum
  <2>3. \A l \in Loans, p \in Periods : <<LoanOf[l], p>> \in Keys
    BY ShapeAssumption DEF Keys
  <2>4. \A l \in Loans, p \in Periods :
          repaid[l][p] > 0 => entries'[<<LoanOf[l], p>>].status = "PAID"
    BY <2>3 DEF SettledOK
  <2>5. \A v \in Workers : SettledBy(job[v])'
    BY <1>0 DEF SettledOK, SettledBy, Fresh, Sum
  <2> QED BY <1>0, <2>2, <2>4, <2>5 DEF SettledOK
<1> QED BY <1>1, <1>2

\* An idle request leaves an entry to its owner only when nobody has it.
LEMMA IdleFree ==
  ASSUME Kept, Balanced, NEW w \in Workers, job[w].step \in {"idle", "edit"},
         NEW k, EntryFree(w, k)
  PROVE  \A v \in Workers : k \notin DOMAIN job[v].rows
BY JobFacts DEF StepOK, EntryFree, Others

LEMMA AbsentEntry == Absent \in Entries /\ Absent.status = "ABSENT" /\ Absent.run = 0 /\ Absent.adv = 0
BY ShapeAssumption DEF Absent, Entries

LEMMA DestroyEntryBalanced ==
  ASSUME Kept, Balanced, NEW w \in Workers, DestroyEntry(w) PROVE Balanced'
<1>1. PICK k \in Keys : EntryFree(w, k) /\ Deletable(k) /\ entries' = [entries EXCEPT ![k] = Absent]
  BY DEF DestroyEntry
<1>2. /\ UNCHANGED <<loanVars, left>> /\ runs' = runs /\ job' = job
      /\ TypeOK /\ RowsOK /\ job[w].step = "idle"
  BY DEF DestroyEntry, Balanced, Held
<1>3. \A x \in Keys : entries'[x] = IF x = k THEN Absent ELSE entries[x]
  BY <1>1, <1>2 DEF TypeOK
<1>4. \A v \in Workers : k \notin DOMAIN job[v].rows
  BY <1>1, <1>2, IdleFree
<1>5. entries' \in [Keys -> Entries]
  BY <1>1, <1>2, AbsentEntry DEF TypeOK
<1>6. RowsOK'
  BY <1>2, <1>3, AbsentEntry DEF RowsOK, Present
<1>7. Held' /\ (LoanAdds => LoanAdds')
  <2>1. runs' \in [Runs -> RunStatuses \union {"ABSENT", "DELETED"}]
    BY <1>2 DEF TypeOK
  <2> QED BY <1>2, <1>3, <1>4, <1>5, <1>6, <2>1, RowsStep
<1>8. AdvancesTaken => AdvancesTaken'
  <2>1. \A x \in Keys : entries'[x].adv = entries[x].adv
    BY <1>1, <1>3, AbsentEntry DEF Deletable
  <2> QED BY <1>2, <2>1 DEF AdvancesTaken
<1>9. (RunsOK => RunsOK') /\ (SettledOK => SettledOK')
  <2> DEFINE gone == {k}
  <2>1. \A x \in Keys : entries'[x] = IF x \in gone THEN Absent ELSE entries[x]
    BY <1>3
  <2>2. \A l \in Loans, p \in Periods : repaid[l][p] > 0 => <<LoanOf[l], p>> \notin gone
    BY <1>1 DEF Deletable, Repayments
  <2>3. \A x \in Keys : x \in gone => \A v \in Workers : x \notin DOMAIN job[v].rows
    BY <1>4
  <2> HIDE DEF gone
  <2> QED BY <1>2, <2>1, <2>2, <2>3, RowsGone
<1> QED
  BY <1>7, <1>8, <1>9 DEF Balanced, NoEntryEdits, NoLoanEdits, NoneGeneratedPaid, NothingDropped

LEMMA DeleteRunBalanced ==
  ASSUME Kept, Balanced, NEW w \in Workers, DeleteRun(w) PROVE Balanced'
<1>1. PICK r \in Runs :
        LET own == {k \in Keys : Present(k) /\ entries[k].run = r}
        IN /\ runs[r] \in RunStatuses
           /\ \A k \in own : EntryFree(w, k) /\ Repayments(k) = {}
           /\ entries' = [k \in Keys |-> IF k \in own THEN Absent ELSE entries[k]]
           /\ runs' = [runs EXCEPT ![r] = "DELETED"]
  BY DEF DeleteRun
<1> DEFINE own == {k \in Keys : Present(k) /\ entries[k].run = r}
<1>2. /\ UNCHANGED <<loanVars, left>> /\ job' = job /\ "delete_run" \in Operations
      /\ TypeOK /\ RowsOK /\ job[w].step = "idle"
  BY DEF DeleteRun, Balanced, Held
<1>3. \A k \in Keys : entries'[k] = IF k \in own THEN Absent ELSE entries[k]
  BY <1>1
<1>4. \A k \in own : /\ k \in Keys /\ \A v \in Workers : k \notin DOMAIN job[v].rows
                     /\ Repayments(k) = {}
  BY <1>1, <1>2, IdleFree
<1>5. entries' \in [Keys -> Entries]
  BY <1>1, <1>2, AbsentEntry DEF TypeOK
<1>6. RowsOK'
  BY <1>2, <1>3, AbsentEntry DEF RowsOK, Present
<1>7. runs' \in [Runs -> RunStatuses \union {"ABSENT", "DELETED"}]
  BY <1>1, <1>2 DEF TypeOK
<1>8. Held' /\ (LoanAdds => LoanAdds')
  BY <1>2, <1>3, <1>4, <1>5, <1>6, <1>7, RowsStep
<1>9. \A k \in Keys : entries'[k].run # r
  <2>1. r # 0
    BY ShapeAssumption DEF Runs
  <2>2. \A k \in Keys : ~Present(k) => entries[k].run = 0
    BY <1>2, AbsentEntry DEF RowsOK
  <2> QED BY <1>3, <2>1, <2>2, AbsentEntry
<1>10. (RunsOK => RunsOK') /\ (SettledOK => SettledOK')
  <2>1. \A l \in Loans, p \in Periods : repaid[l][p] > 0 => <<LoanOf[l], p>> \notin own
    BY <1>4 DEF Repayments
  <2>2. \A x \in Runs : \/ runs'[x] = runs[x]
                        \/ /\ runs[x] # "ABSENT" /\ runs'[x] = "DELETED"
                           /\ \A k \in Keys : entries'[k].run # x
    BY <1>1, <1>2, <1>9 DEF TypeOK, RunStatuses
  <2>3. \A k \in Keys : k \in own => \A v \in Workers : k \notin DOMAIN job[v].rows
    BY <1>4
  <2> HIDE DEF own
  <2> QED BY <1>2, <1>3, <2>1, <2>2, <2>3, RowsGone
<1> QED
  BY <1>2, <1>8, <1>10 DEF Balanced, NoEntryEdits, NoLoanEdits, NoneGeneratedPaid, NothingDropped

LEMMA EditSaveBalanced ==
  ASSUME Kept, Balanced, NEW w \in Workers, EditSave(w) PROVE Balanced'
<1> DEFINE k == Current(w)
           row == job[w].seen
<1>1. /\ JobOK(job[w]) /\ JobTypes(job[w]) /\ StepOK(job[w]) /\ job[w].step = "edit"
      /\ TypeOK /\ RowsOK
  BY JobFacts DEF EditSave, Balanced, Held
<1>2. /\ EntryFree(w, k) /\ Respond(w) /\ UNCHANGED <<loanVars, left>> /\ runs' = runs
      /\ entries' = [entries EXCEPT ![k] = row] \/ entries' = entries
  BY DEF EditSave
<1>3. /\ row \in Entries /\ row.run \in Runs /\ row.status \in EntryStatuses
      /\ "edit_entry" \in Operations
  BY <1>1 DEF JobOK, JobTypes, StepOK
<1>4. \A v \in Workers : k \notin DOMAIN job[v].rows
  BY <1>1, <1>2, IdleFree
<1> HIDE DEF k, row
<1>5. entries' \in [Keys -> Entries] /\ \A x \in Keys : x # k => entries'[x] = entries[x]
  BY <1>1, <1>2, <1>3 DEF TypeOK
<1>6. RowsOK'
  <2>1. \A x \in Keys : entries'[x] = entries[x] \/ entries'[x] = row
    BY <1>1, <1>2 DEF TypeOK
  <2>2. row.status # "ABSENT"
    BY <1>3 DEF EntryStatuses
  <2> QED BY <1>1, <1>3, <2>1, <2>2 DEF RowsOK, Present
<1>7. Held' /\ (LoanAdds => LoanAdds')
  <2>1. runs' \in [Runs -> RunStatuses \union {"ABSENT", "DELETED"}]
    BY <1>1, <1>2 DEF TypeOK
  <2>2. \A x \in Keys : entries'[x] # entries[x] => \A v \in Workers : x \notin DOMAIN job[v].rows
    BY <1>4, <1>5
  <2> QED BY <1>2, <1>5, <1>6, <2>1, <2>2, RowsStep
<1> QED BY <1>3, <1>7 DEF Balanced, NoEntryEdits, NoLoanEdits

LEMMA LoanSaveBalanced ==
  ASSUME Kept, Balanced, NEW w \in Workers, LoanSave(w) PROVE Balanced'
<1> DEFINE l == job[w].loan
           seen == job[w].seenLoan
<1>1. /\ JobTypes(job[w]) /\ StepOK(job[w]) /\ HeldBy(w, job[w]) /\ job[w].step = "loan"
      /\ TypeOK /\ RowsOK /\ LoanLossBacked
  BY JobFacts DEF LoanSave, Balanced, Held
<1>2. /\ LoansFree(w, {l}) /\ Respond(w)
      /\ entries' = entries /\ runs' = runs /\ repaid' = repaid /\ left' = left
      /\ \/ /\ job[w].op = "cancel_loan" /\ balance' = balance /\ terms' = terms
            /\ loanStatus' = [loanStatus EXCEPT ![l] = "CANCELLED"]
         \/ /\ job[w].op # "cancel_loan" /\ balance' = [balance EXCEPT ![l] = seen.balance]
            /\ terms' = [terms EXCEPT ![l] = seen.terms]
            /\ loanStatus' = [loanStatus EXCEPT ![l] = seen.status]
  BY DEF LoanSave
<1>3. /\ l \in Loans /\ job[w].op \in {"cancel_loan", "edit_loan"} \intersect Operations
      /\ seen.status \in LoanStatuses /\ seen.balance \in Nat /\ seen.terms \in Terms
      /\ LoanAmount[l] - seen.balance <= Repaid(l)
      /\ DOMAIN job[w].loans = {} /\ DOMAIN job[w].rows = {}
  BY <1>1 DEF StepOK, JobTypes, HeldBy
<1>4. DOMAIN job' = Workers /\ \A v \in Workers : job'[v] = IF v = w THEN Idle ELSE job[v]
  BY <1>1, <1>2 DEF Respond, TypeOK
<1>5. \A v \in Workers : v # w => l \notin DOMAIN job[v].loans
  BY <1>2 DEF LoansFree, Others
<1> HIDE DEF l, seen
<1>6. /\ terms' \in [Loans -> Terms] /\ balance' \in [Loans -> Nat] /\ loanStatus' \in [Loans -> LoanStatuses]
      /\ \A x \in Loans : x # l => balance'[x] = balance[x]
      /\ balance'[l] = balance[l] \/ balance'[l] = seen.balance
  BY <1>1, <1>2, <1>3 DEF TypeOK, LoanStatuses
<1>7. TypeOK'
  <2>1. \A v \in Workers : JobTypes(job'[v])
    BY <1>4, JobFacts, IdleHeld
  <2>2. \A v \in Workers : JobTypes(job[v])'
    BY <2>1 DEF JobTypes
  <2> QED BY <1>1, <1>2, <1>4, <1>6, <2>2 DEF TypeOK
<1>8. RowsOK'
  BY <1>1, <1>2 DEF RowsOK, Present
<1>9. LoanLossBacked'
  <2>1. \A x \in Loans : Repaid(x)' = Repaid(x)
    BY <1>2 DEF Repaid
  <2>2. \A x \in Loans : LoanAmount[x] - balance'[x] <= Repaid(x)
    BY <1>1, <1>3, <1>6 DEF LoanLossBacked
  <2> QED BY <2>1, <2>2 DEF LoanLossBacked
<1>10. NoLoanEdits => terms' = terms /\ balance' = balance
  BY <1>2, <1>3 DEF NoLoanEdits
<1>11. ASSUME NEW v \in Workers
       PROVE  StepOK(job[v])' /\ HeldBy(v, job[v])'
  <2>1. StepOK(job'[v])
    BY <1>4, JobFacts, IdleHeld
  <2>2. StepOK(job[v])'
    BY <2>1 DEF StepOK, Fresh, Paying
  <2>3. CASE v = w
    BY <1>4, <2>2, <2>3, IdleHeld DEF HeldBy, LoansFree, Fresh, Paying
  <2>4. CASE v # w
    <3>1. HeldBy(v, job[v]) /\ JobTypes(job[v]) /\ job'[v] = job[v]
      BY <1>4, <2>4, JobFacts
    <3>2. \A x \in DOMAIN job[v].loans : x \in Loans /\ balance'[x] = balance[x]
      BY <1>5, <1>6, <2>4, <3>1 DEF JobTypes
    <3>3. \A u \in Workers : /\ DOMAIN job'[u].rows \subseteq DOMAIN job[u].rows
                             /\ DOMAIN job'[u].loans \subseteq DOMAIN job[u].loans
      BY <1>4, IdleHeld
    <3>4. \A k : EntryFree(v, k) => EntryFree(v, k)'
      BY <3>3 DEF EntryFree, Others
    <3>5. LoansFree(v, DOMAIN job[v].loans)'
      BY <3>1, <3>3 DEF HeldBy, LoansFree, Others
    <3> QED BY <1>2, <2>2, <3>1, <3>2, <3>4, <3>5 DEF HeldBy, Fresh, Paying, Present, Repaid
  <2> QED BY <2>3, <2>4
<1>12. Held'
  BY <1>7, <1>8, <1>9, <1>11 DEF Held
<1>13. NoLoanEdits /\ LoanAdds => LoanAdds'
  BY <1>2, <1>10 DEF LoanAdds, Repaid
<1>14. AdvancesTaken => AdvancesTaken'
  BY <1>2 DEF AdvancesTaken
<1>15. RunsOK => RunsOK'
  <2> SUFFICES ASSUME RunsOK, NEW v \in Workers PROVE RunsBy(v, job[v])'
    BY <1>2 DEF RunsOK, RunCompleteSound, Present
  <2>1. \A u \in Workers : Fresh(job[u]) => job[u].run # 0
    <3>1. 0 \notin Runs
      BY ShapeAssumption DEF Runs
    <3> QED BY <3>1 DEF Balanced, Held, StepOK
  <2>2. RunsBy(v, job[v])
    BY DEF RunsOK
  <2>3. \A u \in Others(v) : Fresh(job'[v]) \/ Fresh(job'[u]) => job'[u].run # job'[v].run
    BY <1>4, <2>1, <2>2, IdleHeld DEF RunsBy, Fresh, Others
  <2>4. (\A u \in Others(v) : Fresh(job[v]) \/ Fresh(job[u]) => job[u].run # job[v].run)'
    BY <2>3 DEF Fresh, Others
  <2>5. job'[v] = job[v] \/ job'[v] = Idle
    BY <1>4
  <2> QED BY <1>2, <2>2, <2>4, <2>5, IdleHeld DEF RunsBy, Fresh
<1>16. SettledOK => SettledOK'
  <2> SUFFICES ASSUME SettledOK PROVE SettledOK'
    OBVIOUS
  <2>1. \A v \in Workers : SettledBy(job'[v])
    BY <1>4, IdleHeld DEF SettledOK
  <2>2. \A v \in Workers : SettledBy(job[v])'
    BY <2>1 DEF SettledBy, Fresh, Sum
  <2> QED BY <1>2, <2>2 DEF SettledOK, PaidSettled, RepaidBy, Sum
<1> QED BY <1>12, <1>13, <1>14, <1>15, <1>16
  DEF Balanced, NoEntryEdits, NoLoanEdits, NoneGeneratedPaid, NothingDropped

----
(* The theorems. *)

LEMMA StepBalanced == Kept /\ Balanced /\ [Next]_vars => Balanced'
<1> SUFFICES ASSUME Kept, Balanced, [Next]_vars PROVE Balanced'
  OBVIOUS
<1>1. CASE Next
  <2>1. PICK w \in Workers : WorkerStep(w) \/ Request(w)
    BY <1>1 DEF Next
  <2>2. CASE GenerateDuplicate(w) \/ Abort(w)
    BY <2>2, FailBalanced DEF GenerateDuplicate, Abort
  <2>3. CASE GenerateStart(w) \/ GenerateSkip(w) \/ GenerateCheck(w) \/ GenerateInsert(w)
    BY <2>3, GenerateStartBalanced, GenerateSkipBalanced, GenerateCheckBalanced,
       GenerateInsertBalanced
  <2>4. CASE GenerateSettle(w) \/ GenerateEnd(w) \/ GenerateReject(w)
    BY <2>4, GenerateSettleBalanced, GenerateEndBalanced, GenerateRejectBalanced
  <2>5. CASE PayLock(w) \/ PayLoans(w) \/ PayCommit(w)
    BY <2>5, PayLockBalanced, PayLoansBalanced, PayCommitBalanced
  <2>6. CASE EditLoad(w) \/ EditSave(w) \/ LoanLoad(w) \/ LoanSave(w)
    BY <2>6, EditLoadBalanced, EditSaveBalanced, LoanLoadBalanced, LoanSaveBalanced
  <2>7. CASE DestroyEntry(w) \/ DeleteRun(w)
    BY <2>7, DestroyEntryBalanced, DeleteRunBalanced
  <2> QED BY <2>1, <2>2, <2>3, <2>4, <2>5, <2>6, <2>7 DEF WorkerStep, Request
<1>2. CASE UNCHANGED vars
  <2>1. UNCHANGED <<entries, runs, terms, balance, loanStatus, repaid, left, job>>
    BY <1>2 DEF vars, dbVars, loanVars
  <2>2. TypeOK' /\ RowsOK' /\ LoanLossBacked' /\ (LoanAdds => LoanAdds')
        /\ (AdvancesTaken => AdvancesTaken')
    BY <2>1 DEF Balanced, Held, TypeOK, JobTypes, RowsOK, Present, LoanLossBacked, LoanAdds,
                Repaid, AdvancesTaken
  <2>3. \A w \in Workers : StepOK(job[w])' /\ HeldBy(w, job[w])'
    <3> TAKE w \in Workers
    <3>1. StepOK(job[w])'
      BY <2>1 DEF Balanced, Held, StepOK, Fresh, Paying
    <3>2. HeldBy(w, job[w])'
      BY <2>1 DEF Balanced, Held, HeldBy, Fresh, Paying, EntryFree, LoansFree, Others,
                  Present, Repaid
    <3> QED BY <3>1, <3>2
  <2>4. RunsOK => RunsOK'
    BY <2>1 DEF RunsOK, RunCompleteSound, Present, RunsBy, Fresh, Others
  <2>5. SettledOK => SettledOK'
    BY <2>1 DEF SettledOK, PaidSettled, RepaidBy, Sum, SettledBy, Fresh
  <2> QED BY <2>2, <2>3, <2>4, <2>5
    DEF Balanced, Held, NoEntryEdits, NoLoanEdits, NoneGeneratedPaid, NothingDropped
<1> QED BY <1>1, <1>2

\* Every reachable state has the invariant.
LEMMA AlwaysBalanced == Spec => [](Kept /\ Balanced)
BY InitKept, StepKept, InitBalanced, StepBalanced, PTL DEF Spec

\* Types: no balance, advance or deduction is ever negative, in the tables or in the
\* rows and shares that a transaction has not committed, whatever requests do.
THEOREM AmountsTyped == Spec => []TypeOK
<1>1. Balanced => TypeOK
  BY DEF Balanced, Held
<1> QED BY <1>1, AlwaysBalanced, PTL

\* No loan loses more than the repayments on record account for, under every edit and
\* deletion that the view sets offer.
THEOREM LossesBacked == Spec => []LoanLossBacked
<1>1. Balanced => LoanLossBacked
  BY DEF Balanced, Held
<1> QED BY <1>1, AlwaysBalanced, PTL

\* As long as clients do not save a loan back as they read it, what remains of a loan and
\* what has been repaid is the amount lent, whoever generates, pays, cancels or deletes.
THEOREM LoansAddUp == ASSUME NoLoanEdits PROVE Spec => []LoanAdds
<1>1. Balanced => LoanAdds
  BY DEF Balanced
<1> QED BY <1>1, AlwaysBalanced, PTL

\* Loans, paid deductions and advances agree when clients edit neither entries nor loans,
\* delete no runs, generate no entry as paid, and no generation meets bad payable days.
\* The runs that drop one of these conditions show how the books then come apart.
THEOREM SettlementsAgree ==
  ASSUME NoEntryEdits, NoLoanEdits, NothingDropped, NoneGeneratedPaid
  PROVE  Spec => []SettlementsAdd
<1>1. Balanced => SettlementsAdd
  BY DEF Balanced, SettledOK, SettlementsAdd
<1> QED BY <1>1, AlwaysBalanced, PTL

\* A completed run has paid all of its entries, unless clients edit entries.
THEOREM CompletedRunsPaid == ASSUME NoEntryEdits PROVE Spec => []RunCompleteSound
<1>1. Balanced => RunCompleteSound
  BY DEF Balanced, RunsOK
<1> QED BY <1>1, AlwaysBalanced, PTL

RepaidStep ==
  \A l \in Loans, p \in Periods : repaid[l][p] > 0 => repaid'[l][p] = repaid[l][p]

\* A commit repays a loan for an entry that has repaid nothing on it before.
LEMMA PublishOnce ==
  ASSUME Kept, Balanced, NEW w \in Workers, Publish(w), Respond(w)
  PROVE  RepaidStep
<1> SUFFICES ASSUME NEW l \in Loans, NEW p \in Periods, repaid[l][p] > 0
             PROVE  repaid'[l][p] = repaid[l][p]
  BY DEF RepaidStep
<1>1. /\ repaid'[l][p] = repaid[l][p] + (IF p = job[w].period THEN job[w].shares[l] ELSE 0)
      /\ job[w].shares[l] \in Nat
      /\ job[w].shares[l] > 0 => repaid[l][job[w].period] = 0
  BY Published
<1>2. repaid[l][p] \in Nat
  BY JobFacts DEF Amounts
<1>3. (IF p = job[w].period THEN job[w].shares[l] ELSE 0) = 0
  BY <1>1, <1>2
<1>4. repaid'[l][p] = repaid[l][p] + 0
  BY <1>1, <1>3
<1> QED BY <1>2, <1>4

LEMMA StepOnce == Kept /\ Balanced /\ [Next]_vars => RepaidStep
<1> SUFFICES ASSUME Kept, Balanced, [Next]_vars PROVE RepaidStep
  OBVIOUS
<1>1. CASE Next
  <2>1. PICK w \in Workers : WorkerStep(w) \/ Request(w)
    BY <1>1 DEF Next
  <2>2. CASE GenerateEnd(w) \/ GenerateReject(w) \/ PayCommit(w)
    BY <2>2, PublishOnce DEF GenerateEnd, GenerateReject, PayCommit
  <2>3. CASE repaid' = repaid
    BY <2>3 DEF RepaidStep
  <2> QED BY <2>1, <2>2, <2>3
    DEF WorkerStep, Request, GenerateStart, GenerateSkip, GenerateCheck, GenerateInsert,
        GenerateDuplicate, GenerateSettle, PayLock, PayLoans, EditLoad, EditSave, LoanLoad,
        LoanSave, DestroyEntry, DeleteRun, Abort, Fail, dbVars, loanVars
<1>2. CASE UNCHANGED vars
  BY <1>2 DEF vars, dbVars, loanVars, RepaidStep
<1> QED BY <1>1, <1>2

\* Once an entry has repaid a loan nothing more is repaid for it, whatever is retried,
\* edited or deleted.
THEOREM EntriesRepayOnce == Spec => RepaidOnce
<1>1. Kept /\ Balanced /\ [Next]_vars => [RepaidStep]_vars
  BY StepOnce
<1>2. RepaidOnce <=> [][RepaidStep]_vars
  BY DEF RepaidOnce, RepaidStep
<1> QED BY <1>1, <1>2, AlwaysBalanced, PTL DEF Spec

----
(* Waiting for locks. *)

Waits(w) == job[w].step \in {"insert", "edit", "settle", "loans", "loan"}

\* How far a waiting request is: requests that hold no lock come first, then those that
\* hold locks, by the employee whose turn it is, the entry before the loans.
Rank(w) ==
  CASE job[w].step = "insert" -> 2 * Min(job[w].todo) + 1
    [] job[w].step \in {"settle", "loans"} -> 2 * Min(job[w].todo) + 2
    [] OTHER -> 0

\* The sum of all primary keys: no rank of employee e is above 2 * e + 2.
Top == 2 * SumFunctionOnSet([e \in Employees |-> e], Employees) + 2

LEMMA RankBounds ==
  ASSUME Kept, Balanced, NEW w \in Workers
  PROVE  Rank(w) \in Nat /\ Rank(w) <= Top /\ Top \in Nat
<1> DEFINE key == [e \in Employees |-> e]
           total == SumFunctionOnSet(key, Employees)
           m == Min(job[w].todo)
<1>1. IsFiniteSet(Employees) /\ \A e \in Employees : key[e] \in Nat /\ key[e] = e
  BY ShapeAssumption
<1> HIDE DEF key
<1>2. total \in Nat /\ \A e \in Employees : key[e] <= total
  BY <1>1, SumNat, SumPart
<1>3. Top = 2 * total + 2
  BY DEF Top, key
<1>4. CASE job[w].step \in {"insert", "settle", "loans"}
  <2>1. job[w].todo # {} /\ job[w].period \in Periods
    BY <1>4, JobFacts DEF StepOK
  <2>2. m \in Employees /\ m \in Nat
    BY <2>1, CurrentIs
  <2>3. m <= total
    BY <1>1, <1>2, <2>2
  <2>4. Rank(w) = 2 * m + 1 \/ Rank(w) = 2 * m + 2
    BY <1>4 DEF Rank
  <2> HIDE DEF m, total
  <2> QED BY <1>2, <1>3, <2>2, <2>3, <2>4
<1>5. CASE job[w].step \notin {"insert", "settle", "loans"}
  <2>1. Rank(w) = 0
    BY <1>5 DEF Rank
  <2> HIDE DEF total
  <2> QED BY <1>2, <1>3, <2>1
<1> QED BY <1>4, <1>5

\* A request that waits for one that waits is not as far as that one.
LEMMA RankGrows ==
  ASSUME Kept, Balanced, NEW w \in Workers, NEW v \in Workers, WaitsFor(w, v), Waits(v)
  PROVE  Rank(w) < Rank(v)
<1>1. /\ StepOK(job[w]) /\ StepOK(job[v]) /\ JobTypes(job[v])
  BY JobFacts
<1> DEFINE m == Min(job[w].todo)
           n == Min(job[v].todo)
\* Those that hold locks while they wait.
<1>2. /\ job[v].step \in {"insert", "settle", "loans"}
      /\ job[v].todo # {} /\ job[v].period \in Periods
  <2>1. job[v].step \notin {"edit", "loan"}
    BY <1>1 DEF WaitsFor, StepOK
  <2>2. job[v].step \in {"insert", "settle", "loans"}
    BY <2>1 DEF Waits
  <2> QED BY <1>1, <2>2 DEF StepOK
<1>3. n \in job[v].todo /\ n \in Nat
  BY <1>2, CurrentIs
<1>4. Rank(v) = (IF job[v].step = "insert" THEN 2 * n + 1 ELSE 2 * n + 2)
  BY <1>2 DEF Rank
<1>5. CASE job[w].step = "insert"
  <2>1. job[w].todo # {} /\ job[w].period \in Periods
    BY <1>1, <1>5 DEF StepOK
  <2>2. m \in Nat /\ Current(w)[1] = m
    BY <2>1, CurrentIs
  <2>3. Current(w) \in DOMAIN job[v].rows
    BY <1>5 DEF WaitsFor
  <2>4. m < n \/ (m = n /\ job[v].step # "insert")
    <3>1. CASE job[v].step = "loans"
      <4>1. Current(w) = <<n, job[v].period>>
        BY <1>1, <2>3, <3>1 DEF StepOK, Paying
      <4> QED BY <2>2, <3>1, <4>1
    <3>2. CASE job[v].step \in {"insert", "settle"}
      BY <1>1, <1>3, <2>2, <2>3, <3>2 DEF StepOK, Fresh
    <3> QED BY <1>2, <3>1, <3>2
  <2>5. Rank(w) = 2 * m + 1
    BY <1>5 DEF Rank
  <2> HIDE DEF m, n
  <2> QED BY <1>3, <1>4, <2>2, <2>4, <2>5
<1>6. CASE job[w].step \in {"settle", "loans"}
  <2>1. job[w].todo # {} /\ job[w].period \in Periods
    BY <1>1, <1>6 DEF StepOK
  <2>2. m \in Nat /\ Current(w)[1] = m
    BY <2>1, CurrentIs
  <2>3. \E l \in DOMAIN job[v].loans : LoanOf[l] = m
    BY <1>6, <2>2 DEF WaitsFor, LoansToLock, Eligible
  <2>4. m < n
    <3>1. job[v].step # "loans"
      BY <1>1, <2>3 DEF StepOK
    <3> QED BY <1>1, <1>2, <1>3, <2>3, <3>1 DEF StepOK, Fresh
  <2>5. Rank(w) = 2 * m + 2
    BY <1>6 DEF Rank
  <2> HIDE DEF m, n
  <2> QED BY <1>3, <1>4, <2>2, <2>4, <2>5
<1>7. CASE job[w].step \in {"edit", "loan"}
  <2>1. Rank(w) = 0
    BY <1>7 DEF Rank
  <2> HIDE DEF n
  <2> QED BY <1>3, <1>4, <2>1
<1> QED BY <1>5, <1>6, <1>7 DEF WaitsFor

\* The request of a set that is furthest waits for none of the set.
LEMMA NoCircle == Kept /\ Balanced => NoCircularWait
<1> SUFFICES ASSUME Kept, Balanced, NEW ws \in (SUBSET Workers) \ {{}},
                    \A w \in ws : \E v \in ws \ {w} : WaitsFor(w, v)
             PROVE  FALSE
  BY DEF NoCircularWait
<1> DEFINE T == {Top - Rank(w) : w \in ws}
<1>1. \A w \in ws : Rank(w) \in Nat /\ Rank(w) <= Top /\ Top \in Nat
  BY RankBounds
<1>2. \A w \in ws : Top - Rank(w) \in Nat
  BY <1>1
<1>3. T \subseteq Nat /\ T # {}
  BY <1>2
<1>4. PICK m \in T : \A k \in T : ~(k < m)
  <2> HIDE DEF T
  <2> QED BY <1>3, Least
<1>5. PICK w \in ws : m = Top - Rank(w)
  BY <1>4
<1>6. PICK v \in ws : WaitsFor(w, v)
  OBVIOUS
<1>7. Waits(v)
  <2>1. PICK u \in ws : WaitsFor(v, u)
    OBVIOUS
  <2> QED BY <2>1 DEF Waits, WaitsFor
<1>8. Rank(w) < Rank(v)
  BY <1>6, <1>7, RankGrows
<1>9. Top - Rank(v) < Top - Rank(w)
  BY <1>1, <1>8
<1> QED BY <1>4, <1>5, <1>9

\* Requests never wait for each other in a circle, however many there are: generate takes
\* entries and loans employee by employee, and a payment its entry before its loans.
THEOREM NeverDeadlocked == Spec => []NoCircularWait
BY NoCircle, AlwaysBalanced, PTL
=============================================================================
