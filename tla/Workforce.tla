----------------------------- MODULE Workforce -----------------------------
(***************************************************************************)
(* The personnel office of apps/hrms, as payroll finds it: employees and   *)
(* their salary history, leave, salary advances and loans as they are      *)
(* granted, certificates and letters, and the page that offers employees   *)
(* for a payroll.                                                          *)
(*                                                                         *)
(* Everything is in the shared database and nothing here is locked: what a *)
(* request checks it has read in an earlier step.  A month has MonthDays   *)
(* days; all of it is one year.  Basic salary and allowances are one       *)
(* amount, and of the personal data only what a later check reads is kept. *)
(***************************************************************************)
EXTENDS Integers, Sequences, FiniteSets, FiniteSetsExt, Functions

CONSTANTS
  Officers,      \* web processes
  Staff,         \* primary keys of Employee
  LeaveRows,     \* primary keys of LeaveRequest
  NumMonths, MonthDays,
  Entitled,      \* LeaveType.annual_limit of the paid leave
  Positions,     \* employment statuses that clients send
  PaperKinds,    \* certificates and letters that clients issue
  MaxRevisions,  \* bound: SalaryRevision rows of an employee
  MaxPapers,     \* bound: certificates and letters
  Bureaus        \* what clients do in a behaviour, and with whom

VARIABLES
  bureau,    \* the kinds of request that clients send, whether they overlap, the people
             \* who are hired and the salaries that are sent
  today,
  staff,     \* Employee rows
  history,   \* SalaryRevision rows of an employee, oldest first
  leaves,    \* LeaveRequest rows
  used,      \* LeaveBalance.used_days of the paid leave
  granted,   \* SalaryAdvance.remaining_amount, per employee and month of deduction
  lent,      \* EmployeeLoan of an employee
  papers,    \* SalaryCertificate and EmployeeLetter rows, oldest first
  chore      \* the request each officer serves

fileVars == <<staff, history>>
leaveVars == <<leaves, used>>
payVars == <<granted, lent>>
workforceVars == <<bureau, today, fileVars, leaveVars, payVars, papers, chore>>

Days == 1..NumMonths * MonthDays
Months == 1..NumMonths
MonthOf(d) == (d - 1) \div MonthDays + 1
FirstDay(p) == (p - 1) * MonthDays + 1
LastDay(p) == p * MonthDays

Employed == {"ACTIVE", "PROBATION", "ON_LEAVE"}
LeaveStatuses == {"PENDING", "APPROVED", "REJECTED", "CANCELLED"}
Unemployed == [row |-> FALSE, active |-> FALSE, position |-> "none", joined |-> 0, salary |-> 0]
NoLeave == [status |-> "ABSENT", who |-> "none", kind |-> "none", from |-> 0, to |-> 0]
NoLoan == [remaining |-> 0, installment |-> 0, start |-> 0]
AtEase == [step |-> "free"]

ASSUME WorkforceAssumption ==
  /\ NumMonths \in Nat \ {0} /\ MonthDays \in Nat \ {0}
  /\ Entitled \in Nat
  /\ PaperKinds \subseteq {"SALARY", "WARNING", "EXPERIENCE"}
  /\ IsFiniteSet(LeaveRows)
  /\ \A b \in Bureaus : b.people \subseteq Staff /\ b.salaries \subseteq Nat

WorkforceInit ==
  /\ bureau \in Bureaus
  /\ today = 1
  /\ staff = [e \in Staff |-> Unemployed]
  /\ history = [e \in Staff |-> <<>>]
  /\ leaves = [l \in LeaveRows |-> NoLeave]
  /\ used = [e \in Staff |-> 0]
  /\ granted = [e \in Staff |-> [p \in Months |-> 0]]
  /\ lent = [e \in Staff |-> NoLoan]
  /\ papers = <<>>
  /\ chore = [c \in Officers |-> AtEase]

Accepts(c, kind) ==
  /\ kind \in bureau.kinds
  /\ chore[c] = AtEase
  /\ bureau.overlap \/ \A d \in Officers : chore[d] = AtEase

Doing(c, step) == chore[c].step = step
Turns(c, t) == chore' = [chore EXCEPT ![c] = t]
Done(c) == Turns(c, AtEase)
Offers(kind, values, value) == IF kind \in bureau.kinds THEN values ELSE {value}

Tomorrow ==
  /\ "tomorrow" \in bureau.kinds /\ today < LastDay(NumMonths)
  /\ today' = today + 1
  /\ UNCHANGED <<bureau, fileVars, leaveVars, payVars, papers, chore>>

----------------------------------------------------------------------------
(* Employees and their salaries. *)

Revision(reason, open, salary) == [reason |-> reason, open |-> open, salary |-> salary]

\* An employee is created with the revision of joining.
Hire(c) ==
  /\ Accepts(c, "hire")
  /\ \E e \in bureau.people, day \in Days, salary \in bureau.salaries :
       /\ ~staff[e].row
       /\ staff' = [staff EXCEPT ![e] = [row |-> TRUE, active |-> TRUE, position |-> "ACTIVE",
                                         joined |-> day, salary |-> salary]]
       /\ history' = [history EXCEPT ![e] = <<Revision("JOINING", TRUE, salary)>>]
  /\ UNCHANGED <<bureau, today, leaveVars, payVars, papers, chore>>

\* The one revision of an employee who joined without salary.
UnpaidJoining(e) ==
  {n \in DOMAIN history[e] : /\ history[e][n] = Revision("JOINING", TRUE, 0)
                             /\ \A k \in DOMAIN history[e] : history[e][k].reason = "JOINING"}

\* Mutant: the profile changes the salary without a revision.
CorrectedSilently(e, salary) == history[e]

\* A salary from the profile fills in the joining without salary, or is a correction.
Corrected(e, salary) ==
  IF UnpaidJoining(e) # {} /\ salary > 0
  THEN [history[e] EXCEPT ![Min(UnpaidJoining(e))].salary = salary]
  ELSE Append(history[e], Revision("CORRECTION", TRUE, salary))

EditStaffLoad(c) ==
  /\ Accepts(c, "edit_staff")
  /\ \E e \in Staff :
       /\ staff[e].row
       /\ Turns(c, [step |-> "edit_staff", who |-> e, read |-> staff[e]])
  /\ UNCHANGED <<bureau, today, fileVars, leaveVars, payVars, papers>>

\* The whole row is saved as it was read, with what the client sends.
EditStaffSave(c) ==
  LET e == chore[c].who
      read == chore[c].read
  IN /\ Doing(c, "edit_staff")
     /\ \E salary \in bureau.salaries, active \in BOOLEAN, position \in Positions \union {read.position} :
          /\ salary # read.salary => Len(history[e]) < MaxRevisions
          /\ staff' = [staff EXCEPT ![e] = [read EXCEPT !.salary = salary, !.active = active,
                                                        !.position = position]]
          /\ history' = IF salary = read.salary THEN history
                        ELSE [history EXCEPT ![e] = Corrected(e, salary)]
     /\ Done(c)
     /\ UNCHANGED <<bureau, today, leaveVars, payVars, papers>>

\* A revision with an end is history, one without is the salary from now on.
ReviseSalary(c) ==
  /\ Accepts(c, "revise")
  /\ \E e \in Staff, salary \in bureau.salaries, open \in BOOLEAN :
       /\ staff[e].row /\ Len(history[e]) < MaxRevisions
       /\ history' = [history EXCEPT ![e] = Append(@, Revision("PROMOTION", open, salary))]
       /\ staff' = IF open THEN [staff EXCEPT ![e].salary = salary] ELSE staff
  /\ UNCHANGED <<bureau, today, leaveVars, payVars, papers, chore>>

\* A revision is edited or deleted without a look at the employee.
ChangeRevision(c) ==
  /\ Accepts(c, "change_revision")
  /\ \E e \in Staff : \E n \in DOMAIN history[e], salary \in bureau.salaries :
       \/ history' = [history EXCEPT ![e][n].salary = salary]
       \/ history' = [history EXCEPT ![e] = SubSeq(@, 1, n - 1) \o SubSeq(@, n + 1, Len(@))]
  /\ UNCHANGED <<bureau, today, staff, leaveVars, payVars, papers, chore>>

\* Reading the salary history repairs a joining without salary.
ReadHistory(c) ==
  /\ Accepts(c, "history")
  /\ \E e \in Staff :
       /\ UnpaidJoining(e) # {} /\ staff[e].salary > 0
       /\ history' = [history EXCEPT ![e][Min(UnpaidJoining(e))].salary = staff[e].salary]
  /\ UNCHANGED <<bureau, today, staff, leaveVars, payVars, papers, chore>>

----------------------------------------------------------------------------
(* Leave. *)

Length(row) == row.to - row.from + 1
Standing(l) == leaves[l].status \in {"PENDING", "APPROVED"}

\* Mutant: a request that is still pending does not stand in the way.
ClashesApproved(e, from, to) ==
  {l \in LeaveRows : /\ leaves[l].status = "APPROVED" /\ leaves[l].who = e
                     /\ leaves[l].from <= to /\ from <= leaves[l].to}

\* The leave of an employee that overlaps these days.
Clashes(e, from, to) ==
  {l \in LeaveRows : Standing(l) /\ leaves[l].who = e
                     /\ leaves[l].from <= to /\ from <= leaves[l].to}

AskLeave(c) ==
  /\ Accepts(c, "ask")
  /\ \E l \in LeaveRows, e \in Staff, kind \in {"paid", "unpaid"}, from \in Days, to \in Days,
        status \in Offers("write_status", LeaveStatuses, "PENDING") :
       /\ leaves[l] = NoLeave /\ staff[e].row
       /\ from <= to /\ Clashes(e, from, to) = {}
       /\ \A d \in Officers : Doing(d, "ask") => chore[d].leave # l
       /\ Turns(c, [step |-> "ask", leave |-> l,
                    row |-> [status |-> status, who |-> e, kind |-> kind,
                             from |-> from, to |-> to]])
  /\ UNCHANGED <<bureau, today, fileVars, leaveVars, payVars, papers>>

\* A PATCH of the days looks for clashes with leave of the employee that it names, and
\* finds none when it names nobody; a PATCH of the status looks for none.
EditLeave(c) ==
  /\ Accepts(c, "edit_leave")
  /\ \E l \in {k \in LeaveRows : leaves[k] # NoLeave}, from \in Days, to \in Days :
     \E status \in Offers("write_status", LeaveStatuses, leaves[l].status) :
       /\ from <= to
       /\ \/ "unnamed" \in bureau.kinds
          \/ leaves[l].from = from /\ leaves[l].to = to
          \/ Clashes(leaves[l].who, from, to) \subseteq {l}
       /\ Turns(c, [step |-> "edit_leave", leave |-> l,
                    row |-> [leaves[l] EXCEPT !.from = from, !.to = to, !.status = status]])
  /\ UNCHANGED <<bureau, today, fileVars, leaveVars, payVars, papers>>

LeaveSave(c) ==
  /\ chore[c].step \in {"ask", "edit_leave"}
  /\ leaves' = [leaves EXCEPT ![chore[c].leave] = chore[c].row]
  /\ Done(c)
  /\ UNCHANGED <<bureau, today, fileVars, used, payVars, papers>>

\* Mutant: the balance is not looked at.
EnoughAnyway(row) == TRUE

\* Paid leave fits the balance; the client may override it.
Enough(row) ==
  row.kind = "paid" /\ "override" \notin bureau.kinds => Length(row) <= Entitled - used[row.who]

DecideLoad(c) ==
  /\ \E kind \in {"approve", "reject"}, l \in LeaveRows :
       /\ Accepts(c, kind)
       /\ leaves[l].status = "PENDING"
       /\ kind = "approve" => Enough(leaves[l])
       /\ Turns(c, [step |-> kind, leave |-> l, row |-> leaves[l], balance |-> used[leaves[l].who]])
  /\ UNCHANGED <<bureau, today, fileVars, leaveVars, payVars, papers>>

\* The balance is the one that was read, plus the days; without the request's row both
\* are rolled back.
DecideSave(c) ==
  LET l == chore[c].leave
      row == chore[c].row
  IN /\ chore[c].step \in {"approve", "reject"}
     /\ IF leaves[l] = NoLeave THEN UNCHANGED leaveVars
        ELSE /\ leaves' = [leaves EXCEPT ![l].status =
                  IF Doing(c, "approve") THEN "APPROVED" ELSE "REJECTED"]
             /\ used' = IF Doing(c, "approve") /\ row.kind = "paid"
                        THEN [used EXCEPT ![row.who] = chore[c].balance + Length(row)] ELSE used
     /\ Done(c)
     /\ UNCHANGED <<bureau, today, fileVars, payVars, papers>>

DeleteLeave(c) ==
  /\ Accepts(c, "delete_leave")
  /\ \E l \in LeaveRows : leaves[l] # NoLeave /\ leaves' = [leaves EXCEPT ![l] = NoLeave]
  /\ UNCHANGED <<bureau, today, fileVars, used, payVars, papers, chore>>

\* The profile page: days approved this year, and those of them without pay.
DaysApproved(e, kinds) ==
  SumFunctionOnSet([l \in LeaveRows |-> Length(leaves[l])],
    {l \in LeaveRows : /\ leaves[l].status = "APPROVED" /\ leaves[l].who = e
                       /\ leaves[l].kind \in kinds})

----------------------------------------------------------------------------
(* Advances and loans. *)

\* An advance is not more than a salary and not for a month before joining; how many
\* advances there are is nobody's business, so the guard on granted is only a bound.
GrantAdvance(c) ==
  /\ Accepts(c, "advance")
  /\ \E e \in Staff, p \in Months, amount \in bureau.salaries \ {0} :
       /\ staff[e].row /\ amount <= staff[e].salary
       /\ MonthOf(staff[e].joined) <= p /\ staff[e].joined <= today
       /\ granted[e][p] <= staff[e].salary
       /\ granted' = [granted EXCEPT ![e][p] = @ + amount]
  /\ UNCHANGED <<bureau, today, fileVars, leaveVars, lent, papers, chore>>

GrantLoan(c) ==
  /\ Accepts(c, "loan")
  /\ \E e \in Staff, p \in Months, amount \in bureau.salaries \ {0}, installment \in bureau.salaries \ {0} :
       /\ staff[e].row /\ lent[e] = NoLoan
       /\ installment <= amount
       /\ lent' = [lent EXCEPT ![e] = [remaining |-> amount, installment |-> installment, start |-> p]]
  /\ UNCHANGED <<bureau, today, fileVars, leaveVars, granted, papers, chore>>

----------------------------------------------------------------------------
(* The employees that are offered for a payroll, and what it would pay them. *)

Offered(p) == {e \in Staff : /\ staff[e].row /\ staff[e].active
                             /\ staff[e].position \in Employed /\ staff[e].joined <= LastDay(p)}

\* generate takes any active employee who has joined.
Accepted(p) == {e \in Staff : staff[e].row /\ staff[e].active /\ staff[e].joined <= LastDay(p)}

EmploymentStart(e, p) == Max({FirstDay(p), staff[e].joined})

\* Mutant: leave before the employee joined is counted too.
UnpaidDaysUnclipped(e, p) ==
  SumFunctionOnSet([l \in LeaveRows |-> Min({leaves[l].to, LastDay(p)}) - leaves[l].from + 1],
    {l \in LeaveRows : /\ leaves[l].status = "APPROVED" /\ leaves[l].kind = "unpaid"
                       /\ leaves[l].who = e /\ leaves[l].from <= LastDay(p)
                       /\ leaves[l].to >= EmploymentStart(e, p)})

UnpaidDays(e, p) ==
  SumFunctionOnSet([l \in LeaveRows |-> Min({leaves[l].to, LastDay(p)})
                                       - Max({leaves[l].from, EmploymentStart(e, p)}) + 1],
    {l \in LeaveRows : /\ leaves[l].status = "APPROVED" /\ leaves[l].kind = "unpaid"
                       /\ leaves[l].who = e /\ leaves[l].from <= LastDay(p)
                       /\ leaves[l].to >= EmploymentStart(e, p)})

PayableDays(e, p) ==
  Max({0, LastDay(p) - EmploymentStart(e, p) + 1 - UnpaidDays(e, p)})

\* The salary of the payable days, rounded half up.
EstimatedGross(e, p) == (2 * staff[e].salary * PayableDays(e, p) + MonthDays) \div (2 * MonthDays)

Estimate(e, p) ==
  LET gross == EstimatedGross(e, p)
      advance == Min({granted[e][p], gross})
      loan == IF lent[e].start \notin 1..p THEN 0
              ELSE Min({lent[e].installment, lent[e].remaining, gross - advance})
  IN [gross |-> gross, advance |-> advance, loan |-> loan,
      balance |-> Max({0, gross - advance - loan})]

----------------------------------------------------------------------------
(* Certificates and letters. *)

\* Certificates and warnings are for people who work here, a letter of experience says
\* when somebody who has joined has left.
Admits(kind, e) ==
  IF kind = "EXPERIENCE" THEN staff[e].joined <= today ELSE staff[e].position \in Employed

Numbered(kind) == {n \in DOMAIN papers : papers[n].kind = kind}

\* One more than the number of the latest paper of its kind.
NextPaper(kind) == IF Numbered(kind) = {} THEN 1 ELSE papers[Max(Numbered(kind))].number + 1

\* Mutant: reference_number is not unique.
PaperFreeAnyway(kind, number) == TRUE

PaperFree(kind, number) == \A n \in Numbered(kind) : papers[n].number # number

IssueLoad(c) ==
  /\ Accepts(c, "issue")
  /\ \E e \in Staff, kind \in PaperKinds :
       /\ staff[e].row /\ Admits(kind, e)
       /\ Turns(c, [step |-> "issue", who |-> e, kind |-> kind, number |-> NextPaper(kind),
                    salary |-> staff[e].salary])
  /\ UNCHANGED <<bureau, today, fileVars, leaveVars, payVars, papers>>

\* A number that another request has taken meanwhile is refused by the database.
IssueSave(c) ==
  /\ Doing(c, "issue") /\ Len(papers) < MaxPapers
  /\ papers' = IF PaperFree(chore[c].kind, chore[c].number)
               THEN Append(papers, [kind |-> chore[c].kind, number |-> chore[c].number,
                                    who |-> chore[c].who, salary |-> chore[c].salary])
               ELSE papers
  /\ Done(c)
  /\ UNCHANGED <<bureau, today, fileVars, leaveVars, payVars>>

----------------------------------------------------------------------------
OfficerStep(c) ==
  \/ Hire(c) \/ EditStaffLoad(c) \/ EditStaffSave(c) \/ ReviseSalary(c)
  \/ ChangeRevision(c) \/ ReadHistory(c)
  \/ AskLeave(c) \/ EditLeave(c) \/ LeaveSave(c) \/ DecideLoad(c) \/ DecideSave(c)
  \/ DeleteLeave(c) \/ GrantAdvance(c) \/ GrantLoan(c)
  \/ IssueLoad(c) \/ IssueSave(c)

WorkforceNext == Tomorrow \/ \E c \in Officers : OfficerStep(c)

WorkforceSpec == WorkforceInit /\ [][WorkforceNext]_workforceVars

----------------------------------------------------------------------------
(* Properties. *)

Never(kinds) == bureau.kinds \intersect kinds = {}

\* One at a time, the salary of an employee is the latest open one of the history,
\* whichever page it was changed on, unless revisions are edited or deleted.
SalaryFollows ==
  ~bureau.overlap /\ Never({"change_revision"}) =>
    \A e \in Staff : staff[e].row =>
      staff[e].salary = history[e][Max({n \in DOMAIN history[e] : history[e][n].open})].salary

\* One at a time, the standing leave of an employee does not overlap, unless a PATCH
\* names nobody or writes the status.
LeavesApart ==
  ~bureau.overlap /\ Never({"unnamed", "write_status"}) =>
    \A l, k \in LeaveRows :
      l # k /\ Standing(l) /\ Standing(k) /\ leaves[l].who = leaves[k].who
        => leaves[l].to < leaves[k].from \/ leaves[k].to < leaves[l].from

\* One at a time, the balance has the paid days that the profile counts as approved, and
\* they fit the entitlement unless clients override it.
LeavesCounted ==
  ~bureau.overlap /\ Never({"edit_leave", "delete_leave", "write_status"}) =>
    \A e \in Staff :
      /\ used[e] = DaysApproved(e, {"paid", "unpaid"}) - DaysApproved(e, {"unpaid"})
      /\ Never({"override"}) => used[e] <= Entitled

\* The payroll page offers nobody whom generate refuses, counts the days that were worked
\* or paid leave, and its estimate adds up.
PreviewAdds ==
  \A p \in Months : \A e \in Offered(p) :
    /\ e \in Accepted(p)
    /\ ~bureau.overlap /\ Never({"unnamed", "write_status"}) =>
         PayableDays(e, p) =
           Cardinality({d \in FirstDay(p)..LastDay(p) :
             /\ staff[e].joined <= d
             /\ \A l \in LeaveRows :
                  ~ /\ leaves[l].status = "APPROVED" /\ leaves[l].kind = "unpaid"
                    /\ leaves[l].who = e /\ d \in leaves[l].from..leaves[l].to})
    /\ Estimate(e, p).gross = Estimate(e, p).advance + Estimate(e, p).loan + Estimate(e, p).balance

\* Requests overlapping or not, a reference number names one paper of its kind.
NumbersOnce ==
  \A n, k \in DOMAIN papers :
    papers[n].kind = papers[k].kind /\ papers[n].number = papers[k].number => n = k

\* What payroll and the employees rely on: salaries follow their history, leave is apart
\* and counted, the payroll page tells what would be paid, and numbers name one paper.
WorkforceSound ==
  SalaryFollows /\ LeavesApart /\ LeavesCounted /\ PreviewAdds /\ NumbersOnce
=============================================================================
