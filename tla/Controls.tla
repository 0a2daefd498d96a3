------------------------------ MODULE Controls ------------------------------
(***************************************************************************)
(* The controls of apps/finance: budgets with their revisions, VAT         *)
(* returns, and accounting periods, served by the workers of Finance.      *)
(*                                                                         *)
(* Every request decides on the row that it has read and saves it later:   *)
(* workflow requests save the fields they set, edits the whole row.        *)
(***************************************************************************)
EXTENDS Statements

CONSTANTS
  Budgets, Revisions, Returns,   \* rows that clients may create
  Credits,                       \* prior period credits that clients send
  MaxBudgetLines,                \* bound: sets of lines that a budget is given
  MaxVersion                     \* bound: of a budget's version

ASSUME ControlsAssumption ==
  /\ Credits \subseteq Nat
  /\ {MaxBudgetLines, MaxVersion} \subseteq Nat \ {0}
  /\ IsFiniteSet(Revisions)

VARIABLES
  budgets,         \* status and version of each budget
  budgetLines,     \* how many sets of lines a budget has been given; it has the last
  approvedLines,   \* history: the lines that were there when it was read to be approved
  revisions,       \* status of each revision and the budget it is of
  returns,         \* VatReturn rows
  approvedReturns, \* history: returns that have been approved
  periods          \* AccountingPeriod.status

controls == <<budgets, budgetLines, approvedLines, revisions, returns, approvedReturns, periods>>
controlsVars == <<allVars, controls>>

NoBudget == [status |-> "ABSENT", version |-> 1]
NoRevision == [status |-> "ABSENT", of |-> "none"]
NoReturn ==
  [status |-> "ABSENT", scope |-> "all", type |-> "VAT201", period |-> 0, output |-> 0,
   input |-> 0, credit |-> 0, net |-> 0, payment |-> "NOT_PAID"]

ControlsInit ==
  /\ AllInit
  /\ budgets = [b \in Budgets |-> NoBudget]
  /\ budgetLines = [b \in Budgets |-> 0]
  /\ approvedLines = [b \in Budgets |-> 0]
  /\ revisions = [r \in Revisions |-> NoRevision]
  /\ returns = [v \in Returns |-> NoReturn]
  /\ approvedReturns = {}
  /\ periods = [p \in Periods |-> "OPEN"]

Elsewhere == <<clients, overlap, documents, money, assetVars>>
budgetVars == <<budgets, budgetLines, approvedLines, revisions>>
returnVars == <<returns, approvedReturns>>

\* Nobody is at work on a row.
Untouched(row) == \A v \in Workers : "control" \in DOMAIN job[v] => job[v].control # row

----------------------------------------------------------------------------
(* Budgets. *)

CreateBudget(w) ==
  /\ Takes(w, "create_budget")
  /\ \E b \in Budgets :
       /\ budgetLines[b] = 0
       /\ budgets' = [budgets EXCEPT ![b].status = "DRAFT"]
       /\ budgetLines' = [budgetLines EXCEPT ![b] = 1]
  /\ UNCHANGED <<Elsewhere, job, approvedLines, revisions, returnVars, periods>>

\* Mutant: an approved budget can be edited.
OpenToEditsApproved(b) == budgets[b].status \in {"DRAFT", "REJECTED", "APPROVED"}

OpenToEdits(b) == budgets[b].status \in {"DRAFT", "REJECTED"}

EditBudgetLoad(w) ==
  /\ Takes(w, "edit_budget")
  /\ \E b \in Budgets :
       /\ OpenToEdits(b)
       /\ Becomes(w, [step |-> "edit_budget", control |-> b, read |-> budgets[b]])
  /\ UNCHANGED <<Elsewhere, controls>>

\* The row is saved as it was read, inserted again when it is gone, with new lines.
EditBudgetSave(w) ==
  LET b == job[w].control
  IN /\ At(w, "edit_budget")
     /\ budgetLines[b] < MaxBudgetLines
     /\ budgets' = [budgets EXCEPT ![b] = job[w].read]
     /\ budgetLines' = [budgetLines EXCEPT ![b] = @ + 1]
     /\ Respond(w)
     /\ UNCHANGED <<Elsewhere, approvedLines, revisions, returnVars, periods>>

\* Revisions protect their budget.
DeleteBudget(w) ==
  /\ Takes(w, "delete_budget")
  /\ \E b \in Budgets :
       /\ budgets[b].status # "ABSENT"
       /\ \A r \in Revisions : revisions[r].of # b
       /\ budgets' = [budgets EXCEPT ![b] = NoBudget]
  /\ UNCHANGED <<Elsewhere, job, budgetLines, approvedLines, revisions, returnVars, periods>>

BudgetMoves ==
  {[kind |-> "submit_budget", from |-> {"DRAFT", "REJECTED"}, to |-> "PENDING_APPROVAL"],
   [kind |-> "approve_budget", from |-> {"PENDING_APPROVAL"}, to |-> "APPROVED"],
   [kind |-> "reject_budget", from |-> {"PENDING_APPROVAL"}, to |-> "REJECTED"],
   [kind |-> "activate_budget", from |-> {"APPROVED"}, to |-> "ACTIVE"]}

BudgetLoad(w) ==
  /\ \E b \in Budgets, move \in BudgetMoves :
       /\ Takes(w, move.kind)
       /\ budgets[b].status \in move.from
       /\ Becomes(w, [step |-> "budget", control |-> b, status |-> move.to,
                      lines |-> budgetLines[b]])
  /\ UNCHANGED <<Elsewhere, controls>>

BudgetSave(w) ==
  LET b == job[w].control
  IN /\ At(w, "budget")
     /\ budgets[b].status # "ABSENT"
     /\ budgets' = [budgets EXCEPT ![b].status = job[w].status]
     /\ approvedLines' = IF job[w].status = "APPROVED"
                         THEN [approvedLines EXCEPT ![b] = job[w].lines] ELSE approvedLines
     /\ Respond(w)
     /\ UNCHANGED <<Elsewhere, budgetLines, revisions, returnVars, periods>>

----------------------------------------------------------------------------
(* Revisions. *)

CreateRevision(w) ==
  /\ Takes(w, "create_revision")
  /\ \E r \in Revisions, b \in Budgets :
       /\ revisions[r] = NoRevision /\ Untouched(r)
       /\ budgets[b].status # "ABSENT"
       /\ revisions' = [revisions EXCEPT ![r] = [status |-> "DRAFT", of |-> b]]
  /\ UNCHANGED <<Elsewhere, job, budgets, budgetLines, approvedLines, returnVars, periods>>

DeleteRevision(w) ==
  /\ Takes(w, "delete_revision")
  /\ \E r \in Revisions :
       /\ revisions[r] # NoRevision
       /\ revisions' = [revisions EXCEPT ![r] = NoRevision]
  /\ UNCHANGED <<Elsewhere, job, budgets, budgetLines, approvedLines, returnVars, periods>>

\* A revision is submitted or approved as it is read, with its budget.
RevisionLoad(w) ==
  \E r \in Revisions, kind \in {"submit_revision", "approve_revision"} :
    /\ Takes(w, kind)
    /\ revisions[r].status = IF kind = "submit_revision" THEN "DRAFT" ELSE "PENDING_APPROVAL"
    /\ Becomes(w, [step |-> kind, control |-> r, version |-> budgets[revisions[r].of].version])
    /\ UNCHANGED <<Elsewhere, controls>>

SubmitRevision(w) ==
  LET r == job[w].control
  IN /\ At(w, "submit_revision")
     /\ revisions[r] # NoRevision
     /\ revisions' = [revisions EXCEPT ![r].status = "PENDING_APPROVAL"]
     /\ Respond(w)
     /\ UNCHANGED <<Elsewhere, budgets, budgetLines, approvedLines, returnVars, periods>>

\* Mutant: the version is counted up where it is.
NextVersionTwice(read) == read + 2

NextVersion(read) == read + 1

\* Approval moves nothing between the lines: it counts the version of the budget.
ApproveRevision(w) ==
  LET r == job[w].control
      b == revisions[r].of
  IN /\ At(w, "approve_revision")
     /\ revisions[r] # NoRevision
     /\ job[w].version < MaxVersion
     /\ revisions' = [revisions EXCEPT ![r].status = "APPROVED"]
     /\ budgets' = [budgets EXCEPT ![b].version = NextVersion(job[w].version)]
     /\ Respond(w)
     /\ UNCHANGED <<Elsewhere, budgetLines, approvedLines, returnVars, periods>>

----------------------------------------------------------------------------
(* VAT returns. *)

Dated(taxed, period) ==
  {d \in taxed : DayOf[IF d \in Invoices THEN "invoice" ELSE "bill"] = period}

\* A scope has one return of each type for a period; the scope of all branches is no
\* value.
ScopeFree(v, row) ==
  row.scope = "all" \/ \A x \in Returns \ {v} :
    ~(returns[x].status # "ABSENT" /\ returns[x].scope = row.scope
      /\ returns[x].type = row.type /\ returns[x].period = row.period)

Scopes == {"all", "branch"}
ReturnTypes == {"VAT201", "AMENDED"}
PaymentStatuses == {"NOT_PAID", "PAID"}

\* A return that a client fills in itself has no figures, and may say that it is paid.
FilledIn(p, scope, type, credit, payment) ==
  [NoReturn EXCEPT !.status = "DRAFT", !.scope = scope, !.type = type, !.period = p,
                   !.credit = credit, !.payment = payment]

\* Only clients that amend returns send another type than that of a first return.
Sent == IF "amend" \in clients THEN ReturnTypes ELSE {"VAT201"}

CreateReturn(w) ==
  /\ Takes(w, "create_return")
  /\ \E v \in Returns, p \in Periods, scope \in Scopes, type \in Sent, credit \in Credits,
        payment \in PaymentStatuses :
       LET row == FilledIn(p, scope, type, credit, payment)
       IN /\ returns[v] = NoReturn /\ Untouched(v) /\ v \notin approvedReturns
          /\ ScopeFree(v, row)
          /\ returns' = [returns EXCEPT ![v] = row]
  /\ UNCHANGED <<Elsewhere, job, budgetVars, approvedReturns, periods>>

\* A prepared return has the figures of its period: the sales are summed up first ...
PrepareSales(w) ==
  /\ Takes(w, "prepare_return")
  /\ \E p \in Periods, scope \in Scopes, type \in Sent, credit \in Credits,
        payment \in PaymentStatuses :
       Becomes(w, [step |-> "prepare", form |-> FilledIn(p, scope, type, credit, payment),
                   output |-> VatOf(Dated(VatSales, p))])
  /\ UNCHANGED <<Elsewhere, controls>>

\* Mutant: the credit of the period before is forgotten.
NetPayableBeforeCredit(output, input, credit) == Max({0, output - input})

NetPayable(output, input, credit) == Max({0, output - input - credit})

WithFigures(form, output, input) ==
  [form EXCEPT !.output = output, !.input = input, !.net = NetPayable(output, input, form.credit)]

\* ... then the purchases.
PrepareReturn(w) ==
  LET form == job[w].form
      input == VatOf(Dated(VatPurchases, form.period))
      row == WithFigures(form, job[w].output, input)
  IN /\ At(w, "prepare")
     /\ \E v \in Returns :
          /\ returns[v] = NoReturn /\ Untouched(v) /\ v \notin approvedReturns
          /\ ScopeFree(v, row)
          /\ returns' = [returns EXCEPT ![v] = row]
     /\ Respond(w)
     /\ UNCHANGED <<Elsewhere, budgetVars, approvedReturns, periods>>

DeleteReturn(w) ==
  /\ Takes(w, "delete_return")
  /\ \E v \in Returns :
       /\ returns[v] # NoReturn
       /\ returns' = [returns EXCEPT ![v] = NoReturn]
  /\ UNCHANGED <<Elsewhere, job, budgetVars, approvedReturns, periods>>

\* What a PATCH may make of a return, in any status: clients that move returns also
\* give it another period, scope or type.  The figures stay.
Edited(v) ==
  LET moved == IF "move_return" \in clients THEN Periods ELSE {}
  IN {[returns[v] EXCEPT !.credit = c] : c \in Credits}
     \union {[returns[v] EXCEPT !.payment = y] : y \in PaymentStatuses}
     \union {[returns[v] EXCEPT !.period = x.period, !.scope = x.scope, !.type = x.type] :
                x \in [period : moved, scope : Scopes, type : Sent]}

\* The whole row is saved.
EditReturnLoad(w) ==
  /\ Takes(w, "edit_return")
  /\ \E v \in Returns :
       /\ returns[v] # NoReturn
       /\ \E row \in Edited(v) :
            Becomes(w, [step |-> "edit_return", control |-> v, read |-> row])
  /\ UNCHANGED <<Elsewhere, controls>>

EditReturnSave(w) ==
  LET v == job[w].control
  IN /\ At(w, "edit_return")
     /\ ScopeFree(v, job[w].read)
     /\ returns' = [returns EXCEPT ![v] = job[w].read]
     /\ Respond(w)
     /\ UNCHANGED <<Elsewhere, budgetVars, approvedReturns, periods>>

\* Mutant: a return is filed without approval.
FiledFromPending == "PENDING_APPROVAL"

FiledFrom == "APPROVED"

\* From which status a request takes a return, and to which.  Nothing rejects one.
ReturnMoves ==
  {[kind |-> "validate_return", from |-> {"DRAFT", "REJECTED"}, to |-> "VALIDATED",
    payment |-> "any"],
   [kind |-> "submit_return", from |-> {"VALIDATED"}, to |-> "PENDING_APPROVAL",
    payment |-> "any"],
   [kind |-> "approve_return", from |-> {"PENDING_APPROVAL"}, to |-> "APPROVED",
    payment |-> "any"],
   [kind |-> "file_return", from |-> {FiledFrom}, to |-> "FILED", payment |-> "NOT_PAID"],
   [kind |-> "file_return", from |-> {FiledFrom}, to |-> "PAID", payment |-> "PAID"]}

ReturnLoad(w) ==
  /\ \E v \in Returns, move \in ReturnMoves :
       /\ Takes(w, move.kind)
       /\ returns[v].status \in move.from
       /\ Becomes(w, [step |-> "return", control |-> v, status |-> move.to,
                      payment |-> move.payment])
  /\ UNCHANGED <<Elsewhere, controls>>

ReturnSave(w) ==
  LET v == job[w].control
  IN /\ At(w, "return")
     /\ returns[v] # NoReturn
     /\ returns' = [returns EXCEPT ![v].status = job[w].status,
          ![v].payment = IF job[w].payment = "any" THEN @ ELSE job[w].payment]
     /\ approvedReturns' = IF job[w].status = "APPROVED"
                           THEN approvedReturns \union {v} ELSE approvedReturns
     /\ Respond(w)
     /\ UNCHANGED <<Elsewhere, budgetVars, periods>>

----------------------------------------------------------------------------
(* Periods. *)

\* A period is closed or opened again; a PATCH may lock it.  No posting asks for it.
SetPeriod(w) ==
  /\ Takes(w, "set_period")
  /\ \E p \in Periods, status \in {"OPEN", "CLOSED", "LOCKED"} :
       periods' = [periods EXCEPT ![p] = status]
  /\ UNCHANGED <<Elsewhere, job, budgetVars, returnVars>>

----------------------------------------------------------------------------

BudgetStep(w) ==
  \/ CreateBudget(w) \/ EditBudgetLoad(w) \/ EditBudgetSave(w) \/ DeleteBudget(w)
  \/ BudgetLoad(w) \/ BudgetSave(w)
  \/ CreateRevision(w) \/ DeleteRevision(w) \/ RevisionLoad(w) \/ SubmitRevision(w)
  \/ ApproveRevision(w)

ReturnStep(w) ==
  \/ CreateReturn(w) \/ PrepareSales(w) \/ PrepareReturn(w) \/ DeleteReturn(w)
  \/ EditReturnLoad(w) \/ EditReturnSave(w) \/ ReturnLoad(w) \/ ReturnSave(w)

ControlsNext ==
  \/ AllNext /\ UNCHANGED controls
  \/ \E w \in Workers : BudgetStep(w) \/ ReturnStep(w) \/ SetPeriod(w)

ControlsSpec == ControlsInit /\ [][ControlsNext]_controlsVars

----------------------------------------------------------------------------
(* Properties. *)

BudgetStatuses == {"ABSENT", "DRAFT", "PENDING_APPROVAL", "APPROVED", "ACTIVE", "REJECTED"}
ReturnStatuses ==
  {"ABSENT", "DRAFT", "VALIDATED", "PENDING_APPROVAL", "APPROVED", "FILED", "PAID"}

\* Finance keeps its shape, and so do budgets, revisions, returns and periods.
ControlsTypeOK ==
  /\ AllTypeOK
  /\ budgets \in [Budgets -> [status : BudgetStatuses, version : Nat]]
  /\ {budgetLines, approvedLines} \subseteq [Budgets -> 0..MaxBudgetLines]
  /\ revisions \in [Revisions -> [status : {"ABSENT", "DRAFT", "PENDING_APPROVAL", "APPROVED"},
                                  of : Budgets \union {"none"}]]
  /\ returns \in [Returns -> [status : ReturnStatuses, scope : Scopes, type : ReturnTypes,
                              period : Periods \union {0}, output : Nat, input : Nat,
                              credit : Nat, net : Nat, payment : PaymentStatuses]]
  /\ approvedReturns \subseteq Returns
  /\ periods \in [Periods -> {"OPEN", "CLOSED", "LOCKED"}]

InForce(b) == budgets[b].status \in {"APPROVED", "ACTIVE"}
ApprovedOf(b) == {r \in Revisions : revisions[r] = [status |-> "APPROVED", of |-> b]}

\* However edits, workflow requests and revisions overlap, no budget comes into
\* force without an approval.  One at a time, what is in force are the very lines
\* that were approved and the version counts every approved revision once; a late
\* submission puts an approved revision back, to be approved and counted again.
BudgetsStand ==
  \A b \in Budgets :
    /\ InForce(b) => approvedLines[b] # 0
    /\ ~overlap =>
         /\ InForce(b) => approvedLines[b] = budgetLines[b]
         /\ Unless({"delete_revision"}, budgets[b].version = 1 + Cardinality(ApprovedOf(b)))

Filed(v) == returns[v].status \in {"FILED", "PAID"}

\* No return is filed that was not approved, and a branch has one of each type for a
\* period, however returns are moved.  Without a PATCH, a return is due what its
\* figures say and is paid when it says so.  Unless it is moved to another period, it
\* claims no input VAT beyond the bills of its period as long as none is rejected or
\* deleted after it was prepared, or edited while it is approved.
ReturnsStand ==
  \A v \in Returns :
    /\ Filed(v) => v \in approvedReturns
    /\ returns[v] # NoReturn => ScopeFree(v, returns[v])
    /\ Unless({"edit_return"},
         LET due == returns[v].output - returns[v].input - returns[v].credit
         IN /\ returns[v].net >= due /\ (returns[v].net > 0 => returns[v].net = due)
            /\ Filed(v) => (returns[v].status = "PAID" <=> returns[v].payment = "PAID"))
    /\ Unless({"move_return"}, Unless({"reject"}, Unless({"delete"},
         \/ overlap /\ "edit" \in clients
         \/ returns[v].input <= VatOf(Dated(VatPurchases, returns[v].period)))))

\* Budgets and returns are what was approved.
ApprovalsStand == BudgetsStand /\ ReturnsStand
=============================================================================
