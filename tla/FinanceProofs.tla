---------------------------- MODULE FinanceProofs ----------------------------
(***************************************************************************)
(* Finance for every value of the constants of Controls: its types, the    *)
(* postings of documents, payments and bank balances, depreciation, and    *)
(* what approvals are worth.                                               *)
(***************************************************************************)
EXTENDS Controls, Sums

----
(* What a worker may be holding. *)

PaperRow ==
  [status : UNION {StatusesOf(d) : d \in Documents}, total : Int, paid : Nat,
   from : Journals \union {"none"}]
AssetRow == [status : AssetStatuses \union {"ABSENT"}, accumulated : Nat]
BudgetRow == [status : BudgetStatuses, version : Nat]
RevisionRow ==
  [status : {"ABSENT", "DRAFT", "PENDING_APPROVAL", "APPROVED"}, of : Budgets \union {"none"}]
ReturnRow ==
  [status : ReturnStatuses, scope : Scopes, type : ReturnTypes, period : Periods \union {0},
   output : Nat, input : Nat, credit : Nat, net : Nat, payment : PaymentStatuses]

ReadAsset == [asset : FixedAssets, accumulated : Nat]
InsertedRow == [asset : FixedAssets, amount : Nat, accumulated : Nat]

Steps ==
  {"idle", "edit", "delete", "status", "post", "booking", "reverse", "pay", "edit_payment",
   "transact", "transfer", "account", "asset", "period", "period_row", "edit_budget", "budget",
   "submit_revision", "approve_revision", "prepare", "edit_return", "return"}

\* A request of the documents.
PaperShape(j) ==
  /\ j.step = "edit" =>
       /\ j \in [step : {"edit"}, document : Documents, row : PaperRow]
       /\ j.row.status \in {"DRAFT", "REJECTED"} \intersect StatusesOf(j.document)
       /\ j.row.total \in Totals
  /\ j.step = "delete" => j \in [step : {"delete"}, document : Documents]
  /\ j.step = "status" =>
       /\ j \in [step : {"status"}, document : Documents,
                 status : {"PENDING_APPROVAL", "APPROVED", "REJECTED", "CANCELLED"}]
       /\ j.status \in StatusesOf(j.document)
  /\ j.step = "post" => j \in [step : {"post"}, document : Documents, total : Int]
  /\ j.step = "reverse" => j \in [step : {"reverse"}, source : Journals]
  /\ j.step = "booking" =>
       /\ j \in [step : {"booking"}, document : Documents, source : Journals \union {"none"},
                 key : 0..MaxLines, amount : Int, balance : Int]
       /\ j.source # "none" => j.document \in Journals

\* A request of the money.
MoneyShape(j) ==
  /\ j.step = "pay" =>
       j \in [step : {"pay"}, document : Invoices \union Bills, amount : Amounts]
  /\ j.step = "edit_payment" =>
       j \in [step : {"edit_payment"}, payment : Payments,
              document : Invoices \union Bills \union {"none"}, amount : Amounts]
  /\ j.step = "transact" => j \in [step : {"transact"}, account : Accounts, amount : Int]
  /\ j.step = "transfer" =>
       /\ j \in [step : {"transfer"}, account : Accounts, to : Accounts, amount : Amounts]
       /\ j.account # j.to
  /\ j.step = "account" =>
       j \in [step : {"account"}, account : Accounts, balance : Int, amount : Amounts \union {0}]

\* A run of a period: what it has still to look at and what it has inserted.
RunShape(j) ==
  /\ j.left \subseteq ReadAsset
  /\ \A x \in j.left : x.accumulated < Worth[x.asset]
  /\ \A x, y \in j.left : x.asset = y.asset => x = y
  /\ j.rows \subseteq InsertedRow
  /\ \A r \in j.rows : r.accumulated <= Worth[r.asset] /\ r.amount <= r.accumulated
  /\ \A r, s \in j.rows : r.asset = s.asset => r = s
  /\ \A r \in j.rows, x \in j.left : r.asset # x.asset

\* A request of the assets.
AssetShape(j) ==
  /\ j.step = "asset" =>
       /\ DOMAIN j = {"step", "asset", "whole", "capitalizes", "row"}
       /\ j.asset \in FixedAssets /\ j.row \in AssetRow
       /\ j.row.status \in {"DRAFT", "PENDING_APPROVAL", "APPROVED", "ACTIVE"}
       /\ j.capitalizes <=> j.row.status = "ACTIVE"
  /\ j.step = "period" =>
       /\ j \in [step : {"period"}, period : Periods, left : SUBSET ReadAsset,
                 rows : SUBSET InsertedRow]
       /\ RunShape(j)
  /\ j.step = "period_row" =>
       /\ j \in [step : {"period_row"}, period : Periods, left : SUBSET ReadAsset,
                 rows : SUBSET InsertedRow, asset : FixedAssets]
       /\ RunShape(j)

\* A request of the controls.
ControlShape(j) ==
  /\ j.step = "edit_budget" =>
       /\ j \in [step : {"edit_budget"}, control : Budgets, read : BudgetRow]
       /\ j.read.status \in {"DRAFT", "REJECTED"}
  /\ j.step = "budget" =>
       /\ j \in [step : {"budget"}, control : Budgets,
                 status : BudgetStatuses \ {"ABSENT", "DRAFT"}, lines : 0..MaxBudgetLines]
  /\ j.step \in {"submit_revision", "approve_revision"} =>
       j \in [step : {"submit_revision", "approve_revision"}, control : Revisions, version : Nat]
  /\ j.step = "prepare" =>
       /\ j \in [step : {"prepare"}, form : ReturnRow, output : Nat]
       /\ j.form.status = "DRAFT" /\ j.form.period \in Periods
  /\ j.step = "edit_return" =>
       /\ j \in [step : {"edit_return"}, control : Returns, read : ReturnRow]
       /\ j.read.status # "ABSENT"
  /\ j.step = "return" =>
       j \in [step : {"return"}, control : Returns, status : ReturnStatuses \ {"ABSENT", "DRAFT"},
              payment : {"any", "NOT_PAID", "PAID"}]

JobShape(j) ==
  /\ j.step \in Steps
  /\ j.step = "idle" => j = Idle
  /\ PaperShape(j) /\ MoneyShape(j) /\ AssetShape(j) /\ ControlShape(j)

Jobs ==
  /\ job = [w \in Workers |-> job[w]]
  /\ \A w \in Workers : JobShape(job[w])

\* Rows that are there say what they are of.
RowsMeant ==
  /\ \A d \in Invoices \union Bills : Present(d) => papers[d].total \in Totals
  /\ \A r \in Revisions :
       revisions[r] = NoRevision \/ (revisions[r].status # "ABSENT" /\ revisions[r].of \in Budgets)
  /\ \A v \in Returns : returns[v] = NoReturn \/ returns[v].status # "ABSENT"

Typed == ControlsTypeOK /\ Jobs /\ RowsMeant

LEMMA JobsKept ==
  ASSUME Jobs, NEW w \in Workers, NEW j, JobShape(j), Becomes(w, j)
  PROVE  Jobs'
BY DEF Jobs, Becomes, JobShape, PaperShape, MoneyShape, AssetShape, ControlShape

LEMMA IdleShape == JobShape(Idle)
BY DEF JobShape, PaperShape, MoneyShape, AssetShape, ControlShape, Idle, Steps

LEMMA Responded ==
  ASSUME Jobs, NEW w \in Workers, Respond(w)
  PROVE  Jobs'
BY JobsKept, IdleShape DEF Respond

----
(* Types. *)

\* What is not a document, and what is.
Rest == <<clients, overlap, money, assetVars, controls>>

PapersTyped ==
  /\ papers \in [Documents -> PaperRow]
  /\ \A d \in Documents : papers[d].status \in StatusesOf(d)
  /\ \A d \in Invoices \union Bills : Present(d) => papers[d].total \in Totals

LEMMA PapersKept ==
  ASSUME Typed, Jobs', PapersTyped', lines' \in [Documents -> 0..MaxLines],
         ledger' \in [Documents -> Seq([key : 0..MaxLines, amount : Int])], account' \in Int,
         UNCHANGED Rest
  PROVE  Typed'
BY DEF Typed, RowsMeant, ControlsTypeOK, AllTypeOK, TypeOK, LedgerTypes, Rest, money, assetVars,
       controls, PapersTyped, PaperRow, Present

LEMMA LoadKept ==
  ASSUME Typed, Jobs', UNCHANGED <<documents, Rest>>
  PROVE  Typed'
BY DEF Typed, RowsMeant, ControlsTypeOK, AllTypeOK, TypeOK, LedgerTypes, Rest, money, assetVars,
       controls, documents, Present, PaperRow

LEMMA TypedPapers ==
  ASSUME Typed
  PROVE  /\ PapersTyped
         /\ lines \in [Documents -> 0..MaxLines]
         /\ ledger \in [Documents -> Seq([key : 0..MaxLines, amount : Int])]
         /\ account \in Int
         /\ Jobs
         /\ \A w \in Workers : JobShape(job[w])
BY DEF Typed, RowsMeant, ControlsTypeOK, AllTypeOK, TypeOK, LedgerTypes, PapersTyped, PaperRow, Jobs

LEMMA MaxLinesPositive == MaxLines \in Nat \ {0} /\ 0 \in 0..MaxLines /\ 1 \in 0..MaxLines
BY LedgerAssumption

LEMMA CreateDocumentTyped ==
  ASSUME Typed, NEW w \in Workers, CreateDocument(w), UNCHANGED Rest
  PROVE  Typed'
<1>1. PICK d \in Documents, total \in Totals :
        papers' = [papers EXCEPT ![d] = Drafted(total)] /\ lines' = [lines EXCEPT ![d] = 1]
  BY DEF CreateDocument
<1>2. Drafted(total).status = "DRAFT" /\ Drafted(total).total = total
  BY DEF Drafted, Absent
<1>3. Drafted(total) \in PaperRow
  <2>1. total \in Int
    BY LedgerAssumption
  <2>2. Absent \in PaperRow
    BY DEF Absent, PaperRow, StatusesOf
  <2>3. "DRAFT" \in UNION {StatusesOf(x) : x \in Documents}
    BY DEF StatusesOf
  <2> QED BY <2>1, <2>2, <2>3 DEF Drafted, PaperRow
<1>4. PapersTyped'
  BY <1>1, <1>2, <1>3, TypedPapers DEF PapersTyped, StatusesOf, Present
<1>5. Jobs'
  BY TypedPapers DEF CreateDocument, Jobs
<1>6. lines' \in [Documents -> 0..MaxLines] /\ ledger' = ledger /\ account' = account
  BY <1>1, TypedPapers, MaxLinesPositive DEF CreateDocument
<1> QED BY <1>4, <1>5, <1>6, TypedPapers, PapersKept

LEMMA EditLoadTyped ==
  ASSUME Typed, NEW w \in Workers, EditLoad(w), UNCHANGED Rest
  PROVE  Typed'
<1>1. PICK d \in Documents, total \in Totals :
        /\ Editable(d)
        /\ Becomes(w, [step |-> "edit", document |-> d, row |-> [papers[d] EXCEPT !.total = total]])
  BY DEF EditLoad
<1> DEFINE j == [step |-> "edit", document |-> d, row |-> [papers[d] EXCEPT !.total = total]]
<1>2. papers[d] \in PaperRow /\ papers[d].status \in StatusesOf(d) /\ total \in Int
  BY TypedPapers, LedgerAssumption DEF PapersTyped
<1>3. j.row \in PaperRow /\ j.row.status = papers[d].status /\ j.row.total = total
  BY <1>2 DEF PaperRow
<1>4. j.row.status \in {"DRAFT", "REJECTED"} \intersect StatusesOf(d)
  BY <1>1, <1>2, <1>3 DEF Editable
<1>5. JobShape(j)
  BY <1>3, <1>4 DEF JobShape, PaperShape, MoneyShape, AssetShape, ControlShape, Steps
<1>6. Jobs'
  BY <1>1, <1>5, TypedPapers, JobsKept
<1> QED BY <1>6, LoadKept DEF EditLoad

LEMMA EditSaveTyped ==
  ASSUME Typed, NEW w \in Workers, EditSave(w), UNCHANGED Rest
  PROVE  Typed'
<1> DEFINE d == job[w].document
<1>1. /\ d \in Documents /\ job[w].row \in PaperRow
      /\ job[w].row.status \in StatusesOf(d) /\ job[w].row.total \in Totals
  BY TypedPapers DEF EditSave, At, JobShape, PaperShape
<1>2. papers' = [papers EXCEPT ![d] = job[w].row] /\ lines' = [lines EXCEPT ![d] = @ + 1]
      /\ lines[d] < MaxLines
  BY DEF EditSave
<1>3. PapersTyped'
  BY <1>1, <1>2, TypedPapers DEF PapersTyped, Present
<1>4. Jobs'
  BY Responded, TypedPapers DEF EditSave
<1>5. lines' \in [Documents -> 0..MaxLines] /\ ledger' = ledger /\ account' = account
  BY <1>1, <1>2, TypedPapers, MaxLinesPositive DEF EditSave
<1> QED BY <1>3, <1>4, <1>5, TypedPapers, PapersKept

LEMMA DeleteLoadTyped ==
  ASSUME Typed, NEW w \in Workers, DeleteLoad(w), UNCHANGED Rest
  PROVE  Typed'
<1>1. PICK d \in Documents : Becomes(w, [step |-> "delete", document |-> d])
  BY DEF DeleteLoad
<1>2. JobShape([step |-> "delete", document |-> d])
  BY DEF JobShape, PaperShape, MoneyShape, AssetShape, ControlShape, Steps
<1>3. Jobs'
  BY <1>1, <1>2, TypedPapers, JobsKept
<1> QED BY <1>3, LoadKept DEF DeleteLoad

LEMMA DeleteSaveTyped ==
  ASSUME Typed, NEW w \in Workers, NEW protected, DeleteSave(w, protected), UNCHANGED Rest
  PROVE  Typed'
<1> DEFINE d == job[w].document
<1>1. papers' = [x \in Documents |->
          IF x = d THEN Absent
          ELSE IF papers[x].from = d THEN [papers[x] EXCEPT !.from = "none"] ELSE papers[x]]
  BY DEF DeleteSave
<1>2. Absent = [status |-> "ABSENT", total |-> 0, paid |-> 0, from |-> "none"]
  BY DEF Absent
<1>3. ASSUME NEW x \in Documents
      PROVE  papers'[x] \in PaperRow /\ papers'[x].status \in StatusesOf(x)
             /\ (Present(x)' => Present(x) /\ papers'[x].total = papers[x].total)
  <2>1. papers[x] \in PaperRow /\ papers[x].status \in StatusesOf(x)
    BY <1>3, TypedPapers DEF PapersTyped
  <2>2. CASE x = d
    BY <2>2, <1>1, <1>2 DEF PaperRow, StatusesOf, Present
  <2>3. CASE x # d
    BY <2>1, <2>3, <1>1 DEF PaperRow, Present
  <2> QED BY <2>2, <2>3
<1>4. papers' \in [Documents -> PaperRow]
  BY <1>1, <1>3
<1>5. PapersTyped'
  BY <1>3, <1>4, TypedPapers DEF PapersTyped, Documents
<1>6. Jobs'
  BY Responded, TypedPapers DEF DeleteSave
<1> QED BY <1>5, <1>6, TypedPapers, PapersKept DEF DeleteSave

LEMMA StatusLoadTyped ==
  ASSUME Typed, NEW w \in Workers, StatusLoad(w), UNCHANGED Rest
  PROVE  Typed'
<1>1. PICK move \in StatusMoves, d \in Documents :
        /\ d \in move.of
        /\ Becomes(w, [step |-> "status", document |-> d, status |-> move.to])
  BY DEF StatusLoad
<1>2. move.to \in {"PENDING_APPROVAL", "APPROVED", "REJECTED", "CANCELLED"}
      /\ move.to \in StatusesOf(d)
  BY <1>1, LedgerAssumption DEF StatusMoves, StatusesOf
<1>3. JobShape([step |-> "status", document |-> d, status |-> move.to])
  BY <1>2 DEF JobShape, PaperShape, MoneyShape, AssetShape, ControlShape, Steps
<1>4. Jobs'
  BY <1>1, <1>3, TypedPapers, JobsKept
<1> QED BY <1>4, LoadKept DEF StatusLoad

LEMMA StatusSaveTyped ==
  ASSUME Typed, NEW w \in Workers, StatusSave(w), UNCHANGED Rest
  PROVE  Typed'
<1> DEFINE d == job[w].document
<1>1. d \in Documents /\ job[w].status \in StatusesOf(d) /\ Present(d)
  BY TypedPapers DEF StatusSave, At, JobShape, PaperShape
<1>2. papers' = [papers EXCEPT ![d].status = job[w].status]
  BY DEF StatusSave
<1>3. papers[d] \in PaperRow
  BY <1>1, TypedPapers DEF PapersTyped
<1>4. [papers[d] EXCEPT !.status = job[w].status] \in PaperRow
  BY <1>1, <1>3 DEF PaperRow
<1>5. PapersTyped'
  <2>1. papers' \in [Documents -> PaperRow]
    BY <1>1, <1>2, <1>4, TypedPapers DEF PapersTyped
  <2>2. \A x \in Documents \ {d} : papers'[x] = papers[x]
    BY <1>2, TypedPapers DEF PapersTyped
  <2>3. papers'[d].status = job[w].status /\ papers'[d].total = papers[d].total
    BY <1>1, <1>2, <1>3, TypedPapers DEF PapersTyped, PaperRow
  <2> QED BY <1>1, <2>1, <2>2, <2>3, TypedPapers DEF PapersTyped, Present, Documents
<1>6. Jobs'
  BY Responded, TypedPapers DEF StatusSave
<1> QED BY <1>5, <1>6, TypedPapers, PapersKept DEF StatusSave

LEMMA PostLoadTyped ==
  ASSUME Typed, NEW w \in Workers, PostLoad(w), UNCHANGED Rest
  PROVE  Typed'
<1>1. PICK d \in Documents :
        Becomes(w, [step |-> "post", document |-> d, total |-> papers[d].total])
  BY DEF PostLoad
<1>2. papers[d].total \in Int
  BY TypedPapers DEF PapersTyped, PaperRow
<1>3. JobShape([step |-> "post", document |-> d, total |-> papers[d].total])
  BY <1>2 DEF JobShape, PaperShape, MoneyShape, AssetShape, ControlShape, Steps
<1>4. Jobs'
  BY <1>1, <1>3, TypedPapers, JobsKept
<1> QED BY <1>4, LoadKept DEF PostLoad

LEMMA PostReadTyped ==
  ASSUME Typed, NEW w \in Workers, PostRead(w), UNCHANGED Rest
  PROVE  Typed'
<1> DEFINE d == job[w].document
           j == [step |-> "booking", document |-> d, source |-> "none",
                 key |-> IF d \in Journals THEN lines[d] ELSE 0,
                 amount |-> IF d \in Journals THEN papers[d].total ELSE job[w].total,
                 balance |-> account]
<1>1. d \in Documents /\ job[w].total \in Int
  BY TypedPapers DEF PostRead, At, JobShape, PaperShape
<1>2. lines[d] \in 0..MaxLines /\ papers[d].total \in Int /\ account \in Int
  BY <1>1, TypedPapers DEF PapersTyped, PaperRow
<1>3. JobShape(j)
  BY <1>1, <1>2, MaxLinesPositive
     DEF JobShape, PaperShape, MoneyShape, AssetShape, ControlShape, Steps
<1>4. Jobs'
  BY <1>3, TypedPapers, JobsKept DEF PostRead
<1> QED BY <1>4, LoadKept DEF PostRead

LEMMA ReverseLoadTyped ==
  ASSUME Typed, NEW w \in Workers, ReverseLoad(w), UNCHANGED Rest
  PROVE  Typed'
<1>1. PICK j \in Journals : Becomes(w, [step |-> "reverse", source |-> j])
  BY DEF ReverseLoad
<1>2. JobShape([step |-> "reverse", source |-> j])
  BY DEF JobShape, PaperShape, MoneyShape, AssetShape, ControlShape, Steps
<1>3. Jobs'
  BY <1>1, <1>2, TypedPapers, JobsKept
<1> QED BY <1>3, LoadKept DEF ReverseLoad

LEMMA ReverseReadTyped ==
  ASSUME Typed, NEW w \in Workers, ReverseRead(w), UNCHANGED Rest
  PROVE  Typed'
<1> DEFINE j == job[w].source
<1>1. j \in Journals
  BY TypedPapers DEF ReverseRead, At, JobShape, PaperShape
<1>2. PICK r \in Journals :
        Becomes(w, [step |-> "booking", document |-> r, source |-> j, key |-> 1,
                    amount |-> -papers[j].total, balance |-> account])
  BY DEF ReverseRead
<1>3. -papers[j].total \in Int /\ account \in Int
  BY <1>1, TypedPapers DEF PapersTyped, PaperRow, Documents
<1>4. JobShape([step |-> "booking", document |-> r, source |-> j, key |-> 1,
                amount |-> -papers[j].total, balance |-> account])
  BY <1>1, <1>3, MaxLinesPositive
     DEF JobShape, PaperShape, MoneyShape, AssetShape, ControlShape, Steps, Documents
<1>5. Jobs'
  BY <1>2, <1>4, TypedPapers, JobsKept
<1> QED BY <1>5, LoadKept DEF ReverseRead

LEMMA PostCommitTyped ==
  ASSUME Typed, NEW w \in Workers, PostCommit(w), UNCHANGED Rest
  PROVE  Typed'
<1> DEFINE d == job[w].document
           j == job[w].source
           entry == [key |-> job[w].key, amount |-> job[w].amount]
<1>1. /\ d \in Documents /\ j \in Journals \union {"none"} /\ job[w].amount \in Int
      /\ job[w].balance \in Int /\ entry \in [key : 0..MaxLines, amount : Int]
      /\ (j # "none" => d \in Journals)
  BY TypedPapers DEF PostCommit, At, JobShape, PaperShape
<1>2. ledger' = [ledger EXCEPT ![d] = Append(@, entry)]
  BY DEF PostCommit
<1>3. ledger' \in [Documents -> Seq([key : 0..MaxLines, amount : Int])]
  <2> DEFINE E == [key : 0..MaxLines, amount : Int]
  <2>1. entry \in E /\ ledger \in [Documents -> Seq(E)]
    BY <1>1, TypedPapers
  <2> HIDE DEF E, entry
  <2>2. \A s \in Seq(E) : Append(s, entry) \in Seq(E)
    BY <2>1
  <2>3. ledger' \in [Documents -> Seq(E)]
    BY <1>1, <1>2, <2>1, <2>2
  <2> QED BY <2>3 DEF E
<1>4. account' \in Int
  BY <1>1, TypedPapers DEF PostCommit
<1>5. ASSUME j = "none" PROVE PapersTyped' /\ lines' \in [Documents -> 0..MaxLines]
  <2>1. /\ Present(d) /\ lines' = lines
        /\ papers' = [papers EXCEPT ![d].status = PostedStatus(d)]
    BY <1>5 DEF PostCommit
  <2>2. PostedStatus(d) \in StatusesOf(d)
    BY <1>1, LedgerAssumption DEF PostedStatus, StatusesOf, Documents
  <2>3. papers[d] \in PaperRow
    BY <1>1, TypedPapers DEF PapersTyped
  <2>4. [papers[d] EXCEPT !.status = PostedStatus(d)] \in PaperRow
    BY <1>1, <2>2, <2>3 DEF PaperRow
  <2>5. PapersTyped'
    <3>1. papers' \in [Documents -> PaperRow]
      BY <1>1, <2>1, <2>4, TypedPapers DEF PapersTyped
    <3>2. \A x \in Documents \ {d} : papers'[x] = papers[x]
      BY <2>1, TypedPapers DEF PapersTyped
    <3>3. papers'[d].status = PostedStatus(d) /\ papers'[d].total = papers[d].total
      BY <1>1, <2>1, <2>3, TypedPapers DEF PapersTyped, PaperRow
    <3> QED
      BY <1>1, <2>1, <2>2, <3>1, <3>2, <3>3, TypedPapers DEF PapersTyped, Present, Documents
  <2> QED BY <2>1, <2>5, TypedPapers
<1>6. ASSUME j # "none" PROVE PapersTyped' /\ lines' \in [Documents -> 0..MaxLines]
  <2>1. /\ lines' = [lines EXCEPT ![d] = 1]
        /\ papers' = [papers EXCEPT ![j].status = "REVERSED",
                        ![d] = [status |-> "POSTED", total |-> job[w].amount, paid |-> 0,
                                from |-> j]]
    BY <1>6 DEF PostCommit
  <2>2. d \in Journals /\ j \in Journals /\ j \in Documents
    BY <1>1, <1>6 DEF Documents
  <2>3. "REVERSED" \in StatusesOf(j) /\ "POSTED" \in StatusesOf(d)
    BY <2>2 DEF StatusesOf
  <2>4. papers[j] \in PaperRow
    BY <2>2, TypedPapers DEF PapersTyped
  <2>5. [papers[j] EXCEPT !.status = "REVERSED"] \in PaperRow
    BY <2>2, <2>3, <2>4 DEF PaperRow
  <2>6. [status |-> "POSTED", total |-> job[w].amount, paid |-> 0, from |-> j] \in PaperRow
    BY <1>1, <2>2, <2>3 DEF PaperRow
  <2>7. ASSUME NEW x \in Documents
        PROVE  papers'[x] = IF x = d THEN [status |-> "POSTED", total |-> job[w].amount,
                                           paid |-> 0, from |-> j]
                            ELSE IF x = j THEN [papers[j] EXCEPT !.status = "REVERSED"]
                            ELSE papers[x]
    BY <1>1, <2>1, <2>2, TypedPapers DEF PapersTyped
  <2>8. papers' \in [Documents -> PaperRow]
    BY <1>1, <2>1, <2>2, <2>5, <2>6, TypedPapers DEF PapersTyped
  <2>9. \A x \in Documents : papers'[x].status \in StatusesOf(x)
    <3>1. [papers[j] EXCEPT !.status = "REVERSED"].status = "REVERSED"
      BY <2>4 DEF PaperRow
    <3>2. papers'[d].status = "POSTED"
      BY <2>2, <2>7, <1>1
    <3>3. j # d => papers'[j].status = "REVERSED"
      BY <2>2, <2>7, <3>1
    <3>4. \A x \in Documents \ {d, j} : papers'[x].status = papers[x].status
      BY <2>7
    <3> QED BY <2>3, <3>2, <3>3, <3>4, TypedPapers DEF PapersTyped
  <2>10. \A x \in Invoices \union Bills : x # d /\ x # j
    BY <2>2, LedgerAssumption
  <2>11. PapersTyped'
    BY <2>7, <2>8, <2>9, <2>10, TypedPapers DEF PapersTyped, Present, Documents
  <2> QED BY <2>1, <2>2, <2>11, TypedPapers, MaxLinesPositive
<1>7. Jobs'
  BY Responded, TypedPapers DEF PostCommit
<1> QED BY <1>3, <1>4, <1>5, <1>6, <1>7, PapersKept

LEMMA PaperStepTyped ==
  ASSUME Typed, NEW w \in Workers, NEW protected, LedgerStep(w, protected), UNCHANGED Rest
  PROVE  Typed'
BY CreateDocumentTyped, EditLoadTyped, EditSaveTyped, DeleteLoadTyped, DeleteSaveTyped,
   StatusLoadTyped, StatusSaveTyped, PostLoadTyped, PostReadTyped, ReverseLoadTyped,
   ReverseReadTyped, PostCommitTyped DEF LedgerStep

LEMMA TypedMoney ==
  ASSUME Typed
  PROVE  /\ payments \in [Payments -> [document : Invoices \union Bills \union {"none"}, amount : Nat]]
         /\ banks \in [Accounts -> Int]
         /\ vouchers \in [Vouchers -> [account : Accounts \union {"none"}, amount : Int]]
         /\ deposits \in [Accounts -> 0..MaxDeposits]
BY DEF Typed, ControlsTypeOK, AllTypeOK, TypeOK

LEMMA MoneyKept ==
  ASSUME Typed, Jobs', PapersTyped',
         payments' \in [Payments -> [document : Invoices \union Bills \union {"none"}, amount : Nat]],
         banks' \in [Accounts -> Int],
         vouchers' \in [Vouchers -> [account : Accounts \union {"none"}, amount : Int]],
         deposits' \in [Accounts -> 0..MaxDeposits],
         UNCHANGED <<clients, overlap, lines, ledger, account, assetVars, controls>>
  PROVE  Typed'
BY DEF Typed, RowsMeant, ControlsTypeOK, AllTypeOK, TypeOK, LedgerTypes, assetVars, controls,
       PapersTyped, PaperRow, Present

LEMMA AmountsPositive == \A x \in Amounts : x \in Nat \ {0}
BY FinanceAssumption

LEMMA PayLoadTyped ==
  ASSUME Typed, NEW w \in Workers, PayLoad(w), UNCHANGED <<assetVars, controls>>
  PROVE  Typed'
<1>1. PICK d \in Invoices \union Bills, amount \in Amounts :
        Becomes(w, [step |-> "pay", document |-> d, amount |-> amount])
  BY DEF PayLoad
<1>2. JobShape([step |-> "pay", document |-> d, amount |-> amount])
  BY DEF JobShape, PaperShape, MoneyShape, AssetShape, ControlShape, Steps
<1>3. Jobs'
  BY <1>1, <1>2, TypedPapers, JobsKept
<1> QED BY <1>3, LoadKept DEF PayLoad, Rest

LEMMA PayCommitTyped ==
  ASSUME Typed, NEW w \in Workers, PayCommit(w), UNCHANGED <<assetVars, controls>>
  PROVE  Typed'
<1> DEFINE d == job[w].document
           paid == papers[d].paid + job[w].amount
           status == IF paid >= papers[d].total THEN "PAID" ELSE "PARTIALLY_PAID"
<1>1. d \in Invoices \union Bills /\ job[w].amount \in Amounts /\ d \in Documents
  BY TypedPapers DEF PayCommit, At, JobShape, MoneyShape, Documents
<1>2. papers[d] \in PaperRow /\ job[w].amount \in Nat
  BY <1>1, TypedPapers, AmountsPositive DEF PapersTyped
<1>3. paid \in Nat
  BY <1>2 DEF PaperRow
<1>4. status \in StatusesOf(d)
  BY <1>1, LedgerAssumption DEF StatusesOf
<1>5. papers' = [papers EXCEPT ![d].paid = paid, ![d].status = status]
  BY DEF PayCommit
<1> HIDE DEF paid, status
<1>6. [papers[d] EXCEPT !.paid = paid, !.status = status] \in PaperRow
  BY <1>1, <1>2, <1>3, <1>4 DEF PaperRow
<1>7. papers'[d] = [papers[d] EXCEPT !.paid = paid, !.status = status]
  BY <1>1, <1>5, TypedPapers DEF PapersTyped
<1>8. papers' \in [Documents -> PaperRow] /\ \A x \in Documents \ {d} : papers'[x] = papers[x]
  BY <1>1, <1>5, <1>6, <1>7, TypedPapers DEF PapersTyped
<1>9. papers'[d].status = status /\ papers'[d].total = papers[d].total
  BY <1>2, <1>7 DEF PaperRow
<1>10. PapersTyped'
  BY <1>1, <1>4, <1>8, <1>9, TypedPapers DEF PapersTyped, Present, PayCommit, Documents
<1>11. PICK p \in Payments : payments' = [payments EXCEPT ![p] = [document |-> d, amount |-> job[w].amount]]
  BY DEF PayCommit
<1>12. payments' \in [Payments -> [document : Invoices \union Bills \union {"none"}, amount : Nat]]
  BY <1>1, <1>2, <1>11, TypedMoney
<1>13. Jobs'
  BY Responded, TypedPapers DEF PayCommit
<1> QED BY <1>10, <1>12, <1>13, TypedMoney, MoneyKept DEF PayCommit

LEMMA ReceiveUnappliedTyped ==
  ASSUME Typed, NEW w \in Workers, ReceiveUnapplied(w), UNCHANGED <<assetVars, controls>>
  PROVE  Typed'
<1>1. PICK p \in Payments, amount \in Amounts :
        payments' = [payments EXCEPT ![p] = [document |-> "none", amount |-> amount]]
  BY DEF ReceiveUnapplied
<1>2. amount \in Nat
  BY AmountsPositive
<1>3. payments' \in [Payments -> [document : Invoices \union Bills \union {"none"}, amount : Nat]]
  BY <1>1, <1>2, TypedMoney
<1>4. Jobs' /\ PapersTyped'
  BY TypedPapers DEF ReceiveUnapplied, Jobs, documents, PapersTyped, Present
<1> QED BY <1>3, <1>4, TypedMoney, MoneyKept DEF ReceiveUnapplied, documents

LEMMA EditPaymentLoadTyped ==
  ASSUME Typed, NEW w \in Workers, EditPaymentLoad(w), UNCHANGED <<assetVars, controls>>
  PROVE  Typed'
<1>1. PICK p \in Payments, d \in Invoices \union Bills \union {"none"}, amount \in Amounts :
        Becomes(w, [step |-> "edit_payment", payment |-> p, document |-> d, amount |-> amount])
  BY DEF EditPaymentLoad
<1>2. JobShape([step |-> "edit_payment", payment |-> p, document |-> d, amount |-> amount])
  BY DEF JobShape, PaperShape, MoneyShape, AssetShape, ControlShape, Steps
<1>3. Jobs'
  BY <1>1, <1>2, TypedPapers, JobsKept
<1> QED BY <1>3, LoadKept DEF EditPaymentLoad, Rest

LEMMA EditPaymentSaveTyped ==
  ASSUME Typed, NEW w \in Workers, EditPaymentSave(w), UNCHANGED <<assetVars, controls>>
  PROVE  Typed'
<1>1. /\ job[w].payment \in Payments /\ job[w].amount \in Nat
      /\ job[w].document \in Invoices \union Bills \union {"none"}
  BY TypedPapers, AmountsPositive DEF EditPaymentSave, At, JobShape, MoneyShape
<1>2. payments' \in [Payments -> [document : Invoices \union Bills \union {"none"}, amount : Nat]]
  BY <1>1, TypedMoney DEF EditPaymentSave
<1>3. Jobs' /\ PapersTyped'
  BY Responded, TypedPapers DEF EditPaymentSave, documents, PapersTyped, Present
<1> QED BY <1>2, <1>3, TypedMoney, MoneyKept DEF EditPaymentSave, documents

LEMMA DeletePaymentTyped ==
  ASSUME Typed, NEW w \in Workers, DeletePayment(w), UNCHANGED <<assetVars, controls>>
  PROVE  Typed'
<1>1. PICK p \in Payments : payments' = [payments EXCEPT ![p] = NoPayment]
  BY DEF DeletePayment
<1>2. payments' \in [Payments -> [document : Invoices \union Bills \union {"none"}, amount : Nat]]
  BY <1>1, TypedMoney DEF NoPayment
<1>3. Jobs' /\ PapersTyped'
  BY TypedPapers DEF DeletePayment, Jobs, documents, PapersTyped, Present
<1> QED BY <1>2, <1>3, TypedMoney, MoneyKept DEF DeletePayment, documents

LEMMA TransactLoadTyped ==
  ASSUME Typed, NEW w \in Workers, TransactLoad(w), UNCHANGED <<assetVars, controls>>
  PROVE  Typed'
<1>1. PICK a \in Accounts, amount \in Amounts \union {-x : x \in Amounts} :
        Becomes(w, [step |-> "transact", account |-> a, amount |-> amount])
  BY DEF TransactLoad
<1>2. amount \in Int
  BY AmountsPositive
<1>3. JobShape([step |-> "transact", account |-> a, amount |-> amount])
  BY <1>2 DEF JobShape, PaperShape, MoneyShape, AssetShape, ControlShape, Steps
<1>4. Jobs'
  BY <1>1, <1>3, TypedPapers, JobsKept
<1> QED BY <1>4, LoadKept DEF TransactLoad, Rest

\* The key of a new voucher is one that nobody has used.
LEMMA UnusedKey ==
  ASSUME Unused # {}
  PROVE  Min(Unused) \in Unused /\ Unused \subseteq Vouchers
BY MinIn, FinanceAssumption DEF Unused

LEMMA TransactTyped ==
  ASSUME Typed, NEW w \in Workers, Transact(w), UNCHANGED <<assetVars, controls>>
  PROVE  Typed'
<1> DEFINE a == job[w].account
<1>1. a \in Accounts /\ job[w].amount \in Int
  BY TypedPapers DEF Transact, At, JobShape, MoneyShape
<1>2. Min(Unused) \in Vouchers
  BY UnusedKey DEF Transact
<1>3. vouchers' \in [Vouchers -> [account : Accounts \union {"none"}, amount : Int]]
  BY <1>1, <1>2, TypedMoney DEF Transact
<1>4. banks' \in [Accounts -> Int]
  BY <1>1, TypedMoney DEF Transact
<1>5. Jobs' /\ PapersTyped'
  BY Responded, TypedPapers DEF Transact, documents, PapersTyped, Present
<1> QED BY <1>3, <1>4, <1>5, TypedMoney, MoneyKept DEF Transact, documents

LEMMA ChangeVoucherTyped ==
  ASSUME Typed, NEW w \in Workers, ChangeVoucher(w), UNCHANGED <<assetVars, controls>>
  PROVE  Typed'
<1>1. PICK v \in Vouchers :
        \E row \in {NoVoucher} \union {[vouchers[v] EXCEPT !.amount = x] : x \in Amounts} :
          vouchers' = [vouchers EXCEPT ![v] = row]
  BY DEF ChangeVoucher
<1>2. \A row \in {NoVoucher} \union {[vouchers[v] EXCEPT !.amount = x] : x \in Amounts} :
        row \in [account : Accounts \union {"none"}, amount : Int]
  BY TypedMoney, AmountsPositive DEF NoVoucher
<1>3. vouchers' \in [Vouchers -> [account : Accounts \union {"none"}, amount : Int]]
  BY <1>1, <1>2, TypedMoney
<1>4. Jobs' /\ PapersTyped'
  BY TypedPapers DEF ChangeVoucher, Jobs, documents, PapersTyped, Present
<1> QED BY <1>3, <1>4, TypedMoney, MoneyKept DEF ChangeVoucher, documents

LEMMA TransferLoadTyped ==
  ASSUME Typed, NEW w \in Workers, TransferLoad(w), UNCHANGED <<assetVars, controls>>
  PROVE  Typed'
<1>1. PICK a \in Accounts, b \in Accounts, amount \in Amounts :
        a # b /\ Becomes(w, [step |-> "transfer", account |-> a, to |-> b, amount |-> amount])
  BY DEF TransferLoad
<1>2. JobShape([step |-> "transfer", account |-> a, to |-> b, amount |-> amount])
  BY <1>1 DEF JobShape, PaperShape, MoneyShape, AssetShape, ControlShape, Steps
<1>3. Jobs'
  BY <1>1, <1>2, TypedPapers, JobsKept
<1> QED BY <1>3, LoadKept DEF TransferLoad, Rest

\* A fund transfer uses two vouchers.
LEMMA TwoKeys ==
  ASSUME Cardinality(Unused) >= 2
  PROVE  /\ Min(Unused) \in Unused
         /\ Min(Unused \ {Min(Unused)}) \in Unused \ {Min(Unused)}
<1>1. IsFiniteSet(Unused) /\ Unused \subseteq Nat
  BY FinanceAssumption, FS_Subset DEF Unused
<1>2. Unused # {}
  BY <1>1, FS_EmptySet
<1>3. Min(Unused) \in Unused
  BY <1>2, UnusedKey
<1>4. Unused \ {Min(Unused)} # {}
  <2>1. SUFFICES ASSUME Unused = {Min(Unused)} PROVE FALSE
    BY <1>3
  <2>2. Cardinality({Min(Unused)}) = 1
    BY FS_Singleton
  <2> QED BY <2>1, <2>2
<1> QED BY <1>1, <1>3, <1>4, MinIn

LEMMA TransferTyped ==
  ASSUME Typed, NEW w \in Workers, Transfer(w), UNCHANGED <<assetVars, controls>>
  PROVE  Typed'
<1> DEFINE a == job[w].account
           b == job[w].to
           amount == job[w].amount
           out == Min(Unused)
           in == Min(Unused \ {out})
<1>1. a \in Accounts /\ b \in Accounts /\ amount \in Int
  BY TypedPapers, AmountsPositive DEF Transfer, At, JobShape, MoneyShape
<1>2. out \in Vouchers /\ in \in Vouchers
  BY TwoKeys DEF Transfer, Unused
<1>3. vouchers' = [vouchers EXCEPT ![out] = [account |-> a, amount |-> -amount],
                                   ![in] = [account |-> b, amount |-> amount]]
      /\ banks' = [banks EXCEPT ![a] = @ - amount, ![b] = @ + amount]
  BY DEF Transfer
<1> HIDE DEF a, b, amount, out, in
<1>4. vouchers' \in [Vouchers -> [account : Accounts \union {"none"}, amount : Int]]
  <2>1. -amount \in Int
    BY <1>1
  <2> QED BY <1>1, <1>2, <1>3, <2>1, TypedMoney
<1>5. banks' \in [Accounts -> Int]
  BY <1>1, <1>3, TypedMoney
<1>6. Jobs' /\ PapersTyped'
  BY Responded, TypedPapers DEF Transfer, documents, PapersTyped, Present
<1> QED BY <1>4, <1>5, <1>6, TypedMoney, MoneyKept DEF Transfer, documents

\* What a request of an account holds.
LEMMA AccountAsked ==
  ASSUME NEW w \in Workers, AccountLoad(w)
  PROVE  \E a \in Accounts : \E balance \in Stated(a), amount \in Amounts \union {0} :
           Becomes(w, [step |-> "account", account |-> a, balance |-> balance, amount |-> amount])
<1>1. PICK a \in Accounts :
        \/ \E balance \in Stated(a) :
             Becomes(w, [step |-> "account", account |-> a, balance |-> balance, amount |-> 0])
        \/ \E amount \in Amounts :
             Becomes(w, [step |-> "account", account |-> a, balance |-> banks[a], amount |-> amount])
  BY DEF AccountLoad
<1>2. banks[a] \in Stated(a)
  BY DEF Stated
<1> QED BY <1>1, <1>2

LEMMA AccountLoadTyped ==
  ASSUME Typed, NEW w \in Workers, AccountLoad(w), UNCHANGED <<assetVars, controls>>
  PROVE  Typed'
<1>0. PICK a \in Accounts :
        \E balance \in Stated(a), amount \in Amounts \union {0} :
          Becomes(w, [step |-> "account", account |-> a, balance |-> balance, amount |-> amount])
  BY AccountAsked
<1>1. PICK balance \in Stated(a), amount \in Amounts \union {0} :
        Becomes(w, [step |-> "account", account |-> a, balance |-> balance, amount |-> amount])
  BY <1>0
<1>2. balance \in Int
  BY TypedMoney, AmountsPositive DEF Stated
<1>3. JobShape([step |-> "account", account |-> a, balance |-> balance, amount |-> amount])
  BY <1>2 DEF JobShape, PaperShape, MoneyShape, AssetShape, ControlShape, Steps
<1>4. Jobs'
  BY <1>1, <1>3, TypedPapers, JobsKept
<1> QED BY <1>4, LoadKept DEF AccountLoad, Rest

LEMMA AccountSaveTyped ==
  ASSUME Typed, NEW w \in Workers, AccountSave(w), UNCHANGED <<assetVars, controls>>
  PROVE  Typed'
<1> DEFINE a == job[w].account
<1>1. a \in Accounts /\ job[w].amount \in Nat /\ job[w].balance \in Int
  BY TypedPapers, AmountsPositive DEF AccountSave, At, JobShape, MoneyShape
<1>2. banks' \in [Accounts -> Int]
  BY <1>1, TypedMoney DEF AccountSave
<1>3. deposits' \in [Accounts -> 0..MaxDeposits]
  BY <1>1, TypedMoney, FinanceAssumption DEF AccountSave
<1>4. Jobs' /\ PapersTyped'
  BY Responded, TypedPapers DEF AccountSave, documents, PapersTyped, Present
<1> QED BY <1>2, <1>3, <1>4, TypedMoney, MoneyKept DEF AccountSave, documents

LEMMA AbortTyped ==
  ASSUME Typed, NEW w \in Workers, Abort(w), UNCHANGED <<assetVars, controls>>
  PROVE  Typed'
BY Responded, TypedPapers, LoadKept DEF Abort, Rest

LEMMA FinanceStepTyped ==
  ASSUME Typed, Next, UNCHANGED <<assetVars, controls>>
  PROVE  Typed'
<1>1. PICK w \in Workers : Paper(w) \/ MoneyStep(w) \/ Abort(w)
  BY DEF Next
<1>2. CASE Paper(w)
  <2>1. UNCHANGED <<clients, overlap>>
    BY <1>2 DEF Paper, LedgerStep, CreateDocument, EditLoad, EditSave, DeleteLoad, DeleteSave,
                StatusLoad, StatusSave, PostLoad, PostRead, ReverseLoad, ReverseRead, PostCommit
  <2> QED BY <1>2, <2>1, PaperStepTyped DEF Paper, Rest
<1>3. CASE MoneyStep(w)
  BY <1>3, PayLoadTyped, PayCommitTyped, ReceiveUnappliedTyped, EditPaymentLoadTyped,
     EditPaymentSaveTyped, DeletePaymentTyped, TransactLoadTyped, TransactTyped,
     ChangeVoucherTyped, TransferLoadTyped, TransferTyped, AccountLoadTyped, AccountSaveTyped
     DEF MoneyStep
<1> QED BY <1>1, <1>2, <1>3, AbortTyped

LEMMA TypedAssets ==
  ASSUME Typed
  PROVE  /\ assets \in [FixedAssets -> AssetRow]
         /\ capitalized \subseteq FixedAssets
         /\ depreciated \in [FixedAssets -> [Periods -> Seq(Nat)]]
BY DEF Typed, ControlsTypeOK, AllTypeOK, AssetRow

LEMMA AssetsKept ==
  ASSUME Typed, Jobs', assets' \in [FixedAssets -> AssetRow], capitalized' \subseteq FixedAssets,
         depreciated' \in [FixedAssets -> [Periods -> Seq(Nat)]],
         UNCHANGED <<clients, overlap, documents, money, controls>>
  PROVE  Typed'
BY DEF Typed, RowsMeant, ControlsTypeOK, AllTypeOK, TypeOK, LedgerTypes, documents, money, controls,
       Present, AssetRow

LEMMA CreateAssetTyped ==
  ASSUME Typed, NEW w \in Workers, CreateAsset(w), UNCHANGED controls
  PROVE  Typed'
<1>1. PICK a \in FixedAssets : assets' = [assets EXCEPT ![a].status = "DRAFT"]
  BY DEF CreateAsset
<1>2. assets' \in [FixedAssets -> AssetRow]
  BY <1>1, TypedAssets DEF AssetRow, AssetStatuses
<1>3. Jobs'
  BY TypedPapers DEF CreateAsset, Jobs
<1> QED BY <1>2, <1>3, TypedAssets, AssetsKept DEF CreateAsset

LEMMA AssetLoadTyped ==
  ASSUME Typed, NEW w \in Workers, AssetLoad(w), UNCHANGED controls
  PROVE  Typed'
<1>1. PICK a \in FixedAssets, move \in AssetMoves :
        Becomes(w, [step |-> "asset", asset |-> a, whole |-> move.whole,
                    capitalizes |-> move.kind = "capitalize",
                    row |-> [assets[a] EXCEPT !.status = move.to]])
  BY DEF AssetLoad
<1> DEFINE row == [assets[a] EXCEPT !.status = move.to]
           capitalizes == move.kind = "capitalize"
<1>2. /\ move.to \in {"DRAFT", "PENDING_APPROVAL", "APPROVED", "ACTIVE"}
      /\ capitalizes <=> move.to = "ACTIVE"
  <2>1. move.to \in {"DRAFT", "PENDING_APPROVAL", "APPROVED", "ACTIVE"}
    BY DEF AssetMoves
  <2>2. move.kind = "capitalize" <=> move.to = "ACTIVE"
    BY DEF AssetMoves
  <2> QED BY <2>1, <2>2
<1>3. row \in AssetRow /\ row.status = move.to
  BY <1>2, TypedAssets DEF AssetRow, AssetStatuses
<1> HIDE DEF row, capitalizes
<1>4. JobShape([step |-> "asset", asset |-> a, whole |-> move.whole,
                capitalizes |-> capitalizes, row |-> row])
  BY <1>2, <1>3 DEF JobShape, PaperShape, MoneyShape, AssetShape, ControlShape, Steps
<1>5. Jobs'
  BY <1>1, <1>4, TypedPapers, JobsKept DEF row, capitalizes
<1> QED BY <1>5, LoadKept DEF AssetLoad, Rest

LEMMA AssetSaveTyped ==
  ASSUME Typed, NEW w \in Workers, AssetSave(w), UNCHANGED controls
  PROVE  Typed'
<1> DEFINE a == job[w].asset
<1>1. a \in FixedAssets /\ job[w].row \in AssetRow
  BY TypedPapers DEF AssetSave, At, JobShape, AssetShape
<1>2. assets[a] \in AssetRow
  BY <1>1, TypedAssets
<1>3. [status |-> job[w].row.status, accumulated |-> assets[a].accumulated] \in AssetRow
  BY <1>1, <1>2 DEF AssetRow
<1>4. assets' \in [FixedAssets -> AssetRow]
  BY <1>1, <1>3, TypedAssets DEF AssetSave
<1>5. capitalized' \subseteq FixedAssets
  BY <1>1, TypedAssets DEF AssetSave
<1>6. Jobs'
  BY Responded, TypedPapers DEF AssetSave
<1> QED BY <1>4, <1>5, <1>6, TypedAssets, AssetsKept DEF AssetSave

LEMMA DeleteAssetTyped ==
  ASSUME Typed, NEW w \in Workers, DeleteAsset(w), UNCHANGED controls
  PROVE  Typed'
<1>1. NoAsset \in AssetRow
  BY DEF NoAsset, AssetRow
<1>2. assets' \in [FixedAssets -> AssetRow]
  BY <1>1, TypedAssets DEF DeleteAsset
<1>3. Jobs'
  BY TypedPapers DEF DeleteAsset, Jobs
<1> QED BY <1>2, <1>3, TypedAssets, AssetsKept DEF DeleteAsset

LEMMA PeriodLoadTyped ==
  ASSUME Typed, NEW w \in Workers, PeriodLoad(w), UNCHANGED controls
  PROVE  Typed'
<1> DEFINE left == {[asset |-> a, accumulated |-> assets[a].accumulated] :
                      a \in {x \in FixedAssets : /\ assets[x].status = "ACTIVE"
                                                 /\ assets[x].accumulated < Worth[x]}}
<1>1. PICK p \in Periods :
        Becomes(w, [step |-> "period", period |-> p, rows |-> {}, left |-> left])
  BY DEF PeriodLoad
<1> DEFINE j == [step |-> "period", period |-> p, rows |-> {}, left |-> left]
<1>2. left \in SUBSET ReadAsset
  BY TypedAssets DEF ReadAsset, AssetRow
<1>3. (\A x \in left : x.accumulated < Worth[x.asset])
      /\ \A x, y \in left : x.asset = y.asset => x = y
  OBVIOUS
<1> HIDE DEF left
<1>4. RunShape(j)
  BY <1>2, <1>3 DEF RunShape
<1>5. JobShape(j)
  BY <1>2, <1>4 DEF JobShape, PaperShape, MoneyShape, AssetShape, ControlShape, Steps
<1>6. Jobs'
  BY <1>1, <1>5, TypedPapers, JobsKept
<1> QED BY <1>6, LoadKept DEF PeriodLoad, Rest

\* The run looks at its assets in the order of their keys.
LEMMA FirstLeft ==
  ASSUME NEW left \in SUBSET ReadAsset, left # {}
  PROVE  FirstOf(left) \in left
<1> DEFINE T == {x.asset : x \in left}
<1>1. T \subseteq Nat /\ T # {}
  BY AssetsAssumption DEF ReadAsset
<1>2. PICK m \in T : \A k \in T : ~(k < m)
  BY <1>1, Least
<1>3. PICK x \in left : x.asset = m
  OBVIOUS
<1>4. \A y \in left : x.asset <= y.asset
  <2>1. SUFFICES ASSUME NEW y \in left PROVE x.asset <= y.asset
    OBVIOUS
  <2>2. y.asset \in T
    OBVIOUS
  <2> HIDE DEF T
  <2>3. m \in Nat /\ y.asset \in Nat /\ ~(y.asset < m)
    BY <1>1, <1>2, <2>2
  <2> QED BY <1>3, <2>3
<1> QED BY <1>4 DEF FirstOf

\* A period takes something, and not more than what is left.
LEMMA LossBounds ==
  ASSUME NEW read \in ReadAsset, read.accumulated < Worth[read.asset]
  PROVE  /\ Loss(read) \in Nat \ {0}
         /\ read.accumulated + Loss(read) <= Worth[read.asset]
<1>1. /\ Monthly[read.asset] \in Nat \ {0} /\ Worth[read.asset] \in Nat
      /\ read.accumulated \in Nat
  BY AssetsAssumption DEF ReadAsset
<1> DEFINE rest == Worth[read.asset] - read.accumulated
<1>2. rest \in Nat \ {0}
  BY <1>1
<1>3. Loss(read) = IF Monthly[read.asset] <= rest THEN Monthly[read.asset] ELSE rest
  BY <1>1, <1>2, MinPair DEF Loss
<1> QED BY <1>1, <1>2, <1>3

LEMMA PeriodRowTyped ==
  ASSUME Typed, NEW w \in Workers, PeriodRow(w), UNCHANGED controls
  PROVE  Typed'
<1> DEFINE left == job[w].left
           read == FirstOf(left)
           rest == left \ {read}
           row == [asset |-> read.asset, amount |-> Loss(read),
                   accumulated |-> read.accumulated + Loss(read)]
           rows == job[w].rows \union {row}
           j == [step |-> "period_row", period |-> job[w].period, left |-> rest,
                 asset |-> read.asset, rows |-> rows]
<1>1. /\ job[w] \in [step : {"period"}, period : Periods, left : SUBSET ReadAsset,
                     rows : SUBSET InsertedRow]
      /\ RunShape(job[w])
  BY TypedPapers DEF PeriodRow, At, JobShape, AssetShape
<1>2. read \in left /\ read \in ReadAsset /\ left \in SUBSET ReadAsset
  BY <1>1, FirstLeft DEF PeriodRow
<1>3. Loss(read) \in Nat \ {0} /\ read.accumulated + Loss(read) <= Worth[read.asset]
  BY <1>1, <1>2, LossBounds DEF RunShape
<1>4. row \in InsertedRow /\ row.amount <= row.accumulated
  BY <1>2, <1>3 DEF ReadAsset, InsertedRow
<1>5. CASE ~Missing(read.asset, job[w].period)
  <2>1. Becomes(w, [job[w] EXCEPT !.left = rest])
    BY <1>5 DEF PeriodRow
  <2> DEFINE k == [job[w] EXCEPT !.left = rest]
  <2>2. /\ k \in [step : {"period"}, period : Periods, left : SUBSET ReadAsset,
                  rows : SUBSET InsertedRow]
        /\ k.left = rest /\ k.rows = job[w].rows
    BY <1>1, <1>2
  <2> HIDE DEF k
  <2>3. RunShape(k)
    BY <1>1, <1>2, <2>2 DEF RunShape
  <2>4. JobShape(k)
    BY <2>2, <2>3 DEF JobShape, PaperShape, MoneyShape, AssetShape, ControlShape, Steps
  <2>5. Jobs'
    BY <2>1, <2>4, TypedPapers, JobsKept DEF k
  <2> QED BY <2>5, LoadKept DEF PeriodRow, Rest
<1>6. CASE Missing(read.asset, job[w].period)
  <2>1. Becomes(w, j)
    BY <1>6 DEF PeriodRow
  <2>2. RunShape(j)
    <3>1. \A r \in job[w].rows : r.asset # read.asset
      BY <1>1, <1>2 DEF RunShape
    <3>2. \A x \in rest : x.asset # read.asset
      BY <1>1, <1>2 DEF RunShape
    <3>3. row.asset = read.asset /\ row.accumulated <= Worth[row.asset]
      BY <1>3
    <3> HIDE DEF row, read
    <3> QED BY <1>1, <1>2, <1>4, <3>1, <3>2, <3>3 DEF RunShape
  <2>3. read.asset \in FixedAssets /\ rest \in SUBSET ReadAsset /\ rows \in SUBSET InsertedRow
    BY <1>1, <1>2, <1>4 DEF ReadAsset
  <2> HIDE DEF read, rest, rows
  <2>4. JobShape(j)
    BY <1>1, <2>2, <2>3 DEF JobShape, PaperShape, MoneyShape, AssetShape, ControlShape, Steps
  <2>5. Jobs'
    BY <2>1, <2>4, TypedPapers, JobsKept
  <2> QED BY <2>5, LoadKept DEF PeriodRow, Rest
<1> QED BY <1>5, <1>6

LEMMA PeriodSaveTyped ==
  ASSUME Typed, NEW w \in Workers, PeriodSave(w), UNCHANGED controls
  PROVE  Typed'
<1> DEFINE j == [step |-> "period", period |-> job[w].period, left |-> job[w].left,
                 rows |-> job[w].rows]
<1>1. /\ job[w] \in [step : {"period_row"}, period : Periods, left : SUBSET ReadAsset,
                     rows : SUBSET InsertedRow, asset : FixedAssets]
      /\ RunShape(job[w])
  BY TypedPapers DEF PeriodSave, At, JobShape, AssetShape
<1>2. RunShape(j)
  BY <1>1 DEF RunShape
<1>3. JobShape(j)
  BY <1>1, <1>2 DEF JobShape, PaperShape, MoneyShape, AssetShape, ControlShape, Steps
<1>4. Jobs'
  BY <1>3, TypedPapers, JobsKept DEF PeriodSave
<1> QED BY <1>4, LoadKept DEF PeriodSave, Rest

\* What a run commits of an asset.
RowOf(w, a) == CHOOSE r \in job[w].rows : r.asset = a

\* The run that worker w commits: its rows, and what becomes of each asset.
LEMMA Committed ==
  ASSUME Typed, NEW w \in Workers, PeriodCommit(w)
  PROVE  /\ job[w].period \in Periods /\ RunShape(job[w])
         /\ \A a \in Inserting(w) : RowOf(w, a) \in job[w].rows /\ RowOf(w, a).asset = a
         /\ \A a \in Inserting(w) : RowOf(w, a) \in InsertedRow
         /\ assets' = [a \in FixedAssets |->
              IF a \notin Inserting(w) THEN assets[a]
              ELSE [status |-> IF RowOf(w, a).accumulated = Worth[a]
                               THEN "FULLY_DEPRECIATED" ELSE "ACTIVE",
                    accumulated |-> RowOf(w, a).accumulated]]
         /\ depreciated' = [a \in FixedAssets |->
              IF a \notin Inserting(w) THEN depreciated[a]
              ELSE [depreciated[a] EXCEPT
                      ![job[w].period] = Append(@, RowOf(w, a).amount)]]
<1>1. job[w].period \in Periods /\ RunShape(job[w])
  BY TypedPapers DEF PeriodCommit, At, JobShape, AssetShape
<1>2. \A a \in Inserting(w) : RowOf(w, a) \in job[w].rows /\ RowOf(w, a).asset = a
  BY DEF Inserting, RowOf
<1>3. \A a \in Inserting(w) : RowOf(w, a) \in InsertedRow
  BY <1>1, <1>2 DEF RunShape
<1> QED BY <1>1, <1>2, <1>3 DEF PeriodCommit, RowOf

LEMMA PeriodCommitTyped ==
  ASSUME Typed, NEW w \in Workers, PeriodCommit(w), UNCHANGED controls
  PROVE  Typed'
<1>1. \A a \in Inserting(w) : RowOf(w, a).amount \in Nat /\ RowOf(w, a).accumulated \in Nat
  BY Committed DEF InsertedRow
<1>2. assets' \in [FixedAssets -> AssetRow]
  <2>1. ASSUME NEW a \in FixedAssets PROVE assets'[a] \in AssetRow
    <3>1. CASE a \notin Inserting(w)
      BY <3>1, Committed, TypedAssets
    <3>2. CASE a \in Inserting(w)
      <4>1. assets'[a] = [status |-> IF RowOf(w, a).accumulated = Worth[a]
                                     THEN "FULLY_DEPRECIATED" ELSE "ACTIVE",
                          accumulated |-> RowOf(w, a).accumulated]
        BY <3>2, Committed
      <4> QED BY <1>1, <3>2, <4>1 DEF AssetRow, AssetStatuses
    <3> QED BY <3>1, <3>2
  <2> QED BY <2>1, Committed
<1>3. depreciated' \in [FixedAssets -> [Periods -> Seq(Nat)]]
  <2>1. ASSUME NEW a \in FixedAssets PROVE depreciated'[a] \in [Periods -> Seq(Nat)]
    <3>1. CASE a \notin Inserting(w)
      BY <3>1, Committed, TypedAssets
    <3>2. CASE a \in Inserting(w)
      <4>1. depreciated'[a] = [depreciated[a] EXCEPT ![job[w].period] = Append(@, RowOf(w, a).amount)]
        BY <3>2, Committed
      <4>2. depreciated[a] \in [Periods -> Seq(Nat)] /\ RowOf(w, a).amount \in Nat
        BY <1>1, <3>2, TypedAssets
      <4>3. Append(depreciated[a][job[w].period], RowOf(w, a).amount) \in Seq(Nat)
        BY <4>2, Committed
      <4> QED BY <4>1, <4>2, <4>3
    <3> QED BY <3>1, <3>2
  <2> QED BY <2>1, Committed
<1>4. Jobs'
  BY Responded, TypedPapers DEF PeriodCommit
<1> QED BY <1>2, <1>3, <1>4, TypedAssets, AssetsKept DEF PeriodCommit

LEMMA AssetStepTyped ==
  ASSUME Typed, NEW w \in Workers, AssetStep(w), UNCHANGED controls
  PROVE  Typed'
BY CreateAssetTyped, AssetLoadTyped, AssetSaveTyped, DeleteAssetTyped, PeriodLoadTyped,
   PeriodRowTyped, PeriodSaveTyped, PeriodCommitTyped DEF AssetStep

LEMMA TypedControls ==
  ASSUME Typed
  PROVE  /\ budgets \in [Budgets -> BudgetRow]
         /\ budgetLines \in [Budgets -> 0..MaxBudgetLines]
         /\ approvedLines \in [Budgets -> 0..MaxBudgetLines]
         /\ revisions \in [Revisions -> RevisionRow]
         /\ returns \in [Returns -> ReturnRow]
         /\ approvedReturns \subseteq Returns
         /\ periods \in [Periods -> {"OPEN", "CLOSED", "LOCKED"}]
         /\ \A r \in Revisions : revisions[r] = NoRevision
              \/ (revisions[r].status # "ABSENT" /\ revisions[r].of \in Budgets)
         /\ \A v \in Returns : returns[v] = NoReturn \/ returns[v].status # "ABSENT"
BY DEF Typed, ControlsTypeOK, RowsMeant, BudgetRow, RevisionRow, ReturnRow

LEMMA ControlsKept ==
  ASSUME Typed, Jobs', UNCHANGED Elsewhere,
         budgets' \in [Budgets -> BudgetRow], budgetLines' \in [Budgets -> 0..MaxBudgetLines],
         approvedLines' \in [Budgets -> 0..MaxBudgetLines],
         revisions' \in [Revisions -> RevisionRow],
         \A r \in Revisions : revisions'[r] = NoRevision
           \/ (revisions'[r].status # "ABSENT" /\ revisions'[r].of \in Budgets),
         returns' \in [Returns -> ReturnRow],
         \A v \in Returns : returns'[v] = NoReturn \/ returns'[v].status # "ABSENT",
         approvedReturns' \subseteq Returns, periods' \in [Periods -> {"OPEN", "CLOSED", "LOCKED"}]
  PROVE  Typed'
BY DEF Typed, RowsMeant, ControlsTypeOK, AllTypeOK, TypeOK, LedgerTypes, Elsewhere, documents, money,
       assetVars, Present, BudgetRow, RevisionRow, ReturnRow

LEMMA MaxBudgetLinesPositive == MaxBudgetLines \in Nat \ {0} /\ 1 \in 0..MaxBudgetLines
BY ControlsAssumption

LEMMA BudgetMovesTo ==
  ASSUME NEW move \in BudgetMoves
  PROVE  move.to \in BudgetStatuses \ {"ABSENT", "DRAFT"}
BY DEF BudgetMoves, BudgetStatuses

LEMMA ReturnMovesTo ==
  ASSUME NEW move \in ReturnMoves
  PROVE  /\ move.to \in ReturnStatuses \ {"ABSENT", "DRAFT"}
         /\ move.payment \in {"any", "NOT_PAID", "PAID"}
BY DEF ReturnMoves, ReturnStatuses

LEMMA CreateBudgetTyped ==
  ASSUME Typed, NEW w \in Workers, CreateBudget(w)
  PROVE  Typed'
<1>1. PICK b \in Budgets : /\ budgets' = [budgets EXCEPT ![b].status = "DRAFT"]
                           /\ budgetLines' = [budgetLines EXCEPT ![b] = 1]
  BY DEF CreateBudget
<1>2. budgets' \in [Budgets -> BudgetRow] /\ budgetLines' \in [Budgets -> 0..MaxBudgetLines]
  BY <1>1, TypedControls, MaxBudgetLinesPositive DEF BudgetRow, BudgetStatuses
<1>3. Jobs'
  BY TypedPapers DEF CreateBudget, Jobs
<1> QED BY <1>2, <1>3, TypedControls, ControlsKept DEF CreateBudget, returnVars

LEMMA EditBudgetLoadTyped ==
  ASSUME Typed, NEW w \in Workers, EditBudgetLoad(w)
  PROVE  Typed'
<1>1. PICK b \in Budgets :
        /\ budgets[b].status \in {"DRAFT", "REJECTED"}
        /\ Becomes(w, [step |-> "edit_budget", control |-> b, read |-> budgets[b]])
  BY DEF EditBudgetLoad, OpenToEdits
<1>2. JobShape([step |-> "edit_budget", control |-> b, read |-> budgets[b]])
  BY <1>1, TypedControls DEF JobShape, PaperShape, MoneyShape, AssetShape, ControlShape, Steps
<1>3. Jobs'
  BY <1>1, <1>2, TypedPapers, JobsKept
<1> QED BY <1>3, LoadKept DEF EditBudgetLoad, Elsewhere, Rest

LEMMA EditBudgetSaveTyped ==
  ASSUME Typed, NEW w \in Workers, EditBudgetSave(w)
  PROVE  Typed'
<1>1. job[w].control \in Budgets /\ job[w].read \in BudgetRow
  BY TypedPapers DEF EditBudgetSave, At, JobShape, ControlShape
<1>2. budgets' \in [Budgets -> BudgetRow]
  BY <1>1, TypedControls DEF EditBudgetSave
<1>3. budgetLines' \in [Budgets -> 0..MaxBudgetLines]
  BY <1>1, TypedControls, MaxBudgetLinesPositive DEF EditBudgetSave
<1>4. Jobs'
  BY Responded, TypedPapers DEF EditBudgetSave
<1> QED BY <1>2, <1>3, <1>4, TypedControls, ControlsKept DEF EditBudgetSave, returnVars

LEMMA DeleteBudgetTyped ==
  ASSUME Typed, NEW w \in Workers, DeleteBudget(w)
  PROVE  Typed'
<1>1. NoBudget \in BudgetRow
  BY DEF NoBudget, BudgetRow, BudgetStatuses
<1>2. budgets' \in [Budgets -> BudgetRow]
  BY <1>1, TypedControls DEF DeleteBudget
<1>3. Jobs'
  BY TypedPapers DEF DeleteBudget, Jobs
<1> QED BY <1>2, <1>3, TypedControls, ControlsKept DEF DeleteBudget, returnVars

LEMMA BudgetLoadTyped ==
  ASSUME Typed, NEW w \in Workers, BudgetLoad(w)
  PROVE  Typed'
<1>1. PICK b \in Budgets, move \in BudgetMoves :
        Becomes(w, [step |-> "budget", control |-> b, status |-> move.to, lines |-> budgetLines[b]])
  BY DEF BudgetLoad
<1>2. JobShape([step |-> "budget", control |-> b, status |-> move.to, lines |-> budgetLines[b]])
  BY TypedControls, BudgetMovesTo
     DEF JobShape, PaperShape, MoneyShape, AssetShape, ControlShape, Steps
<1>3. Jobs'
  BY <1>1, <1>2, TypedPapers, JobsKept
<1> QED BY <1>3, LoadKept DEF BudgetLoad, Elsewhere, Rest

LEMMA BudgetSaveTyped ==
  ASSUME Typed, NEW w \in Workers, BudgetSave(w)
  PROVE  Typed'
<1>1. /\ job[w].control \in Budgets /\ job[w].status \in BudgetStatuses
      /\ job[w].lines \in 0..MaxBudgetLines
  BY TypedPapers DEF BudgetSave, At, JobShape, ControlShape
<1>2. budgets' \in [Budgets -> BudgetRow]
  BY <1>1, TypedControls DEF BudgetSave, BudgetRow
<1>3. approvedLines' \in [Budgets -> 0..MaxBudgetLines]
  BY <1>1, TypedControls DEF BudgetSave
<1>4. Jobs'
  BY Responded, TypedPapers DEF BudgetSave
<1> QED BY <1>2, <1>3, <1>4, TypedControls, ControlsKept DEF BudgetSave, returnVars

LEMMA CreateRevisionTyped ==
  ASSUME Typed, NEW w \in Workers, CreateRevision(w)
  PROVE  Typed'
<1>1. PICK r \in Revisions, b \in Budgets :
        revisions' = [revisions EXCEPT ![r] = [status |-> "DRAFT", of |-> b]]
  BY DEF CreateRevision
<1>2. revisions' \in [Revisions -> RevisionRow]
  BY <1>1, TypedControls DEF RevisionRow
<1>3. \A x \in Revisions : revisions'[x] = NoRevision
        \/ (revisions'[x].status # "ABSENT" /\ revisions'[x].of \in Budgets)
  BY <1>1, TypedControls
<1>4. Jobs'
  BY TypedPapers DEF CreateRevision, Jobs
<1> QED BY <1>2, <1>3, <1>4, TypedControls, ControlsKept DEF CreateRevision, returnVars

LEMMA DeleteRevisionTyped ==
  ASSUME Typed, NEW w \in Workers, DeleteRevision(w)
  PROVE  Typed'
<1>1. PICK r \in Revisions : revisions' = [revisions EXCEPT ![r] = NoRevision]
  BY DEF DeleteRevision
<1>2. revisions' \in [Revisions -> RevisionRow]
  BY <1>1, TypedControls DEF RevisionRow, NoRevision
<1>3. \A x \in Revisions : revisions'[x] = NoRevision
        \/ (revisions'[x].status # "ABSENT" /\ revisions'[x].of \in Budgets)
  BY <1>1, TypedControls
<1>4. Jobs'
  BY TypedPapers DEF DeleteRevision, Jobs
<1> QED BY <1>2, <1>3, <1>4, TypedControls, ControlsKept DEF DeleteRevision, returnVars

LEMMA RevisionLoadTyped ==
  ASSUME Typed, NEW w \in Workers, RevisionLoad(w)
  PROVE  Typed'
<1>1. PICK r \in Revisions, kind \in {"submit_revision", "approve_revision"} :
        /\ revisions[r].status = IF kind = "submit_revision" THEN "DRAFT" ELSE "PENDING_APPROVAL"
        /\ Becomes(w, [step |-> kind, control |-> r,
                       version |-> budgets[revisions[r].of].version])
  BY DEF RevisionLoad
<1>2. revisions[r].of \in Budgets
  BY <1>1, TypedControls DEF NoRevision
<1>3. budgets[revisions[r].of].version \in Nat
  BY <1>2, TypedControls DEF BudgetRow
<1>4. JobShape([step |-> kind, control |-> r, version |-> budgets[revisions[r].of].version])
  BY <1>3 DEF JobShape, PaperShape, MoneyShape, AssetShape, ControlShape, Steps
<1>5. Jobs'
  BY <1>1, <1>4, TypedPapers, JobsKept
<1> QED BY <1>5, LoadKept DEF RevisionLoad, Elsewhere, Rest

LEMMA RevisionSet ==
  ASSUME Typed, NEW r \in Revisions, revisions[r] # NoRevision,
         NEW status \in {"PENDING_APPROVAL", "APPROVED"},
         revisions' = [revisions EXCEPT ![r].status = status]
  PROVE  /\ revisions' \in [Revisions -> RevisionRow]
         /\ \A x \in Revisions : revisions'[x] = NoRevision
              \/ (revisions'[x].status # "ABSENT" /\ revisions'[x].of \in Budgets)
<1>1. revisions[r] \in RevisionRow /\ revisions[r].of \in Budgets
  BY TypedControls
<1>2. revisions'[r].status = status /\ revisions'[r].of = revisions[r].of
      /\ revisions'[r] \in RevisionRow
  BY <1>1, TypedControls DEF RevisionRow
<1>3. \A x \in Revisions \ {r} : revisions'[x] = revisions[x]
  BY TypedControls
<1> QED BY <1>1, <1>2, <1>3, TypedControls

LEMMA SubmitRevisionTyped ==
  ASSUME Typed, NEW w \in Workers, SubmitRevision(w)
  PROVE  Typed'
<1>1. job[w].control \in Revisions
  BY TypedPapers DEF SubmitRevision, At, JobShape, ControlShape
<1>2. /\ revisions' \in [Revisions -> RevisionRow]
      /\ \A x \in Revisions : revisions'[x] = NoRevision
           \/ (revisions'[x].status # "ABSENT" /\ revisions'[x].of \in Budgets)
  BY <1>1, RevisionSet DEF SubmitRevision
<1>3. Jobs'
  BY Responded, TypedPapers DEF SubmitRevision
<1> QED BY <1>2, <1>3, TypedControls, ControlsKept DEF SubmitRevision, returnVars

LEMMA ApproveRevisionTyped ==
  ASSUME Typed, NEW w \in Workers, ApproveRevision(w)
  PROVE  Typed'
<1> DEFINE r == job[w].control
           b == revisions[r].of
<1>1. r \in Revisions /\ job[w].version \in Nat
  BY TypedPapers DEF ApproveRevision, At, JobShape, ControlShape
<1>2. /\ revisions' \in [Revisions -> RevisionRow]
      /\ \A x \in Revisions : revisions'[x] = NoRevision
           \/ (revisions'[x].status # "ABSENT" /\ revisions'[x].of \in Budgets)
  BY <1>1, RevisionSet DEF ApproveRevision
<1>3. NextVersion(job[w].version) \in Nat
  BY <1>1 DEF NextVersion
<1>4. budgets' \in [Budgets -> BudgetRow]
  BY <1>3, TypedControls DEF ApproveRevision, BudgetRow
<1>5. Jobs'
  BY Responded, TypedPapers DEF ApproveRevision
<1> QED BY <1>2, <1>4, <1>5, TypedControls, ControlsKept DEF ApproveRevision, returnVars

\* VAT of invoices and bills that are there.
LEMMA VatNat ==
  ASSUME Typed, NEW D, D \subseteq Invoices \union Bills, \A d \in D : Present(d)
  PROVE  VatOf(D) \in Nat /\ IsFiniteSet(D) /\ \A d \in D : VatWithin[papers[d].total] \in Nat
<1>1. IsFiniteSet(D)
  BY LedgerAssumption, FS_Subset DEF Documents
<1>2. \A d \in D : papers[d].total \in Totals
  BY TypedPapers DEF PapersTyped
<1>3. \A d \in D : VatWithin[papers[d].total] \in Nat
  <2>1. ASSUME NEW d \in D PROVE VatWithin[papers[d].total] \in Nat
    <3>1. papers[d].total \in Nat /\ VatWithin[papers[d].total] \in 0..papers[d].total
      BY <1>2, StatementsAssumption, LedgerAssumption
    <3> QED BY <3>1
  <2> QED BY <2>1
<1> DEFINE f == [d \in D |-> VatWithin[papers[d].total]]
<1>4. \A d \in D : f[d] \in Nat
  BY <1>3
<1> HIDE DEF f
<1>5. SumFunctionOnSet(f, D) \in Nat
  BY <1>1, <1>4, SumNat
<1> QED BY <1>1, <1>3, <1>5 DEF f, VatOf

LEMMA PeriodVatNat ==
  ASSUME Typed, NEW p
  PROVE  VatOf(Dated(VatSales, p)) \in Nat /\ VatOf(Dated(VatPurchases, p)) \in Nat
<1>1. Dated(VatSales, p) \subseteq Invoices \union Bills
      /\ \A d \in Dated(VatSales, p) : Present(d)
  BY DEF Dated, VatSales, Present
<1>2. Dated(VatPurchases, p) \subseteq Invoices \union Bills
      /\ \A d \in Dated(VatPurchases, p) : Present(d)
  BY DEF Dated, VatPurchases, Present
<1> QED BY <1>1, <1>2, VatNat

LEMMA ReturnSet ==
  ASSUME Typed, NEW v \in Returns, NEW row \in ReturnRow, row = NoReturn \/ row.status # "ABSENT",
         returns' = [returns EXCEPT ![v] = row]
  PROVE  /\ returns' \in [Returns -> ReturnRow]
         /\ \A x \in Returns : returns'[x] = NoReturn \/ returns'[x].status # "ABSENT"
BY TypedControls

LEMMA TypesSent == Sent \subseteq ReturnTypes
BY DEF Sent, ReturnTypes

LEMMA FormFilledIn ==
  ASSUME NEW p \in Periods, NEW scope \in Scopes, NEW type \in Sent, NEW credit \in Credits,
         NEW payment \in PaymentStatuses
  PROVE  LET form == FilledIn(p, scope, type, credit, payment)
         IN  /\ form \in ReturnRow /\ form.status = "DRAFT" /\ form.period = p
             /\ form.output = 0 /\ form.input = 0 /\ form.net = 0
             /\ form.credit = credit /\ credit \in Nat
<1>1. credit \in Nat /\ type \in ReturnTypes
  BY ControlsAssumption, TypesSent
<1> QED BY <1>1 DEF FilledIn, NoReturn, ReturnRow, ReturnStatuses

LEMMA CreateReturnTyped ==
  ASSUME Typed, NEW w \in Workers, CreateReturn(w)
  PROVE  Typed'
<1>1. PICK v \in Returns, p \in Periods, scope \in Scopes, type \in Sent, credit \in Credits,
           payment \in PaymentStatuses :
        returns' = [returns EXCEPT ![v] = FilledIn(p, scope, type, credit, payment)]
  BY DEF CreateReturn
<1> DEFINE row == FilledIn(p, scope, type, credit, payment)
<1>3. row \in ReturnRow /\ row.status = "DRAFT"
  BY FormFilledIn
<1> HIDE DEF row
<1>4. /\ returns' \in [Returns -> ReturnRow]
      /\ \A x \in Returns : returns'[x] = NoReturn \/ returns'[x].status # "ABSENT"
  BY <1>1, <1>3, ReturnSet DEF row
<1>5. Jobs'
  BY TypedPapers DEF CreateReturn, Jobs
<1> QED BY <1>4, <1>5, TypedControls, ControlsKept DEF CreateReturn, budgetVars

LEMMA PrepareSalesTyped ==
  ASSUME Typed, NEW w \in Workers, PrepareSales(w)
  PROVE  Typed'
<1>1. PICK p \in Periods, scope \in Scopes, type \in Sent, credit \in Credits,
           payment \in PaymentStatuses :
        Becomes(w, [step |-> "prepare", form |-> FilledIn(p, scope, type, credit, payment),
                    output |-> VatOf(Dated(VatSales, p))])
  BY DEF PrepareSales
<1> DEFINE output == VatOf(Dated(VatSales, p))
           form == FilledIn(p, scope, type, credit, payment)
<1>2. output \in Nat
  BY PeriodVatNat
<1>5. form \in ReturnRow /\ form.status = "DRAFT" /\ form.period \in Periods
  BY FormFilledIn
<1> HIDE DEF output, form
<1>3. JobShape([step |-> "prepare", form |-> form, output |-> output])
  BY <1>2, <1>5 DEF JobShape, PaperShape, MoneyShape, AssetShape, ControlShape, Steps
<1>4. Jobs'
  BY <1>1, <1>3, TypedPapers, JobsKept DEF output, form
<1> QED BY <1>4, LoadKept DEF PrepareSales, Elsewhere, Rest

LEMMA NetNat ==
  ASSUME NEW output \in Nat, NEW input \in Nat, NEW credit \in Nat
  PROVE  /\ NetPayable(output, input, credit) \in Nat
         /\ NetPayable(output, input, credit) >= output - input - credit
         /\ NetPayable(output, input, credit) > 0
              => NetPayable(output, input, credit) = output - input - credit
<1> DEFINE due == output - input - credit
<1>1. due \in Int
  OBVIOUS
<1>2. NetPayable(output, input, credit) = IF 0 <= due THEN due ELSE 0
  BY <1>1, MaxPair DEF NetPayable
<1> QED BY <1>1, <1>2

LEMMA RowFigured ==
  ASSUME NEW form \in ReturnRow, NEW output \in Nat, NEW input \in Nat
  PROVE  LET row == WithFigures(form, output, input)
         IN  /\ row \in ReturnRow /\ row.status = form.status /\ row.period = form.period
             /\ row.output = output /\ row.input = input /\ row.credit = form.credit
             /\ row.net >= output - input - form.credit
             /\ row.net > 0 => row.net = output - input - form.credit
<1>1. form.credit \in Nat
  BY DEF ReturnRow
<1> DEFINE net == NetPayable(output, input, form.credit)
<1>2. /\ net \in Nat /\ net >= output - input - form.credit
      /\ net > 0 => net = output - input - form.credit
  BY <1>1, NetNat
<1>3. WithFigures(form, output, input) = [form EXCEPT !.output = output, !.input = input, !.net = net]
  BY DEF WithFigures
<1> HIDE DEF net
<1> QED BY <1>2, <1>3 DEF ReturnRow

\* What is prepared: the form with the figures of its period.
Prepared(w) ==
  WithFigures(job[w].form, job[w].output, VatOf(Dated(VatPurchases, job[w].form.period)))

LEMMA ReturnPrepared ==
  ASSUME Typed, NEW w \in Workers, PrepareReturn(w)
  PROVE  /\ Prepared(w) \in ReturnRow /\ Prepared(w).status = "DRAFT"
         /\ Prepared(w).period \in Periods
         /\ Prepared(w).input = VatOf(Dated(VatPurchases, Prepared(w).period))
         /\ Prepared(w).input \in Nat
         /\ LET due == Prepared(w).output - Prepared(w).input - Prepared(w).credit
            IN Prepared(w).net >= due /\ (Prepared(w).net > 0 => Prepared(w).net = due)
         /\ \E v \in Returns : /\ ScopeFree(v, Prepared(w))
                              /\ returns' = [returns EXCEPT ![v] = Prepared(w)]
<1> DEFINE form == job[w].form
           output == job[w].output
           input == VatOf(Dated(VatPurchases, form.period))
<1>1. /\ form \in ReturnRow /\ output \in Nat
      /\ form.status = "DRAFT" /\ form.period \in Periods
  BY TypedPapers DEF PrepareReturn, At, JobShape, ControlShape
<1>2. input \in Nat
  BY PeriodVatNat
<1>3. Prepared(w) = WithFigures(form, output, input)
  BY DEF Prepared
<1>4. \E v \in Returns : /\ ScopeFree(v, Prepared(w))
                        /\ returns' = [returns EXCEPT ![v] = Prepared(w)]
  BY DEF PrepareReturn, Prepared
<1>5. /\ Prepared(w) \in ReturnRow /\ Prepared(w).status = "DRAFT"
      /\ Prepared(w).period = form.period
      /\ Prepared(w).output = output /\ Prepared(w).input = input
      /\ Prepared(w).credit = form.credit
      /\ Prepared(w).net >= output - input - form.credit
      /\ Prepared(w).net > 0 => Prepared(w).net = output - input - form.credit
  <2> HIDE DEF form, output, input
  <2>1. LET row == WithFigures(form, output, input)
        IN /\ row \in ReturnRow /\ row.status = form.status /\ row.period = form.period
           /\ row.output = output /\ row.input = input /\ row.credit = form.credit
           /\ row.net >= output - input - form.credit
           /\ row.net > 0 => row.net = output - input - form.credit
    BY <1>1, <1>2, RowFigured
  <2> QED BY <1>1, <1>3, <2>1
<1>6. Prepared(w).input = VatOf(Dated(VatPurchases, Prepared(w).period))
  BY <1>5
<1> HIDE DEF form, output, input
<1> QED BY <1>1, <1>2, <1>4, <1>5, <1>6

LEMMA PrepareReturnTyped ==
  ASSUME Typed, NEW w \in Workers, PrepareReturn(w)
  PROVE  Typed'
<1>3. PICK v \in Returns : returns' = [returns EXCEPT ![v] = Prepared(w)]
  BY ReturnPrepared
<1>5. Prepared(w) \in ReturnRow /\ Prepared(w).status = "DRAFT"
  BY ReturnPrepared
<1>6. /\ returns' \in [Returns -> ReturnRow]
      /\ \A x \in Returns : returns'[x] = NoReturn \/ returns'[x].status # "ABSENT"
  BY <1>3, <1>5, ReturnSet
<1>7. Jobs'
  BY Responded, TypedPapers DEF PrepareReturn
<1> QED BY <1>6, <1>7, TypedControls, ControlsKept DEF PrepareReturn, budgetVars

LEMMA DeleteReturnTyped ==
  ASSUME Typed, NEW w \in Workers, DeleteReturn(w)
  PROVE  Typed'
<1>1. PICK v \in Returns : returns' = [returns EXCEPT ![v] = NoReturn]
  BY DEF DeleteReturn
<1>2. NoReturn \in ReturnRow
  BY DEF NoReturn, ReturnRow, ReturnStatuses, ReturnTypes, Scopes, PaymentStatuses
<1>3. /\ returns' \in [Returns -> ReturnRow]
      /\ \A x \in Returns : returns'[x] = NoReturn \/ returns'[x].status # "ABSENT"
  BY <1>1, <1>2, ReturnSet
<1>4. Jobs'
  BY TypedPapers DEF DeleteReturn, Jobs
<1> QED BY <1>3, <1>4, TypedControls, ControlsKept DEF DeleteReturn, budgetVars

LEMMA EditedRow ==
  ASSUME Typed, NEW v \in Returns, returns[v] # NoReturn, NEW row \in Edited(v)
  PROVE  /\ row \in ReturnRow /\ row.status = returns[v].status /\ row.status # "ABSENT"
         /\ row.input = returns[v].input
         /\ "move_return" \notin clients => row.period = returns[v].period
<1>1. returns[v] \in ReturnRow /\ returns[v].status # "ABSENT"
  BY TypedControls
<1>2. CASE \E c \in Credits : row = [returns[v] EXCEPT !.credit = c]
  <2>1. PICK c \in Credits : row = [returns[v] EXCEPT !.credit = c]
    BY <1>2
  <2>2. c \in Nat
    BY ControlsAssumption
  <2> QED BY <1>1, <2>1, <2>2 DEF ReturnRow
<1>3. CASE \E y \in PaymentStatuses : row = [returns[v] EXCEPT !.payment = y]
  <2>1. PICK y \in PaymentStatuses : row = [returns[v] EXCEPT !.payment = y]
    BY <1>3
  <2> QED BY <1>1, <2>1 DEF ReturnRow
<1> DEFINE moved == IF "move_return" \in clients THEN Periods ELSE {}
<1> DEFINE sent == [period : moved, scope : Scopes, type : Sent]
           Put(x) == [returns[v] EXCEPT !.period = x.period, !.scope = x.scope, !.type = x.type]
<1>4. CASE \E x \in sent : row = Put(x)
  <2>1. PICK x \in sent : row = Put(x)
    BY <1>4
  <2>2. /\ "move_return" \in clients /\ x.period \in Periods
        /\ x.type \in ReturnTypes /\ x.scope \in Scopes
    BY TypesSent
  <2> QED BY <1>1, <2>1, <2>2 DEF ReturnRow
<1>5. \/ row \in {[returns[v] EXCEPT !.credit = c] : c \in Credits}
      \/ row \in {[returns[v] EXCEPT !.payment = y] : y \in PaymentStatuses}
      \/ row \in {Put(x) : x \in sent}
  BY DEF Edited
<1> HIDE DEF sent
<1> QED BY <1>2, <1>3, <1>4, <1>5

LEMMA EditReturnLoadTyped ==
  ASSUME Typed, NEW w \in Workers, EditReturnLoad(w)
  PROVE  Typed'
<1>1. PICK v \in Returns :
        /\ returns[v] # NoReturn
        /\ \E row \in Edited(v) :
             Becomes(w, [step |-> "edit_return", control |-> v, read |-> row])
  BY DEF EditReturnLoad
<1>2. PICK row \in Edited(v) :
        Becomes(w, [step |-> "edit_return", control |-> v, read |-> row])
  BY <1>1
<1>4. row \in ReturnRow /\ row.status # "ABSENT"
  BY <1>1, EditedRow
<1>5. JobShape([step |-> "edit_return", control |-> v, read |-> row])
  BY <1>4 DEF JobShape, PaperShape, MoneyShape, AssetShape, ControlShape, Steps
<1>6. Jobs'
  BY <1>2, <1>5, TypedPapers, JobsKept
<1> QED BY <1>6, LoadKept DEF EditReturnLoad, Elsewhere, Rest

LEMMA EditReturnSaveTyped ==
  ASSUME Typed, NEW w \in Workers, EditReturnSave(w)
  PROVE  Typed'
<1>1. job[w].control \in Returns /\ job[w].read \in ReturnRow /\ job[w].read.status # "ABSENT"
  BY TypedPapers DEF EditReturnSave, At, JobShape, ControlShape
<1>2. /\ returns' \in [Returns -> ReturnRow]
      /\ \A x \in Returns : returns'[x] = NoReturn \/ returns'[x].status # "ABSENT"
  BY <1>1, ReturnSet DEF EditReturnSave
<1>3. Jobs'
  BY Responded, TypedPapers DEF EditReturnSave
<1> QED BY <1>2, <1>3, TypedControls, ControlsKept DEF EditReturnSave, budgetVars

LEMMA ReturnLoadTyped ==
  ASSUME Typed, NEW w \in Workers, ReturnLoad(w)
  PROVE  Typed'
<1>1. PICK v \in Returns, move \in ReturnMoves :
        Becomes(w, [step |-> "return", control |-> v, status |-> move.to, payment |-> move.payment])
  BY DEF ReturnLoad
<1>2. JobShape([step |-> "return", control |-> v, status |-> move.to, payment |-> move.payment])
  BY ReturnMovesTo DEF JobShape, PaperShape, MoneyShape, AssetShape, ControlShape, Steps
<1>3. Jobs'
  BY <1>1, <1>2, TypedPapers, JobsKept
<1> QED BY <1>3, LoadKept DEF ReturnLoad, Elsewhere, Rest

\* What a saved workflow request makes of a return.
Moved(w) ==
  [returns[job[w].control] EXCEPT !.status = job[w].status,
     !.payment = IF job[w].payment = "any" THEN @ ELSE job[w].payment]

LEMMA ReturnMoved ==
  ASSUME Typed, NEW w \in Workers, ReturnSave(w)
  PROVE  /\ job[w].control \in Returns /\ job[w].status \in ReturnStatuses \ {"ABSENT", "DRAFT"}
         /\ Moved(w) \in ReturnRow /\ Moved(w).status = job[w].status
         /\ \A k \in {"scope", "type", "period", "output", "input", "credit", "net"} :
              Moved(w)[k] = returns[job[w].control][k]
         /\ Moved(w).payment = IF job[w].payment = "any" THEN returns[job[w].control].payment
                               ELSE job[w].payment
         /\ returns' = [returns EXCEPT ![job[w].control] = Moved(w)]
<1>1. /\ job[w].control \in Returns /\ job[w].status \in ReturnStatuses \ {"ABSENT", "DRAFT"}
      /\ job[w].payment \in {"any", "NOT_PAID", "PAID"}
  BY TypedPapers DEF ReturnSave, At, JobShape, ControlShape
<1>2. returns[job[w].control] \in ReturnRow
  BY <1>1, TypedControls
<1>3. Moved(w) \in ReturnRow /\ Moved(w).status = job[w].status
  BY <1>1, <1>2 DEF Moved, ReturnRow, PaymentStatuses
<1>4. \A k \in {"scope", "type", "period", "output", "input", "credit", "net"} :
        Moved(w)[k] = returns[job[w].control][k]
  BY <1>2 DEF Moved, ReturnRow
<1>5. Moved(w).payment = IF job[w].payment = "any" THEN returns[job[w].control].payment
                         ELSE job[w].payment
  BY <1>2 DEF Moved, ReturnRow
<1>6. returns' = [returns EXCEPT ![job[w].control] = Moved(w)]
  BY DEF ReturnSave, Moved
<1> QED BY <1>1, <1>3, <1>4, <1>5, <1>6

LEMMA ReturnSaveTyped ==
  ASSUME Typed, NEW w \in Workers, ReturnSave(w)
  PROVE  Typed'
<1>1. /\ returns' \in [Returns -> ReturnRow]
      /\ \A x \in Returns : returns'[x] = NoReturn \/ returns'[x].status # "ABSENT"
  <2>1. Moved(w).status # "ABSENT"
    BY ReturnMoved
  <2> QED BY <2>1, ReturnMoved, ReturnSet
<1>2. approvedReturns' \subseteq Returns
  BY ReturnMoved, TypedControls DEF ReturnSave
<1>3. Jobs'
  BY Responded, TypedPapers DEF ReturnSave
<1> QED BY <1>1, <1>2, <1>3, TypedControls, ControlsKept DEF ReturnSave, budgetVars

LEMMA SetPeriodTyped ==
  ASSUME Typed, NEW w \in Workers, SetPeriod(w)
  PROVE  Typed'
<1>1. periods' \in [Periods -> {"OPEN", "CLOSED", "LOCKED"}]
  BY TypedControls DEF SetPeriod
<1>2. Jobs'
  BY TypedPapers DEF SetPeriod, Jobs
<1> QED BY <1>1, <1>2, TypedControls, ControlsKept DEF SetPeriod, budgetVars, returnVars

LEMMA TypedInit == ControlsInit => Typed
<1> SUFFICES ASSUME ControlsInit PROVE Typed
  OBVIOUS
<1>1. /\ papers = [d \in Documents |-> Absent] /\ lines = [d \in Documents |-> 0]
      /\ ledger = [d \in Documents |-> <<>>] /\ account = 0
      /\ job = [w \in Workers |-> Idle]
      /\ \E x \in Starts : clients = x.kinds /\ overlap = x.overlap
  BY DEF ControlsInit, AllInit, Init, LedgerInit
<1>2. LedgerTypes
  <2>1. \A d \in Documents : "ABSENT" \in StatusesOf(d)
    BY DEF StatusesOf
  <2>2. Absent = [status |-> "ABSENT", total |-> 0, paid |-> 0, from |-> "none"]
    BY DEF Absent
  <2>3. \A d \in Documents : Absent \in PaperRow
    BY <2>1, <2>2 DEF PaperRow
  <2>4. papers \in [Documents -> PaperRow] /\ \A d \in Documents : papers[d].status \in StatusesOf(d)
    BY <1>1, <2>1, <2>2, <2>3
  <2>5. clients \in {x.kinds : x \in Starts} /\ overlap \in BOOLEAN
    BY <1>1, LedgerAssumption
  <2>6. lines \in [Documents -> 0..MaxLines] /\ account \in Int
        /\ ledger \in [Documents -> Seq([key : 0..MaxLines, amount : Int])]
    BY <1>1, MaxLinesPositive
  <2> QED BY <2>4, <2>5, <2>6 DEF LedgerTypes, PaperRow
<1>3. TypeOK
  BY <1>2, FinanceAssumption DEF ControlsInit, AllInit, Init, TypeOK, NoPayment, NoVoucher
<1>4. AllTypeOK
  BY <1>3 DEF ControlsInit, AllInit, AllTypeOK, NoAsset
<1>5. ControlsTypeOK
  <2>1. NoBudget \in BudgetRow /\ NoReturn \in ReturnRow /\ NoRevision \in RevisionRow
    BY DEF NoBudget, BudgetRow, BudgetStatuses, NoReturn, ReturnRow, ReturnStatuses, ReturnTypes,
           NoRevision, RevisionRow, Scopes, PaymentStatuses
  <2>2. 0 \in 0..MaxBudgetLines
    BY MaxBudgetLinesPositive
  <2> QED
    BY <1>4, <2>1, <2>2 DEF ControlsInit, ControlsTypeOK, BudgetRow, ReturnRow, RevisionRow
<1>6. Jobs
  BY <1>1, IdleShape DEF Jobs
<1>7. RowsMeant
  BY <1>1 DEF RowsMeant, ControlsInit, Present, Absent, Documents
<1> QED BY <1>5, <1>6, <1>7 DEF Typed

LEMMA TypedStep == Typed /\ [ControlsNext]_controlsVars => Typed'
<1> SUFFICES ASSUME Typed, [ControlsNext]_controlsVars PROVE Typed'
  OBVIOUS
<1>1. CASE UNCHANGED controlsVars
  <2>1. Jobs'
    BY <1>1, TypedPapers DEF controlsVars, allVars, vars, Jobs
  <2> QED BY <1>1, <2>1, LoadKept DEF controlsVars, allVars, vars, Rest
<1>2. CASE AllNext /\ UNCHANGED controls
  BY <1>2, FinanceStepTyped, AssetStepTyped DEF AllNext
<1>3. CASE \E w \in Workers : BudgetStep(w) \/ ReturnStep(w) \/ SetPeriod(w)
  <2>1. PICK w \in Workers : BudgetStep(w) \/ ReturnStep(w) \/ SetPeriod(w)
    BY <1>3
  <2>2. CASE BudgetStep(w)
    BY <2>2, CreateBudgetTyped, EditBudgetLoadTyped, EditBudgetSaveTyped, DeleteBudgetTyped,
       BudgetLoadTyped, BudgetSaveTyped, CreateRevisionTyped, DeleteRevisionTyped,
       RevisionLoadTyped, SubmitRevisionTyped, ApproveRevisionTyped DEF BudgetStep
  <2>3. CASE ReturnStep(w)
    BY <2>3, CreateReturnTyped, PrepareSalesTyped, PrepareReturnTyped, DeleteReturnTyped,
       EditReturnLoadTyped, EditReturnSaveTyped, ReturnLoadTyped, ReturnSaveTyped DEF ReturnStep
  <2> QED BY <2>1, <2>2, <2>3, SetPeriodTyped
<1> QED BY <1>1, <1>2, <1>3 DEF ControlsNext

----
(* Whose turn it is. *)

\* With requests one at a time, a worker that has begun finds all others idle.
Alone(w) == overlap \/ \A v \in Others(w) : At(v, "idle")
Serial == \A w \in Workers : At(w, "idle") \/ Alone(w)

\* A step of worker w changes its own request only, and is alone.
Turn(w) ==
  /\ job' = [job EXCEPT ![w] = job'[w]]
  /\ clients' = clients /\ overlap' = overlap
  /\ Alone(w)

LEMMA TurnSilent ==
  ASSUME Jobs, NEW w \in Workers, NEW kind, Takes(w, kind), job' = job,
         clients' = clients, overlap' = overlap
  PROVE  Turn(w)
BY DEF Turn, Takes, Alone, Jobs

LEMMA TurnTaken ==
  ASSUME Jobs, NEW w \in Workers, NEW kind, Takes(w, kind), NEW j, Becomes(w, j),
         clients' = clients, overlap' = overlap
  PROVE  Turn(w)
BY DEF Turn, Takes, Alone, Jobs, Becomes

LEMMA TurnGoes ==
  ASSUME Jobs, Serial, NEW w \in Workers, ~At(w, "idle"), NEW j, Becomes(w, j),
         clients' = clients, overlap' = overlap
  PROVE  Turn(w)
BY DEF Turn, Serial, Jobs, Becomes

LEMMA SerialKept ==
  ASSUME Jobs, Serial, NEW w \in Workers, Turn(w)
  PROVE  Serial'
<1>1. ASSUME NEW v \in Workers, v # w PROVE job'[v] = job[v]
  BY <1>1 DEF Turn, Jobs
<1>2. CASE overlap
  BY <1>2 DEF Serial, Alone, Turn
<1>3. CASE ~overlap
  <2>1. \A v \in Others(w) : At(v, "idle")
    BY <1>3 DEF Turn, Alone
  <2>2. \A v \in Others(w) : At(v, "idle")'
    BY <1>1, <2>1 DEF Others, At
  <2> QED BY <2>2 DEF Serial, Alone, Others
<1> QED BY <1>2, <1>3

LEMMA LedgerTurn ==
  ASSUME Jobs, Serial, NEW w \in Workers, NEW protected, LedgerStep(w, protected)
  PROVE  Turn(w)
<1>1. CASE CreateDocument(w)
  BY <1>1, TurnSilent DEF CreateDocument
<1>2. CASE EditLoad(w)
  BY <1>2, TurnTaken DEF EditLoad
<1>3. CASE EditSave(w)
  BY <1>3, TurnGoes DEF EditSave, Respond, At
<1>4. CASE DeleteLoad(w)
  BY <1>4, TurnTaken DEF DeleteLoad
<1>5. CASE DeleteSave(w, protected)
  BY <1>5, TurnGoes DEF DeleteSave, Respond, At
<1>6. CASE StatusLoad(w)
  BY <1>6, TurnTaken DEF StatusLoad
<1>7. CASE StatusSave(w)
  BY <1>7, TurnGoes DEF StatusSave, Respond, At
<1>8. CASE PostLoad(w)
  BY <1>8, TurnTaken DEF PostLoad
<1>9. CASE PostRead(w)
  BY <1>9, TurnGoes DEF PostRead, Respond, At
<1>10. CASE ReverseLoad(w)
  BY <1>10, TurnTaken DEF ReverseLoad
<1>11. CASE ReverseRead(w)
  BY <1>11, TurnGoes DEF ReverseRead, Respond, At
<1>12. CASE PostCommit(w)
  BY <1>12, TurnGoes DEF PostCommit, Respond, At
<1> QED
  BY <1>1, <1>2, <1>3, <1>4, <1>5, <1>6, <1>7, <1>8, <1>9, <1>10, <1>11, <1>12 DEF LedgerStep

LEMMA MoneyTurn ==
  ASSUME Jobs, Serial, NEW w \in Workers, MoneyStep(w)
  PROVE  Turn(w)
<1>1. CASE PayLoad(w)
  BY <1>1, TurnTaken DEF PayLoad
<1>2. CASE PayCommit(w)
  BY <1>2, TurnGoes DEF PayCommit, Respond, At
<1>3. CASE DeletePayment(w)
  BY <1>3, TurnSilent DEF DeletePayment
<1>4. CASE TransactLoad(w)
  BY <1>4, TurnTaken DEF TransactLoad
<1>5. CASE Transact(w)
  BY <1>5, TurnGoes DEF Transact, Respond, At
<1>6. CASE ChangeVoucher(w)
  BY <1>6, TurnSilent DEF ChangeVoucher
<1>7. CASE TransferLoad(w)
  BY <1>7, TurnTaken DEF TransferLoad
<1>8. CASE Transfer(w)
  BY <1>8, TurnGoes DEF Transfer, Respond, At
<1>9. CASE AccountLoad(w)
  BY <1>9, TurnTaken DEF AccountLoad
<1>10. CASE AccountSave(w)
  BY <1>10, TurnGoes DEF AccountSave, Respond, At
<1>11. CASE ReceiveUnapplied(w)
  BY <1>11, TurnSilent DEF ReceiveUnapplied
<1>12. CASE EditPaymentLoad(w)
  BY <1>12, TurnTaken DEF EditPaymentLoad
<1>13. CASE EditPaymentSave(w)
  BY <1>13, TurnGoes DEF EditPaymentSave, Respond, At
<1> QED
  BY <1>1, <1>2, <1>3, <1>4, <1>5, <1>6, <1>7, <1>8, <1>9, <1>10, <1>11, <1>12, <1>13 DEF MoneyStep

LEMMA AssetTurn ==
  ASSUME Jobs, Serial, NEW w \in Workers, AssetStep(w)
  PROVE  Turn(w)
<1>1. CASE CreateAsset(w)
  BY <1>1, TurnSilent DEF CreateAsset
<1>2. CASE AssetLoad(w)
  BY <1>2, TurnTaken DEF AssetLoad
<1>3. CASE AssetSave(w)
  BY <1>3, TurnGoes DEF AssetSave, Respond, At
<1>4. CASE DeleteAsset(w)
  BY <1>4, TurnSilent DEF DeleteAsset
<1>5. CASE PeriodLoad(w)
  BY <1>5, TurnTaken DEF PeriodLoad
<1>6. CASE PeriodRow(w)
  BY <1>6, TurnGoes DEF PeriodRow, Respond, At
<1>7. CASE PeriodSave(w)
  BY <1>7, TurnGoes DEF PeriodSave, Respond, At
<1>8. CASE PeriodCommit(w)
  BY <1>8, TurnGoes DEF PeriodCommit, Respond, At
<1> QED BY <1>1, <1>2, <1>3, <1>4, <1>5, <1>6, <1>7, <1>8 DEF AssetStep

LEMMA BudgetTurn ==
  ASSUME Jobs, Serial, NEW w \in Workers, BudgetStep(w)
  PROVE  Turn(w)
<1>1. CASE CreateBudget(w)
  BY <1>1, TurnSilent DEF CreateBudget, Elsewhere
<1>2. CASE EditBudgetLoad(w)
  BY <1>2, TurnTaken DEF EditBudgetLoad, Elsewhere
<1>3. CASE EditBudgetSave(w)
  BY <1>3, TurnGoes DEF EditBudgetSave, Respond, At, Elsewhere
<1>4. CASE DeleteBudget(w)
  BY <1>4, TurnSilent DEF DeleteBudget, Elsewhere
<1>5. CASE BudgetLoad(w)
  BY <1>5, TurnTaken DEF BudgetLoad, Elsewhere
<1>6. CASE BudgetSave(w)
  BY <1>6, TurnGoes DEF BudgetSave, Respond, At, Elsewhere
<1>7. CASE CreateRevision(w)
  BY <1>7, TurnSilent DEF CreateRevision, Elsewhere
<1>8. CASE DeleteRevision(w)
  BY <1>8, TurnSilent DEF DeleteRevision, Elsewhere
<1>9. CASE RevisionLoad(w)
  BY <1>9, TurnTaken DEF RevisionLoad, Elsewhere
<1>10. CASE SubmitRevision(w)
  BY <1>10, TurnGoes DEF SubmitRevision, Respond, At, Elsewhere
<1>11. CASE ApproveRevision(w)
  BY <1>11, TurnGoes DEF ApproveRevision, Respond, At, Elsewhere
<1> QED BY <1>1, <1>2, <1>3, <1>4, <1>5, <1>6, <1>7, <1>8, <1>9, <1>10, <1>11 DEF BudgetStep

LEMMA ReturnTurn ==
  ASSUME Jobs, Serial, NEW w \in Workers, ReturnStep(w)
  PROVE  Turn(w)
<1>1. CASE CreateReturn(w)
  BY <1>1, TurnSilent DEF CreateReturn, Elsewhere
<1>2. CASE PrepareSales(w)
  BY <1>2, TurnTaken DEF PrepareSales, Elsewhere
<1>3. CASE PrepareReturn(w)
  BY <1>3, TurnGoes DEF PrepareReturn, Respond, At, Elsewhere
<1>4. CASE DeleteReturn(w)
  BY <1>4, TurnSilent DEF DeleteReturn, Elsewhere
<1>5. CASE EditReturnLoad(w)
  BY <1>5, TurnTaken DEF EditReturnLoad, Elsewhere
<1>6. CASE EditReturnSave(w)
  BY <1>6, TurnGoes DEF EditReturnSave, Respond, At, Elsewhere
<1>7. CASE ReturnLoad(w)
  BY <1>7, TurnTaken DEF ReturnLoad, Elsewhere
<1>8. CASE ReturnSave(w)
  BY <1>8, TurnGoes DEF ReturnSave, Respond, At, Elsewhere
<1> QED BY <1>1, <1>2, <1>3, <1>4, <1>5, <1>6, <1>7, <1>8 DEF ReturnStep

LEMMA OtherTurn ==
  ASSUME Jobs, Serial, NEW w \in Workers, Abort(w) \/ SetPeriod(w)
  PROVE  Turn(w)
<1>1. CASE Abort(w)
  BY <1>1, TurnGoes DEF Abort, Respond
<1>2. CASE SetPeriod(w)
  BY <1>2, TurnSilent DEF SetPeriod, Elsewhere
<1> QED BY <1>1, <1>2

----
(* Where a step takes its worker. *)

PaperSteps == {"edit", "delete", "status", "post", "reverse", "booking"}
MoneySteps == {"pay", "edit_payment", "transact", "transfer", "account"}
AssetSteps == {"asset", "period", "period_row"}
ControlSteps ==
  {"edit_budget", "budget", "submit_revision", "approve_revision", "prepare", "edit_return",
   "return"}

LEMMA LedgerLeads ==
  ASSUME Jobs, NEW w \in Workers, NEW protected, LedgerStep(w, protected)
  PROVE  job'[w].step \in PaperSteps \union {"idle"}
<1>1. CASE CreateDocument(w)
  BY <1>1 DEF CreateDocument, Takes, At
<1>2. CASE EditLoad(w)
  BY <1>2 DEF EditLoad, Becomes, Jobs, PaperSteps
<1>3. CASE EditSave(w)
  BY <1>3 DEF EditSave, Respond, Becomes, Jobs, Idle
<1>4. CASE DeleteLoad(w)
  BY <1>4 DEF DeleteLoad, Becomes, Jobs, PaperSteps
<1>5. CASE DeleteSave(w, protected)
  BY <1>5 DEF DeleteSave, Respond, Becomes, Jobs, Idle
<1>6. CASE StatusLoad(w)
  BY <1>6 DEF StatusLoad, Becomes, Jobs, PaperSteps
<1>7. CASE StatusSave(w)
  BY <1>7 DEF StatusSave, Respond, Becomes, Jobs, Idle
<1>8. CASE PostLoad(w)
  BY <1>8 DEF PostLoad, Becomes, Jobs, PaperSteps
<1>9. CASE PostRead(w)
  BY <1>9 DEF PostRead, Becomes, Jobs, PaperSteps
<1>10. CASE ReverseLoad(w)
  BY <1>10 DEF ReverseLoad, Becomes, Jobs, PaperSteps
<1>11. CASE ReverseRead(w)
  BY <1>11 DEF ReverseRead, Becomes, Jobs, PaperSteps
<1>12. CASE PostCommit(w)
  BY <1>12 DEF PostCommit, Respond, Becomes, Jobs, Idle
<1> QED
  BY <1>1, <1>2, <1>3, <1>4, <1>5, <1>6, <1>7, <1>8, <1>9, <1>10, <1>11, <1>12 DEF LedgerStep

LEMMA MoneyLeads ==
  ASSUME Jobs, NEW w \in Workers, MoneyStep(w)
  PROVE  job'[w].step \in MoneySteps \union {"idle"}
<1>1. CASE PayLoad(w)
  BY <1>1 DEF PayLoad, Becomes, Jobs, MoneySteps
<1>2. CASE PayCommit(w)
  BY <1>2 DEF PayCommit, Respond, Becomes, Jobs, Idle
<1>3. CASE DeletePayment(w)
  BY <1>3 DEF DeletePayment, Takes, At
<1>4. CASE TransactLoad(w)
  BY <1>4 DEF TransactLoad, Becomes, Jobs, MoneySteps
<1>5. CASE Transact(w)
  BY <1>5 DEF Transact, Respond, Becomes, Jobs, Idle
<1>6. CASE ChangeVoucher(w)
  BY <1>6 DEF ChangeVoucher, Takes, At
<1>7. CASE TransferLoad(w)
  BY <1>7 DEF TransferLoad, Becomes, Jobs, MoneySteps
<1>8. CASE Transfer(w)
  BY <1>8 DEF Transfer, Respond, Becomes, Jobs, Idle
<1>9. CASE AccountLoad(w)
  BY <1>9, AccountAsked DEF Becomes, Jobs, MoneySteps
<1>10. CASE AccountSave(w)
  BY <1>10 DEF AccountSave, Respond, Becomes, Jobs, Idle
<1>11. CASE ReceiveUnapplied(w)
  BY <1>11 DEF ReceiveUnapplied, Takes, At
<1>12. CASE EditPaymentLoad(w)
  BY <1>12 DEF EditPaymentLoad, Becomes, Jobs, MoneySteps
<1>13. CASE EditPaymentSave(w)
  BY <1>13 DEF EditPaymentSave, Respond, Becomes, Jobs, Idle
<1> QED
  BY <1>1, <1>2, <1>3, <1>4, <1>5, <1>6, <1>7, <1>8, <1>9, <1>10, <1>11, <1>12, <1>13 DEF MoneyStep

LEMMA AssetLeads ==
  ASSUME Jobs, NEW w \in Workers, AssetStep(w)
  PROVE  job'[w].step \in AssetSteps \union {"idle"}
<1>1. CASE CreateAsset(w)
  BY <1>1 DEF CreateAsset, Takes, At
<1>2. CASE AssetLoad(w)
  BY <1>2 DEF AssetLoad, Becomes, Jobs, AssetSteps
<1>3. CASE AssetSave(w)
  BY <1>3 DEF AssetSave, Respond, Becomes, Jobs, Idle
<1>4. CASE DeleteAsset(w)
  BY <1>4 DEF DeleteAsset, Takes, At
<1>5. CASE PeriodLoad(w)
  BY <1>5 DEF PeriodLoad, Becomes, Jobs, AssetSteps
<1>6. CASE PeriodRow(w)
  <2>1. \A j : Becomes(w, j) => job'[w] = j
    BY DEF Becomes, Jobs
  <2>2. job[w].step = "period"
    BY <1>6 DEF PeriodRow, At
  <2>3. \A left : [job[w] EXCEPT !.left = left].step = "period"
    <3>1. "step" \in DOMAIN job[w]
      BY <2>2 DEF Jobs, JobShape, AssetShape
    <3> QED BY <2>2, <3>1
  <2>4. CASE ~Missing(FirstOf(job[w].left).asset, job[w].period)
    <3>1. Becomes(w, [job[w] EXCEPT !.left = job[w].left \ {FirstOf(job[w].left)}])
      BY <1>6, <2>4 DEF PeriodRow
    <3>2. job'[w] = [job[w] EXCEPT !.left = job[w].left \ {FirstOf(job[w].left)}]
      BY <2>1, <3>1
    <3> QED BY <2>3, <3>2 DEF AssetSteps
  <2>5. CASE Missing(FirstOf(job[w].left).asset, job[w].period)
    <3>1. PICK j : Becomes(w, j) /\ j.step = "period_row"
      BY <1>6, <2>5 DEF PeriodRow
    <3> QED BY <2>1, <3>1 DEF AssetSteps
  <2> QED BY <2>4, <2>5
<1>7. CASE PeriodSave(w)
  BY <1>7 DEF PeriodSave, Becomes, Jobs, AssetSteps
<1>8. CASE PeriodCommit(w)
  BY <1>8 DEF PeriodCommit, Respond, Becomes, Jobs, Idle
<1> QED BY <1>1, <1>2, <1>3, <1>4, <1>5, <1>6, <1>7, <1>8 DEF AssetStep

LEMMA BudgetLeads ==
  ASSUME Jobs, NEW w \in Workers, BudgetStep(w)
  PROVE  job'[w].step \in ControlSteps \union {"idle"}
<1>1. CASE CreateBudget(w)
  BY <1>1 DEF CreateBudget, Takes, At
<1>2. CASE EditBudgetLoad(w)
  BY <1>2 DEF EditBudgetLoad, Becomes, Jobs, ControlSteps
<1>3. CASE EditBudgetSave(w)
  BY <1>3 DEF EditBudgetSave, Respond, Becomes, Jobs, Idle
<1>4. CASE DeleteBudget(w)
  BY <1>4 DEF DeleteBudget, Takes, At
<1>5. CASE BudgetLoad(w)
  BY <1>5 DEF BudgetLoad, Becomes, Jobs, ControlSteps
<1>6. CASE BudgetSave(w)
  BY <1>6 DEF BudgetSave, Respond, Becomes, Jobs, Idle
<1>7. CASE CreateRevision(w)
  BY <1>7 DEF CreateRevision, Takes, At
<1>8. CASE DeleteRevision(w)
  BY <1>8 DEF DeleteRevision, Takes, At
<1>9. CASE RevisionLoad(w)
  BY <1>9 DEF RevisionLoad, Becomes, Jobs, ControlSteps
<1>10. CASE SubmitRevision(w)
  BY <1>10 DEF SubmitRevision, Respond, Becomes, Jobs, Idle
<1>11. CASE ApproveRevision(w)
  BY <1>11 DEF ApproveRevision, Respond, Becomes, Jobs, Idle
<1> QED BY <1>1, <1>2, <1>3, <1>4, <1>5, <1>6, <1>7, <1>8, <1>9, <1>10, <1>11 DEF BudgetStep

LEMMA ReturnLeads ==
  ASSUME Jobs, NEW w \in Workers, ReturnStep(w)
  PROVE  job'[w].step \in ControlSteps \union {"idle"}
<1>1. CASE CreateReturn(w)
  BY <1>1 DEF CreateReturn, Takes, At
<1>2. CASE PrepareSales(w)
  BY <1>2 DEF PrepareSales, Becomes, Jobs, ControlSteps
<1>3. CASE PrepareReturn(w)
  BY <1>3 DEF PrepareReturn, Respond, Becomes, Jobs, Idle
<1>4. CASE DeleteReturn(w)
  BY <1>4 DEF DeleteReturn, Takes, At
<1>5. CASE EditReturnLoad(w)
  BY <1>5 DEF EditReturnLoad, Becomes, Jobs, ControlSteps
<1>6. CASE EditReturnSave(w)
  BY <1>6 DEF EditReturnSave, Respond, Becomes, Jobs, Idle
<1>7. CASE ReturnLoad(w)
  BY <1>7 DEF ReturnLoad, Becomes, Jobs, ControlSteps
<1>8. CASE ReturnSave(w)
  BY <1>8 DEF ReturnSave, Respond, Becomes, Jobs, Idle
<1> QED BY <1>1, <1>2, <1>3, <1>4, <1>5, <1>6, <1>7, <1>8 DEF ReturnStep

LEMMA OtherLeads ==
  ASSUME Jobs, NEW w \in Workers, Abort(w) \/ SetPeriod(w)
  PROVE  job'[w].step = "idle"
<1>1. CASE Abort(w)
  BY <1>1 DEF Abort, Respond, Becomes, Jobs, Idle
<1>2. CASE SetPeriod(w)
  BY <1>2 DEF SetPeriod, Takes, At
<1> QED BY <1>1, <1>2

\* Every step of the system is one worker's turn.
LEMMA SomeTurn ==
  ASSUME Typed, Serial, ControlsNext
  PROVE  \E w \in Workers :
           /\ Turn(w)
           /\ \/ /\ Paper(w) /\ job'[w].step \in PaperSteps \union {"idle"}
                 /\ UNCHANGED <<assetVars, controls>>
              \/ /\ MoneyStep(w) /\ job'[w].step \in MoneySteps \union {"idle"}
                 /\ UNCHANGED <<assetVars, controls>>
              \/ /\ AssetStep(w) /\ job'[w].step \in AssetSteps \union {"idle"}
                 /\ UNCHANGED <<documents, money, controls>>
              \/ /\ BudgetStep(w) /\ job'[w].step \in ControlSteps \union {"idle"}
                 /\ UNCHANGED <<documents, money, assetVars, returnVars, periods>>
              \/ /\ ReturnStep(w) /\ job'[w].step \in ControlSteps \union {"idle"}
                 /\ UNCHANGED <<documents, money, assetVars, budgetVars, periods>>
              \/ /\ SetPeriod(w) /\ job'[w].step = "idle"
                 /\ UNCHANGED <<documents, money, assetVars, budgetVars, returnVars>>
              \/ /\ Abort(w) /\ job'[w].step = "idle"
                 /\ UNCHANGED <<documents, money, assetVars, controls>>
<1>1. CASE Next /\ UNCHANGED <<assetVars, controls>>
  <2>1. PICK w \in Workers : Paper(w) \/ MoneyStep(w) \/ Abort(w)
    BY <1>1 DEF Next
  <2>2. CASE Paper(w)
    <3>1. LedgerStep(w, Paid)
      BY <2>2 DEF Paper
    <3>2. Turn(w) /\ job'[w].step \in PaperSteps \union {"idle"}
      BY <3>1, TypedPapers, LedgerTurn, LedgerLeads
    <3> QED BY <1>1, <2>2, <3>2
  <2>3. CASE MoneyStep(w)
    BY <1>1, <2>3, TypedPapers, MoneyTurn, MoneyLeads
  <2>4. CASE Abort(w)
    <3>1. UNCHANGED <<documents, money>>
      BY <2>4 DEF Abort
    <3> QED BY <1>1, <2>4, <3>1, TypedPapers, OtherTurn, OtherLeads
  <2> QED BY <2>1, <2>2, <2>3, <2>4
<1>2. ASSUME NEW w \in Workers, AssetStep(w), UNCHANGED controls
      PROVE  UNCHANGED <<documents, money>>
  BY <1>2 DEF AssetStep, CreateAsset, AssetLoad, AssetSave, DeleteAsset, PeriodLoad, PeriodRow,
              PeriodSave, PeriodCommit
<1>3. CASE \E w \in Workers : AssetStep(w) /\ UNCHANGED controls
  BY <1>2, <1>3, TypedPapers, AssetTurn, AssetLeads
<1>4. ASSUME NEW w \in Workers, BudgetStep(w)
      PROVE  UNCHANGED <<documents, money, assetVars, returnVars, periods>>
  BY <1>4 DEF BudgetStep, CreateBudget, EditBudgetLoad, EditBudgetSave, DeleteBudget, BudgetLoad,
              BudgetSave, CreateRevision, DeleteRevision, RevisionLoad, SubmitRevision,
              ApproveRevision, Elsewhere, controls, returnVars
<1>5. ASSUME NEW w \in Workers, ReturnStep(w)
      PROVE  UNCHANGED <<documents, money, assetVars, budgetVars, periods>>
  BY <1>5 DEF ReturnStep, CreateReturn, PrepareSales, PrepareReturn, DeleteReturn, EditReturnLoad,
              EditReturnSave, ReturnLoad, ReturnSave, Elsewhere, controls, budgetVars
<1>6. ASSUME NEW w \in Workers, SetPeriod(w)
      PROVE  UNCHANGED <<documents, money, assetVars, budgetVars, returnVars>>
  BY <1>6 DEF SetPeriod, Elsewhere
<1>7. CASE \E w \in Workers : BudgetStep(w)
  BY <1>4, <1>7, TypedPapers, BudgetTurn, BudgetLeads
<1>8. CASE \E w \in Workers : ReturnStep(w)
  BY <1>5, <1>8, TypedPapers, ReturnTurn, ReturnLeads
<1>9. CASE \E w \in Workers : SetPeriod(w)
  BY <1>6, <1>9, TypedPapers, OtherTurn, OtherLeads
<1> QED BY <1>1, <1>3, <1>7, <1>8, <1>9 DEF ControlsNext, AllNext

----
(* Posting.                                                                *)
(*                                                                         *)
(* An entry of an invoice or bill has key 0, and so has an entry of a      *)
(* journal key 1 as long as nobody edits journals: the unique key then     *)
(* stops a second posting.  One request at a time, a journal is posted     *)
(* from APPROVED, which no journal with entries is.                        *)

\* What a request knows of the entries of its documents.
KnowsEntries(j) ==
  /\ j.step = "edit" => "edit" \in clients
  /\ j.step = "reverse" => ledger[j.source] # <<>>
  /\ j.step = "booking" =>
       /\ j.source # "none" => ledger[j.source] # <<>>
       /\ j.document \notin Journals => j.key = 0
       /\ j.document \in Journals /\ "edit" \notin clients => j.key = 1
  /\ j.step = "pay" => ledger[j.document] # <<>>

Entries ==
  /\ \A d \in Documents : papers[d].status \in Accounted => ledger[d] # <<>>
  /\ \A d \in Documents \ Journals : \A n \in DOMAIN ledger[d] : ledger[d][n].key = 0
  /\ "edit" \notin clients => \A d \in Journals :
       /\ Present(d) => lines[d] = 1
       /\ \A n \in DOMAIN ledger[d] : ledger[d][n].key = 1
  /\ \A d \in Documents : (d \in Journals /\ "edit" \in clients /\ overlap) \/ Len(ledger[d]) <= 1

\* One request at a time: journals with entries stay posted or reversed, and the
\* reversed ones have one reversal.
Reversals ==
  /\ \A d \in Journals : ledger[d] # <<>> => papers[d].status \in {"POSTED", "REVERSED"}
  /\ \A r, j \in Journals : papers[r].from = j => papers[j].status = "REVERSED"
  /\ \A r, s, j \in Journals : papers[r].from = j /\ papers[s].from = j => r = s

\* One request at a time, what a request has read still holds.
Current(j) ==
  /\ j.step = "edit" =>
       /\ j.document \in Journals => papers[j.document].status \in {"DRAFT", "REJECTED"}
       /\ j.row.from = papers[j.document].from
  /\ j.step = "delete" =>
       (j.document \in Journals => papers[j.document].status \in {"DRAFT", "REJECTED"})
  /\ j.step = "status" =>
       (j.document \in Journals =>
          papers[j.document].status \in {"DRAFT", "REJECTED", "PENDING_APPROVAL"})
  /\ j.step = "post" => (j.document \in Journals => papers[j.document].status = "APPROVED")
  /\ j.step = "reverse" => papers[j.source].status = "POSTED"
  /\ j.step = "booking" =>
       /\ j.source = "none" /\ j.document \in Journals => papers[j.document].status = "APPROVED"
       /\ j.source # "none" =>
            /\ papers[j.source].status = "POSTED"
            /\ ledger[j.document] = <<>> /\ ~Present(j.document)

PostingSound ==
  /\ Entries
  /\ \A w \in Workers : KnowsEntries(job[w])
  /\ ~overlap => Reversals /\ \A w \in Workers : Current(job[w])

\* A step that leaves the documents alone.
LEMMA PostingRead ==
  ASSUME Jobs, PostingSound, NEW w \in Workers, Turn(w), UNCHANGED documents,
         KnowsEntries(job'[w]), ~overlap => Current(job'[w])
  PROVE  PostingSound'
<1>1. Entries' /\ (~overlap => Reversals')
  BY DEF PostingSound, Entries, Reversals, documents, Turn, Present
<1>2. \A v \in Workers : v # w => job'[v] = job[v]
  BY DEF Turn, Jobs
<1>3. \A v \in Workers : KnowsEntries(job'[v])
  BY <1>2 DEF PostingSound
<1>4. \A v \in Workers : KnowsEntries(job[v])'
  BY <1>3 DEF KnowsEntries, documents, Turn
<1>5. ~overlap => \A v \in Workers : Current(job'[v])
  BY <1>2 DEF PostingSound
<1>6. ~overlap => \A v \in Workers : Current(job[v])'
  BY <1>5 DEF Current, documents, Present
<1> QED BY <1>1, <1>4, <1>6 DEF PostingSound, Turn

\* A step that changes documents, after which its worker is idle.
LEMMA PostingSaved ==
  ASSUME Jobs, PostingSound, NEW w \in Workers, Turn(w), job'[w].step \notin
           {"edit", "delete", "status", "post", "reverse", "booking", "pay"},
         Entries', ~overlap => Reversals',
         \A d \in Documents : ledger[d] # <<>> => ledger'[d] # <<>>
  PROVE  PostingSound'
<1>1. \A v \in Workers : v # w => job'[v] = job[v]
  BY DEF Turn, Jobs
<1>2. ASSUME NEW v \in Workers PROVE KnowsEntries(job[v])'
  <2>1. CASE v = w
    BY <2>1 DEF KnowsEntries
  <2>2. CASE v # w
    <3>1. job'[v] = job[v] /\ KnowsEntries(job[v]) /\ PaperShape(job[v]) /\ MoneyShape(job[v])
      BY <1>1, <2>2 DEF PostingSound, Jobs, JobShape
    <3> QED BY <3>1 DEF KnowsEntries, PaperShape, MoneyShape, Turn, Documents
  <2> QED BY <2>1, <2>2
<1>3. ASSUME ~overlap, NEW v \in Workers PROVE Current(job[v])'
  <2>1. CASE v = w
    BY <2>1 DEF Current
  <2>2. CASE v # w
    <3>1. job'[v].step = "idle"
      BY <1>1, <1>3, <2>2 DEF Turn, Alone, Others, At
    <3> QED BY <3>1 DEF Current
  <2> QED BY <2>1, <2>2
<1> QED BY <1>2, <1>3 DEF PostingSound, Turn

LEMMA CreateDocumentPosting ==
  ASSUME Typed, PostingSound, NEW w \in Workers, CreateDocument(w), Turn(w)
  PROVE  PostingSound'
<1>1. PICK d \in Documents, total \in Totals :
        /\ NewKey(d)
        /\ papers' = [papers EXCEPT ![d] = Drafted(total)]
        /\ lines' = [lines EXCEPT ![d] = 1]
  BY DEF CreateDocument
<1>2. ledger' = ledger /\ job' = job /\ At(w, "idle") /\ ledger[d] = <<>> /\ ~Present(d)
  BY <1>1 DEF CreateDocument, Takes, NewKey
<1>3. Drafted(total).status = "DRAFT" /\ Drafted(total).from = "none"
  BY DEF Drafted, Absent
<1>4. papers'[d].status = "DRAFT" /\ papers'[d].from = "none"
      /\ lines'[d] = 1 /\ \A x \in Documents \ {d} : papers'[x] = papers[x] /\ lines'[x] = lines[x]
  BY <1>1, <1>3, TypedPapers DEF PapersTyped
<1>5. Entries'
  BY <1>2, <1>4 DEF PostingSound, Entries, Accounted, Turn, Present, Documents
<1>6. ASSUME ~overlap PROVE Reversals'
  <2>1. Reversals
    BY <1>6 DEF PostingSound
  <2>2. "none" \notin Journals /\ Journals \subseteq Documents
    BY LedgerAssumption DEF Documents
  <2> QED BY <1>2, <1>4, <2>1, <2>2 DEF Reversals, Present
<1>7. job'[w].step = "idle"
  BY <1>2 DEF At
<1> QED BY <1>2, <1>5, <1>6, <1>7, TypedPapers, PostingSaved

LEMMA EditLoadPosting ==
  ASSUME Typed, PostingSound, NEW w \in Workers, EditLoad(w), Turn(w)
  PROVE  PostingSound'
<1>1. PICK d \in Documents, total \in Totals :
        /\ Editable(d)
        /\ Becomes(w, [step |-> "edit", document |-> d, row |-> [papers[d] EXCEPT !.total = total]])
  BY DEF EditLoad
<1> DEFINE row == [papers[d] EXCEPT !.total = total]
<1>2. row.from = papers[d].from
  BY TypedPapers DEF PapersTyped, PaperRow
<1> HIDE DEF row
<1>3. job'[w] = [step |-> "edit", document |-> d, row |-> row]
  BY <1>1, TypedPapers DEF Becomes, Jobs, row
<1>4. "edit" \in clients
  BY DEF EditLoad, Takes
<1>5. d \in Journals => papers[d].status \in {"DRAFT", "REJECTED"}
  BY <1>1, LedgerAssumption DEF Editable
<1>6. KnowsEntries(job'[w]) /\ Current(job'[w])
  BY <1>2, <1>3, <1>4, <1>5 DEF KnowsEntries, Current
<1> QED BY <1>6, TypedPapers, PostingRead DEF EditLoad

LEMMA EditSavePosting ==
  ASSUME Typed, PostingSound, NEW w \in Workers, EditSave(w), Turn(w)
  PROVE  PostingSound'
<1> DEFINE d == job[w].document
<1>1. /\ d \in Documents /\ job[w].row.status \in {"DRAFT", "REJECTED"}
      /\ "edit" \in clients
  BY TypedPapers DEF EditSave, At, JobShape, PaperShape, PostingSound, KnowsEntries
<1>2. papers'[d] = job[w].row /\ ledger' = ledger /\ job'[w].step = "idle"
      /\ \A x \in Documents \ {d} : papers'[x] = papers[x]
  BY <1>1, TypedPapers DEF EditSave, PapersTyped, Respond, Becomes, Jobs, Idle
<1>3. Entries'
  BY <1>1, <1>2 DEF PostingSound, Entries, Accounted, Turn
<1>4. ASSUME ~overlap PROVE Reversals'
  <2>1. Reversals /\ job[w].row.from = papers[d].from
        /\ (d \in Journals => papers[d].status \in {"DRAFT", "REJECTED"})
    BY <1>4 DEF PostingSound, Current, EditSave, At
  <2> QED BY <1>2, <2>1 DEF Reversals, Documents
<1> QED BY <1>2, <1>3, <1>4, TypedPapers, PostingSaved

LEMMA DeleteLoadPosting ==
  ASSUME Typed, PostingSound, NEW w \in Workers, DeleteLoad(w), Turn(w)
  PROVE  PostingSound'
<1>1. PICK d \in Documents :
        /\ IF d \in Journals THEN Editable(d) ELSE Present(d)
        /\ Becomes(w, [step |-> "delete", document |-> d])
  BY DEF DeleteLoad
<1>2. job'[w] = [step |-> "delete", document |-> d]
  BY <1>1, TypedPapers DEF Becomes, Jobs
<1>3. d \in Journals => papers[d].status \in {"DRAFT", "REJECTED"}
  BY <1>1, LedgerAssumption DEF Editable
<1>4. KnowsEntries(job'[w]) /\ Current(job'[w])
  BY <1>2, <1>3 DEF KnowsEntries, Current
<1> QED BY <1>4, TypedPapers, PostingRead DEF DeleteLoad

LEMMA DeleteSavePosting ==
  ASSUME Typed, PostingSound, NEW w \in Workers, NEW protected, DeleteSave(w, protected), Turn(w)
  PROVE  PostingSound'
<1> DEFINE d == job[w].document
<1>1. d \in Documents
  BY TypedPapers DEF DeleteSave, At, JobShape, PaperShape
<1>2. /\ ledger' = ledger /\ lines' = lines /\ job'[w].step = "idle"
      /\ papers'[d].status = "ABSENT" /\ papers'[d].from = "none"
  BY <1>1, TypedPapers DEF DeleteSave, Respond, Becomes, Jobs, Idle, Absent
<1>3. ASSUME NEW x \in Documents, x # d
      PROVE  /\ papers'[x].status = papers[x].status
             /\ papers'[x].from = IF papers[x].from = d THEN "none" ELSE papers[x].from
  <2>1. papers[x] \in PaperRow
    BY TypedPapers DEF PapersTyped
  <2> QED BY <1>3, <2>1 DEF DeleteSave, PaperRow
<1>4. Entries'
  BY <1>2, <1>3 DEF PostingSound, Entries, Accounted, Turn, Present, Documents
<1>5. ASSUME ~overlap PROVE Reversals'
  <2>1. Reversals /\ (d \in Journals => papers[d].status \in {"DRAFT", "REJECTED"})
    BY <1>5 DEF PostingSound, Current, DeleteSave, At
  <2>2. "none" \notin Journals /\ Journals \subseteq Documents
    BY LedgerAssumption DEF Documents
  <2> QED BY <1>2, <1>3, <2>1, <2>2 DEF Reversals
<1> QED BY <1>2, <1>4, <1>5, TypedPapers, PostingSaved

LEMMA StatusLoadPosting ==
  ASSUME Typed, PostingSound, NEW w \in Workers, StatusLoad(w), Turn(w)
  PROVE  PostingSound'
<1>1. PICK move \in StatusMoves, d \in Documents :
        /\ papers[d].status \in move.from
        /\ Becomes(w, [step |-> "status", document |-> d, status |-> move.to])
  BY DEF StatusLoad
<1>2. job'[w] = [step |-> "status", document |-> d, status |-> move.to]
  BY <1>1, TypedPapers DEF Becomes, Jobs
<1>3. papers[d].status \in {"DRAFT", "REJECTED", "PENDING_APPROVAL"}
  BY <1>1 DEF StatusMoves
<1>4. KnowsEntries(job'[w]) /\ Current(job'[w])
  BY <1>2, <1>3 DEF KnowsEntries, Current
<1> QED BY <1>4, TypedPapers, PostingRead DEF StatusLoad

LEMMA StatusSavePosting ==
  ASSUME Typed, PostingSound, NEW w \in Workers, StatusSave(w), Turn(w)
  PROVE  PostingSound'
<1> DEFINE d == job[w].document
<1>1. d \in Documents /\ Present(d)
      /\ job[w].status \in {"PENDING_APPROVAL", "APPROVED", "REJECTED", "CANCELLED"}
  BY TypedPapers DEF StatusSave, At, JobShape, PaperShape
<1>2. papers[d] \in PaperRow
  BY <1>1, TypedPapers DEF PapersTyped
<1>3. /\ ledger' = ledger /\ lines' = lines /\ job'[w].step = "idle"
      /\ papers'[d].status = job[w].status /\ papers'[d].from = papers[d].from
      /\ \A x \in Documents \ {d} : papers'[x] = papers[x]
  BY <1>1, <1>2, TypedPapers DEF StatusSave, PapersTyped, PaperRow, Respond, Becomes, Jobs, Idle
<1>4. Entries'
  BY <1>1, <1>3 DEF PostingSound, Entries, Accounted, Turn, Present, Documents
<1>5. ASSUME ~overlap PROVE Reversals'
  <2>1. Reversals /\ (d \in Journals =>
                        papers[d].status \in {"DRAFT", "REJECTED", "PENDING_APPROVAL"})
    BY <1>5 DEF PostingSound, Current, StatusSave, At
  <2> QED BY <1>3, <2>1 DEF Reversals, Documents
<1> QED BY <1>3, <1>4, <1>5, TypedPapers, PostingSaved

LEMMA PostLoadPosting ==
  ASSUME Typed, PostingSound, NEW w \in Workers, PostLoad(w), Turn(w)
  PROVE  PostingSound'
<1>1. PICK d \in Documents :
        /\ papers[d].status = IF d \in Invoices THEN "DRAFT" ELSE "APPROVED"
        /\ Becomes(w, [step |-> "post", document |-> d, total |-> papers[d].total])
  BY DEF PostLoad
<1>2. job'[w] = [step |-> "post", document |-> d, total |-> papers[d].total]
  BY <1>1, TypedPapers DEF Becomes, Jobs
<1>3. d \in Journals => papers[d].status = "APPROVED"
  BY <1>1, LedgerAssumption
<1>4. KnowsEntries(job'[w]) /\ Current(job'[w])
  BY <1>2, <1>3 DEF KnowsEntries, Current
<1> QED BY <1>4, TypedPapers, PostingRead DEF PostLoad

LEMMA PostReadPosting ==
  ASSUME Typed, PostingSound, NEW w \in Workers, PostRead(w), Turn(w)
  PROVE  PostingSound'
<1> DEFINE d == job[w].document
<1>1. d \in Documents
  BY TypedPapers DEF PostRead, At, JobShape, PaperShape
<1>2. /\ job'[w].step = "booking" /\ job'[w].document = d /\ job'[w].source = "none"
      /\ job'[w].key = IF d \in Journals THEN lines[d] ELSE 0
  BY TypedPapers DEF PostRead, Becomes, Jobs
<1>3. KnowsEntries(job'[w])
  <2>1. d \in Journals /\ "edit" \notin clients => lines[d] = 1
    BY DEF PostingSound, Entries, PostRead
  <2> QED BY <1>2, <2>1 DEF KnowsEntries
<1>4. ~overlap => Current(job'[w])
  <2>1. ~overlap => (d \in Journals => papers[d].status = "APPROVED")
    BY DEF PostingSound, Current, PostRead, At
  <2> QED BY <1>2, <2>1 DEF Current
<1> QED BY <1>3, <1>4, TypedPapers, PostingRead DEF PostRead

LEMMA ReverseLoadPosting ==
  ASSUME Typed, PostingSound, NEW w \in Workers, ReverseLoad(w), Turn(w)
  PROVE  PostingSound'
<1>1. PICK j \in Journals :
        /\ papers[j].status = "POSTED"
        /\ Becomes(w, [step |-> "reverse", source |-> j])
  BY DEF ReverseLoad
<1>2. job'[w] = [step |-> "reverse", source |-> j]
  BY <1>1, TypedPapers DEF Becomes, Jobs
<1>3. ledger[j] # <<>>
  BY <1>1 DEF PostingSound, Entries, Accounted, Documents
<1>4. KnowsEntries(job'[w]) /\ Current(job'[w])
  BY <1>1, <1>2, <1>3 DEF KnowsEntries, Current
<1> QED BY <1>4, TypedPapers, PostingRead DEF ReverseLoad

LEMMA ReverseReadPosting ==
  ASSUME Typed, PostingSound, NEW w \in Workers, ReverseRead(w), Turn(w)
  PROVE  PostingSound'
<1> DEFINE j == job[w].source
<1>1. PICK r \in Journals :
        /\ NewKey(r)
        /\ Becomes(w, [step |-> "booking", document |-> r, source |-> j, key |-> 1,
                       amount |-> -papers[j].total, balance |-> account])
  BY DEF ReverseRead
<1>2. /\ job'[w].step = "booking" /\ job'[w].document = r /\ job'[w].source = j
      /\ job'[w].key = 1
  BY <1>1, TypedPapers DEF Becomes, Jobs
<1>3. ledger[j] # <<>> /\ (~overlap => papers[j].status = "POSTED") /\ j \in Journals
  BY TypedPapers DEF ReverseRead, At, PostingSound, KnowsEntries, Current, JobShape, PaperShape
<1>4. ledger[r] = <<>> /\ ~Present(r)
  BY <1>1 DEF NewKey
<1>5. j # "none"
  BY <1>3, LedgerAssumption DEF Documents
<1>6. KnowsEntries(job'[w])
  BY <1>2, <1>3 DEF KnowsEntries
<1>7. ~overlap => Current(job'[w])
  BY <1>2, <1>3, <1>4, <1>5 DEF Current
<1> QED BY <1>6, <1>7, TypedPapers, PostingRead DEF ReverseRead

\* What PostCommit writes.
LEMMA PostCommitWrites ==
  ASSUME Typed, NEW w \in Workers, PostCommit(w)
  PROVE  LET d == job[w].document
             j == job[w].source
         IN /\ d \in Documents /\ j \in Journals \union {"none"} /\ "none" \notin Journals
            /\ j # "none" => d \in Journals
            /\ ledger'[d] = Append(ledger[d], [key |-> job[w].key, amount |-> job[w].amount])
            /\ \A x \in Documents \ {d} : ledger'[x] = ledger[x]
            /\ j = "none" =>
                 /\ Present(d) /\ lines' = lines
                 /\ papers'[d] = [papers[d] EXCEPT !.status = PostedStatus(d)]
                 /\ papers'[d].status = PostedStatus(d) /\ papers'[d].from = papers[d].from
                 /\ \A x \in Documents \ {d} : papers'[x] = papers[x]
            /\ j # "none" =>
                 /\ Present(j)
                 /\ papers'[d] = [status |-> "POSTED", total |-> job[w].amount, paid |-> 0,
                                  from |-> j]
                 /\ lines'[d] = 1 /\ \A x \in Documents \ {d} : lines'[x] = lines[x]
                 /\ \A x \in Documents \ {d} : papers'[x].from = papers[x].from
                 /\ j # d => papers'[j].status = "REVERSED"
                 /\ \A x \in Documents \ {d, j} : papers'[x] = papers[x]
            /\ job'[w].step = "idle"
<1> DEFINE d == job[w].document
           j == job[w].source
<1>1. /\ d \in Documents /\ j \in Journals \union {"none"} /\ "none" \notin Journals
      /\ (j # "none" => d \in Journals) /\ Journals \subseteq Documents
  BY TypedPapers, LedgerAssumption DEF PostCommit, At, JobShape, PaperShape, Documents
<1>2. ledger' = [ledger EXCEPT ![d] = Append(@, [key |-> job[w].key, amount |-> job[w].amount])]
  BY DEF PostCommit
<1>3. papers \in [Documents -> PaperRow] /\ lines \in [Documents -> 0..MaxLines]
      /\ ledger \in [Documents -> Seq([key : 0..MaxLines, amount : Int])]
  BY TypedPapers DEF PapersTyped
<1>4. ledger'[d] = Append(ledger[d], [key |-> job[w].key, amount |-> job[w].amount])
      /\ \A x \in Documents \ {d} : ledger'[x] = ledger[x]
  BY <1>1, <1>2, <1>3
<1>5. job'[w].step = "idle"
  BY TypedPapers DEF PostCommit, Respond, Becomes, Jobs, Idle
<1>6. ASSUME j = "none"
      PROVE  /\ Present(d) /\ lines' = lines
             /\ papers'[d] = [papers[d] EXCEPT !.status = PostedStatus(d)]
             /\ papers'[d].status = PostedStatus(d) /\ papers'[d].from = papers[d].from
             /\ \A x \in Documents \ {d} : papers'[x] = papers[x]
  <2>1. Present(d) /\ lines' = lines /\ papers' = [papers EXCEPT ![d].status = PostedStatus(d)]
    BY <1>6 DEF PostCommit
  <2>2. papers[d] \in PaperRow
    BY <1>1, <1>3
  <2> QED BY <1>1, <1>3, <2>1, <2>2 DEF PaperRow
<1>7. ASSUME j # "none"
      PROVE  /\ Present(j)
             /\ papers'[d] = [status |-> "POSTED", total |-> job[w].amount, paid |-> 0, from |-> j]
             /\ lines'[d] = 1 /\ \A x \in Documents \ {d} : lines'[x] = lines[x]
             /\ \A x \in Documents \ {d} : papers'[x].from = papers[x].from
             /\ j # d => papers'[j].status = "REVERSED"
             /\ \A x \in Documents \ {d, j} : papers'[x] = papers[x]
  <2> DEFINE new == [status |-> "POSTED", total |-> job[w].amount, paid |-> 0, from |-> j]
             reversed == [papers[j] EXCEPT !.status = "REVERSED"]
  <2>1. /\ Present(j)
        /\ papers' = [papers EXCEPT ![j].status = "REVERSED", ![d] = new]
        /\ lines' = [lines EXCEPT ![d] = 1]
    BY <1>7 DEF PostCommit
  <2>2. papers[j] \in PaperRow /\ j \in Documents
    BY <1>1, <1>3, <1>7
  <2>3. reversed.status = "REVERSED" /\ reversed.from = papers[j].from
    BY <2>2 DEF PaperRow
  <2>4. papers' = [papers EXCEPT ![j] = reversed, ![d] = new]
    BY <2>1
  <2> HIDE DEF new, reversed
  <2>5. papers'[d] = new /\ (j # d => papers'[j] = reversed)
        /\ \A x \in Documents \ {d, j} : papers'[x] = papers[x]
    BY <1>1, <1>3, <2>2, <2>4
  <2>6. lines'[d] = 1 /\ \A x \in Documents \ {d} : lines'[x] = lines[x]
    BY <1>1, <1>3, <2>1
  <2> QED BY <2>1, <2>3, <2>5, <2>6 DEF new
<1> HIDE DEF d, j
<1> QED BY <1>1, <1>4, <1>5, <1>6, <1>7 DEF d, j

\* Nothing can be posted a second time, except a journal that is being edited.
LEMMA PostedAnew ==
  ASSUME Typed, PostingSound, NEW w \in Workers, PostCommit(w)
  PROVE  \/ job[w].document \in Journals /\ "edit" \in clients /\ overlap
         \/ ledger[job[w].document] = <<>>
<1> DEFINE d == job[w].document
<1>1. d \in Documents /\ At(w, "booking") /\ NewEntry(d, job[w].key)
      /\ ledger[d] \in Seq([key : 0..MaxLines, amount : Int])
  BY TypedPapers DEF PostCommit, At, JobShape, PaperShape
<1>2. (\A n \in DOMAIN ledger[d] : ledger[d][n].key = job[w].key) => DOMAIN ledger[d] = {}
  BY <1>1 DEF NewEntry
<1>3. DOMAIN ledger[d] = {} => ledger[d] = <<>>
  <2> DEFINE s == ledger[d]
             E == [key : 0..MaxLines, amount : Int]
  <2>1. s \in Seq(E)
    BY <1>1
  <2> HIDE DEF s, E
  <2>2. DOMAIN s = 1..Len(s) /\ Len(s) \in Nat /\ (Len(s) = 0 => s = <<>>)
    BY <2>1
  <2>3. Len(s) # 0 => 1 \in DOMAIN s
    BY <2>2
  <2> QED BY <2>2, <2>3 DEF s
<1>4. CASE d \notin Journals
  BY <1>1, <1>2, <1>3, <1>4 DEF PostingSound, KnowsEntries, Entries, At
<1>5. CASE d \in Journals /\ "edit" \notin clients
  BY <1>1, <1>2, <1>3, <1>5 DEF PostingSound, KnowsEntries, Entries, At
<1>6. CASE d \in Journals /\ ~overlap
  <2>1. Reversals /\ Current(job[w])
    BY <1>6 DEF PostingSound
  <2>2. CASE job[w].source = "none"
    BY <1>1, <1>6, <2>1, <2>2 DEF Reversals, Current, At
  <2>3. CASE job[w].source # "none"
    BY <1>1, <1>6, <2>1, <2>3 DEF Current, At
  <2> QED BY <2>2, <2>3
<1> QED BY <1>4, <1>5, <1>6

LEMMA PostCommitPosting ==
  ASSUME Typed, PostingSound, NEW w \in Workers, PostCommit(w), Turn(w)
  PROVE  PostingSound'
<1> DEFINE d == job[w].document
           j == job[w].source
           entry == [key |-> job[w].key, amount |-> job[w].amount]
<1>1. /\ d \in Documents /\ j \in Journals \union {"none"} /\ "none" \notin Journals
      /\ (j # "none" => d \in Journals)
      /\ ledger'[d] = Append(ledger[d], entry)
      /\ \A x \in Documents \ {d} : ledger'[x] = ledger[x]
      /\ job'[w].step = "idle" /\ PostedStatus(d) \in {"OPEN", "POSTED"}
  BY PostCommitWrites DEF PostedStatus
<1>2. j = "none" =>
        /\ Present(d) /\ lines' = lines
        /\ papers'[d].status = PostedStatus(d) /\ papers'[d].from = papers[d].from
        /\ \A x \in Documents \ {d} : papers'[x] = papers[x]
  BY PostCommitWrites
<1>3. j # "none" =>
        /\ Present(j)
        /\ papers'[d].status = "POSTED" /\ papers'[d].from = j
        /\ lines'[d] = 1 /\ \A x \in Documents \ {d} : lines'[x] = lines[x]
        /\ \A x \in Documents \ {d} : papers'[x].from = papers[x].from
        /\ j # d => papers'[j].status = "REVERSED"
        /\ \A x \in Documents \ {d, j} : papers'[x] = papers[x]
  <2>1. j # "none" => papers'[d] = [status |-> "POSTED", total |-> job[w].amount, paid |-> 0,
                                    from |-> j]
    BY PostCommitWrites
  <2>2. j # "none" => papers'[d].status = "POSTED" /\ papers'[d].from = j
    BY <2>1
  <2> HIDE DEF d, j
  <2> QED BY <2>2, PostCommitWrites DEF d, j
<1>4. (d \in Journals /\ "edit" \in clients /\ overlap) \/ ledger[d] = <<>>
  BY PostedAnew
<1>5. ledger[d] \in Seq([key : 0..MaxLines, amount : Int]) /\ entry.key = job[w].key
      /\ entry \in [key : 0..MaxLines, amount : Int]
  BY <1>1, TypedPapers DEF PostCommit, At, JobShape, PaperShape
<1>6. KnowsEntries(job[w]) /\ job[w].step = "booking" /\ Entries
  BY DEF PostingSound, PostCommit, At
<1> HIDE DEF d, j, entry
<1>7. /\ ledger'[d] # <<>>
      /\ \A n \in DOMAIN ledger'[d] : (n \in DOMAIN ledger[d] /\ ledger'[d][n] = ledger[d][n])
                                      \/ ledger'[d][n] = entry
      /\ ledger[d] = <<>> => Len(ledger'[d]) = 1
  BY SMTT(60), <1>1, <1>5
<1>8. (j # "none" => ledger[j] # <<>>) /\ (d \notin Journals => job[w].key = 0)
      /\ (d \in Journals /\ "edit" \notin clients => job[w].key = 1)
  BY <1>6 DEF KnowsEntries, d, j
<1>9. \A x \in Documents : ledger[x] # <<>> => ledger'[x] # <<>>
  BY <1>1, <1>7
<1>10. \A x \in Documents : papers'[x].status \in Accounted => ledger'[x] # <<>>
  <2> SUFFICES ASSUME NEW x \in Documents, papers'[x].status \in Accounted, x # d
               PROVE  ledger'[x] # <<>>
    BY <1>7
  <2>1. papers'[x] = papers[x] \/ (j # "none" /\ x = j)
    BY <1>2, <1>3
  <2> QED BY <1>6, <1>8, <1>9, <2>1 DEF Entries
<1>11. \A x \in Documents \ Journals : \A n \in DOMAIN ledger'[x] : ledger'[x][n].key = 0
  BY SMTT(60), <1>1, <1>5, <1>6, <1>7, <1>8 DEF Entries
<1>12. "edit" \notin clients => \A x \in Journals :
         /\ Present(x)' => lines'[x] = 1
         /\ \A n \in DOMAIN ledger'[x] : ledger'[x][n].key = 1
  <2> SUFFICES ASSUME "edit" \notin clients, NEW x \in Journals
               PROVE  /\ Present(x)' => lines'[x] = 1
                      /\ \A n \in DOMAIN ledger'[x] : ledger'[x][n].key = 1
    OBVIOUS
  <2>1. x \in Documents
    BY DEF Documents
  <2>2. \A n \in DOMAIN ledger'[x] : ledger'[x][n].key = 1
    BY SMTT(60), <1>1, <1>5, <1>6, <1>7, <1>8, <2>1 DEF Entries
  <2>3. Present(x)' => lines'[x] = 1
    BY <1>2, <1>3, <1>6, <2>1 DEF Entries, Present
  <2> QED BY <2>2, <2>3
<1>13. \A x \in Documents : (x \in Journals /\ "edit" \in clients /\ overlap) \/ Len(ledger'[x]) <= 1
  BY <1>1, <1>4, <1>6, <1>7 DEF Entries
<1>14. Entries'
  BY <1>10, <1>11, <1>12, <1>13 DEF Entries, Turn
<1>15. ASSUME ~overlap PROVE Reversals'
  <2>1. Reversals /\ Current(job[w])
    BY <1>15 DEF PostingSound
  <2>2. j = "none" /\ d \in Journals => papers[d].status = "APPROVED"
    BY <1>6, <2>1 DEF Current, d, j
  <2>3. j # "none" => papers[j].status = "POSTED" /\ ~Present(d)
    BY <1>6, <2>1 DEF Current, d, j
  <2>4. d \in Journals => PostedStatus(d) = "POSTED"
    BY LedgerAssumption DEF PostedStatus
  <2>5. j # d
    BY <2>3, <1>1, LedgerAssumption DEF Present
  <2>6. CASE j = "none"
    BY <1>1, <1>2, <2>1, <2>2, <2>4, <2>6 DEF Reversals, Documents
  <2>7. CASE j # "none"
    <3>1. \A r \in Journals : papers[r].from # d /\ papers[r].from # j
      BY <1>1, <2>1, <2>3, <2>7 DEF Reversals, Present
    <3>2. \A x \in Journals : ledger'[x] # <<>> => papers'[x].status \in {"POSTED", "REVERSED"}
      BY <1>1, <1>3, <2>1, <2>5, <2>7 DEF Reversals, Documents
    <3>3. \A r \in Journals : papers'[r].from = IF r = d THEN j ELSE papers[r].from
      BY <1>3, <2>7 DEF Documents
    <3>4. \A r, x \in Journals : papers'[r].from = x => papers'[x].status = "REVERSED"
      BY <1>1, <1>3, <2>1, <2>5, <2>7, <3>1, <3>3 DEF Reversals, Documents
    <3>5. \A r, s, x \in Journals : papers'[r].from = x /\ papers'[s].from = x => r = s
      BY <2>1, <3>1, <3>3 DEF Reversals
    <3> QED BY <3>2, <3>4, <3>5 DEF Reversals
  <2> QED BY <2>6, <2>7
<1> QED BY <1>1, <1>9, <1>14, <1>15, TypedPapers, PostingSaved

LEMMA PayLoadPosting ==
  ASSUME Typed, PostingSound, NEW w \in Workers, PayLoad(w), Turn(w)
  PROVE  PostingSound'
<1>1. PICK d \in Invoices \union Bills, amount \in Amounts :
        /\ papers[d].status \in PayableStatuses(d)
        /\ Becomes(w, [step |-> "pay", document |-> d, amount |-> amount])
  BY DEF PayLoad
<1>2. job'[w] = [step |-> "pay", document |-> d, amount |-> amount]
  BY <1>1, TypedPapers DEF Becomes, Jobs
<1>3. ledger[d] # <<>>
  BY <1>1 DEF PostingSound, Entries, Accounted, PayableStatuses, Documents
<1>4. KnowsEntries(job'[w]) /\ Current(job'[w])
  BY <1>2, <1>3 DEF KnowsEntries, Current
<1> QED BY <1>4, TypedPapers, PostingRead DEF PayLoad

LEMMA PayCommitPosting ==
  ASSUME Typed, PostingSound, NEW w \in Workers, PayCommit(w), Turn(w)
  PROVE  PostingSound'
<1> DEFINE d == job[w].document
<1>1. d \in Invoices \union Bills /\ d \in Documents /\ d \notin Journals /\ ledger[d] # <<>>
  BY TypedPapers, LedgerAssumption
     DEF PayCommit, At, JobShape, MoneyShape, PostingSound, KnowsEntries, Documents
<1>2. /\ ledger' = ledger /\ lines' = lines /\ job'[w].step = "idle"
      /\ \A x \in Documents \ {d} : papers'[x] = papers[x]
  BY TypedPapers DEF PayCommit, PapersTyped, Respond, Becomes, Jobs, Idle
<1>3. Journals \subseteq Documents \ {d}
  BY <1>1 DEF Documents
<1>4. Entries'
  BY <1>1, <1>2, <1>3 DEF PostingSound, Entries, Turn, Present
<1>5. ASSUME ~overlap PROVE Reversals'
  BY <1>2, <1>3, <1>5 DEF PostingSound, Reversals
<1> QED BY <1>2, <1>4, <1>5, TypedPapers, PostingSaved

\* Whoever does not work on documents leaves what is known of them.
LEMMA PostingElsewhere ==
  ASSUME Jobs, PostingSound, NEW w \in Workers, Turn(w), UNCHANGED documents,
         job'[w].step \notin {"edit", "delete", "status", "post", "reverse", "booking", "pay"}
  PROVE  PostingSound'
<1>1. KnowsEntries(job'[w]) /\ Current(job'[w])
  BY DEF KnowsEntries, Current
<1> QED BY <1>1, PostingRead

\* Bank requests leave the documents.
LEMMA NoNewPayment ==
  ASSUME Jobs, NEW w \in Workers, MoneyStep(w), ~PayLoad(w), ~PayCommit(w)
  PROVE  UNCHANGED documents /\ job'[w].step \in {"idle", "edit_payment", "transact", "transfer", "account"}
<1>1. CASE DeletePayment(w)
  BY <1>1 DEF DeletePayment, Takes, At
<1>2. CASE TransactLoad(w)
  BY <1>2 DEF TransactLoad, Becomes, Jobs
<1>3. CASE Transact(w)
  BY <1>3 DEF Transact, Respond, Becomes, Jobs, Idle
<1>4. CASE ChangeVoucher(w)
  BY <1>4 DEF ChangeVoucher, Takes, At
<1>5. CASE TransferLoad(w)
  BY <1>5 DEF TransferLoad, Becomes, Jobs
<1>6. CASE Transfer(w)
  BY <1>6 DEF Transfer, Respond, Becomes, Jobs, Idle
<1>7. CASE AccountLoad(w)
  BY <1>7, AccountAsked DEF AccountLoad, Becomes, Jobs
<1>8. CASE AccountSave(w)
  BY <1>8 DEF AccountSave, Respond, Becomes, Jobs, Idle
<1>9. CASE ReceiveUnapplied(w)
  BY <1>9 DEF ReceiveUnapplied, Takes, At
<1>10. CASE EditPaymentLoad(w)
  BY <1>10 DEF EditPaymentLoad, Becomes, Jobs
<1>11. CASE EditPaymentSave(w)
  BY <1>11 DEF EditPaymentSave, Respond, Becomes, Jobs, Idle
<1> QED BY <1>1, <1>2, <1>3, <1>4, <1>5, <1>6, <1>7, <1>8, <1>9, <1>10, <1>11 DEF MoneyStep

LEMMA MoneyPosting ==
  ASSUME Typed, PostingSound, NEW w \in Workers, MoneyStep(w), Turn(w)
  PROVE  PostingSound'
<1>1. CASE PayLoad(w)
  BY <1>1, PayLoadPosting
<1>2. CASE PayCommit(w)
  BY <1>2, PayCommitPosting
<1>3. CASE ~PayLoad(w) /\ ~PayCommit(w)
  BY <1>3, TypedPapers, NoNewPayment, PostingElsewhere
<1> QED BY <1>1, <1>2, <1>3

LEMMA PaperPosting ==
  ASSUME Typed, PostingSound, NEW w \in Workers, Paper(w), Turn(w)
  PROVE  PostingSound'
<1>1. LedgerStep(w, Paid)
  BY DEF Paper
<1> QED BY <1>1, CreateDocumentPosting, EditLoadPosting, EditSavePosting, DeleteLoadPosting,
     DeleteSavePosting, StatusLoadPosting, StatusSavePosting, PostLoadPosting, PostReadPosting,
     ReverseLoadPosting, ReverseReadPosting, PostCommitPosting DEF LedgerStep

LEMMA PostingInit == ControlsInit => PostingSound
<1> SUFFICES ASSUME ControlsInit PROVE PostingSound
  OBVIOUS
<1>1. /\ papers = [d \in Documents |-> Absent]
      /\ ledger = [d \in Documents |-> <<>>]
      /\ job = [w \in Workers |-> Idle]
  BY DEF ControlsInit, AllInit, Init, LedgerInit
<1>2. \A d \in Documents : papers[d].status = "ABSENT" /\ papers[d].from = "none" /\ ledger[d] = <<>>
  BY <1>1 DEF Absent
<1>3. "none" \notin Journals /\ Journals \subseteq Documents
  BY LedgerAssumption DEF Documents
<1>4. Entries /\ Reversals
  BY <1>2, <1>3 DEF Entries, Reversals, Accounted, Present
<1>5. \A w \in Workers : KnowsEntries(job[w]) /\ Current(job[w])
  BY <1>1 DEF KnowsEntries, Current, Idle
<1> QED BY <1>4, <1>5 DEF PostingSound

LEMMA PostingStep ==
  ASSUME Typed, Serial, PostingSound, [ControlsNext]_controlsVars
  PROVE  PostingSound'
<1>1. CASE UNCHANGED controlsVars
  BY <1>1 DEF controlsVars, allVars, vars, documents, PostingSound, Entries, Reversals,
              KnowsEntries, Current, Present
<1>2. CASE ControlsNext
  <2>1. PICK w \in Workers :
          /\ Turn(w)
          /\ \/ Paper(w) \/ MoneyStep(w)
             \/ /\ UNCHANGED documents
                /\ job'[w].step \in AssetSteps \union ControlSteps \union {"idle"}
    BY <1>2, SomeTurn
  <2>2. CASE /\ UNCHANGED documents
             /\ job'[w].step \in AssetSteps \union ControlSteps \union {"idle"}
    BY <2>1, <2>2, TypedPapers, PostingElsewhere DEF AssetSteps, ControlSteps
  <2> QED BY <2>1, <2>2, PaperPosting, MoneyPosting
<1> QED BY <1>1, <1>2

----
(* Invariants of the specification. *)

\* Everything of finance keeps its shape, and so does what each request holds.
LEMMA FinanceSteady == ControlsSpec => [](Typed /\ Serial)
<1>1. ControlsInit => Typed /\ Serial
  <2>1. ControlsInit => job = [w \in Workers |-> Idle]
    BY DEF ControlsInit, AllInit, Init, LedgerInit
  <2>2. ControlsInit => Serial
    BY <2>1 DEF Serial, At, Idle
  <2> QED BY <2>2, TypedInit
<1>2. Typed /\ Serial /\ [ControlsNext]_controlsVars => (Typed /\ Serial)'
  <2> SUFFICES ASSUME Typed, Serial, [ControlsNext]_controlsVars PROVE Serial'
    BY TypedStep
  <2>1. CASE UNCHANGED controlsVars
    BY <2>1 DEF controlsVars, allVars, vars, Serial, Alone, At, Others
  <2>2. CASE ControlsNext
    BY <2>2, SomeTurn, SerialKept, TypedPapers
  <2> QED BY <2>1, <2>2
<1> QED BY <1>1, <1>2, PTL DEF ControlsSpec

\* What every request of finance reads and writes is a row of its own kind: no
\* interleaving of stale writes makes a document, a payment, an asset, a budget or
\* a VAT return of a shape that the code does not know.
THEOREM FinanceTyped == ControlsSpec => []ControlsTypeOK
<1>1. Typed => ControlsTypeOK
  BY DEF Typed
<1> QED BY <1>1, FinanceSteady, PTL

\* However stale the status that a request writes, a document that shows itself as
\* posted has its entries in the ledger, and no document has them twice unless
\* journals are edited while they are posted; one request at a time reverses a
\* journal once.
THEOREM PostedOnce == ControlsSpec => []LedgerOnce
<1>1. ControlsInit => PostingSound
  BY PostingInit
<1>2. Typed /\ Serial /\ PostingSound /\ [ControlsNext]_controlsVars => PostingSound'
  BY PostingStep
<1>3. PostingSound => LedgerOnce
  <2> SUFFICES ASSUME PostingSound PROVE LedgerOnce
    OBVIOUS
  <2>1. ASSUME ~overlap, NEW j \in Journals
        PROVE  Cardinality({r \in Journals : papers[r].from = j}) <= 1
    <3> DEFINE S == {r \in Journals : papers[r].from = j}
    <3>1. \A r, s \in S : r = s
      BY <2>1 DEF PostingSound, Reversals
    <3> HIDE DEF S
    <3>2. CASE S = {}
      BY <3>2, FS_EmptySet DEF S
    <3>3. CASE \E r \in S : S = {r}
      <4>1. PICK r \in S : S = {r}
        BY <3>3
      <4>2. Cardinality(S) = 1
        BY <4>1, FS_Singleton
      <4> QED BY <4>2 DEF S
    <3> QED BY <3>1, <3>2, <3>3
  <2> QED BY <2>1 DEF PostingSound, Entries, LedgerOnce
<1> QED BY <1>1, <1>2, <1>3, FinanceSteady, PTL DEF ControlsSpec

----
(* Depreciation.                                                           *)
(*                                                                         *)
(* The rows of an asset only grow, so that whatever a request has read of  *)
(* it stays covered by them; a run adds to the rows what it adds to the    *)
(* asset.  Only one request at a time has read what is still there.        *)

\* What the rows of an asset add up to in each period.
PeriodSums(rows) == [p \in Periods |-> SumFunctionOnSet(rows[p], DOMAIN rows[p])]

\* What a request knows of its assets.
KnowsAssets(j) ==
  /\ j.step = "asset" =>
       j.row.accumulated <= Worth[j.asset] /\ j.row.accumulated <= RowsOf(j.asset)
  /\ j.step \in {"period", "period_row"} =>
       /\ \A x \in j.left : x.asset \in capitalized /\ x.accumulated <= RowsOf(x.asset)
       /\ \A r \in j.rows : r.asset \in capitalized /\ r.accumulated - r.amount <= RowsOf(r.asset)

AssetsCovered ==
  \A a \in FixedAssets :
    /\ assets[a].status \in {"ACTIVE", "FULLY_DEPRECIATED"} => a \in capitalized
    /\ assets[a].accumulated <= Worth[a] /\ assets[a].accumulated <= RowsOf(a)

\* One request at a time, an asset has lost what its rows say ...
AssetsAdd ==
  \A a \in FixedAssets :
    /\ assets[a].accumulated = RowsOf(a)
    /\ \A p \in Periods : Len(depreciated[a][p]) <= 1
    /\ assets[a].status = "FULLY_DEPRECIATED" <=> assets[a].accumulated = Worth[a]

\* ... and what a request has read of it still holds.
CurrentAssets(j) ==
  /\ j.step = "asset" =>
       /\ j.row.accumulated = assets[j.asset].accumulated
       /\ assets[j.asset].status \in {"DRAFT", "PENDING_APPROVAL", "APPROVED"}
  /\ j.step \in {"period", "period_row"} =>
       /\ \A x \in j.left : x.accumulated = assets[x.asset].accumulated
       /\ \A r \in j.rows : /\ r.accumulated - r.amount = assets[r.asset].accumulated
                            /\ Missing(r.asset, j.period)

DepreciationSound ==
  /\ AssetsCovered
  /\ \A w \in Workers : KnowsAssets(job[w])
  /\ ~overlap => AssetsAdd /\ \A w \in Workers : CurrentAssets(job[w])

LEMMA RowsAre ==
  ASSUME Typed, NEW a \in FixedAssets
  PROVE  /\ RowsOf(a) = SumFunctionOnSet(PeriodSums(depreciated[a]), Periods)
         /\ \A p \in Periods : depreciated[a][p] \in Seq(Nat)
         /\ \A p \in Periods : PeriodSums(depreciated[a])[p] \in Nat
         /\ RowsOf(a) \in Nat
<1>1. RowsOf(a) = SumFunctionOnSet(PeriodSums(depreciated[a]), Periods)
  BY DEF RowsOf, PeriodSums
<1>2. \A p \in Periods : depreciated[a][p] \in Seq(Nat)
  BY TypedAssets
<1>3. ASSUME NEW p \in Periods PROVE PeriodSums(depreciated[a])[p] \in Nat
  <2> DEFINE s == depreciated[a][p]
  <2>1. s \in Seq(Nat)
    BY <1>2
  <2>2. s \in Seq(Int) /\ \A n \in DOMAIN s : s[n] \in Nat
    BY <2>1
  <2> HIDE DEF s
  <2>3. IsFiniteSet(DOMAIN s)
    BY <2>2, SumAppend
  <2>4. SumFunctionOnSet(s, DOMAIN s) \in Nat
    BY <2>2, <2>3, SumNat
  <2> QED BY <2>4 DEF PeriodSums, s
<1>4. SumFunctionOnSet(PeriodSums(depreciated[a]), Periods) \in Nat
  BY <1>3, AssetsAssumption, SumNat
<1> QED BY <1>1, <1>2, <1>3, <1>4

\* A commit adds a row to each asset it inserts one of.
LEMMA RowsGrow ==
  ASSUME Typed, NEW w \in Workers, PeriodCommit(w), NEW a \in FixedAssets
  PROVE  RowsOf(a)' = IF a \in Inserting(w) THEN RowsOf(a) + RowOf(w, a).amount ELSE RowsOf(a)
<1> DEFINE p == job[w].period
           x == RowOf(w, a).amount
           old == depreciated[a]
           new == depreciated'[a]
<1>1. RowsOf(a)' = SumFunctionOnSet(PeriodSums(new), Periods)
  BY DEF RowsOf, PeriodSums
<1>2. CASE a \notin Inserting(w)
  BY <1>1, <1>2, Committed, RowsAre
<1>3. CASE a \in Inserting(w)
  <2>1. x \in Nat /\ p \in Periods
    BY <1>3, Committed DEF InsertedRow
  <2>2. new = [old EXCEPT ![p] = Append(old[p], x)] /\ old \in [Periods -> Seq(Nat)]
    BY <1>3, Committed, TypedAssets
  <2>3. /\ RowsOf(a) = SumFunctionOnSet(PeriodSums(old), Periods)
        /\ \A q \in Periods : PeriodSums(old)[q] \in Nat
    BY RowsAre
  <2> HIDE DEF p, x, old, new
  <2>4. new[p] = Append(old[p], x) /\ \A q \in Periods \ {p} : new[q] = old[q]
    BY <2>1, <2>2
  <2>5. old[p] \in Seq(Int) /\ x \in Int
    BY <2>1, <2>2
  <2>6. PeriodSums(new)[p] = PeriodSums(old)[p] + x
    BY <2>1, <2>4, <2>5, SumAppend DEF PeriodSums
  <2>7. \A q \in Periods \ {p} : PeriodSums(new)[q] = PeriodSums(old)[q]
    BY <2>4 DEF PeriodSums
  <2>8. PeriodSums(new)[p] \in Int /\ \A q \in Periods : PeriodSums(old)[q] \in Int
    BY <2>1, <2>3, <2>6
  <2> DEFINE f == PeriodSums(old)
             g == PeriodSums(new)
  <2> HIDE DEF f, g
  <2>9. SumFunctionOnSet(g, Periods) = SumFunctionOnSet(f, Periods) - f[p] + g[p]
    BY <2>1, <2>7, <2>8, AssetsAssumption, SumChange DEF f, g
  <2>10. SumFunctionOnSet(f, Periods) \in Nat
    BY <2>3, RowsAre DEF f
  <2> QED BY <1>1, <1>3, <2>1, <2>3, <2>6, <2>8, <2>9, <2>10 DEF f, g, x
<1> QED BY <1>2, <1>3

\* An asset without rows has lost nothing.
LEMMA NoRows ==
  ASSUME Typed, NEW a \in FixedAssets, \A p \in Periods : depreciated[a][p] = <<>>
  PROVE  RowsOf(a) = 0
<1> DEFINE f == PeriodSums(depreciated[a])
           D == {0}
<1>1. \A p \in Periods : f[p] = 0
  <2>1. DOMAIN <<>> = {}
    OBVIOUS
  <2> QED BY <2>1, SumEmpty DEF PeriodSums
<1>2. 0 \in D /\ (\A p, q \in D : p + q \in D) /\ \A p \in Periods : f[p] \in D
  BY <1>1
<1> HIDE DEF f, D
<1>3. SumFunctionOnSet(f, Periods) \in D
  BY <1>2, AssetsAssumption, SumIn
<1>4. SumFunctionOnSet(f, Periods) = 0
  BY <1>3 DEF D
<1> QED BY <1>4, RowsAre DEF f

LEMMA AssetsRead ==
  ASSUME Jobs, DepreciationSound, NEW w \in Workers, Turn(w), UNCHANGED assetVars,
         KnowsAssets(job'[w]), ~overlap => CurrentAssets(job'[w])
  PROVE  DepreciationSound'
<1>1. AssetsCovered' /\ (~overlap => AssetsAdd')
  BY DEF DepreciationSound, AssetsCovered, AssetsAdd, assetVars, RowsOf
<1>2. \A v \in Workers : v # w => job'[v] = job[v]
  BY DEF Turn, Jobs
<1>3. \A v \in Workers : KnowsAssets(job'[v])
  BY <1>2 DEF DepreciationSound
<1>4. \A v \in Workers : KnowsAssets(job[v])'
  BY <1>3 DEF KnowsAssets, assetVars, RowsOf
<1>5. ~overlap => \A v \in Workers : CurrentAssets(job'[v])
  BY <1>2 DEF DepreciationSound
<1>6. ~overlap => \A v \in Workers : CurrentAssets(job[v])'
  BY <1>5 DEF CurrentAssets, assetVars, Missing
<1> QED BY <1>1, <1>4, <1>6 DEF DepreciationSound, Turn

\* A step that writes assets, after which its worker is idle.
LEMMA AssetsSaved ==
  ASSUME Typed, DepreciationSound, NEW w \in Workers, Turn(w), job'[w].step = "idle",
         AssetsCovered', ~overlap => AssetsAdd', capitalized \subseteq capitalized',
         \A a \in FixedAssets : RowsOf(a)' \in Nat /\ RowsOf(a) <= RowsOf(a)'
  PROVE  DepreciationSound'
<1>1. \A v \in Workers : v # w => job'[v] = job[v]
  BY TypedPapers DEF Turn, Jobs
<1>2. ASSUME NEW v \in Workers PROVE KnowsAssets(job[v])'
  <2>1. CASE v = w
    BY <2>1 DEF KnowsAssets
  <2>2. CASE v # w
    <3>1. job'[v] = job[v] /\ KnowsAssets(job[v]) /\ AssetShape(job[v])
      BY <1>1, <2>2, TypedPapers DEF DepreciationSound, JobShape
    <3>2. \A a \in FixedAssets, n \in Int : n <= RowsOf(a) => n <= RowsOf(a)'
      BY RowsAre
    <3>3. CASE job[v].step = "asset"
      <4>1. job[v].asset \in FixedAssets /\ job[v].row.accumulated \in Int
        BY <3>1, <3>3 DEF AssetShape, AssetRow
      <4> QED BY <3>1, <3>2, <3>3, <4>1 DEF KnowsAssets
    <3>4. CASE job[v].step \in {"period", "period_row"}
      <4>1. job[v].left \subseteq ReadAsset /\ job[v].rows \subseteq InsertedRow
        BY <3>1, <3>4 DEF AssetShape, RunShape
      <4>2. \A x \in job[v].left : x.asset \in FixedAssets /\ x.accumulated \in Int
        BY <4>1 DEF ReadAsset
      <4>3. \A r \in job[v].rows : r.asset \in FixedAssets /\ r.accumulated - r.amount \in Int
        BY <4>1 DEF InsertedRow
      <4> QED BY <3>1, <3>2, <3>4, <4>2, <4>3 DEF KnowsAssets
    <3> QED BY <3>1, <3>3, <3>4 DEF KnowsAssets
  <2> QED BY <2>1, <2>2
<1>3. ASSUME ~overlap, NEW v \in Workers PROVE CurrentAssets(job[v])'
  <2>1. job'[v].step = "idle"
    BY <1>1, <1>3 DEF Turn, Alone, Others, At
  <2> QED BY <2>1 DEF CurrentAssets
<1> QED BY <1>2, <1>3 DEF DepreciationSound, Turn

LEMMA AssetsElsewhere ==
  ASSUME Jobs, DepreciationSound, NEW w \in Workers, Turn(w), UNCHANGED assetVars,
         job'[w].step \notin AssetSteps
  PROVE  DepreciationSound'
<1>1. KnowsAssets(job'[w]) /\ CurrentAssets(job'[w])
  BY DEF KnowsAssets, CurrentAssets, AssetSteps
<1> QED BY <1>1, AssetsRead

LEMMA CreateAssetAdds ==
  ASSUME Typed, DepreciationSound, NEW w \in Workers, CreateAsset(w), Turn(w)
  PROVE  DepreciationSound'
<1>1. PICK a \in FixedAssets :
        assets[a] = NoAsset /\ assets' = [assets EXCEPT ![a].status = "DRAFT"]
  BY DEF CreateAsset
<1>2. depreciated' = depreciated /\ capitalized' = capitalized /\ job' = job /\ At(w, "idle")
  BY DEF CreateAsset, Takes
<1>3. \A x \in FixedAssets : RowsOf(x)' = RowsOf(x) /\ RowsOf(x) \in Nat /\ assets[x] \in AssetRow
  BY <1>2, RowsAre, TypedAssets DEF RowsOf
<1>4. /\ assets'[a].status = "DRAFT" /\ assets'[a].accumulated = assets[a].accumulated
      /\ \A x \in FixedAssets \ {a} : assets'[x] = assets[x]
  BY <1>1, <1>3, TypedAssets DEF AssetRow
<1>5. AssetsCovered'
  BY <1>2, <1>3, <1>4 DEF AssetsCovered, DepreciationSound
<1>6. ASSUME ~overlap PROVE AssetsAdd'
  <2>1. assets[a].accumulated = 0 /\ assets[a].status = "ABSENT" /\ AssetsAdd
    BY <1>1, <1>6 DEF NoAsset, DepreciationSound
  <2> QED BY <1>2, <1>3, <1>4, <2>1 DEF AssetsAdd
<1> QED BY <1>2, <1>3, <1>5, <1>6, AssetsSaved DEF At

LEMMA AssetLoadAdds ==
  ASSUME Typed, DepreciationSound, NEW w \in Workers, AssetLoad(w), Turn(w)
  PROVE  DepreciationSound'
<1>1. PICK a \in FixedAssets, move \in AssetMoves :
        /\ assets[a].status = move.from
        /\ Becomes(w, [step |-> "asset", asset |-> a, whole |-> move.whole,
                       capitalizes |-> move.kind = "capitalize",
                       row |-> [assets[a] EXCEPT !.status = move.to]])
  BY DEF AssetLoad
<1> DEFINE row == [assets[a] EXCEPT !.status = move.to]
<1>2. row.accumulated = assets[a].accumulated
  BY TypedAssets DEF AssetRow
<1>3. assets[a].status \in {"DRAFT", "PENDING_APPROVAL", "APPROVED"}
  BY <1>1 DEF AssetMoves
<1> HIDE DEF row
<1>4. /\ job'[w].step = "asset" /\ job'[w].asset = a /\ job'[w].row = row
  BY <1>1, TypedPapers DEF Becomes, Jobs, row
<1>5. KnowsAssets(job'[w]) /\ CurrentAssets(job'[w])
  BY <1>2, <1>3, <1>4 DEF KnowsAssets, CurrentAssets, DepreciationSound, AssetsCovered
<1> QED BY <1>5, TypedPapers, AssetsRead DEF AssetLoad

LEMMA AssetSaveAdds ==
  ASSUME Typed, DepreciationSound, NEW w \in Workers, AssetSave(w), Turn(w)
  PROVE  DepreciationSound'
<1> DEFINE a == job[w].asset
           row == job[w].row
           next == IF job[w].whole THEN row
                   ELSE [status |-> row.status, accumulated |-> assets[a].accumulated]
<1>1. /\ a \in FixedAssets /\ row \in AssetRow /\ job[w].step = "asset"
      /\ row.status \in {"DRAFT", "PENDING_APPROVAL", "APPROVED", "ACTIVE"}
      /\ job[w].capitalizes <=> row.status = "ACTIVE"
  BY TypedPapers DEF AssetSave, At, JobShape, AssetShape
<1>2. /\ assets' = [assets EXCEPT ![a] = next] /\ depreciated' = depreciated
      /\ capitalized' = IF job[w].capitalizes THEN capitalized \union {a} ELSE capitalized
      /\ job'[w].step = "idle"
  BY TypedPapers DEF AssetSave, Respond, Becomes, Jobs, Idle
<1>3. KnowsAssets(job[w]) /\ AssetsCovered
  BY DEF DepreciationSound
<1>4. \A x \in FixedAssets : RowsOf(x)' = RowsOf(x) /\ RowsOf(x) \in Nat /\ assets[x] \in AssetRow
  BY <1>2, RowsAre, TypedAssets DEF RowsOf
<1>5. /\ next.status = row.status
      /\ next.accumulated = row.accumulated \/ next.accumulated = assets[a].accumulated
      /\ next.accumulated <= Worth[a] /\ next.accumulated <= RowsOf(a)
  BY <1>1, <1>3 DEF KnowsAssets, AssetsCovered
<1> HIDE DEF next
<1>6. assets'[a] = next /\ \A x \in FixedAssets \ {a} : assets'[x] = assets[x]
  BY <1>1, <1>2, TypedAssets
<1>7. AssetsCovered'
  BY <1>1, <1>2, <1>3, <1>4, <1>5, <1>6 DEF AssetsCovered
<1>8. ASSUME ~overlap PROVE AssetsAdd'
  <2>1. AssetsAdd /\ CurrentAssets(job[w])
    BY <1>8 DEF DepreciationSound
  <2>2. next.accumulated = assets[a].accumulated /\ next.status # "FULLY_DEPRECIATED"
        /\ assets[a].status # "FULLY_DEPRECIATED"
    BY <1>1, <1>5, <2>1 DEF CurrentAssets
  <2> QED BY <1>1, <1>2, <1>4, <1>6, <2>1, <2>2 DEF AssetsAdd
<1> QED BY <1>2, <1>4, <1>7, <1>8, AssetsSaved

LEMMA DeleteAssetAdds ==
  ASSUME Typed, DepreciationSound, NEW w \in Workers, DeleteAsset(w), Turn(w)
  PROVE  DepreciationSound'
<1>1. PICK a \in FixedAssets :
        (\A p \in Periods : depreciated[a][p] = <<>>) /\ assets' = [assets EXCEPT ![a] = NoAsset]
  BY DEF DeleteAsset
<1>2. depreciated' = depreciated /\ capitalized' = capitalized /\ job' = job /\ At(w, "idle")
  BY DEF DeleteAsset, Takes
<1>3. \A x \in FixedAssets : RowsOf(x)' = RowsOf(x) /\ RowsOf(x) \in Nat
  BY <1>2, RowsAre DEF RowsOf
<1>4. /\ assets'[a].status = "ABSENT" /\ assets'[a].accumulated = 0
      /\ \A x \in FixedAssets \ {a} : assets'[x] = assets[x]
  BY <1>1, TypedAssets DEF NoAsset
<1>5. RowsOf(a) = 0 /\ Worth[a] \in Nat \ {0}
  BY <1>1, NoRows, AssetsAssumption
<1>6. AssetsCovered'
  BY <1>2, <1>3, <1>4, <1>5 DEF AssetsCovered, DepreciationSound
<1>7. ASSUME ~overlap PROVE AssetsAdd'
  BY <1>2, <1>3, <1>4, <1>5, <1>7 DEF AssetsAdd, DepreciationSound
<1> QED BY <1>2, <1>3, <1>6, <1>7, AssetsSaved DEF At

LEMMA PeriodLoadAdds ==
  ASSUME Typed, DepreciationSound, NEW w \in Workers, PeriodLoad(w), Turn(w)
  PROVE  DepreciationSound'
<1> DEFINE left == {[asset |-> a, accumulated |-> assets[a].accumulated] :
                      a \in {x \in FixedAssets : /\ assets[x].status = "ACTIVE"
                                                 /\ assets[x].accumulated < Worth[x]}}
<1>1. PICK p \in Periods :
        Becomes(w, [step |-> "period", period |-> p, rows |-> {}, left |-> left])
  BY DEF PeriodLoad
<1>2. \A x \in left : /\ x.asset \in FixedAssets /\ assets[x.asset].status = "ACTIVE"
                      /\ x.accumulated = assets[x.asset].accumulated
  OBVIOUS
<1> HIDE DEF left
<1>3. job'[w].step = "period" /\ job'[w].left = left /\ job'[w].rows = {}
  BY <1>1, TypedPapers DEF Becomes, Jobs
<1>4. KnowsAssets(job'[w]) /\ CurrentAssets(job'[w])
  BY <1>2, <1>3 DEF KnowsAssets, CurrentAssets, DepreciationSound, AssetsCovered
<1> QED BY <1>4, TypedPapers, AssetsRead DEF PeriodLoad

LEMMA PeriodRowAdds ==
  ASSUME Typed, DepreciationSound, NEW w \in Workers, PeriodRow(w), Turn(w)
  PROVE  DepreciationSound'
<1> DEFINE left == job[w].left
           read == FirstOf(left)
           rest == left \ {read}
           row == [asset |-> read.asset, amount |-> Loss(read),
                   accumulated |-> read.accumulated + Loss(read)]
           rows == job[w].rows \union {row}
<1>1. /\ job[w] \in [step : {"period"}, period : Periods, left : SUBSET ReadAsset,
                     rows : SUBSET InsertedRow]
      /\ RunShape(job[w]) /\ job[w].step = "period"
  BY TypedPapers DEF PeriodRow, At, JobShape, AssetShape
<1>2. read \in left /\ read \in ReadAsset
  BY <1>1, FirstLeft DEF PeriodRow
<1>3. Loss(read) \in Nat \ {0} /\ read.accumulated \in Nat
  BY <1>1, <1>2, LossBounds DEF RunShape, ReadAsset
<1>4. row.asset = read.asset /\ row.accumulated - row.amount = read.accumulated
  BY <1>3
<1>5. KnowsAssets(job[w]) /\ (~overlap => CurrentAssets(job[w]))
  BY DEF DepreciationSound
<1>6. /\ \A x \in left : x.asset \in capitalized /\ x.accumulated <= RowsOf(x.asset)
      /\ \A r \in job[w].rows : /\ r.asset \in capitalized
                                /\ r.accumulated - r.amount <= RowsOf(r.asset)
  BY <1>1, <1>5 DEF KnowsAssets
<1>7. ~overlap =>
        /\ \A x \in left : x.accumulated = assets[x.asset].accumulated
        /\ \A r \in job[w].rows : /\ r.accumulated - r.amount = assets[r.asset].accumulated
                                  /\ Missing(r.asset, job[w].period)
  BY <1>1, <1>5 DEF CurrentAssets
<1>8. CASE ~Missing(read.asset, job[w].period)
  <2>1. Becomes(w, [job[w] EXCEPT !.left = rest])
    BY <1>8 DEF PeriodRow
  <2>2. /\ job'[w].step = "period" /\ job'[w].left = rest /\ job'[w].rows = job[w].rows
        /\ job'[w].period = job[w].period
    BY <1>1, <2>1, TypedPapers DEF Becomes, Jobs
  <2>3. KnowsAssets(job'[w]) /\ (~overlap => CurrentAssets(job'[w]))
    BY <1>6, <1>7, <2>2 DEF KnowsAssets, CurrentAssets
  <2> QED BY <2>3, TypedPapers, AssetsRead DEF PeriodRow
<1>9. CASE Missing(read.asset, job[w].period)
  <2>1. Becomes(w, [step |-> "period_row", period |-> job[w].period, left |-> rest,
                    asset |-> read.asset, rows |-> rows])
    BY <1>9 DEF PeriodRow
  <2>2. /\ job'[w].step = "period_row" /\ job'[w].left = rest /\ job'[w].rows = rows
        /\ job'[w].period = job[w].period
    BY <2>1, TypedPapers DEF Becomes, Jobs
  <2>3. \A r \in rows : r \in job[w].rows \/ r = row
    OBVIOUS
  <2> HIDE DEF row, rows
  <2>4. KnowsAssets(job'[w])
    BY <1>2, <1>4, <1>6, <2>2, <2>3 DEF KnowsAssets
  <2>5. ~overlap => CurrentAssets(job'[w])
    BY <1>2, <1>4, <1>7, <1>9, <2>2, <2>3 DEF CurrentAssets
  <2> QED BY <2>4, <2>5, TypedPapers, AssetsRead DEF PeriodRow
<1> QED BY <1>8, <1>9

LEMMA PeriodSaveAdds ==
  ASSUME Typed, DepreciationSound, NEW w \in Workers, PeriodSave(w), Turn(w)
  PROVE  DepreciationSound'
<1>1. /\ job'[w].step = "period" /\ job'[w].left = job[w].left /\ job'[w].rows = job[w].rows
      /\ job'[w].period = job[w].period /\ job[w].step = "period_row"
  BY TypedPapers DEF PeriodSave, Becomes, Jobs, At
<1>2. KnowsAssets(job'[w]) /\ (~overlap => CurrentAssets(job'[w]))
  BY <1>1 DEF KnowsAssets, CurrentAssets, DepreciationSound
<1> QED BY <1>2, TypedPapers, AssetsRead DEF PeriodSave

LEMMA PeriodCommitAdds ==
  ASSUME Typed, DepreciationSound, NEW w \in Workers, PeriodCommit(w), Turn(w)
  PROVE  DepreciationSound'
<1>1. /\ job[w].period \in Periods /\ RunShape(job[w])
      /\ \A a \in Inserting(w) : /\ RowOf(w, a) \in job[w].rows /\ RowOf(w, a).asset = a
                                 /\ RowOf(w, a) \in InsertedRow
  BY Committed
<1>2. job[w].step = "period" /\ job'[w].step = "idle" /\ capitalized' = capitalized
  BY TypedPapers DEF PeriodCommit, At, Respond, Becomes, Jobs, Idle
<1>3. /\ \A r \in job[w].rows : /\ r.asset \in capitalized
                                /\ r.accumulated - r.amount <= RowsOf(r.asset)
      /\ AssetsCovered
  BY <1>2 DEF DepreciationSound, KnowsAssets
<1>4. \A a \in Inserting(w) :
        /\ RowOf(w, a).amount \in Nat /\ RowOf(w, a).accumulated \in Nat
        /\ RowOf(w, a).accumulated <= Worth[a] /\ a \in capitalized
        /\ RowOf(w, a).accumulated - RowOf(w, a).amount <= RowsOf(a)
  BY <1>1, <1>3 DEF RunShape, InsertedRow
<1>5. \A a \in FixedAssets :
        /\ a \in Inserting(w) => RowsOf(a)' = RowsOf(a) + RowOf(w, a).amount
        /\ a \notin Inserting(w) => RowsOf(a)' = RowsOf(a)
        /\ RowsOf(a) \in Nat /\ Worth[a] \in Nat
  BY RowsGrow, RowsAre, AssetsAssumption
<1>6. \A a \in FixedAssets :
        /\ a \in Inserting(w) =>
             /\ assets'[a].status = IF RowOf(w, a).accumulated = Worth[a]
                                    THEN "FULLY_DEPRECIATED" ELSE "ACTIVE"
             /\ assets'[a].accumulated = RowOf(w, a).accumulated
        /\ a \notin Inserting(w) => assets'[a] = assets[a]
  BY Committed
<1>7. AssetsCovered'
  <2>1. SUFFICES ASSUME NEW a \in FixedAssets
                 PROVE  /\ assets'[a].status \in {"ACTIVE", "FULLY_DEPRECIATED"} => a \in capitalized
                        /\ assets'[a].accumulated <= Worth[a] /\ assets'[a].accumulated <= RowsOf(a)'
    BY <1>2 DEF AssetsCovered
  <2>2. CASE a \notin Inserting(w)
    BY <1>3, <1>5, <1>6, <2>2 DEF AssetsCovered
  <2>3. CASE a \in Inserting(w)
    BY <1>4, <1>5, <1>6, <2>3
  <2> QED BY <2>2, <2>3
<1>8. ASSUME ~overlap PROVE AssetsAdd'
  <2>1. /\ AssetsAdd
        /\ \A r \in job[w].rows : /\ r.accumulated - r.amount = assets[r.asset].accumulated
                                  /\ Missing(r.asset, job[w].period)
    BY <1>2, <1>8 DEF DepreciationSound, CurrentAssets
  <2>2. SUFFICES ASSUME NEW a \in FixedAssets
                 PROVE  /\ assets'[a].accumulated = RowsOf(a)'
                        /\ \A p \in Periods : Len(depreciated'[a][p]) <= 1
                        /\ assets'[a].status = "FULLY_DEPRECIATED" <=>
                             assets'[a].accumulated = Worth[a]
    BY DEF AssetsAdd
  <2>3. CASE a \notin Inserting(w)
    <3>1. depreciated'[a] = depreciated[a]
      BY <2>3, Committed
    <3> QED BY <1>5, <1>6, <2>1, <2>3, <3>1 DEF AssetsAdd
  <2>4. CASE a \in Inserting(w)
    <3>1. /\ RowOf(w, a).accumulated - RowOf(w, a).amount = RowsOf(a)
          /\ depreciated[a][job[w].period] = <<>>
      BY <1>1, <2>1, <2>4 DEF AssetsAdd, Missing
    <3>2. assets'[a].accumulated = RowsOf(a)'
      BY <1>4, <1>5, <1>6, <2>4, <3>1
    <3>3. depreciated'[a] = [depreciated[a] EXCEPT
                               ![job[w].period] = Append(depreciated[a][job[w].period], RowOf(w, a).amount)]
      BY <2>4, Committed
    <3>4. Append(<<>>, RowOf(w, a).amount) = <<RowOf(w, a).amount>>
      OBVIOUS
    <3>5. \A p \in Periods : Len(depreciated'[a][p]) <= 1
      BY <1>1, <2>1, <3>1, <3>3, <3>4, TypedAssets DEF AssetsAdd
    <3> QED BY <1>6, <2>4, <3>2, <3>5
  <2> QED BY <2>3, <2>4
<1>9. \A a \in FixedAssets : RowsOf(a)' \in Nat /\ RowsOf(a) <= RowsOf(a)'
  BY <1>4, <1>5
<1> QED BY <1>2, <1>7, <1>8, <1>9, AssetsSaved

LEMMA DepreciationInit == ControlsInit => Typed /\ DepreciationSound
<1> SUFFICES ASSUME ControlsInit PROVE DepreciationSound
  BY TypedInit
<1>1. /\ assets = [a \in FixedAssets |-> NoAsset] /\ capitalized = {}
      /\ depreciated = [a \in FixedAssets |-> [p \in Periods |-> <<>>]]
      /\ job = [w \in Workers |-> Idle]
  BY DEF ControlsInit, AllInit, Init, LedgerInit
<1>2. \A a \in FixedAssets : assets[a].status = "ABSENT" /\ assets[a].accumulated = 0
  BY <1>1 DEF NoAsset
<1>3. \A a \in FixedAssets : RowsOf(a) = 0 /\ Worth[a] \in Nat \ {0}
  BY <1>1, TypedInit, NoRows, AssetsAssumption
<1>4. AssetsCovered /\ AssetsAdd
  BY <1>1, <1>2, <1>3 DEF AssetsCovered, AssetsAdd
<1>5. \A w \in Workers : KnowsAssets(job[w]) /\ CurrentAssets(job[w])
  BY <1>1 DEF KnowsAssets, CurrentAssets, Idle
<1> QED BY <1>4, <1>5 DEF DepreciationSound

LEMMA DepreciationStep ==
  ASSUME Typed, Serial, DepreciationSound, [ControlsNext]_controlsVars
  PROVE  DepreciationSound'
<1>1. CASE UNCHANGED controlsVars
  BY <1>1 DEF controlsVars, allVars, vars, assetVars, DepreciationSound, AssetsCovered, AssetsAdd,
              KnowsAssets, CurrentAssets, RowsOf, Missing
<1>2. CASE ControlsNext
  <2>1. PICK w \in Workers :
          /\ Turn(w)
          /\ AssetStep(w) \/ (UNCHANGED assetVars /\ job'[w].step \notin AssetSteps)
    BY <1>2, SomeTurn DEF AssetSteps, PaperSteps, MoneySteps, ControlSteps
  <2>2. CASE UNCHANGED assetVars /\ job'[w].step \notin AssetSteps
    BY <2>1, <2>2, TypedPapers, AssetsElsewhere
  <2>3. CASE AssetStep(w)
    BY <2>1, <2>3, CreateAssetAdds, AssetLoadAdds, AssetSaveAdds, DeleteAssetAdds, PeriodLoadAdds,
       PeriodRowAdds, PeriodSaveAdds, PeriodCommitAdds DEF AssetStep
  <2> QED BY <2>1, <2>2, <2>3
<1> QED BY <1>1, <1>2

\* However runs, approvals and edits overlap, what is depreciated has been
\* capitalized and an asset never loses more than it has or than its rows say; one
\* request at a time takes a period once and knows when nothing is left.
THEOREM DepreciationAddsUp == ControlsSpec => []DepreciationAdds
<1>1. ControlsInit => DepreciationSound
  BY DepreciationInit
<1>2. Typed /\ Serial /\ DepreciationSound /\ [ControlsNext]_controlsVars => DepreciationSound'
  BY DepreciationStep
<1>3. DepreciationSound => DepreciationAdds
  BY DEF DepreciationSound, AssetsCovered, AssetsAdd, DepreciationAdds
<1> QED BY <1>1, <1>2, <1>3, FinanceSteady, PTL DEF ControlsSpec

----
(* Budgets.                                                                *)
(*                                                                         *)
(* A budget has lines as soon as it is there, and an approval has seen     *)
(* some; no request takes a budget into force but from an approval.  One   *)
(* request at a time has read the lines, the version and the status that   *)
(* are still there.                                                        *)

\* What a request knows of its budget.
KnowsBudget(j) ==
  j.step = "budget" =>
    /\ j.status = "APPROVED" => j.lines # 0
    /\ j.status = "ACTIVE" => approvedLines[j.control] # 0

BudgetsCovered ==
  \A b \in Budgets :
    /\ budgets[b].status # "ABSENT" => budgetLines[b] # 0
    /\ InForce(b) => approvedLines[b] # 0

\* One request at a time, what is in force is what was approved ...
BudgetsAgree ==
  \A b \in Budgets : InForce(b) => approvedLines[b] = budgetLines[b]

VersionsCount ==
  "delete_revision" \notin clients =>
    \A b \in Budgets : budgets[b].version = 1 + Cardinality(ApprovedOf(b))

\* ... and what a request has read still holds.
CurrentBudget(j) ==
  /\ j.step = "edit_budget" =>
       /\ budgets[j.control].status \in {"DRAFT", "REJECTED"}
       /\ j.read.version = budgets[j.control].version
  /\ j.step = "budget" =>
       /\ j.lines = budgetLines[j.control]
       /\ j.status = "ACTIVE" => InForce(j.control)
  /\ j.step = "submit_revision" => revisions[j.control].status = "DRAFT"
  /\ j.step = "approve_revision" =>
       /\ revisions[j.control].status = "PENDING_APPROVAL"
       /\ j.version = budgets[revisions[j.control].of].version

BudgetsSound ==
  /\ BudgetsCovered
  /\ \A w \in Workers : KnowsBudget(job[w])
  /\ ~overlap => BudgetsAgree /\ VersionsCount /\ \A w \in Workers : CurrentBudget(job[w])

LEMMA BudgetsRead ==
  ASSUME Jobs, BudgetsSound, NEW w \in Workers, Turn(w), UNCHANGED budgetVars,
         KnowsBudget(job'[w]), ~overlap => CurrentBudget(job'[w])
  PROVE  BudgetsSound'
<1>1. BudgetsCovered' /\ (~overlap => BudgetsAgree' /\ VersionsCount')
  BY DEF BudgetsSound, BudgetsCovered, BudgetsAgree, VersionsCount, budgetVars, InForce, ApprovedOf,
         Turn
<1>2. \A v \in Workers : v # w => job'[v] = job[v]
  BY DEF Turn, Jobs
<1>3. \A v \in Workers : KnowsBudget(job'[v])
  BY <1>2 DEF BudgetsSound
<1>4. \A v \in Workers : KnowsBudget(job[v])'
  BY <1>3 DEF KnowsBudget, budgetVars
<1>5. ~overlap => \A v \in Workers : CurrentBudget(job'[v])
  BY <1>2 DEF BudgetsSound
<1>6. ~overlap => \A v \in Workers : CurrentBudget(job[v])'
  BY <1>5 DEF CurrentBudget, budgetVars, InForce
<1> QED BY <1>1, <1>4, <1>6 DEF BudgetsSound, Turn

LEMMA BudgetsElsewhere ==
  ASSUME Jobs, BudgetsSound, NEW w \in Workers, Turn(w), UNCHANGED budgetVars,
         job'[w].step \notin {"edit_budget", "budget", "submit_revision", "approve_revision"}
  PROVE  BudgetsSound'
<1>1. KnowsBudget(job'[w]) /\ CurrentBudget(job'[w])
  BY DEF KnowsBudget, CurrentBudget
<1> QED BY <1>1, BudgetsRead

\* A step that writes budgets or revisions, after which its worker is idle.
LEMMA BudgetsSaved ==
  ASSUME Typed, BudgetsSound, NEW w \in Workers, Turn(w), job'[w].step = "idle",
         BudgetsCovered', ~overlap => BudgetsAgree' /\ VersionsCount',
         \A b \in Budgets : approvedLines[b] # 0 => approvedLines'[b] # 0
  PROVE  BudgetsSound'
<1>1. \A v \in Workers : v # w => job'[v] = job[v]
  BY TypedPapers DEF Turn, Jobs
<1>2. ASSUME NEW v \in Workers PROVE KnowsBudget(job[v])'
  <2>1. CASE v = w
    BY <2>1 DEF KnowsBudget
  <2>2. CASE v # w
    <3>1. job'[v] = job[v] /\ KnowsBudget(job[v])
          /\ (job[v].step = "budget" => job[v].control \in Budgets)
      BY <1>1, <2>2, TypedPapers DEF BudgetsSound, JobShape, ControlShape
    <3> QED BY <3>1 DEF KnowsBudget
  <2> QED BY <2>1, <2>2
<1>3. ASSUME ~overlap, NEW v \in Workers PROVE CurrentBudget(job[v])'
  <2>1. job'[v].step = "idle"
    BY <1>1, <1>3 DEF Turn, Alone, Others, At
  <2> QED BY <2>1 DEF CurrentBudget
<1> QED BY <1>2, <1>3 DEF BudgetsSound, Turn

LEMMA CreateBudgetSound ==
  ASSUME Typed, BudgetsSound, NEW w \in Workers, CreateBudget(w), Turn(w)
  PROVE  BudgetsSound'
<1>1. PICK b \in Budgets : /\ budgetLines[b] = 0
                           /\ budgets' = [budgets EXCEPT ![b].status = "DRAFT"]
                           /\ budgetLines' = [budgetLines EXCEPT ![b] = 1]
  BY DEF CreateBudget
<1>2. approvedLines' = approvedLines /\ revisions' = revisions /\ job' = job /\ At(w, "idle")
  BY DEF CreateBudget, Takes
<1>3. budgets[b] \in BudgetRow
  BY TypedControls
<1>4. /\ budgets'[b].status = "DRAFT" /\ budgets'[b].version = budgets[b].version
      /\ budgetLines'[b] = 1
      /\ \A x \in Budgets \ {b} : budgets'[x] = budgets[x] /\ budgetLines'[x] = budgetLines[x]
  BY <1>1, <1>3, TypedControls DEF BudgetRow
<1>5. BudgetsCovered'
  BY <1>2, <1>4 DEF BudgetsCovered, BudgetsSound, InForce
<1>6. ~overlap => BudgetsAgree' /\ VersionsCount'
  BY <1>2, <1>4 DEF BudgetsAgree, VersionsCount, BudgetsSound, InForce, ApprovedOf, Turn
<1> QED BY <1>2, <1>5, <1>6, BudgetsSaved DEF At

LEMMA EditBudgetLoadSound ==
  ASSUME Typed, BudgetsSound, NEW w \in Workers, EditBudgetLoad(w), Turn(w)
  PROVE  BudgetsSound'
<1>1. PICK b \in Budgets :
        /\ OpenToEdits(b)
        /\ Becomes(w, [step |-> "edit_budget", control |-> b, read |-> budgets[b]])
  BY DEF EditBudgetLoad
<1>2. job'[w] = [step |-> "edit_budget", control |-> b, read |-> budgets[b]]
  BY <1>1, TypedPapers DEF Becomes, Jobs
<1>3. KnowsBudget(job'[w]) /\ CurrentBudget(job'[w])
  BY <1>1, <1>2 DEF KnowsBudget, CurrentBudget, OpenToEdits
<1> QED BY <1>3, TypedPapers, BudgetsRead DEF EditBudgetLoad, controls, budgetVars

LEMMA EditBudgetSaveSound ==
  ASSUME Typed, BudgetsSound, NEW w \in Workers, EditBudgetSave(w), Turn(w)
  PROVE  BudgetsSound'
<1> DEFINE b == job[w].control
           read == job[w].read
<1>1. b \in Budgets /\ read.status \in {"DRAFT", "REJECTED"} /\ job[w].step = "edit_budget"
  BY TypedPapers DEF EditBudgetSave, At, JobShape, ControlShape
<1>2. /\ budgets' = [budgets EXCEPT ![b] = read] /\ budgetLines' = [budgetLines EXCEPT ![b] = @ + 1]
      /\ approvedLines' = approvedLines /\ revisions' = revisions /\ job'[w].step = "idle"
  BY TypedPapers DEF EditBudgetSave, Respond, Becomes, Jobs, Idle
<1> HIDE DEF b, read
<1>3. /\ budgets'[b] = read /\ budgetLines'[b] = budgetLines[b] + 1 /\ budgetLines[b] \in Nat
      /\ \A x \in Budgets \ {b} : budgets'[x] = budgets[x] /\ budgetLines'[x] = budgetLines[x]
  BY <1>1, <1>2, TypedControls
<1>4. BudgetsCovered'
  BY <1>1, <1>2, <1>3 DEF BudgetsCovered, BudgetsSound, InForce
<1>5. ASSUME ~overlap PROVE BudgetsAgree' /\ VersionsCount'
  <2>1. read.version = budgets[b].version /\ BudgetsAgree /\ VersionsCount
    BY <1>1, <1>5 DEF BudgetsSound, CurrentBudget, b, read
  <2> QED BY <1>1, <1>2, <1>3, <2>1 DEF BudgetsAgree, VersionsCount, InForce, ApprovedOf, Turn
<1> QED BY <1>2, <1>4, <1>5, BudgetsSaved

LEMMA DeleteBudgetSound ==
  ASSUME Typed, BudgetsSound, NEW w \in Workers, DeleteBudget(w), Turn(w)
  PROVE  BudgetsSound'
<1>1. PICK b \in Budgets : /\ \A r \in Revisions : revisions[r].of # b
                           /\ budgets' = [budgets EXCEPT ![b] = NoBudget]
  BY DEF DeleteBudget
<1>2. /\ approvedLines' = approvedLines /\ budgetLines' = budgetLines /\ revisions' = revisions
      /\ job' = job /\ At(w, "idle")
  BY DEF DeleteBudget, Takes
<1>3. /\ budgets'[b].status = "ABSENT" /\ budgets'[b].version = 1
      /\ \A x \in Budgets \ {b} : budgets'[x] = budgets[x]
  BY <1>1, TypedControls DEF NoBudget
<1>4. BudgetsCovered'
  BY <1>2, <1>3 DEF BudgetsCovered, BudgetsSound, InForce
<1>5. Cardinality(ApprovedOf(b)) = 0
  <2>1. ApprovedOf(b) = {}
    BY <1>1 DEF ApprovedOf
  <2> QED BY <2>1, FS_EmptySet
<1>6. ~overlap => BudgetsAgree' /\ VersionsCount'
  <2>1. \A x \in Budgets : ApprovedOf(x)' = ApprovedOf(x)
    BY <1>2 DEF ApprovedOf
  <2> QED BY <1>2, <1>3, <1>5, <2>1 DEF BudgetsAgree, VersionsCount, BudgetsSound, InForce, Turn
<1> QED BY <1>2, <1>4, <1>6, BudgetsSaved DEF At

LEMMA BudgetLoadSound ==
  ASSUME Typed, BudgetsSound, NEW w \in Workers, BudgetLoad(w), Turn(w)
  PROVE  BudgetsSound'
<1>1. PICK b \in Budgets, move \in BudgetMoves :
        /\ budgets[b].status \in move.from
        /\ Becomes(w, [step |-> "budget", control |-> b, status |-> move.to,
                       lines |-> budgetLines[b]])
  BY DEF BudgetLoad
<1>2. job'[w] = [step |-> "budget", control |-> b, status |-> move.to, lines |-> budgetLines[b]]
  BY <1>1, TypedPapers DEF Becomes, Jobs
<1>3. budgets[b].status # "ABSENT" /\ (move.to = "ACTIVE" => budgets[b].status = "APPROVED")
  BY <1>1 DEF BudgetMoves
<1>4. KnowsBudget(job'[w]) /\ CurrentBudget(job'[w])
  BY <1>2, <1>3 DEF KnowsBudget, CurrentBudget, BudgetsSound, BudgetsCovered, InForce
<1> QED BY <1>4, TypedPapers, BudgetsRead DEF BudgetLoad, controls, budgetVars

LEMMA BudgetSaveSound ==
  ASSUME Typed, BudgetsSound, NEW w \in Workers, BudgetSave(w), Turn(w)
  PROVE  BudgetsSound'
<1> DEFINE b == job[w].control
           status == job[w].status
           seen == job[w].lines
<1>1. b \in Budgets /\ status \in BudgetStatuses /\ seen \in 0..MaxBudgetLines
      /\ job[w].step = "budget"
  BY TypedPapers DEF BudgetSave, At, JobShape, ControlShape
<1>2. /\ budgets' = [budgets EXCEPT ![b].status = status] /\ budgets[b].status # "ABSENT"
      /\ approvedLines' = IF status = "APPROVED" THEN [approvedLines EXCEPT ![b] = seen]
                          ELSE approvedLines
      /\ budgetLines' = budgetLines /\ revisions' = revisions /\ job'[w].step = "idle"
  BY TypedPapers DEF BudgetSave, Respond, Becomes, Jobs, Idle
<1>3. KnowsBudget(job[w]) /\ BudgetsCovered
  BY DEF BudgetsSound
<1>4. (status = "APPROVED" => seen # 0) /\ (status = "ACTIVE" => approvedLines[b] # 0)
  BY <1>1, <1>3 DEF KnowsBudget
<1> HIDE DEF b, status, seen
<1>5. budgets[b] \in BudgetRow
  BY <1>1, TypedControls
<1>6. /\ budgets'[b].status = status /\ budgets'[b].version = budgets[b].version
      /\ \A x \in Budgets \ {b} : budgets'[x] = budgets[x]
      /\ approvedLines'[b] = IF status = "APPROVED" THEN seen ELSE approvedLines[b]
      /\ \A x \in Budgets \ {b} : approvedLines'[x] = approvedLines[x]
  BY <1>1, <1>2, <1>5, TypedControls DEF BudgetRow
<1>7. BudgetsCovered'
  BY <1>1, <1>2, <1>3, <1>4, <1>6 DEF BudgetsCovered, InForce
<1>8. ASSUME ~overlap PROVE BudgetsAgree' /\ VersionsCount'
  <2>1. /\ seen = budgetLines[b] /\ (status = "ACTIVE" => InForce(b))
        /\ BudgetsAgree /\ VersionsCount
    BY <1>1, <1>8 DEF BudgetsSound, CurrentBudget, b, status, seen
  <2>2. BudgetsAgree'
    BY <1>1, <1>2, <1>6, <2>1 DEF BudgetsAgree, InForce
  <2>3. VersionsCount'
    BY <1>2, <1>6, <2>1 DEF VersionsCount, ApprovedOf, Turn
  <2> QED BY <2>2, <2>3
<1>9. \A x \in Budgets : approvedLines[x] # 0 => approvedLines'[x] # 0
  BY <1>4, <1>6
<1> QED BY <1>2, <1>7, <1>8, <1>9, BudgetsSaved

\* A step on a revision that is not approved before or after it leaves the budgets.
LEMMA RevisionsKept ==
  ASSUME Typed, BudgetsSound, NEW w \in Workers, Turn(w), job'[w].step = "idle",
         UNCHANGED <<budgets, budgetLines, approvedLines>>,
         ~overlap /\ "delete_revision" \notin clients =>
           \A x \in Revisions : revisions'[x] = revisions[x]
             \/ (revisions[x].status # "APPROVED" /\ revisions'[x].status # "APPROVED")
  PROVE  BudgetsSound'
<1>1. BudgetsCovered' /\ (~overlap => BudgetsAgree')
  BY DEF BudgetsSound, BudgetsCovered, BudgetsAgree, InForce
<1>2. ASSUME ~overlap, "delete_revision" \notin clients, NEW b \in Budgets
      PROVE  ApprovedOf(b)' = ApprovedOf(b)
  BY <1>2 DEF ApprovedOf
<1>3. ~overlap => VersionsCount'
  BY <1>2 DEF BudgetsSound, VersionsCount, Turn
<1> QED BY <1>1, <1>3, BudgetsSaved

LEMMA CreateRevisionSound ==
  ASSUME Typed, BudgetsSound, NEW w \in Workers, CreateRevision(w), Turn(w)
  PROVE  BudgetsSound'
<1>1. PICK r \in Revisions, b \in Budgets :
        /\ revisions[r] = NoRevision
        /\ revisions' = [revisions EXCEPT ![r] = [status |-> "DRAFT", of |-> b]]
  BY DEF CreateRevision
<1>2. \A x \in Revisions : revisions'[x] = revisions[x]
        \/ (revisions[x].status # "APPROVED" /\ revisions'[x].status # "APPROVED")
  <2>1. revisions[r].status = "ABSENT"
    BY <1>1 DEF NoRevision
  <2>2. revisions'[r].status = "DRAFT"
    BY <1>1, TypedControls
  <2>3. \A x \in Revisions \ {r} : revisions'[x] = revisions[x]
    BY <1>1, TypedControls
  <2> QED BY <2>1, <2>2, <2>3
<1>3. job'[w].step = "idle"
  BY DEF CreateRevision, Takes, At
<1> QED BY <1>2, <1>3, RevisionsKept DEF CreateRevision

LEMMA DeleteRevisionSound ==
  ASSUME Typed, BudgetsSound, NEW w \in Workers, DeleteRevision(w), Turn(w)
  PROVE  BudgetsSound'
<1>1. "delete_revision" \in clients /\ job'[w].step = "idle"
  BY DEF DeleteRevision, Takes, At
<1> QED BY <1>1, RevisionsKept DEF DeleteRevision

LEMMA RevisionLoadSound ==
  ASSUME Typed, BudgetsSound, NEW w \in Workers, RevisionLoad(w), Turn(w)
  PROVE  BudgetsSound'
<1>1. PICK r \in Revisions, kind \in {"submit_revision", "approve_revision"} :
        /\ revisions[r].status = IF kind = "submit_revision" THEN "DRAFT" ELSE "PENDING_APPROVAL"
        /\ Becomes(w, [step |-> kind, control |-> r,
                       version |-> budgets[revisions[r].of].version])
  BY DEF RevisionLoad
<1>2. job'[w] = [step |-> kind, control |-> r, version |-> budgets[revisions[r].of].version]
  BY <1>1, TypedPapers DEF Becomes, Jobs
<1>3. KnowsBudget(job'[w]) /\ CurrentBudget(job'[w])
  BY <1>1, <1>2 DEF KnowsBudget, CurrentBudget
<1> QED BY <1>3, TypedPapers, BudgetsRead DEF RevisionLoad, controls, budgetVars

LEMMA SubmitRevisionSound ==
  ASSUME Typed, BudgetsSound, NEW w \in Workers, SubmitRevision(w), Turn(w)
  PROVE  BudgetsSound'
<1> DEFINE r == job[w].control
<1>1. /\ r \in Revisions /\ job[w].step = "submit_revision" /\ job'[w].step = "idle"
      /\ revisions' = [revisions EXCEPT ![r].status = "PENDING_APPROVAL"]
  BY TypedPapers DEF SubmitRevision, At, JobShape, ControlShape, Respond, Becomes, Jobs, Idle
<1>2. revisions[r] \in RevisionRow
  BY <1>1, TypedControls
<1>3. /\ revisions'[r].status = "PENDING_APPROVAL"
      /\ \A x \in Revisions \ {r} : revisions'[x] = revisions[x]
  BY <1>1, <1>2, TypedControls DEF RevisionRow
<1>4. ~overlap => revisions[r].status = "DRAFT"
  BY <1>1 DEF BudgetsSound, CurrentBudget
<1> QED BY <1>1, <1>3, <1>4, RevisionsKept DEF SubmitRevision

LEMMA ApproveRevisionSound ==
  ASSUME Typed, BudgetsSound, NEW w \in Workers, ApproveRevision(w), Turn(w)
  PROVE  BudgetsSound'
<1>1. PICK r \in Revisions, version \in Nat :
        /\ r = job[w].control /\ version = NextVersion(job[w].version)
        /\ job[w].step = "approve_revision" /\ job'[w].step = "idle"
        /\ revisions[r] # NoRevision
        /\ revisions' = [revisions EXCEPT ![r].status = "APPROVED"]
        /\ budgets' = [budgets EXCEPT ![revisions[r].of].version = version]
        /\ budgetLines' = budgetLines /\ approvedLines' = approvedLines
        /\ job[w].version \in Nat
  <2>1. job[w].control \in Revisions /\ job[w].version \in Nat /\ job[w].step = "approve_revision"
    BY TypedPapers DEF ApproveRevision, At, JobShape, ControlShape
  <2>2. NextVersion(job[w].version) \in Nat
    BY <2>1 DEF NextVersion
  <2>3. job'[w].step = "idle"
    BY TypedPapers DEF ApproveRevision, Respond, Becomes, Jobs, Idle
  <2> QED BY <2>1, <2>2, <2>3 DEF ApproveRevision
<1>2. PICK b \in Budgets : b = revisions[r].of /\ revisions[r] \in RevisionRow
  BY <1>1, TypedControls
<1>3. budgets[b] \in BudgetRow
  BY <1>2, TypedControls
<1>4. /\ revisions'[r] = [status |-> "APPROVED", of |-> b]
      /\ \A x \in Revisions \ {r} : revisions'[x] = revisions[x]
  BY <1>1, <1>2, TypedControls DEF RevisionRow
<1>5. /\ budgets'[b].version = version /\ budgets'[b].status = budgets[b].status
      /\ \A x \in Budgets \ {b} : budgets'[x] = budgets[x]
  BY <1>1, <1>2, <1>3, TypedControls DEF BudgetRow
<1>6. BudgetsCovered' /\ (~overlap => BudgetsAgree')
  BY ZenonT(60), <1>1, <1>5 DEF BudgetsSound, BudgetsCovered, BudgetsAgree, InForce
<1>7. ASSUME ~overlap PROVE VersionsCount'
  <2>1. /\ revisions[r].status = "PENDING_APPROVAL" /\ job[w].version = budgets[b].version
        /\ VersionsCount
    BY <1>1, <1>2, <1>7 DEF BudgetsSound, CurrentBudget
  <2>2. r \notin ApprovedOf(b) /\ ApprovedOf(b)' = ApprovedOf(b) \union {r}
        /\ IsFiniteSet(ApprovedOf(b))
    <3>1. r \notin ApprovedOf(b)
      BY <1>1, <2>1 DEF ApprovedOf
    <3>2. ApprovedOf(b)' = {x \in Revisions : revisions'[x] = [status |-> "APPROVED", of |-> b]}
      BY DEF ApprovedOf
    <3>3. ApprovedOf(b)' = ApprovedOf(b) \union {r}
      BY <1>1, <1>4, <3>2 DEF ApprovedOf
    <3>4. ApprovedOf(b) \subseteq Revisions
      BY DEF ApprovedOf
    <3>5. IsFiniteSet(ApprovedOf(b))
      BY <3>4, ControlsAssumption, FS_Subset
    <3> QED BY <3>1, <3>3, <3>5
  <2>3. Cardinality(ApprovedOf(b))' = Cardinality(ApprovedOf(b)) + 1
    BY <2>2, FS_AddElement
  <2>4. \A x \in Budgets \ {b} : ApprovedOf(x)' = ApprovedOf(x)
    BY <1>1, <1>4, <2>1 DEF ApprovedOf
  <2>5. version = job[w].version + 1
    BY <1>1 DEF NextVersion
  <2>6. Cardinality(ApprovedOf(b)) \in Nat
    BY <2>2, FS_CardinalityType
  <2>7. SUFFICES ASSUME "delete_revision" \notin clients, NEW x \in Budgets
                 PROVE  budgets'[x].version = 1 + Cardinality(ApprovedOf(x))'
    BY DEF VersionsCount, Turn
  <2>8. CASE x = b
    BY <1>2, <1>5, <2>1, <2>3, <2>5, <2>6, <2>7, <2>8 DEF VersionsCount
  <2>9. CASE x # b
    BY <1>5, <2>1, <2>4, <2>7, <2>9 DEF VersionsCount
  <2> QED BY <2>8, <2>9
<1> QED BY <1>1, <1>6, <1>7, BudgetsSaved

LEMMA BudgetsInit == ControlsInit => BudgetsSound
<1> SUFFICES ASSUME ControlsInit PROVE BudgetsSound
  OBVIOUS
<1>1. /\ budgets = [b \in Budgets |-> NoBudget] /\ revisions = [r \in Revisions |-> NoRevision]
      /\ job = [w \in Workers |-> Idle]
  BY DEF ControlsInit, AllInit, Init, LedgerInit
<1>2. \A b \in Budgets : budgets[b].status = "ABSENT" /\ budgets[b].version = 1
  BY <1>1 DEF NoBudget
<1>3. \A b \in Budgets : Cardinality(ApprovedOf(b)) = 0
  <2>1. \A b \in Budgets : ApprovedOf(b) = {}
    BY <1>1 DEF ApprovedOf, NoRevision
  <2> QED BY <2>1, FS_EmptySet
<1>4. BudgetsCovered /\ BudgetsAgree /\ VersionsCount
  BY <1>2, <1>3 DEF BudgetsCovered, BudgetsAgree, VersionsCount, InForce
<1>5. \A w \in Workers : KnowsBudget(job[w]) /\ CurrentBudget(job[w])
  BY <1>1 DEF KnowsBudget, CurrentBudget, Idle
<1> QED BY <1>4, <1>5 DEF BudgetsSound

LEMMA BudgetsStep ==
  ASSUME Typed, Serial, BudgetsSound, [ControlsNext]_controlsVars
  PROVE  BudgetsSound'
<1>1. CASE UNCHANGED controlsVars
  BY <1>1 DEF controlsVars, allVars, vars, controls, BudgetsSound, BudgetsCovered, BudgetsAgree,
              VersionsCount, KnowsBudget, CurrentBudget, InForce, ApprovedOf
<1>2. CASE ControlsNext
  <2>1. ASSUME NEW w \in Workers, ReturnStep(w)
        PROVE  job'[w].step \notin {"edit_budget", "budget", "submit_revision", "approve_revision"}
    <3>1. CASE CreateReturn(w)
      BY <3>1 DEF CreateReturn, Takes, At
    <3>2. CASE PrepareSales(w)
      BY <3>2, TypedPapers DEF PrepareSales, Becomes, Jobs
    <3>3. CASE PrepareReturn(w)
      BY <3>3, TypedPapers DEF PrepareReturn, Respond, Becomes, Jobs, Idle
    <3>4. CASE DeleteReturn(w)
      BY <3>4 DEF DeleteReturn, Takes, At
    <3>5. CASE EditReturnLoad(w)
      BY <3>5, TypedPapers DEF EditReturnLoad, Becomes, Jobs
    <3>6. CASE EditReturnSave(w)
      BY <3>6, TypedPapers DEF EditReturnSave, Respond, Becomes, Jobs, Idle
    <3>7. CASE ReturnLoad(w)
      BY <3>7, TypedPapers DEF ReturnLoad, Becomes, Jobs
    <3>8. CASE ReturnSave(w)
      BY <3>8, TypedPapers DEF ReturnSave, Respond, Becomes, Jobs, Idle
    <3> QED BY <2>1, <3>1, <3>2, <3>3, <3>4, <3>5, <3>6, <3>7, <3>8 DEF ReturnStep
  <2>2. PICK w \in Workers :
          /\ Turn(w)
          /\ \/ BudgetStep(w)
             \/ /\ UNCHANGED budgetVars
                /\ job'[w].step \in PaperSteps \union MoneySteps \union AssetSteps \union {"idle"}
             \/ UNCHANGED budgetVars /\ ReturnStep(w)
    BY <1>2, SomeTurn DEF controls, budgetVars
  <2>3. CASE UNCHANGED budgetVars /\ job'[w].step \in
               PaperSteps \union MoneySteps \union AssetSteps \union {"idle"}
    BY <2>2, <2>3, TypedPapers, BudgetsElsewhere DEF PaperSteps, MoneySteps, AssetSteps
  <2>4. CASE UNCHANGED budgetVars /\ ReturnStep(w)
    BY <2>1, <2>2, <2>4, TypedPapers, BudgetsElsewhere
  <2>5. CASE BudgetStep(w)
    BY <2>2, <2>5, CreateBudgetSound, EditBudgetLoadSound, EditBudgetSaveSound, DeleteBudgetSound,
       BudgetLoadSound, BudgetSaveSound, CreateRevisionSound, DeleteRevisionSound,
       RevisionLoadSound, SubmitRevisionSound, ApproveRevisionSound DEF BudgetStep
  <2> QED BY <2>2, <2>3, <2>4, <2>5
<1> QED BY <1>1, <1>2

----
(* VAT returns.                                                            *)
(*                                                                         *)
(* A return is approved once and for all; a request to file it has seen    *)
(* it approved and says whether it is paid.  Its figures are those that it *)
(* was prepared with, unless a PATCH changes one of them.                  *)

Authorized(status) == status \in {"APPROVED", "FILED", "PAID"}

\* The figures of a row, and its payment, agree.
Figures(row) ==
  LET due == row.output - row.input - row.credit
  IN /\ row.net >= due /\ (row.net > 0 => row.net = due)
     /\ row.status \in {"FILED", "PAID"} => (row.status = "PAID" <=> row.payment = "PAID")

ReturnsCovered ==
  /\ \A v \in Returns : Authorized(returns[v].status) => v \in approvedReturns
  /\ \A v, x \in Returns :
       ~(/\ v # x /\ returns[v].status # "ABSENT" /\ returns[x].status # "ABSENT"
         /\ returns[v].scope # "all" /\ returns[v].scope = returns[x].scope
         /\ returns[v].type = returns[x].type /\ returns[v].period = returns[x].period)
  /\ "edit_return" \notin clients => \A v \in Returns : Figures(returns[v])

\* What a request knows of its return.
KnowsReturn(j) ==
  /\ j.step = "edit_return" =>
       /\ "edit_return" \in clients
       /\ Authorized(j.read.status) => j.control \in approvedReturns
  /\ j.step = "return" =>
       /\ j.status \in {"FILED", "PAID"} =>
            /\ j.control \in approvedReturns
            /\ j.payment = IF j.status = "PAID" THEN "PAID" ELSE "NOT_PAID"

ReturnsSound == ReturnsCovered /\ \A w \in Workers : KnowsReturn(job[w])

LEMMA ReturnsRead ==
  ASSUME Jobs, ReturnsSound, NEW w \in Workers, Turn(w), UNCHANGED returnVars, KnowsReturn(job'[w])
  PROVE  ReturnsSound'
<1>1. ReturnsCovered'
  BY DEF ReturnsSound, ReturnsCovered, returnVars, Turn
<1>2. \A v \in Workers : v # w => job'[v] = job[v]
  BY DEF Turn, Jobs
<1>3. \A v \in Workers : KnowsReturn(job'[v])
  BY <1>2 DEF ReturnsSound
<1>4. \A v \in Workers : KnowsReturn(job[v])'
  BY <1>3 DEF KnowsReturn, returnVars, Turn
<1> QED BY <1>1, <1>4 DEF ReturnsSound

LEMMA ReturnsElsewhere ==
  ASSUME Jobs, ReturnsSound, NEW w \in Workers, Turn(w), UNCHANGED returnVars,
         job'[w].step \notin {"edit_return", "return"}
  PROVE  ReturnsSound'
<1>1. KnowsReturn(job'[w])
  BY DEF KnowsReturn
<1> QED BY <1>1, ReturnsRead

\* A row that is written over a return.
LEMMA ReturnWritten ==
  ASSUME Typed, ReturnsSound, NEW w \in Workers, Turn(w), job'[w].step = "idle",
         NEW v \in Returns, NEW row, returns' = [returns EXCEPT ![v] = row],
         row.status = "ABSENT" \/ ScopeFree(v, row),
         approvedReturns \subseteq approvedReturns',
         Authorized(row.status) => v \in approvedReturns',
         "edit_return" \notin clients => Figures(row)
  PROVE  ReturnsSound'
<1>1. returns'[v] = row /\ \A x \in Returns \ {v} : returns'[x] = returns[x]
  BY TypedControls
<1>2. \A x \in Returns : Authorized(returns'[x].status) => x \in approvedReturns'
  BY <1>1 DEF ReturnsSound, ReturnsCovered
<1>3. \A x, y \in Returns :
        ~(/\ x # y /\ returns'[x].status # "ABSENT" /\ returns'[y].status # "ABSENT"
          /\ returns'[x].scope # "all" /\ returns'[x].scope = returns'[y].scope
          /\ returns'[x].type = returns'[y].type /\ returns'[x].period = returns'[y].period)
  BY <1>1 DEF ReturnsSound, ReturnsCovered, ScopeFree
<1>4. "edit_return" \notin clients => \A x \in Returns : Figures(returns'[x])
  BY <1>1 DEF ReturnsSound, ReturnsCovered
<1>5. ReturnsCovered'
  <2>1. \A x \in Returns : Figures(returns[x])' <=> Figures(returns'[x])
    BY DEF Figures
  <2>2. \A x \in Returns : Authorized(returns[x].status)' <=> Authorized(returns'[x].status)
    BY DEF Authorized
  <2> QED BY <1>2, <1>3, <1>4, <2>1, <2>2 DEF ReturnsCovered, Turn
<1>6. ASSUME NEW u \in Workers PROVE KnowsReturn(job[u])'
  <2>1. CASE u = w
    BY <2>1 DEF KnowsReturn
  <2>2. CASE u # w
    <3>1. job'[u] = job[u] /\ KnowsReturn(job[u])
      BY <2>2, TypedPapers DEF ReturnsSound, Turn, Jobs
    <3> QED BY <3>1 DEF KnowsReturn, Turn, Authorized
  <2> QED BY <2>1, <2>2
<1> QED BY <1>5, <1>6 DEF ReturnsSound

LEMMA CreateReturnSound ==
  ASSUME Typed, ReturnsSound, NEW w \in Workers, CreateReturn(w), Turn(w)
  PROVE  ReturnsSound'
<1>1. PICK v \in Returns, p \in Periods, scope \in Scopes, type \in Sent, credit \in Credits,
           payment \in PaymentStatuses :
        /\ ScopeFree(v, FilledIn(p, scope, type, credit, payment))
        /\ returns' = [returns EXCEPT ![v] = FilledIn(p, scope, type, credit, payment)]
  BY DEF CreateReturn
<1> DEFINE row == FilledIn(p, scope, type, credit, payment)
<1>2. /\ row.status = "DRAFT" /\ row.output = 0 /\ row.input = 0 /\ row.credit \in Nat
      /\ row.net = 0
  BY FormFilledIn
<1> HIDE DEF row
<1>3. Figures(row) /\ ~Authorized(row.status)
  BY <1>2 DEF Figures, Authorized
<1>4. approvedReturns' = approvedReturns /\ job'[w].step = "idle"
  BY DEF CreateReturn, Takes, At
<1> QED BY <1>1, <1>3, <1>4, ReturnWritten DEF row

LEMMA PrepareSalesSound ==
  ASSUME Typed, ReturnsSound, NEW w \in Workers, PrepareSales(w), Turn(w)
  PROVE  ReturnsSound'
<1>1. job'[w].step = "prepare"
  BY TypedPapers DEF PrepareSales, Becomes, Jobs
<1> QED BY <1>1, TypedPapers, ReturnsElsewhere DEF PrepareSales, controls, returnVars

LEMMA PrepareReturnSound ==
  ASSUME Typed, ReturnsSound, NEW w \in Workers, PrepareReturn(w), Turn(w)
  PROVE  ReturnsSound'
<1> DEFINE row == Prepared(w)
<1>3. PICK v \in Returns : ScopeFree(v, row) /\ returns' = [returns EXCEPT ![v] = row]
  BY ReturnPrepared
<1>5. row.status = "DRAFT" /\ Figures(row) /\ ~Authorized(row.status)
  BY ReturnPrepared DEF Figures, Authorized
<1> HIDE DEF row
<1>6. approvedReturns' = approvedReturns /\ job'[w].step = "idle"
  BY TypedPapers DEF PrepareReturn, Respond, Becomes, Jobs, Idle
<1> QED BY <1>3, <1>5, <1>6, ReturnWritten

LEMMA DeleteReturnSound ==
  ASSUME Typed, ReturnsSound, NEW w \in Workers, DeleteReturn(w), Turn(w)
  PROVE  ReturnsSound'
<1>1. PICK v \in Returns : returns' = [returns EXCEPT ![v] = NoReturn]
  BY DEF DeleteReturn
<1>2. NoReturn.status = "ABSENT" /\ Figures(NoReturn) /\ ~Authorized(NoReturn.status)
  BY DEF NoReturn, Figures, Authorized
<1>3. approvedReturns' = approvedReturns /\ job'[w].step = "idle"
  BY DEF DeleteReturn, Takes, At
<1> QED BY <1>1, <1>2, <1>3, ReturnWritten

LEMMA EditReturnLoadSound ==
  ASSUME Typed, ReturnsSound, NEW w \in Workers, EditReturnLoad(w), Turn(w)
  PROVE  ReturnsSound'
<1>1. PICK v \in Returns :
        /\ returns[v] # NoReturn
        /\ \E row \in Edited(v) :
             Becomes(w, [step |-> "edit_return", control |-> v, read |-> row])
  BY DEF EditReturnLoad
<1>2. PICK row \in Edited(v) :
        Becomes(w, [step |-> "edit_return", control |-> v, read |-> row])
  BY <1>1
<1>3. row.status = returns[v].status
  BY <1>1, EditedRow
<1>4. job'[w] = [step |-> "edit_return", control |-> v, read |-> row]
  BY <1>2, TypedPapers DEF Becomes, Jobs
<1>5. "edit_return" \in clients
  BY DEF EditReturnLoad, Takes
<1>6. KnowsReturn(job'[w])
  BY <1>3, <1>4, <1>5 DEF KnowsReturn, ReturnsSound, ReturnsCovered
<1> QED BY <1>6, TypedPapers, ReturnsRead DEF EditReturnLoad, controls, returnVars

LEMMA EditReturnSaveSound ==
  ASSUME Typed, ReturnsSound, NEW w \in Workers, EditReturnSave(w), Turn(w)
  PROVE  ReturnsSound'
<1> DEFINE v == job[w].control
           row == job[w].read
<1>1. v \in Returns /\ job[w].step = "edit_return"
  BY TypedPapers DEF EditReturnSave, At, JobShape, ControlShape
<1>2. /\ returns' = [returns EXCEPT ![v] = row] /\ ScopeFree(v, row)
      /\ approvedReturns' = approvedReturns /\ job'[w].step = "idle"
  BY TypedPapers DEF EditReturnSave, Respond, Becomes, Jobs, Idle
<1>3. "edit_return" \in clients /\ (Authorized(row.status) => v \in approvedReturns)
  BY <1>1 DEF ReturnsSound, KnowsReturn
<1> HIDE DEF v, row
<1> QED BY <1>1, <1>2, <1>3, ReturnWritten

LEMMA ReturnLoadSound ==
  ASSUME Typed, ReturnsSound, NEW w \in Workers, ReturnLoad(w), Turn(w)
  PROVE  ReturnsSound'
<1>1. PICK v \in Returns, move \in ReturnMoves :
        /\ returns[v].status \in move.from
        /\ Becomes(w, [step |-> "return", control |-> v, status |-> move.to,
                       payment |-> move.payment])
  BY DEF ReturnLoad
<1>2. job'[w] = [step |-> "return", control |-> v, status |-> move.to, payment |-> move.payment]
  BY <1>1, TypedPapers DEF Becomes, Jobs
<1>3. move.to \in {"FILED", "PAID"} =>
        /\ returns[v].status = "APPROVED"
        /\ move.payment = IF move.to = "PAID" THEN "PAID" ELSE "NOT_PAID"
  BY <1>1 DEF ReturnMoves, FiledFrom
<1>4. KnowsReturn(job'[w])
  BY <1>2, <1>3 DEF KnowsReturn, ReturnsSound, ReturnsCovered, Authorized
<1> QED BY <1>4, TypedPapers, ReturnsRead DEF ReturnLoad, controls, returnVars

LEMMA ReturnSaveSound ==
  ASSUME Typed, ReturnsSound, NEW w \in Workers, ReturnSave(w), Turn(w)
  PROVE  ReturnsSound'
<1> DEFINE v == job[w].control
           row == Moved(w)
           old == returns[v]
<1>1. /\ v \in Returns /\ job[w].step = "return" /\ row.status = job[w].status
      /\ returns' = [returns EXCEPT ![v] = row]
      /\ row.payment = IF job[w].payment = "any" THEN old.payment ELSE job[w].payment
  BY ReturnMoved DEF ReturnSave, At
<1>2. /\ row.scope = old.scope /\ row.type = old.type /\ row.period = old.period /\ row.output = old.output
      /\ row.input = old.input /\ row.credit = old.credit /\ row.net = old.net
  <2>1. row \in ReturnRow /\ old \in ReturnRow
    BY ReturnMoved, TypedControls
  <2> HIDE DEF row, old
  <2>2. \A k \in {"scope", "type", "period", "output", "input", "credit", "net"} : row[k] = old[k]
    BY ReturnMoved DEF row, old
  <2> QED BY <2>2
<1>3. /\ old.status # "ABSENT"
      /\ approvedReturns' = IF job[w].status = "APPROVED" THEN approvedReturns \union {v}
                            ELSE approvedReturns
      /\ job'[w].step = "idle"
  <2>1. old # NoReturn
    BY DEF ReturnSave
  <2>2. old.status # "ABSENT"
    BY <1>1, <2>1, TypedControls
  <2> QED BY <2>2, TypedPapers DEF ReturnSave, Respond, Becomes, Jobs, Idle
<1>4. KnowsReturn(job[w]) /\ ReturnsCovered
  BY DEF ReturnsSound
<1>5. job[w].status \in {"FILED", "PAID"} =>
        v \in approvedReturns /\ job[w].payment = IF job[w].status = "PAID" THEN "PAID" ELSE "NOT_PAID"
  BY <1>1, <1>4 DEF KnowsReturn
<1> HIDE DEF v, row, old
<1>6. ScopeFree(v, row)
  BY <1>1, <1>2, <1>3, <1>4 DEF ReturnsCovered, ScopeFree, old
<1>7. Authorized(row.status) => v \in approvedReturns'
  BY <1>1, <1>3, <1>5 DEF Authorized
<1>8. "edit_return" \notin clients => Figures(row)
  <2>1. "edit_return" \notin clients => Figures(old)
    BY <1>1, <1>4 DEF ReturnsCovered, old
  <2>2. row.status \in {"FILED", "PAID"} => (row.status = "PAID" <=> row.payment = "PAID")
    BY <1>1, <1>5
  <2> QED BY <1>2, <2>1, <2>2 DEF Figures
<1> QED BY <1>1, <1>3, <1>6, <1>7, <1>8, ReturnWritten

LEMMA ReturnsInit == ControlsInit => ReturnsSound
<1> SUFFICES ASSUME ControlsInit PROVE ReturnsSound
  OBVIOUS
<1>1. returns = [v \in Returns |-> NoReturn] /\ job = [w \in Workers |-> Idle]
  BY DEF ControlsInit, AllInit, Init, LedgerInit
<1>2. NoReturn.status = "ABSENT" /\ Figures(NoReturn) /\ ~Authorized(NoReturn.status)
  BY DEF NoReturn, Figures, Authorized
<1>3. ReturnsCovered
  BY <1>1, <1>2 DEF ReturnsCovered
<1>4. \A w \in Workers : KnowsReturn(job[w])
  BY <1>1 DEF KnowsReturn, Idle
<1> QED BY <1>3, <1>4 DEF ReturnsSound

\* A request of the budgets is not one of the returns.
LEMMA NoReturnRequest ==
  ASSUME Jobs, NEW w \in Workers, BudgetStep(w)
  PROVE  job'[w].step \notin {"edit_return", "return"}
<1>1. CASE CreateBudget(w)
  BY <1>1 DEF CreateBudget, Takes, At
<1>2. CASE EditBudgetLoad(w)
  BY <1>2 DEF EditBudgetLoad, Becomes, Jobs
<1>3. CASE EditBudgetSave(w)
  BY <1>3 DEF EditBudgetSave, Respond, Becomes, Jobs, Idle
<1>4. CASE DeleteBudget(w)
  BY <1>4 DEF DeleteBudget, Takes, At
<1>5. CASE BudgetLoad(w)
  BY <1>5 DEF BudgetLoad, Becomes, Jobs
<1>6. CASE BudgetSave(w)
  BY <1>6 DEF BudgetSave, Respond, Becomes, Jobs, Idle
<1>7. CASE CreateRevision(w)
  BY <1>7 DEF CreateRevision, Takes, At
<1>8. CASE DeleteRevision(w)
  BY <1>8 DEF DeleteRevision, Takes, At
<1>9. CASE RevisionLoad(w)
  BY <1>9 DEF RevisionLoad, Becomes, Jobs
<1>10. CASE SubmitRevision(w)
  BY <1>10 DEF SubmitRevision, Respond, Becomes, Jobs, Idle
<1>11. CASE ApproveRevision(w)
  BY <1>11 DEF ApproveRevision, Respond, Becomes, Jobs, Idle
<1> QED BY <1>1, <1>2, <1>3, <1>4, <1>5, <1>6, <1>7, <1>8, <1>9, <1>10, <1>11 DEF BudgetStep

LEMMA ReturnsStep ==
  ASSUME Typed, Serial, ReturnsSound, [ControlsNext]_controlsVars
  PROVE  ReturnsSound'
<1>1. CASE UNCHANGED controlsVars
  BY <1>1 DEF controlsVars, allVars, vars, controls, ReturnsSound, ReturnsCovered, KnowsReturn
<1>2. CASE ControlsNext
  <2>1. PICK w \in Workers :
          /\ Turn(w)
          /\ \/ ReturnStep(w)
             \/ /\ UNCHANGED returnVars
                /\ job'[w].step \in PaperSteps \union MoneySteps \union AssetSteps \union {"idle"}
             \/ UNCHANGED returnVars /\ BudgetStep(w)
    BY <1>2, SomeTurn DEF controls, returnVars
  <2>2. CASE UNCHANGED returnVars /\ job'[w].step \in
               PaperSteps \union MoneySteps \union AssetSteps \union {"idle"}
    BY <2>1, <2>2, TypedPapers, ReturnsElsewhere DEF PaperSteps, MoneySteps, AssetSteps
  <2>3. CASE UNCHANGED returnVars /\ BudgetStep(w)
    BY <2>1, <2>3, TypedPapers, NoReturnRequest, ReturnsElsewhere
  <2>4. CASE ReturnStep(w)
    BY <2>1, <2>4, CreateReturnSound, PrepareSalesSound, PrepareReturnSound, DeleteReturnSound,
       EditReturnLoadSound, EditReturnSaveSound, ReturnLoadSound, ReturnSaveSound DEF ReturnStep
  <2> QED BY <2>1, <2>2, <2>3, <2>4
<1> QED BY <1>1, <1>2

----
(* The input VAT that a return claims.                                     *)
(*                                                                         *)
(* A return stays with its period.  Unless bills are rejected, deleted, or *)
(* edited while they are approved, a bill that counts goes on counting     *)
(* with its total, so that the VAT of a period's bills only grows after a  *)
(* return was prepared.                                                    *)

Steady ==
  /\ {"move_return", "reject", "delete"} \intersect clients = {}
  /\ ~(overlap /\ "edit" \in clients)

\* What a request may do to a bill.
KnowsBill(j) ==
  /\ j.step = "edit" =>
       /\ "edit" \in clients
       /\ ~overlap /\ j.document \in Bills => papers[j.document].status \in {"DRAFT", "REJECTED"}
  /\ j.step = "delete" => "delete" \in clients
  /\ j.step = "status" /\ j.status = "REJECTED" => "reject" \in clients

\* The input VAT of a period.
PeriodVat(p) == VatOf(Dated(VatPurchases, p))

ClaimsSound ==
  /\ \A w \in Workers : KnowsBill(job[w])
  /\ Steady => \A p \in Periods \union {0} :
       /\ \A v \in Returns : returns[v].period = p => returns[v].input <= PeriodVat(p)
       /\ \A w \in Workers : job[w].step = "edit_return" /\ job[w].read.period = p =>
            job[w].read.input <= PeriodVat(p)

\* The step leaves every bill that counts as it is.
BillsStay ==
  \A d \in Bills : d \in VatPurchases =>
    papers'[d].total = papers[d].total
    /\ papers'[d].status \notin {"ABSENT", "DRAFT", "REJECTED", "CANCELLED"}

\* What a larger set adds up to.
LEMMA VatGrows ==
  ASSUME Typed, Typed', BillsStay, NEW p
  PROVE  PeriodVat(p) \in Nat /\ PeriodVat(p)' \in Nat /\ PeriodVat(p) <= PeriodVat(p)'
<1> DEFINE S == Dated(VatPurchases, p)
           R == {d \in Bills : /\ papers'[d].status \notin {"ABSENT", "DRAFT", "REJECTED", "CANCELLED"}
                               /\ DayOf[IF d \in Invoices THEN "invoice" ELSE "bill"] = p}
           f == [d \in S |-> VatWithin[papers[d].total]]
           g == [d \in R |-> VatWithin[papers'[d].total]]
<1>1. VatOf(S) = SumFunctionOnSet(f, S) /\ VatOf(S) \in Nat
  BY PeriodVatNat DEF VatOf
<1>2. Dated(VatPurchases, p)' = R
  BY DEF Dated, VatPurchases
<1>3. VatOf(Dated(VatPurchases, p))' = SumFunctionOnSet(g, R)
  BY <1>2 DEF VatOf
<1>4. S \subseteq R /\ \A d \in S : papers'[d].total = papers[d].total
  BY DEF BillsStay, Dated, VatPurchases
<1>5. R \subseteq Bills /\ IsFiniteSet(R) /\ IsFiniteSet(S)
  BY <1>4, LedgerAssumption, FS_Subset DEF Documents
<1>6. \A d \in R : g[d] \in Nat
  <2>1. \A d \in R : papers'[d].total \in Totals
    <3>1. PapersTyped'
      BY TypedPapers DEF Typed, RowsMeant, ControlsTypeOK, AllTypeOK, TypeOK, LedgerTypes, PapersTyped,
                         PaperRow
    <3> QED BY <3>1 DEF PapersTyped, Present
  <2>2. \A t \in Totals : t \in Nat /\ VatWithin[t] \in 0..t
    BY LedgerAssumption, StatementsAssumption
  <2> QED BY <2>1, <2>2
<1>7. \A d \in S : f[d] = g[d]
  BY <1>4
<1> HIDE DEF S, R, f, g
<1>8. SumFunctionOnSet(f, S) = SumFunctionOnSet(g, S)
  BY <1>5, <1>7, SumSame
<1>9. SumFunctionOnSet(g, R) = SumFunctionOnSet(g, S) + SumFunctionOnSet(g, R \ S)
  <2>1. R = S \union (R \ S) /\ S \intersect (R \ S) = {}
    BY <1>4
  <2>2. IsFiniteSet(R \ S)
    BY <1>5, FS_Subset
  <2>3. \A x \in S \union (R \ S) : g[x] \in Int
    BY <1>6, <2>1
  <2>4. SumFunctionOnSet(g, S \union (R \ S)) = SumFunctionOnSet(g, S) + SumFunctionOnSet(g, R \ S)
    BY <1>5, <2>1, <2>2, <2>3, SumUnion
  <2> QED BY <2>1, <2>4
<1>10. SumFunctionOnSet(g, R \ S) \in Nat
  <2>1. IsFiniteSet(R \ S)
    BY <1>5, FS_Subset
  <2> QED BY <1>6, <2>1, SumNat
<1>11. SumFunctionOnSet(g, S) \in Nat
  BY <1>1, <1>8
<1>12. PeriodVat(p) = SumFunctionOnSet(g, S) /\ PeriodVat(p)' = SumFunctionOnSet(g, R)
  BY <1>1, <1>3, <1>8 DEF PeriodVat, S
<1> QED BY <1>9, <1>10, <1>11, <1>12

\* Nothing of the papers changes.
LEMMA BillsUntouched ==
  ASSUME UNCHANGED papers
  PROVE  BillsStay
BY DEF BillsStay, VatPurchases

\* Whatever is done to papers leaves the bills that count.
LEMMA PaperBills ==
  ASSUME Typed, \A v \in Workers : KnowsBill(job[v]), Steady, NEW w \in Workers, Paper(w)
  PROVE  BillsStay
<1> DEFINE d == job[w].document
<1>1. LedgerStep(w, Paid)
  BY DEF Paper
<1>2. /\ Bills \subseteq Documents /\ Journals \intersect Bills = {} /\ Invoices \intersect Bills = {}
      /\ \A x \in Bills : papers[x] \in PaperRow
  BY TypedPapers, LedgerAssumption DEF Documents, PapersTyped
<1>3. CASE CreateDocument(w)
  <2>1. PICK x \in Documents, total \in Totals :
          ~Present(x) /\ papers' = [papers EXCEPT ![x] = Drafted(total)]
    BY <1>3 DEF CreateDocument, NewKey
  <2>2. \A y \in Documents \ {x} : papers'[y] = papers[y]
    BY <2>1, TypedPapers DEF PapersTyped
  <2> QED BY <1>2, <2>1, <2>2 DEF BillsStay, VatPurchases, Present
<1>4. CASE EditSave(w)
  <2>1. d \in Documents /\ job[w].step = "edit" /\ papers' = [papers EXCEPT ![d] = job[w].row]
    BY <1>4, TypedPapers DEF EditSave, At, JobShape, PaperShape
  <2>2. d \in Bills => papers[d].status \in {"DRAFT", "REJECTED"}
    BY <2>1 DEF KnowsBill, Steady
  <2>3. \A y \in Documents \ {d} : papers'[y] = papers[y]
    BY <2>1, TypedPapers DEF PapersTyped
  <2> HIDE DEF d
  <2> QED BY <1>2, <2>2, <2>3 DEF BillsStay, VatPurchases
<1>5. CASE DeleteSave(w, Paid)
  BY <1>5, TypedPapers DEF DeleteSave, At, KnowsBill, Steady
<1>6. CASE StatusSave(w)
  <2>1. /\ d \in Documents /\ job[w].step = "status" /\ job[w].status \in StatusesOf(d)
        /\ job[w].status \in {"PENDING_APPROVAL", "APPROVED", "REJECTED", "CANCELLED"}
        /\ papers' = [papers EXCEPT ![d].status = job[w].status]
    BY <1>6, TypedPapers DEF StatusSave, At, JobShape, PaperShape
  <2>2. job[w].status # "REJECTED"
    BY <2>1 DEF KnowsBill, Steady
  <2>3. d \in Bills => job[w].status # "CANCELLED"
    BY <1>2, <2>1 DEF StatusesOf
  <2>4. papers[d] \in PaperRow
    BY <2>1, TypedPapers DEF PapersTyped
  <2>5. /\ papers'[d].status = job[w].status /\ papers'[d].total = papers[d].total
        /\ \A y \in Documents \ {d} : papers'[y] = papers[y]
    BY <2>1, <2>4, TypedPapers DEF PapersTyped, PaperRow
  <2> HIDE DEF d
  <2> QED BY <1>2, <2>1, <2>2, <2>3, <2>5 DEF BillsStay, VatPurchases
<1>7. CASE PostCommit(w)
  <2>1. /\ d \in Documents
        /\ job[w].source = "none" =>
             /\ papers'[d] = [papers[d] EXCEPT !.status = PostedStatus(d)]
             /\ papers'[d].status = PostedStatus(d)
             /\ \A x \in Documents \ {d} : papers'[x] = papers[x]
        /\ job[w].source # "none" =>
             /\ d \in Journals /\ job[w].source \in Journals
             /\ \A x \in Documents \ {d, job[w].source} : papers'[x] = papers[x]
    BY <1>7, PostCommitWrites
  <2>2. CASE job[w].source = "none"
    <3>1. papers[d] \in PaperRow /\ PostedStatus(d) \in {"OPEN", "POSTED"}
      BY <2>1, TypedPapers DEF PapersTyped, PostedStatus
    <3>2. papers'[d].total = papers[d].total /\ papers'[d].status = PostedStatus(d)
      BY <2>1, <2>2, <3>1 DEF PaperRow
    <3> HIDE DEF d
    <3> QED BY <1>2, <2>1, <2>2, <3>1, <3>2 DEF BillsStay, VatPurchases
  <2>3. CASE job[w].source # "none"
    BY <1>2, <2>1, <2>3 DEF BillsStay, VatPurchases
  <2> QED BY <2>2, <2>3
<1>8. CASE EditLoad(w) \/ DeleteLoad(w) \/ StatusLoad(w) \/ PostLoad(w) \/ PostRead(w)
             \/ ReverseLoad(w) \/ ReverseRead(w)
  BY <1>8, BillsUntouched DEF EditLoad, DeleteLoad, StatusLoad, PostLoad, PostRead, ReverseLoad,
                              ReverseRead, documents
<1> QED BY <1>1, <1>3, <1>4, <1>5, <1>6, <1>7, <1>8 DEF LedgerStep

LEMMA MoneyBills ==
  ASSUME Typed, NEW w \in Workers, MoneyStep(w)
  PROVE  BillsStay
<1>1. CASE PayCommit(w)
  <2> DEFINE d == job[w].document
  <2>1. d \in Documents
    BY <1>1, TypedPapers DEF PayCommit, At, JobShape, MoneyShape, Documents
  <2>2. papers[d] \in PaperRow
    BY <2>1, TypedPapers DEF PapersTyped
  <2>3. PICK paid, status : papers' = [papers EXCEPT ![d].paid = paid, ![d].status = status]
                            /\ status \in {"PAID", "PARTIALLY_PAID"}
    BY <1>1 DEF PayCommit
  <2>4. /\ papers'[d].status = status /\ papers'[d].total = papers[d].total
        /\ \A y \in Documents \ {d} : papers'[y] = papers[y]
    BY <2>1, <2>2, <2>3, TypedPapers DEF PapersTyped, PaperRow
  <2> HIDE DEF d
  <2> QED BY <2>3, <2>4 DEF BillsStay, VatPurchases, Documents
<1>2. CASE ~PayCommit(w)
  <2>1. UNCHANGED papers
    BY <1>2 DEF MoneyStep, PayLoad, ReceiveUnapplied, EditPaymentLoad, EditPaymentSave,
                DeletePayment, TransactLoad, Transact, ChangeVoucher, TransferLoad, Transfer,
                AccountLoad, AccountSave, documents
  <2> QED BY <2>1, BillsUntouched
<1> QED BY <1>1, <1>2

\* What the new request of the worker may do to a bill.
LEMMA PaperKnows ==
  ASSUME Typed, NEW w \in Workers, Paper(w), job'[w].step # "idle"
  PROVE  UNCHANGED papers /\ KnowsBill(job'[w])
<1>1. LedgerStep(w, Paid)
  BY DEF Paper
<1>2. CASE EditLoad(w)
  <2>1. PICK d \in Documents, total \in Totals :
          /\ Editable(d)
          /\ Becomes(w, [step |-> "edit", document |-> d, row |-> [papers[d] EXCEPT !.total = total]])
    BY <1>2 DEF EditLoad
  <2>2. job'[w].step = "edit" /\ job'[w].document = d
    BY <2>1, TypedPapers DEF Becomes, Jobs
  <2>3. "edit" \in clients /\ papers' = papers
    BY <1>2 DEF EditLoad, Takes, documents
  <2>4. papers[d].status \in {"DRAFT", "REJECTED"}
    BY <2>1 DEF Editable
  <2> QED BY <2>2, <2>3, <2>4 DEF KnowsBill
<1>3. CASE DeleteLoad(w)
  <2>1. job'[w].step = "delete"
    BY <1>3, TypedPapers DEF DeleteLoad, Becomes, Jobs
  <2> QED BY <1>3, <2>1 DEF DeleteLoad, Takes, KnowsBill, documents
<1>4. CASE StatusLoad(w)
  <2>1. PICK move \in StatusMoves, d \in Documents :
          /\ Takes(w, move.kind)
          /\ Becomes(w, [step |-> "status", document |-> d, status |-> move.to])
    BY <1>4 DEF StatusLoad
  <2>2. job'[w] = [step |-> "status", document |-> d, status |-> move.to]
    BY <2>1, TypedPapers DEF Becomes, Jobs
  <2>3. move.to = "REJECTED" => "reject" \in clients
    BY <2>1 DEF StatusMoves, Takes
  <2> QED BY <1>4, <2>2, <2>3 DEF StatusLoad, KnowsBill, documents
<1>5. CASE PostLoad(w) \/ PostRead(w) \/ ReverseLoad(w) \/ ReverseRead(w)
  <2>1. job'[w].step \in {"post", "booking", "reverse"}
    BY <1>5, TypedPapers DEF PostLoad, PostRead, ReverseLoad, ReverseRead, Becomes, Jobs
  <2> QED BY <1>5, <2>1 DEF PostLoad, PostRead, ReverseLoad, ReverseRead, KnowsBill, documents
<1>6. CASE CreateDocument(w)
  BY <1>6 DEF CreateDocument, Takes, At
<1>7. CASE EditSave(w) \/ DeleteSave(w, Paid) \/ StatusSave(w) \/ PostCommit(w)
  BY <1>7, TypedPapers DEF EditSave, DeleteSave, StatusSave, PostCommit, Respond, Becomes, Jobs, Idle
<1> QED BY <1>1, <1>2, <1>3, <1>4, <1>5, <1>6, <1>7 DEF LedgerStep

\* What the requests of all workers know of bills after a step.
LEMMA BillsKnown ==
  ASSUME Typed, \A v \in Workers : KnowsBill(job[v]), NEW w \in Workers, Turn(w),
         \/ job'[w].step \notin {"edit", "delete", "status"}
         \/ UNCHANGED papers /\ KnowsBill(job'[w])
  PROVE  \A v \in Workers : KnowsBill(job[v])'
<1> SUFFICES ASSUME NEW v \in Workers PROVE KnowsBill(job[v])'
  OBVIOUS
<1>1. CASE v = w
  BY <1>1 DEF KnowsBill, Turn
<1>2. CASE v # w
  <2>1. job'[v] = job[v] /\ KnowsBill(job[v])
    BY <1>2, TypedPapers DEF Turn, Jobs
  <2>2. ~overlap => job'[v].step = "idle"
    BY <1>2, <2>1 DEF Turn, Alone, Others, At
  <2> QED BY <2>1, <2>2 DEF KnowsBill, Turn
<1> QED BY <1>1, <1>2

\* What is claimed after a step was within the bills of its period before.
LEMMA ClaimsCarried ==
  ASSUME Typed, Typed', ClaimsSound, NEW w \in Workers, Turn(w),
         \A v \in Workers : KnowsBill(job[v])', Steady => BillsStay,
         Steady => \A v \in Returns : \E n \in Nat, p \in Periods \union {0} :
           returns'[v].period = p /\ returns'[v].input = n /\ n <= PeriodVat(p),
         Steady /\ job'[w].step = "edit_return" => \E n \in Nat, p \in Periods \union {0} :
           job'[w].read.period = p /\ job'[w].read.input = n /\ n <= PeriodVat(p)
  PROVE  ClaimsSound'
<1> SUFFICES ASSUME Steady, NEW q \in Periods \union {0}
             PROVE  /\ \A v \in Returns :
                         returns'[v].period = q => returns'[v].input <= PeriodVat(q)'
                    /\ \A v \in Workers : job'[v].step = "edit_return" /\ job'[v].read.period = q =>
                         job'[v].read.input <= PeriodVat(q)'
  BY DEF ClaimsSound, Steady, Turn
<1>1. PeriodVat(q) \in Nat /\ PeriodVat(q)' \in Nat /\ PeriodVat(q) <= PeriodVat(q)'
  BY VatGrows
<1>2. ASSUME NEW n \in Nat, n <= PeriodVat(q) PROVE n <= PeriodVat(q)'
  BY <1>1, <1>2
<1>3. ASSUME NEW v \in Returns, returns'[v].period = q
      PROVE  returns'[v].input <= PeriodVat(q)'
  BY <1>2, <1>3
<1>4. ASSUME NEW v \in Workers, job'[v].step = "edit_return", job'[v].read.period = q
      PROVE  job'[v].read.input <= PeriodVat(q)'
  <2>1. CASE v = w
    BY <1>2, <1>4, <2>1
  <2>2. CASE v # w
    <3>1. job'[v] = job[v] /\ JobShape(job[v])
      BY <2>2, TypedPapers DEF Turn, Jobs
    <3>2. job[v].read.input \in Nat
      BY <1>4, <3>1 DEF JobShape, ControlShape, ReturnRow
    <3>3. job[v].read.input <= PeriodVat(q)
      BY <1>4, <3>1 DEF ClaimsSound
    <3> QED BY <1>2, <3>1, <3>2, <3>3
  <2> QED BY <2>1, <2>2
<1> QED BY <1>3, <1>4

\* What the returns claim before a step.
LEMMA ClaimsBefore ==
  ASSUME Typed, ClaimsSound, Steady, NEW v \in Returns
  PROVE  \E n \in Nat, p \in Periods \union {0} :
           returns[v].period = p /\ returns[v].input = n /\ n <= PeriodVat(p)
BY TypedControls DEF ClaimsSound, ReturnRow

\* A row that is written over a return.
LEMMA ClaimsWritten ==
  ASSUME Typed, Typed', ClaimsSound, NEW w \in Workers, Turn(w), UNCHANGED papers,
         job'[w].step = "idle", NEW v \in Returns, NEW row, returns' = [returns EXCEPT ![v] = row],
         Steady => \E n \in Nat, p \in Periods \union {0} :
           row.period = p /\ row.input = n /\ n <= PeriodVat(p)
  PROVE  ClaimsSound'
<1>1. returns'[v] = row /\ \A x \in Returns \ {v} : returns'[x] = returns[x]
  BY TypedControls
<1>2. Steady => \A x \in Returns : \E n \in Nat, p \in Periods \union {0} :
        returns'[x].period = p /\ returns'[x].input = n /\ n <= PeriodVat(p)
  BY <1>1, ClaimsBefore
<1>3. \A x \in Workers : KnowsBill(job[x])'
  BY BillsKnown DEF ClaimsSound
<1> QED BY <1>2, <1>3, BillsUntouched, ClaimsCarried

\* No return changes.
LEMMA ClaimsElsewhere ==
  ASSUME Typed, Typed', ClaimsSound, NEW w \in Workers, Turn(w), UNCHANGED returnVars,
         job'[w].step # "edit_return", Steady => BillsStay,
         \A v \in Workers : KnowsBill(job[v])'
  PROVE  ClaimsSound'
<1>1. returns' = returns
  BY DEF returnVars
<1> QED BY <1>1, ClaimsBefore, ClaimsCarried

LEMMA CreateReturnClaims ==
  ASSUME Typed, Typed', ClaimsSound, NEW w \in Workers, CreateReturn(w), Turn(w)
  PROVE  ClaimsSound'
<1>1. PICK v \in Returns, p \in Periods, scope \in Scopes, type \in Sent, credit \in Credits,
           payment \in PaymentStatuses :
        returns' = [returns EXCEPT ![v] = FilledIn(p, scope, type, credit, payment)]
  BY DEF CreateReturn
<1> DEFINE row == FilledIn(p, scope, type, credit, payment)
<1>2. row.period = p /\ row.input = 0 /\ returns' = [returns EXCEPT ![v] = row]
  BY <1>1, FormFilledIn
<1> HIDE DEF row
<1>3. 0 <= PeriodVat(p)
  BY PeriodVatNat DEF PeriodVat
<1>4. job'[w].step = "idle" /\ UNCHANGED papers
  BY DEF CreateReturn, Takes, At, Elsewhere, documents
<1>5. \E n \in Nat, q \in Periods \union {0} :
        row.period = q /\ row.input = n /\ n <= PeriodVat(q)
  BY <1>2, <1>3
<1> QED BY <1>2, <1>4, <1>5, ClaimsWritten

LEMMA PrepareReturnClaims ==
  ASSUME Typed, Typed', ClaimsSound, NEW w \in Workers, PrepareReturn(w), Turn(w)
  PROVE  ClaimsSound'
<1> DEFINE row == Prepared(w)
<1>1. /\ row.period \in Periods /\ row.input \in Nat /\ row.input = PeriodVat(row.period)
  BY ReturnPrepared DEF PeriodVat
<1>2. row.input <= row.input
  BY <1>1
<1>3. PICK v \in Returns : returns' = [returns EXCEPT ![v] = row]
  BY ReturnPrepared
<1> HIDE DEF row
<1>5. job'[w].step = "idle" /\ UNCHANGED papers
  BY TypedPapers DEF PrepareReturn, Respond, Becomes, Jobs, Idle, Elsewhere, documents
<1>6. \E n \in Nat, q \in Periods \union {0} : row.period = q /\ row.input = n /\ n <= PeriodVat(q)
  BY <1>1, <1>2
<1> QED BY <1>3, <1>5, <1>6, ClaimsWritten

LEMMA DeleteReturnClaims ==
  ASSUME Typed, Typed', ClaimsSound, NEW w \in Workers, DeleteReturn(w), Turn(w)
  PROVE  ClaimsSound'
<1>1. PICK v \in Returns : returns' = [returns EXCEPT ![v] = NoReturn]
  BY DEF DeleteReturn
<1>2. NoReturn.period = 0 /\ NoReturn.input = 0 /\ 0 <= PeriodVat(0)
  BY PeriodVatNat DEF NoReturn, PeriodVat
<1>3. job'[w].step = "idle" /\ UNCHANGED papers
  BY DEF DeleteReturn, Takes, At, Elsewhere, documents
<1> QED BY <1>1, <1>2, <1>3, ClaimsWritten

LEMMA EditReturnLoadClaims ==
  ASSUME Typed, Typed', ClaimsSound, NEW w \in Workers, EditReturnLoad(w), Turn(w)
  PROVE  ClaimsSound'
<1>1. PICK v \in Returns :
        /\ returns[v] # NoReturn
        /\ \E row \in Edited(v) :
             Becomes(w, [step |-> "edit_return", control |-> v, read |-> row])
  BY DEF EditReturnLoad
<1>2. PICK row \in Edited(v) :
        Becomes(w, [step |-> "edit_return", control |-> v, read |-> row])
  BY <1>1
<1>3. Steady => row.period = returns[v].period /\ row.input = returns[v].input
  BY <1>1, EditedRow DEF Steady
<1>4. job'[w] = [step |-> "edit_return", control |-> v, read |-> row]
  BY <1>2, TypedPapers DEF Becomes, Jobs
<1>5. returns' = returns /\ UNCHANGED papers
  BY DEF EditReturnLoad, controls, Elsewhere, documents
<1>6. \A x \in Workers : KnowsBill(job[x])'
  BY <1>4, <1>5, BillsKnown DEF ClaimsSound
<1>7. Steady => \E n \in Nat, p \in Periods \union {0} :
        job'[w].read.period = p /\ job'[w].read.input = n /\ n <= PeriodVat(p)
  BY <1>3, <1>4, ClaimsBefore
<1> QED BY <1>5, <1>6, <1>7, BillsUntouched, ClaimsBefore, ClaimsCarried

LEMMA EditReturnSaveClaims ==
  ASSUME Typed, Typed', ClaimsSound, NEW w \in Workers, EditReturnSave(w), Turn(w)
  PROVE  ClaimsSound'
<1> DEFINE v == job[w].control
           row == job[w].read
<1>1. v \in Returns /\ job[w].step = "edit_return" /\ row \in ReturnRow
  BY TypedPapers DEF EditReturnSave, At, JobShape, ControlShape
<1>2. returns' = [returns EXCEPT ![v] = row] /\ job'[w].step = "idle" /\ UNCHANGED papers
  BY TypedPapers DEF EditReturnSave, Respond, Becomes, Jobs, Idle, Elsewhere, documents
<1>3. Steady => \E n \in Nat, p \in Periods \union {0} :
        row.period = p /\ row.input = n /\ n <= PeriodVat(p)
  BY <1>1 DEF ClaimsSound, ReturnRow
<1> HIDE DEF v, row
<1> QED BY <1>1, <1>2, <1>3, ClaimsWritten

LEMMA ReturnSaveClaims ==
  ASSUME Typed, Typed', ClaimsSound, NEW w \in Workers, ReturnSave(w), Turn(w)
  PROVE  ClaimsSound'
<1> DEFINE v == job[w].control
           row == Moved(w)
<1>1. v \in Returns /\ returns' = [returns EXCEPT ![v] = row]
  BY ReturnMoved
<1>2. row.period = returns[v].period /\ row.input = returns[v].input
  <2>1. row \in ReturnRow /\ returns[v] \in ReturnRow
    BY ReturnMoved, TypedControls
  <2> HIDE DEF row
  <2>2. \A k \in {"period", "input"} : row[k] = returns[v][k]
    BY ReturnMoved DEF row
  <2> QED BY <2>2
<1>3. job'[w].step = "idle" /\ UNCHANGED papers
  BY TypedPapers DEF ReturnSave, Respond, Becomes, Jobs, Idle, Elsewhere, documents
<1>4. Steady => \E n \in Nat, p \in Periods \union {0} :
        row.period = p /\ row.input = n /\ n <= PeriodVat(p)
  BY <1>1, <1>2, ClaimsBefore
<1> HIDE DEF v, row
<1> QED BY <1>1, <1>3, <1>4, ClaimsWritten

LEMMA ClaimsInit == ControlsInit => ClaimsSound
<1> SUFFICES ASSUME ControlsInit PROVE ClaimsSound
  OBVIOUS
<1>1. returns = [v \in Returns |-> NoReturn] /\ job = [w \in Workers |-> Idle] /\ Typed
  BY TypedInit DEF ControlsInit, AllInit, Init, LedgerInit
<1>2. NoReturn.input = 0 /\ Idle.step = "idle"
  BY DEF NoReturn, Idle
<1>3. ASSUME NEW p PROVE 0 <= PeriodVat(p)
  BY <1>1, PeriodVatNat DEF PeriodVat
<1> QED BY <1>1, <1>2, <1>3 DEF ClaimsSound, KnowsBill

LEMMA ClaimsStep ==
  ASSUME Typed, Typed', Serial, ClaimsSound, [ControlsNext]_controlsVars
  PROVE  ClaimsSound'
<1>1. CASE UNCHANGED controlsVars
  <2>1. \A p : PeriodVat(p)' = PeriodVat(p)
    BY <1>1 DEF controlsVars, allVars, vars, documents, PeriodVat, VatOf, Dated, VatPurchases
  <2> QED
    BY <1>1, <2>1 DEF controlsVars, allVars, vars, documents, controls, ClaimsSound, KnowsBill, Steady
<1>2. CASE ControlsNext
  <2>1. PICK w \in Workers :
          /\ Turn(w)
          /\ \/ Paper(w) /\ job'[w].step \in PaperSteps \union {"idle"} /\ UNCHANGED returnVars
             \/ MoneyStep(w) /\ job'[w].step \in MoneySteps \union {"idle"} /\ UNCHANGED returnVars
             \/ /\ job'[w].step \in AssetSteps \union {"idle"}
                /\ UNCHANGED <<papers, returnVars>>
             \/ BudgetStep(w) /\ job'[w].step \in ControlSteps /\ UNCHANGED <<papers, returnVars>>
             \/ ReturnStep(w) /\ UNCHANGED papers
    BY <1>2, SomeTurn DEF controls, returnVars, documents, AssetSteps, ControlSteps
  <2>2. \A v \in Workers : KnowsBill(job[v])
    BY DEF ClaimsSound
  <2>3. CASE Paper(w) /\ job'[w].step \in PaperSteps \union {"idle"} /\ UNCHANGED returnVars
    <3>1. Steady => BillsStay
      BY <2>2, <2>3, PaperBills
    <3>2. \A v \in Workers : KnowsBill(job[v])'
      BY <2>1, <2>2, <2>3, PaperKnows, BillsKnown
    <3> QED BY <2>1, <2>3, <3>1, <3>2, ClaimsElsewhere DEF PaperSteps
  <2>4. CASE MoneyStep(w) /\ job'[w].step \in MoneySteps \union {"idle"} /\ UNCHANGED returnVars
    <3>1. \A v \in Workers : KnowsBill(job[v])'
      BY <2>1, <2>2, <2>4, BillsKnown DEF MoneySteps
    <3> QED BY <2>1, <2>4, <3>1, MoneyBills, ClaimsElsewhere DEF MoneySteps
  <2>5. CASE /\ job'[w].step \in AssetSteps \union {"idle"}
             /\ UNCHANGED <<papers, returnVars>>
    <3>1. \A v \in Workers : KnowsBill(job[v])'
      BY <2>1, <2>2, <2>5, BillsKnown DEF AssetSteps
    <3> QED BY <2>1, <2>5, <3>1, BillsUntouched, ClaimsElsewhere DEF AssetSteps
  <2>6. CASE BudgetStep(w) /\ job'[w].step \in ControlSteps /\ UNCHANGED <<papers, returnVars>>
    <3>1. \A v \in Workers : KnowsBill(job[v])'
      BY <2>1, <2>2, <2>6, BillsKnown DEF ControlSteps
    <3>2. job'[w].step # "edit_return"
      BY <2>6, TypedPapers, NoReturnRequest
    <3> QED BY <2>1, <2>6, <3>1, <3>2, BillsUntouched, ClaimsElsewhere
  <2>7. CASE ReturnStep(w) /\ UNCHANGED papers
    <3>1. CASE PrepareSales(w) \/ ReturnLoad(w)
      <4>1. job'[w].step \in {"prepare", "return"} /\ UNCHANGED returnVars
        BY <3>1, TypedPapers DEF PrepareSales, ReturnLoad, Becomes, Jobs, controls, returnVars
      <4>2. \A v \in Workers : KnowsBill(job[v])'
        BY <2>1, <2>2, <4>1, BillsKnown
      <4> QED BY <2>1, <2>7, <4>1, <4>2, BillsUntouched, ClaimsElsewhere
    <3> QED BY <2>1, <2>7, <3>1, CreateReturnClaims, PrepareReturnClaims, DeleteReturnClaims,
         EditReturnLoadClaims, EditReturnSaveClaims, ReturnSaveClaims DEF ReturnStep
  <2> QED BY <2>1, <2>3, <2>4, <2>5, <2>6, <2>7
<1> QED BY <1>1, <1>2

\* Whatever edits, workflow requests and revisions overlap, no budget is in force and
\* no return is filed that nobody approved, and a branch has one return of each type
\* for a period, also when returns are moved to other periods, branches and types.
\* One request at a time, what is in force are the lines that were approved; without
\* a PATCH, what is due is what the figures say; and the input VAT that a return which
\* is not moved claims is never more than the bills of its period hold.
THEOREM WhatWasApproved == ControlsSpec => []ApprovalsStand
<1> DEFINE Sound == BudgetsSound /\ ReturnsSound /\ ClaimsSound
<1>1. ControlsInit => Sound
  BY BudgetsInit, ReturnsInit, ClaimsInit
<1>2. Typed /\ Typed' /\ Serial /\ Sound /\ [ControlsNext]_controlsVars => Sound'
  BY BudgetsStep, ReturnsStep, ClaimsStep
<1>3. Typed /\ Sound => ApprovalsStand
  <2> SUFFICES ASSUME Typed, Sound PROVE ApprovalsStand
    OBVIOUS
  <2>1. BudgetsStand
    BY DEF BudgetsSound, BudgetsCovered, BudgetsAgree, VersionsCount, BudgetsStand, InForce, Unless
  <2>2. ReturnsStand
    <3> SUFFICES ASSUME NEW v \in Returns
                 PROVE  /\ Filed(v) => v \in approvedReturns
                        /\ returns[v] # NoReturn => ScopeFree(v, returns[v])
                        /\ "edit_return" \notin clients =>
                             LET due == returns[v].output - returns[v].input - returns[v].credit
                             IN /\ returns[v].net >= due /\ (returns[v].net > 0 => returns[v].net = due)
                                /\ Filed(v) => (returns[v].status = "PAID" <=> returns[v].payment = "PAID")
                        /\ Steady => returns[v].input <= VatOf(Dated(VatPurchases, returns[v].period))
      BY DEF ReturnsStand, Unless, Steady
    <3>1. returns[v] \in ReturnRow /\ (returns[v] = NoReturn \/ returns[v].status # "ABSENT")
      BY TypedControls
    <3>2. Filed(v) => v \in approvedReturns
      BY DEF Filed, ReturnsSound, ReturnsCovered, Authorized
    <3>3. returns[v] # NoReturn => ScopeFree(v, returns[v])
      BY <3>1 DEF ScopeFree, ReturnsSound, ReturnsCovered
    <3>4. "edit_return" \notin clients => Figures(returns[v])
      BY DEF ReturnsSound, ReturnsCovered
    <3>5. Steady => returns[v].input <= VatOf(Dated(VatPurchases, returns[v].period))
      <4>1. returns[v].period \in Periods \union {0}
        BY <3>1 DEF ReturnRow
      <4> QED BY <4>1 DEF ClaimsSound, PeriodVat
    <3> QED BY <3>2, <3>3, <3>4, <3>5 DEF Figures, Filed
  <2> QED BY <2>1, <2>2 DEF ApprovalsStand
<1> QED BY <1>1, <1>2, <1>3, FinanceSteady, PTL DEF ControlsSpec

----
(* Payments.                                                               *)
(*                                                                         *)
(* A document that is being paid cannot be deleted, and without edits only *)
(* a payment changes what it is paid: under its lock, by what the payment  *)
(* row says.                                                               *)

Owed == Invoices \union Bills

\* What the payments of a document add up to.
Received(d) ==
  SumFunctionOnSet([p \in Payments |-> payments[p].amount],
                   {p \in Payments : payments[p].document = d})

\* One request at a time: what is going to be paid is still to be paid.
StillPayable(j) ==
  j.step = "pay" => papers[j.document].paid + j.amount <= papers[j.document].total

PaymentsHeld ==
  /\ \A p \in Payments : payments[p].document # "none" => Present(payments[p].document)
  /\ \A d \in Owed : Present(d) =>
       /\ papers[d].paid = Received(d)
       /\ (d \in Bills /\ overlap) \/ papers[d].paid <= papers[d].total
  /\ \A w \in Workers : job[w].step # "edit_payment"
  /\ ~overlap => \A w \in Workers : StillPayable(job[w])

PaymentsStay == {"delete_payment", "edit_payment", "edit"} \intersect clients = {}

PaymentsSound == PaymentsStay => PaymentsHeld

\* The step changes nothing of what is owed, and what is paid for stays.
OwedStay ==
  \A d \in Owed :
    /\ d \in Paid /\ Present(d) => papers'[d].status # "ABSENT"
    /\ papers'[d].status # "ABSENT" =>
         IF Present(d) THEN papers'[d].paid = papers[d].paid /\ papers'[d].total = papers[d].total
         ELSE papers'[d].paid = 0 /\ 0 <= papers'[d].total

LEMMA OwedPapers ==
  /\ Owed \subseteq Documents /\ Journals \intersect Owed = {} /\ "none" \notin Owed
  /\ IsFiniteSet(Payments)
BY LedgerAssumption, FinanceAssumption DEF Owed, Documents

\* The sum over the payments of a document that has none.
LEMMA ReceivedNone ==
  ASSUME NEW d, \A p \in Payments : payments[p].document # d
  PROVE  Received(d) = 0
<1>1. {p \in Payments : payments[p].document = d} = {}
  OBVIOUS
<1> QED BY <1>1, SumEmpty DEF Received

\* A new payment, and the sum after it.
PaymentMade(p, d, n) ==
  payments[p] = NoPayment /\ payments' = [payments EXCEPT ![p] = [document |-> d, amount |-> n]]

LEMMA ReceivedMore ==
  ASSUME Typed, NEW p \in Payments, NEW d, d # "none", NEW n \in Nat, PaymentMade(p, d, n)
  PROVE  /\ Received(d)' = Received(d) + n
         /\ \A x \in Owed \ {d} : Received(x)' = Received(x)
         /\ \A x : Received(x) \in Nat
<1> DEFINE f == [q \in Payments |-> payments[q].amount]
           g == [q \in Payments |-> payments'[q].amount]
           S(x) == {q \in Payments : payments[q].document = x}
<1>1. /\ payments'[p] = [document |-> d, amount |-> n]
      /\ \A q \in Payments \ {p} : payments'[q] = payments[q]
      /\ \A q \in Payments : payments[q].amount \in Nat
  BY TypedMoney DEF PaymentMade
<1>2. payments[p].document = "none"
  BY DEF PaymentMade, NoPayment
<1>3. (\A q \in Payments : f[q] \in Nat /\ g[q] \in Nat) /\ g[p] = n
      /\ \A q \in Payments \ {p} : g[q] = f[q]
  BY <1>1
<1>4. \A x : S(x) \subseteq Payments /\ IsFiniteSet(S(x))
  BY OwedPapers, FS_Subset
<1>5. p \notin S(d) /\ {q \in Payments : payments'[q].document = d} = S(d) \union {p}
  BY <1>1, <1>2
<1>6. ASSUME NEW x \in Owed \ {d}
      PROVE  p \notin S(x) /\ {q \in Payments : payments'[q].document = x} = S(x)
  BY <1>1, <1>2, OwedPapers
<1>7. \A x : Received(x) = SumFunctionOnSet(f, S(x))
  BY DEF Received
<1>8. Received(d)' = SumFunctionOnSet(g, S(d) \union {p})
  BY <1>5 DEF Received
<1>9. \A x \in Owed \ {d} : Received(x)' = SumFunctionOnSet(g, S(x))
  BY <1>6 DEF Received
<1>10. \A x : p \notin S(x) => \A q \in S(x) : f[q] = g[q]
  BY <1>3, <1>4
<1> HIDE DEF f, g, S
<1>11. \A x : p \notin S(x) => SumFunctionOnSet(f, S(x)) = SumFunctionOnSet(g, S(x))
  BY <1>4, <1>10, SumSame
<1>12. \A x : SumFunctionOnSet(f, S(x)) \in Nat
  BY <1>3, <1>4, SumNat
<1>13. SumFunctionOnSet(g, S(d) \union {p}) = g[p] + SumFunctionOnSet(g, S(d))
  <2>1. \A q \in S(d) \union {p} : g[q] \in Int
    BY <1>3, <1>4
  <2> QED BY <1>4, <1>5, <2>1, SumAdd
<1>14. Received(d)' = Received(d) + n
  <2>1. Received(d) \in Nat /\ SumFunctionOnSet(g, S(d)) = Received(d)
    BY <1>5, <1>7, <1>11, <1>12
  <2> QED BY <1>3, <1>8, <1>13, <2>1
<1> QED BY <1>6, <1>7, <1>9, <1>11, <1>12, <1>14

\* The step changes no payment of a document.
PaymentsSame ==
  /\ \A p \in Payments : payments'[p].document = payments[p].document
  /\ \A d \in Owed : Received(d)' = Received(d)

LEMMA PaymentsUntouched ==
  ASSUME UNCHANGED payments
  PROVE  PaymentsSame
BY DEF PaymentsSame, Received

\* A receipt without an invoice.
LEMMA ReceivedUnapplied ==
  ASSUME Typed, NEW p \in Payments, NEW n \in Nat, PaymentMade(p, "none", n)
  PROVE  PaymentsSame
<1>1. /\ payments'[p] = [document |-> "none", amount |-> n] /\ payments[p].document = "none"
      /\ \A q \in Payments \ {p} : payments'[q] = payments[q]
      /\ \A q \in Payments : payments[q].amount \in Nat
  BY TypedMoney DEF PaymentMade, NoPayment
<1>2. \A q \in Payments : payments'[q].document = payments[q].document
  BY <1>1
<1>3. ASSUME NEW d \in Owed PROVE Received(d)' = Received(d)
  <2> DEFINE f == [q \in Payments |-> payments[q].amount]
             g == [q \in Payments |-> payments'[q].amount]
             S == {q \in Payments : payments[q].document = d}
  <2>1. S = {q \in Payments : payments'[q].document = d}
    BY <1>2
  <2>2. IsFiniteSet(S) /\ \A q \in S : f[q] = g[q]
    BY <1>1, OwedPapers, FS_Subset
  <2>3. Received(d) = SumFunctionOnSet(f, S) /\ Received(d)' = SumFunctionOnSet(g, S)
    BY <2>1 DEF Received
  <2> HIDE DEF f, g, S
  <2> QED BY <2>2, <2>3, SumSame
<1> QED BY <1>2, <1>3 DEF PaymentsSame

\* No payment of a document changes.
LEMMA PaymentsElsewhere ==
  ASSUME Typed, PaymentsHeld, NEW w \in Workers, Turn(w), PaymentsSame, OwedStay,
         job'[w].step # "edit_payment", ~overlap => StillPayable(job[w])'
  PROVE  PaymentsHeld'
<1>1. \A d \in Owed : Received(d)' = Received(d)
  BY DEF PaymentsSame
<1>2. \A p \in Payments :
        payments[p].document \in Owed \union {"none"} /\ payments'[p].document = payments[p].document
  BY TypedMoney DEF Owed, PaymentsSame
<1>3. ASSUME NEW p \in Payments, payments'[p].document # "none"
      PROVE  Present(payments[p].document)'
  <2>1. /\ payments[p].document \in Owed /\ payments[p].document \in Paid
        /\ payments'[p].document = payments[p].document
    BY <1>2, <1>3 DEF Paid
  <2> QED BY <1>3, <2>1 DEF PaymentsHeld, OwedStay, Present
<1>4. ASSUME NEW d \in Owed, Present(d)'
      PROVE  /\ papers'[d].paid = Received(d)'
             /\ (d \in Bills /\ overlap) \/ papers'[d].paid <= papers'[d].total
  <2>1. CASE Present(d)
    BY <1>1, <1>4, <2>1 DEF PaymentsHeld, OwedStay, Present
  <2>2. CASE ~Present(d)
    <3>1. papers'[d].paid = 0 /\ 0 <= papers'[d].total
      BY <1>4, <2>2 DEF OwedStay, Present
    <3>2. \A p \in Payments : payments[p].document # d
      BY <2>2, OwedPapers DEF PaymentsHeld
    <3> QED BY <1>1, <3>1, <3>2, ReceivedNone
  <2> QED BY <2>1, <2>2
<1>5. ASSUME ~overlap, NEW v \in Workers PROVE StillPayable(job[v])'
  <2>1. CASE v = w
    BY <1>5, <2>1
  <2>2. CASE v # w
    <3>1. job'[v].step = "idle"
      BY <1>5, <2>2, TypedPapers DEF Turn, Alone, Others, At, Jobs
    <3> QED BY <3>1 DEF StillPayable
  <2> QED BY <2>1, <2>2
<1>6. \A v \in Workers : job'[v].step # "edit_payment"
  BY TypedPapers DEF Turn, Jobs, PaymentsHeld
<1> QED BY <1>3, <1>4, <1>5, <1>6 DEF PaymentsHeld, Turn

LEMMA OwedUntouched ==
  ASSUME Typed, UNCHANGED papers
  PROVE  OwedStay
<1>1. \A d \in Owed : Present(d) => papers[d].total \in Totals
  BY TypedPapers DEF PapersTyped, Owed
<1> QED BY <1>1 DEF OwedStay, Present

\* Whatever is done to papers but edits leaves what is owed.
LEMMA OwedKept ==
  ASSUME Typed, "edit" \notin clients, \A v \in Workers : KnowsBill(job[v]),
         NEW w \in Workers, Paper(w)
  PROVE  OwedStay
<1> DEFINE d == job[w].document
<1>1. LedgerStep(w, Paid)
  BY DEF Paper
<1>2. \A x \in Owed : x \in Documents /\ x \notin Journals /\ papers[x] \in PaperRow
  BY OwedPapers, TypedPapers DEF PapersTyped
<1>3. CASE CreateDocument(w)
  <2>1. PICK x \in Documents, total \in Totals :
          ~Present(x) /\ papers' = [papers EXCEPT ![x] = Drafted(total)]
    BY <1>3 DEF CreateDocument, NewKey
  <2>2. papers'[x] = Drafted(total) /\ \A y \in Documents \ {x} : papers'[y] = papers[y]
    BY <2>1, TypedPapers DEF PapersTyped
  <2>3. Drafted(total).paid = 0 /\ 0 <= Drafted(total).total
    BY LedgerAssumption DEF Drafted, Absent
  <2> QED BY <1>2, <2>1, <2>2, <2>3 DEF OwedStay, Present
<1>4. CASE EditLoad(w) \/ EditSave(w)
  BY <1>4, TypedPapers DEF EditLoad, Takes, EditSave, At, KnowsBill
<1>5. CASE DeleteSave(w, Paid)
  <2>1. /\ d \notin Paid /\ d \in Documents
        /\ papers' = [x \in Documents |->
             IF x = d THEN Absent
             ELSE IF papers[x].from = d THEN [papers[x] EXCEPT !.from = "none"] ELSE papers[x]]
    BY <1>5, TypedPapers DEF DeleteSave, At, JobShape, PaperShape
  <2>2. papers'[d].status = "ABSENT"
    BY <2>1 DEF Absent
  <2>3. ASSUME NEW x \in Owed, x # d
        PROVE  /\ papers'[x].status = papers[x].status /\ papers'[x].paid = papers[x].paid
               /\ papers'[x].total = papers[x].total
    BY <1>2, <2>1, <2>3 DEF PaperRow
  <2> HIDE DEF d
  <2> QED BY <2>1, <2>2, <2>3 DEF OwedStay, Present
<1>6. CASE StatusSave(w)
  <2>1. /\ d \in Documents /\ papers[d] \in PaperRow /\ Present(d) /\ job[w].status # "ABSENT"
        /\ papers' = [papers EXCEPT ![d].status = job[w].status]
    BY <1>6, TypedPapers DEF StatusSave, At, JobShape, PaperShape, PapersTyped
  <2>2. /\ papers'[d].status = job[w].status /\ papers'[d].total = papers[d].total
        /\ papers'[d].paid = papers[d].paid /\ \A y \in Documents \ {d} : papers'[y] = papers[y]
    BY <2>1, TypedPapers DEF PapersTyped, PaperRow
  <2> HIDE DEF d
  <2> QED BY <1>2, <2>1, <2>2 DEF OwedStay, Present
<1>7. CASE PostCommit(w)
  <2>1. /\ d \in Documents
        /\ job[w].source = "none" =>
             /\ Present(d)
             /\ papers'[d] = [papers[d] EXCEPT !.status = PostedStatus(d)]
             /\ papers'[d].status = PostedStatus(d)
             /\ \A x \in Documents \ {d} : papers'[x] = papers[x]
        /\ job[w].source # "none" =>
             /\ d \in Journals /\ job[w].source \in Journals
             /\ \A x \in Documents \ {d, job[w].source} : papers'[x] = papers[x]
    BY <1>7, PostCommitWrites
  <2>2. CASE job[w].source = "none"
    <3>1. papers[d] \in PaperRow /\ PostedStatus(d) # "ABSENT"
      BY <2>1, TypedPapers DEF PapersTyped, PostedStatus
    <3>2. papers'[d].total = papers[d].total /\ papers'[d].paid = papers[d].paid
      BY <2>1, <2>2, <3>1 DEF PaperRow
    <3> HIDE DEF d
    <3> QED BY <1>2, <2>1, <2>2, <3>1, <3>2 DEF OwedStay, Present
  <2>3. CASE job[w].source # "none"
    BY <1>2, <2>1, <2>3 DEF OwedStay, Present
  <2> QED BY <2>2, <2>3
<1>8. CASE DeleteLoad(w) \/ StatusLoad(w) \/ PostLoad(w) \/ PostRead(w)
             \/ ReverseLoad(w) \/ ReverseRead(w)
  BY <1>8, OwedUntouched DEF DeleteLoad, StatusLoad, PostLoad, PostRead, ReverseLoad, ReverseRead,
                             documents
<1> QED BY <1>1, <1>3, <1>4, <1>5, <1>6, <1>7, <1>8 DEF LedgerStep

LEMMA PayLoadHeld ==
  ASSUME Typed, PaymentsHeld, NEW w \in Workers, PayLoad(w), Turn(w)
  PROVE  PaymentsHeld'
<1>1. PICK d \in Owed, amount \in Amounts :
        /\ papers[d].status \in PayableStatuses(d) /\ amount <= Balance(d)
        /\ Becomes(w, [step |-> "pay", document |-> d, amount |-> amount])
  BY DEF PayLoad, Owed
<1>2. job'[w] = [step |-> "pay", document |-> d, amount |-> amount]
  BY <1>1, TypedPapers DEF Becomes, Jobs
<1>3. papers' = papers /\ payments' = payments
  BY DEF PayLoad, documents, money
<1>4. papers[d].paid \in Int /\ papers[d].total \in Int /\ amount \in Nat \ {0}
  <2>1. papers[d] \in PaperRow
    BY OwedPapers, TypedPapers DEF PapersTyped
  <2> QED BY <2>1, AmountsPositive DEF PaperRow
<1>5. papers[d].paid + amount <= papers[d].total
  <2> DEFINE left == papers[d].total - papers[d].paid
  <2>1. Balance(d) = IF 0 <= left THEN left ELSE 0
    BY <1>4, MaxPair DEF Balance
  <2> QED BY <1>1, <1>4, <2>1
<1>6. StillPayable(job[w])'
  BY <1>2, <1>3, <1>5 DEF StillPayable
<1> QED BY <1>2, <1>3, <1>6, OwedUntouched, PaymentsUntouched, PaymentsElsewhere

LEMMA PayCommitHeld ==
  ASSUME Typed, PaymentsHeld, NEW w \in Workers, PayCommit(w), Turn(w)
  PROVE  PaymentsHeld'
<1>0. PICK d \in Owed, n \in Nat : d = job[w].document /\ n = job[w].amount
  BY TypedPapers, AmountsPositive DEF PayCommit, At, JobShape, MoneyShape, Owed
<1> DEFINE paid == papers[d].paid + n
           status == IF paid >= papers[d].total THEN "PAID" ELSE "PARTIALLY_PAID"
<1>1. d \in Owed /\ d \in Documents /\ n \in Nat /\ job[w].step = "pay"
  BY OwedPapers DEF PayCommit, At
<1>2. /\ papers[d] \in PaperRow /\ papers \in [Documents -> PaperRow] /\ papers[d].paid \in Nat
      /\ papers[d].total \in Int
  BY <1>1, TypedPapers DEF PapersTyped, PaperRow
<1>3. /\ Present(d) /\ Acceptable(d, paid)
      /\ papers' = [papers EXCEPT ![d].paid = paid, ![d].status = status]
      /\ job'[w].step = "idle"
  BY <1>0, TypedPapers DEF PayCommit, Respond, Becomes, Jobs, Idle
<1>4. PICK p \in Payments :
        payments[p] = NoPayment /\ payments' = [payments EXCEPT ![p] = [document |-> d, amount |-> n]]
  BY <1>0 DEF PayCommit, NewPayment
<1>5. paid \in Nat /\ paid = papers[d].paid + n /\ status # "ABSENT"
  BY <1>1, <1>2
<1>6. ~overlap => papers[d].paid + n <= papers[d].total
  BY <1>0, <1>1 DEF PaymentsHeld, StillPayable
<1> HIDE DEF paid, status
<1>7. /\ papers'[d].paid = paid /\ papers'[d].status = status
      /\ papers'[d].total = papers[d].total
      /\ \A x \in Documents \ {d} : papers'[x] = papers[x]
  BY <1>1, <1>2, <1>3 DEF PaperRow
<1>8. /\ Received(d)' = Received(d) + n
      /\ \A x \in Owed \ {d} : Received(x)' = Received(x)
      /\ \A x : Received(x) \in Nat
  <2>1. PaymentMade(p, d, n) /\ d # "none"
    BY <1>1, <1>4, OwedPapers DEF PaymentMade
  <2> QED BY <2>1, ReceivedMore
<1>9. ASSUME NEW q \in Payments, payments'[q].document # "none"
      PROVE  Present(payments[q].document)'
  <2>1. CASE q = p
    <3>1. payments'[q].document = d
      BY <1>4, <2>1, TypedMoney
    <3> QED BY <1>5, <1>7, <3>1 DEF Present
  <2>2. CASE q # p
    <3>1. payments'[q] = payments[q] /\ Present(payments[q].document)
      BY <1>4, <1>9, <2>2, TypedMoney DEF PaymentsHeld
    <3>2. payments[q].document \in Documents
      BY <1>9, <3>1, TypedMoney, OwedPapers DEF Owed
    <3> QED BY <1>5, <1>7, <3>1, <3>2 DEF Present
  <2> QED BY <2>1, <2>2
<1>10. ASSUME NEW x \in Owed, Present(x)'
       PROVE  /\ papers'[x].paid = Received(x)'
              /\ (x \in Bills /\ overlap) \/ papers'[x].paid <= papers'[x].total
  <2>1. CASE x = d
    <3>1. papers[d].paid = Received(d)
      BY <1>1, <1>3 DEF PaymentsHeld
    <3>2. d \in Invoices => paid <= papers[d].total
      BY <1>3 DEF Acceptable
    <3>3. (d \in Bills /\ overlap) \/ paid <= papers[d].total
      BY <1>1, <1>5, <1>6, <3>2 DEF Owed
    <3>4. papers'[x].paid = papers[d].paid + n /\ Received(x)' = Received(d) + n
      BY <1>5, <1>7, <1>8, <2>1
    <3>5. (x \in Bills /\ overlap) \/ papers'[x].paid <= papers'[x].total
      BY <1>7, <2>1, <3>3
    <3> QED BY <3>1, <3>4, <3>5
  <2>2. CASE x # d
    <3>1. papers'[x] = papers[x] /\ Received(x)' = Received(x)
      BY <1>7, <1>8, <2>2, OwedPapers
    <3> QED BY <1>10, <3>1 DEF PaymentsHeld, Present
  <2> QED BY <2>1, <2>2
<1>11. ASSUME ~overlap, NEW v \in Workers PROVE StillPayable(job[v])'
  <2>1. job'[v].step = "idle"
    BY <1>3, <1>11, TypedPapers DEF Turn, Alone, Others, At, Jobs
  <2> QED BY <2>1 DEF StillPayable
<1>12. \A v \in Workers : job'[v].step # "edit_payment"
  BY <1>3, TypedPapers DEF Turn, Jobs, PaymentsHeld
<1> QED BY <1>9, <1>10, <1>11, <1>12 DEF PaymentsHeld, Turn

LEMMA PaymentsInit == ControlsInit => PaymentsSound
<1> SUFFICES ASSUME ControlsInit PROVE PaymentsHeld
  BY DEF PaymentsSound
<1>1. /\ payments = [p \in Payments |-> NoPayment] /\ papers = [d \in Documents |-> Absent]
      /\ job = [w \in Workers |-> Idle]
  BY DEF ControlsInit, AllInit, Init, LedgerInit
<1>2. \A p \in Payments : payments[p].document = "none"
  BY <1>1 DEF NoPayment
<1>3. \A d \in Owed : ~Present(d)
  BY <1>1, OwedPapers DEF Present, Absent
<1>4. \A w \in Workers : StillPayable(job[w]) /\ job[w].step # "edit_payment"
  BY <1>1 DEF StillPayable, Idle
<1> QED BY <1>2, <1>3, <1>4 DEF PaymentsHeld

\* Where a bank request takes its worker.
LEMMA BankLeads ==
  ASSUME Jobs, NEW w \in Workers, MoneyStep(w), ~PayLoad(w), ~EditPaymentLoad(w)
  PROVE  job'[w].step \notin {"pay", "edit_payment"}
<1>1. CASE PayCommit(w) \/ EditPaymentSave(w) \/ Transact(w) \/ Transfer(w) \/ AccountSave(w)
  BY <1>1 DEF PayCommit, EditPaymentSave, Transact, Transfer, AccountSave, Respond, Becomes, Jobs,
              Idle
<1>2. CASE ReceiveUnapplied(w) \/ DeletePayment(w) \/ ChangeVoucher(w)
  BY <1>2 DEF ReceiveUnapplied, DeletePayment, ChangeVoucher, Takes, At
<1>3. CASE TransactLoad(w) \/ TransferLoad(w)
  BY <1>3 DEF TransactLoad, TransferLoad, Becomes, Jobs
<1>4. CASE AccountLoad(w)
  BY <1>4, AccountAsked DEF Becomes, Jobs
<1> QED BY <1>1, <1>2, <1>3, <1>4 DEF MoneyStep

LEMMA PaymentsStep ==
  ASSUME Typed, Serial, \A v \in Workers : KnowsBill(job[v]), PaymentsSound,
         [ControlsNext]_controlsVars
  PROVE  PaymentsSound'
<1>1. CASE UNCHANGED controlsVars
  BY <1>1 DEF controlsVars, allVars, vars, documents, money, PaymentsSound, PaymentsHeld, PaymentsStay,
              StillPayable, Present, Received
<1>2. CASE ControlsNext
  <2>1. PICK w \in Workers :
          /\ Turn(w)
          /\ \/ Paper(w) /\ job'[w].step \in PaperSteps \union {"idle"}
             \/ MoneyStep(w)
             \/ /\ UNCHANGED <<documents, money>>
                /\ job'[w].step \in AssetSteps \union ControlSteps \union {"idle"}
    BY <1>2, SomeTurn
  <2> SUFFICES ASSUME PaymentsStay, PaymentsHeld PROVE PaymentsHeld'
    BY <2>1 DEF PaymentsSound, PaymentsStay, Turn
  <2>2. job'[w].step # "pay" => StillPayable(job[w])'
    BY DEF StillPayable
  <2>3. CASE Paper(w) /\ job'[w].step \in PaperSteps \union {"idle"}
    <3>1. OwedStay
      BY <2>3, OwedKept DEF PaymentsStay
    <3>2. payments' = payments /\ job'[w].step \notin {"pay", "edit_payment"}
      BY <2>3 DEF Paper, money, PaperSteps
    <3> QED BY <2>1, <2>2, <3>1, <3>2, PaymentsUntouched, PaymentsElsewhere
  <2>4. CASE MoneyStep(w)
    <3>1. CASE PayLoad(w)
      BY <2>1, <3>1, PayLoadHeld
    <3>2. CASE PayCommit(w)
      BY <2>1, <3>2, PayCommitHeld
    <3>3. CASE ReceiveUnapplied(w)
      <4>1. PICK p \in Payments, n \in Amounts : PaymentMade(p, "none", n)
        BY <3>3 DEF ReceiveUnapplied, NewPayment, PaymentMade
      <4>2. n \in Nat
        BY AmountsPositive
      <4>3. papers' = papers /\ job'[w].step = "idle"
        BY <3>3 DEF ReceiveUnapplied, documents, Takes, At
      <4> QED
        BY <2>1, <2>2, <4>1, <4>2, <4>3, OwedUntouched, ReceivedUnapplied, PaymentsElsewhere
    <3>4. CASE EditPaymentLoad(w) \/ EditPaymentSave(w)
      BY <3>4 DEF EditPaymentLoad, Takes, PaymentsStay, EditPaymentSave, At, PaymentsHeld
    <3>5. CASE ~PayLoad(w) /\ ~PayCommit(w) /\ ~ReceiveUnapplied(w) /\ ~EditPaymentLoad(w)
               /\ ~EditPaymentSave(w)
      <4>1. UNCHANGED <<papers, payments>>
        BY <2>4, <3>5 DEF MoneyStep, DeletePayment, Takes, PaymentsStay, TransactLoad, Transact,
                          ChangeVoucher, TransferLoad, Transfer, AccountLoad, AccountSave, documents,
                          money
      <4>2. job'[w].step \notin {"pay", "edit_payment"}
        BY <2>4, <3>5, TypedPapers, BankLeads
      <4> QED BY <2>1, <2>2, <4>1, <4>2, OwedUntouched, PaymentsUntouched, PaymentsElsewhere
    <3> QED BY <3>1, <3>2, <3>3, <3>4, <3>5
  <2>5. CASE /\ UNCHANGED <<documents, money>>
             /\ job'[w].step \in AssetSteps \union ControlSteps \union {"idle"}
    <3>1. UNCHANGED <<papers, payments>> /\ job'[w].step \notin {"pay", "edit_payment"}
      BY <2>5 DEF documents, money, AssetSteps, ControlSteps
    <3> QED BY <2>1, <2>2, <3>1, OwedUntouched, PaymentsUntouched, PaymentsElsewhere
  <2> QED BY <2>1, <2>3, <2>4, <2>5
<1> QED BY <1>1, <1>2

\* However receipts overlap, an invoice is paid what its receipts add up to and
\* never more than its total; a bill is paid what its payments add up to: until a
\* payment is deleted, edited or moved behind its document.
THEOREM PaymentsAddUp == ControlsSpec => []PaidAddsUp
<1>1. ControlsInit => ClaimsSound /\ PaymentsSound
  BY ClaimsInit, PaymentsInit
<1>2. Typed /\ Typed' /\ Serial /\ ClaimsSound /\ PaymentsSound /\ [ControlsNext]_controlsVars
        => (ClaimsSound /\ PaymentsSound)'
  <2> SUFFICES ASSUME Typed, Typed', Serial, ClaimsSound, PaymentsSound, [ControlsNext]_controlsVars
               PROVE  ClaimsSound' /\ PaymentsSound'
    OBVIOUS
  <2>1. \A v \in Workers : KnowsBill(job[v])
    BY DEF ClaimsSound
  <2> QED BY <2>1, ClaimsStep, PaymentsStep
<1>3. PaymentsSound => PaidAddsUp
  BY DEF PaymentsSound, PaymentsHeld, PaymentsStay, PaidAddsUp, Unless, Received, Owed
<1> QED BY <1>1, <1>2, <1>3, FinanceSteady, PTL DEF ControlsSpec

----
(* Bank accounts.                                                          *)
(*                                                                         *)
(* A voucher is new when it is used, so that it adds its amount to what    *)
(* those of its account say.  One request at a time, whoever holds a       *)
(* balance holds the one that is there.                                    *)

VoucherRows == [Vouchers -> [account : Accounts \union {"none"}, amount : Int]]

\* What the vouchers of an account add up to.
Vouched(rows, a) ==
  SumFunctionOnSet([v \in Vouchers |-> rows[v].amount], {v \in Vouchers : rows[v].account = a})

\* What the ledger holds of the documents that move the account.
Posted == SumFunctionOnSet([d \in Documents |-> Booked(d)], Journals \union Invoices)

\* Requests that lead to what a worker does.
BankAsked(j) ==
  /\ j.step = "transact" => "transact" \in clients
  /\ j.step = "account" => clients \intersect {"edit_account", "money_in"} # {}

\* One request at a time: what has been read of an account is still there.
BankCurrent(j) ==
  /\ "set_balance" \notin clients =>
       /\ j.step = "transact" => banks[j.account] + j.amount >= 0
       /\ j.step = "account" => j.balance = banks[j.account]
  /\ j.step = "booking" => j.balance = account

VouchersStay ==
  /\ "change_voucher" \notin clients /\ "set_balance" \notin clients
  /\ ~(overlap /\ clients \intersect {"edit_account", "money_in"} # {})
Checked == "set_balance" \notin clients /\ ~(overlap /\ "transact" \in clients)

BanksSound ==
  /\ \A w \in Workers : BankAsked(job[w])
  /\ VouchersStay => \A a \in Accounts : banks[a] = Opening[a] + deposits[a] + Vouched(vouchers, a)
  /\ Checked => /\ \A a \in Accounts : banks[a] >= 0
                /\ \A w \in Workers : job[w].step = "account" => job[w].balance >= 0
  /\ ~overlap => account = Posted /\ \A w \in Workers : BankCurrent(job[w])

\* A new voucher, and what it adds.
VoucherMade(r, s, v, a, n) ==
  r[v].account = "none" /\ s = [r EXCEPT ![v] = [account |-> a, amount |-> n]]

LEMMA VoucherAdded ==
  ASSUME NEW r \in VoucherRows, NEW s, NEW v \in Vouchers, NEW a \in Accounts, NEW n \in Int,
         VoucherMade(r, s, v, a, n)
  PROVE  /\ s \in VoucherRows
         /\ Vouched(s, a) = Vouched(r, a) + n
         /\ \A b \in Accounts \ {a} : Vouched(s, b) = Vouched(r, b)
         /\ \A b : Vouched(r, b) \in Int
<1> DEFINE f == [q \in Vouchers |-> r[q].amount]
           g == [q \in Vouchers |-> s[q].amount]
           S(x) == {q \in Vouchers : r[q].account = x}
<1>1. /\ s[v] = [account |-> a, amount |-> n] /\ s \in VoucherRows
      /\ \A q \in Vouchers \ {v} : s[q] = r[q]
  BY DEF VoucherMade, VoucherRows
<1>2. (\A q \in Vouchers : f[q] \in Int /\ g[q] \in Int) /\ g[v] = n
      /\ \A q \in Vouchers \ {v} : g[q] = f[q]
  BY <1>1 DEF VoucherRows
<1>3. \A x : S(x) \subseteq Vouchers /\ IsFiniteSet(S(x))
  BY FinanceAssumption, FS_Subset
<1>4. v \notin S(a) /\ {q \in Vouchers : s[q].account = a} = S(a) \union {v}
  BY <1>1, FinanceAssumption DEF VoucherMade
<1>5. \A x \in Accounts \ {a} : v \notin S(x) /\ {q \in Vouchers : s[q].account = x} = S(x)
  BY <1>1, FinanceAssumption DEF VoucherMade
<1>6. /\ \A x : Vouched(r, x) = SumFunctionOnSet(f, S(x))
      /\ Vouched(s, a) = SumFunctionOnSet(g, S(a) \union {v})
      /\ \A x \in Accounts \ {a} : Vouched(s, x) = SumFunctionOnSet(g, S(x))
  BY <1>4, <1>5 DEF Vouched
<1>7. \A x : v \notin S(x) => \A q \in S(x) : f[q] = g[q]
  BY <1>2, <1>3
<1> HIDE DEF f, g, S
<1>8. \A x : v \notin S(x) => SumFunctionOnSet(f, S(x)) = SumFunctionOnSet(g, S(x))
  BY <1>3, <1>7, SumSame
<1>9. \A x : SumFunctionOnSet(f, S(x)) \in Int
  BY <1>2, <1>3, SumInt
<1>10. SumFunctionOnSet(g, S(a) \union {v}) = g[v] + SumFunctionOnSet(g, S(a))
  <2>1. \A q \in S(a) \union {v} : g[q] \in Int
    BY <1>2, <1>3
  <2> QED BY <1>3, <1>4, <2>1, SumAdd
<1>11. Vouched(s, a) = Vouched(r, a) + n
  <2>1. Vouched(r, a) \in Int /\ SumFunctionOnSet(g, S(a)) = Vouched(r, a)
    BY <1>4, <1>6, <1>8, <1>9
  <2> QED BY <1>2, <1>6, <1>10, <2>1
<1>12. \A x \in Accounts \ {a} : Vouched(s, x) = Vouched(r, x)
  BY <1>5, <1>6, <1>8
<1> QED BY <1>1, <1>6, <1>9, <1>11, <1>12

\* What the entries of a document come to, and what one more adds.
EntriesTotal(L) == SumFunctionOnSet([n \in DOMAIN L |-> L[n].amount], DOMAIN L)

LEMMA EntryAdded ==
  ASSUME NEW L \in Seq([key : 0..MaxLines, amount : Int]), NEW e \in [key : 0..MaxLines, amount : Int],
         NEW M, M = Append(L, e)
  PROVE  EntriesTotal(L) \in Int /\ EntriesTotal(M) = EntriesTotal(L) + e.amount
<1> DEFINE E == [key : 0..MaxLines, amount : Int]
           s == [n \in DOMAIN L |-> L[n].amount]
           t == [n \in DOMAIN M |-> M[n].amount]
<1>1. L \in Seq(E) /\ e \in E
  OBVIOUS
<1>2. e.amount \in Int /\ \A x \in E : x.amount \in Int
  OBVIOUS
<1> HIDE DEF E
<1>3. DOMAIN L = 1..Len(L) /\ Len(L) \in Nat /\ \A n \in 1..Len(L) : L[n] \in E
  BY <1>1
<1>4. DOMAIN M = 1..(Len(L) + 1) /\ M[Len(L) + 1] = e /\ \A n \in 1..Len(L) : M[n] = L[n]
  BY <1>1, <1>3
<1>5. s = [n \in 1..Len(L) |-> s[n]] /\ \A n \in 1..Len(L) : s[n] \in Int
  BY <1>2, <1>3
<1>6. s \in Seq(Int) /\ Len(s) = Len(L) /\ DOMAIN s = DOMAIN L
  BY <1>3, <1>5
<1>7. t = Append(s, e.amount) /\ DOMAIN t = DOMAIN M
  <2>1. /\ t = [n \in 1..(Len(L) + 1) |-> t[n]] /\ t[Len(L) + 1] = e.amount
        /\ \A n \in 1..Len(L) : t[n] = s[n]
    BY <1>3, <1>4
  <2> HIDE DEF s, t
  <2>2. Append(s, e.amount) = [n \in 1..(Len(L) + 1) |-> IF n = Len(L) + 1 THEN e.amount ELSE s[n]]
    BY <1>2, <1>6
  <2>3. ASSUME NEW n \in 1..(Len(L) + 1)
        PROVE  t[n] = IF n = Len(L) + 1 THEN e.amount ELSE s[n]
    <3>1. ASSUME NEW k \in Nat, n \in 1..(k + 1) PROVE n = k + 1 \/ (n \in 1..k /\ n # k + 1)
      BY <3>1
    <3>2. n = Len(L) + 1 \/ (n \in 1..Len(L) /\ n # Len(L) + 1)
      BY <1>3, <3>1
    <3> QED BY <2>1, <3>2
  <2>4. t = [n \in 1..(Len(L) + 1) |-> IF n = Len(L) + 1 THEN e.amount ELSE s[n]]
    BY <2>1, <2>3
  <2> QED BY <1>4, <2>1, <2>2, <2>4 DEF t
<1> HIDE DEF s, t
<1>8. /\ SumFunctionOnSet(s, DOMAIN s) \in Int
      /\ SumFunctionOnSet(t, DOMAIN t) = SumFunctionOnSet(s, DOMAIN s) + e.amount
  BY <1>2, <1>6, <1>7, SumAppend
<1> QED BY <1>6, <1>7, <1>8 DEF EntriesTotal, s, t

LEMMA BankTypes ==
  ASSUME Typed
  PROVE  /\ vouchers \in VoucherRows /\ banks \in [Accounts -> Int]
         /\ deposits \in [Accounts -> 0..MaxDeposits] /\ Opening \in [Accounts -> Nat]
         /\ \A a : Vouched(vouchers, a) \in Int
<1>1. vouchers \in VoucherRows /\ banks \in [Accounts -> Int]
      /\ deposits \in [Accounts -> 0..MaxDeposits] /\ Opening \in [Accounts -> Nat]
  BY TypedMoney, FinanceAssumption DEF VoucherRows
<1>2. ASSUME NEW a PROVE Vouched(vouchers, a) \in Int
  <2> DEFINE f == [v \in Vouchers |-> vouchers[v].amount]
             S == {v \in Vouchers : vouchers[v].account = a}
  <2>1. IsFiniteSet(S) /\ \A v \in S : f[v] \in Int
    BY <1>1, FinanceAssumption, FS_Subset DEF VoucherRows
  <2> HIDE DEF f, S
  <2>2. SumFunctionOnSet(f, S) \in Int
    BY <2>1, SumInt
  <2> QED BY <2>2 DEF Vouched, f, S
<1> QED BY <1>1, <1>2

\* The ledger and the accounts are left alone, and one request changes.
LEMMA BanksRead ==
  ASSUME Typed, BanksSound, NEW w \in Workers, Turn(w),
         UNCHANGED <<ledger, account, banks, vouchers, deposits>>,
         BankAsked(job'[w]),
         Checked /\ job'[w].step = "account" => job'[w].balance >= 0,
         ~overlap => BankCurrent(job'[w])
  PROVE  BanksSound'
<1>1. \A v \in Workers : v # w => job'[v] = job[v]
  BY TypedPapers DEF Turn, Jobs
<1>2. \A v \in Workers : BankAsked(job[v])'
  <2>1. \A v \in Workers : BankAsked(job'[v])
    BY <1>1 DEF BanksSound
  <2> QED BY <2>1 DEF BankAsked, Turn
<1>3. ~overlap => \A v \in Workers : BankCurrent(job[v])'
  <2>1. ~overlap => \A v \in Workers : BankCurrent(job'[v])
    BY <1>1 DEF BanksSound
  <2> QED BY <2>1 DEF BankCurrent, Turn
<1>4. Checked => \A v \in Workers : job'[v].step = "account" => job'[v].balance >= 0
  BY <1>1 DEF BanksSound
<1>5. Posted' = Posted
  BY DEF Posted, Booked
<1>6. (Checked' <=> Checked) /\ (VouchersStay' <=> VouchersStay) /\ overlap' = overlap
  BY DEF Checked, VouchersStay, Turn
<1> QED BY <1>2, <1>3, <1>4, <1>5, <1>6 DEF BanksSound

\* A request that leaves the accounts alone and reads nothing of them.
LEMMA BanksElsewhere ==
  ASSUME Typed, BanksSound, NEW w \in Workers, Turn(w),
         UNCHANGED <<ledger, account, banks, vouchers, deposits>>,
         job'[w].step \notin {"transact", "account", "booking"}
  PROVE  BanksSound'
<1>1. BankAsked(job'[w]) /\ BankCurrent(job'[w])
  BY DEF BankAsked, BankCurrent
<1> QED BY <1>1, BanksRead

\* A request that is done with the accounts.
LEMMA BanksSaved ==
  ASSUME Typed, BanksSound, NEW w \in Workers, Turn(w), job'[w].step = "idle",
         VouchersStay =>
           \A a \in Accounts : banks'[a] = Opening[a] + deposits'[a] + Vouched(vouchers', a),
         Checked => \A a \in Accounts : banks'[a] >= 0,
         ~overlap => account' = Posted'
  PROVE  BanksSound'
<1>1. \A v \in Workers : v # w => job'[v] = job[v]
  BY TypedPapers DEF Turn, Jobs
<1>2. \A v \in Workers : BankAsked(job[v])'
  BY <1>1 DEF BanksSound, BankAsked, Turn
<1>3. ~overlap => \A v \in Workers : BankCurrent(job[v])'
  <2>1. ~overlap => \A v \in Workers : job'[v].step = "idle"
    BY <1>1 DEF Turn, Alone, Others, At
  <2> QED BY <2>1 DEF BankCurrent
<1>4. Checked => \A v \in Workers : job'[v].step = "account" => job'[v].balance >= 0
  BY <1>1 DEF BanksSound
<1>5. (Checked' <=> Checked) /\ (VouchersStay' <=> VouchersStay) /\ overlap' = overlap
  BY DEF Checked, VouchersStay, Turn
<1>6. \A a : Vouched(vouchers, a)' = Vouched(vouchers', a)
  BY DEF Vouched
<1> QED BY <1>2, <1>3, <1>4, <1>5, <1>6 DEF BanksSound

\* What a posting adds to what the ledger holds of the account.
LEMMA PostedMore ==
  ASSUME Typed, NEW w \in Workers, PostCommit(w)
  PROVE  /\ Posted \in Int
         /\ Posted' = IF job[w].document \in Bills THEN Posted ELSE Posted + job[w].amount
<1>0. PICK d, e : d = job[w].document /\ e = [key |-> job[w].key, amount |-> job[w].amount]
  OBVIOUS
<1> DEFINE f == [x \in Documents |-> Booked(x)]
           g == [x \in Documents |-> Booked(x)']
           S == Journals \union Invoices
<1>1. d \in Documents /\ e \in [key : 0..MaxLines, amount : Int]
  BY <1>0, TypedPapers DEF PostCommit, At, JobShape, PaperShape
<1>2. ledger'[d] = Append(ledger[d], e) /\ \A x \in Documents \ {d} : ledger'[x] = ledger[x]
  BY <1>0, PostCommitWrites
<1>3. \A x \in Documents : ledger[x] \in Seq([key : 0..MaxLines, amount : Int])
  BY TypedPapers
<1>4. Booked(d)' = Booked(d) + e.amount
  <2>1. EntriesTotal(ledger'[d]) = EntriesTotal(ledger[d]) + e.amount
    BY <1>1, <1>2, <1>3, EntryAdded
  <2>2. Booked(d) = EntriesTotal(ledger[d]) /\ Booked(d)' = EntriesTotal(ledger'[d])
    BY DEF Booked, EntriesTotal
  <2> QED BY <2>1, <2>2
<1>5. \A x \in Documents : Booked(x) \in Int
  <2>1. \A x \in Documents : EntriesTotal(ledger[x]) \in Int
    BY <1>1, <1>3, EntryAdded
  <2> QED BY <2>1 DEF Booked, EntriesTotal
<1>6. \A x \in Documents \ {d} : Booked(x)' = Booked(x)
  BY <1>2 DEF Booked
<1>7. S \subseteq Documents /\ IsFiniteSet(S) /\ (d \in S <=> d \notin Bills)
  <2>1. S \subseteq Documents
    BY DEF Documents
  <2> QED BY <1>1, <2>1, LedgerAssumption, FS_Subset DEF Documents
<1>8. e.amount = job[w].amount /\ e.amount \in Int
  BY <1>0, <1>1
<1>9. /\ \A x \in S : f[x] \in Int
      /\ d \in S => g[d] = f[d] + e.amount
      /\ \A x \in S \ {d} : g[x] = f[x]
  <2>1. \A x \in S : x \in Documents /\ f[x] = Booked(x) /\ g[x] = Booked(x)'
    BY <1>7
  <2> HIDE DEF f, g, S
  <2> QED BY <1>1, <1>4, <1>5, <1>6, <2>1
<1>10. Posted = SumFunctionOnSet(f, S) /\ Posted' = SumFunctionOnSet(g, S)
  BY DEF Posted
<1> HIDE DEF f, g, S
<1>11. SumFunctionOnSet(f, S) \in Int
  BY <1>7, <1>9, SumInt
<1>12. CASE d \in S
  <2>1. f[d] \in Int /\ g[d] \in Int
    BY <1>8, <1>9, <1>12
  <2>2. SumFunctionOnSet(g, S) = SumFunctionOnSet(f, S) - f[d] + g[d]
    BY <1>7, <1>9, <1>12, <2>1, SumChange
  <2>3. SumFunctionOnSet(g, S) = SumFunctionOnSet(f, S) + e.amount
    BY <1>8, <1>9, <1>11, <1>12, <2>1, <2>2
  <2> QED BY <1>0, <1>7, <1>8, <1>10, <1>11, <1>12, <2>3
<1>13. CASE d \notin S
  <2>1. SumFunctionOnSet(f, S) = SumFunctionOnSet(g, S)
    BY <1>7, <1>9, <1>13, SumSame
  <2> QED BY <1>0, <1>7, <1>10, <1>11, <1>13, <2>1
<1> QED BY <1>12, <1>13

LEMMA PostCommitBanks ==
  ASSUME Typed, BanksSound, NEW w \in Workers, PostCommit(w), UNCHANGED money, Turn(w)
  PROVE  BanksSound'
<1>1. account' = IF job[w].document \in Bills THEN account ELSE job[w].balance + job[w].amount
  BY DEF PostCommit
<1>2. At(w, "booking") /\ job[w].amount \in Int /\ job'[w].step = "idle"
  BY TypedPapers, PostCommitWrites DEF PostCommit, At, JobShape, PaperShape
<1>3. ~overlap => account = Posted /\ job[w].balance = account
  BY <1>2 DEF BanksSound, BankCurrent, At
<1>4. ~overlap => account' = Posted'
  BY <1>1, <1>2, <1>3, PostedMore
<1>5. banks' = banks /\ deposits' = deposits /\ vouchers' = vouchers
  BY DEF money
<1> QED BY <1>2, <1>4, <1>5, BanksSaved DEF BanksSound

LEMMA PaperBanks ==
  ASSUME Typed, BanksSound, NEW w \in Workers, Paper(w), Turn(w)
  PROVE  BanksSound'
<1>1. LedgerStep(w, Paid) /\ UNCHANGED money
  BY DEF Paper
<1>2. UNCHANGED <<banks, vouchers, deposits>>
  BY <1>1 DEF money
<1>3. CASE PostCommit(w)
  BY <1>1, <1>3, PostCommitBanks
<1>4. CASE PostRead(w) \/ ReverseRead(w)
  <2>1. job'[w].step = "booking" /\ job'[w].balance = account
    BY <1>4, TypedPapers DEF PostRead, ReverseRead, Becomes, Jobs
  <2>2. BankAsked(job'[w]) /\ BankCurrent(job'[w])
    BY <2>1 DEF BankAsked, BankCurrent
  <2>3. UNCHANGED <<ledger, account>>
    BY <1>4 DEF PostRead, ReverseRead, documents
  <2> QED BY <1>2, <2>1, <2>2, <2>3, BanksRead
<1>5. CASE CreateDocument(w) \/ EditSave(w) \/ DeleteSave(w, Paid) \/ StatusSave(w)
  <2>1. job'[w].step = "idle" /\ UNCHANGED <<ledger, account>>
    BY <1>5, TypedPapers DEF CreateDocument, Takes, At, EditSave, DeleteSave, StatusSave, Respond,
                             Becomes, Jobs, Idle
  <2> QED BY <1>2, <2>1, BanksElsewhere
<1>6. CASE EditLoad(w) \/ DeleteLoad(w) \/ StatusLoad(w) \/ PostLoad(w) \/ ReverseLoad(w)
  <2>1. UNCHANGED <<ledger, account>>
    BY <1>6 DEF EditLoad, DeleteLoad, StatusLoad, PostLoad, ReverseLoad, documents
  <2>2. job'[w].step \in {"edit", "delete", "status", "post", "reverse"}
    BY <1>6, TypedPapers DEF EditLoad, DeleteLoad, StatusLoad, PostLoad, ReverseLoad, Becomes, Jobs
  <2> QED BY <1>2, <2>1, <2>2, BanksElsewhere
<1> QED BY <1>1, <1>3, <1>4, <1>5, <1>6 DEF LedgerStep

LEMMA TransactLoadBanks ==
  ASSUME Typed, BanksSound, NEW w \in Workers, TransactLoad(w), Turn(w)
  PROVE  BanksSound'
<1>1. PICK a \in Accounts, amount \in Amounts \union {-x : x \in Amounts} :
        /\ banks[a] + amount >= 0 \/ amount > 0
        /\ Becomes(w, [step |-> "transact", account |-> a, amount |-> amount])
  BY DEF TransactLoad
<1>2. job'[w] = [step |-> "transact", account |-> a, amount |-> amount]
  BY <1>1, TypedPapers DEF Becomes, Jobs
<1>3. "transact" \in clients /\ UNCHANGED <<ledger, account, banks, vouchers, deposits>>
  BY DEF TransactLoad, Takes, documents, money
<1>4. amount \in Int /\ banks[a] \in Int
  BY AmountsPositive, BankTypes
<1>5. ~overlap /\ "set_balance" \notin clients => banks[a] + amount >= 0
  BY <1>1, <1>4 DEF BanksSound, Checked
<1>6. BankAsked(job'[w]) /\ (~overlap => BankCurrent(job'[w]))
  BY <1>2, <1>3, <1>5 DEF BankAsked, BankCurrent
<1> QED BY <1>2, <1>3, <1>6, BanksRead

LEMMA TransactBanks ==
  ASSUME Typed, BanksSound, NEW w \in Workers, Transact(w), Turn(w)
  PROVE  BanksSound'
<1> DEFINE a == job[w].account
           n == job[w].amount
           v == Min(Unused)
<1>1. a \in Accounts /\ n \in Int /\ job[w].step = "transact"
  BY TypedPapers DEF Transact, At, JobShape, MoneyShape
<1>2. v \in Vouchers /\ vouchers[v] = NoVoucher
  BY UnusedKey DEF Transact, Unused
<1>3. /\ vouchers' = [vouchers EXCEPT ![v] = [account |-> a, amount |-> n]]
      /\ banks' = [banks EXCEPT ![a] = @ + n]
      /\ deposits' = deposits /\ account' = account /\ ledger' = ledger
      /\ job'[w].step = "idle"
  BY TypedPapers DEF Transact, documents, Respond, Becomes, Jobs, Idle
<1>4. vouchers[v].account = "none"
  BY <1>2 DEF NoVoucher
<1>5. Checked => ~overlap /\ banks[a] + n >= 0
  <2>1. Checked => ~overlap
    BY <1>1 DEF BanksSound, BankAsked, Checked
  <2> QED BY <1>1, <2>1 DEF BanksSound, BankCurrent, Checked
<1> HIDE DEF a, n, v
<1>6. /\ Vouched(vouchers', a) = Vouched(vouchers, a) + n
      /\ \A b \in Accounts \ {a} : Vouched(vouchers', b) = Vouched(vouchers, b)
  <2>1. VoucherMade(vouchers, vouchers', v, a, n)
    BY <1>3, <1>4 DEF VoucherMade
  <2>2. vouchers \in VoucherRows /\ v \in Vouchers /\ a \in Accounts /\ n \in Int
    BY <1>1, <1>2, BankTypes
  <2> QED BY ZenonT(60), <2>1, <2>2, VoucherAdded
<1>7. banks'[a] = banks[a] + n /\ \A b \in Accounts \ {a} : banks'[b] = banks[b]
  BY <1>1, <1>3, BankTypes
<1>8. ASSUME VouchersStay, NEW b \in Accounts
      PROVE  banks'[b] = Opening[b] + deposits'[b] + Vouched(vouchers', b)
  <2>1. banks[b] = Opening[b] + deposits[b] + Vouched(vouchers, b)
    BY <1>8 DEF BanksSound
  <2>2. Opening[b] \in Int /\ deposits[b] \in Int /\ Vouched(vouchers, b) \in Int
    BY BankTypes
  <2>3. CASE b = a
    BY <1>1, <1>3, <1>6, <1>7, <2>1, <2>2, <2>3
  <2>4. CASE b # a
    BY <1>3, <1>6, <1>7, <2>1, <2>4
  <2> QED BY <2>3, <2>4
<1>9. Checked => \A b \in Accounts : banks'[b] >= 0
  BY <1>5, <1>7 DEF BanksSound
<1>10. ~overlap => account' = Posted'
  BY <1>3 DEF BanksSound, Posted, Booked
<1> QED BY <1>3, <1>8, <1>9, <1>10, BanksSaved

LEMMA ChangeVoucherBanks ==
  ASSUME Typed, BanksSound, NEW w \in Workers, ChangeVoucher(w), Turn(w)
  PROVE  BanksSound'
<1>1. "change_voucher" \in clients /\ job'[w].step = "idle"
  BY DEF ChangeVoucher, Takes, At
<1>2. banks' = banks /\ account' = account /\ ledger' = ledger
  BY DEF ChangeVoucher, documents
<1>3. ~overlap => account' = Posted'
  BY <1>2 DEF BanksSound, Posted, Booked
<1> QED BY <1>1, <1>2, <1>3, BanksSaved DEF BanksSound, VouchersStay

LEMMA TransferLoadBanks ==
  ASSUME Typed, BanksSound, NEW w \in Workers, TransferLoad(w), Turn(w)
  PROVE  BanksSound'
<1>1. job'[w].step = "transfer"
  BY TypedPapers DEF TransferLoad, Becomes, Jobs
<1> QED BY <1>1, BanksElsewhere DEF TransferLoad, documents, money

LEMMA TransferBanks ==
  ASSUME Typed, BanksSound, NEW w \in Workers, Transfer(w), Turn(w)
  PROVE  BanksSound'
<1> DEFINE a == job[w].account
           b == job[w].to
           n == job[w].amount
           out == Min(Unused)
           in == Min(Unused \ {out})
           middle == [vouchers EXCEPT ![out] = [account |-> a, amount |-> -n]]
<1>1. a \in Accounts /\ b \in Accounts /\ a # b /\ n \in Int
  BY TypedPapers, AmountsPositive DEF Transfer, At, JobShape, MoneyShape
<1>2. out \in Vouchers /\ in \in Vouchers /\ out # in
      /\ vouchers[out] = NoVoucher /\ vouchers[in] = NoVoucher
  BY TwoKeys DEF Transfer, Unused
<1>3. /\ vouchers' = [vouchers EXCEPT ![out] = [account |-> a, amount |-> -n],
                                      ![in] = [account |-> b, amount |-> n]]
      /\ banks' = [banks EXCEPT ![a] = @ - n, ![b] = @ + n]
      /\ deposits' = deposits /\ account' = account /\ ledger' = ledger
      /\ job'[w].step = "idle"
  BY TypedPapers DEF Transfer, documents, Respond, Becomes, Jobs, Idle
<1>4. n <= banks[a] /\ 0 <= n
  BY TypedPapers, AmountsPositive DEF Transfer, Covered, At, JobShape, MoneyShape
<1>5. vouchers[out].account = "none" /\ vouchers[in].account = "none"
  BY <1>2 DEF NoVoucher
<1> HIDE DEF a, b, n, out, in
<1>6. vouchers' = [middle EXCEPT ![in] = [account |-> b, amount |-> n]]
  BY <1>3
<1>7. -n \in Int /\ middle[in].account = "none"
  BY <1>1, <1>2, <1>5, BankTypes DEF VoucherRows
<1>8. /\ middle \in VoucherRows
      /\ Vouched(middle, a) = Vouched(vouchers, a) + (-n)
      /\ \A c \in Accounts \ {a} : Vouched(middle, c) = Vouched(vouchers, c)
  <2>1. VoucherMade(vouchers, middle, out, a, -n)
    BY <1>5 DEF VoucherMade
  <2>2. vouchers \in VoucherRows /\ out \in Vouchers /\ a \in Accounts /\ -n \in Int
    BY <1>1, <1>2, <1>7, BankTypes
  <2> HIDE DEF middle
  <2> QED BY <2>1, <2>2, VoucherAdded
<1> HIDE DEF middle
<1>9. /\ Vouched(vouchers', b) = Vouched(middle, b) + n
      /\ \A c \in Accounts \ {b} : Vouched(vouchers', c) = Vouched(middle, c)
  <2>1. VoucherMade(middle, vouchers', in, b, n)
    BY <1>6, <1>7 DEF VoucherMade
  <2>2. middle \in VoucherRows /\ in \in Vouchers /\ b \in Accounts /\ n \in Int
    BY <1>1, <1>2, <1>8
  <2> QED BY ZenonT(60), <2>1, <2>2, VoucherAdded
<1>10. /\ banks'[a] = banks[a] - n /\ banks'[b] = banks[b] + n
       /\ \A c \in Accounts \ {a, b} : banks'[c] = banks[c]
  BY <1>1, <1>3, BankTypes
<1>11. ASSUME VouchersStay, NEW c \in Accounts
       PROVE  banks'[c] = Opening[c] + deposits'[c] + Vouched(vouchers', c)
  <2>1. banks[c] = Opening[c] + deposits[c] + Vouched(vouchers, c)
    BY <1>11 DEF BanksSound
  <2>2. Opening[c] \in Int /\ deposits[c] \in Int /\ Vouched(vouchers, c) \in Int
    BY BankTypes
  <2>3. CASE c = a
    <3>1. Vouched(vouchers', c) = Vouched(vouchers, c) + (-n)
      BY <1>1, <1>8, <1>9, <2>3
    <3> QED BY <1>1, <1>3, <1>10, <2>1, <2>2, <2>3, <3>1
  <2>4. CASE c = b
    <3>1. Vouched(vouchers', c) = Vouched(vouchers, c) + n
      BY <1>1, <1>8, <1>9, <2>4
    <3> QED BY <1>1, <1>3, <1>10, <2>1, <2>2, <2>4, <3>1
  <2>5. CASE c # a /\ c # b
    BY <1>3, <1>8, <1>9, <1>10, <2>1, <2>5
  <2> QED BY <2>3, <2>4, <2>5
<1>12. Checked => \A c \in Accounts : banks'[c] >= 0
  <2> SUFFICES ASSUME Checked, NEW c \in Accounts PROVE banks'[c] >= 0
    OBVIOUS
  <2>1. banks[c] >= 0 /\ banks[c] \in Int
    BY BankTypes DEF BanksSound
  <2>2. CASE c = a
    BY <1>1, <1>4, <1>10, <2>1, <2>2
  <2>3. CASE c # a
    BY <1>1, <1>4, <1>10, <2>1, <2>3
  <2> QED BY <2>2, <2>3
<1>13. ~overlap => account' = Posted'
  BY <1>3 DEF BanksSound, Posted, Booked
<1> QED BY <1>3, <1>11, <1>12, <1>13, BanksSaved

LEMMA AccountLoadBanks ==
  ASSUME Typed, BanksSound, NEW w \in Workers, AccountLoad(w), Turn(w)
  PROVE  BanksSound'
<1>1. PICK a \in Accounts :
        \E balance \in Stated(a), amount \in Amounts \union {0} :
          Becomes(w, [step |-> "account", account |-> a, balance |-> balance, amount |-> amount])
  BY AccountAsked
<1>2. PICK balance \in Stated(a) : \E amount :
        job'[w] = [step |-> "account", account |-> a, balance |-> balance, amount |-> amount]
  BY <1>1, TypedPapers DEF Becomes, Jobs
<1>3. /\ clients \intersect {"edit_account", "money_in"} # {}
      /\ clients' = clients /\ UNCHANGED <<ledger, account, banks, vouchers, deposits>>
  BY DEF AccountLoad, Takes, documents, money
<1>4. "set_balance" \notin clients => balance = banks[a]
  BY <1>2 DEF Stated
<1>5. job'[w].step = "account" /\ job'[w].account = a /\ job'[w].balance = balance
  BY <1>2
<1>6. BankAsked(job'[w]) /\ BankCurrent(job'[w])
  BY <1>3, <1>4, <1>5 DEF BankAsked, BankCurrent
<1>7. Checked => job'[w].balance >= 0
  BY <1>4, <1>5 DEF BanksSound, Checked
<1> QED BY <1>3, <1>6, <1>7, BanksRead

LEMMA AccountSaveBanks ==
  ASSUME Typed, BanksSound, NEW w \in Workers, AccountSave(w), Turn(w)
  PROVE  BanksSound'
<1> DEFINE a == job[w].account
           n == job[w].amount
           read == job[w].balance
<1>1. a \in Accounts /\ n \in Nat /\ read \in Int /\ job[w].step = "account"
  BY TypedPapers, AmountsPositive DEF AccountSave, At, JobShape, MoneyShape
<1>2. /\ banks' = [banks EXCEPT ![a] = read + n] /\ deposits' = [deposits EXCEPT ![a] = @ + n]
      /\ vouchers' = vouchers /\ account' = account /\ ledger' = ledger
      /\ job'[w].step = "idle"
  BY TypedPapers DEF AccountSave, documents, Respond, Becomes, Jobs, Idle
<1>3. Checked => read >= 0
  BY <1>1 DEF BanksSound
<1>4. VouchersStay => read = banks[a]
  <2>1. VouchersStay => ~overlap
    BY <1>1 DEF BanksSound, BankAsked, VouchersStay
  <2> QED BY <1>1, <2>1 DEF BanksSound, BankCurrent, VouchersStay
<1> HIDE DEF a, n, read
<1>5. /\ banks'[a] = read + n /\ deposits'[a] = deposits[a] + n
      /\ \A b \in Accounts \ {a} : banks'[b] = banks[b] /\ deposits'[b] = deposits[b]
  BY <1>1, <1>2, BankTypes
<1>6. ASSUME VouchersStay, NEW b \in Accounts
      PROVE  banks'[b] = Opening[b] + deposits'[b] + Vouched(vouchers', b)
  <2>1. banks[b] = Opening[b] + deposits[b] + Vouched(vouchers, b)
    BY <1>6 DEF BanksSound
  <2>2. Opening[b] \in Int /\ deposits[b] \in Int /\ Vouched(vouchers, b) \in Int
    BY BankTypes
  <2>3. CASE b = a
    BY <1>1, <1>2, <1>4, <1>5, <1>6, <2>1, <2>2, <2>3
  <2>4. CASE b # a
    BY <1>2, <1>5, <2>1, <2>4
  <2> QED BY <2>3, <2>4
<1>7. Checked => \A b \in Accounts : banks'[b] >= 0
  BY <1>1, <1>3, <1>5 DEF BanksSound
<1>8. ~overlap => account' = Posted'
  BY <1>2 DEF BanksSound, Posted, Booked
<1> QED BY <1>2, <1>6, <1>7, <1>8, BanksSaved

LEMMA MoneyBanks ==
  ASSUME Typed, BanksSound, NEW w \in Workers, MoneyStep(w), Turn(w)
  PROVE  BanksSound'
<1>1. CASE PayLoad(w) \/ PayCommit(w) \/ ReceiveUnapplied(w) \/ EditPaymentLoad(w)
           \/ EditPaymentSave(w) \/ DeletePayment(w)
  <2>1. UNCHANGED <<ledger, account, banks, vouchers, deposits>>
    BY <1>1 DEF PayLoad, PayCommit, ReceiveUnapplied, EditPaymentLoad, EditPaymentSave,
                DeletePayment, documents, money
  <2>2. job'[w].step \in {"pay", "edit_payment", "idle"}
    BY <1>1, TypedPapers DEF PayLoad, PayCommit, ReceiveUnapplied, EditPaymentLoad, EditPaymentSave,
                             DeletePayment, Takes, At, Respond, Becomes, Jobs, Idle
  <2> QED BY <2>1, <2>2, BanksElsewhere
<1> QED
  BY <1>1, TransactLoadBanks, TransactBanks, ChangeVoucherBanks, TransferLoadBanks, TransferBanks,
     AccountLoadBanks, AccountSaveBanks DEF MoneyStep

LEMMA BanksInit == ControlsInit => BanksSound
<1> SUFFICES ASSUME ControlsInit PROVE BanksSound
  OBVIOUS
<1>1. /\ banks = Opening /\ vouchers = [v \in Vouchers |-> NoVoucher]
      /\ deposits = [a \in Accounts |-> 0] /\ account = 0
      /\ ledger = [d \in Documents |-> <<>>] /\ job = [w \in Workers |-> Idle]
  BY DEF ControlsInit, AllInit, Init, LedgerInit
<1>2. \A w \in Workers : job[w].step = "idle"
  BY <1>1 DEF Idle
<1>3. Opening \in [Accounts -> Nat] /\ "none" \notin Accounts
  BY FinanceAssumption
<1>4. ASSUME NEW a \in Accounts PROVE Vouched(vouchers, a) = 0
  <2>1. {v \in Vouchers : vouchers[v].account = a} = {}
    BY <1>1, <1>3 DEF NoVoucher
  <2> QED BY <2>1, SumEmpty DEF Vouched
<1>5. Posted = 0
  <2> DEFINE f == [d \in Documents |-> Booked(d)]
             S == Journals \union Invoices
  <2>1. ASSUME NEW d \in Documents PROVE Booked(d) = 0
    <3>1. DOMAIN ledger[d] = {}
      BY <1>1
    <3> QED BY <3>1, SumEmpty DEF Booked
  <2>2. S \subseteq Documents
    BY DEF Documents
  <2>3. IsFiniteSet(S) /\ \A d \in S : f[d] = 0
    BY <2>1, <2>2, LedgerAssumption, FS_Subset
  <2> HIDE DEF f, S
  <2>4. SumFunctionOnSet(f, S) = 0
    BY <2>3, SumZeros
  <2> QED BY <2>4 DEF Posted, f, S
<1>6. \A a \in Accounts : banks[a] >= 0 /\ banks[a] = Opening[a] + deposits[a] + Vouched(vouchers, a)
  BY <1>1, <1>3, <1>4
<1>7. \A w \in Workers : BankAsked(job[w]) /\ BankCurrent(job[w])
  BY <1>2 DEF BankAsked, BankCurrent
<1> QED BY <1>1, <1>2, <1>5, <1>6, <1>7 DEF BanksSound

LEMMA BanksStep ==
  ASSUME Typed, Serial, BanksSound, [ControlsNext]_controlsVars
  PROVE  BanksSound'
<1>1. CASE UNCHANGED controlsVars
  <2>1. (\A a : Vouched(vouchers, a)' = Vouched(vouchers, a)) /\ Posted' = Posted
    BY <1>1 DEF controlsVars, allVars, vars, documents, money, Vouched, Posted, Booked
  <2> QED
    BY <1>1, <2>1 DEF controlsVars, allVars, vars, documents, money, BanksSound, BankAsked, BankCurrent,
                      VouchersStay, Checked
<1>2. CASE ControlsNext
  <2>1. PICK w \in Workers :
          /\ Turn(w)
          /\ \/ Paper(w) \/ MoneyStep(w)
             \/ /\ UNCHANGED <<documents, money>>
                /\ job'[w].step \in AssetSteps \union ControlSteps \union {"idle"}
    BY <1>2, SomeTurn
  <2>2. CASE /\ UNCHANGED <<documents, money>>
             /\ job'[w].step \in AssetSteps \union ControlSteps \union {"idle"}
    BY <2>1, <2>2, BanksElsewhere DEF documents, money, AssetSteps, ControlSteps
  <2> QED BY <2>1, <2>2, PaperBanks, MoneyBanks
<1> QED BY <1>1, <1>2

\* Money is neither lost nor made in a bank account, as long as no voucher is changed
\* behind it, no client sets a balance and nobody writes one back that another request
\* has changed; fund transfers never overdraw one; and one request at a time keeps the
\* account of the ledger at what was posted to it.
THEOREM BanksAddUp == ControlsSpec => []BankBalanced
<1>1. ControlsInit => BanksSound
  BY BanksInit
<1>2. Typed /\ Serial /\ BanksSound /\ [ControlsNext]_controlsVars => BanksSound'
  BY BanksStep
<1>3. BanksSound => BankBalanced
  BY DEF BanksSound, BankBalanced, Unless, VouchersStay, Checked, Vouched, Posted
<1> QED BY <1>1, <1>2, <1>3, FinanceSteady, PTL DEF ControlsSpec


----
(* Reports on the ledger. *)

\* The sum of multiples.
LEMMA SumTimes ==
  ASSUME NEW f, NEW h, NEW S, IsFiniteSet(S), NEW k \in Int,
         \A x \in S : f[x] \in Int /\ h[x] = k * f[x]
  PROVE  SumFunctionOnSet(h, S) = k * SumFunctionOnSet(f, S)
<1> DEFINE F(u) == SumFunctionOnSet(f, u)
           H(u) == SumFunctionOnSet(h, u)
           C == {u \in SUBSET S : H(u) # k * F(u)}
<1> SUFFICES ASSUME C # {} PROVE FALSE
  OBVIOUS
<1>1. PICK m \in C : \A y \in C : y \subseteq m => y = m
  <2>1. C \subseteq SUBSET S
    OBVIOUS
  <2> HIDE DEF C
  <2> QED BY <2>1, Smallest
<1>2. H({}) = k * F({})
  <2>1. H({}) = 0 /\ F({}) = 0
    BY SumEmpty
  <2> HIDE DEF F, H
  <2> QED BY <2>1
<1>3. PICK x \in m : TRUE
  <2> HIDE DEF F, H
  <2> QED BY <1>1, <1>2
<1> DEFINE u == m \ {x}
<1>4. /\ IsFiniteSet(m) /\ IsFiniteSet(u)
      /\ \A y \in m : f[y] \in Int /\ h[y] \in Int /\ h[y] = k * f[y]
  BY <1>1, FS_Subset
<1>5. H(m) = h[x] + H(u) /\ F(m) = f[x] + F(u)
  BY <1>3, <1>4, SumPick
<1>6. F(u) \in Int
  BY <1>4, SumInt
<1>7. H(u) = k * F(u)
  BY <1>1, <1>3
<1>8. h[x] = k * f[x] /\ f[x] \in Int
  BY <1>3, <1>4
<1>9. H(m) # k * F(m)
  BY <1>1
<1> HIDE DEF F, H, u
<1>10. \A a, b \in Int : k * (a + b) = k * a + k * b
  OBVIOUS
<1> QED BY <1>5, <1>6, <1>7, <1>8, <1>9, <1>10

LEMMA FiniteThree ==
  ASSUME NEW x, NEW y, NEW z
  PROVE  IsFiniteSet({x, y, z})
<1>1. IsFiniteSet({x})
  BY FS_Singleton
<1>2. IsFiniteSet({x} \union {y})
  BY <1>1, FS_AddElement
<1>3. IsFiniteSet(({x} \union {y}) \union {z})
  BY <1>2, FS_AddElement
<1>4. {x, y, z} = ({x} \union {y}) \union {z}
  OBVIOUS
<1> QED BY <1>3, <1>4

LEMMA SumThree ==
  ASSUME NEW f, NEW x, NEW y, NEW z, x # y, y # z, x # z, NEW S, S = {x, y, z},
         f[x] \in Int, f[y] \in Int, f[z] \in Int, f[x] + f[y] + f[z] = 0
  PROVE  SumFunctionOnSet(f, S) = 0
<1> DEFINE T == {y, z}
<1>1. S = T \union {x} /\ T = {z} \union {y} /\ x \notin T /\ y \notin {z}
  OBVIOUS
<1>2. IsFiniteSet({z}) /\ IsFiniteSet(T) /\ IsFiniteSet(S)
  <2>1. T = {z, y, z}
    OBVIOUS
  <2> HIDE DEF T
  <2> QED BY <2>1, FS_Singleton, FiniteThree
<1>3. SumFunctionOnSet(f, {z}) = f[z]
  BY SumSingle
<1>4. SumFunctionOnSet(f, T) = f[y] + SumFunctionOnSet(f, {z})
  <2>1. \A v \in {z} \union {y} : f[v] \in Int
    OBVIOUS
  <2> QED BY <1>1, <1>2, <2>1, SumAdd
<1>5. SumFunctionOnSet(f, S) = f[x] + SumFunctionOnSet(f, T)
  <2>1. \A v \in T \union {x} : f[v] \in Int
    OBVIOUS
  <2> HIDE DEF T
  <2> QED BY <1>1, <1>2, <2>1, SumAdd
<1> HIDE DEF T
<1> QED BY <1>3, <1>4, <1>5

\* Entries of invoices and bills have the total of one.
EntriesMeant ==
  /\ ledger \in [Documents -> Seq([key : 0..MaxLines, amount : Int])]
  /\ \A d \in Invoices \union Bills : \A n \in DOMAIN ledger[d] : ledger[d][n].amount \in Totals

LineRow(d, n, l) == [document |-> d, n |-> n, line |-> l]
EntryRows(d, n) == {LineRow(d, n, l) : l \in LinesOf(d)}
Movements == [r \in Rows |-> Movement(r)]

LEMMA MovementsAre ==
  ASSUME NEW d \in Documents, NEW n \in DOMAIN ledger[d]
  PROVE  /\ EntryRows(d, n) \subseteq DocumentRows
         /\ \A l \in LinesOf(d) :
              /\ LineRow(d, n, l) \in EntryRows(d, n)
              /\ Movements[LineRow(d, n, l)] =
                   (IF l.side = "debit" THEN Portion(ledger[d][n].amount, l.part)
                    ELSE -Portion(ledger[d][n].amount, l.part))
<1>1. EntryRows(d, n) \subseteq DocumentRows
  BY DEF EntryRows, LineRow, DocumentRows
<1>2. ASSUME NEW l \in LinesOf(d)
      PROVE  /\ LineRow(d, n, l) \in EntryRows(d, n)
             /\ Movements[LineRow(d, n, l)] =
                  (IF l.side = "debit" THEN Portion(ledger[d][n].amount, l.part)
                   ELSE -Portion(ledger[d][n].amount, l.part))
  <2>1. LineRow(d, n, l) \in EntryRows(d, n)
    BY DEF EntryRows
  <2>2. Movements[LineRow(d, n, l)] = Movement(LineRow(d, n, l))
    BY <1>1, <2>1 DEF Movements, Rows
  <2>3. /\ LineRow(d, n, l).document = d /\ LineRow(d, n, l).n = n /\ LineRow(d, n, l).line = l
    BY DEF LineRow
  <2>4. ~OfAsset(LineRow(d, n, l))
    BY DEF OfAsset, LineRow
  <2> QED BY <2>1, <2>2, <2>3, <2>4 DEF Movement, Entry
<1> QED BY <1>1, <1>2

LEMMA VatIs ==
  ASSUME NEW total \in Totals
  PROVE  total \in Int /\ VatWithin[total] \in Int
<1>1. total \in Nat /\ VatWithin[total] \in 0..total
  BY LedgerAssumption, StatementsAssumption
<1> QED BY <1>1

LEMMA InvoiceCloses ==
  ASSUME EntriesMeant, NEW d \in Invoices, NEW n \in DOMAIN ledger[d]
  PROVE  /\ IsFiniteSet(EntryRows(d, n)) /\ \A r \in EntryRows(d, n) : Movements[r] \in Int
         /\ SumFunctionOnSet(Movements, EntryRows(d, n)) = 0
<1> DEFINE total == ledger[d][n].amount
           vat == VatWithin[total]
           x == LineRow(d, n, Line("receivable", "debit", "total"))
           y == LineRow(d, n, Line("revenue", "credit", "taxable"))
           z == LineRow(d, n, Line("output_vat", "credit", "vat"))
<1>1. d \in Documents /\ total \in Int /\ vat \in Int
  BY VatIs DEF EntriesMeant, Documents
<1>2. LinesOf(d) = InvoiceLines
  BY DEF LinesOf
<1>3. EntryRows(d, n) = {x, y, z} /\ x # y /\ y # z /\ x # z
  BY <1>2 DEF EntryRows, InvoiceLines, LineRow, Line
<1>4. /\ Movements[x] = Portion(total, "total") /\ Movements[y] = -Portion(total, "taxable")
      /\ Movements[z] = -Portion(total, "vat")
  BY <1>1, <1>2, MovementsAre DEF InvoiceLines, Line
<1>5. Portion(total, "total") = total /\ Portion(total, "taxable") = total - vat
      /\ Portion(total, "vat") = vat
  BY DEF Portion
<1> HIDE DEF total, vat, x, y, z
<1>6. /\ Movements[x] \in Int /\ Movements[y] \in Int /\ Movements[z] \in Int
      /\ Movements[x] + Movements[y] + Movements[z] = 0
  BY <1>1, <1>4, <1>5
<1>7. PICK S : S = EntryRows(d, n)
  OBVIOUS
<1>8. S = {x, y, z} /\ IsFiniteSet({x, y, z})
  BY <1>3, <1>7, FiniteThree
<1>9. SumFunctionOnSet(Movements, S) = 0
  BY <1>3, <1>6, <1>8, SumThree
<1>10. \A r \in EntryRows(d, n) : Movements[r] \in Int
  BY <1>3, <1>6
<1> QED BY <1>7, <1>8, <1>9, <1>10

LEMMA BillCloses ==
  ASSUME EntriesMeant, NEW d \in Bills, NEW n \in DOMAIN ledger[d]
  PROVE  /\ IsFiniteSet(EntryRows(d, n)) /\ \A r \in EntryRows(d, n) : Movements[r] \in Int
         /\ SumFunctionOnSet(Movements, EntryRows(d, n)) = 0
<1> DEFINE total == ledger[d][n].amount
           vat == VatWithin[total]
           x == LineRow(d, n, Line("cost", "debit", "taxable"))
           y == LineRow(d, n, Line("input_vat", "debit", "vat"))
           z == LineRow(d, n, Line("payable", "credit", "total"))
<1>1. d \in Documents /\ total \in Int /\ vat \in Int
  BY VatIs DEF EntriesMeant, Documents
<1>2. LinesOf(d) = BillLines
  BY LedgerAssumption DEF LinesOf
<1>3. EntryRows(d, n) = {x, y, z} /\ x # y /\ y # z /\ x # z
  BY <1>2 DEF EntryRows, BillLines, LineRow, Line
<1>4. /\ Movements[x] = Portion(total, "taxable") /\ Movements[y] = Portion(total, "vat")
      /\ Movements[z] = -Portion(total, "total")
  BY <1>1, <1>2, MovementsAre DEF BillLines, Line
<1>5. Portion(total, "total") = total /\ Portion(total, "taxable") = total - vat
      /\ Portion(total, "vat") = vat
  BY DEF Portion
<1> HIDE DEF total, vat, x, y, z
<1>6. /\ Movements[x] \in Int /\ Movements[y] \in Int /\ Movements[z] \in Int
      /\ Movements[x] + Movements[y] + Movements[z] = 0
  BY <1>1, <1>4, <1>5
<1>7. PICK S : S = EntryRows(d, n)
  OBVIOUS
<1>8. S = {x, y, z} /\ IsFiniteSet({x, y, z})
  BY <1>3, <1>7, FiniteThree
<1>9. SumFunctionOnSet(Movements, S) = 0
  BY <1>3, <1>6, <1>8, SumThree
<1>10. \A r \in EntryRows(d, n) : Movements[r] \in Int
  BY <1>3, <1>6
<1> QED BY <1>7, <1>8, <1>9, <1>10

LEMMA FiniteCover ==
  ASSUME NEW R, IsFiniteSet(R), NEW A, NEW U, \A r \in R : IsFiniteSet(A[r]),
         \A x : x \in U <=> \E r \in R : x \in A[r]
  PROVE  IsFiniteSet(U)
<1> DEFINE T == {A[r] : r \in R}
           f == [r \in R |-> A[r]]
<1>1. f \in Surjection(R, T)
  BY DEF Surjection
<1>2. U = UNION T /\ \A t \in T : IsFiniteSet(t)
  OBVIOUS
<1> HIDE DEF f, T
<1>3. IsFiniteSet(T)
  BY <1>1, FS_Surjection
<1> QED BY <1>2, <1>3, FS_UNION

LEMMA FiniteImage ==
  ASSUME NEW R, IsFiniteSet(R), NEW h, NEW U, U = {h[r] : r \in R}
  PROVE  IsFiniteSet(U)
<1> DEFINE f == [r \in R |-> h[r]]
<1>1. f \in Surjection(R, U)
  BY DEF Surjection
<1> QED BY <1>1, FS_Surjection

LEMMA SignsClose ==
  /\ IsFiniteSet(JournalLines)
  /\ SumFunctionOnSet([l \in JournalLines |-> IF l.side = "debit" THEN 1 ELSE -1], JournalLines) = 0
<1> DEFINE sign == [l \in JournalLines |-> IF l.side = "debit" THEN 1 ELSE -1]
           one == [l \in JournalLines |-> 1]
           D == {l \in JournalLines : l.side = "debit"}
           C == {l \in JournalLines : l.side = "credit"}
<1>1. IsFiniteSet(JournalLines) /\ Cardinality(D) = Cardinality(C)
      /\ \A l \in JournalLines : l.side \in {"debit", "credit"}
  BY StatementsAssumption
<1>2. D \subseteq JournalLines /\ C \subseteq JournalLines /\ JournalLines = D \union C
      /\ D \intersect C = {}
  BY <1>1
<1>3. /\ \A l \in D : sign[l] = 1
      /\ \A l \in C : sign[l] = -1 /\ one[l] = 1
      /\ \A l \in D \union C : sign[l] \in Int
  BY <1>2
<1> HIDE DEF sign, one, D, C
<1>4. IsFiniteSet(D) /\ IsFiniteSet(C)
  BY <1>1, <1>2, FS_Subset
<1>5. SumFunctionOnSet(sign, D) = Cardinality(D)
  BY <1>3, <1>4, SumOnes
<1>6. SumFunctionOnSet(one, C) = Cardinality(C)
  BY <1>3, <1>4, SumOnes
<1>7. SumFunctionOnSet(sign, C) = -SumFunctionOnSet(one, C)
  <2>1. \A l \in C : one[l] \in Int /\ sign[l] = -one[l]
    BY <1>3
  <2> QED BY <1>4, <2>1, SumMinus
<1>8. SumFunctionOnSet(sign, D \union C) = SumFunctionOnSet(sign, D) + SumFunctionOnSet(sign, C)
  BY <1>2, <1>3, <1>4, SumUnion
<1>9. Cardinality(C) \in Int
  BY <1>4, FS_CardinalityType
<1>10. SumFunctionOnSet(sign, JournalLines) = 0
  BY <1>1, <1>2, <1>5, <1>6, <1>7, <1>8, <1>9
<1> QED BY <1>1, <1>10 DEF sign

LEMMA JournalCloses ==
  ASSUME EntriesMeant, NEW d \in Journals, NEW n \in DOMAIN ledger[d]
  PROVE  /\ IsFiniteSet(EntryRows(d, n)) /\ \A r \in EntryRows(d, n) : Movements[r] \in Int
         /\ SumFunctionOnSet(Movements, EntryRows(d, n)) = 0
<1> DEFINE sign == [l \in JournalLines |-> IF l.side = "debit" THEN 1 ELSE -1]
           row == [l \in JournalLines |-> LineRow(d, n, l)]
           f == [l \in JournalLines |-> Movements[row[l]]]
<1>1. PICK k : k = ledger[d][n].amount
  OBVIOUS
<1>2. k \in Int /\ d \in Documents
  <2>1. d \in Documents
    BY DEF Documents
  <2>2. ledger[d] \in Seq([key : 0..MaxLines, amount : Int])
    BY <2>1 DEF EntriesMeant
  <2>3. PICK s, E : s = ledger[d] /\ E = [key : 0..MaxLines, amount : Int]
    OBVIOUS
  <2>4. s \in Seq(E) /\ n \in DOMAIN s
    BY <2>2, <2>3
  <2>5. s[n] \in E
    BY <2>4
  <2> QED BY <1>1, <2>1, <2>3, <2>5
<1>3. LinesOf(d) = JournalLines
  BY LedgerAssumption DEF LinesOf
<1>4. EntryRows(d, n) = {row[l] : l \in JournalLines}
  BY <1>3 DEF EntryRows
<1>5. \A l, m \in JournalLines : row[l] = row[m] => l = m
  BY DEF LineRow
<1>6. \A l \in JournalLines : sign[l] \in Int /\ f[l] = k * sign[l]
  <2> TAKE l \in JournalLines
  <2>1. l.part = "total" /\ Portion(k, "total") = k
    BY StatementsAssumption DEF Portion
  <2>2. Movements[row[l]] = IF l.side = "debit" THEN k ELSE -k
    BY <1>1, <1>2, <1>3, <2>1, MovementsAre
  <2>3. f[l] = Movements[row[l]] /\ sign[l] = IF l.side = "debit" THEN 1 ELSE -1
    OBVIOUS
  <2> HIDE DEF f, row, sign
  <2> QED BY <1>2, <2>2, <2>3
<1>7. SumFunctionOnSet(sign, JournalLines) = 0 /\ IsFiniteSet(JournalLines)
  BY SignsClose
<1>8. \A l \in JournalLines : f[l] = Movements[row[l]]
  OBVIOUS
<1> HIDE DEF sign, f, row
<1>9. SumFunctionOnSet(f, JournalLines) = k * SumFunctionOnSet(sign, JournalLines)
  BY <1>2, <1>6, <1>7, SumTimes
<1>10. \A l \in JournalLines : f[l] \in Int /\ f[l] = Movements[row[l]]
  BY <1>2, <1>6, <1>8
<1>11. SumFunctionOnSet(f, JournalLines) = SumFunctionOnSet(Movements, {row[l] : l \in JournalLines})
  BY <1>5, <1>7, <1>10, SumImage
<1>12. SumFunctionOnSet(Movements, EntryRows(d, n)) = 0
  BY <1>2, <1>4, <1>7, <1>9, <1>11
<1>13. IsFiniteSet(EntryRows(d, n))
  BY <1>4, <1>7, FiniteImage
<1> QED BY <1>4, <1>10, <1>12, <1>13

\* A set of rows with all or nothing of each entry.
WholeEntries(B) ==
  /\ B \subseteq DocumentRows
  /\ \A d \in Documents : \A n \in DOMAIN ledger[d] :
       EntryRows(d, n) \subseteq B \/ EntryRows(d, n) \intersect B = {}

LEMMA RowsClose ==
  ASSUME EntriesMeant, NEW B, WholeEntries(B)
  PROVE  /\ IsFiniteSet(B) /\ \A r \in B : Movements[r] \in Int
         /\ SumFunctionOnSet(Movements, B) = 0
<1>1. ASSUME NEW d \in Documents, NEW n \in DOMAIN ledger[d]
      PROVE  /\ IsFiniteSet(EntryRows(d, n)) /\ \A r \in EntryRows(d, n) : Movements[r] \in Int
             /\ SumFunctionOnSet(Movements, EntryRows(d, n)) = 0
  BY JournalCloses, InvoiceCloses, BillCloses DEF Documents
<1> DEFINE K(d) == {n \in DOMAIN ledger[d] : EntryRows(d, n) \subseteq B}
           U(d) == {r \in B : r.document = d}
           zero == [n \in Nat |-> 0]
           none == [d \in Documents |-> 0]
<1>2. \A r : r \in B <=> \E d \in Documents : \E n \in DOMAIN ledger[d] :
                          EntryRows(d, n) \subseteq B /\ r \in EntryRows(d, n)
  <2>1. \A r \in DocumentRows : \E d \in Documents : \E n \in DOMAIN ledger[d] : r \in EntryRows(d, n)
    BY DEF DocumentRows, EntryRows, LineRow
  <2> QED BY <2>1 DEF WholeEntries
<1>3. \A d \in Documents : \A n \in DOMAIN ledger[d] : \A r \in EntryRows(d, n) :
        r.document = d /\ r.n = n
  BY DEF EntryRows, LineRow
<1>4. ASSUME NEW d \in Documents
      PROVE  /\ IsFiniteSet(U(d)) /\ \A r \in U(d) : Movements[r] \in Int
             /\ SumFunctionOnSet(Movements, U(d)) = 0
  <2> DEFINE A == [n \in K(d) |-> EntryRows(d, n)]
  <2>1. \A n \in K(d) : A[n] = EntryRows(d, n) /\ n \in DOMAIN ledger[d] /\ n \in Nat
    BY DEF EntriesMeant
  <2>2. \A n \in K(d) : zero[n] = 0
    BY <2>1
  <2>3. IsFiniteSet(K(d))
    <3>1. Len(ledger[d]) \in Nat /\ DOMAIN ledger[d] = 1..Len(ledger[d])
      BY DEF EntriesMeant
    <3>2. IsFiniteSet(DOMAIN ledger[d])
      BY <3>1, FS_Interval
    <3> QED BY <3>2, FS_Subset
  <2>4. \A r : r \in U(d) <=> \E n \in K(d) : r \in A[n]
    <3>1. ASSUME NEW r \in U(d)
          PROVE  \E n \in K(d) : r \in A[n]
      <4>1. PICK e \in Documents : \E n \in DOMAIN ledger[e] :
               EntryRows(e, n) \subseteq B /\ r \in EntryRows(e, n)
        BY <1>2
      <4>2. e = d
        BY <1>3, <4>1
      <4> QED BY <4>1, <4>2
    <3>2. ASSUME NEW n \in K(d), NEW r \in A[n]
          PROVE  r \in U(d)
      BY <1>3, <2>1
    <3> QED BY <3>1, <3>2
  <2>5. \A n, m \in K(d) : n # m => A[n] \intersect A[m] = {}
    BY <1>3, <2>1
  <2> HIDE DEF A, K, U, zero
  <2>6. \A n \in K(d) : /\ IsFiniteSet(A[n]) /\ (\A x \in A[n] : Movements[x] \in Int)
                        /\ zero[n] = SumFunctionOnSet(Movements, A[n])
    BY <1>1, <2>1, <2>2
  <2>7. SumFunctionOnSet(zero, K(d)) = SumFunctionOnSet(Movements, U(d))
    BY <2>3, <2>4, <2>5, <2>6, SumCover
  <2>8. IsFiniteSet(U(d))
    BY <2>3, <2>4, <2>6, FiniteCover
  <2>9. SumFunctionOnSet(zero, K(d)) = 0
    BY <2>2, <2>3, SumZeros
  <2>10. \A r \in U(d) : Movements[r] \in Int
    BY <2>4, <2>6
  <2> QED BY <2>7, <2>8, <2>9, <2>10
<1> DEFINE V == [d \in Documents |-> U(d)]
<1>5. \A d \in Documents : V[d] = U(d) /\ none[d] = 0
  OBVIOUS
<1>6. \A r : r \in B <=> \E d \in Documents : r \in V[d]
  BY <1>2, <1>3, <1>5
<1>7. \A d, e \in Documents : d # e => V[d] \intersect V[e] = {}
  BY <1>5
<1> HIDE DEF K, U, V, zero, none
<1>8. \A d \in Documents : /\ IsFiniteSet(V[d]) /\ (\A x \in V[d] : Movements[x] \in Int)
                           /\ none[d] = SumFunctionOnSet(Movements, V[d])
  BY <1>4, <1>5
<1>9. IsFiniteSet(Documents)
  BY LedgerAssumption
<1>10. SumFunctionOnSet(none, Documents) = SumFunctionOnSet(Movements, B)
  BY <1>6, <1>7, <1>8, <1>9, SumCover
<1>11. IsFiniteSet(B)
  BY <1>6, <1>8, <1>9, FiniteCover
<1>12. SumFunctionOnSet(none, Documents) = 0
  BY <1>5, <1>9, SumZeros
<1>13. \A r \in B : Movements[r] \in Int
  BY <1>6, <1>8
<1> QED BY <1>10, <1>11, <1>12, <1>13

\* What the books are made of: entries of documents, and assets.
BooksMeant == EntriesMeant /\ capitalized \subseteq FixedAssets

\* What was capitalized adds up to what its rows say.
LEMMA CapitalAddsUp ==
  ASSUME BooksMeant, NEW C, C = CapitalRows
  PROVE  /\ IsFiniteSet(C) /\ \A r \in C : Movements[r] \in Int
         /\ SumFunctionOnSet(Movements, C)
              = SumFunctionOnSet([a \in capitalized |-> CapitalizedCost(a)], capitalized)
<1> DEFINE row == [a \in capitalized |-> CapitalRow(a)]
           f == [a \in capitalized |-> CapitalizedCost(a)]
<1>1. IsFiniteSet(capitalized)
  BY AssetsAssumption, FS_Subset DEF BooksMeant
<1>2. \A a \in capitalized : CapitalizedCost(a) \in Int
  BY AssetsAssumption, StatementsAssumption DEF BooksMeant, CapitalizedCost
<1>3. ASSUME NEW a \in capitalized
      PROVE  /\ row[a] = CapitalRow(a) /\ row[a] \in Rows
             /\ row[a].asset = a /\ OfAsset(row[a])
  BY DEF Rows, CapitalRows, CapitalRow, OfAsset
<1>4. \A a \in capitalized : Movements[row[a]] = CapitalizedCost(a)
  <2> HIDE DEF row
  <2> QED BY <1>3 DEF Movements, Movement
<1>5. C = {row[a] : a \in capitalized}
  BY DEF CapitalRows
<1>6. \A a \in capitalized : f[a] = CapitalizedCost(a)
  OBVIOUS
<1> HIDE DEF row, f
<1>7. \A a, b \in capitalized : row[a] = row[b] => a = b
  BY <1>3
<1>8. \A a \in capitalized : f[a] \in Int /\ f[a] = Movements[row[a]]
  BY <1>2, <1>4, <1>6
<1>9. SumFunctionOnSet(f, capitalized) = SumFunctionOnSet(Movements, {row[a] : a \in capitalized})
  BY <1>1, <1>7, <1>8, SumImage
<1>10. IsFiniteSet(C)
  BY <1>1, <1>5, FiniteImage
<1>11. \A r \in C : Movements[r] \in Int
  BY <1>5, <1>8
<1> QED BY <1>5, <1>9, <1>10, <1>11 DEF f

Balances(last) == [a \in ChartAccounts |-> Total(On(a, Between(0, last)))]

\* The rows up to a day, of documents and of assets.
LEMMA BetweenAddsUp ==
  ASSUME BooksMeant, NEW last
  PROVE  LET B == Between(0, last)
         IN  /\ IsFiniteSet(B) /\ \A r \in B : Movements[r] \in Int
             /\ SumFunctionOnSet(Movements, B) = Capital(last)
             /\ Capital(last) \in Int
<1> DEFINE B == Between(0, last)
           D == {r \in B : ~OfAsset(r)}
           C == {r \in B : OfAsset(r)}
<1>1. \A r \in DocumentRows : ~OfAsset(r)
  BY DEF DocumentRows, OfAsset
<1>2. \A r \in CapitalRows : OfAsset(r)
  BY DEF CapitalRows, CapitalRow, OfAsset
<1>3. B \subseteq DocumentRows \union CapitalRows
  BY DEF Between, Rows
<1>4. B = D \union C /\ D \intersect C = {} /\ D \subseteq DocumentRows
  BY <1>2, <1>3
<1>5. WholeEntries(D)
  <2>1. ASSUME NEW d \in Documents, NEW n \in DOMAIN ledger[d], NEW r \in EntryRows(d, n)
        PROVE  /\ r \in Rows /\ r.document = d /\ Entry(r) = ledger[d][n].amount
               /\ ~OfAsset(r)
    BY <1>1, <2>1, MovementsAre DEF EntryRows, LineRow, Entry, Rows
  <2>2. ASSUME NEW d \in Documents, NEW n \in DOMAIN ledger[d], NEW r \in EntryRows(d, n)
        PROVE  r \in D <=> DayOf[Kind(d, ledger[d][n].amount)] \in 0..last
    BY <2>1 DEF Between
  <2> HIDE DEF D
  <2> QED BY <1>4, <2>2 DEF WholeEntries
<1>6. C = IF DayOf["capitalization"] \in 0..last THEN CapitalRows ELSE {}
  BY <1>1, <1>2 DEF Between, Rows
<1> HIDE DEF B, C, D
<1>7. /\ IsFiniteSet(D) /\ \A r \in D : Movements[r] \in Int
      /\ SumFunctionOnSet(Movements, D) = 0
  BY <1>5, RowsClose DEF BooksMeant
<1>8. /\ IsFiniteSet(C) /\ \A r \in C : Movements[r] \in Int
      /\ SumFunctionOnSet(Movements, C) = Capital(last)
  <2>1. CASE DayOf["capitalization"] \in 0..last
    BY <1>6, <2>1, CapitalAddsUp DEF Capital
  <2>2. CASE DayOf["capitalization"] \notin 0..last
    BY <1>6, <2>2, FS_EmptySet, SumEmpty DEF Capital
  <2> QED BY <2>1, <2>2
<1>9. \A r \in D \union C : Movements[r] \in Int
  BY <1>7, <1>8
<1>10. SumFunctionOnSet(Movements, D \union C)
        = SumFunctionOnSet(Movements, D) + SumFunctionOnSet(Movements, C)
  BY <1>4, <1>7, <1>8, <1>9, SumUnion
<1>11. IsFiniteSet(D \union C)
  BY <1>7, <1>8, FS_Union
<1>12. SumFunctionOnSet(Movements, C) \in Int
  BY <1>8, SumInt
<1> QED BY <1>4, <1>7, <1>8, <1>9, <1>10, <1>11, <1>12 DEF B

LEMMA AccountsClose ==
  ASSUME BooksMeant, NEW last
  PROVE  /\ IsFiniteSet(ChartAccounts) /\ \A a \in ChartAccounts : Balances(last)[a] \in Int
         /\ SumFunctionOnSet(Balances(last), ChartAccounts) = Capital(last)
         /\ Capital(last) \in Int
<1> DEFINE B == Between(0, last)
           On1 == [a \in ChartAccounts |-> On(a, B)]
           bal == Balances(last)
<1>2. /\ IsFiniteSet(B) /\ \A r \in B : Movements[r] \in Int
      /\ SumFunctionOnSet(Movements, B) = Capital(last)
      /\ Capital(last) \in Int
  BY BetweenAddsUp
<1>3. IsFiniteSet(ChartAccounts)
  <2> DEFINE L == JournalLines \union InvoiceLines \union BillLines \union {CapitalLine}
             h == [l \in L |-> l.account]
  <2>1. IsFiniteSet(InvoiceLines) /\ IsFiniteSet(BillLines)
    BY FiniteThree DEF InvoiceLines, BillLines
  <2>2. IsFiniteSet(L)
    BY <2>1, StatementsAssumption, FS_Union, FS_Singleton
  <2>3. ChartAccounts = {h[l] : l \in L}
    BY DEF ChartAccounts
  <2> HIDE DEF h, L
  <2> QED BY <2>2, <2>3, FiniteImage
<1>4. \A r \in B : r.line.account \in ChartAccounts
  <2>1. \A r \in DocumentRows : r.line \in JournalLines \union InvoiceLines \union BillLines
    BY DEF DocumentRows, LinesOf
  <2>2. \A r \in CapitalRows : r.line = CapitalLine
    BY DEF CapitalRows, CapitalRow
  <2> QED BY <2>1, <2>2 DEF Between, Rows, ChartAccounts
<1>5. \A a \in ChartAccounts : On1[a] = On(a, B) /\ On1[a] \subseteq B /\ bal[a] = Total(On1[a])
  BY DEF On, Balances
<1>6. \A r : r \in B <=> \E a \in ChartAccounts : r \in On1[a]
  BY <1>4 DEF On
<1>7. \A a, b \in ChartAccounts : a # b => On1[a] \intersect On1[b] = {}
  BY DEF On
<1>8. B \subseteq Rows
  BY DEF Between
<1> HIDE DEF B, On1, bal
<1>9. ASSUME NEW a \in ChartAccounts
      PROVE  /\ IsFiniteSet(On1[a]) /\ (\A r \in On1[a] : Movements[r] \in Int)
             /\ bal[a] = SumFunctionOnSet(Movements, On1[a])
  <2>1. IsFiniteSet(On1[a]) /\ (\A r \in On1[a] : Movements[r] \in Int)
    BY <1>2, <1>5, FS_Subset
  <2>2. PICK f : f = [r \in On1[a] |-> Movement(r)]
    OBVIOUS
  <2>3. \A r \in On1[a] : f[r] = Movements[r]
    BY <1>5, <1>8, <2>2 DEF Movements
  <2>4. SumFunctionOnSet(f, On1[a]) = SumFunctionOnSet(Movements, On1[a])
    BY <2>1, <2>3, SumSame
  <2>5. bal[a] = SumFunctionOnSet(f, On1[a])
    BY <1>5, <2>2 DEF Total
  <2> QED BY <2>1, <2>4, <2>5
<1>10. SumFunctionOnSet(bal, ChartAccounts) = SumFunctionOnSet(Movements, B)
  BY <1>3, <1>6, <1>7, <1>9, SumCover
<1>11. \A a \in ChartAccounts : bal[a] \in Int
  BY <1>9, SumInt
<1> QED BY <1>2, <1>3, <1>10, <1>11 DEF bal

LEMMA TrialBalanceCloses ==
  ASSUME BooksMeant, NEW last
  PROVE  TrialBalance(last).debit = TrialBalance(last).credit + Capital(last)
<1>1. PICK bal, f, g :
        /\ bal = Balances(last)
        /\ f = [a \in ChartAccounts |-> Max({0, Total(On(a, Between(0, last)))})]
        /\ g = [a \in ChartAccounts |-> Max({0, -Total(On(a, Between(0, last)))})]
  OBVIOUS
<1>2. /\ IsFiniteSet(ChartAccounts) /\ \A a \in ChartAccounts : bal[a] \in Int
      /\ SumFunctionOnSet(bal, ChartAccounts) = Capital(last) /\ Capital(last) \in Int
  BY <1>1, AccountsClose
<1>3. \A a \in ChartAccounts : f[a] = Max({0, bal[a]}) /\ g[a] = Max({0, -bal[a]})
  BY <1>1 DEF Balances
<1>4. \A a \in ChartAccounts : bal[a] \in Int /\ g[a] \in Int /\ f[a] = bal[a] + g[a]
  <2> TAKE a \in ChartAccounts
  <2>1. PICK b, c : b = bal[a] /\ c = -bal[a]
    OBVIOUS
  <2>2. b \in Int /\ c \in Int /\ c = -b
    BY <1>2, <2>1
  <2>3. f[a] = Max({0, b}) /\ g[a] = Max({0, c})
    BY <1>3, <2>1
  <2>4. f[a] = (IF 0 <= b THEN b ELSE 0) /\ g[a] = (IF 0 <= c THEN c ELSE 0)
    BY <2>2, <2>3, MaxPair
  <2> QED BY <2>1, <2>2, <2>4
<1>5. SumFunctionOnSet(f, ChartAccounts) =
        SumFunctionOnSet(bal, ChartAccounts) + SumFunctionOnSet(g, ChartAccounts)
  BY <1>2, <1>4, SumPlus
<1>6. SumFunctionOnSet(g, ChartAccounts) \in Int
  BY <1>2, <1>4, SumInt
<1>7. /\ TrialBalance(last).debit = SumFunctionOnSet(f, ChartAccounts)
      /\ TrialBalance(last).credit = SumFunctionOnSet(g, ChartAccounts)
  BY <1>1 DEF TrialBalance
<1> QED BY <1>2, <1>5, <1>6, <1>7

\* What the accounts of a set hold.
Held(bal, X) == SumFunctionOnSet(bal, X)

LEMMA HeldApart ==
  ASSUME IsFiniteSet(ChartAccounts), NEW bal, \A a \in ChartAccounts : bal[a] \in Int,
         NEW X \in SUBSET ChartAccounts, NEW Y \in SUBSET ChartAccounts, X \intersect Y = {}
  PROVE  /\ Held(bal, X) \in Int /\ Held(bal, Y) \in Int
         /\ Held(bal, X \union Y) = Held(bal, X) + Held(bal, Y)
<1>1. IsFiniteSet(X) /\ IsFiniteSet(Y)
  BY FS_Subset
<1>2. \A a \in X \union Y : bal[a] \in Int
  OBVIOUS
<1>3. SumFunctionOnSet(bal, X \union Y) = SumFunctionOnSet(bal, X) + SumFunctionOnSet(bal, Y)
  BY <1>1, <1>2, SumUnion
<1>4. SumFunctionOnSet(bal, X) \in Int
  BY <1>1, <1>2, SumInt
<1>5. SumFunctionOnSet(bal, Y) \in Int
  BY <1>1, <1>2, SumInt
<1> QED BY <1>3, <1>4, <1>5 DEF Held

LEMMA HeldOtherwise ==
  ASSUME IsFiniteSet(ChartAccounts), NEW bal, \A a \in ChartAccounts : bal[a] \in Int,
         NEW X, X \subseteq ChartAccounts, NEW f
  PROVE  /\ (\A a \in X : f[a] = bal[a]) => SumFunctionOnSet(f, X) = Held(bal, X)
         /\ (\A a \in X : f[a] = -bal[a]) => SumFunctionOnSet(f, X) = -Held(bal, X)
<1>1. IsFiniteSet(X) /\ \A a \in X : bal[a] \in Int
  BY FS_Subset
<1>2. ASSUME \A a \in X : f[a] = bal[a]
      PROVE  SumFunctionOnSet(f, X) = SumFunctionOnSet(bal, X)
  BY <1>1, <1>2, SumSame
<1>3. ASSUME \A a \in X : f[a] = -bal[a]
      PROVE  SumFunctionOnSet(f, X) = -SumFunctionOnSet(bal, X)
  BY <1>1, <1>3, SumMinus
<1> QED BY <1>2, <1>3 DEF Held

OfType(chart, type) == {a \in ChartAccounts : chart[a].type = type}
InSection(chart, section) == {a \in ChartAccounts : SectionOf(chart[a]) = section}

\* What the sheet and the income statement make of the balances.
LEMMA StatementsAre ==
  ASSUME BooksMeant, NEW last, NEW chart \in Charts
  PROVE  LET H(X) == Held(Balances(last), X)
             P(section) == IncomeSection(chart, section, Between(0, last))
         IN  /\ Sheet(chart, "ASSET", last) = H(OfType(chart, "ASSET"))
             /\ Sheet(chart, "LIABILITY", last) = -H(OfType(chart, "LIABILITY"))
             /\ Sheet(chart, "EQUITY", last) = -H(OfType(chart, "EQUITY"))
             /\ \A s \in {"revenue", "other_income"} : P(s) = -H(InSection(chart, s))
             /\ \A s \in {"cost_of_sales", "operating_expenses", "other_expenses"} :
                  P(s) = H(InSection(chart, s))
<1> DEFINE f(type) == [a \in ChartAccounts |-> IF type = "ASSET" THEN Total(On(a, Between(0, last)))
                                              ELSE -Total(On(a, Between(0, last)))]
           e == [a \in ChartAccounts |-> Earned(chart, a, Between(0, last))]
           bal == Balances(last)
<1>1. IsFiniteSet(ChartAccounts) /\ \A a \in ChartAccounts : bal[a] \in Int
  BY AccountsClose
<1>2. \A a \in ChartAccounts : bal[a] = Total(On(a, Between(0, last)))
  BY DEF Balances
<1>3. \A type : Sheet(chart, type, last) = SumFunctionOnSet(f(type), OfType(chart, type))
  BY DEF Sheet, OfType
<1>4. \A s : IncomeSection(chart, s, Between(0, last)) = SumFunctionOnSet(e, InSection(chart, s))
  BY DEF IncomeSection, InSection
<1>5. /\ \A a \in ChartAccounts : f("ASSET")[a] = bal[a]
      /\ \A a \in ChartAccounts : f("LIABILITY")[a] = -bal[a] /\ f("EQUITY")[a] = -bal[a]
  BY <1>2
<1>6. /\ \A s \in {"revenue", "other_income"} : \A a \in InSection(chart, s) : e[a] = -bal[a]
      /\ \A s \in {"cost_of_sales", "operating_expenses", "other_expenses"} :
           \A a \in InSection(chart, s) : e[a] = bal[a]
  BY <1>2 DEF InSection, SectionOf, Earned
<1>7. \A x : OfType(chart, x) \subseteq ChartAccounts /\ InSection(chart, x) \subseteq ChartAccounts
  BY DEF OfType, InSection
<1> HIDE DEF f, e, bal
<1>8. /\ SumFunctionOnSet(f("ASSET"), OfType(chart, "ASSET")) = Held(bal, OfType(chart, "ASSET"))
      /\ SumFunctionOnSet(f("LIABILITY"), OfType(chart, "LIABILITY")) = -Held(bal, OfType(chart, "LIABILITY"))
      /\ SumFunctionOnSet(f("EQUITY"), OfType(chart, "EQUITY")) = -Held(bal, OfType(chart, "EQUITY"))
  BY <1>1, <1>5, <1>7, HeldOtherwise
<1>9. \A s \in {"revenue", "other_income"} :
        SumFunctionOnSet(e, InSection(chart, s)) = -Held(bal, InSection(chart, s))
  BY <1>1, <1>6, <1>7, HeldOtherwise
<1>10. \A s \in {"cost_of_sales", "operating_expenses", "other_expenses"} :
         SumFunctionOnSet(e, InSection(chart, s)) = Held(bal, InSection(chart, s))
  BY <1>1, <1>6, <1>7, HeldOtherwise
<1> QED BY <1>3, <1>4, <1>8, <1>9, <1>10 DEF bal

LEMMA SheetCloses ==
  ASSUME BooksMeant, NEW last, NEW chart \in Charts
  PROVE  SheetDifference(chart, last) = NetProfit(chart, 0, last) + Capital(last)
<1> DEFINE bal == Balances(last)
           owned == OfType(chart, "ASSET")
           liabilities == OfType(chart, "LIABILITY")
           equity == OfType(chart, "EQUITY")
           revenue == InSection(chart, "revenue")
           sales == InSection(chart, "cost_of_sales")
           operating == InSection(chart, "operating_expenses")
           otherIncome == InSection(chart, "other_income")
           otherExpenses == InSection(chart, "other_expenses")
           claims == liabilities \union equity
           sheet == owned \union claims
           expenses == operating \union otherExpenses
           costs == sales \union expenses
           income == revenue \union otherIncome
           results == income \union costs
<1>1. /\ IsFiniteSet(ChartAccounts) /\ \A a \in ChartAccounts : bal[a] \in Int
      /\ Held(bal, ChartAccounts) = Capital(last) /\ Capital(last) \in Int
  BY AccountsClose DEF Held
<1>2. \A a \in ChartAccounts : chart[a].type \in {"ASSET", "LIABILITY", "EQUITY", "INCOME", "EXPENSE"}
  BY StatementsAssumption
<1>3. \A X \in {owned, liabilities, equity, claims, sheet, revenue, sales, operating, otherIncome,
                otherExpenses, expenses, costs, income, results} : X \in SUBSET ChartAccounts
  BY DEF OfType, InSection
<1>4. liabilities \intersect equity = {} /\ owned \intersect claims = {}
  BY DEF OfType
<1>5. /\ operating \intersect otherExpenses = {} /\ sales \intersect expenses = {}
      /\ revenue \intersect otherIncome = {} /\ income \intersect costs = {}
  BY DEF InSection
<1>6. \A a \in ChartAccounts : a \in results <=> chart[a].type \in {"INCOME", "EXPENSE"}
  BY DEF InSection, SectionOf
<1>7. ChartAccounts = sheet \union results /\ sheet \intersect results = {}
  BY <1>2, <1>3, <1>6 DEF OfType
<1>8. /\ SheetDifference(chart, last) =
           Held(bal, owned) - ((-Held(bal, liabilities)) + (-Held(bal, equity)))
      /\ NetProfit(chart, 0, last) =
           (-Held(bal, revenue)) - Held(bal, sales) - Held(bal, operating)
           + (-Held(bal, otherIncome)) - Held(bal, otherExpenses)
  BY StatementsAre DEF SheetDifference, NetProfit
<1> HIDE DEF bal, owned, liabilities, equity, revenue, sales, operating, otherIncome,
             otherExpenses, claims, sheet, expenses, costs, income, results
<1>9. \A X, Y \in SUBSET ChartAccounts : X \intersect Y = {} =>
        /\ Held(bal, X) \in Int /\ Held(bal, Y) \in Int
        /\ Held(bal, X \union Y) = Held(bal, X) + Held(bal, Y)
  BY <1>1, HeldApart
<1>10. /\ Held(bal, claims) = Held(bal, liabilities) + Held(bal, equity)
       /\ Held(bal, liabilities) \in Int /\ Held(bal, equity) \in Int
  <2>1. liabilities \in SUBSET ChartAccounts /\ equity \in SUBSET ChartAccounts
    BY <1>3
  <2>2. liabilities \intersect equity = {}
    BY <1>4
  <2> QED BY <2>1, <2>2, <1>9 DEF claims
<1>11. /\ Held(bal, sheet) = Held(bal, owned) + Held(bal, claims)
       /\ Held(bal, owned) \in Int /\ Held(bal, claims) \in Int
  <2>1. owned \in SUBSET ChartAccounts /\ claims \in SUBSET ChartAccounts
    BY <1>3
  <2>2. owned \intersect claims = {}
    BY <1>4
  <2> QED BY <2>1, <2>2, <1>9 DEF sheet
<1>12. /\ Held(bal, expenses) = Held(bal, operating) + Held(bal, otherExpenses)
       /\ Held(bal, operating) \in Int /\ Held(bal, otherExpenses) \in Int
  <2>1. operating \in SUBSET ChartAccounts /\ otherExpenses \in SUBSET ChartAccounts
    BY <1>3
  <2>2. operating \intersect otherExpenses = {}
    BY <1>5
  <2> QED BY <2>1, <2>2, <1>9 DEF expenses
<1>13. /\ Held(bal, costs) = Held(bal, sales) + Held(bal, expenses)
       /\ Held(bal, sales) \in Int /\ Held(bal, expenses) \in Int
  <2>1. sales \in SUBSET ChartAccounts /\ expenses \in SUBSET ChartAccounts
    BY <1>3
  <2>2. sales \intersect expenses = {}
    BY <1>5
  <2> QED BY <2>1, <2>2, <1>9 DEF costs
<1>14. /\ Held(bal, income) = Held(bal, revenue) + Held(bal, otherIncome)
       /\ Held(bal, revenue) \in Int /\ Held(bal, otherIncome) \in Int
  <2>1. revenue \in SUBSET ChartAccounts /\ otherIncome \in SUBSET ChartAccounts
    BY <1>3
  <2>2. revenue \intersect otherIncome = {}
    BY <1>5
  <2> QED BY <2>1, <2>2, <1>9 DEF income
<1>15. /\ Held(bal, results) = Held(bal, income) + Held(bal, costs)
       /\ Held(bal, income) \in Int /\ Held(bal, costs) \in Int
  <2>1. income \in SUBSET ChartAccounts /\ costs \in SUBSET ChartAccounts
    BY <1>3
  <2>2. income \intersect costs = {}
    BY <1>5
  <2> QED BY <2>1, <2>2, <1>9 DEF results
<1>16. Capital(last) = Held(bal, sheet) + Held(bal, results)
  <2>1. sheet \in SUBSET ChartAccounts /\ results \in SUBSET ChartAccounts
    BY <1>3
  <2>2. Held(bal, sheet \union results) = Held(bal, sheet) + Held(bal, results)
    BY <1>7, <1>9, <2>1
  <2> QED BY <1>1, <1>7, <2>2
<1> QED BY <1>1, <1>8, <1>10, <1>11, <1>12, <1>13, <1>14, <1>15, <1>16

LEMMA EquitySplits ==
  ASSUME BooksMeant, NEW last, NEW chart \in Charts
  PROVE  LET parts == EquityParts(chart, 0, last)
         IN  Sheet(chart, "EQUITY", last)
             = parts.share_capital + parts.current_year_profit + parts.retained_earnings
<1> DEFINE bal == Balances(last)
           g == [a \in ChartAccounts |-> -Total(On(a, Between(0, last)))]
           capital == {"SHARE_CAPITAL", "CAPITAL", "OWNER_CAPITAL"}
           earnings == {"CURRENT_YEAR_EARNINGS", "CURRENT_YEAR_PROFIT"}
           rest == {chart[a].sub : a \in ChartAccounts} \ (capital \union earnings)
           Q(subs) == {a \in ChartAccounts : chart[a].type = "EQUITY" /\ chart[a].sub \in subs}
           C == Q(capital)
           E == Q(earnings)
           R == Q(rest)
           CE == C \union E
           parts == EquityParts(chart, 0, last)
<1>1. IsFiniteSet(ChartAccounts) /\ \A a \in ChartAccounts : bal[a] \in Int
  BY AccountsClose
<1>2. \A a \in ChartAccounts : g[a] = -bal[a]
  BY DEF Balances
<1>3. /\ parts.share_capital = SumFunctionOnSet(g, C)
      /\ parts.current_year_profit = SumFunctionOnSet(g, E)
      /\ parts.retained_earnings = SumFunctionOnSet(g, R)
  BY DEF EquityParts
<1>4. /\ C \subseteq ChartAccounts /\ E \subseteq ChartAccounts
      /\ R \subseteq ChartAccounts /\ CE \subseteq ChartAccounts
      /\ C \intersect E = {} /\ CE \intersect R = {}
  OBVIOUS
<1>5. OfType(chart, "EQUITY") = CE \union R
  BY DEF OfType
<1>6. Sheet(chart, "EQUITY", last) = -Held(bal, OfType(chart, "EQUITY"))
  BY StatementsAre
<1> HIDE DEF bal, g, capital, earnings, rest, Q, C, E, R, CE, parts
<1>7. /\ SumFunctionOnSet(g, C) = -Held(bal, C)
      /\ SumFunctionOnSet(g, E) = -Held(bal, E)
      /\ SumFunctionOnSet(g, R) = -Held(bal, R)
  <2>1. /\ \A a \in C : g[a] = -bal[a]
        /\ \A a \in E : g[a] = -bal[a]
        /\ \A a \in R : g[a] = -bal[a]
    BY <1>2, <1>4
  <2> QED BY <1>1, <1>4, <2>1, HeldOtherwise
<1>8. \A X, Y \in SUBSET ChartAccounts : X \intersect Y = {} =>
        /\ Held(bal, X) \in Int /\ Held(bal, Y) \in Int
        /\ Held(bal, X \union Y) = Held(bal, X) + Held(bal, Y)
  BY <1>1, HeldApart
<1>9. /\ Held(bal, CE) = Held(bal, C) + Held(bal, E)
      /\ Held(bal, C) \in Int /\ Held(bal, E) \in Int
  <2>1. C \in SUBSET ChartAccounts /\ E \in SUBSET ChartAccounts /\ C \intersect E = {}
    BY <1>4
  <2> QED BY <1>8, <2>1 DEF CE
<1>10. Held(bal, CE \union R) = Held(bal, CE) + Held(bal, R) /\ Held(bal, R) \in Int
  <2>1. CE \in SUBSET ChartAccounts /\ R \in SUBSET ChartAccounts /\ CE \intersect R = {}
    BY <1>4
  <2> QED BY <1>8, <2>1
<1>11. Sheet(chart, "EQUITY", last) = -(Held(bal, CE) + Held(bal, R))
  BY <1>5, <1>6, <1>10
<1> QED BY <1>3, <1>7, <1>9, <1>10, <1>11 DEF parts

LEMMA ReportsClose == BooksMeant => LedgerCloses
<1> SUFFICES ASSUME BooksMeant, NEW last \in Days
             PROVE  /\ TrialBalance(last).debit = TrialBalance(last).credit + Capital(last)
                    /\ \A chart \in Charts :
                         /\ SheetDifference(chart, last) = NetProfit(chart, 0, last) + Capital(last)
                         /\ LET parts == EquityParts(chart, 0, last)
                            IN Sheet(chart, "EQUITY", last)
                               = parts.share_capital + parts.current_year_profit + parts.retained_earnings
                         /\ Consistent(chart) =>
                              \A section \in {"revenue", "cost_of_sales", "operating_expenses"} :
                                IncomeSection(chart, section, Between(0, last))
                                = SumFunctionOnSet([a \in ChartAccounts |-> Earned(chart, a, Between(0, last))],
                                                   Listed(chart, section))
  BY DEF LedgerCloses
<1>1. ASSUME NEW chart \in Charts, Consistent(chart),
             NEW section \in {"revenue", "cost_of_sales", "operating_expenses"}
      PROVE  {a \in ChartAccounts : SectionOf(chart[a]) = section} = Listed(chart, section)
  <2>1. \A a \in ChartAccounts : SectionOf(chart[a]) = "revenue" <=> a \in Listed(chart, "revenue")
    BY DEF SectionOf, Listed
  <2>2. \A a \in ChartAccounts :
          SectionOf(chart[a]) = "cost_of_sales" <=> a \in Listed(chart, "cost_of_sales")
    BY <1>1 DEF SectionOf, Listed, Consistent
  <2>3. \A a \in ChartAccounts :
          SectionOf(chart[a]) = "operating_expenses" <=> a \in Listed(chart, "operating_expenses")
    BY DEF SectionOf, Listed
  <2>4. Listed(chart, section) \subseteq ChartAccounts
    BY DEF Listed
  <2> QED BY <1>1, <2>1, <2>2, <2>3, <2>4
<1>2. ASSUME NEW chart \in Charts, Consistent(chart),
             NEW section \in {"revenue", "cost_of_sales", "operating_expenses"}
      PROVE  IncomeSection(chart, section, Between(0, last))
             = SumFunctionOnSet([a \in ChartAccounts |-> Earned(chart, a, Between(0, last))],
                                Listed(chart, section))
  BY <1>1, <1>2 DEF IncomeSection
<1> QED BY <1>2, TrialBalanceCloses, SheetCloses, EquitySplits

\* A request that is about to post an invoice or a bill posts the total of one.
Meant(j) ==
  /\ j.step = "post" /\ j.document \notin Journals => j.total \in Totals
  /\ j.step = "booking" /\ j.document \notin Journals => j.amount \in Totals

TotalsPosted == EntriesMeant /\ \A w \in Workers : Meant(job[w])

LEMMA TotalsKept ==
  ASSUME Jobs, TotalsPosted, NEW w \in Workers, Turn(w), EntriesMeant', Meant(job'[w])
  PROVE  TotalsPosted'
<1>1. \A v \in Workers : v # w => job'[v] = job[v]
  BY DEF Turn, Jobs
<1>2. \A v \in Workers : Meant(job'[v])
  BY <1>1 DEF TotalsPosted
<1> QED BY <1>2 DEF TotalsPosted, Meant

LEMMA PaperTotals ==
  ASSUME Typed, TotalsPosted, NEW w \in Workers, Paper(w), Turn(w),
         ledger' \in [Documents -> Seq([key : 0..MaxLines, amount : Int])]
  PROVE  TotalsPosted'
<1>1. LedgerStep(w, Paid)
  BY DEF Paper
<1>2. /\ Jobs /\ PapersTyped /\ PaperShape(job[w])
      /\ \A d \in Documents \ Journals : d \in Invoices \union Bills
  BY TypedPapers DEF JobShape, Documents
<1>3. EntriesMeant
  BY DEF TotalsPosted
<1>4. CASE PostLoad(w)
  <2>1. PICK d \in Documents :
          /\ papers[d].status \in {"DRAFT", "APPROVED"}
          /\ job'[w] = [step |-> "post", document |-> d, total |-> papers[d].total]
    BY <1>2, <1>4 DEF PostLoad, Becomes, Jobs
  <2>2. Meant(job'[w])
    BY <1>2, <2>1 DEF Meant, PapersTyped, Present
  <2>3. EntriesMeant'
    BY <1>3, <1>4 DEF PostLoad, documents, EntriesMeant
  <2> QED BY <1>2, <2>2, <2>3, TotalsKept
<1>5. CASE PostRead(w)
  <2>1. /\ job[w].step = "post" /\ job[w].document \in Documents /\ Meant(job[w])
        /\ job'[w].step = "booking" /\ job'[w].document = job[w].document
        /\ job[w].document \notin Journals => job'[w].amount = job[w].total
    BY <1>2, <1>5 DEF PostRead, Becomes, Jobs, At, PaperShape, TotalsPosted
  <2>2. Meant(job'[w])
    BY <2>1 DEF Meant
  <2>3. EntriesMeant'
    BY <1>3, <1>5 DEF PostRead, documents, EntriesMeant
  <2> QED BY <1>2, <2>2, <2>3, TotalsKept
<1>6. CASE PostCommit(w)
  <2> DEFINE d == job[w].document
             entry == [key |-> job[w].key, amount |-> job[w].amount]
  <2>1. /\ job[w].step = "booking" /\ d \in Documents /\ Meant(job[w])
        /\ entry \in [key : 0..MaxLines, amount : Int]
        /\ ledger' = [ledger EXCEPT ![d] = Append(ledger[d], entry)]
    BY <1>2, <1>6 DEF PostCommit, At, PaperShape, TotalsPosted
  <2>2. job'[w].step = "idle" /\ Meant(job'[w])
    BY <1>2, <1>6 DEF PostCommit, Respond, Becomes, Jobs, Idle, Meant
  <2>3. d \notin Journals => entry.amount \in Totals
    BY <2>1 DEF Meant
  <2> HIDE DEF d, entry
  <2>4. ASSUME NEW x \in Invoices \union Bills, NEW n \in DOMAIN ledger'[x]
        PROVE  ledger'[x][n].amount \in Totals
    <3>1. x \in Documents /\ x \notin Journals
      BY LedgerAssumption DEF Documents
    <3>2. CASE x # d
      BY <1>3, <2>1, <2>4, <3>1, <3>2 DEF EntriesMeant
    <3>3. CASE x = d
      <4>1. ledger'[x] = Append(ledger[x], entry) /\ ledger[x] \in Seq([key : 0..MaxLines, amount : Int])
        BY <1>3, <2>1, <3>1, <3>3 DEF EntriesMeant
      <4>2. (n \in DOMAIN ledger[x] /\ ledger'[x][n] = ledger[x][n]) \/ ledger'[x][n] = entry
        BY <2>1, <2>4, <4>1
      <4> QED BY <1>3, <2>3, <3>1, <3>3, <4>2 DEF EntriesMeant
    <3> QED BY <3>2, <3>3
  <2> QED BY <1>2, <2>2, <2>4, TotalsKept DEF EntriesMeant
<1>7. CASE ReverseRead(w)
  <2>1. job'[w].document \in Journals /\ job'[w].step = "booking"
    BY <1>2, <1>7 DEF ReverseRead, Becomes, Jobs
  <2>2. EntriesMeant'
    BY <1>3, <1>7 DEF ReverseRead, documents, EntriesMeant
  <2> QED BY <1>2, <2>1, <2>2, TotalsKept DEF Meant
<1>8. CASE /\ ledger' = ledger
           /\ job'[w].step \notin {"post", "booking"}
  BY <1>2, <1>3, <1>8, TotalsKept DEF Meant, EntriesMeant
<1>9. CASE CreateDocument(w)
  BY <1>8, <1>9 DEF CreateDocument, Takes, At
<1>10. CASE EditLoad(w) \/ DeleteLoad(w) \/ StatusLoad(w) \/ ReverseLoad(w)
  BY <1>2, <1>8, <1>10
     DEF EditLoad, DeleteLoad, StatusLoad, ReverseLoad, Becomes, Jobs, documents
<1>11. CASE EditSave(w) \/ DeleteSave(w, Paid) \/ StatusSave(w)
  BY <1>2, <1>8, <1>11 DEF EditSave, DeleteSave, StatusSave, Respond, Becomes, Jobs, Idle
<1> QED BY <1>1, <1>4, <1>5, <1>6, <1>7, <1>9, <1>10, <1>11 DEF LedgerStep

LEMMA TotalsStep ==
  ASSUME Typed, Serial, TotalsPosted, [ControlsNext]_controlsVars
  PROVE  TotalsPosted'
<1>1. CASE UNCHANGED controlsVars
  BY <1>1 DEF controlsVars, allVars, vars, documents, TotalsPosted, EntriesMeant, Meant
<1>2. CASE ControlsNext
  <2>1. PICK w \in Workers :
          /\ Turn(w)
          /\ \/ Paper(w)
             \/ MoneyStep(w) /\ job'[w].step \in MoneySteps \union {"idle"}
             \/ /\ UNCHANGED documents
                /\ job'[w].step \in AssetSteps \union ControlSteps \union {"idle"}
    BY <1>2, SomeTurn
  <2>2. MoneyStep(w) => ledger' = ledger
    BY TypedPapers, NoNewPayment DEF documents, PayLoad, PayCommit
  <2>3. CASE ~Paper(w)
    <3>1. ledger' = ledger /\ Meant(job'[w])
      BY <2>1, <2>2, <2>3 DEF Meant, MoneySteps, AssetSteps, ControlSteps, documents
    <3> QED BY <2>1, <3>1, TypedPapers, TotalsKept DEF EntriesMeant, TotalsPosted
  <2>4. ledger' \in [Documents -> Seq([key : 0..MaxLines, amount : Int])]
    BY TypedStep DEF Typed, ControlsTypeOK, AllTypeOK, TypeOK, LedgerTypes
  <2> QED BY <2>1, <2>3, <2>4, PaperTotals
<1> QED BY <1>1, <1>2

\* Whatever requests race, every set of lines that a document brings to the ledger
\* balances, and capitalizations have one side: the trial balance is out by exactly
\* what was capitalized so far; the balance sheet, which never carries profit into
\* equity, by that and the profit; and statements of the same accounts agree, however
\* the accounts are classified.
THEOREM TheBooksClose == ControlsSpec => []LedgerCloses
<1>1. ControlsInit => TotalsPosted
  <2> SUFFICES ASSUME ControlsInit PROVE TotalsPosted
    OBVIOUS
  <2>1. job = [w \in Workers |-> Idle] /\ ledger = [d \in Documents |-> <<>>]
    BY DEF ControlsInit, AllInit, Init, LedgerInit
  <2> QED BY <2>1 DEF TotalsPosted, EntriesMeant, Meant, Idle, Documents
<1>2. Typed /\ Serial /\ TotalsPosted /\ [ControlsNext]_controlsVars => TotalsPosted'
  BY TotalsStep
<1>3. Typed /\ TotalsPosted => LedgerCloses
  BY ReportsClose DEF TotalsPosted, BooksMeant, Typed, ControlsTypeOK, AllTypeOK
<1> QED BY <1>1, <1>2, <1>3, FinanceSteady, PTL DEF ControlsSpec
=============================================================================
