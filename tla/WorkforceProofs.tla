-------------------------- MODULE WorkforceProofs --------------------------
(***************************************************************************)
(* The personnel office for every value of its constants: salaries follow  *)
(* their history, leave is apart and counted, the payroll page tells what  *)
(* would be paid, and a number names one paper (WorkforceSound).           *)
(***************************************************************************)
EXTENDS Workforce, Sums, SequenceTheorems

----
(* The inductive invariant. *)

StaffRow ==
  [row : BOOLEAN, active : BOOLEAN, position : {"none", "ACTIVE"} \union Positions,
   joined : Nat, salary : Nat]
RevisionRow == [reason : {"JOINING", "CORRECTION", "PROMOTION"}, open : BOOLEAN, salary : Nat]
Leave ==
  {r \in [status : LeaveStatuses, who : Staff, kind : {"paid", "unpaid"}, from : Nat, to : Nat] :
     r.from <= r.to}
LoanRow == [remaining : Nat, installment : Nat, start : Nat]
PaperRow == [kind : PaperKinds, number : Nat, who : Staff, salary : Nat]

\* The rows that a request holds.
ChoreRows ==
  [step : {"edit_staff"}, who : Staff, read : {r \in StaffRow : r.row}]
  \union [step : {"ask", "edit_leave"}, leave : LeaveRows, row : Leave]
  \union [step : {"approve", "reject"}, leave : LeaveRows,
          row : {r \in Leave : r.status = "PENDING"}, balance : Int]
  \union [step : {"issue"}, who : Staff, kind : PaperKinds, number : Nat, salary : Nat]

ChoreOK(t) == t = AtEase \/ t \in ChoreRows

WorkforceTyped ==
  /\ bureau \in Bureaus
  /\ staff \in [Staff -> StaffRow]
  /\ history \in [Staff -> Seq(RevisionRow)]
  /\ leaves \in [LeaveRows -> {NoLeave} \union Leave]
  /\ used \in [Staff -> Int]
  /\ granted \in [Staff -> [Months -> Nat]]
  /\ lent \in [Staff -> LoanRow]
  /\ papers \in Seq(PaperRow)
  /\ chore = [c \in Officers |-> chore[c]]
  /\ \A c \in Officers : ChoreOK(chore[c])

\* The joining opens the history, and the latest open revision has the salary.
LastOpen(h, n) == n \in DOMAIN h /\ h[n].open /\ \A k \in DOMAIN h : h[k].open => k <= n
Followed(row, h) ==
  /\ \E n \in DOMAIN h : LastOpen(h, n) /\ row.salary = h[n].salary
  /\ h[1].reason = "JOINING" /\ \A k \in DOMAIN h : h[k].reason = "JOINING" => k = 1
Following ==
  ~bureau.overlap /\ Never({"change_revision"}) =>
    \A e \in Staff : staff[e].row => Followed(staff[e], history[e])

\* A row of leave does not overlap the standing leave of the same employee.
Stands(row) == row.status \in {"PENDING", "APPROVED"}
ApartFrom(lv, l, row) ==
  \A k \in LeaveRows \ {l} :
    Stands(lv[k]) /\ lv[k].who = row.who => lv[k].to < row.from \/ row.to < lv[k].from

\* What a request, one at a time, knows of the rows that it will write.
Knows(t, b, st, lv, u) ==
  /\ t.step = "edit_staff" => t.read = st[t.who]
  /\ t.step = "ask" =>
       /\ lv[t.leave] = NoLeave
       /\ b.kinds \intersect {"write_status"} = {} => t.row.status = "PENDING"
       /\ ApartFrom(lv, t.leave, t.row)
  /\ t.step = "edit_leave" =>
       /\ "edit_leave" \in b.kinds
       /\ b.kinds \intersect {"unnamed", "write_status"} = {} /\ Stands(t.row) =>
            ApartFrom(lv, t.leave, t.row)
  /\ t.step \in {"approve", "reject"} =>
       /\ lv[t.leave] = t.row
       /\ t.balance = u[t.row.who]
       /\ t.step = "approve" /\ t.row.kind = "paid" /\ b.kinds \intersect {"override"} = {} =>
            Length(t.row) <= Entitled - t.balance
Knowing == ~bureau.overlap => \A c \in Officers : Knows(chore[c], bureau, staff, leaves, used)

\* One request at a time, unless they overlap.
OneByOne == ~bureau.overlap => \A c, d \in Officers : c # d => chore[c] = AtEase \/ chore[d] = AtEase
Alone(c) == bureau.overlap \/ \A d \in Officers \ {c} : chore[d] = AtEase

WorkforceInv ==
  /\ WorkforceTyped /\ OneByOne /\ Knowing
  /\ Following /\ LeavesApart /\ LeavesCounted /\ NumbersOnce

LEMMA Constants ==
  /\ \A b \in Bureaus : b.people \subseteq Staff /\ b.salaries \subseteq Nat
  /\ IsFiniteSet(LeaveRows) /\ Entitled \in Nat
  /\ MonthDays \in Nat \ {0} /\ NumMonths \in Nat \ {0}
  /\ \A d \in Days : d \in Nat
  /\ \A p \in Months : /\ p \in Nat /\ p >= 1
                       /\ FirstDay(p) \in Nat /\ LastDay(p) \in Nat /\ FirstDay(p) <= LastDay(p)
<1>1. MonthDays \in Nat \ {0} /\ NumMonths \in Nat \ {0}
  BY WorkforceAssumption
<1>2. \A p \in Months : p \in Nat /\ p >= 1
  BY <1>1 DEF Months
<1>3. ASSUME NEW p \in Months
      PROVE  FirstDay(p) \in Nat /\ LastDay(p) \in Nat /\ FirstDay(p) <= LastDay(p)
  <2>1. \A k, d \in Nat : k >= 1 => (k - 1) * d \in Nat /\ k * d \in Nat /\ (k - 1) * d + d = k * d
    OBVIOUS
  <2>2. /\ (p - 1) * MonthDays \in Nat /\ p * MonthDays \in Nat
        /\ (p - 1) * MonthDays + MonthDays = p * MonthDays
    BY <1>1, <1>2, <2>1
  <2> QED BY <1>1, <2>2 DEF FirstDay, LastDay
<1> QED BY <1>1, <1>2, <1>3, WorkforceAssumption DEF Days

\* What a request holds, by its step.
LEMMA ChoreShape ==
  ASSUME NEW t, ChoreOK(t)
  PROVE  /\ t.step = "edit_staff" => t.who \in Staff /\ t.read \in StaffRow /\ t.read.row
         /\ t.step \in {"ask", "edit_leave"} => t.leave \in LeaveRows /\ t.row \in Leave
         /\ t.step \in {"approve", "reject"} =>
              t.leave \in LeaveRows /\ t.row \in Leave /\ t.row.status = "PENDING" /\ t.balance \in Int
         /\ t.step = "issue" =>
              t.who \in Staff /\ t.kind \in PaperKinds /\ t.number \in Nat /\ t.salary \in Nat
<1>1. CASE t = AtEase
  BY <1>1 DEF AtEase
<1>2. CASE t \in [step : {"edit_staff"}, who : Staff, read : {r \in StaffRow : r.row}]
  BY <1>2
<1>3. CASE t \in [step : {"ask", "edit_leave"}, leave : LeaveRows, row : Leave]
  BY <1>3
<1>4. CASE t \in [step : {"approve", "reject"}, leave : LeaveRows,
                  row : {r \in Leave : r.status = "PENDING"}, balance : Int]
  BY <1>4
<1>5. CASE t \in [step : {"issue"}, who : Staff, kind : PaperKinds, number : Nat, salary : Nat]
  BY <1>5
<1> QED BY <1>1, <1>2, <1>3, <1>4, <1>5 DEF ChoreOK, ChoreRows

----
(* Whose turn it is. *)

\* A request that is accepted, and one that goes on, is alone unless requests overlap.
LEMMA AcceptsAlone ==
  ASSUME NEW c \in Officers, NEW kind, Accepts(c, kind)
  PROVE  Alone(c) /\ chore[c] = AtEase /\ (~bureau.overlap => \A d \in Officers : chore[d] = AtEase)
         /\ kind \in bureau.kinds
BY DEF Accepts, Alone

LEMMA BusyAlone ==
  ASSUME OneByOne, NEW c \in Officers, chore[c] # AtEase
  PROVE  Alone(c)
BY DEF OneByOne, Alone

\* The step of a request that sets its chore to t.
LEMMA TurnTaken ==
  ASSUME WorkforceTyped, OneByOne, NEW c \in Officers, NEW t, ChoreOK(t), Turns(c, t), Alone(c),
         bureau' = bureau, ~bureau.overlap => Knows(t, bureau, staff', leaves', used')
  PROVE  /\ chore' = [d \in Officers |-> chore'[d]] /\ \A d \in Officers : ChoreOK(chore'[d])
         /\ OneByOne' /\ Knowing'
<1>1. /\ chore' = [d \in Officers |-> IF d = c THEN t ELSE chore[d]]
  BY DEF Turns, WorkforceTyped
<1>2. \A d \in Officers : chore'[d] = IF d = c THEN t ELSE chore[d]
  BY <1>1
<1>3. \A d \in Officers : ChoreOK(chore'[d])
  BY <1>2 DEF WorkforceTyped
<1>4. OneByOne'
  BY <1>2 DEF OneByOne, Alone
<1>5. Knows(AtEase, bureau, staff', leaves', used')
  BY DEF Knows, AtEase
<1>6. Knowing'
  <2> SUFFICES ASSUME ~bureau.overlap, NEW d \in Officers
               PROVE  Knows(chore'[d], bureau, staff', leaves', used')
    BY DEF Knowing
  <2>1. chore'[d] = t \/ chore'[d] = AtEase
    BY <1>2 DEF Alone
  <2> QED BY <1>5, <2>1
<1> QED BY <1>1, <1>3, <1>4, <1>6

\* A step that is a whole request.
LEMMA NoTurnTaken ==
  ASSUME WorkforceTyped, OneByOne, bureau' = bureau, chore' = chore,
         ~bureau.overlap => \A d \in Officers : chore[d] = AtEase
  PROVE  /\ chore' = [d \in Officers |-> chore'[d]] /\ \A d \in Officers : ChoreOK(chore'[d])
         /\ OneByOne' /\ Knowing'
<1>1. Knows(AtEase, bureau, staff', leaves', used')
  BY DEF Knows, AtEase
<1>2. OneByOne'
  BY DEF OneByOne
<1>3. Knowing'
  BY <1>1 DEF Knowing
<1> QED BY <1>2, <1>3 DEF WorkforceTyped

----
(* What a step leaves alone. *)

LEMMA FilesKept ==
  ASSUME Following, bureau' = bureau, UNCHANGED fileVars
  PROVE  Following'
BY DEF Following, Never, fileVars

LEMMA LeavesKept ==
  ASSUME LeavesApart, LeavesCounted, bureau' = bureau, UNCHANGED leaveVars
  PROVE  LeavesApart' /\ LeavesCounted'
<1>1. LeavesApart'
  BY DEF LeavesApart, Never, Standing, leaveVars
<1>2. \A e, kinds : DaysApproved(e, kinds)' = DaysApproved(e, kinds)
  BY DEF DaysApproved, Length, leaveVars
<1>3. LeavesCounted'
  BY <1>2 DEF LeavesCounted, Never, leaveVars
<1> QED BY <1>1, <1>3

LEMMA PapersKept ==
  ASSUME NumbersOnce, UNCHANGED papers
  PROVE  NumbersOnce'
BY DEF NumbersOnce

----
(* Employees and their salaries. *)

LEMMA RevisionRows ==
  /\ \A open \in BOOLEAN, salary \in Nat, reason \in {"JOINING", "CORRECTION", "PROMOTION"} :
       Revision(reason, open, salary) \in RevisionRow
  /\ \A open, salary, reason :
       /\ Revision(reason, open, salary).reason = reason
       /\ Revision(reason, open, salary).open = open
       /\ Revision(reason, open, salary).salary = salary
BY DEF Revision, RevisionRow

LEMMA OneRow ==
  ASSUME NEW S, NEW x \in S
  PROVE  <<x>> \in Seq(S)
OBVIOUS

LEMMA Hired ==
  ASSUME NEW row, NEW salary, row.salary = salary
  PROVE  Followed(row, <<Revision("JOINING", TRUE, salary)>>)
<1> DEFINE r == Revision("JOINING", TRUE, salary)
           h == <<r>>
<1>0. r.reason = "JOINING" /\ r.open /\ r.salary = salary
  BY DEF Revision
<1> HIDE DEF r
<1>1. DOMAIN h = {1} /\ h[1].reason = "JOINING" /\ h[1].open /\ h[1].salary = salary
  BY <1>0
<1> HIDE DEF h
<1>2. LastOpen(h, 1)
  BY <1>1 DEF LastOpen
<1>3. Followed(row, h)
  BY <1>1, <1>2 DEF Followed
<1> QED BY <1>3 DEF h, r

\* A new open revision with the salary follows, whatever it followed before.
LEMMA Opened ==
  ASSUME NEW row, NEW old, NEW h, h \in Seq(RevisionRow), Followed(old, h), NEW r \in RevisionRow,
         r.reason # "JOINING", r.open => row.salary = r.salary, ~r.open => row.salary = old.salary
  PROVE  Followed(row, Append(h, r))
<1> DEFINE g == Append(h, r)
<1>1. /\ Len(h) \in Nat /\ DOMAIN h = 1..Len(h) /\ DOMAIN g = 1..(Len(h) + 1)
      /\ g[Len(h) + 1] = r /\ \A k \in 1..Len(h) : g[k] = h[k]
  OBVIOUS
<1> HIDE DEF g
<1>2. PICK n \in DOMAIN h : LastOpen(h, n) /\ old.salary = h[n].salary
  BY DEF Followed
<1>3. 1 \in DOMAIN h
  BY <1>1, <1>2
<1>4. g[1].reason = "JOINING" /\ \A k \in DOMAIN g : g[k].reason = "JOINING" => k = 1
  <2>1. h[1].reason = "JOINING" /\ \A k \in DOMAIN h : h[k].reason = "JOINING" => k = 1
    BY DEF Followed
  <2> QED BY <1>1, <1>3, <2>1
<1>5. CASE r.open
  <2>1. LastOpen(g, Len(h) + 1)
    BY <1>1, <1>5 DEF LastOpen
  <2>2. Len(h) + 1 \in DOMAIN g /\ row.salary = g[Len(h) + 1].salary
    BY <1>1, <1>5
  <2>3. Followed(row, g)
    BY <1>4, <2>1, <2>2 DEF Followed
  <2> QED BY <2>3 DEF g
<1>6. CASE ~r.open
  <2>1. n \in DOMAIN g /\ g[n].open /\ row.salary = g[n].salary
    BY <1>1, <1>2, <1>6 DEF LastOpen
  <2>2. \A k \in DOMAIN g : g[k].open => k <= n
    BY <1>1, <1>2, <1>6 DEF LastOpen
  <2>3. LastOpen(g, n)
    BY <2>1, <2>2 DEF LastOpen
  <2>4. Followed(row, g)
    BY <1>4, <2>1, <2>3 DEF Followed
  <2> QED BY <2>4 DEF g
<1> QED BY <1>5, <1>6

\* A joining without salary, alone in the history, is the latest open revision.
LEMMA FilledIn ==
  ASSUME WorkforceTyped, NEW e \in Staff, UnpaidJoining(e) # {}, NEW salary \in Nat
  PROVE  LET m == Min(UnpaidJoining(e))
             h == [history[e] EXCEPT ![m].salary = salary]
         IN /\ m \in DOMAIN history[e] /\ history[e][m] = Revision("JOINING", TRUE, 0)
            /\ h \in Seq(RevisionRow)
            /\ \A row : Followed(staff[e], history[e]) => staff[e].salary = 0
            /\ \A row : Followed(staff[e], history[e]) /\ row.salary = salary => Followed(row, h)
<1> DEFINE U == UnpaidJoining(e)
           m == Min(U)
           old == history[e]
           h == [old EXCEPT ![m].salary = salary]
<1>1. old \in Seq(RevisionRow) /\ Len(old) \in Nat /\ DOMAIN old = 1..Len(old)
  BY DEF WorkforceTyped
<1>2. m \in U
  <2>1. U \subseteq DOMAIN old /\ U # {}
    BY DEF UnpaidJoining
  <2> HIDE DEF U, old
  <2>2. U \subseteq Nat
    BY <1>1, <2>1
  <2> QED BY <2>1, <2>2, MinIn
<1>3. /\ m \in DOMAIN old /\ old[m] = Revision("JOINING", TRUE, 0)
      /\ \A k \in DOMAIN old : old[k].reason = "JOINING"
  BY <1>2 DEF UnpaidJoining
<1> HIDE DEF U, m
<1>4. /\ DOMAIN h = DOMAIN old
      /\ \A k \in DOMAIN old : h[k] = IF k = m THEN [old[k] EXCEPT !.salary = salary] ELSE old[k]
  BY <1>1, <1>3
<1>5. h[m].reason = "JOINING" /\ h[m].open /\ h[m].salary = salary /\ h[m] \in RevisionRow
  <2>1. h[m] = [Revision("JOINING", TRUE, 0) EXCEPT !.salary = salary]
    BY <1>3, <1>4
  <2>2. h[m] = [reason |-> "JOINING", open |-> TRUE, salary |-> salary]
    BY <2>1 DEF Revision
  <2> HIDE DEF h
  <2> QED BY <2>2 DEF RevisionRow
<1>6. h \in Seq(RevisionRow)
  <2>1. \A k \in 1..Len(old) : h[k] \in RevisionRow
    BY <1>1, <1>3, <1>4, <1>5
  <2>2. h = [k \in 1..Len(old) |-> h[k]]
    BY <1>1, <1>4
  <2> HIDE DEF h
  <2>3. h \in [1..Len(old) -> RevisionRow]
    BY <2>1, <2>2
  <2> QED BY <1>1, <2>3
<1>7. ASSUME Followed(staff[e], old)
      PROVE  m = 1 /\ DOMAIN old = {1} /\ staff[e].salary = 0
  <2>1. \A k \in DOMAIN old : k = 1
    BY <1>3, <1>7 DEF Followed
  <2>2. m = 1 /\ DOMAIN old = {1}
    BY <1>3, <2>1
  <2>3. staff[e].salary = old[1].salary
    BY <1>7, <2>1 DEF Followed
  <2>4. old[1] = Revision("JOINING", TRUE, 0)
    BY <1>3, <2>2
  <2>5. old[1].salary = 0
    BY <2>4 DEF Revision
  <2> QED BY <2>2, <2>3, <2>5
<1>8. ASSUME NEW row, Followed(staff[e], old), row.salary = salary
      PROVE  Followed(row, h)
  <2>1. DOMAIN h = {1} /\ h[1].reason = "JOINING" /\ h[1].open /\ h[1].salary = salary
    BY <1>4, <1>5, <1>7, <1>8
  <2> HIDE DEF h
  <2>2. LastOpen(h, 1)
    BY <2>1 DEF LastOpen
  <2> QED BY <1>8, <2>1, <2>2 DEF Followed
<1> QED BY <1>3, <1>6, <1>7, <1>8 DEF m, U

\* A step that changes the rows of employees, their revisions or nothing else.
LEMMA FileStep ==
  ASSUME WorkforceInv, UNCHANGED <<bureau, leaveVars, payVars, papers>>,
         staff' \in [Staff -> StaffRow], history' \in [Staff -> Seq(RevisionRow)], Following',
         chore' = [d \in Officers |-> chore'[d]], \A d \in Officers : ChoreOK(chore'[d]),
         OneByOne', Knowing'
  PROVE  WorkforceInv'
<1>1. WorkforceTyped'
  BY DEF WorkforceInv, WorkforceTyped, leaveVars, payVars
<1>2. LeavesApart' /\ LeavesCounted' /\ NumbersOnce'
  BY LeavesKept, PapersKept DEF WorkforceInv
<1> QED BY <1>1, <1>2 DEF WorkforceInv

LEMMA HireFine ==
  ASSUME WorkforceInv, NEW c \in Officers, Hire(c)
  PROVE  WorkforceInv'
<1>1. PICK e \in bureau.people, day \in Days, salary \in bureau.salaries :
        /\ staff' = [staff EXCEPT ![e] = [row |-> TRUE, active |-> TRUE, position |-> "ACTIVE",
                                          joined |-> day, salary |-> salary]]
        /\ history' = [history EXCEPT ![e] = <<Revision("JOINING", TRUE, salary)>>]
  BY DEF Hire
<1>2. WorkforceTyped /\ OneByOne /\ UNCHANGED <<bureau, leaveVars, payVars, papers, chore>>
  BY DEF WorkforceInv, Hire
<1>3. e \in Staff /\ day \in Nat /\ salary \in Nat
  BY <1>2, Constants DEF WorkforceTyped
<1> DEFINE row == [row |-> TRUE, active |-> TRUE, position |-> "ACTIVE",
                   joined |-> day, salary |-> salary]
<1>4. row \in StaffRow /\ row.salary = salary
  BY <1>3 DEF StaffRow
<1>5. staff' = [staff EXCEPT ![e] = row]
  BY <1>1
<1> HIDE DEF row
<1>6. \A f \in Staff : /\ staff'[f] = IF f = e THEN row ELSE staff[f]
                       /\ history'[f] = IF f = e THEN <<Revision("JOINING", TRUE, salary)>> ELSE history[f]
  BY <1>1, <1>2, <1>5 DEF WorkforceTyped
<1>7. staff' \in [Staff -> StaffRow]
  BY <1>2, <1>3, <1>4, <1>5 DEF WorkforceTyped
<1>8. history' \in [Staff -> Seq(RevisionRow)]
  <2>1. <<Revision("JOINING", TRUE, salary)>> \in Seq(RevisionRow)
    <3>1. Revision("JOINING", TRUE, salary) \in RevisionRow
      BY <1>3 DEF Revision, RevisionRow
    <3> QED BY <3>1, OneRow
  <2> QED BY <1>1, <1>2, <1>3, <2>1 DEF WorkforceTyped
<1>9. Following'
  <2>1. Followed(row, <<Revision("JOINING", TRUE, salary)>>)
    BY <1>4, Hired
  <2> QED BY <1>2, <1>6, <2>1 DEF WorkforceInv, Following, Never
<1>10. ~bureau.overlap => \A d \in Officers : chore[d] = AtEase
  BY AcceptsAlone DEF Hire
<1>11. /\ chore' = [d \in Officers |-> chore'[d]] /\ \A d \in Officers : ChoreOK(chore'[d])
       /\ OneByOne' /\ Knowing'
  BY <1>2, <1>10, NoTurnTaken
<1> QED BY <1>2, <1>7, <1>8, <1>9, <1>11, FileStep

LEMMA EditStaffLoadFine ==
  ASSUME WorkforceInv, NEW c \in Officers, EditStaffLoad(c)
  PROVE  WorkforceInv'
<1>1. PICK e \in Staff : /\ staff[e].row
                         /\ Turns(c, [step |-> "edit_staff", who |-> e, read |-> staff[e]])
  BY DEF EditStaffLoad
<1>2. /\ WorkforceTyped /\ OneByOne /\ UNCHANGED <<bureau, fileVars, leaveVars, payVars, papers>>
  BY DEF WorkforceInv, EditStaffLoad
<1> DEFINE t == [step |-> "edit_staff", who |-> e, read |-> staff[e]]
<1>3. ChoreOK(t)
  BY <1>1, <1>2 DEF ChoreOK, ChoreRows, WorkforceTyped
<1>4. t.step = "edit_staff" /\ t.read = staff'[t.who]
  BY <1>2 DEF fileVars
<1>5. Turns(c, t)
  BY <1>1
<1> HIDE DEF t
<1>6. Knows(t, bureau, staff', leaves', used')
  BY <1>4 DEF Knows
<1>7. Alone(c)
  BY AcceptsAlone DEF EditStaffLoad
<1>8. /\ chore' = [d \in Officers |-> chore'[d]] /\ \A d \in Officers : ChoreOK(chore'[d])
      /\ OneByOne' /\ Knowing'
  BY <1>2, <1>3, <1>5, <1>6, <1>7, TurnTaken
<1>9. Following' /\ staff' \in [Staff -> StaffRow] /\ history' \in [Staff -> Seq(RevisionRow)]
  <2>1. Following'
    BY <1>2, FilesKept DEF WorkforceInv
  <2> QED BY <1>2, <2>1 DEF WorkforceTyped, fileVars
<1> QED BY <1>2, <1>8, <1>9, FileStep

LEMMA EditStaffSaveFine ==
  ASSUME WorkforceInv, NEW c \in Officers, EditStaffSave(c)
  PROVE  WorkforceInv'
<1>1. PICK t, e, read : t = chore[c] /\ e = t.who /\ read = t.read
  OBVIOUS
<1>2. /\ WorkforceTyped /\ OneByOne /\ UNCHANGED <<bureau, leaveVars, payVars, papers>>
      /\ t.step = "edit_staff" /\ Turns(c, AtEase)
  BY <1>1 DEF WorkforceInv, EditStaffSave, Doing, Done
<1>3. PICK salary \in bureau.salaries, active \in BOOLEAN, position \in Positions \union {read.position} :
        /\ staff' = [staff EXCEPT ![e] = [read EXCEPT !.salary = salary, !.active = active,
                                                      !.position = position]]
        /\ history' = IF salary = read.salary THEN history
                      ELSE [history EXCEPT ![e] = Corrected(e, salary)]
  BY <1>1 DEF EditStaffSave
<1>4. e \in Staff /\ read \in StaffRow /\ read.row
  <2>1. ChoreOK(t)
    BY <1>1, <1>2 DEF WorkforceTyped
  <2> QED BY <1>1, <1>2, <2>1, ChoreShape
<1>5. salary \in Nat
  BY <1>2, Constants DEF WorkforceTyped
<1> DEFINE row == [read EXCEPT !.salary = salary, !.active = active, !.position = position]
<1>6. row \in StaffRow /\ row.salary = salary
  <2>1. position \in {"none", "ACTIVE"} \union Positions
    BY <1>3, <1>4 DEF StaffRow
  <2>2. active \in BOOLEAN
    BY <1>3
  <2> QED BY <1>4, <1>5, <2>1, <2>2 DEF StaffRow
<1>7. staff' = [staff EXCEPT ![e] = row]
  BY <1>3
<1> HIDE DEF row
<1>8. \A f \in Staff : staff'[f] = IF f = e THEN row ELSE staff[f]
  BY <1>2, <1>7 DEF WorkforceTyped
<1>9. staff' \in [Staff -> StaffRow]
  BY <1>2, <1>4, <1>6, <1>7 DEF WorkforceTyped
<1>10. /\ Corrected(e, salary) \in Seq(RevisionRow)
       /\ Followed(staff[e], history[e]) => Followed(row, Corrected(e, salary))
  <2>1. CASE UnpaidJoining(e) # {} /\ salary > 0
    <3>1. Corrected(e, salary) = [history[e] EXCEPT ![Min(UnpaidJoining(e))].salary = salary]
      BY <2>1 DEF Corrected
    <3> DEFINE h == [history[e] EXCEPT ![Min(UnpaidJoining(e))].salary = salary]
    <3>2. /\ h \in Seq(RevisionRow)
          /\ \A r : Followed(staff[e], history[e]) /\ r.salary = salary => Followed(r, h)
      BY <1>2, <1>4, <1>5, <2>1, FilledIn
    <3>3. Corrected(e, salary) = h
      BY <3>1
    <3> HIDE DEF h
    <3> QED BY <1>6, <3>2, <3>3
  <2>2. CASE ~(UnpaidJoining(e) # {} /\ salary > 0)
    <3>1. Corrected(e, salary) = Append(history[e], Revision("CORRECTION", TRUE, salary))
      BY <2>2 DEF Corrected
    <3>2. history[e] \in Seq(RevisionRow)
      BY <1>2, <1>4 DEF WorkforceTyped
    <3> DEFINE r == Revision("CORRECTION", TRUE, salary)
    <3>3. r \in RevisionRow /\ r.reason # "JOINING" /\ r.open /\ row.salary = r.salary
      BY <1>5, <1>6, RevisionRows DEF Revision
    <3> HIDE DEF r
    <3>4. Followed(staff[e], history[e]) => Followed(row, Append(history[e], r))
      BY <3>2, <3>3, Opened
    <3>5. Append(history[e], r) \in Seq(RevisionRow)
      BY <3>2, <3>3
    <3> QED BY <3>1, <3>4, <3>5 DEF r
  <2> QED BY <2>1, <2>2
<1>11. /\ history' \in [Staff -> Seq(RevisionRow)]
       /\ \A f \in Staff : f # e => history'[f] = history[f]
       /\ history'[e] = IF salary = read.salary THEN history[e] ELSE Corrected(e, salary)
  BY <1>2, <1>3, <1>4, <1>10 DEF WorkforceTyped
<1>12. Following'
  <2> SUFFICES ASSUME ~bureau.overlap, Never({"change_revision"}), NEW f \in Staff, staff'[f].row
               PROVE  Followed(staff'[f], history'[f])
    BY <1>2 DEF Following, Never
  <2>1. \A g \in Staff : staff[g].row => Followed(staff[g], history[g])
    BY DEF WorkforceInv, Following
  <2>2. CASE f # e
    BY <1>8, <1>11, <2>1, <2>2
  <2>3. CASE f = e
    <3>1. read = staff[e]
      BY <1>1, <1>2 DEF WorkforceInv, Knowing, Knows
    <3>2. Followed(staff[e], history[e])
      BY <1>4, <2>1, <3>1
    <3>3. CASE salary = read.salary
      <4>1. row.salary = staff[e].salary
        BY <1>6, <3>1, <3>3
      <4>2. Followed(row, history[e])
        BY <3>2, <4>1 DEF Followed
      <4> QED BY <1>4, <1>8, <1>11, <2>3, <3>3, <4>2
    <3>4. CASE salary # read.salary
      BY <1>4, <1>8, <1>10, <1>11, <2>3, <3>2, <3>4
    <3> QED BY <3>3, <3>4
  <2> QED BY <2>2, <2>3
<1>13. Alone(c)
  <2>1. chore[c] # AtEase
    BY <1>1, <1>2 DEF AtEase
  <2> QED BY <1>2, <2>1, BusyAlone
<1>14. Knows(AtEase, bureau, staff', leaves', used') /\ ChoreOK(AtEase)
  BY DEF Knows, AtEase, ChoreOK
<1>15. /\ chore' = [d \in Officers |-> chore'[d]] /\ \A d \in Officers : ChoreOK(chore'[d])
       /\ OneByOne' /\ Knowing'
  BY <1>2, <1>13, <1>14, TurnTaken
<1> QED BY <1>2, <1>9, <1>11, <1>12, <1>15, FileStep

LEMMA ReviseSalaryFine ==
  ASSUME WorkforceInv, NEW c \in Officers, ReviseSalary(c)
  PROVE  WorkforceInv'
<1>1. PICK e \in Staff, salary \in bureau.salaries, open \in BOOLEAN :
        /\ history' = [history EXCEPT ![e] = Append(@, Revision("PROMOTION", open, salary))]
        /\ staff' = IF open THEN [staff EXCEPT ![e].salary = salary] ELSE staff
  BY DEF ReviseSalary
<1>2. WorkforceTyped /\ OneByOne /\ UNCHANGED <<bureau, leaveVars, payVars, papers, chore>>
  BY DEF WorkforceInv, ReviseSalary
<1>3. salary \in Nat
  BY <1>2, Constants DEF WorkforceTyped
<1>4. PICK r : r = Revision("PROMOTION", open, salary)
  OBVIOUS
<1>5. r \in RevisionRow /\ r.reason # "JOINING" /\ r.open = open /\ r.salary = salary
  BY <1>3, <1>4 DEF Revision, RevisionRow
<1>6. PICK row : row = staff'[e]
  OBVIOUS
<1>7. /\ \A f \in Staff : f # e => staff'[f] = staff[f]
      /\ row \in StaffRow /\ row.row = staff[e].row
      /\ open => row.salary = salary
      /\ ~open => row = staff[e]
      /\ staff' \in [Staff -> StaffRow]
  BY <1>1, <1>2, <1>3, <1>6 DEF WorkforceTyped, StaffRow
<1>8. history[e] \in Seq(RevisionRow) /\ history' = [history EXCEPT ![e] = Append(history[e], r)]
  BY <1>1, <1>2, <1>4 DEF WorkforceTyped
<1>9. Append(history[e], r) \in Seq(RevisionRow)
  BY <1>5, <1>8
<1>10. /\ history' \in [Staff -> Seq(RevisionRow)]
       /\ \A f \in Staff : history'[f] = IF f = e THEN Append(history[e], r) ELSE history[f]
  BY <1>2, <1>8, <1>9 DEF WorkforceTyped
<1>11. Following'
  <2> SUFFICES ASSUME ~bureau.overlap, Never({"change_revision"}), NEW f \in Staff, staff'[f].row
               PROVE  Followed(staff'[f], history'[f])
    BY <1>2 DEF Following, Never
  <2>1. \A g \in Staff : staff[g].row => Followed(staff[g], history[g])
    BY DEF WorkforceInv, Following
  <2>2. CASE f # e
    BY <1>7, <1>10, <2>1, <2>2
  <2>3. CASE f = e
    <3>1. Followed(staff[e], history[e])
      BY <1>6, <1>7, <2>1, <2>3
    <3>2. /\ r.open => row.salary = r.salary
          /\ ~r.open => row.salary = staff[e].salary
      BY <1>5, <1>7
    <3>3. Followed(row, Append(history[e], r))
      BY <1>5, <1>8, <3>1, <3>2, Opened
    <3> QED BY <1>6, <1>10, <2>3, <3>3
  <2> QED BY <2>2, <2>3
<1>12. ~bureau.overlap => \A d \in Officers : chore[d] = AtEase
  BY AcceptsAlone DEF ReviseSalary
<1>13. /\ chore' = [d \in Officers |-> chore'[d]] /\ \A d \in Officers : ChoreOK(chore'[d])
       /\ OneByOne' /\ Knowing'
  BY <1>2, <1>12, NoTurnTaken
<1> QED BY <1>2, <1>7, <1>10, <1>11, <1>13, FileStep

LEMMA ChangeRevisionFine ==
  ASSUME WorkforceInv, NEW c \in Officers, ChangeRevision(c)
  PROVE  WorkforceInv'
<1>1. PICK e \in Staff : \E n \in DOMAIN history[e], salary \in bureau.salaries :
        \/ history' = [history EXCEPT ![e][n].salary = salary]
        \/ history' = [history EXCEPT ![e] = SubSeq(@, 1, n - 1) \o SubSeq(@, n + 1, Len(@))]
  BY DEF ChangeRevision
<1>2. WorkforceTyped /\ OneByOne /\ UNCHANGED <<bureau, staff, leaveVars, payVars, papers, chore>>
  BY DEF WorkforceInv, ChangeRevision
<1>3. PICK n \in DOMAIN history[e], salary \in bureau.salaries :
        \/ history' = [history EXCEPT ![e][n].salary = salary]
        \/ history' = [history EXCEPT ![e] = SubSeq(@, 1, n - 1) \o SubSeq(@, n + 1, Len(@))]
  BY <1>1
<1>4. salary \in Nat /\ history \in [Staff -> Seq(RevisionRow)] /\ staff \in [Staff -> StaffRow]
  BY <1>2, Constants DEF WorkforceTyped
<1>5. PICK h : h = history[e]
  OBVIOUS
<1>6. h \in Seq(RevisionRow) /\ Len(h) \in Nat /\ n \in 1..Len(h) /\ \A k \in 1..Len(h) : h[k] \in RevisionRow
  BY <1>3, <1>4, <1>5
<1>7. history' \in [Staff -> Seq(RevisionRow)]
  <2>1. CASE history' = [history EXCEPT ![e][n].salary = salary]
    <3>1. [h EXCEPT ![n].salary = salary] \in Seq(RevisionRow)
      <4>1. [h[n] EXCEPT !.salary = salary] \in RevisionRow
        BY <1>4, <1>6 DEF RevisionRow
      <4> QED BY <1>6, <4>1
    <3> QED BY <1>4, <1>5, <2>1, <3>1
  <2>2. CASE history' = [history EXCEPT ![e] = SubSeq(@, 1, n - 1) \o SubSeq(@, n + 1, Len(@))]
    <3>1. SubSeq(h, 1, n - 1) \in Seq(RevisionRow) /\ SubSeq(h, n + 1, Len(h)) \in Seq(RevisionRow)
      <4>1. \A k \in 1..(n - 1) : h[k] \in RevisionRow
        BY <1>6
      <4>2. \A k \in (n + 1)..Len(h) : h[k] \in RevisionRow
        BY <1>6
      <4> QED BY <1>6, <4>1, <4>2, SubSeqProperties
    <3>2. SubSeq(h, 1, n - 1) \o SubSeq(h, n + 1, Len(h)) \in Seq(RevisionRow)
      BY <3>1, ConcatProperties
    <3> QED BY <1>4, <1>5, <2>2, <3>2
  <2> QED BY <1>3, <2>1, <2>2
<1>8. Following'
  <2>1. "change_revision" \in bureau.kinds
    BY AcceptsAlone DEF ChangeRevision
  <2> QED BY <1>2, <2>1 DEF Following, Never
<1>9. ~bureau.overlap => \A d \in Officers : chore[d] = AtEase
  BY AcceptsAlone DEF ChangeRevision
<1>10. /\ chore' = [d \in Officers |-> chore'[d]] /\ \A d \in Officers : ChoreOK(chore'[d])
       /\ OneByOne' /\ Knowing'
  BY <1>2, <1>9, NoTurnTaken
<1> QED BY <1>2, <1>4, <1>7, <1>8, <1>10, FileStep

LEMMA ReadHistoryFine ==
  ASSUME WorkforceInv, NEW c \in Officers, ReadHistory(c)
  PROVE  WorkforceInv'
<1>1. PICK e \in Staff :
        /\ UnpaidJoining(e) # {} /\ staff[e].salary > 0
        /\ history' = [history EXCEPT ![e][Min(UnpaidJoining(e))].salary = staff[e].salary]
  BY DEF ReadHistory
<1>2. WorkforceTyped /\ OneByOne /\ UNCHANGED <<bureau, staff, leaveVars, payVars, papers, chore>>
  BY DEF WorkforceInv, ReadHistory
<1>3. /\ staff \in [Staff -> StaffRow] /\ staff[e].salary \in Nat
      /\ history \in [Staff -> Seq(RevisionRow)]
  BY <1>2 DEF WorkforceTyped, StaffRow
<1>4. PICK salary : salary = staff[e].salary
  OBVIOUS
<1> DEFINE h == [history[e] EXCEPT ![Min(UnpaidJoining(e))].salary = salary]
<1>5. /\ h \in Seq(RevisionRow)
      /\ Followed(staff[e], history[e]) => staff[e].salary = 0
      /\ Followed(staff[e], history[e]) /\ staff[e].salary = salary => Followed(staff[e], h)
  BY <1>1, <1>2, <1>3, <1>4, FilledIn
<1>6. history' = [history EXCEPT ![e] = h]
  BY <1>1, <1>4
<1> HIDE DEF h
<1>7. history' \in [Staff -> Seq(RevisionRow)] /\ \A f \in Staff : history'[f] = IF f = e THEN h ELSE history[f]
  BY <1>3, <1>5, <1>6
<1>8. Following'
  BY <1>2, <1>4, <1>5, <1>7 DEF WorkforceInv, Following, Never
<1>9. ~bureau.overlap => \A d \in Officers : chore[d] = AtEase
  BY AcceptsAlone DEF ReadHistory
<1>10. /\ chore' = [d \in Officers |-> chore'[d]] /\ \A d \in Officers : ChoreOK(chore'[d])
       /\ OneByOne' /\ Knowing'
  BY <1>2, <1>9, NoTurnTaken
<1> QED BY <1>2, <1>3, <1>7, <1>8, <1>10, FileStep

----
(* Leave. *)

\* A step that changes leave, the balance or nothing else.
LEMMA LeaveStep ==
  ASSUME WorkforceInv, UNCHANGED <<bureau, fileVars, payVars, papers>>,
         leaves' \in [LeaveRows -> {NoLeave} \union Leave], used' \in [Staff -> Int],
         LeavesApart', LeavesCounted',
         chore' = [d \in Officers |-> chore'[d]], \A d \in Officers : ChoreOK(chore'[d]),
         OneByOne', Knowing'
  PROVE  WorkforceInv'
<1>1. WorkforceTyped'
  BY DEF WorkforceInv, WorkforceTyped, fileVars, payVars
<1>2. Following' /\ NumbersOnce'
  BY FilesKept, PapersKept DEF WorkforceInv
<1> QED BY <1>1, <1>2 DEF WorkforceInv

\* A step that looks at leave and changes nothing but the chore.
LEMMA LookStep ==
  ASSUME WorkforceInv, UNCHANGED <<bureau, fileVars, leaveVars, payVars, papers>>,
         chore' = [d \in Officers |-> chore'[d]], \A d \in Officers : ChoreOK(chore'[d]),
         OneByOne', Knowing'
  PROVE  WorkforceInv'
<1>1. LeavesApart' /\ LeavesCounted'
  BY LeavesKept DEF WorkforceInv
<1>2. leaves' \in [LeaveRows -> {NoLeave} \union Leave] /\ used' \in [Staff -> Int]
  BY DEF WorkforceInv, WorkforceTyped, leaveVars
<1> QED BY <1>1, <1>2, LeaveStep

LEMMA LeaveFields ==
  /\ NoLeave.status = "ABSENT" /\ NoLeave \notin Leave
  /\ \A r \in Leave : /\ r.status \in LeaveStatuses /\ r.who \in Staff /\ r.kind \in {"paid", "unpaid"}
                      /\ r.from \in Nat /\ r.to \in Nat /\ r.from <= r.to
                      /\ Length(r) \in Nat
                      /\ \A from, to \in Nat, status \in LeaveStatuses :
                           from <= to => [r EXCEPT !.from = from, !.to = to, !.status = status] \in Leave
                      /\ \A status \in LeaveStatuses : [r EXCEPT !.status = status] \in Leave
<1>1. NoLeave.status = "ABSENT" /\ NoLeave \notin Leave
  BY DEF NoLeave, Leave, LeaveStatuses
<1>2. ASSUME NEW r \in Leave
      PROVE  /\ r.status \in LeaveStatuses /\ r.who \in Staff /\ r.kind \in {"paid", "unpaid"}
             /\ r.from \in Nat /\ r.to \in Nat /\ r.from <= r.to
             /\ r \in [status : LeaveStatuses, who : Staff, kind : {"paid", "unpaid"}, from : Nat, to : Nat]
  BY DEF Leave
<1>3. \A r \in Leave : Length(r) \in Nat
  BY <1>2 DEF Length
<1>4. ASSUME NEW r \in Leave, NEW from \in Nat, NEW to \in Nat, NEW status \in LeaveStatuses, from <= to
      PROVE  [r EXCEPT !.from = from, !.to = to, !.status = status] \in Leave
  BY <1>2, <1>4 DEF Leave
<1>5. ASSUME NEW r \in Leave, NEW status \in LeaveStatuses
      PROVE  [r EXCEPT !.status = status] \in Leave
  BY <1>2 DEF Leave
<1> QED BY <1>1, <1>2, <1>3, <1>4, <1>5

LEMMA NoClash ==
  ASSUME WorkforceTyped, NEW l \in LeaveRows, NEW r \in Leave, Clashes(r.who, r.from, r.to) \subseteq {l}
  PROVE  ApartFrom(leaves, l, r)
<1> SUFFICES ASSUME NEW k \in LeaveRows \ {l}, Stands(leaves[k]), leaves[k].who = r.who
             PROVE  leaves[k].to < r.from \/ r.to < leaves[k].from
  BY DEF ApartFrom
<1>1. k \notin Clashes(r.who, r.from, r.to)
  OBVIOUS
<1>2. ~(leaves[k].from <= r.to /\ r.from <= leaves[k].to)
  BY <1>1 DEF Clashes, Standing, Stands
<1>3. leaves[k] \in Leave
  BY LeaveFields DEF WorkforceTyped, Stands
<1>4. leaves[k].from \in Nat /\ leaves[k].to \in Nat /\ r.from \in Nat /\ r.to \in Nat
  BY <1>3, LeaveFields
<1> QED BY <1>2, <1>4

LEMMA AskLeaveFine ==
  ASSUME WorkforceInv, NEW c \in Officers, AskLeave(c)
  PROVE  WorkforceInv'
<1>1. PICK l \in LeaveRows, e \in Staff, kind \in {"paid", "unpaid"}, from \in Days, to \in Days,
           status \in Offers("write_status", LeaveStatuses, "PENDING") :
        /\ leaves[l] = NoLeave /\ from <= to /\ Clashes(e, from, to) = {}
        /\ Turns(c, [step |-> "ask", leave |-> l,
                     row |-> [status |-> status, who |-> e, kind |-> kind, from |-> from, to |-> to]])
  BY DEF AskLeave
<1>2. WorkforceTyped /\ OneByOne /\ UNCHANGED <<bureau, fileVars, leaveVars, payVars, papers>>
  BY DEF WorkforceInv, AskLeave
<1>3. from \in Nat /\ to \in Nat
  BY Constants
<1>4. /\ status \in LeaveStatuses
      /\ bureau.kinds \intersect {"write_status"} = {} => status = "PENDING"
  BY DEF Offers, LeaveStatuses
<1>5. PICK r : r = [status |-> status, who |-> e, kind |-> kind, from |-> from, to |-> to]
  OBVIOUS
<1>6. r \in Leave /\ r.status = status /\ r.who = e /\ r.from = from /\ r.to = to
  BY <1>1, <1>3, <1>4, <1>5 DEF Leave
<1>7. ApartFrom(leaves, l, r)
  <2>1. Clashes(r.who, r.from, r.to) \subseteq {l}
    BY <1>1, <1>6
  <2> QED BY <1>2, <1>6, <2>1, NoClash
<1> DEFINE t == [step |-> "ask", leave |-> l, row |-> r]
<1>8. ChoreOK(t) /\ t.step = "ask" /\ t.leave = l /\ t.row = r
  BY <1>6 DEF ChoreOK, ChoreRows
<1>9. Turns(c, t)
  BY <1>1, <1>5
<1> HIDE DEF t
<1>10. Knows(t, bureau, staff', leaves', used')
  BY <1>1, <1>2, <1>4, <1>6, <1>7, <1>8 DEF Knows, leaveVars
<1>11. Alone(c)
  BY AcceptsAlone DEF AskLeave
<1>12. /\ chore' = [d \in Officers |-> chore'[d]] /\ \A d \in Officers : ChoreOK(chore'[d])
       /\ OneByOne' /\ Knowing'
  BY <1>2, <1>8, <1>9, <1>10, <1>11, TurnTaken
<1> QED BY <1>2, <1>12, LookStep

LEMMA EditLeaveFine ==
  ASSUME WorkforceInv, NEW c \in Officers, EditLeave(c)
  PROVE  WorkforceInv'
<1>1. PICK l \in {k \in LeaveRows : leaves[k] # NoLeave}, from \in Days, to \in Days :
      \E status \in Offers("write_status", LeaveStatuses, leaves[l].status) :
        /\ from <= to
        /\ \/ "unnamed" \in bureau.kinds
           \/ leaves[l].from = from /\ leaves[l].to = to
           \/ Clashes(leaves[l].who, from, to) \subseteq {l}
        /\ Turns(c, [step |-> "edit_leave", leave |-> l,
                     row |-> [leaves[l] EXCEPT !.from = from, !.to = to, !.status = status]])
  BY DEF EditLeave
<1>2. PICK status \in Offers("write_status", LeaveStatuses, leaves[l].status) :
        /\ from <= to
        /\ \/ "unnamed" \in bureau.kinds
           \/ leaves[l].from = from /\ leaves[l].to = to
           \/ Clashes(leaves[l].who, from, to) \subseteq {l}
        /\ Turns(c, [step |-> "edit_leave", leave |-> l,
                     row |-> [leaves[l] EXCEPT !.from = from, !.to = to, !.status = status]])
  BY <1>1
<1>3. WorkforceTyped /\ OneByOne /\ UNCHANGED <<bureau, fileVars, leaveVars, payVars, papers>>
  BY DEF WorkforceInv, EditLeave
<1>4. l \in LeaveRows /\ leaves[l] \in Leave /\ from \in Nat /\ to \in Nat
  BY <1>3, Constants DEF WorkforceTyped
<1>5. /\ status \in LeaveStatuses
      /\ bureau.kinds \intersect {"unnamed", "write_status"} = {} => status = leaves[l].status
  BY <1>4, LeaveFields DEF Offers
<1>6. PICK old : old = leaves[l]
  OBVIOUS
<1>7. PICK r : r = [old EXCEPT !.from = from, !.to = to, !.status = status]
  OBVIOUS
<1>8. r \in Leave
  BY <1>2, <1>4, <1>5, <1>6, <1>7, LeaveFields
<1>9. r.status = status /\ r.who = old.who /\ r.from = from /\ r.to = to
  BY <1>4, <1>6, <1>7 DEF Leave
<1>10. ASSUME bureau.kinds \intersect {"unnamed", "write_status"} = {}, Stands(r), ~bureau.overlap
       PROVE  ApartFrom(leaves, l, r)
  <2>1. CASE Clashes(old.who, from, to) \subseteq {l}
    <3>1. Clashes(r.who, r.from, r.to) \subseteq {l}
      BY <1>9, <2>1
    <3> QED BY <1>3, <1>4, <1>8, <3>1, NoClash
  <2>2. CASE old.from = from /\ old.to = to
    <3>1. Stands(old)
      BY <1>5, <1>6, <1>9, <1>10 DEF Stands
    <3>2. \A k \in LeaveRows : l # k /\ Standing(l) /\ Standing(k) /\ leaves[l].who = leaves[k].who
            => leaves[l].to < leaves[k].from \/ leaves[k].to < leaves[l].from
      <4>1. LeavesApart /\ Never({"unnamed", "write_status"})
        BY <1>10 DEF WorkforceInv, Never
      <4> QED BY <1>4, <1>10, <4>1 DEF LeavesApart
    <3>3. \A k \in LeaveRows \ {l} : Stands(leaves[k]) /\ leaves[k].who = r.who
            => r.to < leaves[k].from \/ leaves[k].to < r.from
      BY <1>6, <1>9, <2>2, <3>1, <3>2 DEF Stands, Standing
    <3> QED BY <3>3 DEF ApartFrom
  <2> QED BY <1>2, <1>6, <1>10, <2>1, <2>2
<1> DEFINE t == [step |-> "edit_leave", leave |-> l, row |-> r]
<1>11. ChoreOK(t) /\ t.step = "edit_leave" /\ t.leave = l /\ t.row = r
  BY <1>4, <1>8 DEF ChoreOK, ChoreRows
<1>12. Turns(c, t)
  BY <1>2, <1>6, <1>7
<1> HIDE DEF t
<1>13. Alone(c) /\ "edit_leave" \in bureau.kinds
  BY AcceptsAlone DEF EditLeave
<1>14. ~bureau.overlap => Knows(t, bureau, staff', leaves', used')
  BY <1>3, <1>10, <1>11, <1>13 DEF Knows, leaveVars
<1>15. /\ chore' = [d \in Officers |-> chore'[d]] /\ \A d \in Officers : ChoreOK(chore'[d])
       /\ OneByOne' /\ Knowing'
  BY <1>3, <1>11, <1>12, <1>13, <1>14, TurnTaken
<1> QED BY <1>3, <1>15, LookStep

LEMMA DecideLoadFine ==
  ASSUME WorkforceInv, NEW c \in Officers, DecideLoad(c)
  PROVE  WorkforceInv'
<1>1. PICK kind \in {"approve", "reject"}, l \in LeaveRows :
        /\ Accepts(c, kind)
        /\ leaves[l].status = "PENDING"
        /\ kind = "approve" => Enough(leaves[l])
        /\ Turns(c, [step |-> kind, leave |-> l, row |-> leaves[l], balance |-> used[leaves[l].who]])
  BY DEF DecideLoad
<1>2. WorkforceTyped /\ OneByOne /\ UNCHANGED <<bureau, fileVars, leaveVars, payVars, papers>>
  BY DEF WorkforceInv, DecideLoad
<1>3. PICK r, balance : r = leaves[l] /\ balance = used[r.who]
  OBVIOUS
<1>4. r \in Leave /\ r.status = "PENDING"
  BY <1>1, <1>2, <1>3, LeaveFields DEF WorkforceTyped
<1>5. balance \in Int
  <2>1. r.who \in Staff
    BY <1>4, LeaveFields
  <2> QED BY <1>2, <1>3, <2>1 DEF WorkforceTyped
<1>6. kind = "approve" /\ r.kind = "paid" /\ bureau.kinds \intersect {"override"} = {} =>
        Length(r) <= Entitled - balance
  BY <1>1, <1>3 DEF Enough
<1> DEFINE t == [step |-> kind, leave |-> l, row |-> r, balance |-> balance]
<1>7. ChoreOK(t) /\ t.step = kind /\ t.leave = l /\ t.row = r /\ t.balance = balance
  BY <1>4, <1>5 DEF ChoreOK, ChoreRows
<1>8. Turns(c, t)
  BY <1>1, <1>3
<1> HIDE DEF t
<1>9. Alone(c)
  BY <1>1, AcceptsAlone
<1>10. Knows(t, bureau, staff', leaves', used')
  BY <1>2, <1>3, <1>6, <1>7 DEF Knows, leaveVars
<1>11. /\ chore' = [d \in Officers |-> chore'[d]] /\ \A d \in Officers : ChoreOK(chore'[d])
       /\ OneByOne' /\ Knowing'
  BY <1>2, <1>7, <1>8, <1>9, <1>10, TurnTaken
<1> QED BY <1>2, <1>11, LookStep

\* Standing leave of one employee is apart, and stays so when a row is written.
AllApart(lv) ==
  \A l, k \in LeaveRows :
    l # k /\ Stands(lv[l]) /\ Stands(lv[k]) /\ lv[l].who = lv[k].who
      => lv[l].to < lv[k].from \/ lv[k].to < lv[l].from

LEMMA ApartStated ==
  /\ LeavesApart <=> (~bureau.overlap /\ Never({"unnamed", "write_status"}) => AllApart(leaves))
  /\ bureau' = bureau =>
       (LeavesApart' <=> (~bureau.overlap /\ Never({"unnamed", "write_status"}) => AllApart(leaves')))
BY DEF LeavesApart, AllApart, Standing, Stands, Never

LEMMA StillApart ==
  ASSUME NEW lv, NEW lw, AllApart(lv), NEW l \in LeaveRows, NEW r,
         \A k \in LeaveRows : lw[k] = IF k = l THEN r ELSE lv[k],
         Stands(r) => ApartFrom(lv, l, r)
  PROVE  AllApart(lw)
<1> SUFFICES ASSUME NEW j \in LeaveRows, NEW k \in LeaveRows,
                    j # k, Stands(lw[j]), Stands(lw[k]), lw[j].who = lw[k].who
             PROVE  lw[j].to < lw[k].from \/ lw[k].to < lw[j].from
  BY DEF AllApart
<1>1. CASE j = l
  <2>1. lw[j] = r /\ lw[k] = lv[k] /\ k \in LeaveRows \ {l}
    BY <1>1
  <2> QED BY <2>1 DEF ApartFrom
<1>2. CASE k = l
  <2>1. lw[k] = r /\ lw[j] = lv[j] /\ j \in LeaveRows \ {l}
    BY <1>2
  <2> QED BY <2>1 DEF ApartFrom
<1>3. CASE j # l /\ k # l
  BY <1>3 DEF AllApart
<1> QED BY <1>1, <1>2, <1>3

\* Days of approved leave in a table of leave.
ApprovedFor(lv, e, kinds) ==
  {l \in LeaveRows : lv[l].status = "APPROVED" /\ lv[l].who = e /\ lv[l].kind \in kinds}
Lengths(lv) == [l \in LeaveRows |-> Length(lv[l])]
DaysIn(lv, e, kinds) == SumFunctionOnSet(Lengths(lv), ApprovedFor(lv, e, kinds))

LEMMA DaysStated ==
  ASSUME NEW e, NEW kinds
  PROVE  /\ DaysApproved(e, kinds) = DaysIn(leaves, e, kinds)
         /\ DaysApproved(e, kinds)' = DaysIn(leaves', e, kinds)
BY DEF DaysApproved, DaysIn, ApprovedFor, Lengths, Length

LEMMA ApprovedTyped ==
  ASSUME NEW lv \in [LeaveRows -> {NoLeave} \union Leave], NEW e, NEW kinds
  PROVE  /\ IsFiniteSet(ApprovedFor(lv, e, kinds))
         /\ \A l \in LeaveRows : Lengths(lv)[l] = Length(lv[l]) /\ Lengths(lv)[l] \in Int
         /\ DaysIn(lv, e, kinds) \in Int
<1>1. ApprovedFor(lv, e, kinds) \subseteq LeaveRows
  BY DEF ApprovedFor
<1>2. IsFiniteSet(ApprovedFor(lv, e, kinds))
  BY <1>1, Constants, FS_Subset
<1>3. \A l \in LeaveRows : Lengths(lv)[l] = Length(lv[l]) /\ Lengths(lv)[l] \in Int
  <2> TAKE l \in LeaveRows
  <2>1. lv[l] = NoLeave \/ lv[l] \in Leave
    OBVIOUS
  <2>2. Length(lv[l]) \in Int
    <3>1. CASE lv[l] = NoLeave
      BY <3>1 DEF Length, NoLeave
    <3>2. CASE lv[l] \in Leave
      <4>1. Length(lv[l]) \in Nat
        BY <3>2, LeaveFields
      <4> QED BY <4>1
    <3> QED BY <2>1, <3>1, <3>2
  <2> QED BY <2>2 DEF Lengths
<1>4. \A l \in ApprovedFor(lv, e, kinds) : Lengths(lv)[l] \in Int
  BY <1>1, <1>3
<1> QED BY <1>2, <1>3, <1>4, SumInt DEF DaysIn

\* What a write of row l does to the days of approved leave.
LEMMA DaysSame ==
  ASSUME NEW lv \in [LeaveRows -> {NoLeave} \union Leave],
         NEW lw \in [LeaveRows -> {NoLeave} \union Leave], NEW l \in LeaveRows,
         \A k \in LeaveRows : k # l => lw[k] = lv[k],
         lv[l].status # "APPROVED", lw[l].status # "APPROVED", NEW e, NEW kinds
  PROVE  DaysIn(lw, e, kinds) = DaysIn(lv, e, kinds)
<1>1. ApprovedFor(lw, e, kinds) = ApprovedFor(lv, e, kinds)
  BY DEF ApprovedFor
<1>2. \A k \in ApprovedFor(lv, e, kinds) : Lengths(lw)[k] = Lengths(lv)[k]
  BY DEF ApprovedFor, Lengths
<1>3. IsFiniteSet(ApprovedFor(lv, e, kinds))
  BY ApprovedTyped
<1>4. SumFunctionOnSet(Lengths(lw), ApprovedFor(lv, e, kinds))
        = SumFunctionOnSet(Lengths(lv), ApprovedFor(lv, e, kinds))
  BY <1>2, <1>3, SumSame
<1> QED BY <1>1, <1>4 DEF DaysIn

LEMMA DaysMore ==
  ASSUME NEW lv \in [LeaveRows -> {NoLeave} \union Leave],
         NEW lw \in [LeaveRows -> {NoLeave} \union Leave], NEW l \in LeaveRows,
         \A k \in LeaveRows : k # l => lw[k] = lv[k],
         lv[l].status # "APPROVED", lw[l].status = "APPROVED", NEW e, NEW kinds
  PROVE  DaysIn(lw, e, kinds)
           = DaysIn(lv, e, kinds) + IF lw[l].who = e /\ lw[l].kind \in kinds THEN Length(lw[l]) ELSE 0
<1> DEFINE A == ApprovedFor(lv, e, kinds)
           B == ApprovedFor(lw, e, kinds)
<1>1. l \notin A /\ \A k \in LeaveRows : k # l => (k \in B <=> k \in A)
  BY DEF ApprovedFor
<1>2. A \subseteq LeaveRows /\ B \subseteq LeaveRows
  BY DEF ApprovedFor
<1>3. \A k \in A : Lengths(lw)[k] = Lengths(lv)[k]
  BY <1>1 DEF ApprovedFor, Lengths
<1>4. IsFiniteSet(A) /\ DaysIn(lv, e, kinds) \in Int /\ \A k \in LeaveRows : Lengths(lw)[k] \in Int
  BY ApprovedTyped
<1>5. Lengths(lw)[l] = Length(lw[l])
  BY DEF Lengths
<1>6. l \in B <=> (lw[l].who = e /\ lw[l].kind \in kinds)
  BY DEF ApprovedFor
<1>7. DaysIn(lv, e, kinds) = SumFunctionOnSet(Lengths(lv), A)
      /\ DaysIn(lw, e, kinds) = SumFunctionOnSet(Lengths(lw), B)
  BY DEF DaysIn
<1> HIDE DEF A, B
<1>8. SumFunctionOnSet(Lengths(lw), A) = SumFunctionOnSet(Lengths(lv), A)
  BY <1>3, <1>4, SumSame
<1>9. CASE l \in B
  <2>1. B = A \union {l} /\ \A k \in A \union {l} : Lengths(lw)[k] \in Int
    BY <1>1, <1>2, <1>4, <1>9
  <2>2. SumFunctionOnSet(Lengths(lw), A \union {l}) = Lengths(lw)[l] + SumFunctionOnSet(Lengths(lw), A)
    BY <1>1, <1>4, <2>1, SumAdd
  <2>3. DaysIn(lw, e, kinds) = Length(lw[l]) + DaysIn(lv, e, kinds)
    BY <1>5, <1>7, <1>8, <2>1, <2>2
  <2>4. Length(lw[l]) \in Int
    BY <1>4, <1>5
  <2> QED BY <1>4, <1>6, <1>9, <2>3, <2>4
<1>10. CASE l \notin B
  <2>1. B = A
    BY <1>1, <1>2, <1>10
  <2> QED BY <1>4, <1>6, <1>7, <1>8, <1>10, <2>1
<1> QED BY <1>9, <1>10

\* The balance has the paid days.
PaidDays(lv, e) == DaysIn(lv, e, {"paid", "unpaid"}) - DaysIn(lv, e, {"unpaid"})
AllCounted(lv, u, b) ==
  \A e \in Staff :
    /\ u[e] = PaidDays(lv, e)
    /\ b.kinds \intersect {"override"} = {} => u[e] <= Entitled

LEMMA CountedStated ==
  /\ LeavesCounted <=>
       (~bureau.overlap /\ Never({"edit_leave", "delete_leave", "write_status"}) =>
          AllCounted(leaves, used, bureau))
  /\ bureau' = bureau =>
       (LeavesCounted' <=>
          (~bureau.overlap /\ Never({"edit_leave", "delete_leave", "write_status"}) =>
             AllCounted(leaves', used', bureau)))
<1>1. LeavesCounted <=>
       (~bureau.overlap /\ Never({"edit_leave", "delete_leave", "write_status"}) =>
          AllCounted(leaves, used, bureau))
  BY DaysStated DEF LeavesCounted, AllCounted, PaidDays, Never
<1>2. ASSUME bureau' = bureau
      PROVE  LeavesCounted' <=>
          (~bureau.overlap /\ Never({"edit_leave", "delete_leave", "write_status"}) =>
             AllCounted(leaves', used', bureau))
  BY <1>2, DaysStated DEF LeavesCounted, AllCounted, PaidDays, Never
<1> QED BY <1>1, <1>2

LEMMA LeaveSaveFine ==
  ASSUME WorkforceInv, NEW c \in Officers, LeaveSave(c)
  PROVE  WorkforceInv'
<1>1. PICK t, l, r : t = chore[c] /\ l = t.leave /\ r = t.row
  OBVIOUS
<1>2. /\ WorkforceTyped /\ OneByOne /\ UNCHANGED <<bureau, fileVars, used, payVars, papers>>
      /\ t.step \in {"ask", "edit_leave"} /\ Turns(c, AtEase)
      /\ leaves' = [leaves EXCEPT ![l] = r]
  BY <1>1 DEF WorkforceInv, LeaveSave, Done
<1>3. l \in LeaveRows /\ r \in Leave
  <2>1. ChoreOK(t)
    BY <1>1, <1>2 DEF WorkforceTyped
  <2> QED BY <1>1, <1>2, <2>1, ChoreShape
<1>4. /\ leaves \in [LeaveRows -> {NoLeave} \union Leave] /\ used \in [Staff -> Int]
      /\ leaves' \in [LeaveRows -> {NoLeave} \union Leave]
      /\ \A k \in LeaveRows : leaves'[k] = IF k = l THEN r ELSE leaves[k]
  BY <1>2, <1>3 DEF WorkforceTyped
<1>5. ~bureau.overlap => Knows(t, bureau, staff, leaves, used)
  BY <1>1 DEF WorkforceInv, Knowing
<1>6. LeavesApart'
  <2> SUFFICES ASSUME ~bureau.overlap, Never({"unnamed", "write_status"})
               PROVE  AllApart(leaves')
    BY <1>2, ApartStated
  <2>1. AllApart(leaves)
    BY ApartStated DEF WorkforceInv
  <2>2. Stands(r) => ApartFrom(leaves, l, r)
    BY <1>1, <1>2, <1>5 DEF Knows, Never
  <2> QED BY <1>3, <1>4, <2>1, <2>2, StillApart
<1>7. LeavesCounted'
  <2> SUFFICES ASSUME ~bureau.overlap, Never({"edit_leave", "delete_leave", "write_status"})
               PROVE  AllCounted(leaves', used', bureau)
    BY <1>2, CountedStated
  <2>1. AllCounted(leaves, used, bureau)
    BY CountedStated DEF WorkforceInv
  <2>2. t.step = "ask"
    BY <1>2, <1>5 DEF Knows, Never
  <2>3. leaves[l] = NoLeave /\ r.status = "PENDING"
    BY <1>1, <1>5, <2>2 DEF Knows, Never
  <2>4. leaves[l].status # "APPROVED" /\ leaves'[l].status # "APPROVED"
    BY <1>3, <1>4, <2>3, LeaveFields
  <2>5. \A k \in LeaveRows : k # l => leaves'[k] = leaves[k]
    BY <1>4
  <2>6. \A e, kinds : DaysIn(leaves', e, kinds) = DaysIn(leaves, e, kinds)
    BY <1>3, <1>4, <2>4, <2>5, DaysSame
  <2> QED BY <1>2, <2>1, <2>6 DEF AllCounted, PaidDays
<1>8. Alone(c)
  <2>1. chore[c] # AtEase
    BY <1>1, <1>2 DEF AtEase
  <2> QED BY <1>2, <2>1, BusyAlone
<1>9. Knows(AtEase, bureau, staff', leaves', used') /\ ChoreOK(AtEase)
  BY DEF Knows, AtEase, ChoreOK
<1>10. /\ chore' = [d \in Officers |-> chore'[d]] /\ \A d \in Officers : ChoreOK(chore'[d])
       /\ OneByOne' /\ Knowing'
  BY <1>2, <1>8, <1>9, TurnTaken
<1> QED BY <1>2, <1>4, <1>6, <1>7, <1>10, LeaveStep

LEMMA DeleteLeaveFine ==
  ASSUME WorkforceInv, NEW c \in Officers, DeleteLeave(c)
  PROVE  WorkforceInv'
<1>1. PICK l \in LeaveRows : leaves' = [leaves EXCEPT ![l] = NoLeave]
  BY DEF DeleteLeave
<1>2. WorkforceTyped /\ OneByOne /\ UNCHANGED <<bureau, fileVars, used, payVars, papers, chore>>
  BY DEF WorkforceInv, DeleteLeave
<1>3. /\ leaves \in [LeaveRows -> {NoLeave} \union Leave] /\ used \in [Staff -> Int]
      /\ leaves' \in [LeaveRows -> {NoLeave} \union Leave]
      /\ \A k \in LeaveRows : leaves'[k] = IF k = l THEN NoLeave ELSE leaves[k]
  BY <1>1, <1>2 DEF WorkforceTyped
<1>4. LeavesApart'
  <2> SUFFICES ASSUME ~bureau.overlap, Never({"unnamed", "write_status"})
               PROVE  AllApart(leaves')
    BY <1>2, ApartStated
  <2>1. AllApart(leaves)
    BY ApartStated DEF WorkforceInv
  <2>2. ~Stands(NoLeave)
    BY LeaveFields DEF Stands
  <2> QED BY <1>3, <2>1, <2>2, StillApart
<1>5. LeavesCounted'
  <2>1. "delete_leave" \in bureau.kinds
    BY AcceptsAlone DEF DeleteLeave
  <2> QED BY <1>2, <2>1, CountedStated DEF Never
<1>6. ~bureau.overlap => \A d \in Officers : chore[d] = AtEase
  BY AcceptsAlone DEF DeleteLeave
<1>7. /\ chore' = [d \in Officers |-> chore'[d]] /\ \A d \in Officers : ChoreOK(chore'[d])
       /\ OneByOne' /\ Knowing'
  BY <1>2, <1>6, NoTurnTaken
<1> QED BY <1>2, <1>3, <1>4, <1>5, <1>7, LeaveStep

LEMMA DecideSaveFine ==
  ASSUME WorkforceInv, NEW c \in Officers, DecideSave(c)
  PROVE  WorkforceInv'
<1>1. PICK t, l, r : t = chore[c] /\ l = t.leave /\ r = t.row
  OBVIOUS
<1>2. /\ WorkforceTyped /\ OneByOne /\ UNCHANGED <<bureau, fileVars, payVars, papers>>
      /\ t.step \in {"approve", "reject"} /\ Turns(c, AtEase)
      /\ IF leaves[l] = NoLeave THEN UNCHANGED leaveVars
         ELSE /\ leaves' = [leaves EXCEPT ![l].status =
                   IF t.step = "approve" THEN "APPROVED" ELSE "REJECTED"]
              /\ used' = IF t.step = "approve" /\ r.kind = "paid"
                         THEN [used EXCEPT ![r.who] = t.balance + Length(r)] ELSE used
  BY <1>1 DEF WorkforceInv, DecideSave, Done, Doing
<1>3. l \in LeaveRows /\ r \in Leave /\ r.status = "PENDING" /\ t.balance \in Int
  <2>1. ChoreOK(t)
    BY <1>1, <1>2 DEF WorkforceTyped
  <2> QED BY <1>1, <1>2, <2>1, ChoreShape
<1>4. leaves \in [LeaveRows -> {NoLeave} \union Leave] /\ used \in [Staff -> Int]
  BY <1>2 DEF WorkforceTyped
<1>5. r.who \in Staff /\ Length(r) \in Nat /\ r.kind \in {"paid", "unpaid"}
  BY <1>3, LeaveFields
<1>6. Alone(c)
  <2>1. chore[c] # AtEase
    BY <1>1, <1>2 DEF AtEase
  <2> QED BY <1>2, <2>1, BusyAlone
<1>7. Knows(AtEase, bureau, staff', leaves', used') /\ ChoreOK(AtEase)
  BY DEF Knows, AtEase, ChoreOK
<1>8. /\ chore' = [d \in Officers |-> chore'[d]] /\ \A d \in Officers : ChoreOK(chore'[d])
      /\ OneByOne' /\ Knowing'
  BY <1>2, <1>6, <1>7, TurnTaken
<1>9. CASE leaves[l] = NoLeave
  BY <1>2, <1>8, <1>9, LookStep
<1>10. CASE leaves[l] # NoLeave
  <2>1. PICK status : status = IF t.step = "approve" THEN "APPROVED" ELSE "REJECTED"
    OBVIOUS
  <2>2. PICK old, new : old = leaves[l] /\ new = [old EXCEPT !.status = status]
    OBVIOUS
  <2>3. status \in LeaveStatuses /\ old \in Leave
    BY <1>3, <1>4, <1>10, <2>1, <2>2 DEF LeaveStatuses
  <2>4. new \in Leave /\ new.status = status /\ new.who = old.who /\ new.kind = old.kind
        /\ new.from = old.from /\ new.to = old.to
    BY <2>2, <2>3, LeaveFields DEF Leave
  <2>5. leaves' = [leaves EXCEPT ![l] = new]
    BY <1>2, <1>10, <2>1, <2>2
  <2>6. /\ leaves' \in [LeaveRows -> {NoLeave} \union Leave]
        /\ \A k \in LeaveRows : leaves'[k] = IF k = l THEN new ELSE leaves[k]
    BY <1>3, <1>4, <2>4, <2>5
  <2>7. /\ used' \in [Staff -> Int]
        /\ \A e \in Staff : used'[e] = IF t.step = "approve" /\ r.kind = "paid" /\ e = r.who
                                       THEN t.balance + Length(r) ELSE used[e]
    BY <1>2, <1>3, <1>4, <1>5, <1>10
  <2>8. ~bureau.overlap => old = r /\ t.balance = used[r.who]
    BY <1>1, <1>2, <2>2 DEF WorkforceInv, Knowing, Knows
  <2>9. LeavesApart'
    <3> SUFFICES ASSUME ~bureau.overlap, Never({"unnamed", "write_status"})
                 PROVE  AllApart(leaves')
      BY <1>2, ApartStated
    <3>1. AllApart(leaves)
      BY ApartStated DEF WorkforceInv
    <3>2. Stands(leaves[l])
      BY <1>3, <2>2, <2>8 DEF Stands
    <3>3. ApartFrom(leaves, l, new)
      BY <1>3, <2>2, <2>4, <3>1, <3>2 DEF AllApart, ApartFrom
    <3> QED BY <1>3, <2>6, <3>1, <3>3, StillApart
  <2>10. LeavesCounted'
    <3> SUFFICES ASSUME ~bureau.overlap, Never({"edit_leave", "delete_leave", "write_status"})
                 PROVE  AllCounted(leaves', used', bureau)
      BY <1>2, CountedStated
    <3>1. AllCounted(leaves, used, bureau)
      BY CountedStated DEF WorkforceInv
    <3>2. leaves[l].status # "APPROVED" /\ leaves'[l] = new /\ \A k \in LeaveRows : k # l => leaves'[k] = leaves[k]
      BY <1>3, <2>2, <2>6, <2>8
    <3>3. CASE t.step = "reject"
      <4>1. leaves'[l].status # "APPROVED"
        BY <2>1, <2>4, <3>2, <3>3
      <4>2. \A e, kinds : DaysIn(leaves', e, kinds) = DaysIn(leaves, e, kinds)
        BY <1>3, <1>4, <2>6, <3>2, <4>1, DaysSame
      <4> QED BY <2>7, <3>1, <3>3, <4>2 DEF AllCounted, PaidDays
    <3>4. CASE t.step = "approve"
      <4>1. leaves'[l].status = "APPROVED"
        BY <2>1, <2>4, <3>2, <3>4
      <4>2. \A e, kinds : DaysIn(leaves', e, kinds) = DaysIn(leaves, e, kinds)
              + IF leaves'[l].who = e /\ leaves'[l].kind \in kinds THEN Length(leaves'[l]) ELSE 0
        BY <1>3, <1>4, <2>6, <3>2, <4>1, DaysMore
      <4>3. leaves'[l].who = r.who /\ leaves'[l].kind = r.kind /\ Length(leaves'[l]) = Length(r)
        BY <2>4, <2>8, <3>2 DEF Length
      <4>4. \A e, kinds : DaysIn(leaves, e, kinds) \in Int
        BY <1>4, ApprovedTyped
      <4>5. \A e : PaidDays(leaves', e) = PaidDays(leaves, e)
                     + IF r.who = e /\ r.kind = "paid" THEN Length(r) ELSE 0
        <5> TAKE e
        <5>1. /\ DaysIn(leaves', e, {"paid", "unpaid"}) = DaysIn(leaves, e, {"paid", "unpaid"})
                   + IF r.who = e THEN Length(r) ELSE 0
              /\ DaysIn(leaves', e, {"unpaid"}) = DaysIn(leaves, e, {"unpaid"})
                   + IF r.who = e /\ r.kind = "unpaid" THEN Length(r) ELSE 0
          BY <1>5, <4>2, <4>3
        <5>2. DaysIn(leaves, e, {"paid", "unpaid"}) \in Int /\ DaysIn(leaves, e, {"unpaid"}) \in Int
          BY <4>4
        <5> QED BY <1>5, <5>1, <5>2 DEF PaidDays
      <4>6. bureau.kinds \intersect {"override"} = {} /\ r.kind = "paid" =>
              Length(r) <= Entitled - used[r.who]
        BY <1>1, <1>2, <2>8, <3>4 DEF WorkforceInv, Knowing, Knows
      <4>7. Entitled \in Nat
        BY Constants
      <4> SUFFICES ASSUME NEW e \in Staff
                   PROVE  /\ used'[e] = PaidDays(leaves', e)
                          /\ bureau.kinds \intersect {"override"} = {} => used'[e] <= Entitled
        BY DEF AllCounted
      <4>8. /\ used[e] = PaidDays(leaves, e) /\ used[e] \in Int
            /\ bureau.kinds \intersect {"override"} = {} => used[e] <= Entitled
        BY <1>4, <3>1 DEF AllCounted
      <4>9. CASE r.who = e /\ r.kind = "paid"
        <5>1. used'[e] = used[e] + Length(r) /\ PaidDays(leaves', e) = PaidDays(leaves, e) + Length(r)
          BY <2>7, <2>8, <3>4, <4>5, <4>9
        <5> QED BY <1>5, <4>6, <4>7, <4>8, <4>9, <5>1
      <4>10. CASE ~(r.who = e /\ r.kind = "paid")
        <5>1. used'[e] = used[e] /\ PaidDays(leaves', e) = PaidDays(leaves, e) + 0
          BY <2>7, <4>5, <4>10
        <5> QED BY <4>8, <5>1
      <4> QED BY <4>9, <4>10
    <3> QED BY <1>2, <3>3, <3>4
  <2> QED BY <1>2, <1>8, <2>6, <2>7, <2>9, <2>10, LeaveStep
<1> QED BY <1>9, <1>10

----
(* Advances, loans and papers. *)

\* A step that changes neither the files nor leave.
LEMMA OtherStep ==
  ASSUME WorkforceInv, UNCHANGED <<bureau, fileVars, leaveVars>>,
         granted' \in [Staff -> [Months -> Nat]], lent' \in [Staff -> LoanRow],
         papers' \in Seq(PaperRow), NumbersOnce',
         chore' = [d \in Officers |-> chore'[d]], \A d \in Officers : ChoreOK(chore'[d]),
         OneByOne', Knowing'
  PROVE  WorkforceInv'
<1>1. WorkforceTyped'
  BY DEF WorkforceInv, WorkforceTyped, fileVars, leaveVars
<1>2. Following' /\ LeavesApart' /\ LeavesCounted'
  BY FilesKept, LeavesKept DEF WorkforceInv
<1> QED BY <1>1, <1>2 DEF WorkforceInv

LEMMA GrantAdvanceFine ==
  ASSUME WorkforceInv, NEW c \in Officers, GrantAdvance(c)
  PROVE  WorkforceInv'
<1>1. PICK e \in Staff, p \in Months, amount \in bureau.salaries \ {0} :
        granted' = [granted EXCEPT ![e][p] = @ + amount]
  BY DEF GrantAdvance
<1>2. WorkforceTyped /\ OneByOne /\ UNCHANGED <<bureau, fileVars, leaveVars, lent, papers, chore>>
  BY DEF WorkforceInv, GrantAdvance
<1>3. amount \in Nat
  BY <1>2, Constants DEF WorkforceTyped
<1>4. granted' \in [Staff -> [Months -> Nat]]
  <2>1. granted \in [Staff -> [Months -> Nat]]
    BY <1>2 DEF WorkforceTyped
  <2>2. granted[e] \in [Months -> Nat] /\ granted[e][p] \in Nat
    BY <2>1
  <2>3. [granted[e] EXCEPT ![p] = granted[e][p] + amount] \in [Months -> Nat]
    BY <1>3, <2>2
  <2>4. granted' = [granted EXCEPT ![e] = [granted[e] EXCEPT ![p] = granted[e][p] + amount]]
    BY <1>1, <2>1, <2>2
  <2> QED BY <2>1, <2>3, <2>4
<1>5. ~bureau.overlap => \A d \in Officers : chore[d] = AtEase
  BY AcceptsAlone DEF GrantAdvance
<1>6. /\ chore' = [d \in Officers |-> chore'[d]] /\ \A d \in Officers : ChoreOK(chore'[d])
      /\ OneByOne' /\ Knowing'
  BY <1>2, <1>5, NoTurnTaken
<1>7. NumbersOnce' /\ lent' \in [Staff -> LoanRow] /\ papers' \in Seq(PaperRow)
  <2>1. NumbersOnce'
    BY <1>2, PapersKept DEF WorkforceInv
  <2> QED BY <1>2, <2>1 DEF WorkforceTyped
<1> QED BY <1>2, <1>4, <1>6, <1>7, OtherStep

LEMMA GrantLoanFine ==
  ASSUME WorkforceInv, NEW c \in Officers, GrantLoan(c)
  PROVE  WorkforceInv'
<1>1. PICK e \in Staff, p \in Months, amount \in bureau.salaries \ {0}, installment \in bureau.salaries \ {0} :
        lent' = [lent EXCEPT ![e] = [remaining |-> amount, installment |-> installment, start |-> p]]
  BY DEF GrantLoan
<1>2. WorkforceTyped /\ OneByOne /\ UNCHANGED <<bureau, fileVars, leaveVars, granted, papers, chore>>
  BY DEF WorkforceInv, GrantLoan
<1>3. amount \in Nat /\ installment \in Nat /\ p \in Nat
  BY <1>2, Constants DEF WorkforceTyped
<1>4. lent' \in [Staff -> LoanRow]
  <2>1. [remaining |-> amount, installment |-> installment, start |-> p] \in LoanRow
    BY <1>3 DEF LoanRow
  <2> QED BY <1>1, <1>2, <2>1 DEF WorkforceTyped
<1>5. ~bureau.overlap => \A d \in Officers : chore[d] = AtEase
  BY AcceptsAlone DEF GrantLoan
<1>6. /\ chore' = [d \in Officers |-> chore'[d]] /\ \A d \in Officers : ChoreOK(chore'[d])
      /\ OneByOne' /\ Knowing'
  BY <1>2, <1>5, NoTurnTaken
<1>7. NumbersOnce' /\ granted' \in [Staff -> [Months -> Nat]] /\ papers' \in Seq(PaperRow)
  <2>1. NumbersOnce'
    BY <1>2, PapersKept DEF WorkforceInv
  <2> QED BY <1>2, <2>1 DEF WorkforceTyped
<1> QED BY <1>2, <1>4, <1>6, <1>7, OtherStep

LEMMA NextPaperNat ==
  ASSUME WorkforceTyped, NEW kind
  PROVE  NextPaper(kind) \in Nat
<1>1. papers \in Seq(PaperRow) /\ Len(papers) \in Nat /\ DOMAIN papers = 1..Len(papers)
  BY DEF WorkforceTyped
<1>2. CASE Numbered(kind) = {}
  BY <1>2 DEF NextPaper
<1>3. CASE Numbered(kind) # {}
  <2> DEFINE S == Numbered(kind)
             top == Len(papers)
  <2>1. \A n \in S : n \in DOMAIN papers
    BY DEF Numbered
  <2> HIDE DEF S
  <2>2. S \subseteq Nat /\ S # {} /\ top \in Nat /\ \A x \in S : x <= top
    BY <1>1, <1>3, <2>1 DEF S
  <2> HIDE DEF top
  <2>3. Max(S) \in S
    BY <2>2, MaxIn
  <2>4. papers[Max(S)] \in PaperRow
    BY <1>1, <2>1, <2>3
  <2>5. papers[Max(S)].number \in Nat
    BY <2>4 DEF PaperRow
  <2>6. NextPaper(kind) = papers[Max(S)].number + 1
    BY <1>3 DEF NextPaper, S
  <2> QED BY <2>5, <2>6
<1> QED BY <1>2, <1>3

LEMMA IssueLoadFine ==
  ASSUME WorkforceInv, NEW c \in Officers, IssueLoad(c)
  PROVE  WorkforceInv'
<1>1. PICK e \in Staff, kind \in PaperKinds :
        Turns(c, [step |-> "issue", who |-> e, kind |-> kind, number |-> NextPaper(kind),
                  salary |-> staff[e].salary])
  BY DEF IssueLoad
<1>2. WorkforceTyped /\ OneByOne /\ UNCHANGED <<bureau, fileVars, leaveVars, payVars, papers>>
  BY DEF WorkforceInv, IssueLoad
<1>3. PICK n, salary : n = NextPaper(kind) /\ salary = staff[e].salary
  OBVIOUS
<1>4. n \in Nat /\ salary \in Nat
  BY <1>2, <1>3, NextPaperNat DEF WorkforceTyped, StaffRow
<1> DEFINE t == [step |-> "issue", who |-> e, kind |-> kind, number |-> n, salary |-> salary]
<1>5. ChoreOK(t) /\ t.step = "issue"
  BY <1>4 DEF ChoreOK, ChoreRows
<1>6. Turns(c, t)
  BY <1>1, <1>3
<1> HIDE DEF t
<1>7. Knows(t, bureau, staff', leaves', used')
  BY <1>5 DEF Knows
<1>8. Alone(c)
  BY AcceptsAlone DEF IssueLoad
<1>9. /\ chore' = [d \in Officers |-> chore'[d]] /\ \A d \in Officers : ChoreOK(chore'[d])
      /\ OneByOne' /\ Knowing'
  BY <1>2, <1>5, <1>6, <1>7, <1>8, TurnTaken
<1> QED BY <1>2, <1>9, LookStep

LEMMA IssueSaveFine ==
  ASSUME WorkforceInv, NEW c \in Officers, IssueSave(c)
  PROVE  WorkforceInv'
<1>1. PICK t, r : /\ t = chore[c]
                  /\ r = [kind |-> t.kind, number |-> t.number, who |-> t.who, salary |-> t.salary]
  OBVIOUS
<1>2. /\ WorkforceTyped /\ OneByOne /\ UNCHANGED <<bureau, fileVars, leaveVars, payVars>>
      /\ t.step = "issue" /\ Turns(c, AtEase)
      /\ papers' = IF PaperFree(t.kind, t.number) THEN Append(papers, r) ELSE papers
  BY <1>1 DEF WorkforceInv, IssueSave, Doing, Done
<1>3. r \in PaperRow /\ r.kind = t.kind /\ r.number = t.number
  <2>1. ChoreOK(t)
    BY <1>1, <1>2 DEF WorkforceTyped
  <2>2. t.who \in Staff /\ t.kind \in PaperKinds /\ t.number \in Nat /\ t.salary \in Nat
    BY <1>1, <1>2, <2>1, ChoreShape
  <2> QED BY <1>1, <2>2 DEF PaperRow
<1>4. papers \in Seq(PaperRow) /\ NumbersOnce
  BY <1>2 DEF WorkforceTyped, WorkforceInv
<1>5. papers' \in Seq(PaperRow) /\ NumbersOnce'
  <2>1. CASE PaperFree(t.kind, t.number)
    <3>1. papers' = Append(papers, r)
      BY <1>2, <2>1
    <3>2. /\ papers' \in Seq(PaperRow) /\ DOMAIN papers' = 1..(Len(papers) + 1)
          /\ papers'[Len(papers) + 1] = r /\ \A k \in 1..Len(papers) : papers'[k] = papers[k]
          /\ Len(papers) \in Nat /\ DOMAIN papers = 1..Len(papers)
      BY <1>3, <1>4, <3>1
    <3>3. \A k \in 1..Len(papers) : ~(papers[k].kind = r.kind /\ papers[k].number = r.number)
      BY <1>3, <2>1, <3>2 DEF PaperFree, Numbered
    <3>4. NumbersOnce'
      <4> SUFFICES ASSUME NEW n \in DOMAIN papers', NEW k \in DOMAIN papers',
                          papers'[n].kind = papers'[k].kind, papers'[n].number = papers'[k].number
                   PROVE  n = k
        BY DEF NumbersOnce
      <4>1. CASE n \in 1..Len(papers) /\ k \in 1..Len(papers)
        BY <1>4, <3>2, <4>1 DEF NumbersOnce
      <4>2. CASE n = Len(papers) + 1
        BY <3>2, <3>3, <4>2
      <4>3. CASE k = Len(papers) + 1
        BY <3>2, <3>3, <4>3
      <4> QED BY <3>2, <4>1, <4>2, <4>3
    <3> QED BY <3>2, <3>4
  <2>2. CASE ~PaperFree(t.kind, t.number)
    <3>1. papers' = papers
      BY <1>2, <2>2
    <3> QED BY <1>4, <3>1, PapersKept
  <2> QED BY <2>1, <2>2
<1>6. Alone(c)
  <2>1. chore[c] # AtEase
    BY <1>1, <1>2 DEF AtEase
  <2> QED BY <1>2, <2>1, BusyAlone
<1>7. Knows(AtEase, bureau, staff', leaves', used') /\ ChoreOK(AtEase)
  BY DEF Knows, AtEase, ChoreOK
<1>8. /\ chore' = [d \in Officers |-> chore'[d]] /\ \A d \in Officers : ChoreOK(chore'[d])
      /\ OneByOne' /\ Knowing'
  BY <1>2, <1>6, <1>7, TurnTaken
<1>9. granted' \in [Staff -> [Months -> Nat]] /\ lent' \in [Staff -> LoanRow]
  BY <1>2 DEF WorkforceTyped, payVars
<1> QED BY <1>2, <1>5, <1>8, <1>9, OtherStep

LEMMA WorkforceStart ==
  ASSUME WorkforceInit
  PROVE  WorkforceInv
<1>1. WorkforceTyped
  <2>1. Unemployed \in StaffRow /\ NoLoan \in LoanRow /\ ChoreOK(AtEase)
    BY DEF Unemployed, StaffRow, NoLoan, LoanRow, ChoreOK
  <2> QED BY <2>1 DEF WorkforceInit, WorkforceTyped
<1>2. \A c \in Officers : chore[c] = AtEase
  BY DEF WorkforceInit
<1>3. OneByOne
  BY <1>2 DEF OneByOne
<1>4. Knowing
  <2>1. Knows(AtEase, bureau, staff, leaves, used)
    BY DEF Knows, AtEase
  <2> QED BY <1>2, <2>1 DEF Knowing
<1>5. Following
  BY DEF WorkforceInit, Following, Unemployed
<1>6. LeavesApart
  BY DEF WorkforceInit, LeavesApart, Standing, NoLeave
<1>7. LeavesCounted
  <2>1. \A e, kinds : DaysIn(leaves, e, kinds) = 0
    <3> TAKE e, kinds
    <3>1. ApprovedFor(leaves, e, kinds) = {}
      BY DEF WorkforceInit, ApprovedFor, NoLeave
    <3> QED BY <3>1, SumEmpty DEF DaysIn
  <2>2. AllCounted(leaves, used, bureau)
    <3>1. \A e \in Staff : used[e] = 0
      BY DEF WorkforceInit
    <3>2. Entitled \in Nat
      BY Constants
    <3> QED BY <2>1, <3>1, <3>2 DEF AllCounted, PaidDays
  <2> QED BY <2>2, CountedStated
<1>8. NumbersOnce
  BY DEF WorkforceInit, NumbersOnce
<1> QED BY <1>1, <1>3, <1>4, <1>5, <1>6, <1>7, <1>8 DEF WorkforceInv

LEMMA WorkforceStep ==
  ASSUME WorkforceInv, [WorkforceNext]_workforceVars
  PROVE  WorkforceInv'
<1>1. CASE UNCHANGED <<bureau, fileVars, leaveVars, payVars, papers, chore>>
  <2>1. /\ chore' = [d \in Officers |-> chore'[d]] /\ \A d \in Officers : ChoreOK(chore'[d])
        /\ OneByOne' /\ Knowing'
    BY <1>1 DEF WorkforceInv, WorkforceTyped, OneByOne, Knowing, fileVars, leaveVars
  <2> QED BY <1>1, <2>1, LookStep
<1>2. CASE Tomorrow
  BY <1>1, <1>2 DEF Tomorrow
<1>3. CASE UNCHANGED workforceVars
  BY <1>1, <1>3 DEF workforceVars
<1>4. ASSUME NEW c \in Officers, OfficerStep(c)
      PROVE  WorkforceInv'
  <2>1. CASE Hire(c) \/ EditStaffLoad(c) \/ EditStaffSave(c) \/ ReviseSalary(c)
             \/ ChangeRevision(c) \/ ReadHistory(c)
    BY <2>1, HireFine, EditStaffLoadFine, EditStaffSaveFine, ReviseSalaryFine, ChangeRevisionFine,
       ReadHistoryFine
  <2>2. CASE AskLeave(c) \/ EditLeave(c) \/ LeaveSave(c) \/ DecideLoad(c) \/ DecideSave(c)
             \/ DeleteLeave(c)
    BY <2>2, AskLeaveFine, EditLeaveFine, LeaveSaveFine, DecideLoadFine, DecideSaveFine,
       DeleteLeaveFine
  <2>3. CASE GrantAdvance(c) \/ GrantLoan(c) \/ IssueLoad(c) \/ IssueSave(c)
    BY <2>3, GrantAdvanceFine, GrantLoanFine, IssueLoadFine, IssueSaveFine
  <2> QED BY <1>4, <2>1, <2>2, <2>3 DEF OfficerStep
<1> QED BY <1>2, <1>3, <1>4 DEF WorkforceNext

LEMMA WorkforceInvariant == WorkforceSpec => []WorkforceInv
<1>1. WorkforceInit => WorkforceInv
  BY WorkforceStart
<1>2. WorkforceInv /\ [WorkforceNext]_workforceVars => WorkforceInv'
  BY WorkforceStep
<1> QED BY <1>1, <1>2, PTL DEF WorkforceSpec

----
(* What the payroll page shows. *)

LEMMA LastOpenIs ==
  ASSUME NEW h, h \in Seq(RevisionRow), NEW n, LastOpen(h, n)
  PROVE  Max({k \in DOMAIN h : h[k].open}) = n
<1> DEFINE S == {k \in DOMAIN h : h[k].open}
<1>1. n \in S /\ (\A k \in S : k \in Nat) /\ \A k \in S : n >= k
  BY DEF LastOpen
<1> HIDE DEF S
<1>2. Max(S) \in S /\ \A k \in S : Max(S) >= k
  BY <1>1 DEF Max
<1>3. Max(S) >= n /\ n >= Max(S) /\ Max(S) \in Nat /\ n \in Nat
  BY <1>1, <1>2
<1>4. Max(S) = n
  BY <1>3
<1> QED BY <1>4 DEF S

LEMMA Remaining ==
  ASSUME NEW D, IsFiniteSet(D), NEW T, T \subseteq D
  PROVE  /\ IsFiniteSet(T) /\ Cardinality(T) \in Nat /\ Cardinality(D \ T) \in Nat
         /\ Cardinality(D \ T) = Cardinality(D) - Cardinality(T)
<1>1. D \intersect T = T
  OBVIOUS
<1>2. IsFiniteSet(D \ T) /\ Cardinality(D \ T) = Cardinality(D) - Cardinality(D \intersect T)
  BY FS_Difference
<1>3. IsFiniteSet(T)
  BY FS_Subset
<1> QED BY <1>1, <1>2, <1>3, FS_CardinalityType

\* Spans that lie apart take their days out of a period.
\* The spans from a[r] to b[r], of g[r] days, lie apart within s..t.
SpansApart(R, a, b, g, s, t) ==
  /\ s \in Int /\ t \in Int /\ s <= t
  /\ \A r \in R : /\ a[r] \in Int /\ b[r] \in Int /\ s <= a[r] /\ a[r] <= b[r] /\ b[r] <= t
                  /\ g[r] = b[r] - a[r] + 1
  /\ \A q, r \in R : q # r => b[q] < a[r] \/ b[r] < a[q]
DaysOutside(R, a, b, s, t) == {d \in s..t : \A r \in R : ~(a[r] <= d /\ d <= b[r])}

LEMMA DaysLeft ==
  ASSUME NEW R, IsFiniteSet(R), NEW a, NEW b, NEW g, NEW s, NEW t, SpansApart(R, a, b, g, s, t)
  PROVE  t - s + 1 - SumFunctionOnSet(g, R) = Cardinality(DaysOutside(R, a, b, s, t))
<1>0. /\ s \in Int /\ t \in Int /\ s <= t
      /\ \A r \in R : /\ a[r] \in Int /\ b[r] \in Int /\ s <= a[r] /\ a[r] <= b[r] /\ b[r] <= t
                      /\ g[r] = b[r] - a[r] + 1
      /\ \A q, r \in R : q # r => b[q] < a[r] \/ b[r] < a[q]
  BY DEF SpansApart
<1> USE <1>0
<1> DEFINE one == [d \in Int |-> 1]
           A == [r \in R |-> a[r]..b[r]]
           taken == {d \in s..t : \E r \in R : d \in A[r]}
           free == {d \in s..t : \A r \in R : ~(a[r] <= d /\ d <= b[r])}
<1>1. ASSUME NEW r \in R
      PROVE  /\ A[r] = a[r]..b[r] /\ IsFiniteSet(A[r])
             /\ \A x \in A[r] : one[x] = 1
             /\ g[r] = Cardinality(A[r])
  <2>1. a[r] \in Int /\ b[r] \in Int /\ a[r] <= b[r] /\ g[r] = b[r] - a[r] + 1
    OBVIOUS
  <2>2. IsFiniteSet(a[r]..b[r]) /\ Cardinality(a[r]..b[r]) = b[r] - a[r] + 1
    BY <2>1, FS_Interval
  <2>3. A[r] = a[r]..b[r]
    OBVIOUS
  <2>4. \A x \in A[r] : one[x] = 1
    BY <2>1, <2>3
  <2> QED BY <2>1, <2>2, <2>3, <2>4
<1>2. \A r \in R : g[r] = SumFunctionOnSet(one, A[r])
  <2> TAKE r \in R
  <2> DEFINE I == A[r]
  <2>1. IsFiniteSet(I) /\ (\A x \in I : one[x] = 1) /\ g[r] = Cardinality(I)
    BY <1>1
  <2> HIDE DEF I, one
  <2>2. SumFunctionOnSet(one, I) = Cardinality(I)
    BY <2>1, SumOnes
  <2> QED BY <2>1, <2>2 DEF I
<1>3. \A q, r \in R : q # r => A[q] \intersect A[r] = {}
  <2> SUFFICES ASSUME NEW q \in R, NEW r \in R, q # r, NEW d \in A[q] \intersect A[r]
               PROVE  FALSE
    OBVIOUS
  <2>1. d \in a[q]..b[q] /\ d \in a[r]..b[r]
    BY <1>1
  <2>2. b[q] < a[r] \/ b[r] < a[q]
    OBVIOUS
  <2> QED BY <2>1, <2>2
<1>4. \A x : x \in taken <=> \E r \in R : x \in A[r]
  <2>1. ASSUME NEW x, NEW r \in R, x \in A[r]
        PROVE  x \in s..t
    <3>1. x \in a[r]..b[r]
      BY <1>1, <2>1
    <3> QED BY <3>1
  <2> QED BY <2>1
<1>5. \A x \in taken : one[x] = 1
  OBVIOUS
<1>6. s..t \ taken = free
  <2>1. \A r \in R, d \in s..t : d \in A[r] <=> (a[r] <= d /\ d <= b[r])
    BY <1>1
  <2> QED BY <2>1
<1>7. taken \subseteq s..t /\ DaysOutside(R, a, b, s, t) = free
  BY DEF DaysOutside
<1> HIDE DEF one, A, taken, free
<1>8. \A r \in R : /\ IsFiniteSet(A[r]) /\ (\A x \in A[r] : one[x] \in Int)
                   /\ g[r] = SumFunctionOnSet(one, A[r])
  <2> TAKE r \in R
  <2>1. IsFiniteSet(A[r]) /\ \A x \in A[r] : one[x] = 1
    BY <1>1
  <2>2. \A x \in A[r] : one[x] \in Int
    BY <2>1
  <2> QED BY <1>2, <2>1, <2>2
<1>9. SumFunctionOnSet(g, R) = SumFunctionOnSet(one, taken)
  BY <1>3, <1>4, <1>8, SumCover
<1>10. PICK D : D = s..t
  OBVIOUS
<1>11. IsFiniteSet(D) /\ Cardinality(D) = t - s + 1
  <2>1. IsFiniteSet(s..t) /\ Cardinality(s..t) = IF s > t THEN 0 ELSE t - s + 1
    BY FS_Interval
  <2> QED BY <1>10, <2>1
<1>12. taken \subseteq D /\ D \ taken = free
  BY <1>6, <1>7, <1>10
<1>13. /\ IsFiniteSet(taken) /\ Cardinality(taken) \in Nat /\ Cardinality(free) \in Nat
       /\ Cardinality(free) = Cardinality(D) - Cardinality(taken)
  BY <1>11, <1>12, Remaining
<1>14. SumFunctionOnSet(g, R) = Cardinality(taken)
  <2>1. SumFunctionOnSet(one, taken) = Cardinality(taken)
    BY <1>5, <1>13, SumOnes
  <2> QED BY <1>9, <2>1
<1>15. t - s + 1 - SumFunctionOnSet(g, R) = Cardinality(free)
  BY <1>11, <1>13, <1>14
<1> QED BY <1>7, <1>13, <1>15

LEMMA MinOfThree ==
  ASSUME NEW x \in Int, NEW y \in Int, NEW z \in Int
  PROVE  Min({x, y, z}) \in Int /\ Min({x, y, z}) <= x /\ Min({x, y, z}) <= y /\ Min({x, y, z}) <= z
<1>1. \E m \in {x, y, z} : \A k \in {x, y, z} : m <= k
  <2>1. CASE x <= y /\ x <= z
    BY <2>1
  <2>2. CASE y <= x /\ y <= z
    BY <2>2
  <2>3. CASE z <= x /\ z <= y
    BY <2>3
  <2> QED BY <2>1, <2>2, <2>3
<1>2. Min({x, y, z}) \in {x, y, z} /\ \A k \in {x, y, z} : Min({x, y, z}) <= k
  BY <1>1 DEF Min
<1> QED BY <1>2

\* The leave that UnpaidDays adds up, and its days in the period.
Missed(e, p) ==
  {l \in LeaveRows : /\ leaves[l].status = "APPROVED" /\ leaves[l].kind = "unpaid"
                     /\ leaves[l].who = e /\ leaves[l].from <= LastDay(p)
                     /\ leaves[l].to >= EmploymentStart(e, p)}
FirstMissed(e, p) == [l \in LeaveRows |-> Max({leaves[l].from, EmploymentStart(e, p)})]
LastMissed(e, p) == [l \in LeaveRows |-> Min({leaves[l].to, LastDay(p)})]
MissedDays(e, p) == [l \in LeaveRows |-> Min({leaves[l].to, LastDay(p)})
                                       - Max({leaves[l].from, EmploymentStart(e, p)}) + 1]

LEMMA Starts ==
  ASSUME WorkforceTyped, NEW p \in Months, NEW e \in Staff
  PROVE  /\ staff[e].joined \in Nat /\ EmploymentStart(e, p) \in Nat
         /\ EmploymentStart(e, p) = IF FirstDay(p) <= staff[e].joined THEN staff[e].joined ELSE FirstDay(p)
<1>1. staff[e].joined \in Nat /\ FirstDay(p) \in Nat
  BY Constants DEF WorkforceTyped, StaffRow
<1> QED BY <1>1, MaxPair DEF EmploymentStart

LEMMA MissedTyped ==
  ASSUME WorkforceTyped, NEW p \in Months, NEW e \in Staff
  PROVE  /\ IsFiniteSet(Missed(e, p)) /\ Missed(e, p) \subseteq LeaveRows
         /\ UnpaidDays(e, p) = SumFunctionOnSet(MissedDays(e, p), Missed(e, p))
         /\ UnpaidDays(e, p) \in Int
         /\ \A l \in Missed(e, p) :
              LET a == FirstMissed(e, p)[l]
                  b == LastMissed(e, p)[l]
                  s == EmploymentStart(e, p)
                  t == LastDay(p)
              IN /\ leaves[l] \in Leave
                 /\ a \in Int /\ b \in Int /\ MissedDays(e, p)[l] = b - a + 1
                 /\ a = (IF leaves[l].from <= s THEN s ELSE leaves[l].from)
                 /\ b = (IF leaves[l].to <= t THEN leaves[l].to ELSE t)
<1>1. Missed(e, p) \subseteq LeaveRows
  BY DEF Missed
<1>2. IsFiniteSet(Missed(e, p))
  BY <1>1, Constants, FS_Subset
<1>3. UnpaidDays(e, p) = SumFunctionOnSet(MissedDays(e, p), Missed(e, p))
  BY DEF UnpaidDays, MissedDays, Missed
<1>4. ASSUME NEW l \in Missed(e, p)
      PROVE  LET a == FirstMissed(e, p)[l]
                 b == LastMissed(e, p)[l]
                 s == EmploymentStart(e, p)
                 t == LastDay(p)
             IN /\ leaves[l] \in Leave
                /\ a \in Int /\ b \in Int /\ MissedDays(e, p)[l] = b - a + 1
                /\ a = (IF leaves[l].from <= s THEN s ELSE leaves[l].from)
                /\ b = (IF leaves[l].to <= t THEN leaves[l].to ELSE t)
  <2>1. l \in LeaveRows /\ leaves[l].status = "APPROVED"
    BY DEF Missed
  <2>2. leaves[l] \in Leave
    BY <2>1, LeaveFields DEF WorkforceTyped
  <2>3. leaves[l].from \in Nat /\ leaves[l].to \in Nat
    BY <2>2, LeaveFields
  <2>4. PICK s, t : s = EmploymentStart(e, p) /\ t = LastDay(p)
    OBVIOUS
  <2>5. s \in Nat /\ t \in Nat
    BY <2>4, Starts, Constants
  <2>6. Max({leaves[l].from, s}) = IF leaves[l].from <= s THEN s ELSE leaves[l].from
    BY <2>3, <2>5, MaxPair
  <2>7. Min({leaves[l].to, t}) = IF leaves[l].to <= t THEN leaves[l].to ELSE t
    BY <2>3, <2>5, MinPair
  <2>8. /\ FirstMissed(e, p)[l] = Max({leaves[l].from, s})
        /\ LastMissed(e, p)[l] = Min({leaves[l].to, t})
        /\ MissedDays(e, p)[l] = Min({leaves[l].to, t}) - Max({leaves[l].from, s}) + 1
    BY <2>1, <2>4 DEF FirstMissed, LastMissed, MissedDays
  <2> QED BY <2>2, <2>3, <2>4, <2>5, <2>6, <2>7, <2>8
<1>5. \A l \in Missed(e, p) : MissedDays(e, p)[l] \in Int
  BY <1>4
<1> QED BY <1>1, <1>2, <1>3, <1>4, <1>5, SumInt

LEMMA PayableTyped ==
  ASSUME WorkforceTyped, NEW p \in Months, NEW e \in Staff
  PROVE  PayableDays(e, p) \in Int /\ EstimatedGross(e, p) \in Int
<1>1. PICK s, t, u : s = EmploymentStart(e, p) /\ t = LastDay(p) /\ u = UnpaidDays(e, p)
  OBVIOUS
<1>2. s \in Int /\ t \in Int /\ u \in Int
  <2>1. s \in Nat
    BY <1>1, Starts
  <2>2. t \in Nat
    BY <1>1, Constants
  <2>3. u \in Int
    BY <1>1, MissedTyped
  <2> QED BY <2>1, <2>2, <2>3
<1>3. PayableDays(e, p) \in Int
  <2>1. PayableDays(e, p) = Max({0, t - s + 1 - u})
    BY <1>1 DEF PayableDays
  <2>2. PICK x : x = t - s + 1 - u
    OBVIOUS
  <2>3. x \in Int
    BY <1>2, <2>2
  <2>4. Max({0, x}) = IF 0 <= x THEN x ELSE 0
    BY <2>3, MaxPair
  <2> QED BY <2>1, <2>2, <2>3, <2>4
<1>4. staff[e].salary \in Int /\ MonthDays \in Nat \ {0}
  BY Constants DEF WorkforceTyped, StaffRow
<1>5. \A x, y \in Int, d \in Nat \ {0} : (2 * x * y + d) \div (2 * d) \in Int
  <2> TAKE x, y \in Int, d \in Nat \ {0}
  <2>1. 2 * x * y + d \in Int /\ 2 * d \in Nat \ {0}
    OBVIOUS
  <2> QED BY <2>1
<1> QED BY <1>3, <1>4, <1>5 DEF EstimatedGross

LEMMA DaysWorked ==
  ASSUME WorkforceTyped, AllApart(leaves), NEW p \in Months, NEW e \in Staff,
         staff[e].joined <= LastDay(p)
  PROVE  PayableDays(e, p) =
           Cardinality({d \in FirstDay(p)..LastDay(p) :
             /\ staff[e].joined <= d
             /\ \A l \in LeaveRows :
                  ~ /\ leaves[l].status = "APPROVED" /\ leaves[l].kind = "unpaid"
                    /\ leaves[l].who = e /\ d \in leaves[l].from..leaves[l].to})
<1>1. PICK s, t, R, a, b, g :
        /\ s = EmploymentStart(e, p) /\ t = LastDay(p) /\ R = Missed(e, p)
        /\ a = FirstMissed(e, p) /\ b = LastMissed(e, p) /\ g = MissedDays(e, p)
  OBVIOUS
<1>2. /\ s \in Nat /\ t \in Nat /\ FirstDay(p) \in Nat /\ staff[e].joined \in Nat
      /\ s = IF FirstDay(p) <= staff[e].joined THEN staff[e].joined ELSE FirstDay(p)
      /\ FirstDay(p) <= t
  BY <1>1, Starts, Constants
<1>3. s <= t
  BY <1>1, <1>2
<1>4. IsFiniteSet(R) /\ R \subseteq LeaveRows /\ UnpaidDays(e, p) = SumFunctionOnSet(g, R)
  BY <1>1, MissedTyped
<1>5. ASSUME NEW r \in R
      PROVE  /\ leaves[r].from \in Nat /\ leaves[r].to \in Nat /\ leaves[r].from <= leaves[r].to
             /\ leaves[r].from <= t /\ leaves[r].to >= s
             /\ Stands(leaves[r]) /\ leaves[r].who = e
             /\ leaves[r].status = "APPROVED" /\ leaves[r].kind = "unpaid"
             /\ a[r] = (IF leaves[r].from <= s THEN s ELSE leaves[r].from)
             /\ b[r] = (IF leaves[r].to <= t THEN leaves[r].to ELSE t)
             /\ g[r] = b[r] - a[r] + 1
  <2>1. leaves[r] \in Leave /\ g[r] = b[r] - a[r] + 1
        /\ a[r] = (IF leaves[r].from <= s THEN s ELSE leaves[r].from)
        /\ b[r] = (IF leaves[r].to <= t THEN leaves[r].to ELSE t)
    BY <1>1, MissedTyped
  <2>2. /\ leaves[r].status = "APPROVED" /\ leaves[r].kind = "unpaid" /\ leaves[r].who = e
        /\ leaves[r].from <= t /\ leaves[r].to >= s
    BY <1>1 DEF Missed
  <2>3. leaves[r].from \in Nat /\ leaves[r].to \in Nat /\ leaves[r].from <= leaves[r].to
    BY <2>1, LeaveFields
  <2> QED BY <2>1, <2>2, <2>3 DEF Stands
<1>6. \A r \in R : /\ a[r] \in Int /\ b[r] \in Int /\ s <= a[r] /\ a[r] <= b[r] /\ b[r] <= t
                   /\ g[r] = b[r] - a[r] + 1
  <2> TAKE r \in R
  <2>1. PICK x, y : x = leaves[r].from /\ y = leaves[r].to
    OBVIOUS
  <2>2. /\ x \in Nat /\ y \in Nat /\ x <= y /\ x <= t /\ y >= s
        /\ a[r] = (IF x <= s THEN s ELSE x) /\ b[r] = (IF y <= t THEN y ELSE t)
        /\ g[r] = b[r] - a[r] + 1
    BY <1>5, <2>1
  <2> QED BY <1>2, <1>3, <2>2
<1>7. \A q, r \in R : q # r => b[q] < a[r] \/ b[r] < a[q]
  <2> SUFFICES ASSUME NEW q \in R, NEW r \in R, q # r
               PROVE  b[q] < a[r] \/ b[r] < a[q]
    OBVIOUS
  <2>1. leaves[q].to < leaves[r].from \/ leaves[r].to < leaves[q].from
    BY <1>4, <1>5 DEF AllApart
  <2>2. PICK x, y, v, w : x = leaves[q].from /\ y = leaves[q].to /\ v = leaves[r].from /\ w = leaves[r].to
    OBVIOUS
  <2>3. /\ x \in Nat /\ y \in Nat /\ v \in Nat /\ w \in Nat
        /\ x <= t /\ y >= s /\ v <= t /\ w >= s
        /\ a[q] = (IF x <= s THEN s ELSE x) /\ b[q] = (IF y <= t THEN y ELSE t)
        /\ a[r] = (IF v <= s THEN s ELSE v) /\ b[r] = (IF w <= t THEN w ELSE t)
        /\ y < v \/ w < x
    BY <1>5, <2>1, <2>2
  <2> QED BY <1>2, <1>3, <2>3
<1>8. s \in Int /\ t \in Int
  BY <1>2
<1> DEFINE free == {d \in s..t : \A r \in R : ~(a[r] <= d /\ d <= b[r])}
           worked == {d \in FirstDay(p)..LastDay(p) :
                       /\ staff[e].joined <= d
                       /\ \A l \in LeaveRows :
                            ~ /\ leaves[l].status = "APPROVED" /\ leaves[l].kind = "unpaid"
                              /\ leaves[l].who = e /\ d \in leaves[l].from..leaves[l].to}
<1>9. Cardinality(free) \in Nat /\ t - s + 1 - SumFunctionOnSet(g, R) = Cardinality(free)
  <2>1. free = DaysOutside(R, a, b, s, t)
    BY DEF DaysOutside
  <2>2. IsFiniteSet(R)
    BY <1>4
  <2> HIDE DEF free
  <2>3. SpansApart(R, a, b, g, s, t)
    BY <1>3, <1>6, <1>7, <1>8 DEF SpansApart
  <2>4. t - s + 1 - SumFunctionOnSet(g, R) = Cardinality(DaysOutside(R, a, b, s, t))
    BY <2>2, <2>3, DaysLeft
  <2>5. IsFiniteSet(s..t)
    BY <1>8, FS_Interval
  <2>6. DaysOutside(R, a, b, s, t) \subseteq s..t
    BY DEF DaysOutside
  <2>7. Cardinality(DaysOutside(R, a, b, s, t)) \in Nat
    BY <2>5, <2>6, FS_Subset, FS_CardinalityType
  <2> QED BY <2>1, <2>4, <2>7
<1>10. \A d \in s..t, l \in LeaveRows :
         (/\ leaves[l].status = "APPROVED" /\ leaves[l].kind = "unpaid"
          /\ leaves[l].who = e /\ d \in leaves[l].from..leaves[l].to)
         <=> (l \in R /\ a[l] <= d /\ d <= b[l])
  <2> TAKE d \in s..t, l \in LeaveRows
  <2>0. d \in Int /\ s <= d /\ d <= t
    BY <1>8
  <2>1. ASSUME leaves[l].status = "APPROVED", leaves[l].kind = "unpaid", leaves[l].who = e,
               d \in leaves[l].from..leaves[l].to
        PROVE  l \in R /\ a[l] <= d /\ d <= b[l]
    <3>1. leaves[l] \in Leave
      BY <2>1, LeaveFields DEF WorkforceTyped
    <3>2. leaves[l].from \in Nat /\ leaves[l].to \in Nat
      BY <3>1, LeaveFields
    <3>3. leaves[l].from <= d /\ d <= leaves[l].to
      BY <2>1, <3>2
    <3>4. leaves[l].from <= t /\ leaves[l].to >= s
      BY <1>2, <2>0, <3>2, <3>3
    <3>5. l \in R
      BY <1>1, <2>1, <3>4 DEF Missed
    <3> QED BY <1>2, <1>5, <2>0, <3>2, <3>3, <3>5
  <2>2. ASSUME l \in R, a[l] <= d, d <= b[l]
        PROVE  /\ leaves[l].status = "APPROVED" /\ leaves[l].kind = "unpaid"
               /\ leaves[l].who = e /\ d \in leaves[l].from..leaves[l].to
    <3>1. PICK x, y : x = leaves[l].from /\ y = leaves[l].to
      OBVIOUS
    <3>2. /\ x \in Nat /\ y \in Nat
          /\ a[l] = (IF x <= s THEN s ELSE x) /\ b[l] = (IF y <= t THEN y ELSE t)
      BY <1>5, <2>2, <3>1
    <3>3. x <= d /\ d <= y
      BY <1>2, <2>0, <2>2, <3>2
    <3>4. d \in x..y
      BY <2>0, <3>2, <3>3
    <3> QED BY <1>5, <2>2, <3>1, <3>4
  <2> QED BY <2>1, <2>2
<1>11. worked = free
  <2>1. \A d : d \in s..t <=> d \in FirstDay(p)..LastDay(p) /\ staff[e].joined <= d
    BY <1>1, <1>2
  <2>2. \A d \in s..t : d \in free <=> \A r \in R : ~(a[r] <= d /\ d <= b[r])
    OBVIOUS
  <2>3. \A d \in s..t : (\A r \in R : ~(a[r] <= d /\ d <= b[r])) <=>
           \A l \in LeaveRows :
             ~ /\ leaves[l].status = "APPROVED" /\ leaves[l].kind = "unpaid"
               /\ leaves[l].who = e /\ d \in leaves[l].from..leaves[l].to
    BY <1>4, <1>10
  <2> QED BY <2>1, <2>2, <2>3
<1>12. PayableDays(e, p) = Cardinality(free)
  <2>1. PayableDays(e, p) = Max({0, t - s + 1 - SumFunctionOnSet(g, R)})
    BY <1>1, <1>4 DEF PayableDays
  <2>2. PICK n : n = Cardinality(free)
    OBVIOUS
  <2> HIDE DEF free
  <2>3. n \in Nat /\ PayableDays(e, p) = Max({0, n})
    BY <1>9, <2>1, <2>2
  <2>4. Max({0, n}) = IF 0 <= n THEN n ELSE 0
    BY <2>3, MaxPair
  <2> QED BY <2>2, <2>3, <2>4
<1> QED BY <1>11, <1>12


LEMMA EstimateAdds ==
  ASSUME WorkforceTyped, NEW p \in Months, NEW e \in Staff
  PROVE  Estimate(e, p).gross = Estimate(e, p).advance + Estimate(e, p).loan + Estimate(e, p).balance
<1>1. PICK gross : gross = EstimatedGross(e, p)
  OBVIOUS
<1>2. PICK advance : advance = Min({granted[e][p], gross})
  OBVIOUS
<1>3. PICK loan : loan = IF lent[e].start \notin 1..p THEN 0
                         ELSE Min({lent[e].installment, lent[e].remaining, gross - advance})
  OBVIOUS
<1>4. PICK balance : balance = Max({0, gross - advance - loan})
  OBVIOUS
<1>5. Estimate(e, p) = [gross |-> gross, advance |-> advance, loan |-> loan, balance |-> balance]
  BY <1>1, <1>2, <1>3, <1>4 DEF Estimate
<1>6. gross \in Int
  BY <1>1, PayableTyped
<1>7. advance \in Int /\ advance <= gross
  <2>1. granted[e][p] \in Int
    BY DEF WorkforceTyped
  <2> QED BY <1>2, <1>6, <2>1, MinPair
<1>8. loan \in Int /\ loan <= gross - advance
  <2>1. lent[e].installment \in Int /\ lent[e].remaining \in Int
    BY DEF WorkforceTyped, LoanRow
  <2>2. CASE lent[e].start \notin 1..p
    BY <1>3, <1>6, <1>7, <2>2
  <2>3. CASE lent[e].start \in 1..p
    <3>1. PICK room : room = gross - advance
      OBVIOUS
    <3>2. room \in Int
      BY <1>6, <1>7, <3>1
    <3>3. loan = Min({lent[e].installment, lent[e].remaining, room})
      BY <1>3, <2>3, <3>1
    <3> QED BY <2>1, <3>1, <3>2, <3>3, MinOfThree
  <2> QED BY <2>2, <2>3
<1>9. balance = gross - advance - loan
  <2>1. gross - advance - loan \in Int /\ 0 <= gross - advance - loan
    BY <1>6, <1>7, <1>8
  <2> QED BY <1>4, <2>1, MaxPair
<1> QED BY <1>5, <1>6, <1>7, <1>8, <1>9

LEMMA FollowingFollows ==
  ASSUME WorkforceTyped, Following
  PROVE  SalaryFollows
<1> SUFFICES ASSUME ~bureau.overlap, Never({"change_revision"}), NEW e \in Staff, staff[e].row
             PROVE  staff[e].salary =
                      history[e][Max({n \in DOMAIN history[e] : history[e][n].open})].salary
  BY DEF SalaryFollows
<1>1. PICK h : h = history[e]
  OBVIOUS
<1>2. h \in Seq(RevisionRow)
  BY <1>1 DEF WorkforceTyped
<1>3. PICK n : LastOpen(h, n) /\ staff[e].salary = h[n].salary
  BY <1>1 DEF Following, Followed
<1>4. Max({k \in DOMAIN h : h[k].open}) = n
  BY <1>2, <1>3, LastOpenIs
<1> QED BY <1>1, <1>3, <1>4

LEMMA PayrollPageAdds ==
  ASSUME WorkforceTyped, LeavesApart
  PROVE  PreviewAdds
<1> SUFFICES ASSUME NEW p \in Months, NEW e \in Offered(p)
             PROVE  /\ e \in Accepted(p)
                    /\ ~bureau.overlap /\ Never({"unnamed", "write_status"}) =>
                         PayableDays(e, p) =
                           Cardinality({d \in FirstDay(p)..LastDay(p) :
                             /\ staff[e].joined <= d
                             /\ \A l \in LeaveRows :
                                  ~ /\ leaves[l].status = "APPROVED" /\ leaves[l].kind = "unpaid"
                                    /\ leaves[l].who = e /\ d \in leaves[l].from..leaves[l].to})
                    /\ Estimate(e, p).gross =
                         Estimate(e, p).advance + Estimate(e, p).loan + Estimate(e, p).balance
  BY DEF PreviewAdds
<1>1. e \in Staff /\ e \in Accepted(p) /\ staff[e].joined <= LastDay(p)
  BY DEF Offered, Accepted
<1>2. ASSUME ~bureau.overlap, Never({"unnamed", "write_status"})
      PROVE  AllApart(leaves)
  BY <1>2, ApartStated
<1>3. ASSUME ~bureau.overlap, Never({"unnamed", "write_status"})
      PROVE  PayableDays(e, p) =
               Cardinality({d \in FirstDay(p)..LastDay(p) :
                 /\ staff[e].joined <= d
                 /\ \A l \in LeaveRows :
                      ~ /\ leaves[l].status = "APPROVED" /\ leaves[l].kind = "unpaid"
                        /\ leaves[l].who = e /\ d \in leaves[l].from..leaves[l].to})
  <2>1. AllApart(leaves)
    BY <1>2, <1>3
  <2> QED BY <1>1, <2>1, DaysWorked
<1>4. Estimate(e, p).gross = Estimate(e, p).advance + Estimate(e, p).loan + Estimate(e, p).balance
  BY <1>1, EstimateAdds
<1> QED BY <1>1, <1>3, <1>4

\* Salaries follow their history, standing leave of an employee does not overlap and is
\* counted in the balance, the payroll page shows the days worked and an estimate that adds
\* up, and a number names one paper, for any people, rows of leave, days and salaries.
THEOREM OfficeKept == WorkforceSpec => []WorkforceSound
<1>1. WorkforceInv => WorkforceSound
  BY FollowingFollows, PayrollPageAdds DEF WorkforceInv, WorkforceSound
<1> QED BY <1>1, WorkforceInvariant, PTL
=============================================================================
