----------------------------- MODULE MCOffices -----------------------------
(***************************************************************************)
(* Instances of the offices of one branch for TLC: its stock pages and its *)
(* recovery centre, or the personnel office that payroll reads.  The desk  *)
(* and the bureau that are chosen at the start say which of the two works  *)
(* in a behaviour: the other one is closed.                                *)
(***************************************************************************)
EXTENDS Recovery, Workforce, TLC

CONSTANTS w1, w2, lamp, fan, bulb, red, rack, bay, ali, sara, l1, l2

ClerkSymmetry == Permutations({w1, w2})

\* A line with a variant and a barcode, and one with neither and no price.
MCWorkbook ==
  lamp :> [kinds |-> {red}, quantity |-> 2, price |-> 21, barcode |-> TRUE]
  @@ fan :> [kinds |-> {}, quantity |-> 1, price |-> 0, barcode |-> FALSE]

ClosedDesk == [kinds |-> {}, overlap |-> FALSE, articles |-> {}, entries |-> {}]
Desk(kinds, overlap, articles) ==
  [ClosedDesk EXCEPT !.kinds = kinds, !.overlap = overlap, !.articles = articles]
Centre(kinds, overlap, rows) ==
  [ClosedDesk EXCEPT !.kinds = kinds, !.overlap = overlap, !.entries = rows]

\* Rows that are deleted: two customers of one branch with the same name, a customer of
\* another branch with the key of the first, an employee and a supplier.
Deletable == {"ann", "anna", "far", "emp", "sup"}
MCModelOf == [e \in Deletable |->
  CASE e = "emp" -> "employee" [] e = "sup" -> "supplier" [] OTHER -> "customer"]
MCDatabaseOf == [e \in Deletable |->
  CASE e = "emp" -> "default" [] e = "sup" -> "tenant" [] e = "far" -> "other branch"
    [] OTHER -> "branch"]
MCKeyNumber == [e \in Deletable |-> IF e = "anna" THEN 2 ELSE 1]
MCNameOf == [e \in Deletable |-> IF e \in {"ann", "anna"} THEN "A" ELSE e]

MCDesks == UNION {
  {ClosedDesk},
  {Desk({"create", "edit", "adjust"}, FALSE, {bulb})},
  {Desk({"create", "adjust"}, TRUE, {bulb})},
  {Desk({"create", "edit", "reshape"}, TRUE, {bulb})},
  {Desk({"import", "fail", "place"}, TRUE, {lamp, fan})},
  {Desk({"import", "fail", "issue", "reserve"}, FALSE, {lamp, fan})},
  {Desk({"import", "receive", "issue"}, FALSE, {lamp})},
  {Centre({"create_entry", "delete_entry"}, FALSE, {"ann", "anna"})},
  {Centre({"create_entry", "delete_entry", "restore", "purge", "crash"}, FALSE, {"ann", "anna"})},
  {Centre({"delete_entry", "restore"}, TRUE, {"ann", "emp"})},
  {Centre({"delete_entry", "purge"}, TRUE, {"ann", "emp"})},
  {Centre({"delete_entry", "restore", "purge", "cleanup"}, FALSE, {"ann", "sup", "emp"})},
  {Centre({"delete_entry", "restore", "purge"}, FALSE, {"ann", "far"})}
}

ClosedBureau == [kinds |-> {}, overlap |-> FALSE, people |-> {}, salaries |-> {}]
Bureau(kinds, overlap, people, salaries) ==
  [kinds |-> {"hire"} \union kinds, overlap |-> overlap, people |-> people, salaries |-> salaries]

MCBureaus == UNION {
  {ClosedBureau},
  {Bureau({"edit_staff", "revise", "history"}, FALSE, {ali}, {0, 2, 3})},
  {Bureau({"edit_staff", "revise", "change_revision"}, TRUE, {ali}, {3})},
  {Bureau({"ask", "edit_leave", "approve", "delete_leave"}, FALSE, {ali}, {2})},
  {Bureau({"ask", "approve", "reject"}, TRUE, {ali}, {2})},
  {Bureau({"ask", "edit_leave", "unnamed"}, FALSE, {ali}, {2})},
  {Bureau({"ask", "write_status"}, FALSE, {ali}, {2})},
  {Bureau({"ask", "approve", "override"}, FALSE, {ali}, {2})},
  {Bureau({"ask", "approve", "loan"}, FALSE, {ali}, {2})},
  {Bureau({"advance", "loan", "tomorrow"}, FALSE, {ali}, {2, 3})},
  {Bureau({"edit_staff", "issue", "tomorrow"}, TRUE, {ali}, {2})}
}

OfficesInit ==
  /\ RecoveryInit /\ WorkforceInit
  /\ desk = ClosedDesk <=> bureau # ClosedBureau

\* Bound: where adjustments overlap, a row has two movements.
Few == desk.overlap /\ "adjust" \in desk.kinds => \A k \in Keys : Len(moves[k]) <= 2

OfficesNext ==
  \/ bureau = ClosedBureau /\ OfficeNext /\ Few' /\ UNCHANGED workforceVars
  \/ desk = ClosedDesk /\ WorkforceNext /\ UNCHANGED officeVars

OfficesSpec == OfficesInit /\ [][OfficesNext]_<<officeVars, workforceVars>>
=============================================================================
