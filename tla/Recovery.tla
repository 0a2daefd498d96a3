------------------------------ MODULE Recovery ------------------------------
(***************************************************************************)
(* The recovery centre of apps/recovery, and what it recovers: customers,  *)
(* employees, suppliers and products, which live in different databases.   *)
(*                                                                         *)
(* Deleting files a RecoveryRecord first and flags the row afterwards, in  *)
(* commits of their own.  Restoring and purging run in a transaction of    *)
(* the shared database, which the rows of other databases do not share.    *)
(* A RecoveryRecord names its row by model and primary key; the database   *)
(* is looked up again, by other rules than the ones that put the row there.*)
(***************************************************************************)
EXTENDS Warehouse

CONSTANTS
  Entries,     \* rows that can be deleted
  ModelOf,     \* "customer", "employee", "supplier" or "product"
  DatabaseOf,  \* where the row lives: "default", a branch's database or "tenant"
  KeyNumber,   \* its primary key, which is unique in its database only
  NameOf,
  MaxFiles     \* bound: RecoveryRecord rows

ASSUME RecoveryAssumption ==
  /\ ModelOf \in [Entries -> {"customer", "employee", "supplier", "product"}]
  /\ DatabaseOf \in [Entries -> {"default", "branch", "other branch", "tenant"}]
  /\ IsFiniteSet(Entries) /\ MaxFiles \in Nat
  /\ \A d, e \in Entries :
       ModelOf[d] = ModelOf[e] /\ DatabaseOf[d] = DatabaseOf[e] /\ KeyNumber[d] = KeyNumber[e] => d = e
  /\ \A where \in Desks : \/ "create_entry" \in where.kinds
                          \/ \A d, e \in where.entries :
                               /\ ModelOf[d] = "customer" /\ ModelOf[e] = "customer"
                               /\ DatabaseOf[d] = DatabaseOf[e] /\ NameOf[d] = NameOf[e]
                               => d = e

VARIABLES
  entries,  \* state of each row: absent, live, deleted (flagged) or gone
  archive,  \* RecoveryRecord rows
  misled    \* history: rows changed by a request that was about another one

recoveryVars == <<entries, archive, misled>>
officeVars == <<warehouseVars, recoveryVars>>

RecoveryInit ==
  /\ WarehouseInit
  /\ entries = [e \in Entries |->
       IF \/ e \notin desk.entries
          \/ ModelOf[e] = "customer" /\ "create_entry" \in desk.kinds
       THEN "absent" ELSE "live"]
  /\ archive = <<>>
  /\ misled = {}

stockroom == <<desk, goods, variantRows, stockVars, places>>

----------------------------------------------------------------------------
(* Which row a request reaches. *)

\* The router: suppliers are served in the tenant's schema, customers in the database of
\* their branch, everything else that can be deleted in the shared one.
SavedIn(e) ==
  CASE ModelOf[e] = "customer" -> DatabaseOf[e]
    [] ModelOf[e] = "supplier" -> "tenant"
    [] OTHER -> "default"

\* Mutant: the database named in the snapshot is not looked at.
SoughtShared(file) == "default"

\* source_database_for_record: a tenant's schema is not a database it knows.
SoughtIn(file) ==
  CASE file.from # "tenant" -> file.from
    [] file.from = "tenant" /\ file.model = "supplier" -> "branch"
    [] OTHER -> "default"

There(e) == entries[e] \in {"live", "deleted"}

\* The rows with this model, primary key and database: one or none.
RowsAt(model, key, database) ==
  {e \in Entries : /\ ModelOf[e] = model /\ KeyNumber[e] = key /\ DatabaseOf[e] = database
                   /\ There(e)}

SoughtRows(n) == RowsAt(archive[n].model, archive[n].key, SoughtIn(archive[n]))

\* Changing these rows, in a request about entry e.
Changes(rows, state, e) ==
  /\ entries' = [r \in Entries |-> IF r \in rows THEN state ELSE entries[r]]
  /\ misled' = misled \union (rows \ {e})

----------------------------------------------------------------------------
(* Customers. *)

Namesakes(e) ==
  {d \in Entries : /\ ModelOf[d] = "customer" /\ DatabaseOf[d] = DatabaseOf[e]
                   /\ NameOf[d] = NameOf[e] /\ entries[d] = "live"}

\* Mutant: names are not compared.
NameFreeAnyway(e) == TRUE

NameFree(e) == Namesakes(e) = {}

CreateCheck(c) ==
  /\ Serves(c, "create_entry")
  /\ \E e \in Entries :
       /\ e \in desk.entries
       /\ entries[e] = "absent" /\ ModelOf[e] = "customer"
       /\ NameFree(e)
       /\ Goes(c, [step |-> "create_entry", entry |-> e])
  /\ UNCHANGED <<stockroom, recoveryVars>>

CreateEntry(c) ==
  LET e == task[c].entry
  IN /\ Stands(c, "create_entry")
     /\ entries' = IF entries[e] = "absent" THEN [entries EXCEPT ![e] = "live"] ELSE entries
     /\ Leaves(c)
     /\ UNCHANGED <<stockroom, archive, misled>>

----------------------------------------------------------------------------
(* Deletion. *)

\* Employees are never flagged: the directory leaves out those with a DELETED record.
Hidden(e) ==
  /\ ModelOf[e] = "employee"
  /\ \E n \in DOMAIN archive : /\ archive[n].status = "DELETED" /\ archive[n].model = "employee"
                               /\ archive[n].key = KeyNumber[e]

FilesOf(e) ==
  {n \in DOMAIN archive : /\ archive[n].status = "DELETED"
                          /\ archive[n].model = ModelOf[e] /\ archive[n].key = KeyNumber[e]}

FileFor(e) ==
  [model |-> ModelOf[e], key |-> KeyNumber[e], from |-> DatabaseOf[e], status |-> "DELETED",
   made |-> e]

\* Once filed, an employee is done and every other row is still to be flagged.
AfterFiling(c) ==
  IF ModelOf[task[c].entry] = "employee" THEN Leaves(c)
  ELSE Goes(c, [step |-> "flag", entry |-> task[c].entry])

\* Mutant: the row is flagged before its record is filed.
FlagThenFile(c, e) ==
  /\ Changes(RowsAt(ModelOf[e], KeyNumber[e], SavedIn(e)), "deleted", e)
  /\ Goes(c, [step |-> "file", entry |-> e])

FileThenFlag(c, e) ==
  /\ Goes(c, [step |-> "file", entry |-> e])
  /\ UNCHANGED <<entries, misled>>

DeleteEntry(c) ==
  /\ Serves(c, "delete_entry")
  /\ \E e \in Entries :
       /\ entries[e] = "live" /\ ~Hidden(e)
       /\ FileThenFlag(c, e)
  /\ UNCHANGED <<stockroom, archive>>

\* update_or_create: the DELETED record of this model and key is filled in again.
FileAgain(c) ==
  LET e == task[c].entry
  IN /\ Stands(c, "file")
     /\ FilesOf(e) # {}
     /\ archive' = [archive EXCEPT ![Min(FilesOf(e))] = FileFor(e)]
     /\ AfterFiling(c)
     /\ UNCHANGED <<stockroom, entries, misled>>

FileNone(c) ==
  /\ Stands(c, "file")
  /\ FilesOf(task[c].entry) = {}
  /\ Goes(c, [task[c] EXCEPT !.step = "file_new"])
  /\ UNCHANGED <<stockroom, recoveryVars>>

FileNew(c) ==
  /\ Stands(c, "file_new")
  /\ Len(archive) < MaxFiles
  /\ archive' = Append(archive, FileFor(task[c].entry))
  /\ AfterFiling(c)
  /\ UNCHANGED <<stockroom, entries, misled>>

\* The save goes where the router sends it; without such a row it fails.
FlagEntry(c) ==
  LET e == task[c].entry
  IN /\ Stands(c, "flag")
     /\ Changes(RowsAt(ModelOf[e], KeyNumber[e], SavedIn(e)), "deleted", e)
     /\ Leaves(c)
     /\ UNCHANGED <<stockroom, archive>>

----------------------------------------------------------------------------
(* Restoring and purging the records that a client picks. *)

IsDeleted(n) == archive[n].status = "DELETED"

\* All records are read first; one that is not DELETED fails the whole request, after
\* the ones before it.
PickFiles(c) ==
  /\ \E kind \in {"restore", "purge"}, picked \in (SUBSET DOMAIN archive) \ {{}} :
       /\ Serves(c, kind)
       /\ Goes(c, [step |-> kind, left |-> picked, done |-> {},
                   open |-> {n \in picked : IsDeleted(n)}])
  /\ UNCHANGED <<stockroom, recoveryVars>>

NextFile(c) == Min(task[c].left)

\* The rows of the shared database belong to the transaction that is still open.
Commits(rows) == {e \in rows : DatabaseOf[e] # "default"}

FileDone(c) ==
  Goes(c, [task[c] EXCEPT !.left = @ \ {NextFile(c)}, !.done = @ \union {NextFile(c)}])

RestoreRow(c) ==
  LET n == NextFile(c)
  IN /\ Stands(c, "restore") /\ task[c].left # {}
     /\ n \in task[c].open /\ SoughtRows(n) # {}
     /\ Changes(Commits(SoughtRows(n)), "live", archive[n].made)
     /\ FileDone(c)
     /\ UNCHANGED <<stockroom, archive>>

\* A row that other documents protect cannot be purged; one that is not found counts
\* as purged.
PurgeRow(c) ==
  LET n == NextFile(c)
  IN /\ Stands(c, "purge") /\ task[c].left # {}
     /\ n \in task[c].open
     /\ Changes(Commits(SoughtRows(n)), "gone", archive[n].made)
     /\ FileDone(c)
     /\ UNCHANGED <<stockroom, archive>>

\* The shared transaction is rolled back: a record that is not DELETED, a row that is
\* not found, a protected row, or a process that dies.
PickedFail(c) ==
  /\ task[c].step \in {"restore", "purge"}
  /\ \/ "crash" \in desk.kinds
     \/ /\ task[c].left # {}
        /\ \/ NextFile(c) \notin task[c].open
           \/ task[c].step = "restore" /\ SoughtRows(NextFile(c)) = {}
           \/ task[c].step = "purge" /\ SoughtRows(NextFile(c)) # {}
  /\ Leaves(c)
  /\ UNCHANGED <<stockroom, recoveryVars>>

\* The statuses are saved over whatever they have become.
PickedCommit(c) ==
  LET restored == task[c].step = "restore"
      Shared(n) == {e \in SoughtRows(n) : DatabaseOf[e] = "default"}
      done == task[c].done
  IN /\ task[c].step \in {"restore", "purge"} /\ task[c].left = {}
     /\ archive' = [n \in DOMAIN archive |->
          IF n \in done
          THEN [archive[n] EXCEPT !.status = IF restored THEN "RESTORED" ELSE "PERMANENT"]
          ELSE archive[n]]
     /\ entries' = [e \in Entries |->
          IF \E n \in done : e \in Shared(n) THEN (IF restored THEN "live" ELSE "gone")
          ELSE entries[e]]
     /\ misled' = misled \union UNION {Shared(n) \ {archive[n].made} : n \in done}
     /\ Leaves(c)
     /\ UNCHANGED stockroom

\* A process that dies between two commits of a deletion.
DeletionDies(c) ==
  /\ "crash" \in desk.kinds
  /\ task[c].step \in {"file", "file_new", "flag"}
  /\ Leaves(c)
  /\ UNCHANGED <<stockroom, recoveryVars>>

----------------------------------------------------------------------------
(* The clean-up task. *)

ExpiredRead(c) ==
  /\ \E expired \in SUBSET {n \in DOMAIN archive : IsDeleted(n)} :
       /\ Serves(c, "cleanup")
       /\ Goes(c, [step |-> "cleanup", left |-> expired])
  /\ UNCHANGED <<stockroom, recoveryVars>>

\* It knows the shared database only, deletes what has that key there, and saves the
\* record as purged whatever it has become; a protected row is passed over.
ExpiredPurge(c) ==
  LET n == NextFile(c)
      rows == RowsAt(archive[n].model, archive[n].key, "default")
  IN /\ Stands(c, "cleanup") /\ task[c].left # {}
     /\ \/ /\ Changes(rows, "gone", archive[n].made)
           /\ archive' = [archive EXCEPT ![n].status = "PERMANENT"]
        \/ rows # {} /\ UNCHANGED recoveryVars
     /\ Goes(c, [task[c] EXCEPT !.left = @ \ {n}])
     /\ UNCHANGED stockroom

ExpiredEnd(c) ==
  /\ Stands(c, "cleanup") /\ task[c].left = {}
  /\ Leaves(c)
  /\ UNCHANGED <<stockroom, recoveryVars>>

----------------------------------------------------------------------------
RecoveryStep(c) ==
  \/ CreateCheck(c) \/ CreateEntry(c)
  \/ DeleteEntry(c) \/ FileAgain(c) \/ FileNone(c) \/ FileNew(c) \/ FlagEntry(c)
  \/ PickFiles(c) \/ RestoreRow(c) \/ PurgeRow(c) \/ PickedFail(c) \/ PickedCommit(c)
  \/ DeletionDies(c) \/ ExpiredRead(c) \/ ExpiredPurge(c) \/ ExpiredEnd(c)

OfficeNext ==
  \E c \in Clerks : \/ WarehouseStep(c) /\ UNCHANGED recoveryVars
                    \/ RecoveryStep(c)

OfficeSpec == RecoveryInit /\ [][OfficeNext]_officeVars

----------------------------------------------------------------------------
(* Properties. *)

\* Rows that are deleted, restored and purged in one and the same database.
FoundAgain(e) == DatabaseOf[e] = SavedIn(e) /\ DatabaseOf[e] # "tenant"

Twins == \E d, e \in desk.entries :
           d # e /\ ModelOf[d] = ModelOf[e] /\ KeyNumber[d] = KeyNumber[e]

\* No request about a customer or an employee changes another row, unless the clean-up
\* finds one with that primary key in the shared database.
OnlyTheRowMeant ==
  (\A e \in desk.entries : FoundAgain(e)) /\ ~("cleanup" \in desk.kinds /\ Twins) => misled = {}

\* A customer that is flagged as deleted is offered for recovery, whatever request died
\* on the way, unless requests overlap, the clean-up ran, or two branches have a customer
\* with that primary key.
StillOffered ==
  ~desk.overlap /\ "cleanup" \notin desk.kinds /\ ~Twins =>
    \A e \in Entries : FoundAgain(e) /\ entries[e] = "deleted" => FilesOf(e) # {}

\* What a record calls permanently deleted is gone, requests overlapping or not, unless
\* the clean-up ran, or a deletion took the record over for the row of another branch
\* while it was being purged.
GoneForGood ==
  "cleanup" \notin desk.kinds /\ ~(desk.overlap /\ Twins) =>
    \A n \in DOMAIN archive :
      archive[n].status = "PERMANENT" /\ FoundAgain(archive[n].made)
        => entries[archive[n].made] = "gone"

\* Unless requests overlap, a row has one record that offers it.
FiledOnce == ~desk.overlap => \A e \in Entries : Cardinality(FilesOf(e)) <= 1

\* Two live customers of a branch have the same name only when their creations overlapped
\* or one of them was restored.
NamesApart ==
  ~desk.overlap /\ "restore" \notin desk.kinds =>
    \A e \in Entries : ModelOf[e] = "customer" => Cardinality(Namesakes(e)) <= 1

\* Deleting, restoring and purging reach the row that was meant and leave it on offer
\* until it is restored or gone.
RecoverySound == OnlyTheRowMeant /\ StillOffered /\ GoneForGood /\ FiledOnce /\ NamesApart
=============================================================================
