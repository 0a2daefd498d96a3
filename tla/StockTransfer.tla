--------------------------- MODULE StockTransfer ---------------------------
(***************************************************************************)
(* The stock transfer workflow of apps/transfers.                          *)
(*                                                                         *)
(* A transfer lives in two kinds of database.  The shared "default"        *)
(* database owns the workflow row (status, dispatched and received         *)
(* quantities); the database of each branch owns its stock rows and its    *)
(* stock movements.  Dispatch and receive open a transaction on the        *)
(* default database, lock the workflow row, run a complete transaction on  *)
(* the branch database inside it, and only then write and commit the       *)
(* workflow row: a worker that dies between the two commits leaves the     *)
(* goods moved and the status unchanged.  Approve, cancel and delete check *)
(* a row that they read without a lock.                                    *)
(*                                                                         *)
(* A worker is a web process serving one request at a time; each action    *)
(* below is one statement, or one run of statements that nobody can        *)
(* observe in between.  A branch transaction is read-committed: its writes *)
(* stay in wStock and pending, under row locks, until it commits.          *)
(***************************************************************************)
EXTENDS Integers, Sequences, FiniteSets, FiniteSetsExt

CONSTANTS
  Workers,           \* web processes
  Transfers, Items,  \* primary keys of the workflow rows
  Branches, Products, Warehouses,
  DefaultWarehouse,  \* the warehouse "" that receives every transfer
  None,              \* no worker, no item, no row
  TransferOf, ProductOf, RequestedQty,   \* per item
  FromBranch, ToBranch,                  \* per transfer
  Opening,           \* stock on hand at the start, per row
  Operations,        \* the request kinds that clients send
  Volatile,          \* <<branch, product>> pairs whose catalogue entry changes
  Traded,            \* stock rows that the sales flows use
  MaxCrashes         \* bound: worker deaths considered

Rows == Branches \X Products \X Warehouses

ASSUME ShapeAssumption ==
  /\ TransferOf \in [Items -> Transfers]
  /\ ProductOf \in [Items -> Products]
  /\ RequestedQty \in [Items -> Nat \ {0}]
  /\ FromBranch \in [Transfers -> Branches]
  /\ ToBranch \in [Transfers -> Branches]
  /\ \A t \in Transfers : FromBranch[t] # ToBranch[t]
  /\ Opening \in [Rows -> Nat]
  /\ DefaultWarehouse \in Warehouses
  /\ MaxCrashes \in Nat

ASSUME NoneAssumption ==
  None \notin Workers \union Items \union Transfers \union (Items \X Rows)

ASSUME FiniteAssumption == IsFiniteSet(Items) /\ IsFiniteSet(Rows)

ASSUME OperationsAssumption ==
  Operations \subseteq {"approve", "dispatch", "receive", "cancel", "destroy"}

Statuses == {"UNSAVED", "REQUESTED", "APPROVED", "IN_TRANSIT", "RECEIVED",
             "CANCELLED", "DELETED"}

\* Where a worker stands in the request that it serves.
PCs == {"idle", "loaded", "own_transfer", "own_source", "own_branches",
        "picked", "tenant_committed", "items_gone"}

Directions == {"out", "in", "sale"}

\* A StockMovement: its reference key (item and direction), the signed
\* quantity, and the balance of its row before and after it.
Movements == [item : Items \union {None}, dir : Directions, qty : Int,
              before : Nat, after : Nat]

VARIABLES
  status,      \* StockTransfer.status, with "UNSAVED" and "DELETED" for no row
  dispatched,  \* StockTransferItem.dispatched_quantity
  received,    \* StockTransferItem.received_quantity
  xferLock,    \* holder of the lock on the workflow row
  branchLock,  \* holder of the lock on the shared row of the branch
  itemLock,    \* worker that has deleted the item rows, not yet committed
  stock,       \* ProductStock.current_stock, committed
  reserved,    \* ProductStock.reserved_stock
  ledger,      \* StockMovement rows of a stock row, committed, oldest first
  wStock,      \* current_stock as the holder of the row lock sees it
  pending,     \* StockMovement rows that the lock holder has inserted
  rowLock,     \* holder of the lock on the stock row
  catalog,     \* flags of the product's catalogue entry in a branch
  pc,          \* position of each worker
  req,         \* the request: operation, transfer, status read without a lock
  todo,        \* items that the branch transaction has still to move
  target,      \* the item being moved and the stock row chosen for it
  crashes

defaultVars == <<status, dispatched, received>>
lockVars    == <<xferLock, branchLock, itemLock>>
tenantVars  == <<stock, ledger, wStock, pending, rowLock>>
workerVars  == <<pc, req, todo, target>>
vars == <<defaultVars, lockVars, tenantVars, reserved, catalog, workerVars,
          crashes>>

ItemsOf(t) == {i \in Items : TransferOf[i] = t}

Idle == [op |-> "none", xfer |-> None, seen |-> "UNSAVED"]

----------------------------------------------------------------------------
(* What a worker reads. *)

\* A product that _ensure_source and the create validation accept.
Usable(b, p) == catalog[b, p] = {"row", "active"}

\* ProductStock.available_stock, as everybody but the lock holder reads it.
Available(r) == stock[r] - reserved[r]

\* ProductStock.available_stock as worker w reads it, its own writes included.
AvailableTo(w, r) == (IF rowLock[r] = w THEN wStock[r] ELSE stock[r]) - reserved[r]

RowsOf(b, p) == {r \in Rows : r[1] = b /\ r[2] = p}

\* Movements of row r that worker w can see: its own and the committed ones.
Visible(w, r) == IF rowLock[r] = w THEN ledger[r] \o pending[r] ELSE ledger[r]

\* Rows of branch b where w sees the movement keyed by (item, direction).
KeyedRows(w, b, i, dir) ==
  {r \in Rows : /\ r[1] = b
                /\ \E k \in DOMAIN Visible(w, r) :
                     Visible(w, r)[k].item = i /\ Visible(w, r)[k].dir = dir}

\* int(item.dispatched_quantity or item.requested_quantity)
DispatchQty(i) == IF dispatched[i] # 0 THEN dispatched[i] ELSE RequestedQty[i]

\* Lookup of the source movement of item i with exactly this quantity.
SourceMovementExists(w, i) ==
  \E r \in KeyedRows(w, FromBranch[TransferOf[i]], i, "out") :
    \E k \in DOMAIN Visible(w, r) :
      /\ Visible(w, r)[k].item = i
      /\ Visible(w, r)[k].dir = "out"
      /\ Visible(w, r)[k].qty = -dispatched[i]

----------------------------------------------------------------------------
Init ==
  /\ status = [t \in Transfers |-> "UNSAVED"]
  /\ dispatched = [i \in Items |-> 0]
  /\ received = [i \in Items |-> 0]
  /\ xferLock = [t \in Transfers |-> None]
  /\ branchLock = [b \in Branches |-> None]
  /\ itemLock = [t \in Transfers |-> None]
  /\ stock = Opening
  /\ reserved = [r \in Rows |-> 0]
  /\ ledger = [r \in Rows |-> <<>>]
  /\ wStock = Opening
  /\ pending = [r \in Rows |-> <<>>]
  /\ rowLock = [r \in Rows |-> None]
  /\ catalog \in [Branches \X Products -> {{}, {"row", "active"}}]
  /\ \A r \in Rows : Opening[r] > 0 => Usable(r[1], r[2])
  /\ pc = [w \in Workers |-> "idle"]
  /\ req = [w \in Workers |-> Idle]
  /\ todo = [w \in Workers |-> {}]
  /\ target = [w \in Workers |-> None]
  /\ crashes = 0

----------------------------------------------------------------------------
(* Requests that finish in one step, and the start of the others. *)

\* TransferSerializer.create: an admin's transfer is approved at once.
Create(t) ==
  /\ status[t] = "UNSAVED"
  /\ ItemsOf(t) # {}
  /\ \A i \in ItemsOf(t) :
       LET b == FromBranch[t] IN
       /\ Usable(b, ProductOf[i])
       /\ RequestedQty[i] <=
            MapThenSumSet(Available, RowsOf(b, ProductOf[i]))
  /\ \E s \in {"REQUESTED", "APPROVED"} : status' = [status EXCEPT ![t] = s]
  /\ UNCHANGED <<dispatched, received, lockVars, tenantVars, reserved, catalog,
                 workerVars, crashes>>

\* get_object(): the view holds a copy of the row and no lock.
Load(w, op, t) ==
  /\ pc[w] = "idle"
  /\ op \in Operations
  /\ status[t] \notin {"UNSAVED", "DELETED"}
  /\ pc' = [pc EXCEPT ![w] = "loaded"]
  /\ req' = [req EXCEPT ![w] = [op |-> op, xfer |-> t, seen |-> status[t]]]
  /\ UNCHANGED <<defaultVars, lockVars, tenantVars, reserved, catalog, todo,
                 target, crashes>>

\* The branch transaction of w ends: its writes become visible ...
CommitRows(w) ==
  LET mine == {r \in Rows : rowLock[r] = w} IN
  /\ stock' = [r \in Rows |-> IF r \in mine THEN wStock[r] ELSE stock[r]]
  /\ ledger' = [r \in Rows |-> IF r \in mine THEN ledger[r] \o pending[r] ELSE ledger[r]]
  /\ pending' = [r \in Rows |-> IF r \in mine THEN <<>> ELSE pending[r]]
  /\ rowLock' = [r \in Rows |-> IF r \in mine THEN None ELSE rowLock[r]]
  /\ UNCHANGED wStock

\* Mutant of RollbackRows: without atomic(using=alias) finished items stay.
AutocommitRows(w) == CommitRows(w)

\* ... or are undone.
RollbackRows(w) ==
  LET mine == {r \in Rows : rowLock[r] = w} IN
  /\ wStock' = [r \in Rows |-> IF r \in mine THEN stock[r] ELSE wStock[r]]
  /\ pending' = [r \in Rows |-> IF r \in mine THEN <<>> ELSE pending[r]]
  /\ rowLock' = [r \in Rows |-> IF r \in mine THEN None ELSE rowLock[r]]
  /\ UNCHANGED <<stock, ledger>>

FreedBy(w, lock) == [k \in DOMAIN lock |-> IF lock[k] = w THEN None ELSE lock[k]]

\* Mutant of ReleaseLocks: the locks on the branches outlive the request.
ReleaseTransferOnly(w) ==
  /\ xferLock' = FreedBy(w, xferLock)
  /\ itemLock' = FreedBy(w, itemLock)
  /\ UNCHANGED branchLock

\* The default transaction of w ends, either way.
ReleaseLocks(w) ==
  /\ xferLock' = FreedBy(w, xferLock)
  /\ branchLock' = FreedBy(w, branchLock)
  /\ itemLock' = FreedBy(w, itemLock)

\* An exception, or a lost connection: nothing uncommitted survives.
Abandon(w) ==
  /\ RollbackRows(w)
  /\ ReleaseLocks(w)
  /\ pc' = [pc EXCEPT ![w] = "idle"]
  /\ req' = [req EXCEPT ![w] = Idle]
  /\ todo' = [todo EXCEPT ![w] = {}]
  /\ target' = [target EXCEPT ![w] = None]
  /\ UNCHANGED <<defaultVars, reserved, catalog>>

\* The request is over and its only write, if any, is committed.
Finish(w) ==
  /\ pc' = [pc EXCEPT ![w] = "idle"]
  /\ req' = [req EXCEPT ![w] = Idle]
  /\ UNCHANGED <<dispatched, received, lockVars, tenantVars, reserved, catalog,
                 todo, target, crashes>>

\* save(update_fields=[status, ...]) on an instance: UPDATE ... WHERE pk, which
\* waits for the row lock and overwrites whatever was committed meanwhile.
SaveStatus(t, s) ==
  /\ xferLock[t] = None
  /\ status' = [status EXCEPT ![t] = IF @ = "DELETED" THEN @ ELSE s]

\* approve_transfer, after get_object: refused, already approved, or saved.
Approve(w) ==
  /\ pc[w] = "loaded" /\ req[w].op = "approve"
  /\ IF req[w].seen = "REQUESTED"
       THEN SaveStatus(req[w].xfer, "APPROVED")
       ELSE UNCHANGED status
  /\ Finish(w)

\* cancel_transfer, after get_object.
Cancel(w) ==
  /\ pc[w] = "loaded" /\ req[w].op = "cancel"
  /\ IF req[w].seen \in {"IN_TRANSIT", "RECEIVED"}
       THEN UNCHANGED status
       ELSE SaveStatus(req[w].xfer, "CANCELLED")
  /\ Finish(w)

\* destroy, after get_object: refused on the status it read.
DestroyRefused(w) ==
  /\ pc[w] = "loaded" /\ req[w].op = "destroy"
  /\ \/ req[w].seen \notin {"REQUESTED", "APPROVED", "CANCELLED"}
     \/ status[req[w].xfer] = "DELETED"
  /\ UNCHANGED status
  /\ Finish(w)

\* transfer.delete(), first statement: the item rows go, uncommitted.
DestroyItems(w) ==
  LET t == req[w].xfer IN
  /\ pc[w] = "loaded" /\ req[w].op = "destroy"
  /\ req[w].seen \in {"REQUESTED", "APPROVED", "CANCELLED"}
  /\ status[t] # "DELETED"
  /\ itemLock[t] = None
  /\ itemLock' = [itemLock EXCEPT ![t] = w]
  /\ pc' = [pc EXCEPT ![w] = "items_gone"]
  /\ UNCHANGED <<defaultVars, xferLock, branchLock, tenantVars, reserved, catalog,
                 req, todo, target, crashes>>

\* transfer.delete(), second statement: waits for the workflow row, commits.
DestroyTransfer(w) ==
  LET t == req[w].xfer IN
  /\ pc[w] = "items_gone"
  /\ xferLock[t] = None
  /\ status' = [status EXCEPT ![t] = "DELETED"]
  /\ itemLock' = [itemLock EXCEPT ![t] = None]
  /\ pc' = [pc EXCEPT ![w] = "idle"]
  /\ req' = [req EXCEPT ![w] = Idle]
  /\ UNCHANGED <<dispatched, received, xferLock, branchLock, tenantVars, reserved,
                 catalog, todo, target, crashes>>

----------------------------------------------------------------------------
(* dispatch and receive: select_for_update().select_related(from, to) locks *)
(* the workflow row, then the source branch's row, then the destination's.  *)

\* Statuses from which the service goes on once it holds the row.
Accepts(op, s) ==
  \/ op = "dispatch" /\ s \in {"APPROVED", "IN_TRANSIT"}
  \/ op = "receive" /\ s \in {"IN_TRANSIT", "RECEIVED"}

LockTransfer(w) ==
  LET t == req[w].xfer IN
  /\ pc[w] = "loaded" /\ req[w].op \in {"dispatch", "receive"}
  /\ status[t] # "DELETED"
  /\ xferLock[t] = None
  /\ xferLock' = [xferLock EXCEPT ![t] = w]
  /\ pc' = [pc EXCEPT ![w] = "own_transfer"]
  /\ UNCHANGED <<defaultVars, branchLock, itemLock, tenantVars, reserved, catalog,
                 req, todo, target, crashes>>

LockSource(w) ==
  LET b == FromBranch[req[w].xfer] IN
  /\ pc[w] = "own_transfer"
  /\ branchLock[b] = None
  /\ branchLock' = [branchLock EXCEPT ![b] = w]
  /\ pc' = [pc EXCEPT ![w] = "own_source"]
  /\ UNCHANGED <<defaultVars, xferLock, itemLock, tenantVars, reserved, catalog,
                 req, todo, target, crashes>>

\* The last lock, and with it the status check on the locked row.
LockDestination(w) ==
  LET t == req[w].xfer
      b == ToBranch[t] IN
  /\ pc[w] = "own_source"
  /\ branchLock[b] = None
  /\ Accepts(req[w].op, status[t])
  /\ branchLock' = [branchLock EXCEPT ![b] = w]
  /\ pc' = [pc EXCEPT ![w] = "own_branches"]
  /\ todo' = [todo EXCEPT ![w] = ItemsOf(t)]
  /\ UNCHANGED <<defaultVars, xferLock, itemLock, tenantVars, reserved, catalog,
                 req, target, crashes>>

\* get() finds no row, or the status check refuses: nothing was written yet.
Refused(w) ==
  LET t == req[w].xfer IN
  /\ req[w].op \in {"dispatch", "receive"}
  /\ \/ pc[w] = "loaded" /\ status[t] = "DELETED"
     \/ /\ pc[w] = "own_source"
        /\ branchLock[ToBranch[t]] = None
        /\ ~Accepts(req[w].op, status[t])
  /\ Abandon(w)
  /\ UNCHANGED crashes

----------------------------------------------------------------------------
(* The transaction on the branch database, one item at a time. *)

\* Mutant of SourceRows: a retry does not look for the earlier movement.
EligibleRowsOnly(w, i) ==
  {r \in RowsOf(FromBranch[TransferOf[i]], ProductOf[i]) :
     AvailableTo(w, r) >= DispatchQty(i)}

\* The source row: any row with enough available stock, else the row of the
\* movement that an earlier attempt committed.
SourceRows(w, i) ==
  LET b == FromBranch[TransferOf[i]]
      eligible == {r \in RowsOf(b, ProductOf[i]) : AvailableTo(w, r) >= DispatchQty(i)}
  IN IF eligible # {} THEN eligible ELSE KeyedRows(w, b, i, "out")

\* The row that receive books on: the destination's default warehouse.
DestinationRow(i) ==
  <<ToBranch[TransferOf[i]], ProductOf[i], DefaultWarehouse>>

\* Checks of receive before it moves an item.
CanReceive(w, i) ==
  LET t == TransferOf[i] IN
  /\ dispatched[i] > 0
  /\ SourceMovementExists(w, i)
  /\ Usable(FromBranch[t], ProductOf[i])
  /\ Usable(ToBranch[t], ProductOf[i]) \/ catalog[ToBranch[t], ProductOf[i]] = {}

\* The rows that the loop body may pass to _move; none when a check fails.
TargetRows(w, i) ==
  IF req[w].op = "dispatch"
    THEN IF Usable(FromBranch[TransferOf[i]], ProductOf[i])
           THEN SourceRows(w, i) ELSE {}
    ELSE IF CanReceive(w, i) THEN {DestinationRow(i)} ELSE {}

\* The loop body up to the call of _move.
Pick(w) ==
  /\ pc[w] = "own_branches"
  /\ \E i \in todo[w] : \E r \in TargetRows(w, i) :
       target' = [target EXCEPT ![w] = <<i, r>>]
  /\ pc' = [pc EXCEPT ![w] = "picked"]
  /\ UNCHANGED <<defaultVars, lockVars, tenantVars, reserved, catalog, req, todo,
                 crashes>>

\* A check of the loop body fails: both transactions roll back.
PickRefused(w) ==
  /\ pc[w] = "own_branches"
  /\ \E i \in todo[w] : TargetRows(w, i) = {}
  /\ Abandon(w)
  /\ UNCHANGED crashes

\* Mutant of Direction: the movement types are swapped.
DirectionSwapped(op) == IF op = "dispatch" THEN "in" ELSE "out"

Direction(op) == IF op = "dispatch" THEN "out" ELSE "in"
SignedQty(op, i) == IF op = "dispatch" THEN -DispatchQty(i) ELSE dispatched[i]

\* Mutant of AlreadyMoved: no lookup of the idempotency key.
NeverMoved(w) == FALSE

\* _move looks for the movement of this key (product, branch and quantity
\* agree when it is there: they are functions of the key).
AlreadyMoved(w) ==
  KeyedRows(w, target[w][2][1], target[w][1], Direction(req[w].op)) # {}

\* The item is dealt with: on to the next one.
ItemDone(w) ==
  /\ pc' = [pc EXCEPT ![w] = "own_branches"]
  /\ todo' = [todo EXCEPT ![w] = @ \ {target[w][1]}]
  /\ target' = [target EXCEPT ![w] = None]
  /\ UNCHANGED <<defaultVars, lockVars, stock, ledger, reserved, catalog, req,
                 crashes>>

\* _move returns the movement of an earlier attempt.
MoveAgain(w) ==
  /\ pc[w] = "picked" /\ AlreadyMoved(w)
  /\ ItemDone(w)
  /\ UNCHANGED <<wStock, pending, rowLock>>

\* Mutants of BalanceAllowed: the re-check forgets the reservation, or is gone.
BalanceIgnoresReserved(r, after) == after >= 0
BalanceUnchecked(r, after) == after \in Int

\* The balance that _move may save: not below the reserved stock.
BalanceAllowed(r, after) == after >= reserved[r] /\ after >= 0

\* Mutant of SavedBalance: stock.save() is missing.
BalanceNotSaved(w) == wStock[target[w][2]]

\* The balance that _move computes from the locked row, and saves.
NewBalance(w) == wStock[target[w][2]] + SignedQty(req[w].op, target[w][1])
SavedBalance(w) == NewBalance(w)

\* _move takes the row lock, re-checks the balance and writes both rows.
Move(w) ==
  LET r == target[w][2] IN
  /\ pc[w] = "picked" /\ ~AlreadyMoved(w)
  /\ rowLock[r] \in {None, w}
  /\ BalanceAllowed(r, NewBalance(w))
  /\ rowLock' = [rowLock EXCEPT ![r] = w]
  /\ wStock' = [wStock EXCEPT ![r] = SavedBalance(w)]
  /\ pending' = [pending EXCEPT ![r] = Append(@,
       [item |-> target[w][1], dir |-> Direction(req[w].op),
        qty |-> SignedQty(req[w].op, target[w][1]),
        before |-> wStock[r], after |-> NewBalance(w)])]
  /\ ItemDone(w)

\* The re-check under the lock fails: both transactions roll back.
MoveRefused(w) ==
  LET r == target[w][2] IN
  /\ pc[w] = "picked" /\ ~AlreadyMoved(w)
  /\ rowLock[r] \in {None, w}
  /\ ~BalanceAllowed(r, NewBalance(w))
  /\ Abandon(w)
  /\ UNCHANGED crashes

\* The branch transaction commits, with the products that receive created.
TenantCommit(w) ==
  /\ pc[w] = "own_branches" /\ todo[w] = {}
  /\ CommitRows(w)
  /\ catalog' = [c \in Branches \X Products |->
       IF /\ req[w].op = "receive" /\ catalog[c] = {}
          /\ \E i \in ItemsOf(req[w].xfer) :
               c = <<ToBranch[req[w].xfer], ProductOf[i]>>
         THEN {"row", "active"} ELSE catalog[c]]
  /\ pc' = [pc EXCEPT ![w] = "tenant_committed"]
  /\ UNCHANGED <<defaultVars, lockVars, reserved, req, todo, target, crashes>>

\* Mutant of BranchDone: the workflow row commits before the branch does.
BranchNotDone(w) == pc[w] = "own_branches" /\ todo[w] = {}

BranchDone(w) == pc[w] = "tenant_committed"

\* The writes of the outer transaction and its commit.
DefaultCommit(w) ==
  LET t == req[w].xfer
      op == req[w].op IN
  /\ BranchDone(w)
  /\ itemLock[t] = None
  /\ dispatched' = [i \in Items |->
       IF op = "dispatch" /\ TransferOf[i] = t THEN DispatchQty(i) ELSE dispatched[i]]
  /\ received' = [i \in Items |->
       IF op = "receive" /\ TransferOf[i] = t THEN dispatched[i] ELSE received[i]]
  /\ status' = [status EXCEPT ![t] =
       IF op = "dispatch" THEN "IN_TRANSIT" ELSE "RECEIVED"]
  /\ ReleaseLocks(w)
  /\ pc' = [pc EXCEPT ![w] = "idle"]
  /\ req' = [req EXCEPT ![w] = Idle]
  /\ UNCHANGED <<tenantVars, reserved, catalog, todo, target, crashes>>

----------------------------------------------------------------------------
(* Failures, and the flows that share the rows. *)

\* The worker process or its connections die: both servers roll back what is
\* not committed and drop the locks.
Crash(w) ==
  /\ pc[w] # "idle"
  /\ crashes < MaxCrashes
  /\ crashes' = crashes + 1
  /\ Abandon(w)

\* The worker whose lock w waits for, if any (locks on the default database).
WaitsFor(w) ==
  LET t == req[w].xfer IN
  CASE pc[w] = "loaded" /\ req[w].op = "destroy" -> itemLock[t]
    [] pc[w] = "loaded" /\ req[w].op # "destroy" -> xferLock[t]
    [] pc[w] = "items_gone" -> xferLock[t]
    [] pc[w] = "own_transfer" -> branchLock[FromBranch[t]]
    [] pc[w] = "own_source" -> branchLock[ToBranch[t]]
    [] pc[w] = "tenant_committed" -> itemLock[t]
    [] OTHER -> None

\* PostgreSQL ends a cycle of waits by failing one of the transactions in it.
DeadlockVictim(w) ==
  /\ \E S \in SUBSET Workers :
       /\ w \in S
       /\ \A v \in S : WaitsFor(v) \in S /\ \E u \in S : WaitsFor(u) = v
  /\ Abandon(w)
  /\ UNCHANGED crashes

\* Mutant of RowFree: the writer does not take the row lock.
RowIgnored(r) == r \in Rows

RowFree(r) == rowLock[r] = None

\* A sale or another adjustment takes one unit from a row (one transaction of
\* adjust_stock: it waits for the row lock and respects the reservation).
AdjustStock(r) ==
  /\ r \in Traded
  /\ RowFree(r)
  /\ BalanceAllowed(r, stock[r] - 1)
  /\ stock' = [stock EXCEPT ![r] = @ - 1]
  /\ wStock' = [wStock EXCEPT ![r] = @ - 1]
  /\ ledger' = [ledger EXCEPT ![r] = Append(@,
       [item |-> None, dir |-> "sale", qty |-> -1,
        before |-> stock[r], after |-> stock[r] - 1])]
  /\ UNCHANGED <<defaultVars, lockVars, pending, rowLock, reserved, catalog,
                 workerVars, crashes>>

\* Confirming a sales order reserves a unit of a row, under the row lock.
ReserveStock(r) ==
  /\ r \in Traded
  /\ RowFree(r)
  /\ Available(r) > 0
  /\ reserved' = [reserved EXCEPT ![r] = @ + 1]
  /\ UNCHANGED <<defaultVars, lockVars, tenantVars, catalog, workerVars, crashes>>

\* A product edit flips is_active.
ToggleProduct(c) ==
  /\ c \in Volatile
  /\ "row" \in catalog[c] /\ "deleted" \notin catalog[c]
  /\ catalog' = [catalog EXCEPT ![c] =
       IF "active" \in @ THEN @ \ {"active"} ELSE @ \union {"active"}]
  /\ UNCHANGED <<defaultVars, lockVars, tenantVars, reserved, workerVars, crashes>>

\* A product is moved to the recovery centre, for good: restore looks for it in
\* the default database, never in the branch's.
SoftDeleteProduct(c) ==
  /\ c \in Volatile
  /\ "row" \in catalog[c] /\ "deleted" \notin catalog[c]
  /\ catalog' = [catalog EXCEPT ![c] = @ \union {"deleted"}]
  /\ UNCHANGED <<defaultVars, lockVars, tenantVars, reserved, workerVars, crashes>>

----------------------------------------------------------------------------
Dispatching(w) ==
  \/ LockTransfer(w) \/ LockSource(w) \/ LockDestination(w) \/ Refused(w)
  \/ Pick(w) \/ PickRefused(w) \/ MoveAgain(w) \/ Move(w) \/ MoveRefused(w)
  \/ TenantCommit(w) \/ DefaultCommit(w)

ShortRequest(w) ==
  Approve(w) \/ Cancel(w) \/ DestroyRefused(w) \/ DestroyItems(w) \/ DestroyTransfer(w)

\* A worker goes on with its request.
WorkerStep(w) == Dispatching(w) \/ ShortRequest(w)

OtherFlows ==
  \/ \E r \in Rows : AdjustStock(r) \/ ReserveStock(r)
  \/ \E c \in Branches \X Products :
       ToggleProduct(c) \/ SoftDeleteProduct(c)

Next ==
  \/ \E t \in Transfers : Create(t)
  \/ \E w \in Workers :
       \/ \E t \in Transfers, op \in Operations : Load(w, op, t)
       \/ WorkerStep(w)
       \/ Crash(w)
       \/ DeadlockVictim(w)
  \/ OtherFlows

Spec == Init /\ [][Next]_vars

\* A worker that can go on does (PostgreSQL queues those who wait for a lock,
\* hence strong fairness) and its deadlock detector runs.
Progress == \A w \in Workers : SF_vars(WorkerStep(w)) /\ WF_vars(DeadlockVictim(w))

\* Clients repeat the dispatch and the receipt of a transfer until they succeed.
Retries ==
  \A t \in Transfers :
    /\ SF_vars(\E w \in Workers : Load(w, "dispatch", t))
    /\ SF_vars(\E w \in Workers : Load(w, "receive", t))

\* From some time on no request is the victim of a deadlock.
DeadlocksStop == <>[][\A w \in Workers : ~DeadlockVictim(w)]_vars

ProgressSpec == Spec /\ Progress

----------------------------------------------------------------------------
(* Properties. *)

TypeOK ==
  /\ status \in [Transfers -> Statuses]
  /\ dispatched \in [Items -> Nat] /\ received \in [Items -> Nat]
  /\ xferLock \in [Transfers -> Workers \union {None}]
  /\ branchLock \in [Branches -> Workers \union {None}]
  /\ itemLock \in [Transfers -> Workers \union {None}]
  /\ stock \in [Rows -> Nat] /\ reserved \in [Rows -> Nat]
  /\ wStock \in [Rows -> Nat]
  /\ ledger \in [Rows -> Seq(Movements)]
  /\ pending \in [Rows -> Seq(Movements)]
  /\ rowLock \in [Rows -> Workers \union {None}]
  /\ catalog \in [Branches \X Products -> SUBSET {"row", "active", "deleted"}]
  /\ pc \in [Workers -> PCs]
  /\ req \in [Workers -> [op : Operations \union {"none"},
                          xfer : Transfers \union {None}, seen : Statuses]]
  /\ todo \in [Workers -> SUBSET Items]
  /\ target \in [Workers -> (Items \X Rows) \union {None}]
  /\ crashes \in Nat

\* The movement of item i in direction dir is committed.
Booked(i, dir) ==
  \E r \in Rows : \E k \in DOMAIN ledger[r] :
    ledger[r][k].item = i /\ ledger[r][k].dir = dir

\* The movements of a stock row form one unbroken chain of balances from the
\* opening stock to current_stock, whoever wrote them (quantity_before and
\* quantity_after of _move and _adjust_stock_locked): no update is lost.
ChainFrom(opening, moves, balance) ==
  /\ \A k \in DOMAIN moves :
       /\ moves[k].after = moves[k].before + moves[k].qty
       /\ moves[k].before = IF k = 1 THEN opening ELSE moves[k - 1].after
  /\ balance = IF moves = <<>> THEN opening ELSE moves[Len(moves)].after

LedgerChains == \A r \in Rows : ChainFrom(Opening[r], ledger[r], stock[r])

\* A retry never books twice: each item has at most one TRANSFER_OUT and one
\* TRANSFER_IN over all stock rows of all branches (the idempotency key).
MovedOnce ==
  \A r, s \in Rows : \A j \in DOMAIN ledger[r] : \A k \in DOMAIN ledger[s] :
    (/\ ledger[r][j].item # None
     /\ ledger[r][j].item = ledger[s][k].item
     /\ ledger[r][j].dir = ledger[s][k].dir) => (r = s /\ j = k)

\* Nothing arrives that has not left: every TRANSFER_IN in the destination's
\* database has its committed TRANSFER_OUT of the same quantity in the source's.
ArrivalsLeft ==
  \A r \in Rows : \A k \in DOMAIN ledger[r] :
    ledger[r][k].dir = "in" =>
      LET i == ledger[r][k].item IN
      \E s \in Rows : \E j \in DOMAIN ledger[s] :
        /\ s[1] = FromBranch[TransferOf[i]]
        /\ ledger[s][j].item = i /\ ledger[s][j].dir = "out"
        /\ ledger[s][j].qty = -ledger[r][k].qty

\* The workflow never runs ahead of the stock: an IN_TRANSIT transfer has all
\* its goods booked out, a RECEIVED one has them booked in as well, although
\* the two databases commit separately.
StatusBacked ==
  \A i \in Items :
    /\ status[TransferOf[i]] \in {"IN_TRANSIT", "RECEIVED"} =>
         Booked(i, "out") /\ dispatched[i] = RequestedQty[i]
    /\ status[TransferOf[i]] = "RECEIVED" =>
         Booked(i, "in") /\ received[i] = dispatched[i]

\* A transfer moves whole: no crash, retry or failed check leaves some of its
\* items booked and others not.
WholeTransfers ==
  \A i, j \in Items : TransferOf[i] = TransferOf[j] =>
    \A dir \in {"out", "in"} : Booked(i, dir) <=> Booked(j, dir)

\* Goods promised to confirmed sales orders stay on hand: no transfer takes a
\* row below its reservation (the database refuses it as a constraint too).
ReservedOnHand == \A r \in Rows : reserved[r] <= stock[r]

\* Whatever crashes, is repeated or races, every stock row is one unbroken chain of
\* movements that leaves the reserved goods on hand.
LedgerSound == LedgerChains /\ ReservedOnHand

\* Items are booked out and in at most once, out first, whole transfers at a time, and
\* never later than the status of their transfer says.
MovesSound == MovedOnce /\ ArrivalsLeft /\ StatusBacked /\ WholeTransfers

\* Goods are neither lost nor made: per product, what is on hand in all
\* branches, on the road and sold adds up to the opening stock.
Conserved ==
  \A p \in Products :
    LET rows == {r \in Rows : r[2] = p}
        road == {i \in Items : ProductOf[i] = p /\ Booked(i, "out") /\ ~Booked(i, "in")}
        Sold(r) == Cardinality({k \in DOMAIN ledger[r] : ledger[r][k].dir = "sale"})
    IN SumFunction([r \in rows |-> stock[r] + Sold(r)]) + SumFunctionOnSet(RequestedQty, road)
       = SumFunctionOnSet(Opening, rows)

\* What cancel_transfer and destroy say of themselves (apps/transfers/views.py):
\* a dispatched transfer is neither cancelled nor deleted.
WithdrawnNeverMoved ==
  \A i \in Items :
    status[TransferOf[i]] \in {"CANCELLED", "DELETED"} => ~Booked(i, "out")

\* Every request ends, whatever the others hold: a cycle of waits between
\* opposite transfers, or between a dispatch and a delete, is broken.
RequestsEnd == \A w \in Workers : pc[w] # "idle" ~> pc[w] = "idle"

\* A retry finishes an interrupted operation: where clients repeat their
\* requests, goods that have left are brought to RECEIVED, unless a transfer
\* in the opposite direction is repeated as well and wins every deadlock.
InterruptedFinishes ==
  Retries /\ DeadlocksStop => \A i \in Items : Booked(i, "out") ~> status[TransferOf[i]] = "RECEIVED"

\* Where the goods of t are, read off the committed movements.
GoodsPlace(t) ==
  IF \E i \in ItemsOf(t) : Booked(i, "in") THEN "destination"
  ELSE IF \E i \in ItemsOf(t) : Booked(i, "out") THEN "transit"
  ELSE "source"

Goods == INSTANCE TransferGoods
           WITH place <- [t \in Transfers |-> GoodsPlace(t)], onHand <- stock

\* The two-database workflow implements the promise of TransferGoods: whatever
\* crashes and races do to the status, goods leave once and arrive once, whole.
GoodsMoveAsPromised == Goods!Spec
=============================================================================
