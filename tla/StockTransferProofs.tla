------------------------ MODULE StockTransferProofs ------------------------
(***************************************************************************)
(* Theorems about StockTransfer, for every value of its constants: types,  *)
(* locks and ledgers; that dispatch and receive are idempotent and keep    *)
(* the two databases consistent, MovedOnce, ArrivalsLeft, StatusBacked and *)
(* WholeTransfers; that transfers neither lose nor make goods, Conserved.  *)
(***************************************************************************)
EXTENDS StockTransfer, SequenceTheorems, Sums

\* A busy worker serves a transfer, and an item being moved has its row.
RequestOK ==
  \A w \in Workers :
    /\ pc[w] # "idle" => req[w].xfer \in Transfers
    /\ pc[w] = "picked" => target[w] \in Items \X Rows

\* A row that nobody has locked has no uncommitted version.
RowsSettled ==
  \A r \in Rows : rowLock[r] = None => wStock[r] = stock[r] /\ pending[r] = <<>>

LEMMA AbandonTypeOK ==
  ASSUME TypeOK, RequestOK, NEW w \in Workers, Abandon(w), crashes' \in Nat
  PROVE  TypeOK' /\ RequestOK'
PROOF
  <1>1. /\ stock' = stock /\ ledger' = ledger /\ reserved' = reserved
        /\ catalog' = catalog /\ status' = status
        /\ dispatched' = dispatched /\ received' = received
    BY DEF Abandon, RollbackRows, defaultVars
  <1>2. /\ wStock' \in [Rows -> Nat]
        /\ pending' \in [Rows -> Seq(Movements)]
        /\ rowLock' \in [Rows -> Workers \union {None}]
    BY DEF Abandon, RollbackRows, TypeOK
  <1>3. /\ xferLock' \in [Transfers -> Workers \union {None}]
        /\ branchLock' \in [Branches -> Workers \union {None}]
        /\ itemLock' \in [Transfers -> Workers \union {None}]
    BY DEF Abandon, ReleaseLocks, FreedBy, TypeOK
  <1>4. /\ pc' \in [Workers -> PCs] /\ pc'[w] = "idle"
        /\ todo' \in [Workers -> SUBSET Items]
        /\ target' \in [Workers -> (Items \X Rows) \union {None}]
    BY DEF Abandon, TypeOK, PCs
  <1>5. req' \in [Workers -> [op : Operations \union {"none"},
                             xfer : Transfers \union {None}, seen : Statuses]]
    BY DEF Abandon, TypeOK, Idle, Statuses
  <1>6. TypeOK'
    BY <1>1, <1>2, <1>3, <1>4, <1>5 DEF TypeOK
  <1>7. RequestOK'
    BY <1>4 DEF Abandon, RequestOK, TypeOK
  <1> QED BY <1>6, <1>7

LEMMA CommitRowsTypeOK ==
  ASSUME TypeOK, NEW w \in Workers, CommitRows(w)
  PROVE  /\ stock' \in [Rows -> Nat] /\ wStock' \in [Rows -> Nat]
         /\ ledger' \in [Rows -> Seq(Movements)]
         /\ pending' \in [Rows -> Seq(Movements)]
         /\ rowLock' \in [Rows -> Workers \union {None}]
PROOF
  <1>1. \A r \in Rows : ledger[r] \o pending[r] \in Seq(Movements)
    BY ConcatProperties DEF TypeOK
  <1> QED BY <1>1 DEF CommitRows, TypeOK

\* The quantities that the code computes are the ones its types allow.
LEMMA QuantitiesOK ==
  ASSUME TypeOK, NEW i \in Items, NEW op
  PROVE  DispatchQty(i) \in Nat /\ SignedQty(op, i) \in Int
PROOF
  <1>1. dispatched[i] \in Nat /\ RequestedQty[i] \in Nat
    BY ShapeAssumption DEF TypeOK
  <1>2. DispatchQty(i) \in Nat
    BY <1>1 DEF DispatchQty
  <1> QED BY <1>1, <1>2 DEF SignedQty

\* Typing, step by step: each request of a worker, then the other flows.
LEMMA MoveTypeOK ==
  ASSUME TypeOK, RequestOK, NEW w \in Workers, Move(w)
  PROVE  TypeOK' /\ RequestOK'
PROOF
  <1> DEFINE i == target[w][1]
             r == target[w][2]
             m == [item |-> i, dir |-> Direction(req[w].op),
                   qty |-> SignedQty(req[w].op, i),
                   before |-> wStock[r], after |-> NewBalance(w)]
  <1>1. i \in Items /\ r \in Rows
    BY DEF RequestOK, Move
  <1>2. wStock[r] \in Nat /\ reserved[r] \in Nat
    BY <1>1 DEF TypeOK
  <1>3. SignedQty(req[w].op, i) \in Int
    BY <1>1, QuantitiesOK
  <1>4. NewBalance(w) = wStock[r] + SignedQty(req[w].op, i)
    BY DEF NewBalance
  <1>5. NewBalance(w) \in Nat
    <2>1. NewBalance(w) >= 0
      BY DEF Move, BalanceAllowed
    <2> HIDE DEF r, i
    <2> QED BY <1>2, <1>3, <1>4, <2>1
  <1>6. m \in Movements
    <2>1. Direction(req[w].op) \in Directions
      BY DEF Direction, Directions
    <2> HIDE DEF r, i
    <2> QED BY <1>1, <1>2, <1>3, <1>5, <2>1 DEF Movements
  <1>7. wStock' \in [Rows -> Nat]
    BY <1>1, <1>5 DEF Move, SavedBalance, TypeOK
  <1>8. pending' \in [Rows -> Seq(Movements)]
    <2>1. pending' = [pending EXCEPT ![r] = Append(@, m)]
      BY DEF Move
    <2>2. pending[r] \in Seq(Movements)
      BY <1>1 DEF TypeOK
    <2>3. Append(pending[r], m) \in Seq(Movements)
      BY <1>6, <2>2, AppendProperties
    <2> HIDE DEF r, i, m
    <2> QED BY <1>1, <2>1, <2>3 DEF TypeOK
  <1>9. rowLock' \in [Rows -> Workers \union {None}]
    BY <1>1 DEF Move, TypeOK
  <1>10. pc' \in [Workers -> PCs] /\ todo' \in [Workers -> SUBSET Items]
         /\ target' \in [Workers -> (Items \X Rows) \union {None}]
    BY DEF Move, ItemDone, TypeOK, PCs
  <1>11. TypeOK'
    BY <1>7, <1>8, <1>9, <1>10 DEF Move, ItemDone, TypeOK, defaultVars, lockVars
  <1>12. RequestOK'
    BY <1>10 DEF Move, ItemDone, RequestOK, TypeOK
  <1> QED BY <1>11, <1>12

LEMMA WorkerStepTypeOK ==
  ASSUME TypeOK, RequestOK, NEW w \in Workers, WorkerStep(w)
  PROVE  TypeOK' /\ RequestOK'
PROOF
  <1> USE DEF defaultVars, lockVars, tenantVars, workerVars
  <1>1. CASE Approve(w)
    BY <1>1, ShapeAssumption DEF Approve, SaveStatus, Finish, TypeOK, RequestOK, PCs, Idle, Statuses
  <1>2. CASE Cancel(w)
    BY <1>2 DEF Cancel, SaveStatus, Finish, TypeOK, RequestOK, PCs, Idle, Statuses
  <1>3. CASE DestroyRefused(w)
    BY <1>3 DEF DestroyRefused, Finish, TypeOK, RequestOK, PCs, Idle, Statuses
  <1>4. CASE DestroyItems(w)
    BY <1>4 DEF DestroyItems, TypeOK, RequestOK, PCs
  <1>5. CASE DestroyTransfer(w)
    BY <1>5 DEF DestroyTransfer, TypeOK, RequestOK, PCs, Idle, Statuses
  <1>6. CASE LockTransfer(w)
    BY <1>6 DEF LockTransfer, TypeOK, RequestOK, PCs
  <1>7. CASE LockSource(w)
    BY <1>7 DEF LockSource, TypeOK, RequestOK, PCs
  <1>8. CASE LockDestination(w)
    BY <1>8 DEF LockDestination, ItemsOf, TypeOK, RequestOK, PCs
  <1>9. CASE Refused(w)
    BY <1>9, AbandonTypeOK DEF Refused, TypeOK
  <1>10. CASE Pick(w)
    <2>1. PICK i \in todo[w] :
            \E r \in TargetRows(w, i) : target' = [target EXCEPT ![w] = <<i, r>>]
      BY <1>10 DEF Pick
    <2>5. PICK r \in TargetRows(w, i) : target' = [target EXCEPT ![w] = <<i, r>>]
      BY <2>1
    <2>2. i \in Items
      BY <2>1 DEF TypeOK
    <2>3. DestinationRow(i) \in Rows
      BY <2>2, ShapeAssumption DEF DestinationRow, Rows
    <2>4. r \in Rows
      BY <2>5, <2>3 DEF TargetRows, SourceRows, RowsOf, KeyedRows
    <2> QED BY <1>10, <2>5, <2>2, <2>4 DEF Pick, TypeOK, RequestOK, PCs
  <1>11. CASE PickRefused(w)
    BY <1>11, AbandonTypeOK DEF PickRefused, TypeOK
  <1>12. CASE MoveAgain(w)
    BY <1>12 DEF MoveAgain, ItemDone, TypeOK, RequestOK, PCs
  <1>13. CASE Move(w)
    BY <1>13, MoveTypeOK
  <1>14. CASE MoveRefused(w)
    BY <1>14, AbandonTypeOK DEF MoveRefused, TypeOK
  <1>15. CASE TenantCommit(w)
    <2>1. catalog' \in [Branches \X Products -> SUBSET {"row", "active", "deleted"}]
      BY <1>15 DEF TenantCommit, TypeOK
    <2>2. pc' \in [Workers -> PCs]
      BY <1>15 DEF TenantCommit, TypeOK, PCs
    <2>3. CommitRows(w)
      BY <1>15 DEF TenantCommit
    <2>4. TypeOK'
      BY <1>15, <2>1, <2>2, <2>3, CommitRowsTypeOK DEF TenantCommit, TypeOK
    <2>5. RequestOK'
      BY <1>15 DEF TenantCommit, RequestOK, TypeOK
    <2> QED BY <2>4, <2>5
  <1>16. CASE DefaultCommit(w)
    <2>1. dispatched' \in [Items -> Nat] /\ received' \in [Items -> Nat]
      BY <1>16, QuantitiesOK DEF DefaultCommit, TypeOK
    <2>2. status' \in [Transfers -> Statuses]
      BY <1>16 DEF DefaultCommit, TypeOK, Statuses
    <2>3. /\ xferLock' \in [Transfers -> Workers \union {None}]
          /\ branchLock' \in [Branches -> Workers \union {None}]
          /\ itemLock' \in [Transfers -> Workers \union {None}]
      BY <1>16 DEF DefaultCommit, ReleaseLocks, FreedBy, TypeOK
    <2>4. pc' \in [Workers -> PCs]
          /\ req' \in [Workers -> [op : Operations \union {"none"},
                         xfer : Transfers \union {None}, seen : Statuses]]
      BY <1>16 DEF DefaultCommit, TypeOK, PCs, Idle, Statuses
    <2>5. TypeOK'
      BY <1>16, <2>1, <2>2, <2>3, <2>4 DEF DefaultCommit, TypeOK
    <2>6. RequestOK'
      BY <1>16 DEF DefaultCommit, RequestOK, TypeOK
    <2> QED BY <2>5, <2>6
  <1> QED BY <1>1, <1>2, <1>3, <1>4, <1>5, <1>6, <1>7, <1>8, <1>9, <1>10, <1>11,
             <1>12, <1>13, <1>14, <1>15, <1>16
          DEF WorkerStep, Dispatching, ShortRequest

LEMMA OtherFlowsTypeOK ==
  ASSUME TypeOK, RequestOK, RowsSettled, OtherFlows
  PROVE  TypeOK' /\ RequestOK'
PROOF
  <1> USE DEF defaultVars, lockVars, tenantVars, workerVars
  <1>1. ASSUME NEW r \in Rows, AdjustStock(r)
        PROVE  TypeOK' /\ RequestOK'
    <2> DEFINE m == [item |-> None, dir |-> "sale", qty |-> -1,
                     before |-> stock[r], after |-> stock[r] - 1]
    <2>1. stock[r] \in Nat /\ stock[r] - 1 \in Nat /\ wStock[r] \in Nat
      BY <1>1 DEF AdjustStock, BalanceAllowed, RowFree, RowsSettled, TypeOK
    <2>2. m \in Movements
      BY <2>1 DEF Movements, Directions
    <2>3. ledger' \in [Rows -> Seq(Movements)]
      <3>1. ledger[r] \in Seq(Movements)
        BY DEF TypeOK
      <3>2. Append(ledger[r], m) \in Seq(Movements)
        BY <2>2, <3>1, AppendProperties
      <3>3. ledger' = [ledger EXCEPT ![r] = Append(@, m)]
        BY <1>1 DEF AdjustStock
      <3> HIDE DEF m
      <3> QED BY <3>2, <3>3 DEF TypeOK
    <2>4. wStock' \in [Rows -> Nat]
      BY <1>1, <2>1 DEF AdjustStock, RowFree, RowsSettled, TypeOK
    <2> QED BY <1>1, <2>1, <2>3, <2>4 DEF AdjustStock, TypeOK, RequestOK
  <1>2. ASSUME NEW r \in Rows, ReserveStock(r)
        PROVE  TypeOK' /\ RequestOK'
    BY <1>2 DEF ReserveStock, TypeOK, RequestOK
  <1>3. ASSUME NEW c \in Branches \X Products,
               ToggleProduct(c) \/ SoftDeleteProduct(c)
        PROVE  TypeOK' /\ RequestOK'
    <2> DEFINE Flags == {"row", "active", "deleted"}
    <2>1. PICK f \in SUBSET Flags : catalog' = [catalog EXCEPT ![c] = f]
      <3>1. catalog[c] \in SUBSET Flags
        BY DEF TypeOK
      <3>2. CASE ToggleProduct(c)
        BY <3>1, <3>2 DEF ToggleProduct
      <3>3. CASE SoftDeleteProduct(c)
        BY <3>1, <3>3 DEF SoftDeleteProduct
      <3> QED BY <1>3, <3>2, <3>3
    <2>2. catalog' \in [Branches \X Products -> SUBSET Flags]
      BY <2>1 DEF TypeOK
    <2>3. UNCHANGED <<defaultVars, lockVars, tenantVars, reserved, workerVars, crashes>>
      BY <1>3 DEF ToggleProduct, SoftDeleteProduct
    <2> QED BY <2>2, <2>3 DEF TypeOK, RequestOK
  <1> QED BY <1>1, <1>2, <1>3 DEF OtherFlows

LEMMA NextTypeOK ==
  ASSUME TypeOK, RequestOK, RowsSettled, [Next]_vars
  PROVE  TypeOK' /\ RequestOK'
PROOF
  <1> USE DEF defaultVars, lockVars, tenantVars, workerVars
  <1>1. ASSUME NEW t \in Transfers, Create(t)
        PROVE  TypeOK' /\ RequestOK'
    BY <1>1 DEF Create, TypeOK, RequestOK, Statuses
  <1>2. ASSUME NEW w \in Workers, NEW t \in Transfers, NEW op \in Operations, Load(w, op, t)
        PROVE  TypeOK' /\ RequestOK'
    <2>1. [op |-> op, xfer |-> t, seen |-> status[t]]
            \in [op : Operations \union {"none"}, xfer : Transfers \union {None},
                 seen : Statuses]
      BY DEF TypeOK
    <2> QED BY <1>2, <2>1 DEF Load, TypeOK, RequestOK, PCs
  <1>3. ASSUME NEW w \in Workers, WorkerStep(w)
        PROVE  TypeOK' /\ RequestOK'
    BY <1>3, WorkerStepTypeOK
  <1>4. ASSUME NEW w \in Workers, Crash(w) \/ DeadlockVictim(w)
        PROVE  TypeOK' /\ RequestOK'
    <2>1. crashes' \in Nat
      BY <1>4 DEF Crash, DeadlockVictim, TypeOK
    <2>2. Abandon(w)
      BY <1>4 DEF Crash, DeadlockVictim
    <2> QED BY <2>1, <2>2, AbandonTypeOK
  <1>5. CASE OtherFlows
    BY <1>5, OtherFlowsTypeOK
  <1>6. CASE UNCHANGED vars
    BY <1>6 DEF vars, TypeOK, RequestOK
  <1> QED BY <1>1, <1>2, <1>3, <1>4, <1>5, <1>6 DEF Next

----
(* Balances.  A locked row has an uncommitted version that continues the    *)
(* committed chain, and neither version falls below the reservation.        *)

UncommittedChains ==
  \A r \in Rows : ChainFrom(stock[r], pending[r], wStock[r])

UncommittedReserved == \A r \in Rows : reserved[r] <= wStock[r]

BalancesOK ==
  /\ RowsSettled
  /\ LedgerChains
  /\ UncommittedChains
  /\ ReservedOnHand
  /\ UncommittedReserved

\* A chain continues with a movement that starts where it ended.
LEMMA ChainAppend ==
  ASSUME NEW o \in Nat, NEW b \in Nat, NEW s \in Seq(Movements),
         NEW m \in Movements, m.before = b, m.after = m.before + m.qty,
         ChainFrom(o, s, b)
  PROVE  ChainFrom(o, Append(s, m), m.after)
PROOF
  <1> DEFINE u == Append(s, m)
  <1>1. /\ u \in Seq(Movements) /\ Len(u) = Len(s) + 1 /\ u # <<>>
        /\ \A k \in 1 .. Len(s) : u[k] = s[k]
        /\ u[Len(s) + 1] = m
    BY AppendProperties
  <1>2. Len(s) \in Nat /\ DOMAIN s = 1 .. Len(s) /\ DOMAIN u = 1 .. (Len(s) + 1)
    BY <1>1, LenProperties
  <1>3. s = <<>> <=> Len(s) = 0
    BY EmptySeq
  <1>4. b = IF Len(s) = 0 THEN o ELSE s[Len(s)].after
    BY <1>3 DEF ChainFrom
  <1> HIDE DEF u
  <1>5. ASSUME NEW k \in DOMAIN u
        PROVE  /\ u[k].after = u[k].before + u[k].qty
               /\ u[k].before = IF k = 1 THEN o ELSE u[k - 1].after
    <2>1. CASE k = Len(s) + 1
      <3>1. u[k] = m
        BY <1>1, <2>1
      <3>2. k = 1 <=> Len(s) = 0
        BY <1>2, <2>1
      <3>3. k # 1 => k - 1 \in 1 .. Len(s) /\ k - 1 = Len(s)
        BY <1>2, <2>1
      <3> QED BY <1>1, <1>4, <3>1, <3>2, <3>3
    <2>2. CASE k # Len(s) + 1
      <3>1. k \in 1 .. Len(s) /\ (k # 1 => k - 1 \in 1 .. Len(s))
        BY <1>2, <2>2
      <3> QED BY <1>1, <1>2, <3>1 DEF ChainFrom
    <2> QED BY <2>1, <2>2
  <1> QED BY <1>1, <1>5 DEF ChainFrom, u

\* A chain that starts where another ended continues it.
LEMMA ChainConcat ==
  ASSUME NEW o \in Nat, NEW b \in Nat, NEW c \in Nat,
         NEW s \in Seq(Movements), NEW p \in Seq(Movements),
         ChainFrom(o, s, b), ChainFrom(b, p, c)
  PROVE  ChainFrom(o, s \o p, c)
PROOF
  <1> DEFINE u == s \o p
  <1>1. /\ u \in Seq(Movements) /\ Len(u) = Len(s) + Len(p)
        /\ \A k \in 1 .. (Len(s) + Len(p)) :
             u[k] = IF k <= Len(s) THEN s[k] ELSE p[k - Len(s)]
    BY ConcatProperties
  <1>2. /\ Len(s) \in Nat /\ DOMAIN s = 1 .. Len(s)
        /\ Len(p) \in Nat /\ DOMAIN p = 1 .. Len(p)
        /\ DOMAIN u = 1 .. (Len(s) + Len(p))
    BY <1>1, LenProperties
  <1>3. (s = <<>> <=> Len(s) = 0) /\ (p = <<>> <=> Len(p) = 0) /\ (u = <<>> <=> Len(u) = 0)
    BY <1>1, EmptySeq
  <1>4. /\ b = IF Len(s) = 0 THEN o ELSE s[Len(s)].after
        /\ c = IF Len(p) = 0 THEN b ELSE p[Len(p)].after
    BY <1>3 DEF ChainFrom
  <1> HIDE DEF u
  <1>5. ASSUME NEW k \in DOMAIN u
        PROVE  /\ u[k].after = u[k].before + u[k].qty
               /\ u[k].before = IF k = 1 THEN o ELSE u[k - 1].after
    <2>1. CASE k <= Len(s)
      <3>1. k \in 1 .. Len(s) /\ (k # 1 => k - 1 \in 1 .. Len(s))
        BY <1>2, <2>1
      <3>2. u[k] = s[k] /\ (k # 1 => u[k - 1] = s[k - 1])
        BY <1>1, <1>2, <3>1
      <3> QED BY <1>2, <3>1, <3>2 DEF ChainFrom
    <2>2. CASE k = Len(s) + 1
      <3>1. 1 \in 1 .. Len(p) /\ k - Len(s) = 1 /\ k \in 1 .. (Len(s) + Len(p))
        BY <1>2, <2>2
      <3>2. u[k] = p[1]
        BY <1>1, <1>2, <2>2, <3>1
      <3>3. p[1].after = p[1].before + p[1].qty /\ p[1].before = b
        BY <1>2, <3>1 DEF ChainFrom
      <3>4. CASE Len(s) = 0
        BY <1>4, <2>2, <3>2, <3>3, <3>4
      <3>5. CASE Len(s) # 0
        <4>1. k # 1 /\ k - 1 \in 1 .. (Len(s) + Len(p)) /\ k - 1 = Len(s)
          BY <1>2, <2>2, <3>5
        <4>2. u[k - 1] = s[Len(s)]
          BY <1>1, <1>2, <4>1
        <4> QED BY <1>4, <3>2, <3>3, <3>5, <4>1, <4>2
      <3> QED BY <3>4, <3>5
    <2>3. CASE k > Len(s) + 1
      <3> DEFINE j == k - Len(s)
      <3>1. /\ j \in 1 .. Len(p) /\ j # 1 /\ j - 1 \in 1 .. Len(p) /\ k # 1
            /\ k \in 1 .. (Len(s) + Len(p)) /\ k - 1 \in 1 .. (Len(s) + Len(p))
            /\ ~(k <= Len(s)) /\ ~(k - 1 <= Len(s)) /\ (k - 1) - Len(s) = j - 1
        BY <1>2, <2>3
      <3>2. u[k] = p[j] /\ u[k - 1] = p[j - 1]
        BY <1>1, <3>1
      <3> HIDE DEF j
      <3>3. p[j].after = p[j].before + p[j].qty /\ p[j].before = p[j - 1].after
        BY <1>2, <3>1 DEF ChainFrom
      <3> QED BY <3>1, <3>2, <3>3
    <2> QED BY <1>2, <2>1, <2>2, <2>3
  <1>6. c = IF u = <<>> THEN o ELSE u[Len(u)].after
    <2>1. CASE Len(p) = 0
      <3>1. CASE Len(s) = 0
        BY <1>1, <1>2, <1>3, <1>4, <2>1, <3>1
      <3>2. CASE Len(s) # 0
        <4>1. Len(u) = Len(s) /\ Len(s) \in 1 .. (Len(s) + Len(p))
          BY <1>1, <1>2, <2>1, <3>2
        <4>2. u[Len(u)] = s[Len(s)]
          BY <1>1, <1>2, <4>1
        <4> QED BY <1>3, <1>4, <2>1, <3>2, <4>1, <4>2
      <3> QED BY <3>1, <3>2
    <2>2. CASE Len(p) # 0
      <3>1. /\ Len(u) \in 1 .. (Len(s) + Len(p)) /\ ~(Len(u) <= Len(s))
            /\ Len(u) - Len(s) = Len(p) /\ Len(u) # 0
        BY <1>1, <1>2, <2>2
      <3>2. u[Len(u)] = p[Len(p)]
        BY <1>1, <3>1
      <3> QED BY <1>3, <1>4, <2>2, <3>1, <3>2
    <2> QED BY <2>1, <2>2
  <1> QED BY <1>5, <1>6 DEF ChainFrom, u

LEMMA EmptyChain ==
  ASSUME NEW b PROVE ChainFrom(b, <<>>, b)
PROOF BY DEF ChainFrom

LEMMA RollbackBalances ==
  ASSUME TypeOK, BalancesOK, NEW w \in Workers, RollbackRows(w), reserved' = reserved
  PROVE  BalancesOK'
PROOF
  <1> USE DEF BalancesOK
  <1>1. stock' = stock /\ ledger' = ledger
    BY DEF RollbackRows
  <1>2. \A r \in Rows :
          IF rowLock[r] = w
            THEN wStock'[r] = stock[r] /\ pending'[r] = <<>> /\ rowLock'[r] = None
            ELSE /\ wStock'[r] = wStock[r] /\ pending'[r] = pending[r]
                 /\ rowLock'[r] = rowLock[r]
    BY DEF RollbackRows
  <1>3. RowsSettled'
    BY <1>1, <1>2 DEF RowsSettled
  <1>4. LedgerChains'
    BY <1>1 DEF LedgerChains
  <1>5. UncommittedChains'
    BY <1>1, <1>2, EmptyChain DEF UncommittedChains
  <1>6. ReservedOnHand' /\ UncommittedReserved'
    BY <1>1, <1>2 DEF ReservedOnHand, UncommittedReserved
  <1> QED BY <1>3, <1>4, <1>5, <1>6

LEMMA CommitBalances ==
  ASSUME TypeOK, BalancesOK, NEW w \in Workers, CommitRows(w), reserved' = reserved
  PROVE  BalancesOK'
PROOF
  <1> USE DEF BalancesOK
  <1>1. wStock' = wStock
    BY DEF CommitRows
  <1>2. \A r \in Rows :
          IF rowLock[r] = w
            THEN /\ stock'[r] = wStock[r] /\ ledger'[r] = ledger[r] \o pending[r]
                 /\ pending'[r] = <<>> /\ rowLock'[r] = None
            ELSE /\ stock'[r] = stock[r] /\ ledger'[r] = ledger[r]
                 /\ pending'[r] = pending[r] /\ rowLock'[r] = rowLock[r]
    BY DEF CommitRows
  <1>3. RowsSettled'
    BY <1>1, <1>2 DEF RowsSettled
  <1>4. LedgerChains'
    <2>1. ASSUME NEW r \in Rows PROVE ChainFrom(Opening[r], ledger'[r], stock'[r])
      <3>1. /\ Opening[r] \in Nat /\ stock[r] \in Nat /\ wStock[r] \in Nat
            /\ ledger[r] \in Seq(Movements) /\ pending[r] \in Seq(Movements)
        BY ShapeAssumption DEF TypeOK
      <3>2. ChainFrom(Opening[r], ledger[r], stock[r])
            /\ ChainFrom(stock[r], pending[r], wStock[r])
        BY DEF LedgerChains, UncommittedChains
      <3>3. ChainFrom(Opening[r], ledger[r] \o pending[r], wStock[r])
        BY <3>1, <3>2, ChainConcat
      <3> QED BY <1>2, <3>2, <3>3
    <2> QED BY <2>1 DEF LedgerChains
  <1>5. UncommittedChains'
    BY <1>1, <1>2, EmptyChain DEF UncommittedChains
  <1>6. ReservedOnHand' /\ UncommittedReserved'
    BY <1>1, <1>2 DEF ReservedOnHand, UncommittedReserved
  <1> QED BY <1>3, <1>4, <1>5, <1>6

LEMMA MoveBalances ==
  ASSUME TypeOK, RequestOK, BalancesOK, NEW w \in Workers, Move(w)
  PROVE  BalancesOK'
PROOF
  <1> USE DEF BalancesOK
  <1> DEFINE i == target[w][1]
             r == target[w][2]
             q == SignedQty(req[w].op, i)
             m == [item |-> i, dir |-> Direction(req[w].op), qty |-> q,
                   before |-> wStock[r], after |-> NewBalance(w)]
  <1>1. i \in Items /\ r \in Rows
    BY DEF RequestOK, Move
  <1>2. wStock[r] \in Nat /\ reserved[r] \in Nat /\ stock[r] \in Nat /\ q \in Int
    BY <1>1, QuantitiesOK DEF TypeOK
  <1>3. /\ NewBalance(w) = wStock[r] + q
        /\ NewBalance(w) >= reserved[r] /\ NewBalance(w) >= 0
    BY DEF NewBalance, Move, BalanceAllowed
  <1>4. NewBalance(w) \in Nat
    <2> HIDE DEF r, q
    <2> QED BY <1>2, <1>3
  <1>5. m \in Movements /\ m.before = wStock[r] /\ m.after = m.before + m.qty
        /\ m.after = NewBalance(w)
    <2>1. Direction(req[w].op) \in Directions
      BY DEF Direction, Directions
    <2> HIDE DEF r, i, q
    <2> QED BY <1>1, <1>2, <1>3, <1>4, <2>1 DEF Movements
  <1>6. /\ stock' = stock /\ ledger' = ledger /\ reserved' = reserved
        /\ wStock' = [wStock EXCEPT ![r] = NewBalance(w)]
        /\ pending' = [pending EXCEPT ![r] = Append(pending[r], m)]
        /\ rowLock' = [rowLock EXCEPT ![r] = w]
    BY DEF Move, ItemDone, SavedBalance
  <1>7. pending[r] \in Seq(Movements) /\ ChainFrom(stock[r], pending[r], wStock[r])
    BY <1>1 DEF TypeOK, UncommittedChains
  <1> HIDE DEF i, r, q, m
  <1>8. ChainFrom(stock[r], Append(pending[r], m), m.after)
    BY <1>2, <1>5, <1>7, ChainAppend
  <1>9. RowsSettled'
    <2>1. w # None
      BY NoneAssumption
    <2> QED BY <1>1, <1>6, <2>1 DEF RowsSettled, TypeOK
  <1>10. LedgerChains' /\ ReservedOnHand'
    BY <1>6 DEF LedgerChains, ReservedOnHand
  <1>11. UncommittedChains'
    BY <1>1, <1>5, <1>6, <1>8 DEF UncommittedChains, TypeOK
  <1>12. UncommittedReserved'
    BY <1>1, <1>2, <1>3, <1>4, <1>6 DEF UncommittedReserved, TypeOK
  <1> QED BY <1>9, <1>10, <1>11, <1>12

LEMMA AdjustBalances ==
  ASSUME TypeOK, BalancesOK, NEW r \in Rows, AdjustStock(r)
  PROVE  BalancesOK'
PROOF
  <1> USE DEF BalancesOK
  <1> DEFINE b == stock[r] - 1
             m == [item |-> None, dir |-> "sale", qty |-> -1,
                   before |-> stock[r], after |-> stock[r] - 1]
  <1>1. /\ stock[r] \in Nat /\ b \in Nat /\ reserved[r] \in Nat /\ reserved[r] <= b
        /\ wStock[r] = stock[r] /\ pending[r] = <<>> /\ rowLock[r] = None
    BY DEF AdjustStock, BalanceAllowed, RowFree, RowsSettled, TypeOK
  <1>2. m \in Movements /\ m.before = stock[r] /\ m.after = m.before + m.qty /\ m.after = b
    BY <1>1 DEF Movements, Directions
  <1>3. /\ stock' = [stock EXCEPT ![r] = b] /\ wStock' = [wStock EXCEPT ![r] = b]
        /\ ledger' = [ledger EXCEPT ![r] = Append(ledger[r], m)]
        /\ pending' = pending /\ rowLock' = rowLock /\ reserved' = reserved
    BY <1>1 DEF AdjustStock
  <1>4. /\ Opening[r] \in Nat /\ ledger[r] \in Seq(Movements)
        /\ ChainFrom(Opening[r], ledger[r], stock[r])
    BY ShapeAssumption DEF TypeOK, LedgerChains
  <1> HIDE DEF m, b
  <1>5. ChainFrom(Opening[r], Append(ledger[r], m), b)
    BY <1>1, <1>2, <1>4, ChainAppend
  <1>6. RowsSettled'
    BY <1>3 DEF RowsSettled, TypeOK
  <1>7. LedgerChains'
    BY <1>3, <1>5 DEF LedgerChains, TypeOK
  <1>8. UncommittedChains'
    BY <1>1, <1>3, EmptyChain DEF UncommittedChains, TypeOK
  <1>9. ReservedOnHand' /\ UncommittedReserved'
    BY <1>1, <1>3 DEF ReservedOnHand, UncommittedReserved, TypeOK
  <1> QED BY <1>6, <1>7, <1>8, <1>9

LEMMA ReserveBalances ==
  ASSUME TypeOK, BalancesOK, NEW r \in Rows, ReserveStock(r)
  PROVE  BalancesOK'
PROOF
  <1> USE DEF BalancesOK
  <1>1. /\ stock' = stock /\ wStock' = wStock /\ ledger' = ledger
        /\ pending' = pending /\ rowLock' = rowLock
        /\ reserved' = [reserved EXCEPT ![r] = @ + 1]
    BY DEF ReserveStock, tenantVars
  <1>2. /\ stock[r] \in Nat /\ reserved[r] \in Nat /\ reserved[r] + 1 <= stock[r]
        /\ wStock[r] = stock[r]
    BY DEF ReserveStock, RowFree, Available, RowsSettled, TypeOK
  <1>3. RowsSettled' /\ LedgerChains' /\ UncommittedChains'
    BY <1>1 DEF RowsSettled, LedgerChains, UncommittedChains
  <1>4. ReservedOnHand' /\ UncommittedReserved'
    BY <1>1, <1>2 DEF ReservedOnHand, UncommittedReserved, TypeOK
  <1> QED BY <1>3, <1>4

LEMMA NextBalances ==
  ASSUME TypeOK, RequestOK, BalancesOK, [Next]_vars
  PROVE  BalancesOK'
PROOF
  <1> USE DEF defaultVars, lockVars, tenantVars, workerVars
  <1>1. ASSUME UNCHANGED <<tenantVars, reserved>>
        PROVE  BalancesOK'
    BY <1>1 DEF BalancesOK, RowsSettled, LedgerChains, UncommittedChains,
                ReservedOnHand, UncommittedReserved
  <1>2. ASSUME NEW w \in Workers, Abandon(w)
        PROVE  BalancesOK'
    BY <1>2, RollbackBalances DEF Abandon
  <1>3. ASSUME NEW w \in Workers, WorkerStep(w)
        PROVE  BalancesOK'
    <2>1. CASE ShortRequest(w)
      <3>1. UNCHANGED <<tenantVars, reserved>>
        BY <2>1 DEF ShortRequest, Approve, Cancel, DestroyRefused, DestroyItems,
                    DestroyTransfer, Finish
      <3> QED BY <1>1, <3>1
    <2>2. CASE LockTransfer(w) \/ LockSource(w) \/ LockDestination(w) \/ Pick(w)
      <3>1. UNCHANGED <<tenantVars, reserved>>
        BY <2>2 DEF LockTransfer, LockSource, LockDestination, Pick
      <3> QED BY <1>1, <3>1
    <2>3. CASE Refused(w) \/ PickRefused(w) \/ MoveRefused(w)
      <3>1. Abandon(w)
        BY <2>3 DEF Refused, PickRefused, MoveRefused
      <3> QED BY <1>2, <3>1
    <2>4. CASE MoveAgain(w) \/ DefaultCommit(w)
      <3>1. UNCHANGED <<tenantVars, reserved>>
        BY <2>4 DEF MoveAgain, ItemDone, DefaultCommit
      <3> QED BY <1>1, <3>1
    <2>5. CASE Move(w)
      BY <2>5, MoveBalances
    <2>6. CASE TenantCommit(w)
      BY <2>6, CommitBalances DEF TenantCommit
    <2> QED BY <1>3, <2>1, <2>2, <2>3, <2>4, <2>5, <2>6 DEF WorkerStep, Dispatching
  <1>4. ASSUME NEW w \in Workers, Crash(w) \/ DeadlockVictim(w)
        PROVE  BalancesOK'
    BY <1>2, <1>4 DEF Crash, DeadlockVictim
  <1>5. ASSUME NEW w \in Workers, NEW t \in Transfers, NEW op \in Operations, Load(w, op, t)
        PROVE  BalancesOK'
    BY <1>1, <1>5 DEF Load
  <1>6. ASSUME NEW t \in Transfers, Create(t)
        PROVE  BalancesOK'
    BY <1>1, <1>6 DEF Create
  <1>7. CASE OtherFlows
    <2>1. ASSUME NEW r \in Rows, AdjustStock(r) \/ ReserveStock(r)
          PROVE  BalancesOK'
      BY <2>1, AdjustBalances, ReserveBalances
    <2>2. ASSUME NEW c \in Branches \X Products,
                 ToggleProduct(c) \/ SoftDeleteProduct(c)
          PROVE  BalancesOK'
      BY <1>1, <2>2 DEF ToggleProduct, SoftDeleteProduct
    <2> QED BY <1>7, <2>1, <2>2 DEF OtherFlows
  <1>8. CASE UNCHANGED vars
    BY <1>1, <1>8 DEF vars
  <1> QED BY <1>3, <1>4, <1>5, <1>6, <1>7, <1>8 DEF Next

----
LEMMA InitOK ==
  ASSUME Init PROVE TypeOK /\ RequestOK /\ BalancesOK
PROOF
  <1>1. <<>> \in Seq(Movements)
    BY EmptySeq
  <1>2. TypeOK
    <2>1. catalog \in [Branches \X Products -> SUBSET {"row", "active", "deleted"}]
      BY DEF Init
    <2>2. \A t \in Transfers : "UNSAVED" \in Statuses
      BY DEF Statuses
    <2>3. req \in [Workers -> [op : Operations \union {"none"},
                               xfer : Transfers \union {None}, seen : Statuses]]
      BY DEF Init, Idle, Statuses
    <2>4. ledger \in [Rows -> Seq(Movements)] /\ pending \in [Rows -> Seq(Movements)]
      BY <1>1 DEF Init
    <2> QED BY <2>1, <2>2, <2>3, <2>4, ShapeAssumption DEF Init, TypeOK, PCs
  <1>3. RequestOK
    BY DEF Init, RequestOK
  <1>4. BalancesOK
    BY EmptyChain, ShapeAssumption
       DEF Init, BalancesOK, RowsSettled, LedgerChains, UncommittedChains,
           ReservedOnHand, UncommittedReserved
  <1> QED BY <1>2, <1>3, <1>4

\* Type correctness of the transfer workflow.
THEOREM TypeCorrect == Spec => []TypeOK
PROOF
  <1>1. Init => TypeOK /\ RequestOK /\ BalancesOK
    BY InitOK
  <1>2. TypeOK /\ RequestOK /\ BalancesOK /\ [Next]_vars
          => (TypeOK /\ RequestOK /\ BalancesOK)'
    BY NextTypeOK, NextBalances DEF BalancesOK
  <1> QED BY <1>1, <1>2, PTL DEF Spec

\* For any transfers, branches, workers and crashes, the movements of every
\* stock row are an unbroken chain of balances that ends in current_stock:
\* no update of _move or of the flows that share the row is ever lost.
THEOREM LedgersNeverBreak == Spec => []LedgerChains
PROOF
  <1>1. Init => TypeOK /\ RequestOK /\ BalancesOK
    BY InitOK
  <1>2. TypeOK /\ RequestOK /\ BalancesOK /\ [Next]_vars
          => (TypeOK /\ RequestOK /\ BalancesOK)'
    BY NextTypeOK, NextBalances DEF BalancesOK
  <1>3. BalancesOK => LedgerChains
    BY DEF BalancesOK
  <1> QED BY <1>1, <1>2, <1>3, PTL DEF Spec

\* No transfer takes a row below what is reserved for confirmed orders.
THEOREM ReservationsRespected == Spec => []ReservedOnHand
PROOF
  <1>1. Init => TypeOK /\ RequestOK /\ BalancesOK
    BY InitOK
  <1>2. TypeOK /\ RequestOK /\ BalancesOK /\ [Next]_vars
          => (TypeOK /\ RequestOK /\ BalancesOK)'
    BY NextTypeOK, NextBalances DEF BalancesOK
  <1>3. BalancesOK => ReservedOnHand
    BY DEF BalancesOK
  <1> QED BY <1>1, <1>2, <1>3, PTL DEF Spec

\* For any transfers, branches, workers and crashes, a stock row is one unbroken chain of
\* movements, and the goods reserved for confirmed orders are on hand.
THEOREM LedgersStaySound == Spec => []LedgerSound
PROOF
  <1>1. LedgerChains /\ ReservedOnHand => LedgerSound
    BY DEF LedgerSound
  <1> QED BY <1>1, LedgersNeverBreak, ReservationsRespected, PTL
----
(* Idempotence, and goods. *)


\* All movements of a stock row, the uncommitted ones last.
Book(r) == ledger[r] \o pending[r]

\* The branch and the signed quantity of the movement keyed by (i, dir).
HomeOf(i, dir) == IF dir = "out" THEN FromBranch[TransferOf[i]] ELSE ToBranch[TransferOf[i]]
QtyOf(i, dir) == IF dir = "out" THEN -RequestedQty[i] ELSE RequestedQty[i]

\* A movement m of row r is a sale, or the one its key asks for; an arrival
\* has its departure committed.
EntryOK(r, m) ==
  IF m.item = None THEN m.dir = "sale"
  ELSE /\ m.dir \in {"out", "in"}
       /\ r[1] = HomeOf(m.item, m.dir)
       /\ m.qty = QtyOf(m.item, m.dir)
       /\ m.dir = "in" => Booked(m.item, "out")

CommittedEntries ==
  \A r \in Rows : \A k \in DOMAIN ledger[r] : EntryOK(r, ledger[r][k])

\* An uncommitted movement belongs to the request of the worker with the row.
PendingOK(r, k) ==
  LET m == pending[r][k]
      w == rowLock[r] IN
  /\ EntryOK(r, m)
  /\ m.item \in Items /\ m.item \notin todo[w]
  /\ TransferOf[m.item] = req[w].xfer
  /\ m.dir = Direction(req[w].op)

PendingEntries == \A r \in Rows : \A k \in DOMAIN pending[r] : PendingOK(r, k)

\* MovedOnce, uncommitted movements included.
BookedOnce ==
  \A r, s \in Rows : \A j \in DOMAIN Book(r) : \A k \in DOMAIN Book(s) :
    (/\ Book(r)[j].item # None
     /\ Book(r)[j].item = Book(s)[k].item
     /\ Book(r)[j].dir = Book(s)[k].dir) => (r = s /\ j = k)

MovingPCs == {"own_branches", "picked"}
ServicePCs == MovingPCs \union {"tenant_committed"}
HoldingPCs == ServicePCs \union {"own_transfer", "own_source"}

\* A service call owns the workflow row until it ends, goes on only from a
\* status it accepts, and has a list of items only in its branch transaction.
WorkerOK(w) ==
  /\ pc[w] \in HoldingPCs => xferLock[req[w].xfer] = w
  /\ pc[w] \in ServicePCs => Accepts(req[w].op, status[req[w].xfer])
  /\ todo[w] \subseteq ItemsOf(req[w].xfer)
  /\ todo[w] # {} => pc[w] \in MovingPCs
  /\ pc[w] = "picked" =>
       /\ target[w][1] \in todo[w]
       /\ target[w][2][1] = HomeOf(target[w][1], Direction(req[w].op))

\* Stock rows are locked only while the branch transaction runs.
RowsOwned == \A r \in Rows : rowLock[r] # None => pc[rowLock[r]] \in MovingPCs

\* Worker w sees the movement of item i that its request is about.
Seen(w, i) ==
  KeyedRows(w, HomeOf(i, Direction(req[w].op)), i, Direction(req[w].op)) # {}

\* Items that are off the list have their movement.
ItemsSeen(w) ==
  /\ pc[w] \in MovingPCs =>
       \A i \in Items : TransferOf[i] = req[w].xfer /\ i \notin todo[w] => Seen(w, i)
  /\ pc[w] = "tenant_committed" =>
       \A i \in Items : TransferOf[i] = req[w].xfer => Booked(i, Direction(req[w].op))

DispatchedOK == \A i \in Items : dispatched[i] \in {0, RequestedQty[i]}

DataOK ==
  /\ CommittedEntries /\ PendingEntries /\ BookedOnce
  /\ DispatchedOK /\ StatusBacked /\ WholeTransfers

ControlOK == RowsOwned /\ \A w \in Workers : WorkerOK(w) /\ ItemsSeen(w)

MovesOK == DataOK /\ ControlOK

BaseOK == TypeOK /\ RequestOK /\ BalancesOK

----
\* Movements of Book(r): those of the ledger, then the pending ones.
LEMMA BookFacts ==
  ASSUME TypeOK, NEW r \in Rows
  PROVE  /\ Book(r) \in Seq(Movements)
         /\ Len(ledger[r]) \in Nat /\ Len(pending[r]) \in Nat
         /\ DOMAIN ledger[r] = 1 .. Len(ledger[r])
         /\ DOMAIN pending[r] = 1 .. Len(pending[r])
         /\ DOMAIN Book(r) = 1 .. (Len(ledger[r]) + Len(pending[r]))
         /\ \A k \in DOMAIN ledger[r] : k \in DOMAIN Book(r) /\ Book(r)[k] = ledger[r][k]
         /\ \A k \in DOMAIN pending[r] :
              /\ k + Len(ledger[r]) \in DOMAIN Book(r)
              /\ Book(r)[k + Len(ledger[r])] = pending[r][k]
         /\ \A k \in DOMAIN Book(r) :
              \/ k \in DOMAIN ledger[r] /\ Book(r)[k] = ledger[r][k]
              \/ /\ k - Len(ledger[r]) \in DOMAIN pending[r]
                 /\ Book(r)[k] = pending[r][k - Len(ledger[r])]
PROOF
  <1>1. ledger[r] \in Seq(Movements) /\ pending[r] \in Seq(Movements)
    BY DEF TypeOK
  <1>2. /\ Book(r) \in Seq(Movements)
        /\ Len(Book(r)) = Len(ledger[r]) + Len(pending[r])
        /\ \A k \in 1 .. (Len(ledger[r]) + Len(pending[r])) :
             Book(r)[k] = IF k <= Len(ledger[r]) THEN ledger[r][k]
                          ELSE pending[r][k - Len(ledger[r])]
    BY <1>1, ConcatProperties DEF Book
  <1>3. /\ Len(ledger[r]) \in Nat /\ Len(pending[r]) \in Nat
        /\ DOMAIN ledger[r] = 1 .. Len(ledger[r])
        /\ DOMAIN pending[r] = 1 .. Len(pending[r])
        /\ DOMAIN Book(r) = 1 .. (Len(ledger[r]) + Len(pending[r]))
    BY <1>1, <1>2, LenProperties
  <1> DEFINE a == Len(ledger[r])
             b == Len(pending[r])
  <1> HIDE DEF a, b
  <1>4. /\ a \in Nat /\ b \in Nat
        /\ DOMAIN ledger[r] = 1 .. a /\ DOMAIN pending[r] = 1 .. b
        /\ DOMAIN Book(r) = 1 .. (a + b)
        /\ \A k \in 1 .. (a + b) :
             Book(r)[k] = IF k <= a THEN ledger[r][k] ELSE pending[r][k - a]
    BY <1>2, <1>3 DEF a, b
  <1>5. ASSUME NEW k \in 1 .. a
        PROVE  k \in 1 .. (a + b) /\ Book(r)[k] = ledger[r][k]
    <2>1. k \in 1 .. (a + b) /\ k <= a
      BY <1>4
    <2> QED BY <1>4, <2>1
  <1>6. ASSUME NEW k \in 1 .. b
        PROVE  k + a \in 1 .. (a + b) /\ Book(r)[k + a] = pending[r][k]
    <2>1. k + a \in 1 .. (a + b) /\ ~(k + a <= a) /\ (k + a) - a = k
      BY <1>4
    <2> QED BY <1>4, <2>1
  <1>7. ASSUME NEW k \in 1 .. (a + b)
        PROVE  \/ k \in 1 .. a /\ Book(r)[k] = ledger[r][k]
               \/ k - a \in 1 .. b /\ Book(r)[k] = pending[r][k - a]
    <2>1. CASE k <= a
      BY <1>4, <2>1
    <2>2. CASE ~(k <= a)
      <3>1. k - a \in 1 .. b
        BY <1>4, <2>2
      <3> QED BY <1>4, <2>2, <3>1
    <2> QED BY <2>1, <2>2
  <1> QED BY <1>2, <1>3, <1>4, <1>5, <1>6, <1>7 DEF a, b

\* What worker w sees in row r.
LEMMA KeyedFacts ==
  ASSUME TypeOK, NEW w \in Workers, NEW b, NEW i, NEW dir, NEW r \in Rows
  PROVE  r \in KeyedRows(w, b, i, dir) <=>
           /\ r[1] = b
           /\ \/ \E k \in DOMAIN ledger[r] : ledger[r][k].item = i /\ ledger[r][k].dir = dir
              \/ /\ rowLock[r] = w
                 /\ \E k \in DOMAIN pending[r] :
                      pending[r][k].item = i /\ pending[r][k].dir = dir
PROOF
  <1>1. CASE rowLock[r] = w
    <2>1. Visible(w, r) = Book(r)
      BY <1>1 DEF Visible, Book
    <2>2. r \in KeyedRows(w, b, i, dir) <=>
            r[1] = b /\ \E k \in DOMAIN Book(r) : Book(r)[k].item = i /\ Book(r)[k].dir = dir
      <3>1. r \in KeyedRows(w, b, i, dir) <=>
              r[1] = b /\ \E k \in DOMAIN Visible(w, r) :
                            Visible(w, r)[k].item = i /\ Visible(w, r)[k].dir = dir
        BY DEF KeyedRows
      <3> QED BY <2>1, <3>1
    <2>3. (\E k \in DOMAIN Book(r) : Book(r)[k].item = i /\ Book(r)[k].dir = dir)
            => \/ \E k \in DOMAIN ledger[r] : ledger[r][k].item = i /\ ledger[r][k].dir = dir
               \/ \E k \in DOMAIN pending[r] : pending[r][k].item = i /\ pending[r][k].dir = dir
      <3> SUFFICES ASSUME NEW k \in DOMAIN Book(r),
                          Book(r)[k].item = i /\ Book(r)[k].dir = dir
                   PROVE  \/ \E n \in DOMAIN ledger[r] : ledger[r][n].item = i /\ ledger[r][n].dir = dir
                          \/ \E n \in DOMAIN pending[r] : pending[r][n].item = i /\ pending[r][n].dir = dir
        OBVIOUS
      <3>1. \/ k \in DOMAIN ledger[r] /\ Book(r)[k] = ledger[r][k]
            \/ /\ k - Len(ledger[r]) \in DOMAIN pending[r]
               /\ Book(r)[k] = pending[r][k - Len(ledger[r])]
        BY BookFacts
      <3> QED BY <3>1
    <2>4. (\E k \in DOMAIN ledger[r] : ledger[r][k].item = i /\ ledger[r][k].dir = dir)
            => \E k \in DOMAIN Book(r) : Book(r)[k].item = i /\ Book(r)[k].dir = dir
      BY BookFacts
    <2>5. (\E k \in DOMAIN pending[r] : pending[r][k].item = i /\ pending[r][k].dir = dir)
            => \E k \in DOMAIN Book(r) : Book(r)[k].item = i /\ Book(r)[k].dir = dir
      <3> SUFFICES ASSUME NEW k \in DOMAIN pending[r],
                          pending[r][k].item = i /\ pending[r][k].dir = dir
                   PROVE  \E n \in DOMAIN Book(r) : Book(r)[n].item = i /\ Book(r)[n].dir = dir
        OBVIOUS
      <3>1. /\ k + Len(ledger[r]) \in DOMAIN Book(r)
            /\ Book(r)[k + Len(ledger[r])] = pending[r][k]
        BY BookFacts
      <3> QED BY <3>1
    <2> QED BY <1>1, <2>2, <2>3, <2>4, <2>5
  <1>2. CASE rowLock[r] # w
    <2>1. Visible(w, r) = ledger[r]
      BY <1>2 DEF Visible
    <2> QED BY <1>2, <2>1 DEF KeyedRows
  <1> QED BY <1>1, <1>2

\* BookedOnce only looks at the movements that a row has.
LEMMA FewerBooked ==
  ASSUME BookedOnce,
         \A r \in Rows : \A k \in DOMAIN Book(r)' :
           k \in DOMAIN Book(r) /\ Book(r)'[k] = Book(r)[k]
  PROVE  BookedOnce'
PROOF BY DEF BookedOnce

----
(* What a step that only adds movements keeps. *)

\* The sequence t starts with s.
Grows(s, t) == \A k \in DOMAIN s : k \in DOMAIN t /\ t[k] = s[k]

LEMMA BookedKept ==
  ASSUME \A r \in Rows : Grows(ledger[r], ledger'[r])
  PROVE  /\ \A i, d : Booked(i, d) => Booked(i, d)'
         /\ \A r, m : EntryOK(r, m) => EntryOK(r, m)'
PROOF
  <1>1. \A i, d : Booked(i, d) => Booked(i, d)'
    BY DEF Booked, Grows
  <1>2. \A r, m : EntryOK(r, m) => EntryOK(r, m)'
    BY <1>1 DEF EntryOK, HomeOf, QtyOf
  <1> QED BY <1>1, <1>2

LEMMA SeenKept ==
  ASSUME NEW w, req'[w] = req[w], NEW i, Seen(w, i),
         \A r \in Rows : Grows(Visible(w, r), Visible(w, r)')
  PROVE  Seen(w, i)'
PROOF
  <1>1. \A b, d : KeyedRows(w, b, i, d) \subseteq KeyedRows(w, b, i, d)'
    BY DEF KeyedRows, Grows
  <1> QED BY <1>1 DEF Seen, HomeOf, Direction

\* What a worker that the step is not about may rely on.
Untouched(v) ==
  /\ pc'[v] = pc[v] /\ req'[v] = req[v] /\ todo'[v] = todo[v] /\ target'[v] = target[v]
  /\ pc[v] \in HoldingPCs => xferLock'[req[v].xfer] = xferLock[req[v].xfer]
  /\ pc[v] \in ServicePCs => status'[req[v].xfer] = status[req[v].xfer]
  /\ \A r \in Rows : Grows(Visible(v, r), Visible(v, r)')

LEMMA BystanderOK ==
  ASSUME NEW v, WorkerOK(v), ItemsSeen(v), Untouched(v),
         \A r \in Rows : Grows(ledger[r], ledger'[r])
  PROVE  WorkerOK(v)' /\ ItemsSeen(v)'
PROOF
  <1>1. WorkerOK(v)'
    BY DEF WorkerOK, Untouched, Accepts, HomeOf, Direction, ItemsOf
  <1>2. \A i : Seen(v, i) => Seen(v, i)'
    BY SeenKept DEF Untouched
  <1>3. \A i : Booked(i, Direction(req[v].op)) => Booked(i, Direction(req[v].op))'
    <2>1. \A i, d : Booked(i, d) => Booked(i, d)'
      BY BookedKept
    <2> QED BY <2>1 DEF Untouched, Direction, Booked
  <1>4. ItemsSeen(v)'
    BY <1>2, <1>3 DEF ItemsSeen, Untouched, MovingPCs
  <1> QED BY <1>1, <1>4

----
(* Steps of one worker, or of none, that add no movement. *)

\* Row r keeps its uncommitted movements, which worker w may have ...
Kept(w, r) ==
  /\ pending'[r] = pending[r] /\ rowLock'[r] = rowLock[r]
  /\ rowLock[r] = w =>
       req'[w] = req[w] /\ todo'[w] \subseteq todo[w] /\ pc'[w] \in MovingPCs

\* ... or loses them.
Freed(w, r) == rowLock[r] = w /\ pending'[r] = <<>> /\ rowLock'[r] = None

LocalStep(w) ==
  /\ ledger' = ledger /\ dispatched' = dispatched /\ received' = received
  /\ \A r \in Rows : Kept(w, r) \/ Freed(w, r)
  /\ \A v \in Workers \ {w} :
       pc'[v] = pc[v] /\ req'[v] = req[v] /\ todo'[v] = todo[v] /\ target'[v] = target[v]
  /\ \A t \in Transfers : xferLock'[t] = xferLock[t] \/ xferLock[t] \in {None, w}
  /\ \A t \in Transfers : status'[t] = status[t] \/
       /\ status'[t] \notin {"IN_TRANSIT", "RECEIVED"}
       /\ xferLock[t] = None \/ status[t] = "UNSAVED"

LEMMA LocalData ==
  ASSUME BaseOK, MovesOK, NEW w, LocalStep(w), w \notin Workers => w = None
  PROVE  DataOK' /\ RowsOwned'
PROOF
  <1>1. ledger' = ledger
    BY DEF LocalStep
  <1>2. /\ \A i, d : Booked(i, d)' <=> Booked(i, d)
        /\ \A r, m : EntryOK(r, m)' <=> EntryOK(r, m)
    <2>1. \A i, d : Booked(i, d)' <=> Booked(i, d)
      BY <1>1 DEF Booked
    <2> QED BY <2>1 DEF EntryOK, HomeOf, QtyOf
  <1>3. CommittedEntries' /\ WholeTransfers'
    BY <1>1, <1>2 DEF MovesOK, DataOK, CommittedEntries, WholeTransfers
  <1>4. ASSUME NEW r \in Rows, NEW k \in DOMAIN pending'[r]
        PROVE  PendingOK(r, k)'
    <2>1. Kept(w, r)
      BY <1>4 DEF LocalStep, Freed
    <2>2. pending'[r] = pending[r] /\ rowLock'[r] = rowLock[r] /\ k \in DOMAIN pending[r]
      BY <1>4, <2>1 DEF Kept
    <2>3. rowLock[r] \in Workers
      <3>1. rowLock[r] # None
        BY <2>2 DEF BaseOK, BalancesOK, RowsSettled
      <3> QED BY <3>1 DEF BaseOK, TypeOK
    <2>4. req'[rowLock[r]] = req[rowLock[r]] /\ todo'[rowLock[r]] \subseteq todo[rowLock[r]]
      BY <2>1, <2>3 DEF Kept, LocalStep
    <2>5. PendingOK(r, k)
      BY <2>2 DEF MovesOK, DataOK, PendingEntries
    <2>6. EntryOK(r, pending[r][k])'
      <3>1. EntryOK(r, pending[r][k])
        BY <2>5 DEF PendingOK
      <3> QED BY <1>2, <2>2, <3>1 DEF EntryOK, HomeOf, QtyOf, Booked
    <2> QED BY <2>2, <2>4, <2>5, <2>6 DEF PendingOK, Direction
  <1>5. BookedOnce'
    <2>1. ASSUME NEW r \in Rows, NEW k \in DOMAIN Book(r)'
          PROVE  k \in DOMAIN Book(r) /\ Book(r)'[k] = Book(r)[k]
      <3>1. CASE Kept(w, r)
        BY <1>1, <2>1, <3>1 DEF Kept, Book
      <3>2. CASE Freed(w, r)
        <4>1. ledger[r] \in Seq(Movements) /\ Book(r)' = ledger[r]
          BY <1>1, <3>2 DEF Freed, Book, BaseOK, TypeOK
        <4>2. k \in DOMAIN ledger[r]
          BY <2>1, <4>1
        <4>3. k \in DOMAIN Book(r) /\ Book(r)[k] = ledger[r][k]
          BY <4>2, BookFacts DEF BaseOK
        <4> QED BY <4>1, <4>3
      <3> QED BY <3>1, <3>2 DEF LocalStep
    <2> QED BY <2>1, FewerBooked DEF MovesOK, DataOK
  <1>6. DispatchedOK'
    BY DEF DispatchedOK, MovesOK, DataOK, LocalStep
  <1>7. StatusBacked'
    <2>1. \A i \in Items : TransferOf[i] \in Transfers
      BY ShapeAssumption
    <2>2. \A i \in Items :
            status'[TransferOf[i]] \in {"IN_TRANSIT", "RECEIVED"} =>
              status'[TransferOf[i]] = status[TransferOf[i]]
      BY <2>1 DEF LocalStep
    <2>3. dispatched' = dispatched /\ received' = received /\ StatusBacked
      BY DEF LocalStep, MovesOK, DataOK
    <2> QED BY <1>2, <2>2, <2>3 DEF StatusBacked
  <1>8. RowsOwned'
    <2> SUFFICES ASSUME NEW r \in Rows, rowLock'[r] # None
                 PROVE  pc'[rowLock'[r]] \in MovingPCs
      BY DEF RowsOwned
    <2>1. Kept(w, r) /\ rowLock'[r] = rowLock[r]
      BY DEF LocalStep, Freed, Kept
    <2>2. rowLock[r] \in Workers /\ pc[rowLock[r]] \in MovingPCs
      BY <2>1 DEF BaseOK, TypeOK, MovesOK, ControlOK, RowsOwned
    <2> QED BY <2>1, <2>2 DEF Kept, LocalStep
  <1> QED BY <1>3, <1>4, <1>5, <1>6, <1>7, <1>8 DEF DataOK, PendingEntries

LEMMA LocalBystanders ==
  ASSUME BaseOK, MovesOK, NEW w, LocalStep(w), NEW v \in Workers, v # w
  PROVE  WorkerOK(v)' /\ ItemsSeen(v)'
PROOF
  <1>1. /\ pc'[v] = pc[v] /\ req'[v] = req[v] /\ todo'[v] = todo[v] /\ target'[v] = target[v]
        /\ ledger' = ledger
    BY DEF LocalStep
  <1>2. WorkerOK(v) /\ ItemsSeen(v)
    BY DEF MovesOK, ControlOK
  <1>3. ASSUME pc[v] \in HoldingPCs
        PROVE  /\ xferLock'[req[v].xfer] = xferLock[req[v].xfer]
               /\ pc[v] \in ServicePCs => status'[req[v].xfer] = status[req[v].xfer]
    <2>1. req[v].xfer \in Transfers
      BY <1>3 DEF BaseOK, RequestOK, HoldingPCs, ServicePCs, MovingPCs
    <2>2. xferLock[req[v].xfer] = v
      BY <1>2, <1>3 DEF WorkerOK
    <2>3. xferLock'[req[v].xfer] = xferLock[req[v].xfer]
      BY <2>1, <2>2, NoneAssumption DEF LocalStep
    <2>4. pc[v] \in ServicePCs => status[req[v].xfer] # "UNSAVED"
      BY <1>2 DEF WorkerOK, Accepts
    <2> QED BY <2>1, <2>2, <2>3, <2>4, NoneAssumption DEF LocalStep
  <1>4. \A r \in Rows : Visible(v, r)' = Visible(v, r)
    <2> SUFFICES ASSUME NEW r \in Rows PROVE Visible(v, r)' = Visible(v, r)
      OBVIOUS
    <2>1. CASE Kept(w, r)
      BY <1>1, <2>1 DEF Kept, Visible
    <2>2. CASE Freed(w, r)
      BY <1>1, <2>2, NoneAssumption DEF Freed, Visible
    <2> QED BY <2>1, <2>2 DEF LocalStep
  <1>5. Untouched(v)
    BY <1>1, <1>3, <1>4 DEF Untouched, Grows, ServicePCs, HoldingPCs
  <1> QED BY <1>1, <1>2, <1>5, BystanderOK DEF Grows

LEMMA LocalMoves ==
  ASSUME BaseOK, MovesOK, NEW w, LocalStep(w), w \notin Workers => w = None,
         w \in Workers => WorkerOK(w)' /\ ItemsSeen(w)'
  PROVE  MovesOK'
PROOF
  <1>1. DataOK' /\ RowsOwned'
    BY LocalData
  <1>2. \A v \in Workers : WorkerOK(v)' /\ ItemsSeen(v)'
    BY LocalBystanders
  <1> QED BY <1>1, <1>2 DEF MovesOK, ControlOK

\* A step of a worker outside of its branch transaction.
Outside(w) ==
  /\ pc[w] \notin MovingPCs /\ pc'[w] \notin ServicePCs
  /\ UNCHANGED <<dispatched, received, ledger, pending, rowLock, todo, target>>
  /\ \A v \in Workers \ {w} : pc'[v] = pc[v] /\ req'[v] = req[v]
  /\ \A t \in Transfers : xferLock'[t] = xferLock[t] \/ xferLock[t] \in {None, w}
  /\ \A t \in Transfers : status'[t] = status[t] \/
       /\ status'[t] \notin {"IN_TRANSIT", "RECEIVED"}
       /\ xferLock[t] = None
  /\ pc'[w] \in HoldingPCs => xferLock'[req'[w].xfer] = w

LEMMA OutsideStep ==
  ASSUME BaseOK, MovesOK, NEW w \in Workers, Outside(w)
  PROVE  MovesOK'
PROOF
  <1> USE DEF Outside
  <1>1. WorkerOK(w) /\ todo[w] = {} /\ todo'[w] = {}
    BY DEF MovesOK, ControlOK, WorkerOK
  <1>2. \A r \in Rows : rowLock[r] # w
    BY NoneAssumption DEF MovesOK, ControlOK, RowsOwned
  <1>3. LocalStep(w)
    BY <1>2 DEF LocalStep, Kept
  <1>4. WorkerOK(w)' /\ ItemsSeen(w)'
    BY <1>1 DEF WorkerOK, ItemsSeen, ServicePCs, MovingPCs
  <1> QED BY <1>3, <1>4, LocalMoves

LEMMA AbandonMoves ==
  ASSUME BaseOK, MovesOK, NEW w \in Workers, Abandon(w)
  PROVE  MovesOK'
PROOF
  <1>1. /\ ledger' = ledger /\ dispatched' = dispatched /\ received' = received
        /\ status' = status
        /\ pc' = [pc EXCEPT ![w] = "idle"] /\ req' = [req EXCEPT ![w] = Idle]
        /\ todo' = [todo EXCEPT ![w] = {}] /\ target' = [target EXCEPT ![w] = None]
    BY DEF Abandon, RollbackRows, defaultVars
  <1>2. \A r \in Rows : Kept(w, r) \/ Freed(w, r)
    BY DEF Abandon, RollbackRows, Kept, Freed
  <1>3. \A t \in Transfers : xferLock'[t] = xferLock[t] \/ xferLock[t] = w
    BY DEF Abandon, ReleaseLocks, FreedBy, BaseOK, TypeOK
  <1>4. \A v \in Workers \ {w} :
          pc'[v] = pc[v] /\ req'[v] = req[v] /\ todo'[v] = todo[v] /\ target'[v] = target[v]
    BY <1>1 DEF BaseOK, TypeOK
  <1>5. LocalStep(w)
    BY <1>1, <1>2, <1>3, <1>4 DEF LocalStep
  <1>6. pc'[w] = "idle" /\ todo'[w] = {}
    BY <1>1 DEF BaseOK, TypeOK
  <1>7. WorkerOK(w)' /\ ItemsSeen(w)'
    BY <1>6 DEF WorkerOK, ItemsSeen, HoldingPCs, ServicePCs, MovingPCs
  <1> QED BY <1>5, <1>7, LocalMoves

\* Requests that never reach the branch transaction, and the first two locks.
LEMMA ShortMoves ==
  ASSUME BaseOK, MovesOK, NEW w \in Workers,
         \/ \E t \in Transfers, op \in Operations : Load(w, op, t)
         \/ ShortRequest(w) \/ LockTransfer(w) \/ LockSource(w)
  PROVE  MovesOK'
PROOF
  <1> USE DEF defaultVars, lockVars, tenantVars, workerVars, MovingPCs, ServicePCs,
              HoldingPCs
  <1>1. TypeOK /\ RequestOK /\ WorkerOK(w)
    BY DEF BaseOK, MovesOK, ControlOK
  <1>2. CASE \E t \in Transfers, op \in Operations : Load(w, op, t)
    <2>1. Outside(w)
      BY <1>1, <1>2 DEF Outside, Load, TypeOK
    <2> QED BY <2>1, OutsideStep
  <1>3. CASE Approve(w) \/ Cancel(w)
    <2>1. Outside(w)
      BY <1>1, <1>3 DEF Outside, Approve, Cancel, SaveStatus, Finish, TypeOK
    <2> QED BY <2>1, OutsideStep
  <1>4. CASE DestroyRefused(w)
    <2>1. Outside(w)
      BY <1>1, <1>4 DEF Outside, DestroyRefused, Finish, TypeOK
    <2> QED BY <2>1, OutsideStep
  <1>5. CASE DestroyItems(w)
    <2>1. Outside(w)
      BY <1>1, <1>5 DEF Outside, DestroyItems, TypeOK
    <2> QED BY <2>1, OutsideStep
  <1>6. CASE DestroyTransfer(w)
    <2>1. Outside(w)
      BY <1>1, <1>6 DEF Outside, DestroyTransfer, TypeOK
    <2> QED BY <2>1, OutsideStep
  <1>7. CASE LockTransfer(w)
    <2>1. Outside(w)
      BY <1>1, <1>7 DEF Outside, LockTransfer, TypeOK, RequestOK
    <2> QED BY <2>1, OutsideStep
  <1>8. CASE LockSource(w)
    <2>1. Outside(w)
      BY <1>1, <1>8 DEF Outside, LockSource, TypeOK, WorkerOK
    <2> QED BY <2>1, OutsideStep
  <1> QED BY <1>2, <1>3, <1>4, <1>5, <1>6, <1>7, <1>8 DEF ShortRequest

LEMMA LockDestinationMoves ==
  ASSUME BaseOK, MovesOK, NEW w \in Workers, LockDestination(w)
  PROVE  MovesOK'
PROOF
  <1> USE DEF LockDestination, defaultVars, tenantVars, MovingPCs, ServicePCs, HoldingPCs
  <1>1. TypeOK /\ WorkerOK(w) /\ pc[w] = "own_source"
    BY DEF BaseOK, MovesOK, ControlOK
  <1>2. /\ pc'[w] = "own_branches" /\ req' = req /\ xferLock' = xferLock /\ status' = status
        /\ todo'[w] = ItemsOf(req[w].xfer)
    BY <1>1 DEF TypeOK
  <1>3. \A r \in Rows : rowLock[r] # w
    BY <1>1, NoneAssumption DEF MovesOK, ControlOK, RowsOwned
  <1>4. LocalStep(w)
    BY <1>1, <1>2, <1>3 DEF LocalStep, Kept, TypeOK
  <1>5. WorkerOK(w)'
    BY <1>1, <1>2 DEF WorkerOK, ItemsOf
  <1>6. ItemsSeen(w)'
    BY <1>2 DEF ItemsSeen, ItemsOf
  <1> QED BY <1>4, <1>5, <1>6, LocalMoves

\* The rows that the loop body chooses are in the branch that the item moves in.
LEMMA TargetHome ==
  ASSUME NEW w, NEW i, NEW r \in TargetRows(w, i)
  PROVE  r[1] = HomeOf(i, Direction(req[w].op))
PROOF
  <1>1. CASE req[w].op = "dispatch"
    <2>1. r \in SourceRows(w, i)
      BY <1>1 DEF TargetRows
    <2>2. r[1] = FromBranch[TransferOf[i]]
      BY <2>1 DEF SourceRows, RowsOf, KeyedRows
    <2> QED BY <1>1, <2>2 DEF Direction, HomeOf
  <1>2. CASE req[w].op # "dispatch"
    <2>1. r = DestinationRow(i)
      BY <1>2 DEF TargetRows
    <2> QED BY <1>2, <2>1 DEF Direction, HomeOf, DestinationRow
  <1> QED BY <1>1, <1>2

LEMMA PickMoves ==
  ASSUME BaseOK, MovesOK, NEW w \in Workers, Pick(w)
  PROVE  MovesOK'
PROOF
  <1> USE DEF defaultVars, tenantVars, lockVars
  <1>1. TypeOK /\ WorkerOK(w) /\ ItemsSeen(w)
    BY DEF BaseOK, MovesOK, ControlOK
  <1>2. PICK i \in todo[w] : \E r \in TargetRows(w, i) :
               target' = [target EXCEPT ![w] = <<i, r>>]
    BY DEF Pick
  <1>3. PICK r \in TargetRows(w, i) : target' = [target EXCEPT ![w] = <<i, r>>]
    BY <1>2
  <1>4. /\ pc[w] = "own_branches" /\ pc' = [pc EXCEPT ![w] = "picked"]
        /\ req' = req /\ todo' = todo /\ xferLock' = xferLock /\ status' = status
        /\ dispatched' = dispatched /\ received' = received
        /\ ledger' = ledger /\ pending' = pending /\ rowLock' = rowLock
    BY DEF Pick
  <1>5. pc'[w] = "picked" /\ target'[w] = <<i, r>>
    BY <1>1, <1>3, <1>4 DEF TypeOK
  <1>6. LocalStep(w)
    BY <1>1, <1>3, <1>4, <1>5 DEF LocalStep, Kept, TypeOK, MovingPCs
  <1>7. WorkerOK(w)'
    <2>1. r[1] = HomeOf(i, Direction(req[w].op))
      BY TargetHome
    <2> QED BY <1>1, <1>2, <1>4, <1>5, <2>1
            DEF WorkerOK, HoldingPCs, ServicePCs, MovingPCs, HomeOf, ItemsOf, Accepts
  <1>8. ItemsSeen(w)'
    <2>1. \A r1 \in Rows : Grows(Visible(w, r1), Visible(w, r1)')
      BY <1>4 DEF Grows, Visible
    <2>2. \A j : Seen(w, j) => Seen(w, j)'
      BY <1>4, <2>1, SeenKept
    <2> QED BY <1>1, <1>4, <1>5, <2>2 DEF ItemsSeen, MovingPCs
  <1> QED BY <1>6, <1>7, <1>8, LocalMoves

LEMMA MoveAgainMoves ==
  ASSUME BaseOK, MovesOK, NEW w \in Workers, MoveAgain(w)
  PROVE  MovesOK'
PROOF
  <1> USE DEF defaultVars, lockVars
  <1> DEFINE i == target[w][1]
  <1>1. TypeOK /\ WorkerOK(w) /\ ItemsSeen(w)
    BY DEF BaseOK, MovesOK, ControlOK
  <1>2. /\ pc[w] = "picked" /\ AlreadyMoved(w)
        /\ req' = req /\ xferLock' = xferLock /\ status' = status
        /\ dispatched' = dispatched /\ received' = received
        /\ ledger' = ledger /\ pending' = pending /\ rowLock' = rowLock
    BY DEF MoveAgain, ItemDone
  <1>3. /\ pc' = [pc EXCEPT ![w] = "own_branches"]
        /\ todo' = [todo EXCEPT ![w] = @ \ {i}]
        /\ target' = [target EXCEPT ![w] = None]
    BY DEF MoveAgain, ItemDone
  <1>4. pc'[w] = "own_branches" /\ todo'[w] = todo[w] \ {i}
    BY <1>1, <1>3 DEF TypeOK
  <1>5. LocalStep(w)
    BY <1>1, <1>2, <1>3, <1>4 DEF LocalStep, Kept, TypeOK, MovingPCs
  <1>6. WorkerOK(w)'
    BY <1>1, <1>2, <1>4 DEF WorkerOK, HoldingPCs, ServicePCs, MovingPCs, ItemsOf, Accepts
  <1>7. ItemsSeen(w)'
    <2>1. \A r \in Rows : Grows(Visible(w, r), Visible(w, r)')
      BY <1>2 DEF Grows, Visible
    <2>2. \A j : Seen(w, j) => Seen(w, j)'
      BY <1>2, <2>1, SeenKept
    <2>3. Seen(w, i)
      BY <1>1, <1>2 DEF AlreadyMoved, WorkerOK, Seen
    <2> QED BY <1>1, <1>2, <1>4, <2>2, <2>3 DEF ItemsSeen, MovingPCs
  <1> QED BY <1>5, <1>6, <1>7, LocalMoves

\* Creations, reservations and catalogue edits are nobody's service call.
LEMMA NobodyMoves ==
  ASSUME BaseOK, MovesOK,
         \/ \E t \in Transfers : Create(t)
         \/ \E r \in Rows : ReserveStock(r)
         \/ \E c \in Branches \X Products : ToggleProduct(c) \/ SoftDeleteProduct(c)
  PROVE  MovesOK'
PROOF
  <1> USE DEF defaultVars, lockVars, tenantVars, workerVars
  <1>1. /\ UNCHANGED <<ledger, dispatched, received, pending, rowLock, xferLock,
                       workerVars>>
        /\ \A t \in Transfers : status'[t] = status[t] \/
             /\ status'[t] \notin {"IN_TRANSIT", "RECEIVED"}
             /\ status[t] = "UNSAVED"
    BY DEF Create, ReserveStock, ToggleProduct, SoftDeleteProduct, BaseOK, TypeOK
  <1>2. \A r \in Rows : rowLock[r] = None => pending[r] = <<>>
    BY DEF BaseOK, BalancesOK, RowsSettled
  <1>3. \A r \in Rows : Kept(None, r) \/ Freed(None, r)
    BY <1>1, <1>2 DEF Kept, Freed
  <1>4. LocalStep(None)
    BY <1>1, <1>3 DEF LocalStep
  <1>5. None \notin Workers
    BY NoneAssumption
  <1> QED BY <1>4, <1>5, LocalMoves

----
(* Steps that add movements. *)

LEMMA AppendFacts ==
  ASSUME NEW s \in Seq(Movements), NEW m \in Movements
  PROVE  /\ Append(s, m) \in Seq(Movements)
         /\ DOMAIN s = 1 .. Len(s) /\ Len(s) \in Nat
         /\ DOMAIN Append(s, m) = 1 .. (Len(s) + 1)
         /\ Grows(s, Append(s, m))
         /\ Append(s, m)[Len(s) + 1] = m
         /\ \A k \in DOMAIN Append(s, m) :
              \/ k \in DOMAIN s /\ Append(s, m)[k] = s[k]
              \/ k = Len(s) + 1 /\ Append(s, m)[k] = m
PROOF
  <1>1. /\ Append(s, m) \in Seq(Movements) /\ Len(Append(s, m)) = Len(s) + 1
        /\ \A k \in 1 .. Len(s) : Append(s, m)[k] = s[k]
        /\ Append(s, m)[Len(s) + 1] = m
    BY AppendProperties
  <1>2. DOMAIN s = 1 .. Len(s) /\ Len(s) \in Nat
    BY LenProperties
  <1>3. DOMAIN Append(s, m) = 1 .. (Len(s) + 1)
    BY <1>1, LenProperties
  <1>4. \A k \in 1 .. (Len(s) + 1) : k \in 1 .. Len(s) \/ k = Len(s) + 1
    BY <1>2
  <1>5. \A k \in 1 .. Len(s) : k \in 1 .. (Len(s) + 1)
    BY <1>2
  <1>6. Grows(s, Append(s, m))
    BY <1>1, <1>2, <1>3, <1>5 DEF Grows
  <1>7. \A k \in DOMAIN Append(s, m) :
              \/ k \in DOMAIN s /\ Append(s, m)[k] = s[k]
              \/ k = Len(s) + 1 /\ Append(s, m)[k] = m
    BY <1>1, <1>2, <1>3, <1>4
  <1> QED BY <1>1, <1>2, <1>3, <1>6, <1>7

\* A movement whose key is new keeps the keys unique.
LEMMA AppendBookedOnce ==
  ASSUME TypeOK, BookedOnce, NEW r \in Rows, NEW m \in Movements,
         Book(r)' = Append(Book(r), m),
         \A s \in Rows \ {r} : Book(s)' = Book(s),
         m.item # None =>
           \A s \in Rows : \A k \in DOMAIN Book(s) :
             ~(Book(s)[k].item = m.item /\ Book(s)[k].dir = m.dir)
  PROVE  BookedOnce'
PROOF
  <1>1. \A s \in Rows : \A k \in DOMAIN Book(s)' :
          \/ k \in DOMAIN Book(s) /\ Book(s)'[k] = Book(s)[k]
          \/ s = r /\ k = Len(Book(r)) + 1 /\ Book(s)'[k] = m
    <2>1. Book(r) \in Seq(Movements)
      BY BookFacts
    <2> QED BY <2>1, AppendFacts
  <1> SUFFICES ASSUME NEW s \in Rows, NEW u \in Rows,
                      NEW j \in DOMAIN Book(s)', NEW k \in DOMAIN Book(u)',
                      Book(s)'[j].item # None,
                      Book(s)'[j].item = Book(u)'[k].item,
                      Book(s)'[j].dir = Book(u)'[k].dir
               PROVE  s = u /\ j = k
    BY DEF BookedOnce
  <1>2. CASE j \in DOMAIN Book(s) /\ Book(s)'[j] = Book(s)[j]
    <2>1. CASE k \in DOMAIN Book(u) /\ Book(u)'[k] = Book(u)[k]
      BY <1>2, <2>1 DEF BookedOnce
    <2>2. CASE u = r /\ k = Len(Book(r)) + 1 /\ Book(u)'[k] = m
      BY <1>2, <2>2
    <2> QED BY <1>1, <2>1, <2>2
  <1>3. CASE s = r /\ j = Len(Book(r)) + 1 /\ Book(s)'[j] = m
    <2>1. CASE k \in DOMAIN Book(u) /\ Book(u)'[k] = Book(u)[k]
      BY <1>3, <2>1
    <2>2. CASE u = r /\ k = Len(Book(r)) + 1 /\ Book(u)'[k] = m
      BY <1>3, <2>2
    <2> QED BY <1>1, <2>1, <2>2
  <1> QED BY <1>1, <1>2, <1>3

\* The movement that Move writes, and what is known when it does.
MovementOf(w) ==
  [item |-> target[w][1], dir |-> Direction(req[w].op),
   qty |-> SignedQty(req[w].op, target[w][1]),
   before |-> wStock[target[w][2]], after |-> NewBalance(w)]

LEMMA MoveFacts ==
  ASSUME BaseOK, MovesOK, NEW w \in Workers, Move(w)
  PROVE  LET i == target[w][1]
             r == target[w][2]
             m == MovementOf(w) IN
         /\ i \in Items /\ r \in Rows /\ i \in todo[w] /\ TransferOf[i] = req[w].xfer
         /\ pc[w] = "picked" /\ xferLock[req[w].xfer] = w
         /\ rowLock[r] \in {None, w}
         /\ r[1] = HomeOf(i, Direction(req[w].op))
         /\ m \in Movements
         /\ pending' = [pending EXCEPT ![r] = Append(@, m)]
         /\ rowLock' = [rowLock EXCEPT ![r] = w]
         /\ EntryOK(r, m)
PROOF
  <1> DEFINE i == target[w][1]
             r == target[w][2]
             m == MovementOf(w)
             op == req[w].op
  <1>1. TypeOK /\ RequestOK /\ WorkerOK(w) /\ DispatchedOK /\ StatusBacked
    BY DEF BaseOK, MovesOK, ControlOK, DataOK
  <1>2. /\ pc[w] = "picked" /\ rowLock[r] \in {None, w}
        /\ BalanceAllowed(r, NewBalance(w))
        /\ rowLock' = [rowLock EXCEPT ![r] = w]
        /\ pending' = [pending EXCEPT ![r] = Append(@, m)]
    BY DEF Move, MovementOf
  <1>3. i \in Items /\ r \in Rows
    BY <1>1, <1>2 DEF RequestOK
  <1>4. /\ i \in todo[w] /\ TransferOf[i] = req[w].xfer
        /\ r[1] = HomeOf(i, Direction(op))
        /\ xferLock[req[w].xfer] = w
        /\ Accepts(op, status[TransferOf[i]])
    BY <1>1, <1>2 DEF WorkerOK, ItemsOf, HoldingPCs, ServicePCs, MovingPCs
  <1>5. op = "dispatch" =>
          Direction(op) = "out" /\ SignedQty(op, i) = -RequestedQty[i]
    <2>1. DispatchQty(i) = RequestedQty[i]
      BY <1>1, <1>3 DEF DispatchedOK, DispatchQty
    <2> QED BY <2>1 DEF Direction, SignedQty
  <1>6. op # "dispatch" =>
          /\ Direction(op) = "in" /\ SignedQty(op, i) = RequestedQty[i]
          /\ Booked(i, "out")
    BY <1>1, <1>3, <1>4 DEF Direction, SignedQty, Accepts, StatusBacked
  <1>7. /\ m.item = i /\ m.dir = Direction(op) /\ m.qty = SignedQty(op, i)
        /\ m.before = wStock[r] /\ m.after = NewBalance(w)
    BY DEF MovementOf
  <1>8. EntryOK(r, m)
    <2>1. i # None
      BY <1>3, NoneAssumption
    <2> QED BY <1>4, <1>5, <1>6, <1>7, <2>1 DEF EntryOK, QtyOf
  <1>9. m \in Movements
    <2>1. SignedQty(op, i) \in Int
      BY <1>1, <1>3, QuantitiesOK
    <2>2. wStock[r] \in Nat
      BY <1>1, <1>3 DEF TypeOK
    <2>3. NewBalance(w) \in Nat
      BY <1>2, <2>1, <2>2 DEF NewBalance, BalanceAllowed
    <2> QED BY <1>3, <2>1, <2>2, <2>3 DEF MovementOf, Movements, Direction, Directions
  <1> QED BY <1>2, <1>3, <1>4, <1>8, <1>9

\* Nobody has written the movement of this key, nor is about to.
LEMMA MoveFresh ==
  ASSUME BaseOK, MovesOK, NEW w \in Workers, Move(w),
         NEW s \in Rows, NEW k \in DOMAIN Book(s),
         Book(s)[k].item = target[w][1], Book(s)[k].dir = Direction(req[w].op)
  PROVE  FALSE
PROOF
  <1> DEFINE i == target[w][1]
             d == Direction(req[w].op)
  <1>1. /\ i \in Items /\ i \in todo[w] /\ TransferOf[i] = req[w].xfer
        /\ xferLock[req[w].xfer] = w
        /\ target[w][2][1] = HomeOf(i, d)
    BY MoveFacts
  <1>2. KeyedRows(w, HomeOf(i, d), i, d) = {}
    BY <1>1 DEF Move, AlreadyMoved
  <1>3. TypeOK /\ i # None /\ d \in {"out", "in"}
    BY <1>1, NoneAssumption DEF BaseOK, Direction
  <1>4. \/ k \in DOMAIN ledger[s] /\ Book(s)[k] = ledger[s][k]
        \/ /\ k - Len(ledger[s]) \in DOMAIN pending[s]
           /\ Book(s)[k] = pending[s][k - Len(ledger[s])]
    BY <1>3, BookFacts
  <1>5. CASE k \in DOMAIN ledger[s] /\ Book(s)[k] = ledger[s][k]
    <2>1. EntryOK(s, ledger[s][k])
      BY <1>5 DEF MovesOK, DataOK, CommittedEntries
    <2>2. s[1] = HomeOf(i, d)
      BY <1>3, <1>5, <2>1 DEF EntryOK
    <2>3. s \in KeyedRows(w, HomeOf(i, d), i, d)
      BY <1>3, <1>5, <2>2, KeyedFacts
    <2> QED BY <1>2, <2>3
  <1>6. CASE /\ k - Len(ledger[s]) \in DOMAIN pending[s]
             /\ Book(s)[k] = pending[s][k - Len(ledger[s])]
    <2> DEFINE v == rowLock[s]
    <2>1. PendingOK(s, k - Len(ledger[s]))
      BY <1>6 DEF MovesOK, DataOK, PendingEntries
    <2>2. i \notin todo[v] /\ TransferOf[i] = req[v].xfer
      BY <1>6, <2>1 DEF PendingOK
    <2>3. pending[s] # <<>>
      <3>1. pending[s] = <<>> => DOMAIN pending[s] = {}
        OBVIOUS
      <3> QED BY <1>6, <3>1
    <2>4. v # None
      BY <2>3 DEF BaseOK, BalancesOK, RowsSettled
    <2>5. v \in Workers /\ pc[v] \in MovingPCs /\ WorkerOK(v)
      BY <1>3, <2>4 DEF TypeOK, MovesOK, ControlOK, RowsOwned
    <2>6. xferLock[req[v].xfer] = v
      BY <2>5 DEF WorkerOK, HoldingPCs, ServicePCs
    <2> QED BY <1>1, <2>2, <2>6
  <1> QED BY <1>4, <1>5, <1>6

\* Appending commutes with what is in front.
LEMMA AppendLast ==
  ASSUME NEW s \in Seq(Movements), NEW t \in Seq(Movements), NEW m \in Movements
  PROVE  /\ s \o Append(t, m) = Append(s \o t, m)
         /\ s \o Append(<<>>, m) = Append(s, m)
PROOF
  <1>1. <<m>> \in Seq(Movements) /\ <<>> \in Seq(Movements)
    OBVIOUS
  <1>2. ASSUME NEW u \in Seq(Movements)
        PROVE  s \o Append(u, m) = Append(s \o u, m)
    <2>1. Append(u, m) = u \o <<m>>
      BY AppendIsConcat
    <2>2. s \o u \in Seq(Movements)
      BY ConcatProperties
    <2>3. Append(s \o u, m) = (s \o u) \o <<m>>
      BY <2>2, AppendIsConcat
    <2> QED BY <1>1, <2>1, <2>3, ConcatAssociative
  <1>3. s \o <<>> = s
    BY ConcatEmptySeq
  <1> QED BY <1>1, <1>2, <1>3

LEMMA MoveMoves ==
  ASSUME BaseOK, MovesOK, NEW w \in Workers, Move(w)
  PROVE  MovesOK'
PROOF
  <1> USE DEF defaultVars, lockVars
  <1>0. PICK i \in Items, r \in Rows, d \in {"out", "in"}, m \in Movements :
          i = target[w][1] /\ r = target[w][2] /\ d = Direction(req[w].op) /\ m = MovementOf(w)
    BY MoveFacts DEF Direction
  <1>1. /\ i \in Items /\ r \in Rows /\ i \in todo[w] /\ TransferOf[i] = req[w].xfer
        /\ pc[w] = "picked" /\ xferLock[req[w].xfer] = w
        /\ rowLock[r] \in {None, w}
        /\ r[1] = HomeOf(i, d) /\ d = Direction(req[w].op)
        /\ m \in Movements /\ m.item = i /\ m.dir = d
        /\ EntryOK(r, m)
    BY <1>0, MoveFacts DEF MovementOf
  <1>2. /\ pending' = [pending EXCEPT ![r] = Append(@, m)]
        /\ rowLock' = [rowLock EXCEPT ![r] = w]
    BY <1>0, MoveFacts
  <1>3. TypeOK /\ WorkerOK(w) /\ ItemsSeen(w) /\ DataOK
    BY DEF BaseOK, MovesOK, ControlOK
  <1>4. /\ ledger' = ledger /\ req' = req /\ xferLock' = xferLock /\ status' = status
        /\ dispatched' = dispatched /\ received' = received
        /\ pc' = [pc EXCEPT ![w] = "own_branches"]
        /\ todo' = [todo EXCEPT ![w] = @ \ {i}]
        /\ target' = [target EXCEPT ![w] = None]
    BY <1>0 DEF Move, ItemDone
  <1>5. /\ pc'[w] = "own_branches" /\ todo'[w] = todo[w] \ {i}
        /\ \A v \in Workers \ {w} :
             pc'[v] = pc[v] /\ todo'[v] = todo[v] /\ target'[v] = target[v]
        /\ \A s \in Rows \ {r} : pending'[s] = pending[s] /\ rowLock'[s] = rowLock[s]
        /\ pending'[r] = Append(pending[r], m) /\ rowLock'[r] = w
    BY <1>1, <1>2, <1>3, <1>4 DEF TypeOK
  <1>6. \A s \in Rows : rowLock[s] = None => pending[s] = <<>>
    BY DEF BaseOK, BalancesOK, RowsSettled
  <1>7. pending[r] \in Seq(Movements) /\ ledger[r] \in Seq(Movements)
    BY <1>1, <1>3 DEF TypeOK
  <1>8. /\ \A j, e : Booked(j, e)' <=> Booked(j, e)
        /\ \A s, n : EntryOK(s, n)' <=> EntryOK(s, n)
    <2>1. \A j, e : Booked(j, e)' <=> Booked(j, e)
      BY <1>4 DEF Booked
    <2> QED BY <2>1 DEF EntryOK, HomeOf, QtyOf
  <1>9. CommittedEntries' /\ WholeTransfers'
    BY <1>3, <1>4, <1>8 DEF DataOK, CommittedEntries, WholeTransfers
  <1>10. DispatchedOK' /\ StatusBacked'
    BY <1>3, <1>4, <1>8 DEF DataOK, DispatchedOK, StatusBacked
  <1>11. PendingEntries'
    <2>1. ASSUME NEW s \in Rows, NEW k \in DOMAIN pending[s], pending'[s][k] = pending[s][k]
          PROVE  PendingOK(s, k)'
      <3>1. PendingOK(s, k)
        BY <1>3 DEF DataOK, PendingEntries
      <3>2. EntryOK(s, pending[s][k])'
        BY <1>8, <2>1, <3>1 DEF PendingOK, EntryOK, HomeOf, QtyOf, Booked
      <3>3. rowLock'[s] = rowLock[s]
        <4>1. pending[s] = <<>> => DOMAIN pending[s] = {}
          OBVIOUS
        <4> QED BY <1>1, <1>5, <1>6, <2>1, <4>1
      <3>4. todo'[rowLock[s]] \subseteq todo[rowLock[s]]
        <4>1. rowLock[s] \in Workers
          <5>1. pending[s] = <<>> => DOMAIN pending[s] = {}
            OBVIOUS
          <5> QED BY <1>3, <1>6, <2>1, <5>1 DEF TypeOK
        <4> QED BY <1>5, <4>1
      <3> QED BY <1>4, <2>1, <3>1, <3>2, <3>3, <3>4 DEF PendingOK, Direction
    <2> PICK n \in Nat : n = Len(pending[r]) + 1
      BY <1>7, LenProperties
    <2>2. PendingOK(r, n)'
      <3>1. pending'[r][n] = m
        BY <1>1, <1>5, <1>7, AppendFacts
      <3>2. EntryOK(r, m)'
        BY <1>1, <1>8
      <3> QED BY <1>1, <1>4, <1>5, <3>1, <3>2 DEF PendingOK, Direction
    <2>3. ASSUME NEW s \in Rows, NEW k \in DOMAIN pending'[s]
          PROVE  PendingOK(s, k)'
      <3>1. CASE s # r
        BY <1>5, <2>1, <3>1
      <3>2. CASE s = r
        <4>1. \/ k \in DOMAIN pending[r] /\ pending'[r][k] = pending[r][k]
              \/ k = n
          BY <1>1, <1>5, <1>7, <2>3, <3>2, AppendFacts
        <4> QED BY <2>1, <2>2, <3>2, <4>1
      <3> QED BY <3>1, <3>2
    <2> QED BY <2>3 DEF PendingEntries
  <1>12. BookedOnce'
    <2>1. Book(r)' = Append(Book(r), m)
      <3>1. Book(r)' = ledger[r] \o Append(pending[r], m)
        BY <1>4, <1>5 DEF Book
      <3> QED BY <1>1, <1>7, <3>1, AppendLast DEF Book
    <2>2. \A s \in Rows \ {r} : Book(s)' = Book(s)
      BY <1>4, <1>5 DEF Book
    <2>3. \A s \in Rows : \A k \in DOMAIN Book(s) : ~(Book(s)[k].item = m.item /\ Book(s)[k].dir = m.dir)
      BY <1>0, <1>1, MoveFresh
    <2> QED BY <1>1, <1>3, <2>1, <2>2, <2>3, AppendBookedOnce DEF DataOK
  <1>13. RowsOwned'
    <2> SUFFICES ASSUME NEW s \in Rows, rowLock'[s] # None
                 PROVE  pc'[rowLock'[s]] \in MovingPCs
      BY DEF RowsOwned
    <2>1. CASE s = r
      BY <1>5, <2>1 DEF MovingPCs
    <2>2. CASE s # r
      <3>1. rowLock[s] \in Workers /\ pc[rowLock[s]] \in MovingPCs /\ rowLock'[s] = rowLock[s]
        BY <1>3, <1>5, <2>2 DEF TypeOK, MovesOK, ControlOK, RowsOwned
      <3> QED BY <1>5, <3>1 DEF MovingPCs
    <2> QED BY <2>1, <2>2
  <1>14. \A v \in Workers : \A s \in Rows : Grows(Visible(v, s), Visible(v, s)')
    <2> SUFFICES ASSUME NEW v \in Workers, NEW s \in Rows
                 PROVE  Grows(Visible(v, s), Visible(v, s)')
      OBVIOUS
    <2>1. CASE s # r \/ v # w
      <3>1. Visible(v, s)' = Visible(v, s)
        BY <1>1, <1>4, <1>5, <2>1, NoneAssumption DEF Visible
      <3> QED BY <3>1 DEF Grows
    <2>2. CASE s = r /\ v = w
      <3>1. Visible(v, s)' = ledger[r] \o Append(pending[r], m)
        BY <1>4, <1>5, <2>2 DEF Visible
      <3>2. CASE rowLock[r] = w
        <4>1. Visible(v, s) = Book(r) /\ Book(r) \in Seq(Movements)
          BY <1>1, <1>3, <2>2, <3>2, BookFacts DEF Visible, Book
        <4>2. Visible(v, s)' = Append(Book(r), m)
          BY <1>1, <1>7, <3>1, AppendLast DEF Book
        <4> QED BY <1>1, <4>1, <4>2, AppendFacts
      <3>3. CASE rowLock[r] = None
        <4>1. Visible(v, s) = ledger[r] /\ pending[r] = <<>>
          BY <1>1, <1>6, <2>2, <3>3, NoneAssumption DEF Visible
        <4>2. Visible(v, s)' = Append(ledger[r], m)
          <5>1. ledger[r] \o Append(<<>>, m) = Append(ledger[r], m)
            BY <1>1, <1>7, AppendLast
          <5> QED BY <3>1, <4>1, <5>1
        <4> QED BY <1>1, <1>7, <4>1, <4>2, AppendFacts
      <3> QED BY <1>1, <3>2, <3>3
    <2> QED BY <2>1, <2>2
  <1>15. \A v \in Workers \ {w} : WorkerOK(v)' /\ ItemsSeen(v)'
    <2> SUFFICES ASSUME NEW v \in Workers \ {w} PROVE WorkerOK(v)' /\ ItemsSeen(v)'
      OBVIOUS
    <2>1. WorkerOK(v) /\ ItemsSeen(v)
      BY DEF MovesOK, ControlOK
    <2>2. Untouched(v)
      BY <1>4, <1>5, <1>14 DEF Untouched
    <2> QED BY <1>4, <2>1, <2>2, BystanderOK DEF Grows
  <1>16. WorkerOK(w)'
    BY <1>1, <1>3, <1>4, <1>5
       DEF WorkerOK, HoldingPCs, ServicePCs, MovingPCs, ItemsOf, Accepts
  <1>17. ItemsSeen(w)'
    <2>1. \A j : Seen(w, j) => Seen(w, j)'
      BY <1>4, <1>14, SeenKept
    <2>2. Seen(w, i)'
      <3>1. Visible(w, r)' = ledger[r] \o Append(pending[r], m)
        BY <1>4, <1>5 DEF Visible
      <3>2. Book(r) \in Seq(Movements)
        BY <1>3, BookFacts
      <3>3. Visible(w, r)' = Append(Book(r), m)
        BY <1>7, <3>1, AppendLast DEF Book
      <3>4. \E k \in DOMAIN Visible(w, r)' : Visible(w, r)'[k] = m
        BY <3>2, <3>3, AppendFacts
      <3>5. r \in KeyedRows(w, HomeOf(i, d), i, d)'
        BY <1>1, <3>4 DEF KeyedRows, HomeOf
      <3>6. Direction(req[w].op)' = d
        BY <1>1, <1>4 DEF Direction
      <3> QED BY <3>5, <3>6 DEF Seen, HomeOf
    <2> QED BY <1>1, <1>3, <1>4, <1>5, <2>1, <2>2 DEF ItemsSeen, MovingPCs
  <1>18. DataOK'
    BY <1>9, <1>10, <1>11, <1>12 DEF DataOK
  <1> QED BY <1>13, <1>15, <1>16, <1>17, <1>18 DEF MovesOK, ControlOK

\* Committing rows moves their pending entries to the ledger.
LEMMA CommitFacts ==
  ASSUME TypeOK, NEW w \in Workers, CommitRows(w)
  PROVE  \A r \in Rows :
           /\ rowLock[r] = w =>
                ledger'[r] = Book(r) /\ pending'[r] = <<>> /\ rowLock'[r] = None
           /\ rowLock[r] # w =>
                ledger'[r] = ledger[r] /\ pending'[r] = pending[r] /\ rowLock'[r] = rowLock[r]
           /\ Book(r)' = Book(r)
           /\ Grows(ledger[r], ledger'[r])
PROOF
  <1> SUFFICES ASSUME NEW r \in Rows
               PROVE  /\ rowLock[r] = w =>
                           ledger'[r] = Book(r) /\ pending'[r] = <<>> /\ rowLock'[r] = None
                      /\ rowLock[r] # w =>
                           /\ ledger'[r] = ledger[r] /\ pending'[r] = pending[r]
                           /\ rowLock'[r] = rowLock[r]
                      /\ Book(r)' = Book(r)
                      /\ Grows(ledger[r], ledger'[r])
    OBVIOUS
  <1>1. CASE rowLock[r] = w
    <2>1. ledger'[r] = Book(r) /\ pending'[r] = <<>> /\ rowLock'[r] = None
      BY <1>1 DEF CommitRows, Book
    <2>2. Book(r) \in Seq(Movements) /\ Grows(ledger[r], Book(r))
      BY BookFacts DEF Grows
    <2>3. Book(r)' = Book(r) \o <<>>
      BY <2>1 DEF Book
    <2> QED BY <1>1, <2>1, <2>2, <2>3, ConcatEmptySeq
  <1>2. CASE rowLock[r] # w
    BY <1>2 DEF CommitRows, Book, Grows
  <1> QED BY <1>1, <1>2

LEMMA TenantCommitMoves ==
  ASSUME BaseOK, MovesOK, NEW w \in Workers, TenantCommit(w)
  PROVE  MovesOK'
PROOF
  <1> USE DEF defaultVars, lockVars
  <1>1. TypeOK /\ WorkerOK(w) /\ ItemsSeen(w) /\ DataOK
    BY DEF BaseOK, MovesOK, ControlOK
  <1> PICK t : t = req[w].xfer
    OBVIOUS
  <1>2. PICK d \in {"out", "in"} : t = req[w].xfer /\ d = Direction(req[w].op)
    BY DEF Direction
  <1>3. /\ pc[w] = "own_branches" /\ todo[w] = {}
        /\ req' = req /\ xferLock' = xferLock /\ status' = status
        /\ dispatched' = dispatched /\ received' = received
        /\ todo' = todo /\ target' = target
        /\ CommitRows(w) /\ pc' = [pc EXCEPT ![w] = "tenant_committed"]
    BY DEF TenantCommit
  <1>4. pc'[w] = "tenant_committed" /\ \A v \in Workers \ {w} : pc'[v] = pc[v]
    BY <1>1, <1>3 DEF TypeOK
  <1>5. \A r \in Rows :
           /\ rowLock[r] = w =>
                ledger'[r] = Book(r) /\ pending'[r] = <<>> /\ rowLock'[r] = None
           /\ rowLock[r] # w =>
                ledger'[r] = ledger[r] /\ pending'[r] = pending[r] /\ rowLock'[r] = rowLock[r]
           /\ Book(r)' = Book(r)
           /\ Grows(ledger[r], ledger'[r])
    BY <1>1, <1>3, CommitFacts
  <1>6. /\ \A i, e : Booked(i, e) => Booked(i, e)'
        /\ \A r, m : EntryOK(r, m) => EntryOK(r, m)'
    BY <1>5, BookedKept
  \* Every movement of a committed row is old, or was pending for this request.
  <1>7. ASSUME NEW r \in Rows, NEW k \in DOMAIN ledger'[r]
        PROVE  \/ \E j \in DOMAIN ledger[r] : ledger[r][j] = ledger'[r][k]
               \/ \E j \in DOMAIN pending[r] :
                    pending[r][j] = ledger'[r][k] /\ PendingOK(r, j) /\ rowLock[r] = w
    <2>1. CASE rowLock[r] = w
      <3>1. \/ k \in DOMAIN ledger[r] /\ ledger'[r][k] = ledger[r][k]
            \/ /\ k - Len(ledger[r]) \in DOMAIN pending[r]
               /\ ledger'[r][k] = pending[r][k - Len(ledger[r])]
        <4>1. k \in DOMAIN Book(r) /\ ledger'[r] = Book(r)
          BY <1>5, <1>7, <2>1
        <4> QED BY <1>1, <4>1, BookFacts
      <3> QED BY <1>1, <2>1, <3>1 DEF DataOK, PendingEntries
    <2>2. CASE rowLock[r] # w
      BY <1>5, <1>7, <2>2
    <2> QED BY <2>1, <2>2
  <1>8. CommittedEntries'
    <2>1. \A r \in Rows : \A k \in DOMAIN ledger'[r] : EntryOK(r, ledger'[r][k])
      BY <1>1, <1>7 DEF DataOK, CommittedEntries, PendingOK
    <2> SUFFICES ASSUME NEW r \in Rows, NEW k \in DOMAIN ledger'[r]
                 PROVE  EntryOK(r, ledger[r][k])'
      BY DEF CommittedEntries
    <2>2. PICK m : m = ledger'[r][k]
      OBVIOUS
    <2>3. EntryOK(r, m)'
      BY <1>6, <2>1, <2>2
    <2> QED BY <2>2, <2>3 DEF EntryOK, HomeOf, QtyOf, Booked
  <1>9. PendingEntries'
    <2> SUFFICES ASSUME NEW r \in Rows, NEW k \in DOMAIN pending'[r]
                 PROVE  PendingOK(r, k)'
      BY DEF PendingEntries
    <2>1. rowLock[r] # w
      <3>1. DOMAIN <<>> = {}
        OBVIOUS
      <3> QED BY <1>5, <3>1
    <2>2. /\ pending'[r] = pending[r] /\ rowLock'[r] = rowLock[r]
          /\ k \in DOMAIN pending[r]
      BY <1>5, <2>1
    <2>3. PendingOK(r, k)
      BY <1>1, <2>2 DEF DataOK, PendingEntries
    <2>4. PICK m : m = pending[r][k]
      OBVIOUS
    <2>5. EntryOK(r, m)'
      BY <1>6, <2>3, <2>4 DEF PendingOK
    <2>6. EntryOK(r, pending[r][k])'
      BY <2>2, <2>4, <2>5 DEF EntryOK, HomeOf, QtyOf, Booked
    <2> QED BY <1>3, <2>2, <2>3, <2>6 DEF PendingOK, Direction
  <1>10. BookedOnce'
    BY <1>1, <1>5, FewerBooked DEF DataOK
  <1>11. DispatchedOK' /\ StatusBacked'
    <2>1. /\ \A i : Booked(i, "out") => Booked(i, "out")'
          /\ \A i : Booked(i, "in") => Booked(i, "in")'
      BY <1>6
    <2> QED BY <1>1, <1>3, <2>1 DEF DataOK, DispatchedOK, StatusBacked
  <1>12. RowsOwned'
    <2> SUFFICES ASSUME NEW r \in Rows, rowLock'[r] # None
                 PROVE  pc'[rowLock'[r]] \in MovingPCs
      BY DEF RowsOwned
    <2>1. rowLock[r] # w /\ rowLock'[r] = rowLock[r]
      BY <1>5
    <2>2. rowLock[r] \in Workers /\ pc[rowLock[r]] \in MovingPCs
      BY <1>1, <2>1 DEF TypeOK, MovesOK, ControlOK, RowsOwned
    <2> QED BY <1>4, <2>1, <2>2
  <1>13. \A v \in Workers \ {w} : WorkerOK(v)' /\ ItemsSeen(v)'
    <2> SUFFICES ASSUME NEW v \in Workers \ {w} PROVE WorkerOK(v)' /\ ItemsSeen(v)'
      OBVIOUS
    <2>1. WorkerOK(v) /\ ItemsSeen(v)
      BY DEF MovesOK, ControlOK
    <2>2. ASSUME NEW r \in Rows PROVE Grows(Visible(v, r), Visible(v, r)')
      <3>1. CASE rowLock[r] = w
        <4>1. Visible(v, r) = ledger[r] /\ Visible(v, r)' = ledger'[r]
          BY <1>5, <3>1, NoneAssumption DEF Visible
        <4> QED BY <1>5, <4>1
      <3>2. CASE rowLock[r] # w
        <4>1. Visible(v, r)' = Visible(v, r)
          BY <1>5, <3>2 DEF Visible
        <4> QED BY <4>1 DEF Grows
      <3> QED BY <3>1, <3>2
    <2>3. Untouched(v)
      BY <1>3, <1>4, <2>2 DEF Untouched
    <2> QED BY <1>5, <2>1, <2>3, BystanderOK
  <1>14. WorkerOK(w)'
    BY <1>1, <1>3, <1>4 DEF WorkerOK, HoldingPCs, ServicePCs, MovingPCs, ItemsOf, Accepts
  \* Nothing is left on the list, so all the items are visible, now to everybody.
  <1>15. ASSUME NEW i \in Items, TransferOf[i] = t
         PROVE  Booked(i, d)'
    <2>1. Seen(w, i)
      BY <1>1, <1>2, <1>3, <1>15 DEF ItemsSeen, MovingPCs
    <2>2. PICK r \in Rows : r \in KeyedRows(w, HomeOf(i, d), i, d)
      BY <1>2, <2>1 DEF Seen, KeyedRows
    <2>3. \E k \in DOMAIN Visible(w, r) :
            Visible(w, r)[k].item = i /\ Visible(w, r)[k].dir = d
      BY <2>2 DEF KeyedRows
    <2>4. Visible(w, r) = ledger'[r]
      BY <1>5 DEF Visible, Book
    <2> QED BY <2>3, <2>4 DEF Booked
  <1>16. ItemsSeen(w)'
    <2>1. Direction(req[w].op)' = d
      BY <1>2, <1>3 DEF Direction
    <2> QED BY <1>2, <1>3, <1>4, <1>15, <2>1 DEF ItemsSeen, MovingPCs
  <1>17. WholeTransfers'
    <2> SUFFICES ASSUME NEW i \in Items, NEW j \in Items, TransferOf[i] = TransferOf[j],
                        NEW e \in {"out", "in"}, Booked(i, e)'
                 PROVE  Booked(j, e)'
      BY DEF WholeTransfers
    <2>1. CASE Booked(i, e)
      <3>1. Booked(j, e)
        BY <1>1, <2>1 DEF DataOK, WholeTransfers
      <3> QED BY <1>6, <3>1
    <2>2. CASE ~Booked(i, e)
      <3>1. PICK r \in Rows : \E k \in DOMAIN ledger'[r] :
              ledger'[r][k].item = i /\ ledger'[r][k].dir = e
        BY DEF Booked
      <3> PICK k \in DOMAIN ledger'[r] : ledger'[r][k].item = i /\ ledger'[r][k].dir = e
        BY <3>1
      <3>2. PICK n \in DOMAIN pending[r] :
              pending[r][n] = ledger'[r][k] /\ PendingOK(r, n) /\ rowLock[r] = w
        BY <1>7, <2>2, <3>1 DEF Booked
      <3>3. TransferOf[i] = t /\ e = d
        BY <1>2, <3>1, <3>2 DEF PendingOK
      <3> QED BY <1>15, <3>3
    <2> QED BY <2>1, <2>2
  <1>18. DataOK'
    BY <1>8, <1>9, <1>10, <1>11, <1>17 DEF DataOK
  <1> QED BY <1>12, <1>13, <1>14, <1>16, <1>18 DEF MovesOK, ControlOK

LEMMA DefaultCommitMoves ==
  ASSUME BaseOK, MovesOK, NEW w \in Workers, DefaultCommit(w)
  PROVE  MovesOK'
PROOF
  <1> USE DEF tenantVars
  <1>1. TypeOK /\ WorkerOK(w) /\ ItemsSeen(w) /\ DataOK
    BY DEF BaseOK, MovesOK, ControlOK
  <1> PICK t : t = req[w].xfer
    OBVIOUS
  <1> PICK op : op = req[w].op
    OBVIOUS
  <1>2. /\ pc[w] = "tenant_committed" /\ xferLock[t] = w /\ Accepts(op, status[t])
        /\ t \in Transfers
    BY <1>1 DEF DefaultCommit, BranchDone, WorkerOK, HoldingPCs, ServicePCs, BaseOK, RequestOK
  <1>3. /\ ledger' = ledger /\ pending' = pending /\ rowLock' = rowLock
        /\ todo' = todo /\ target' = target
        /\ dispatched' = [i \in Items |->
             IF op = "dispatch" /\ TransferOf[i] = t THEN DispatchQty(i) ELSE dispatched[i]]
        /\ received' = [i \in Items |->
             IF op = "receive" /\ TransferOf[i] = t THEN dispatched[i] ELSE received[i]]
        /\ status' = [status EXCEPT ![t] =
             IF op = "dispatch" THEN "IN_TRANSIT" ELSE "RECEIVED"]
        /\ xferLock' = FreedBy(w, xferLock)
        /\ pc' = [pc EXCEPT ![w] = "idle"] /\ req' = [req EXCEPT ![w] = Idle]
    BY DEF DefaultCommit, ReleaseLocks
  <1>4. /\ pc'[w] = "idle" /\ todo'[w] = {} /\ \A v \in Workers \ {w} : pc'[v] = pc[v] /\ req'[v] = req[v]
        /\ \A u \in Transfers \ {t} : status'[u] = status[u]
        /\ \A u \in Transfers : xferLock[u] # w => xferLock'[u] = xferLock[u]
    <2>1. todo[w] = {}
      BY <1>1, <1>2 DEF WorkerOK, MovingPCs
    <2> QED BY <1>1, <1>2, <1>3, <2>1 DEF TypeOK, FreedBy
  <1>5. \A i, e : Booked(i, e)' <=> Booked(i, e)
    BY <1>3 DEF Booked
  <1>6. \A r, m : EntryOK(r, m)' <=> EntryOK(r, m)
    BY <1>5 DEF EntryOK, HomeOf, QtyOf
  <1>7. CommittedEntries' /\ WholeTransfers' /\ BookedOnce'
    <2>1. CommittedEntries' /\ WholeTransfers'
      BY <1>1, <1>3, <1>5, <1>6 DEF DataOK, CommittedEntries, WholeTransfers
    <2>2. \A r \in Rows : Book(r)' = Book(r)
      BY <1>3 DEF Book
    <2> QED BY <1>1, <2>1, <2>2, FewerBooked DEF DataOK
  <1>8. \A r \in Rows : rowLock[r] # w
    BY <1>2, NoneAssumption DEF MovesOK, ControlOK, RowsOwned, MovingPCs
  <1>9. PendingEntries'
    <2> SUFFICES ASSUME NEW r \in Rows, NEW k \in DOMAIN pending'[r]
                 PROVE  PendingOK(r, k)'
      BY DEF PendingEntries
    <2>1. k \in DOMAIN pending[r] /\ PendingOK(r, k)
      BY <1>1, <1>3 DEF DataOK, PendingEntries
    <2>2. rowLock[r] \in Workers \ {w}
      <3>1. pending[r] = <<>> => DOMAIN pending[r] = {}
        OBVIOUS
      <3>2. rowLock[r] # None
        BY <2>1, <3>1 DEF BaseOK, BalancesOK, RowsSettled
      <3> QED BY <1>1, <1>8, <3>2 DEF TypeOK
    <2>3. PICK m : m = pending[r][k]
      OBVIOUS
    <2>4. EntryOK(r, m)'
      BY <1>6, <2>1, <2>3 DEF PendingOK
    <2>5. EntryOK(r, pending[r][k])'
      BY <1>3, <2>3, <2>4 DEF EntryOK, HomeOf, QtyOf, Booked
    <2> QED BY <1>3, <1>4, <2>1, <2>2, <2>5 DEF PendingOK, Direction
  <1>10. \A i \in Items : DispatchQty(i) = RequestedQty[i]
    BY <1>1, ShapeAssumption DEF DataOK, DispatchedOK, DispatchQty
  <1>11. DispatchedOK'
    BY <1>1, <1>3, <1>10 DEF DataOK, DispatchedOK
  \* The transfer's items have their movement, whichever way they went.
  <1>12. ASSUME NEW i \in Items, TransferOf[i] = t
         PROVE  /\ Booked(i, "out") /\ dispatched'[i] = RequestedQty[i]
                /\ op # "dispatch" => Booked(i, "in") /\ received'[i] = dispatched'[i]
    <2>1. Booked(i, Direction(op))
      BY <1>1, <1>2, <1>12 DEF ItemsSeen
    <2>2. CASE op = "dispatch"
      BY <1>3, <1>10, <1>12, <2>1, <2>2 DEF Direction
    <2>3. CASE op # "dispatch"
      <3>1. op = "receive" /\ status[t] \in {"IN_TRANSIT", "RECEIVED"}
        BY <1>2, <2>3 DEF Accepts
      <3>2. Booked(i, "out") /\ dispatched[i] = RequestedQty[i]
        BY <1>1, <1>12, <3>1 DEF DataOK, StatusBacked
      <3> QED BY <1>3, <1>12, <2>1, <3>1, <3>2 DEF Direction
    <2> QED BY <2>2, <2>3
  <1>13. StatusBacked'
    <2> SUFFICES ASSUME NEW i \in Items
                 PROVE  /\ status'[TransferOf[i]] \in {"IN_TRANSIT", "RECEIVED"} =>
                             Booked(i, "out")' /\ dispatched'[i] = RequestedQty[i]
                        /\ status'[TransferOf[i]] = "RECEIVED" =>
                             Booked(i, "in")' /\ received'[i] = dispatched'[i]
      BY DEF StatusBacked
    <2>1. TransferOf[i] \in Transfers
      BY ShapeAssumption
    <2>2. CASE TransferOf[i] = t
      <3>1. op = "dispatch" => status'[t] = "IN_TRANSIT"
        BY <1>1, <1>2, <1>3 DEF TypeOK
      <3> QED BY <1>5, <1>12, <2>2, <3>1
    <2>3. CASE TransferOf[i] # t
      <3>1. /\ status'[TransferOf[i]] = status[TransferOf[i]]
            /\ dispatched'[i] = dispatched[i] /\ received'[i] = received[i]
        BY <1>3, <1>4, <2>1, <2>3
      <3> QED BY <1>1, <1>5, <3>1 DEF DataOK, StatusBacked
    <2> QED BY <2>2, <2>3
  <1>14. RowsOwned'
    <2> SUFFICES ASSUME NEW r \in Rows, rowLock'[r] # None
                 PROVE  pc'[rowLock'[r]] \in MovingPCs
      BY DEF RowsOwned
    <2>1. rowLock[r] \in Workers \ {w} /\ pc[rowLock[r]] \in MovingPCs
      BY <1>1, <1>3, <1>8 DEF TypeOK, MovesOK, ControlOK, RowsOwned
    <2> QED BY <1>3, <1>4, <2>1
  <1>15. \A v \in Workers \ {w} : WorkerOK(v)' /\ ItemsSeen(v)'
    <2> SUFFICES ASSUME NEW v \in Workers \ {w} PROVE WorkerOK(v)' /\ ItemsSeen(v)'
      OBVIOUS
    <2>1. WorkerOK(v) /\ ItemsSeen(v)
      BY DEF MovesOK, ControlOK
    <2>2. ASSUME pc[v] \in HoldingPCs
          PROVE  /\ xferLock'[req[v].xfer] = xferLock[req[v].xfer]
                 /\ status'[req[v].xfer] = status[req[v].xfer]
      <3>1. xferLock[req[v].xfer] = v
        BY <2>1, <2>2 DEF WorkerOK
      <3>2. req[v].xfer \in Transfers
        BY <2>2 DEF BaseOK, RequestOK, HoldingPCs, ServicePCs, MovingPCs
      <3> QED BY <1>2, <1>4, <3>1, <3>2
    <2>3. \A r \in Rows : Visible(v, r)' = Visible(v, r)
      BY <1>3 DEF Visible
    <2>4. Untouched(v)
      BY <1>3, <1>4, <2>2, <2>3 DEF Untouched, Grows, HoldingPCs, ServicePCs
    <2> QED BY <1>3, <2>1, <2>4, BystanderOK DEF Grows
  <1>16. WorkerOK(w)' /\ ItemsSeen(w)'
    BY <1>4 DEF WorkerOK, ItemsSeen, HoldingPCs, ServicePCs, MovingPCs
  <1>17. DataOK'
    BY <1>7, <1>9, <1>11, <1>13 DEF DataOK
  <1> QED BY <1>14, <1>15, <1>16, <1>17 DEF MovesOK, ControlOK

LEMMA AdjustMoves ==
  ASSUME BaseOK, MovesOK, NEW r \in Rows, AdjustStock(r)
  PROVE  MovesOK'
PROOF
  <1> USE DEF defaultVars, lockVars, workerVars
  <1>1. TypeOK /\ DataOK
    BY DEF BaseOK, MovesOK
  <1>2. PICK m : m = [item |-> None, dir |-> "sale", qty |-> -1,
                      before |-> stock[r], after |-> stock[r] - 1]
    OBVIOUS
  <1>3. /\ rowLock[r] = None /\ ledger' = [ledger EXCEPT ![r] = Append(@, m)]
        /\ pending' = pending /\ rowLock' = rowLock /\ status' = status
        /\ dispatched' = dispatched /\ received' = received /\ xferLock' = xferLock
        /\ pc' = pc /\ req' = req /\ todo' = todo /\ target' = target
        /\ BalanceAllowed(r, stock[r] - 1)
    BY <1>2 DEF AdjustStock, RowFree
  <1>4. m \in Movements
    <2>1. stock[r] \in Nat /\ stock[r] - 1 \in Nat
      BY <1>1, <1>3 DEF TypeOK, BalanceAllowed
    <2> QED BY <1>2, <2>1 DEF Movements, Directions
  <1>5. /\ ledger'[r] = Append(ledger[r], m) /\ ledger[r] \in Seq(Movements)
        /\ \A s \in Rows \ {r} : ledger'[s] = ledger[s]
        /\ pending[r] = <<>>
    BY <1>1, <1>3 DEF TypeOK, BaseOK, BalancesOK, RowsSettled
  <1>6. \A s \in Rows : Grows(ledger[s], ledger'[s])
    BY <1>4, <1>5, AppendFacts DEF Grows
  <1>7. /\ \A i, d : Booked(i, d) => Booked(i, d)'
        /\ \A s, n : EntryOK(s, n) => EntryOK(s, n)'
    BY <1>6, BookedKept
  <1>8. \A s \in Rows : \A k \in DOMAIN ledger'[s] :
          \/ k \in DOMAIN ledger[s] /\ ledger'[s][k] = ledger[s][k]
          \/ s = r /\ ledger'[s][k] = m
    BY <1>4, <1>5, AppendFacts
  <1>9. \A i \in Items : \A d : Booked(i, d)' => Booked(i, d)
    BY <1>2, <1>8, NoneAssumption DEF Booked
  <1>10. CommittedEntries'
    <2> SUFFICES ASSUME NEW s \in Rows, NEW k \in DOMAIN ledger'[s]
                 PROVE  EntryOK(s, ledger[s][k])'
      BY DEF CommittedEntries
    <2>1. PICK n : n = ledger'[s][k]
      OBVIOUS
    <2>2. EntryOK(s, n)
      BY <1>1, <1>2, <1>8, <2>1 DEF DataOK, CommittedEntries, EntryOK
    <2>3. EntryOK(s, n)'
      BY <1>7, <2>2
    <2> QED BY <2>1, <2>3 DEF EntryOK, HomeOf, QtyOf, Booked
  <1>11. PendingEntries'
    <2> SUFFICES ASSUME NEW s \in Rows, NEW k \in DOMAIN pending[s]
                 PROVE  PendingOK(s, k)'
      BY <1>3 DEF PendingEntries
    <2>1. PendingOK(s, k)
      BY <1>1 DEF DataOK, PendingEntries
    <2>2. PICK n : n = pending[s][k]
      OBVIOUS
    <2>3. EntryOK(s, n)'
      BY <1>7, <2>1, <2>2 DEF PendingOK
    <2>4. EntryOK(s, pending[s][k])'
      BY <1>3, <2>2, <2>3 DEF EntryOK, HomeOf, QtyOf, Booked
    <2> QED BY <1>3, <2>1, <2>4 DEF PendingOK, Direction
  <1>12. BookedOnce'
    <2>1. Book(r) = ledger[r] /\ Book(r)' = Append(ledger[r], m)
      <3>1. Append(ledger[r], m) \in Seq(Movements)
        BY <1>4, <1>5, AppendFacts
      <3> QED BY <1>3, <1>5, <3>1, ConcatEmptySeq DEF Book
    <2>2. \A s \in Rows \ {r} : Book(s)' = Book(s)
      BY <1>3, <1>5 DEF Book
    <2>3. Book(r)' = Append(Book(r), m)
      BY <2>1
    <2> QED BY <1>1, <1>2, <1>4, <2>2, <2>3, AppendBookedOnce DEF DataOK
  <1>13. DispatchedOK' /\ StatusBacked' /\ WholeTransfers'
    <2>1. \A i \in Items : \A d \in {"out", "in"} : Booked(i, d)' <=> Booked(i, d)
      BY <1>7, <1>9
    <2> QED BY <1>1, <1>3, <2>1 DEF DataOK, DispatchedOK, StatusBacked, WholeTransfers
  <1>14. RowsOwned'
    BY <1>3 DEF MovesOK, ControlOK, RowsOwned
  <1>15. \A v \in Workers : WorkerOK(v)' /\ ItemsSeen(v)'
    <2> SUFFICES ASSUME NEW v \in Workers PROVE WorkerOK(v)' /\ ItemsSeen(v)'
      OBVIOUS
    <2>1. WorkerOK(v) /\ ItemsSeen(v)
      BY DEF MovesOK, ControlOK
    <2>2. ASSUME NEW s \in Rows PROVE Grows(Visible(v, s), Visible(v, s)')
      <3>1. CASE s = r
        <4>1. Visible(v, s) = ledger[s] /\ Visible(v, s)' = ledger'[s]
          BY <1>3, <3>1, NoneAssumption DEF Visible
        <4> QED BY <1>6, <4>1
      <3>2. CASE s # r
        <4>1. Visible(v, s)' = Visible(v, s)
          BY <1>3, <1>5, <3>2 DEF Visible
        <4> QED BY <4>1 DEF Grows
      <3> QED BY <3>1, <3>2
    <2>3. Untouched(v)
      BY <1>3, <2>2 DEF Untouched
    <2> QED BY <1>6, <2>1, <2>3, BystanderOK
  <1>16. DataOK'
    BY <1>10, <1>11, <1>12, <1>13 DEF DataOK
  <1> QED BY <1>14, <1>15, <1>16 DEF MovesOK, ControlOK

----
(* The invariant, and what follows from it. *)

LEMMA InitMoves ==
  ASSUME Init PROVE MovesOK
PROOF
  <1> USE DEF Init
  <1>1. \A r \in Rows : ledger[r] = <<>> /\ pending[r] = <<>> /\ rowLock[r] = None
    OBVIOUS
  <1>2. \A r \in Rows : DOMAIN ledger[r] = {} /\ DOMAIN pending[r] = {} /\ DOMAIN Book(r) = {}
    BY <1>1 DEF Book
  <1>3. CommittedEntries /\ PendingEntries /\ BookedOnce
    BY <1>2 DEF CommittedEntries, PendingEntries, BookedOnce
  <1>4. DispatchedOK
    BY DEF DispatchedOK
  <1>5. StatusBacked
    BY ShapeAssumption DEF StatusBacked
  <1>6. WholeTransfers
    BY <1>2 DEF WholeTransfers, Booked
  <1>7. RowsOwned
    BY <1>1 DEF RowsOwned
  <1>8. \A w \in Workers : WorkerOK(w) /\ ItemsSeen(w)
    BY DEF WorkerOK, ItemsSeen, HoldingPCs, ServicePCs, MovingPCs
  <1> QED BY <1>3, <1>4, <1>5, <1>6, <1>7, <1>8 DEF MovesOK, DataOK, ControlOK

LEMMA NextMoves ==
  ASSUME BaseOK, MovesOK, [Next]_vars
  PROVE  MovesOK'
PROOF
  <1>1. CASE \E t \in Transfers : Create(t)
    BY <1>1, NobodyMoves
  <1>2. ASSUME NEW w \in Workers,
               \/ \E t \in Transfers, op \in Operations : Load(w, op, t)
               \/ WorkerStep(w) \/ Crash(w) \/ DeadlockVictim(w)
        PROVE  MovesOK'
    <2>1. CASE \/ \E t \in Transfers, op \in Operations : Load(w, op, t)
               \/ ShortRequest(w) \/ LockTransfer(w) \/ LockSource(w)
      BY <2>1, ShortMoves
    <2>2. CASE \/ Refused(w) \/ PickRefused(w) \/ MoveRefused(w)
               \/ Crash(w) \/ DeadlockVictim(w)
      <3>1. Abandon(w)
        BY <2>2 DEF Refused, PickRefused, MoveRefused, Crash, DeadlockVictim
      <3> QED BY <3>1, AbandonMoves
    <2>3. CASE LockDestination(w)
      BY <2>3, LockDestinationMoves
    <2>4. CASE Pick(w)
      BY <2>4, PickMoves
    <2>5. CASE MoveAgain(w)
      BY <2>5, MoveAgainMoves
    <2>6. CASE Move(w)
      BY <2>6, MoveMoves
    <2>7. CASE TenantCommit(w)
      BY <2>7, TenantCommitMoves
    <2>8. CASE DefaultCommit(w)
      BY <2>8, DefaultCommitMoves
    <2> QED BY <1>2, <2>1, <2>2, <2>3, <2>4, <2>5, <2>6, <2>7, <2>8
            DEF WorkerStep, Dispatching
  <1>3. CASE OtherFlows
    <2>1. CASE \E r \in Rows : AdjustStock(r)
      BY <2>1, AdjustMoves
    <2>2. CASE \/ \E r \in Rows : ReserveStock(r)
               \/ \E c \in Branches \X Products : ToggleProduct(c) \/ SoftDeleteProduct(c)
      BY <2>2, NobodyMoves
    <2> QED BY <1>3, <2>1, <2>2 DEF OtherFlows
  <1>4. CASE UNCHANGED vars
    <2>1. LocalStep(None) /\ None \notin Workers
      <3>1. \A r \in Rows : rowLock[r] = None => pending[r] = <<>>
        BY DEF BaseOK, BalancesOK, RowsSettled
      <3>2. \A r \in Rows : Kept(None, r) \/ Freed(None, r)
        BY <1>4, <3>1 DEF Kept, Freed, vars, tenantVars
      <3> QED BY <1>4, <3>2, NoneAssumption
              DEF LocalStep, vars, tenantVars, defaultVars, lockVars, workerVars
    <2> QED BY <2>1, LocalMoves
  <1> QED BY <1>1, <1>2, <1>3, <1>4 DEF Next

LEMMA MovesInvariant == Spec => [](BaseOK /\ MovesOK)
PROOF
  <1>1. Init => BaseOK /\ MovesOK
    BY InitOK, InitMoves DEF BaseOK
  <1>2. BaseOK /\ MovesOK /\ [Next]_vars => (BaseOK /\ MovesOK)'
    <2> SUFFICES ASSUME BaseOK, MovesOK, [Next]_vars
                 PROVE  BaseOK' /\ MovesOK'
      OBVIOUS
    <2>1. BaseOK'
      BY NextTypeOK, NextBalances DEF BaseOK, BalancesOK
    <2> QED BY <2>1, NextMoves
  <1> QED BY <1>1, <1>2, PTL DEF Spec

\* No retry, crash or race ever books an item twice in a direction, in any row
\* of any branch (the idempotency key of _move under the workflow row's lock).
THEOREM NothingMovesTwice == Spec => []MovedOnce
PROOF
  <1>1. BaseOK /\ MovesOK => MovedOnce
    <2> SUFFICES ASSUME BaseOK, MovesOK,
                        NEW r \in Rows, NEW s \in Rows,
                        NEW j \in DOMAIN ledger[r], NEW k \in DOMAIN ledger[s],
                        ledger[r][j].item # None,
                        ledger[r][j].item = ledger[s][k].item,
                        ledger[r][j].dir = ledger[s][k].dir
                 PROVE  r = s /\ j = k
      BY DEF MovedOnce
    <2>1. /\ j \in DOMAIN Book(r) /\ Book(r)[j] = ledger[r][j]
          /\ k \in DOMAIN Book(s) /\ Book(s)[k] = ledger[s][k]
      BY BookFacts DEF BaseOK
    <2> QED BY <2>1 DEF MovesOK, DataOK, BookedOnce
  <1> QED BY <1>1, MovesInvariant, PTL

\* A TRANSFER_IN in one database has its committed TRANSFER_OUT in the other.
THEOREM NothingArrivesFirst == Spec => []ArrivalsLeft
PROOF
  <1>1. MovesOK => ArrivalsLeft
    <2> SUFFICES ASSUME MovesOK, NEW r \in Rows, NEW k \in DOMAIN ledger[r],
                        ledger[r][k].dir = "in"
                 PROVE  \E s \in Rows : \E j \in DOMAIN ledger[s] :
                          /\ s[1] = FromBranch[TransferOf[ledger[r][k].item]]
                          /\ ledger[s][j].item = ledger[r][k].item
                          /\ ledger[s][j].dir = "out"
                          /\ ledger[s][j].qty = -ledger[r][k].qty
      BY DEF ArrivalsLeft
    <2> DEFINE i == ledger[r][k].item
    <2>1. EntryOK(r, ledger[r][k])
      BY DEF MovesOK, DataOK, CommittedEntries
    <2>2. i # None /\ ledger[r][k].qty = RequestedQty[i] /\ Booked(i, "out")
      BY <2>1 DEF EntryOK, QtyOf
    <2>3. PICK s \in Rows : \E j \in DOMAIN ledger[s] :
                 ledger[s][j].item = i /\ ledger[s][j].dir = "out"
      BY <2>2 DEF Booked
    <2>4. PICK j \in DOMAIN ledger[s] : ledger[s][j].item = i /\ ledger[s][j].dir = "out"
      BY <2>3
    <2>5. EntryOK(s, ledger[s][j])
      BY DEF MovesOK, DataOK, CommittedEntries
    <2>6. s[1] = FromBranch[TransferOf[i]] /\ ledger[s][j].qty = -RequestedQty[i]
      BY <2>2, <2>4, <2>5 DEF EntryOK, HomeOf, QtyOf
    <2> QED BY <2>2, <2>4, <2>6
  <1> QED BY <1>1, MovesInvariant, PTL

\* IN_TRANSIT means that all the goods have left, RECEIVED that all are there.
THEOREM StatusNeverAhead == Spec => []StatusBacked
PROOF
  <1>1. MovesOK => StatusBacked
    BY DEF MovesOK, DataOK
  <1> QED BY <1>1, MovesInvariant, PTL

\* The items of a transfer are booked together or not at all.
THEOREM TransfersStayWhole == Spec => []WholeTransfers
PROOF
  <1>1. MovesOK => WholeTransfers
    BY DEF MovesOK, DataOK
  <1> QED BY <1>1, MovesInvariant, PTL

\* However two databases that commit apart are crashed between and retried, items leave
\* once, arrive once and after that, whole transfers at a time and as the status says.
THEOREM MovesStaySound == Spec => []MovesSound
PROOF
  <1>1. MovedOnce /\ ArrivalsLeft /\ StatusBacked /\ WholeTransfers => MovesSound
    BY DEF MovesSound
  <1> QED BY <1>1, NothingMovesTwice, NothingArrivesFirst, StatusNeverAhead,
       TransfersStayWhole, PTL

----
(* What moves is neither lost nor made. *)

\* Row r is one that item i may move in: a row of its product, when it arrives the one
\* in the default warehouse.
Suits(i, dir, r) == r[2] = ProductOf[i] /\ (dir = "in" => r[3] = DefaultWarehouse)

\* A sale takes one unit; a movement of an item is in a row that suits it.
Exact(r, m) == IF m.item = None THEN m.qty = -1 ELSE Suits(m.item, m.dir, r)

\* The row that worker w is about to book on suits the item.
AimOK(w) ==
  pc[w] = "picked" => Suits(target[w][1], Direction(req[w].op), target[w][2])

ExactOK ==
  /\ \A r \in Rows : \A k \in DOMAIN Book(r) : Exact(r, Book(r)[k])
  /\ \A w \in Workers : AimOK(w)

LEMMA ExactKept ==
  ASSUME ExactOK,
         \A r \in Rows : \A k \in DOMAIN Book(r)' :
           (k \in DOMAIN Book(r) /\ Book(r)'[k] = Book(r)[k]) \/ Exact(r, Book(r)'[k]),
         \A w \in Workers : pc'[w] = "picked" =>
           \/ pc[w] = "picked" /\ target'[w] = target[w] /\ req'[w] = req[w]
           \/ AimOK(w)'
  PROVE  ExactOK'
PROOF
  <1>1. ASSUME NEW r \in Rows, NEW k \in DOMAIN Book(r)' PROVE Exact(r, Book(r)'[k])
    BY DEF ExactOK
  <1>3. ASSUME NEW w \in Workers, pc'[w] = "picked"
        PROVE  AimOK(w)'
    BY <1>3 DEF ExactOK, AimOK, Suits, Direction
  <1> QED BY <1>1, <1>3 DEF ExactOK, Exact, AimOK, Suits

\* The rows that the loop body chooses suit the item.
LEMMA TargetProduct ==
  ASSUME TypeOK, ExactOK, NEW w \in Workers, NEW i \in Items, NEW r \in TargetRows(w, i)
  PROVE  Suits(i, Direction(req[w].op), r)
PROOF
  <1>1. CASE r = DestinationRow(i)
    BY <1>1 DEF DestinationRow, Suits
  <1>2. CASE req[w].op = "dispatch" /\ r \in RowsOf(FromBranch[TransferOf[i]], ProductOf[i])
    BY <1>2 DEF RowsOf, Suits, Direction
  <1>3. CASE req[w].op = "dispatch" /\ r \in KeyedRows(w, FromBranch[TransferOf[i]], i, "out")
    <2>1. r \in Rows
      BY <1>3 DEF KeyedRows
    <2>2. \/ \E k \in DOMAIN ledger[r] : ledger[r][k].item = i
          \/ \E k \in DOMAIN pending[r] : pending[r][k].item = i
      <3>1. r \in KeyedRows(w, FromBranch[TransferOf[i]], i, "out") <=>
           /\ r[1] = FromBranch[TransferOf[i]]
           /\ \/ \E k \in DOMAIN ledger[r] : ledger[r][k].item = i /\ ledger[r][k].dir = "out"
              \/ /\ rowLock[r] = w
                 /\ \E k \in DOMAIN pending[r] :
                      pending[r][k].item = i /\ pending[r][k].dir = "out"
        BY <2>1, KeyedFacts
      <3> QED BY <1>3, <3>1
    <2>3. \E k \in DOMAIN Book(r) : Book(r)[k].item = i
      <3>1. /\ \A k \in DOMAIN ledger[r] : k \in DOMAIN Book(r) /\ Book(r)[k] = ledger[r][k]
            /\ \A k \in DOMAIN pending[r] :
                 /\ k + Len(ledger[r]) \in DOMAIN Book(r)
                 /\ Book(r)[k + Len(ledger[r])] = pending[r][k]
        BY <2>1, BookFacts
      <3> QED BY <2>2, <3>1
    <2>4. i # None
      BY NoneAssumption
    <2> QED BY <1>3, <2>1, <2>3, <2>4 DEF ExactOK, Exact, Suits, Direction
  <1> QED BY <1>1, <1>2, <1>3 DEF TargetRows, SourceRows

\* The uncommitted movements of a row go, or stay.
LEMMA RollbackExact ==
  ASSUME TypeOK, NEW r \in Rows, ledger' = ledger,
         pending'[r] = pending[r] \/ pending'[r] = <<>>
  PROVE  \A k \in DOMAIN Book(r)' : k \in DOMAIN Book(r) /\ Book(r)'[k] = Book(r)[k]
PROOF
  <1>1. CASE pending'[r] = pending[r]
    BY <1>1 DEF Book
  <1>2. CASE pending'[r] = <<>>
    <2>1. ledger[r] \in Seq(Movements)
      BY DEF TypeOK
    <2>2. Book(r)' = ledger[r]
      BY <1>2, <2>1, ConcatEmptySeq DEF Book
    <2>3. \A k \in DOMAIN ledger[r] : k \in DOMAIN Book(r) /\ Book(r)[k] = ledger[r][k]
      BY BookFacts
    <2> QED BY <2>2, <2>3
  <1> QED BY <1>1, <1>2

LEMMA NextExact ==
  ASSUME BaseOK, MovesOK, ExactOK, [Next]_vars
  PROVE  ExactOK'
PROOF
  <1> USE DEF defaultVars, lockVars, tenantVars, workerVars
  <1>0. TypeOK /\ RequestOK /\ BalancesOK
    BY DEF BaseOK
  \* Steps that write no movement and choose no row.
  <1>1. ASSUME UNCHANGED <<ledger, pending>>,
               \A w \in Workers : pc'[w] = "picked" =>
                 pc[w] = "picked" /\ target'[w] = target[w] /\ req'[w] = req[w]
        PROVE  ExactOK'
    <2>1. \A r \in Rows : Book(r)' = Book(r)
      BY <1>1 DEF Book
    <2> QED BY <1>1, <2>1, ExactKept
  <1>2. ASSUME NEW w \in Workers, Abandon(w)
        PROVE  ExactOK'
    <2>1. /\ ledger' = ledger
          /\ \A r \in Rows : pending'[r] = pending[r] \/ pending'[r] = <<>>
          /\ pc' = [pc EXCEPT ![w] = "idle"] /\ target' = [target EXCEPT ![w] = None]
          /\ req' = [req EXCEPT ![w] = Idle]
      BY <1>2 DEF Abandon, RollbackRows
    <2>2. \A r \in Rows : \A k \in DOMAIN Book(r)' : k \in DOMAIN Book(r) /\ Book(r)'[k] = Book(r)[k]
      BY <1>0, <2>1, RollbackExact
    <2>3. \A v \in Workers : pc'[v] = "picked" =>
            pc[v] = "picked" /\ target'[v] = target[v] /\ req'[v] = req[v]
      BY <1>0, <2>1 DEF TypeOK
    <2> QED BY <2>2, <2>3, ExactKept
  <1>3. ASSUME NEW w \in Workers, Pick(w)
        PROVE  ExactOK'
    <2>1. PICK i \in todo[w] : \E r \in TargetRows(w, i) :
                 target' = [target EXCEPT ![w] = <<i, r>>]
      BY <1>3 DEF Pick
    <2>2. PICK r \in TargetRows(w, i) : target' = [target EXCEPT ![w] = <<i, r>>]
      BY <2>1
    <2>3. i \in Items
      BY <1>0, <2>1 DEF TypeOK
    <2>4. Suits(i, Direction(req[w].op), r)
      BY <1>0, <2>3, TargetProduct
    <2>5. /\ pc' = [pc EXCEPT ![w] = "picked"]
          /\ ledger' = ledger /\ pending' = pending /\ req' = req
      BY <1>3 DEF Pick
    <2>6. \A v \in Workers : pc'[v] = "picked" =>
            \/ pc[v] = "picked" /\ target'[v] = target[v] /\ req'[v] = req[v]
            \/ AimOK(v)'
      <3>1. target'[w] = <<i, r>>
        BY <1>0, <2>2 DEF TypeOK
      <3>2. AimOK(w)'
        BY <2>4, <2>5, <3>1 DEF AimOK, Suits, Direction
      <3> QED BY <1>0, <2>2, <2>5, <3>2 DEF TypeOK
    <2>7. \A s \in Rows : Book(s)' = Book(s)
      BY <2>5 DEF Book
    <2> QED BY <2>6, <2>7, ExactKept
  <1>4. ASSUME NEW w \in Workers, Move(w)
        PROVE  ExactOK'
    <2>1. PICK i \in Items, r \in Rows, m \in Movements :
            i = target[w][1] /\ r = target[w][2] /\ m = MovementOf(w)
      BY <1>4, MoveFacts
    <2>2. pending' = [pending EXCEPT ![r] = Append(@, m)] /\ pc[w] = "picked"
      BY <1>4, <2>1, MoveFacts
    <2>3. /\ ledger' = ledger /\ pc' = [pc EXCEPT ![w] = "own_branches"]
          /\ target' = [target EXCEPT ![w] = None] /\ req' = req
      BY <1>4 DEF Move, ItemDone
    <2>4. /\ ledger[r] \in Seq(Movements) /\ pending[r] \in Seq(Movements)
          /\ pending'[r] = Append(pending[r], m)
          /\ \A s \in Rows \ {r} : pending'[s] = pending[s]
      BY <1>0, <2>2 DEF TypeOK
    <2>5. Book(r)' = Append(Book(r), m) /\ Book(r) \in Seq(Movements)
      <3>1. Book(r)' = ledger[r] \o Append(pending[r], m)
        BY <2>3, <2>4 DEF Book
      <3>2. ledger[r] \o Append(pending[r], m) = Append(ledger[r] \o pending[r], m)
        BY <2>4, AppendLast
      <3>3. Book(r) \in Seq(Movements)
        BY <1>0, BookFacts
      <3> QED BY <3>1, <3>2, <3>3 DEF Book
    <2>6. \A s \in Rows \ {r} : Book(s)' = Book(s)
      BY <2>3, <2>4 DEF Book
    <2>7. Exact(r, m)
      <3>1. m.item = i /\ i # None /\ m.dir = Direction(req[w].op)
        BY <2>1, NoneAssumption DEF MovementOf
      <3>2. Suits(i, Direction(req[w].op), r)
        BY <2>1, <2>2 DEF ExactOK, AimOK
      <3> QED BY <3>1, <3>2 DEF Exact
    <2>8. \A s \in Rows : \A k \in DOMAIN Book(s)' :
            (k \in DOMAIN Book(s) /\ Book(s)'[k] = Book(s)[k]) \/ Exact(s, Book(s)'[k])
      BY <2>5, <2>6, <2>7, AppendFacts
    <2>9. \A v \in Workers : pc'[v] = "picked" =>
            pc[v] = "picked" /\ target'[v] = target[v] /\ req'[v] = req[v]
      BY <1>0, <2>3 DEF TypeOK
    <2> QED BY <2>8, <2>9, ExactKept
  <1>5. ASSUME NEW w \in Workers, TenantCommit(w)
        PROVE  ExactOK'
    <2>1. CommitRows(w) /\ target' = target /\ req' = req /\ pc' = [pc EXCEPT ![w] = "tenant_committed"]
      BY <1>5 DEF TenantCommit
    <2>2. \A r \in Rows : Book(r)' = Book(r)
      BY <1>0, <2>1, CommitFacts
    <2>3. \A v \in Workers : pc'[v] = "picked" =>
            pc[v] = "picked" /\ target'[v] = target[v] /\ req'[v] = req[v]
      BY <1>0, <2>1 DEF TypeOK
    <2> QED BY <2>2, <2>3, ExactKept
  <1>6. ASSUME NEW r \in Rows, AdjustStock(r)
        PROVE  ExactOK'
    <2>1. PICK m : m = [item |-> None, dir |-> "sale", qty |-> -1,
                        before |-> stock[r], after |-> stock[r] - 1]
      OBVIOUS
    <2>2. /\ rowLock[r] = None /\ ledger' = [ledger EXCEPT ![r] = Append(@, m)]
          /\ pending' = pending /\ pc' = pc /\ target' = target /\ req' = req
          /\ BalanceAllowed(r, stock[r] - 1)
      BY <1>6, <2>1 DEF AdjustStock, RowFree
    <2>3. m \in Movements
      <3>1. stock[r] \in Nat /\ stock[r] - 1 \in Nat
        BY <1>0, <2>2 DEF TypeOK, BalanceAllowed
      <3> QED BY <2>1, <3>1 DEF Movements, Directions
    <2>4. /\ ledger'[r] = Append(ledger[r], m) /\ ledger[r] \in Seq(Movements)
          /\ \A s \in Rows \ {r} : ledger'[s] = ledger[s]
          /\ pending[r] = <<>>
      BY <1>0, <2>2 DEF TypeOK, BalancesOK, RowsSettled
    <2>5. Append(ledger[r], m) \in Seq(Movements)
      BY <2>3, <2>4, AppendFacts
    <2>6. Book(r) = ledger[r] /\ Book(r)' = Append(ledger[r], m)
      BY <2>2, <2>4, <2>5, ConcatEmptySeq DEF Book
    <2>7. \A s \in Rows \ {r} : Book(s)' = Book(s)
      BY <2>2, <2>4 DEF Book
    <2>8. Exact(r, m)
      BY <2>1 DEF Exact
    <2>9. \A s \in Rows : \A k \in DOMAIN Book(s)' :
            (k \in DOMAIN Book(s) /\ Book(s)'[k] = Book(s)[k]) \/ Exact(s, Book(s)'[k])
      BY <2>3, <2>4, <2>6, <2>7, <2>8, AppendFacts
    <2> QED BY <2>2, <2>9, ExactKept
  <1>7. ASSUME NEW w \in Workers,
               \/ \E t \in Transfers, op \in Operations : Load(w, op, t)
               \/ WorkerStep(w) \/ Crash(w) \/ DeadlockVictim(w)
        PROVE  ExactOK'
    <2>1. CASE \/ Refused(w) \/ PickRefused(w) \/ MoveRefused(w)
               \/ Crash(w) \/ DeadlockVictim(w)
      BY <1>2, <2>1 DEF Refused, PickRefused, MoveRefused, Crash, DeadlockVictim
    <2>2. CASE \E t \in Transfers, op \in Operations : Load(w, op, t)
      BY <1>0, <1>1, <2>2 DEF Load, TypeOK
    <2>3. CASE ShortRequest(w)
      BY <1>0, <1>1, <2>3 DEF ShortRequest, Approve, Cancel, DestroyRefused, DestroyItems,
                              DestroyTransfer, Finish, TypeOK
    <2>4. CASE LockTransfer(w) \/ LockSource(w) \/ LockDestination(w)
      BY <1>0, <1>1, <2>4 DEF LockTransfer, LockSource, LockDestination, TypeOK
    <2>5. CASE MoveAgain(w) \/ DefaultCommit(w)
      BY <1>0, <1>1, <2>5 DEF MoveAgain, ItemDone, DefaultCommit, TypeOK
    <2> QED BY <1>3, <1>4, <1>5, <1>7, <2>1, <2>2, <2>3, <2>4, <2>5 DEF WorkerStep, Dispatching
  <1>8. CASE \/ \E t \in Transfers : Create(t)
             \/ \E r \in Rows : ReserveStock(r)
             \/ \E c \in Branches \X Products : ToggleProduct(c) \/ SoftDeleteProduct(c)
    BY <1>1, <1>8 DEF Create, ReserveStock, ToggleProduct, SoftDeleteProduct
  <1>9. CASE UNCHANGED vars
    BY <1>1, <1>9 DEF vars
  <1> QED BY <1>6, <1>7, <1>8, <1>9 DEF Next, OtherFlows

LEMMA InitExact ==
  ASSUME Init PROVE ExactOK
PROOF
  <1>1. \A r \in Rows : DOMAIN Book(r) = {}
    BY DEF Init, Book
  <1>2. \A w \in Workers : pc[w] = "idle"
    BY DEF Init
  <1> QED BY <1>1, <1>2 DEF ExactOK, AimOK

LEMMA ExactInvariant == Spec => []ExactOK
PROOF
  <1>1. Init => ExactOK
    BY InitExact
  <1>2. (BaseOK /\ MovesOK) /\ ExactOK /\ [Next]_vars => ExactOK'
    BY NextExact
  <1> QED BY <1>1, <1>2, MovesInvariant, PTL DEF Spec

----
(* What the movements of a row add up to. *)

Quantities(s) == [k \in DOMAIN s |-> s[k].qty]

\* A chain of balances ends at the opening balance and all quantities.
LEMMA ChainSum ==
  ASSUME NEW o \in Nat, NEW b, NEW s \in Seq(Movements), ChainFrom(o, s, b)
  PROVE  IsFiniteSet(DOMAIN s) /\ b = o + SumFunctionOnSet(Quantities(s), DOMAIN s)
PROOF
  <1> DEFINE n == Len(s)
             Sum(m) == SumFunctionOnSet(Quantities(s), 1 .. m)
  <1>1. n \in Nat /\ DOMAIN s = 1 .. n /\ \A k \in 1 .. n : s[k] \in Movements
    BY LenProperties, ElementOfSeq
  <1>2. \A k \in 1 .. n : /\ Quantities(s)[k] = s[k].qty /\ s[k].qty \in Int
                          /\ s[k].before \in Nat /\ s[k].after \in Nat
    BY <1>1 DEF Quantities, Movements
  <1>3. /\ \A k \in 1 .. n : /\ s[k].after = s[k].before + s[k].qty
                             /\ s[k].before = IF k = 1 THEN o ELSE s[k - 1].after
        /\ b = IF s = <<>> THEN o ELSE s[n].after
    BY <1>1 DEF ChainFrom
  <1>4. \A m \in Nat : IsFiniteSet(1 .. m)
    BY FS_Interval
  <1>5. Sum(0) = 0
    <2>1. 1 .. 0 = {}
      OBVIOUS
    <2> QED BY <2>1, SumEmpty
  <1> HIDE DEF n
  <1>6. ASSUME NEW m \in 1 .. n
        PROVE  Sum(m) \in Int /\ Sum(m) = s[m].qty + Sum(m - 1) /\ Sum(m - 1) \in Int
    <2>1. /\ m \in Nat /\ m - 1 \in Nat /\ m \notin 1 .. (m - 1) /\ 1 .. m = (1 .. (m - 1)) \union {m}
          /\ \A k \in 1 .. m : k \in 1 .. n
          /\ \A k \in 1 .. (m - 1) : k \in 1 .. n
      BY <1>1
    <2>2. /\ \A k \in (1 .. (m - 1)) \union {m} : Quantities(s)[k] \in Int
          /\ \A k \in 1 .. (m - 1) : Quantities(s)[k] \in Int
      BY <1>2, <2>1
    <2>3. IsFiniteSet(1 .. (m - 1))
      BY <1>4, <2>1
    <2>4. SumFunctionOnSet(Quantities(s), (1 .. (m - 1)) \union {m})
            = Quantities(s)[m] + Sum(m - 1)
      BY <2>1, <2>2, <2>3, SumAdd
    <2>5. Sum(m - 1) \in Int
      BY <2>2, <2>3, SumInt
    <2>6. Sum(m) = s[m].qty + Sum(m - 1)
      BY <1>2, <2>1, <2>4
    <2> HIDE DEF Sum
    <2> QED BY <1>2, <2>5, <2>6
  <1>7. \A m \in 1 .. n : s[m].after = o + Sum(m)
    <2> DEFINE C == {m \in 1 .. n : s[m].after # o + Sum(m)}
    <2> SUFFICES ASSUME C # {} PROVE FALSE
      OBVIOUS
    <2>1. C \subseteq Nat
      BY <1>1
    <2>2. PICK m \in C : \A k \in C : ~(k < m)
      <3> HIDE DEF C
      <3> QED BY <2>1, Least
    <2>4. m \in 1 .. n /\ s[m].after # o + Sum(m)
      OBVIOUS
    <2>5. m - 1 \notin C
      <3>1. m - 1 < m
        BY <1>1, <2>4
      <3> HIDE DEF C
      <3> QED BY <2>2, <3>1
    <2>6. CASE m = 1
      <3>1. s[m].before = o /\ Sum(m) = s[m].qty + Sum(0)
        <4>1. m - 1 = 0
          BY <2>6
        <4>2. Sum(m) = s[m].qty + Sum(m - 1)
          <5> HIDE DEF Sum, C
          <5> QED BY <1>6, <2>4
        <4> QED BY <1>3, <2>4, <2>6, <4>1, <4>2
      <3> HIDE DEF Sum
      <3> QED BY <1>2, <1>3, <1>5, <2>4, <3>1
    <2>7. CASE m # 1
      <3>1. m - 1 \in 1 .. n
        BY <1>1, <2>4, <2>7
      <3>2. s[m - 1].after = o + Sum(m - 1)
        BY <2>5, <3>1
      <3>3. s[m].before = s[m - 1].after /\ s[m].after = s[m].before + s[m].qty
        BY <1>3, <2>4, <2>7
      <3>4. Sum(m) = s[m].qty + Sum(m - 1) /\ Sum(m - 1) \in Int /\ s[m].qty \in Int
        BY <1>2, <1>6, <2>4
      <3> HIDE DEF Sum, C
      <3> QED BY <2>4, <3>2, <3>3, <3>4
    <2> QED BY <2>6, <2>7
  <1>8. CASE s = <<>>
    <2>1. n = 0 /\ b = o
      BY <1>3, <1>8 DEF n
    <2> QED BY <1>1, <1>4, <1>5, <2>1
  <1>9. CASE s # <<>>
    <2>1. n \in 1 .. n
      BY <1>1, <1>9, EmptySeq DEF n
    <2> QED BY <1>1, <1>3, <1>4, <1>7, <1>9, <2>1
  <1> QED BY <1>8, <1>9

At(r, d) == {k \in DOMAIN ledger[r] : ledger[r][k].dir = d}
Carried(r, d) == {ledger[r][k].item : k \in At(r, d)}

\* A row holds its opening stock, less what was sold and left, plus what arrived.
LEMMA RowSum ==
  ASSUME BaseOK, MovesOK, ExactOK, NEW r \in Rows
  PROVE  /\ \A d : IsFiniteSet(At(r, d))
         /\ \A d \in {"out", "in"} : Carried(r, d) \subseteq Items /\ IsFiniteSet(Carried(r, d))
         /\ stock[r] + Cardinality(At(r, "sale")) + SumFunctionOnSet(RequestedQty, Carried(r, "out"))
              = Opening[r] + SumFunctionOnSet(RequestedQty, Carried(r, "in"))
PROOF
  <1> DEFINE s == ledger[r]
             Q == Quantities(s)
             Of(d) == SumFunctionOnSet(Q, At(r, d))
             Req(d) == SumFunctionOnSet(RequestedQty, Carried(r, d))
  <1>1. TypeOK /\ CommittedEntries /\ BookedOnce
    BY DEF BaseOK, MovesOK, DataOK
  <1>2. s \in Seq(Movements) /\ Opening[r] \in Nat /\ stock[r] \in Nat
    BY <1>1, ShapeAssumption DEF TypeOK
  <1>3. IsFiniteSet(DOMAIN s) /\ stock[r] = Opening[r] + SumFunctionOnSet(Q, DOMAIN s)
    <2>1. ChainFrom(Opening[r], s, stock[r])
      BY DEF BaseOK, BalancesOK, LedgerChains
    <2> QED BY <1>2, <2>1, ChainSum
  <1>4. ASSUME NEW d PROVE IsFiniteSet(At(r, d))
    BY <1>3, FS_Subset DEF At
  <1>5. ASSUME NEW k \in DOMAIN s
        PROVE  /\ s[k].item \in Items \union {None} /\ s[k].qty \in Int /\ Q[k] = s[k].qty
               /\ IF s[k].item = None THEN s[k].dir = "sale" /\ s[k].qty = -1
                  ELSE s[k].dir \in {"out", "in"} /\ s[k].qty = QtyOf(s[k].item, s[k].dir)
    <2>1. s[k] \in Movements
      BY <1>2, LenProperties, ElementOfSeq
    <2>2. EntryOK(r, s[k])
      BY <1>1 DEF CommittedEntries
    <2>3. Exact(r, s[k])
      <3>1. k \in DOMAIN Book(r) /\ Book(r)[k] = s[k]
        BY <1>1, BookFacts
      <3> QED BY <3>1 DEF ExactOK
    <2> QED BY <2>1, <2>2, <2>3 DEF EntryOK, Exact, Movements, Quantities
  <1>6. ASSUME NEW d \in {"out", "in"}, NEW k \in At(r, d)
        PROVE  /\ k \in DOMAIN s /\ s[k].item \in Items /\ s[k].item # None /\ s[k].dir = d
               /\ s[k].qty = QtyOf(s[k].item, d)
    BY <1>5, <1>6 DEF At
  <1>7. ASSUME NEW d \in {"out", "in"}
        PROVE  Carried(r, d) \subseteq Items /\ IsFiniteSet(Carried(r, d))
    <2>1. Carried(r, d) \subseteq Items
      BY <1>6 DEF Carried
    <2> QED BY <2>1, FiniteAssumption, FS_Subset
  <1>8. \A i \in Items : RequestedQty[i] \in Int
    BY ShapeAssumption
  <1>9. ASSUME NEW d
        PROVE  Of(d) \in Int /\ \A k \in At(r, d) : Q[k] \in Int
    <2>1. \A k \in At(r, d) : Q[k] \in Int
      BY <1>5 DEF At
    <2> QED BY <1>4, <2>1, SumInt
  <1>10. Of("sale") + Cardinality(At(r, "sale")) = 0 /\ Cardinality(At(r, "sale")) \in Nat
    <2> DEFINE ones == [k \in At(r, "sale") |-> 1]
               zeros == [k \in At(r, "sale") |-> 0]
    <2>1. \A k \in At(r, "sale") : Q[k] = -1 /\ ones[k] = 1 /\ zeros[k] = 0
      BY <1>5 DEF At
    <2>2. \A k \in At(r, "sale") : Q[k] \in Int /\ ones[k] \in Int /\ zeros[k] = Q[k] + ones[k]
      <3> HIDE DEF ones, zeros, Q
      <3> QED BY <2>1
    <2>3. IsFiniteSet(At(r, "sale"))
      BY <1>4
    <2>4. SumFunctionOnSet(ones, At(r, "sale")) = Cardinality(At(r, "sale"))
      BY <2>3, SumOnes
    <2>5. SumFunctionOnSet(zeros, At(r, "sale")) = 0
      BY <2>3, SumZeros
    <2>6. SumFunctionOnSet(zeros, At(r, "sale")) = Of("sale") + SumFunctionOnSet(ones, At(r, "sale"))
      <3> HIDE DEF ones, zeros, Q
      <3> QED BY <2>2, <2>3, SumPlus
    <2> QED BY <2>3, <2>4, <2>5, <2>6, FS_CardinalityType
  \* The terms of one direction are the quantities of the items it carried.
  <1>11. ASSUME NEW d \in {"out", "in"}, NEW g \in [Items -> Int],
                \A i \in Items : g[i] = QtyOf(i, d)
         PROVE  Of(d) = SumFunctionOnSet(g, Carried(r, d))
    <2> DEFINE h == [k \in At(r, d) |-> s[k].item]
    <2>1. \A k \in At(r, d) : Q[k] \in Int /\ Q[k] = g[h[k]]
      BY <1>5, <1>6, <1>11
    <2>2. \A j, k \in At(r, d) : h[j] = h[k] => j = k
      <3> SUFFICES ASSUME NEW j \in At(r, d), NEW k \in At(r, d), s[j].item = s[k].item
                   PROVE  j = k
        OBVIOUS
      <3>1. /\ s[j].item # None /\ s[j].dir = s[k].dir
            /\ j \in DOMAIN s /\ k \in DOMAIN s
        BY <1>6
      <3>2. /\ j \in DOMAIN Book(r) /\ Book(r)[j] = s[j]
            /\ k \in DOMAIN Book(r) /\ Book(r)[k] = s[k]
        BY <1>1, <3>1, BookFacts
      <3> QED BY <1>1, <3>1, <3>2 DEF BookedOnce
    <2>3. Carried(r, d) = {h[k] : k \in At(r, d)}
      BY DEF Carried
    <2> HIDE DEF h, Q
    <2> QED BY <1>4, <2>1, <2>2, <2>3, SumImage
  <1>12. Of("in") = Req("in")
    BY <1>11, <1>8, ShapeAssumption DEF QtyOf
  <1>13. Of("out") + Req("out") = 0 /\ Req("out") \in Int
    <2> DEFINE g == [i \in Items |-> -RequestedQty[i]]
    <2>1. g \in [Items -> Int] /\ \A i \in Items : g[i] = QtyOf(i, "out") /\ g[i] = -RequestedQty[i]
      BY <1>8 DEF QtyOf
    <2> HIDE DEF g
    <2>2. Of("out") = SumFunctionOnSet(g, Carried(r, "out"))
      BY <1>11, <2>1
    <2>3. IsFiniteSet(Carried(r, "out")) /\ \A i \in Carried(r, "out") :
            RequestedQty[i] \in Int /\ g[i] = -RequestedQty[i]
      BY <1>7, <1>8, <2>1
    <2>4. SumFunctionOnSet(g, Carried(r, "out")) = -Req("out") /\ Req("out") \in Int
      BY <2>3, SumMinus, SumInt
    <2> HIDE DEF Of, Req
    <2> QED BY <2>2, <2>4
  <1>14. SumFunctionOnSet(Q, DOMAIN s) = Of("sale") + (Of("out") + Of("in"))
    <2> DEFINE moved == At(r, "out") \union At(r, "in")
    <2>1. DOMAIN s = At(r, "sale") \union moved
      BY <1>5 DEF At
    <2>2. At(r, "sale") \intersect moved = {} /\ At(r, "out") \intersect At(r, "in") = {}
      BY DEF At
    <2>3. /\ IsFiniteSet(At(r, "sale")) /\ IsFiniteSet(At(r, "out")) /\ IsFiniteSet(At(r, "in"))
          /\ IsFiniteSet(moved)
      BY <1>4, FS_Union
    <2>4. /\ \A k \in At(r, "sale") \union moved : Q[k] \in Int
          /\ \A k \in At(r, "out") \union At(r, "in") : Q[k] \in Int
      BY <1>9
    <2>5. SumFunctionOnSet(Q, moved) = Of("out") + Of("in")
      <3> HIDE DEF Q
      <3> QED BY <2>2, <2>3, <2>4, SumUnion
    <2>6. SumFunctionOnSet(Q, At(r, "sale") \union moved) = Of("sale") + SumFunctionOnSet(Q, moved)
      <3> HIDE DEF Q, moved
      <3> QED BY <2>2, <2>3, <2>4, SumUnion
    <2> QED BY <2>1, <2>5, <2>6
  <1>15. Of("sale") \in Int /\ Of("out") \in Int /\ Of("in") \in Int
    BY <1>9
  <1>16. stock[r] + Cardinality(At(r, "sale")) + Req("out") = Opening[r] + Req("in")
    <2>1. \A p, q, t, x, y, c, z, sum \in Int :
            /\ t + c = 0 /\ x + z = 0 /\ sum = t + (x + y) /\ p = q + sum
            => p + c + z = q + y
      OBVIOUS
    <2>2. SumFunctionOnSet(Q, DOMAIN s) \in Int
      <3> HIDE DEF Of, Q
      <3> QED BY <1>14, <1>15
    <2> HIDE DEF Of, Req, Q, s
    <2>3. /\ Cardinality(At(r, "sale")) \in Int /\ stock[r] \in Int /\ Opening[r] \in Int
      BY <1>2, <1>10
    <2> QED BY <1>3, <1>10, <1>12, <1>13, <1>14, <1>15, <2>1, <2>2, <2>3
  <1> QED BY <1>4, <1>7, <1>16

----
LEMMA GoodsAdd ==
  ASSUME BaseOK, MovesOK, ExactOK
  PROVE  Conserved
PROOF
  <1> DEFINE Sold(r) == Cardinality({k \in DOMAIN ledger[r] : ledger[r][k].dir = "sale"})
  <1> SUFFICES ASSUME NEW p \in Products
               PROVE  LET rows == {r \in Rows : r[2] = p}
                          road == {i \in Items : ProductOf[i] = p /\ Booked(i, "out")
                                                                  /\ ~Booked(i, "in")}
                      IN SumFunction([r \in rows |-> stock[r] + Sold(r)])
                           + SumFunctionOnSet(RequestedQty, road)
                         = SumFunctionOnSet(Opening, rows)
    BY DEF Conserved
  <1> DEFINE rows == {r \in Rows : r[2] = p}
             road == {i \in Items : ProductOf[i] = p /\ Booked(i, "out") /\ ~Booked(i, "in")}
             held == [r \in rows |-> stock[r] + Sold(r)]
             Way(d) == {i \in Items : ProductOf[i] = p /\ Booked(i, d)}
             parts(d) == [r \in rows |-> Carried(r, d)]
             flow(d) == [r \in rows |-> SumFunctionOnSet(RequestedQty, Carried(r, d))]
             both == [r \in rows |-> held[r] + flow("out")[r]]
             Sum(f) == SumFunctionOnSet(f, rows)
  <1>1. TypeOK /\ CommittedEntries /\ BookedOnce
    BY DEF BaseOK, MovesOK, DataOK
  <1>2. IsFiniteSet(rows) /\ rows \subseteq Rows
    BY FiniteAssumption, FS_Subset
  <1>3. \A i \in Items : RequestedQty[i] \in Int
    BY ShapeAssumption
  <1>4. ASSUME NEW r \in rows
        PROVE  /\ held[r] = stock[r] + Cardinality(At(r, "sale")) /\ held[r] \in Int
               /\ \A d \in {"out", "in"} :
                    /\ Carried(r, d) \subseteq Items /\ IsFiniteSet(Carried(r, d))
                    /\ flow(d)[r] \in Int
               /\ held[r] + flow("out")[r] = Opening[r] + flow("in")[r]
               /\ Opening[r] \in Int
    <2>1. r \in Rows /\ stock[r] \in Nat /\ Opening[r] \in Nat
      BY <1>1, <1>2, ShapeAssumption DEF TypeOK
    <2>2. held[r] = stock[r] + Cardinality(At(r, "sale"))
      BY DEF At
    <2>3. Cardinality(At(r, "sale")) \in Nat
      BY <2>1, RowSum, FS_CardinalityType
    <2>4. ASSUME NEW d \in {"out", "in"}
          PROVE  /\ Carried(r, d) \subseteq Items /\ IsFiniteSet(Carried(r, d))
                 /\ flow(d)[r] = SumFunctionOnSet(RequestedQty, Carried(r, d))
                 /\ flow(d)[r] \in Int
      <3>1. Carried(r, d) \subseteq Items /\ IsFiniteSet(Carried(r, d))
        BY <2>1, RowSum
      <3>2. SumFunctionOnSet(RequestedQty, Carried(r, d)) \in Int
        BY <1>3, <3>1, SumInt
      <3> QED BY <3>1, <3>2
    <2>5. stock[r] + Cardinality(At(r, "sale")) + SumFunctionOnSet(RequestedQty, Carried(r, "out"))
            = Opening[r] + SumFunctionOnSet(RequestedQty, Carried(r, "in"))
      BY <2>1, RowSum
    <2> HIDE DEF held, flow
    <2> QED BY <2>1, <2>2, <2>3, <2>4, <2>5
  \* An item moves in one row per direction, of its own product.
  <1>5. ASSUME NEW d \in {"out", "in"}
        PROVE  IsFiniteSet(Way(d)) /\ Sum(flow(d)) = SumFunctionOnSet(RequestedQty, Way(d))
    <2>1. \A r \in rows : /\ IsFiniteSet(parts(d)[r])
                          /\ \A i \in parts(d)[r] : RequestedQty[i] \in Int
                          /\ flow(d)[r] = SumFunctionOnSet(RequestedQty, parts(d)[r])
      BY <1>3, <1>4
    <2>2. ASSUME NEW r \in Rows, NEW k \in At(r, d)
          PROVE  /\ k \in DOMAIN ledger[r] /\ ledger[r][k].dir = d
                 /\ k \in DOMAIN Book(r) /\ Book(r)[k] = ledger[r][k]
                 /\ ledger[r][k].item # None
      <3>1. k \in DOMAIN ledger[r] /\ ledger[r][k].dir = d
        BY DEF At
      <3>2. k \in DOMAIN Book(r) /\ Book(r)[k] = ledger[r][k]
        BY <1>1, <3>1, BookFacts
      <3> QED BY <1>1, <3>1, <3>2 DEF CommittedEntries, EntryOK
    <2>3. ASSUME NEW r \in rows, NEW s \in rows, NEW i,
                 i \in parts(d)[r], i \in parts(d)[s]
          PROVE  r = s
      <3>1. PICK j \in At(r, d) : i = ledger[r][j].item
        BY <2>3 DEF Carried
      <3>2. PICK k \in At(s, d) : i = ledger[s][k].item
        BY <2>3 DEF Carried
      <3>3. r \in Rows /\ s \in Rows
        OBVIOUS
      <3>4. /\ j \in DOMAIN Book(r) /\ Book(r)[j] = ledger[r][j]
            /\ ledger[r][j].item # None /\ ledger[r][j].dir = d
            /\ k \in DOMAIN Book(s) /\ Book(s)[k] = ledger[s][k] /\ ledger[s][k].dir = d
        BY <2>2, <3>1, <3>2, <3>3
      <3>5. /\ Book(r)[j].item # None /\ Book(r)[j].item = Book(s)[k].item
            /\ Book(r)[j].dir = Book(s)[k].dir
        BY <3>1, <3>2, <3>4
      <3> QED BY <1>1, <3>3, <3>4, <3>5 DEF BookedOnce
    <2>4. \A r, s \in rows : r # s => parts(d)[r] \intersect parts(d)[s] = {}
      <3> HIDE DEF parts
      <3> QED BY <2>3
    <2>5. ASSUME NEW i PROVE i \in Way(d) <=> \E r \in rows : i \in parts(d)[r]
      <3>1. ASSUME i \in Way(d) PROVE \E r \in rows : i \in parts(d)[r]
        <4>1. PICK r \in Rows : \E k \in DOMAIN ledger[r] :
                     ledger[r][k].item = i /\ ledger[r][k].dir = d
          BY <3>1 DEF Booked
        <4>2. PICK k \in At(r, d) : ledger[r][k].item = i
          BY <4>1 DEF At
        <4>3. r[2] = ProductOf[i]
          BY <2>2, <4>2 DEF ExactOK, Exact, Suits
        <4>4. r \in rows
          BY <3>1, <4>3
        <4> QED BY <4>2, <4>4 DEF Carried
      <3>2. ASSUME NEW r \in rows, i \in parts(d)[r] PROVE i \in Way(d)
        <4>1. PICK k \in At(r, d) : i = ledger[r][k].item
          BY <3>2 DEF Carried
        <4>2. i \in Items
          BY <1>4, <3>2
        <4>3. r \in Rows /\ r[2] = p
          OBVIOUS
        <4>4. k \in DOMAIN ledger[r] /\ ledger[r][k].dir = d
              /\ k \in DOMAIN Book(r) /\ Book(r)[k] = ledger[r][k] /\ i # None
          BY <2>2, <4>1, <4>3
        <4>5. r[2] = ProductOf[i]
          BY <4>1, <4>3, <4>4 DEF ExactOK, Exact, Suits
        <4> QED BY <4>1, <4>2, <4>3, <4>4, <4>5 DEF Booked
      <3> QED BY <3>1, <3>2
    <2> HIDE DEF parts, flow, rows, Way
    <2> QED BY <1>2, <2>1, <2>4, <2>5, SumCover
  \* What has arrived has left; the rest is on the road.
  <1>6. Way("out") = Way("in") \union road /\ Way("in") \intersect road = {}
    <2>1. ASSUME NEW i \in Items, Booked(i, "in") PROVE Booked(i, "out")
      <3>1. PICK r \in Rows : \E k \in DOMAIN ledger[r] :
                   ledger[r][k].item = i /\ ledger[r][k].dir = "in"
        BY <2>1 DEF Booked
      <3>2. i # None
        BY NoneAssumption
      <3> QED BY <1>1, <3>1, <3>2 DEF CommittedEntries, EntryOK
    <2> QED BY <2>1
  <1>7. /\ IsFiniteSet(Way("in")) /\ IsFiniteSet(road)
        /\ SumFunctionOnSet(RequestedQty, Way("out"))
             = SumFunctionOnSet(RequestedQty, Way("in")) + SumFunctionOnSet(RequestedQty, road)
        /\ SumFunctionOnSet(RequestedQty, Way("in")) \in Int
        /\ SumFunctionOnSet(RequestedQty, road) \in Int
    <2>1. IsFiniteSet(Way("in")) /\ IsFiniteSet(road) /\ road \subseteq Items /\ Way("in") \subseteq Items
      BY FiniteAssumption, FS_Subset
    <2> HIDE DEF Way, road
    <2>2. \A i \in Way("in") \union road : RequestedQty[i] \in Int
      BY <1>3, <2>1
    <2>3. /\ SumFunctionOnSet(RequestedQty, Way("in")) \in Int
          /\ SumFunctionOnSet(RequestedQty, road) \in Int
      BY <2>1, <2>2, SumInt
    <2> QED BY <1>6, <2>1, <2>2, <2>3, SumUnion
  <1>8. Sum(both) = Sum(held) + Sum(flow("out")) /\ Sum(both) = Sum(Opening) + Sum(flow("in"))
    <2>1. \A r \in rows : both[r] = held[r] + flow("out")[r]
      OBVIOUS
    <2>2. \A r \in rows : held[r] \in Int /\ flow("out")[r] \in Int /\ both[r] = held[r] + flow("out")[r]
      BY <1>4, <2>1
    <2>3. \A r \in rows : Opening[r] \in Int /\ flow("in")[r] \in Int /\ both[r] = Opening[r] + flow("in")[r]
      BY <1>4, <2>1
    <2> HIDE DEF both, held, flow, rows
    <2>4. Sum(both) = Sum(held) + Sum(flow("out"))
      BY <1>2, <2>2, SumPlus
    <2>5. Sum(both) = Sum(Opening) + Sum(flow("in"))
      BY <1>2, <2>3, SumPlus
    <2> QED BY <2>4, <2>5
  <1>9. Sum(held) \in Int /\ Sum(Opening) \in Int
    <2>1. \A r \in rows : held[r] \in Int /\ Opening[r] \in Int
      BY <1>4
    <2> HIDE DEF held, rows
    <2> QED BY <1>2, <2>1, SumInt
  <1>10. Sum(held) + SumFunctionOnSet(RequestedQty, road) = Sum(Opening)
    <2>1. Sum(flow("out")) = SumFunctionOnSet(RequestedQty, Way("in"))
                             + SumFunctionOnSet(RequestedQty, road)
      BY <1>5, <1>7
    <2>2. Sum(flow("in")) = SumFunctionOnSet(RequestedQty, Way("in"))
      BY <1>5
    <2>3. \A a, b, c, d, e \in Int : a + (d + e) = b + d => a + e = b
      OBVIOUS
    <2> HIDE DEF held, flow, rows, road, Way, both
    <2>4. Sum(held) + (SumFunctionOnSet(RequestedQty, Way("in")) + SumFunctionOnSet(RequestedQty, road))
            = Sum(Opening) + SumFunctionOnSet(RequestedQty, Way("in"))
      BY <1>8, <2>1, <2>2
    <2> HIDE DEF Sum
    <2> QED BY <1>7, <1>9, <2>3, <2>4
  <1>11. SumFunction(held) = Sum(held)
    <2>1. DOMAIN held = rows
      OBVIOUS
    <2> HIDE DEF held, rows
    <2> QED BY <2>1 DEF SumFunction
  <1> QED BY <1>10, <1>11

\* However transfers crash, race and are retried, per product what all branches hold, what
\* is on the road and what was sold add up to the opening stock (_move, in two databases).
THEOREM NothingLostNorMade == Spec => []Conserved
PROOF
  <1>1. (BaseOK /\ MovesOK) /\ ExactOK => Conserved
    BY GoodsAdd
  <1> QED BY <1>1, MovesInvariant, ExactInvariant, PTL

----
(* The workflow implements TransferGoods. *)

\* The sums of TransferGoods are those of StockTransfer.
LEMMA SameSums ==
  ASSUME NEW f, NEW S
  PROVE  Goods!SumFunctionOnSet(f, S) = SumFunctionOnSet(f, S)
PROOF
  BY DEF Goods!SumFunctionOnSet, Goods!FoldFunctionOnSet, Goods!MapThenFoldSet,
         SumFunctionOnSet, FoldFunctionOnSet, MapThenFoldSet

\* The goods of t are where its first booked item says: all its items are there.
LEMMA Places ==
  ASSUME MovesOK, NEW t \in Transfers, NEW i \in Items, TransferOf[i] = t
  PROVE  /\ ~Booked(i, "out") => GoodsPlace(t) = "source"
         /\ Booked(i, "out") /\ ~Booked(i, "in") => GoodsPlace(t) = "transit"
         /\ Booked(i, "in") => Booked(i, "out") /\ GoodsPlace(t) = "destination"
PROOF
  <1>1. ASSUME NEW j \in Items, Booked(j, "in") PROVE Booked(j, "out")
    <2>1. PICK r \in Rows : \E k \in DOMAIN ledger[r] :
                 ledger[r][k].item = j /\ ledger[r][k].dir = "in"
      BY <1>1 DEF Booked
    <2>2. j # None
      BY NoneAssumption
    <2> QED BY <2>1, <2>2 DEF MovesOK, DataOK, CommittedEntries, EntryOK
  <1>2. \A j \in ItemsOf(t) : \A dir \in {"out", "in"} : Booked(j, dir) <=> Booked(i, dir)
    BY DEF MovesOK, DataOK, WholeTransfers, ItemsOf
  <1>3. i \in ItemsOf(t)
    BY DEF ItemsOf
  <1> QED BY <1>1, <1>2, <1>3 DEF GoodsPlace

\* The same of the next state.
LEMMA NewPlaces ==
  ASSUME MovesOK', NEW t \in Transfers, NEW i \in Items, TransferOf[i] = t
  PROVE  /\ Booked(i, "out")' /\ ~Booked(i, "in")' => GoodsPlace(t)' = "transit"
         /\ Booked(i, "in")' => Booked(i, "out")' /\ GoodsPlace(t)' = "destination"
PROOF
  <1>1. ASSUME NEW j \in Items, Booked(j, "in")' PROVE Booked(j, "out")'
    <2>1. PICK r \in Rows : \E k \in DOMAIN ledger'[r] :
                 ledger'[r][k].item = j /\ ledger'[r][k].dir = "in"
      BY <1>1 DEF Booked
    <2>2. j # None
      BY NoneAssumption
    <2> QED BY <2>1, <2>2 DEF MovesOK, DataOK, CommittedEntries, EntryOK
  <1>2. \A j \in ItemsOf(t) : \A dir \in {"out", "in"} : Booked(j, dir)' <=> Booked(i, dir)'
    BY DEF MovesOK, DataOK, WholeTransfers, ItemsOf
  <1>3. i \in ItemsOf(t) /\ ItemsOf(t)' = ItemsOf(t)
    BY DEF ItemsOf
  <1> QED BY <1>1, <1>2, <1>3 DEF GoodsPlace

\* The goods stay where they are when no item is booked.
LEMMA PlacesKept ==
  ASSUME NEW t, \A i \in ItemsOf(t) : \A dir \in {"out", "in"} : Booked(i, dir)' <=> Booked(i, dir)
  PROVE  GoodsPlace(t)' = GoodsPlace(t)
PROOF
  <1>1. ItemsOf(t)' = ItemsOf(t)
    BY DEF ItemsOf
  <1> QED BY <1>1 DEF GoodsPlace

\* A sale.
LEMMA AdjustSells ==
  ASSUME BaseOK, MovesOK, NEW r \in Rows, AdjustStock(r)
  PROVE  Goods!Sell(r)
PROOF
  <1>1. TypeOK
    BY DEF BaseOK
  <1>2. PICK m : m = [item |-> None, dir |-> "sale", qty |-> -1,
                      before |-> stock[r], after |-> stock[r] - 1]
    OBVIOUS
  <1>3. /\ r \in Traded /\ ledger' = [ledger EXCEPT ![r] = Append(@, m)]
        /\ BalanceAllowed(r, stock[r] - 1) /\ stock' = [stock EXCEPT ![r] = @ - 1]
    BY <1>2 DEF AdjustStock
  <1>4. stock[r] \in Nat /\ stock[r] > 0 /\ stock[r] - 1 \in Nat
    BY <1>1, <1>3 DEF TypeOK, BalanceAllowed
  <1>5. m \in Movements
    BY <1>2, <1>4 DEF Movements, Directions
  <1>6. \A s \in Rows : \A k \in DOMAIN ledger'[s] :
          \/ k \in DOMAIN ledger[s] /\ ledger'[s][k] = ledger[s][k]
          \/ s = r /\ ledger'[s][k] = m
    BY <1>1, <1>3, <1>5, AppendFacts DEF TypeOK
  <1>7. \A s \in Rows : \A k \in DOMAIN ledger[s] :
          k \in DOMAIN ledger'[s] /\ ledger'[s][k] = ledger[s][k]
    BY <1>1, <1>3, <1>5, AppendFacts DEF TypeOK, Grows
  <1>8. ASSUME NEW i \in Items, NEW d PROVE Booked(i, d)' <=> Booked(i, d)
    <2>1. i # None
      BY NoneAssumption
    <2> QED BY <1>2, <1>6, <1>7, <2>1 DEF Booked
  <1>9. \A t \in Transfers : GoodsPlace(t)' = GoodsPlace(t)
    BY <1>8, PlacesKept DEF ItemsOf
  <1> QED BY <1>3, <1>4, <1>9 DEF Goods!Sell

\* The movements that worker w commits: those of all items of its transfer, or none.
Writing(w) == \E r \in Rows : rowLock[r] = w /\ pending[r] # <<>>

LEMMA QuietCommit ==
  ASSUME BaseOK, NEW w \in Workers, TenantCommit(w), ~Writing(w)
  PROVE  ledger' = ledger /\ stock' = stock
PROOF
  <1>1. TypeOK /\ BalancesOK /\ CommitRows(w)
    BY DEF BaseOK, TenantCommit
  <1>2. ASSUME NEW r \in Rows, rowLock[r] = w
        PROVE  ledger'[r] = ledger[r] /\ stock'[r] = stock[r]
    <2>1. pending[r] = <<>>
      BY <1>2 DEF Writing
    <2>2. ledger'[r] = ledger[r] \o <<>> /\ stock'[r] = wStock[r]
      BY <1>1, <1>2, <2>1 DEF CommitRows
    <2>3. wStock[r] = stock[r]
      BY <1>1, <2>1 DEF BalancesOK, UncommittedChains, ChainFrom
    <2>4. ledger[r] \in Seq(Movements)
      BY <1>1 DEF TypeOK
    <2> QED BY <2>2, <2>3, <2>4, ConcatEmptySeq
  <1>3. \A r \in Rows : rowLock[r] # w => ledger'[r] = ledger[r] /\ stock'[r] = stock[r]
    BY <1>1 DEF CommitRows
  <1>4. /\ DOMAIN ledger' = Rows /\ DOMAIN ledger = Rows
        /\ DOMAIN stock' = Rows /\ DOMAIN stock = Rows
        /\ ledger' = [r \in Rows |-> ledger'[r]] /\ ledger = [r \in Rows |-> ledger[r]]
        /\ stock' = [r \in Rows |-> stock'[r]] /\ stock = [r \in Rows |-> stock[r]]
    BY <1>1 DEF TypeOK, CommitRows
  <1> QED BY <1>2, <1>3, <1>4

\* What a branch transaction that moved something commits.
LEMMA CommitBooks ==
  ASSUME BaseOK, MovesOK, ExactOK, NEW w \in Workers, TenantCommit(w), Writing(w),
         NEW t, t = req[w].xfer, NEW d, d = Direction(req[w].op)
  PROVE  /\ t \in Transfers /\ ItemsOf(t) # {}
         /\ \A i \in ItemsOf(t) : ~Booked(i, d) /\ Booked(i, d)'
         /\ \A i \in ItemsOf(t) :
              \E r \in Rows : /\ rowLock[r] = w
                              /\ \E k \in DOMAIN pending[r] : pending[r][k].item = i
         /\ \A i \in Items, dir \in {"out", "in"} :
              Booked(i, dir)' /\ ~Booked(i, dir) => i \in ItemsOf(t) /\ dir = d
         /\ \A i, dir : Booked(i, dir) => Booked(i, dir)'
PROOF
  <1>1. TypeOK /\ RequestOK /\ WholeTransfers /\ PendingEntries /\ BookedOnce /\ ItemsSeen(w)
    BY DEF BaseOK, MovesOK, DataOK, ControlOK
  <1>2. CommitRows(w) /\ pc[w] = "own_branches" /\ todo[w] = {}
    BY DEF TenantCommit
  <1>3. t \in Transfers
    BY <1>1, <1>2 DEF RequestOK
  <1>4. \A r \in Rows :
          /\ rowLock[r] = w => ledger'[r] = Book(r)
          /\ rowLock[r] # w => ledger'[r] = ledger[r]
          /\ Grows(ledger[r], ledger'[r])
    BY <1>1, <1>2, CommitFacts
  <1>5. \A i, dir : Booked(i, dir) => Booked(i, dir)'
    BY <1>4, BookedKept
  <1>6. ASSUME NEW r \in Rows, rowLock[r] = w, NEW k \in DOMAIN pending[r]
        PROVE  pending[r][k].item \in ItemsOf(t) /\ pending[r][k].dir = d
    <2>1. PendingOK(r, k)
      BY <1>1 DEF PendingEntries
    <2> QED BY <1>6, <2>1 DEF PendingOK, ItemsOf
  <1>7. PICK s \in Rows : rowLock[s] = w /\ pending[s] # <<>>
    BY DEF Writing
  <1>8. 1 \in DOMAIN pending[s]
    <2>1. pending[s] \in Seq(Movements)
      BY <1>1 DEF TypeOK
    <2>2. DOMAIN pending[s] = 1 .. Len(pending[s]) /\ Len(pending[s]) \in Nat /\ Len(pending[s]) # 0
      BY <1>7, <2>1, LenProperties, EmptySeq
    <2> QED BY <2>2
  <1> PICK a : a = pending[s][1].item
    OBVIOUS
  <1>9. a \in ItemsOf(t) /\ a \in Items /\ TransferOf[a] = t /\ a # None /\ pending[s][1].dir = d
    BY <1>6, <1>7, <1>8, NoneAssumption DEF ItemsOf
  <1>10. ~Booked(a, d)
    <2> SUFFICES ASSUME NEW r \in Rows, NEW k \in DOMAIN ledger[r],
                        ledger[r][k].item = a, ledger[r][k].dir = d
                 PROVE  FALSE
      BY DEF Booked
    <2>1. k \in DOMAIN Book(r) /\ Book(r)[k] = ledger[r][k]
          /\ k \in Nat /\ k <= Len(ledger[r])
      <3>1. /\ k \in DOMAIN Book(r) /\ Book(r)[k] = ledger[r][k]
            /\ DOMAIN ledger[r] = 1 .. Len(ledger[r]) /\ Len(ledger[r]) \in Nat
        BY <1>1, BookFacts
      <3> QED BY <3>1
    <2>2. /\ 1 + Len(ledger[s]) \in DOMAIN Book(s)
          /\ Book(s)[1 + Len(ledger[s])] = pending[s][1]
          /\ Len(ledger[s]) \in Nat
      BY <1>1, <1>8, BookFacts
    <2>3. r = s /\ k = 1 + Len(ledger[s])
      <3>1. /\ Book(r)[k].item # None /\ Book(r)[k].item = Book(s)[1 + Len(ledger[s])].item
            /\ Book(r)[k].dir = Book(s)[1 + Len(ledger[s])].dir
        BY <1>9, <2>1, <2>2
      <3> QED BY <1>1, <2>1, <2>2, <3>1 DEF BookedOnce
    <2> QED BY <2>1, <2>2, <2>3
  <1>11. d \in {"out", "in"}
    BY DEF Direction
  <1>12. ASSUME NEW i \in ItemsOf(t)
         PROVE  /\ ~Booked(i, d) /\ Booked(i, d)'
                /\ \E r \in Rows : /\ rowLock[r] = w
                                   /\ \E k \in DOMAIN pending[r] : pending[r][k].item = i
    <2>1. i \in Items /\ TransferOf[i] = t
      BY DEF ItemsOf
    <2>2. ~Booked(i, d)
      BY <1>1, <1>9, <1>10, <1>11, <2>1 DEF WholeTransfers
    <2>3. Seen(w, i)
      BY <1>1, <1>2, <2>1 DEF ItemsSeen, MovingPCs
    <2>4. PICK r \in Rows : r \in KeyedRows(w, HomeOf(i, d), i, d)
      BY <2>3 DEF Seen, KeyedRows
    <2>5. \/ \E k \in DOMAIN ledger[r] : ledger[r][k].item = i /\ ledger[r][k].dir = d
          \/ /\ rowLock[r] = w
             /\ \E k \in DOMAIN pending[r] : pending[r][k].item = i /\ pending[r][k].dir = d
      BY <1>1, <2>4, KeyedFacts
    <2>6. PICK k \in DOMAIN pending[r] : pending[r][k].item = i /\ pending[r][k].dir = d
      BY <2>2, <2>5 DEF Booked
    <2>7. rowLock[r] = w
      BY <2>2, <2>5 DEF Booked
    <2>8. k + Len(ledger[r]) \in DOMAIN Book(r) /\ Book(r)[k + Len(ledger[r])] = pending[r][k]
      BY <1>1, BookFacts
    <2>9. Booked(i, d)'
      <3>1. /\ k + Len(ledger[r]) \in DOMAIN ledger'[r]
            /\ ledger'[r][k + Len(ledger[r])] = pending[r][k]
        BY <1>4, <2>7, <2>8
      <3> QED BY <2>6, <3>1 DEF Booked
    <2> QED BY <2>2, <2>6, <2>7, <2>9
  <1>13. ASSUME NEW i \in Items, NEW dir \in {"out", "in"}, Booked(i, dir)', ~Booked(i, dir)
         PROVE  i \in ItemsOf(t) /\ dir = d
    <2>1. PICK r \in Rows : \E k \in DOMAIN ledger'[r] :
                 ledger'[r][k].item = i /\ ledger'[r][k].dir = dir
      BY <1>13 DEF Booked
    <2>2. PICK k \in DOMAIN ledger'[r] : ledger'[r][k].item = i /\ ledger'[r][k].dir = dir
      BY <2>1
    <2>3. rowLock[r] = w /\ ledger'[r] = Book(r)
      BY <1>4, <1>13, <2>2 DEF Booked
    <2>4. \/ k \in DOMAIN ledger[r] /\ Book(r)[k] = ledger[r][k]
          \/ /\ k - Len(ledger[r]) \in DOMAIN pending[r]
             /\ Book(r)[k] = pending[r][k - Len(ledger[r])]
      BY <1>1, <2>2, <2>3, BookFacts
    <2>5. k - Len(ledger[r]) \in DOMAIN pending[r] /\ Book(r)[k] = pending[r][k - Len(ledger[r])]
      BY <1>13, <2>2, <2>3, <2>4 DEF Booked
    <2> QED BY <1>6, <2>2, <2>3, <2>5
  <1> QED BY <1>3, <1>5, <1>9, <1>12, <1>13

\* What the branch transaction adds to row r is what its items ask for.
LEMMA CommitAdds ==
  ASSUME BaseOK, MovesOK, ExactOK, NEW w \in Workers, NEW r \in Rows, rowLock[r] = w,
         NEW g, \A i \in Items : g[i] = QtyOf(i, Direction(req[w].op))
  PROVE  wStock[r] = stock[r] + SumFunctionOnSet(g, {pending[r][k].item : k \in DOMAIN pending[r]})
PROOF
  <1> DEFINE s == pending[r]
             Q == Quantities(s)
             h == [k \in DOMAIN s |-> s[k].item]
  <1>1. TypeOK /\ PendingEntries /\ BookedOnce
    BY DEF BaseOK, MovesOK, DataOK
  <1>2. s \in Seq(Movements) /\ stock[r] \in Nat
    BY <1>1 DEF TypeOK
  <1>3. IsFiniteSet(DOMAIN s) /\ wStock[r] = stock[r] + SumFunctionOnSet(Q, DOMAIN s)
    <2>1. ChainFrom(stock[r], s, wStock[r])
      BY DEF BaseOK, BalancesOK, UncommittedChains
    <2> QED BY <1>2, <2>1, ChainSum
  <1>4. ASSUME NEW k \in DOMAIN s
        PROVE  /\ s[k].item \in Items /\ s[k].item # None
               /\ s[k].dir = Direction(req[w].op)
               /\ Q[k] = s[k].qty /\ Q[k] \in Int /\ Q[k] = g[h[k]] /\ h[k] = s[k].item
    <2>1. PendingOK(r, k)
      BY <1>1 DEF PendingEntries
    <2>2. s[k].item \in Items /\ s[k].item # None /\ s[k].dir = Direction(req[w].op)
      BY <2>1, NoneAssumption DEF PendingOK
    <2>3. s[k].qty = QtyOf(s[k].item, s[k].dir)
      BY <2>1, <2>2 DEF PendingOK, EntryOK
    <2>4. s[k] \in Movements
      BY <1>2, LenProperties, ElementOfSeq
    <2>5. s[k].qty \in Int /\ Q[k] = s[k].qty
      BY <2>4 DEF Movements, Quantities
    <2> QED BY <2>2, <2>3, <2>5
  <1>5. \A j, k \in DOMAIN s : h[j] = h[k] => j = k
    <2> SUFFICES ASSUME NEW j \in DOMAIN s, NEW k \in DOMAIN s, s[j].item = s[k].item
                 PROVE  j = k
      OBVIOUS
    <2>1. /\ Len(ledger[r]) \in Nat
          /\ DOMAIN s = 1 .. Len(s) /\ Len(s) \in Nat
          /\ j + Len(ledger[r]) \in DOMAIN Book(r) /\ Book(r)[j + Len(ledger[r])] = s[j]
          /\ k + Len(ledger[r]) \in DOMAIN Book(r) /\ Book(r)[k + Len(ledger[r])] = s[k]
      BY <1>1, BookFacts
    <2>2. /\ Book(r)[j + Len(ledger[r])].item # None
          /\ Book(r)[j + Len(ledger[r])].item = Book(r)[k + Len(ledger[r])].item
          /\ Book(r)[j + Len(ledger[r])].dir = Book(r)[k + Len(ledger[r])].dir
      BY <1>4, <2>1
    <2>3. j + Len(ledger[r]) = k + Len(ledger[r])
      BY <1>1, <2>1, <2>2 DEF BookedOnce
    <2> QED BY <2>1, <2>3
  <1>6. {h[k] : k \in DOMAIN s} = {s[k].item : k \in DOMAIN s}
    OBVIOUS
  <1>7. SumFunctionOnSet(Q, DOMAIN s) = SumFunctionOnSet(g, {h[k] : k \in DOMAIN s})
    <2> HIDE DEF h, Q, s
    <2> QED BY <1>3, <1>4, <1>5, SumImage
  <1> QED BY <1>3, <1>6, <1>7

\* The goods of a transfer leave, or arrive, with the commit of the branch transaction.
LEMMA CommitMoves ==
  ASSUME BaseOK, MovesOK, ExactOK, TypeOK', MovesOK', NEW w \in Workers, TenantCommit(w), Writing(w),
         NEW t, t = req[w].xfer, NEW d, d = Direction(req[w].op)
  PROVE  Goods!Leave(t) \/ Goods!Arrive(t)
PROOF
  <1> DEFINE Into(i, r) == rowLock[r] = w /\ \E k \in DOMAIN pending[r] : pending[r][k].item = i
             row == [i \in ItemsOf(t) |-> CHOOSE r \in Rows : Into(i, r)]
             Sent(r) == {i \in ItemsOf(t) : row[i] = r}
  <1>1. TypeOK /\ PendingEntries /\ BookedOnce /\ CommitRows(w)
    BY DEF BaseOK, MovesOK, DataOK, TenantCommit
  <1>2. /\ t \in Transfers /\ ItemsOf(t) # {} /\ ItemsOf(t) \subseteq Items
        /\ \A i \in ItemsOf(t) : ~Booked(i, d) /\ Booked(i, d)' /\ TransferOf[i] = t
        /\ \A i \in ItemsOf(t) : \E r \in Rows : Into(i, r)
        /\ \A i \in Items, dir \in {"out", "in"} :
             Booked(i, dir)' /\ ~Booked(i, dir) => i \in ItemsOf(t) /\ dir = d
        /\ \A i, dir : Booked(i, dir) => Booked(i, dir)'
    BY CommitBooks DEF ItemsOf
  <1>3. d \in {"out", "in"}
    BY DEF Direction
  <1>4. ASSUME NEW i \in ItemsOf(t)
        PROVE  row[i] \in Rows /\ Into(i, row[i])
    <2> HIDE DEF Into
    <2> QED BY <1>2, <1>4
  <1> HIDE DEF row
  <1>5. ASSUME NEW r \in Rows, rowLock[r] = w, NEW k \in DOMAIN pending[r]
        PROVE  /\ pending[r][k].item \in ItemsOf(t) /\ pending[r][k].dir = d
               /\ pending[r][k].item # None
               /\ r[1] = HomeOf(pending[r][k].item, d) /\ Suits(pending[r][k].item, d, r)
               /\ k + Len(ledger[r]) \in DOMAIN Book(r)
               /\ Book(r)[k + Len(ledger[r])] = pending[r][k]
    <2>1. PendingOK(r, k)
      BY <1>1 DEF PendingEntries
    <2>2. k + Len(ledger[r]) \in DOMAIN Book(r) /\ Book(r)[k + Len(ledger[r])] = pending[r][k]
      BY <1>1, BookFacts
    <2>3. /\ pending[r][k].item \in ItemsOf(t) /\ pending[r][k].dir = d
          /\ pending[r][k].item # None
      BY <1>5, <2>1, NoneAssumption DEF PendingOK, ItemsOf
    <2>4. r[1] = HomeOf(pending[r][k].item, d)
      BY <2>1, <2>3 DEF PendingOK, EntryOK
    <2>5. Exact(r, pending[r][k])
      BY <2>2 DEF ExactOK
    <2> QED BY <2>2, <2>3, <2>4, <2>5 DEF Exact
  <1>6. ASSUME NEW i \in ItemsOf(t)
        PROVE  /\ row[i] \in Rows /\ row[i][1] = HomeOf(i, d) /\ Suits(i, d, row[i])
    BY <1>4, <1>5
  \* The movements of w in a row are those of the items sent there.
  <1>7. ASSUME NEW r \in Rows, rowLock[r] = w
        PROVE  {pending[r][k].item : k \in DOMAIN pending[r]} = Sent(r)
    <2>1. ASSUME NEW k \in DOMAIN pending[r] PROVE pending[r][k].item \in Sent(r)
      <3> DEFINE i == pending[r][k].item
      <3>1. i \in ItemsOf(t) /\ i # None /\ pending[r][k].dir = d
            /\ k + Len(ledger[r]) \in DOMAIN Book(r) /\ Book(r)[k + Len(ledger[r])] = pending[r][k]
        BY <1>5, <1>7
      <3>2. row[i] \in Rows /\ rowLock[row[i]] = w
        BY <1>4, <3>1
      <3>3. PICK j \in DOMAIN pending[row[i]] : pending[row[i]][j].item = i
        BY <1>4, <3>1
      <3>4. PICK s : s = row[i]
        OBVIOUS
      <3>5. /\ s \in Rows /\ j + Len(ledger[s]) \in DOMAIN Book(s)
            /\ Book(s)[j + Len(ledger[s])].item = i /\ Book(s)[j + Len(ledger[s])].dir = d
        BY <1>5, <3>2, <3>3, <3>4
      <3>6. r = s
        <4>1. /\ Book(r)[k + Len(ledger[r])].item # None
              /\ Book(r)[k + Len(ledger[r])].item = Book(s)[j + Len(ledger[s])].item
              /\ Book(r)[k + Len(ledger[r])].dir = Book(s)[j + Len(ledger[s])].dir
          BY <3>1, <3>5
        <4> QED BY <1>1, <3>1, <3>5, <4>1 DEF BookedOnce
      <3> QED BY <3>1, <3>4, <3>6
    <2>2. ASSUME NEW i \in Sent(r) PROVE \E k \in DOMAIN pending[r] : pending[r][k].item = i
      BY <1>4
    <2> QED BY <2>1, <2>2
  <1>8. ASSUME NEW g, \A i \in Items : g[i] = QtyOf(i, d), NEW r \in Rows
        PROVE  stock'[r] = stock[r] + SumFunctionOnSet(g, Sent(r))
    <2>1. CASE rowLock[r] = w
      <3>1. wStock[r] = stock[r]
                  + SumFunctionOnSet(g, {pending[r][k].item : k \in DOMAIN pending[r]})
        BY <1>8, <2>1, CommitAdds
      <3>2. stock'[r] = wStock[r]
        BY <1>1, <2>1 DEF CommitRows
      <3> HIDE DEF Sent
      <3> QED BY <1>7, <2>1, <3>1, <3>2
    <2>2. CASE rowLock[r] # w
      <3>1. Sent(r) = {}
        BY <1>4, <2>2
      <3>2. stock'[r] = stock[r] /\ stock[r] \in Nat
        BY <1>1, <2>2 DEF CommitRows, TypeOK
      <3>3. SumFunctionOnSet(g, Sent(r)) = 0
        BY <3>1, SumEmpty
      <3> QED BY <3>2, <3>3
    <2> QED BY <2>1, <2>2
  <1>9. \A r \in Rows : IsFiniteSet(Sent(r)) /\ Sent(r) \subseteq Items
    BY <1>2, FiniteAssumption, FS_Subset
  <1>10. \A i \in Items : RequestedQty[i] \in Int
    BY ShapeAssumption
  <1>11. \A r \in Rows : SumFunctionOnSet(RequestedQty, Sent(r)) \in Int /\ stock[r] \in Int
    <2> HIDE DEF Sent
    <2>1. \A r \in Rows : \A i \in Sent(r) : RequestedQty[i] \in Int
      BY <1>9, <1>10
    <2>2. \A r \in Rows : SumFunctionOnSet(RequestedQty, Sent(r)) \in Int
      BY <1>9, <2>1, SumInt
    <2> QED BY <1>1, <2>2 DEF TypeOK
  <1>12. stock' = [r \in Rows |-> stock'[r]]
    BY <1>1 DEF CommitRows
  <1>13. ASSUME NEW u \in Transfers, u # t PROVE GoodsPlace(u)' = GoodsPlace(u)
    <2>1. \A i \in ItemsOf(u) : i \in Items /\ i \notin ItemsOf(t)
      BY <1>13 DEF ItemsOf
    <2> QED BY <1>2, <2>1, PlacesKept
  <1>14. PICK a \in ItemsOf(t) : a \in Items /\ TransferOf[a] = t
    BY <1>2
  <1>15. d = "out" => GoodsPlace(t) = "source" /\ GoodsPlace(t)' = "transit"
    <2> SUFFICES ASSUME d = "out" PROVE GoodsPlace(t) = "source" /\ GoodsPlace(t)' = "transit"
      OBVIOUS
    <2>1. ~Booked(a, "out") /\ Booked(a, "out")' /\ ~Booked(a, "in")'
      <3>1. ~Booked(a, "out") /\ Booked(a, "out")'
        BY <1>2
      <3>2. ~Booked(a, "in")
        BY <1>2, <1>14, <3>1, Places
      <3> QED BY <1>14, <1>2, <3>1, <3>2
    <2>2. GoodsPlace(t) = "source"
      BY <1>2, <1>14, <2>1, Places
    <2>3. GoodsPlace(t)' = "transit"
      BY <1>2, <1>14, <2>1, NewPlaces
    <2> QED BY <2>2, <2>3
  <1>16. d = "in" => GoodsPlace(t) = "transit" /\ GoodsPlace(t)' = "destination"
    <2> SUFFICES ASSUME d = "in" PROVE GoodsPlace(t) = "transit" /\ GoodsPlace(t)' = "destination"
      OBVIOUS
    <2>1. ~Booked(a, "in") /\ Booked(a, "in")' /\ Booked(a, "out")
      <3>1. ~Booked(a, "in") /\ Booked(a, "in")'
        BY <1>2
      <3>2. Booked(a, "out")'
        BY <1>2, <1>14, <3>1, NewPlaces
      <3> QED BY <1>2, <1>14, <3>1, <3>2
    <2>2. GoodsPlace(t) = "transit"
      BY <1>2, <1>14, <2>1, Places
    <2>3. GoodsPlace(t)' = "destination"
      BY <1>2, <1>14, <2>1, NewPlaces
    <2> QED BY <2>2, <2>3
  <1>17. CASE d = "out"
    <2> DEFINE g == [i \in Items |-> -RequestedQty[i]]
               shelf == [i \in ItemsOf(t) |-> row[i][3]]
    <2>1. \A i \in Items : g[i] = QtyOf(i, d) /\ g[i] = -RequestedQty[i]
      BY <1>17 DEF QtyOf
    <2> HIDE DEF g
    <2>2. \A r \in Rows : stock'[r] = stock[r] + SumFunctionOnSet(g, Sent(r))
      BY <1>8, <2>1
    <2>3. \A r \in Rows : SumFunctionOnSet(g, Sent(r)) = -SumFunctionOnSet(RequestedQty, Sent(r))
      <3> HIDE DEF Sent
      <3>1. \A r \in Rows : \A i \in Sent(r) : RequestedQty[i] \in Int /\ g[i] = -RequestedQty[i]
        BY <1>9, <1>10, <2>1
      <3> QED BY <1>9, <3>1, SumMinus
    <2>4. \A r \in Rows : stock'[r] = stock[r] + (-1) * SumFunctionOnSet(RequestedQty, Sent(r))
      <3> HIDE DEF Sent
      <3> QED BY <1>11, <2>2, <2>3
    <2>5. \A i \in ItemsOf(t) : /\ row[i] = <<FromBranch[t], ProductOf[i], shelf[i]>>
                                /\ shelf[i] \in Warehouses
      BY <1>2, <1>6, <1>17 DEF HomeOf, Suits, Rows
    <2>6. shelf \in [ItemsOf(t) -> Warehouses]
      BY <2>5
    <2>7. \A r \in Rows : Sent(r) = {i \in ItemsOf(t) :
             [j \in ItemsOf(t) |-> <<FromBranch[t], ProductOf[j], shelf[j]>>][i] = r}
      BY <2>5
    <2>8. \A r \in Rows : stock'[r] >= 0
      BY DEF TypeOK
    <2>9. Goods!ItemsOf(t) = ItemsOf(t) /\ Goods!Rows = Rows
      BY DEF Goods!ItemsOf, ItemsOf, Goods!Rows, Rows
    <2> HIDE DEF Sent, shelf
    <2> DEFINE R == [i \in ItemsOf(t) |-> <<FromBranch[t], ProductOf[i], shelf[i]>>]
    <2>10. stock' = Goods!Booking(t, R, -1)
      <3> HIDE DEF R
      <3>1. \A r \in Rows : Sent(r) = {i \in ItemsOf(t) : R[i] = r}
        BY <2>7 DEF R
      <3>2. \A r \in Rows : stock'[r] =
              stock[r] + (-1) * SumFunctionOnSet(RequestedQty, {i \in ItemsOf(t) : R[i] = r})
        BY <2>4, <3>1
      <3>3. stock' = [r \in Rows |->
              stock[r] + (-1) * SumFunctionOnSet(RequestedQty, {i \in ItemsOf(t) : R[i] = r})]
        BY <1>12, <3>2
      <3>4. \A r \in Rows : Goods!SumFunctionOnSet(RequestedQty, {i \in ItemsOf(t) : R[i] = r})
              = SumFunctionOnSet(RequestedQty, {i \in ItemsOf(t) : R[i] = r})
        BY SameSums
      <3> QED BY <2>9, <3>3, <3>4 DEF Goods!Booking
    <2> QED BY <1>2, <1>13, <1>15, <1>17, <2>6, <2>8, <2>9, <2>10 DEF Goods!Leave
  <1>18. CASE d = "in"
    <2> DEFINE R == [i \in ItemsOf(t) |-> <<ToBranch[t], ProductOf[i], DefaultWarehouse>>]
    <2>1. \A i \in Items : RequestedQty[i] = QtyOf(i, d)
      BY <1>18 DEF QtyOf
    <2>2. \A r \in Rows : stock'[r] = stock[r] + SumFunctionOnSet(RequestedQty, Sent(r))
      BY <1>8, <2>1
    <2>3. \A r \in Rows : stock'[r] = stock[r] + 1 * SumFunctionOnSet(RequestedQty, Sent(r))
      <3> HIDE DEF Sent
      <3> QED BY <1>11, <2>2
    <2>4. \A i \in ItemsOf(t) : row[i] = R[i]
      BY <1>2, <1>6, <1>18 DEF HomeOf, Suits, Rows
    <2>5. \A r \in Rows : Sent(r) = {i \in ItemsOf(t) : R[i] = r}
      BY <2>4
    <2>6. Goods!ItemsOf(t) = ItemsOf(t) /\ Goods!Rows = Rows
      BY DEF Goods!ItemsOf, ItemsOf, Goods!Rows, Rows
    <2> HIDE DEF Sent
    <2>7. stock' = Goods!Booking(t, R, 1)
      <3> HIDE DEF R
      <3>1. \A r \in Rows : stock'[r] =
              stock[r] + 1 * SumFunctionOnSet(RequestedQty, {i \in ItemsOf(t) : R[i] = r})
        BY <2>3, <2>5
      <3>2. stock' = [r \in Rows |->
              stock[r] + 1 * SumFunctionOnSet(RequestedQty, {i \in ItemsOf(t) : R[i] = r})]
        BY <1>12, <3>1
      <3>3. \A r \in Rows : Goods!SumFunctionOnSet(RequestedQty, {i \in ItemsOf(t) : R[i] = r})
              = SumFunctionOnSet(RequestedQty, {i \in ItemsOf(t) : R[i] = r})
        BY SameSums
      <3> QED BY <2>6, <3>2, <3>3 DEF Goods!Booking
    <2> QED BY <1>2, <1>13, <1>16, <1>18, <2>6, <2>7 DEF Goods!Arrive
  <1> QED BY <1>3, <1>17, <1>18

LEMMA NextGoods ==
  ASSUME BaseOK, MovesOK, ExactOK, TypeOK', MovesOK', [Next]_vars
  PROVE  [Goods!Next]_Goods!vars
PROOF
  <1> USE DEF defaultVars, lockVars, tenantVars, workerVars
  <1>1. ASSUME ledger' = ledger, stock' = stock
        PROVE  UNCHANGED Goods!vars
    <2>1. \A i, d : Booked(i, d)' <=> Booked(i, d)
      BY <1>1 DEF Booked
    <2>2. \A t : GoodsPlace(t)' = GoodsPlace(t)
      BY <2>1, PlacesKept
    <2> QED BY <1>1, <2>2 DEF Goods!vars
  <1>2. CASE \E r \in Rows : AdjustStock(r)
    <2>1. PICK r \in Rows : AdjustStock(r)
      BY <1>2
    <2>2. Goods!Sell(r) /\ r \in Traded
      BY <2>1, AdjustSells DEF AdjustStock
    <2> QED BY <2>2 DEF Goods!Next
  <1>3. ASSUME NEW w \in Workers, TenantCommit(w)
        PROVE  [Goods!Next]_Goods!vars
    <2>1. CASE Writing(w)
      <3>1. req[w].xfer \in Transfers
        BY <1>3, <2>1, CommitBooks
      <3>2. Goods!Leave(req[w].xfer) \/ Goods!Arrive(req[w].xfer)
        BY <1>3, <2>1, CommitMoves
      <3> QED BY <3>1, <3>2 DEF Goods!Next
    <2>2. CASE ~Writing(w)
      BY <1>1, <1>3, <2>2, QuietCommit
    <2> QED BY <2>1, <2>2
  <1>4. ASSUME NEW w \in Workers,
               \/ \E t \in Transfers, op \in Operations : Load(w, op, t)
               \/ WorkerStep(w) \/ Crash(w) \/ DeadlockVictim(w),
               ~TenantCommit(w)
        PROVE  ledger' = ledger /\ stock' = stock
    <2>1. CASE \/ Refused(w) \/ PickRefused(w) \/ MoveRefused(w)
               \/ Crash(w) \/ DeadlockVictim(w)
      BY <2>1 DEF Refused, PickRefused, MoveRefused, Crash, DeadlockVictim, Abandon, RollbackRows
    <2>2. CASE \E t \in Transfers, op \in Operations : Load(w, op, t)
      BY <2>2 DEF Load
    <2>3. CASE ShortRequest(w)
      BY <2>3 DEF ShortRequest, Approve, Cancel, DestroyRefused, DestroyItems,
                  DestroyTransfer, Finish
    <2>4. CASE LockTransfer(w) \/ LockSource(w) \/ LockDestination(w) \/ Pick(w)
      BY <2>4 DEF LockTransfer, LockSource, LockDestination, Pick
    <2>5. CASE MoveAgain(w) \/ Move(w) \/ DefaultCommit(w)
      BY <2>5 DEF MoveAgain, Move, ItemDone, DefaultCommit
    <2> QED BY <1>4, <2>1, <2>2, <2>3, <2>4, <2>5 DEF WorkerStep, Dispatching
  <1>5. CASE \/ \E t \in Transfers : Create(t)
             \/ \E r \in Rows : ReserveStock(r)
             \/ \E c \in Branches \X Products : ToggleProduct(c) \/ SoftDeleteProduct(c)
             \/ UNCHANGED vars
    <2>1. ledger' = ledger /\ stock' = stock
      BY <1>5 DEF Create, ReserveStock, ToggleProduct, SoftDeleteProduct, vars
    <2> QED BY <1>1, <2>1
  <1>6. ASSUME NEW w \in Workers,
               \/ \E t \in Transfers, op \in Operations : Load(w, op, t)
               \/ WorkerStep(w) \/ Crash(w) \/ DeadlockVictim(w)
        PROVE  [Goods!Next]_Goods!vars
    BY <1>1, <1>3, <1>4, <1>6
  <1> QED BY <1>2, <1>5, <1>6 DEF Next, OtherFlows

LEMMA InitGoods ==
  ASSUME Init PROVE Goods!Init
PROOF
  <1>1. \A r \in Rows : DOMAIN ledger[r] = {}
    BY DEF Init
  <1>2. \A t : GoodsPlace(t) = "source"
    BY <1>1 DEF GoodsPlace, Booked
  <1> QED BY <1>2 DEF Init, Goods!Init

\* The workflow over two databases implements TransferGoods: whatever crashes, races and
\* retries do to the statuses, a transfer's goods leave and arrive whole and once, and no
\* balance changes but by what moves or is sold.
THEOREM TransfersAsPromised == Spec => GoodsMoveAsPromised
PROOF
  <1>1. Init => Goods!Init
    BY InitGoods
  <1>2. BaseOK /\ MovesOK /\ (BaseOK /\ MovesOK)' /\ ExactOK /\ [Next]_vars
          => [Goods!Next]_Goods!vars
    BY NextGoods DEF BaseOK
  <1> QED BY <1>1, <1>2, MovesInvariant, ExactInvariant, PTL DEF Spec, Goods!Spec, GoodsMoveAsPromised
=============================================================================
