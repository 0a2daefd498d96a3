----------------------------- MODULE Warehouse -----------------------------
(***************************************************************************)
(* The stock rows of one physical branch: apps/inventory without the       *)
(* documents that move goods.                                              *)
(*                                                                         *)
(* An article is a Product of the branch.  A native article was created in *)
(* the branch's own schema, where adjustments change its stock and the     *)
(* overviews read it.  An imported article came out of a workbook: its     *)
(* Product row is in the shared database, and a mirror of it, the stock    *)
(* rows, receipts, sales and rack allocations are in the branch's          *)
(* database; an import commits the mirror first and the shared row last.   *)
(*                                                                         *)
(* A clerk is a web process serving one request.  A stock row is keyed by  *)
(* its article and variant, and is changed under its row lock: the lock is *)
(* taken, and everything under it done, in one action.                     *)
(***************************************************************************)
EXTENDS Integers, Sequences, FiniteSets, FiniteSetsExt, Functions

CONSTANTS
  Clerks,      \* web processes
  Articles,    \* primary keys of Product
  Imported,    \* articles that come out of workbooks
  Kinds,       \* ProductVariant rows other than the base one
  Workbook,    \* per imported article: its variants, opening quantity, price and
               \* whether its line has a barcode
  Racks,
  Quantities,  \* that clients send
  Prices,      \* purchase prices that clients send; 0 is none
  LowMark,     \* stock below it is low: 10 in the code
  MaxMoves,    \* bound: movements of a stock row
  Desks        \* what clients do in a behaviour

VARIABLES
  desk,        \* what clients ask for, for which articles, and whether they overlap
  goods,       \* Product row in the branch, its flags, and the shared Product row
  variantRows, \* ProductVariant rows of an article
  onHand,      \* ProductStock rows
  moves,       \* StockMovement rows of a stock row, oldest first
  places,      \* RackStockAllocation.quantity
  paid,        \* history: the unit costs at which goods of a row came in
  task         \* the request each clerk serves

warehouseVars == <<desk, goods, variantRows, onHand, moves, places, paid, task>>

Kept == -1
NoVariant == "no variant"
Base == "base"
Keys == Articles \X ({NoVariant, Base} \union Kinds)
Native == Articles \ Imported
Free == [step |-> "free"]

ASSUME WarehouseAssumption ==
  /\ Imported \subseteq Articles
  /\ {NoVariant, Base} \intersect Kinds = {}
  /\ IsFiniteSet(Racks) /\ \A d \in Desks : d.articles \subseteq Articles
  /\ Quantities \subseteq Nat \ {0}
  /\ Prices \subseteq Nat
  /\ LowMark \in Nat \ {0}
  /\ Workbook \in [Imported -> [kinds : SUBSET Kinds, quantity : Nat, price : Nat,
                                barcode : BOOLEAN]]

NoArticle == [row |-> FALSE, active |-> FALSE, split |-> FALSE, shared |-> FALSE]
NoRow == [row |-> FALSE, current |-> 0, reserved |-> 0, cost |-> 0]

WarehouseInit ==
  /\ desk \in Desks
  /\ goods = [a \in Articles |-> NoArticle]
  /\ variantRows = [a \in Articles |-> {}]
  /\ onHand = [k \in Keys |-> NoRow]
  /\ moves = [k \in Keys |-> <<>>]
  /\ places = [k \in Keys |-> [r \in Racks |-> 0]]
  /\ paid = [k \in Keys |-> {}]
  /\ task = [c \in Clerks |-> Free]

----------------------------------------------------------------------------
(* Requests. *)

Serves(c, kind) ==
  /\ kind \in desk.kinds
  /\ task[c] = Free
  /\ desk.overlap \/ \A d \in Clerks : task[d] = Free

Stands(c, step) == task[c].step = step
Goes(c, t) == task' = [task EXCEPT ![c] = t]
Leaves(c) == Goes(c, Free)

stockVars == <<onHand, moves, paid>>

----------------------------------------------------------------------------
(* What a unit costs. *)

RoundHalfUp(n, d) == (2 * n + d) \div (2 * d)

\* calculate_inventory_tax: the 5% of VAT is in the price or on top of it, and
\* is capitalised when it cannot be recovered.
CapitalisedCost(price, treatment, inclusive, recoverable) ==
  LET net == IF treatment = "VAT" /\ inclusive THEN RoundHalfUp(price * 100, 105) ELSE price
      vat == CASE treatment # "VAT" -> 0
               [] inclusive -> price - net
               [] OTHER -> RoundHalfUp(price * 5, 100)
  IN IF recoverable THEN net ELSE net + vat

\* Mutant: what is there after the receipt is weighed with the old average.
AverageOfAll(before, average, quantity, cost) ==
  RoundHalfUp((before + quantity) * average + quantity * cost, before + quantity)

AverageOf(before, average, quantity, cost) ==
  RoundHalfUp(before * average + quantity * cost, before + quantity)

----------------------------------------------------------------------------
(* Stock rows. *)

Unreserved(key) == onHand[key].current - onHand[key].reserved

Movement(by, quantity, before) ==
  [by |-> by, quantity |-> quantity, before |-> before, after |-> before + quantity]

\* Mutant: the balance is checked against nothing but zero.
DeductableToZero(key, quantity) == quantity <= onHand[key].current

\* Reserved goods are not deducted.
Deductable(key, quantity) == quantity <= Unreserved(key)

\* Every stock row in changed gets the signed quantity there, at this unit cost or at
\* the one it has (Kept).
Books(changed, by, cost) ==
  /\ \A key \in DOMAIN changed : Len(moves[key]) < MaxMoves
  /\ onHand' = [k \in Keys |->
       IF k \notin DOMAIN changed THEN onHand[k]
       ELSE [row |-> TRUE, reserved |-> onHand[k].reserved,
             current |-> onHand[k].current + changed[k],
             cost |-> IF cost = Kept \/ changed[k] <= 0 THEN onHand[k].cost
                      ELSE AverageOf(onHand[k].current, onHand[k].cost, changed[k], cost)]]
  /\ moves' = [k \in Keys |->
       IF k \in DOMAIN changed /\ changed[k] # 0
       THEN Append(moves[k], Movement(by, changed[k], onHand[k].current)) ELSE moves[k]]
  /\ paid' = [k \in Keys |->
       IF k \in DOMAIN changed /\ changed[k] > 0
       THEN paid[k] \union {IF cost = Kept THEN onHand[k].cost ELSE cost} ELSE paid[k]]

----------------------------------------------------------------------------
(* Native articles. *)

\* The stock row of a variant is keyed by it, the one of an unsplit article by none.
KeyOf(a, v) == <<a, IF v = Base THEN NoVariant ELSE v>>

\* Product, variants, stock rows and opening stock are one transaction.
CreateArticle(c) ==
  /\ Serves(c, "create")
  /\ \E a \in desk.articles \ Imported, rows \in SUBSET Kinds, quantity \in Quantities \union {0},
        price \in Prices, treatment \in {"VAT", "NON_VAT"}, inclusive \in BOOLEAN :
       LET variants == IF rows = {} THEN {Base} ELSE rows
       IN /\ ~goods[a].row
          /\ quantity > 0 => price > 0
          /\ goods' = [goods EXCEPT ![a] = [row |-> TRUE, active |-> TRUE,
                                            split |-> rows # {}, shared |-> FALSE]]
          /\ variantRows' = [variantRows EXCEPT ![a] = variants]
          /\ Books([k \in {KeyOf(a, v) : v \in variants} |-> quantity], "OPENING",
                    CapitalisedCost(price, treatment, inclusive, treatment = "VAT"))
  /\ UNCHANGED <<desk, places, task>>

EditLoad(c) ==
  /\ Serves(c, "edit")
  /\ \E a \in desk.articles \ Imported :
       /\ goods[a].row
       /\ Goes(c, [step |-> "edit", article |-> a, read |-> goods[a]])
  /\ UNCHANGED <<desk, goods, variantRows, stockVars, places>>

\* Mutant: variants that the client left out stay beside the ones it sent.
NothingLeftOutIgnored(a, sent) == TRUE

\* A variant that exists may not be left out of the ones that are sent.
NothingLeftOut(a, sent) == variantRows[a] \subseteq sent

\* The whole Product row is saved as it was read, with the fields that are sent;
\* "reshape" clients also send has_variants.
EditSave(c) ==
  LET a == task[c].article
  IN /\ Stands(c, "edit")
     /\ \E active \in BOOLEAN, split \in BOOLEAN :
          /\ split = task[c].read.split \/ "reshape" \in desk.kinds
          /\ LET saved == [task[c].read EXCEPT !.active = active, !.split = split]
             IN \/ /\ goods' = [goods EXCEPT ![a] = saved]
                   /\ UNCHANGED <<variantRows, stockVars>>
                \/ \E rows \in SUBSET Kinds :
                     LET sent == IF split THEN rows ELSE {Base}
                     IN /\ NothingLeftOut(a, sent)
                        /\ goods' = [goods EXCEPT ![a] = saved]
                        /\ variantRows' = [variantRows EXCEPT ![a] = @ \union sent]
                        /\ Books([k \in {KeyOf(a, v) : v \in sent} |-> 0], "none", Kept)
                \/ /\ \E rows \in SUBSET Kinds :
                        ~NothingLeftOut(a, IF split THEN rows ELSE {Base})
                   /\ UNCHANGED <<goods, variantRows, stockVars>>
     /\ Leaves(c)
     /\ UNCHANGED <<desk, places>>

\* An adjustment names the article and, if it likes, any of its variants, the base
\* variant of an unsplit article included: that one has a stock row of its own.
AdjustCheck(c) ==
  /\ Serves(c, "adjust")
  /\ \E a \in desk.articles \ Imported, v \in {NoVariant, Base} \union Kinds, quantity \in Quantities,
        direction \in {"ADD", "DEDUCT"} :
       /\ goods[a].row /\ goods[a].active
       /\ v # NoVariant => v \in variantRows[a]
       /\ goods[a].split => v # NoVariant
       /\ Goes(c, [step |-> "adjust", key |-> <<a, v>>,
                   signed |-> IF direction = "ADD" THEN quantity ELSE -quantity])
  /\ UNCHANGED <<desk, goods, variantRows, stockVars, places>>

\* StockAdjustment, balance and movement are one transaction under the row's lock.
AdjustBook(c) ==
  LET key == task[c].key
      signed == task[c].signed
  IN /\ Stands(c, "adjust")
     /\ IF signed > 0 \/ Deductable(key, -signed)
        THEN Books([k \in {key} |-> signed], "ADJUSTMENT", Kept)
        ELSE UNCHANGED stockVars
     /\ Leaves(c)
     /\ UNCHANGED <<desk, goods, variantRows, places>>

----------------------------------------------------------------------------
(* Imported articles. *)

LineKeys(a) ==
  {KeyOf(a, v) : v \in IF Workbook[a].kinds = {} THEN {Base} ELSE Workbook[a].kinds}

\* Mutant: only the shared catalogue is searched for the SKU.
UnknownToShared(a) == ~goods[a].shared

\* The SKU is new to the shared catalogue and to the branch.
UnknownSku(a) == ~goods[a].shared /\ ~goods[a].row

ImportCheck(c) ==
  /\ Serves(c, "import")
  /\ \E a \in desk.articles \intersect Imported :
       /\ UnknownSku(a)
       /\ Goes(c, [step |-> "import_insert", article |-> a])
  /\ UNCHANGED <<desk, goods, variantRows, stockVars, places>>

\* The shared row is inserted and not committed: its SKU is taken until it is.
ImportInsert(c) ==
  LET a == task[c].article
  IN /\ Stands(c, "import_insert")
     /\ \A d \in Clerks : task[d].step \in {"import_mirror", "import_stock", "import_commit"}
                            => task[d].article # a
     /\ IF goods[a].shared THEN Leaves(c) ELSE Goes(c, [step |-> "import_mirror", article |-> a])
     /\ UNCHANGED <<desk, goods, variantRows, stockVars, places>>

\* The branch's product is found by its SKU; one with another barcode is refused, and
\* a line without a barcode has just been given a new one.  The balances are read
\* without a lock.
ImportMirror(c) ==
  LET a == task[c].article
  IN /\ Stands(c, "import_mirror")
     /\ IF goods[a].row /\ ~Workbook[a].barcode
        THEN Leaves(c)
        ELSE Goes(c, [step |-> "import_stock", article |-> a,
                      seen |-> [k \in LineKeys(a) |-> onHand[k].current]])
     /\ UNCHANGED <<desk, goods, variantRows, stockVars, places>>

\* The difference to the quantity on the line is booked, and the branch's transaction
\* with the mirror commits.
ImportStock(c) ==
  LET a == task[c].article
      difference == [k \in LineKeys(a) |-> Workbook[a].quantity - task[c].seen[k]]
  IN /\ Stands(c, "import_stock")
     /\ IF \A k \in LineKeys(a) : difference[k] >= 0 \/ Deductable(k, -difference[k])
        THEN /\ goods' = [goods EXCEPT ![a].row = TRUE, ![a].active = TRUE,
                                       ![a].split = Workbook[a].kinds # {}]
             /\ variantRows' = [variantRows EXCEPT
                  ![a] = IF Workbook[a].kinds = {} THEN {Base} ELSE Workbook[a].kinds]
             /\ Books(difference, "OPENING",
                       IF Workbook[a].price = 0 THEN Kept
                       ELSE CapitalisedCost(Workbook[a].price, "VAT", TRUE, TRUE))
             /\ Goes(c, [step |-> "import_commit", article |-> a])
        ELSE /\ Leaves(c)
             /\ UNCHANGED <<goods, variantRows, stockVars>>
     /\ UNCHANGED <<desk, places>>

ImportCommit(c) ==
  /\ Stands(c, "import_commit")
  /\ goods' = [goods EXCEPT ![task[c].article].shared = TRUE]
  /\ Leaves(c)
  /\ UNCHANGED <<desk, variantRows, stockVars, places>>

\* A later line of the workbook is refused, or the process dies: the shared rows are
\* rolled back, what the branch has committed stays.
ImportFails(c) ==
  /\ "fail" \in desk.kinds
  /\ task[c].step \in {"import_mirror", "import_stock", "import_commit"}
  /\ Leaves(c)
  /\ UNCHANGED <<desk, goods, variantRows, stockVars, places>>

----------------------------------------------------------------------------
(* The documents that move imported goods, through adjust_stock. *)

ReceiveGoods(c) ==
  /\ Serves(c, "receive")
  /\ \E k \in Keys, quantity \in Quantities, price \in Prices \ {0},
        treatment \in {"VAT", "NON_VAT"}, inclusive \in BOOLEAN, recoverable \in BOOLEAN :
       /\ k[1] \in desk.articles \intersect Imported /\ onHand[k].row
       /\ Books([key \in {k} |-> quantity], "RECEIPT",
                 CapitalisedCost(price, treatment, inclusive, recoverable))
  /\ UNCHANGED <<desk, goods, variantRows, places, task>>

IssueGoods(c) ==
  /\ Serves(c, "issue")
  /\ \E k \in Keys, quantity \in Quantities :
       /\ k[1] \in desk.articles \intersect Imported /\ onHand[k].row
       /\ Deductable(k, quantity)
       /\ Books([key \in {k} |-> -quantity], "SALE", Kept)
  /\ UNCHANGED <<desk, goods, variantRows, places, task>>

ReserveGoods(c) ==
  /\ Serves(c, "reserve")
  /\ \E k \in Keys, quantity \in Quantities :
       /\ k[1] \in desk.articles \intersect Imported /\ onHand[k].row
       /\ quantity <= Unreserved(k)
       /\ onHand' = [onHand EXCEPT ![k].reserved = @ + quantity]
  /\ UNCHANGED <<desk, goods, variantRows, moves, paid, places, task>>

\* Mutant: what is placed is not compared with what is there.
FitsAnyway(key, placed) == TRUE

FitsOnHand(key, placed) ==
  SumFunctionOnSet(placed, Racks) <= onHand[key].current

\* for_stock: all allocations of a stock row are replaced, under its lock.
PlaceGoods(c) ==
  /\ Serves(c, "place")
  /\ \E k \in Keys, placed \in [Racks -> Quantities \union {0}] :
       /\ k[1] \in desk.articles \intersect Imported /\ onHand[k].row
       /\ FitsOnHand(k, placed)
       /\ places' = [places EXCEPT ![k] = placed]
  /\ UNCHANGED <<desk, goods, variantRows, stockVars, task>>

----------------------------------------------------------------------------
(* What the stock pages show. *)

\* Mutant: every row with a variant is left out.
ListedUnsplit(key) ==
  onHand[key].row /\ key[1] \in Native /\ goods[key[1]].active /\ key[2] = NoVariant

\* A row of an active article; a row without variant only of an unsplit one.
Listed(key) ==
  /\ onHand[key].row /\ key[1] \in Native /\ goods[key[1]].active
  /\ ~goods[key[1]].split \/ key[2] # NoVariant

StockStatus(available) ==
  CASE available <= 0 -> "out" [] available < LowMark -> "low" [] OTHER -> "ok"

StockOverview == {[key |-> k, available |-> Unreserved(k), status |-> StockStatus(Unreserved(k))] :
                    k \in {key \in Keys : Listed(key)}}

LowStock == {k \in Keys : Listed(k) /\ Unreserved(k) < LowMark}

----------------------------------------------------------------------------
WarehouseStep(c) ==
  \/ CreateArticle(c) \/ EditLoad(c) \/ EditSave(c) \/ AdjustCheck(c) \/ AdjustBook(c)
  \/ ImportCheck(c) \/ ImportInsert(c) \/ ImportMirror(c) \/ ImportStock(c)
  \/ ImportCommit(c) \/ ImportFails(c)
  \/ ReceiveGoods(c) \/ IssueGoods(c) \/ ReserveGoods(c) \/ PlaceGoods(c)

WarehouseNext == \E c \in Clerks : WarehouseStep(c)

WarehouseSpec == WarehouseInit /\ [][WarehouseNext]_warehouseVars

----------------------------------------------------------------------------
(* Properties. *)

\* The movements of a stock row lead from nothing to what is on hand.
MovementsLead ==
  \A k \in Keys :
    /\ \A n \in DOMAIN moves[k] :
         moves[k][n].before = IF n = 1 THEN 0 ELSE moves[k][n - 1].after
    /\ onHand[k].current = IF moves[k] = <<>> THEN 0 ELSE moves[k][Len(moves[k])].after
    /\ onHand[k].reserved <= onHand[k].current

\* Goods are moved while two imports of one article overlap: the second import takes
\* back, or adds again, what came and went since the first.
MovedBetween == desk.overlap /\ {"issue", "receive"} \intersect desk.kinds # {}

\* However imports are repeated, fail and overlap, a stock row is opened once, unless
\* goods are moved while two imports of one article overlap.
OpenedOnce ==
  ~MovedBetween =>
    \A k \in Keys : \A n \in DOMAIN moves[k] : moves[k][n].by = "OPENING" => n = 1

\* Goods are carried between the cheapest and the dearest cost they came in at.
CarriedAtCost ==
  \A k \in Keys : paid[k] # {} => onHand[k].cost \in Min(paid[k])..Max(paid[k])

\* The base variant never stands beside others.
OneShape == \A a \in Articles : Base \in variantRows[a] => variantRows[a] = {Base}

\* Allocations are goods that are there, until goods leave: issued, or taken back by an
\* import.
PlacedOnHand ==
  "issue" \notin desk.kinds /\ ~MovedBetween =>
    \A k \in Keys : SumFunctionOnSet(places[k], Racks) <= onHand[k].current

\* The overview and the low stock list show every unit of the active native articles and
\* agree with each other, unless clients change has_variants alone.
ShelvesShown ==
  "reshape" \notin desk.kinds =>
    /\ \A k \in Keys :
         (k[1] \in Native /\ goods[k[1]].active /\ onHand[k].current > 0)
           => \E shown \in StockOverview : shown.key = k
    /\ LowStock = {shown.key : shown \in {s \in StockOverview : s.status \in {"out", "low"}}}

\* The stock of a branch adds up: movements, opening stock, carrying cost, variants,
\* allocations and overviews agree with the stock rows.
WarehouseSound ==
  MovementsLead /\ OpenedOnce /\ CarriedAtCost /\ OneShape /\ PlacedOnHand /\ ShelvesShown
=============================================================================
