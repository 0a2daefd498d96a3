--------------------------- MODULE TransferGoods ---------------------------
(***************************************************************************)
(* What a stock transfer promises, with no databases, locks, statuses or   *)
(* requests: the goods of a transfer leave the source together, arrive at  *)
(* the destination together, each once, and every balance changes by       *)
(* exactly what moved.  StockTransfer is shown to implement it.            *)
(***************************************************************************)
EXTENDS Integers, FiniteSets, Functions

CONSTANTS Transfers, Items, Branches, Products, Warehouses, DefaultWarehouse,
          TransferOf, ProductOf, RequestedQty, FromBranch, ToBranch, Opening, Traded

Rows == Branches \X Products \X Warehouses

VARIABLES
  place,   \* where the goods of each transfer are
  onHand   \* balance of each stock row

vars == <<place, onHand>>

ItemsOf(t) == {i \in Items : TransferOf[i] = t}

Init ==
  /\ place = [t \in Transfers |-> "source"]
  /\ onHand = Opening

\* Balances once the items of t, item i on row[i], are booked with this sign.
Booking(t, row, sign) ==
  [r \in Rows |-> onHand[r] +
     sign * SumFunctionOnSet(RequestedQty, {i \in ItemsOf(t) : row[i] = r})]

\* The goods leave, each item from one warehouse that holds enough.
Leave(t) ==
  /\ place[t] = "source"
  /\ place' = [place EXCEPT ![t] = "transit"]
  /\ \E shelf \in [ItemsOf(t) -> Warehouses] :
       LET row == [i \in ItemsOf(t) |-> <<FromBranch[t], ProductOf[i], shelf[i]>>] IN
       /\ onHand' = Booking(t, row, -1)
       /\ \A r \in Rows : onHand'[r] >= 0

\* The goods arrive in the destination's default warehouse.
Arrive(t) ==
  /\ place[t] = "transit"
  /\ place' = [place EXCEPT ![t] = "destination"]
  /\ LET row == [i \in ItemsOf(t) |-> <<ToBranch[t], ProductOf[i], DefaultWarehouse>>] IN
       onHand' = Booking(t, row, 1)

\* A unit is sold.
Sell(r) ==
  /\ r \in Traded /\ onHand[r] > 0
  /\ onHand' = [onHand EXCEPT ![r] = @ - 1]
  /\ UNCHANGED place

Next ==
  \/ \E t \in Transfers : Leave(t) \/ Arrive(t)
  \/ \E r \in Traded : Sell(r)

Spec == Init /\ [][Next]_vars
=============================================================================
