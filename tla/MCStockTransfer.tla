------------------------- MODULE MCStockTransfer -------------------------
(* Small instances of StockTransfer for TLC. *)
EXTENDS StockTransfer, TLC

CONSTANTS w1, w2, t1, t2, i1, i2, brVat, brNon, phone, cable, main, shop

\* One transfer of two products from brVat to brNon.
OneTransferOf == i1 :> t1 @@ i2 :> t1
OneProductOf == i1 :> phone @@ i2 :> cable
OneRequestedQty == i1 :> 2 @@ i2 :> 1
OneFromBranch == t1 :> brVat
OneToBranch == t1 :> brNon

\* Two transfers in opposite directions: their locks are taken in opposite order.
PairTransferOf == i1 :> t1 @@ i2 :> t2
PairProductOf == i1 :> phone @@ i2 :> phone
PairRequestedQty == i1 :> 2 @@ i2 :> 1
PairFromBranch == t1 :> brVat @@ t2 :> brNon
PairToBranch == t1 :> brNon @@ t2 :> brVat

MCOpening ==
  [r \in {brVat, brNon} \X {phone, cable} \X {main, shop} |->
     CASE r = <<brVat, phone, shop>> -> 2
       [] r = <<brVat, cable, main>> -> 1
       [] r = <<brNon, phone, main>> -> 1
       [] OTHER -> 0]
PairOpening ==
  [r \in {brVat, brNon} \X {phone} \X {main} |-> IF r[1] = brVat THEN 2 ELSE 1]
MCVolatile == {<<brVat, phone>>}
MCTraded == {<<brVat, phone, shop>>}
MCNothing == {}

\* Workers are interchangeable in the safety run.
WorkerSymmetry == Permutations({w1, w2})
=============================================================================
