SPECIFICATION ProgressSpec
CONSTANTS
  w1 = w1  w2 = w2
  t1 = t1  t2 = t2
  i1 = i1  i2 = i2
  brVat = brVat  brNon = brNon
  phone = phone  cable = cable
  main = main  shop = shop
  None = None
  Workers = {w1, w2}
  Transfers = {t1, t2}
  Items = {i1, i2}
  Branches = {brVat, brNon}
  Products = {phone}
  Warehouses = {main}
  DefaultWarehouse = main
  TransferOf <- PairTransferOf
  ProductOf <- PairProductOf
  RequestedQty <- PairRequestedQty
  FromBranch <- PairFromBranch
  ToBranch <- PairToBranch
  Opening <- PairOpening
  Operations = {"dispatch", "receive"}
  Volatile <- MCNothing
  Traded <- MCNothing
  MaxCrashes = 1
CHECK_DEADLOCK FALSE
PROPERTIES
  RequestsEnd
  InterruptedFinishes
