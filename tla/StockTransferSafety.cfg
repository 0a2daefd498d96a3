SPECIFICATION Spec
CONSTANTS
  w1 = w1  w2 = w2
  t1 = t1  t2 = t2
  i1 = i1  i2 = i2
  brVat = brVat  brNon = brNon
  phone = phone  cable = cable
  main = main  shop = shop
  None = None
  Workers = {w1, w2}
  Transfers = {t1}
  Items = {i1, i2}
  Branches = {brVat, brNon}
  Products = {phone, cable}
  Warehouses = {main, shop}
  DefaultWarehouse = main
  TransferOf <- OneTransferOf
  ProductOf <- OneProductOf
  RequestedQty <- OneRequestedQty
  FromBranch <- OneFromBranch
  ToBranch <- OneToBranch
  Opening <- MCOpening
  Operations = {"approve", "dispatch", "receive", "cancel", "destroy"}
  Volatile <- MCVolatile
  Traded <- MCTraded
  MaxCrashes = 1
SYMMETRY WorkerSymmetry
CHECK_DEADLOCK FALSE
INVARIANTS
  TypeOK
  LedgerSound
  MovesSound
  Conserved
PROPERTIES
  GoodsMoveAsPromised
