SPECIFICATION OfficesSpec
CONSTANTS
  w1 = w1  w2 = w2
  Clerks = {w1, w2}
  lamp = lamp  fan = fan  bulb = bulb
  red = red
  rack = rack  bay = bay
  Articles = {lamp, fan, bulb}
  Imported = {lamp, fan}
  Kinds = {red}
  Workbook <- MCWorkbook
  Racks = {rack, bay}
  Quantities = {1, 2}
  Prices = {0, 21}
  LowMark = 2
  MaxMoves = 3
  Desks <- MCDesks
  Entries <- Deletable
  ModelOf <- MCModelOf
  DatabaseOf <- MCDatabaseOf
  KeyNumber <- MCKeyNumber
  NameOf <- MCNameOf
  MaxFiles = 2
  ali = ali  sara = sara
  l1 = l1  l2 = l2
  Officers = {w1, w2}
  Staff = {ali, sara}
  LeaveRows = {l1, l2}
  NumMonths = 2
  MonthDays = 2
  Entitled = 2
  Positions = {"ACTIVE", "RESIGNED"}
  PaperKinds = {"SALARY", "EXPERIENCE"}
  MaxRevisions = 3
  MaxPapers = 3
  Bureaus <- MCBureaus
SYMMETRY ClerkSymmetry
CHECK_DEADLOCK FALSE
INVARIANTS
  WarehouseSound
  RecoverySound
  WorkforceSound
