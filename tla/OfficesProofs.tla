---------------------------- MODULE OfficesProofs ----------------------------
(***************************************************************************)
(* The stock rooms and the recovery centre of a branch, for every value of *)
(* their constants: stock rows add up (WarehouseSound) and deleted rows    *)
(* are found again (RecoverySound).                                        *)
(***************************************************************************)
EXTENDS Recovery, Sums

----
(* What a stock row says of itself. *)

ProductRow == [row : BOOLEAN, active : BOOLEAN, split : BOOLEAN, shared : BOOLEAN]
StockRow == [row : BOOLEAN, current : Nat, reserved : Nat, cost : Nat]
Reasons == {"OPENING", "ADJUSTMENT", "RECEIPT", "SALE", "none"}
MoveRow == [by : Reasons, quantity : Int, before : Nat, after : Nat]

\* The movements lead to what is on hand, and reserved goods are there.
Led(ms, row) ==
  /\ \A n \in DOMAIN ms : ms[n].before = IF n = 1 THEN 0 ELSE ms[n - 1].after
  /\ row.current = IF ms = <<>> THEN 0 ELSE ms[Len(ms)].after
  /\ row.reserved <= row.current

\* Goods are carried between two of the costs at which some came in.
Carried(costs, row) ==
  /\ IsFiniteSet(costs)
  /\ costs = {} => row.current = 0
  /\ costs # {} => \E lo, hi \in costs : lo <= row.cost /\ row.cost <= hi

RowOK(row, ms, costs) ==
  /\ Led(ms, row) /\ Carried(costs, row)
  /\ ~row.row => row.current = 0 /\ row.reserved = 0 /\ ms = <<>>

LEMMA Divided ==
  ASSUME NEW n \in Int, NEW d \in Nat \ {0}, NEW lo \in Int, NEW hi \in Int,
         d * lo <= n, n < d * (hi + 1)
  PROVE  lo <= n \div d /\ n \div d <= hi
<1> DEFINE q == n \div d
<1>1. q \in Int /\ d * q <= n /\ n < d * (q + 1)
  OBVIOUS
<1> HIDE DEF q
<1>2. lo <= q
  <2> SUFFICES ASSUME q + 1 <= lo PROVE FALSE
    BY <1>1
  <2>1. d * (q + 1) <= d * lo
    BY <1>1
  <2> QED BY <1>1, <2>1
<1>3. q <= hi
  <2> SUFFICES ASSUME hi + 1 <= q PROVE FALSE
    BY <1>1
  <2>1. d * (hi + 1) <= d * q
    BY <1>1
  <2> QED BY <1>1, <2>1
<1> QED BY <1>2, <1>3 DEF q

\* A weighted average lies between what it is made of.
LEMMA AverageWithin ==
  ASSUME NEW b \in Nat, NEW a \in Nat, NEW q \in Nat \ {0}, NEW c \in Nat,
         NEW lo \in Nat, NEW hi \in Nat, lo <= c, c <= hi, b = 0 \/ (lo <= a /\ a <= hi)
  PROVE  AverageOf(b, a, q, c) \in Nat /\ lo <= AverageOf(b, a, q, c) /\ AverageOf(b, a, q, c) <= hi
<1> DEFINE x == b * a
           y == q * c
           d == 2 * (b + q)
           n == 2 * (x + y) + (b + q)
<1>1. x \in Nat /\ b * lo <= x /\ x <= b * hi
  <2>1. CASE b = 0
    BY <2>1
  <2>2. CASE lo <= a /\ a <= hi
    BY <2>2
  <2> QED BY <2>1, <2>2
<1>2. y \in Nat /\ q * lo <= y /\ y <= q * hi
  OBVIOUS
<1>3. d \in Nat \ {0} /\ n \in Int
  BY <1>1, <1>2
<1>4. d * lo = 2 * (b * lo + q * lo) /\ d * (hi + 1) = 2 * (b * hi + q * hi) + 2 * (b + q)
  OBVIOUS
<1>5. /\ d * lo <= n
      /\ n < d * (hi + 1)
  <2> DEFINE bl == b * lo
             ql == q * lo
             bh == b * hi
             qh == q * hi
             dl == d * lo
             dh == d * (hi + 1)
  <2>1. bl \in Nat /\ ql \in Nat /\ bh \in Nat /\ qh \in Nat
    OBVIOUS
  <2>2. dl = 2 * (bl + ql) /\ dh = 2 * (bh + qh) + 2 * (b + q) /\ bl <= x /\ x <= bh /\ ql <= y /\ y <= qh
    BY <1>1, <1>2, <1>4
  <2> HIDE DEF bl, ql, bh, qh, dl, dh, x, y
  <2>3. dl <= n /\ n < dh
    BY <1>1, <1>2, <2>1, <2>2
  <2> QED BY <2>3 DEF dl, dh
<1>6. AverageOf(b, a, q, c) = n \div d
  BY DEF AverageOf, RoundHalfUp
<1> HIDE DEF n, d
<1>7. lo <= n \div d /\ n \div d <= hi /\ n \div d \in Int
  BY <1>3, <1>5, Divided
<1> QED BY <1>6, <1>7

LEMMA RoundNat ==
  ASSUME NEW n \in Nat, NEW d \in Nat \ {0}
  PROVE  RoundHalfUp(n, d) \in Nat
<1>1. 2 * n + d \in Nat /\ 2 * d \in Nat \ {0}
  OBVIOUS
<1>2. (2 * d) * 0 <= 2 * n + d /\ 2 * n + d < (2 * d) * ((2 * n + d) + 1)
  <2> DEFINE u == 2 * n + d
             v == 2 * d
  <2>1. u \in Nat /\ v \in Nat \ {0}
    OBVIOUS
  <2> HIDE DEF u, v
  <2>2. v * (u + 1) >= u + 1
    BY <2>1
  <2> QED BY <2>1, <2>2 DEF u, v
<1>3. 0 <= (2 * n + d) \div (2 * d)
  BY <1>1, <1>2, Divided
<1> QED BY <1>1, <1>3 DEF RoundHalfUp

LEMMA CostNat ==
  ASSUME NEW price \in Nat, NEW treatment, NEW inclusive, NEW recoverable
  PROVE  CapitalisedCost(price, treatment, inclusive, recoverable) \in Nat
<1>1. PICK net, vat : /\ net = RoundHalfUp(price * 100, 105) /\ vat = RoundHalfUp(price * 5, 100)
  OBVIOUS
<1>2. net \in Nat /\ vat \in Nat
  BY <1>1, RoundNat
<1> QED BY <1>1, <1>2 DEF CapitalisedCost

LEMMA LedBy ==
  ASSUME NEW ms \in Seq(MoveRow), NEW row \in StockRow, Led(ms, row), NEW by \in Reasons,
         NEW q \in Int, NEW next \in StockRow, next.current = row.current + q,
         next.reserved <= next.current
  PROVE  /\ Movement(by, q, row.current) \in MoveRow
         /\ Append(ms, Movement(by, q, row.current)) \in Seq(MoveRow)
         /\ Led(Append(ms, Movement(by, q, row.current)), next)
<1> DEFINE m == Movement(by, q, row.current)
           l == Append(ms, m)
<1>1. m \in MoveRow /\ m.before = row.current /\ m.after = next.current
  <2>1. row.current \in Nat /\ next.current \in Nat
    BY DEF StockRow
  <2> QED BY <2>1 DEF MoveRow, Movement
<1> HIDE DEF m
<1>2. /\ l \in Seq(MoveRow) /\ Len(l) = Len(ms) + 1 /\ l[Len(l)] = m /\ l # <<>>
      /\ \A n \in 1..Len(ms) : l[n] = ms[n]
      /\ DOMAIN l = 1..(Len(ms) + 1) /\ DOMAIN ms = 1..Len(ms) /\ Len(ms) \in Nat
  BY <1>1
<1> HIDE DEF l
<1>3. ASSUME NEW n \in DOMAIN l
      PROVE  l[n].before = IF n = 1 THEN 0 ELSE l[n - 1].after
  <2>1. CASE n \in 1..Len(ms)
    <3>1. n # 1 => n - 1 \in 1..Len(ms)
      BY <2>1, <1>2
    <3> QED BY <1>2, <2>1, <3>1 DEF Led
  <2>2. CASE n = Len(ms) + 1
    <3>1. CASE ms = <<>>
      BY <1>1, <1>2, <2>2, <3>1 DEF Led
    <3>2. CASE ms # <<>>
      <4>1. Len(ms) \in 1..Len(ms) /\ n # 1 /\ n - 1 = Len(ms)
        BY <1>2, <2>2, <3>2
      <4>2. l[n].before = ms[Len(ms)].after
        BY <1>1, <1>2, <2>2, <3>2 DEF Led
      <4> QED BY <1>2, <4>1, <4>2
    <3> QED BY <3>1, <3>2
  <2> QED BY <1>2, <1>3, <2>1, <2>2
<1>4. l[Len(l)].after = next.current
  BY <1>1, <1>2
<1> QED BY <1>1, <1>2, <1>3, <1>4 DEF Led, l, m

\* What a booking leaves of a stock row.
NextRow(row, q, cost) ==
  [row |-> TRUE, reserved |-> row.reserved, current |-> row.current + q,
   cost |-> IF cost = Kept \/ q <= 0 THEN row.cost ELSE AverageOf(row.current, row.cost, q, cost)]
NextMoves(ms, row, q, by) == IF q # 0 THEN Append(ms, Movement(by, q, row.current)) ELSE ms
NextPaid(costs, row, q, cost) ==
  IF q > 0 THEN costs \union {IF cost = Kept THEN row.cost ELSE cost} ELSE costs

LEMMA CarriedBy ==
  ASSUME NEW row \in StockRow, NEW costs \in SUBSET Nat, Carried(costs, row), NEW q \in Int,
         NEW cost \in Nat \union {Kept}, row.current + q >= 0
  PROVE  /\ NextRow(row, q, cost) \in StockRow
         /\ NextPaid(costs, row, q, cost) \in SUBSET Nat
         /\ Carried(NextPaid(costs, row, q, cost), NextRow(row, q, cost))
<1> DEFINE next == NextRow(row, q, cost)
           new == NextPaid(costs, row, q, cost)
<1>1. row.current \in Nat /\ row.reserved \in Nat /\ row.cost \in Nat /\ row.row \in BOOLEAN
  BY DEF StockRow
<1>2. /\ next.current = row.current + q /\ next.current \in Nat
      /\ next.cost = IF cost = Kept \/ q <= 0 THEN row.cost ELSE AverageOf(row.current, row.cost, q, cost)
  BY <1>1 DEF NextRow
<1>3. CASE q <= 0
  <2>1. new = costs /\ next.cost = row.cost
    BY <1>2, <1>3 DEF NextPaid
  <2>2. next \in StockRow
    BY <1>1, <1>2, <2>1 DEF NextRow, StockRow
  <2>3. costs = {} => next.current = 0
    BY <1>1, <1>2, <1>3 DEF Carried
  <2> QED BY <2>1, <2>2, <2>3 DEF Carried
<1>4. CASE q > 0 /\ cost = Kept
  <2>1. new = costs \union {row.cost} /\ next.cost = row.cost
    BY <1>2, <1>4 DEF NextPaid
  <2>2. next \in StockRow
    BY <1>1, <1>2, <2>1 DEF NextRow, StockRow
  <2>3. IsFiniteSet(new) /\ new # {} /\ row.cost \in new
    BY <2>1, FS_AddElement DEF Carried
  <2>4. new \in SUBSET Nat
    BY <1>1, <2>1
  <2> HIDE DEF next, new
  <2>5. row.cost <= next.cost /\ next.cost <= row.cost
    BY <1>1, <2>1
  <2> QED BY <2>2, <2>3, <2>4, <2>5 DEF Carried, next, new
<1>5. CASE q > 0 /\ cost # Kept
  <2>1. new = costs \union {cost} /\ next.cost = AverageOf(row.current, row.cost, q, cost)
    BY <1>2, <1>5 DEF NextPaid
  <2>2. cost \in Nat /\ q \in Nat \ {0}
    BY <1>5
  <2>3. PICK lo, hi \in new :
          /\ lo \in Nat /\ hi \in Nat /\ lo <= cost /\ cost <= hi
          /\ row.current = 0 \/ (lo <= row.cost /\ row.cost <= hi)
    <3>1. CASE costs = {}
      BY <2>1, <2>2, <3>1 DEF Carried
    <3>2. CASE costs # {}
      <4>1. PICK l, h \in costs : l <= row.cost /\ row.cost <= h
        BY <3>2 DEF Carried
      <4>2. l \in Nat /\ h \in Nat
        BY <4>1
      <4> HIDE DEF next, new
      <4>3. PICK lo, hi : lo = (IF l <= cost THEN l ELSE cost) /\ hi = (IF cost <= h THEN h ELSE cost)
        OBVIOUS
      <4>4. lo \in new /\ hi \in new
        BY <2>1, <4>1, <4>3
      <4>5. /\ lo \in Nat /\ hi \in Nat /\ lo <= cost /\ cost <= hi
            /\ lo <= row.cost /\ row.cost <= hi
        BY <1>1, <2>2, <4>1, <4>2, <4>3
      <4> QED BY <4>4, <4>5
    <3> QED BY <3>1, <3>2
  <2>4. next.cost \in Nat /\ lo <= next.cost /\ next.cost <= hi
    <3>1. PICK b, a : b = row.current /\ a = row.cost
      OBVIOUS
    <3>2. b \in Nat /\ a \in Nat /\ (b = 0 \/ (lo <= a /\ a <= hi))
      BY <1>1, <2>3, <3>1
    <3>3. /\ AverageOf(b, a, q, cost) \in Nat
          /\ lo <= AverageOf(b, a, q, cost) /\ AverageOf(b, a, q, cost) <= hi
      BY <2>2, <2>3, <3>2, AverageWithin
    <3> QED BY <2>1, <3>1, <3>3
  <2>5. next \in StockRow
    BY <1>1, <1>2, <2>4 DEF NextRow, StockRow
  <2>6. IsFiniteSet(new) /\ new # {}
    BY <2>1, FS_AddElement DEF Carried
  <2>7. new \in SUBSET Nat
    BY <2>1, <2>2
  <2> HIDE DEF next, new
  <2> QED BY <2>3, <2>4, <2>5, <2>6, <2>7 DEF Carried, next, new
<1> QED BY <1>3, <1>4, <1>5

----
(* The inductive invariant of the stock rooms. *)

StockTyped ==
  /\ desk \in Desks
  /\ goods \in [Articles -> ProductRow]
  /\ variantRows \in [Articles -> SUBSET ({Base} \union Kinds)]
  /\ onHand \in [Keys -> StockRow]
  /\ moves \in [Keys -> Seq(MoveRow)]
  /\ paid \in [Keys -> SUBSET Nat]
  /\ places \in [Keys -> [Racks -> Nat]]
  /\ task = [c \in Clerks |-> task[c]]

Adding == \A k \in Keys : RowOK(onHand[k], moves[k], paid[k])

\* A stock row belongs to an article that is there, that of an imported one to its line.
Known == \A k \in Keys :
  onHand[k].row => goods[k[1]].row /\ (k[1] \in Imported => k \in LineKeys(k[1]))

\* Without "reshape", an article with variants has nothing in the row without variant.
Splitting == "reshape" \notin desk.kinds =>
  \A a \in Native : goods[a].split => onHand[<<a, NoVariant>>].current = 0

\* Imports that overlap move nothing else, so that what a line opened stays there.
Opened == desk.overlap /\ ~MovedBetween =>
  \A k \in Keys : k[1] \in Imported /\ moves[k] # <<>> => onHand[k].current = Workbook[k[1]].quantity

Placing ==
  /\ PlacedOnHand
  /\ \A k \in Keys : k[1] \in Native => places[k] = [r \in Racks |-> 0]

Phases == {"import_mirror", "import_stock", "import_commit"}

\* What a clerk knows: the article that is edited or adjusted is there and of the shape
\* that was read; an import, one at a time, is of an article that the branch does not
\* have; and the balances it has read are those of rows that are untouched or opened.
TaskOK(t, d, g, rows, ms) ==
  /\ t.step = "edit" =>
       /\ t.article \in Native /\ t.read \in ProductRow
       /\ t.read.row /\ g[t.article].row
       /\ "reshape" \notin d.kinds => t.read.split = g[t.article].split
  /\ t.step = "adjust" =>
       /\ t.key \in Keys /\ t.key[1] \in Native /\ t.signed \in Int
       /\ g[t.key[1]].row
       /\ "reshape" \notin d.kinds /\ t.key[2] = NoVariant => ~g[t.key[1]].split
  /\ t.step \in Phases \union {"import_insert"} => t.article \in Imported
  /\ t.step \in {"import_insert", "import_mirror", "import_stock"} =>
       d.overlap \/ ~g[t.article].row
  /\ t.step = "import_stock" =>
       /\ \A k \in LineKeys(t.article) : t.seen[k] \in Nat
       /\ ~(d.overlap /\ {"issue", "receive"} \intersect d.kinds # {}) =>
            \A k \in LineKeys(t.article) :
              /\ t.seen[k] = rows[k].current
              /\ ms[k] = <<>> \/ rows[k].current = Workbook[t.article].quantity

Tasking == \A c \in Clerks : TaskOK(task[c], desk, goods, onHand, moves)

\* One request at a time, unless they overlap.
Serial == ~desk.overlap => \A c, d \in Clerks : c # d => task[c] = Free \/ task[d] = Free
Solitary(c) == desk.overlap \/ \A d \in Clerks \ {c} : task[d] = Free

\* The SKU of an import that is not committed is taken.
Importing == \A c, d \in Clerks :
  c # d /\ task[c].step \in Phases /\ task[d].step \in Phases => task[c].article # task[d].article

StockInv ==
  /\ StockTyped /\ Adding /\ Known /\ Splitting /\ Opened /\ OpenedOnce /\ OneShape /\ Placing
  /\ Tasking /\ Serial /\ Importing

LEMMA KeyParts ==
  /\ \A k \in Keys : k[1] \in Articles /\ k = <<k[1], k[2]>>
  /\ \A a \in Articles, v \in {Base} \union Kinds :
       KeyOf(a, v) \in Keys /\ KeyOf(a, v)[1] = a
  /\ \A a \in Articles : <<a, NoVariant>> \in Keys
  /\ \A a \in Articles, v \in Kinds : KeyOf(a, v)[2] # NoVariant
  /\ \A a \in Imported : LineKeys(a) \subseteq Keys /\ \A k \in LineKeys(a) : k[1] = a
  /\ Native \subseteq Articles /\ Imported \subseteq Articles
<1>1. \A a \in Articles, v \in {Base} \union Kinds : KeyOf(a, v) \in Keys /\ KeyOf(a, v)[1] = a
  BY DEF KeyOf, Keys
<1>2. \A a \in Articles, v \in Kinds : KeyOf(a, v)[2] # NoVariant
  BY WarehouseAssumption DEF KeyOf
<1>3. \A a \in Imported : Workbook[a].kinds \subseteq Kinds
  BY WarehouseAssumption
<1>4. \A a \in Imported : LineKeys(a) \subseteq Keys /\ \A k \in LineKeys(a) : k[1] = a
  BY <1>1, <1>3, WarehouseAssumption DEF LineKeys
<1> QED BY <1>1, <1>2, <1>4, WarehouseAssumption DEF Keys, Native

LEMMA Booked ==
  ASSUME StockTyped, Adding, NEW S \in SUBSET Keys, NEW changed \in [S -> Int], NEW by \in Reasons,
         NEW cost \in Nat \union {Kept},
         \A k \in S : changed[k] >= 0 \/ Deductable(k, -changed[k]),
         Books(changed, by, cost)
  PROVE  /\ onHand' \in [Keys -> StockRow] /\ moves' \in [Keys -> Seq(MoveRow)]
         /\ paid' \in [Keys -> SUBSET Nat]
         /\ Adding'
         /\ \A k \in Keys \ S : onHand'[k] = onHand[k] /\ moves'[k] = moves[k]
         /\ \A k \in S : /\ onHand'[k].row /\ onHand'[k].reserved = onHand[k].reserved
                         /\ onHand'[k].current = onHand[k].current + changed[k]
                         /\ moves'[k] = NextMoves(moves[k], onHand[k], changed[k], by)
<1>1. /\ onHand' = [k \in Keys |-> IF k \notin S THEN onHand[k] ELSE NextRow(onHand[k], changed[k], cost)]
      /\ moves' = [k \in Keys |-> IF k \notin S THEN moves[k]
                                  ELSE NextMoves(moves[k], onHand[k], changed[k], by)]
      /\ paid' = [k \in Keys |-> IF k \notin S THEN paid[k]
                                 ELSE NextPaid(paid[k], onHand[k], changed[k], cost)]
  <2>1. DOMAIN changed = S
    OBVIOUS
  <2> QED BY <2>1 DEF Books, NextRow, NextMoves, NextPaid
<1>2. ASSUME NEW k \in S
      PROVE  /\ NextRow(onHand[k], changed[k], cost) \in StockRow
             /\ NextMoves(moves[k], onHand[k], changed[k], by) \in Seq(MoveRow)
             /\ NextPaid(paid[k], onHand[k], changed[k], cost) \in SUBSET Nat
             /\ RowOK(NextRow(onHand[k], changed[k], cost),
                      NextMoves(moves[k], onHand[k], changed[k], by),
                      NextPaid(paid[k], onHand[k], changed[k], cost))
  <2>1. PICK row, ms, costs, q :
          row = onHand[k] /\ ms = moves[k] /\ costs = paid[k] /\ q = changed[k]
    OBVIOUS
  <2>2. /\ row \in StockRow /\ ms \in Seq(MoveRow) /\ costs \in SUBSET Nat /\ q \in Int
        /\ Led(ms, row) /\ Carried(costs, row)
    BY <2>1 DEF StockTyped, Adding, RowOK
  <2>3. row.current \in Nat /\ row.reserved \in Nat /\ row.reserved <= row.current
    BY <2>2 DEF StockRow, Led
  <2>4. row.current + q >= row.reserved
    BY <2>1, <2>2, <2>3 DEF Deductable, Unreserved
  <2>5. PICK next : next = NextRow(row, q, cost)
    OBVIOUS
  <2>6. /\ next \in StockRow
        /\ NextPaid(costs, row, q, cost) \in SUBSET Nat
        /\ Carried(NextPaid(costs, row, q, cost), next)
    <3>1. row.current + q >= 0
      BY <2>2, <2>3, <2>4
    <3> QED BY <2>2, <2>5, <3>1, CarriedBy
  <2>7. next.row /\ next.current = row.current + q /\ next.reserved = row.reserved
    BY <2>5 DEF NextRow
  <2>8. NextMoves(ms, row, q, by) \in Seq(MoveRow) /\ Led(NextMoves(ms, row, q, by), next)
    <3>1. CASE q = 0
      BY <2>2, <2>3, <2>7, <3>1 DEF NextMoves, Led
    <3>2. CASE q # 0
      <4>1. next.reserved <= next.current
        BY <2>4, <2>7
      <4> QED BY <2>2, <2>6, <2>7, <3>2, <4>1, LedBy DEF NextMoves
    <3> QED BY <3>1, <3>2
  <2> QED BY <2>1, <2>5, <2>6, <2>7, <2>8 DEF RowOK
<1>3. /\ onHand' \in [Keys -> StockRow] /\ moves' \in [Keys -> Seq(MoveRow)]
      /\ paid' \in [Keys -> SUBSET Nat]
  BY <1>1, <1>2 DEF StockTyped
<1>4. Adding'
  BY <1>1, <1>2 DEF Adding
<1>5. \A k \in S : /\ onHand'[k].row /\ onHand'[k].reserved = onHand[k].reserved
                   /\ onHand'[k].current = onHand[k].current + changed[k]
  BY <1>1 DEF NextRow
<1> QED BY <1>1, <1>3, <1>4, <1>5

LEMMA TaskKept ==
  ASSUME NEW t, NEW d, NEW g, NEW rows, NEW ms, NEW g2, NEW rows2, NEW ms2,
         TaskOK(t, d, g, rows, ms), d.overlap,
         \A a \in Articles : g[a].row => g2[a].row,
         "reshape" \notin d.kinds => \A a \in Native : g[a].row => g2[a].split = g[a].split,
         t.step = "import_stock" /\ ~(d.overlap /\ {"issue", "receive"} \intersect d.kinds # {}) =>
           \A k \in LineKeys(t.article) : rows2[k] = rows[k] /\ ms2[k] = ms[k]
  PROVE  TaskOK(t, d, g2, rows2, ms2)
<1>1. t.step = "edit" => t.article \in Articles
  BY KeyParts DEF TaskOK
<1>2. t.step = "adjust" => t.key[1] \in Articles
  BY KeyParts DEF TaskOK
<1> QED BY <1>1, <1>2 DEF TaskOK

\* A clerk that turns to t leaves the others what they know, if what it changes is not theirs.
LEMMA Turned ==
  ASSUME StockInv, NEW c \in Clerks, Solitary(c), UNCHANGED desk, NEW t,
         task' = [task EXCEPT ![c] = t],
         TaskOK(t, desk, goods', onHand', moves'),
         t.step \in Phases =>
           \A d \in Clerks \ {c} : task[d].step \in Phases => task[d].article # t.article,
         \A a \in Articles : goods[a].row => goods'[a].row,
         "reshape" \notin desk.kinds => \A a \in Native : goods[a].row => goods'[a].split = goods[a].split,
         \A d \in Clerks \ {c} : task[d].step = "import_stock" /\ ~MovedBetween =>
           \A k \in LineKeys(task[d].article) : onHand'[k] = onHand[k] /\ moves'[k] = moves[k]
  PROVE  task' = [x \in Clerks |-> task'[x]] /\ Tasking' /\ Serial' /\ Importing'
<1>1. task' = [x \in Clerks |-> IF x = c THEN t ELSE task[x]]
  BY DEF StockInv, StockTyped
<1>2. task'[c] = t /\ \A d \in Clerks \ {c} : task'[d] = task[d]
  BY <1>1
<1>3. task' = [x \in Clerks |-> task'[x]]
  BY <1>1
<1>4. ASSUME NEW d \in Clerks PROVE TaskOK(task'[d], desk', goods', onHand', moves')
  <2>1. CASE d = c
    BY <1>2, <2>1
  <2>2. CASE d # c /\ desk.overlap
    <3>1. task'[d] = task[d] /\ TaskOK(task[d], desk, goods, onHand, moves)
      BY <1>2, <2>2 DEF StockInv, Tasking
    <3>2. TaskOK(task[d], desk, goods', onHand', moves')
      BY <2>2, <3>1, TaskKept DEF MovedBetween
    <3> QED BY <3>1, <3>2
  <2>3. CASE d # c /\ ~desk.overlap
    <3>1. task'[d] = Free
      BY <1>2, <2>3 DEF Solitary
    <3> QED BY <3>1 DEF TaskOK, Free, Phases
  <2> QED BY <2>1, <2>2, <2>3
<1>5. Serial'
  BY <1>2 DEF Serial, Solitary, StockInv
<1>6. Importing'
  BY <1>2 DEF Importing, StockInv
<1> QED BY <1>3, <1>4, <1>5, <1>6 DEF Tasking

LEMMA Untouched ==
  ASSUME StockInv, NEW c \in Clerks, Solitary(c), UNCHANGED stockroom, NEW t,
         task' = [task EXCEPT ![c] = t],
         TaskOK(t, desk, goods, onHand, moves),
         t.step \in Phases =>
           \A d \in Clerks \ {c} : task[d].step \in Phases => task[d].article # t.article
  PROVE  StockInv'
<1>1. UNCHANGED <<desk, goods, variantRows, onHand, moves, paid, places>>
  BY DEF stockroom, stockVars
<1>2. task' = [x \in Clerks |-> task'[x]] /\ Tasking' /\ Serial' /\ Importing'
  BY <1>1, Turned
<1>3. StockTyped'
  BY <1>1, <1>2 DEF StockTyped, StockInv
<1>4. Adding' /\ Known' /\ Splitting' /\ Opened'
  BY <1>1 DEF StockInv, Adding, Known, Splitting, Opened, MovedBetween
<1>5. OpenedOnce' /\ OneShape' /\ Placing'
  BY <1>1 DEF StockInv, OpenedOnce, OneShape, Placing, PlacedOnHand, MovedBetween
<1> QED BY <1>2, <1>3, <1>4, <1>5 DEF StockInv

\* A clerk serves a request alone, unless requests overlap.
LEMMA ServesAlone ==
  ASSUME Serial, NEW c \in Clerks, task[c] # Free \/ \E kind : Serves(c, kind)
  PROVE  Solitary(c)
BY DEF Serial, Solitary, Serves

LEMMA NoTask ==
  ASSUME NEW t, NEW d, NEW g, NEW rows, NEW ms,
         t.step \notin {"edit", "adjust", "import_insert"} \union Phases
  PROVE  TaskOK(t, d, g, rows, ms)
BY DEF TaskOK, Phases

----
(* Steps that leave the stock room alone. *)

LEMMA LooksFine ==
  ASSUME StockInv, NEW c \in Clerks, EditLoad(c) \/ AdjustCheck(c) \/ ImportCheck(c)
  PROVE  StockInv'
<1>1. Solitary(c) /\ UNCHANGED stockroom
  BY ServesAlone DEF EditLoad, AdjustCheck, ImportCheck, StockInv, stockroom
<1>2. CASE EditLoad(c)
  <2>1. PICK a \in desk.articles \ Imported :
          goods[a].row /\ Goes(c, [step |-> "edit", article |-> a, read |-> goods[a]])
    BY <1>2 DEF EditLoad
  <2>2. a \in Native
    BY <2>1, WarehouseAssumption DEF StockInv, StockTyped, Native
  <2>3. PICK t : t = [step |-> "edit", article |-> a, read |-> goods[a]]
    OBVIOUS
  <2>4. TaskOK(t, desk, goods, onHand, moves) /\ t.step \notin Phases
    BY <2>1, <2>2, <2>3, KeyParts DEF TaskOK, Phases, StockInv, StockTyped
  <2> QED BY <1>1, <2>1, <2>3, <2>4, Untouched DEF Goes
<1>3. CASE AdjustCheck(c)
  <2>1. PICK a \in desk.articles \ Imported, v \in {NoVariant, Base} \union Kinds, quantity \in Quantities,
             direction \in {"ADD", "DEDUCT"} :
          /\ goods[a].row /\ goods[a].active
          /\ v # NoVariant => v \in variantRows[a]
          /\ goods[a].split => v # NoVariant
          /\ Goes(c, [step |-> "adjust", key |-> <<a, v>>,
                      signed |-> IF direction = "ADD" THEN quantity ELSE -quantity])
    BY <1>3 DEF AdjustCheck
  <2>2. a \in Native
    BY <2>1, WarehouseAssumption DEF StockInv, StockTyped, Native
  <2>3. PICK t : t = [step |-> "adjust", key |-> <<a, v>>,
                      signed |-> IF direction = "ADD" THEN quantity ELSE -quantity]
    OBVIOUS
  <2>4. quantity \in Nat
    BY WarehouseAssumption
  <2>5. /\ t.key = <<a, v>> /\ t.key \in Keys /\ t.key[1] = a /\ t.key[2] = v /\ t.signed \in Int
        /\ t.step = "adjust"
    BY <2>2, <2>3, <2>4 DEF Keys, Native
  <2>6. TaskOK(t, desk, goods, onHand, moves) /\ t.step \notin Phases
    BY <2>1, <2>2, <2>5 DEF TaskOK, Phases
  <2> QED BY <1>1, <2>1, <2>3, <2>6, Untouched DEF Goes
<1>4. CASE ImportCheck(c)
  <2>1. PICK a \in desk.articles \intersect Imported :
          UnknownSku(a) /\ Goes(c, [step |-> "import_insert", article |-> a])
    BY <1>4 DEF ImportCheck
  <2>2. PICK t : t = [step |-> "import_insert", article |-> a]
    OBVIOUS
  <2>3. TaskOK(t, desk, goods, onHand, moves) /\ t.step \notin Phases
    BY <2>1, <2>2 DEF TaskOK, Phases, UnknownSku
  <2> QED BY <1>1, <2>1, <2>2, <2>3, Untouched DEF Goes
<1> QED BY <1>2, <1>3, <1>4

LEMMA ImportsFine ==
  ASSUME StockInv, NEW c \in Clerks, ImportInsert(c) \/ ImportMirror(c) \/ ImportFails(c)
  PROVE  StockInv'
<1>0. task[c].step \in Phases \union {"import_insert"}
  BY DEF ImportInsert, ImportMirror, ImportFails, Stands, Phases
<1>1. Solitary(c) /\ UNCHANGED stockroom
  BY <1>0, ServesAlone DEF ImportInsert, ImportMirror, ImportFails, StockInv, stockroom, Free, Phases
<1>2. PICK a : a = task[c].article
  OBVIOUS
<1>3. /\ a \in Imported /\ TaskOK(task[c], desk, goods, onHand, moves)
  BY <1>0, <1>2 DEF StockInv, Tasking, TaskOK
<1>4. CASE Leaves(c)
  <2>1. TaskOK(Free, desk, goods, onHand, moves) /\ Free.step \notin Phases
    BY DEF TaskOK, Free, Phases
  <2> QED BY <1>1, <1>4, <2>1, Untouched DEF Leaves, Goes
<1>5. CASE ImportInsert(c) /\ ~Leaves(c)
  <2>1. PICK t : t = [step |-> "import_mirror", article |-> a]
    OBVIOUS
  <2>2. /\ task' = [task EXCEPT ![c] = t] /\ task[c].step = "import_insert"
        /\ \A d \in Clerks : task[d].step \in Phases => task[d].article # a
    BY <1>2, <1>5, <2>1 DEF ImportInsert, Goes, Stands, Phases
  <2>3. TaskOK(t, desk, goods, onHand, moves)
    BY <1>2, <1>3, <2>1, <2>2 DEF TaskOK, Phases
  <2> QED BY <1>1, <2>1, <2>2, <2>3, Untouched
<1>6. CASE ImportMirror(c) /\ ~Leaves(c)
  <2>1. PICK t : t = [step |-> "import_stock", article |-> a,
                      seen |-> [k \in LineKeys(a) |-> onHand[k].current]]
    OBVIOUS
  <2>2. task' = [task EXCEPT ![c] = t] /\ task[c].step = "import_mirror"
    BY <1>2, <1>6, <2>1 DEF ImportMirror, Goes, Stands
  <2>3. \A d \in Clerks \ {c} : task[d].step \in Phases => task[d].article # t.article
    BY <1>2, <2>1, <2>2 DEF StockInv, Importing, Phases
  <2>4. ASSUME NEW k \in LineKeys(a)
        PROVE  /\ t.seen[k] = onHand[k].current /\ onHand[k].current \in Nat
               /\ ~MovedBetween => moves[k] = <<>> \/ onHand[k].current = Workbook[a].quantity
    <3>1. k \in Keys /\ k[1] = a
      BY <1>3, KeyParts
    <3>2. onHand[k].current \in Nat
      BY <3>1 DEF StockInv, StockTyped, StockRow
    <3>3. CASE desk.overlap
      BY <1>3, <2>1, <3>1, <3>2, <3>3 DEF StockInv, Opened
    <3>4. CASE ~desk.overlap
      <4>1. ~goods[a].row
        BY <1>2, <1>3, <2>2, <3>4 DEF TaskOK
      <4>2. ~onHand[k].row /\ RowOK(onHand[k], moves[k], paid[k])
        BY <3>1, <4>1 DEF StockInv, Known, Adding
      <4>3. moves[k] = <<>>
        BY <4>2 DEF RowOK
      <4> QED BY <2>1, <3>2, <4>3
    <3> QED BY <3>3, <3>4
  <2>5. TaskOK(t, desk, goods, onHand, moves)
    <3>1. t.step = "import_stock" /\ t.article = a
      BY <2>1
    <3>2. desk.overlap \/ ~goods[a].row
      BY <1>2, <1>3, <2>2 DEF TaskOK
    <3> QED BY <1>3, <2>4, <3>1, <3>2 DEF TaskOK, MovedBetween
  <2> QED BY <1>1, <2>2, <2>3, <2>5, Untouched
<1> QED BY <1>4, <1>5, <1>6 DEF ImportFails

LEMMA CommitFine ==
  ASSUME StockInv, NEW c \in Clerks, ImportCommit(c)
  PROVE  StockInv'
<1>1. PICK a : a = task[c].article
  OBVIOUS
<1>2. /\ a \in Imported /\ Solitary(c)
  BY <1>1, ServesAlone DEF ImportCommit, Stands, StockInv, Tasking, TaskOK, Phases, Free
<1>3. /\ goods' = [goods EXCEPT ![a].shared = TRUE]
      /\ UNCHANGED <<desk, variantRows, onHand, moves, paid, places>>
  BY <1>1 DEF ImportCommit, stockVars
<1>4. /\ goods' \in [Articles -> ProductRow]
      /\ \A x \in Articles : goods'[x].row = goods[x].row /\ goods'[x].split = goods[x].split
                             /\ goods'[x].active = goods[x].active
  <2>1. goods \in [Articles -> ProductRow] /\ a \in Articles
    BY <1>2, KeyParts DEF StockInv, StockTyped
  <2> QED BY <1>3, <2>1 DEF ProductRow
<1>5. task' = [x \in Clerks |-> task'[x]] /\ Tasking' /\ Serial' /\ Importing'
  <2>1. TaskOK(Free, desk, goods', onHand', moves') /\ Free.step \notin Phases
    BY DEF TaskOK, Free, Phases
  <2>2. task' = [task EXCEPT ![c] = Free]
    BY DEF ImportCommit, Leaves, Goes
  <2>3. \A x \in Native : x \in Articles
    BY KeyParts
  <2> QED BY <1>2, <1>3, <1>4, <2>1, <2>2, <2>3, Turned
<1>6. StockTyped'
  BY <1>3, <1>4, <1>5 DEF StockTyped, StockInv
<1>7. Adding' /\ Opened' /\ OpenedOnce' /\ OneShape' /\ Placing'
  BY <1>3 DEF StockInv, Adding, Opened, OpenedOnce, OneShape, Placing, PlacedOnHand, MovedBetween
<1>8. Known' /\ Splitting'
  BY <1>3, <1>4, KeyParts DEF StockInv, Known, Splitting
<1> QED BY <1>5, <1>6, <1>7, <1>8 DEF StockInv

LEMMA ReserveFine ==
  ASSUME StockInv, NEW c \in Clerks, ReserveGoods(c)
  PROVE  StockInv'
<1>1. PICK k \in Keys, quantity \in Quantities :
        /\ onHand[k].row /\ quantity <= Unreserved(k)
        /\ onHand' = [onHand EXCEPT ![k].reserved = @ + quantity]
  BY DEF ReserveGoods
<1>2. UNCHANGED <<desk, goods, variantRows, moves, paid, places, task>>
  BY DEF ReserveGoods
<1>3. quantity \in Nat /\ onHand \in [Keys -> StockRow]
  BY WarehouseAssumption DEF StockInv, StockTyped
<1>4. /\ onHand' \in [Keys -> StockRow]
      /\ \A x \in Keys : /\ onHand'[x].row = onHand[x].row /\ onHand'[x].current = onHand[x].current
                         /\ onHand'[x].cost = onHand[x].cost
                         /\ x # k => onHand'[x] = onHand[x]
      /\ onHand'[k].reserved <= onHand'[k].current
  <2>1. PICK row : row = onHand[k]
    OBVIOUS
  <2>2. row \in StockRow /\ row.reserved + quantity \in Nat /\ row.reserved + quantity <= row.current
    BY <1>1, <1>3, <2>1 DEF StockRow, Unreserved
  <2>3. \A x \in Keys : onHand'[x] = IF x = k THEN [row EXCEPT !.reserved = row.reserved + quantity]
                                     ELSE onHand[x]
    BY <1>1, <1>3, <2>1
  <2>4. onHand' = [x \in Keys |-> onHand'[x]]
    BY <1>1, <1>3
  <2> QED BY <1>3, <2>1, <2>2, <2>3, <2>4 DEF StockRow
<1>5. StockTyped'
  BY <1>2, <1>4 DEF StockTyped, StockInv
<1>6. Adding'
  <2> SUFFICES ASSUME NEW x \in Keys PROVE RowOK(onHand'[x], moves'[x], paid'[x])
    BY DEF Adding
  <2>1. RowOK(onHand[x], moves[x], paid[x])
    BY DEF StockInv, Adding
  <2> QED BY <1>1, <1>2, <1>4, <2>1 DEF RowOK, Led, Carried
<1>7. Known' /\ Splitting' /\ Opened' /\ OpenedOnce' /\ OneShape'
  BY <1>2, <1>4, KeyParts DEF StockInv, Known, Splitting, Opened, OpenedOnce, OneShape, MovedBetween
<1>8. Placing'
  BY <1>2, <1>4 DEF StockInv, Placing, PlacedOnHand, MovedBetween
<1>9. Tasking'
  <2> SUFFICES ASSUME NEW d \in Clerks PROVE TaskOK(task[d], desk, goods, onHand', moves)
    BY <1>2 DEF Tasking
  <2>1. TaskOK(task[d], desk, goods, onHand, moves)
    BY DEF StockInv, Tasking
  <2>2. task[d].step = "import_stock" => \A x \in LineKeys(task[d].article) : onHand'[x].current = onHand[x].current
    BY <1>4, <2>1, KeyParts DEF TaskOK, Phases
  <2> QED BY <2>1, <2>2 DEF TaskOK
<1> QED BY <1>2, <1>5, <1>6, <1>7, <1>8, <1>9 DEF StockInv, Serial, Importing

LEMMA PlaceFine ==
  ASSUME StockInv, NEW c \in Clerks, PlaceGoods(c)
  PROVE  StockInv'
<1>1. PICK k \in Keys, placed \in [Racks -> Quantities \union {0}] :
        /\ k[1] \in Imported
        /\ SumFunctionOnSet(placed, Racks) <= onHand[k].current
        /\ places' = [places EXCEPT ![k] = placed]
  BY DEF PlaceGoods, FitsOnHand
<1>2. UNCHANGED <<desk, goods, variantRows, onHand, moves, paid, task>>
  BY DEF PlaceGoods, stockVars
<1>3. placed \in [Racks -> Nat]
  <2>1. Quantities \union {0} \subseteq Nat
    BY WarehouseAssumption
  <2>2. placed \in [Racks -> Quantities \union {0}]
    BY <1>1
  <2> QED BY <2>1, <2>2
<1>4. \A x \in Keys : places'[x] = IF x = k THEN placed ELSE places[x]
  BY <1>1 DEF StockInv, StockTyped
<1>5. StockTyped'
  BY <1>1, <1>2, <1>3 DEF StockTyped, StockInv
<1>6. Placing'
  BY <1>1, <1>2, <1>4 DEF StockInv, Placing, PlacedOnHand, MovedBetween, Native
<1>7. Adding' /\ Known' /\ Splitting' /\ Opened' /\ OpenedOnce' /\ OneShape'
  BY <1>2 DEF StockInv, Adding, Known, Splitting, Opened, OpenedOnce, OneShape, MovedBetween
<1>8. Tasking' /\ Serial' /\ Importing'
  BY <1>2 DEF StockInv, Tasking, Serial, Importing
<1> QED BY <1>5, <1>6, <1>7, <1>8 DEF StockInv

----
(* Steps that book goods. *)

\* A booking that opens a row only when nothing moved there, and that takes imported goods
\* only in an issue or between overlapping imports, leaves the stock rooms sound.
LEMMA BookedFine ==
  ASSUME StockInv, UNCHANGED <<desk, places>>,
         NEW S \in SUBSET Keys, NEW changed \in [S -> Int], NEW by \in Reasons,
         NEW cost \in Nat \union {Kept},
         \A k \in S : changed[k] >= 0 \/ Deductable(k, -changed[k]),
         Books(changed, by, cost),
         goods' \in [Articles -> ProductRow], \A a \in Articles : goods[a].row => goods'[a].row,
         variantRows' \in [Articles -> SUBSET ({Base} \union Kinds)],
         \A k \in S : goods'[k[1]].row /\ (k[1] \in Imported => k \in LineKeys(k[1])),
         by = "OPENING" /\ ~MovedBetween => \A k \in S : changed[k] # 0 => moves[k] = <<>>,
         \A k \in S : \/ k[1] \in Native \/ changed[k] >= 0
                      \/ "issue" \in desk.kinds \/ MovedBetween,
         desk.overlap /\ ~MovedBetween =>
           \A k \in S : k[1] \in Imported /\ changed[k] # 0 =>
             onHand[k].current + changed[k] = Workbook[k[1]].quantity,
         Splitting', OneShape', task' = [x \in Clerks |-> task'[x]], Tasking', Serial', Importing'
  PROVE  StockInv'
<1>0. StockTyped /\ Adding /\ Known /\ Opened /\ OpenedOnce /\ Placing
  BY DEF StockInv
<1>1. /\ onHand' \in [Keys -> StockRow] /\ moves' \in [Keys -> Seq(MoveRow)]
      /\ paid' \in [Keys -> SUBSET Nat]
      /\ Adding'
      /\ \A k \in Keys \ S : onHand'[k] = onHand[k] /\ moves'[k] = moves[k]
      /\ \A k \in S : /\ onHand'[k].row /\ onHand'[k].reserved = onHand[k].reserved
                      /\ onHand'[k].current = onHand[k].current + changed[k]
                      /\ moves'[k] = NextMoves(moves[k], onHand[k], changed[k], by)
  BY <1>0, Booked
<1>2. StockTyped'
  BY <1>0, <1>1 DEF StockTyped
<1>3. Known'
  <2> SUFFICES ASSUME NEW k \in Keys, onHand'[k].row
               PROVE  goods'[k[1]].row /\ (k[1] \in Imported => k \in LineKeys(k[1]))
    BY DEF Known, LineKeys
  <2>1. CASE k \in S
    BY <2>1
  <2>2. CASE k \notin S
    BY <1>0, <1>1, <2>2, KeyParts DEF Known
  <2> QED BY <2>1, <2>2
<1>4. Opened'
  <2> SUFFICES ASSUME desk.overlap /\ ~MovedBetween,
                      NEW k \in Keys, k[1] \in Imported, moves'[k] # <<>>
               PROVE  onHand'[k].current = Workbook[k[1]].quantity
    BY DEF Opened, MovedBetween
  <2>1. CASE k \in S /\ changed[k] # 0
    BY <1>1, <2>1
  <2>2. CASE k \in S /\ changed[k] = 0
    <3>1. onHand[k] \in StockRow
      BY <1>0 DEF StockTyped
    <3>2. onHand[k].current \in Nat
      BY <3>1 DEF StockRow
    <3>3. moves[k] # <<>> /\ onHand'[k].current = onHand[k].current
      BY <1>1, <2>2, <3>2 DEF NextMoves
    <3> QED BY <1>0, <3>3 DEF Opened
  <2>3. CASE k \notin S
    BY <1>0, <1>1, <2>3 DEF Opened
  <2> QED BY <2>1, <2>2, <2>3
<1>5. OpenedOnce'
  <2> SUFFICES ASSUME ~MovedBetween, NEW k \in Keys, NEW n \in DOMAIN moves'[k],
                      moves'[k][n].by = "OPENING"
               PROVE  n = 1
    BY DEF OpenedOnce, MovedBetween
  <2>1. CASE moves'[k] = moves[k]
    BY <1>0, <2>1 DEF OpenedOnce
  <2>2. CASE moves'[k] # moves[k]
    <3>1. PICK ms, m : ms = moves[k] /\ m = Movement(by, changed[k], onHand[k].current)
      OBVIOUS
    <3>2. k \in S /\ changed[k] # 0 /\ moves'[k] = Append(ms, m) /\ m.by = by /\ ms \in Seq(MoveRow)
      BY <1>0, <1>1, <2>2, <3>1 DEF NextMoves, Movement, StockTyped
    <3>3. m \in MoveRow
      <4>1. onHand[k] \in StockRow /\ onHand'[k] \in StockRow /\ changed[k] \in Int
        BY <1>0, <1>1, <3>2 DEF StockTyped
      <4>2. onHand[k].current \in Nat /\ onHand[k].current + changed[k] \in Nat
        BY <1>1, <3>2, <4>1 DEF StockRow
      <4> QED BY <3>1, <4>1, <4>2 DEF Movement, MoveRow
    <3>4. n \in 1..(Len(ms) + 1) /\ Len(ms) \in Nat
      BY <3>2, <3>3
    <3>5. CASE n \in 1..Len(ms)
      BY <1>0, <3>1, <3>2, <3>3, <3>5 DEF OpenedOnce
    <3>6. CASE n = Len(ms) + 1
      <4>1. by = "OPENING"
        BY <3>2, <3>3, <3>6
      <4> QED BY <3>1, <3>2, <3>6, <4>1
    <3> QED BY <3>4, <3>5, <3>6
  <2> QED BY <2>1, <2>2
<1>6. Placing'
  <2>1. \A k \in Keys : k[1] \in Native => places'[k] = [r \in Racks |-> 0]
    BY <1>0 DEF Placing
  <2>2. ASSUME "issue" \notin desk.kinds /\ ~MovedBetween, NEW k \in Keys
        PROVE  SumFunctionOnSet(places[k], Racks) <= onHand'[k].current
    <3>1. onHand[k] \in StockRow /\ onHand'[k] \in StockRow
      BY <1>0, <1>1 DEF StockTyped
    <3>2. onHand[k].current \in Nat /\ onHand'[k].current \in Nat
      BY <3>1 DEF StockRow
    <3>3. CASE k[1] \in Native
      <4>1. \A r \in Racks : places[k][r] = 0
        BY <1>0, <3>3 DEF Placing
      <4>2. SumFunctionOnSet(places[k], Racks) = 0
        BY <4>1, SumZeros, WarehouseAssumption
      <4> QED BY <3>2, <4>2
    <3>4. CASE k \in S /\ k[1] \notin Native
      <4>1. SumFunctionOnSet(places[k], Racks) <= onHand[k].current
        BY <1>0, <2>2 DEF Placing, PlacedOnHand
      <4>2. changed[k] >= 0 /\ changed[k] \in Int
        BY <2>2, <3>4
      <4>3. SumFunctionOnSet(places[k], Racks) \in Nat
        <5>1. \A r \in Racks : places[k][r] \in Nat
          BY <1>0 DEF StockTyped
        <5> QED BY <5>1, SumNat, WarehouseAssumption
      <4> QED BY <1>1, <3>2, <3>4, <4>1, <4>2, <4>3
    <3>5. CASE k \notin S
      BY <1>0, <1>1, <2>2, <3>5 DEF Placing, PlacedOnHand
    <3> QED BY <3>3, <3>4, <3>5
  <2> QED BY <2>1, <2>2 DEF Placing, PlacedOnHand, MovedBetween
<1> QED BY <1>1, <1>2, <1>3, <1>4, <1>5, <1>6 DEF StockInv

LEMMA CreateFine ==
  ASSUME StockInv, NEW c \in Clerks, CreateArticle(c)
  PROVE  StockInv'
<1>1. PICK a \in desk.articles \ Imported, rows \in SUBSET Kinds, quantity \in Quantities \union {0},
           price \in Prices, treatment \in {"VAT", "NON_VAT"}, inclusive \in BOOLEAN :
        LET variants == IF rows = {} THEN {Base} ELSE rows
        IN /\ ~goods[a].row
           /\ quantity > 0 => price > 0
           /\ goods' = [goods EXCEPT ![a] = [row |-> TRUE, active |-> TRUE,
                                             split |-> rows # {}, shared |-> FALSE]]
           /\ variantRows' = [variantRows EXCEPT ![a] = variants]
           /\ Books([k \in {KeyOf(a, v) : v \in variants} |-> quantity], "OPENING",
                     CapitalisedCost(price, treatment, inclusive, treatment = "VAT"))
  BY DEF CreateArticle
<1>2. UNCHANGED <<desk, places, task>> /\ task[c] = Free /\ Solitary(c)
  BY ServesAlone DEF CreateArticle, Serves, StockInv
<1>3. PICK variants, S, changed, cost, new :
        /\ variants = (IF rows = {} THEN {Base} ELSE rows)
        /\ S = {KeyOf(a, v) : v \in variants} /\ changed = [k \in S |-> quantity]
        /\ cost = CapitalisedCost(price, treatment, inclusive, treatment = "VAT")
        /\ new = [row |-> TRUE, active |-> TRUE, split |-> rows # {}, shared |-> FALSE]
  OBVIOUS
<1>4. /\ ~goods[a].row /\ goods' = [goods EXCEPT ![a] = new]
      /\ variantRows' = [variantRows EXCEPT ![a] = variants]
      /\ Books(changed, "OPENING", cost)
  BY <1>1, <1>3
<1>5. a \in Native /\ a \in Articles /\ a \notin Imported
  BY <1>1, WarehouseAssumption DEF StockInv, StockTyped, Native
<1>6. quantity \in Nat /\ cost \in Nat /\ cost \in Nat \union {Kept}
  <2>1. Quantities \union {0} \subseteq Nat /\ Prices \subseteq Nat
    BY WarehouseAssumption
  <2> QED BY <1>3, <2>1, CostNat
<1>7. /\ S \in SUBSET Keys /\ \A k \in S : k[1] = a
      /\ new.split => <<a, NoVariant>> \notin S
  <2>1. variants \subseteq {Base} \union Kinds /\ new.split = (rows # {}) /\ rows \subseteq Kinds
    BY <1>3
  <2>2. \A v \in variants : KeyOf(a, v) \in Keys /\ KeyOf(a, v)[1] = a
    BY <1>5, <2>1, KeyParts
  <2>3. ASSUME new.split, NEW v \in variants PROVE KeyOf(a, v) # <<a, NoVariant>>
    <3>1. v \in Kinds
      BY <1>3, <2>1, <2>3
    <3>2. KeyOf(a, v)[2] # NoVariant
      BY <1>5, <3>1, KeyParts
    <3> QED BY <3>2
  <2> QED BY <1>3, <2>2, <2>3
<1>8. /\ goods' \in [Articles -> ProductRow] /\ variantRows' \in [Articles -> SUBSET ({Base} \union Kinds)]
      /\ \A x \in Articles : goods'[x] = (IF x = a THEN new ELSE goods[x])
      /\ \A x \in Articles : variantRows'[x] = (IF x = a THEN variants ELSE variantRows[x])
      /\ new.row /\ new.split = (rows # {})
  <2>1. new \in ProductRow /\ variants \in SUBSET ({Base} \union Kinds)
    BY <1>3 DEF ProductRow
  <2> QED BY <1>3, <1>4, <2>1 DEF StockInv, StockTyped
<1>9. \A k \in S : ~onHand[k].row /\ onHand[k].current = 0 /\ moves[k] = <<>>
  <2>1. \A k \in S : ~onHand[k].row /\ RowOK(onHand[k], moves[k], paid[k])
    BY <1>4, <1>7 DEF StockInv, Known, Adding
  <2> QED BY <2>1 DEF RowOK
<1>10. changed \in [S -> Int] /\ \A k \in S : changed[k] >= 0
  BY <1>3, <1>6
<1>11. \A k \in Keys \ S : onHand'[k] = onHand[k] /\ moves'[k] = moves[k]
  <2>1. DOMAIN changed = S
    BY <1>10
  <2> QED BY <1>4, <2>1 DEF Books
<1>12. Splitting'
  <2> SUFFICES ASSUME "reshape" \notin desk.kinds, NEW x \in Native, goods'[x].split
               PROVE  onHand'[<<x, NoVariant>>].current = 0
    BY <1>2 DEF Splitting
  <2>1. x \in Articles /\ <<x, NoVariant>> \in Keys
    BY KeyParts
  <2>2. CASE x = a
    <3>1. <<a, NoVariant>> \in Keys \ S
      BY <1>7, <1>8, <2>1, <2>2
    <3>2. ~onHand[<<a, NoVariant>>].row /\ RowOK(onHand[<<a, NoVariant>>], moves[<<a, NoVariant>>], paid[<<a, NoVariant>>])
      BY <1>4, <3>1 DEF StockInv, Known, Adding
    <3> QED BY <1>11, <2>2, <3>1, <3>2 DEF RowOK
  <2>3. CASE x # a
    <3>1. <<x, NoVariant>> \in Keys \ S
      BY <1>7, <2>1, <2>3
    <3> QED BY <1>8, <1>11, <2>1, <2>3, <3>1 DEF StockInv, Splitting
  <2> QED BY <2>2, <2>3
<1>13. OneShape'
  <2>1. Base \in variants => variants = {Base}
    BY <1>3, WarehouseAssumption
  <2> QED BY <1>8, <2>1 DEF StockInv, OneShape
<1>14. task' = [x \in Clerks |-> task'[x]] /\ Tasking' /\ Serial' /\ Importing'
  <2>1. TaskOK(Free, desk, goods', onHand', moves') /\ Free.step \notin Phases
    BY DEF TaskOK, Free, Phases
  <2>2. task' = [task EXCEPT ![c] = Free]
    BY <1>2 DEF StockInv, StockTyped
  <2>3. ASSUME NEW d \in Clerks \ {c}, task[d].step = "import_stock"
        PROVE  \A k \in LineKeys(task[d].article) : onHand'[k] = onHand[k] /\ moves'[k] = moves[k]
    <3>1. task[d].article \in Imported
      BY <2>3 DEF StockInv, Tasking, TaskOK, Phases
    <3> QED BY <1>5, <1>7, <1>11, <3>1, KeyParts
  <2>4. \A x \in Articles : goods[x].row => goods'[x].row
    BY <1>8
  <2>5. \A x \in Native : goods[x].row => goods'[x].split = goods[x].split
    BY <1>4, <1>8, KeyParts
  <2> QED BY <1>2, <2>1, <2>2, <2>3, <2>4, <2>5, Turned
<1>15. \A x \in Articles : goods[x].row => goods'[x].row
  BY <1>8
<1>16. \A k \in S : goods'[k[1]].row /\ k[1] \in Native /\ k[1] \notin Imported
  BY <1>5, <1>7, <1>8
<1>17. PICK by : by = "OPENING" /\ by \in Reasons /\ Books(changed, by, cost)
  BY <1>4 DEF Reasons
<1>18. \A k \in S : changed[k] >= 0 \/ Deductable(k, -changed[k])
  BY <1>10
<1>19. \A k \in S : goods'[k[1]].row /\ (k[1] \in Imported => k \in LineKeys(k[1]))
  BY <1>16
<1>20. by = "OPENING" /\ ~MovedBetween => \A k \in S : changed[k] # 0 => moves[k] = <<>>
  BY <1>9
<1>21. \A k \in S : \/ k[1] \in Native \/ changed[k] >= 0
                    \/ "issue" \in desk.kinds \/ MovedBetween
  BY <1>16
<1>22. desk.overlap /\ ~MovedBetween =>
         \A k \in S : k[1] \in Imported /\ changed[k] # 0 =>
           onHand[k].current + changed[k] = Workbook[k[1]].quantity
  BY <1>16
<1>23. UNCHANGED <<desk, places>>
  BY <1>2
<1>24. /\ goods' \in [Articles -> ProductRow]
       /\ variantRows' \in [Articles -> SUBSET ({Base} \union Kinds)]
       /\ S \in SUBSET Keys /\ changed \in [S -> Int]
  BY <1>7, <1>8, <1>10
<1> QED BY <1>6, <1>12, <1>13, <1>14, <1>15, <1>17, <1>18, <1>19, <1>20, <1>21,
     <1>22, <1>23, <1>24, BookedFine

\* Booking nothing on no row is booking nothing.
LEMMA NothingBooked ==
  ASSUME StockTyped, UNCHANGED stockVars
  PROVE  Books([k \in {} |-> 0], "none", Kept)
<1>1. /\ onHand = [k \in Keys |-> onHand[k]] /\ moves = [k \in Keys |-> moves[k]]
      /\ paid = [k \in Keys |-> paid[k]]
  BY DEF StockTyped
<1>2. onHand' = onHand /\ moves' = moves /\ paid' = paid
  BY DEF stockVars
<1>3. DOMAIN [k \in {} |-> 0] = {}
  OBVIOUS
<1> QED BY <1>1, <1>2, <1>3 DEF Books

\* What an edit saves over the article, whatever it sends of its variants.
LEMMA EditBooked ==
  ASSUME StockInv, NEW c \in Clerks, Solitary(c), NEW a \in Native, goods[a].row, NEW saved \in ProductRow,
         saved.row, "reshape" \notin desk.kinds => saved.split = goods[a].split,
         goods' = [goods EXCEPT ![a] = saved],
         UNCHANGED <<desk, places>>, Leaves(c),
         NEW S \in SUBSET Keys, \A k \in S : k[1] = a,
         NEW changed \in [S -> Int], \A k \in S : changed[k] = 0, NEW by \in Reasons, by # "OPENING",
         Books(changed, by, Kept),
         NEW variants \in SUBSET ({Base} \union Kinds), Base \in variants => variants = {Base},
         variantRows' = [variantRows EXCEPT ![a] = variants]
  PROVE  StockInv'
<1>1. PICK cost : cost = Kept /\ cost \in Nat \union {Kept}
  OBVIOUS
<1>2. a \in Articles /\ a \notin Imported
  BY KeyParts DEF Native
<1>3. S \in SUBSET Keys /\ \A k \in S : k[1] = a
  OBVIOUS
<1>4. Books(changed, by, cost)
  BY <1>1
<1>5. /\ goods' \in [Articles -> ProductRow] /\ variantRows' \in [Articles -> SUBSET ({Base} \union Kinds)]
      /\ \A x \in Articles : goods'[x] = (IF x = a THEN saved ELSE goods[x])
      /\ \A x \in Articles : variantRows'[x] = (IF x = a THEN variants ELSE variantRows[x])
  BY <1>2 DEF StockInv, StockTyped
<1>6. \A k \in Keys : onHand'[k].current = onHand[k].current /\ moves'[k] = moves[k]
                      /\ (k \notin S => onHand'[k] = onHand[k])
  <2>1. DOMAIN changed = S
    BY <1>4
  <2>2. \A k \in Keys : onHand[k].current \in Nat
    BY DEF StockInv, StockTyped, StockRow
  <2>3. ASSUME NEW k \in S
        PROVE  onHand'[k].current = onHand[k].current + changed[k] /\ moves'[k] = moves[k]
    BY <2>1 DEF Books
  <2>4. \A k \in Keys \ S : onHand'[k] = onHand[k] /\ moves'[k] = moves[k]
    BY <2>1 DEF Books
  <2> QED BY <2>2, <2>3, <2>4
<1>7. \A x \in Articles : goods[x].row => goods'[x].row
  BY <1>5
<1>8. "reshape" \notin desk.kinds => \A x \in Native : goods'[x].split = goods[x].split
  BY <1>5, KeyParts
<1>9. Splitting'
  BY <1>6, <1>8, KeyParts DEF StockInv, Splitting
<1>10. OneShape'
  BY <1>5 DEF StockInv, OneShape
<1>11. task' = [x \in Clerks |-> task'[x]] /\ Tasking' /\ Serial' /\ Importing'
  <2>1. TaskOK(Free, desk, goods', onHand', moves') /\ Free.step \notin Phases
    BY DEF TaskOK, Free, Phases
  <2>2. task' = [task EXCEPT ![c] = Free]
    BY DEF Leaves, Goes
  <2>3. ASSUME NEW d \in Clerks \ {c}, task[d].step = "import_stock"
        PROVE  \A k \in LineKeys(task[d].article) : onHand'[k] = onHand[k] /\ moves'[k] = moves[k]
    <3>1. task[d].article \in Imported
      BY <2>3 DEF StockInv, Tasking, TaskOK, Phases
    <3> QED BY <1>2, <1>3, <1>6, <3>1, KeyParts
  <2> QED BY <1>7, <1>8, <2>1, <2>2, <2>3, Turned
<1>12. \A k \in S : changed[k] >= 0 \/ Deductable(k, -changed[k])
  OBVIOUS
<1>13. \A k \in S : goods'[k[1]].row /\ (k[1] \in Imported => k \in LineKeys(k[1]))
  BY <1>2, <1>3, <1>5
<1>14. by = "OPENING" /\ ~MovedBetween => \A k \in S : changed[k] # 0 => moves[k] = <<>>
  OBVIOUS
<1>15. \A k \in S : \/ k[1] \in Native \/ changed[k] >= 0
                    \/ "issue" \in desk.kinds \/ MovedBetween
  BY <1>3
<1>16. desk.overlap /\ ~MovedBetween =>
         \A k \in S : k[1] \in Imported /\ changed[k] # 0 =>
           onHand[k].current + changed[k] = Workbook[k[1]].quantity
  OBVIOUS
<1>17. /\ goods' \in [Articles -> ProductRow]
       /\ variantRows' \in [Articles -> SUBSET ({Base} \union Kinds)]
       /\ UNCHANGED <<desk, places>>
  BY <1>5
<1> QED
  BY <1>1, <1>4, <1>7, <1>9, <1>10, <1>11, <1>12, <1>13, <1>14, <1>15, <1>16, <1>17, BookedFine

LEMMA EditFine ==
  ASSUME StockInv, NEW c \in Clerks, EditSave(c)
  PROVE  StockInv'
<1>1. PICK a, read : a = task[c].article /\ read = task[c].read
  OBVIOUS
<1>2. task[c].step = "edit" /\ Leaves(c) /\ UNCHANGED <<desk, places>>
  BY DEF EditSave, Stands
<1>3. /\ a \in Native /\ read \in ProductRow /\ read.row /\ goods[a].row
      /\ "reshape" \notin desk.kinds => read.split = goods[a].split
  BY <1>1, <1>2 DEF StockInv, Tasking, TaskOK
<1>4. Solitary(c)
  BY <1>2, ServesAlone DEF StockInv, Free
<1>5. PICK active \in BOOLEAN, split \in BOOLEAN :
        /\ split = task[c].read.split \/ "reshape" \in desk.kinds
        /\ LET saved == [task[c].read EXCEPT !.active = active, !.split = split]
           IN \/ /\ goods' = [goods EXCEPT ![task[c].article] = saved]
                 /\ UNCHANGED <<variantRows, stockVars>>
              \/ \E rows \in SUBSET Kinds :
                   LET sent == IF split THEN rows ELSE {Base}
                   IN /\ NothingLeftOut(task[c].article, sent)
                      /\ goods' = [goods EXCEPT ![task[c].article] = saved]
                      /\ variantRows' = [variantRows EXCEPT ![task[c].article] = @ \union sent]
                      /\ Books([k \in {KeyOf(task[c].article, v) : v \in sent} |-> 0], "none", Kept)
              \/ /\ \E rows \in SUBSET Kinds :
                      ~NothingLeftOut(task[c].article, IF split THEN rows ELSE {Base})
                 /\ UNCHANGED <<goods, variantRows, stockVars>>
  BY DEF EditSave
<1>6. PICK saved : saved = [read EXCEPT !.active = active, !.split = split]
  OBVIOUS
<1>7. saved \in ProductRow /\ saved.row /\ ("reshape" \notin desk.kinds => saved.split = goods[a].split)
  BY <1>1, <1>3, <1>5, <1>6 DEF ProductRow
<1>8. /\ a \in Articles /\ StockTyped /\ variantRows[a] \in SUBSET ({Base} \union Kinds)
      /\ Base \in variantRows[a] => variantRows[a] = {Base}
      /\ variantRows = [variantRows EXCEPT ![a] = variantRows[a]]
  BY <1>3, KeyParts DEF StockInv, StockTyped, OneShape
<1>13. /\ StockInv /\ c \in Clerks /\ Solitary(c) /\ a \in Native /\ goods[a].row
       /\ saved \in ProductRow /\ saved.row
       /\ "reshape" \notin desk.kinds => saved.split = goods[a].split
       /\ UNCHANGED <<desk, places>> /\ Leaves(c)
  BY <1>2, <1>3, <1>4, <1>7
<1>9. CASE goods' = [goods EXCEPT ![a] = saved] /\ UNCHANGED <<variantRows, stockVars>>
  <2>0. PICK by : by = "none" /\ by \in Reasons /\ by # "OPENING"
    BY DEF Reasons
  <2>1. PICK S, changed : S = {} /\ changed = [k \in S |-> 0]
    OBVIOUS
  <2>2. Books(changed, by, Kept)
    BY <1>8, <1>9, <2>0, <2>1, NothingBooked
  <2>6. PICK variants : /\ variants \in SUBSET ({Base} \union Kinds)
                        /\ Base \in variants => variants = {Base}
                        /\ variantRows' = [variantRows EXCEPT ![a] = variants]
    BY <1>8, <1>9
  <2>4. S \in SUBSET Keys /\ \A k \in S : k[1] = a
    BY <2>1
  <2>5. changed \in [S -> Int] /\ \A k \in S : changed[k] = 0
    BY <2>1
  <2> QED BY <1>9, <1>13, <2>0, <2>2, <2>4, <2>5, <2>6, EditBooked
<1>10. ASSUME NEW rows \in SUBSET Kinds, NEW sent, sent = (IF split THEN rows ELSE {Base}),
              NothingLeftOut(a, sent), goods' = [goods EXCEPT ![a] = saved],
              variantRows' = [variantRows EXCEPT ![a] = @ \union sent],
              Books([k \in {KeyOf(a, v) : v \in sent} |-> 0], "none", Kept)
       PROVE  StockInv'
  <2>1. sent \in SUBSET ({Base} \union Kinds) /\ (Base \in sent => sent = {Base})
    BY <1>10, WarehouseAssumption
  <2>2. variantRows' = [variantRows EXCEPT ![a] = sent]
    <3>1. variantRows[a] \union sent = sent
      BY <1>10 DEF NothingLeftOut
    <3> QED BY <1>10, <3>1
  <2>0. PICK by : by = "none" /\ by \in Reasons /\ by # "OPENING"
    BY DEF Reasons
  <2>3. PICK S, changed : /\ S = {KeyOf(a, v) : v \in sent}
                          /\ changed = [k \in {KeyOf(a, v) : v \in sent} |-> 0]
    OBVIOUS
  <2>4. Books(changed, by, Kept)
    BY <1>10, <2>0, <2>3
  <2>5. S \in SUBSET Keys /\ \A k \in S : k[1] = a
    BY <1>8, <2>1, <2>3, KeyParts
  <2>7. goods' = [goods EXCEPT ![a] = saved]
    BY <1>10
  <2>8. PICK variants : /\ variants \in SUBSET ({Base} \union Kinds)
                        /\ Base \in variants => variants = {Base}
                        /\ variantRows' = [variantRows EXCEPT ![a] = variants]
    BY <2>1, <2>2
  <2>6. changed \in [S -> Int] /\ \A k \in S : changed[k] = 0
    BY <2>3
  <2> QED BY <1>13, <2>0, <2>4, <2>5, <2>6, <2>7, <2>8, EditBooked
<1>11. CASE UNCHANGED <<goods, variantRows, stockVars>>
  <2>1. TaskOK(Free, desk, goods, onHand, moves) /\ Free.step \notin Phases
    BY DEF TaskOK, Free, Phases
  <2>2. UNCHANGED stockroom /\ task' = [task EXCEPT ![c] = Free]
    BY <1>2, <1>11 DEF stockroom, Leaves, Goes
  <2> QED BY <1>4, <2>1, <2>2, Untouched
<1>12. CASE \E rows \in SUBSET Kinds :
                LET sent == IF split THEN rows ELSE {Base}
                IN /\ NothingLeftOut(a, sent)
                   /\ goods' = [goods EXCEPT ![a] = saved]
                   /\ variantRows' = [variantRows EXCEPT ![a] = @ \union sent]
                   /\ Books([k \in {KeyOf(a, v) : v \in sent} |-> 0], "none", Kept)
  BY <1>10, <1>12
<1> QED BY <1>1, <1>5, <1>6, <1>9, <1>11, <1>12

LEMMA AdjustFine ==
  ASSUME StockInv, NEW c \in Clerks, AdjustBook(c)
  PROVE  StockInv'
<1>1. PICK key, signed : key = task[c].key /\ signed = task[c].signed
  OBVIOUS
<1>2. /\ task[c].step = "adjust" /\ Leaves(c) /\ UNCHANGED <<desk, goods, variantRows, places>>
      /\ IF signed > 0 \/ Deductable(key, -signed)
         THEN Books([k \in {key} |-> signed], "ADJUSTMENT", Kept)
         ELSE UNCHANGED stockVars
  BY <1>1 DEF AdjustBook, Stands
<1>3. /\ key \in Keys /\ key[1] \in Native /\ signed \in Int
      /\ goods[key[1]].row
      /\ "reshape" \notin desk.kinds /\ key[2] = NoVariant => ~goods[key[1]].split
  BY <1>1, <1>2 DEF StockInv, Tasking, TaskOK
<1>4. Solitary(c) /\ task' = [task EXCEPT ![c] = Free]
  BY <1>2, ServesAlone DEF StockInv, Free, Leaves, Goes
<1>5. CASE UNCHANGED stockVars
  <2>1. TaskOK(Free, desk, goods, onHand, moves) /\ Free.step \notin Phases
    BY DEF TaskOK, Free, Phases
  <2>2. UNCHANGED stockroom
    BY <1>2, <1>5 DEF stockroom
  <2> QED BY <1>4, <2>1, <2>2, Untouched
<1>6. CASE (signed > 0 \/ Deductable(key, -signed)) /\ Books([k \in {key} |-> signed], "ADJUSTMENT", Kept)
  <2>0. PICK by : by = "ADJUSTMENT" /\ by \in Reasons /\ by # "OPENING"
    BY DEF Reasons
  <2>1. PICK S, changed, cost : /\ S = {key} /\ changed = [k \in {key} |-> signed]
                                /\ cost = Kept /\ cost \in Nat \union {Kept}
    OBVIOUS
  <2>2. S \in SUBSET Keys /\ (\A k \in S : k = key) /\ changed \in [S -> Int]
    BY <1>3, <2>1
  <2>3. \A k \in S : changed[k] = signed
    BY <2>1
  <2>4. Books(changed, by, cost)
    BY <1>6, <2>0, <2>1
  <2>5. \A k \in Keys \ S : onHand'[k] = onHand[k] /\ moves'[k] = moves[k]
    <3>1. DOMAIN changed = S
      BY <2>2
    <3> QED BY <2>4, <3>1 DEF Books
  <2>6. Splitting'
    <3> SUFFICES ASSUME "reshape" \notin desk.kinds, NEW x \in Native, goods[x].split
                 PROVE  onHand'[<<x, NoVariant>>].current = 0
      BY <1>2 DEF Splitting
    <3>1. <<x, NoVariant>> \in Keys
      BY KeyParts
    <3>2. key # <<x, NoVariant>>
      BY <1>3
    <3>3. <<x, NoVariant>> \in Keys \ S
      BY <2>2, <3>1, <3>2
    <3> QED BY <2>5, <3>3 DEF StockInv, Splitting
  <2>7. OneShape'
    BY <1>2 DEF StockInv, OneShape
  <2>8. task' = [x \in Clerks |-> task'[x]] /\ Tasking' /\ Serial' /\ Importing'
    <3>1. TaskOK(Free, desk, goods', onHand', moves') /\ Free.step \notin Phases
      BY DEF TaskOK, Free, Phases
    <3>2. ASSUME NEW d \in Clerks \ {c}, task[d].step = "import_stock"
          PROVE  \A k \in LineKeys(task[d].article) : onHand'[k] = onHand[k] /\ moves'[k] = moves[k]
      <4>1. task[d].article \in Imported
        BY <3>2 DEF StockInv, Tasking, TaskOK, Phases
      <4> QED BY <1>3, <2>2, <2>5, <4>1, KeyParts DEF Native
    <3> QED BY <1>2, <1>4, <3>1, <3>2, Turned
  <2>9. \A k \in S : changed[k] >= 0 \/ Deductable(k, -changed[k])
    BY <1>3, <1>6, <2>2, <2>3
  <2>10. /\ \A k \in S : goods'[k[1]].row /\ (k[1] \in Imported => k \in LineKeys(k[1]))
         /\ \A a \in Articles : goods[a].row => goods'[a].row
    BY <1>2, <1>3, <2>2 DEF Native
  <2>11. by = "OPENING" /\ ~MovedBetween => \A k \in S : changed[k] # 0 => moves[k] = <<>>
    BY <2>0
  <2>12. \A k \in S : \/ k[1] \in Native \/ changed[k] >= 0
                      \/ "issue" \in desk.kinds \/ MovedBetween
    BY <1>3, <2>2
  <2>13. desk.overlap /\ ~MovedBetween =>
           \A k \in S : k[1] \in Imported /\ changed[k] # 0 =>
             onHand[k].current + changed[k] = Workbook[k[1]].quantity
    BY <1>3, <2>2 DEF Native
  <2>14. /\ goods' \in [Articles -> ProductRow]
         /\ variantRows' \in [Articles -> SUBSET ({Base} \union Kinds)]
         /\ UNCHANGED <<desk, places>>
    BY <1>2 DEF StockInv, StockTyped
  <2> QED
    BY <2>0, <2>1, <2>2, <2>4, <2>6, <2>7, <2>8, <2>9, <2>10, <2>11, <2>12, <2>13, <2>14, BookedFine
<1> QED BY <1>2, <1>5, <1>6

\* Goods of one imported article come in or go out.
LEMMA MovedFine ==
  ASSUME StockInv, NEW c \in Clerks, Solitary(c), task[c] = Free,
         UNCHANGED <<desk, goods, variantRows, places, task>>,
         NEW k \in Keys, k[1] \in Imported, onHand[k].row,
         NEW n \in Int, n >= 0 \/ (Deductable(k, -n) /\ "issue" \in desk.kinds),
         {"issue", "receive"} \intersect desk.kinds # {},
         NEW by \in Reasons, by # "OPENING", NEW cost \in Nat \union {Kept},
         NEW changed, changed = [key \in {k} |-> n], Books(changed, by, cost)
  PROVE  StockInv'
<1>1. PICK S : S = {k} /\ S \in SUBSET Keys /\ DOMAIN changed = S /\ changed \in [S -> Int]
  OBVIOUS
<1>2. \A x \in S : x = k /\ changed[x] = n
  BY <1>1
<1>3. \A x \in Keys \ S : onHand'[x] = onHand[x] /\ moves'[x] = moves[x]
  BY <1>1 DEF Books
<1>4. goods[k[1]].row /\ k \in LineKeys(k[1])
  BY DEF StockInv, Known
<1>5. Splitting' /\ OneShape'
  <2>1. \A x \in Native : <<x, NoVariant>> \in Keys \ S
    BY <1>2, KeyParts DEF Native
  <2> QED BY <1>3, <2>1 DEF StockInv, OneShape, Splitting
<1>6. desk.overlap => MovedBetween
  BY DEF MovedBetween
<1>7. task' = [x \in Clerks |-> task'[x]] /\ Tasking' /\ Serial' /\ Importing'
  <2>1. TaskOK(Free, desk, goods', onHand', moves') /\ Free.step \notin Phases
    BY DEF TaskOK, Free, Phases
  <2>2. ~desk.overlap => \A d \in Clerks \ {c} : task[d].step # "import_stock"
    BY DEF Solitary, Free
  <2>3. task' = [task EXCEPT ![c] = Free]
    BY DEF StockInv, StockTyped
  <2> QED BY <1>6, <2>1, <2>2, <2>3, Turned
<1>8. \A x \in S : changed[x] >= 0 \/ Deductable(x, -changed[x])
  BY <1>2
<1>9. /\ \A x \in S : goods'[x[1]].row /\ (x[1] \in Imported => x \in LineKeys(x[1]))
      /\ \A a \in Articles : goods[a].row => goods'[a].row
  BY <1>2, <1>4
<1>10. by = "OPENING" /\ ~MovedBetween => \A x \in S : changed[x] # 0 => moves[x] = <<>>
  OBVIOUS
<1>11. \A x \in S : \/ x[1] \in Native \/ changed[x] >= 0
                    \/ "issue" \in desk.kinds \/ MovedBetween
  BY <1>2
<1>12. desk.overlap /\ ~MovedBetween =>
         \A x \in S : x[1] \in Imported /\ changed[x] # 0 =>
           onHand[x].current + changed[x] = Workbook[x[1]].quantity
  BY <1>6
<1>13. /\ goods' \in [Articles -> ProductRow]
       /\ variantRows' \in [Articles -> SUBSET ({Base} \union Kinds)]
       /\ UNCHANGED <<desk, places>>
  BY DEF StockInv, StockTyped
<1> QED BY <1>1, <1>5, <1>7, <1>8, <1>9, <1>10, <1>11, <1>12, <1>13, BookedFine

LEMMA ReceiveFine ==
  ASSUME StockInv, NEW c \in Clerks, ReceiveGoods(c) \/ IssueGoods(c)
  PROVE  StockInv'
<1>1. /\ UNCHANGED <<desk, goods, variantRows, places, task>> /\ task[c] = Free /\ Solitary(c)
      /\ ReceiveGoods(c) => "receive" \in desk.kinds
      /\ IssueGoods(c) => "issue" \in desk.kinds
  BY ServesAlone DEF ReceiveGoods, IssueGoods, Serves, StockInv
<1>2. CASE ReceiveGoods(c)
  <2>1. PICK k \in Keys, quantity \in Quantities, price \in Prices \ {0},
             treatment \in {"VAT", "NON_VAT"}, inclusive \in BOOLEAN, recoverable \in BOOLEAN :
          /\ k[1] \in Imported /\ onHand[k].row
          /\ Books([key \in {k} |-> quantity], "RECEIPT",
                    CapitalisedCost(price, treatment, inclusive, recoverable))
    BY <1>2 DEF ReceiveGoods
  <2>2. PICK by, cost, changed :
          /\ by = "RECEIPT" /\ cost = CapitalisedCost(price, treatment, inclusive, recoverable)
          /\ changed = [key \in {k} |-> quantity]
    OBVIOUS
  <2>3. by \in Reasons /\ by # "OPENING"
    BY <2>2 DEF Reasons
  <2>4. quantity \in Int /\ quantity >= 0 /\ cost \in Nat \union {Kept}
    <3>1. quantity \in Nat /\ price \in Nat
      BY WarehouseAssumption
    <3> QED BY <2>2, <3>1, CostNat
  <2>5. Books(changed, by, cost)
    BY <2>1, <2>2
  <2>6. {"issue", "receive"} \intersect desk.kinds # {}
    BY <1>1, <1>2
  <2> QED BY <1>1, <2>1, <2>2, <2>3, <2>4, <2>5, <2>6, MovedFine
<1>3. CASE IssueGoods(c)
  <2>1. PICK k \in Keys, quantity \in Quantities :
          /\ k[1] \in Imported /\ onHand[k].row /\ Deductable(k, quantity)
          /\ Books([key \in {k} |-> -quantity], "SALE", Kept)
    BY <1>3 DEF IssueGoods
  <2>2. PICK by, cost, changed, n :
          by = "SALE" /\ cost = Kept /\ changed = [key \in {k} |-> -quantity] /\ n = -quantity
    OBVIOUS
  <2>3. by \in Reasons /\ by # "OPENING" /\ cost \in Nat \union {Kept}
    BY <2>2 DEF Reasons
  <2>4. n \in Int /\ Deductable(k, -n)
    <3>1. quantity \in Nat
      BY WarehouseAssumption
    <3>2. n \in Int /\ -n = quantity
      BY <2>2, <3>1
    <3> QED BY <2>1, <3>2
  <2>5. Books(changed, by, cost) /\ changed = [key \in {k} |-> n]
    BY <2>1, <2>2
  <2>6. {"issue", "receive"} \intersect desk.kinds # {} /\ "issue" \in desk.kinds
    BY <1>1, <1>3
  <2> QED BY <1>1, <2>1, <2>3, <2>4, <2>5, <2>6, MovedFine
<1> QED BY <1>2, <1>3

LEMMA ImportFine ==
  ASSUME StockInv, NEW c \in Clerks, ImportStock(c)
  PROVE  StockInv'
<1>1. PICK a, seen : a = task[c].article /\ seen = task[c].seen
  OBVIOUS
<1>2. task[c].step = "import_stock" /\ UNCHANGED <<desk, places>>
  BY DEF ImportStock, Stands
<1>3. Solitary(c)
  BY <1>2, ServesAlone DEF StockInv, Free
<1>4. /\ a \in Imported
      /\ \A k \in LineKeys(a) : seen[k] \in Nat
      /\ ~MovedBetween =>
           \A k \in LineKeys(a) :
             /\ seen[k] = onHand[k].current
             /\ moves[k] = <<>> \/ onHand[k].current = Workbook[a].quantity
  <2>1. TaskOK(task[c], desk, goods, onHand, moves)
    BY DEF StockInv, Tasking
  <2> QED BY <1>1, <1>2, <2>1 DEF TaskOK, MovedBetween, Phases
<1>5. /\ a \in Articles /\ a \notin Native /\ LineKeys(a) \in SUBSET Keys
      /\ \A k \in LineKeys(a) : k[1] = a
  BY <1>4, KeyParts DEF Native
<1>6. PICK difference : difference = [k \in LineKeys(a) |-> Workbook[a].quantity - seen[k]]
  OBVIOUS
<1>7. Workbook[a].quantity \in Nat /\ Workbook[a].price \in Nat /\ Workbook[a].kinds \subseteq Kinds
  BY <1>4, WarehouseAssumption
<1>8. /\ difference \in [LineKeys(a) -> Int]
      /\ \A k \in LineKeys(a) : difference[k] = Workbook[a].quantity - seen[k]
  BY <1>4, <1>6, <1>7
<1>9. PICK cost : cost = IF Workbook[a].price = 0 THEN Kept
                         ELSE CapitalisedCost(Workbook[a].price, "VAT", TRUE, TRUE)
  OBVIOUS
<1>10. cost \in Nat \union {Kept}
  BY <1>7, <1>9, CostNat
<1>11. PICK variants : variants = IF Workbook[a].kinds = {} THEN {Base} ELSE Workbook[a].kinds
  OBVIOUS
<1>12. \/ /\ \A k \in LineKeys(a) : difference[k] >= 0 \/ Deductable(k, -difference[k])
          /\ goods' = [goods EXCEPT ![a].row = TRUE, ![a].active = TRUE,
                                    ![a].split = Workbook[a].kinds # {}]
          /\ variantRows' = [variantRows EXCEPT ![a] = variants]
          /\ Books(difference, "OPENING", cost)
          /\ Goes(c, [step |-> "import_commit", article |-> a])
       \/ Leaves(c) /\ UNCHANGED <<goods, variantRows, stockVars>>
  BY <1>1, <1>6, <1>9, <1>11 DEF ImportStock
<1>13. CASE Leaves(c) /\ UNCHANGED <<goods, variantRows, stockVars>>
  <2>1. TaskOK(Free, desk, goods, onHand, moves) /\ Free.step \notin Phases
    BY DEF TaskOK, Free, Phases
  <2>2. UNCHANGED stockroom /\ task' = [task EXCEPT ![c] = Free]
    BY <1>2, <1>13 DEF stockroom, Leaves, Goes
  <2> QED BY <1>3, <2>1, <2>2, Untouched
<1>14. ASSUME \A k \in LineKeys(a) : difference[k] >= 0 \/ Deductable(k, -difference[k]),
              goods' = [goods EXCEPT ![a].row = TRUE, ![a].active = TRUE,
                                     ![a].split = Workbook[a].kinds # {}],
              variantRows' = [variantRows EXCEPT ![a] = variants],
              Books(difference, "OPENING", cost),
              Goes(c, [step |-> "import_commit", article |-> a])
       PROVE  StockInv'
  <2>1. PICK S, by, changed : S = LineKeys(a) /\ by = "OPENING" /\ changed = difference
    OBVIOUS
  <2>2. S \in SUBSET Keys /\ (\A k \in S : k[1] = a) /\ changed \in [S -> Int]
    BY <1>5, <1>8, <2>1
  <2>3. by \in Reasons /\ Books(changed, by, cost)
    BY <1>14, <2>1 DEF Reasons
  <2>4. \A k \in Keys \ S : onHand'[k] = onHand[k] /\ moves'[k] = moves[k]
    <3>1. DOMAIN changed = S
      BY <2>2
    <3> QED BY <2>3, <3>1 DEF Books
  <2>5. /\ goods' \in [Articles -> ProductRow]
        /\ goods'[a].row /\ \A x \in Articles \ {a} : goods'[x] = goods[x]
    <3>1. goods \in [Articles -> ProductRow] /\ goods[a] \in ProductRow
      BY <1>5 DEF StockInv, StockTyped
    <3>2. PICK new : new = [goods[a] EXCEPT !.row = TRUE, !.active = TRUE, !.split = Workbook[a].kinds # {}]
      OBVIOUS
    <3>3. new \in ProductRow /\ new.row
      BY <3>1, <3>2 DEF ProductRow
    <3>4. goods' = [goods EXCEPT ![a] = new]
      BY <1>14, <3>1, <3>2
    <3> QED BY <1>5, <3>1, <3>3, <3>4
  <2>6. /\ variantRows' \in [Articles -> SUBSET ({Base} \union Kinds)]
        /\ \A x \in Articles : variantRows'[x] = IF x = a THEN variants ELSE variantRows[x]
    <3>1. variants \in SUBSET ({Base} \union Kinds) /\ variantRows \in [Articles -> SUBSET ({Base} \union Kinds)]
      BY <1>7, <1>11 DEF StockInv, StockTyped
    <3> QED BY <1>14, <3>1
  <2>7. OneShape'
    <3>1. Base \in variants => variants = {Base}
      BY <1>7, <1>11, WarehouseAssumption
    <3> QED BY <2>6, <3>1 DEF StockInv, OneShape
  <2>8. Splitting'
    <3> SUFFICES ASSUME "reshape" \notin desk.kinds, NEW x \in Native, goods'[x].split
                 PROVE  onHand'[<<x, NoVariant>>].current = 0
      BY <1>2 DEF Splitting
    <3>1. <<x, NoVariant>> \in Keys \ S /\ x \in Articles \ {a}
      BY <1>5, <2>2, KeyParts
    <3> QED BY <2>4, <2>5, <3>1 DEF StockInv, Splitting
  <2>9. task' = [x \in Clerks |-> task'[x]] /\ Tasking' /\ Serial' /\ Importing'
    <3>1. PICK t : t = [step |-> "import_commit", article |-> a]
      OBVIOUS
    <3>2. t.step = "import_commit" /\ t.article = a /\ task' = [task EXCEPT ![c] = t]
      BY <1>14, <3>1 DEF Goes
    <3>3. TaskOK(t, desk, goods', onHand', moves')
      BY <1>4, <3>2 DEF TaskOK, Phases
    <3>4. \A d \in Clerks \ {c} : task[d].step \in Phases => task[d].article # t.article
      BY <1>1, <1>2, <3>2 DEF StockInv, Importing, Phases
    <3>5. ASSUME NEW d \in Clerks \ {c}, task[d].step = "import_stock"
          PROVE  \A k \in LineKeys(task[d].article) : onHand'[k] = onHand[k] /\ moves'[k] = moves[k]
      <4>1. task[d].article \in Imported /\ task[d].article # a
        BY <3>2, <3>4, <3>5 DEF StockInv, Tasking, TaskOK, Phases
      <4> QED BY <2>2, <2>4, <4>1, KeyParts
    <3>6. \A x \in Articles : goods[x].row => goods'[x].row
      BY <2>5
    <3>7. \A x \in Native : goods'[x].split = goods[x].split
      BY <1>5, <2>5, KeyParts
    <3> QED BY <1>2, <1>3, <3>2, <3>3, <3>4, <3>5, <3>6, <3>7, Turned
  <2>10. \A k \in S : changed[k] >= 0 \/ Deductable(k, -changed[k])
    BY <1>14, <2>1
  <2>11. \A k \in S : /\ onHand[k].current \in Nat
                      /\ moves[k] = <<>> => onHand[k].current = 0
    <3>1. \A k \in S : onHand[k] \in StockRow /\ RowOK(onHand[k], moves[k], paid[k])
      BY <2>2 DEF StockInv, StockTyped, Adding
    <3> QED BY <3>1 DEF StockRow, RowOK, Led
  <2>12. ~MovedBetween => \A k \in S : /\ changed[k] # 0 => moves[k] = <<>>
                                       /\ changed[k] >= 0
                                       /\ onHand[k].current + changed[k] = Workbook[a].quantity
    BY <1>4, <1>7, <1>8, <2>1, <2>11
  <2>13. /\ \A k \in S : goods'[k[1]].row /\ (k[1] \in Imported => k \in LineKeys(k[1]))
         /\ \A x \in Articles : goods[x].row => goods'[x].row
    BY <2>1, <2>2, <2>5
  <2>14. by = "OPENING" /\ ~MovedBetween => \A k \in S : changed[k] # 0 => moves[k] = <<>>
    BY <2>12
  <2>15. \A k \in S : \/ k[1] \in Native \/ changed[k] >= 0
                      \/ "issue" \in desk.kinds \/ MovedBetween
    BY <2>12
  <2>16. desk.overlap /\ ~MovedBetween =>
           \A k \in S : k[1] \in Imported /\ changed[k] # 0 =>
             onHand[k].current + changed[k] = Workbook[k[1]].quantity
    BY <2>2, <2>12
  <2>17. /\ goods' \in [Articles -> ProductRow]
         /\ variantRows' \in [Articles -> SUBSET ({Base} \union Kinds)]
         /\ UNCHANGED <<desk, places>>
    BY <1>2, <2>5, <2>6
  <2> QED
    BY <1>10, <2>2, <2>3, <2>7, <2>8, <2>9, <2>10, <2>13, <2>14, <2>15, <2>16, <2>17, BookedFine
<1> QED BY <1>12, <1>13, <1>14

LEMMA StockStart ==
  ASSUME WarehouseInit
  PROVE  StockInv
<1>1. /\ desk \in Desks
      /\ \A a \in Articles : goods[a] = NoArticle /\ variantRows[a] = {}
      /\ \A k \in Keys : /\ onHand[k] = NoRow /\ moves[k] = <<>> /\ paid[k] = {}
                         /\ places[k] = [r \in Racks |-> 0]
      /\ \A c \in Clerks : task[c] = Free
  BY DEF WarehouseInit
<1>2. NoArticle \in ProductRow /\ NoRow \in StockRow
  BY DEF NoArticle, NoRow, ProductRow, StockRow
<1>3. StockTyped
  <2>1. <<>> \in Seq(MoveRow) /\ {} \in SUBSET Nat /\ [r \in Racks |-> 0] \in [Racks -> Nat]
    OBVIOUS
  <2>2. {} \in SUBSET ({Base} \union Kinds)
    OBVIOUS
  <2> QED BY <1>2, <2>1, <2>2 DEF StockTyped, WarehouseInit
<1>4. Adding
  <2>1. RowOK(NoRow, <<>>, {})
    BY FS_EmptySet DEF RowOK, NoRow, Led, Carried
  <2> QED BY <1>1, <2>1 DEF Adding
<1>5. Known /\ Splitting /\ Opened /\ OpenedOnce
  BY <1>1, KeyParts DEF Known, NoRow, Splitting, NoArticle, Opened, OpenedOnce
<1>6. OneShape
  BY <1>1 DEF OneShape
<1>7. Placing
  <2> SUFFICES ASSUME NEW k \in Keys PROVE SumFunctionOnSet(places[k], Racks) <= onHand[k].current
    BY <1>1 DEF Placing, PlacedOnHand
  <2>1. \A r \in Racks : places[k][r] = 0
    BY <1>1
  <2>2. SumFunctionOnSet(places[k], Racks) = 0
    BY <2>1, SumZeros, WarehouseAssumption
  <2> QED BY <1>1, <2>2 DEF NoRow
<1>8. Tasking /\ Serial /\ Importing
  BY <1>1 DEF Tasking, TaskOK, Serial, Importing, Free, Phases
<1> QED BY <1>3, <1>4, <1>5, <1>6, <1>7, <1>8 DEF StockInv

LEMMA WarehouseFine ==
  ASSUME StockInv, NEW c \in Clerks, WarehouseStep(c)
  PROVE  StockInv'
BY CreateFine, LooksFine, EditFine, AdjustFine, ImportsFine, ImportFine, CommitFine, ReceiveFine,
   ReserveFine, PlaceFine DEF WarehouseStep


OfNaturals(S) == S \subseteq Nat

\* The greatest of finitely many naturals, as the library chooses it.
LEMMA GreatestIn ==
  ASSUME NEW S, OfNaturals(S), IsFiniteSet(S), S # {}
  PROVE  Max(S) \in S /\ \A x \in S : x <= Max(S)
<1> DEFINE T == {s \in SUBSET S : s # {} /\ ~\E m \in s : \A x \in s : x <= m}
<1>1. T = {}
  <2> SUFFICES ASSUME T # {} PROVE FALSE
    OBVIOUS
  <2>1. PICK s \in T : \A y \in T : y \subseteq s => y = s
    <3>1. T \subseteq SUBSET S /\ T # {} /\ IsFiniteSet(S)
      OBVIOUS
    <3> HIDE DEF T
    <3>2. \E m \in T : \A y \in T : y \subseteq m => y = m
      BY <3>1, Smallest
    <3> QED BY <3>2
  <2>2. PICK x \in s : x \in Nat
    BY <2>1 DEF OfNaturals
  <2>3. s \ {x} \notin T /\ s \ {x} \in SUBSET S
    BY <2>1, <2>2
  <2>4. CASE s \ {x} = {}
    <3>1. \A y \in s : y <= x
      BY <2>2, <2>4
    <3> QED BY <2>1, <2>2, <3>1
  <2>5. CASE s \ {x} # {}
    <3>1. PICK m \in s \ {x} : \A y \in s \ {x} : y <= m
      BY <2>3, <2>5
    <3>2. m \in Nat /\ \A y \in s : y \in Nat
      BY <2>1, <3>1 DEF OfNaturals
    <3>3. CASE x <= m
      <4>1. \A y \in s : y <= m
        BY <3>1, <3>3
      <4> QED BY <2>1, <3>1, <4>1
    <3>4. CASE m <= x
      <4>1. \A y \in s : y <= x
        BY <2>2, <3>1, <3>2, <3>4
      <4> QED BY <2>1, <2>2, <4>1
    <3> QED BY <2>2, <3>2, <3>3, <3>4
  <2> QED BY <2>4, <2>5
<1>2. PICK m \in S : \A x \in S : x <= m
  BY <1>1
<1>3. \A x \in S : m >= x
  BY <1>2 DEF OfNaturals
<1>4. Max(S) \in S /\ \A x \in S : Max(S) >= x
  BY <1>3 DEF Max
<1>5. \A x \in S : x \in Nat
  BY DEF OfNaturals
<1> QED BY <1>4, <1>5

----
(* What the invariant says of the properties. *)

LEMMA StockSound ==
  ASSUME StockInv
  PROVE  WarehouseSound
<1>1. MovementsLead
  BY DEF StockInv, Adding, RowOK, Led, MovementsLead
<1>2. CarriedAtCost
  <2> SUFFICES ASSUME NEW k \in Keys, paid[k] # {}
               PROVE  onHand[k].cost \in Min(paid[k])..Max(paid[k])
    BY DEF CarriedAtCost
  <2>1. PICK costs, cost : costs = paid[k] /\ cost = onHand[k].cost
    OBVIOUS
  <2>3. /\ costs \in SUBSET Nat /\ cost \in Nat /\ IsFiniteSet(costs) /\ costs # {}
        /\ \E lo, hi \in costs : lo <= cost /\ cost <= hi
    <3>1. onHand[k] \in StockRow /\ RowOK(onHand[k], moves[k], paid[k]) /\ paid[k] \in SUBSET Nat
      BY DEF StockInv, StockTyped, Adding
    <3> QED BY <2>1, <3>1 DEF StockRow, RowOK, Carried
  <2>4. PICK lo, hi \in costs : lo <= cost /\ cost <= hi
    BY <2>3
  <2>5. Min(costs) \in costs /\ Min(costs) <= lo
    BY <2>3, MinIn
  <2>6. Max(costs) \in costs /\ hi <= Max(costs)
    <3>1. Max(costs) \in costs /\ \A x \in costs : x <= Max(costs)
      BY <2>3, GreatestIn DEF OfNaturals
    <3> QED BY <3>1
  <2>7. Min(costs) \in Nat /\ Max(costs) \in Nat /\ lo \in Nat /\ hi \in Nat
    BY <2>3, <2>5, <2>6
  <2> QED BY <2>1, <2>3, <2>4, <2>5, <2>6, <2>7
<1>3. ShelvesShown
  <2> SUFFICES ASSUME "reshape" \notin desk.kinds
               PROVE  /\ \A k \in Keys :
                           (k[1] \in Native /\ goods[k[1]].active /\ onHand[k].current > 0)
                             => \E shown \in StockOverview : shown.key = k
                      /\ LowStock = {shown.key : shown \in
                                      {s \in StockOverview : s.status \in {"out", "low"}}}
    BY DEF ShelvesShown
  <2>0. \A k \in Keys : k[1] \in Articles /\ k = <<k[1], k[2]>> /\ onHand[k] \in StockRow
                        /\ onHand[k].current \in Nat /\ Unreserved(k) \in Int
    <3>1. \A k \in Keys : onHand[k] \in StockRow
      BY DEF StockInv, StockTyped
    <3> QED BY <3>1, KeyParts DEF StockRow, Unreserved
  <2>1. ASSUME NEW k \in Keys, k[1] \in Native, goods[k[1]].active, onHand[k].current > 0
        PROVE  \E shown \in StockOverview : shown.key = k
    <3>1. onHand[k].row
      BY <2>0, <2>1 DEF StockInv, Adding, RowOK
    <3>2. ~goods[k[1]].split \/ k[2] # NoVariant
      BY <2>0, <2>1 DEF StockInv, Splitting
    <3>3. Listed(k)
      BY <2>1, <3>1, <3>2 DEF Listed
    <3>4. [key |-> k, available |-> Unreserved(k), status |-> StockStatus(Unreserved(k))] \in StockOverview
      BY <3>3 DEF StockOverview
    <3> QED BY <3>4
  <2>2. \A k \in Keys : Unreserved(k) < LowMark <=> StockStatus(Unreserved(k)) \in {"out", "low"}
    BY <2>0, WarehouseAssumption DEF StockStatus
  <2>3. LowStock = {shown.key : shown \in {s \in StockOverview : s.status \in {"out", "low"}}}
    <3>1. ASSUME NEW k \in LowStock
          PROVE  k \in {shown.key : shown \in {s \in StockOverview : s.status \in {"out", "low"}}}
      <4>1. k \in Keys /\ Listed(k) /\ Unreserved(k) < LowMark
        BY <3>1 DEF LowStock
      <4>2. PICK s : s = [key |-> k, available |-> Unreserved(k), status |-> StockStatus(Unreserved(k))]
        OBVIOUS
      <4>3. s \in StockOverview /\ s.key = k /\ s.status \in {"out", "low"}
        BY <2>2, <4>1, <4>2 DEF StockOverview
      <4> QED BY <4>3
    <3>2. ASSUME NEW s \in StockOverview, s.status \in {"out", "low"}
          PROVE  s.key \in LowStock
      <4>1. PICK k \in Keys : /\ Listed(k)
                              /\ s = [key |-> k, available |-> Unreserved(k), status |-> StockStatus(Unreserved(k))]
        BY <3>2 DEF StockOverview
      <4> QED BY <2>2, <3>2, <4>1 DEF LowStock
    <3> QED BY <3>1, <3>2
  <2> QED BY <2>1, <2>3
<1> QED BY <1>1, <1>2, <1>3 DEF StockInv, Placing, WarehouseSound

----
(* The inductive invariant of the recovery centre. *)

States == {"absent", "live", "deleted", "gone"}
FileRow ==
  [model : {ModelOf[e] : e \in Entries}, key : {KeyNumber[e] : e \in Entries},
   from : {DatabaseOf[e] : e \in Entries}, status : {"DELETED", "RESTORED", "PERMANENT"},
   made : Entries]

RowsTyped == entries \in [Entries -> States] /\ archive \in Seq(FileRow)

\* Rows that a behaviour is not about stay absent.
Scoped == \A e \in Entries : e \notin desk.entries => entries[e] = "absent"

\* A record is of a row that has been there.
FileOK(f, d, ent) ==
  /\ f.made \in Entries /\ f.made \in d.entries /\ ent[f.made] # "absent"
  /\ f.model = ModelOf[f.made] /\ f.key = KeyNumber[f.made] /\ f.from = DatabaseOf[f.made]

Filing == \A n \in DOMAIN archive : FileOK(archive[n], desk, entries)

Recalls(f, e) == f.status = "DELETED" /\ f.model = ModelOf[e] /\ f.key = KeyNumber[e]

Recallable ==
  ~desk.overlap /\ "cleanup" \notin desk.kinds /\ ~Twins =>
    \A e \in Entries : FoundAgain(e) /\ entries[e] = "deleted" =>
      \E n \in DOMAIN archive : Recalls(archive[n], e)

OneFile == ~desk.overlap =>
  \A e \in Entries, m, n \in DOMAIN archive :
    Recalls(archive[m], e) /\ Recalls(archive[n], e) => m = n

Namesake(d, e, ent) ==
  /\ ModelOf[d] = "customer" /\ DatabaseOf[d] = DatabaseOf[e] /\ NameOf[d] = NameOf[e]
  /\ ent[d] = "live"

OneName == ~desk.overlap /\ "restore" \notin desk.kinds =>
  \A x, y, e \in Entries :
    ModelOf[e] = "customer" /\ Namesake(x, e, entries) /\ Namesake(y, e, entries) => x = y

TwinsIn(d) ==
  \E x, y \in d.entries : x # y /\ ModelOf[x] = ModelOf[y] /\ KeyNumber[x] = KeyNumber[y]

\* What a request knows: the row that is created has no namesake, the one that is deleted
\* is there and has the record that its step calls for, and the rows of other databases
\* that a restoration or a purge is done with have been changed.
CreatingOK(t, d, ent) == t.step = "create_entry" =>
  /\ t.entry \in Entries /\ t.entry \in d.entries
  /\ ~d.overlap => \A x \in Entries : ~Namesake(x, t.entry, ent)

DeletingOK(t, d, ent, arch) ==
  /\ t.step = "file" => t \in [step : {"file"}, entry : Entries]
  /\ t.step \in {"file", "file_new", "flag"} =>
       t.entry \in Entries /\ t.entry \in d.entries /\ ent[t.entry] # "absent"
  /\ ~d.overlap /\ t.step = "file_new" => \A n \in DOMAIN arch : ~Recalls(arch[n], t.entry)
  /\ ~d.overlap /\ t.step = "flag" => \E n \in DOMAIN arch : Recalls(arch[n], t.entry)

Elsewhere(e) == FoundAgain(e) /\ DatabaseOf[e] # "default"

PickedOK(t, d, ent, arch) == t.step \in {"restore", "purge"} =>
  /\ t.step \in d.kinds
  /\ t \in [step : {"restore", "purge"}, left : SUBSET DOMAIN arch, done : SUBSET DOMAIN arch,
            open : SUBSET DOMAIN arch]
  /\ t.step = "purge" /\ ~(d.overlap /\ TwinsIn(d)) =>
       \A n \in t.done : Elsewhere(arch[n].made) => ent[arch[n].made] = "gone"
  /\ ~d.overlap => \A n \in t.done : Elsewhere(arch[n].made) => ent[arch[n].made] # "deleted"

CleaningOK(t, d, arch) == t.step = "cleanup" =>
  "cleanup" \in d.kinds /\ t \in [step : {"cleanup"}, left : SUBSET DOMAIN arch]

EntryTaskOK(t, d, ent, arch) ==
  CreatingOK(t, d, ent) /\ DeletingOK(t, d, ent, arch) /\ PickedOK(t, d, ent, arch)
  /\ CleaningOK(t, d, arch)

EntryTasking == \A c \in Clerks : EntryTaskOK(task[c], desk, entries, archive)

RecoveryInv ==
  /\ RowsTyped /\ Scoped /\ Filing /\ OnlyTheRowMeant /\ Recallable /\ GoneForGood /\ OneFile /\ OneName
  /\ EntryTasking

EntrySteps == {"create_entry", "file", "file_new", "flag", "restore", "purge", "cleanup"}
StockSteps == {"edit", "adjust", "import_insert"} \union Phases

LEMMA NoEntryTask ==
  ASSUME NEW t, NEW d, NEW ent, NEW arch, t.step \notin EntrySteps
  PROVE  EntryTaskOK(t, d, ent, arch)
BY DEF EntryTaskOK, CreatingOK, DeletingOK, PickedOK, CleaningOK, EntrySteps

LEMMA EntryTaskKept ==
  ASSUME NEW t, NEW d, NEW ent, NEW arch, NEW ent2, NEW arch2, d.overlap,
         EntryTaskOK(t, d, ent, arch),
         \A n \in DOMAIN arch : FileOK(arch[n], d, ent),
         \A e \in Entries : /\ ent[e] # "absent" => ent2[e] # "absent"
                            /\ ent[e] = "gone" => ent2[e] = "gone",
         DOMAIN arch \subseteq DOMAIN arch2,
         ~TwinsIn(d) => \A n \in DOMAIN arch : arch2[n].made = arch[n].made
  PROVE  EntryTaskOK(t, d, ent2, arch2)
<1>1. CreatingOK(t, d, ent2)
  BY DEF EntryTaskOK, CreatingOK
<1>2. DeletingOK(t, d, ent2, arch2)
  BY DEF EntryTaskOK, DeletingOK
<1>3. PickedOK(t, d, ent2, arch2)
  <2> SUFFICES ASSUME t.step \in {"restore", "purge"}
               PROVE  /\ t.step \in d.kinds
                      /\ t \in [step : {"restore", "purge"}, left : SUBSET DOMAIN arch2,
                                done : SUBSET DOMAIN arch2, open : SUBSET DOMAIN arch2]
                      /\ t.step = "purge" /\ ~TwinsIn(d) =>
                           \A n \in t.done : Elsewhere(arch2[n].made) => ent2[arch2[n].made] = "gone"
    BY DEF PickedOK
  <2>1. /\ t.step \in d.kinds
        /\ t \in [step : {"restore", "purge"}, left : SUBSET DOMAIN arch, done : SUBSET DOMAIN arch,
                  open : SUBSET DOMAIN arch]
        /\ t.step = "purge" /\ ~TwinsIn(d) =>
             \A n \in t.done : Elsewhere(arch[n].made) => ent[arch[n].made] = "gone"
    BY DEF EntryTaskOK, PickedOK
  <2>2. t.done \subseteq DOMAIN arch
    BY <2>1
  <2>3. ASSUME ~TwinsIn(d), t.step = "purge", NEW n \in t.done, Elsewhere(arch2[n].made)
        PROVE  ent2[arch2[n].made] = "gone"
    <3>1. arch2[n].made = arch[n].made /\ arch[n].made \in Entries
      BY <2>2, <2>3 DEF FileOK
    <3>2. ent[arch[n].made] = "gone"
      BY <2>1, <2>3, <3>1
    <3> QED BY <3>1, <3>2
  <2>4. t \in [step : {"restore", "purge"}, left : SUBSET DOMAIN arch2, done : SUBSET DOMAIN arch2,
               open : SUBSET DOMAIN arch2]
    BY <2>1
  <2> QED BY <2>1, <2>3, <2>4
<1>4. CleaningOK(t, d, arch2)
  BY DEF EntryTaskOK, CleaningOK
<1> QED BY <1>1, <1>2, <1>3, <1>4 DEF EntryTaskOK

\* The clerk c turns to t; the others know what they knew.
LEMMA EntryTurned ==
  ASSUME StockTyped, RecoveryInv, NEW c \in Clerks, Solitary(c), UNCHANGED desk, NEW t,
         task' = [task EXCEPT ![c] = t],
         EntryTaskOK(t, desk, entries', archive'),
         \A e \in Entries : /\ entries[e] # "absent" => entries'[e] # "absent"
                            /\ entries[e] = "gone" => entries'[e] = "gone",
         DOMAIN archive \subseteq DOMAIN archive',
         ~Twins => \A n \in DOMAIN archive : archive'[n].made = archive[n].made
  PROVE  EntryTasking'
<1>1. task' = [x \in Clerks |-> IF x = c THEN t ELSE task[x]]
  BY DEF StockTyped
<1> SUFFICES ASSUME NEW d \in Clerks PROVE EntryTaskOK(task'[d], desk, entries', archive')
  BY DEF EntryTasking
<1>2. CASE d = c
  BY <1>1, <1>2
<1>3. CASE d # c /\ desk.overlap
  <2>1. task'[d] = task[d] /\ EntryTaskOK(task[d], desk, entries, archive)
    BY <1>1, <1>3 DEF RecoveryInv, EntryTasking
  <2>2. \A n \in DOMAIN archive : FileOK(archive[n], desk, entries)
    BY DEF RecoveryInv, Filing
  <2>3. ~TwinsIn(desk) => ~Twins
    BY DEF Twins, TwinsIn
  <2>4. EntryTaskOK(task[d], desk, entries', archive')
    BY <1>3, <2>1, <2>2, <2>3, EntryTaskKept
  <2> QED BY <2>1, <2>4
<1>4. CASE d # c /\ ~desk.overlap
  <2>1. task'[d] = Free
    BY <1>1, <1>4 DEF Solitary
  <2>2. Free.step \notin EntrySteps
    BY DEF Free, EntrySteps
  <2> QED BY <2>1, <2>2, NoEntryTask
<1> QED BY <1>2, <1>3, <1>4

\* A step that changes neither rows nor records.
LEMMA RowsUntouched ==
  ASSUME StockTyped, RecoveryInv, NEW c \in Clerks, Solitary(c), UNCHANGED <<desk, recoveryVars>>, NEW t,
         task' = [task EXCEPT ![c] = t], EntryTaskOK(t, desk, entries, archive)
  PROVE  RecoveryInv'
<1>1. UNCHANGED <<desk, entries, archive, misled>>
  BY DEF recoveryVars
<1>2. EntryTasking'
  BY <1>1, EntryTurned
<1>3. RowsTyped' /\ Scoped' /\ Filing' /\ OneFile' /\ OneName'
  BY <1>1 DEF RecoveryInv, RowsTyped, Scoped, Filing, OneFile, OneName
<1>4. OnlyTheRowMeant' /\ Recallable' /\ GoneForGood'
  BY <1>1 DEF RecoveryInv, OnlyTheRowMeant, Recallable, GoneForGood, Twins
<1> QED BY <1>2, <1>3, <1>4 DEF RecoveryInv

LEMMA EntryLooksFine ==
  ASSUME StockInv, RecoveryInv, NEW c \in Clerks,
         \/ CreateCheck(c) \/ DeleteEntry(c) \/ FileNone(c) \/ PickFiles(c) \/ PickedFail(c)
         \/ DeletionDies(c) \/ ExpiredRead(c) \/ ExpiredEnd(c)
  PROVE  RecoveryInv'
<1>1. UNCHANGED <<desk, recoveryVars>>
  BY DEF CreateCheck, DeleteEntry, FileThenFlag, FileNone, PickFiles, PickedFail, DeletionDies,
         ExpiredRead, ExpiredEnd, stockroom, recoveryVars
<1>2. Solitary(c) /\ StockTyped
  <2>1. task[c] # Free \/ \E kind : Serves(c, kind)
    <3>1. CASE CreateCheck(c) \/ DeleteEntry(c) \/ PickFiles(c) \/ ExpiredRead(c)
      BY <3>1 DEF CreateCheck, DeleteEntry, PickFiles, ExpiredRead
    <3>2. CASE FileNone(c) \/ PickedFail(c) \/ DeletionDies(c) \/ ExpiredEnd(c)
      <4>1. task[c].step # "free"
        BY <3>2 DEF FileNone, PickedFail, DeletionDies, ExpiredEnd, Stands
      <4> QED BY <4>1 DEF Free
    <3> QED BY <3>1, <3>2
  <2> QED BY <2>1, ServesAlone DEF StockInv
<1>3. EntryTaskOK(task[c], desk, entries, archive)
  BY DEF RecoveryInv, EntryTasking
<1>4. CASE Leaves(c)
  <2>1. EntryTaskOK(Free, desk, entries, archive)
    BY NoEntryTask DEF Free, EntrySteps
  <2> QED BY <1>1, <1>2, <1>4, <2>1, RowsUntouched DEF Leaves, Goes
<1>5. CASE CreateCheck(c)
  <2>1. PICK e \in Entries : /\ e \in desk.entries /\ NameFree(e)
                             /\ Goes(c, [step |-> "create_entry", entry |-> e])
    BY <1>5 DEF CreateCheck
  <2>2. PICK t : t = [step |-> "create_entry", entry |-> e]
    OBVIOUS
  <2>3. t.step = "create_entry" /\ t.entry = e
    BY <2>2
  <2>4. \A x \in Entries : ~Namesake(x, e, entries)
    BY <2>1 DEF NameFree, Namesakes, Namesake
  <2>5. EntryTaskOK(t, desk, entries, archive)
    BY <2>1, <2>3, <2>4 DEF EntryTaskOK, CreatingOK, DeletingOK, PickedOK, CleaningOK
  <2> QED BY <1>1, <1>2, <2>1, <2>2, <2>5, RowsUntouched DEF Goes
<1>6. CASE DeleteEntry(c)
  <2>1. PICK e \in Entries : entries[e] = "live" /\ Goes(c, [step |-> "file", entry |-> e])
    BY <1>6 DEF DeleteEntry, FileThenFlag
  <2>2. PICK t : t = [step |-> "file", entry |-> e]
    OBVIOUS
  <2>3. t.step = "file" /\ t.entry = e /\ t \in [step : {"file"}, entry : Entries]
    BY <2>2
  <2>4. e \in desk.entries
    BY <2>1 DEF RecoveryInv, Scoped
  <2>5. EntryTaskOK(t, desk, entries, archive)
    BY <2>1, <2>3, <2>4 DEF EntryTaskOK, CreatingOK, DeletingOK, PickedOK, CleaningOK
  <2> QED BY <1>1, <1>2, <2>1, <2>2, <2>5, RowsUntouched DEF Goes
<1>7. CASE FileNone(c)
  <2>1. /\ task[c].step = "file" /\ FilesOf(task[c].entry) = {}
        /\ Goes(c, [task[c] EXCEPT !.step = "file_new"])
    BY <1>7 DEF FileNone, Stands
  <2>2. PICK t : t = [task[c] EXCEPT !.step = "file_new"]
    OBVIOUS
  <2>3. task[c] \in [step : {"file"}, entry : Entries] /\ task[c].entry \in desk.entries
        /\ entries[task[c].entry] # "absent"
    BY <1>3, <2>1 DEF EntryTaskOK, DeletingOK
  <2>4. t.step = "file_new" /\ t.entry = task[c].entry /\ t.entry \in Entries
    BY <2>2, <2>3
  <2>5. \A n \in DOMAIN archive : ~Recalls(archive[n], t.entry)
    BY <2>1, <2>4 DEF FilesOf, Recalls
  <2>6. EntryTaskOK(t, desk, entries, archive)
    BY <2>3, <2>4, <2>5 DEF EntryTaskOK, CreatingOK, DeletingOK, PickedOK, CleaningOK
  <2> QED BY <1>1, <1>2, <2>1, <2>2, <2>6, RowsUntouched DEF Goes
<1>8. CASE PickFiles(c)
  <2>1. PICK kind \in {"restore", "purge"}, picked \in (SUBSET DOMAIN archive) \ {{}} :
          /\ kind \in desk.kinds
          /\ Goes(c, [step |-> kind, left |-> picked, done |-> {},
                      open |-> {n \in picked : IsDeleted(n)}])
    BY <1>8 DEF PickFiles, Serves
  <2>2. PICK t, open : /\ t = [step |-> kind, left |-> picked, done |-> {}, open |-> open]
                       /\ open = {n \in picked : IsDeleted(n)}
    OBVIOUS
  <2>3. /\ t.step = kind /\ t.done = {}
        /\ t \in [step : {"restore", "purge"}, left : SUBSET DOMAIN archive,
                  done : SUBSET DOMAIN archive, open : SUBSET DOMAIN archive]
    BY <2>2
  <2>4. EntryTaskOK(t, desk, entries, archive)
    BY <2>1, <2>3 DEF EntryTaskOK, CreatingOK, DeletingOK, PickedOK, CleaningOK
  <2> QED BY <1>1, <1>2, <2>1, <2>2, <2>4, RowsUntouched DEF Goes
<1>9. CASE ExpiredRead(c)
  <2>1. PICK expired \in SUBSET {n \in DOMAIN archive : IsDeleted(n)} :
          "cleanup" \in desk.kinds /\ Goes(c, [step |-> "cleanup", left |-> expired])
    BY <1>9 DEF ExpiredRead, Serves
  <2>2. PICK t : t = [step |-> "cleanup", left |-> expired]
    OBVIOUS
  <2>3. t.step = "cleanup" /\ t \in [step : {"cleanup"}, left : SUBSET DOMAIN archive]
    BY <2>2
  <2>4. EntryTaskOK(t, desk, entries, archive)
    BY <2>1, <2>3 DEF EntryTaskOK, CreatingOK, DeletingOK, PickedOK, CleaningOK
  <2> QED BY <1>1, <1>2, <2>1, <2>2, <2>4, RowsUntouched DEF Goes
<1> QED BY <1>4, <1>5, <1>6, <1>7, <1>8, <1>9 DEF PickedFail, DeletionDies, ExpiredEnd

\* Rows that a request reaches are there, and are its own where the database is the right one.
LEMMA Reached ==
  ASSUME Scoped, NEW model, NEW key, NEW database
  PROVE  /\ RowsAt(model, key, database) \subseteq Entries
         /\ \A r \in RowsAt(model, key, database) :
              /\ entries[r] \in {"live", "deleted"} /\ r \in desk.entries
              /\ ModelOf[r] = model /\ KeyNumber[r] = key /\ DatabaseOf[r] = database
         /\ \A e \in Entries :
              model = ModelOf[e] /\ key = KeyNumber[e] /\ database = DatabaseOf[e] =>
                RowsAt(model, key, database) \subseteq {e}
<1>1. \A r \in RowsAt(model, key, database) :
        /\ r \in Entries /\ entries[r] \in {"live", "deleted"}
        /\ ModelOf[r] = model /\ KeyNumber[r] = key /\ DatabaseOf[r] = database
  BY DEF RowsAt, There
<1>2. \A r \in RowsAt(model, key, database) : r \in desk.entries
  BY <1>1 DEF Scoped
<1>3. \A d, e \in Entries :
        ModelOf[d] = ModelOf[e] /\ DatabaseOf[d] = DatabaseOf[e] /\ KeyNumber[d] = KeyNumber[e] => d = e
  BY RecoveryAssumption
<1> QED BY <1>1, <1>2, <1>3

\* Rows that are there turn to a state other than absent; the records stay.
LEMMA RowsChanged ==
  ASSUME RecoveryInv, UNCHANGED desk, NEW rows \in SUBSET Entries,
         \A r \in rows : entries[r] \in {"live", "deleted"} /\ r \in desk.entries,
         NEW state \in States \ {"absent"},
         entries' = [r \in Entries |-> IF r \in rows THEN state ELSE entries[r]]
  PROVE  /\ entries' \in [Entries -> States]
         /\ Scoped'
         /\ \A e \in Entries : /\ e \in rows => entries'[e] = state
                               /\ e \notin rows => entries'[e] = entries[e]
                               /\ entries[e] # "absent" => entries'[e] # "absent"
                               /\ entries[e] = "gone" => entries'[e] = "gone"
<1>1. entries \in [Entries -> States] /\ Scoped
  BY DEF RecoveryInv, RowsTyped
<1>2. entries' \in [Entries -> States]
  BY <1>1
<1>3. \A e \in Entries : /\ e \in rows => entries'[e] = state
                         /\ e \notin rows => entries'[e] = entries[e]
  OBVIOUS
<1>4. Scoped'
  BY <1>1, <1>3 DEF Scoped
<1> QED BY <1>2, <1>3, <1>4

LEMMA CreateEntryFine ==
  ASSUME StockInv, RecoveryInv, NEW c \in Clerks, CreateEntry(c)
  PROVE  RecoveryInv'
<1>1. PICK e : e = task[c].entry
  OBVIOUS
<1>2. /\ task[c].step = "create_entry" /\ task' = [task EXCEPT ![c] = Free]
      /\ entries' = IF entries[e] = "absent" THEN [entries EXCEPT ![e] = "live"] ELSE entries
      /\ UNCHANGED <<desk, archive, misled>>
  BY <1>1 DEF CreateEntry, Stands, Leaves, Goes, stockroom
<1>3. Solitary(c) /\ StockTyped
  BY <1>2, ServesAlone DEF StockInv, Free
<1>4. /\ e \in Entries /\ e \in desk.entries
      /\ ~desk.overlap => \A x \in Entries : ~Namesake(x, e, entries)
  BY <1>1, <1>2 DEF RecoveryInv, EntryTasking, EntryTaskOK, CreatingOK
<1>5. /\ entries' \in [Entries -> States]
      /\ \A x \in Entries : entries'[x] = IF x = e /\ entries[e] = "absent" THEN "live" ELSE entries[x]
  <2>1. entries \in [Entries -> States]
    BY DEF RecoveryInv, RowsTyped
  <2> QED BY <1>2, <1>4, <2>1 DEF States
<1>6. EntryTasking'
  <2>1. EntryTaskOK(Free, desk, entries', archive')
    BY NoEntryTask DEF Free, EntrySteps
  <2> QED BY <1>2, <1>3, <1>5, <2>1, EntryTurned
<1>7. RowsTyped' /\ Scoped' /\ Filing' /\ OneFile'
  <2>1. RowsTyped' /\ OneFile'
    BY <1>2, <1>5 DEF RecoveryInv, RowsTyped, OneFile
  <2>2. Scoped'
    BY <1>2, <1>4, <1>5 DEF RecoveryInv, Scoped
  <2>3. Filing'
    BY <1>2, <1>5 DEF RecoveryInv, Filing, FileOK
  <2> QED BY <2>1, <2>2, <2>3
<1>8. OnlyTheRowMeant' /\ Recallable'
  BY <1>2, <1>5 DEF RecoveryInv, OnlyTheRowMeant, Recallable, Twins
<1>9. GoneForGood'
  <2>1. \A n \in DOMAIN archive : archive[n].made \in Entries
    BY DEF RecoveryInv, Filing, FileOK
  <2> QED BY <1>2, <1>5, <2>1 DEF RecoveryInv, GoneForGood, Twins
<1>10. OneName'
  <2> SUFFICES ASSUME ~desk.overlap, "restore" \notin desk.kinds,
                      NEW x \in Entries, NEW y \in Entries, NEW z \in Entries, ModelOf[z] = "customer",
                      Namesake(x, z, entries'), Namesake(y, z, entries')
               PROVE  x = y
    BY <1>2 DEF OneName, Namesake
  <2>1. CASE entries'[x] = entries[x] /\ entries'[y] = entries[y]
    BY <2>1 DEF RecoveryInv, OneName, Namesake
  <2>2. CASE entries'[x] # entries[x]
    <3>1. x = e
      BY <1>5, <2>2
    <3>2. y # e => Namesake(y, e, entries)
      BY <1>5, <3>1 DEF Namesake
    <3> QED BY <1>4, <3>1, <3>2
  <2>3. CASE entries'[y] # entries[y]
    <3>1. y = e
      BY <1>5, <2>3
    <3>2. x # e => Namesake(x, e, entries)
      BY <1>5, <3>1 DEF Namesake
    <3> QED BY <1>4, <3>1, <3>2
  <2> QED BY <2>1, <2>2, <2>3
<1> QED BY <1>6, <1>7, <1>8, <1>9, <1>10 DEF RecoveryInv

LEMMA FlagFine ==
  ASSUME StockInv, RecoveryInv, NEW c \in Clerks, FlagEntry(c)
  PROVE  RecoveryInv'
<1>1. PICK e, rows : e = task[c].entry /\ rows = RowsAt(ModelOf[e], KeyNumber[e], SavedIn(e))
  OBVIOUS
<1>2. /\ task[c].step = "flag" /\ task' = [task EXCEPT ![c] = Free]
      /\ entries' = [r \in Entries |-> IF r \in rows THEN "deleted" ELSE entries[r]]
      /\ misled' = misled \union (rows \ {e})
      /\ UNCHANGED <<desk, archive>>
  BY <1>1 DEF FlagEntry, Stands, Leaves, Goes, stockroom, Changes
<1>3. Solitary(c) /\ StockTyped
  BY <1>2, ServesAlone DEF StockInv, Free
<1>4. /\ e \in Entries /\ e \in desk.entries
      /\ ~desk.overlap => \E n \in DOMAIN archive : Recalls(archive[n], e)
  BY <1>1, <1>2 DEF RecoveryInv, EntryTasking, EntryTaskOK, DeletingOK
<1>5. /\ rows \in SUBSET Entries
      /\ \A r \in rows : /\ entries[r] \in {"live", "deleted"} /\ r \in desk.entries
                         /\ ModelOf[r] = ModelOf[e] /\ KeyNumber[r] = KeyNumber[e]
      /\ FoundAgain(e) => rows \subseteq {e}
  BY <1>1, <1>4, Reached DEF RecoveryInv, FoundAgain
<1>6. /\ entries' \in [Entries -> States] /\ Scoped'
      /\ \A x \in Entries : /\ x \in rows => entries'[x] = "deleted"
                            /\ x \notin rows => entries'[x] = entries[x]
                            /\ entries[x] # "absent" => entries'[x] # "absent"
                            /\ entries[x] = "gone" => entries'[x] = "gone"
  <2>1. PICK state \in States \ {"absent"} : state = "deleted"
    BY DEF States
  <2>2. entries' = [r \in Entries |-> IF r \in rows THEN state ELSE entries[r]]
    BY <1>2, <2>1
  <2>3. \A r \in rows : entries[r] \in {"live", "deleted"} /\ r \in desk.entries
    BY <1>5
  <2> QED BY <1>2, <1>5, <2>1, <2>2, <2>3, RowsChanged
<1>7. EntryTasking'
  <2>1. EntryTaskOK(Free, desk, entries', archive')
    BY NoEntryTask DEF Free, EntrySteps
  <2> QED BY <1>2, <1>3, <1>6, <2>1, EntryTurned
<1>8. RowsTyped' /\ Filing' /\ OneFile'
  BY <1>2, <1>6 DEF RecoveryInv, RowsTyped, OneFile, Filing, FileOK
<1>9. OnlyTheRowMeant'
  BY <1>2, <1>4, <1>5 DEF RecoveryInv, OnlyTheRowMeant, Twins
<1>10. Recallable'
  <2> SUFFICES ASSUME ~desk.overlap, "cleanup" \notin desk.kinds, ~Twins,
                      NEW x \in Entries, FoundAgain(x), entries'[x] = "deleted"
               PROVE  \E n \in DOMAIN archive : Recalls(archive[n], x)
    BY <1>2 DEF Recallable, Twins
  <2>1. CASE x \in rows
    BY <1>4, <1>5, <2>1 DEF Recalls
  <2>2. CASE x \notin rows
    BY <1>6, <2>2 DEF RecoveryInv, Recallable
  <2> QED BY <2>1, <2>2
<1>11. GoneForGood'
  <2>1. \A n \in DOMAIN archive : archive[n].made \in Entries
    BY DEF RecoveryInv, Filing, FileOK
  <2> QED BY <1>2, <1>6, <2>1 DEF RecoveryInv, GoneForGood, Twins
<1>12. OneName'
  <2>1. \A x, z \in Entries : Namesake(x, z, entries') => Namesake(x, z, entries)
    BY <1>6 DEF Namesake
  <2> QED BY <1>2, <2>1 DEF RecoveryInv, OneName
<1> QED BY <1>6, <1>7, <1>8, <1>9, <1>10, <1>11, <1>12 DEF RecoveryInv

\* A clerk that has filed e is done, or turns to flagging it.
LEMMA AfterFiled ==
  ASSUME StockInv, RecoveryInv, NEW c \in Clerks, NEW e, e = task[c].entry, e \in Entries, e \in desk.entries,
         entries[e] # "absent", AfterFiling(c), NEW ent, NEW arch, ent = entries,
         \E n \in DOMAIN arch : Recalls(arch[n], e)
  PROVE  \E t : task' = [task EXCEPT ![c] = t] /\ EntryTaskOK(t, desk, ent, arch)
<1>1. CASE Leaves(c)
  <2>1. EntryTaskOK(Free, desk, ent, arch)
    BY NoEntryTask DEF Free, EntrySteps
  <2> QED BY <1>1, <2>1 DEF Leaves, Goes
<1>2. CASE Goes(c, [step |-> "flag", entry |-> e])
  <2>1. PICK t : t = [step |-> "flag", entry |-> e]
    OBVIOUS
  <2>2. t.step = "flag" /\ t.entry = e
    BY <2>1
  <2>3. EntryTaskOK(t, desk, ent, arch)
    BY <2>2 DEF EntryTaskOK, CreatingOK, DeletingOK, PickedOK, CleaningOK
  <2> QED BY <1>2, <2>1, <2>3 DEF Goes
<1> QED BY <1>1, <1>2 DEF AfterFiling

LEMMA FileRowOf ==
  ASSUME NEW e \in Entries
  PROVE  /\ FileFor(e) \in FileRow
         /\ FileFor(e).status = "DELETED" /\ FileFor(e).made = e /\ FileFor(e).from = DatabaseOf[e]
         /\ FileFor(e).model = ModelOf[e] /\ FileFor(e).key = KeyNumber[e]
BY DEF FileFor, FileRow

LEMMA FileAgainFine ==
  ASSUME StockInv, RecoveryInv, NEW c \in Clerks, FileAgain(c)
  PROVE  RecoveryInv'
<1>1. PICK e, m : e = task[c].entry /\ m = Min(FilesOf(e))
  OBVIOUS
<1>2. /\ task[c].step = "file" /\ FilesOf(e) # {}
      /\ archive' = [archive EXCEPT ![m] = FileFor(e)]
      /\ AfterFiling(c) /\ UNCHANGED <<desk, entries, misled>>
  BY <1>1 DEF FileAgain, Stands, stockroom
<1>3. Solitary(c) /\ StockTyped
  BY <1>2, ServesAlone DEF StockInv, Free
<1>4. e \in Entries /\ e \in desk.entries /\ entries[e] # "absent"
  BY <1>1, <1>2 DEF RecoveryInv, EntryTasking, EntryTaskOK, DeletingOK
<1>5. archive \in Seq(FileRow) /\ DOMAIN archive = 1..Len(archive) /\ Len(archive) \in Nat
  BY DEF RecoveryInv, RowsTyped
<1>6. m \in DOMAIN archive /\ Recalls(archive[m], e)
  <2>1. FilesOf(e) \subseteq Nat
    BY <1>5 DEF FilesOf
  <2>2. m \in FilesOf(e)
    BY <1>1, <1>2, <2>1, MinIn
  <2> QED BY <2>2 DEF FilesOf, Recalls
<1>7. PICK file : file = FileFor(e)
  OBVIOUS
<1>8. /\ file \in FileRow /\ file.status = "DELETED" /\ file.made = e /\ file.from = DatabaseOf[e]
      /\ file.model = ModelOf[e] /\ file.key = KeyNumber[e]
  BY <1>4, <1>7, FileRowOf
<1>9. /\ archive' \in Seq(FileRow) /\ DOMAIN archive' = DOMAIN archive
      /\ \A n \in DOMAIN archive : archive'[n] = IF n = m THEN file ELSE archive[n]
  BY <1>2, <1>5, <1>6, <1>7, <1>8
<1>10. \A n \in DOMAIN archive, x \in Entries : Recalls(archive'[n], x) <=> Recalls(archive[n], x)
  BY <1>6, <1>8, <1>9 DEF Recalls
<1>11. EntryTasking'
  <2>1. PICK t : task' = [task EXCEPT ![c] = t] /\ EntryTaskOK(t, desk, entries, archive')
    <3>1. PICK arch : arch = archive' /\ \E n \in DOMAIN arch : Recalls(arch[n], e)
      BY <1>4, <1>6, <1>9, <1>10
    <3> QED BY <1>1, <1>2, <1>4, <3>1, AfterFiled
  <2>2. ~Twins => \A n \in DOMAIN archive : archive'[n].made = archive[n].made
    <3>1. ~Twins => archive[m].made = e
      BY <1>4, <1>6 DEF Twins, Recalls, RecoveryInv, Filing, FileOK
    <3> QED BY <1>8, <1>9, <3>1
  <2> QED BY <1>2, <1>3, <1>9, <2>1, <2>2, EntryTurned
<1>12. RowsTyped' /\ Scoped' /\ OneName'
  BY <1>2, <1>9 DEF RecoveryInv, RowsTyped, Scoped, OneName
<1>13. Filing'
  <2> SUFFICES ASSUME NEW n \in DOMAIN archive PROVE FileOK(archive'[n], desk, entries)
    BY <1>2, <1>9 DEF Filing
  <2>1. CASE n = m
    BY <1>4, <1>8, <1>9, <2>1 DEF FileOK
  <2>2. CASE n # m
    BY <1>9, <2>2 DEF RecoveryInv, Filing
  <2> QED BY <2>1, <2>2
<1>14. OneFile' /\ Recallable'
  BY <1>2, <1>9, <1>10 DEF RecoveryInv, OneFile, Recallable, Twins
<1>15. OnlyTheRowMeant' /\ GoneForGood'
  BY <1>2, <1>8, <1>9 DEF RecoveryInv, OnlyTheRowMeant, GoneForGood, Twins
<1> QED BY <1>11, <1>12, <1>13, <1>14, <1>15 DEF RecoveryInv

LEMMA FileNewFine ==
  ASSUME StockInv, RecoveryInv, NEW c \in Clerks, FileNew(c)
  PROVE  RecoveryInv'
<1>1. PICK e, file : e = task[c].entry /\ file = FileFor(e)
  OBVIOUS
<1>2. /\ task[c].step = "file_new" /\ archive' = Append(archive, file)
      /\ AfterFiling(c) /\ UNCHANGED <<desk, entries, misled>>
  BY <1>1 DEF FileNew, Stands, stockroom
<1>3. Solitary(c) /\ StockTyped
  BY <1>2, ServesAlone DEF StockInv, Free
<1>4. /\ e \in Entries /\ e \in desk.entries /\ entries[e] # "absent"
      /\ ~desk.overlap => \A n \in DOMAIN archive : ~Recalls(archive[n], e)
  BY <1>1, <1>2 DEF RecoveryInv, EntryTasking, EntryTaskOK, DeletingOK
<1>5. archive \in Seq(FileRow) /\ DOMAIN archive = 1..Len(archive) /\ Len(archive) \in Nat
  BY DEF RecoveryInv, RowsTyped
<1>6. PICK m : m = Len(archive) + 1
  OBVIOUS
<1>7. /\ file \in FileRow /\ file.status = "DELETED" /\ file.made = e /\ file.from = DatabaseOf[e]
      /\ file.model = ModelOf[e] /\ file.key = KeyNumber[e]
  BY <1>1, <1>4, FileRowOf
<1>8. /\ archive' \in Seq(FileRow) /\ DOMAIN archive' = DOMAIN archive \union {m}
      /\ m \notin DOMAIN archive /\ archive'[m] = file
      /\ \A n \in DOMAIN archive : archive'[n] = archive[n]
  BY <1>2, <1>5, <1>6, <1>7
<1>9. \A x \in Entries : Recalls(file, x) <=> (ModelOf[x] = ModelOf[e] /\ KeyNumber[x] = KeyNumber[e])
  BY <1>7 DEF Recalls
<1>10. EntryTasking'
  <2>1. PICK t : task' = [task EXCEPT ![c] = t] /\ EntryTaskOK(t, desk, entries, archive')
    <3>1. PICK arch : arch = archive' /\ \E n \in DOMAIN arch : Recalls(arch[n], e)
      BY <1>4, <1>8, <1>9
    <3> QED BY <1>1, <1>2, <1>4, <3>1, AfterFiled
  <2> QED BY <1>2, <1>3, <1>8, <2>1, EntryTurned
<1>11. RowsTyped' /\ Scoped' /\ OneName'
  BY <1>2, <1>8 DEF RecoveryInv, RowsTyped, Scoped, OneName
<1>12. Filing'
  <2> SUFFICES ASSUME NEW n \in DOMAIN archive' PROVE FileOK(archive'[n], desk, entries)
    BY <1>2 DEF Filing
  <2>1. CASE n = m
    BY <1>4, <1>7, <1>8, <2>1 DEF FileOK
  <2>2. CASE n # m
    BY <1>8, <2>2 DEF RecoveryInv, Filing
  <2> QED BY <2>1, <2>2
<1>13. Recallable'
  BY <1>2, <1>8 DEF RecoveryInv, Recallable, Twins
<1>14. OneFile'
  <2> SUFFICES ASSUME ~desk.overlap, NEW x \in Entries, NEW i \in DOMAIN archive', NEW j \in DOMAIN archive',
                      Recalls(archive'[i], x), Recalls(archive'[j], x)
               PROVE  i = j
    BY <1>2 DEF OneFile
  <2>1. ASSUME Recalls(file, x) PROVE \A n \in DOMAIN archive : ~Recalls(archive[n], x)
    BY <1>4, <1>9, <2>1 DEF Recalls
  <2> QED BY <1>8, <2>1 DEF RecoveryInv, OneFile
<1>15. OnlyTheRowMeant' /\ GoneForGood'
  BY <1>2, <1>7, <1>8 DEF RecoveryInv, OnlyTheRowMeant, GoneForGood, Twins
<1> QED BY <1>10, <1>11, <1>12, <1>13, <1>14, <1>15 DEF RecoveryInv

\* The rows that a record is sought at are the row it was made of, where they can be.
LEMMA Sought ==
  ASSUME RecoveryInv, NEW n \in DOMAIN archive, NEW e, e = archive[n].made
  PROVE  /\ e \in Entries /\ e \in desk.entries /\ entries[e] # "absent"
         /\ SoughtRows(n) \subseteq Entries
         /\ \A r \in SoughtRows(n) :
              /\ entries[r] \in {"live", "deleted"} /\ r \in desk.entries
              /\ ModelOf[r] = ModelOf[e] /\ KeyNumber[r] = KeyNumber[e]
         /\ FoundAgain(e) => SoughtRows(n) \subseteq {e}
         /\ FoundAgain(e) => e \in SoughtRows(n) \/ entries[e] = "gone"
<1>1. FileOK(archive[n], desk, entries) /\ Scoped /\ entries \in [Entries -> States]
  BY DEF RecoveryInv, Filing, RowsTyped
<1>2. /\ e \in Entries /\ e \in desk.entries /\ entries[e] # "absent"
      /\ archive[n].model = ModelOf[e] /\ archive[n].key = KeyNumber[e] /\ archive[n].from = DatabaseOf[e]
  BY <1>1 DEF FileOK
<1>3. FoundAgain(e) => SoughtIn(archive[n]) = DatabaseOf[e]
  BY <1>2 DEF FoundAgain, SoughtIn, SavedIn
<1>4. PICK place : place = SoughtIn(archive[n]) /\ SoughtRows(n) = RowsAt(ModelOf[e], KeyNumber[e], place)
  BY <1>2 DEF SoughtRows
<1>5. /\ SoughtRows(n) \subseteq Entries
      /\ \A r \in SoughtRows(n) :
           /\ entries[r] \in {"live", "deleted"} /\ r \in desk.entries
           /\ ModelOf[r] = ModelOf[e] /\ KeyNumber[r] = KeyNumber[e]
  BY <1>1, <1>4, Reached
<1>6. FoundAgain(e) => SoughtRows(n) \subseteq {e}
  BY <1>1, <1>2, <1>3, <1>4, Reached
<1>7. FoundAgain(e) => e \in SoughtRows(n) \/ entries[e] = "gone"
  BY <1>1, <1>2, <1>3, <1>4 DEF RowsAt, There, States
<1> QED BY <1>2, <1>5, <1>6, <1>7

LEMMA PickedRowFine ==
  ASSUME StockInv, RecoveryInv, NEW c \in Clerks, RestoreRow(c) \/ PurgeRow(c)
  PROVE  RecoveryInv'
<1>1. PICK t, n, e, rows, state :
        /\ t = task[c] /\ n = Min(t.left) /\ e = archive[n].made /\ rows = Commits(SoughtRows(n))
        /\ state = IF t.step = "restore" THEN "live" ELSE "gone"
  OBVIOUS
<1>2. /\ t.step \in {"restore", "purge"} /\ t.left # {}
      /\ entries' = [r \in Entries |-> IF r \in rows THEN state ELSE entries[r]]
      /\ misled' = misled \union (rows \ {e})
      /\ task' = [task EXCEPT ![c] = [t EXCEPT !.left = @ \ {n}, !.done = @ \union {n}]]
      /\ UNCHANGED <<desk, archive>>
  BY <1>1 DEF RestoreRow, PurgeRow, Stands, FileDone, Goes, NextFile, stockroom, Changes
<1>3. Solitary(c) /\ StockTyped
  BY <1>1, <1>2, ServesAlone DEF StockInv, Free
<1>4. EntryTaskOK(t, desk, entries, archive)
  BY <1>1 DEF RecoveryInv, EntryTasking
<1>5. PickedOK(t, desk, entries, archive)
  BY <1>4 DEF EntryTaskOK
<1>6. /\ t.step \in desk.kinds
      /\ t \in [step : {"restore", "purge"}, left : SUBSET DOMAIN archive, done : SUBSET DOMAIN archive,
                open : SUBSET DOMAIN archive]
  BY <1>2, <1>5 DEF PickedOK
<1>7. n \in t.left /\ n \in DOMAIN archive
  <2>1. DOMAIN archive \subseteq Nat
    BY DEF RecoveryInv, RowsTyped
  <2>2. t.left \subseteq DOMAIN archive
    BY <1>6
  <2> QED BY <1>1, <1>2, <2>1, <2>2, MinIn
<1>8. /\ e \in Entries /\ e \in desk.entries /\ entries[e] # "absent"
      /\ SoughtRows(n) \subseteq Entries
      /\ \A r \in SoughtRows(n) : entries[r] \in {"live", "deleted"} /\ r \in desk.entries
      /\ FoundAgain(e) => SoughtRows(n) \subseteq {e}
      /\ FoundAgain(e) => e \in SoughtRows(n) \/ entries[e] = "gone"
  BY <1>1, <1>7, Sought
<1>9. rows \in SUBSET Entries /\ rows \subseteq SoughtRows(n)
      /\ \A r \in rows : entries[r] \in {"live", "deleted"} /\ r \in desk.entries
  BY <1>1, <1>8 DEF Commits
<1>10. state \in States \ {"absent"} /\ state # "deleted" /\ (t.step = "purge" => state = "gone")
  BY <1>1, <1>2 DEF States
<1>11. /\ entries' \in [Entries -> States] /\ Scoped'
       /\ \A x \in Entries : /\ x \in rows => entries'[x] = state
                             /\ x \notin rows => entries'[x] = entries[x]
                             /\ entries[x] # "absent" => entries'[x] # "absent"
                             /\ entries[x] = "gone" => entries'[x] = "gone"
  BY <1>2, <1>9, <1>10, RowsChanged
<1>12. PICK u : u = [t EXCEPT !.left = @ \ {n}, !.done = @ \union {n}]
  OBVIOUS
<1>13. /\ u.step = t.step /\ u.done = t.done \union {n}
       /\ u \in [step : {"restore", "purge"}, left : SUBSET DOMAIN archive, done : SUBSET DOMAIN archive,
                 open : SUBSET DOMAIN archive]
  BY <1>6, <1>7, <1>12
<1>14. Elsewhere(e) => /\ entries'[e] # "deleted"
                       /\ t.step = "purge" => entries'[e] = "gone"
  <2>1. Elsewhere(e) => e \in rows \/ entries[e] = "gone"
    BY <1>1, <1>8 DEF Elsewhere, Commits
  <2> QED BY <1>8, <1>10, <1>11, <2>1
<1>15. EntryTaskOK(u, desk, entries', archive')
  <2>1. ASSUME u.step = "purge", ~(desk.overlap /\ TwinsIn(desk)), NEW k \in u.done,
               Elsewhere(archive[k].made)
        PROVE  entries'[archive[k].made] = "gone"
    <3>1. CASE k = n
      BY <1>1, <1>13, <1>14, <2>1, <3>1
    <3>2. CASE k # n
      <4>1. k \in t.done /\ k \in DOMAIN archive
        BY <1>6, <1>13, <2>1, <3>2
      <4>2. archive[k].made \in Entries
        BY <4>1 DEF RecoveryInv, Filing, FileOK
      <4>3. entries[archive[k].made] = "gone"
        BY <1>5, <1>13, <2>1, <4>1 DEF PickedOK
      <4> QED BY <1>11, <4>2, <4>3
    <3> QED BY <3>1, <3>2
  <2>2. ASSUME ~desk.overlap, NEW k \in u.done, Elsewhere(archive[k].made)
        PROVE  entries'[archive[k].made] # "deleted"
    <3>1. CASE k = n
      BY <1>1, <1>14, <2>2, <3>1
    <3>2. CASE k # n
      <4>1. k \in t.done /\ k \in DOMAIN archive
        BY <1>6, <1>13, <2>2, <3>2
      <4>2. archive[k].made \in Entries
        BY <4>1 DEF RecoveryInv, Filing, FileOK
      <4>3. entries[archive[k].made] # "deleted"
        BY <1>2, <1>5, <2>2, <4>1 DEF PickedOK
      <4> QED BY <1>10, <1>11, <4>2, <4>3
    <3> QED BY <3>1, <3>2
  <2>3. PickedOK(u, desk, entries', archive')
    BY <1>2, <1>6, <1>13, <2>1, <2>2 DEF PickedOK
  <2>4. u.step \notin {"create_entry", "file", "file_new", "flag", "cleanup"}
    BY <1>2, <1>13
  <2> QED BY <2>3, <2>4 DEF EntryTaskOK, CreatingOK, DeletingOK, CleaningOK
<1>16. EntryTasking'
  BY <1>2, <1>3, <1>11, <1>12, <1>15, EntryTurned
<1>17. RowsTyped' /\ Filing' /\ OneFile'
  BY <1>2, <1>11 DEF RecoveryInv, RowsTyped, OneFile, Filing, FileOK
<1>18. OnlyTheRowMeant'
  <2>1. FoundAgain(e) => misled' = misled
    BY <1>2, <1>8, <1>9
  <2> QED BY <1>2, <1>8, <2>1 DEF RecoveryInv, OnlyTheRowMeant, Twins
<1>19. Recallable'
  <2>1. \A x \in Entries : entries'[x] = "deleted" => entries[x] = "deleted"
    BY <1>10, <1>11
  <2> QED BY <1>2, <2>1 DEF RecoveryInv, Recallable, Twins
<1>20. GoneForGood'
  <2>1. \A k \in DOMAIN archive : archive[k].made \in Entries
    BY DEF RecoveryInv, Filing, FileOK
  <2> QED BY <1>2, <1>11, <2>1 DEF RecoveryInv, GoneForGood, Twins
<1>21. OneName'
  <2>1. CASE t.step = "restore"
    BY <1>2, <1>6, <2>1 DEF OneName
  <2>2. CASE t.step = "purge"
    <3>1. \A x, z \in Entries : Namesake(x, z, entries') => Namesake(x, z, entries)
      BY <1>10, <1>11, <2>2 DEF Namesake
    <3> QED BY <1>2, <3>1 DEF RecoveryInv, OneName
  <2> QED BY <1>2, <2>1, <2>2
<1> QED BY <1>11, <1>16, <1>17, <1>18, <1>19, <1>20, <1>21 DEF RecoveryInv

LEMMA CommitPickedFine ==
  ASSUME StockInv, RecoveryInv, NEW c \in Clerks, PickedCommit(c)
  PROVE  RecoveryInv'
<1>1. PICK t, done, state, status :
        /\ t = task[c] /\ done = t.done
        /\ state = (IF t.step = "restore" THEN "live" ELSE "gone")
        /\ status = (IF t.step = "restore" THEN "RESTORED" ELSE "PERMANENT")
  OBVIOUS
<1>2. PICK Shared : Shared = [n \in done |-> {e \in SoughtRows(n) : DatabaseOf[e] = "default"}]
  OBVIOUS
<1>3. PICK rows : rows = {e \in Entries : \E n \in done : e \in Shared[n]}
  OBVIOUS
<1>4. /\ t.step \in {"restore", "purge"}
      /\ archive' = [n \in DOMAIN archive |->
           IF n \in done THEN [archive[n] EXCEPT !.status = status] ELSE archive[n]]
      /\ entries' = [e \in Entries |-> IF e \in rows THEN state ELSE entries[e]]
      /\ misled' = misled \union UNION {Shared[n] \ {archive[n].made} : n \in done}
      /\ task' = [task EXCEPT ![c] = Free]
      /\ UNCHANGED desk
  <2>1. \A n \in done : Shared[n] = {e \in SoughtRows(n) : DatabaseOf[e] = "default"}
    BY <1>2
  <2>2. /\ task[c].step \in {"restore", "purge"}
        /\ archive' = [n \in DOMAIN archive |->
             IF n \in task[c].done
             THEN [archive[n] EXCEPT !.status = IF task[c].step = "restore" THEN "RESTORED" ELSE "PERMANENT"]
             ELSE archive[n]]
        /\ entries' = [e \in Entries |->
             IF \E n \in task[c].done : e \in {x \in SoughtRows(n) : DatabaseOf[x] = "default"}
             THEN (IF task[c].step = "restore" THEN "live" ELSE "gone")
             ELSE entries[e]]
        /\ misled' = misled \union UNION {{x \in SoughtRows(n) : DatabaseOf[x] = "default"}
                                             \ {archive[n].made} : n \in task[c].done}
        /\ Leaves(c) /\ UNCHANGED stockroom
    BY DEF PickedCommit
  <2>3. entries' = [e \in Entries |-> IF e \in rows THEN state ELSE entries[e]]
    BY <1>1, <1>3, <2>1, <2>2
  <2>4. misled' = misled \union UNION {Shared[n] \ {archive[n].made} : n \in done}
    BY <1>1, <2>1, <2>2
  <2> QED BY <1>1, <2>2, <2>3, <2>4 DEF Leaves, Goes, stockroom
<1>5. Solitary(c) /\ StockTyped
  BY <1>1, <1>4, ServesAlone DEF StockInv, Free
<1>6. PickedOK(t, desk, entries, archive)
  BY <1>1 DEF RecoveryInv, EntryTasking, EntryTaskOK
<1>7. t.step \in desk.kinds /\ done \subseteq DOMAIN archive
  BY <1>1, <1>4, <1>6 DEF PickedOK
<1>8. ASSUME NEW n \in done, NEW e, e = archive[n].made
      PROVE  /\ e \in Entries /\ e \in desk.entries /\ entries[e] # "absent"
             /\ Shared[n] \subseteq Entries
             /\ \A r \in Shared[n] : entries[r] \in {"live", "deleted"} /\ r \in desk.entries
             /\ FoundAgain(e) => Shared[n] \subseteq {e}
             /\ FoundAgain(e) => e \in Shared[n] \/ entries[e] = "gone" \/ Elsewhere(e)
  <2>1. n \in DOMAIN archive
    BY <1>7
  <2>2. /\ e \in Entries /\ e \in desk.entries /\ entries[e] # "absent"
        /\ SoughtRows(n) \subseteq Entries
        /\ \A r \in SoughtRows(n) : entries[r] \in {"live", "deleted"} /\ r \in desk.entries
        /\ FoundAgain(e) => SoughtRows(n) \subseteq {e}
        /\ FoundAgain(e) => e \in SoughtRows(n) \/ entries[e] = "gone"
    BY <1>8, <2>1, Sought
  <2>3. Shared[n] = {x \in SoughtRows(n) : DatabaseOf[x] = "default"}
    BY <1>2
  <2> QED BY <2>2, <2>3 DEF Elsewhere
<1>9. rows \in SUBSET Entries
      /\ \A r \in rows : entries[r] \in {"live", "deleted"} /\ r \in desk.entries
  BY <1>3, <1>8
<1>10. state \in States \ {"absent"} /\ state # "deleted" /\ (t.step = "purge" => state = "gone")
  BY <1>1, <1>4 DEF States
<1>11. /\ entries' \in [Entries -> States] /\ Scoped'
       /\ \A x \in Entries : /\ x \in rows => entries'[x] = state
                             /\ x \notin rows => entries'[x] = entries[x]
                             /\ entries[x] # "absent" => entries'[x] # "absent"
                             /\ entries[x] = "gone" => entries'[x] = "gone"
  BY <1>4, <1>9, <1>10, RowsChanged
<1>12. /\ archive \in Seq(FileRow) /\ DOMAIN archive = 1..Len(archive) /\ Len(archive) \in Nat
       /\ \A n \in DOMAIN archive : archive[n] \in FileRow
  BY DEF RecoveryInv, RowsTyped
<1>13. ASSUME NEW n \in DOMAIN archive
       PROVE  /\ archive'[n] \in FileRow
              /\ archive'[n].model = archive[n].model /\ archive'[n].key = archive[n].key
              /\ archive'[n].from = archive[n].from /\ archive'[n].made = archive[n].made
              /\ archive'[n].status = IF n \in done THEN status ELSE archive[n].status
  <2>1. PICK f : f = archive[n] /\ f \in FileRow
    BY <1>12
  <2>2. archive'[n] = IF n \in done THEN [f EXCEPT !.status = status] ELSE f
    BY <1>4, <2>1
  <2>3. status \in {"DELETED", "RESTORED", "PERMANENT"}
    BY <1>1
  <2> QED BY <2>1, <2>2, <2>3 DEF FileRow
<1>14. archive' \in Seq(FileRow) /\ DOMAIN archive' = DOMAIN archive
  <2>1. archive' = [n \in 1..Len(archive) |-> archive'[n]]
    BY <1>4, <1>12
  <2> QED BY <1>12, <1>13, <2>1
<1>15. status # "DELETED"
  BY <1>1
<1>16. EntryTasking'
  <2>1. EntryTaskOK(Free, desk, entries', archive')
    BY NoEntryTask DEF Free, EntrySteps
  <2> QED BY <1>4, <1>5, <1>11, <1>13, <1>14, <2>1, EntryTurned
<1>17. RowsTyped' /\ Filing'
  <2>1. RowsTyped'
    BY <1>11, <1>14 DEF RowsTyped
  <2>2. Filing'
    BY <1>4, <1>11, <1>13, <1>14 DEF RecoveryInv, Filing, FileOK
  <2> QED BY <2>1, <2>2
<1>18. \A n \in DOMAIN archive, x \in Entries :
         Recalls(archive'[n], x) <=> (Recalls(archive[n], x) /\ n \notin done)
  BY <1>13, <1>15 DEF Recalls
<1>19. OneFile'
  BY <1>4, <1>14, <1>18 DEF RecoveryInv, OneFile
<1>20. OnlyTheRowMeant'
  <2> SUFFICES ASSUME \A e \in desk.entries : FoundAgain(e), ~("cleanup" \in desk.kinds /\ Twins)
               PROVE  misled' = {}
    BY <1>4 DEF OnlyTheRowMeant, Twins
  <2>1. \A n \in done : Shared[n] \ {archive[n].made} = {}
    BY <1>8
  <2>2. misled = {}
    BY DEF RecoveryInv, OnlyTheRowMeant
  <2> QED BY <1>4, <2>1, <2>2
<1>21. Recallable'
  <2> SUFFICES ASSUME ~desk.overlap, "cleanup" \notin desk.kinds, ~Twins,
                      NEW x \in Entries, FoundAgain(x), entries'[x] = "deleted"
               PROVE  \E n \in DOMAIN archive : Recalls(archive'[n], x)
    BY <1>4, <1>14 DEF Recallable, Twins
  <2>1. x \notin rows /\ entries[x] = "deleted"
    BY <1>10, <1>11
  <2>2. PICK n \in DOMAIN archive : Recalls(archive[n], x)
    BY <2>1 DEF RecoveryInv, Recallable
  <2>3. ASSUME n \in done PROVE FALSE
    <3>1. PICK e : e = archive[n].made
      OBVIOUS
    <3>2. e \in Entries /\ e \in desk.entries
          /\ (FoundAgain(e) => e \in Shared[n] \/ entries[e] = "gone" \/ Elsewhere(e))
      BY <1>8, <2>3, <3>1
    <3>3. ModelOf[e] = ModelOf[x] /\ KeyNumber[e] = KeyNumber[x]
      BY <2>2, <3>1 DEF Recalls, RecoveryInv, Filing, FileOK
    <3>4. x \in desk.entries
      BY <2>1 DEF RecoveryInv, Scoped
    <3>5. e = x
      BY <3>2, <3>3, <3>4 DEF Twins
    <3>6. Elsewhere(x) => entries[x] # "deleted"
      BY <1>1, <1>4, <1>6, <2>3, <3>1, <3>5 DEF PickedOK
    <3>7. x \in Shared[n]
      BY <2>1, <3>2, <3>5, <3>6
    <3> QED BY <1>3, <2>1, <2>3, <3>7
  <2> QED BY <1>18, <2>2, <2>3
<1>22. GoneForGood'
  <2> SUFFICES ASSUME "cleanup" \notin desk.kinds, ~(desk.overlap /\ Twins),
                      NEW n \in DOMAIN archive, archive'[n].status = "PERMANENT",
                      NEW e, e = archive[n].made, FoundAgain(e)
               PROVE  entries'[e] = "gone"
    BY <1>4, <1>13, <1>14 DEF GoneForGood, Twins
  <2>1. e \in Entries
    BY DEF RecoveryInv, Filing, FileOK
  <2>2. CASE n \notin done
    <3>1. entries[e] = "gone"
      BY <1>13, <2>2 DEF RecoveryInv, GoneForGood
    <3> QED BY <1>11, <2>1, <3>1
  <2>3. CASE n \in done
    <3>1. t.step = "purge"
      BY <1>1, <1>4, <1>13, <2>3
    <3>2. e \in Shared[n] \/ entries[e] = "gone" \/ Elsewhere(e)
      BY <1>8, <2>3
    <3>3. Elsewhere(e) => entries[e] = "gone"
      BY <1>1, <1>6, <2>3, <3>1 DEF PickedOK, TwinsIn, Twins
    <3>4. e \in rows \/ entries[e] = "gone"
      BY <1>3, <2>1, <2>3, <3>2, <3>3
    <3> QED BY <1>10, <1>11, <2>1, <3>1, <3>4
  <2> QED BY <2>2, <2>3
<1>23. OneName'
  <2>1. CASE t.step = "restore"
    BY <1>4, <1>7, <2>1 DEF OneName
  <2>2. CASE t.step = "purge"
    <3>1. \A x, z \in Entries : Namesake(x, z, entries') => Namesake(x, z, entries)
      BY <1>10, <1>11, <2>2 DEF Namesake
    <3> QED BY <1>4, <3>1 DEF RecoveryInv, OneName
  <2> QED BY <1>4, <2>1, <2>2
<1> QED BY <1>11, <1>16, <1>17, <1>19, <1>20, <1>21, <1>22, <1>23 DEF RecoveryInv

LEMMA ExpiredFine ==
  ASSUME StockInv, RecoveryInv, NEW c \in Clerks, ExpiredPurge(c)
  PROVE  RecoveryInv'
<1>1. PICK t, n, e, rows, u :
        /\ t = task[c] /\ n = Min(t.left) /\ e = archive[n].made
        /\ rows = RowsAt(archive[n].model, archive[n].key, "default")
        /\ u = [t EXCEPT !.left = @ \ {n}]
  OBVIOUS
<1>2. /\ t.step = "cleanup" /\ t.left # {}
      /\ \/ /\ entries' = [r \in Entries |-> IF r \in rows THEN "gone" ELSE entries[r]]
            /\ misled' = misled \union (rows \ {e})
            /\ archive' = [archive EXCEPT ![n].status = "PERMANENT"]
         \/ UNCHANGED recoveryVars
      /\ task' = [task EXCEPT ![c] = u]
      /\ UNCHANGED desk
  BY <1>1 DEF ExpiredPurge, Stands, Goes, NextFile, stockroom, Changes
<1>3. Solitary(c) /\ StockTyped
  BY <1>1, <1>2, ServesAlone DEF StockInv, Free
<1>4. "cleanup" \in desk.kinds /\ t \in [step : {"cleanup"}, left : SUBSET DOMAIN archive]
  BY <1>1, <1>2 DEF RecoveryInv, EntryTasking, EntryTaskOK, CleaningOK
<1>5. /\ archive \in Seq(FileRow) /\ DOMAIN archive = 1..Len(archive) /\ Len(archive) \in Nat
      /\ \A k \in DOMAIN archive : archive[k] \in FileRow
  BY DEF RecoveryInv, RowsTyped
<1>6. n \in DOMAIN archive
  <2>1. t.left \subseteq DOMAIN archive /\ DOMAIN archive \subseteq Nat
    BY <1>4, <1>5
  <2> QED BY <1>1, <1>2, <2>1, MinIn
<1>7. u.step = "cleanup" /\ u \in [step : {"cleanup"}, left : SUBSET DOMAIN archive]
  BY <1>1, <1>2, <1>4
<1>8. CASE UNCHANGED recoveryVars
  <2>1. EntryTaskOK(u, desk, entries, archive)
    BY <1>4, <1>7 DEF EntryTaskOK, CreatingOK, DeletingOK, PickedOK, CleaningOK
  <2> QED BY <1>2, <1>3, <1>8, <2>1, RowsUntouched
<1>9. CASE /\ entries' = [r \in Entries |-> IF r \in rows THEN "gone" ELSE entries[r]]
           /\ misled' = misled \union (rows \ {e})
           /\ archive' = [archive EXCEPT ![n].status = "PERMANENT"]
  <2>1. FileOK(archive[n], desk, entries)
    BY <1>6 DEF RecoveryInv, Filing
  <2>2. /\ rows \in SUBSET Entries
        /\ \A r \in rows : /\ entries[r] \in {"live", "deleted"} /\ r \in desk.entries
                           /\ ModelOf[r] = ModelOf[e] /\ KeyNumber[r] = KeyNumber[e]
    <3>1. archive[n].model = ModelOf[e] /\ archive[n].key = KeyNumber[e]
      BY <1>1, <2>1 DEF FileOK
    <3>2. Scoped
      BY DEF RecoveryInv
    <3>3. /\ RowsAt(archive[n].model, archive[n].key, "default") \subseteq Entries
          /\ \A r \in RowsAt(archive[n].model, archive[n].key, "default") :
               /\ entries[r] \in {"live", "deleted"} /\ r \in desk.entries
               /\ ModelOf[r] = archive[n].model /\ KeyNumber[r] = archive[n].key
      BY <3>2, Reached
    <3> QED BY <1>1, <3>1, <3>3
  <2>3. /\ entries' \in [Entries -> States] /\ Scoped'
        /\ \A x \in Entries : /\ x \in rows => entries'[x] = "gone"
                              /\ x \notin rows => entries'[x] = entries[x]
                              /\ entries[x] # "absent" => entries'[x] # "absent"
                              /\ entries[x] = "gone" => entries'[x] = "gone"
    <3>1. PICK state \in States \ {"absent"} : state = "gone"
      BY DEF States
    <3>2. entries' = [r \in Entries |-> IF r \in rows THEN state ELSE entries[r]]
      BY <1>9, <3>1
    <3>3. \A r \in rows : entries[r] \in {"live", "deleted"} /\ r \in desk.entries
      BY <2>2
    <3> QED BY <1>2, <2>2, <3>1, <3>2, <3>3, RowsChanged
  <2>4. /\ archive' \in Seq(FileRow) /\ DOMAIN archive' = DOMAIN archive
        /\ \A k \in DOMAIN archive :
             /\ archive'[k].model = archive[k].model /\ archive'[k].key = archive[k].key
             /\ archive'[k].from = archive[k].from /\ archive'[k].made = archive[k].made
             /\ archive'[k].status = IF k = n THEN "PERMANENT" ELSE archive[k].status
    <3>1. PICK f, g : f = archive[n] /\ g = [f EXCEPT !.status = "PERMANENT"]
      OBVIOUS
    <3>2. f \in FileRow /\ archive' = [archive EXCEPT ![n] = g]
      BY <1>5, <1>6, <1>9, <3>1
    <3>3. g \in FileRow /\ g.model = f.model /\ g.key = f.key /\ g.from = f.from /\ g.made = f.made
          /\ g.status = "PERMANENT"
      BY <3>1, <3>2 DEF FileRow
    <3>4. archive' \in Seq(FileRow) /\ DOMAIN archive' = DOMAIN archive
      BY <1>5, <1>6, <3>2, <3>3
    <3>5. \A k \in DOMAIN archive : archive'[k] = IF k = n THEN g ELSE archive[k]
      BY <1>5, <1>6, <3>2
    <3> QED BY <3>1, <3>3, <3>4, <3>5
  <2>5. EntryTasking'
    <3>1. EntryTaskOK(u, desk, entries', archive')
      BY <1>4, <1>7, <2>4 DEF EntryTaskOK, CreatingOK, DeletingOK, PickedOK, CleaningOK
    <3> QED BY <1>2, <1>3, <2>3, <2>4, <3>1, EntryTurned
  <2>6. RowsTyped' /\ Filing'
    <3>1. RowsTyped'
      BY <2>3, <2>4 DEF RowsTyped
    <3>2. Filing'
      BY <1>2, <2>3, <2>4 DEF RecoveryInv, Filing, FileOK
    <3> QED BY <3>1, <3>2
  <2>7. \A k \in DOMAIN archive, x \in Entries : Recalls(archive'[k], x) => Recalls(archive[k], x)
    BY <2>4 DEF Recalls
  <2>8. OneFile' /\ Recallable' /\ GoneForGood'
    BY <1>2, <1>4, <2>4, <2>7 DEF RecoveryInv, OneFile, Recallable, GoneForGood
  <2>9. OnlyTheRowMeant'
    <3>1. ~Twins => rows \subseteq {e}
      BY <1>1, <2>1, <2>2 DEF FileOK, Twins
    <3> QED BY <1>2, <1>4, <1>9, <3>1 DEF RecoveryInv, OnlyTheRowMeant, Twins
  <2>10. OneName'
    <3>1. \A x, z \in Entries : Namesake(x, z, entries') => Namesake(x, z, entries)
      BY <2>3 DEF Namesake
    <3> QED BY <1>2, <3>1 DEF RecoveryInv, OneName
  <2> QED BY <2>3, <2>5, <2>6, <2>8, <2>9, <2>10 DEF RecoveryInv
<1> QED BY <1>2, <1>8, <1>9

LEMMA EntryStart ==
  ASSUME RecoveryInit
  PROVE  RecoveryInv
<1>1. /\ desk \in Desks /\ archive = <<>> /\ misled = {}
      /\ \A c \in Clerks : task[c] = Free
      /\ entries = [e \in Entries |->
           IF \/ e \notin desk.entries
              \/ ModelOf[e] = "customer" /\ "create_entry" \in desk.kinds
           THEN "absent" ELSE "live"]
  BY DEF RecoveryInit, WarehouseInit
<1>2. RowsTyped /\ Scoped /\ Filing
  <2>1. <<>> \in Seq(FileRow)
    OBVIOUS
  <2> QED BY <1>1, <2>1 DEF RowsTyped, States, Scoped, Filing
<1>3. OnlyTheRowMeant /\ Recallable /\ GoneForGood /\ OneFile
  BY <1>1 DEF OnlyTheRowMeant, Recallable, GoneForGood, OneFile
<1>4. OneName
  <2> SUFFICES ASSUME NEW x \in Entries, NEW y \in Entries, NEW z \in Entries,
                      ModelOf[z] = "customer", Namesake(x, z, entries), Namesake(y, z, entries)
               PROVE  x = y
    BY DEF OneName
  <2>1. /\ x \in desk.entries /\ y \in desk.entries /\ "create_entry" \notin desk.kinds
        /\ ModelOf[x] = "customer" /\ ModelOf[y] = "customer"
        /\ DatabaseOf[x] = DatabaseOf[y] /\ NameOf[x] = NameOf[y]
    BY <1>1 DEF Namesake
  <2>2. \A d, e \in desk.entries :
          /\ ModelOf[d] = "customer" /\ ModelOf[e] = "customer"
          /\ DatabaseOf[d] = DatabaseOf[e] /\ NameOf[d] = NameOf[e]
          => d = e
    BY <1>1, <2>1, RecoveryAssumption
  <2> QED BY <2>1, <2>2
<1>5. EntryTasking
  BY <1>1, NoEntryTask DEF EntryTasking, Free, EntrySteps
<1> QED BY <1>2, <1>3, <1>4, <1>5 DEF RecoveryInv

\* A request for stock rows is none for other rows, and the other way round.
LEMMA StockTurns ==
  ASSUME StockInv, NEW c \in Clerks, WarehouseStep(c)
  PROVE  /\ Solitary(c) /\ UNCHANGED desk
         /\ \E t : task' = [task EXCEPT ![c] = t] /\ t.step \notin EntrySteps
<1>1. Solitary(c)
  <2>1. task[c] # Free \/ \E kind : Serves(c, kind)
    <3>1. CASE \/ CreateArticle(c) \/ EditLoad(c) \/ AdjustCheck(c) \/ ImportCheck(c)
               \/ ReceiveGoods(c) \/ IssueGoods(c) \/ ReserveGoods(c) \/ PlaceGoods(c)
      BY <3>1 DEF CreateArticle, EditLoad, AdjustCheck, ImportCheck, ReceiveGoods, IssueGoods,
                  ReserveGoods, PlaceGoods
    <3>2. CASE \/ EditSave(c) \/ AdjustBook(c) \/ ImportInsert(c) \/ ImportMirror(c) \/ ImportStock(c)
               \/ ImportCommit(c) \/ ImportFails(c)
      <4>1. task[c].step # "free"
        BY <3>2 DEF EditSave, AdjustBook, ImportInsert, ImportMirror, ImportStock, ImportCommit,
                    ImportFails, Stands
      <4>2. Free.step = "free"
        BY DEF Free
      <4> QED BY <4>1, <4>2
    <3> QED BY <3>1, <3>2 DEF WarehouseStep
  <2> QED BY <2>1, ServesAlone DEF StockInv
<1>2. CASE Leaves(c) /\ UNCHANGED desk
  <2>1. Free.step \notin EntrySteps
    BY DEF Free, EntrySteps
  <2> QED BY <1>1, <1>2, <2>1 DEF Leaves, Goes
<1>3. CASE UNCHANGED <<desk, task>> /\ task[c] = Free
  <2>1. task' = [task EXCEPT ![c] = Free]
    BY <1>3 DEF StockInv, StockTyped
  <2>2. Free.step \notin EntrySteps
    BY DEF Free, EntrySteps
  <2> QED BY <1>1, <1>3, <2>1, <2>2
<1>4. ASSUME UNCHANGED desk, NEW t, Goes(c, t), t.step \in StockSteps
      PROVE  \E u : task' = [task EXCEPT ![c] = u] /\ u.step \notin EntrySteps
  BY <1>4 DEF Goes, StockSteps, Phases, EntrySteps
<1>5. CASE CreateArticle(c) \/ ReceiveGoods(c) \/ IssueGoods(c) \/ ReserveGoods(c) \/ PlaceGoods(c)
  BY <1>3, <1>5 DEF CreateArticle, ReceiveGoods, IssueGoods, ReserveGoods, PlaceGoods, Serves
<1>6. CASE EditSave(c) \/ AdjustBook(c) \/ ImportCommit(c) \/ ImportFails(c)
  BY <1>2, <1>6 DEF EditSave, AdjustBook, ImportCommit, ImportFails
<1>7. CASE EditLoad(c)
  <2>1. PICK a : Goes(c, [step |-> "edit", article |-> a, read |-> goods[a]])
    BY <1>7 DEF EditLoad
  <2> QED BY <1>1, <1>4, <1>7, <2>1 DEF EditLoad, StockSteps
<1>8. CASE AdjustCheck(c)
  <2>1. PICK key, n : Goes(c, [step |-> "adjust", key |-> key, signed |-> n])
    BY <1>8 DEF AdjustCheck
  <2> QED BY <1>1, <1>4, <1>8, <2>1 DEF AdjustCheck, StockSteps
<1>9. CASE ImportCheck(c)
  <2>1. PICK a : Goes(c, [step |-> "import_insert", article |-> a])
    BY <1>9 DEF ImportCheck
  <2> QED BY <1>1, <1>4, <1>9, <2>1 DEF ImportCheck, StockSteps
<1>10. CASE ImportInsert(c)
  <2>1. Leaves(c) \/ Goes(c, [step |-> "import_mirror", article |-> task[c].article])
    BY <1>10 DEF ImportInsert
  <2> QED BY <1>1, <1>2, <1>4, <1>10, <2>1 DEF ImportInsert, StockSteps, Phases
<1>11. CASE ImportMirror(c)
  <2>1. Leaves(c) \/ Goes(c, [step |-> "import_stock", article |-> task[c].article,
                      seen |-> [k \in LineKeys(task[c].article) |-> onHand[k].current]])
    BY <1>11 DEF ImportMirror
  <2> QED BY <1>1, <1>2, <1>4, <1>11, <2>1 DEF ImportMirror, StockSteps, Phases
<1>12. CASE ImportStock(c)
  <2>1. Leaves(c) \/ Goes(c, [step |-> "import_commit", article |-> task[c].article])
    BY <1>12 DEF ImportStock
  <2> QED BY <1>1, <1>2, <1>4, <1>12, <2>1 DEF ImportStock, StockSteps, Phases
<1> QED BY <1>5, <1>6, <1>7, <1>8, <1>9, <1>10, <1>11, <1>12 DEF WarehouseStep

LEMMA EntryTurns ==
  ASSUME StockInv, RecoveryInv, NEW c \in Clerks, RecoveryStep(c)
  PROVE  /\ Solitary(c) /\ UNCHANGED stockroom
         /\ \E t : task' = [task EXCEPT ![c] = t] /\ t.step \notin StockSteps
<1>1. Solitary(c)
  <2>1. task[c] # Free \/ \E kind : Serves(c, kind)
    <3>1. CASE CreateCheck(c) \/ DeleteEntry(c) \/ PickFiles(c) \/ ExpiredRead(c)
      BY <3>1 DEF CreateCheck, DeleteEntry, PickFiles, ExpiredRead
    <3>2. CASE \/ CreateEntry(c) \/ FileAgain(c) \/ FileNone(c) \/ FileNew(c) \/ FlagEntry(c)
               \/ RestoreRow(c) \/ PurgeRow(c) \/ PickedFail(c) \/ PickedCommit(c)
               \/ DeletionDies(c) \/ ExpiredPurge(c) \/ ExpiredEnd(c)
      <4>1. task[c].step # "free"
        BY <3>2 DEF CreateEntry, FileAgain, FileNone, FileNew, FlagEntry, RestoreRow, PurgeRow,
                    PickedFail, PickedCommit, DeletionDies, ExpiredPurge, ExpiredEnd, Stands
      <4> QED BY <4>1 DEF Free
    <3> QED BY <3>1, <3>2 DEF RecoveryStep
  <2> QED BY <2>1, ServesAlone DEF StockInv
<1>2. UNCHANGED stockroom
  BY DEF RecoveryStep, CreateCheck, CreateEntry, DeleteEntry, FileAgain, FileNone, FileNew, FlagEntry,
         PickFiles, RestoreRow, PurgeRow, PickedFail, PickedCommit, DeletionDies, ExpiredRead,
         ExpiredPurge, ExpiredEnd
<1>3. CASE Leaves(c)
  <2>1. Free.step \notin StockSteps
    BY DEF Free, StockSteps, Phases
  <2> QED BY <1>1, <1>2, <1>3, <2>1 DEF Leaves, Goes
<1>4. ASSUME NEW t, Goes(c, t), t.step \in EntrySteps
      PROVE  \E u : task' = [task EXCEPT ![c] = u] /\ u.step \notin StockSteps
  BY <1>4 DEF Goes, StockSteps, Phases, EntrySteps
<1>5. EntryTaskOK(task[c], desk, entries, archive)
  BY DEF RecoveryInv, EntryTasking
<1>6. CASE CreateEntry(c) \/ FlagEntry(c) \/ PickedFail(c) \/ PickedCommit(c) \/ DeletionDies(c) \/ ExpiredEnd(c)
  BY <1>1, <1>2, <1>3, <1>6 DEF CreateEntry, FlagEntry, PickedFail, PickedCommit, DeletionDies, ExpiredEnd
<1>7. CASE FileAgain(c) \/ FileNew(c)
  <2>1. Leaves(c) \/ Goes(c, [step |-> "flag", entry |-> task[c].entry])
    BY <1>7 DEF FileAgain, FileNew, AfterFiling
  <2> QED BY <1>1, <1>2, <1>3, <1>4, <2>1 DEF EntrySteps
<1>8. CASE CreateCheck(c)
  <2>1. PICK e : Goes(c, [step |-> "create_entry", entry |-> e])
    BY <1>8 DEF CreateCheck
  <2> QED BY <1>1, <1>2, <1>4, <2>1 DEF EntrySteps
<1>9. CASE DeleteEntry(c)
  <2>1. PICK e : Goes(c, [step |-> "file", entry |-> e])
    BY <1>9 DEF DeleteEntry, FileThenFlag
  <2> QED BY <1>1, <1>2, <1>4, <2>1 DEF EntrySteps
<1>10. CASE FileNone(c)
  <2>1. task[c] \in [step : {"file"}, entry : Entries]
    BY <1>5, <1>10 DEF FileNone, Stands, EntryTaskOK, DeletingOK
  <2>2. PICK t : t = [task[c] EXCEPT !.step = "file_new"]
    OBVIOUS
  <2>3. t.step \in EntrySteps
    BY <2>1, <2>2 DEF EntrySteps
  <2> QED BY <1>1, <1>2, <1>4, <1>10, <2>2, <2>3 DEF FileNone
<1>11. CASE PickFiles(c)
  <2>1. PICK kind \in {"restore", "purge"}, picked \in (SUBSET DOMAIN archive) \ {{}} :
          Goes(c, [step |-> kind, left |-> picked, done |-> {}, open |-> {n \in picked : IsDeleted(n)}])
    BY <1>11 DEF PickFiles
  <2> QED BY <1>1, <1>2, <1>4, <2>1 DEF EntrySteps
<1>12. CASE ExpiredRead(c)
  <2>1. PICK expired : Goes(c, [step |-> "cleanup", left |-> expired])
    BY <1>12 DEF ExpiredRead
  <2> QED BY <1>1, <1>2, <1>4, <2>1 DEF EntrySteps
<1>13. CASE RestoreRow(c) \/ PurgeRow(c)
  <2>1. /\ task[c].step \in {"restore", "purge"}
        /\ Goes(c, [task[c] EXCEPT !.left = @ \ {NextFile(c)}, !.done = @ \union {NextFile(c)}])
    BY <1>13 DEF RestoreRow, PurgeRow, Stands, FileDone
  <2>2. task[c] \in [step : {"restore", "purge"}, left : SUBSET DOMAIN archive,
                     done : SUBSET DOMAIN archive, open : SUBSET DOMAIN archive]
    BY <1>5, <2>1 DEF EntryTaskOK, PickedOK
  <2>3. PICK t : t = [task[c] EXCEPT !.left = @ \ {NextFile(c)}, !.done = @ \union {NextFile(c)}]
    OBVIOUS
  <2>4. t.step \in EntrySteps
    BY <2>2, <2>3 DEF EntrySteps
  <2> QED BY <1>1, <1>2, <1>4, <2>1, <2>3, <2>4
<1>14. CASE ExpiredPurge(c)
  <2>1. task[c].step = "cleanup" /\ Goes(c, [task[c] EXCEPT !.left = @ \ {NextFile(c)}])
    BY <1>14 DEF ExpiredPurge, Stands
  <2>2. task[c] \in [step : {"cleanup"}, left : SUBSET DOMAIN archive]
    BY <1>5, <2>1 DEF EntryTaskOK, CleaningOK
  <2>3. PICK t : t = [task[c] EXCEPT !.left = @ \ {NextFile(c)}]
    OBVIOUS
  <2>4. t.step \in EntrySteps
    BY <2>2, <2>3 DEF EntrySteps
  <2> QED BY <1>1, <1>2, <1>4, <2>1, <2>3, <2>4
<1> QED BY <1>6, <1>7, <1>8, <1>9, <1>10, <1>11, <1>12, <1>13, <1>14 DEF RecoveryStep

LEMMA OfficeStep ==
  ASSUME StockInv, RecoveryInv, [OfficeNext]_officeVars
  PROVE  StockInv' /\ RecoveryInv'
<1>1. ASSUME NEW c \in Clerks, WarehouseStep(c), UNCHANGED recoveryVars
      PROVE  StockInv' /\ RecoveryInv'
  <2>1. StockInv'
    BY <1>1, WarehouseFine
  <2>2. PICK t : task' = [task EXCEPT ![c] = t] /\ t.step \notin EntrySteps
    BY <1>1, StockTurns
  <2>3. Solitary(c) /\ UNCHANGED desk /\ StockTyped
    BY <1>1, StockTurns DEF StockInv
  <2>4. EntryTaskOK(t, desk, entries, archive)
    BY <2>2, NoEntryTask
  <2>5. RecoveryInv'
    BY <1>1, <2>2, <2>3, <2>4, RowsUntouched
  <2> QED BY <2>1, <2>5
<1>2. ASSUME NEW c \in Clerks, RecoveryStep(c)
      PROVE  StockInv' /\ RecoveryInv'
  <2>1. RecoveryInv'
    BY <1>2, EntryLooksFine, CreateEntryFine, FlagFine, FileAgainFine, FileNewFine, PickedRowFine,
       CommitPickedFine, ExpiredFine DEF RecoveryStep
  <2>2. PICK t : task' = [task EXCEPT ![c] = t] /\ t.step \notin StockSteps
    BY <1>2, EntryTurns
  <2>3. Solitary(c) /\ UNCHANGED stockroom
    BY <1>2, EntryTurns
  <2>4. TaskOK(t, desk, goods, onHand, moves) /\ t.step \notin Phases
    BY <2>2, NoTask DEF StockSteps
  <2>5. StockInv'
    BY <2>2, <2>3, <2>4, Untouched
  <2> QED BY <2>1, <2>5
<1>3. CASE UNCHANGED officeVars
  <2>1. /\ UNCHANGED <<desk, goods, variantRows, onHand, moves, places, paid, task>>
        /\ UNCHANGED <<entries, archive, misled>>
    BY <1>3 DEF officeVars, warehouseVars, recoveryVars
  <2>2. StockTyped' /\ Adding' /\ Known' /\ Splitting' /\ Opened' /\ OpenedOnce'
    BY <2>1 DEF StockInv, StockTyped, Adding, Known, Splitting, Opened, OpenedOnce, MovedBetween
  <2>3. OneShape' /\ Placing' /\ Tasking' /\ Serial' /\ Importing'
    BY <2>1 DEF StockInv, OneShape, Placing, PlacedOnHand, Tasking, Serial, Importing, MovedBetween
  <2>4. RowsTyped' /\ Scoped' /\ Filing' /\ OneFile' /\ OneName' /\ EntryTasking'
    BY <2>1 DEF RecoveryInv, RowsTyped, Scoped, Filing, OneFile, OneName, EntryTasking
  <2>5. OnlyTheRowMeant' /\ Recallable' /\ GoneForGood'
    BY <2>1 DEF RecoveryInv, OnlyTheRowMeant, Recallable, GoneForGood, Twins
  <2> QED BY <2>2, <2>3, <2>4, <2>5 DEF StockInv, RecoveryInv
<1> QED BY <1>1, <1>2, <1>3 DEF OfficeNext

LEMMA OfficeInvariant == OfficeSpec => [](StockInv /\ RecoveryInv)
<1>1. RecoveryInit => StockInv /\ RecoveryInv
  BY StockStart, EntryStart DEF RecoveryInit
<1>2. (StockInv /\ RecoveryInv) /\ [OfficeNext]_officeVars => (StockInv /\ RecoveryInv)'
  BY OfficeStep
<1> QED BY <1>1, <1>2, PTL DEF OfficeSpec

\* A set in which any two elements are equal has one element at most.
LEMMA AtMostOne ==
  ASSUME NEW S, \A x, y \in S : x = y
  PROVE  Cardinality(S) <= 1
<1>1. CASE S = {}
  BY <1>1, FS_EmptySet
<1>2. CASE S # {}
  <2>1. PICK x \in S : S = {x}
    BY <1>2
  <2> QED BY <2>1, FS_Singleton
<1> QED BY <1>1, <1>2

LEMMA EntriesSound ==
  ASSUME RecoveryInv
  PROVE  RecoverySound
<1>1. StillOffered
  <2> SUFFICES ASSUME ~desk.overlap, "cleanup" \notin desk.kinds, ~Twins,
                      NEW e \in Entries, FoundAgain(e), entries[e] = "deleted"
               PROVE  FilesOf(e) # {}
    BY DEF StillOffered
  <2>1. PICK n \in DOMAIN archive : Recalls(archive[n], e)
    BY DEF RecoveryInv, Recallable
  <2> QED BY <2>1 DEF FilesOf, Recalls
<1>2. FiledOnce
  <2> SUFFICES ASSUME ~desk.overlap, NEW e \in Entries
               PROVE  Cardinality(FilesOf(e)) <= 1
    BY DEF FiledOnce
  <2>1. \A m, n \in FilesOf(e) : m = n
    BY DEF FilesOf, Recalls, RecoveryInv, OneFile
  <2> QED BY <2>1, AtMostOne
<1>3. NamesApart
  <2> SUFFICES ASSUME ~desk.overlap, "restore" \notin desk.kinds, NEW e \in Entries,
                      ModelOf[e] = "customer"
               PROVE  Cardinality(Namesakes(e)) <= 1
    BY DEF NamesApart
  <2>1. \A x, y \in Namesakes(e) : x = y
    BY DEF Namesakes, Namesake, RecoveryInv, OneName
  <2> QED BY <2>1, AtMostOne
<1> QED BY <1>1, <1>2, <1>3 DEF RecoverySound, RecoveryInv

\* The stock of a branch adds up in every behaviour of its offices: movements, opening
\* stock, carrying cost, variants, allocations and overviews agree with the stock rows
\* that apps/inventory and the imports write.
THEOREM WarehouseKept == OfficeSpec => []WarehouseSound
<1>1. StockInv => WarehouseSound
  BY StockSound
<1> QED BY <1>1, OfficeInvariant, PTL

\* Deleting, restoring and purging reach the row that was meant, whatever dies on the way,
\* leave it on offer until it is restored or gone, and never bring back what apps/recovery
\* calls permanently deleted.
THEOREM RowsRecovered == OfficeSpec => []RecoverySound
<1>1. RecoveryInv => RecoverySound
  BY EntriesSound
<1> QED BY <1>1, OfficeInvariant, PTL
=============================================================================
