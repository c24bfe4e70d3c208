--------------------------- MODULE MCShardingProofs ---------------------------
(***************************************************************************)
(* Rows, identifiers and broadcasts of MCSharding, for every configured    *)
(* layout, all sizes of the fields and any number of rows.                 *)
(***************************************************************************)
EXTENDS MCSharding, ShardingProofs, FiniteSetTheorems, FunctionTheorems

-----------------------------------------------------------------------------
\* Arithmetic of positions: a broadcast lists db * tb tables, and a position is a
\* pair of a database and a table packed one way or the other.

\* The numbers with quotient a are the n that begin at a * n.
LEMMA QuotientIs ==
    ASSUME NEW n \in Nat \ {0}, NEW a \in Int, NEW x \in Int
    PROVE  x \div n = a <=> a * n <= x /\ x < a * n + n
<1>0. a * n \in Int
  BY SMT
<1>1. ASSUME x \div n = a
      PROVE  a * n <= x /\ x < a * n + n
  <2>1. x = a * n + (x % n) /\ x % n \in 0 .. n - 1
    BY <1>1, DivMod, ModRange
  <2> QED
    BY <1>0, <2>1
<1>2. ASSUME a * n <= x, x < a * n + n
      PROVE  x \div n = a
  <2> DEFINE r == x - a * n
  <2>1. r \in 0 .. n - 1 /\ x = a * n + r
    BY <1>0, <1>2
  <2> HIDE DEF r
  <2> QED
    BY <2>1, DivisionUnique
<1> QED
  BY <1>1, <1>2

\* Neighbours differ modulo n, unless everything is equal modulo n.
LEMMA SuccessorDiffers ==
    ASSUME NEW n \in Nat \ {0}, n > 1, NEW x \in Int
    PROVE  x % n # (x + 1) % n
<1> DEFINE a == x \div n
           r == x % n
<1>1. x = a * n + r /\ a \in Int /\ r \in 0 .. n - 1
  BY DivMod, ModRange
<1> HIDE DEF a, r
<1>2. CASE r < n - 1
  <2> DEFINE q == r + 1
  <2>1. q \in 0 .. n - 1 /\ x + 1 = a * n + q /\ q # r
    <3>1. a * n \in Int
      BY <1>1, SMT
    <3> QED
      BY <1>1, <1>2, <3>1
  <2> HIDE DEF q
  <2>2. (x + 1) % n = q
    BY <1>1, <2>1, DivisionUnique
  <2> QED
    BY <2>1, <2>2 DEF r
<1>3. CASE r = n - 1
  <2> DEFINE b == a + 1
  <2>1. b \in Int /\ x + 1 = b * n + 0
    <3>1. a * n \in Int /\ (a + 1) * n = a * n + n
      BY <1>1, SMT
    <3> QED
      BY <1>1, <1>3, <3>1
  <2> HIDE DEF b
  <2>2. (x + 1) % n = 0
    BY <2>1, DivisionUnique, 0 \in 0 .. n - 1
  <2> QED
    BY <1>3, <2>2 DEF r
<1> QED
  BY <1>1, <1>2, <1>3

\* The database and the table at position k of the modulo broadcast of l.
DBAt(l, k) == (k - 1) \div l.tb
TBAt(l, k) == (k - 1) % l.tb

LEMMA Positions ==
    ASSUME NEW l \in Layouts, NEW k \in 1 .. Total(l)
    PROVE  /\ DBAt(l, k) \in 0 .. l.db - 1
           /\ TBAt(l, k) \in 0 .. l.tb - 1
           /\ k = DBAt(l, k) * l.tb + TBAt(l, k) + 1
           /\ ModuloBroadcast(l)[k] = [db |-> DBAt(l, k), tb |-> TBAt(l, k)]
<1> DEFINE n == l.tb
           m == l.db
           x == k - 1
<1>1. n \in Nat \ {0} /\ m \in Nat \ {0} /\ x \in 0 .. n * m - 1
  <2>1. l.tb \in Nat \ {0} /\ l.db \in Nat \ {0} /\ Total(l) \in Nat
    BY LayoutPositive
  <2>2. Total(l) = l.tb * l.db
    BY <2>1, MulFacts DEF Total
  <2> QED
    BY <2>1, <2>2
<1>2. x \in Int
  BY <1>1
<1> HIDE DEF n, m, x
<1>3. /\ x \div n \in 0 .. m - 1 /\ x % n \in 0 .. n - 1
      /\ x = (x \div n) * n + (x % n) /\ x \div n \in Int
  BY <1>1, <1>2, QuotientRange, DivMod, ModRange
<1>4. (x \div n) * n \in Int /\ x % n \in Int
  BY <1>1, <1>3, MulFacts
<1>5. x + 1 = (x \div n) * n + (x % n) + 1
  BY <1>2, <1>3, <1>4
<1>6. k = x + 1
  BY LayoutPositive DEF x
<1> QED
  BY <1>3, <1>5, <1>6 DEF DBAt, TBAt, ModuloBroadcast, n, m, x

\* Their types, without the products.
LEMMA PositionTypes ==
    ASSUME NEW l \in Layouts, NEW k \in 1 .. Total(l)
    PROVE  /\ Total(l) \in Nat /\ l.tb \in Nat \ {0} /\ l.db \in Nat \ {0}
           /\ k \in Int /\ k >= 1 /\ k <= Total(l)
           /\ DBAt(l, k) \in Nat /\ DBAt(l, k) \in 0 .. l.db - 1
           /\ TBAt(l, k) \in Nat /\ TBAt(l, k) < l.tb
<1>1. Total(l) \in Nat /\ l.tb \in Nat \ {0} /\ l.db \in Nat \ {0}
  BY LayoutPositive
<1>2. DBAt(l, k) \in 0 .. l.db - 1 /\ TBAt(l, k) \in 0 .. l.tb - 1
  BY Positions
<1> QED
  BY <1>1, <1>2

\* What the modulo broadcast has at a position.
LEMMA DatabaseAt ==
    ASSUME NEW l \in Layouts
    PROVE  \A k \in 1 .. Total(l) : ModuloBroadcast(l)[k].db = (k - 1) \div l.tb
<1> TAKE k \in 1 .. Total(l)
<1>1. ModuloBroadcast(l)[k] = [db |-> DBAt(l, k), tb |-> TBAt(l, k)]
  BY Positions
<1> QED
  BY <1>1 DEF DBAt

\* The other way: position p of the round robin has database and table of these.
RankAt(l, k) == TBAt(l, k) * l.db + DBAt(l, k)
AtRank(l, v) == (v % l.db) * l.tb + (v \div l.db) + 1

LEMMA Ranks ==
    ASSUME NEW l \in Layouts, NEW k \in 1 .. Total(l)
    PROVE  RankAt(l, k) \in 0 .. Total(l) - 1 /\ AtRank(l, RankAt(l, k)) = k
<1> DEFINE n == l.tb
           m == l.db
           a == TBAt(l, k)
           r == DBAt(l, k)
<1>1. n \in Nat \ {0} /\ m \in Nat \ {0} /\ Total(l) = n * m
  <2>1. l.tb \in Nat \ {0} /\ l.db \in Nat \ {0}
    BY LayoutPositive
  <2> QED
    BY <2>1, MulFacts DEF Total
<1>2. a \in 0 .. n - 1 /\ r \in 0 .. m - 1 /\ k = r * n + a + 1
  BY Positions
<1> HIDE DEF n, m, a, r
<1>3. a * m + r \in 0 .. n * m - 1
  BY <1>1, <1>2, PackRange
<1>4. (a * m + r) \div m = a /\ (a * m + r) % m = r
  BY <1>1, <1>2, DivisionUnique
<1> QED
  BY <1>1, <1>2, <1>3, <1>4 DEF RankAt, AtRank, n, m, a, r

LEMMA AtRanks ==
    ASSUME NEW l \in Layouts, NEW v \in 0 .. Total(l) - 1
    PROVE  /\ AtRank(l, v) \in 1 .. Total(l)
           /\ RankAt(l, AtRank(l, v)) = v
           /\ DBAt(l, AtRank(l, v)) = v % l.db
           /\ TBAt(l, AtRank(l, v)) = v \div l.db
<1> DEFINE n == l.tb
           m == l.db
           a == v \div m
           r == v % m
<1>1. /\ n \in Nat \ {0} /\ m \in Nat \ {0}
      /\ Total(l) = m * n /\ m * n \in Nat /\ v \in 0 .. m * n - 1
  <2>1. l.tb \in Nat \ {0} /\ l.db \in Nat \ {0} /\ Total(l) \in Nat
    BY LayoutPositive
  <2> QED
    BY <2>1 DEF Total
<1> HIDE DEF n, m
<1>2. v \in Int
  BY <1>1
<1>3. a \in 0 .. n - 1 /\ r \in 0 .. m - 1 /\ v = a * m + r
  BY <1>1, <1>2, QuotientRange, DivMod, ModRange
<1> HIDE DEF a, r
<1>4. r * n + a \in 0 .. m * n - 1
  BY <1>1, <1>3, PackRange
<1>5. (r * n + a) \div n = r /\ (r * n + a) % n = a
  BY <1>1, <1>3, DivisionUnique
<1>6. AtRank(l, v) = (r * n + a) + 1
  BY DEF AtRank, n, m, a, r
<1>7. (r * n + a) + 1 \in 1 .. m * n /\ ((r * n + a) + 1) - 1 = r * n + a
  BY <1>1, <1>4
<1>8. DBAt(l, AtRank(l, v)) = r /\ TBAt(l, AtRank(l, v)) = a
  BY <1>5, <1>6, <1>7 DEF DBAt, TBAt, n
<1>9. RankAt(l, AtRank(l, v)) = v
  BY <1>3, <1>8 DEF RankAt, m
<1> QED
  BY <1>1, <1>6, <1>7, <1>8, <1>9 DEF a, r, m

-----------------------------------------------------------------------------
\* The round robin over the modulo broadcast: what the regrouping by database
\* computes (balanced_sharding.go:98-134).

\* The number of tables of one database before position k is the table's suffix.
LEMMA RoundIsTable ==
    ASSUME NEW l \in Layouts, NEW k \in 1 .. Total(l)
    PROVE  Round(ModuloBroadcast(l), k) = TBAt(l, k)
<1> DEFINE n == l.tb
           r == DBAt(l, k)
           first == r * n + 1
<1>1. /\ Total(l) \in Nat /\ n \in Nat \ {0} /\ r \in Int /\ r \in Nat
      /\ TBAt(l, k) \in Nat /\ TBAt(l, k) < n /\ k \in Int /\ k <= Total(l)
  BY PositionTypes
<1>0. k = r * n + TBAt(l, k) + 1
  BY Positions, Zenon
<1>2. first \in Int /\ k = first + TBAt(l, k) /\ TBAt(l, k) < n
  <2>1. r * n \in Int
    BY <1>1, MulFacts
  <2> HIDE DEF n, r
  <2> QED
    BY <1>0, <1>1, <2>1
<1>3. \A j \in 1 .. k - 1 : ModuloBroadcast(l)[j].db = ModuloBroadcast(l)[k].db
          <=> j \in first .. k - 1
  <2> TAKE j \in 1 .. k - 1
  <2>1. j \in 1 .. Total(l) /\ j - 1 \in Int /\ j \in Int
    BY <1>1
  <2>2. ModuloBroadcast(l)[j].db = (j - 1) \div n /\ ModuloBroadcast(l)[k].db = r
    BY <2>1, DatabaseAt, Zenon DEF DBAt
  <2>3. (j - 1) \div n = r <=> r * n <= j - 1 /\ j - 1 < r * n + n
    <3> HIDE DEF n, r
    <3> QED
      BY <1>1, <2>1, QuotientIs
  <2>4. r * n \in Int
    BY <1>1, MulFacts
  <2> HIDE DEF n, r
  <2> QED
    BY <1>1, <1>2, <2>1, <2>2, <2>3, <2>4
<1>4. first >= 1
  <2>1. r * n \in Nat
    <3>1. \A x, y \in Nat : x * y \in Nat
      BY SMT
    <3> HIDE DEF n, r
    <3> QED
      BY <1>1, <3>1
  <2> QED
    BY <2>1
<1> HIDE DEF first
<1>5. {j \in 1 .. k - 1 : ModuloBroadcast(l)[j].db = ModuloBroadcast(l)[k].db}
          = first .. k - 1
  BY <1>1, <1>2, <1>3, <1>4
<1>6. Cardinality(first .. k - 1) = TBAt(l, k)
  <2>1. k - 1 \in Int
    BY <1>1
  <2>2. Cardinality(first .. k - 1) = IF first > k - 1 THEN 0 ELSE (k - 1) - first + 1
    BY <1>2, <2>1, FS_Interval
  <2> QED
    BY <1>1, <1>2, <2>2
<1> QED
  BY <1>5, <1>6 DEF Round

\* The first table of its database is at the database's first position.
LEMMA FirstIsFirst ==
    ASSUME NEW l \in Layouts, NEW k \in 1 .. Total(l)
    PROVE  FirstOfDB(ModuloBroadcast(l), k) = DBAt(l, k) * l.tb + 1
<1> DEFINE n == l.tb
           r == DBAt(l, k)
           first == r * n + 1
           P(j) == /\ ModuloBroadcast(l)[j].db = ModuloBroadcast(l)[k].db
                   /\ \A i \in 1 .. j - 1 :
                          ModuloBroadcast(l)[i].db # ModuloBroadcast(l)[k].db
<1>1. /\ Total(l) \in Nat /\ n \in Nat \ {0} /\ r \in Int /\ r \in Nat
      /\ TBAt(l, k) \in Nat /\ TBAt(l, k) < n /\ k \in Int /\ k <= Total(l)
  BY PositionTypes
<1>0. k = r * n + TBAt(l, k) + 1
  BY Positions, Zenon
<1>2. r * n \in Nat
  <2>1. \A x, y \in Nat : x * y \in Nat
    BY SMT
  <2> QED
    BY <1>1, <2>1
<1>3. first \in 1 .. k
  <2> HIDE DEF n, r
  <2> QED
    BY <1>0, <1>1, <1>2
<1>4. \A j \in 1 .. k : ModuloBroadcast(l)[j].db = ModuloBroadcast(l)[k].db <=> j >= first
  <2> TAKE j \in 1 .. k
  <2>1. j \in 1 .. Total(l) /\ j - 1 \in Int /\ j \in Int
    BY <1>1
  <2>2. ModuloBroadcast(l)[j].db = (j - 1) \div n /\ ModuloBroadcast(l)[k].db = r
    BY <2>1, DatabaseAt, Zenon DEF DBAt
  <2>3. (j - 1) \div n = r <=> r * n <= j - 1 /\ j - 1 < r * n + n
    <3> HIDE DEF n, r
    <3> QED
      BY <1>1, <2>1, QuotientIs
  <2> HIDE DEF n, r
  <2> QED
    BY <1>0, <1>1, <1>2, <2>1, <2>2, <2>3
<1> HIDE DEF first
<1>5. P(first)
  <2>1. \A i \in 1 .. first - 1 : i \in 1 .. k /\ ~(i >= first)
    BY <1>1, <1>3
  <2> QED
    BY <1>3, <1>4, <2>1
<1>6. ASSUME NEW j \in 1 .. k, P(j)
      PROVE  j = first
  <2>1. j >= first
    BY <1>4, <1>6
  <2>2. ~(j > first)
    <3> SUFFICES ASSUME j > first PROVE FALSE
      OBVIOUS
    <3>1. first \in 1 .. j - 1
      BY <1>1, <1>3
    <3> QED
      BY <1>5, <1>6, <3>1
  <2> QED
    BY <1>1, <1>3, <2>1, <2>2
<1>7. (CHOOSE j \in 1 .. k : P(j)) = first
  <2> HIDE DEF P
  <2> QED
    BY <1>3, <1>5, <1>6
<1> QED
  BY <1>7 DEF FirstOfDB, first

\* So tables come before others in the order of their rank.
LEMMA BeforeByRank ==
    ASSUME NEW l \in Layouts, NEW j \in 1 .. Total(l), NEW k \in 1 .. Total(l)
    PROVE  ComesBefore(ModuloBroadcast(l), j, k) <=> RankAt(l, j) < RankAt(l, k)
<1> DEFINE n == l.tb
           m == l.db
           a == TBAt(l, j)
           b == TBAt(l, k)
           q == DBAt(l, j)
           r == DBAt(l, k)
<1>1. /\ n \in Nat \ {0} /\ m \in Nat \ {0}
      /\ a \in Int /\ b \in Int /\ q \in 0 .. m - 1 /\ r \in 0 .. m - 1
  BY PositionTypes
<1>2. ComesBefore(ModuloBroadcast(l), j, k)
          <=> a < b \/ (a = b /\ q * n + 1 < r * n + 1)
  BY RoundIsTable, FirstIsFirst DEF ComesBefore
<1>3. RankAt(l, j) = a * m + q /\ RankAt(l, k) = b * m + r
  BY DEF RankAt
<1> HIDE DEF n, m, a, b, q, r
<1>4. q * n \in Int /\ r * n \in Int /\ a * m \in Int /\ b * m \in Int
  BY <1>1, MulFacts
<1>5. q * n + 1 < r * n + 1 <=> q < r
  <2>1. \A x, y \in Int : x < y => x * n + 0 < y * n + 0
    BY <1>1, PackLess, 0 \in 0 .. n - 1
  <2> QED
    BY <1>1, <1>4, <2>1
<1>6. /\ a < b => a * m + q < b * m + r
      /\ b < a => b * m + r < a * m + q
  BY <1>1, PackLess
<1>7. a = b => (a * m + q < b * m + r <=> q < r)
  BY <1>1, <1>4
<1> QED
  BY <1>1, <1>2, <1>3, <1>4, <1>5, <1>6, <1>7

\* As many tables come before the one at k as its rank says.
LEMMA BeforeCount ==
    ASSUME NEW l \in Layouts, NEW k \in 1 .. Total(l)
    PROVE  Cardinality({j \in 1 .. Total(l) : ComesBefore(ModuloBroadcast(l), j, k)})
               = RankAt(l, k)
<1> DEFINE n == RankAt(l, k)
           S == {j \in 1 .. Total(l) : RankAt(l, j) < n}
           f == [v \in 0 .. n - 1 |-> AtRank(l, v)]
<1>1. {j \in 1 .. Total(l) : ComesBefore(ModuloBroadcast(l), j, k)} = S
  BY BeforeByRank
<1>2. n \in 0 .. Total(l) - 1 /\ Total(l) \in Nat
  BY Ranks, LayoutPositive
<1> HIDE DEF n
<1>3. \A v \in 0 .. n - 1 : AtRank(l, v) \in S /\ RankAt(l, AtRank(l, v)) = v
  <2> TAKE v \in 0 .. n - 1
  <2>1. v \in 0 .. Total(l) - 1 /\ v < n
    BY <1>2
  <2>2. AtRank(l, v) \in 1 .. Total(l) /\ RankAt(l, AtRank(l, v)) = v
    BY <2>1, AtRanks
  <2> QED
    BY <2>1, <2>2
<1>4. \A j \in S : RankAt(l, j) \in 0 .. n - 1 /\ AtRank(l, RankAt(l, j)) = j
  <2> TAKE j \in S
  <2>1. RankAt(l, j) \in 0 .. Total(l) - 1 /\ AtRank(l, RankAt(l, j)) = j
    BY Ranks
  <2> QED
    BY <1>2, <2>1
<1> HIDE DEF S
<1>5. f \in Bijection(0 .. n - 1, S)
  <2>1. f \in [0 .. n - 1 -> S]
    BY <1>3
  <2>2. \A v, w \in 0 .. n - 1 : f[v] = f[w] => v = w
    BY <1>3
  <2>3. \A j \in S : \E v \in 0 .. n - 1 : f[v] = j
    BY <1>4
  <2> HIDE DEF f
  <2> QED
    BY <2>1, <2>2, <2>3, Fun_IsBij
<1>6. IsFiniteSet(0 .. n - 1) /\ Cardinality(0 .. n - 1) = n
  <2>1. n - 1 \in Int /\ 0 \in Int
    BY <1>2
  <2>2. /\ IsFiniteSet(0 .. n - 1)
        /\ Cardinality(0 .. n - 1) = IF 0 > n - 1 THEN 0 ELSE (n - 1) - 0 + 1
    BY <2>1, FS_Interval
  <2> QED
    BY <1>2, <2>2
<1>7. Cardinality(S) = n
  <2>1. ExistsBijection(0 .. n - 1, S)
    BY <1>5 DEF ExistsBijection
  <2> QED
    BY <1>6, <2>1, FS_Bijection
<1> QED
  BY <1>1, <1>7 DEF n

\* Round robin visits the first tables of all databases, then their second ones,
\* and so on: its p-th destination is that of the shard value p - 1
\* (balanced_sharding.go:94-134).
THEOREM RoundRobinOrder ==
    ASSUME NEW l \in Layouts, NEW p \in 1 .. Total(l)
    PROVE  /\ DOMAIN RoundRobin(ModuloBroadcast(l)) = 1 .. Total(l)
           /\ RoundRobin(ModuloBroadcast(l))[p]
                  = [db |-> (p - 1) % l.db, tb |-> (p - 1) \div l.db]
<1> DEFINE MB == ModuloBroadcast(l)
           position(k) == Cardinality({j \in DOMAIN MB : ComesBefore(MB, j, k)})
           q == AtRank(l, p - 1)
<1>1. DOMAIN MB = 1 .. Total(l)
  BY DEF ModuloBroadcast
<1>2. \A k \in 1 .. Total(l) : position(k) = RankAt(l, k)
  BY <1>1, BeforeCount
<1>3. p - 1 \in 0 .. Total(l) - 1
  BY LayoutPositive
<1>4. /\ q \in 1 .. Total(l) /\ RankAt(l, q) = p - 1
      /\ DBAt(l, q) = (p - 1) % l.db /\ TBAt(l, q) = (p - 1) \div l.db
  BY <1>3, AtRanks
<1>5. \A k \in 1 .. Total(l) : RankAt(l, k) = p - 1 => k = q
  BY Ranks
<1>6. RoundRobin(MB) = [x \in DOMAIN MB |-> MB[CHOOSE k \in DOMAIN MB : position(k) = x - 1]]
  BY DEF RoundRobin
<1> HIDE DEF position, q, MB
<1>7. (CHOOSE k \in DOMAIN MB : position(k) = p - 1) = q
  BY <1>1, <1>2, <1>4, <1>5
<1>8. DOMAIN RoundRobin(MB) = 1 .. Total(l) /\ RoundRobin(MB)[p] = MB[q]
  BY <1>1, <1>6, <1>7
<1>9. MB[q] = [db |-> DBAt(l, q), tb |-> TBAt(l, q)]
  BY <1>4, Positions DEF MB
<1> QED
  BY <1>4, <1>8, <1>9 DEF MB

-----------------------------------------------------------------------------
\* Every mode of a broadcast reaches every table at one position.
OnceEach(l, list) ==
    /\ list \in [1 .. Total(l) -> Dsts(l)]
    /\ \A dst \in Dsts(l) : \E k \in 1 .. Total(l) :
           list[k] = dst /\ \A j \in 1 .. Total(l) : list[j] = dst => j = k

LEMMA DefaultOnce ==
    ASSUME NEW l \in Layouts
    PROVE  OnceEach(l, ModuloBroadcast(l))
<1>1. \A k \in 1 .. Total(l) : ModuloBroadcast(l)[k] \in Dsts(l)
  <2> TAKE k \in 1 .. Total(l)
  <2>1. /\ DBAt(l, k) \in 0 .. l.db - 1 /\ TBAt(l, k) \in 0 .. l.tb - 1
        /\ ModuloBroadcast(l)[k] = [db |-> DBAt(l, k), tb |-> TBAt(l, k)]
    BY Positions
  <2> QED
    BY <2>1 DEF Dsts
<1>2. ModuloBroadcast(l) \in [1 .. Total(l) -> Dsts(l)]
  BY <1>1 DEF ModuloBroadcast
<1> QED
  BY <1>2, BroadcastOnce DEF OnceEach

LEMMA ShuffleOnce ==
    ASSUME NEW l \in Layouts, NEW list, OnceEach(l, list), NEW shuffled \in Shuffles(list)
    PROVE  OnceEach(l, shuffled)
<1> DEFINE D == 1 .. Total(l)
<1>1. list \in [D -> Dsts(l)] /\ DOMAIN list = D
  BY DEF OnceEach
<1>2. PICK f \in [D -> D] : /\ \A i, j \in D : i # j => f[i] # f[j]
                            /\ shuffled = [p \in D |-> list[f[p]]]
  BY <1>1 DEF Shuffles
<1>3. \A k \in D : \E p \in D : f[p] = k
  <2>1. IsFiniteSet(D)
    BY LayoutPositive, FS_Interval
  <2>2. f \in Injection(D, D)
    BY <1>2, Fun_IsInj
  <2>3. f \in Surjection(D, D)
    BY <2>1, <2>2, FS_Injection
  <2> QED
    BY <2>3 DEF Surjection
<1>4. ASSUME NEW dst \in Dsts(l)
      PROVE  \E p \in D : shuffled[p] = dst /\ \A j \in D : shuffled[j] = dst => j = p
  <2>1. PICK k \in D : list[k] = dst /\ \A j \in D : list[j] = dst => j = k
    BY DEF OnceEach
  <2>2. PICK p \in D : f[p] = k
    BY <1>3
  <2> HIDE DEF D
  <2> QED
    BY <1>2, <2>1, <2>2
<1>5. shuffled \in [D -> Dsts(l)]
  BY <1>1, <1>2
<1> QED
  BY <1>4, <1>5 DEF OnceEach

LEMMA RoundRobinOnce ==
    ASSUME NEW l \in Layouts
    PROVE  OnceEach(l, RoundRobin(ModuloBroadcast(l)))
<1> DEFINE RR == RoundRobin(ModuloBroadcast(l))
<1>1. Total(l) \in Nat /\ 1 \in 1 .. Total(l) /\ l.db \in Nat \ {0}
  BY LayoutPositive
<1>2. DOMAIN RR = 1 .. Total(l)
  BY <1>1, RoundRobinOrder
<1>3. \A p \in 1 .. Total(l) : RR[p] = [db |-> (p - 1) % l.db, tb |-> (p - 1) \div l.db]
  BY RoundRobinOrder
<1> HIDE DEF RR
<1>4. ASSUME NEW dst \in Dsts(l)
      PROVE  \E k \in 1 .. Total(l) :
                 RR[k] = dst /\ \A j \in 1 .. Total(l) : RR[j] = dst => j = k
  <2>1. PICK v \in 0 .. Total(l) - 1 : Shard(l, v) = dst
    BY EveryTableReached
  <2>2. v + 1 \in 1 .. Total(l) /\ (v + 1) - 1 = v
    BY <1>1
  <2>3. v % Total(l) = v
    BY <1>1, LayoutPositive, ModSmall
  <2>4. RR[v + 1] = dst
    <3>1. RR[v + 1] = [db |-> v % l.db, tb |-> v \div l.db]
      BY <1>3, <2>2
    <3> QED
      BY <2>1, <2>3, <3>1 DEF Shard
  <2>5. ASSUME NEW j \in 1 .. Total(l), RR[j] = dst
        PROVE  j = v + 1
    <3> DEFINE d == l.db
               x == j - 1
    <3>1. x % d = v % d /\ x \div d = v \div d
      <4>1. RR[j] = [db |-> x % d, tb |-> x \div d]
        BY <1>3
      <4>2. RR[v + 1] = [db |-> v % d, tb |-> v \div d]
        BY <1>3, <2>2
      <4> HIDE DEF d, x
      <4> QED
        BY <2>4, <2>5, <4>1, <4>2
    <3>2. d \in Nat \ {0} /\ x \in Int /\ v \in Int
      BY <1>1
    <3> HIDE DEF d, x
    <3>3. x = (x \div d) * d + (x % d) /\ v = (v \div d) * d + (v % d)
      BY <3>2, DivMod
    <3>4. x = v
      BY <3>1, <3>3
    <3> QED
      BY <1>1, <3>4 DEF x
  <2> QED
    BY <2>2, <2>4, <2>5
<1>5. \A p \in 1 .. Total(l) : RR[p] \in Dsts(l)
  <2> TAKE p \in 1 .. Total(l)
  <2>1. p - 1 \in 0 .. Total(l) - 1 /\ p - 1 \in Int
    BY <1>1
  <2>2. (p - 1) % Total(l) = p - 1
    BY <2>1, LayoutPositive, ModSmall
  <2>3. Shard(l, p - 1) = RR[p]
    BY <1>3, <2>2 DEF Shard
  <2> QED
    BY <2>1, <2>3, ShardInLayout
<1>6. RR = [p \in DOMAIN RR |-> RR[p]]
  BY DEF RR, RoundRobin
<1>7. RR \in [1 .. Total(l) -> Dsts(l)]
  BY <1>2, <1>5, <1>6
<1> QED
  BY <1>4, <1>7 DEF OnceEach, RR

\* However a broadcast is ordered, it lists every table at exactly one position.
THEOREM EveryModeOnce ==
    ASSUME NEW l \in Layouts, NEW m \in Modes, NEW list \in Broadcasts(l, m)
    PROVE  OnceEach(l, list)
<1>1. CASE m = "default"
  BY <1>1, DefaultOnce DEF Broadcasts
<1>2. CASE m = "round_robin"
  BY <1>2, RoundRobinOnce DEF Broadcasts
<1>3. CASE m = "shuffle"
  BY <1>3, DefaultOnce, ShuffleOnce DEF Broadcasts
<1> QED
  BY <1>1, <1>2, <1>3 DEF Modes

-----------------------------------------------------------------------------
\* What the states of MCSharding are: a row of a configured layout with the
\* identifier it was given, and a broadcast of its mode.
IInv ==
    /\ s \in Configured
    /\ mode \in Modes
    /\ shardVal \in Int
    /\ \E ts \in 0 .. TimestampSize - 1, seq \in 0 .. SequenceSize - 1 :
           id = MakeID(ts, shardVal, seq)
    /\ dsts \in Broadcasts(s, mode)

LEMMA ConfiguredLayouts ==
    ASSUME NEW l \in Configured
    PROVE  l \in Layouts /\ \E k \in Nat \ {0} : HashSize = k * Total(l)
<1>1. l \in Layouts /\ Divides(Total(l), HashSize)
  BY CountsAssumption DEF Configured, Layouts
<1> DEFINE n == Total(l)
           k == HashSize \div n
<1>2. n \in Nat \ {0} /\ HashSize \in Nat \ {0} /\ HashSize % n = 0
  BY <1>1, LayoutPositive, LayoutAssumption DEF Divides
<1> HIDE DEF n
<1>3. HashSize = k * n + 0 /\ k \in Int
  BY <1>2, DivMod
<1> HIDE DEF k
<1>4. k * n \in Int
  BY <1>2, <1>3, MulFacts
<1>5. HashSize = k * n
  BY <1>2, <1>3, <1>4
<1>6. k > 0
  <2> SUFFICES ASSUME k < 1 PROVE FALSE
    BY <1>3
  <2>1. k <= 0 => k * n <= 0
    BY <1>2, <1>3, SMT
  <2> QED
    BY <1>2, <1>3, <1>5, <2>1
<1> QED
  BY <1>1, <1>3, <1>5, <1>6 DEF n

THEOREM Invariant == Spec => []IInv
<1>1. Init => IInv
  <2> SUFFICES ASSUME Init PROVE IInv
    OBVIOUS
  <2>1. 0 \in 0 .. TimestampSize - 1 /\ 0 \in 0 .. SequenceSize - 1
    BY LayoutAssumption
  <2>2. id = MakeID(0, shardVal, 0)
    BY DEF Init
  <2> QED
    BY <2>1, <2>2 DEF Init, IInv
<1>2. IInv /\ [Next]_vars => IInv'
  <2> SUFFICES ASSUME IInv, [Next]_vars PROVE IInv'
    OBVIOUS
  <2>1. CASE NextRow
    <3>1. /\ shardVal' = shardVal + 1
          /\ \E ts \in 0 .. TimestampSize - 1, seq \in 0 .. SequenceSize - 1 :
                 id' = MakeID(ts, shardVal', seq)
      BY <2>1 DEF NextRow, Row
    <3>2. UNCHANGED <<s, mode, dsts>> /\ shardVal' \in Int
      BY <2>1, <3>1 DEF NextRow, IInv
    <3> QED
      BY <3>1, <3>2 DEF IInv
  <2>2. CASE Broadcast
    BY <2>2 DEF Broadcast, IInv
  <2>3. CASE UNCHANGED vars
    BY <2>3 DEF vars, IInv
  <2> QED
    BY <2>1, <2>2, <2>3 DEF Next
<1> QED
  BY <1>1, <1>2, PTL DEF Spec

\* A row is found where it was written by whoever knows its identifier and by
\* whoever knows its shard value, in every configured layout (types.go:27-31).
THEOREM AlwaysRoutesAgree == Spec => []RoutesAgree
<1>1. IInv => RoutesAgree
  <2> SUFFICES ASSUME IInv PROVE RoutesAgree
    OBVIOUS
  <2>1. s \in Configured
    BY DEF IInv
  <2>2. s \in Layouts /\ \E k \in Nat \ {0} : HashSize = k * Total(s)
    BY <2>1, ConfiguredLayouts
  <2>3. \E ts \in 0 .. TimestampSize - 1, seq \in 0 .. SequenceSize - 1 :
            id = MakeID(ts, shardVal, seq)
    BY DEF IInv
  <2>4. \A ts \in 0 .. TimestampSize - 1 : ts \in Int
    BY LayoutAssumption
  <2>5. shardVal \in Int
    BY DEF IInv
  <2> QED
    BY <2>2, <2>3, <2>4, <2>5, RoutesAgreeAlways DEF RoutesAgree
<1> QED
  BY <1>1, Invariant, PTL

\* A broadcast reaches the table of every row exactly once, in every mode, for
\* every configured layout and every number of tables (balanced_sharding.go:80-154).
THEOREM AlwaysBroadcastReachesRowOnce == Spec => []BroadcastReachesRowOnce
<1>1. IInv => BroadcastReachesRowOnce
  <2> SUFFICES ASSUME IInv PROVE BroadcastReachesRowOnce
    OBVIOUS
  <2> DEFINE dst == Shard(s, shardVal)
             n == Total(s)
  <2>1. s \in Layouts /\ mode \in Modes /\ dsts \in Broadcasts(s, mode) /\ shardVal \in Int
    BY ConfiguredLayouts DEF IInv
  <2>2. OnceEach(s, dsts)
    BY <2>1, EveryModeOnce
  <2>3. dst \in Dsts(s) /\ n \in Nat
    BY <2>1, ShardInLayout, LayoutPositive
  <2>4. dsts \in [1 .. n -> Dsts(s)]
    BY <2>2 DEF OnceEach
  <2>5. PICK k \in 1 .. n : dsts[k] = dst /\ \A j \in 1 .. n : dsts[j] = dst => j = k
    BY <2>2, <2>3 DEF OnceEach
  <2> HIDE DEF n, dst
  <2>6. Len(dsts) = n /\ DOMAIN dsts = 1 .. n
    BY <2>3, <2>4
  <2>7. {j \in DOMAIN dsts : dsts[j] = dst} = {k}
    BY <2>5, <2>6
  <2>8. Cardinality({k}) = 1
    BY FS_Singleton
  <2> QED
    BY <2>6, <2>7, <2>8 DEF BroadcastReachesRowOnce, n, dst
<1> QED
  BY <1>1, Invariant, PTL

\* Round robin never asks one database twice in a row while there are others, for
\* any number of databases and tables (balanced_sharding.go:94-97).
THEOREM AlwaysRoundRobinAlternates == Spec => []RoundRobinAlternates
<1>1. IInv => RoundRobinAlternates
  <2> SUFFICES ASSUME IInv, mode = "round_robin", s.db > 1,
                      NEW k \in 1 .. Len(dsts) - 1
               PROVE  dsts[k].db # dsts[k + 1].db
    BY DEF RoundRobinAlternates
  <2>1. s \in Layouts /\ dsts \in Broadcasts(s, mode)
    BY ConfiguredLayouts DEF IInv
  <2>2. dsts = RoundRobin(ModuloBroadcast(s))
    BY <2>1 DEF Broadcasts
  <2>3. dsts \in [1 .. Total(s) -> Dsts(s)] /\ Total(s) \in Nat
    BY <2>1, <2>2, RoundRobinOnce, LayoutPositive DEF OnceEach
  <2>4. Len(dsts) = Total(s)
    BY <2>3
  <2>5. k \in 1 .. Total(s) /\ k + 1 \in 1 .. Total(s) /\ (k + 1) - 1 = (k - 1) + 1
        /\ k - 1 \in Int
    BY <2>3, <2>4
  <2>6. dsts[k].db = (k - 1) % s.db /\ dsts[k + 1].db = ((k - 1) + 1) % s.db
    <3> DEFINE p == k + 1
    <3>1. dsts[k] = [db |-> (k - 1) % s.db, tb |-> (k - 1) \div s.db]
      BY <2>1, <2>2, <2>5, RoundRobinOrder
    <3>2. dsts[p] = [db |-> (p - 1) % s.db, tb |-> (p - 1) \div s.db]
      <4>1. p \in 1 .. Total(s)
        BY <2>5
      <4> HIDE DEF p
      <4> QED
        BY <2>1, <2>2, <4>1, RoundRobinOrder
    <3>3. p - 1 = (k - 1) + 1
      BY <2>5
    <3> HIDE DEF p
    <3>4. dsts[k].db = (k - 1) % s.db /\ dsts[p].db = ((k - 1) + 1) % s.db
      BY <3>1, <3>2, <3>3
    <3> QED
      BY <3>4 DEF p
  <2>7. (k - 1) % s.db # ((k - 1) + 1) % s.db
    BY <2>1, <2>5, LayoutPositive, SuccessorDiffers
  <2> QED
    BY <2>6, <2>7
<1> QED
  BY <1>1, Invariant, PTL
=============================================================================
