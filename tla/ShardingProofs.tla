---------------------------- MODULE ShardingProofs ----------------------------
(***************************************************************************)
(* Facts about identifiers, for every size of their fields, and about      *)
(* routing, for every layout and every shard value.                        *)
(***************************************************************************)
EXTENDS Sharding, TLAPS

\* Division with remainder is unique: a * n + r has quotient a, remainder r.
\* It is what makes the shifts and masks of NextID reversible.
LEMMA DivisionUnique ==
    ASSUME NEW n \in Nat \ {0}, NEW a \in Int, NEW r \in 0 .. n - 1
    PROVE  (a * n + r) \div n = a /\ (a * n + r) % n = r
BY SMT

\* An integer is its quotient times the divisor plus its remainder.
LEMMA DivMod ==
    ASSUME NEW n \in Nat \ {0}, NEW a \in Int
    PROVE  a = (a \div n) * n + (a % n) /\ a \div n \in Int
BY SMT

\* A masked value fits its field.
LEMMA ModRange ==
    ASSUME NEW n \in Nat \ {0}, NEW a \in Int
    PROVE  a % n \in 0 .. n - 1
BY SMT

\* A value that fits its field is not changed by the mask.
LEMMA ModSmall ==
    ASSUME NEW n \in Nat \ {0}, NEW a \in 0 .. n - 1
    PROVE  a % n = a
BY SMT

\* A packed pair of fields compares by its high field first.
LEMMA PackLess ==
    ASSUME NEW n \in Nat \ {0}, NEW a \in Int, NEW b \in Int, a < b,
           NEW r \in 0 .. n - 1, NEW s \in 0 .. n - 1
    PROVE  a * n + r < b * n + s
<1>1. b * n >= (a + 1) * n
  BY SMT
<1>2. (a + 1) * n = a * n + n
  BY SMT
<1> QED
  BY <1>1, <1>2, SMT

\* A packed pair of fields fits the product of their sizes.
LEMMA PackRange ==
    ASSUME NEW m \in Nat \ {0}, NEW n \in Nat \ {0},
           NEW a \in 0 .. m - 1, NEW r \in 0 .. n - 1
    PROVE  a * n + r \in 0 .. m * n - 1
<1>1. a * n \in Nat /\ m * n \in Nat
  BY SMT
<1>2. a * n + r < m * n + 0
  BY PackLess, 0 \in 0 .. n - 1
<1> QED
  BY <1>1, <1>2

\* NextID's result is an identifier: it fits the fields and so 63 bits.
LEMMA MakeIDRange ==
    ASSUME NEW ts \in Int, NEW v \in Int, NEW seq \in 0 .. SequenceSize - 1
    PROVE  MakeID(ts, v, seq) \in IDs
<1> USE LayoutAssumption
<1> DEFINE t == ts % TimestampSize
           h == v % HashSize
<1>1. t \in 0 .. TimestampSize - 1 /\ h \in 0 .. HashSize - 1
  BY ModRange
<1>2. TimestampSize * HashSize \in Nat \ {0}
  BY SMT
<1>3. t * HashSize + h \in 0 .. TimestampSize * HashSize - 1
  <2> HIDE DEF t, h
  <2> QED
    BY <1>1, PackRange
<1>4. (t * HashSize + h) * SequenceSize + seq
        \in 0 .. (TimestampSize * HashSize) * SequenceSize - 1
  <2> DEFINE a == t * HashSize + h
             m == TimestampSize * HashSize
  <2>1. a \in 0 .. m - 1 /\ m \in Nat \ {0}
    BY <1>2, <1>3
  <2> HIDE DEF a, m
  <2>2. a * SequenceSize + seq \in 0 .. m * SequenceSize - 1
    BY <2>1, PackRange
  <2> QED
    BY <2>2 DEF a, m
<1> QED
  BY <1>4 DEF MakeID, IDs

\* The shard value read back from an identifier is the one NextID put in,
\* cut to the width of its field (snowflake_generator.go:132-140).
THEOREM ExtractMakeID ==
    ASSUME NEW ts \in Int, NEW v \in Int, NEW seq \in 0 .. SequenceSize - 1
    PROVE  ExtractShardVal(MakeID(ts, v, seq)) = v % HashSize
<1> USE LayoutAssumption
<1> DEFINE t == ts % TimestampSize
           h == v % HashSize
           a == t * HashSize + h
<1>1. t \in Int /\ h \in 0 .. HashSize - 1
  BY ModRange
<1>2. a \in Int /\ a % HashSize = h
  <2> HIDE DEF t, h
  <2> QED
    BY <1>1, DivisionUnique
<1>3. (a * SequenceSize + seq) \div SequenceSize = a
  <2> HIDE DEF a
  <2> QED
    BY <1>2, DivisionUnique
<1>4. MakeID(ts, v, seq) = a * SequenceSize + seq
  BY DEF MakeID
<1> HIDE DEF a
<1> QED
  BY <1>2, <1>3, <1>4 DEF ExtractShardVal, h

\* Identifiers with the same shard value compare by time and then by sequence
\* number, as long as the times fit the timestamp field (until 2094).
THEOREM MakeIDLess ==
    ASSUME NEW t \in 0 .. TimestampSize - 1, NEW u \in 0 .. TimestampSize - 1,
           NEW v \in Int, NEW w \in Int, v % HashSize = w % HashSize,
           NEW p \in 0 .. SequenceSize - 1, NEW q \in 0 .. SequenceSize - 1,
           t < u \/ (t = u /\ p < q)
    PROVE  MakeID(t, v, p) < MakeID(u, w, q)
<1> USE LayoutAssumption
<1> DEFINE h == v % HashSize
           a == t * HashSize + h
           b == u * HashSize + h
<1>1. MakeID(t, v, p) = a * SequenceSize + p /\ MakeID(u, w, q) = b * SequenceSize + q
  BY ModSmall DEF MakeID
<1>2. h \in 0 .. HashSize - 1
  BY ModRange
<1>3. CASE t < u
  <2> HIDE DEF h
  <2>1. a \in Int /\ b \in Int
    BY <1>2, SMT
  <2>2. a < b
    BY <1>2, <1>3, PackLess
  <2> HIDE DEF a, b
  <2> QED
    BY <1>1, <2>1, <2>2, PackLess
<1>4. CASE t = u /\ p < q
  <2>1. a = b /\ a \in Int
    BY <1>2, <1>4
  <2> HIDE DEF a, b
  <2>2. a * SequenceSize \in Int
    BY <2>1
  <2> QED
    BY <1>1, <1>4, <2>1, <2>2
<1> QED
  BY <1>3, <1>4

-----------------------------------------------------------------------------
\* Products of integers.
LEMMA MulFacts ==
    ASSUME NEW a \in Int, NEW b \in Int, NEW c \in Int
    PROVE  /\ a * b \in Int
           /\ a * b = b * a
           /\ a * (b * c) = (a * b) * c
           /\ (a + b) * c = a * c + b * c
BY SMT

\* A remainder survives a coarser one whose modulus it divides.
LEMMA ModMod ==
    ASSUME NEW n \in Nat \ {0}, NEW k \in Nat \ {0}, NEW a \in Int
    PROVE  (a % (k * n)) % n = a % n
<1> DEFINE m == k * n
           q == a \div m
           r == a % m
<1>1. m \in Nat \ {0}
  BY SMT
<1>2. q \in Int /\ r \in Int /\ a = q * m + r
  <2> HIDE DEF m
  <2> QED
    BY <1>1, DivMod, ModRange
<1>3. r \div n \in Int /\ r % n \in 0 .. n - 1 /\ r = (r \div n) * n + (r % n)
  <2> HIDE DEF r
  <2> QED
    BY <1>2, DivMod, ModRange
<1> DEFINE b == r \div n
           c == r % n
<1>4. a = (q * k + b) * n + c
  <2> HIDE DEF q, r, b, c
  <2>0. q \in Int /\ b \in Int /\ k \in Int /\ n \in Int /\ q * k \in Int
    BY <1>2, <1>3, MulFacts DEF b
  <2>1. q * m = (q * k) * n
    BY <2>0, MulFacts
  <2>2. (q * k + b) * n = (q * k) * n + b * n
    BY <2>0, MulFacts
  <2> HIDE DEF m
  <2>3. a = q * m + r /\ r = b * n + c /\ b * n \in Int /\ q * m \in Int /\ c \in Int
    BY <1>1, <1>2, <1>3, MulFacts DEF b, c
  <2>4. a = (q * k) * n + (b * n + c) /\ (q * k) * n \in Int
    BY <2>1, <2>3
  <2> QED
    BY <2>2, <2>3, <2>4
<1>5. q * k + b \in Int
  BY <1>2, <1>3, SMT
<1> DEFINE d == q * k + b
<1>6. a % n = c
  <2> HIDE DEF c, d
  <2>1. (d * n + c) % n = c
    BY <1>3, <1>5, DivisionUnique DEF c, d
  <2> QED
    BY <1>4, <2>1 DEF d
<1> QED
  BY <1>6

\* The quotient of what fits a product fits the other factor.
LEMMA QuotientRange ==
    ASSUME NEW d \in Nat \ {0}, NEW t \in Nat \ {0}, NEW i \in 0 .. d * t - 1
    PROVE  i \div d \in 0 .. t - 1
<1> DEFINE a == i \div d
           r == i % d
<1>1. /\ i = a * d + r /\ a \in Int /\ r \in 0 .. d - 1
      /\ i \in Int /\ i >= 0 /\ i < d * t
  <2>1. d * t \in Int
    BY SMT
  <2>2. i \in Int /\ i >= 0 /\ i < d * t
    BY <2>1
  <2> QED
    BY <2>2, DivMod, ModRange
<1> HIDE DEF a, r
<1>2. ~(a < 0)
  <2> SUFFICES ASSUME a < 0 PROVE FALSE
    OBVIOUS
  <2>1. a * d + r < 0 * d + 0
    BY <1>1, PackLess, 0 \in 0 .. d - 1
  <2> QED
    BY <1>1, <2>1
<1>3. ~(a >= t)
  <2> SUFFICES ASSUME a >= t PROVE FALSE
    OBVIOUS
  <2>1. a * d >= t * d /\ t * d = d * t /\ a * d \in Int /\ t * d \in Int
    BY <1>1, SMT
  <2> QED
    BY <1>1, <2>1
<1> QED
  BY <1>1, <1>2, <1>3 DEF a

\* The counts of a layout and their product are positive.
LEMMA LayoutPositive ==
    ASSUME NEW s \in Layouts
    PROVE  s.db \in Nat \ {0} /\ s.tb \in Nat \ {0} /\ Total(s) \in Nat \ {0}
<1>1. s.db \in Nat \ {0} /\ s.tb \in Nat \ {0}
  BY DEF Layouts
<1>2. \A a, b \in Nat \ {0} : a * b \in Nat \ {0}
  BY SMT
<1> QED
  BY <1>1, <1>2 DEF Total

\* A row written by shard value and one looked for by shard value go to the same
\* table; one looked for by identifier too, provided the number of tables divides
\* the size of the shard field - a condition NewModuloSharding does not check.
THEOREM RoutesAgreeAlways ==
    ASSUME NEW s \in Layouts, NEW k \in Nat \ {0}, HashSize = k * Total(s),
           NEW v \in Int, NEW ts \in Int, NEW seq \in 0 .. SequenceSize - 1
    PROVE  /\ DstFromID(s, MakeID(ts, v, seq)) = Shard(s, v)
           /\ DstFromShardVal(s, v) = Shard(s, v)
<1>1. Total(s) \in Nat \ {0}
  BY LayoutPositive
<1>2. (v % HashSize) % Total(s) = v % Total(s)
  <2> DEFINE n == Total(s)
  <2> HIDE DEF n
  <2>1. n \in Nat \ {0} /\ HashSize = k * n
    BY <1>1 DEF n
  <2>2. (v % (k * n)) % n = v % n
    BY <2>1, ModMod
  <2> QED
    BY <2>1, <2>2 DEF n
<1>3. ExtractShardVal(MakeID(ts, v, seq)) = v % HashSize
  BY ExtractMakeID
<1> QED
  BY <1>2, <1>3 DEF DstFromID, DstFromShardVal, Shard

\* The condition is the weakest: with any other number of tables some shard value -
\* the first one too large for its field - is written to one table and looked for
\* by identifier in another one (modulo_sharding.go:89-112).
THEOREM RoutesAgreeExactly ==
    ASSUME NEW s \in Layouts
    PROVE  (\A v \in Nat : DstFromID(s, MakeID(0, v, 0)) = Shard(s, v))
               <=> (\E k \in Nat \ {0} : HashSize = k * Total(s))
<1> USE LayoutAssumption
<1> DEFINE n == Total(s)
<1>1. n \in Nat \ {0} /\ s.db \in Nat \ {0}
  BY LayoutPositive
<1>2. ASSUME NEW k \in Nat \ {0}, HashSize = k * Total(s), NEW v \in Nat
      PROVE  DstFromID(s, MakeID(0, v, 0)) = Shard(s, v)
  BY <1>2, RoutesAgreeAlways, 0 \in 0 .. SequenceSize - 1, 0 \in Int, v \in Int
<1>3. ASSUME \A v \in Nat : DstFromID(s, MakeID(0, v, 0)) = Shard(s, v)
      PROVE  \E k \in Nat \ {0} : HashSize = k * n
  <2> DEFINE v == HashSize
             x == v % n
  <2>1. \A m \in Nat \ {0} : 0 % m = 0 /\ 0 \div m = 0 /\ m % m = 0
    <3> TAKE m \in Nat \ {0}
    <3>1. 0 * m + 0 = 0 /\ 1 * m + 0 = m /\ 0 \in 0 .. m - 1
      OBVIOUS
    <3>2. (0 * m + 0) \div m = 0 /\ (0 * m + 0) % m = 0
      BY <3>1, DivisionUnique, 0 \in Int
    <3>3. (1 * m + 0) % m = 0
      BY <3>1, DivisionUnique, 1 \in Int
    <3> QED
      BY <3>1, <3>2, <3>3
  <2>2. ExtractShardVal(MakeID(0, v, 0)) = 0
    BY <2>1, ExtractMakeID, 0 \in 0 .. SequenceSize - 1
  <2>3. DstFromID(s, MakeID(0, v, 0)) = [db |-> 0, tb |-> 0]
    BY <1>1, <2>1, <2>2 DEF DstFromID, DstFromShardVal
  <2>4. x \in Int /\ x % s.db = 0 /\ x \div s.db = 0
    <3>1. x \in Int
      <4>1. v \in Int
        OBVIOUS
      <4> HIDE DEF n, v
      <4>2. v % n \in 0 .. n - 1
        BY <1>1, <4>1, ModRange
      <4> QED
        BY <1>1, <4>2
    <3>2. Shard(s, v) = [db |-> x % s.db, tb |-> x \div s.db]
      BY DEF Shard
    <3>3. Shard(s, v) = [db |-> 0, tb |-> 0]
      BY <1>3, <2>3
    <3> HIDE DEF x
    <3> QED
      BY <3>1, <3>2, <3>3
  <2>5. x = 0
    <3> DEFINE d == s.db
    <3>1. d \in Nat \ {0}
      BY <1>1
    <3> HIDE DEF d, x
    <3>2. x = (x \div d) * d + (x % d)
      BY <2>4, <3>1, DivMod
    <3> QED
      BY <2>4, <3>1, <3>2 DEF d
  <2>6. v = (v \div n) * n /\ v \div n \in Int
    <3>0. v \in Int
      OBVIOUS
    <3> HIDE DEF n, v
    <3>1. v = (v \div n) * n + x /\ v \div n \in Int
      BY <1>1, <3>0, DivMod
    <3> HIDE DEF x
    <3>2. (v \div n) * n \in Int
      BY <1>1, <3>1
    <3> QED
      BY <2>5, <3>1, <3>2
  <2>7. v \div n \in Nat \ {0}
    <3> DEFINE q == v \div n
    <3>1. q \in Int /\ v = q * n /\ v \in Nat \ {0} /\ n \in Nat \ {0}
      BY <1>1, <2>6
    <3> HIDE DEF q, v, n
    <3>2. q <= 0 => q * n <= 0
      BY <3>1
    <3> QED
      BY <3>1, <3>2 DEF q
  <2> QED
    BY <2>6, <2>7
<1> QED
  BY <1>2, <1>3

\* Every shard value has a table, and it is one of the layout's.
THEOREM ShardInLayout ==
    ASSUME NEW s \in Layouts, NEW v \in Int
    PROVE  Shard(s, v) \in Dsts(s)
<1> DEFINE i == v % Total(s)
<1>1. s.db \in Nat \ {0} /\ s.tb \in Nat \ {0} /\ Total(s) \in Nat \ {0}
  BY LayoutPositive
<1>2. i \in 0 .. Total(s) - 1
  BY <1>1, ModRange
<1> HIDE DEF i
<1>3. i % s.db \in 0 .. s.db - 1
  <2> DEFINE d == s.db
  <2>1. d \in Nat \ {0} /\ i \in Int
    BY <1>1, <1>2
  <2> HIDE DEF d
  <2>2. i % d \in 0 .. d - 1
    BY <2>1, ModRange
  <2> QED
    BY <2>2 DEF d
<1>4. i \div s.db \in 0 .. s.tb - 1
  <2> DEFINE d == s.db
             t == s.tb
  <2>1. d \in Nat \ {0} /\ t \in Nat \ {0} /\ i \in 0 .. d * t - 1
    BY <1>1, <1>2 DEF Total
  <2> HIDE DEF d, t
  <2>2. i \div d \in 0 .. t - 1
    BY <2>1, QuotientRange
  <2> QED
    BY <2>2 DEF d, t
<1> QED
  BY <1>3, <1>4 DEF Shard, Dsts, i

\* Different tables of a layout are reached from different shard values, and each
\* is reached: no table stays empty by construction.
THEOREM EveryTableReached ==
    ASSUME NEW s \in Layouts, NEW dst \in Dsts(s)
    PROVE  \E v \in 0 .. Total(s) - 1 : Shard(s, v) = dst
<1> DEFINE v == dst.tb * s.db + dst.db
<1>1. /\ s.db \in Nat \ {0} /\ s.tb \in Nat \ {0} /\ Total(s) \in Nat \ {0}
      /\ dst.db \in 0 .. s.db - 1 /\ dst.tb \in 0 .. s.tb - 1
  BY LayoutPositive DEF Dsts
<1>2. v \in 0 .. Total(s) - 1
  <2>1. s.tb * s.db = Total(s)
    <3>1. \A a, b \in Nat : a * b = b * a
      BY SMT
    <3> QED
      BY <1>1, <3>1 DEF Total
  <2>2. v \in 0 .. s.tb * s.db - 1
    BY <1>1, PackRange
  <2> QED
    BY <2>1, <2>2
<1>3. v % Total(s) = v
  <2> HIDE DEF v
  <2> QED
    BY <1>1, <1>2, ModSmall
<1>4. v \div s.db = dst.tb /\ v % s.db = dst.db
  <2> DEFINE n == s.db
             a == dst.tb
             r == dst.db
  <2>1. n \in Nat \ {0} /\ a \in Int /\ r \in 0 .. n - 1
    BY <1>1
  <2> HIDE DEF n, a, r
  <2>2. (a * n + r) \div n = a /\ (a * n + r) % n = r
    BY <2>1, DivisionUnique
  <2> QED
    BY <2>2 DEF n, a, r
<1>5. dst = [db |-> dst.db, tb |-> dst.tb]
  BY DEF Dsts
<1> WITNESS v \in 0 .. Total(s) - 1
<1> QED
  BY <1>3, <1>4, <1>5 DEF Shard

\* A broadcast lists every table at exactly one place, so a scan reads no row twice
\* and misses none (modulo_sharding.go:117-132).
THEOREM BroadcastOnce ==
    ASSUME NEW s \in Layouts, NEW dst \in Dsts(s)
    PROVE  \E k \in 1 .. Total(s) :
               /\ ModuloBroadcast(s)[k] = dst
               /\ \A j \in 1 .. Total(s) : ModuloBroadcast(s)[j] = dst => j = k
<1> DEFINE k == dst.db * s.tb + dst.tb
<1>1. /\ s.db \in Nat \ {0} /\ s.tb \in Nat \ {0} /\ Total(s) \in Nat \ {0}
      /\ dst.db \in 0 .. s.db - 1 /\ dst.tb \in 0 .. s.tb - 1
  BY LayoutPositive DEF Dsts
<1>2. k \in 0 .. Total(s) - 1
  BY <1>1, PackRange DEF Total
<1>3. k \div s.tb = dst.db /\ k % s.tb = dst.tb
  <2> DEFINE n == s.tb
             a == dst.db
             r == dst.tb
  <2>1. n \in Nat \ {0} /\ a \in Int /\ r \in 0 .. n - 1
    BY <1>1
  <2> HIDE DEF n, a, r
  <2>2. (a * n + r) \div n = a /\ (a * n + r) % n = r
    BY <2>1, DivisionUnique
  <2> QED
    BY <2>2 DEF n, a, r
<1>4. dst = [db |-> dst.db, tb |-> dst.tb]
  BY DEF Dsts
<1>5. ModuloBroadcast(s)[k + 1] = dst
  <2>1. k + 1 \in 1 .. Total(s) /\ (k + 1) - 1 = k
    BY <1>1, <1>2
  <2> HIDE DEF k
  <2> QED
    BY <1>3, <1>4, <2>1 DEF ModuloBroadcast
<1>6. ASSUME NEW j \in 1 .. Total(s), ModuloBroadcast(s)[j] = dst
      PROVE  j = k + 1
  <2>1. (j - 1) \div s.tb = dst.db /\ (j - 1) % s.tb = dst.tb
    BY <1>4, <1>6 DEF ModuloBroadcast
  <2>2. j - 1 = ((j - 1) \div s.tb) * s.tb + ((j - 1) % s.tb)
    <3> DEFINE n == s.tb
               x == j - 1
    <3>1. n \in Nat \ {0} /\ x \in Int
      BY <1>1
    <3> HIDE DEF n, x
    <3>2. x = (x \div n) * n + (x % n)
      BY <3>1, DivMod
    <3> QED
      BY <3>2 DEF n, x
  <2>3. j - 1 = k
    BY <2>1, <2>2
  <2> QED
    BY <1>1, <2>3
<1>7. k + 1 \in 1 .. Total(s)
  BY <1>1, <1>2
<1> HIDE DEF k
<1> WITNESS k + 1 \in 1 .. Total(s)
<1> QED
  BY <1>5, <1>6

\* An identifier used as a shard value (sharder.go:26-33) is routed by its sequence
\* number when the number of tables divides the sequence field: the first
\* identifier of every millisecond goes to the first table of the first database.
THEOREM FirstOfMillisecondSkew ==
    ASSUME NEW s \in Layouts, NEW k \in Nat \ {0}, SequenceSize = k * Total(s),
           NEW v \in Int, NEW ts \in Int
    PROVE  Shard(s, MakeID(ts, v, 0)) = [db |-> 0, tb |-> 0]
<1> USE LayoutAssumption
<1> DEFINE n == Total(s)
           a == (ts % TimestampSize) * HashSize + (v % HashSize)
           id == MakeID(ts, v, 0)
<1>1. n \in Nat \ {0} /\ s.db \in Nat \ {0}
  BY LayoutPositive
<1>2. a \in Int
  <2>1. ts % TimestampSize \in Int /\ v % HashSize \in Int
    BY ModRange
  <2> QED
    BY <2>1, SMT
<1>3. id \in Int /\ id % SequenceSize = 0
  <2>1. id = a * SequenceSize + 0 /\ 0 \in 0 .. SequenceSize - 1
    BY DEF MakeID
  <2> HIDE DEF a, id
  <2>2. a * SequenceSize + 0 \in Int
    BY <1>2, SMT
  <2>3. (a * SequenceSize + 0) % SequenceSize = 0
    BY <1>2, <2>1, DivisionUnique
  <2> QED
    BY <2>1, <2>2, <2>3
<1>4. \A m \in Nat \ {0} : (0 * m + 0) \div m = 0 /\ (0 * m + 0) % m = 0
  <2> TAKE m \in Nat \ {0}
  <2> QED
    BY DivisionUnique, 0 \in 0 .. m - 1, 0 \in Int
<1>5. \A m \in Nat \ {0} : 0 \div m = 0 /\ 0 % m = 0
  <2> TAKE m \in Nat \ {0}
  <2>1. 0 * m + 0 = 0
    OBVIOUS
  <2> QED
    BY <1>4, <2>1
<1>6. id % n = 0
  <2> HIDE DEF n, id
  <2>1. (id % (k * n)) % n = id % n
    BY <1>1, <1>3, ModMod
  <2>2. id % (k * n) = 0
    BY <1>3 DEF n
  <2> QED
    BY <1>1, <1>5, <2>1, <2>2
<1> QED
  BY <1>1, <1>5, <1>6 DEF Shard
=============================================================================
