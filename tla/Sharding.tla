------------------------------- MODULE Sharding -------------------------------
(***************************************************************************)
(* internal/pkg/sharding: where a row lives.  ModuloSharding maps a shard  *)
(* value to a database and a table of it, BalancedSharding reorders the    *)
(* list of all of them.  The layout of one logical table is a record s:    *)
(* s.db databases (dbShardCount) with s.tb tables each (tbShardCount).     *)
(* The names of databases and tables are their suffixes behind a prefix,   *)
(* so a destination is the pair of suffixes.                               *)
(***************************************************************************)
EXTENDS IDLayout, Sequences, FiniteSets

\* The counts NewModuloSharding accepts: neither is zero.  Nothing relates
\* them to the size of the shard value an identifier has room for.
Layouts == [db : Nat \ {0}, tb : Nat \ {0}]

Total(s) == s.db * s.tb
Dsts(s) == [db : 0 .. s.db - 1, tb : 0 .. s.tb - 1]

\* The table a row with this shard value is written to.
Shard(s, shardVal) ==
    LET shardIndex == shardVal % Total(s)
    IN  [db |-> shardIndex % s.db, tb |-> shardIndex \div s.db]

\* Mutant: divided by the tables of a database, not by the databases.
DstFromShardVal_ByTables(s, shardVal) ==
    LET shardIndex == shardVal % Total(s)
    IN  [db |-> shardIndex % s.db, tb |-> shardIndex \div s.tb]

\* The table it is looked for when only the shard value is known.
DstFromShardVal(s, shardVal) ==
    LET shardIndex == shardVal % Total(s)
    IN  [db |-> shardIndex % s.db, tb |-> shardIndex \div s.db]

\* The table it is looked for when only its identifier is known.
DstFromID(s, id) == DstFromShardVal(s, ExtractShardVal(id))

\* Mutant: databases and tables swapped in the bounds of the two loops.
ModuloBroadcast_Swapped(s) ==
    [k \in 1 .. Total(s) |-> [db |-> (k - 1) \div s.db, tb |-> (k - 1) % s.db]]

\* All tables, database by database.
ModuloBroadcast(s) ==
    [k \in 1 .. Total(s) |-> [db |-> (k - 1) \div s.tb, tb |-> (k - 1) % s.tb]]

\* Round robin: the i-th table of each database, the databases in the order in
\* which they first occur, before the (i+1)-th table of any.
Round(dsts, k) == Cardinality({j \in 1 .. k - 1 : dsts[j].db = dsts[k].db})
FirstOfDB(dsts, k) ==
    CHOOSE j \in 1 .. k : /\ dsts[j].db = dsts[k].db
                          /\ \A i \in 1 .. j - 1 : dsts[i].db # dsts[k].db

\* Mutant: all tables of a database before those of the next one.
ComesBefore_ByDatabase(dsts, j, k) ==
    \/ FirstOfDB(dsts, j) < FirstOfDB(dsts, k)
    \/ FirstOfDB(dsts, j) = FirstOfDB(dsts, k) /\ Round(dsts, j) < Round(dsts, k)

ComesBefore(dsts, j, k) ==
    \/ Round(dsts, j) < Round(dsts, k)
    \/ Round(dsts, j) = Round(dsts, k) /\ FirstOfDB(dsts, j) < FirstOfDB(dsts, k)

RoundRobin(dsts) ==
    LET position(k) == Cardinality({j \in DOMAIN dsts : ComesBefore(dsts, j, k)})
    IN  [p \in DOMAIN dsts |-> dsts[CHOOSE k \in DOMAIN dsts : position(k) = p - 1]]

\* Shuffled: the tables in any order.
Shuffles(dsts) ==
    {[p \in DOMAIN dsts |-> dsts[f[p]]] :
        f \in {g \in [DOMAIN dsts -> DOMAIN dsts] :
                   \A i, j \in DOMAIN dsts : i # j => g[i] # g[j]}}

Modes == {"default", "round_robin", "shuffle"}

\* What Broadcast may return in each mode.
Broadcasts(s, mode) ==
    CASE mode = "default"     -> {ModuloBroadcast(s)}
      [] mode = "round_robin" -> {RoundRobin(ModuloBroadcast(s))}
      [] mode = "shuffle"     -> Shuffles(ModuloBroadcast(s))
=============================================================================
