------------------------------ MODULE MCSharding ------------------------------
(***************************************************************************)
(* The routing functions over every shard value, timestamp and sequence    *)
(* number of small fields.  A state is one row: the layout of its table,   *)
(* the shard value it was written with and its identifier; a step writes   *)
(* a row with the next shard value and asks for one more broadcast.        *)
(***************************************************************************)
EXTENDS Sharding

CONSTANTS
    DBCounts, TBCounts, \* counts of databases and tables that are configured
    MaxShardVal,        \* greatest shard value (bound)
    MaxShuffled         \* tables at most of a shuffled layout (bound)

ASSUME CountsAssumption ==
    DBCounts \subseteq Nat \ {0} /\ TBCounts \subseteq Nat \ {0}

Divides(m, n) == n % m = 0

\* The tables of config/sharding.yaml are a divisor of the size of the shard
\* field; no constructor asks for it.
Configured ==
    {s \in [db : DBCounts, tb : TBCounts] : Divides(Total(s), HashSize)}

VARIABLES s, shardVal, id, mode, dsts
vars == <<s, shardVal, id, mode, dsts>>

\* NextIDAndShard writes a row; Broadcast lists the tables for a scan.
Row(v) ==
    /\ shardVal' = v
    /\ \E ts \in 0 .. TimestampSize - 1, seq \in 0 .. SequenceSize - 1 :
           id' = MakeID(ts, v, seq)

Init ==
    /\ s \in Configured
    /\ shardVal = 0
    /\ id = MakeID(0, 0, 0)
    /\ mode \in Modes
    /\ mode = "shuffle" => Total(s) <= MaxShuffled
    /\ dsts \in Broadcasts(s, mode)

NextRow ==
    /\ shardVal < MaxShardVal
    /\ Row(shardVal + 1)
    /\ UNCHANGED <<s, mode, dsts>>

Broadcast ==
    /\ dsts' \in Broadcasts(s, mode)
    /\ UNCHANGED <<s, shardVal, id, mode>>

Next == NextRow \/ Broadcast

Spec == Init /\ [][Next]_vars

\* A row is found where it was written by whoever knows its identifier, and by
\* whoever knows its shard value (types.go:27-31, helper.go:56-58).
RoutesAgree ==
    /\ DstFromID(s, id) = Shard(s, shardVal)
    /\ DstFromShardVal(s, shardVal) = Shard(s, shardVal)

\* A broadcast reaches every table exactly once, in every mode, so a scan sees
\* every row once.
BroadcastReachesRowOnce ==
    /\ Len(dsts) = Total(s)
    /\ Cardinality({k \in DOMAIN dsts : dsts[k] = Shard(s, shardVal)}) = 1

\* Round robin never asks one database twice in a row while there are others
\* (balanced_sharding.go:94-97).
RoundRobinAlternates ==
    mode = "round_robin" /\ s.db > 1 =>
        \A k \in 1 .. Len(dsts) - 1 : dsts[k].db # dsts[k + 1].db
=============================================================================
