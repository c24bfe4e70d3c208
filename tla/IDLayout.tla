------------------------------- MODULE IDLayout -------------------------------
(***************************************************************************)
(* The layout of the 63-bit identifiers of                                 *)
(* internal/pkg/sharding/idgen/snowflake: a millisecond timestamp, the     *)
(* shard value and a sequence number, packed with shifts and masks.  A     *)
(* shift by k bits is a multiplication by 2^k and a mask of k bits is a    *)
(* remainder modulo 2^k, so the fields are described by their sizes.       *)
(***************************************************************************)
EXTENDS Integers

CONSTANTS
    TimestampSize,  \* 2^timestampBits, 2^41 in the code
    HashSize,       \* 2^hashBits,      2^10 in the code
    SequenceSize    \* 2^sequenceBits,  2^12 in the code

ASSUME LayoutAssumption ==
    /\ TimestampSize \in Nat \ {0}
    /\ HashSize \in Nat \ {0}
    /\ SequenceSize \in Nat \ {0}

\* Mutant: the timestamp is shifted by the bits of the sequence only.
MakeID_ShortShift(ts, shardVal, seq) ==
    ((ts % TimestampSize) + (shardVal % HashSize)) * SequenceSize + seq

\* The identifier NextID returns for a timestamp, a shard value and a sequence
\* number: the first two are masked to their field, the last one already fits.
MakeID(ts, shardVal, seq) ==
    ((ts % TimestampSize) * HashSize + (shardVal % HashSize)) * SequenceSize + seq

\* The shard value read back from an identifier.
ExtractShardVal(id) == (id \div SequenceSize) % HashSize

\* Every identifier there is; the code's fit in a signed 64-bit column.
IDs == 0 .. (TimestampSize * HashSize * SequenceSize - 1)
=============================================================================
