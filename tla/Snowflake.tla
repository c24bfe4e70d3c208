------------------------------ MODULE Snowflake ------------------------------
(***************************************************************************)
(* One snowflake Generator of a hermet process and the goroutines that     *)
(* call NextID on it, with the two clocks the code depends on: the wall    *)
(* clock it reads, which ticks and which an operator or NTP may set, and   *)
(* the monotonic time that measures time.Sleep.                            *)
(*                                                                         *)
(* A caller goes through NextID as                                         *)
(*     idle -> lock -> read -> [sleep ->] stamp -> [overflow ->] idle      *)
(* and holds the generator's mutex from read on, also while it sleeps.     *)
(***************************************************************************)
EXTENDS IDLayout, Sequences

CONSTANTS
    Proc,           \* goroutines that call NextID
    NoProc,         \* nobody
    ShardVals,      \* shard values they pass
    WordSize,       \* 2^64: what a uint64 counts modulo
    MaxBackward,    \* maxBackwardMillis, 5000 in the code
    MinClock,       \* the wall clock, in milliseconds since 2025-01-01,
    MaxClock,       \*   stays in MinClock .. MaxClock (bound)
    MaxSteps,       \* how often the wall clock is set (bound)
    MaxRestarts,    \* how often the process restarts (bound)
    MaxIDs,         \* how many identifiers are issued (bound)
    StepWhileAsleep,\* may the wall clock be set while a caller waits for it?
    RestartBehind   \* may a restarted process see a time it issued IDs for?

ASSUME ProcAssumption == NoProc \notin Proc

ASSUME SnowflakeAssumption ==
    /\ ShardVals \subseteq Nat /\ ShardVals # {}
    /\ WordSize \in Nat \ {0}
    /\ MaxBackward \in Nat
    /\ MinClock \in Int
    /\ MaxClock \in Int
    /\ MinClock <= MaxClock
    /\ MaxSteps \in Nat /\ MaxRestarts \in Nat /\ MaxIDs \in Nat
    /\ StepWhileAsleep \in BOOLEAN
    /\ RestartBehind \in BOOLEAN

VARIABLES
    clock,      \* the wall clock
    high,       \* the latest wall clock there ever was (history)
    mu,         \* holder of Generator.mu
    sequence,   \* Generator.sequence
    lastTime,   \* Generator.lastTime
    pc,         \* where each caller is in NextID
    timestamp,  \* NextID's local timestamp
    shardVal,   \* NextID's argument
    left,       \* milliseconds a sleeping caller still sleeps
    log,        \* what NextID returned, in order (history)
    steps,      \* how often the wall clock was set
    restarts    \* how often the process restarted

gen == <<mu, sequence, lastTime>>
env == <<clock, high, steps, restarts>>
vars == <<clock, high, mu, sequence, lastTime, pc, timestamp, shardVal, left,
          log, steps, restarts>>

Clock == MinClock .. MaxClock

\* uint64(time.Now().UnixMilli()) - epochMillis: before 2025 it wraps around.
Timestamp(c) == c % WordSize

Asleep(p) == pc[p] = "sleep"

Goto(p, l) == pc' = [pc EXCEPT ![p] = l]

\* Does the generator remember, or the wall clock c exceed, every issued time?
Covers(c, last) == \A i \in 1 .. Len(log) : log[i].ts <= last \/ log[i].ts < c

Init ==
    /\ clock \in Clock
    /\ high = clock
    /\ mu = NoProc
    /\ sequence = 0
    /\ lastTime = 0
    /\ pc = [p \in Proc |-> "idle"]
    /\ timestamp = [p \in Proc |-> 0]
    /\ shardVal = [p \in Proc |-> CHOOSE v \in ShardVals : TRUE]
    /\ left = [p \in Proc |-> 0]
    /\ log = << >>
    /\ steps = 0
    /\ restarts = 0

-----------------------------------------------------------------------------
\* A goroutine calls NextID(v).  Bounds: MaxIDs identifiers, and no call once the
\* wall clock was at the horizon.
Call(p, v) ==
    /\ pc[p] = "idle"
    /\ Len(log) < MaxIDs
    /\ high < MaxClock
    /\ Goto(p, "lock")
    /\ shardVal' = [shardVal EXCEPT ![p] = v]
    /\ UNCHANGED <<gen, env, timestamp, left, log>>

\* g.mu.Lock() returns.
Lock(p) ==
    /\ pc[p] = "lock"
    /\ mu = NoProc
    /\ mu' = p
    /\ Goto(p, "read")
    /\ UNCHANGED <<sequence, lastTime, env, timestamp, shardVal, left, log>>

\* Mutant: the clock is not compared with lastTime.
ReadClock_Unchecked(p) ==
    /\ pc[p] = "read"
    /\ timestamp' = [timestamp EXCEPT ![p] = Timestamp(clock)]
    /\ Goto(p, "stamp")
    /\ UNCHANGED <<gen, env, shardVal, left, log>>

\* The first reading of the clock is not behind lastTime.
ReadClock(p) ==
    /\ pc[p] = "read"
    /\ Timestamp(clock) >= lastTime
    /\ timestamp' = [timestamp EXCEPT ![p] = Timestamp(clock)]
    /\ Goto(p, "stamp")
    /\ UNCHANGED <<gen, env, shardVal, left, log>>

\* Mutants: a clock behind by exactly MaxBackward is refused too; the mutex is
\* not unlocked on the way out.
ClockTooFarBack_AtLimit(p) ==
    /\ pc[p] = "read"
    /\ lastTime - Timestamp(clock) >= MaxBackward
    /\ mu' = NoProc
    /\ Goto(p, "idle")
    /\ UNCHANGED <<sequence, lastTime, env, timestamp, shardVal, left, log>>

ClockTooFarBack_KeepsLock(p) ==
    /\ pc[p] = "read"
    /\ lastTime - Timestamp(clock) > MaxBackward
    /\ Goto(p, "idle")
    /\ UNCHANGED <<gen, env, timestamp, shardVal, left, log>>

\* It is behind by more than MaxBackward: NextID returns an error.
ClockTooFarBack(p) ==
    /\ pc[p] = "read"
    /\ lastTime - Timestamp(clock) > MaxBackward
    /\ mu' = NoProc
    /\ Goto(p, "idle")
    /\ UNCHANGED <<sequence, lastTime, env, timestamp, shardVal, left, log>>

\* Mutant: the sleep is a millisecond too short.
SleepBackward_TooShort(p) ==
    /\ pc[p] = "read"
    /\ lastTime - Timestamp(clock) \in 1 .. MaxBackward
    /\ timestamp' = [timestamp EXCEPT ![p] = Timestamp(clock)]
    /\ left' = [left EXCEPT ![p] = lastTime - Timestamp(clock) - 1]
    /\ Goto(p, "sleep")
    /\ UNCHANGED <<gen, env, shardVal, log>>

\* It is behind by less: the caller sleeps for the difference, lock held.
SleepBackward(p) ==
    /\ pc[p] = "read"
    /\ lastTime - Timestamp(clock) \in 1 .. MaxBackward
    /\ timestamp' = [timestamp EXCEPT ![p] = Timestamp(clock)]
    /\ left' = [left EXCEPT ![p] = lastTime - Timestamp(clock)]
    /\ Goto(p, "sleep")
    /\ UNCHANGED <<gen, env, shardVal, log>>

\* The sleep is over; the clock is read once more and not compared again.
Reread(p) ==
    /\ Asleep(p)
    /\ left[p] = 0
    /\ timestamp' = [timestamp EXCEPT ![p] = Timestamp(clock)]
    /\ Goto(p, "stamp")
    /\ UNCHANGED <<gen, env, shardVal, left, log>>

\* The end of NextID: store the time and the sequence number, unlock, return.
Return(p, t, seq) ==
    /\ sequence' = seq
    /\ lastTime' = t
    /\ mu' = NoProc
    /\ log' = Append(log, [ts |-> t, shard |-> shardVal[p], seq |-> seq])
    /\ Goto(p, "idle")
    /\ UNCHANGED <<env, shardVal, left>>

\* Mutant: the sequence number is not masked.
NextSequence_Unmasked == sequence + 1

NextSequence == (sequence + 1) % SequenceSize

\* The millisecond of the previous identifier: the sequence goes on.
SameMillisecond(p) ==
    /\ pc[p] = "stamp"
    /\ timestamp[p] = lastTime
    /\ NextSequence # 0
    /\ Return(p, timestamp[p], NextSequence)
    /\ UNCHANGED timestamp

\* Its sequence is used up: sleep a millisecond, lock held.
SequenceOverflow(p) ==
    /\ pc[p] = "stamp"
    /\ timestamp[p] = lastTime
    /\ NextSequence = 0
    /\ sequence' = 0
    /\ left' = [left EXCEPT ![p] = 1]
    /\ Goto(p, "overflow")
    /\ UNCHANGED <<mu, lastTime, env, timestamp, shardVal, log>>

\* Awake again and still not past lastTime: sleep another millisecond.
StillOverflow(p) ==
    /\ pc[p] = "overflow"
    /\ left[p] = 0
    /\ Timestamp(clock) <= lastTime
    /\ timestamp' = [timestamp EXCEPT ![p] = Timestamp(clock)]
    /\ left' = [left EXCEPT ![p] = 1]
    /\ UNCHANGED <<gen, env, pc, shardVal, log>>

\* Mutants: the millisecond that is used up is taken once more; the next one is
\* taken before the clock shows it.
NextMillisecond_SameAgain(p) ==
    /\ pc[p] = "overflow"
    /\ left[p] = 0
    /\ Timestamp(clock) >= lastTime
    /\ timestamp' = [timestamp EXCEPT ![p] = Timestamp(clock)]
    /\ Return(p, Timestamp(clock), 0)

NextMillisecond_Borrowed(p) ==
    /\ pc[p] = "overflow"
    /\ timestamp' = [timestamp EXCEPT ![p] = lastTime + 1]
    /\ Return(p, lastTime + 1, 0)

\* Awake again in a later millisecond.
NextMillisecond(p) ==
    /\ pc[p] = "overflow"
    /\ left[p] = 0
    /\ Timestamp(clock) > lastTime
    /\ timestamp' = [timestamp EXCEPT ![p] = Timestamp(clock)]
    /\ Return(p, Timestamp(clock), 0)

\* Any other millisecond, an earlier one included: the sequence restarts.
OtherMillisecond(p) ==
    /\ pc[p] = "stamp"
    /\ timestamp[p] # lastTime
    /\ Return(p, timestamp[p], 0)
    /\ UNCHANGED timestamp

-----------------------------------------------------------------------------
\* A millisecond passes.  At the horizon (bound) the wall clock stands still.
Tick ==
    /\ clock' = IF clock < MaxClock THEN clock + 1 ELSE clock
    /\ high' = IF clock' > high THEN clock' ELSE high
    /\ left' = [p \in Proc |-> IF left[p] > 0 THEN left[p] - 1 ELSE 0]
    /\ UNCHANGED <<gen, pc, timestamp, shardVal, log, steps, restarts>>

\* The wall clock is set to c.  When it may be set is the assumption the
\* constants StepWhileAsleep and RestartBehind vary.
SetClock(c) ==
    /\ steps < MaxSteps
    /\ c # clock
    /\ StepWhileAsleep \/ \A p \in Proc : ~Asleep(p)
    /\ RestartBehind \/ Covers(c, lastTime)
    /\ clock' = c
    /\ high' = IF c > high THEN c ELSE high
    /\ steps' = steps + 1
    /\ UNCHANGED <<gen, pc, timestamp, shardVal, left, log, restarts>>

\* The process dies and NewGenerator starts again from nothing.
Restart ==
    /\ restarts < MaxRestarts
    /\ RestartBehind \/ Covers(clock, 0)
    /\ restarts' = restarts + 1
    /\ mu' = NoProc
    /\ sequence' = 0
    /\ lastTime' = 0
    /\ pc' = [p \in Proc |-> "idle"]
    /\ timestamp' = [p \in Proc |-> 0]
    /\ left' = [p \in Proc |-> 0]
    /\ UNCHANGED <<clock, high, shardVal, log, steps>>

Step(p) ==
    \/ ReadClock(p) \/ ClockTooFarBack(p) \/ SleepBackward(p) \/ Reread(p)
    \/ SameMillisecond(p) \/ SequenceOverflow(p) \/ StillOverflow(p)
    \/ NextMillisecond(p) \/ OtherMillisecond(p)

NextID(p) ==
    \/ \E v \in ShardVals : Call(p, v)
    \/ Lock(p)
    \/ Step(p)

Environment == Tick \/ (\E c \in Clock : SetClock(c)) \/ Restart

Next == (\E p \in Proc : NextID(p)) \/ Environment

Spec == Init /\ [][Next]_vars

\* Time passes, a goroutine that can run does run, and a sync.Mutex hands
\* itself to a goroutine that has waited for a millisecond (starvation mode).
Fairness ==
    /\ WF_vars(Tick)
    /\ \A p \in Proc : WF_vars(Step(p)) /\ SF_vars(Lock(p))

FairSpec == Spec /\ Fairness

-----------------------------------------------------------------------------
Labels == {"idle", "lock", "read", "sleep", "stamp", "overflow"}
Entry == [ts : 0 .. WordSize - 1, shard : ShardVals,
          seq : 0 .. SequenceSize - 1]

\* Type correctness: the fields of the generator are machine words in their
\* range, and every issued identifier has a sequence number that fits its field.
TypeOK ==
    /\ clock \in Clock /\ high \in Clock
    /\ mu \in Proc \cup {NoProc}
    /\ sequence \in 0 .. SequenceSize - 1
    /\ lastTime \in 0 .. WordSize - 1
    /\ pc \in [Proc -> Labels]
    /\ timestamp \in [Proc -> 0 .. WordSize - 1]
    /\ shardVal \in [Proc -> ShardVals]
    /\ left \in [Proc -> Nat]
    /\ log \in Seq(Entry)
    /\ steps \in 0 .. MaxSteps
    /\ restarts \in 0 .. MaxRestarts

ID(e) == MakeID(e.ts, e.shard, e.seq)

\* NextID never returns the same identifier twice, whichever callers and shard
\* values, across ticks, clock settings, overflows and restarts.
UniqueIDs ==
    \A i, j \in 1 .. Len(log) : i # j => ID(log[i]) # ID(log[j])

\* The generator is a source of fresh identifiers that sort, within a shard
\* value, in the order NextID returned them, for every schedule of its callers.
Source == INSTANCE IDSource WITH issued <- [i \in 1 .. Len(log) |-> ID(log[i])]
ImplementsIDSource == Source!IDSpec

\* A burst never borrows time from the future: no identifier carries a
\* millisecond that no wall clock has shown yet.
NoFutureIDs == \A i \in 1 .. Len(log) : log[i].ts <= high

\* Generator.lastTime never goes back while the process lives.
LastTimeMonotone == [][restarts' = restarts => lastTime' >= lastTime]_vars

Refused(p) == pc[p] = "read" /\ pc'[p] = "idle" /\ restarts' = restarts

\* NextID refuses a call only when the wall clock really is more than
\* maxBackwardMillis behind a time it has shown before.
ErrorMeansBackward ==
    [][\A p \in Proc : Refused(p) => high - clock > MaxBackward]_vars

\* Every call of NextID returns, with an identifier or an error, although the
\* caller may sleep behind others that sleep under the same mutex.
CallsReturn == \A p \in Proc : pc[p] # "idle" ~> pc[p] = "idle"

-----------------------------------------------------------------------------
\* The assumptions on the environment, in the order in which more is asked of it.
\* The clock is after 2025-01-01 and before the timestamp field is full.
ClockInRange ==
    /\ MinClock > 0
    /\ MaxClock < TimestampSize
    /\ TimestampSize <= WordSize

\* It is not set again while a caller sleeps until it has caught up.
Patient == ClockInRange /\ ~StepWhileAsleep

\* And it is past every issued time when the process restarts: the environment the
\* generator is built for.
SafeEnvironment == Patient /\ ~RestartBehind

Inside(p) == pc[p] \in {"read", "sleep", "stamp", "overflow"}

\* The caller inside NextID, and no other, holds the mutex.
MutexHeld == \A p \in Proc : Inside(p) <=> mu = p

\* Every time in the generator is one the wall clock has shown.
TimesShown ==
    /\ clock <= high
    /\ lastTime <= high
    /\ \A p \in Proc :
           timestamp[p] <= high /\ (pc[p] = "stamp" => timestamp[p] > 0)
    /\ \A i \in 1 .. Len(log) : log[i].ts \in 1 .. high

\* A caller that waits for the clock wakes up when it has caught up.
SleepsLongEnough ==
    \A p \in Proc : pc[p] = "sleep" => clock + left[p] >= lastTime

\* What is about to be stored is not behind what is stored.
StampsForward == \A p \in Proc : pc[p] = "stamp" => timestamp[p] >= lastTime

\* What was issued lies behind what the generator remembers, or, after a
\* restart, behind the wall clock.
Behind(e) ==
    \/ e.ts < lastTime
    \/ e.ts = lastTime /\ (e.seq <= sequence \/ \E p \in Proc : pc[p] = "overflow")
    \/ lastTime < e.ts /\ e.ts < clock

LogBehind == \A i \in 1 .. Len(log) : Behind(log[i])

\* A timestamp about to be stored is ahead of what was issued before a restart.
StampFresh ==
    \A p \in Proc : pc[p] = "stamp" =>
        \A i \in 1 .. Len(log) : log[i].ts <= lastTime \/ log[i].ts < timestamp[p]

Before(e, f) == e.ts < f.ts \/ (e.ts = f.ts /\ e.seq < f.seq)

\* Identifiers are issued in the order of their time and sequence number.
LogOrdered == \A i, j \in 1 .. Len(log) : i < j => Before(log[i], log[j])

\* The inductive invariants, one for each assumption: times are real, they go
\* forward, and neither a time nor a sequence number is ever used again.
ClockInv == MutexHeld /\ TimesShown
ForwardInv == ClockInv /\ SleepsLongEnough /\ StampsForward
IInv == ForwardInv /\ LogBehind /\ StampFresh /\ LogOrdered
=============================================================================
