---------------------------- MODULE SnowflakeProofs ----------------------------
(***************************************************************************)
(* What is proved of Snowflake for any number of callers, any field sizes  *)
(* and any bounds: type correctness in every environment; fresh, ordered   *)
(* identifiers in the environment the generator is built for.  Then of the *)
(* requests that use it, in ContactsServer: over this generator they are   *)
(* those of Contacts, and keep what is proved of them.                     *)
(***************************************************************************)
EXTENDS ContactsServer, ShardingProofs, FiniteSetTheorems

\* A reading of the clock is a machine word, however early the clock is.
LEMMA TimestampType ==
    ASSUME NEW c \in Int
    PROVE  Timestamp(c) \in 0 .. WordSize - 1
BY ModRange, SnowflakeAssumption DEF Timestamp

\* The incremented sequence number fits its field.
LEMMA NextSequenceType ==
    ASSUME sequence \in 0 .. SequenceSize - 1
    PROVE  NextSequence \in 0 .. SequenceSize - 1
BY ModRange, LayoutAssumption DEF NextSequence

\* The end of NextID keeps the types when the stored time is a word.
LEMMA ReturnType ==
    ASSUME TypeOK, NEW p \in Proc, NEW t \in 0 .. WordSize - 1,
           NEW q \in 0 .. SequenceSize - 1, Return(p, t, q),
           timestamp' \in [Proc -> 0 .. WordSize - 1]
    PROVE  TypeOK'
<1> DEFINE e == [ts |-> t, shard |-> shardVal[p], seq |-> q]
<1>1. e \in Entry
  BY DEF TypeOK, Entry
<1>2. log' \in Seq(Entry)
  BY <1>1 DEF Return, TypeOK
<1> QED
  BY <1>2 DEF TypeOK, Return, Goto, Labels, env

\* Type correctness: whatever the clock does, before 2025 and restarts included,
\* the generator's fields and the issued sequence numbers stay in their range.
THEOREM TypeCorrect == Spec => []TypeOK
<1>1. Init => TypeOK
  BY SnowflakeAssumption, LayoutAssumption
  DEF Init, TypeOK, Clock, Labels, Entry
<1>2. TypeOK /\ [Next]_vars => TypeOK'
  <2> SUFFICES ASSUME TypeOK, [Next]_vars
               PROVE  TypeOK'
    OBVIOUS
  <2> USE SnowflakeAssumption, LayoutAssumption
  <2>0. Timestamp(clock) \in 0 .. WordSize - 1
    <3>1. clock \in Int
      BY DEF TypeOK, Clock
    <3> QED
      BY <3>1, TimestampType
  <2>1. ASSUME NEW p \in Proc, NEW v \in ShardVals, Call(p, v)
        PROVE  TypeOK'
    BY <2>1 DEF Call, TypeOK, Goto, Labels, gen, env
  <2>2. ASSUME NEW p \in Proc, Lock(p)
        PROVE  TypeOK'
    BY <2>2 DEF Lock, TypeOK, Goto, Labels, env
  <2>3. ASSUME NEW p \in Proc, ReadClock(p)
        PROVE  TypeOK'
    BY <2>0, <2>3 DEF ReadClock, TypeOK, Goto, Labels, gen, env
  <2>4. ASSUME NEW p \in Proc, ClockTooFarBack(p)
        PROVE  TypeOK'
    BY <2>4 DEF ClockTooFarBack, TypeOK, Goto, Labels, env
  <2>5. ASSUME NEW p \in Proc, SleepBackward(p)
        PROVE  TypeOK'
    BY <2>0, <2>5 DEF SleepBackward, TypeOK, Goto, Labels, gen, env
  <2>6. ASSUME NEW p \in Proc, Reread(p)
        PROVE  TypeOK'
    BY <2>0, <2>6 DEF Reread, TypeOK, Goto, Labels, gen, env
  <2>7. ASSUME NEW p \in Proc, SameMillisecond(p)
        PROVE  TypeOK'
    <3>1. NextSequence \in 0 .. SequenceSize - 1
      BY NextSequenceType DEF TypeOK
    <3> QED
      BY <2>7, <3>1, ReturnType DEF SameMillisecond, TypeOK
  <2>8. ASSUME NEW p \in Proc, SequenceOverflow(p)
        PROVE  TypeOK'
    BY <2>8 DEF SequenceOverflow, TypeOK, Goto, Labels, env
  <2>9. ASSUME NEW p \in Proc, StillOverflow(p)
        PROVE  TypeOK'
    BY <2>0, <2>9 DEF StillOverflow, TypeOK, gen, env
  <2>10. ASSUME NEW p \in Proc, NextMillisecond(p)
         PROVE  TypeOK'
    <3>1. timestamp' \in [Proc -> 0 .. WordSize - 1]
      BY <2>0, <2>10 DEF NextMillisecond, TypeOK
    <3> QED
      BY <2>0, <2>10, <3>1, ReturnType, 0 \in 0 .. SequenceSize - 1
      DEF NextMillisecond
  <2>11. ASSUME NEW p \in Proc, OtherMillisecond(p)
         PROVE  TypeOK'
    BY <2>11, ReturnType, 0 \in 0 .. SequenceSize - 1
    DEF OtherMillisecond, TypeOK
  <2>12. CASE Tick
    <3>1. clock' \in Clock /\ high' \in Clock
      BY <2>12 DEF Tick, TypeOK, Clock
    <3>2. left' \in [Proc -> Nat]
      BY <2>12 DEF Tick, TypeOK
    <3> QED
      BY <2>12, <3>1, <3>2 DEF Tick, TypeOK, gen
  <2>13. ASSUME NEW c \in Clock, SetClock(c)
         PROVE  TypeOK'
    BY <2>13 DEF SetClock, TypeOK, gen
  <2>14. CASE Restart
    BY <2>14 DEF Restart, TypeOK, Labels
  <2>15. CASE UNCHANGED vars
    BY <2>15 DEF TypeOK, vars
  <2> QED
    BY <2>1, <2>2, <2>3, <2>4, <2>5, <2>6, <2>7, <2>8, <2>9, <2>10, <2>11,
       <2>12, <2>13, <2>14, <2>15
    DEF Next, NextID, Step, Environment
<1> QED
  BY <1>1, <1>2, PTL DEF Spec

-----------------------------------------------------------------------------
\* Where the callers are after one of them has moved.
LEMMA Moves ==
    ASSUME TypeOK, NEW p \in Proc, NEW l \in Labels, Goto(p, l)
    PROVE  \A r \in Proc : pc'[r] = IF r = p THEN l ELSE pc[r]
BY DEF Goto, TypeOK

\* The mutex is held by the caller inside NextID and given up on every way out
\* (snowflake_generator.go:82-120), in every environment.
LEMMA MutexStep == TypeOK /\ MutexHeld /\ [Next]_vars => MutexHeld'
<1> SUFFICES ASSUME TypeOK, MutexHeld, [Next]_vars
             PROVE  MutexHeld'
  OBVIOUS
<1> USE ProcAssumption DEF MutexHeld, Inside
<1>1. ASSUME NEW p \in Proc, NEW v \in ShardVals, Call(p, v)
      PROVE  MutexHeld'
  BY <1>1, Moves, "lock" \in Labels DEF Call, gen, Labels
<1>2. ASSUME NEW p \in Proc, Lock(p)
      PROVE  MutexHeld'
  BY <1>2, Moves, "read" \in Labels DEF Lock, Labels
<1>3. ASSUME NEW p \in Proc, UNCHANGED mu,
             NEW l \in {"read", "sleep", "stamp", "overflow"}, Goto(p, l), Inside(p)
      PROVE  MutexHeld'
  <2>1. l \in Labels
    BY DEF Labels
  <2>2. \A r \in Proc : pc'[r] = IF r = p THEN l ELSE pc[r]
    BY <1>3, <2>1, Moves
  <2> QED
    BY <1>3, <2>2
<1>4. ASSUME NEW p \in Proc, mu' = NoProc, Goto(p, "idle"), Inside(p)
      PROVE  MutexHeld'
  <2>1. \A r \in Proc : pc'[r] = IF r = p THEN "idle" ELSE pc[r]
    BY <1>4, Moves DEF Labels
  <2> QED
    BY <1>4, <2>1
<1>5. ASSUME NEW p \in Proc, Step(p)
      PROVE  MutexHeld'
  <2>1. CASE ReadClock(p)
    BY <1>3, <2>1 DEF ReadClock, gen
  <2>2. CASE ClockTooFarBack(p)
    BY <1>4, <2>2 DEF ClockTooFarBack
  <2>3. CASE SleepBackward(p)
    BY <1>3, <2>3 DEF SleepBackward, gen
  <2>4. CASE Reread(p)
    BY <1>3, <2>4 DEF Reread, Asleep, gen
  <2>5. CASE SameMillisecond(p)
    BY <1>4, <2>5 DEF SameMillisecond, Return
  <2>6. CASE SequenceOverflow(p)
    BY <1>3, <2>6 DEF SequenceOverflow
  <2>7. CASE StillOverflow(p)
    BY <2>7 DEF StillOverflow, gen
  <2>8. CASE NextMillisecond(p)
    BY <1>4, <2>8 DEF NextMillisecond, Return
  <2>9. CASE OtherMillisecond(p)
    BY <1>4, <2>9 DEF OtherMillisecond, Return
  <2> QED
    BY <1>5, <2>1, <2>2, <2>3, <2>4, <2>5, <2>6, <2>7, <2>8, <2>9 DEF Step
<1>6. CASE Environment
  <2>1. CASE Restart
    BY <2>1 DEF Restart
  <2>2. CASE UNCHANGED <<mu, pc>>
    BY <2>2
  <2> QED
    BY <1>6, <2>1, <2>2 DEF Environment, Tick, SetClock, gen
<1>7. CASE UNCHANGED vars
  BY <1>7 DEF vars
<1> QED
  BY <1>1, <1>2, <1>5, <1>6, <1>7 DEF Next, NextID

\* At most one caller is inside NextID, also while it sleeps there, and the mutex
\* is free when none is, whatever the clock does.
THEOREM OneInside == Spec => []MutexHeld
<1>1. Init => MutexHeld
  BY ProcAssumption DEF Init, MutexHeld, Inside
<1> QED
  BY <1>1, MutexStep, TypeCorrect, PTL DEF Spec

-----------------------------------------------------------------------------
\* In the range of the timestamp field the reading is the clock itself.
LEMMA TimestampIsClock ==
    ASSUME ClockInRange, NEW c \in Clock
    PROVE  Timestamp(c) = c /\ c \in 1 .. TimestampSize - 1
<1>1. c \in 1 .. TimestampSize - 1 /\ c \in 0 .. WordSize - 1
  BY SnowflakeAssumption, LayoutAssumption DEF ClockInRange, Clock
<1> QED
  BY <1>1, ModSmall, SnowflakeAssumption DEF Timestamp

\* What an identifier appended to the log does to its entries.
LEMMA LogAppend ==
    ASSUME log \in Seq(Entry), NEW e \in Entry, log' = Append(log, e)
    PROVE  /\ Len(log') = Len(log) + 1
           /\ \A i \in 1 .. Len(log) : log'[i] = log[i]
           /\ log'[Len(log) + 1] = e
           /\ Len(log) \in Nat
OBVIOUS

\* The end of NextID: the log has the new entry at its end, and nobody is past the
\* mutex any more.
LEMMA Returned ==
    ASSUME TypeOK, MutexHeld, NEW p \in Proc, Inside(p),
           NEW t \in 0 .. WordSize - 1, NEW q \in 0 .. SequenceSize - 1,
           Return(p, t, q)
    PROVE  /\ Len(log') = Len(log) + 1
           /\ \A i \in 1 .. Len(log) : log'[i] = log[i]
           /\ log'[Len(log) + 1].ts = t /\ log'[Len(log) + 1].seq = q
           /\ Len(log) \in Nat
           /\ \A r \in Proc : pc'[r] \in {"idle", "lock"}
<1> DEFINE e == [ts |-> t, shard |-> shardVal[p], seq |-> q]
<1>1. e \in Entry /\ e.ts = t /\ e.seq = q
  BY DEF TypeOK, Entry
<1>2. /\ Len(log') = Len(log) + 1
      /\ \A i \in 1 .. Len(log) : log'[i] = log[i]
      /\ log'[Len(log) + 1] = e
      /\ Len(log) \in Nat
  BY <1>1, LogAppend DEF Return, TypeOK
<1>3. \A r \in Proc : pc'[r] \in {"idle", "lock"}
  <2>1. mu = p /\ p # NoProc
    BY ProcAssumption DEF MutexHeld
  <2> QED
    BY <2>1 DEF Return, Goto, TypeOK, Labels, MutexHeld, Inside
<1> QED
  BY <1>1, <1>2, <1>3

\* Every time that is stored was shown by the wall clock, wherever the clock is
\* set to and whenever the process restarts.
LEMMA TimesStep ==
    ASSUME ClockInRange, TypeOK, ClockInv, [Next]_vars
    PROVE  TimesShown'
<1> USE SnowflakeAssumption, LayoutAssumption
<1>0. Timestamp(clock) = clock /\ clock \in 1 .. TimestampSize - 1
  BY TimestampIsClock DEF TypeOK
<1>a. \A i \in 1 .. Len(log) : log[i].ts \in 1 .. high
  BY DEF ClockInv, TimesShown
<1>b. /\ clock \in Int /\ high \in Int /\ lastTime \in Int
      /\ clock \in 1 .. high /\ clock \in 0 .. WordSize - 1
  BY <1>0 DEF TypeOK, Clock, ClockInv, TimesShown, ClockInRange
<1>c. ASSUME NEW p \in Proc, \A r \in Proc : timestamp'[r] \in {timestamp[r], clock},
             UNCHANGED <<lastTime, env, log>>,
             NEW l \in Labels, Goto(p, l), l = "stamp" => timestamp'[p] = clock
      PROVE  TimesShown'
  <2>1. \A r \in Proc : pc'[r] = IF r = p THEN l ELSE pc[r]
    BY <1>c, Moves
  <2> QED
    BY <1>b, <1>c, <2>1 DEF ClockInv, TimesShown, env
<1>d. ASSUME NEW p \in Proc, Inside(p), NEW t \in 1 .. high, t \in 0 .. WordSize - 1,
             NEW q \in 0 .. SequenceSize - 1, Return(p, t, q),
             \A r \in Proc : timestamp'[r] <= high
      PROVE  TimesShown'
  <2>1. /\ Len(log') = Len(log) + 1 /\ Len(log) \in Nat
        /\ \A i \in 1 .. Len(log) : log'[i] = log[i]
        /\ log'[Len(log) + 1].ts = t
        /\ \A r \in Proc : pc'[r] \in {"idle", "lock"}
    BY <1>d, Returned DEF ClockInv
  <2>2. \A i \in 1 .. Len(log') : log'[i].ts \in 1 .. high
    BY <1>a, <2>1
  <2>3. lastTime' = t /\ UNCHANGED <<clock, high>>
    BY <1>d DEF Return, env
  <2>4. t <= high /\ clock <= high
    BY <1>b
  <2>5. \A r \in Proc : timestamp'[r] <= high /\ pc'[r] # "stamp"
    BY <1>d, <2>1
  <2> QED
    BY <2>2, <2>3, <2>4, <2>5 DEF TimesShown
<1>1. ASSUME NEW p \in Proc, NEW v \in ShardVals, Call(p, v)
      PROVE  TimesShown'
  BY <1>1, <1>c DEF Call, gen, Labels
<1>2. ASSUME NEW p \in Proc, Lock(p)
      PROVE  TimesShown'
  BY <1>2, <1>c DEF Lock, Labels
<1>3. ASSUME NEW p \in Proc, ReadClock(p) \/ SleepBackward(p) \/ Reread(p)
      PROVE  TimesShown'
  <2>1. \A r \in Proc : timestamp'[r] = IF r = p THEN clock ELSE timestamp[r]
    BY <1>0, <1>3 DEF ReadClock, SleepBackward, Reread, TypeOK
  <2> QED
    BY <1>0, <1>3, <1>c, <2>1 DEF ReadClock, SleepBackward, Reread, gen, Labels
<1>4. ASSUME NEW p \in Proc, ClockTooFarBack(p) \/ SequenceOverflow(p)
      PROVE  TimesShown'
  BY <1>4, <1>c DEF ClockTooFarBack, SequenceOverflow, Labels
<1>5. ASSUME NEW p \in Proc, StillOverflow(p)
      PROVE  TimesShown'
  <2>1. \A r \in Proc : timestamp'[r] = IF r = p THEN clock ELSE timestamp[r]
    BY <1>0, <1>5 DEF StillOverflow, TypeOK
  <2> QED
    BY <1>5, <1>b, <2>1 DEF StillOverflow, gen, env, ClockInv, TimesShown
<1>6. ASSUME NEW p \in Proc, SameMillisecond(p) \/ OtherMillisecond(p)
      PROVE  TimesShown'
  <2>1. timestamp[p] \in 1 .. high /\ timestamp[p] \in 0 .. WordSize - 1
    BY <1>b, <1>6 DEF SameMillisecond, OtherMillisecond, ClockInv, TimesShown, TypeOK
  <2>2. NextSequence \in 0 .. SequenceSize - 1 /\ 0 \in 0 .. SequenceSize - 1
    BY NextSequenceType DEF TypeOK
  <2>3. Inside(p) /\ \A r \in Proc : timestamp'[r] <= high
    BY <1>6 DEF SameMillisecond, OtherMillisecond, Inside, ClockInv, TimesShown
  <2> QED
    BY <1>6, <1>d, <2>1, <2>2, <2>3 DEF SameMillisecond, OtherMillisecond
<1>7. ASSUME NEW p \in Proc, NextMillisecond(p)
      PROVE  TimesShown'
  <2>1. \A r \in Proc : timestamp'[r] <= high
    BY <1>0, <1>b, <1>7 DEF NextMillisecond, TypeOK, ClockInv, TimesShown
  <2>2. Inside(p) /\ Return(p, clock, 0)
    BY <1>0, <1>7 DEF NextMillisecond, Inside
  <2> QED
    BY <1>b, <1>d, <2>1, <2>2, 0 \in 0 .. SequenceSize - 1
<1>8. CASE Tick \/ \E c \in Clock : SetClock(c)
  <2>1. high' \in Int /\ high' >= high /\ clock' <= high'
    BY <1>b, <1>8 DEF Tick, SetClock, Clock, ClockInv, TimesShown
  <2>2. \A p \in Proc : timestamp[p] \in Int
    BY DEF TypeOK
  <2>3. UNCHANGED <<lastTime, pc, timestamp, log>>
    BY <1>8 DEF Tick, SetClock, gen
  <2> QED
    BY <1>a, <1>b, <2>1, <2>2, <2>3 DEF ClockInv, TimesShown
<1>9. CASE Restart
  BY <1>b, <1>9 DEF Restart, ClockInv, TimesShown
<1>10. CASE UNCHANGED vars
  BY <1>10 DEF vars, ClockInv, TimesShown
<1> QED
  BY <1>1, <1>2, <1>3, <1>4, <1>5, <1>6, <1>7, <1>8, <1>9, <1>10
  DEF Next, NextID, Step, Environment

\* The first inductive invariant: times are real.
THEOREM TimesReal == ClockInRange => (Spec => []ClockInv)
<1> SUFFICES ASSUME ClockInRange
             PROVE  Spec => []ClockInv
  OBVIOUS
<1>1. Init => ClockInv
  <2> SUFFICES ASSUME Init
               PROVE  ClockInv
    OBVIOUS
  <2>1. clock \in Int /\ clock > 0 /\ Len(log) = 0
    BY SnowflakeAssumption DEF Init, Clock, ClockInRange
  <2> QED
    BY <2>1, ProcAssumption DEF Init, ClockInv, MutexHeld, Inside, TimesShown
<1>2. TypeOK /\ ClockInv /\ [Next]_vars => ClockInv'
  BY MutexStep, TimesStep DEF ClockInv
<1> QED
  BY <1>1, <1>2, TypeCorrect, PTL DEF Spec

\* A burst of calls never borrows a millisecond from the future
\* (snowflake_generator.go:102-109), also when the clock is set while a caller
\* sleeps and when the process restarts behind a time it has used.
THEOREM NothingBorrowed == ClockInRange => (Spec => []NoFutureIDs)
<1>1. TypeOK /\ ClockInv => NoFutureIDs
  BY DEF TypeOK, Clock, ClockInv, TimesShown, NoFutureIDs
<1> QED
  BY <1>1, TypeCorrect, TimesReal, PTL

-----------------------------------------------------------------------------
\* Nothing goes back while the process lives, wherever the clock is set to before and
\* after a caller sleeps, and whatever was issued before a restart.
LEMMA ForwardStep ==
    ASSUME Patient, TypeOK, ForwardInv, [Next]_vars
    PROVE  SleepsLongEnough' /\ StampsForward'
<1> USE SnowflakeAssumption, LayoutAssumption DEF SleepsLongEnough, StampsForward
<1>0. Timestamp(clock) = clock /\ clock \in Int
  BY TimestampIsClock DEF TypeOK, Patient, Clock
<1>a. lastTime \in Int /\ \A p \in Proc : left[p] \in Nat /\ timestamp[p] \in Int
  BY DEF TypeOK
<1>b. /\ \A p \in Proc : pc[p] = "sleep" => clock + left[p] >= lastTime
      /\ \A p \in Proc : pc[p] = "stamp" => timestamp[p] >= lastTime
      /\ MutexHeld
  BY DEF ForwardInv, ClockInv
<1>1. ASSUME NEW p \in Proc, NEW v \in ShardVals, Call(p, v)
      PROVE  SleepsLongEnough' /\ StampsForward'
  BY <1>1, <1>b, Moves, "lock" \in Labels DEF Call, gen, env, Labels
<1>2. ASSUME NEW p \in Proc, Lock(p)
      PROVE  SleepsLongEnough' /\ StampsForward'
  BY <1>2, <1>b, Moves, "read" \in Labels DEF Lock, env, Labels
<1>3. ASSUME NEW p \in Proc, ReadClock(p)
      PROVE  SleepsLongEnough' /\ StampsForward'
  <2>1. \A r \in Proc : /\ pc'[r] = IF r = p THEN "stamp" ELSE pc[r]
                        /\ timestamp'[r] = IF r = p THEN clock ELSE timestamp[r]
    BY <1>0, <1>3, Moves DEF ReadClock, TypeOK, Labels
  <2> QED
    BY <1>0, <1>3, <1>b, <2>1 DEF ReadClock, gen, env
<1>4. ASSUME NEW p \in Proc, ClockTooFarBack(p)
      PROVE  SleepsLongEnough' /\ StampsForward'
  BY <1>4, <1>b, Moves, "idle" \in Labels DEF ClockTooFarBack, env, Labels
<1>5. ASSUME NEW p \in Proc, SleepBackward(p)
      PROVE  SleepsLongEnough' /\ StampsForward'
  <2>1. \A r \in Proc : /\ pc'[r] = IF r = p THEN "sleep" ELSE pc[r]
                        /\ r # p => timestamp'[r] = timestamp[r]
                        /\ left'[r] = IF r = p THEN lastTime - clock ELSE left[r]
    BY <1>0, <1>5, Moves DEF SleepBackward, TypeOK, Labels
  <2> QED
    BY <1>0, <1>5, <1>a, <1>b, <2>1 DEF SleepBackward, gen, env
<1>6. ASSUME NEW p \in Proc, Reread(p)
      PROVE  SleepsLongEnough' /\ StampsForward'
  <2>1. \A r \in Proc : /\ pc'[r] = IF r = p THEN "stamp" ELSE pc[r]
                        /\ timestamp'[r] = IF r = p THEN clock ELSE timestamp[r]
    BY <1>0, <1>6, Moves DEF Reread, TypeOK, Labels
  <2>2. clock >= lastTime
    BY <1>0, <1>6, <1>a, <1>b DEF Reread, Asleep
  <2> QED
    BY <1>6, <1>b, <2>1, <2>2 DEF Reread, gen, env
<1>7. ASSUME NEW p \in Proc,
             SameMillisecond(p) \/ NextMillisecond(p) \/ OtherMillisecond(p)
      PROVE  SleepsLongEnough' /\ StampsForward'
  <2>1. \A r \in Proc : pc'[r] = IF r = p THEN "idle" ELSE pc[r]
    BY <1>7, Moves DEF SameMillisecond, NextMillisecond, OtherMillisecond, Return, Labels
  <2>2. \A r \in Proc : pc'[r] \notin {"sleep", "stamp"}
    <3>1. Inside(p) /\ mu = p
      BY <1>7, <1>b DEF SameMillisecond, NextMillisecond, OtherMillisecond, MutexHeld, Inside
    <3> QED
      BY <1>b, <2>1, <3>1 DEF MutexHeld, Inside
  <2> QED
    BY <2>2
<1>8. ASSUME NEW p \in Proc, SequenceOverflow(p)
      PROVE  SleepsLongEnough' /\ StampsForward'
  <2>1. \A r \in Proc : /\ pc'[r] = IF r = p THEN "overflow" ELSE pc[r]
                        /\ r # p => left'[r] = left[r]
    BY <1>8, Moves DEF SequenceOverflow, TypeOK, Labels
  <2> QED
    BY <1>8, <1>b, <2>1 DEF SequenceOverflow, env
<1>9. ASSUME NEW p \in Proc, StillOverflow(p)
      PROVE  SleepsLongEnough' /\ StampsForward'
  <2>1. \A r \in Proc : r # p => left'[r] = left[r] /\ timestamp'[r] = timestamp[r]
    BY <1>9 DEF StillOverflow, TypeOK
  <2> QED
    BY <1>9, <1>b, <2>1 DEF StillOverflow, gen, env
<1>10. CASE Tick
  <2>1. UNCHANGED <<lastTime, pc, timestamp>>
    BY <1>10 DEF Tick, gen
  <2>2. ASSUME NEW p \in Proc, pc[p] = "sleep"
        PROVE  clock' + left'[p] >= lastTime
    <3>1. clock + left[p] >= lastTime /\ left[p] \in Nat
      BY <1>a, <1>b, <2>2
    <3>2. left'[p] = IF left[p] > 0 THEN left[p] - 1 ELSE 0
      BY <1>10 DEF Tick
    <3>3. lastTime <= MaxClock /\ clock <= MaxClock
      BY <1>0, <1>a DEF ForwardInv, ClockInv, TimesShown, TypeOK, Clock
    <3> QED
      BY <1>0, <1>a, <1>10, <3>1, <3>2, <3>3 DEF Tick
  <2> QED
    BY <1>b, <2>1, <2>2
<1>11. ASSUME NEW c \in Clock, SetClock(c)
       PROVE  SleepsLongEnough' /\ StampsForward'
  BY <1>11, <1>b DEF SetClock, Patient, Asleep, gen
<1>12. CASE Restart
  BY <1>12 DEF Restart
<1>13. CASE UNCHANGED vars
  BY <1>13, <1>b DEF vars
<1> QED
  BY <1>1, <1>2, <1>3, <1>4, <1>5, <1>6, <1>7, <1>8, <1>9, <1>10, <1>11, <1>12, <1>13
  DEF Next, NextID, Step, Environment

\* The second inductive invariant: times go forward.
THEOREM TimesGoForward == Patient => (Spec => []ForwardInv)
<1> SUFFICES ASSUME Patient
             PROVE  Spec => []ForwardInv
  OBVIOUS
<1>1. Spec => []ClockInv
  BY TimesReal DEF Patient
<1>2. Init /\ ClockInv => ForwardInv
  BY DEF Init, ForwardInv, SleepsLongEnough, StampsForward
<1>3. TypeOK /\ ForwardInv /\ [Next]_vars /\ ClockInv' => ForwardInv'
  BY ForwardStep DEF ForwardInv
<1> QED
  BY <1>1, <1>2, <1>3, TypeCorrect, PTL DEF Spec

-----------------------------------------------------------------------------
\* The end of NextID keeps identifiers fresh when what it stores comes after
\* everything issued before.
LEMMA ReturnFresh ==
    ASSUME TypeOK, IInv, NEW p \in Proc, Inside(p),
           NEW t \in 0 .. WordSize - 1, NEW q \in 0 .. SequenceSize - 1,
           Return(p, t, q),
           \A i \in 1 .. Len(log) :
               log[i].ts < t \/ (log[i].ts = t /\ log[i].seq < q)
    PROVE  LogBehind' /\ StampFresh' /\ LogOrdered'
<1>1. /\ Len(log') = Len(log) + 1
      /\ \A i \in 1 .. Len(log) : log'[i] = log[i]
      /\ log'[Len(log) + 1].ts = t /\ log'[Len(log) + 1].seq = q
      /\ Len(log) \in Nat
      /\ \A r \in Proc : pc'[r] \in {"idle", "lock"}
  BY Returned DEF IInv, ForwardInv, ClockInv
<1>2. \A i \in 1 .. Len(log) : log[i] \in Entry
  BY DEF TypeOK
<1>3. StampFresh'
  BY <1>1 DEF StampFresh
<1>4. LogBehind'
  <2>1. ASSUME NEW i \in 1 .. Len(log')
        PROVE  log'[i].ts < t \/ (log'[i].ts = t /\ log'[i].seq <= q)
    <3>1. CASE i \in 1 .. Len(log)
      <4>1. log[i].seq \in Int
        BY <1>2, <3>1 DEF Entry
      <4> QED
        BY <1>1, <3>1, <4>1
    <3>2. CASE i = Len(log) + 1
      BY <1>1, <3>2
    <3> QED
      BY <1>1, <3>1, <3>2
  <2> QED
    BY <2>1 DEF LogBehind, Behind, Return
<1>5. LogOrdered'
  <2> SUFFICES ASSUME NEW i \in 1 .. Len(log'), NEW j \in 1 .. Len(log'), i < j
               PROVE  Before(log'[i], log'[j])
    BY DEF LogOrdered, Before
  <2>1. i \in 1 .. Len(log) /\ log'[i] = log[i]
    BY <1>1
  <2>2. CASE j = Len(log) + 1
    BY <1>1, <2>1, <2>2 DEF Before
  <2>3. CASE j \in 1 .. Len(log)
    BY <1>1, <2>1, <2>3 DEF IInv, LogOrdered, Before
  <2> QED
    BY <1>1, <2>2, <2>3
<1> QED
  BY <1>3, <1>4, <1>5

\* A time after everything the generator remembers, or could have forgotten, is
\* after everything issued.
LEMMA Forgotten ==
    ASSUME TypeOK, IInv
    PROVE  \A i \in 1 .. Len(log) :
               /\ log[i].ts \in Int /\ log[i].seq \in Int
               /\ log[i].ts <= lastTime \/ log[i].ts < clock
<1> SUFFICES ASSUME NEW i \in 1 .. Len(log)
             PROVE  /\ log[i].ts \in Int /\ log[i].seq \in Int
                    /\ log[i].ts <= lastTime \/ log[i].ts < clock
  OBVIOUS
<1>1. log[i] \in Entry /\ lastTime \in Int
  BY DEF TypeOK
<1>2. log[i].ts \in Int /\ log[i].seq \in Int
  BY <1>1 DEF Entry
<1>3. Behind(log[i])
  BY DEF IInv, LogBehind
<1> QED
  BY <1>1, <1>2, <1>3 DEF Behind

\* No step uses a time and a sequence number again.
LEMMA FreshStep ==
    ASSUME SafeEnvironment, TypeOK, IInv, [Next]_vars
    PROVE  LogBehind' /\ StampFresh' /\ LogOrdered'
<1> USE SnowflakeAssumption, LayoutAssumption DEF LogOrdered, Before
<1>0. Timestamp(clock) = clock /\ clock \in 0 .. WordSize - 1
  BY TimestampIsClock DEF TypeOK, SafeEnvironment, Patient, ClockInRange
<1>a. \A i \in 1 .. Len(log) : /\ log[i].ts \in Int /\ log[i].seq \in Int
                               /\ log[i].ts <= lastTime \/ log[i].ts < clock
  BY Forgotten
<1>b. clock \in Int /\ high \in Int /\ lastTime \in Int /\ sequence \in Int
  BY DEF TypeOK, Clock
<1>c. /\ LogOrdered /\ LogBehind /\ StampFresh /\ MutexHeld /\ TimesShown
      /\ StampsForward
  BY DEF IInv, ForwardInv, ClockInv
<1>1. ASSUME NEW p \in Proc, NEW v \in ShardVals, Call(p, v)
      PROVE  LogBehind' /\ StampFresh' /\ LogOrdered'
  <2>1. \A r \in Proc : pc'[r] = pc[r] \/ (r = p /\ pc[r] = "idle" /\ pc'[r] = "lock")
    BY <1>1 DEF Call, Goto, TypeOK
  <2> QED
    BY <1>1, <1>c, <2>1 DEF Call, gen, env, LogBehind, Behind, StampFresh
<1>2. ASSUME NEW p \in Proc, Lock(p)
      PROVE  LogBehind' /\ StampFresh' /\ LogOrdered'
  <2>1. \A r \in Proc : pc'[r] = IF r = p THEN "read" ELSE pc[r]
    BY <1>2 DEF Lock, Goto, TypeOK
  <2> QED
    BY <1>2, <1>c, <2>1 DEF Lock, env, LogBehind, Behind, StampFresh
<1>3. ASSUME NEW p \in Proc, ReadClock(p) \/ Reread(p)
      PROVE  LogBehind' /\ StampFresh' /\ LogOrdered'
  <2>1. \A r \in Proc : /\ pc'[r] = IF r = p THEN "stamp" ELSE pc[r]
                        /\ timestamp'[r] = IF r = p THEN clock ELSE timestamp[r]
    BY <1>0, <1>3 DEF ReadClock, Reread, Goto, TypeOK
  <2>2. pc[p] # "overflow" /\ UNCHANGED <<gen, env, log>>
    BY <1>3 DEF ReadClock, Reread, Asleep
  <2>3. LogBehind' /\ LogOrdered'
    BY <1>c, <2>1, <2>2 DEF gen, env, LogBehind, Behind
  <2>4. StampFresh'
    BY <1>a, <1>c, <2>1, <2>2 DEF gen, StampFresh
  <2> QED
    BY <2>3, <2>4
<1>4. ASSUME NEW p \in Proc, ClockTooFarBack(p)
      PROVE  LogBehind' /\ StampFresh' /\ LogOrdered'
  <2>1. \A r \in Proc : pc'[r] = IF r = p THEN "idle" ELSE pc[r]
    BY <1>4 DEF ClockTooFarBack, Goto, TypeOK
  <2> QED
    BY <1>4, <1>c, <2>1 DEF ClockTooFarBack, env, LogBehind, Behind, StampFresh
<1>5. ASSUME NEW p \in Proc, SleepBackward(p)
      PROVE  LogBehind' /\ StampFresh' /\ LogOrdered'
  <2>1. \A r \in Proc : /\ pc'[r] = IF r = p THEN "sleep" ELSE pc[r]
                        /\ r # p => timestamp'[r] = timestamp[r]
    BY <1>0, <1>5 DEF SleepBackward, Goto, TypeOK
  <2>2. LogBehind'
    BY <1>5, <1>c, <2>1 DEF SleepBackward, gen, env, LogBehind, Behind
  <2> QED
    BY <1>5, <1>c, <2>1, <2>2 DEF SleepBackward, gen, env, StampFresh
<1>6. ASSUME NEW p \in Proc, SameMillisecond(p)
      PROVE  LogBehind' /\ StampFresh' /\ LogOrdered'
  <2> DEFINE q == sequence + 1
  <2>1. NextSequence = q /\ q \in 0 .. SequenceSize - 1
    <3>1. CASE sequence + 1 \in 0 .. SequenceSize - 1
      BY <3>1, ModSmall DEF NextSequence
    <3>2. CASE sequence + 1 = SequenceSize
      <4>1. (1 * SequenceSize + 0) % SequenceSize = 0
        BY DivisionUnique, 0 \in 0 .. SequenceSize - 1, 1 \in Int
      <4> QED
        BY <1>6, <3>2, <4>1 DEF NextSequence, SameMillisecond
    <3> QED
      BY <3>1, <3>2 DEF TypeOK
  <2>2. Inside(p) /\ \A r \in Proc : pc[r] # "overflow"
    BY <1>6, <1>c DEF SameMillisecond, MutexHeld, Inside
  <2>3. timestamp[p] \in 0 .. WordSize - 1 /\ timestamp[p] = lastTime
    BY <1>6 DEF SameMillisecond, TypeOK
  <2>4. \A i \in 1 .. Len(log) : log[i].ts < lastTime
                              \/ (log[i].ts = lastTime /\ log[i].seq < q)
    <3> SUFFICES ASSUME NEW i \in 1 .. Len(log)
                 PROVE  log[i].ts < lastTime
                     \/ (log[i].ts = lastTime /\ log[i].seq < q)
      OBVIOUS
    <3>1. log[i].ts <= lastTime \/ log[i].ts < lastTime
      BY <1>6, <1>c DEF SameMillisecond, StampFresh
    <3>2. Behind(log[i])
      BY <1>c DEF LogBehind
    <3> QED
      BY <1>a, <1>b, <2>2, <3>1, <3>2 DEF Behind
  <2>5. Return(p, lastTime, q)
    BY <1>6, <2>1 DEF SameMillisecond
  <2> HIDE DEF q
  <2> QED
    BY <2>1, <2>2, <2>3, <2>4, <2>5, ReturnFresh
<1>7. ASSUME NEW p \in Proc, SequenceOverflow(p)
      PROVE  LogBehind' /\ StampFresh' /\ LogOrdered'
  <2>1. \A r \in Proc : pc'[r] = IF r = p THEN "overflow" ELSE pc[r]
    BY <1>7 DEF SequenceOverflow, Goto, TypeOK
  <2>2. LogBehind'
    BY <1>7, <1>c, <2>1 DEF SequenceOverflow, env, LogBehind, Behind, TypeOK
  <2> QED
    BY <1>7, <1>c, <2>1, <2>2 DEF SequenceOverflow, env, StampFresh
<1>8. ASSUME NEW p \in Proc, StillOverflow(p)
      PROVE  LogBehind' /\ StampFresh' /\ LogOrdered'
  <2>1. \A r \in Proc : r # p => timestamp'[r] = timestamp[r]
    BY <1>8 DEF StillOverflow, TypeOK
  <2>2. pc' = pc /\ log' = log /\ clock' = clock /\ sequence' = sequence
        /\ lastTime' = lastTime /\ pc[p] = "overflow"
    BY <1>8 DEF StillOverflow, gen, env
  <2>3. LogBehind'
    BY <1>c, <2>2 DEF LogBehind, Behind
  <2>4. StampFresh'
    BY <1>c, <2>1, <2>2 DEF StampFresh
  <2> QED
    BY <1>c, <2>2, <2>3, <2>4 DEF LogOrdered, Before
<1>9. ASSUME NEW p \in Proc, NextMillisecond(p)
      PROVE  LogBehind' /\ StampFresh' /\ LogOrdered'
  <2>1. Inside(p) /\ Return(p, clock, 0)
    BY <1>0, <1>9 DEF NextMillisecond, Inside
  <2>2. \A i \in 1 .. Len(log) : log[i].ts < clock
    BY <1>0, <1>a, <1>b, <1>9 DEF NextMillisecond
  <2> QED
    BY <1>0, <2>1, <2>2, ReturnFresh, 0 \in 0 .. SequenceSize - 1
<1>10. ASSUME NEW p \in Proc, OtherMillisecond(p)
       PROVE  LogBehind' /\ StampFresh' /\ LogOrdered'
  <2>1. Inside(p) /\ Return(p, timestamp[p], 0)
    BY <1>10 DEF OtherMillisecond, Inside
  <2>2. timestamp[p] \in 0 .. WordSize - 1 /\ timestamp[p] \in Int
    BY DEF TypeOK
  <2>3. \A i \in 1 .. Len(log) : log[i].ts < timestamp[p]
    BY <1>a, <1>b, <1>c, <1>10, <2>2 DEF OtherMillisecond, StampFresh, StampsForward
  <2> QED
    BY <2>1, <2>2, <2>3, ReturnFresh, 0 \in 0 .. SequenceSize - 1
<1>11. CASE Tick
  <2>1. clock' \in Int /\ clock' >= clock /\ UNCHANGED <<gen, pc, timestamp, log>>
    BY <1>b, <1>11 DEF Tick
  <2>2. LogBehind'
    BY <1>a, <1>b, <1>c, <2>1 DEF gen, LogBehind, Behind
  <2> QED
    BY <1>c, <2>1, <2>2 DEF gen, StampFresh
<1>12. ASSUME NEW c \in Clock, SetClock(c)
       PROVE  LogBehind' /\ StampFresh' /\ LogOrdered'
  <2>1. \A i \in 1 .. Len(log) : log[i].ts <= lastTime \/ log[i].ts < c
    BY <1>12 DEF SetClock, SafeEnvironment, Covers
  <2>2. clock' = c /\ UNCHANGED <<gen, pc, timestamp, log>>
    BY <1>12 DEF SetClock
  <2>3. LogBehind'
    BY <1>a, <1>b, <1>c, <2>1, <2>2 DEF gen, LogBehind, Behind
  <2> QED
    BY <1>c, <2>2, <2>3 DEF gen, StampFresh
<1>13. CASE Restart
  <2>1. \A p \in Proc : pc'[p] = "idle"
    BY <1>13 DEF Restart
  <2>2. \A i \in 1 .. Len(log) : log[i].ts <= 0 \/ log[i].ts < clock
    BY <1>13 DEF Restart, SafeEnvironment, Covers
  <2>3. LogBehind'
    BY <1>13, <1>c, <2>2 DEF Restart, TimesShown, LogBehind, Behind
  <2> QED
    BY <1>13, <1>c, <2>1, <2>3 DEF Restart, StampFresh
<1>14. CASE UNCHANGED vars
  BY <1>14, <1>c DEF vars, LogBehind, Behind, StampFresh
<1> QED
  BY <1>1, <1>2, <1>3, <1>4, <1>5, <1>6, <1>7, <1>8, <1>9, <1>10, <1>11, <1>12,
     <1>13, <1>14
  DEF Next, NextID, Step, Environment

\* The third inductive invariant: nothing is used again.
THEOREM Invariant == SafeEnvironment => (Spec => []IInv)
<1> SUFFICES ASSUME SafeEnvironment
             PROVE  Spec => []IInv
  OBVIOUS
<1>1. Spec => []ForwardInv
  BY TimesGoForward DEF SafeEnvironment
<1>2. Init /\ ForwardInv => IInv
  BY DEF Init, IInv, LogBehind, StampFresh, LogOrdered
<1>3. TypeOK /\ IInv /\ [Next]_vars /\ ForwardInv' => IInv'
  BY FreshStep DEF IInv
<1> QED
  BY <1>1, <1>2, <1>3, TypeCorrect, PTL DEF Spec

-----------------------------------------------------------------------------
\* The fields of an issued identifier are numbers.
LEMMA EntryFields ==
    ASSUME NEW e \in Entry
    PROVE  e.ts \in Int /\ e.shard \in Int /\ e.seq \in 0 .. SequenceSize - 1
<1>1. e.shard \in Int
  <2>1. e.shard \in ShardVals
    BY DEF Entry
  <2>2. ShardVals \subseteq Int
    BY SnowflakeAssumption
  <2> QED
    BY <2>1, <2>2
<1> QED
  BY <1>1 DEF Entry

\* Entries in the order of issue have different identifiers.
LEMMA BeforeDiffer ==
    ASSUME NEW e \in Entry, NEW f \in Entry, Before(e, f),
           e.ts \in 0 .. TimestampSize - 1, f.ts \in 0 .. TimestampSize - 1
    PROVE  /\ ID(e) # ID(f)
           /\ e.shard % HashSize = f.shard % HashSize => ID(e) < ID(f)
<1>1. /\ e.shard \in Int /\ e.seq \in 0 .. SequenceSize - 1 /\ e.ts \in Int
      /\ f.shard \in Int /\ f.seq \in 0 .. SequenceSize - 1 /\ f.ts \in Int
  BY EntryFields
<1>2. ID(e) \in Int /\ ID(f) \in Int
  <2>1. ID(e) \in IDs /\ ID(f) \in IDs
    BY <1>1, MakeIDRange DEF ID
  <2> QED
    BY <2>1 DEF IDs
<1>3. ASSUME e.shard % HashSize = f.shard % HashSize
      PROVE  ID(e) < ID(f)
  <2>1. e.ts < f.ts \/ (e.ts = f.ts /\ e.seq < f.seq)
    BY DEF Before
  <2> QED
    BY <1>1, <1>3, <2>1, MakeIDLess DEF ID
<1>4. ASSUME ID(e) = ID(f)
      PROVE  e.shard % HashSize = f.shard % HashSize
  <2>1. ExtractShardVal(ID(e)) = e.shard % HashSize
    BY <1>1, ExtractMakeID DEF ID
  <2>2. ExtractShardVal(ID(f)) = f.shard % HashSize
    BY <1>1, ExtractMakeID DEF ID
  <2> QED
    BY <1>4, <2>1, <2>2
<1> QED
  BY <1>2, <1>3, <1>4

\* The issued times fit the timestamp field.
LEMMA TimesFit ==
    ASSUME SafeEnvironment, TypeOK, IInv, NEW i \in 1 .. Len(log)
    PROVE  log[i] \in Entry /\ log[i].ts \in 0 .. TimestampSize - 1
<1>1. log[i] \in Entry /\ log[i].ts \in 1 .. high
  BY DEF TypeOK, IInv, ForwardInv, ClockInv, TimesShown
<1>2. high \in Int /\ high < TimestampSize
  BY SnowflakeAssumption, LayoutAssumption
  DEF TypeOK, Clock, SafeEnvironment, Patient, ClockInRange
<1> QED
  BY <1>1, <1>2, LayoutAssumption

\* NextID never returns the same identifier twice (snowflake_generator.go:82-120),
\* for any number of callers, field sizes, ticks, settings of the clock and
\* restarts, in the environment the generator is built for.
THEOREM Unique == SafeEnvironment => (Spec => []UniqueIDs)
<1> SUFFICES ASSUME SafeEnvironment
             PROVE  Spec => []UniqueIDs
  OBVIOUS
<1>1. TypeOK /\ IInv => UniqueIDs
  <2> SUFFICES ASSUME TypeOK, IInv, NEW i \in 1 .. Len(log),
                      NEW j \in 1 .. Len(log), i # j
               PROVE  ID(log[i]) # ID(log[j])
    BY DEF UniqueIDs
  <2>1. Before(log[i], log[j]) \/ Before(log[j], log[i])
    <3>1. Len(log) \in Nat
      BY DEF TypeOK
    <3>2. i < j \/ j < i
      BY <3>1
    <3> QED
      BY <3>2 DEF IInv, LogOrdered
  <2>2. /\ log[i] \in Entry /\ log[i].ts \in 0 .. TimestampSize - 1
        /\ log[j] \in Entry /\ log[j].ts \in 0 .. TimestampSize - 1
    BY TimesFit
  <2> QED
    BY <2>1, <2>2, BeforeDiffer
<1> QED
  BY <1>1, TypeCorrect, Invariant, PTL

\* Generator.lastTime never goes back while the process lives: the second reading
\* after a sleep is not compared again (snowflake_generator.go:89-98), and need not be
\* if nobody sets the clock during the sleep, whatever a restarted process sees.
THEOREM Monotone == Patient => (Spec => LastTimeMonotone)
<1> SUFFICES ASSUME Patient
             PROVE  Spec => LastTimeMonotone
  OBVIOUS
<1>1. TypeOK /\ ForwardInv /\ [Next]_vars => [restarts' = restarts => lastTime' >= lastTime]_vars
  <2> SUFFICES ASSUME TypeOK, ForwardInv, [Next]_vars, restarts' = restarts
               PROVE  lastTime' >= lastTime
    OBVIOUS
  <2>1. lastTime \in Int /\ restarts \in Int /\ clock \in Int
    BY DEF TypeOK, Clock
  <2>2. Timestamp(clock) = clock
    BY TimestampIsClock DEF TypeOK, Patient
  <2>3. ASSUME NEW p \in Proc, NextID(p)
        PROVE  lastTime' >= lastTime
    <3>1. CASE SameMillisecond(p) \/ OtherMillisecond(p)
      BY <2>1, <3>1 DEF SameMillisecond, OtherMillisecond, Return, ForwardInv,
         StampsForward
    <3>2. CASE NextMillisecond(p)
      BY <2>1, <2>2, <3>2 DEF NextMillisecond, Return
    <3>3. CASE UNCHANGED lastTime
      BY <2>1, <3>3
    <3> QED
      BY <2>3, <3>1, <3>2, <3>3
      DEF NextID, Step, Call, Lock, ReadClock, ClockTooFarBack, SleepBackward,
          Reread, SequenceOverflow, StillOverflow, gen
  <2>4. ASSUME NEW c \in Clock, SetClock(c)
        PROVE  lastTime' >= lastTime
    BY <2>1, <2>4 DEF SetClock, gen
  <2>5. CASE Tick
    BY <2>1, <2>5 DEF Tick, gen
  <2>6. CASE Restart
    BY <2>1, <2>6 DEF Restart
  <2>7. CASE UNCHANGED vars
    BY <2>1, <2>7 DEF vars
  <2> QED
    BY <2>3, <2>4, <2>5, <2>6, <2>7 DEF Next, Environment
<1> QED
  BY <1>1, TypeCorrect, TimesGoForward, PTL DEF Spec, LastTimeMonotone

\* NextID refuses a call only when the wall clock is more than maxBackwardMillis
\* behind a time it has shown (snowflake_generator.go:89-94), wherever it is set to.
THEOREM RefusalJustified == ClockInRange => (Spec => ErrorMeansBackward)
<1> SUFFICES ASSUME ClockInRange
             PROVE  Spec => ErrorMeansBackward
  OBVIOUS
<1>1. TypeOK /\ ClockInv /\ [Next]_vars
        => [\A p \in Proc : Refused(p) => high - clock > MaxBackward]_vars
  <2> SUFFICES ASSUME TypeOK, ClockInv, Next, NEW p \in Proc, Refused(p)
               PROVE  high - clock > MaxBackward
    OBVIOUS
  <2>1. lastTime \in Int /\ clock \in Int /\ high \in Int /\ restarts \in Int
    BY DEF TypeOK, Clock
  <2>2. Timestamp(clock) = clock
    BY TimestampIsClock DEF TypeOK
  <2>3. pc[p] = "read" /\ pc'[p] = "idle" /\ restarts' = restarts
    BY DEF Refused
  <2>4. CASE ClockTooFarBack(p)
    BY <2>1, <2>2, <2>4, SnowflakeAssumption
    DEF ClockTooFarBack, ClockInv, TimesShown
  <2>5. CASE \E r \in Proc : NextID(r) /\ ~ClockTooFarBack(p)
    <3> SUFFICES ASSUME NEW r \in Proc, NextID(r), ~ClockTooFarBack(p)
                 PROVE  FALSE
      BY <2>5
    <3>1. \A l \in Labels : Goto(r, l) => pc'[p] = (IF p = r THEN l ELSE pc[p])
      BY DEF Goto, TypeOK
    <3>2. p # r => pc'[p] = pc[p]
      BY <3>1 DEF NextID, Step, Call, Lock, ReadClock, ClockTooFarBack,
         SleepBackward, Reread, SameMillisecond, SequenceOverflow, StillOverflow,
         NextMillisecond, OtherMillisecond, Return, Labels
    <3>3. p = r => pc'[p] # "idle"
      BY <2>3, <3>1 DEF NextID, Step, Call, Lock, ReadClock, SleepBackward, Reread,
         Asleep, SameMillisecond, SequenceOverflow, StillOverflow,
         NextMillisecond, OtherMillisecond, Labels
    <3> QED
      BY <2>3, <3>2, <3>3
  <2>6. CASE Environment
    BY <2>1, <2>3, <2>6 DEF Environment, Tick, SetClock, Restart
  <2> QED
    BY <2>4, <2>5, <2>6 DEF Next
<1> QED
  BY <1>1, TypeCorrect, TimesReal, PTL DEF Spec, ErrorMeansBackward

-----------------------------------------------------------------------------
\* The end of NextID is the issue of one fresh identifier.
LEMMA ReturnIssues ==
    ASSUME SafeEnvironment, TypeOK, IInv, TypeOK', IInv',
           NEW p \in Proc, NEW t \in 0 .. WordSize - 1,
           NEW q \in 0 .. SequenceSize - 1, Return(p, t, q)
    PROVE  NewID \in IDs /\ Source!Issue(shardVal[p], NewID)
<1> DEFINE e == [ts |-> t, shard |-> shardVal[p], seq |-> q]
           iss == [i \in 1 .. Len(log) |-> ID(log[i])]
<1>1. e \in Entry /\ shardVal[p] \in Int
  <2>1. e \in Entry
    BY DEF TypeOK, Entry
  <2> QED
    BY <2>1, EntryFields
<1>2. /\ Len(log') = Len(log) + 1
      /\ \A i \in 1 .. Len(log) : log'[i] = log[i]
      /\ log'[Len(log) + 1] = e
      /\ Len(log) \in Nat
  BY <1>1, LogAppend DEF Return, TypeOK
<1>3. ID(e) \in IDs
  <2>1. e.ts \in Int /\ e.shard \in Int /\ e.seq \in 0 .. SequenceSize - 1
    BY <1>1, EntryFields
  <2> QED
    BY <2>1, MakeIDRange DEF ID
<1>4. ExtractShardVal(ID(e)) = shardVal[p] % HashSize
  BY <1>1, SnowflakeAssumption, ExtractMakeID DEF ID
<1>5. iss' = Append(iss, ID(e))
  BY <1>2 DEF ID
<1>6. ASSUME NEW i \in 1 .. Len(log),
             ExtractShardVal(ID(log[i])) = shardVal[p] % HashSize
      PROVE  ID(log[i]) < ID(e)
  <2>1. log[i] \in Entry /\ log[i].ts \in 0 .. TimestampSize - 1
    BY TimesFit
  <2>2. e.ts \in 0 .. TimestampSize - 1 /\ Before(log[i], e)
    <3>1. log'[Len(log')].ts \in 1 .. high'
      BY <1>2 DEF IInv, ForwardInv, ClockInv, TimesShown
    <3>2. high' \in Int /\ high' < TimestampSize
      BY SnowflakeAssumption, LayoutAssumption
      DEF TypeOK, Clock, SafeEnvironment, Patient, ClockInRange
    <3>3. Before(log'[i], log'[Len(log')])
      <4>1. LogOrdered'
        BY DEF IInv
      <4>2. i \in 1 .. Len(log') /\ Len(log') \in 1 .. Len(log') /\ i < Len(log')
        BY <1>2
      <4> QED
        BY <4>1, <4>2 DEF LogOrdered, Before
    <3> QED
      BY <1>2, <3>1, <3>2, <3>3, LayoutAssumption
  <2>3. ExtractShardVal(ID(log[i])) = log[i].shard % HashSize
    <3>1. log[i].ts \in Int /\ log[i].shard \in Int
          /\ log[i].seq \in 0 .. SequenceSize - 1
      BY <2>1, EntryFields
    <3> QED
      BY <3>1, ExtractMakeID DEF ID
  <2> QED
    BY <1>1, <1>6, <2>1, <2>2, <2>3, BeforeDiffer
<1>7. Source!Issue(shardVal[p], ID(e))
  <2>1. Len(iss) = Len(log) /\ \A i \in 1 .. Len(log) : iss[i] = ID(log[i])
    BY <1>2
  <2> QED
    BY <1>4, <1>5, <1>6, <2>1 DEF Source!Issue, Source!ExtractShardVal, ExtractShardVal
<1>8. NewID = ID(e)
  BY <1>2 DEF NewID, ID
<1> QED
  BY <1>3, <1>7, <1>8

\* It is so whichever way a caller gets there.
LEMMA ReturnsIssue ==
    ASSUME SafeEnvironment, TypeOK, IInv, TypeOK', IInv',
           NEW p \in Proc, Returns(p)
    PROVE  NewID \in IDs /\ Source!Issue(shardVal[p], NewID)
<1>1. timestamp[p] \in 0 .. WordSize - 1 /\ 0 \in 0 .. SequenceSize - 1
  BY LayoutAssumption DEF TypeOK
<1>2. CASE SameMillisecond(p)
  <2>1. NextSequence \in 0 .. SequenceSize - 1
    BY NextSequenceType DEF TypeOK
  <2> QED
    BY <1>1, <1>2, <2>1, ReturnIssues DEF SameMillisecond
<1>3. CASE NextMillisecond(p)
  <2>1. clock \in Int
    BY DEF TypeOK, Clock
  <2>2. Timestamp(clock) \in 0 .. WordSize - 1
    BY <2>1, TimestampType
  <2> QED
    BY <1>1, <1>3, <2>2, ReturnIssues DEF NextMillisecond
<1>4. CASE OtherMillisecond(p)
  BY <1>1, <1>4, ReturnIssues DEF OtherMillisecond
<1> QED
  BY <1>2, <1>3, <1>4 DEF Returns

\* The generator implements the stream of fresh, per-shard ascending identifiers
\* the rest of the system relies on.
THEOREM Implements == SafeEnvironment => (Spec => ImplementsIDSource)
<1> SUFFICES ASSUME SafeEnvironment
             PROVE  Spec => ImplementsIDSource
  OBVIOUS
<1> DEFINE iss == [i \in 1 .. Len(log) |-> ID(log[i])]
<1>1. Init => Source!IDInit
  BY DEF Init, Source!IDInit
<1>2. TypeOK /\ IInv /\ TypeOK' /\ IInv' /\ [Next]_vars => [Source!IDNext]_iss
  <2> SUFFICES ASSUME TypeOK, IInv, TypeOK', IInv', [Next]_vars, iss' # iss
               PROVE  Source!IDNext
    OBVIOUS
  <2>1. log' # log
    BY DEF ID
  <2>2. PICK p \in Proc : Returns(p)
    BY <2>1 DEF Next, NextID, Step, Environment, Call, Lock, ReadClock,
       ClockTooFarBack, SleepBackward, Reread, SequenceOverflow, StillOverflow,
       Tick, SetClock, Restart, vars, Returns
  <2>3. NewID \in IDs /\ Source!Issue(shardVal[p], NewID)
    BY <2>2, ReturnsIssue
  <2> QED
    BY <2>3, shardVal[p] \in ShardVals DEF TypeOK, Source!IDNext, Source!IDs, IDs
<1> QED
  BY <1>1, <1>2, TypeCorrect, Invariant, PTL DEF Spec, ImplementsIDSource, Source!IDSpec
-----------------------------------------------------------------------------
\* A step of the server is a step of its generator or leaves it alone.
THEOREM ServerIsSnowflake == ServerSpec => Spec
<1>1. ServerInit => Init
  BY DEF ServerInit
<1>2. [ServerNext]_serverVars => [Next]_vars
  <2> SUFFICES ASSUME ServerNext, vars' # vars
               PROVE  Next
    BY DEF serverVars, vars
  <2>1. CASE \E p \in Proc : NextID(p)
    BY <2>1 DEF Next
  <2>2. CASE TimePasses \/ ClockIsSet \/ ServerRestart
    BY <2>2 DEF Next, Environment, TimePasses, ClockIsSet, ServerRestart
  <2> QED
    BY <2>1, <2>2 DEF ServerNext, Others, Statement, Runs, AddUser, SaveApplication,
       Asks, GetsMutex, Generates, UserGetsID, ApplicationGetsID, Returns,
       UserRefused, ApplicationRefused, NextID, Step
<1> QED
  BY <1>1, <1>2, PTL DEF ServerSpec, Spec

\* What a goroutine does in the generator, as the composition sees it: it goes on,
\* or it leaves with an identifier more.
LEMMA GoesOn ==
    ASSUME TypeOK, NEW p \in Proc, Lock(p) \/ Generates(p)
    PROVE  /\ pc[p] # "idle" /\ pc'[p] # "idle"
           /\ \A r \in Proc : r # p => pc'[r] = pc[r]
           /\ log' = log /\ shardVal' = shardVal
BY DEF TypeOK, Goto, Lock, Generates, ReadClock, SleepBackward, Reread, Asleep,
   SequenceOverflow, StillOverflow, gen

LEMMA Leaves ==
    ASSUME TypeOK, NEW p \in Proc, Returns(p) \/ ClockTooFarBack(p)
    PROVE  /\ pc[p] # "idle" /\ pc'[p] = "idle"
           /\ \A r \in Proc : r # p => pc'[r] = pc[r]
           /\ shardVal' = shardVal
           /\ Len(log) \in Nat
           /\ Returns(p) => Len(log') = Len(log) + 1
           /\ ClockTooFarBack(p) => log' = log
BY DEF TypeOK, Goto, Returns, Return, ClockTooFarBack, SameMillisecond,
   NextMillisecond, OtherMillisecond

\* The callers in NextID are finitely many, and a goroutine more or less is one.
LEMMA CountOne ==
    ASSUME IsFiniteSet(Proc), NEW p \in Proc
    PROVE  /\ Cardinality(InFlight) \in Nat
           /\ Cardinality(InFlight \cup {p}) \in 0 .. Cardinality(InFlight) + 1
           /\ p \in InFlight =>
                  /\ Cardinality(InFlight \ {p}) = Cardinality(InFlight) - 1
                  /\ Cardinality(InFlight) > 0
<1>1. IsFiniteSet(InFlight)
  BY FS_Subset DEF InFlight
<1>2. Cardinality(InFlight) \in Nat
  BY <1>1, FS_CardinalityType
<1>3. Cardinality(InFlight \cup {p}) \in 0 .. Cardinality(InFlight) + 1
  <2>1. Cardinality(InFlight \cup {p}) =
            IF p \in InFlight THEN Cardinality(InFlight) ELSE Cardinality(InFlight) + 1
    BY <1>1, FS_AddElement, Zenon
  <2> QED
    BY <1>2, <2>1
<1>4. p \in InFlight => Cardinality(InFlight \ {p}) = Cardinality(InFlight) - 1
  BY <1>1, FS_RemoveElement
<1>5. p \in InFlight => Cardinality(InFlight) > 0
  BY <1>1, <1>2, FS_EmptySet
<1> QED
  BY <1>2, <1>3, <1>4, <1>5

\* A step that concerns the goroutine p alone keeps the others linked.
LEMMA LinkedStep ==
    ASSUME Linked, NEW p \in Proc,
           \A r \in Proc : r # p =>
               /\ pc'[r] = pc[r] /\ shardVal'[r] = shardVal[r]
               /\ req'[r] = req[r] /\ wish'[r] = wish[r],
           pc'[p] # "idle" => InNextID(p)'
    PROVE  Linked'
BY DEF Linked, InFlight, InNextID, Data!At, Data!StringSharder, Data!SingleIDSharder

-----------------------------------------------------------------------------
\* Every step of the server keeps the invariant of the composition.
LEMMA ServerInvStep ==
    ASSUME IsFiniteSet(Proc), TypeOK, ServerInv, [ServerNext]_serverVars
    PROVE  ServerInv'
<1> USE DEF ServerInv
<1>1. ASSUME NEW p \in Proc, NEW email \in Emails, NEW mobile \in Mobiles,
             AddUser(p, email, mobile)
      PROVE  ServerInv'
  <2>1. /\ pc' = [pc EXCEPT ![p] = "lock"] /\ log' = log
        /\ shardVal' = [shardVal EXCEPT ![p] = Data!StringSharder(email)]
    BY <1>1 DEF AddUser, Asks, Call, Goto
  <2>2. InFlight' = InFlight \cup {p}
    BY <2>1 DEF TypeOK, InFlight
  <2>3. InNextID(p)'
    BY <1>1, <2>1 DEF AddUser, InNextID, Data!At, Data!StringSharder, TypeOK
  <2>4. Linked'
    BY <1>1, <2>1, <2>3, LinkedStep DEF AddUser, TypeOK
  <2>5. Counted'
    <3>1. Len(log) + Cardinality(InFlight) < MaxIDs
      BY <1>1 DEF AddUser, Asks, Room
    <3>2. Len(log) \in Nat /\ MaxIDs \in Nat
      BY SnowflakeAssumption DEF TypeOK
    <3>3. /\ Cardinality(InFlight) \in Nat
          /\ Cardinality(InFlight \cup {p}) \in 0 .. Cardinality(InFlight) + 1
      BY CountOne
    <3>4. Len(log) + Cardinality(InFlight \cup {p}) <= MaxIDs
      BY <3>1, <3>2, <3>3
    <3> QED
      BY <2>1, <2>2, <3>4, Zenon DEF Counted
  <2> QED
    BY <1>1, <2>4, <2>5 DEF AddUser
<1>2. ASSUME NEW p \in Proc, SaveApplication(p)
      PROVE  ServerInv'
  <2>1. /\ pc' = [pc EXCEPT ![p] = "lock"] /\ log' = log
        /\ shardVal' = [shardVal EXCEPT ![p] = Data!SingleIDSharder(req[p].t)]
    BY <1>2 DEF SaveApplication, Asks, Call, Goto
  <2>2. InFlight' = InFlight \cup {p}
    BY <2>1 DEF TypeOK, InFlight
  <2>3. InNextID(p)'
    BY <1>2, <2>1
    DEF SaveApplication, InNextID, Data!At, Data!SingleIDSharder, TypeOK, requests
  <2>4. Linked'
    BY <1>2, <2>1, <2>3, LinkedStep DEF SaveApplication, TypeOK, requests
  <2>5. Counted'
    <3>1. Len(log) + Cardinality(InFlight) < MaxIDs
      BY <1>2 DEF SaveApplication, Asks, Room
    <3>2. Len(log) \in Nat /\ MaxIDs \in Nat
      BY SnowflakeAssumption DEF TypeOK
    <3>3. /\ Cardinality(InFlight) \in Nat
          /\ Cardinality(InFlight \cup {p}) \in 0 .. Cardinality(InFlight) + 1
      BY CountOne
    <3>4. Len(log) + Cardinality(InFlight \cup {p}) <= MaxIDs
      BY <3>1, <3>2, <3>3
    <3> QED
      BY <2>1, <2>2, <3>4, Zenon DEF Counted
  <2> QED
    BY <1>2, <2>4, <2>5 DEF SaveApplication, requests
<1>3. ASSUME NEW p \in Proc, GetsMutex(p) \/ Generates(p)
      PROVE  ServerInv'
  <2>1. /\ pc[p] # "idle" /\ pc'[p] # "idle"
        /\ \A r \in Proc : r # p => pc'[r] = pc[r]
        /\ log' = log /\ shardVal' = shardVal
    BY <1>3, GoesOn DEF GetsMutex
  <2>2. req' = req /\ wish' = wish
    BY <1>3 DEF GetsMutex, Generates, requests
  <2>3. InFlight' = InFlight
    BY <2>1 DEF InFlight
  <2>4. Linked' /\ Counted'
    BY <2>1, <2>2, <2>3
    DEF Linked, Counted, InNextID, Data!At, Data!StringSharder, Data!SingleIDSharder
  <2> QED
    BY <2>2, <2>4
<1>4. ASSUME NEW p \in Proc, UserGetsID(p) \/ ApplicationGetsID(p)
                               \/ UserRefused(p) \/ ApplicationRefused(p)
      PROVE  ServerInv'
  <2>1. /\ pc[p] # "idle" /\ pc'[p] = "idle"
        /\ \A r \in Proc : r # p => pc'[r] = pc[r]
        /\ shardVal' = shardVal
        /\ Len(log) \in Nat
        /\ Len(log') = Len(log) + 1 \/ log' = log
    BY <1>4, Leaves DEF UserGetsID, ApplicationGetsID, UserRefused, ApplicationRefused
  <2>2. /\ DOMAIN req' = Proc /\ DOMAIN wish' = Proc
        /\ \A r \in Proc : r # p => req'[r] = req[r] /\ wish'[r] = wish[r]
    BY <1>4 DEF UserGetsID, ApplicationGetsID, UserRefused, ApplicationRefused,
       Data!Become
  <2>3. InFlight' = InFlight \ {p} /\ p \in InFlight
    BY <2>1 DEF InFlight
  <2>4. Linked'
    BY <2>1, <2>2, LinkedStep
  <2>5. Counted'
    BY <2>1, <2>3, CountOne, SnowflakeAssumption DEF Counted
  <2> QED
    BY <2>2, <2>4, <2>5
<1>5. ASSUME NEW p \in Proc, Statement(p)
      PROVE  ServerInv'
  <2>1. pc' = pc /\ log' = log /\ shardVal' = shardVal /\ wish' = wish /\ pc[p] = "idle"
    BY <1>5 DEF Statement, vars
  <2>2. /\ DOMAIN req' = Proc
        /\ \A r \in Proc : r # p => req'[r] = req[r]
    <3>1. PICK q : req' = [req EXCEPT ![p] = q]
      BY <1>5, Zenon
      DEF Statement, Data!Become, Data!InsertUser, Data!ApplyContact,
          Data!CheckContact, Data!FindApplicant, Data!InsertApplication, Data!Fail
    <3> QED
      BY <3>1
  <2>3. Linked'
    BY <2>1, <2>2, LinkedStep
  <2> QED
    BY <2>1, <2>2, <2>3 DEF Counted, InFlight
<1>6. CASE Others \/ TimePasses \/ ClockIsSet \/ UNCHANGED serverVars
  <2>1. pc' = pc /\ log' = log /\ shardVal' = shardVal /\ wish' = wish /\ req' = req
    BY <1>6 DEF Others, TimePasses, ClockIsSet, Tick, SetClock, vars, serverVars,
       requests, Data!Others, Data!UpdateStatus, Data!Befriend
  <2> QED
    BY <2>1 DEF Linked, Counted, InFlight, InNextID, Data!At, Data!StringSharder,
       Data!SingleIDSharder
<1>7. CASE ServerRestart
  <2>1. /\ DOMAIN req' = Proc /\ DOMAIN wish' = Proc
        /\ InFlight' = {} /\ log' = log
    BY <1>7 DEF ServerRestart, Restart, InFlight
  <2>2. Linked'
    BY <2>1 DEF Linked
  <2>3. Cardinality({}) = 0 /\ Len(log) \in Nat /\ Cardinality(InFlight) \in Nat
    <3>1. IsFiniteSet(InFlight)
      BY FS_Subset DEF InFlight
    <3> QED
      BY <3>1, FS_EmptySet, FS_CardinalityType DEF TypeOK
  <2> QED
    BY <2>1, <2>2, <2>3, SnowflakeAssumption DEF Counted
<1> QED
  BY <1>1, <1>2, <1>3, <1>4, <1>5, <1>6, <1>7 DEF ServerNext, Runs

\* Whoever is in NextID is there for its request, and there is an identifier left
\* for each of them.
LEMMA ServerInvariant ==
    ASSUME IsFiniteSet(Proc)
    PROVE  ServerSpec => []ServerInv
<1>1. ServerInit => ServerInv
  <2> SUFFICES ASSUME ServerInit
               PROVE  ServerInv
    OBVIOUS
  <2>1. /\ DOMAIN req = Proc /\ DOMAIN wish = Proc
        /\ InFlight = {} /\ Len(log) = 0
    BY DEF ServerInit, Init, Data!Init, InFlight
  <2>2. Cardinality({}) = 0
    BY FS_EmptySet
  <2> QED
    BY <2>1, <2>2, SnowflakeAssumption DEF ServerInv, Linked, Counted
<1>2. TypeOK /\ ServerInv /\ [ServerNext]_serverVars => ServerInv'
  BY ServerInvStep
<1> QED
  BY <1>1, <1>2, ServerIsSnowflake, TypeCorrect, PTL DEF ServerSpec

-----------------------------------------------------------------------------
\* What the return of NextID is for Contacts: one identifier for the shard value of
\* the request, out of those there may be.
LEMMA ReturnGivesID ==
    ASSUME SafeEnvironment, IsFiniteSet(Proc), TypeOK, IInv, TypeOK', IInv', ServerInv,
           NEW p \in Proc, Returns(p)
    PROVE  NewID \in IDs /\ Data!NextID(shardVal[p], NewID)
<1>1. NewID \in IDs /\ Source!Issue(shardVal[p], NewID)
  BY ReturnsIssue
<1>2. Len([i \in 1 .. Len(log) |-> ID(log[i])]) < MaxIDs
  <2>1. p \in InFlight
    BY Leaves DEF InFlight
  <2>2. Cardinality(InFlight) \in Nat /\ Cardinality(InFlight) > 0
    BY <2>1, CountOne
  <2>3. Len(log) \in Nat /\ Len([i \in 1 .. Len(log) |-> ID(log[i])]) = Len(log)
    BY DEF TypeOK
  <2> QED
    BY <2>2, <2>3, SnowflakeAssumption DEF ServerInv, Counted
<1>3. Data!Generator!Issue(shardVal[p], NewID)
  BY <1>1 DEF Source!Issue, Data!Generator!Issue, Source!ExtractShardVal,
     Data!Generator!ExtractShardVal
<1> QED
  BY <1>1, <1>2, <1>3 DEF Data!NextID

\* Every step of the server is a step of Contacts, or none.
LEMMA ServerStepMaps ==
    ASSUME SafeEnvironment, IsFiniteSet(Proc), TypeOK, IInv, TypeOK', IInv', ServerInv,
           [ServerNext]_serverVars
    PROVE  [Data!Next]_(Data!vars)
<1>0. ASSUME log' = log, UNCHANGED <<tables, req, submitted>>
      PROVE  UNCHANGED Data!vars
  BY <1>0 DEF Data!vars, tables, ID
<1>1. ASSUME NEW p \in Proc, UserGetsID(p)
      PROVE  Data!Next
  <2>1. /\ NewID \in Data!IDs
        /\ Data!NextID(shardVal[p], NewID)
    BY <1>1, ReturnGivesID DEF UserGetsID, Data!IDs, IDs
  <2>2. PICK email \in Emails, mobile \in Mobiles :
            wish[p] = <<email, mobile>> /\ shardVal[p] = Data!StringSharder(email)
    <3>1. p \in InFlight
      BY <1>1, Leaves DEF UserGetsID, InFlight
    <3> QED
      BY <1>1, <3>1 DEF ServerInv, Linked, InNextID, UserGetsID, Data!At
  <2>3. Data!Become(p, Data!UserToInsert(email, mobile, NewID))
    BY <1>1, <2>2 DEF UserGetsID
  <2>4. Data!AddUser(p, email, mobile)
    BY <1>1, <2>1, <2>2, <2>3 DEF UserGetsID, Data!AddUser, Data!stored, tables
  <2> QED
    BY <2>4 DEF Data!Next, Data!Step
<1>2. ASSUME NEW p \in Proc, ApplicationGetsID(p)
      PROVE  Data!Next
  <2>1. /\ NewID \in Data!IDs
        /\ Data!NextID(shardVal[p], NewID)
    BY <1>2, ReturnGivesID DEF ApplicationGetsID, Data!IDs, IDs
  <2>2. shardVal[p] = Data!SingleIDSharder(req[p].t)
    <3>1. p \in InFlight
      BY <1>2, Leaves DEF ApplicationGetsID, InFlight
    <3> QED
      BY <1>2, <3>1 DEF ServerInv, Linked, InNextID, ApplicationGetsID, Data!At
  <2>3. Data!SaveApplication(p)
    BY <1>2, <2>1, <2>2 DEF ApplicationGetsID, Data!SaveApplication, Data!stored, tables
  <2> QED
    BY <2>3 DEF Data!Next, Data!Step
<1>3. ASSUME NEW p \in Proc, ApplicationRefused(p)
      PROVE  Data!Next
  <2>1. log' = log
    BY <1>3, Leaves DEF ApplicationRefused
  <2>2. Data!Fail(p)
    BY <1>3, <2>1
    DEF ApplicationRefused, Data!Fail, Data!At, Data!stored, tables, ID
  <2> QED
    BY <2>2 DEF Data!Next, Data!Step
<1>4. ASSUME NEW p \in Proc, Statement(p)
      PROVE  Data!Next
  BY <1>4 DEF Statement, Data!Next, Data!Step
<1>5. CASE Others
  BY <1>5 DEF Others, Data!Next
<1>6. CASE ServerRestart
  <2>1. log' = log
    BY <1>6 DEF ServerRestart, Restart
  <2>2. Data!Crash
    BY <1>6, <2>1 DEF ServerRestart, Data!Crash, Data!stored, tables, ID
  <2> QED
    BY <2>2 DEF Data!Next
<1>7. ASSUME NEW p \in Proc,
             \/ \E email \in Emails, mobile \in Mobiles : AddUser(p, email, mobile)
             \/ SaveApplication(p)
             \/ GetsMutex(p) \/ Generates(p)
             \/ UserRefused(p)
      PROVE  UNCHANGED Data!vars
  <2>1. log' = log
    BY <1>7, GoesOn, Leaves
    DEF AddUser, SaveApplication, Asks, Call, GetsMutex, UserRefused
  <2>2. UNCHANGED <<tables, req, submitted>>
    BY <1>7 DEF AddUser, SaveApplication, GetsMutex, Generates, UserRefused, requests
  <2> QED
    BY <1>0, <2>1, <2>2
<1>8. CASE TimePasses \/ ClockIsSet \/ UNCHANGED serverVars
  <2>1. log' = log /\ UNCHANGED <<tables, req, submitted>>
    BY <1>8 DEF TimePasses, ClockIsSet, Tick, SetClock, vars, serverVars, requests
  <2> QED
    BY <1>0, <2>1
<1> QED
  BY <1>1, <1>2, <1>3, <1>4, <1>5, <1>6, <1>7, <1>8 DEF ServerNext, Runs

\* The requests with their generator, its clock, its waits and its restarts implement
\* the requests over an abstract source of identifiers, so that what is proved of
\* Contacts holds of the composition.
THEOREM ServerImplements ==
    ASSUME SafeEnvironment, IsFiniteSet(Proc)
    PROVE  ServerSpec => ImplementsContacts
<1>1. ServerInit => Data!Init
  BY DEF ServerInit, Init, Data!Init
<1>2. /\ TypeOK /\ IInv /\ TypeOK' /\ IInv' /\ ServerInv
      /\ [ServerNext]_serverVars
      => [Data!Next]_(Data!vars)
  BY ServerStepMaps
<1>3. Spec => []IInv
  BY Invariant
<1>4. ServerSpec => []ServerInv
  BY ServerInvariant
<1> QED
  BY <1>1, <1>2, <1>3, <1>4, ServerIsSnowflake, TypeCorrect, PTL
  DEF ServerSpec, ImplementsContacts, Data!Spec

-----------------------------------------------------------------------------
\* The theorems about Contacts, for the requests of this server.
DataProofs == INSTANCE ContactsProofs WITH
    Req <- Proc, issued <- [i \in 1 .. Len(log) |-> ID(log[i])]

\* Both instances are of the same Contacts: each definition is its namesake.
LEMMA SameInit == Data!Init => DataProofs!Init
BY DEF Data!Init, DataProofs!Init, Data!Dsts, DataProofs!Dsts, Data!Tables,
   DataProofs!Tables, Data!Idle, DataProofs!Idle

LEMMA SameNext == [Data!Next]_(Data!vars) => [DataProofs!Next]_(DataProofs!vars)
BY DEF
   Data!Status, DataProofs!Status, Data!Tables, DataProofs!Tables,
   Data!vars, DataProofs!vars, Data!stored,
   DataProofs!stored, Data!Issued, DataProofs!Issued, Data!AllRows,
   DataProofs!AllRows, Data!Insert, DataProofs!Insert, Data!StringSharder,
   DataProofs!StringSharder, Data!SingleIDSharder, DataProofs!SingleIDSharder,
   Data!DstFromSharder, DataProofs!DstFromSharder, Data!FindByID,
   DataProofs!FindByID, Data!FindByEmail, DataProofs!FindByEmail,
   Data!FindByUserIDAndContactID, DataProofs!FindByUserIDAndContactID,
   Data!ListPendingByTargetID, DataProofs!ListPendingByTargetID, Data!Lookup,
   DataProofs!Lookup, Data!Idle, DataProofs!Idle, Data!At, DataProofs!At,
   Data!Become, DataProofs!Become, Data!NextID, DataProofs!NextID,
   Data!UserToInsert, DataProofs!UserToInsert, Data!ApplicationToInsert,
   DataProofs!ApplicationToInsert, Data!AddUser, DataProofs!AddUser,
   Data!Conflict, DataProofs!Conflict, Data!InsertUser, DataProofs!InsertUser,
   Data!ApplyContact, DataProofs!ApplyContact, Data!CheckContact,
   DataProofs!CheckContact, Data!FindApplicant, DataProofs!FindApplicant,
   Data!SaveApplication, DataProofs!SaveApplication, Data!InsertApplication,
   DataProofs!InsertApplication, Data!Fail, DataProofs!Fail, Data!UpdatedRows,
   DataProofs!UpdatedRows,
   Data!UpdateStatus, DataProofs!UpdateStatus, Data!Befriend,
   DataProofs!Befriend, Data!Crash, DataProofs!Crash, Data!UserIDs,
   DataProofs!UserIDs, Data!ApplicationIDs, DataProofs!ApplicationIDs, Data!Step,
   DataProofs!Step, Data!Others, DataProofs!Others, Data!Next, DataProofs!Next,
   Data!Dsts, DataProofs!Dsts, Data!Shard, DataProofs!Shard,
   Data!DstFromShardVal, DataProofs!DstFromShardVal, Data!DstFromID,
   DataProofs!DstFromID, Data!Total, DataProofs!Total, Data!ExtractShardVal,
   DataProofs!ExtractShardVal, Data!IDs, DataProofs!IDs, Data!Generator!Issue,
   DataProofs!Generator!Issue, Data!Generator!ExtractShardVal,
   DataProofs!Generator!ExtractShardVal

\* What the theorems about Contacts ask of the constants.
LEMMA ContactsConstants ==
    /\ DataProofs!Tables \in DataProofs!Layouts
    /\ Hash \in [Emails -> Nat]
    /\ Strangers \subseteq DataProofs!IDs
    /\ MaxIDs \in Nat
BY ServerAssumption, SnowflakeAssumption
DEF DataProofs!Tables, DataProofs!Layouts, DataProofs!IDs, IDs

LEMMA ServerIsContacts ==
    ASSUME SafeEnvironment, IsFiniteSet(Proc)
    PROVE  ServerSpec => DataProofs!Spec
BY SameInit, SameNext, ServerImplements, PTL
DEF ImplementsContacts, Data!Spec, DataProofs!Spec

\* For the requests of a server with a snowflake generator an email belongs to one
\* user, no two rows share an identifier, what a user is shown is right and no
\* application goes to a contact, however its goroutines interleave in the generator
\* and in the database, across settings of the clock and restarts.
THEOREM ServerKeepsContacts ==
    ASSUME SafeEnvironment, IsFiniteSet(Proc)
    PROVE  ServerSpec => [](/\ DataProofs!EmailUnique
                            /\ DataProofs!RowIDsUnique
                            /\ DataProofs!InboxRight
                            /\ DataProofs!NoApplicationToContact)
<1> USE ContactsConstants, LayoutAssumption
<1>1. DataProofs!Spec => []DataProofs!EmailUnique
  BY DataProofs!AlwaysEmailUnique, SMT
<1>2. DataProofs!Spec => []DataProofs!RowIDsUnique
  BY DataProofs!AlwaysRowIDsUnique, SMT
<1>3. DataProofs!Spec => []DataProofs!InboxRight
  BY DataProofs!AlwaysInboxRight, SMT
<1>4. DataProofs!Spec => []DataProofs!NoApplicationToContact
  BY DataProofs!AlwaysNoApplicationToContact, SMT
<1> QED
  BY <1>1, <1>2, <1>3, <1>4, ServerIsContacts, PTL

\* And where routes agree, the whole of it, with two databases or twenty, a generator
\* and its clock, is a directory of one table of each kind.
THEOREM ServerIsDirectory ==
    ASSUME SafeEnvironment, IsFiniteSet(Proc), DataProofs!RoutesMatch
    PROVE  ServerSpec => DataProofs!ImplementsDirectory
<1>1. DataProofs!Spec => DataProofs!ImplementsDirectory
  BY ContactsConstants, LayoutAssumption, DataProofs!Transparent, SMT
<1> QED
  BY <1>1, ServerIsContacts, PTL
=============================================================================
