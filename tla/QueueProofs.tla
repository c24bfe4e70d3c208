----------------------------- MODULE QueueProofs -----------------------------
(***************************************************************************)
(* Proofs about the message queue, for any number of consuming goroutines, *)
(* messages, restarts and rebalances and any capacity of the channel.      *)
(***************************************************************************)
EXTENDS Queue, FiniteSetTheorems, SequenceTheorems, TLAPS

Contents(s) == {s[i] : i \in 1 .. Len(s)}

-----------------------------------------------------------------------------
\* Sequences and finite sets.

LEMMA Appended ==
    ASSUME NEW S, NEW s \in Seq(S), NEW x \in S
    PROVE  /\ Append(s, x) \in Seq(S)
           /\ Len(s) \in Nat /\ Len(Append(s, x)) = Len(s) + 1
           /\ \A i \in 1 .. Len(s) : Append(s, x)[i] = s[i]
           /\ Append(s, x)[Len(s) + 1] = x
           /\ Contents(Append(s, x)) = Contents(s) \cup {x}
<1> DEFINE t == Append(s, x)
<1>1. /\ t \in Seq(S) /\ Len(s) \in Nat /\ Len(t) = Len(s) + 1
      /\ \A i \in 1 .. Len(s) : t[i] = s[i]
      /\ t[Len(s) + 1] = x
  BY AppendProperties
<1> HIDE DEF t
<1>2. \A i : i \in 1 .. Len(t) <=> i \in 1 .. Len(s) \/ i = Len(s) + 1
  BY <1>1
<1>3. Contents(t) = Contents(s) \cup {x}
  BY <1>1, <1>2, Zenon DEF Contents
<1> QED
  BY <1>1, <1>3 DEF t

LEMMA Beheaded ==
    ASSUME NEW S, NEW s \in Seq(S), s # << >>
    PROVE  /\ Tail(s) \in Seq(S) /\ Head(s) \in S /\ Head(s) = s[1]
           /\ Len(s) \in Nat \ {0} /\ Len(Tail(s)) = Len(s) - 1
           /\ \A i \in 1 .. Len(s) - 1 : Tail(s)[i] = s[i + 1]
           /\ Contents(s) = Contents(Tail(s)) \cup {Head(s)}
<1> DEFINE t == Tail(s)
           h == Head(s)
<1>1. /\ t \in Seq(S) /\ h \in S /\ h = s[1]
      /\ Len(s) \in Nat \ {0} /\ Len(t) = Len(s) - 1
      /\ \A i \in 1 .. Len(s) - 1 : t[i] = s[i + 1]
  BY HeadTailProperties
<1> HIDE DEF t, h
<1>2. Contents(s) = Contents(t) \cup {h}
  <2>1. ASSUME NEW i \in 1 .. Len(s) PROVE s[i] = h \/ \E j \in 1 .. Len(t) : s[i] = t[j]
    <3>1. CASE i = 1
      BY <1>1, <3>1
    <3>2. CASE i # 1
      <4>1. i - 1 \in 1 .. Len(t) /\ t[i - 1] = s[(i - 1) + 1] /\ (i - 1) + 1 = i
        BY <1>1, <3>2
      <4> QED
        BY <4>1
    <3> QED
      BY <3>1, <3>2
  <2>2. 1 \in 1 .. Len(s) /\ \A j \in 1 .. Len(t) : j + 1 \in 1 .. Len(s) /\ t[j] = s[j + 1]
    BY <1>1
  <2>3. Contents(s) \subseteq Contents(t) \cup {h}
    BY <2>1, Zenon DEF Contents
  <2>4. h \in Contents(s)
    BY <1>1, <2>2, Zenon DEF Contents
  <2>5. Contents(t) \subseteq Contents(s)
    BY <2>2, Zenon DEF Contents
  <2> QED
    BY <2>3, <2>4, <2>5
<1> QED
  BY <1>1, <1>2 DEF t, h

LEMMA ContentsSize ==
    ASSUME NEW S, NEW s \in Seq(S)
    PROVE  /\ IsFiniteSet(Contents(s)) /\ Cardinality(Contents(s)) \in Nat
           /\ Len(s) \in Nat /\ Cardinality(Contents(s)) <= Len(s)
           /\ (\A i, j \in 1 .. Len(s) : s[i] = s[j] => i = j) =>
                  Cardinality(Contents(s)) = Len(s)
<1>1. Len(s) \in Nat /\ s \in [1 .. Len(s) -> S]
  OBVIOUS
<1> DEFINE n == Len(s)
           C == Contents(s)
<1>2. s \in Surjection(1 .. n, C)
  BY <1>1 DEF Surjection, Contents
<1> HIDE DEF C, n
<1>3. n \in Nat /\ IsFiniteSet(1 .. n) /\ Cardinality(1 .. n) = n
  <2>1. n \in Nat
    BY <1>1 DEF n
  <2>2. IsFiniteSet(1 .. n) /\ Cardinality(1 .. n) = IF 1 > n THEN 0 ELSE n - 1 + 1
    BY <2>1, FS_Interval
  <2> QED
    BY <2>1, <2>2
<1>4. /\ IsFiniteSet(C) /\ Cardinality(C) <= n
      /\ Cardinality(C) = n <=> s \in Injection(1 .. n, C)
  BY <1>2, <1>3, FS_Surjection
<1>5. Cardinality(C) \in Nat
  BY <1>4, FS_CardinalityType
<1>6. ASSUME \A i, j \in 1 .. n : s[i] = s[j] => i = j
      PROVE  s \in Injection(1 .. n, C)
  BY <1>2, <1>6 DEF Surjection, Injection, IsInjective
<1> QED
  BY <1>3, <1>4, <1>5, <1>6 DEF C, n

\* A set that lies in two others has at most as many elements as they have.
LEMMA UnionBound ==
    ASSUME NEW S, NEW X, NEW T, IsFiniteSet(S), IsFiniteSet(X), T \subseteq S \cup X
    PROVE  /\ IsFiniteSet(T) /\ Cardinality(T) \in Nat
           /\ Cardinality(S) \in Nat /\ Cardinality(X) \in Nat
           /\ Cardinality(T) <= Cardinality(S) + Cardinality(X)
<1>1. /\ IsFiniteSet(S \cup X)
      /\ Cardinality(S \cup X) = Cardinality(S) + Cardinality(X) - Cardinality(S \cap X)
  BY FS_Union
<1>2. IsFiniteSet(T) /\ Cardinality(T) <= Cardinality(S \cup X)
  BY <1>1, FS_Subset
<1>3. IsFiniteSet(S \cap X)
  BY FS_Intersection
<1>4. /\ Cardinality(S) \in Nat /\ Cardinality(X) \in Nat /\ Cardinality(S \cap X) \in Nat
      /\ Cardinality(T) \in Nat /\ Cardinality(S \cup X) \in Nat
  BY <1>1, <1>2, <1>3, FS_CardinalityType
<1> QED
  BY <1>1, <1>2, <1>4

-----------------------------------------------------------------------------
\* Types.

LEMMA InitTypes == Init => TypeOK
BY QueueAssumption DEF Init, TypeOK, Offsets

\* What the partition holds only grows, and offsets stay offsets.
LEMMA ProducingTypes ==
    ASSUME TypeOK, Producing
    PROVE  /\ TypeOK' /\ Len(partition) \in Nat /\ Len(partition') \in Nat
           /\ Len(partition) <= Len(partition')
           /\ UNCHANGED <<committed, reader, messageChan, closer, caller, delivered, history>>
<1>1. UNCHANGED <<committed, reader, messageChan, closer, caller, delivered, history>>
  BY DEF Producing, Produce, ProduceCancelled, Acknowledged,
     NotAcknowledged, Return
<1>2. partition \in Seq(1 .. MaxMessages)
  BY DEF TypeOK
<1>3. partition' = partition \/ (attempt > 0 /\ partition' = Append(partition, msg))
  BY DEF Producing, Produce, ProduceCancelled, Acknowledged,
     NotAcknowledged, Return
<1>4. attempt > 0 => msg \in 1 .. MaxMessages
  BY QueueAssumption DEF TypeOK
<1>5. /\ partition' \in Seq(1 .. MaxMessages)
      /\ Len(partition) \in Nat /\ Len(partition') \in Nat
      /\ Len(partition) <= Len(partition')
  <2>1. CASE partition' = partition
    BY <1>2, <2>1
  <2>2. CASE attempt > 0 /\ partition' = Append(partition, msg)
    <3>1. PICK m \in 1 .. MaxMessages : m = msg
      BY <1>4, <2>2
    <3>2. /\ Append(partition, m) \in Seq(1 .. MaxMessages) /\ Len(partition) \in Nat
          /\ Len(Append(partition, m)) = Len(partition) + 1
      BY <1>2, Appended
    <3> QED
      BY <2>2, <3>1, <3>2
  <2> QED
    BY <1>3, <2>1, <2>2
<1>6. /\ msg' \in 0 .. MaxMessages /\ attempt' \in 0 .. MaxAttempts
      /\ (attempt' > 0 => msg' > 0)
      /\ returned' \in {"nothing", "nil", "error"}
  <2>1. CASE Produce
    BY <2>1, QueueAssumption DEF TypeOK, Produce
  <2>2. CASE ProduceCancelled \/ Acknowledged
    BY <2>2, QueueAssumption DEF TypeOK, ProduceCancelled, Acknowledged, Return
  <2>3. CASE NotAcknowledged
    BY <2>3, QueueAssumption DEF TypeOK, NotAcknowledged, Return
  <2> QED
    BY <2>1, <2>2, <2>3 DEF Producing
<1>7. Offsets \subseteq Offsets'
  BY <1>5 DEF Offsets
<1>8. /\ {committed, requested}' \subseteq 0 .. Len(partition') + 1
      /\ position' \in 1 .. Len(partition') + 1
  BY <1>1, <1>5 DEF TypeOK, reader
<1>9. held' \in (IF pc' = "send" THEN Offsets' ELSE {0})
  BY <1>1, <1>7 DEF TypeOK, reader
<1>10. messageChan' \in Seq(Offsets') /\ Len(messageChan') <= Capacity
  <2>1. messageChan \in Seq(Offsets) /\ Len(messageChan) <= Capacity
    BY DEF TypeOK
  <2> QED
    BY <1>1, <1>7, <2>1
<1>11. delivered' \subseteq Offsets' /\ skipped' \subseteq Offsets'
  BY <1>1, <1>7 DEF TypeOK, history
<1> QED
  BY <1>1, <1>5, <1>6, <1>8, <1>9, <1>10, <1>11 DEF TypeOK, reader, history

\* A step of the consumer leaves the partition and the producer alone.
LEMMA ConsumerTypes ==
    ASSUME TypeOK, UNCHANGED broker,
           {committed', requested'} \subseteq 0 .. Len(partition) + 1,
           position' \in 1 .. Len(partition) + 1,
           pc' \in {"read", "send", "done"},
           held' \in (IF pc' = "send" THEN Offsets ELSE {0}),
           messageChan' \in Seq(Offsets), Len(messageChan') <= Capacity,
           closer' \in {"open", "cancelled", "closed"},
           caller' \in [Caller -> {"idle", "consume", "range"}],
           delivered' \subseteq Offsets, skipped' \subseteq Offsets,
           restarts' \in 0 .. MaxRestarts, rebalances' \in 0 .. MaxRebalances
    PROVE  TypeOK'
BY DEF TypeOK, broker, Offsets

-----------------------------------------------------------------------------
\* The invariant.

\* As long as nobody has gone back, offsets pass through the process in their
\* order: delivered ones first, then the channel's, then the one being sent.
Ordered ==
    /\ \A i, j \in 1 .. Len(messageChan) : i < j => messageChan[i] < messageChan[j]
    /\ pc = "send" => \A i \in 1 .. Len(messageChan) : messageChan[i] < held
    /\ \A x \in InProcess : x < position /\ \A o \in delivered : o < x
    /\ \A o \in delivered : o < position

Undisturbed == restarts = 0 /\ rebalances = 0 => Ordered

IInv == TypeOK /\ LossBounded /\ Undisturbed

LEMMA InitOK == Init => IInv
<1> SUFFICES ASSUME Init PROVE IInv
  OBVIOUS
<1>1. TypeOK
  BY InitTypes
<1>2. /\ position = 1 /\ messageChan = << >> /\ held = 0 /\ delivered = {} /\ pc = "read"
      /\ restarts = 0
  BY DEF Init
<1>3. Lost = {}
  <2>1. 1 .. position - 1 = {}
    BY <1>2
  <2> QED
    BY <2>1 DEF Lost
<1>4. LossBounded
  <2>1. Cardinality(Lost) = 0
    BY <1>3, FS_EmptySet
  <2>2. 0 <= 0 * (Capacity + 1) + 0
    BY QueueAssumption
  <2> QED
    BY <1>2, <2>1, <2>2 DEF LossBounded
<1>5. InProcess = {}
  BY <1>2 DEF InProcess
<1>6. Undisturbed
  BY <1>2, <1>5 DEF Undisturbed, Ordered
<1> QED
  BY <1>1, <1>4, <1>6 DEF IInv

LEMMA ProcessIs ==
    ASSUME TypeOK
    PROVE  /\ InProcess = Contents(messageChan) \cup (IF pc = "send" THEN {held} ELSE {})
           /\ Contents(messageChan) \subseteq Offsets
           /\ messageChan \in Seq(Offsets) /\ Len(messageChan) \in Nat
           /\ pc = "send" => held \in Offsets
           /\ pc # "send" => held = 0
           /\ Len(partition) \in Nat
<1>1. /\ messageChan \in Seq(Offsets) /\ partition \in Seq(1 .. MaxMessages)
      /\ held \in (IF pc = "send" THEN Offsets ELSE {0})
  BY DEF TypeOK
<1>2. Len(messageChan) \in Nat /\ Len(partition) \in Nat
  BY <1>1
<1>3. Contents(messageChan) \subseteq Offsets
  BY <1>1 DEF Contents
<1>4. pc = "send" => held # 0
  BY <1>1, <1>2 DEF Offsets
<1>5. InProcess = Contents(messageChan) \cup ({held} \ {0})
  BY DEF InProcess, Contents
<1> QED
  BY <1>1, <1>2, <1>3, <1>4, <1>5

LEMMA LostFinite ==
    ASSUME TypeOK
    PROVE  IsFiniteSet(Lost) /\ Cardinality(Lost) \in Nat
<1>1. position - 1 \in Int /\ 1 \in Int
  <2>1. Len(partition) \in Nat
    BY ProcessIs
  <2> QED
    BY <2>1 DEF TypeOK
<1>2. IsFiniteSet(1 .. position - 1)
  BY <1>1, FS_Interval
<1>3. Lost \in SUBSET (1 .. position - 1)
  BY DEF Lost
<1>4. IsFiniteSet(Lost)
  BY <1>2, <1>3, FS_Subset
<1> QED
  BY <1>4, FS_CardinalityType

LEMMA LossStays ==
    ASSUME TypeOK, LossBounded, restarts' = restarts, Lost' \subseteq Lost,
           pc = "done" => pc' = "done"
    PROVE  LossBounded'
<1> DEFINE bound == restarts * (Capacity + 1)
           a == IF pc = "done" THEN 1 ELSE 0
           b == IF pc' = "done" THEN 1 ELSE 0
<1>1. Cardinality(Lost) \in Nat /\ Cardinality(Lost') \in Nat
      /\ Cardinality(Lost') <= Cardinality(Lost)
  <2>1. IsFiniteSet(Lost) /\ Cardinality(Lost) \in Nat
    BY LostFinite
  <2>2. IsFiniteSet(Lost') /\ Cardinality(Lost') <= Cardinality(Lost)
    BY <2>1, FS_Subset
  <2>3. Cardinality(Lost') \in Nat
    BY <2>2, FS_CardinalityType
  <2> QED
    BY <2>1, <2>2, <2>3
<1>2. bound \in Nat
  <2>1. restarts \in Nat /\ Capacity + 1 \in Nat
    BY QueueAssumption DEF TypeOK
  <2>2. \A m, n \in Nat : m * n \in Nat
    BY SMT
  <2> QED
    BY <2>1, <2>2
<1>3. Cardinality(Lost) <= bound + a
  BY DEF LossBounded
<1> SUFFICES Cardinality(Lost') <= bound + b
  BY DEF LossBounded
<1> HIDE DEF bound
<1> QED
  BY <1>1, <1>2, <1>3

\* Steps that do not touch the offsets in the process.
LEMMA Keeps ==
    ASSUME IInv, TypeOK',
           UNCHANGED <<position, held, messageChan, delivered, history>>,
           pc' = pc \/ (pc = "read" /\ pc' = "done")
    PROVE  IInv'
<1>1. InProcess' = InProcess
  BY DEF InProcess
<1>2. Lost' = Lost
  BY <1>1 DEF Lost, history
<1>3. LossBounded'
  BY <1>2, LossStays DEF IInv, history
<1>4. Undisturbed'
  BY <1>1 DEF IInv, Undisturbed, Ordered, history
<1> QED
  BY <1>3, <1>4 DEF IInv

-----------------------------------------------------------------------------
\* The steps.

LEMMA ProducingOK == ASSUME IInv, Producing PROVE IInv'
<1>1. TypeOK' /\ UNCHANGED <<committed, reader, messageChan, closer, caller, delivered, history>>
  BY ProducingTypes DEF IInv
<1> QED
  BY <1>1, Keeps DEF reader, history

\* CommitOffsets, Close and what a consuming goroutine does without a message.
LEMMA AsideOK ==
    ASSUME IInv,
           \/ ReadEnds \/ CommitOffsets \/ Cancel \/ CloseReader
           \/ \E c \in Caller : \/ Consume(c) \/ ConsumeChan(c) \/ ReceiveClosed(c)
                                \/ ConsumerDone(c) \/ CallerDone(c)
    PROVE  IInv'
<1>1. /\ UNCHANGED <<broker, requested, position, held, messageChan, delivered, history>>
      /\ pc' = pc \/ (pc = "read" /\ pc' = "done")
  BY DEF ReadEnds, CommitOffsets, Cancel, CloseReader, Consume, ConsumeChan,
     ReceiveClosed, ConsumerDone, CallerDone, reader
<1>2. committed' \in 0 .. Len(partition) + 1
  BY DEF IInv, TypeOK, ReadEnds, CommitOffsets, Cancel, CloseReader, Flush, Consume,
     ConsumeChan, ReceiveClosed, ConsumerDone, CallerDone
<1>3. closer' \in {"open", "cancelled", "closed"}
  BY DEF IInv, TypeOK, ReadEnds, CommitOffsets, Cancel, CloseReader, Consume, ConsumeChan,
     ReceiveClosed, ConsumerDone, CallerDone
<1>4. caller' \in [Caller -> {"idle", "consume", "range"}]
  BY DEF IInv, TypeOK, ReadEnds, CommitOffsets, Cancel, CloseReader, Consume, ConsumeChan,
     ReceiveClosed, ConsumerDone, CallerDone, Enter
<1>5. pc' \in {"read", "send", "done"} /\ held' \in (IF pc' = "send" THEN Offsets ELSE {0})
  BY <1>1 DEF IInv, TypeOK
<1>6. TypeOK'
  BY <1>1, <1>2, <1>3, <1>4, <1>5, ConsumerTypes DEF IInv, TypeOK, history
<1> QED
  BY <1>1, <1>6, Keeps

LEMMA ReadMessageOK == ASSUME IInv, ReadMessage PROVE IInv'
<1>1. /\ pc = "read" /\ position <= Len(partition)
      /\ held' = position /\ position' = position + 1 /\ requested' = position + 1
      /\ pc' = "send"
      /\ UNCHANGED <<broker, committed, messageChan, closer, caller, delivered, history>>
  BY DEF ReadMessage
<1>2. TypeOK /\ Len(partition) \in Nat /\ position \in 1 .. Len(partition)
  BY <1>1, ProcessIs DEF IInv, TypeOK
<1>3. TypeOK'
  <2>1. position + 1 \in 1 .. Len(partition) + 1 /\ position + 1 \in 0 .. Len(partition) + 1
    BY <1>2
  <2>2. held' \in (IF pc' = "send" THEN Offsets ELSE {0})
    BY <1>1, <1>2 DEF Offsets
  <2> QED
    BY <1>1, <1>2, <2>1, <2>2, ConsumerTypes DEF TypeOK, history
<1>4. InProcess' = InProcess \cup {position}
  <2>1. InProcess = Contents(messageChan)
    BY <1>1, <1>2, ProcessIs
  <2>2. InProcess' = Contents(messageChan) \cup ({position} \ {0})
    BY <1>1 DEF InProcess, Contents
  <2> QED
    BY <1>2, <2>1, <2>2
<1>5. Lost' \subseteq Lost
  BY <1>1, <1>2, <1>4 DEF Lost, history
<1>6. LossBounded'
  BY <1>1, <1>2, <1>5, LossStays DEF IInv, history
<1>7. ASSUME Ordered PROVE Ordered'
  <2>1. \A x \in InProcess \cup delivered : x \in Int /\ x < position
    <3>1. InProcess \cup delivered \subseteq Int
      <4>1. InProcess \subseteq Offsets
        BY <1>2, ProcessIs
      <4>2. delivered \subseteq Offsets
        BY <1>2 DEF TypeOK
      <4>3. Offsets \subseteq Int
        BY <1>2 DEF Offsets
      <4> QED
        BY <4>1, <4>2, <4>3
    <3> QED
      BY <1>7, <3>1 DEF Ordered
  <2>2. \A i \in 1 .. Len(messageChan) : messageChan[i] \in InProcess
    BY DEF InProcess
  <2> QED
    BY <1>1, <1>2, <1>4, <1>7, <2>1, <2>2 DEF Ordered
<1> QED
  BY <1>1, <1>3, <1>6, <1>7 DEF IInv, Undisturbed, history

LEMMA SendOK == ASSUME IInv, Send PROVE IInv'
<1>1. /\ pc = "send" /\ Len(messageChan) < Capacity
      /\ messageChan' = Append(messageChan, held) /\ held' = 0 /\ pc' = "read"
      /\ UNCHANGED <<broker, committed, requested, position, closer, caller, delivered, history>>
  BY DEF Send
<1>2. TypeOK /\ held \in Offsets /\ messageChan \in Seq(Offsets)
  BY <1>1, ProcessIs DEF IInv
<1>3. PICK h \in Offsets : h = held
  BY <1>2
<1>4. /\ messageChan' \in Seq(Offsets) /\ Len(messageChan) \in Nat
      /\ Len(messageChan') = Len(messageChan) + 1
      /\ \A i \in 1 .. Len(messageChan) : messageChan'[i] = messageChan[i]
      /\ messageChan'[Len(messageChan) + 1] = held
      /\ Contents(Append(messageChan, h)) = Contents(messageChan) \cup {h}
  BY <1>1, <1>2, <1>3, Appended
<1>5. TypeOK'
  BY <1>1, <1>2, <1>4, QueueAssumption, ConsumerTypes DEF TypeOK, history
<1>6. InProcess' = InProcess
  <2>1. InProcess = Contents(messageChan) \cup {held}
    BY <1>1, <1>2, ProcessIs
  <2>2. InProcess' = Contents(Append(messageChan, h)) \cup {}
    BY <1>1, <1>3 DEF InProcess, Contents
  <2> QED
    BY <1>3, <1>4, <2>1, <2>2
<1>7. LossBounded'
  <2>1. Lost' = Lost
    BY <1>1, <1>6 DEF Lost, history
  <2> QED
    BY <1>1, <1>2, <2>1, LossStays DEF IInv, history
<1>8. ASSUME Ordered PROVE Ordered'
  <2>1. ASSUME NEW i \in 1 .. Len(messageChan'), NEW j \in 1 .. Len(messageChan'), i < j
        PROVE  messageChan'[i] < messageChan'[j]
    <3>1. i \in 1 .. Len(messageChan)
      BY <1>4, <2>1
    <3>2. CASE j \in 1 .. Len(messageChan)
      BY <1>4, <1>8, <2>1, <3>1, <3>2 DEF Ordered
    <3>3. CASE j = Len(messageChan) + 1
      BY <1>1, <1>4, <1>8, <3>1, <3>3 DEF Ordered
    <3> QED
      BY <1>4, <3>2, <3>3
  <2> QED
    BY <1>1, <1>6, <1>8, <2>1 DEF Ordered
<1> QED
  BY <1>1, <1>5, <1>7, <1>8 DEF IInv, Undisturbed, history

LEMMA ReceiveOK == ASSUME IInv, NEW c \in Caller, Receive(c) PROVE IInv'
<1> DEFINE h == Head(messageChan)
<1>1. /\ messageChan # << >> /\ delivered' = delivered \cup {h}
      /\ messageChan' = Tail(messageChan)
      /\ UNCHANGED <<broker, committed, reader, closer, history>>
  BY DEF Receive
<1>2. TypeOK /\ messageChan \in Seq(Offsets)
  BY ProcessIs DEF IInv
<1>3. /\ messageChan' \in Seq(Offsets) /\ h \in Offsets /\ h = messageChan[1]
      /\ Len(messageChan) \in Nat \ {0} /\ Len(messageChan') = Len(messageChan) - 1
      /\ \A i \in 1 .. Len(messageChan) - 1 : messageChan'[i] = messageChan[i + 1]
      /\ Contents(messageChan) = Contents(Tail(messageChan)) \cup {h}
  BY <1>1, <1>2, Beheaded
<1> HIDE DEF h
<1>4. caller' \in [Caller -> {"idle", "consume", "range"}]
  BY <1>2 DEF Receive, Enter, TypeOK
<1>5. TypeOK'
  <2>1. Len(messageChan') <= Capacity
    BY <1>2, <1>3, QueueAssumption DEF TypeOK
  <2> QED
    BY <1>1, <1>2, <1>3, <1>4, <2>1, ConsumerTypes DEF TypeOK, reader, history
<1>6. InProcess' \subseteq InProcess /\ InProcess \subseteq InProcess' \cup {h}
  <2>1. InProcess = Contents(messageChan) \cup ({held} \ {0})
    BY DEF InProcess, Contents
  <2>2. InProcess' = Contents(Tail(messageChan)) \cup ({held} \ {0})
    BY <1>1 DEF InProcess, Contents, reader
  <2> QED
    BY <1>3, <2>1, <2>2
<1>7. LossBounded'
  <2>1. Lost' \subseteq Lost
    BY <1>1, <1>6 DEF Lost, reader, history
  <2> QED
    BY <1>1, <1>2, <2>1, LossStays DEF IInv, reader, history
<1>8. ASSUME Ordered PROVE Ordered'
  <2>1. \A i \in 1 .. Len(messageChan) - 1 : i + 1 \in 1 .. Len(messageChan)
    BY <1>3
  <2>2. \A i, j \in 1 .. Len(messageChan') : i < j => messageChan'[i] < messageChan'[j]
    BY <1>3, <1>8, <2>1 DEF Ordered
  <2>3. pc' = "send" => \A i \in 1 .. Len(messageChan') : messageChan'[i] < held'
    BY <1>1, <1>3, <1>8, <2>1 DEF Ordered, reader
  <2>4. ASSUME NEW x \in InProcess' PROVE h < x
    <3>1. x \in Contents(Tail(messageChan)) \/ (pc = "send" /\ x = held)
      <4>1. InProcess' \subseteq Contents(Tail(messageChan)) \cup (IF pc = "send" THEN {held} ELSE {})
        <5>1. InProcess' = Contents(Tail(messageChan)) \cup ({held} \ {0})
          BY <1>1 DEF InProcess, Contents, reader
        <5>2. pc # "send" => held = 0
          BY <1>2, ProcessIs
        <5> QED
          BY <5>1, <5>2
      <4> QED
        BY <2>4, <4>1
    <3>2. CASE pc = "send" /\ x = held
      <4>1. 1 \in 1 .. Len(messageChan)
        BY <1>3
      <4> QED
        BY <1>3, <1>8, <3>2, <4>1 DEF Ordered
    <3>3. CASE x \in Contents(Tail(messageChan))
      <4>1. PICK i \in 1 .. Len(messageChan') : x = messageChan'[i]
        BY <1>1, <3>3 DEF Contents
      <4>2. /\ i + 1 \in 1 .. Len(messageChan) /\ 1 \in 1 .. Len(messageChan) /\ 1 < i + 1
            /\ x = messageChan[i + 1]
        BY <1>3, <4>1
      <4> QED
        BY <1>3, <1>8, <4>2 DEF Ordered
    <3> QED
      BY <3>1, <3>2, <3>3
  <2>5. h \in InProcess
    <3>1. 1 \in 1 .. Len(messageChan)
      BY <1>3
    <3> QED
      BY <1>3, <3>1 DEF InProcess
  <2>6. position' = position
    BY <1>1 DEF reader
  <2>7. \A x \in InProcess' : x < position /\ \A o \in delivered' : o < x
    BY <1>1, <1>6, <1>8, <2>4 DEF Ordered
  <2>8. \A o \in delivered' : o < position
    BY <1>1, <1>8, <2>5 DEF Ordered
  <2> QED
    BY <2>2, <2>3, <2>6, <2>7, <2>8 DEF Ordered
<1> QED
  BY <1>1, <1>5, <1>7, <1>8 DEF IInv, Undisturbed, history

\* Close drops the message being sent, the one loss that needs no restart.
LEMMA SendCancelledOK == ASSUME IInv, SendCancelled PROVE IInv'
<1>1. /\ pc = "send" /\ pc' = "done" /\ held' = 0
      /\ UNCHANGED <<broker, committed, requested, position, messageChan, closer, caller,
                     delivered, history>>
  BY DEF SendCancelled
<1>2. TypeOK'
  BY <1>1, ConsumerTypes DEF IInv, TypeOK, history
<1>3. InProcess' \subseteq InProcess /\ InProcess \subseteq InProcess' \cup {held}
  BY <1>1 DEF InProcess
<1>4. LossBounded'
  <2> DEFINE bound == restarts * (Capacity + 1)
  <2>1. IsFiniteSet(Lost) /\ IsFiniteSet({held}) /\ Cardinality({held}) = 1
    BY LostFinite, FS_Singleton DEF IInv
  <2>2. Lost' \subseteq Lost \cup {held}
    BY <1>1, <1>3 DEF Lost, history
  <2>3. /\ Cardinality(Lost') \in Nat /\ Cardinality(Lost) \in Nat
        /\ Cardinality(Lost') <= Cardinality(Lost) + 1
    BY <2>1, <2>2, UnionBound
  <2>4. Cardinality(Lost) <= bound + 0
    BY <1>1 DEF IInv, LossBounded
  <2>5. bound \in Int
    <3>1. restarts \in Int /\ Capacity + 1 \in Int
      BY QueueAssumption DEF IInv, TypeOK
    <3>2. \A m, n \in Int : m * n \in Int
      BY SMT
    <3> QED
      BY <3>1, <3>2
  <2> HIDE DEF bound
  <2>6. Cardinality(Lost') <= bound + 1
    BY <2>3, <2>4, <2>5
  <2> QED
    BY <1>1, <2>6 DEF LossBounded, bound, history
<1>5. ASSUME Ordered PROVE Ordered'
  BY <1>1, <1>3, <1>5 DEF Ordered
<1> QED
  BY <1>1, <1>2, <1>4, <1>5 DEF IInv, Undisturbed, history

\* A reader that starts again, at the committed offset or at the newest message.
LEMMA StartReadingTypes ==
    ASSUME TypeOK, committed' \in 0 .. Len(partition) + 1, StartReading
    PROVE  /\ requested' \in 0 .. Len(partition) + 1
           /\ position' \in 1 .. Len(partition) + 1
           /\ skipped \subseteq skipped' /\ skipped' \subseteq Offsets
           /\ (1 .. position' - 1) \ skipped' \subseteq (1 .. position - 1) \ skipped
<1>1. Len(partition) \in Nat /\ position \in 1 .. Len(partition) + 1 /\ skipped \subseteq Offsets
  BY ProcessIs DEF TypeOK
<1>2. /\ requested' = committed' /\ position' = StartOffset
      /\ skipped' = skipped \cup (position .. StartOffset - 1)
  BY DEF StartReading
<1>3. StartOffset \in 1 .. Len(partition) + 1
  BY <1>1 DEF StartOffset
<1> DEFINE s == StartOffset
<1>4. position .. s - 1 \subseteq Offsets
  BY <1>1, <1>3 DEF Offsets
<1>5. \A x \in 1 .. s - 1 : x \in 1 .. position - 1 \/ x \in position .. s - 1
  BY <1>1, <1>3
<1> HIDE DEF s
<1>6. (1 .. position' - 1) \ skipped' \subseteq (1 .. position - 1) \ skipped
  BY <1>2, <1>5 DEF s
<1> QED
  BY <1>1, <1>2, <1>3, <1>4, <1>6 DEF s

LEMMA RebalanceOK == ASSUME IInv, Rebalance PROVE IInv'
<1>1. /\ StartReading /\ Flush
      /\ rebalances < MaxRebalances /\ rebalances' = rebalances + 1
      /\ UNCHANGED <<broker, pc, held, messageChan, closer, caller, delivered, restarts>>
  BY DEF Rebalance
<1>2. committed' \in 0 .. Len(partition) + 1
  BY <1>1 DEF Flush, IInv, TypeOK
<1>3. /\ requested' \in 0 .. Len(partition) + 1 /\ position' \in 1 .. Len(partition) + 1
      /\ skipped \subseteq skipped' /\ skipped' \subseteq Offsets
      /\ (1 .. position' - 1) \ skipped' \subseteq (1 .. position - 1) \ skipped
  BY <1>1, <1>2, StartReadingTypes DEF IInv
<1>4. rebalances' \in 0 .. MaxRebalances /\ rebalances' # 0
  BY <1>1, QueueAssumption DEF IInv, TypeOK
<1>5. TypeOK'
  BY <1>1, <1>2, <1>3, <1>4, ConsumerTypes DEF IInv, TypeOK
<1>6. InProcess' = InProcess
  BY <1>1 DEF InProcess
<1>7. Lost' \subseteq Lost
  BY <1>1, <1>3, <1>6 DEF Lost
<1>8. LossBounded'
  BY <1>1, <1>7, LossStays DEF IInv
<1> QED
  BY <1>4, <1>5, <1>8 DEF IInv, Undisturbed

\* A restart loses what was in the process: a full channel and one message more.
LEMMA RestartOK == ASSUME IInv, Restart PROVE IInv'
<1>1. /\ StartReading /\ restarts < MaxRestarts /\ restarts' = restarts + 1
      /\ pc' = "read" /\ held' = 0 /\ messageChan' = << >> /\ closer' = "open"
      /\ caller' = [c \in Caller |-> "idle"]
      /\ UNCHANGED <<broker, committed, delivered, rebalances>>
  BY DEF Restart
<1>2. TypeOK /\ committed' \in 0 .. Len(partition) + 1
  BY <1>1 DEF IInv, TypeOK
<1>3. /\ requested' \in 0 .. Len(partition) + 1 /\ position' \in 1 .. Len(partition) + 1
      /\ skipped \subseteq skipped' /\ skipped' \subseteq Offsets
      /\ (1 .. position' - 1) \ skipped' \subseteq (1 .. position - 1) \ skipped
  BY <1>1, <1>2, StartReadingTypes
<1>4. restarts \in Nat /\ restarts' \in 0 .. MaxRestarts /\ restarts' # 0
  BY <1>1, <1>2, QueueAssumption DEF TypeOK
<1>5. TypeOK'
  <2>1. messageChan' \in Seq(Offsets) /\ Len(messageChan') <= Capacity
    BY <1>1, QueueAssumption
  <2>2. caller' \in [Caller -> {"idle", "consume", "range"}]
    BY <1>1
  <2> QED
    BY <1>1, <1>2, <1>3, <1>4, <2>1, <2>2, ConsumerTypes DEF TypeOK
<1>6. Lost' \subseteq Lost \cup InProcess
  BY <1>1, <1>3 DEF Lost
<1>7. /\ IsFiniteSet(InProcess) /\ Cardinality(InProcess) \in Nat
      /\ Cardinality(InProcess) <= Capacity + (IF pc = "send" THEN 1 ELSE 0)
  <2> DEFINE C == Contents(messageChan)
  <2>1. /\ IsFiniteSet(C) /\ Cardinality(C) \in Nat /\ Len(messageChan) \in Nat
        /\ Cardinality(C) <= Len(messageChan)
    BY <1>2, ProcessIs, ContentsSize
  <2>2. Len(messageChan) <= Capacity /\ Capacity \in Nat
    BY <1>2, QueueAssumption DEF TypeOK
  <2>3. InProcess = C \cup (IF pc = "send" THEN {held} ELSE {})
    BY <1>2, ProcessIs
  <2> HIDE DEF C
  <2>4. CASE pc = "send"
    <3>1. IsFiniteSet({held}) /\ Cardinality({held}) = 1 /\ InProcess \subseteq C \cup {held}
      BY <2>3, <2>4, FS_Singleton
    <3>2. /\ IsFiniteSet(InProcess) /\ Cardinality(InProcess) \in Nat
          /\ Cardinality(InProcess) <= Cardinality(C) + Cardinality({held})
      BY <2>1, <3>1, UnionBound
    <3> QED
      BY <2>1, <2>2, <2>4, <3>1, <3>2
  <2>5. CASE pc # "send"
    <3>1. InProcess = C
      BY <2>3, <2>5
    <3> QED
      BY <2>1, <2>2, <2>5, <3>1
  <2> QED
    BY <2>4, <2>5
<1>8. LossBounded'
  <2> DEFINE unit == Capacity + 1
             bound == restarts * unit
             p == IF pc = "done" THEN 1 ELSE 0
             q == IF pc = "send" THEN 1 ELSE 0
  <2>1. IsFiniteSet(Lost)
    BY <1>2, LostFinite
  <2>2. /\ Cardinality(Lost') \in Nat /\ Cardinality(Lost) \in Nat
        /\ Cardinality(Lost') <= Cardinality(Lost) + Cardinality(InProcess)
    BY <1>6, <1>7, <2>1, UnionBound
  <2>3. Cardinality(Lost) <= bound + p
    BY DEF IInv, LossBounded
  <2>4. p + q <= 1 /\ p \in Nat /\ q \in Nat
    OBVIOUS
  <2>5. unit \in Nat /\ Capacity \in Nat /\ unit = Capacity + 1
    BY QueueAssumption
  <2>6. bound \in Int /\ restarts' * unit = bound + unit
    <3> HIDE DEF unit
    <3>1. \A m, n \in Nat : m * n \in Int /\ (m + 1) * n = m * n + n
      BY SMT
    <3> QED
      BY <1>1, <1>4, <2>5, <3>1
  <2> HIDE DEF unit, bound, p, q
  <2>7. Cardinality(Lost') <= bound + unit
    BY <1>7, <2>2, <2>3, <2>4, <2>5, <2>6 DEF q
  <2>8. Cardinality(Lost') <= restarts' * unit + 0
    BY <2>5, <2>6, <2>7
  <2> QED
    BY <1>1, <2>8 DEF LossBounded, unit
<1> QED
  BY <1>4, <1>5, <1>8 DEF IInv, Undisturbed

LEMMA StepOK == IInv /\ [Next]_vars => IInv'
<1> SUFFICES ASSUME IInv, [Next]_vars PROVE IInv'
  OBVIOUS
<1>1. CASE Producing
  BY <1>1, ProducingOK
<1>2. CASE Reading
  BY <1>2, ReadMessageOK, AsideOK, SendOK, SendCancelledOK DEF Reading
<1>3. CASE CommitOffsets \/ Cancel \/ CloseReader
  BY <1>3, AsideOK
<1>4. ASSUME NEW c \in Caller, Consume(c) \/ ConsumeChan(c) \/ Returning(c) \/ CallerDone(c)
      PROVE  IInv'
  BY <1>4, AsideOK, ReceiveOK DEF Returning
<1>5. CASE Rebalance
  BY <1>5, RebalanceOK
<1>6. CASE Restart
  BY <1>6, RestartOK
<1>7. CASE UNCHANGED vars
  <2>1. /\ UNCHANGED <<broker, committed, requested, position, pc, held, messageChan,
                       closer, caller, delivered, history>>
    BY <1>7 DEF vars, reader
  <2>2. TypeOK'
    BY <2>1, ConsumerTypes DEF IInv, TypeOK, history
  <2> QED
    BY <2>1, <2>2, Keeps
<1> QED
  BY <1>1, <1>2, <1>3, <1>4, <1>5, <1>6, <1>7 DEF Next

\* The invariant the theorems follow from.
THEOREM Invariant == Spec => []IInv
BY InitOK, StepOK, PTL DEF Spec

\* Type correctness: the goroutine holds an offset exactly while it sends one, and
\* every offset in the process is one of the partition.
THEOREM TypeCorrect == Spec => []TypeOK
<1>1. IInv => TypeOK
  BY DEF IInv
<1> QED
  BY <1>1, Invariant, PTL

\* However often consumers crash and groups are rebalanced, a restart costs no
\* more than a full channel and the message being sent, and Close at most one
\* (kafka_consumer.go:101-123).
THEOREM AlwaysLossBounded == Spec => []LossBounded
<1>1. IInv => LossBounded
  BY DEF IInv
<1> QED
  BY <1>1, Invariant, PTL

\* Without a restart and a rebalance no message is consumed twice, by any number
\* of goroutines that consume.
THEOREM AlwaysNoRedelivery == Spec => []NoRedelivery
<1>1. IInv => NoRedelivery
  <2> SUFFICES ASSUME IInv, restarts = 0, rebalances = 0
               PROVE  /\ InProcess \cap delivered = {}
                      /\ Cardinality(InProcess) =
                             Len(messageChan) + (IF pc = "send" THEN 1 ELSE 0)
    BY DEF NoRedelivery
  <2> DEFINE C == Contents(messageChan)
  <2>1. /\ Ordered /\ messageChan \in Seq(Offsets) /\ Offsets \subseteq Int
        /\ InProcess = C \cup (IF pc = "send" THEN {held} ELSE {})
        /\ C \subseteq Offsets
        /\ delivered \subseteq Offsets
    BY ProcessIs DEF IInv, Undisturbed, Offsets, TypeOK
  <2>2. InProcess \cap delivered = {}
    <3> SUFFICES ASSUME NEW x \in InProcess, x \in delivered PROVE FALSE
      OBVIOUS
    <3>1. x < x /\ x \in Int
      BY <2>1 DEF Ordered
    <3> QED
      BY <3>1
  <2>3. /\ IsFiniteSet(C) /\ Cardinality(C) \in Nat /\ Len(messageChan) \in Nat
        /\ Cardinality(C) = Len(messageChan)
    <3>1. \A i \in 1 .. Len(messageChan) : messageChan[i] \in Int
      <4>1. \A i \in 1 .. Len(messageChan) : messageChan[i] \in C
        BY DEF Contents
      <4> HIDE DEF C
      <4> QED
        BY <2>1, <4>1
    <3>2. ASSUME NEW i \in 1 .. Len(messageChan), NEW j \in 1 .. Len(messageChan),
                 messageChan[i] = messageChan[j]
          PROVE  i = j
      <4>1. ~(i < j) /\ ~(j < i)
        BY <2>1, <3>1, <3>2 DEF Ordered
      <4>2. Len(messageChan) \in Nat
        BY <2>1
      <4> QED
        BY <4>1, <4>2
    <3> QED
      BY <2>1, <3>2, ContentsSize
  <2>4. pc = "send" => held \notin C
    <3> SUFFICES ASSUME pc = "send", held \in C PROVE FALSE
      OBVIOUS
    <3>1. PICK i \in 1 .. Len(messageChan) : held = messageChan[i]
      BY DEF Contents
    <3>2. held < held /\ held \in Int
      BY <2>1, <3>1 DEF Ordered
    <3> QED
      BY <3>2
  <2> HIDE DEF C
  <2>5. CASE pc = "send"
    <3>1. Cardinality(C \cup {held}) = Cardinality(C) + 1
      BY <2>3, <2>4, <2>5, FS_AddElement
    <3>2. InProcess = C \cup {held}
      BY <2>1, <2>5
    <3> QED
      BY <2>2, <2>3, <2>5, <3>1, <3>2
  <2>6. CASE pc # "send"
    <3>1. InProcess = C
      BY <2>1, <2>6
    <3> QED
      BY <2>2, <2>3, <2>6, <3>1
  <2> QED
    BY <2>5, <2>6
<1> QED
  BY <1>1, Invariant, PTL

\* The writer has nothing to do for a message whose Produce has returned nil.
NilIsLast == attempt > 0 => returned # "nil"

LEMMA OnlyProducing == ASSUME [Next]_vars PROVE Producing \/ UNCHANGED broker
BY DEF Next, Reading, ReadMessage, ReadEnds, Send, SendCancelled,
   CommitOffsets, Consume, ConsumeChan, Returning, Receive, ReceiveClosed, ConsumerDone,
   CallerDone, Cancel, CloseReader, Rebalance, Restart, vars

\* A message for which Produce returned nil is stored, with idempotence or with
\* required_acks: -1, whatever the other value is.
THEOREM AlwaysAckedStored == Spec => []AckedStored
<1>1. Init => AckedStored /\ NilIsLast
  BY DEF Init, AckedStored, NilIsLast
<1>2. TypeOK /\ NilIsLast /\ [Next]_vars => NilIsLast'
  <2> SUFFICES ASSUME TypeOK, NilIsLast, [Next]_vars PROVE NilIsLast'
    OBVIOUS
  <2>1. CASE Producing
    BY <2>1, QueueAssumption
    DEF NilIsLast, TypeOK, Producing, Produce, ProduceCancelled, Acknowledged,
        NotAcknowledged, Return
  <2>2. CASE UNCHANGED broker
    BY <2>2 DEF NilIsLast, broker
  <2> QED
    BY <2>1, <2>2, OnlyProducing
<1>3. TypeOK /\ NilIsLast /\ AckedStored /\ [Next]_vars => AckedStored'
  <2> SUFFICES ASSUME TypeOK, NilIsLast, AckedStored, [Next]_vars,
                      IdempotentEnabled \/ RequiredAcks = -1, returned' = "nil"
               PROVE  \E i \in DOMAIN partition' : partition'[i] = msg'
    BY DEF AckedStored
  <2>1. CASE Acknowledged
    <3>1. partition' = Append(partition, msg) /\ msg' = msg
      BY <2>1 DEF Acknowledged, WriterAcks, getKafkaRequiredAcks
    <3>2. PICK m \in 1 .. MaxMessages : m = msg
      BY <2>1, QueueAssumption DEF TypeOK, Acknowledged
    <3>3. partition \in Seq(1 .. MaxMessages)
      BY DEF TypeOK
    <3>4. /\ Append(partition, m) \in Seq(1 .. MaxMessages) /\ Len(partition) \in Nat
          /\ Len(Append(partition, m)) = Len(partition) + 1
          /\ Append(partition, m)[Len(partition) + 1] = m
      BY <3>3, Appended
    <3>5. Len(partition) + 1 \in DOMAIN Append(partition, m)
      BY <3>4
    <3> QED
      BY <3>1, <3>2, <3>4, <3>5
  <2>2. CASE UNCHANGED broker
    BY <2>2 DEF AckedStored, broker
  <2>3. ~Produce /\ ~ProduceCancelled /\ ~NotAcknowledged
    BY QueueAssumption
    DEF NilIsLast, Produce, ProduceCancelled, NotAcknowledged, Return
  <2>4. Acknowledged \/ UNCHANGED broker
    BY <2>3, OnlyProducing DEF Producing
  <2> QED
    BY <2>1, <2>2, <2>4
<1> QED
  BY <1>1, <1>2, <1>3, TypeCorrect, PTL DEF Spec

-----------------------------------------------------------------------------
\* The order of first deliveries.

\* Offsets that may still be read: from where the reader is, from where it would
\* start again and from where it would after its next commit.
Comes(o) ==
    \/ o >= position
    \/ committed > 0 /\ o >= committed
    \/ requested > 0 /\ o >= requested

\* What was consumed once the first i offsets of the channel are, and what may
\* come after them.
Seen(o, i) == o \in delivered \/ \E k \in 1 .. i : messageChan[k] = o
Ahead(o, i) ==
    \/ \E k \in i + 1 .. Len(messageChan) : messageChan[k] = o
    \/ pc = "send" /\ o = held
    \/ Comes(o)

\* At every place of the channel: what comes after it was seen before it, or is
\* later than all that was.
InLine ==
    \A i \in 0 .. Len(messageChan) : \A o, x \in Nat :
        Ahead(o, i) /\ Seen(x, i) => Seen(o, i) \/ x < o

\* The same of the offset being sent.
HeldInLine ==
    pc = "send" =>
        \A o \in Nat : Comes(o) => Seen(o, Len(messageChan)) \/ held <= o

\* While the goroutine reads, it leaves out nothing that a restart brings back.
NoneBetween ==
    pc # "done" =>
        \A o \in Nat : o < position /\ Comes(o) =>
            Seen(o, Len(messageChan)) \/ (pc = "send" /\ o = held)

LineInv == InLine /\ HeldInLine /\ NoneBetween

LEMMA LineTypes ==
    ASSUME TypeOK
    PROVE  /\ Len(messageChan) \in Nat /\ Len(partition) \in Nat
           /\ \A i \in 1 .. Len(messageChan) : messageChan[i] \in 1 .. Len(partition)
           /\ delivered \subseteq 1 .. Len(partition)
           /\ pc = "send" => held \in 1 .. Len(partition)
           /\ position \in Nat /\ committed \in Nat /\ requested \in Nat
<1>1. /\ messageChan \in Seq(Offsets) /\ Len(messageChan) \in Nat /\ Len(partition) \in Nat
      /\ pc = "send" => held \in Offsets
  BY ProcessIs
<1>2. \A i \in 1 .. Len(messageChan) : messageChan[i] \in Offsets
  BY <1>1
<1> QED
  BY <1>1, <1>2 DEF TypeOK, Offsets

LEMMA InitLine == Init => LineInv
BY DEF Init, LineInv, InLine, HeldInLine, NoneBetween, Comes, Seen, Ahead

\* Nothing moves, and no more may come than before.
LEMMA LineKept ==
    ASSUME LineInv, \A o \in Nat : Comes(o)' => Comes(o),
           UNCHANGED <<position, messageChan, delivered>>,
           \/ UNCHANGED <<pc, held>>
           \/ pc' = "done"
    PROVE  LineInv'
<1>1. \A o, i : Seen(o, i)' <=> Seen(o, i)
  BY DEF Seen
<1>2. \A o \in Nat : \A i : Ahead(o, i)' => Ahead(o, i)
  BY DEF Ahead
<1>3. InLine'
  BY <1>1, <1>2, Zenon DEF LineInv, InLine
<1>4. HeldInLine'
  BY <1>1 DEF LineInv, HeldInLine
<1>5. NoneBetween'
  BY <1>1 DEF LineInv, NoneBetween
<1> QED
  BY <1>3, <1>4, <1>5 DEF LineInv

\* Steps that neither read, send, deliver nor start again.
LEMMA LineAside ==
    ASSUME TypeOK, LineInv,
           \/ Producing \/ ReadEnds \/ SendCancelled \/ CommitOffsets \/ Cancel \/ CloseReader
           \/ \E c \in Caller : \/ Consume(c) \/ ConsumeChan(c) \/ ReceiveClosed(c)
                                \/ ConsumerDone(c) \/ CallerDone(c)
           \/ UNCHANGED vars
    PROVE  LineInv' /\ delivered' = delivered
<1>1. /\ UNCHANGED <<requested, position, messageChan, delivered>>
      /\ UNCHANGED <<pc, held>> \/ pc' = "done"
      /\ committed' = committed \/ (requested > committed /\ committed' = requested)
  BY DEF Producing, Produce, ProduceCancelled, Acknowledged,
     NotAcknowledged, Return, ReadEnds, SendCancelled,
     CommitOffsets, Cancel, CloseReader, Flush, Consume, ConsumeChan, ReceiveClosed,
     ConsumerDone, CallerDone, vars, reader
<1>2. ASSUME NEW o \in Nat PROVE Comes(o)' => Comes(o)
  BY <1>1, LineTypes DEF Comes
<1> QED
  BY <1>1, <1>2, LineKept

LEMMA LineReadMessage ==
    ASSUME TypeOK, LineInv, ReadMessage
    PROVE  LineInv' /\ delivered' = delivered
<1>1. /\ pc = "read" /\ held' = position /\ position' = position + 1
      /\ requested' = position + 1 /\ pc' = "send"
      /\ UNCHANGED <<committed, messageChan, delivered>>
  BY DEF ReadMessage
<1>2. position \in Nat /\ committed \in Nat
  BY LineTypes
<1>3. \A o, i : Seen(o, i)' <=> Seen(o, i)
  BY <1>1 DEF Seen
<1>4. ASSUME NEW o \in Nat, Comes(o)'
      PROVE  Comes(o) /\ (position < o \/ Seen(o, Len(messageChan)) \/ o = position)
  BY <1>1, <1>2, <1>4 DEF Comes, LineInv, NoneBetween
<1>5. \A o \in Nat : \A i : Ahead(o, i)' => Ahead(o, i)
  BY <1>1, <1>2, <1>4 DEF Ahead, Comes
<1>6. InLine'
  BY <1>1, <1>3, <1>5, Zenon DEF LineInv, InLine
<1>7. HeldInLine'
  BY <1>1, <1>2, <1>3, <1>4 DEF HeldInLine
<1>8. NoneBetween'
  BY <1>1, <1>2, <1>3, <1>4 DEF NoneBetween
<1> QED
  BY <1>1, <1>6, <1>7, <1>8 DEF LineInv

LEMMA LineSend ==
    ASSUME TypeOK, LineInv, Send
    PROVE  LineInv' /\ delivered' = delivered
<1>0. PICK n \in Nat : n = Len(messageChan)
  BY LineTypes
<1>1. /\ pc = "send" /\ messageChan' = Append(messageChan, held) /\ pc' = "read"
      /\ UNCHANGED <<committed, requested, position, delivered>>
  BY DEF Send
<1>2. held \in Nat /\ held \in Offsets /\ messageChan \in Seq(Offsets)
  BY <1>1, ProcessIs DEF Offsets
<1>3. PICK h \in Offsets : h = held
  BY <1>2
<1>4. /\ Len(messageChan') = n + 1
      /\ \A i \in 1 .. n : messageChan'[i] = messageChan[i]
      /\ messageChan'[n + 1] = held
  BY <1>0, <1>1, <1>2, <1>3, Appended
<1>5. \A o : Comes(o)' <=> Comes(o)
  BY <1>1 DEF Comes
<1>6. \A o : \A i \in 0 .. n : Seen(o, i)' <=> Seen(o, i)
  BY <1>1, <1>2, <1>4 DEF Seen
<1>7. \A o : Seen(o, n + 1)' <=> Seen(o, n) \/ o = held
  BY <1>1, <1>2, <1>4 DEF Seen
<1>8. ASSUME NEW i \in 0 .. n, NEW o, Ahead(o, i)' PROVE Ahead(o, i)
  <2>1. CASE \E k \in i + 1 .. n + 1 : messageChan'[k] = o
    <3>1. PICK k \in i + 1 .. n + 1 : messageChan'[k] = o
      BY <2>1
    <3>2. CASE k = n + 1
      BY <1>1, <1>4, <3>1, <3>2 DEF Ahead
    <3>3. CASE k # n + 1
      <4>1. k \in i + 1 .. n /\ k \in 1 .. n
        BY <1>2, <3>3
      <4> QED
        BY <1>0, <1>4, <3>1, <4>1 DEF Ahead
    <3> QED
      BY <3>2, <3>3
  <2>2. CASE Comes(o)'
    BY <1>5, <2>2 DEF Ahead
  <2> QED
    BY <1>1, <1>4, <1>8, <2>1, <2>2 DEF Ahead
<1>9. ASSUME NEW o \in Nat, Ahead(o, n + 1)' PROVE Comes(o)
  <2>1. ~(\E k \in (n + 1) + 1 .. n + 1 : messageChan'[k] = o)
    BY <1>2
  <2> QED
    BY <1>1, <1>4, <1>5, <1>9, <2>1 DEF Ahead
<1>10. \A o, x \in Nat : Comes(o) /\ Seen(x, n) => Seen(o, n) \/ x < o
  <2>1. n \in 0 .. n
    BY <1>2
  <2> QED
    BY <1>0, <2>1 DEF LineInv, InLine, Ahead
<1>11. \A o \in Nat : Comes(o) => Seen(o, n) \/ held <= o
  BY <1>0, <1>1 DEF LineInv, HeldInLine
<1>12. InLine'
  <2> SUFFICES ASSUME NEW i \in 0 .. n + 1, NEW o \in Nat, NEW x \in Nat,
                      Ahead(o, i)', Seen(x, i)'
               PROVE  Seen(o, i)' \/ x < o
    BY <1>4 DEF InLine
  <2>1. CASE i \in 0 .. n
    BY <1>0, <1>6, <1>8, <2>1 DEF LineInv, InLine
  <2>2. CASE i = n + 1
    <3>1. Comes(o) /\ (Seen(x, n) \/ x = held)
      BY <1>7, <1>9, <2>2
    <3>2. Seen(o, n) \/ o = held \/ x < o
      BY <1>2, <1>10, <1>11, <3>1
    <3> QED
      BY <1>7, <2>2, <3>2
  <2> QED
    BY <1>2, <2>1, <2>2
<1>13. HeldInLine'
  BY <1>1 DEF HeldInLine
<1>14. NoneBetween'
  BY <1>1, <1>4, <1>5, <1>7 DEF LineInv, NoneBetween
<1> QED
  BY <1>1, <1>12, <1>13, <1>14 DEF LineInv

\* The head of the channel is consumed: the places of the channel move up by one.
LEMMA LineReceive ==
    ASSUME TypeOK, LineInv, NEW c \in Caller, Receive(c)
    PROVE  /\ LineInv'
           /\ \A o \in delivered' \ delivered, d \in delivered : d < o
<1> DEFINE h == Head(messageChan)
<1>0. PICK n \in Nat : n = Len(messageChan)
  BY LineTypes
<1>1. /\ messageChan # << >> /\ delivered' = delivered \cup {h}
      /\ messageChan' = Tail(messageChan)
      /\ UNCHANGED <<committed, requested, position, pc, held>>
  BY DEF Receive, reader
<1>2. messageChan \in Seq(Offsets)
  BY ProcessIs
<1>3. /\ h \in Offsets /\ h = messageChan[1]
      /\ n # 0 /\ Len(messageChan') = n - 1
      /\ \A i \in 1 .. n - 1 : messageChan'[i] = messageChan[i + 1]
  BY <1>0, <1>1, <1>2, Beheaded
<1>4. \A o : Comes(o)' <=> Comes(o)
  BY <1>1 DEF Comes
<1> HIDE DEF h
<1>5. ASSUME NEW i \in 0 .. n - 1, NEW o PROVE Seen(o, i)' <=> Seen(o, i + 1)
  <2>1. ASSUME NEW k \in 1 .. i, messageChan'[k] = o
        PROVE  \E j \in 1 .. i + 1 : messageChan[j] = o
    <3>1. k + 1 \in 1 .. i + 1 /\ k \in 1 .. n - 1
      BY <1>3
    <3> QED
      BY <1>3, <2>1, <3>1
  <2>2. ASSUME NEW j \in 1 .. i + 1, messageChan[j] = o
        PROVE  o = h \/ \E k \in 1 .. i : messageChan'[k] = o
    <3>1. CASE j = 1
      BY <1>3, <2>2, <3>1
    <3>2. CASE j # 1
      <4>1. j - 1 \in 1 .. i /\ j - 1 \in 1 .. n - 1 /\ (j - 1) + 1 = j
        BY <1>3, <3>2
      <4> QED
        BY <1>3, <2>2, <4>1
    <3> QED
      BY <3>1, <3>2
  <2>3. 1 \in 1 .. i + 1
    OBVIOUS
  <2> QED
    BY <1>1, <1>3, <2>1, <2>2, <2>3 DEF Seen
<1>6. ASSUME NEW i \in 0 .. n - 1, NEW o, Ahead(o, i)' PROVE Ahead(o, i + 1)
  <2>1. ASSUME NEW k \in i + 1 .. n - 1, messageChan'[k] = o
        PROVE  \E j \in (i + 1) + 1 .. n : messageChan[j] = o
    <3>1. k + 1 \in (i + 1) + 1 .. n /\ k \in 1 .. n - 1
      BY <1>3
    <3> QED
      BY <1>3, <2>1, <3>1
  <2> QED
    BY <1>1, <1>3, <1>4, <1>6, <2>1 DEF Ahead
<1>7. InLine'
  <2> SUFFICES ASSUME NEW i \in 0 .. n - 1, NEW o \in Nat, NEW x \in Nat,
                      Ahead(o, i)', Seen(x, i)'
               PROVE  Seen(o, i)' \/ x < o
    BY <1>3 DEF InLine
  <2>1. i + 1 \in 0 .. n
    BY <1>3
  <2> QED
    BY <1>0, <1>5, <1>6, <2>1 DEF LineInv, InLine
<1>8. \A o : Seen(o, n - 1)' <=> Seen(o, n)
  <2>1. n - 1 \in 0 .. n - 1 /\ (n - 1) + 1 = n
    BY <1>3
  <2> QED
    BY <1>5, <2>1
<1>9. HeldInLine' /\ NoneBetween'
  BY <1>1, <1>3, <1>4, <1>8 DEF LineInv, HeldInLine, NoneBetween
<1>10. ASSUME NEW o \in delivered' \ delivered, NEW d \in delivered PROVE d < o
  <2>1. o = h /\ o \in Nat /\ d \in Nat
    BY <1>1, <1>3, LineTypes DEF Offsets
  <2>2. 0 \in 0 .. n /\ 1 \in 0 + 1 .. n
    BY <1>3
  <2>3. Ahead(o, 0) /\ Seen(d, 0)
    BY <1>0, <1>3, <2>1, <2>2 DEF Ahead, Seen
  <2>4. ~Seen(o, 0)
    BY DEF Seen
  <2> QED
    BY <2>1, <2>2, <2>3, <2>4 DEF LineInv, InLine
<1> QED
  BY <1>7, <1>9, <1>10 DEF LineInv

\* A reader that starts again brings back only what could come, or starts after
\* everything there is.
LEMMA LineStarts ==
    ASSUME TypeOK, StartReading, committed' \in {committed, requested}
    PROVE  /\ \A o \in Nat : Comes(o)' => o >= position'
           /\ \A o \in Nat : Comes(o)' => Comes(o) \/ o > Len(partition)
<1>1. /\ position' = (IF committed' = 0 THEN Len(partition) + 1 ELSE committed')
      /\ requested' = committed'
  BY DEF StartReading, StartOffset
<1>2. /\ Len(partition) \in Nat /\ position \in Nat /\ committed \in Nat /\ requested \in Nat
  BY LineTypes
<1>3. committed' \in Nat
  BY <1>2
<1> QED
  BY <1>1, <1>2, <1>3 DEF Comes

LEMMA LineRebalance ==
    ASSUME TypeOK, LineInv, Rebalance
    PROVE  LineInv' /\ delivered' = delivered
<1>1. /\ StartReading /\ committed' \in {committed, requested}
      /\ UNCHANGED <<pc, held, messageChan, delivered>>
  BY DEF Rebalance, Flush
<1>2. /\ \A o \in Nat : Comes(o)' => o >= position'
      /\ \A o \in Nat : Comes(o)' => Comes(o) \/ o > Len(partition)
  BY <1>1, LineStarts
<1>3. position' \in Nat
  BY <1>1, LineTypes DEF StartReading, StartOffset
<1>4. \A o, i : Seen(o, i)' <=> Seen(o, i)
  BY <1>1 DEF Seen
<1>5. \A o \in Nat : \A i : Ahead(o, i)' => Ahead(o, i) \/ o > Len(partition)
  BY <1>1, <1>2 DEF Ahead
<1>6. InLine'
  <2> SUFFICES ASSUME NEW i \in 0 .. Len(messageChan), NEW o \in Nat, NEW x \in Nat,
                      Ahead(o, i)', Seen(x, i)'
               PROVE  Seen(o, i)' \/ x < o
    BY <1>1 DEF InLine
  <2>1. x \in 1 .. Len(partition) /\ Len(partition) \in Nat
    <3>1. \A k \in 1 .. i : k \in 1 .. Len(messageChan)
      BY LineTypes
    <3>2. Seen(x, i)
      BY <1>4
    <3> QED
      BY <3>1, <3>2, LineTypes DEF Seen
  <2>2. CASE o > Len(partition)
    BY <2>1, <2>2
  <2>3. CASE Ahead(o, i)
    BY <1>4, <2>3 DEF LineInv, InLine
  <2> QED
    BY <1>5, <2>2, <2>3
<1>7. HeldInLine'
  <2> SUFFICES ASSUME pc = "send", NEW o \in Nat, Comes(o)'
               PROVE  Seen(o, Len(messageChan)) \/ held <= o
    BY <1>1, <1>4 DEF HeldInLine
  <2>1. held \in 1 .. Len(partition) /\ Len(partition) \in Nat
    BY LineTypes
  <2> QED
    BY <1>2, <2>1 DEF LineInv, HeldInLine
<1>8. NoneBetween'
  BY <1>2, <1>3 DEF NoneBetween
<1> QED
  BY <1>1, <1>6, <1>7, <1>8 DEF LineInv

LEMMA LineRestart ==
    ASSUME TypeOK, LineInv, Restart
    PROVE  LineInv' /\ delivered' = delivered
<1>1. /\ StartReading /\ committed' \in {committed, requested}
      /\ pc' = "read" /\ messageChan' = << >> /\ delivered' = delivered
  BY DEF Restart
<1>2. /\ \A o \in Nat : Comes(o)' => o >= position'
      /\ \A o \in Nat : Comes(o)' => Comes(o) \/ o > Len(partition)
  BY <1>1, LineStarts
<1>3. position' \in Nat
  BY <1>1, LineTypes DEF StartReading, StartOffset
<1>4. Len(messageChan') = 0 /\ \A o : Seen(o, 0)' <=> Seen(o, 0)
  BY <1>1 DEF Seen
<1>5. InLine'
  <2> SUFFICES ASSUME NEW o \in Nat, NEW x \in Nat, Ahead(o, 0)', Seen(x, 0)'
               PROVE  Seen(o, 0)' \/ x < o
    <3>1. \A i \in 0 .. Len(messageChan') : i = 0
      BY <1>4
    <3> QED
      BY <3>1 DEF InLine
  <2>1. Comes(o)'
    BY <1>1, <1>4 DEF Ahead
  <2>2. x \in 1 .. Len(partition) /\ Len(partition) \in Nat
    BY <1>4, LineTypes DEF Seen
  <2>3. CASE o > Len(partition)
    BY <2>2, <2>3
  <2>4. CASE Comes(o)
    <3>1. Ahead(o, 0) /\ Seen(x, 0) /\ 0 \in 0 .. Len(messageChan)
      BY <1>4, <2>4, LineTypes DEF Ahead
    <3> QED
      BY <1>4, <3>1 DEF LineInv, InLine
  <2> QED
    BY <1>2, <2>1, <2>3, <2>4
<1>6. HeldInLine' /\ NoneBetween'
  BY <1>1, <1>2, <1>3 DEF HeldInLine, NoneBetween
<1> QED
  BY <1>1, <1>5, <1>6 DEF LineInv

LEMMA LineStep ==
    ASSUME TypeOK, LineInv, [Next]_vars
    PROVE  /\ LineInv'
           /\ \A o \in delivered' \ delivered, d \in delivered : d < o
<1>1. CASE \E c \in Caller : Receive(c)
  BY <1>1, LineReceive
<1>2. CASE ReadMessage \/ Send \/ Rebalance \/ Restart
  BY <1>2, LineReadMessage, LineSend, LineRebalance, LineRestart
<1>3. CASE \/ Producing \/ ReadEnds \/ SendCancelled \/ CommitOffsets \/ Cancel \/ CloseReader
           \/ \E c \in Caller : \/ Consume(c) \/ ConsumeChan(c) \/ ReceiveClosed(c)
                                \/ ConsumerDone(c) \/ CallerDone(c)
           \/ UNCHANGED vars
  BY <1>3, LineAside
<1> QED
  BY <1>1, <1>2, <1>3 DEF Next, Reading, Returning

\* Whoever consumes, messages are consumed for the first time in the order in which
\* they are stored, also when offsets are read again after any number of crashes
\* and rebalances (kafka_consumer.go:101-123).
THEOREM AlwaysFirstInOrder == Spec => FirstInOrder
<1>1. TypeOK /\ LineInv /\ [Next]_vars
          => LineInv' /\ [\A o \in delivered' \ delivered, d \in delivered : d < o]_vars
  BY LineStep
<1> QED
  BY <1>1, InitLine, TypeCorrect, PTL DEF Spec, FirstInOrder
=============================================================================
