-------------------------------- MODULE Queue --------------------------------
(***************************************************************************)
(* internal/pkg/xmq over one Kafka partition: KafkaProducer.Produce with   *)
(* the retries of the kafka.Writer, and a KafkaConsumer with its reading   *)
(* goroutine, its channel, the goroutines that consume and Close.          *)
(*                                                                         *)
(* The reader commits an offset as soon as ReadMessage has returned its    *)
(* message (the commit reaches the broker within commit_interval), long    *)
(* before anybody has consumed it.  Offsets count from 1; a committed      *)
(* offset is the next one to read and 0 is "none".                         *)
(***************************************************************************)
EXTENDS Integers, Sequences, FiniteSets

CONSTANTS
    Caller,         \* goroutines that consume
    Capacity,       \* defaultMessageChanSize, 1024 in the code
    MaxAttempts,    \* kafka.Writer.MaxAttempts, retry_max: 3 in the config
    RequiredAcks,       \* required_acks: -1 in the config
    IdempotentEnabled,  \* idempotent_enabled: true in the config
    MaxMessages,    \* how many messages are produced (bound)
    MaxRestarts,    \* how often the consuming process restarts (bound)
    MaxRebalances   \* how often the group is rebalanced (bound)

ASSUME QueueAssumption ==
    /\ Capacity \in Nat \ {0} /\ MaxAttempts \in Nat \ {0}
    /\ RequiredAcks \in Int /\ IdempotentEnabled \in BOOLEAN
    /\ MaxMessages \in Nat /\ MaxRestarts \in Nat /\ MaxRebalances \in Nat

VARIABLES
    partition,      \* the messages all brokers store, in the order of offsets
    msg,            \* the message being produced, or the last one
    attempt,        \* attempt of the kafka.Writer to write it, 0: none
    returned,       \* what Produce returned for msg
    committed,      \* the offset the broker has for the consumer group
    requested,      \* the offset the kafka.Reader will commit next
    position,       \* the offset it reads next
    pc,             \* where readMessage is; "done": returned, channel closed
    held,           \* the offset it has read and not yet sent
    messageChan,    \* offsets in the channel
    closer,         \* how far Close is
    caller,         \* what each consuming goroutine is in
    delivered,      \* offsets that were consumed, ever (history)
    skipped,        \* offsets the group never was to read (history)
    restarts, rebalances

broker == <<partition, msg, attempt, returned>>
reader == <<requested, position, pc, held>>
history == <<skipped, restarts, rebalances>>
vars == <<broker, committed, reader, messageChan, closer, caller, delivered, history>>

Init ==
    /\ partition = << >> /\ msg = 0 /\ attempt = 0 /\ returned = "nothing"
    /\ committed = 0 /\ requested = 0 /\ position = 1
    /\ pc = "read" /\ held = 0 /\ messageChan = << >>
    /\ closer = "open"
    /\ caller = [c \in Caller |-> "idle"]
    /\ delivered = {} /\ skipped = {}
    /\ restarts = 0 /\ rebalances = 0

-----------------------------------------------------------------------------
getKafkaRequiredAcks(acks) ==
    CASE acks = 0 -> "none"
      [] acks = 1 -> "one"
      [] OTHER    -> "all"

\* What the writer waits for.  (Mutant: idempotent_enabled is not looked at.)
WriterAcks_AsConfigured == getKafkaRequiredAcks(RequiredAcks)
WriterAcks ==
    IF IdempotentEnabled THEN "all" ELSE getKafkaRequiredAcks(RequiredAcks)

\* Produce(msg): the writer makes its first attempt.
Produce ==
    /\ attempt = 0
    /\ msg < MaxMessages
    /\ msg' = msg + 1
    /\ attempt' = 1
    /\ returned' = "nothing"
    /\ UNCHANGED <<partition, committed, reader, messageChan, closer, caller,
                   delivered, history>>

\* The call returns this, unless it has returned.
Return(result) == returned' = IF returned = "nothing" THEN result ELSE returned

\* The caller's context is done: Produce returns an error, while the writer goes on.
ProduceCancelled ==
    /\ attempt > 0 /\ returned = "nothing"
    /\ Return("error")
    /\ UNCHANGED <<partition, msg, attempt, committed, reader, messageChan, closer,
                   caller, delivered, history>>

\* The writer learns that the message is stored, and Produce returns nil.  If it
\* does not wait for all brokers, the message may be lost with the leader before
\* another broker has it (before it has any, with "none"); nobody has read it.
Acknowledged ==
    /\ attempt > 0
    /\ partition' \in {Append(partition, msg)}
                          \cup (IF WriterAcks = "all" THEN {} ELSE {partition})
    /\ Return("nil")
    /\ attempt' = 0
    /\ UNCHANGED <<msg, committed, reader, messageChan, closer, caller,
                   delivered, history>>

\* The attempt fails, or only its answer is lost: the writer tries again, or gives
\* up, at once when the error is not temporary, and Produce returns an error.
NotAcknowledged ==
    /\ attempt > 0
    /\ partition' \in {partition, Append(partition, msg)}
    /\ \/ attempt < MaxAttempts /\ attempt' = attempt + 1 /\ UNCHANGED returned
       \/ attempt' = 0 /\ Return("error")
    /\ UNCHANGED <<msg, committed, reader, messageChan, closer, caller,
                   delivered, history>>

-----------------------------------------------------------------------------
\* ReadMessage returns a message and has requested to commit it.  It may do so
\* after Close has cancelled the context, and not once the reader is closed.
ReadMessage ==
    /\ pc = "read"
    /\ closer # "closed"
    /\ position <= Len(partition)
    /\ held' = position
    /\ position' = position + 1
    /\ requested' = position + 1
    /\ pc' = "send"
    /\ UNCHANGED <<broker, committed, messageChan, closer, caller, delivered, history>>

\* It returns context.Canceled, io.EOF or io.ErrClosedPipe: the goroutine ends
\* and closes the channel.  (After another error it calls ReadMessage again.)
ReadEnds ==
    /\ pc = "read"
    /\ closer # "open"
    /\ pc' = "done"
    /\ UNCHANGED <<broker, committed, requested, position, held, messageChan,
                   closer, caller, delivered, history>>

\* Mutant: the message is sent again.
Send_Again ==
    /\ pc = "send"
    /\ Len(messageChan) < Capacity
    /\ messageChan' = Append(messageChan, held)
    /\ UNCHANGED <<broker, committed, reader, closer, caller, delivered, history>>

\* c.messageChan <- msg.
Send ==
    /\ pc = "send"
    /\ Len(messageChan) < Capacity
    /\ messageChan' = Append(messageChan, held)
    /\ held' = 0
    /\ pc' = "read"
    /\ UNCHANGED <<broker, committed, requested, position, closer, caller,
                   delivered, history>>

\* <-c.ctx.Done() while the channel is full, or is the branch select takes.
\* (Mutant: the message is put aside and the goroutine reads on.)
SendCancelled_ReadsOn ==
    /\ pc = "send"
    /\ closer # "open"
    /\ pc' = "read"
    /\ held' = 0
    /\ UNCHANGED <<broker, committed, requested, position, messageChan, closer,
                   caller, delivered, history>>
SendCancelled ==
    /\ pc = "send"
    /\ closer # "open"
    /\ pc' = "done"
    /\ held' = 0
    /\ UNCHANGED <<broker, committed, requested, position, messageChan, closer,
                   caller, delivered, history>>

\* The reader's commit loop, once per commit_interval.
CommitOffsets ==
    /\ requested > committed
    /\ closer # "closed"
    /\ committed' = requested
    /\ UNCHANGED <<broker, reader, messageChan, closer, caller, delivered, history>>

-----------------------------------------------------------------------------
Enter(c, l) == caller' = [caller EXCEPT ![c] = l]

\* Consume(ctx) reaches its select.
Consume(c) ==
    /\ caller[c] = "idle"
    /\ Enter(c, "consume")
    /\ UNCHANGED <<broker, committed, reader, messageChan, closer, delivered, history>>

\* ConsumeChan(ctx) hands out the channel, and the caller ranges over it.
ConsumeChan(c) ==
    /\ caller[c] = "idle"
    /\ closer = "open"
    /\ Enter(c, "range")
    /\ UNCHANGED <<broker, committed, reader, messageChan, closer, delivered, history>>

\* A message comes out of the channel.
Receive(c) ==
    /\ caller[c] # "idle"
    /\ messageChan # << >>
    /\ delivered' = delivered \cup {Head(messageChan)}
    /\ messageChan' = Tail(messageChan)
    /\ Enter(c, IF caller[c] = "consume" THEN "idle" ELSE "range")
    /\ UNCHANGED <<broker, committed, reader, closer, history>>

\* Mutant: nobody closes the channel.
ReceiveClosed_Never(c) == FALSE

\* The channel is closed and empty: ErrConsumerClosed, or the range ends.
ReceiveClosed(c) ==
    /\ caller[c] # "idle"
    /\ messageChan = << >>
    /\ pc = "done"
    /\ Enter(c, "idle")
    /\ UNCHANGED <<broker, committed, reader, messageChan, closer, delivered, history>>

\* Consume returns because the consumer is closed, whatever is in the channel.
ConsumerDone(c) ==
    /\ caller[c] = "consume"
    /\ closer # "open"
    /\ Enter(c, "idle")
    /\ UNCHANGED <<broker, committed, reader, messageChan, closer, delivered, history>>

\* Consume returns because its own context is done.
CallerDone(c) ==
    /\ caller[c] = "consume"
    /\ Enter(c, "idle")
    /\ UNCHANGED <<broker, committed, reader, messageChan, closer, delivered, history>>

\* Close, at most once: cancel the context, then close the reader, which tries
\* to commit what was requested.
Cancel ==
    /\ closer = "open"
    /\ closer' = "cancelled"
    /\ UNCHANGED <<broker, committed, reader, messageChan, caller, delivered, history>>

Flush == committed' \in {committed} \cup (IF requested > committed THEN {requested} ELSE {})

CloseReader ==
    /\ closer = "cancelled"
    /\ closer' = "closed"
    /\ Flush
    /\ UNCHANGED <<broker, reader, messageChan, caller, delivered, history>>

-----------------------------------------------------------------------------
\* Where a reader starts: at the committed offset, without one at the newest
\* message (start_offset: -1), and then what is older is skipped.
StartOffset == IF committed' = 0 THEN Len(partition) + 1 ELSE committed'
StartReading ==
    /\ position' = StartOffset
    /\ requested' = committed'
    /\ skipped' = skipped \cup (position .. StartOffset - 1)

\* The group is rebalanced and the partition comes back to this consumer.
Rebalance ==
    /\ rebalances < MaxRebalances
    /\ closer = "open" /\ pc # "done"
    /\ rebalances' = rebalances + 1
    /\ Flush
    /\ StartReading
    /\ UNCHANGED <<broker, pc, held, messageChan, closer, caller, delivered, restarts>>

\* The process crashes or exits, and NewKafkaConsumer starts a new consumer.
Restart ==
    /\ restarts < MaxRestarts
    /\ restarts' = restarts + 1
    /\ UNCHANGED committed
    /\ StartReading
    /\ pc' = "read" /\ held' = 0 /\ messageChan' = << >>
    /\ closer' = "open"
    /\ caller' = [c \in Caller |-> "idle"]
    /\ UNCHANGED <<broker, delivered, rebalances>>

Producing == Produce \/ ProduceCancelled \/ Acknowledged \/ NotAcknowledged
\* (Mutant: readMessage sends without a select.)
Reading_NoSelect == ReadMessage \/ ReadEnds \/ Send
Reading == ReadMessage \/ ReadEnds \/ Send \/ SendCancelled
Returning(c) == Receive(c) \/ ReceiveClosed(c) \/ ConsumerDone(c)

Next ==
    \/ Producing
    \/ Reading
    \/ CommitOffsets
    \/ \E c \in Caller : Consume(c) \/ ConsumeChan(c) \/ Returning(c) \/ CallerDone(c)
    \/ Cancel
    \/ CloseReader
    \/ Rebalance
    \/ Restart

Spec == Init /\ [][Next]_vars

\* The reading goroutine, a consuming goroutine and Close run on when they can.
Fairness ==
    /\ WF_vars(Reading)
    /\ WF_vars(CloseReader)
    /\ \A c \in Caller : WF_vars(Returning(c))

FairSpec == Spec /\ Fairness

-----------------------------------------------------------------------------
Offsets == 1 .. Len(partition)
InProcess == {messageChan[i] : i \in 1 .. Len(messageChan)} \cup ({held} \ {0})

\* Type correctness: offsets in the process are offsets of the partition, and
\* the goroutine holds one exactly between reading and sending it.
TypeOK ==
    /\ partition \in Seq(1 .. MaxMessages)
    /\ msg \in 0 .. MaxMessages
    /\ attempt \in 0 .. MaxAttempts
    /\ attempt > 0 => msg > 0
    /\ returned \in {"nothing", "nil", "error"}
    /\ {committed, requested} \subseteq 0 .. Len(partition) + 1
    /\ position \in 1 .. Len(partition) + 1
    /\ pc \in {"read", "send", "done"}
    /\ held \in (IF pc = "send" THEN Offsets ELSE {0})
    /\ messageChan \in Seq(Offsets) /\ Len(messageChan) <= Capacity
    /\ closer \in {"open", "cancelled", "closed"}
    /\ caller \in [Caller -> {"idle", "consume", "range"}]
    /\ delivered \subseteq Offsets /\ skipped \subseteq Offsets
    /\ restarts \in 0 .. MaxRestarts /\ rebalances \in 0 .. MaxRebalances

Lost == (1 .. position - 1) \ (delivered \cup skipped \cup InProcess)

\* Messages are committed before they are consumed, so they can be lost: those
\* of a full channel and the one being sent, with every consumer that ends, the
\* one being sent when the consumer is closed - and never another one.
LossBounded ==
    Cardinality(Lost)
        <= restarts * (Capacity + 1) + (IF pc = "done" THEN 1 ELSE 0)

\* Without a restart and without a rebalance no message is consumed twice.
NoRedelivery ==
    restarts = 0 /\ rebalances = 0 =>
        /\ InProcess \cap delivered = {}
        /\ Cardinality(InProcess) =
               Len(messageChan) + (IF pc = "send" THEN 1 ELSE 0)

\* Messages are consumed for the first time in the order in which they are stored,
\* whoever consumes, also across restarts and rebalances after which some are read
\* again (kafka_consumer.go:101-123).
FirstInOrder ==
    [][\A o \in delivered' \ delivered, d \in delivered : d < o]_vars

\* With idempotence, or with required_acks as it is configured, a message for
\* which Produce returned nil is stored, whichever broker is lost
\* (kafka.go:109,117-120).
AckedStored ==
    (IdempotentEnabled \/ RequiredAcks = -1) /\ returned = "nil" =>
        \E i \in DOMAIN partition : partition[i] = msg

\* Close ends the reading goroutine, which closes the channel, also when the
\* channel is full and nobody consumes.
CloseEnds == closer = "cancelled" ~> pc = "done" \/ closer = "open"

\* Close lets every consuming goroutine go: the ones in Consume, and the ones
\* that range over the channel once they have emptied it.
CallersReturn ==
    \A c \in Caller : caller[c] # "idle" /\ closer # "open" ~> caller[c] = "idle"

\* The producer writes a message exactly once ("exactly once semantics",
\* providers/kafka.go:117).
ExactlyOnce ==
    \A i, j \in DOMAIN partition : partition[i] = partition[j] => i = j
=============================================================================
