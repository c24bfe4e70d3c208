# Verification of hermet

TLA+ modules, model-checking configurations and machine-checked proofs for
hermet, the business server of an instant-messaging system (Go, `src/`). Paths
below are relative to `src/`. `PROJECT.json` lists the runs, the mutants, the
source lines each definition models, the hazards and the theorems.

## 1. The system

A process is one HTTP server (gin) wired together by fx (`cmd/main.go`). Requests
are goroutines; they share a snowflake generator, a map of database handles, a
Redis client, and a Kafka writer and reader.

| Component | State it keeps | Operations | Hard because |
|---|---|---|---|
| Snowflake generator (`internal/pkg/sharding/idgen`) | `lastTime`, `sequence`, a mutex | `NextID` | wall clock set back, sleeping under the mutex, sequence overflow, restart without memory |
| Sharding strategies (`internal/pkg/sharding/*_sharding.go`) | counts of databases and tables | `Shard`, `DstFromID`, `DstFromShardVal`, `Broadcast` | an identifier keeps 10 bits of a 64-bit shard value; a broadcast is regrouped |
| Shard helper, sharders (`helper.go`, `sharder.go`, `providers/shard_helper.go`) | none | `NextIDAndShard`, ... | every DAO routes by another value |
| Users, contact applications (`api`, `service`, `repo`, `repo/dao`) | sharded PostgreSQL tables | `AddUser`, `ApplyContact`, list, `UpdateStatus`, `FindByEmail` | no transaction, an index covers one physical table only, reads and writes routed differently |
| Sign-in sessions (`auth_handler.go`, `redis_jwt_handler.go`, `auth_service.go`, `middleware/jwt.go`) | Redis keys with a life; tokens at the clients | sign-in, refresh, sign-out | check-then-act over Redis, a goroutine that outlives its request, tokens that cannot be taken back |
| Message queue (`internal/pkg/xmq`, `providers/kafka.go`) | broker offsets, a channel, a closing context | `Produce`, `Consume`, `ConsumeChan`, `Close` | retries, commits before consumption, rebalances, closing while the channel is full |
| Kafka OAuth token cache (`providers/kafka_oauth.go`) | token and expiry behind a read-write lock | `getAccessToken` | double check, HTTP under the lock |
| Start and stop (`main.go`, `app.go`, `providers/*.go`) | fx hooks, open clients, the server's listener | constructors, start, stop | partial failure, order of closing, a server that starts on its own, timeouts |
| Channel applications (`channel_application_dao.go`) | one sharded table | `Save` | same as contact applications; nobody calls it |
| Channels, messages | none yet | stubs | - |
| MongoDB client (`mongodb.go`) | a client | connect, disconnect | provided, but nothing needs it: fx never builds it |
| HTTP server (`xgin/handler_wrapper.go`, `xgin/middleware`, `providers/middleware.go`, the `Register` methods) | pooled request contexts; goroutines of sign-outs | CORS, token check, input, user, business function, answer, recovery | middlewares in an order fx does not state, many ways out of one handler, a context that is used again while a goroutine of the old request runs |
| SQL logger (`zap_logger.go`) | none | output | - |
| CQRS views (`docs`, `scripts`) | SQL and Debezium scripts | - | no Go code yet |

How they meet: a DAO asks the shard helper for a destination and, on insert, an
identifier; the helper asks the generator for the identifier (with the shard
value in it) and the strategy for the destination; the DAO runs one SQL statement
on the database and table of the destination. Sign-in reads the user through
`FindByEmail`, creates a session and signs tokens. The middleware checks an access
token, and its user is the applicant of `ApplyContact`. Every request passes the
middlewares and the wrapper of its handler before a business function sees it. No
service uses the message queue yet.

What makes each part correct: identifiers unique and ordered, whatever the
clock does; one row has one table, on every route; a scan reaches every table
once; emails unique over all tables; an update reaches its application; an ended
session stays ended and is the end of access; no business function without a user
or for a foreign page, and one response to every request; a bounded number of messages
lost, none consumed twice without a cause and none acknowledged that is not stored; one
token fetched per expiry and none used too long; no request without the clients it uses; everything that waits
goes on, and `Close` ends everything.

## 2. Modules

| Module | Models | Built on |
|---|---|---|
| `IDLayout` | the bit fields of an identifier, as products and remainders | - |
| `IDSource` | abstract: a stream of identifiers, ascending per shard value, that carry their shard value | `IDLayout` |
| `Snowflake` | `Generator.NextID`, its callers, wall clock and sleeps, restarts | `IDLayout`; implements `IDSource` |
| `Sharding` | both strategies as operators | `IDLayout` |
| `Contacts` | users and contact applications over sharded tables | `IDSource` (not `Snowflake`), `Sharding`; implements `Directory` |
| `Directory` | abstract: one table of users, of contacts and of applications, unsharded, with the requests that read and write them | - |
| `ContactsServer` | the requests of `Contacts` over the generator of `Snowflake` | extends `Snowflake`, instantiates and implements `Contacts` |
| `Session` | sessions, tokens, sign-out goroutine, Redis failures | - |
| `Queue` | producer, broker partition, consumer goroutine, channel, consumers, `Close` | - |
| `TokenCache` | `getAccessToken`: read-write lock, second check, HTTP request under the lock | - |
| `Lifecycle` | constructors, hooks, server and requests from start to exit | - |
| `HttpServer` | what a request goes through while `Lifecycle` serves it; the goroutine of a sign-out | extends and implements `Lifecycle` |
| `MCSnowflake`, `MCSharding`, `MCContacts`, `MCContactsServer` | instances for TLC | |
| `SnowflakeProofs` (of `Snowflake` and `ContactsServer`), `ShardingProofs` (of `IDLayout` and `Sharding`), `MCShardingProofs`, `ContactsProofs`, `SessionProofs`, `QueueProofs`, `TokenCacheProofs`, `LifecycleProofs` (of `Lifecycle` and `HttpServer`) | theorems | |

`Contacts` takes identifiers from the *abstract* source: what holds there holds
with every generator that implements `IDSource`. That `Snowflake` does is run
`snowflake` and theorem `Implements`; that nothing is lost when the two run together,
one step of `Contacts` being many of a goroutine in `NextID`, is run `server` and
theorem `ServerImplements`.

### Snowflake
A caller is at a label: `lock` (waits for the mutex), `read` (clock reading),
`sleep`, `stamp` (line 101 on), `overflow` (the loop of lines 105-108). The mutex is
held from `read` to the return, as in the code, also across `time.Sleep`. A clock
reading and the code up to the next wait are one step: nothing else can touch the
fields, and the clock is read once in it. The wall clock ticks, and may be set
(`SetClock`) back or ahead; `left` counts down a sleep with the monotonic time that
`Tick` advances and `SetClock` does not. `Timestamp` is the unsigned
subtraction, modulo 2^64 (`WordSize`). `log` is history. Two Booleans open the
environment: `StepWhileAsleep` (the clock may be set while someone sleeps for it)
and `RestartBehind` (a new process may see a time already used). The theorems name three
assumptions, each with the one before it: `ClockInRange` (after 2025-01-01, and the
timestamp field is not full), `Patient` (the clock is not set while a caller sleeps
for it), `SafeEnvironment` (it is past every issued time at a restart).

### Sharding
Names (`db_0`, `tb_1`) are their numbers. `Round` and `RoundRobin` follow the
regrouping by database, `Shuffles` is every permutation, as `rand.Shuffle` may give.
A hash is any function (`Hash` in `Contacts`, behind `StringSharder`).

### Contacts
A table is a set of rows per destination. A request is at the SQL statement it
runs next; each statement is atomic, and between two anything can happen. A read gives
rows, "not found" (the repository's own error, which gorm's becomes) or any other
error (`Lookup`); `ApplyContact` goes on only with "not found" from the contact and a row
from the applicant. An insert may fail, or be done and reported as failed: the tables are
then those of `InsertUser` and `InsertApplication`, and `Fail` is the rest. A unique index is
checked within one destination only, as PostgreSQL does. `UpdatedRows(id)` is what the
`UPDATE` of `UpdateStatus` hits: the code routes it with `DstFromID`. No service calls it yet
(`ReviewContactApplication` panics before it writes), so it is an action of its own that
may come at any time and write any status, as the DAO would. A request may ask for anybody:
an identifier that was issued, whatever for, or one of `Strangers`. `GetApplications` is
what the handler shows of the rows. `submitted` is history: who asked whom. `Befriend` is external: nothing
in this repository writes `user_contact`. `Crash` ends all requests at once, wherever they
are; the tables stay. `ImplementsDirectory` maps the tables of a kind to the union of their
rows and a request to what it is about, without its destination (`View`): `Directory` has
one set of rows of each kind, an email unique in the whole set, lookups that see every row
and updates that change one application only.

### ContactsServer
A goroutine of `Snowflake` is a request of `Contacts`. `AddUser` and `SaveApplication` enter
`NextID` with the shard value of the row (`Asks`), `UserGetsID` and `ApplicationGetsID` return
with an identifier, `UserRefused` and `ApplicationRefused` with the error of a clock too far
back; in between, the goroutine waits for the mutex, the clock or the next millisecond
while the others go on, and `wish` keeps what the user wants to register. `ServerRestart` is
the restart of the generator and the end of all requests. Mapped to `Contacts`, `issued` is
what the generator returned so far.

### Session
A Redis key is a session with what is `left` of its life; a token is a record with
what is left of its. `Tick` takes one from all, so the model needs no last
moment. `SignIn`, `CreateSession`, `GenerateToken` and `RefreshToken`, `CheckSession`,
`RefreshSession`, `GenerateToken` are the steps of a request, one per Redis command;
each command may fail, with its effect or without. `SignOut` answers at once and
leaves the session to `clearing`; `ClearSession` and `ClearFails` are the two ends
of that goroutine. `Crash` loses requests and goroutines. Expiry by Redis and by
the JWT library are taken to run at one speed.

### Queue
One partition and one consumer of its group. `attempt` counts the kafka-go
writer's retries; `NotAcknowledged` stores the message or not, and the writer retries or gives
up (its attempts are used up, or the error is not temporary). `ProduceCancelled` returns with
the caller's context while the writer goes on, one message after the other.
`WriterAcks` is what newKafkaClient makes of `required_acks` and `idempotent_enabled`;
unless it is "all", an acknowledged message may be lost with the leader. `partition`
holds what no broker can lose any more, which is what consumers see.
`ReadMessage` requests the commit before the message is sent to the channel,
`CommitOffsets` carries it out up to `commit_interval` later. `Send`/`SendCancelled` is the
`select` of `readMessage`. A consumer is in `Consume` (one message, with a context)
or ranges over `ConsumeChan`. `Cancel`, `CloseReader` are `Close`. `Rebalance` and
`Restart` go back to the committed offset, or without one to the newest message
(`start_offset: -1`).

### TokenCache
A caller is at a label: `rlock`, `wait` (blocked in `RLock`), `read`, `lock`, `drain`
(`Lock` has begun and waits for the readers), `check`, `fetch`. The lock is Go's: a
reader does not pass a writer that waits, and the readers that wait go before the
next writer. Times are ticks left. `Respond` is the endpoint's answer, and what the
token has left goes down from then on, while the code counts from when it reads the
answer (`Store`). `Tick` lets a request take `Timeout` at most.

### Lifecycle
`hooks` is what the constructors appended; fx starts them in this order and stops the
`started` ones in reverse, goes on after an error of a stop hook, and gives up when its
time is over (`Timeout`). A failed start stops what was started; a failed
constructor runs no hook. `newDBShardingClients` is a loop of `OpenDB`, not interleaved
with other constructors, that `OpenDBFails` can end. The server listens in a goroutine of
its own. Redis and the databases may be built in either order.

### HttpServer
A member of `Requests` is a `gin.Context` of the engine's pool: `Arrive` resets it, a
request goes through `todo` (middlewares, wrapper, business function), `Return` gives it
back. `Chain` is what gin combined when the route was registered: the middlewares
`InitApp` had installed by then, in either order (`Orders`: fx hands a value group over
in no stated order), and no route for the method OPTIONS. `Wrappers` says of each of
the nine wrappers whether it reads an input and wants a user; `Wrap` is their common
control. `Business` ends with what the function returns, `writeRes` turns it into a status,
a panic is recovered by gin. `ReviewApplication` always panics, as in the code. Answers are
collected in `codes`. `SignOut` puts a goroutine into `clearing`, with the context it could
still reach and the session it took from it; `ClearSession` and `ClearFails` are its ends,
also after the server has shut down and Redis is closed.

## 3. Runs

| Run | Question | Bounds |
|---|---|---|
| `snowflake` | Are identifiers unique and ascending, with the clock set and a restart; is a refusal justified; does the generator implement `IDSource`; does every call return? | 2 callers, 2 shard values, clock 1..4, one setting, one restart, 3 identifiers, sequence of 2, safe environment |
| `snowflake_second_step` (violation) | And if the clock is set back *again* while a caller waits? Line 97 does not compare again: `UniqueIDs` fails. | as above without restart, two settings, `StepWhileAsleep` |
| `sharding_routes` | Do identifier, shard value and write agree; does a broadcast reach every table once, with the databases in turn? | all layouts up to 4x3 whose count divides 8, shard values to 17, all timestamps and sequence numbers |
| `contacts_safety` | Is every row found by all its readers; are emails and identifiers unique over all tables; no application to a contact, whichever read fails; does a user see all that was sent to him, and from whom it came; do the tables implement one `Directory`? | 2 concurrent requests, 3 identifiers, 2 databases x 2 tables, 2 emails with hashes in different tables |
| `server` | Are requests over the real generator requests over an abstract source of identifiers? | 2 goroutines, 1 email, 2 tables, clock 1..3, set once, 1 restart, 3 identifiers, sequence of 2, `MaxBackward` 0 |
| `contacts_mobile` (violation) | Is a mobile number unique, as its column says? | same, and a stranger |
| `contacts_target` (violation) | Does the target of an application exist? | same, and a stranger |
| `queue` | How many messages can be lost; what can be consumed twice; do messages come for the first time in order; is what was acknowledged stored; does `Close` end all? | 2 messages, 2 attempts, channel of 1, 2 consumers, 1 restart, 1 rebalance, `required_acks: 1` under idempotence |
| `queue_once` (violation) | Is a message written exactly once, as the comment on the configuration says? | same, 1 consumer |
| `token_cache` | Is one token fetched per expiry; is none handed out too old; does everybody get an answer? | 3 callers, lives 0, 2, 3, 4 with margin 2 and timeout 1 |
| `lifecycle` | Is a request ever served without its clients; does status 0 mean a clean end; does a failed opening close the others; does a business function run for nobody or for a foreign page; one response to each request; does a sign-out end its own session, and surely? | 2 databases, 1 context used by any number of requests, 2 sessions, 2 lists of ignored paths, both orders of middlewares |
| `session` | Can a refresh revive a cleared session; has every token a session; does access end after the session? | 2 sessions of 1 user, 2 requests, lives 1 < 2 < 3 (access, session, refresh) |

Why the bounds are enough to be interesting. *Snowflake*: two callers make one
wait while the other sleeps; one setting, back by up to three milliseconds, gives a wait
and a refusal, two are the least for "set back, wait, set back again" (any number:
the theorems); a sequence of two overflows with the third identifier of a
millisecond. No call begins once the clock has been at its last value (`Call`), where it
stands still, so that time passes in every call that is checked. *Server*: two goroutines,
one in the generator and one at a statement; the second identifier is an applicant's target
and the third an application. `MaxBackward` 0 leaves the wait for a clock set back to
`snowflake`: a longer clock, that it takes to see a wait and a refusal of an application both,
multiplies the states by four. The overflow wait, refusals of both kinds and the restart do
occur. *Contacts*: two requests are what a race of `AddUser` or of `ApplyContact`
needs, and identifiers of both shards of both databases occur. Targets are issued identifiers,
of users, of users not yet stored and of applications; a stranger as well, which multiplies
the states by more than two, is in the two violation runs, and any set of them in the theorems. *Queue*: with a
channel of one, a third message waits in `select`; two messages with two attempts
make partitions of up to four. *Session*: one session being cleared, refreshed and
refreshed again at the same time needs two requests and the goroutine; the order of
the three lives is the configuration's (1 h, 12 h, 168 h). A second user multiplies
the states by four and adds no behaviour, as an identifier belongs to one user;
the theorems are about any number of users. *TokenCache*: a writer, a
second one that finds its work done, and a reader; lives below, at and above the
margin. *Lifecycle*: two databases are the least for one to fail after another was
opened. One context is enough: requests share nothing but what a sign-out's goroutine
can reach, and that is the context it came from, used by the next request; the theorems
are about any number. The configured list of ignored paths and one that is wrong (it
lets through handlers that want a user) are both tried. *Queue*: `required_acks: 1` is
the value the override of `idempotent_enabled` has to correct.

Deadlock is checked except in `contacts_*` and `server` (identifiers run out and every
request and update ends) and `lifecycle` (the process ends).

### Fairness
- `token_cache`: a caller goes on, at the latest when the HTTP client times out; `Lock` is a
  mutex among writers that lets none starve. The endpoint need not answer.
- `snowflake`: each caller's steps are weakly fair, lock acquisition strongly (Go's
  mutex hands over to a waiter that starves), and time passes. The clock is set a
  bounded number of times; the loop of line 105 has no limit of its own.
- `queue`: the reading goroutine, `CloseReader` and a consumer's return steps are
  scheduled. Nothing is assumed of the broker, of callers or of who calls `Close`.
- `lifecycle`: the goroutine of a sign-out ends, as its context has a second
  (`auth_handler.go:133`). Requests, signals and the server's goroutine need not go on.
- `session`: time passes, and a Redis command ends (the client has timeouts).
  `ClearSession` need not succeed, nobody need send a request.

## 4. What the violation runs show

Each is a disagreement of the code with one of its own comments (quoted under
`findings`): `NextID` "waits for the clock to catch up", but compares once; "unique" mobile
numbers are so per physical table; "target user is not exists" is said of the
applicant; "exactly once" is at least once.

Noted while modelling, without a run: `DstFromID` needs a table count that divides
1024, which no constructor asks for (the shipped configuration has one that does,
and `RoutesAgreeAlways` assumes it); snowflake identifiers are called "already uniformly
distributed" (`sharder.go:29`), but the first of every millisecond all go to table 0
(`FirstOfMillisecondSkew`); a failed ping of Redis leaves databases open that were
built after it, as their hooks have not been started (the process ends anyway); a clock before 2025 wraps around in
line 86 and later times look as if they went back; the overflow loop of line 105
waits without the limit the backward branch has; the comment of line 79
speaks of a panic where line 93 returns an error; two processes with one
configuration start each millisecond with equal identifiers for equal shard values;
sign-out answers "signed out" although the clearing may fail; with the token check before
CORS, which fx's value group does not exclude, the preflights of an allowed page are
answered 401; a destination without a configured database is reported as "record not
found" by `UserContactDao` (`user_contact_dao.go:60-63`), that is as "no contact" (`Contacts`
takes all databases of the layout to be configured).

## 5. Proofs

All theorems hold for every value of the constants that the named assumptions allow,
and are checked by TLAPS to the last leaf. The types of `Snowflake`, `Contacts`, `Session`,
`Queue`, `TokenCache`, `Lifecycle` and `HttpServer` are only proved (`TypeCorrect`,
`HttpTypeCorrect`): no run repeats them.

- `ShardingProofs`, of identifiers: `ExtractMakeID` (the shard value read back is the one put in,
  modulo its field) and `MakeIDLess` (identifiers sort as time and sequence do), from
  elementary lemmas on quotients and remainders.
- `SnowflakeProofs`, of the generator: each result assumes as little of the environment as it
  needs. In *every* environment: `TypeCorrect`, and `OneInside` (the one caller inside `NextID`
  holds the mutex). Under `ClockInRange`, however the clock is set and wherever restarts find
  it: `TimesReal` (every stored or read time has been on the clock), hence
  `NothingBorrowed` and `RefusalJustified`. Under `Patient`: `TimesGoForward` (what a caller is
  about to store is not behind `lastTime`), hence `Monotone`. Under `SafeEnvironment`: `Unique` and
  `Implements`. The run `snowflake_second_step` shows that `~StepWhileAsleep` is needed.
  `UniqueIDs` is not inductive: it says nothing of the
  fields. The invariants are nested as the assumptions are: `ClockInv` (the mutex is held
  exactly inside `NextID`, every stored time has been on the clock), `ForwardInv` (a sleeper
  sleeps until the clock has caught up, so waking up late can never move `lastTime` back),
  `IInv` (everything issued lies
  behind `lastTime` and `sequence` or, after a restart, behind the clock, a
  timestamp about to be stored is fresh, and the log is ordered).
  `Implements` maps the log to the identifiers of `IDSource` step by step.
- `SnowflakeProofs`, of the composition: `ServerIsSnowflake` (a step of the server is one of the
  generator or leaves it alone, so the invariants above hold in it) and `ServerImplements` (under
  `SafeEnvironment`, for finitely many goroutines, it implements `Contacts`). `ServerInv` adds
  that a goroutine in `NextID` is there with the shard value of its request (`Linked`) and that
  the bound on identifiers leaves one for each of them (`Counted`). Only a return of `NextID` is
  a step that takes an identifier; `ReturnsIssue`, shared with `Implements`, says that it is a
  fresh one for that shard value. `ServerKeepsContacts` then carries the theorems about
  `Contacts` over: with the real generator, emails and identifiers are unique, inboxes right
  and no application goes to a contact; and `ServerIsDirectory`, where routes agree, that all of it is one unsharded `Directory`.
- `ShardingProofs`, of routing: `RoutesAgreeAlways` (the routes agree for all counts whose
  product divides the field), `RoutesAgreeExactly` (and for no others: the first shard value too
  large for the field goes astray), `ShardInLayout`, `EveryTableReached`, `BroadcastOnce` (modulo
  broadcast), `FirstOfMillisecondSkew`.
- `MCShardingProofs`: what `sharding_routes` evaluates for small layouts holds for all
  (`AlwaysRoutesAgree`, `AlwaysBroadcastReachesRowOnce`, `AlwaysRoundRobinAlternates`). Round
  robin counts the tables that come before one; that this count is the rank of the
  packed pair (table, database), so that every position is taken once, is
  `BeforeCount`, and `RoundRobinOrder` reads the order off it. A shuffle is an injection of
  a finite set into itself, hence onto.
- `ContactsProofs`: for every layout, hash, number of requests and of identifiers.
  `AlwaysEmailUnique`, `AlwaysRowIDsUnique`, `AlwaysInboxRight`,
  `AlwaysNoApplicationToContact`, `TypeCorrect` need no more than
  `ContactsAssumption`; `AlwaysUsersFound` and `AlwaysUpdatesReach`, whose readers route by
  identifier, assume `RoutesMatch`: the number of tables divides the size of the
  shard field, which by `RoutesAgreeExactly` is the weakest condition. `Transparent`, under
  `RoutesMatch` too: `ImplementsDirectory`, step by step; an email that is free in its table is
  free everywhere because equal emails share a table, an update hits the one row of its
  identifier, and a read that finds nothing finds nothing anywhere. None of these is inductive. `IInv` adds where rows are (`UsersPlaced`,
  `ApplicationsPlaced`, `ContactsPlaced`: every row is in the table of the shard value its
  identifier was issued for), what a request knows at its next statement (`Promises`), and
  that an identifier on its way into a row is in no row and with no other request
  (`OneOwner`), which follows from the promise of `IDSource` alone.
- `QueueProofs`: `AlwaysLossBounded`, `AlwaysNoRedelivery`, `AlwaysAckedStored`,
  `AlwaysFirstInOrder`, `TypeCorrect`, for
  any capacity, number of goroutines, messages, restarts and rebalances. `NoRedelivery`
  needs `Ordered`: until somebody goes back, offsets pass through the process in order,
  delivered ones before those of the channel, those before the one being sent.
  `AckedStored` needs `NilIsLast`: once `Produce` has returned nil the writer has
  nothing to do. `LossBounded` needs only the types: a restart loses what is in the process, a
  rebalance loses nothing because it goes back. `FirstInOrder` (no message comes for the first
  time after a later one, over any crashes and rebalances, although the channel survives a
  rebalance and holds what is then read again) needs `LineInv`: at every place of the channel,
  whatever is still to come (`Comes`: from the reader's position, or from an offset it may
  go back to) was seen before that place or is later than all that was (`InLine`); the same
  for the message being sent (`HeldInLine`); and the reader leaves nothing out that a restart
  brings back (`NoneBetween`).
- `SessionProofs`: `TypeCorrect`, `SessionsStayEnded`, `TokensAlwaysBacked`, `LateRefreshRefused`, for any
  users, sessions, goroutines and lifetimes. `NoRevival` alone is not inductive:
  `CreateSession` could create an ended session. `IInv` adds that a sign-in is alone
  with its identifier until its session exists (`Fresh`, and `Drawn`, which makes new
  identifiers new), and that every request past it stands on a session of its user
  or on an ended one. Seven of the actions share one argument, `ShrinksOK`:
  sessions only leave into the history and requests go on with what they had.

- `TokenCacheProofs`: `TypeCorrect` (with the discipline of the lock), `NoTokenWasted`,
  `TokensStillValid`, for any callers, lives, margin and timeout not above it. `NoneWasted`
  needs `FetchedForNeed`: whoever fetches found the token unusable, and only time can
  touch the cache while the lock is held. `StillValid` needs `AnswerFresh` (an answer is
  not older than its request) and `MarginKept`.
- `LifecycleProofs`: `AlwaysServedWithClients` and `AlwaysCleanExit`, for any databases and
  requests. `IInv` says that the server's hook is the last (`ServerLast`), that nobody is
  served unless every hook is started (`Quiet`), that then every client is open
  (`AllOpen`), and that what is open while stopping still has a hook to run
  (`StillToClose`). `HttpImplementsLifecycle` maps every step of `HttpServer` to a step of
  `Lifecycle` or a stutter, so `RequestsServedWithClients` follows for it. `AlwaysSignedIn`,
  `AlwaysForeignRefused`, `AlwaysAnsweredOnce`, `AlwaysAllowedPageServed` and `AlwaysEndedByOwner` are proved for any number of
  contexts and sign-outs, any list of ignored paths and both orders: what is left
  to do of a request is a suffix of its chain, and what was left out of it has already
  set the user and the origin.

Only model-checked: liveness (`CallsReturn`, `CloseEnds`, `CallersReturn`, `AccessEnds`,
`AllAnswered`, `SignOutEnds`), which is out of the prover's reach. Every safety property of the
passing runs is proved.

## 6. Not modelled

- Channel applications: the same `Save` as a contact application with the channel in
  the place of the target; no handler or service calls it.
- Channels and messages: types and stubs without state.
- The MongoDB client: provided, but nothing asks fx for it, so it is never built.
- The SQL logger: output only. TLS and SASL set-up, passwords and signatures are taken to
  work. The CQRS scripts and designs have no Go code.
- The review of an application does not exist in the code (`panic`) beyond the DAO's
  `UpdateStatus`, which has no caller; so nothing is claimed of decisions, as that they
  stay: the DAO would undo one.
- Several partitions and several consumers of a group; Redis fail-over; more than one
  server process (two of them give equal identifiers to equal shard values in one
  millisecond: nothing in the code tells them apart, so a model could only repeat it).
- A clock before 2025-01-01 is in `Snowflake`, as the subtraction wraps (`Timestamp`); the
  proofs assume it away.

## 7. Plan

Done: the core (identifiers, routing, rows) with proofs, sessions, the queue with proofs,
the token cache, start and stop, and the server's requests, which close the loop from a
sign-out to the closing of Redis; the composition of generator and requests, and the
unsharded directory their tables implement. What is left, in this order:

1. An abstract specification of the queue and of the sessions, as `Directory` is of the tables.
2. Channel applications, as a second instance of the sharded tables of `Contacts`, and the
   decisions of a review, when a service calls them.
3. The queue inside a service, with its consumer's hook in `Lifecycle`, when one uses it.
4. Two server processes over the same tables, when generators are told apart.
