---------------------------- MODULE ContactsServer ----------------------------
(***************************************************************************)
(* The requests of Contacts over the generator of Snowflake: a goroutine   *)
(* that needs an identifier is in NextID, and waits there for the mutex,   *)
(* for the clock or for the next millisecond, while the statements of the  *)
(* others go on.  Contacts sees of this one step, the new identifier.      *)
(***************************************************************************)
EXTENDS Snowflake, FiniteSets

CONSTANTS
    DBCount, TBCount,   \* config/sharding.yaml
    Emails, Mobiles,    \* what users register with
    Hash,               \* xxhash of an email, as a function
    Strangers           \* identifiers asked for that nobody need have

ASSUME ServerAssumption ==
    /\ DBCount \in Nat \ {0} /\ TBCount \in Nat \ {0}
    /\ Hash \in [Emails -> Nat]
    /\ Strangers \subseteq IDs

VARIABLES
    biz_user, user_contact, contact_application,    \* the tables, by destination
    req,            \* what each request is doing
    submitted,      \* history: who asked whom
    wish            \* email and mobile of an AddUser that has no identifier yet
tables == <<biz_user, user_contact, contact_application>>
requests == <<tables, req, submitted, wish>>
serverVars == <<vars, requests>>

Data == INSTANCE Contacts WITH
    Req <- Proc, issued <- [i \in 1 .. Len(log) |-> ID(log[i])]

NoWish == << >>

ServerInit ==
    /\ Init
    /\ Data!Init
    /\ wish = [p \in Proc |-> NoWish]

-----------------------------------------------------------------------------
\* Bound: an identifier for each caller that waits for one.
InFlight == {p \in Proc : pc[p] # "idle"}
Room == Len(log) + Cardinality(InFlight) < MaxIDs

\* NextIDAndShard calls NextID with the sharder's value.
Asks(p, v) == v \in ShardVals /\ Room /\ Call(p, v)

\* AddUser asks for the hash of the email, ApplyContact for the target.
AddUser(p, email, mobile) ==
    /\ Data!At(p, "idle")
    /\ Asks(p, Data!StringSharder(email))
    /\ wish' = [wish EXCEPT ![p] = <<email, mobile>>]
    /\ UNCHANGED <<tables, req, submitted>>

\* (Mutant: for the applicant.)
SaveApplication_ForApplicant(p) ==
    /\ Data!At(p, "saveApplication")
    /\ Asks(p, Data!SingleIDSharder(req[p].u))
    /\ UNCHANGED requests

SaveApplication(p) ==
    /\ Data!At(p, "saveApplication")
    /\ Asks(p, Data!SingleIDSharder(req[p].t))
    /\ UNCHANGED requests

\* In NextID: it gets the mutex, and goes on until it returns.
GetsMutex(p) == Lock(p) /\ UNCHANGED requests
Generates(p) ==
    /\ \/ ReadClock(p) \/ SleepBackward(p) \/ Reread(p)
       \/ SequenceOverflow(p) \/ StillOverflow(p)
    /\ UNCHANGED requests

\* NextID returns an identifier, which goes into the row.
NewID == ID(log'[Len(log')])
Returns(p) == SameMillisecond(p) \/ NextMillisecond(p) \/ OtherMillisecond(p)

UserGetsID(p) ==
    /\ Data!At(p, "idle")
    /\ Returns(p)
    /\ Data!Become(p, Data!UserToInsert(wish[p][1], wish[p][2], NewID))
    /\ wish' = [wish EXCEPT ![p] = NoWish]
    /\ UNCHANGED <<tables, submitted>>

ApplicationGetsID(p) ==
    /\ Data!At(p, "saveApplication")
    /\ Returns(p)
    /\ Data!Become(p, Data!ApplicationToInsert(req[p], NewID))
    /\ UNCHANGED <<tables, submitted, wish>>

\* NextID returns an error, which ends the request.
UserRefused(p) ==
    /\ Data!At(p, "idle")
    /\ ClockTooFarBack(p)
    /\ wish' = [wish EXCEPT ![p] = NoWish]
    /\ UNCHANGED <<tables, req, submitted>>

ApplicationRefused(p) ==
    /\ Data!At(p, "saveApplication")
    /\ ClockTooFarBack(p)
    /\ Data!Become(p, Data!Idle)
    /\ UNCHANGED <<tables, submitted, wish>>

\* Everything else a request does, outside the generator.
Statement(p) ==
    /\ pc[p] = "idle"
    /\ UNCHANGED <<vars, wish>>
    /\ \/ Data!InsertUser(p)
       \/ \E u \in Data!UserIDs, t \in Data!Issued \cup Strangers :
              Data!ApplyContact(p, u, t)
       \/ Data!CheckContact(p)
       \/ Data!FindApplicant(p)
       \/ Data!InsertApplication(p)
       \/ ~Data!At(p, "saveApplication") /\ Data!Fail(p)

\* What nobody here asks for: reviews and new contacts.
Others == UNCHANGED <<vars, wish>> /\ Data!Others

\* Time passes, the clock is set.
TimePasses == Tick /\ UNCHANGED requests
ClockIsSet == (\E c \in Clock : SetClock(c)) /\ UNCHANGED requests

\* The process ends with all its requests; the new one has a new generator.
ServerRestart ==
    /\ Restart
    /\ req' = [p \in Proc |-> Data!Idle]
    /\ wish' = [p \in Proc |-> NoWish]
    /\ UNCHANGED <<tables, submitted>>

Runs(p) ==
    \/ Generates(p)
    \/ UserGetsID(p) \/ ApplicationGetsID(p)
    \/ UserRefused(p) \/ ApplicationRefused(p)

ServerNext ==
    \/ \E p \in Proc :
           \/ \E email \in Emails, mobile \in Mobiles : AddUser(p, email, mobile)
           \/ SaveApplication(p)
           \/ GetsMutex(p)
           \/ Runs(p)
           \/ Statement(p)
    \/ Others
    \/ TimePasses
    \/ ClockIsSet
    \/ ServerRestart

ServerSpec == ServerInit /\ [][ServerNext]_serverVars

-----------------------------------------------------------------------------
\* A goroutine in NextID is there for the request it serves, with its shard value.
InNextID(p) ==
    \/ /\ Data!At(p, "idle")
       /\ \E email \in Emails, mobile \in Mobiles :
              /\ wish[p] = <<email, mobile>>
              /\ shardVal[p] = Data!StringSharder(email)
    \/ /\ Data!At(p, "saveApplication")
       /\ shardVal[p] = Data!SingleIDSharder(req[p].t)

Linked == \A p \in InFlight : InNextID(p)

\* There is an identifier for each of them.
Counted == Len(log) + Cardinality(InFlight) <= MaxIDs

\* The inductive invariant of the composition.
ServerInv ==
    /\ DOMAIN req = Proc /\ DOMAIN wish = Proc
    /\ Linked
    /\ Counted

\* The requests with this generator do what they do with any source of ascending
\* identifiers: the bits of an identifier, the clock and its settings, waiting and
\* restarts never show in the tables (helper.go:53-75, application_service.go:65-84).
ImplementsContacts == Data!Spec
=============================================================================
