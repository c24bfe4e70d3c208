------------------------------ MODULE TokenCache ------------------------------
(***************************************************************************)
(* KafkaOAuthMechanism.getAccessToken: the connections to Kafka share one  *)
(* access token behind a read-write lock.  Whoever finds it expired takes  *)
(* the write lock, looks again and fetches a new one over HTTP, with the   *)
(* lock held.                                                              *)
(*                                                                         *)
(* Times are what is left, in ticks, and stop at zero.                     *)
(***************************************************************************)
EXTENDS Integers, FiniteSets

CONSTANTS
    Caller,     \* goroutines that authenticate a connection
    NoCaller,   \* nobody
    Lives,      \* values of expires_in the endpoint may answer with
    Margin,     \* the 60 seconds a token is given up early
    Timeout     \* httpTimeout, 5 seconds

ASSUME CallerAssumption == NoCaller \notin Caller

ASSUME TimeAssumption ==
    /\ Lives \subseteq Nat
    /\ Margin \in Nat /\ Timeout \in Nat
    /\ Timeout <= Margin

VARIABLES
    pc,         \* where each caller is in getAccessToken
    readers,    \* holders of the read lock
    writer,     \* holder of the write lock
    accessToken,\* the cached token: is there one, and how long it is valid
    expiresAt,  \* time to KafkaOAuthMechanism.expiresAt
    answer,     \* what the endpoint has answered and the caller not yet read
    delay,      \* how long the request has been under way
    wasted      \* was a token replaced that could still be used? (history)

vars == <<pc, readers, writer, accessToken, expiresAt, answer, delay, wasted>>

Token == [given : BOOLEAN, left : Nat]
Answer == [given : BOOLEAN, expiresIn : Lives, left : Nat]
Nothing == [given |-> FALSE]

Goto(c, l) == pc' = [pc EXCEPT ![c] = l]

Fetching == \E c \in Caller : pc[c] = "fetch"

\* time.Now().Before(m.expiresAt), and a token that is not "".
Usable == accessToken.given /\ expiresAt > 0

Less(t) == IF t > 0 THEN t - 1 ELSE 0

\* The time a token that lives this long is used for.
\* (Mutant: it is used for all its life.)
Window_Whole(expiresIn) == expiresIn
Window(expiresIn) == IF expiresIn > Margin THEN expiresIn - Margin ELSE 0

Init ==
    /\ pc = [c \in Caller |-> "idle"]
    /\ readers = {} /\ writer = NoCaller
    /\ accessToken = [given |-> FALSE, left |-> 0]
    /\ expiresAt = 0
    /\ answer = Nothing
    /\ delay = 0
    /\ wasted = FALSE

\* The deferred Unlock: the readers that waited go before the next writer.
Unlock(c) ==
    /\ pc' = [d \in Caller |-> IF d = c THEN "idle"
                               ELSE IF pc[d] = "wait" THEN "read" ELSE pc[d]]
    /\ readers' = readers \cup {d \in Caller : pc[d] = "wait"}
    /\ writer' = NoCaller

cache == <<accessToken, expiresAt>>
request == <<answer, delay>>

-----------------------------------------------------------------------------
Start(c) ==
    /\ pc[c] = "idle"
    /\ Goto(c, "rlock")
    /\ UNCHANGED <<readers, writer, cache, request, wasted>>

\* sync.RWMutex: a reader does not pass a writer that has the lock or waits for
\* it.
RLock(c) ==
    /\ pc[c] = "rlock"
    /\ writer = NoCaller
    /\ readers' = readers \cup {c}
    /\ Goto(c, "read")
    /\ UNCHANGED <<writer, cache, request, wasted>>

AwaitWriter(c) ==
    /\ pc[c] = "rlock"
    /\ writer # NoCaller
    /\ Goto(c, "wait")
    /\ UNCHANGED <<readers, writer, cache, request, wasted>>

\* Return the cached token.
Reuse(c) ==
    /\ pc[c] = "read"
    /\ Usable
    /\ readers' = readers \ {c}
    /\ Goto(c, "idle")
    /\ UNCHANGED <<writer, cache, request, wasted>>

\* Mutant: the read lock is kept, as if it could be turned into the other one.
Miss_Upgrades(c) ==
    /\ pc[c] = "read"
    /\ ~Usable
    /\ Goto(c, "lock")
    /\ UNCHANGED <<readers, writer, cache, request, wasted>>

Miss(c) ==
    /\ pc[c] = "read"
    /\ ~Usable
    /\ readers' = readers \ {c}
    /\ Goto(c, "lock")
    /\ UNCHANGED <<writer, cache, request, wasted>>

\* One writer at a time; from here on new readers wait for it,
Lock(c) ==
    /\ pc[c] = "lock"
    /\ writer = NoCaller
    /\ writer' = c
    /\ Goto(c, "drain")
    /\ UNCHANGED <<readers, cache, request, wasted>>

\* and it waits for the readers that were there before.
Locked(c) ==
    /\ pc[c] = "drain"
    /\ readers = {}
    /\ Goto(c, "check")
    /\ UNCHANGED <<readers, writer, cache, request, wasted>>

\* Somebody else has fetched a token meanwhile.
ReuseLocked(c) ==
    /\ pc[c] = "check"
    /\ Usable
    /\ Unlock(c)
    /\ UNCHANGED <<cache, request, wasted>>

\* Mutant: the second check is left out.
Request_Unchecked(c) ==
    /\ pc[c] = "check"
    /\ answer' = Nothing /\ delay' = 0
    /\ Goto(c, "fetch")
    /\ UNCHANGED <<readers, writer, cache, wasted>>

Request(c) ==
    /\ pc[c] = "check"
    /\ ~Usable
    /\ answer' = Nothing /\ delay' = 0
    /\ Goto(c, "fetch")
    /\ UNCHANGED <<readers, writer, cache, wasted>>

\* The endpoint answers, with a token or with a body that has none.
Respond ==
    /\ Fetching
    /\ answer = Nothing
    /\ \E given \in BOOLEAN, life \in Lives :
           answer' = [given |-> given, expiresIn |-> life, left |-> life]
    /\ UNCHANGED <<pc, readers, writer, cache, delay, wasted>>

\* The caller reads the answer, stores it and returns it.
Store(c) ==
    /\ pc[c] = "fetch"
    /\ answer # Nothing
    /\ accessToken' = [given |-> answer.given, left |-> answer.left]
    /\ expiresAt' = Window(answer.expiresIn)
    /\ wasted' = (wasted \/ Usable)
    /\ answer' = Nothing /\ delay' = 0
    /\ Unlock(c)

\* Mutant: an error is returned without giving up the lock.
Fail_KeepsLock(c) ==
    /\ pc[c] = "fetch"
    /\ answer' = Nothing /\ delay' = 0
    /\ Goto(c, "idle")
    /\ UNCHANGED <<readers, writer, cache, wasted>>

\* No answer in time, a status other than 200 or a body that cannot be read.
Fail(c) ==
    /\ pc[c] = "fetch"
    /\ answer' = Nothing /\ delay' = 0
    /\ Unlock(c)
    /\ UNCHANGED <<cache, wasted>>

\* Time passes; the HTTP client gives up before its request takes longer than
\* Timeout.
Tick ==
    /\ Fetching => delay < Timeout
    /\ delay' = IF Fetching THEN delay + 1 ELSE 0
    /\ accessToken' = [given |-> accessToken.given, left |-> Less(accessToken.left)]
    /\ expiresAt' = Less(expiresAt)
    /\ answer' = IF answer = Nothing THEN Nothing
                 ELSE [given |-> answer.given, expiresIn |-> answer.expiresIn,
                       left |-> Less(answer.left)]
    /\ UNCHANGED <<pc, readers, writer, wasted>>

Finish(c) == Store(c) \/ Fail(c)
Go(c) ==
    \/ RLock(c) \/ AwaitWriter(c) \/ Reuse(c) \/ Miss(c)
    \/ Locked(c) \/ ReuseLocked(c) \/ Request(c) \/ Finish(c)

Next ==
    \/ \E c \in Caller : Start(c) \/ Lock(c) \/ Go(c)
    \/ Respond
    \/ Tick

Spec == Init /\ [][Next]_vars

\* A goroutine runs on, at the latest when the HTTP client gives up, and Lock is
\* a sync.Mutex among the writers, which lets none of them starve.  That the
\* endpoint answers is not assumed.
FairSpec ==
    /\ Spec
    /\ \A c \in Caller : WF_vars(Go(c)) /\ SF_vars(Lock(c))

-----------------------------------------------------------------------------
\* Whoever is between locking and unlocking, and nobody else, holds the lock, on
\* every path out of getAccessToken.
LockOK ==
    /\ readers = {c \in Caller : pc[c] = "read"}
    /\ \A c \in Caller : pc[c] \in {"drain", "check", "fetch"} <=> writer = c
    /\ \A c \in Caller : pc[c] \in {"check", "fetch"} => readers = {}
    /\ \A c \in Caller : pc[c] = "wait" => writer # NoCaller

\* Type correctness, with the discipline of the lock.
TypeOK ==
    /\ pc \in [Caller -> {"idle", "rlock", "wait", "read",
                         "lock", "drain", "check", "fetch"}]
    /\ LockOK
    /\ writer \in Caller \cup {NoCaller}
    /\ accessToken \in Token
    /\ expiresAt \in Nat
    /\ answer \in Answer \cup {Nothing}
    /\ delay \in 0 .. Timeout
    /\ wasted \in BOOLEAN

\* However many connections find the token expired at once, one fetches a new
\* one and the others use it: no token is replaced that could still be used
\* (kafka_oauth.go:71).
NoneWasted == ~wasted

\* A cached token that is handed out is valid for longer than the margin less
\* the time a request may take, however late its answer was read
\* (kafka_oauth.go:114-116).
StillValid == Usable => accessToken.left > Margin - Timeout

\* Every connection gets a token or an error, although the others may wait for
\* the endpoint one after the other with the lock held.
AllAnswered == \A c \in Caller : pc[c] # "idle" ~> pc[c] = "idle"
=============================================================================
