------------------------------ MODULE Lifecycle ------------------------------
(***************************************************************************)
(* Start and stop of the process: fx builds what InitApp needs, each       *)
(* constructor appends its hooks, the hooks start in that order and stop   *)
(* in the reverse one, and the HTTP server serves requests in between.     *)
(*                                                                         *)
(* What the requests use are one Redis client and the databases.  Nothing  *)
(* InitApp needs leads to MongoDB or Kafka, so fx never builds them.       *)
(***************************************************************************)
EXTENDS Integers, Sequences, Functions

CONSTANTS
    Redis,      \* the Redis client, and its hook
    Databases,  \* db.sharding, one client and one hook each
    Logger,     \* the hook of the zap logger
    Server,     \* the hook of the HTTP server
    Requests    \* requests that may be served at a time

Clients == {Redis} \cup Databases
Hooks == Clients \cup {Logger, Server}

ASSUME LifecycleAssumption ==
    /\ {Redis, Logger, Server} \cap Databases = {}
    /\ Redis # Logger /\ Redis # Server /\ Logger # Server

VARIABLES
    phase,      \* "construct", "start", "run", "stop" or "exit"
    hooks,      \* fx.Lifecycle: the hooks in the order they were appended
    started,    \* numStarted: how many hooks have been started and not stopped
    open,       \* clients that are open
    listener,   \* of the server: "none", "starting", "listening" or "closed"
    serving,    \* requests being served
    status      \* exit status of the process, so far
vars == <<phase, hooks, started, open, listener, serving, status>>

server == <<listener, serving>>
Registered == Range(hooks)
OpenedDBs == Registered \cap Databases

\* newDBShardingClients is at work: nothing else is built.
OpeningDBs == OpenedDBs # {} /\ OpenedDBs # Databases

Init ==
    /\ phase = "construct"
    /\ hooks = << >> /\ started = 0
    /\ open = {}
    /\ listener = "none" /\ serving = {}
    /\ status = 0

Exit(code) == phase' = "exit" /\ status' = code

-----------------------------------------------------------------------------
\* Construction, in the order fx finds that somebody needs the results: the
\* logger first, InitApp last.

\* A configuration file cannot be read: main panics.
LoadConfigFails ==
    /\ phase = "construct" /\ hooks = << >>
    /\ Exit(2)
    /\ UNCHANGED <<hooks, started, open, server>>

NewZapLogger ==
    /\ phase = "construct" /\ hooks = << >>
    /\ hooks' = <<Logger>>
    /\ UNCHANGED <<phase, started, open, server, status>>

NewRedis ==
    /\ phase = "construct" /\ Logger \in Registered /\ ~OpeningDBs
    /\ Redis \notin Registered
    /\ hooks' = Append(hooks, Redis)
    /\ open' = open \cup {Redis}
    /\ UNCHANGED <<phase, started, server, status>>

\* gorm.Open connects, and the hook that closes the database is appended.
OpenDB(d) ==
    /\ phase = "construct" /\ Logger \in Registered
    /\ d \notin OpenedDBs
    /\ hooks' = Append(hooks, d)
    /\ open' = open \cup {d}
    /\ UNCHANGED <<phase, started, server, status>>

\* A database cannot be opened: those that were are closed, and fx.New keeps the
\* error, with which Run ends the process before any hook has run.
\* (Mutant: they are left to the hooks.)
OpenDBFails_NoCleanup(d) ==
    /\ phase = "construct" /\ Logger \in Registered
    /\ d \notin OpenedDBs
    /\ Exit(1)
    /\ UNCHANGED <<hooks, started, open, server>>
OpenDBFails(d) ==
    /\ phase = "construct" /\ Logger \in Registered
    /\ d \notin OpenedDBs
    /\ open' = open \ OpenedDBs
    /\ Exit(1)
    /\ UNCHANGED <<hooks, started, server>>

\* Any other constructor fails (configuration, keys, table counts), or InitApp
\* panics because it cannot read its own.
ConstructorFails ==
    /\ phase = "construct" /\ ~OpeningDBs
    /\ \E code \in {1, 2} : Exit(code)
    /\ UNCHANGED <<hooks, started, open, server>>

\* InitApp needs the middleware (sessions, hence Redis) and the handlers (DAOs,
\* hence the databases), so its own hook is the last one.
\* (Mutant: it is the first one.)
InitApp_First ==
    /\ phase = "construct"
    /\ Registered = Clients \cup {Logger}
    /\ hooks' = <<Server>> \o hooks
    /\ phase' = "start"
    /\ UNCHANGED <<started, open, server, status>>
InitApp ==
    /\ phase = "construct"
    /\ Registered = Clients \cup {Logger}
    /\ hooks' = Append(hooks, Server)
    /\ phase' = "start"
    /\ UNCHANGED <<started, open, server, status>>

-----------------------------------------------------------------------------
\* Start: the hooks, first to last.

Starting(h) == phase = "start" /\ started < Len(hooks) /\ hooks[started + 1] = h

\* The logger and the databases have nothing to start; Redis answers its ping.
StartClient(h) ==
    /\ h # Server /\ Starting(h)
    /\ started' = started + 1
    /\ UNCHANGED <<phase, hooks, open, server, status>>

\* Redis does not answer: fx stops the hooks it has started, and those only.
PingFails ==
    /\ Starting(Redis)
    /\ phase' = "stop" /\ status' = 1
    /\ UNCHANGED <<hooks, started, open, server>>

\* App.Start: a goroutine that will listen and serve.
StartApp ==
    /\ Starting(Server)
    /\ listener' = "starting"
    /\ started' = started + 1
    /\ UNCHANGED <<phase, hooks, open, serving, status>>

Started ==
    /\ phase = "start" /\ started = Len(hooks)
    /\ phase' = "run"
    /\ UNCHANGED <<hooks, started, open, server, status>>

-----------------------------------------------------------------------------
\* The server, which nobody waits for: it may listen before Start has returned,
\* or only when it is stopped.

Alive == phase # "exit"

Listen ==
    /\ Alive /\ listener = "starting"
    /\ listener' = "listening"
    /\ UNCHANGED <<phase, hooks, started, open, serving, status>>

\* The address is taken, or the listener breaks: logger.Fatal ends the process on
\* the spot.
ListenFails ==
    /\ Alive /\ listener \in {"starting", "listening"}
    /\ Exit(1)
    /\ UNCHANGED <<hooks, started, open, server>>

Accept(r) ==
    /\ Alive /\ listener = "listening"
    /\ serving' = serving \cup {r}
    /\ UNCHANGED <<phase, hooks, started, open, listener, status>>

Finish(r) ==
    /\ Alive /\ r \in serving
    /\ serving' = serving \ {r}
    /\ UNCHANGED <<phase, hooks, started, open, listener, status>>

-----------------------------------------------------------------------------
\* Stop: the hooks that were started, last to first.  An error of one of them is
\* remembered and the next one runs.

Signal ==
    /\ phase = "run"
    /\ phase' = "stop"
    /\ UNCHANGED <<hooks, started, open, server, status>>

Stopping(h) == phase = "stop" /\ started > 0 /\ hooks[started] = h

\* Shutdown: first nothing new is accepted,
Shutdown ==
    /\ Stopping(Server) /\ listener # "closed"
    /\ listener' = "closed"
    /\ UNCHANGED <<phase, hooks, started, open, serving, status>>

\* then it waits for the requests.  (Mutant: Close in its place.)
ShutdownDone_Close ==
    /\ Stopping(Server) /\ listener = "closed"
    /\ started' = started - 1
    /\ UNCHANGED <<phase, hooks, open, server, status>>
ShutdownDone ==
    /\ Stopping(Server) /\ listener = "closed"
    /\ serving = {}
    /\ started' = started - 1
    /\ UNCHANGED <<phase, hooks, open, server, status>>

\* The logger's hook never fails.
CloseClient(h) ==
    /\ h # Server /\ Stopping(h)
    /\ open' = open \ {h}
    /\ started' = started - 1
    /\ \/ status' = status
       \/ h # Logger /\ status' = 1
    /\ UNCHANGED <<phase, hooks, server>>

Stopped ==
    /\ phase = "stop" /\ started = 0
    /\ Exit(status)
    /\ UNCHANGED <<hooks, started, open, server>>

\* Start or stop takes longer than fx allows (fifteen seconds each): Run gives up,
\* whatever its hooks are doing, and no further hook runs.
Timeout ==
    /\ phase \in {"start", "stop"}
    /\ Exit(1)
    /\ UNCHANGED <<hooks, started, open, server>>

-----------------------------------------------------------------------------
Construct ==
    \/ LoadConfigFails \/ NewZapLogger \/ NewRedis \/ ConstructorFails \/ InitApp
    \/ \E d \in Databases : OpenDB(d) \/ OpenDBFails(d)

Start ==
    \/ \E h \in Clients \cup {Logger} : StartClient(h)
    \/ PingFails \/ StartApp \/ Started

Serve ==
    \/ Listen \/ ListenFails
    \/ \E r \in Requests : Accept(r) \/ Finish(r)

Stop ==
    \/ Signal \/ Shutdown \/ ShutdownDone \/ Stopped
    \/ \E h \in Clients \cup {Logger} : CloseClient(h)

Next == Construct \/ Start \/ Serve \/ Stop \/ Timeout

Spec == Init /\ [][Next]_vars

-----------------------------------------------------------------------------
\* Type correctness; a hook is appended once.
TypeOK ==
    /\ phase \in {"construct", "start", "run", "stop", "exit"}
    /\ hooks \in Seq(Hooks)
    /\ IsInjective(hooks)
    /\ started \in 0 .. Len(hooks)
    /\ open \subseteq Clients
    /\ listener \in {"none", "starting", "listening", "closed"}
    /\ serving \subseteq Requests
    /\ status \in 0 .. 2

\* A request is served with every client open and Redis found alive: from before
\* the server listens until its last request has ended, also when the ping fails,
\* the signal comes before it listens, or stopping takes too long
\* (app.go:90-97, redis.go:26-46, db.go:84-95).
ServedWithClients ==
    serving # {} /\ Alive =>
        /\ open = Clients
        /\ \E i \in 1 .. started : hooks[i] = Redis

\* Status 0 is not given lightly: nothing was left open, no request cut off
\* (app.go:39-47).
CleanExit == phase = "exit" /\ status = 0 => open = {} /\ serving = {}

\* When a database cannot be opened, none stays open, although their hooks will
\* not run (db.go:62-80).
NoneLeftOpen ==
    phase = "exit" /\ Databases \ Registered # {} => open \cap Databases = {}
=============================================================================
