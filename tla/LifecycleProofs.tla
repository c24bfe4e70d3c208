--------------------------- MODULE LifecycleProofs ---------------------------
(***************************************************************************)
(* Proofs about start and stop and about the requests in between, for any  *)
(* number of databases, contexts and sessions.  Start and stop hang on the *)
(* hook of the server being the last one: it is started when all others    *)
(* have been, and until it has stopped none of them is.                    *)
(***************************************************************************)
EXTENDS HttpServer, TLAPS, SequenceTheorems

Built == phase \in {"start", "run", "stop"}

\* Until InitApp has run nothing has been started, and every open client has its
\* hook.
Building ==
    phase = "construct" =>
        /\ started = 0 /\ status = 0
        /\ listener = "none" /\ serving = {}
        /\ Server \notin Registered
        /\ open = Registered \cap Clients

\* Then every hook is there, the server's last.
ServerLast ==
    Built => /\ Registered = Hooks
             /\ Len(hooks) > 0 /\ hooks[Len(hooks)] = Server

\* Nobody is served unless every hook is started,
Quiet ==
    Built /\ started < Len(hooks) =>
        listener \in {"none", "closed"} /\ serving = {}

\* and then every client is open.
AllOpen ==
    /\ phase \in {"start", "run"} => open = Clients /\ status = 0
    /\ phase = "run" => started = Len(hooks)
    /\ phase = "stop" /\ started = Len(hooks) => open = Clients

\* What is open while the process stops has a hook that will still run, or the
\* status tells.
StillToClose ==
    phase = "stop" /\ status = 0 => open \subseteq {hooks[i] : i \in 1 .. started}

IInv ==
    /\ TypeOK /\ CleanExit
    /\ Building /\ ServerLast /\ Quiet /\ AllOpen /\ StillToClose

-----------------------------------------------------------------------------
LEMMA InitInvariant == Init => IInv
<1> SUFFICES ASSUME Init PROVE IInv
  OBVIOUS
<1>1. TypeOK
  BY DEF Init, TypeOK, IsInjective
<1>2. Range(hooks) = {}
  BY DEF Init, Range
<1> QED
  BY <1>1, <1>2 DEF Init, IInv, CleanExit, Building, ServerLast, Quiet, AllOpen,
     StillToClose, Built, Registered

\* What it means to append a hook that is not there yet.
LEMMA AppendHook ==
    ASSUME TypeOK, NEW h \in Hooks, h \notin Registered,
           hooks' = Append(hooks, h)
    PROVE  /\ hooks' \in Seq(Hooks) /\ IsInjective(hooks')
           /\ Len(hooks') = Len(hooks) + 1
           /\ hooks'[Len(hooks')] = h
           /\ Registered' = Registered \cup {h}
<1>1. hooks \in Seq(Hooks) /\ IsInjective(hooks)
  BY DEF TypeOK
<1>2. hooks' \in Seq(Hooks) /\ Len(hooks') = Len(hooks) + 1
      /\ hooks'[Len(hooks')] = h
      /\ \A i \in 1 .. Len(hooks) : hooks'[i] = hooks[i]
  BY <1>1, AppendProperties
<1>3. DOMAIN hooks = 1 .. Len(hooks) /\ DOMAIN hooks' = 1 .. Len(hooks) + 1
      /\ Len(hooks) \in Nat
  BY <1>1, <1>2, LenProperties
<1>4. \A i \in 1 .. Len(hooks) : hooks[i] # h
  BY <1>3 DEF Registered, Range
<1>5. IsInjective(hooks')
  BY <1>1, <1>2, <1>3, <1>4 DEF IsInjective
<1>6. Registered' = Registered \cup {h}
  BY <1>2, <1>3 DEF Registered, Range
<1> QED
  BY <1>2, <1>5, <1>6

LEMMA ConstructStep == IInv /\ Construct => IInv'
<1> SUFFICES ASSUME IInv, Construct PROVE IInv'
  OBVIOUS
<1> USE DEF IInv, server
<1>1. phase = "construct"
  BY DEF Construct, LoadConfigFails, NewZapLogger, NewRedis, ConstructorFails,
     InitApp, OpenDB, OpenDBFails
<1>2. Clients \subseteq Hooks /\ Logger \in Hooks \ Clients /\ Server \in Hooks \ Clients
      /\ Logger # Server
  BY LifecycleAssumption DEF Hooks, Clients
<1>3. CASE phase' = "exit" /\ hooks' = hooks /\ started' = started
           /\ open' \subseteq open /\ UNCHANGED server /\ status' \in {1, 2}
  BY <1>3 DEF TypeOK, CleanExit, Building, ServerLast, Quiet, AllOpen, StillToClose,
     Built
<1>4. CASE \/ LoadConfigFails \/ ConstructorFails
           \/ \E d \in Databases : OpenDBFails(d)
  BY <1>3, <1>4 DEF LoadConfigFails, ConstructorFails, OpenDBFails, Exit
<1>5. ASSUME NEW h \in Clients \cup {Logger}, h \notin Registered,
             hooks' = Append(hooks, h), phase' = phase, UNCHANGED server,
             started' = started, status' = status,
             open' = IF h \in Clients THEN open \cup {h} ELSE open
      PROVE  IInv'
  <2>1. /\ hooks' \in Seq(Hooks) /\ IsInjective(hooks')
        /\ Len(hooks') = Len(hooks) + 1
        /\ Registered' = Registered \cup {h}
    BY <1>2, <1>5, AppendHook
  <2>2. TypeOK'
    <3>1. Len(hooks) \in Nat
      BY DEF TypeOK
    <3>2. started' \in 0 .. Len(hooks')
      BY <1>5, <2>1, <3>1 DEF TypeOK
    <3> QED
      BY <1>5, <2>1, <3>2 DEF TypeOK
  <2>3. Building'
    BY <1>1, <1>2, <1>5, <2>1 DEF Building
  <2> QED
    BY <1>1, <1>5, <2>2, <2>3 DEF CleanExit, ServerLast, Quiet, AllOpen,
       StillToClose, Built
<1>6. CASE NewZapLogger
  <2>1. Logger \notin Registered
    BY <1>6 DEF NewZapLogger, Registered, Range
  <2>2. hooks' = Append(hooks, Logger)
    BY <1>6 DEF NewZapLogger
  <2> QED
    BY <1>2, <1>5, <1>6, <2>1, <2>2 DEF NewZapLogger
<1>7. CASE NewRedis
  BY <1>5, <1>7 DEF NewRedis, Clients
<1>8. CASE \E d \in Databases : OpenDB(d)
  BY <1>5, <1>8 DEF OpenDB, Clients, OpenedDBs
<1>9. CASE InitApp
  <2>1. Registered = Clients \cup {Logger} /\ hooks' = Append(hooks, Server)
        /\ phase' = "start" /\ UNCHANGED <<started, open, server, status>>
    BY <1>9 DEF InitApp
  <2>2. Server \notin Registered
    BY <1>2, <2>1
  <2>3. /\ hooks' \in Seq(Hooks) /\ IsInjective(hooks')
        /\ Len(hooks') = Len(hooks) + 1
        /\ hooks'[Len(hooks')] = Server
        /\ Registered' = Hooks
    BY <1>2, <2>1, <2>2, AppendHook DEF Hooks
  <2>4. Len(hooks) \in Nat /\ started = 0
    BY <1>1 DEF TypeOK, Building
  <2>5. TypeOK'
    BY <2>1, <2>3, <2>4 DEF TypeOK
  <2>6. open' = Clients /\ status' = 0 /\ listener' = "none" /\ serving' = {}
    BY <1>1, <1>2, <2>1 DEF Building
  <2> QED
    BY <2>1, <2>3, <2>4, <2>5, <2>6 DEF CleanExit, Building, ServerLast, Quiet,
       AllOpen, StillToClose, Built
<1> QED
  BY <1>4, <1>6, <1>7, <1>8, <1>9 DEF Construct

LEMMA StartStep == IInv /\ Start => IInv'
<1> SUFFICES ASSUME IInv, Start PROVE IInv'
  OBVIOUS
<1> USE DEF IInv, server
<1>1. /\ phase = "start" /\ phase' \in {"start", "run", "stop"}
      /\ hooks' = hooks /\ open' = open /\ serving' = serving
  BY DEF Start, StartClient, PingFails, StartApp, Started, Starting
<1>2. /\ hooks \in Seq(Hooks) /\ IsInjective(hooks) /\ Len(hooks) \in Nat
      /\ DOMAIN hooks = 1 .. Len(hooks)
      /\ started \in 0 .. Len(hooks)
      /\ Len(hooks) > 0 /\ hooks[Len(hooks)] = Server
      /\ Registered = Hooks /\ Registered' = Hooks
      /\ open = Clients /\ status = 0
  BY <1>1, LenProperties DEF TypeOK, ServerLast, AllOpen, Built, Registered
<1>3. ASSUME NEW h \in Clients \cup {Logger}, StartClient(h) PROVE IInv'
  <2>1. started + 1 # Len(hooks)
    BY <1>2, <1>3 DEF StartClient, Starting
  <2>2. started < Len(hooks) /\ started' = started + 1 /\ phase' = "start"
        /\ UNCHANGED <<listener, status>>
    BY <1>1, <1>3 DEF StartClient, Starting
  <2>3. started' \in 0 .. Len(hooks) /\ started' < Len(hooks)
    <3>1. Len(hooks) \in Nat /\ started \in 0 .. Len(hooks)
      BY <1>2
    <3> HIDE DEF IInv
    <3> QED
      BY <2>1, <2>2, <3>1
  <2>4. listener \in {"none", "closed"} /\ serving = {}
    BY <1>1, <2>2 DEF Quiet, Built
  <2> QED
    BY <1>1, <1>2, <2>2, <2>3, <2>4 DEF TypeOK, CleanExit, Building, ServerLast,
       Quiet, AllOpen, StillToClose, Built
<1>4. CASE PingFails
  <2>1. started < Len(hooks) /\ phase' = "stop" /\ status' = 1
        /\ UNCHANGED <<started, listener>>
    BY <1>4 DEF PingFails, Starting
  <2> QED
    BY <1>1, <1>2, <2>1 DEF TypeOK, CleanExit, Building, ServerLast,
       Quiet, AllOpen, StillToClose, Built
<1>5. CASE StartApp
  <2>1. started < Len(hooks) /\ hooks[started + 1] = Server /\ phase' = "start"
        /\ listener' = "starting" /\ started' = started + 1 /\ status' = status
    BY <1>1, <1>5 DEF StartApp, Starting
  <2>2. started + 1 = Len(hooks)
    <3>1. started + 1 \in DOMAIN hooks /\ Len(hooks) \in DOMAIN hooks
      BY <1>2, <2>1
    <3> QED
      BY <1>2, <2>1, <3>1 DEF IsInjective
  <2> QED
    BY <1>1, <1>2, <2>1, <2>2 DEF TypeOK, CleanExit, Building, ServerLast,
       Quiet, AllOpen, StillToClose, Built
<1>6. CASE Started
  BY <1>1, <1>2, <1>6 DEF Started, TypeOK, CleanExit, Building, ServerLast,
     Quiet, AllOpen, StillToClose, Built
<1> QED
  BY <1>3, <1>4, <1>5, <1>6 DEF Start

\* Only a server that has been started serves.
LEMMA ServeStep == IInv /\ Serve => IInv'
<1> SUFFICES ASSUME IInv, Serve PROVE IInv'
  OBVIOUS
<1> USE DEF IInv, server
<1>1. CASE ListenFails
  BY <1>1 DEF ListenFails, Alive, Exit, TypeOK, CleanExit, Building, ServerLast,
     Quiet, AllOpen, StillToClose, Built
<1>2. CASE Listen \/ \E r \in Requests : Accept(r) \/ Finish(r)
  <2>1. /\ phase # "exit"
        /\ listener \in {"starting", "listening"} \/ serving # {}
        /\ listener' \in {"listening", listener}
        /\ serving' \subseteq Requests
        /\ UNCHANGED <<phase, hooks, started, open, status>>
    BY <1>2 DEF Listen, Accept, Finish, Alive, TypeOK
  <2>2. Built /\ ~(started < Len(hooks))
    BY <2>1 DEF Built, Building, Quiet, TypeOK
  <2> QED
    BY <2>1, <2>2 DEF TypeOK, CleanExit, Building, ServerLast, Quiet, AllOpen,
       StillToClose, Built, Registered
<1> QED
  BY <1>1, <1>2 DEF Serve

LEMMA StopStep == IInv /\ (Stop \/ Timeout) => IInv'
<1> SUFFICES ASSUME IInv, Stop \/ Timeout PROVE IInv'
  OBVIOUS
<1> USE DEF IInv, server
<1>1. /\ Built /\ hooks' = hooks
  BY DEF Stop, Signal, Shutdown, ShutdownDone, CloseClient, Stopped, Timeout,
     Stopping, Built
<1>2. /\ hooks \in Seq(Hooks) /\ Len(hooks) \in Nat /\ started \in 0 .. Len(hooks)
      /\ DOMAIN hooks = 1 .. Len(hooks)
      /\ Len(hooks) > 0 /\ hooks[Len(hooks)] = Server
      /\ Registered = Hooks /\ Registered' = Hooks
      /\ Clients \subseteq Hooks
  BY <1>1, LenProperties DEF TypeOK, ServerLast, Registered, Hooks
<1>3. CASE Signal
  <2>1. started = Len(hooks) /\ open = Clients
    BY <1>3 DEF Signal, AllOpen
  <2>2. open \subseteq {hooks[i] : i \in 1 .. started}
    BY <1>2, <2>1 DEF Registered, Range
  <2> QED
    BY <1>1, <1>2, <1>3, <2>1, <2>2 DEF Signal, TypeOK, CleanExit, Building,
       ServerLast, Quiet, AllOpen, StillToClose, Built
<1>4. CASE Shutdown
  BY <1>1, <1>2, <1>4 DEF Shutdown, Stopping, TypeOK, CleanExit, Building,
     ServerLast, Quiet, AllOpen, StillToClose, Built
<1>5. ASSUME NEW h \in Hooks, Stopping(h), started' = started - 1,
             phase' = phase, open' = open \ {h},
             status' \in {1, status},
             h = Server => listener' \in {"none", "closed"} /\ serving' = {},
             h # Server => UNCHANGED server,
             serving' \subseteq Requests,
             listener' \in {"none", "starting", "listening", "closed"}
      PROVE  IInv'
  <2>1. phase = "stop" /\ started > 0 /\ hooks[started] = h
    BY <1>5 DEF Stopping
  <2>2. started' \in 0 .. Len(hooks) /\ started' < Len(hooks)
    BY <1>2, <1>5, <2>1
  <2>3. listener' \in {"none", "closed"} /\ serving' = {}
    <3>1. CASE h = Server
      BY <1>5, <3>1
    <3>2. CASE h # Server
      <4>1. started < Len(hooks)
        BY <1>2, <2>1, <3>2
      <4> QED
        BY <1>1, <1>5, <3>2, <4>1 DEF Quiet
    <3> QED
      BY <3>1, <3>2
  <2>4. StillToClose'
    <3> SUFFICES ASSUME status' = 0, NEW c \in open'
                 PROVE  c \in {hooks[i] : i \in 1 .. started'}
      BY <1>1 DEF StillToClose
    <3>1. status = 0 /\ c \in open /\ c # h
      BY <1>5
    <3>2. PICK i \in 1 .. started : c = hooks[i]
      BY <2>1, <3>1 DEF StillToClose
    <3>3. i \in 1 .. started'
      BY <1>2, <1>5, <2>1, <3>1, <3>2
    <3> QED
      BY <3>2, <3>3
  <2>5. TypeOK'
    BY <1>1, <1>5, <2>2 DEF TypeOK
  <2>6. phase' = "stop" /\ Len(hooks') = Len(hooks) /\ started' # Len(hooks')
    BY <1>1, <1>2, <1>5, <2>1, <2>2
  <2>7. CleanExit' /\ Building' /\ AllOpen'
    BY <2>6 DEF CleanExit, Building, AllOpen
  <2>8. ServerLast'
    BY <1>1, <1>2 DEF ServerLast
  <2>9. Quiet'
    BY <2>3 DEF Quiet
  <2> QED
    BY <2>4, <2>5, <2>7, <2>8, <2>9
<1>6. CASE ShutdownDone
  <2>1. Server \in Hooks /\ Server \notin open
    BY LifecycleAssumption DEF Hooks, Clients, TypeOK
  <2>2. open' = open \ {Server} /\ status' = status
    BY <1>6, <2>1 DEF ShutdownDone
  <2>3. Stopping(Server) /\ started' = started - 1 /\ phase' = phase
        /\ listener' = "closed" /\ serving' = {}
    BY <1>6 DEF ShutdownDone
  <2> QED
    BY <1>5, <2>1, <2>2, <2>3
<1>7. ASSUME NEW h \in Clients \cup {Logger}, CloseClient(h) PROVE IInv'
  <2>1. h \in Hooks
    BY DEF Hooks
  <2>2. h # Server /\ Stopping(h) /\ started' = started - 1 /\ phase' = phase
        /\ open' = open \ {h} /\ status' \in {1, status} /\ UNCHANGED server
    BY <1>7 DEF CloseClient
  <2>3. serving' \subseteq Requests
        /\ listener' \in {"none", "starting", "listening", "closed"}
    BY <2>2 DEF TypeOK
  <2> QED
    BY <1>5, <2>1, <2>2, <2>3
<1>8. CASE Stopped
  <2>1. phase = "stop" /\ started = 0 /\ phase' = "exit" /\ status' = status
        /\ UNCHANGED <<hooks, started, open, server>>
    BY <1>8 DEF Stopped, Exit
  <2>2. serving = {}
    BY <1>1, <1>2, <2>1 DEF Quiet
  <2>3. status = 0 => open = {}
    BY <2>1 DEF StillToClose
  <2> QED
    BY <2>1, <2>2, <2>3 DEF TypeOK, CleanExit, Building, ServerLast, Quiet, AllOpen,
       StillToClose, Built
<1>9. CASE Timeout
  BY <1>9 DEF Timeout, Exit, TypeOK, CleanExit, Building, ServerLast, Quiet, AllOpen,
     StillToClose, Built
<1> QED
  BY <1>3, <1>4, <1>6, <1>7, <1>8, <1>9 DEF Stop

-----------------------------------------------------------------------------
\* The invariant holds from the first constructor to the end of the process.
THEOREM LifecycleInvariant == Spec => []IInv
<1>1. Init => IInv
  BY InitInvariant
<1>2. IInv /\ [Next]_vars => IInv'
  <2>1. IInv /\ UNCHANGED vars => IInv'
    BY DEF vars, IInv, TypeOK, CleanExit, Building, ServerLast, Quiet, AllOpen,
       StillToClose, Built, Registered
  <2> QED
    BY <2>1, ConstructStep, StartStep, ServeStep, StopStep DEF Next
<1> QED
  BY <1>1, <1>2, PTL DEF Spec

\* No request is ever served without all clients open and Redis found alive
\* (app.go:90-97, redis.go:26-46, db.go:84-95).
THEOREM AlwaysServedWithClients == Spec => []ServedWithClients
<1>1. IInv => ServedWithClients
  <2> SUFFICES ASSUME IInv, serving # {}, Alive
               PROVE  open = Clients /\ \E i \in 1 .. started : hooks[i] = Redis
    BY DEF ServedWithClients
  <2> USE DEF IInv
  <2>1. Built /\ Len(hooks) \in Nat /\ started \in 0 .. Len(hooks)
        /\ DOMAIN hooks = 1 .. Len(hooks)
    BY LenProperties DEF Alive, TypeOK, Building, Built
  <2>2. started = Len(hooks)
    <3>1. ~(started < Len(hooks))
      BY <2>1 DEF Quiet
    <3>2. Len(hooks) \in Nat /\ started \in 0 .. Len(hooks)
      BY <2>1
    <3> HIDE DEF IInv
    <3> QED
      BY <3>1, <3>2
  <2>3. Redis \in Registered
    BY <2>1 DEF ServerLast, Hooks, Clients
  <2> QED
    BY <2>1, <2>2, <2>3 DEF AllOpen, Built, Registered, Range
<1> QED
  BY <1>1, LifecycleInvariant, PTL

\* Status 0 means that nothing was left open and no request cut off.
THEOREM AlwaysCleanExit == Spec => []CleanExit
<1>1. IInv => CleanExit
  BY DEF IInv
<1> QED
  BY <1>1, LifecycleInvariant, PTL

\* Type correctness; no hook is appended twice.
THEOREM TypeCorrect == Spec => []TypeOK
<1>1. IInv => TypeOK
  BY DEF IInv
<1> QED
  BY <1>1, LifecycleInvariant, PTL

\* However many databases there are and whichever cannot be opened, none is left
\* open without a hook that will run (db.go:62-80).
THEOREM AlwaysNoneLeftOpen == Spec => []NoneLeftOpen
<1>1. Init => NoneLeftOpen
  BY DEF Init, NoneLeftOpen
<1>2. IInv /\ NoneLeftOpen /\ [Next]_vars => NoneLeftOpen'
  <2> SUFFICES ASSUME IInv, NoneLeftOpen, Next, phase' = "exit"
               PROVE  Databases \ Registered' # {} => open' \cap Databases = {}
    BY DEF NoneLeftOpen, vars, Registered
  <2>1. phase # "exit" /\ hooks' = hooks
    BY DEF Next, Construct, LoadConfigFails, NewZapLogger, NewRedis, ConstructorFails,
       OpenDB, OpenDBFails, InitApp, Start, StartClient, PingFails, StartApp, Started,
       Starting, Serve, Listen, ListenFails, Accept, Finish, Alive, Stop, Signal, Shutdown,
       ShutdownDone, CloseClient, Stopped, Stopping, Timeout
  <2>2. CASE Built
    <3>1. Databases \subseteq Registered'
      BY <2>1, <2>2 DEF IInv, ServerLast, Hooks, Clients, Registered
    <3> QED
      BY <3>1
  <2>3. CASE phase = "construct"
    <3>1. open \cap Databases = OpenedDBs /\ Registered' = Registered
      BY <2>1, <2>3 DEF IInv, Building, OpenedDBs, Clients, Registered
    <3>2. \/ LoadConfigFails \/ ConstructorFails
          \/ \E d \in Databases : OpenDBFails(d)
      BY <2>1, <2>3 DEF Next, Construct, NewZapLogger, NewRedis, OpenDB, InitApp, Start,
         StartClient, PingFails, StartApp, Started, Starting, Serve, Listen, ListenFails,
         Accept, Finish, Stop, Signal, Shutdown, ShutdownDone, CloseClient, Stopped,
         Stopping, Timeout, IInv, Building
    <3>3. CASE LoadConfigFails
      BY <3>1, <3>3 DEF LoadConfigFails, OpenedDBs, Registered, Range
    <3>4. CASE ConstructorFails
      BY <3>1, <3>4 DEF ConstructorFails, OpeningDBs, OpenedDBs
    <3>5. CASE \E d \in Databases : OpenDBFails(d)
      BY <3>1, <3>5 DEF OpenDBFails
    <3> QED
      BY <3>2, <3>3, <3>4, <3>5
  <2> QED
    BY <2>1, <2>2, <2>3 DEF IInv, TypeOK, Built
<1> QED
  BY <1>1, <1>2, LifecycleInvariant, PTL DEF Spec

-----------------------------------------------------------------------------
(***************************************************************************)
(* The requests.  HttpSpec only adds to what Lifecycle does, so everything *)
(* above holds of it too.                                                  *)
(***************************************************************************)

\* The steps of a context that are about no variable of Lifecycle.
LEMMA HandleKeepsLife ==
    ASSUME NEW r \in Requests, Handle(r)
    PROVE  UNCHANGED <<vars, engine>>
BY DEF Handle, Cors, Jwt, Wrap, NoRoute, Business, SignOut

\* They change one context.
LEMMA HandleMoves ==
    ASSUME NEW r \in Requests, Handle(r)
    PROVE  \E c : req' = [req EXCEPT ![r] = c]
<1>1. CASE Cors(r)
  BY <1>1, Zenon DEF Cors, Proceed, Answer
<1>2. CASE Jwt(r)
  BY <1>2, Zenon DEF Jwt, Proceed, Answer
<1>3. CASE Wrap(r)
  BY <1>3, Zenon DEF Wrap, Answer
<1>4. CASE NoRoute(r) \/ Business(r) \/ SignOut(r)
  BY <1>4, Zenon DEF NoRoute, Business, SignOut, Answer
<1> QED
  BY <1>1, <1>2, <1>3, <1>4 DEF Handle

LEMMA HttpStepIsStep ==
    ASSUME HttpNext \/ UNCHANGED httpVars
    PROVE  [Next]_vars
<1>1. CASE Configure \/ OtherConstruct
  BY <1>1 DEF Configure, OtherConstruct, Next, Construct
<1>2. CASE Life
  BY <1>2 DEF Life, Next, Serve
<1>3. ASSUME NEW r \in Requests, Arrive(r) \/ Return(r) PROVE Next
  BY <1>3 DEF Arrive, Return, Next, Serve
<1>4. ASSUME NEW r \in Requests, Handle(r) PROVE UNCHANGED vars
  BY <1>4, HandleKeepsLife
<1>5. ASSUME NEW g \in Goroutine, ClearSession(g) \/ ClearFails(g) PROVE UNCHANGED vars
  BY <1>5 DEF ClearSession, ClearFails
<1> QED
  BY <1>1, <1>2, <1>3, <1>4, <1>5 DEF HttpNext, httpVars

\* The server with its requests implements start and stop.
THEOREM HttpImplementsLifecycle == HttpSpec => Spec
<1>1. HttpInit => Init
  BY DEF HttpInit
<1>2. [HttpNext]_httpVars => [Next]_vars
  BY HttpStepIsStep
<1> QED
  BY <1>1, <1>2, PTL DEF HttpSpec, Spec

\* Whatever middlewares and handlers do with a request, it is served with all clients
\* open, and the process opens and closes them as before
\* (app.go:90-97, redis.go:26-46, db.go:62-95).
THEOREM RequestsServedWithClients ==
    HttpSpec => [](ServedWithClients /\ CleanExit /\ NoneLeftOpen)
BY HttpImplementsLifecycle, AlwaysServedWithClients, AlwaysCleanExit, AlwaysNoneLeftOpen, PTL

-----------------------------------------------------------------------------
\* A session that was cleared, or is being, was signed out of by its user.
Asked ==
    /\ Sessions \ sessions \subseteq asked
    /\ \A g \in clearing : g.sid \in asked

LEMMA AskedInvariant == HttpSpec => []Asked
<1>1. HttpInit => Asked
  BY DEF HttpInit, Asked
<1>2. Asked /\ [HttpNext]_httpVars => Asked'
  <2> SUFFICES ASSUME Asked, HttpNext \/ UNCHANGED httpVars PROVE Asked'
    OBVIOUS
  <2> USE DEF Asked
  <2>1. ASSUME UNCHANGED signOuts PROVE Asked'
    BY <2>1 DEF signOuts
  <2>2. CASE Configure \/ OtherConstruct \/ Life \/ UNCHANGED httpVars
    BY <2>1, <2>2 DEF Configure, OtherConstruct, Life, httpVars
  <2>3. ASSUME NEW r \in Requests, Arrive(r) \/ Handle(r) \/ Return(r) PROVE Asked'
    <3>1. CASE SignOut(r) /\ req[r].user # Nobody
      <4>1. /\ clearing' = clearing \cup {[ctx |-> r, sid |-> req[r].user]}
            /\ asked' = asked \cup {req[r].user} /\ sessions' = sessions
        BY <3>1 DEF SignOut
      <4> QED
        BY <4>1
    <3>2. CASE ~(SignOut(r) /\ req[r].user # Nobody)
      <4>1. UNCHANGED signOuts
        BY <2>3, <3>2 DEF Arrive, Return, Handle, Cors, Jwt, Wrap, NoRoute, Business, SignOut
      <4> QED
        BY <4>1, <2>1
    <3> QED
      BY <3>1, <3>2
  <2>4. ASSUME NEW g \in Goroutine, ClearSession(g) \/ ClearFails(g) PROVE Asked'
    BY <2>4 DEF ClearSession, ClearFails
  <2> QED
    BY <2>2, <2>3, <2>4 DEF HttpNext
<1> QED
  BY <1>1, <1>2, PTL DEF HttpSpec

\* A session is ended by a sign-out of its own user only, for any number of contexts
\* and sessions (auth_handler.go:115-145).
THEOREM AlwaysEndedByOwner == HttpSpec => []EndedByOwner
<1>1. Asked => EndedByOwner
  BY DEF Asked, EndedByOwner
<1> QED
  BY <1>1, AskedInvariant, PTL
-----------------------------------------------------------------------------
\* What is known of a context in use from the steps it still has to take: the last
\* step is no middleware, and a middleware that is not awaited any more has let the
\* request pass.
Awaits(c, m) == \E i \in 1 .. Len(c.todo) : c.todo[i] = m

Middlewares == {"cors", "jwt"}

ContextOK(c) ==
    /\ c.todo \in Seq(Step)
    /\ \A i \in 1 .. Len(c.todo) : i < Len(c.todo) <=> c.todo[i] \in Middlewares
    /\ Len(c.codes) = IF c.todo = << >> THEN 1 ELSE 0
    /\ c.todo # << >> /\ ~Awaits(c, "cors") => c.origin \in {"same", "allowed"}
    /\ c.todo # << >> /\ ~Awaits(c, "jwt") => c.user # Nobody \/ Ignored(c)
    /\ Awaits(c, "business") =>
          Len(c.todo) = 1 /\ (Wrapper(c.handler).user => c.user # Nobody)

Chained == Built => middlewares \in Orders

HttpIInv ==
    /\ HttpTypeOK /\ Chained
    /\ \A r \in serving : ContextOK(req[r])

LEMMA ShorterSeq ==
    ASSUME NEW S, NEW t \in Seq(S), Len(t) > 1, NEW u \in Seq(S), Len(u) = Len(t) - 1
    PROVE  u # << >>
BY EmptySeq

\* Proceeding past a middleware that has done its duty.
LEMMA ProceedOK ==
    ASSUME HttpTypeOK, NEW r \in Requests, ContextOK(req[r]),
           req[r].todo # << >>, NEW m \in Middlewares, Head(req[r].todo) = m,
           NEW c \in Context, Proceed(r, c),
           c.todo = req[r].todo, c.codes = req[r].codes, c.handler = req[r].handler,
           m = "cors" => c.origin \in {"same", "allowed"} /\ c.user = req[r].user,
           m = "jwt" => (c.user # Nobody \/ Ignored(c)) /\ c.origin = req[r].origin
    PROVE  req' \in [Requests -> Context] /\ ContextOK(req'[r])
<1> DEFINE t == req[r].todo
           d == [c EXCEPT !.todo = Tail(t)]
<1>1. t \in Seq(Step) /\ Len(t) \in Nat /\ Len(t) > 0 /\ t[1] = m
  BY EmptySeq, LenProperties DEF ContextOK
<1>2. Len(t) > 1
  BY <1>1 DEF ContextOK
<1>3. /\ Tail(t) \in Seq(Step) /\ Len(Tail(t)) = Len(t) - 1 /\ Tail(t) # << >>
      /\ \A i \in 1 .. Len(t) - 1 : Tail(t)[i] = t[i + 1]
  <2> HIDE DEF t
  <2>1. t # << >>
    BY DEF t
  <2>2. Tail(t) \in Seq(Step) /\ Len(Tail(t)) = Len(t) - 1
        /\ \A i \in 1 .. Len(t) - 1 : Tail(t)[i] = t[i + 1]
    BY <1>1, <2>1, HeadTailProperties
  <2>3. Tail(t) # << >>
    BY <1>1, <1>2, <2>2, ShorterSeq
  <2> QED
    BY <2>2, <2>3
<1>4. req' = [req EXCEPT ![r] = d] /\ d \in Context
  BY <1>3 DEF Proceed, Context
<1>5. req' \in [Requests -> Context] /\ req'[r] = d
  BY <1>4 DEF HttpTypeOK
<1>6. /\ d.todo = Tail(t) /\ d.codes = req[r].codes /\ d.handler = c.handler
      /\ d.origin = c.origin /\ d.user = c.user
  BY DEF Context
<1>7. \A k \in Middlewares : k # m /\ ~Awaits(d, k) => ~Awaits(req[r], k)
  <2> SUFFICES ASSUME NEW k \in Middlewares, k # m, NEW i \in 1 .. Len(t), t[i] = k
               PROVE  Awaits(d, k)
    BY DEF Awaits
  <2>1. i # 1 /\ i - 1 \in 1 .. Len(t) - 1
    BY <1>1
  <2>2. Tail(t)[i - 1] = t[(i - 1) + 1]
    BY <1>3, <2>1
  <2> QED
    BY <2>1, <2>2, <1>3, <1>6, <1>1 DEF Awaits
<1>8. \A i \in 1 .. Len(Tail(t)) : i < Len(Tail(t)) <=> Tail(t)[i] \in Middlewares
  <2> SUFFICES ASSUME NEW i \in 1 .. Len(Tail(t))
               PROVE  i < Len(Tail(t)) <=> Tail(t)[i] \in Middlewares
    OBVIOUS
  <2>1. i + 1 \in 1 .. Len(t) /\ Tail(t)[i] = t[i + 1]
    BY <1>1, <1>3
  <2>2. i + 1 < Len(t) <=> t[i + 1] \in Middlewares
    BY <2>1 DEF ContextOK
  <2> QED
    BY <2>1, <2>2, <1>1, <1>3
<1>9. Len(d.codes) = IF d.todo = << >> THEN 1 ELSE 0
  BY <1>3, <1>6 DEF ContextOK
<1>10. d.todo # << >> /\ ~Awaits(d, "cors") => d.origin \in {"same", "allowed"}
  BY <1>6, <1>7 DEF ContextOK, Middlewares
<1>11. d.todo # << >> /\ ~Awaits(d, "jwt") => d.user # Nobody \/ Ignored(d)
  BY <1>6, <1>7 DEF ContextOK, Middlewares, Ignored
<1>12. ~Awaits(d, "business")
  <2> SUFFICES ASSUME NEW i \in 1 .. Len(Tail(t)), Tail(t)[i] = "business" PROVE FALSE
    BY <1>6 DEF Awaits
  <2>1. i + 1 \in 1 .. Len(t) /\ t[i + 1] = "business"
    BY <1>1, <1>3
  <2> QED
    BY <2>1, <1>2 DEF ContextOK, Awaits
<1> QED
  BY <1>3, <1>5, <1>6, <1>8, <1>9, <1>10, <1>11, <1>12 DEF ContextOK

\* Answering is possible at any time.
LEMMA AnswerOK ==
    ASSUME HttpTypeOK, NEW r \in Requests, ContextOK(req[r]), req[r].todo # << >>,
           NEW c \in Context, NEW code \in Codes, Answer(r, c, code),
           c.codes = req[r].codes
    PROVE  req' \in [Requests -> Context] /\ ContextOK(req'[r])
<1> DEFINE z == Append(c.codes, code)
           d == [c EXCEPT !.todo = << >>, !.codes = z]
<1>1. Len(c.codes) = 0 /\ c.codes \in Seq(Codes)
  BY DEF ContextOK, Context
<1>2. z \in Seq(Codes) /\ Len(z) = 1
  BY <1>1
<1>3. << >> \in Seq(Step)
  OBVIOUS
<1>4. req' = [req EXCEPT ![r] = d]
  BY DEF Answer
<1> HIDE DEF z
<1>5. d \in Context /\ d.todo = << >> /\ d.codes = z
  BY <1>2, <1>3 DEF Context
<1> HIDE DEF d
<1>6. req' \in [Requests -> Context] /\ req'[r] = d
  BY <1>4, <1>5 DEF HttpTypeOK
<1>7. ~Awaits(d, "business")
  BY <1>5 DEF Awaits
<1>8. \A i \in 1 .. Len(d.todo) : i < Len(d.todo) <=> d.todo[i] \in Middlewares
  BY <1>5
<1> QED
  BY <1>2, <1>3, <1>5, <1>6, <1>7, <1>8 DEF ContextOK

LEMMA HeadFacts ==
    ASSUME NEW r \in Requests, ContextOK(req[r]), NEW m, Turn(r, m)
    PROVE  /\ r \in serving /\ req[r].todo # << >> /\ req[r].todo[1] = m
           /\ Len(req[r].todo) \in Nat \ {0}
           /\ req[r].codes = << >>
BY EmptySeq DEF ContextOK, Turn

\* A wrapper or a business function is the last step.
LEMMA LastStep ==
    ASSUME NEW r \in Requests, ContextOK(req[r]), NEW m, Turn(r, m), m \notin Middlewares
    PROVE  /\ Len(req[r].todo) = 1
           /\ req[r].origin \in {"same", "allowed"}
           /\ req[r].user # Nobody \/ Ignored(req[r])
<1>1. /\ req[r].todo # << >> /\ req[r].todo[1] = m /\ Len(req[r].todo) \in Nat \ {0}
  BY HeadFacts
<1>2. Len(req[r].todo) = 1
  <2>1. 1 \in 1 .. Len(req[r].todo)
    BY <1>1
  <2>2. 1 < Len(req[r].todo) <=> req[r].todo[1] \in Middlewares
    BY <2>1 DEF ContextOK
  <2>3. ~(1 < Len(req[r].todo))
    BY <1>1, <2>2, Zenon
  <2>4. \A n \in Nat \ {0} : ~(1 < n) => n = 1
    OBVIOUS
  <2> QED
    BY <1>1, <2>3, <2>4, Zenon
<1>3. ~Awaits(req[r], "cors") /\ ~Awaits(req[r], "jwt")
  BY <1>1, <1>2 DEF Awaits, Middlewares
<1> QED
  BY <1>1, <1>2, <1>3 DEF ContextOK

LEMMA CorsStep ==
    ASSUME HttpIInv, NEW r \in Requests, Cors(r)
    PROVE  req' \in [Requests -> Context] /\ ContextOK(req'[r])
<1>1. r \in serving /\ ContextOK(req[r])
  BY DEF Cors, Turn, HttpIInv
<1>2. HttpTypeOK /\ req[r] \in Context /\ Turn(r, "cors")
  BY DEF HttpIInv, HttpTypeOK, Cors
<1>3. PICK o \in Origins \ {"unread"} :
        LET c == [req[r] EXCEPT !.origin = o, !.headers = (o = "allowed")]
        IN  \/ o = "same" /\ Proceed(r, c)
            \/ o = "foreign" /\ Answer(r, c, 403)
            \/ o = "allowed" /\ ~c.preflight /\ Proceed(r, c)
            \/ o = "allowed" /\ c.preflight /\ Answer(r, c, 204)
  BY Zenon DEF Cors
<1> DEFINE h == (o = "allowed")
           c == [req[r] EXCEPT !.origin = o, !.headers = h]
<1>4. h \in BOOLEAN
  OBVIOUS
<1>5. \/ o \in {"same", "allowed"} /\ Proceed(r, c)
      \/ \E code \in {403, 204} : Answer(r, c, code)
  BY <1>3, Zenon
<1> HIDE DEF h
<1>6. /\ c \in Context /\ c.todo = req[r].todo /\ c.codes = req[r].codes
      /\ c.handler = req[r].handler /\ c.user = req[r].user /\ c.origin = o
  BY <1>2, <1>4 DEF Context
<1> HIDE DEF c
<1>7. CASE o \in {"same", "allowed"} /\ Proceed(r, c)
  BY <1>1, <1>2, <1>6, <1>7, ProceedOK DEF Turn, Middlewares
<1>8. ASSUME NEW code \in {403, 204}, Answer(r, c, code)
      PROVE  req' \in [Requests -> Context] /\ ContextOK(req'[r])
  BY <1>1, <1>2, <1>6, <1>8, AnswerOK DEF Turn, Codes
<1> QED
  BY <1>5, <1>7, <1>8

LEMMA JwtStep ==
    ASSUME HttpIInv, NEW r \in Requests, Jwt(r)
    PROVE  req' \in [Requests -> Context] /\ ContextOK(req'[r])
<1>1. r \in serving /\ ContextOK(req[r])
  BY DEF Jwt, Turn, HttpIInv
<1>2. HttpTypeOK /\ req[r] \in Context /\ Turn(r, "jwt")
  BY DEF HttpIInv, HttpTypeOK, Jwt
<1>3. CASE Ignored(req[r]) /\ Proceed(r, req[r])
  BY <1>1, <1>2, <1>3, ProceedOK DEF Turn, Middlewares
<1>4. CASE Answer(r, req[r], 401)
  BY <1>1, <1>2, <1>4, AnswerOK DEF Turn, Codes
<1>5. ASSUME NEW s \in Sessions, Proceed(r, [req[r] EXCEPT !.user = s])
      PROVE  req' \in [Requests -> Context] /\ ContextOK(req'[r])
  <2> DEFINE c == [req[r] EXCEPT !.user = s]
  <2>1. /\ c \in Context /\ c.todo = req[r].todo /\ c.codes = req[r].codes
        /\ c.handler = req[r].handler /\ c.user = s /\ c.origin = req[r].origin
    BY <1>2 DEF Context
  <2>2. c.user # Nobody /\ Proceed(r, c)
    BY <2>1, <1>5, HttpAssumption
  <2> HIDE DEF c
  <2> QED
    BY <1>1, <1>2, <2>1, <2>2, ProceedOK DEF Turn, Middlewares
<1> QED
  BY <1>3, <1>4, <1>5 DEF Jwt

LEMMA WrapStep ==
    ASSUME HttpIInv, NEW r \in Requests, Wrap(r)
    PROVE  req' \in [Requests -> Context] /\ ContextOK(req'[r])
<1>1. r \in serving /\ ContextOK(req[r])
  BY DEF Wrap, Turn, HttpIInv
<1>2. HttpTypeOK /\ req[r] \in Context /\ Turn(r, "wrapper")
  BY DEF HttpIInv, HttpTypeOK, Wrap
<1>3. CASE \E code \in {400, 401} : Answer(r, req[r], code)
  BY <1>1, <1>2, <1>3, AnswerOK DEF Turn, Codes
<1>4. CASE /\ Wrapper(req[r].handler).user => Extracts(req[r])
           /\ req' = [req EXCEPT ![r] = [req[r] EXCEPT !.todo = <<"business">>]]
  <2> DEFINE d == [req[r] EXCEPT !.todo = <<"business">>]
  <2>1. <<"business">> \in Seq(Step)
    BY DEF Step
  <2>2. /\ d \in Context /\ d.todo = <<"business">> /\ d.codes = req[r].codes
        /\ d.handler = req[r].handler /\ d.user = req[r].user /\ d.origin = req[r].origin
    BY <1>2, <2>1 DEF Context
  <2>3. /\ req[r].origin \in {"same", "allowed"} /\ req[r].codes = << >>
        /\ req[r].user # Nobody \/ Ignored(req[r])
    BY <1>1, <1>2, LastStep, HeadFacts DEF Middlewares
  <2>4. req' \in [Requests -> Context] /\ req'[r] = d
    BY <1>2, <1>4, <2>2 DEF HttpTypeOK
  <2> HIDE DEF d
  <2>5. Len(d.todo) = 1 /\ d.todo[1] = "business" /\ d.todo # << >> /\ Len(d.codes) = 0
    BY <2>2, <2>3
  <2>6. \A i \in 1 .. Len(d.todo) : i < Len(d.todo) <=> d.todo[i] \in Middlewares
    BY <2>5 DEF Middlewares
  <2> QED
    BY <1>4, <2>1, <2>2, <2>3, <2>4, <2>5, <2>6 DEF ContextOK, Ignored, Extracts
<1> QED
  BY <1>3, <1>4 DEF Wrap

LEMMA LastSteps ==
    ASSUME HttpIInv, NEW r \in Requests, NoRoute(r) \/ Business(r) \/ SignOut(r)
    PROVE  req' \in [Requests -> Context] /\ ContextOK(req'[r])
<1>1. r \in serving /\ ContextOK(req[r]) /\ req[r].todo # << >>
  BY DEF NoRoute, Business, SignOut, Turn, HttpIInv
<1>2. HttpTypeOK /\ req[r] \in Context
  BY DEF HttpIInv, HttpTypeOK
<1>3. \A h : \A x \in Results(h) : (IF x = "panic" THEN Recovery ELSE writeRes[x]) \in Codes
  BY DEF Results, Recovery, writeRes, Codes
<1>4. \E code \in Codes : Answer(r, req[r], code)
  <2>1. CASE NoRoute(r) \/ SignOut(r)
    <3>1. Answer(r, req[r], 404) \/ Answer(r, req[r], 401) \/ Answer(r, req[r], 200)
      BY <2>1 DEF NoRoute, SignOut
    <3>2. 404 \in Codes /\ 401 \in Codes /\ 200 \in Codes
      BY DEF Codes
    <3> QED
      BY <3>1, <3>2, Zenon
  <2>2. CASE Business(r)
    <3>1. PICK x \in Results(req[r].handler) :
            Answer(r, req[r], IF x = "panic" THEN Recovery ELSE writeRes[x])
      BY <2>2 DEF Business
    <3> QED
      BY <1>3, <3>1
  <2> QED
    BY <2>1, <2>2
<1> QED
  BY <1>1, <1>2, <1>4, AnswerOK

\* The three steps of a new request.
Steps(x, y, e) == <<x, y>> \o <<e>>

Are(t, x, y, e) ==
    /\ t \in Seq(Step) /\ t # << >> /\ Len(t) = 3
    /\ t[1] = x /\ t[2] = y /\ t[3] = e

LEMMA NewChain ==
    ASSUME NEW x \in Step, NEW y \in Step, NEW e \in Step
    PROVE  Are(Steps(x, y, e), x, y, e)
<1> SUFFICES ASSUME NEW t, t = Steps(x, y, e) PROVE Are(t, x, y, e)
  OBVIOUS
<1> QED
  BY DEF Steps, Are

LEMMA OneToThree ==
    /\ \A i \in 1 .. 3 : (i = 1 \/ i = 2 \/ i = 3) /\ (i < 3 <=> i # 3)
    /\ 1 \in 1 .. 3 /\ 2 \in 1 .. 3 /\ 3 \in 1 .. 3
OBVIOUS

LEMMA ThreeSteps ==
    ASSUME NEW x \in Middlewares, NEW y \in Middlewares, x # y,
           NEW e \in {"wrapper", "no route"}, NEW c, Len(c.todo) = 3,
           c.todo[1] = x, c.todo[2] = y, c.todo[3] = e
    PROVE  /\ \A i \in 1 .. Len(c.todo) : i < Len(c.todo) <=> c.todo[i] \in Middlewares
           /\ Awaits(c, "cors") /\ Awaits(c, "jwt") /\ ~Awaits(c, "business")
<1>1. e \notin Middlewares /\ x # "business" /\ y # "business" /\ e # "business"
  BY DEF Middlewares
<1>2. {x, y} = {"cors", "jwt"}
  BY DEF Middlewares
<1>3. \A i \in 1 .. Len(c.todo) : i < Len(c.todo) <=> c.todo[i] \in Middlewares
  BY <1>1, OneToThree, Zenon
<1>4. Awaits(c, "cors") /\ Awaits(c, "jwt")
  BY <1>2, OneToThree, Zenon DEF Awaits
<1>5. ~Awaits(c, "business")
  BY <1>1, OneToThree, Zenon DEF Awaits
<1> QED
  BY <1>3, <1>4, <1>5

LEMMA ArriveStep ==
    ASSUME HttpIInv, IInv, NEW r \in Requests, Arrive(r)
    PROVE  req' \in [Requests -> Context] /\ ContextOK(req'[r])
<1>1. PICK h \in Handlers, preflight \in BOOLEAN :
        req' = [req EXCEPT ![r] = NewContext(h, preflight, Chain(preflight))]
  BY DEF Arrive
<1>2. listener = "listening" /\ Alive
  BY DEF Arrive, Accept
<1>3. middlewares \in Orders
  BY <1>2 DEF HttpIInv, Chained, IInv, TypeOK, Building, Built, Alive
<1>4. PICK e \in {"wrapper", "no route"} : Chain(preflight) = middlewares \o <<e>>
  BY DEF Chain
<1>5. PICK x, y \in Middlewares : x # y /\ middlewares = <<x, y>>
  BY <1>3 DEF Orders, Middlewares
<1> DEFINE t == Chain(preflight)
           d == NewContext(h, preflight, t)
<1>6. /\ t \in Seq(Step) /\ t # << >> /\ Len(t) = 3
      /\ t[1] = x /\ t[2] = y /\ t[3] = e
  <2>1. t = Steps(x, y, e)
    BY <1>4, <1>5 DEF Steps
  <2>2. x \in Step /\ y \in Step /\ e \in Step
    BY DEF Step, Middlewares
  <2> HIDE DEF t
  <2>3. Are(t, x, y, e)
    BY <2>1, <2>2, NewChain, Zenon
  <2> QED
    BY <2>3 DEF Are
<1>7. /\ d.todo = t /\ d.codes = << >>
      /\ \A i \in 1 .. Len(d.todo) : i < Len(d.todo) <=> d.todo[i] \in Middlewares
      /\ Awaits(d, "cors") /\ Awaits(d, "jwt") /\ ~Awaits(d, "business")
  <2> HIDE DEF t
  <2>1. d.todo = t /\ d.codes = << >>
    BY DEF NewContext
  <2> HIDE DEF d
  <2> QED
    BY <2>1, <1>5, <1>6, ThreeSteps
<1>8. d \in Context
  <2>1. << >> \in Seq(Codes) /\ t \in Seq(Step)
    BY <1>6, EmptySeq
  <2> HIDE DEF t
  <2> QED
    BY <2>1 DEF NewContext, Context, Origins
<1>9. req' \in [Requests -> Context] /\ req'[r] = d
  BY <1>1, <1>8 DEF HttpIInv, HttpTypeOK
<1> HIDE DEF d
<1>10. Len(d.codes) = 0
  BY <1>7, EmptySeq, Zenon
<1> QED
  BY <1>6, <1>7, <1>9, <1>10 DEF ContextOK

LEMMA IdleContext == Idle \in Context
<1>1. "SignIn" \in Handlers
  BY DEF Handlers, AuthRoutes
<1> QED
  BY <1>1 DEF Idle, NewContext, Context, Origins

LEMMA HttpInitInvariant == HttpInit => HttpIInv
BY IdleContext DEF HttpInit, Init, HttpIInv, HttpTypeOK, Chained, Built

LEMMA HttpStepInvariant ==
    ASSUME HttpIInv, IInv, HttpNext \/ UNCHANGED httpVars
    PROVE  HttpIInv'
<1>1. ASSUME UNCHANGED <<engine, req, signOuts>>, serving' \subseteq serving,
             phase' \in {"start", "run", "stop"} => Built
      PROVE  HttpIInv'
  BY <1>1 DEF HttpIInv, HttpTypeOK, Chained, Built, ContextOK, Awaits, Ignored, engine, signOuts
<1>2. CASE UNCHANGED httpVars
  BY <1>1, <1>2 DEF httpVars, vars, Built, engine, signOuts, server
<1>3. CASE OtherConstruct
  BY <1>1, <1>3 DEF OtherConstruct, LoadConfigFails, NewZapLogger, NewRedis, ConstructorFails,
     OpenDB, OpenDBFails, Exit, server, Built
<1>4. CASE Life
  <2>1. phase' \in {"start", "run", "stop"} => Built
    BY <1>4 DEF Life, Start, StartClient, PingFails, StartApp, Started, Starting, Listen,
       ListenFails, Alive, Stop, Signal, Shutdown, ShutdownDone, Stopping, CloseClient,
       Stopped, Timeout, Exit, Built, IInv, Building
  <2>2. serving' = serving
    BY <1>4 DEF Life, Start, StartClient, PingFails, StartApp, Started, Listen,
       ListenFails, Stop, Signal, Shutdown, ShutdownDone, CloseClient,
       Stopped, Timeout, server
  <2> QED
    BY <1>1, <1>4, <2>1, <2>2 DEF Life
<1>5. CASE Configure
  <2>1. serving' = {} /\ UNCHANGED <<req, signOuts>>
        /\ middlewares' \in Orders /\ ignores' \in IgnoreLists
    BY <1>5 DEF Configure, InitApp, server, IInv, Building
  <2> QED
    BY <2>1 DEF HttpIInv, HttpTypeOK, Chained, signOuts
<1>6. ASSUME NEW r \in Requests, Arrive(r) PROVE HttpIInv'
  <2>1. req' \in [Requests -> Context] /\ ContextOK(req'[r])
    BY <1>6, ArriveStep
  <2>2. serving' = serving \cup {r} /\ UNCHANGED <<engine, signOuts>> /\ phase' = phase
        /\ \E c : req' = [req EXCEPT ![r] = c]
    BY <1>6 DEF Arrive, Accept
  <2>3. \A q \in serving' : ContextOK(req'[q])
    BY <2>1, <2>2 DEF HttpIInv, HttpTypeOK
  <2> QED
    BY <2>1, <2>2, <2>3 DEF HttpIInv, HttpTypeOK, Chained, Built, ContextOK, Awaits, Ignored,
       engine, signOuts
<1>7. ASSUME NEW r \in Requests, Handle(r) PROVE HttpIInv'
  <2>1. req' \in [Requests -> Context] /\ ContextOK(req'[r])
    BY <1>7, CorsStep, JwtStep, WrapStep, LastSteps DEF Handle
  <2>2. UNCHANGED <<serving, phase, engine>>
    BY <1>7, HandleKeepsLife DEF vars, server
  <2>3. \E c : req' = [req EXCEPT ![r] = c]
    BY <1>7, HandleMoves
  <2>4. \A q \in serving' : ContextOK(req'[q])
    BY <2>1, <2>2, <2>3 DEF HttpIInv, HttpTypeOK
  <2>5. clearing' \subseteq Goroutine /\ asked' \subseteq Sessions
        /\ UNCHANGED <<sessions, failed>>
    <3>1. CASE SignOut(r) /\ req[r].user # Nobody
      <4>1. req[r].user \in Sessions
        BY <3>1 DEF HttpIInv, HttpTypeOK, Context
      <4>2. /\ clearing' = clearing \cup {[ctx |-> r, sid |-> req[r].user]}
            /\ asked' = asked \cup {req[r].user} /\ UNCHANGED <<sessions, failed>>
        BY <3>1 DEF SignOut
      <4> QED
        BY <4>1, <4>2 DEF HttpIInv, HttpTypeOK, Goroutine
    <3>2. CASE ~(SignOut(r) /\ req[r].user # Nobody)
      <4>1. UNCHANGED signOuts
        BY <1>7, <3>2 DEF Handle, Cors, Jwt, Wrap, NoRoute, Business, SignOut
      <4> QED
        BY <4>1 DEF signOuts, HttpIInv, HttpTypeOK
    <3> QED
      BY <3>1, <3>2
  <2> QED
    BY <2>1, <2>2, <2>4, <2>5 DEF HttpIInv, HttpTypeOK, Chained, Built, ContextOK, Awaits,
       Ignored, engine
<1>8. ASSUME NEW r \in Requests, Return(r) PROVE HttpIInv'
  <2>1. Idle \in Context
    BY IdleContext
  <2>2. /\ serving' = serving \ {r} /\ UNCHANGED <<engine, signOuts>> /\ phase' = phase
        /\ req' = [req EXCEPT ![r] = Idle]
    BY <1>8 DEF Return, Finish
  <2>3. req' \in [Requests -> Context] /\ \A q \in serving' : ContextOK(req'[q])
    BY <2>1, <2>2 DEF HttpIInv, HttpTypeOK
  <2> QED
    BY <2>2, <2>3 DEF HttpIInv, HttpTypeOK, Chained, Built, ContextOK, Awaits, Ignored,
       engine, signOuts
<1>9. ASSUME NEW g \in Goroutine, ClearSession(g) \/ ClearFails(g) PROVE HttpIInv'
  <2>1. /\ UNCHANGED <<vars, engine, req>>
        /\ clearing' \subseteq Goroutine /\ asked' \subseteq Sessions
        /\ sessions' \subseteq Sessions /\ failed' \subseteq Sessions
    BY <1>9 DEF ClearSession, ClearFails, HttpIInv, HttpTypeOK, Goroutine
  <2> QED
    BY <2>1 DEF HttpIInv, HttpTypeOK, Chained, Built, ContextOK, Awaits, Ignored, engine,
       vars, server
<1> QED
  BY <1>2, <1>3, <1>4, <1>5, <1>6, <1>7, <1>8, <1>9 DEF HttpNext

\* The invariant of the requests holds from the first constructor to the end.
THEOREM HttpInvariant == HttpSpec => []HttpIInv
<1>1. IInv /\ HttpIInv /\ [HttpNext]_httpVars => HttpIInv'
  BY HttpStepInvariant
<1> QED
  BY <1>1, HttpInitInvariant, HttpImplementsLifecycle, LifecycleInvariant, PTL DEF HttpSpec

\* Type correctness of contexts, middlewares and sign-outs.
THEOREM HttpTypeCorrect == HttpSpec => []HttpTypeOK
<1>1. HttpIInv => HttpTypeOK
  BY DEF HttpIInv
<1> QED
  BY <1>1, HttpInvariant, PTL

LEMMA BusinessStep ==
    ASSUME NEW r \in Requests, InBusiness(r), ContextOK(req[r])
    PROVE  /\ Len(req[r].todo) = 1 /\ req[r].todo[1] = "business" /\ req[r].todo # << >>
           /\ Awaits(req[r], "business")
           /\ ~Awaits(req[r], "cors") /\ ~Awaits(req[r], "jwt")
<1>1. Len(req[r].todo) = 1 /\ req[r].todo[1] = "business" /\ req[r].todo # << >>
  BY DEF InBusiness
<1> QED
  BY <1>1 DEF Awaits

\* Whatever the order of the middlewares and the paths ignored, a business function
\* runs with a user who has a valid token, or on an ignored path and without needing
\* one (app.go:64-93, jwt.go:35-61, handler_wrapper.go:141-157).
THEOREM AlwaysSignedIn == HttpSpec => []SignedIn
<1>1. HttpIInv => SignedIn
  <2> SUFFICES ASSUME HttpIInv, NEW r \in Requests, InBusiness(r)
               PROVE  \/ req[r].user # Nobody
                      \/ Ignored(req[r]) /\ ~Wrapper(req[r].handler).user
    BY DEF SignedIn
  <2>1. ContextOK(req[r])
    BY DEF HttpIInv, InBusiness
  <2> QED
    BY <2>1, BusinessStep DEF ContextOK
<1> QED
  BY <1>1, HttpInvariant, PTL

\* No business function runs for a page of a foreign origin (middleware.go:29-45).
THEOREM AlwaysForeignRefused == HttpSpec => []ForeignRefused
<1>1. HttpIInv => ForeignRefused
  <2> SUFFICES ASSUME HttpIInv, NEW r \in Requests, InBusiness(r)
               PROVE  req[r].origin \in {"same", "allowed"}
    BY DEF ForeignRefused
  <2>1. ContextOK(req[r])
    BY DEF HttpIInv, InBusiness
  <2> QED
    BY <2>1, BusinessStep DEF ContextOK
<1> QED
  BY <1>1, HttpInvariant, PTL

\* Every request gets one response (handler_wrapper.go:13-174).
THEOREM AlwaysAnsweredOnce == HttpSpec => []AnsweredOnce
<1>1. HttpIInv => AnsweredOnce
  BY DEF HttpIInv, AnsweredOnce, Answered, ContextOK
<1> QED
  BY <1>1, HttpInvariant, PTL

-----------------------------------------------------------------------------
\* What CORS has done for the page of a request, or will still do.
PageOK(c) ==
    /\ c.origin = "allowed" => c.headers
    /\ c.origin = "allowed" /\ c.preflight => c.todo = << >> /\ c.codes = <<204>>
    /\ c.origin = "unread" /\ middlewares[1] = "cors" => c.todo # << >> /\ c.todo[1] = "cors"
    /\ c.origin = "unread" /\ Ignored(c) => c.todo # << >>

PageInv == \A r \in serving : PageOK(req[r])

\* A new request has all the middlewares before it.
LEMMA ArrivePage ==
    ASSUME HttpIInv, IInv, NEW r \in Requests, Arrive(r)
    PROVE  PageOK(req'[r])
<1>1. PICK h \in Handlers, preflight \in BOOLEAN :
        req' = [req EXCEPT ![r] = NewContext(h, preflight, Chain(preflight))]
  BY DEF Arrive
<1>2. listener = "listening" /\ Alive
  BY DEF Arrive, Accept
<1>3. middlewares \in Orders
  BY <1>2 DEF HttpIInv, Chained, IInv, TypeOK, Building, Built, Alive
<1>4. PICK e \in {"wrapper", "no route"} : Chain(preflight) = middlewares \o <<e>>
  BY DEF Chain
<1>5. PICK x, y \in Middlewares : x # y /\ middlewares = <<x, y>>
  BY <1>3 DEF Orders, Middlewares
<1> DEFINE t == Chain(preflight)
           d == NewContext(h, preflight, t)
<1>6. t # << >> /\ t[1] = x
  <2>1. t = Steps(x, y, e)
    BY <1>4, <1>5 DEF Steps
  <2>2. x \in Step /\ y \in Step /\ e \in Step
    BY DEF Step, Middlewares
  <2> HIDE DEF t
  <2>3. Are(t, x, y, e)
    BY <2>1, <2>2, NewChain, Zenon
  <2> QED
    BY <2>3 DEF Are
<1>7. middlewares[1] = x
  BY <1>5
<1> HIDE DEF t
<1>8. d.todo = t /\ d.origin = "unread"
  BY DEF NewContext
<1>9. req' = [req EXCEPT ![r] = d] /\ DOMAIN req = Requests
  BY <1>1 DEF HttpIInv, HttpTypeOK, t
<1> HIDE DEF d
<1>10. req'[r] = d
  BY <1>9
<1> QED
  BY <1>6, <1>7, <1>8, <1>10 DEF PageOK

\* CORS answers the preflight of an allowed page, and lets it read what comes.
LEMMA CorsPage ==
    ASSUME HttpIInv, NEW r \in Requests, Cors(r)
    PROVE  PageOK(req'[r])
<1>1. ContextOK(req[r]) /\ Turn(r, "cors") /\ req[r] \in Context /\ req \in [Requests -> Context]
  BY DEF Cors, Turn, HttpIInv, HttpTypeOK
<1>2. PICK o \in Origins \ {"unread"} :
        LET c == [req[r] EXCEPT !.origin = o, !.headers = (o = "allowed")]
        IN  \/ o = "same" /\ Proceed(r, c)
            \/ o = "foreign" /\ Answer(r, c, 403)
            \/ o = "allowed" /\ ~c.preflight /\ Proceed(r, c)
            \/ o = "allowed" /\ c.preflight /\ Answer(r, c, 204)
  BY Zenon DEF Cors
<1> DEFINE h == (o = "allowed")
           c == [req[r] EXCEPT !.origin = o, !.headers = h]
<1>3. \/ ~(o = "allowed" /\ c.preflight)
         /\ (Proceed(r, c) \/ Answer(r, c, 403))
      \/ Answer(r, c, 204)
  BY <1>2, Zenon
<1>4. (o = "allowed" => h) /\ h \in BOOLEAN /\ o # "unread"
  OBVIOUS
<1> HIDE DEF h
<1>5. /\ c \in Context /\ c.origin = o /\ c.headers = h /\ c.preflight = req[r].preflight
      /\ c.codes = << >>
  BY <1>1, <1>4, HeadFacts DEF Context
<1> HIDE DEF c
<1>6. CASE ~(o = "allowed" /\ c.preflight) /\ (Proceed(r, c) \/ Answer(r, c, 403))
  <2>1. PICK t, z : req' = [req EXCEPT ![r] = [c EXCEPT !.todo = t, !.codes = z]]
    <3>1. CASE Answer(r, c, 403)
      BY <3>1 DEF Answer
    <3>2. CASE Proceed(r, c)
      <4>1. [c EXCEPT !.todo = Tail(c.todo)]
                = [c EXCEPT !.todo = Tail(c.todo), !.codes = c.codes]
        BY <1>5 DEF Context
      <4> QED
        BY <3>2, <4>1 DEF Proceed
    <3> QED
      BY <1>6, <3>1, <3>2
  <2>2. req'[r].origin = o /\ req'[r].headers = h /\ req'[r].preflight = c.preflight
    BY <1>1, <1>5, <2>1 DEF Context
  <2> QED
    BY <1>4, <1>6, <2>2 DEF PageOK
<1>7. CASE Answer(r, c, 204)
  <2> DEFINE z == Append(c.codes, 204)
  <2>1. z = <<204>>
    BY <1>5
  <2>2. req' = [req EXCEPT ![r] = [c EXCEPT !.todo = << >>, !.codes = z]]
    BY <1>7 DEF Answer
  <2> HIDE DEF z
  <2>3. /\ req'[r].origin = o /\ req'[r].headers = h
        /\ req'[r].todo = << >> /\ req'[r].codes = z
    BY <1>1, <1>5, <2>2 DEF Context
  <2> QED
    BY <1>4, <2>1, <2>3 DEF PageOK
<1> QED
  BY <1>3, <1>6, <1>7

\* The others leave the page alone, and none ends a request that CORS must see.
LEMMA OtherPage ==
    ASSUME HttpIInv, NEW r \in Requests, PageOK(req[r]),
           Jwt(r) \/ Wrap(r) \/ NoRoute(r) \/ Business(r) \/ SignOut(r)
    PROVE  PageOK(req'[r])
<1>1. /\ ContextOK(req[r]) /\ req[r] \in Context /\ req \in [Requests -> Context]
      /\ req[r].todo # << >>
  BY DEF Jwt, Wrap, NoRoute, Business, SignOut, Turn, HttpIInv, HttpTypeOK
<1>2. /\ req'[r].origin = req[r].origin /\ req'[r].headers = req[r].headers
      /\ req'[r].preflight = req[r].preflight /\ req'[r].handler = req[r].handler
      /\ ignores' = ignores /\ middlewares' = middlewares
  <2>1. \/ \E s \in Sessions : Proceed(r, [req[r] EXCEPT !.user = s])
        \/ Proceed(r, req[r])
        \/ \E code : Answer(r, req[r], code)
        \/ req' = [req EXCEPT ![r] = [req[r] EXCEPT !.todo = <<"business">>]]
    BY Zenon DEF Jwt, Wrap, NoRoute, Business, SignOut
  <2>2. ignores' = ignores /\ middlewares' = middlewares
    BY DEF Jwt, Wrap, NoRoute, Business, SignOut, engine
  <2> QED
    BY <1>1, <2>1, <2>2 DEF Proceed, Answer, Context
<1>3. ~(req[r].origin = "allowed" /\ req[r].preflight)
  BY <1>1 DEF PageOK
<1>4. CASE Wrap(r) \/ NoRoute(r) \/ Business(r) \/ SignOut(r)
  <2>1. \E m \in {"wrapper", "no route", "business"} : Turn(r, m)
    BY <1>4 DEF Wrap, NoRoute, Business, SignOut
  <2>2. req[r].origin # "unread"
    BY <1>1, <2>1, LastStep DEF Middlewares
  <2> QED
    BY <1>2, <1>3, <2>2 DEF PageOK
<1>5. CASE Jwt(r)
  <2>1. Turn(r, "jwt") /\ req[r].todo[1] = "jwt" /\ req[r].codes = << >>
    BY <1>1, <1>5, HeadFacts DEF Jwt
  <2>2. ~(req[r].origin = "unread" /\ middlewares[1] = "cors")
    BY <2>1 DEF PageOK
  <2>3. ASSUME Ignored(req[r]) PROVE req'[r].todo # << >>
    <3>1. Proceed(r, req[r])
      BY <1>5, <2>3 DEF Jwt
    <3>2. req'[r].codes = req[r].codes
      BY <1>1, <3>1 DEF Proceed, Context
    <3>3. ContextOK(req'[r])
      BY <1>5, JwtStep
    <3>4. Len(req'[r].codes) = 0
      BY <2>1, <3>2, EmptySeq, Zenon
    <3> QED
      BY <3>3, <3>4 DEF ContextOK
  <2> QED
    BY <1>2, <1>3, <2>2, <2>3 DEF PageOK, Ignored
<1> QED
  BY <1>4, <1>5

\* The engine changes only while it is built, when nobody is served.
LEMMA PageStep ==
    ASSUME HttpIInv, IInv, PageInv, HttpNext \/ UNCHANGED httpVars
    PROVE  PageInv'
<1>1. ASSUME UNCHANGED <<engine, req>>, serving' \subseteq serving
      PROVE  PageInv'
  BY <1>1 DEF PageInv, PageOK, Ignored, engine
<1>2. CASE UNCHANGED httpVars
  BY <1>1, <1>2 DEF httpVars, vars, server
<1>3. CASE OtherConstruct
  BY <1>1, <1>3 DEF OtherConstruct, LoadConfigFails, NewZapLogger, NewRedis, ConstructorFails,
     OpenDB, OpenDBFails, Exit, server
<1>4. CASE Life
  <2>1. serving' = serving
    BY <1>4 DEF Life, Start, StartClient, PingFails, StartApp, Started, Listen,
       ListenFails, Stop, Signal, Shutdown, ShutdownDone, CloseClient,
       Stopped, Timeout, server
  <2> QED
    BY <1>1, <1>4, <2>1 DEF Life
<1>5. CASE Configure
  <2>1. serving' = {}
    BY <1>5 DEF Configure, InitApp, server, IInv, Building
  <2> QED
    BY <2>1 DEF PageInv
<1>6. ASSUME NEW r \in Requests, Arrive(r) \/ Handle(r), PageOK(req'[r])
      PROVE  PageInv'
  <2>1. serving' \subseteq serving \cup {r} /\ UNCHANGED engine
        /\ \E c : req' = [req EXCEPT ![r] = c]
    <3>1. CASE Arrive(r)
      BY <3>1 DEF Arrive, Accept
    <3>2. CASE Handle(r)
      <4>1. UNCHANGED <<serving, engine>>
        BY <3>2, HandleKeepsLife DEF vars, server
      <4>2. \E c : req' = [req EXCEPT ![r] = c]
        BY <3>2, HandleMoves
      <4> QED
        BY <4>1, <4>2
    <3> QED
      BY <1>6, <3>1, <3>2
  <2>2. \A q \in serving' : PageOK(req'[q])
    BY <1>6, <2>1 DEF PageInv, HttpIInv, HttpTypeOK
  <2> QED
    BY <2>1, <2>2 DEF PageInv, PageOK, Ignored, engine
<1>7. ASSUME NEW r \in Requests, Arrive(r) PROVE PageInv'
  BY <1>6, <1>7, ArrivePage
<1>8. ASSUME NEW r \in Requests, Handle(r) PROVE PageInv'
  <2>1. r \in serving
    BY <1>8 DEF Handle, Cors, Jwt, Wrap, NoRoute, Business, SignOut, Turn
  <2>2. PageOK(req[r])
    BY <2>1 DEF PageInv
  <2>3. PageOK(req'[r])
    BY <1>8, <2>2, CorsPage, OtherPage DEF Handle
  <2> QED
    BY <1>6, <1>8, <2>3
<1>9. ASSUME NEW r \in Requests, Return(r) PROVE PageInv'
  <2>1. /\ serving' = serving \ {r} /\ UNCHANGED engine
        /\ req' = [req EXCEPT ![r] = Idle]
    BY <1>9 DEF Return, Finish
  <2>2. \A q \in serving' : PageOK(req'[q])
    BY <2>1 DEF PageInv
  <2> QED
    BY <2>1, <2>2 DEF PageInv, PageOK, Ignored, engine
<1>10. ASSUME NEW g \in Goroutine, ClearSession(g) \/ ClearFails(g) PROVE PageInv'
  BY <1>1, <1>10 DEF ClearSession, ClearFails, vars, server
<1> QED
  BY <1>2, <1>3, <1>4, <1>5, <1>7, <1>8, <1>9, <1>10 DEF HttpNext

\* Where CORS comes before the token check, or the path is ignored, CORS sees every
\* request before it is answered, and serves allowed pages (cors.go:42-52).
THEOREM AlwaysAllowedPageServed == HttpSpec => []AllowedPageServed
<1>1. HttpInit => PageInv
  BY DEF HttpInit, Init, PageInv
<1>2. HttpIInv /\ IInv /\ PageInv /\ [HttpNext]_httpVars => PageInv'
  BY PageStep
<1>3. PageInv => AllowedPageServed
  BY DEF PageInv, PageOK, AllowedPageServed, Answered
<1> QED
  BY <1>1, <1>2, <1>3, HttpInvariant, HttpImplementsLifecycle, LifecycleInvariant, PTL
     DEF HttpSpec
=============================================================================
