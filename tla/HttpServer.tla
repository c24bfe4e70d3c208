---------------------------- MODULE HttpServer ----------------------------
(***************************************************************************)
(* What happens to a request between Accept and Finish of Lifecycle: the   *)
(* middlewares, the wrapper of its handler, the business function, the     *)
(* answer; and the goroutine that a sign-out leaves behind.                *)
(*                                                                         *)
(* A member of Requests is a gin.Context of the engine's pool: one request *)
(* after another uses it.  What a request carries (its origin, its token,  *)
(* whether its body can be read) is chosen when the code reads it.         *)
(***************************************************************************)
EXTENDS Lifecycle

CONSTANTS
    Sessions,       \* sessions that valid access tokens name
    Nobody,         \* no user in the context
    IgnoreLists     \* values that hermet.ignores may have

\* The wrappers of business functions: whether they read an input (the body, the
\* query, the path) and whether they want a user.
Reads(input, user) == [input |-> input, user |-> user]
Wrappers ==
    [W |-> Reads(FALSE, FALSE), U |-> Reads(FALSE, TRUE), B |-> Reads(TRUE, FALSE),
     Q |-> Reads(TRUE, FALSE), P |-> Reads(TRUE, FALSE), WU |-> Reads(FALSE, TRUE),
     BU |-> Reads(TRUE, TRUE), QU |-> Reads(TRUE, TRUE), PU |-> Reads(TRUE, TRUE)]

\* Register of the three handlers: the wrapper of each business function.
AuthRoutes == [SignIn |-> "B", RefreshToken |-> "B", SignOut |-> "W"]
ContactRoutes == [ApplyContact |-> "BU", ReviewApplication |-> "BU", GetApplications |-> "U"]
AdminRoutes == [AddUser |-> "B"]
Handlers == DOMAIN AuthRoutes \cup DOMAIN ContactRoutes \cup DOMAIN AdminRoutes
Wrapper(h) ==
    CASE h \in DOMAIN AuthRoutes -> Wrappers[AuthRoutes[h]]
      [] h \in DOMAIN ContactRoutes -> Wrappers[ContactRoutes[h]]
      [] h \in DOMAIN AdminRoutes -> Wrappers[AdminRoutes[h]]

ASSUME HttpAssumption ==
    /\ Nobody \notin Sessions
    /\ \A list \in IgnoreLists : list \subseteq Handlers

\* newCorsBuilder allows an origin when its host name is configured.  A request
\* without origin, or with the server's own, is no business of CORS.
Origins == {"unread", "same", "allowed", "foreign"}

\* fx does not say in which order a value group comes.
Orders == {<<"cors", "jwt">>, <<"jwt", "cors">>}

\* What a business function ends with, and the status writeRes makes of it.
\* ErrUnauthorized comes from CheckSession only.
Results(h) ==
    CASE h = "ReviewApplication" -> {"panic"}
      [] h = "RefreshToken" -> {"ok", "error", "unauthorized"}
      [] OTHER -> {"ok", "error"}
writeRes == [ok |-> 200, error |-> 500, unauthorized |-> 401]
Recovery == 500
Codes == {200, 204, 400, 401, 403, 404, 500}

VARIABLES
    middlewares,    \* of the engine, in order
    ignores,        \* paths JwtBuilder lets through, by their handlers
    req,            \* the contexts
    sessions,       \* sessions that have not been cleared
    clearing,       \* goroutines of sign-outs: their context and their session
    asked,          \* history: sessions whose sign-out was answered
    failed          \* history: sessions Redis failed to clear

engine == <<middlewares, ignores>>
signOuts == <<sessions, clearing, asked, failed>>
httpVars == <<vars, engine, req, signOuts>>

Step == {"cors", "jwt", "no route", "wrapper", "business"}
Goroutine == [ctx : Requests, sid : Sessions]
Context ==
    [todo : Seq(Step), handler : Handlers, preflight : BOOLEAN, origin : Origins,
     headers : BOOLEAN, user : Sessions \cup {Nobody}, codes : Seq(Codes)]

\* gin combines the handlers when a route is registered, and InitApp calls Use
\* before.  No route has the method OPTIONS.  (Mutant: Register before Use.)
Chain_RoutesFirst(preflight) ==
    IF preflight THEN middlewares \o <<"no route">> ELSE <<"wrapper">>
Chain(preflight) ==
    middlewares \o IF preflight THEN <<"no route">> ELSE <<"wrapper">>

NewContext(h, preflight, todo) ==
    [todo |-> todo, handler |-> h, preflight |-> preflight, origin |-> "unread",
     headers |-> FALSE, user |-> Nobody, codes |-> << >>]
Idle == NewContext("SignIn", FALSE, << >>)

HttpInit ==
    /\ Init
    /\ middlewares = << >> /\ ignores = {}
    /\ req = [r \in Requests |-> Idle]
    /\ sessions = Sessions
    /\ clearing = {} /\ asked = {} /\ failed = {}

-----------------------------------------------------------------------------
\* The rest of Lifecycle.  InitApp builds the middlewares.

Configure ==
    /\ InitApp
    /\ middlewares' \in Orders /\ ignores' \in IgnoreLists
    /\ UNCHANGED <<req, signOuts>>

OtherConstruct ==
    /\ \/ LoadConfigFails \/ NewZapLogger \/ NewRedis \/ ConstructorFails
       \/ \E d \in Databases : OpenDB(d) \/ OpenDBFails(d)
    /\ UNCHANGED <<engine, req, signOuts>>

Life ==
    /\ Start \/ Listen \/ ListenFails \/ Stop \/ Timeout
    /\ UNCHANGED <<engine, req, signOuts>>

-----------------------------------------------------------------------------
\* A request.

\* ServeHTTP takes a context from the pool and resets it.
Arrive(r) ==
    /\ r \notin serving /\ Accept(r)
    /\ \E h \in Handlers, preflight \in BOOLEAN :
          req' = [req EXCEPT ![r] = NewContext(h, preflight, Chain(preflight))]
    /\ UNCHANGED <<engine, signOuts>>

Turn(r, step) ==
    /\ Alive /\ r \in serving
    /\ req[r].todo # << >> /\ Head(req[r].todo) = step

\* The context becomes c, and the next step is taken.
Proceed(r, c) == req' = [req EXCEPT ![r] = [c EXCEPT !.todo = Tail(@)]]

\* The response gets its status, and nothing else is called.
Answer(r, c, code) ==
    req' = [req EXCEPT ![r] = [c EXCEPT !.todo = << >>, !.codes = Append(@, code)]]

\* CorsBuilder.Build, with what gin-contrib/cors does.  (Mutants: a foreign
\* origin just gets no headers; a preflight goes on to its route.)
Cors_HeadersOnly(r) ==
    /\ Turn(r, "cors")
    /\ \E o \in Origins \ {"unread"} :
          LET c == [req[r] EXCEPT !.origin = o, !.headers = (o = "allowed")]
          IN  \/ ~(o = "allowed" /\ c.preflight) /\ Proceed(r, c)
              \/ o = "allowed" /\ c.preflight /\ Answer(r, c, 204)
    /\ UNCHANGED <<vars, engine, signOuts>>
Cors_PreflightGoesOn(r) ==
    /\ Turn(r, "cors")
    /\ \E o \in Origins \ {"unread"} :
          LET c == [req[r] EXCEPT !.origin = o, !.headers = (o = "allowed")]
          IN  \/ o # "foreign" /\ Proceed(r, c)
              \/ o = "foreign" /\ Answer(r, c, 403)
    /\ UNCHANGED <<vars, engine, signOuts>>
Cors(r) ==
    /\ Turn(r, "cors")
    /\ \E o \in Origins \ {"unread"} :
          LET c == [req[r] EXCEPT !.origin = o, !.headers = (o = "allowed")]
          IN  \/ o = "same" /\ Proceed(r, c)
              \/ o = "foreign" /\ Answer(r, c, 403)
              \/ o = "allowed" /\ ~c.preflight /\ Proceed(r, c)
              \/ o = "allowed" /\ c.preflight /\ Answer(r, c, 204)
    /\ UNCHANGED <<vars, engine, signOuts>>

\* newJwtBuilder: the paths of hermet.ignores.
Ignored(c) == c.handler \in ignores

\* JwtBuilder.Build: the path is ignored, or the token is missing or bad, or it
\* names a session, ended or not.
Jwt(r) ==
    /\ Turn(r, "jwt")
    /\ \/ Ignored(req[r]) /\ Proceed(r, req[r])
       \/ /\ ~Ignored(req[r])
          /\ \/ Answer(r, req[r], 401)
             \/ \E s \in Sessions : Proceed(r, [req[r] EXCEPT !.user = s])
    /\ UNCHANGED <<vars, engine, signOuts>>

\* extractAuthUser
Extracts(c) == c.user # Nobody

\* The wrapper reads the input, then the user, and stops when it cannot.
\* (Mutant: an input that cannot be read is reported, and the handler called.)
Wrap_GoesOn(r) ==
    /\ Turn(r, "wrapper")
    /\ LET c == req[r]  w == Wrapper(c.handler)
       IN  \/ w.input /\ req' = [req EXCEPT ![r] =
                            [c EXCEPT !.todo = <<"business">>, !.codes = <<400>>]]
           \/ w.user /\ ~Extracts(c) /\ Answer(r, c, 401)
           \/ (w.user => Extracts(c))
              /\ req' = [req EXCEPT ![r] = [c EXCEPT !.todo = <<"business">>]]
    /\ UNCHANGED <<vars, engine, signOuts>>
Wrap(r) ==
    /\ Turn(r, "wrapper")
    /\ LET c == req[r]  w == Wrapper(c.handler)
       IN  \/ w.input /\ Answer(r, c, 400)
           \/ w.user /\ ~Extracts(c) /\ Answer(r, c, 401)
           \/ (w.user => Extracts(c))
              /\ req' = [req EXCEPT ![r] = [c EXCEPT !.todo = <<"business">>]]
    /\ UNCHANGED <<vars, engine, signOuts>>

NoRoute(r) ==
    /\ Turn(r, "no route")
    /\ Answer(r, req[r], 404)
    /\ UNCHANGED <<vars, engine, signOuts>>

\* A business function, except SignOut, and writeRes or gin.Recovery.
Business(r) ==
    /\ Turn(r, "business") /\ req[r].handler # "SignOut"
    /\ \E result \in Results(req[r].handler) :
          Answer(r, req[r], IF result = "panic" THEN Recovery ELSE writeRes[result])
    /\ UNCHANGED <<vars, engine, signOuts>>

\* The session is read from the context before the goroutine starts.
SignOut(r) ==
    /\ Turn(r, "business") /\ req[r].handler = "SignOut"
    /\ \/ /\ req[r].user = Nobody
          /\ Answer(r, req[r], 401)
          /\ UNCHANGED signOuts
       \/ /\ req[r].user # Nobody
          /\ Answer(r, req[r], 200)
          /\ clearing' = clearing \cup {[ctx |-> r, sid |-> req[r].user]}
          /\ asked' = asked \cup {req[r].user}
          /\ UNCHANGED <<sessions, failed>>
    /\ UNCHANGED <<vars, engine>>

\* ServeHTTP returns, and the context may be used again.
Return(r) ==
    /\ req[r].todo = << >> /\ Finish(r)
    /\ req' = [req EXCEPT ![r] = Idle]
    /\ UNCHANGED <<engine, signOuts>>

-----------------------------------------------------------------------------
\* The goroutine, which Shutdown does not wait for: it may find Redis closed.

\* (Mutants: it asks the context who signs out; it uses the request's context,
\* which ends with the request.)
ClearSession_AsksContext(g) ==
    /\ Alive /\ g \in clearing /\ Redis \in open
    /\ clearing' = clearing \ {g}
    /\ sessions' = sessions \ {req[g.ctx].user}
    /\ UNCHANGED <<vars, engine, req, asked, failed>>
ClearSession_RequestContext(g) ==
    /\ Alive /\ g \in clearing /\ Redis \in open
    /\ clearing' = clearing \ {g}
    /\ sessions' = IF g.ctx \in serving THEN sessions \ {g.sid} ELSE sessions
    /\ UNCHANGED <<vars, engine, req, asked, failed>>
ClearSession(g) ==
    /\ Alive /\ g \in clearing /\ Redis \in open
    /\ clearing' = clearing \ {g}
    /\ sessions' = sessions \ {g.sid}
    /\ UNCHANGED <<vars, engine, req, asked, failed>>

\* Redis fails, is closed, or does not answer in a second.
ClearFails(g) ==
    /\ Alive /\ g \in clearing
    /\ clearing' = clearing \ {g}
    /\ failed' = failed \cup {g.sid}
    /\ UNCHANGED <<vars, engine, req, sessions, asked>>

-----------------------------------------------------------------------------
Handle(r) ==
    Cors(r) \/ Jwt(r) \/ Wrap(r) \/ NoRoute(r) \/ Business(r) \/ SignOut(r)

HttpNext ==
    \/ Configure \/ OtherConstruct \/ Life
    \/ \E r \in Requests : Arrive(r) \/ Handle(r) \/ Return(r)
    \/ \E g \in Goroutine : ClearSession(g) \/ ClearFails(g)

\* A goroutine goes on: it has its second.
Fairness ==
    \A g \in Goroutine : WF_httpVars(ClearSession(g) \/ ClearFails(g))

HttpSpec == HttpInit /\ [][HttpNext]_httpVars /\ Fairness

-----------------------------------------------------------------------------
\* Type correctness of what this module adds.
HttpTypeOK ==
    /\ middlewares \in {<< >>} \cup Orders
    /\ ignores \in {{}} \cup IgnoreLists
    /\ req \in [Requests -> Context]
    /\ sessions \subseteq Sessions
    /\ clearing \subseteq Goroutine
    /\ asked \subseteq Sessions /\ failed \subseteq Sessions

InBusiness(r) == r \in serving /\ req[r].todo = <<"business">>
Answered(r) == r \in serving /\ req[r].todo = << >>

\* In whichever order fx hands over the middlewares, a business function outside
\* hermet.ignores runs only with the user of a valid access token, and one that
\* takes a user never runs without (app.go:64-93, jwt.go:35-61,
\* handler_wrapper.go:141-157).
SignedIn ==
    \A r \in Requests : InBusiness(r) =>
        \/ req[r].user # Nobody
        \/ Ignored(req[r]) /\ ~Wrapper(req[r].handler).user

\* No business function runs for a page of a foreign origin, in whichever order
\* the middlewares come (middleware.go:29-45).
ForeignRefused == \A r \in Requests : InBusiness(r) => req[r].origin \in {"same", "allowed"}

\* A request gets one response: no path through middlewares, wrapper, business
\* function and gin.Recovery writes none or two (handler_wrapper.go:13-174).
AnsweredOnce ==
    \A r \in serving : Len(req[r].codes) = IF Answered(r) THEN 1 ELSE 0

\* Where CORS comes before the token check, or the path is ignored, no request is
\* answered before CORS has seen where it comes from; an allowed page gets its
\* preflight answered, and can read every response (cors.go:42-52, jwt.go:36-45).
AllowedPageServed ==
    \A r \in Requests :
        Answered(r) /\ (middlewares[1] = "cors" \/ Ignored(req[r])) =>
            /\ req[r].origin # "unread"
            /\ req[r].origin = "allowed" =>
                   req[r].headers /\ (req[r].preflight => req[r].codes = <<204>>)

\* A session is ended by a sign-out of its own user only, although the goroutine
\* runs when its context may serve somebody else (auth_handler.go:115-145).
EndedByOwner == Sessions \ sessions \subseteq asked

\* Who was told "signed out" is, unless Redis fails or the process ends first
\* (auth_handler.go:132-140).
SignOutEnds ==
    \A s \in Sessions : s \in asked ~> s \notin sessions \/ s \in failed \/ ~Alive
=============================================================================
