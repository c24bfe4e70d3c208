------------------------------- MODULE Session -------------------------------
(***************************************************************************)
(* Sign-in sessions: AuthHandler over DefaultAuthService, the Redis keys of *)
(* RedisSessionHandler and the JWT middleware.                             *)
(*                                                                         *)
(* A session is a Redis key with a time to live; tokens are signed and     *)
(* kept by the clients, so the server cannot take one back.  Every request *)
(* is a goroutine and every call of Redis a step of its own; sign-out      *)
(* leaves its DEL to a goroutine that outlives the request.  Times are     *)
(* what is left of a life, in ticks, so a run needs no horizon.            *)
(***************************************************************************)
EXTENDS Integers, Functions

CONSTANTS
    SIDs,           \* session identifiers, uuid.NewString()
    Users,          \* user identifiers
    Requests,       \* goroutines that serve sign-in and refresh requests
    SessionLife,    \* hermet.session.expiration, 12 h
    AccessLife,     \* jwt.access.expiration, 1 h
    RefreshLife     \* jwt.refresh.expiration, 168 h

ASSUME SessionAssumption ==
    /\ SessionLife \in Nat \ {0}
    /\ AccessLife \in Nat \ {0}
    /\ RefreshLife \in Nat \ {0}

VARIABLES
    session,        \* the keys of Redis: sid |-> [uid, left]
    tokens,         \* the tokens in the hands of clients that have not expired
    request,        \* what each goroutine is in: [step, sid, uid, late]
    clearing,       \* sessions a goroutine of SignOut is about to clear
    used,           \* session identifiers drawn by sign-ins
    ended           \* sessions that were in Redis once and left it (history)

vars == <<session, tokens, request, clearing, used, ended>>

Kinds == {"access", "refresh"}
Longest == IF AccessLife > RefreshLife THEN AccessLife ELSE RefreshLife

Sessions == [uid : Users, left : 1 .. SessionLife]
Tokens == [kind : Kinds, sid : SIDs, uid : Users, left : 1 .. Longest]
Steps == {"create", "check", "expire", "generate"}

\* "late": a refresh that began when the session had ended.
Idle == [step |-> "idle"]
Busy == [step : Steps, sid : SIDs, uid : Users, late : BOOLEAN]

Init ==
    /\ session = << >>
    /\ tokens = {}
    /\ request = [r \in Requests |-> Idle]
    /\ clearing = {}
    /\ used = {}
    /\ ended = {}

-----------------------------------------------------------------------------
(* The four commands of RedisSessionHandler, as what they do to the keys.  *)

Set(sid, uid) ==
    [s \in DOMAIN session \cup {sid} |->
        IF s = sid THEN [uid |-> uid, left |-> SessionLife] ELSE session[s]]

\* Mutant: a key that is missing is taken for one that matches.
Passes_Missing(sid, uid) == sid \in DOMAIN session => session[sid].uid = uid
Passes(sid, uid) == sid \in DOMAIN session /\ session[sid].uid = uid

\* Mutant: SET instead of EXPIRE.
Expire_ByWriting(sid) == Set(sid, CHOOSE u \in Users : TRUE)

\* EXPIRE does nothing when the key is gone.
Expire(sid) ==
    IF sid \in DOMAIN session THEN Set(sid, session[sid].uid) ELSE session

Del(sid) == Restrict(session, DOMAIN session \ {sid})

\* JwtBuilder.Build lets every access token in that has not expired, without a
\* look at its session; VerifyRefreshToken accepts one that has not expired.
Admits(t) == t.kind = "access"
Verifies(t) == t.kind = "refresh"

\* A step of a goroutine: r goes on with the given step, or ends.
Proceed(r, step) == request' = [request EXCEPT ![r].step = step]
End(r) == request' = [request EXCEPT ![r] = Idle]

-----------------------------------------------------------------------------
\* signInByEmail has found the user and compared the password; it draws an
\* identifier nobody has.
SignIn(r) ==
    /\ request[r] = Idle
    /\ \E sid \in SIDs \ used, uid \in Users :
        /\ used' = used \cup {sid}
        /\ request' = [request EXCEPT ![r] =
                [step |-> "create", sid |-> sid, uid |-> uid, late |-> FALSE]]
    /\ UNCHANGED <<session, tokens, clearing, ended>>

\* Mutant: an error of CreateSession is only logged, as one of RefreshSession is.
CreateSession_Logged(r) ==
    /\ request[r].step = "create"
    /\ session' \in {session, Set(request[r].sid, request[r].uid)}
    /\ Proceed(r, "generate")
    /\ UNCHANGED <<tokens, clearing, used, ended>>

\* CreateSession; when Redis reports an error the key may be there or not.
CreateSession(r) ==
    /\ request[r].step = "create"
    /\ \/ /\ session' = Set(request[r].sid, request[r].uid)
          /\ Proceed(r, "generate")
       \/ /\ session' \in {session, Set(request[r].sid, request[r].uid)}
          /\ End(r)
    /\ UNCHANGED <<tokens, clearing, used, ended>>

\* GenerateToken and the response; or signing fails.
GenerateToken(r) ==
    /\ request[r].step = "generate"
    /\ \/ tokens' = tokens \cup
            {[kind |-> "access", sid |-> request[r].sid,
              uid |-> request[r].uid, left |-> AccessLife],
             [kind |-> "refresh", sid |-> request[r].sid,
              uid |-> request[r].uid, left |-> RefreshLife]}
       \/ UNCHANGED tokens
    /\ End(r)
    /\ UNCHANGED <<session, clearing, used, ended>>

\* A refresh begins: VerifyRefreshToken.
RefreshToken(r) ==
    /\ request[r] = Idle
    /\ \E t \in tokens :
        /\ Verifies(t)
        /\ request' = [request EXCEPT ![r] =
                [step |-> "check", sid |-> t.sid, uid |-> t.uid,
                 late |-> t.sid \in ended]]
    /\ UNCHANGED <<session, tokens, clearing, used, ended>>

\* CheckSession; Redis may also report an error.
CheckSession(r) ==
    /\ request[r].step = "check"
    /\ \/ /\ Passes(request[r].sid, request[r].uid)
          /\ Proceed(r, "expire")
       \/ End(r)
    /\ UNCHANGED <<session, tokens, clearing, used, ended>>

\* RefreshSession; an error is logged and the request goes on.
RefreshSession(r) ==
    /\ request[r].step = "expire"
    /\ session' \in {session, Expire(request[r].sid)}
    /\ Proceed(r, "generate")
    /\ UNCHANGED <<tokens, clearing, used, ended>>

\* The request is answered before the session is gone.
SignOut ==
    /\ \E t \in tokens :
        /\ Admits(t)
        /\ clearing' = clearing \cup {t.sid}
    /\ UNCHANGED <<session, tokens, request, used, ended>>

\* The goroutine of SignOut: DEL, with its answer or without.
ClearSession(sid) ==
    /\ sid \in clearing
    /\ clearing' = clearing \ {sid}
    /\ session' = Del(sid)
    /\ ended' = ended \cup (DOMAIN session \ DOMAIN session')
    /\ UNCHANGED <<tokens, request, used>>

\* Redis cannot be reached within the second ClearSession has; only logged.
ClearFails(sid) ==
    /\ sid \in clearing
    /\ clearing' = clearing \ {sid}
    /\ UNCHANGED <<session, tokens, request, used, ended>>

\* The server ends: requests and goroutines are lost, keys and tokens stay.
Crash ==
    /\ request' = [r \in Requests |-> Idle]
    /\ clearing' = {}
    /\ UNCHANGED <<session, tokens, used, ended>>

\* Time passes: keys and tokens expire.
Tick ==
    /\ session' = [s \in {s \in DOMAIN session : session[s].left > 1} |->
                        [session[s] EXCEPT !.left = @ - 1]]
    /\ tokens' = {[t EXCEPT !.left = @ - 1] : t \in {t \in tokens : t.left > 1}}
    /\ ended' = ended \cup (DOMAIN session \ DOMAIN session')
    /\ UNCHANGED <<request, clearing, used>>

Step(r) ==
    \/ CreateSession(r)
    \/ GenerateToken(r)
    \/ CheckSession(r)
    \/ RefreshSession(r)

Next ==
    \/ \E r \in Requests : SignIn(r) \/ RefreshToken(r) \/ Step(r)
    \/ SignOut
    \/ \E sid \in SIDs : ClearSession(sid) \/ ClearFails(sid)
    \/ Crash
    \/ Tick

Spec == Init /\ [][Next]_vars

\* Time passes, and a command of Redis ends at the latest with the client's
\* timeout.  Nobody has to send a request, and DEL need not succeed.
FairSpec ==
    /\ Spec
    /\ WF_vars(Tick)
    /\ \A r \in Requests : WF_vars(Step(r))

-----------------------------------------------------------------------------
TypeOK ==
    /\ DOMAIN session \subseteq SIDs
    /\ \A s \in DOMAIN session : session[s] \in Sessions
    /\ tokens \subseteq Tokens
    /\ request \in [Requests -> {Idle} \cup Busy]
    /\ clearing \subseteq SIDs
    /\ used \subseteq SIDs
    /\ ended \subseteq SIDs

\* A session that was cleared or that expired never comes back, whatever a
\* refresh that had checked it before does afterwards.
NoRevival == ended \cap DOMAIN session = {}

\* Whoever holds a token has a session of his own, or had one: no token is
\* handed out when the session could not be created, and the session of a
\* token belongs to the token's user.
TokensBacked ==
    \A t \in tokens :
        \/ t.sid \in ended
        \/ Passes(t.sid, t.uid)

\* A refresh that began after the session had ended hands out no tokens: only
\* one that was already running may still do so.
NoLateRefresh == \A r \in Requests : request[r].step = "generate" => ~request[r].late

HasAccess(sid) == \E t \in tokens : Admits(t) /\ t.sid = sid

\* When a session has ended, access with its tokens ends too, for good, although
\* the middleware never looks at the session.
AccessEnds == \A sid \in SIDs : sid \in ended ~> [] ~HasAccess(sid)

=============================================================================
