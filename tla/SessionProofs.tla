---------------------------- MODULE SessionProofs ----------------------------
(***************************************************************************)
(* Theorems of Session, for any number of users, sessions and goroutines.  *)
(***************************************************************************)
EXTENDS Session, TLAPS

Backed(sid, uid) == sid \in ended \/ Passes(sid, uid)

\* A sign-in that is about to create its session is alone with its identifier,
\* and no session, token or history knows it yet.
Fresh ==
    \A r \in Requests : request[r].step = "create" =>
        LET sid == request[r].sid IN
        /\ sid \notin DOMAIN session \cup ended
        /\ \A t \in tokens : t.sid # sid
        /\ \A q \in Requests \ {r} : request[q] # Idle => request[q].sid # sid

\* Every identifier in the system was drawn by a sign-in.
Drawn ==
    /\ DOMAIN session \subseteq used
    /\ ended \subseteq used
    /\ \A t \in tokens : t.sid \in used
    /\ \A r \in Requests : request[r] # Idle => request[r].sid \in used

\* Requests past "create" stand on a session, or on one that has ended; a late
\* one stands on one that has ended and does not get past CheckSession.
RequestsBacked ==
    \A r \in Requests : request[r] # Idle /\ request[r].step # "create" =>
        /\ Backed(request[r].sid, request[r].uid)
        /\ request[r].late => request[r].step = "check" /\ request[r].sid \in ended

\* A sign-in is never late.
SignInsInTime ==
    \A r \in Requests : request[r].step = "create" => ~request[r].late

IInv ==
    /\ TypeOK
    /\ NoRevival
    /\ TokensBacked
    /\ Fresh
    /\ Drawn
    /\ RequestsBacked
    /\ SignInsInTime

-----------------------------------------------------------------------------
\* What the commands of Redis do to the keys.

LEMMA SetKeys ==
    \A sid, uid :
        /\ DOMAIN Set(sid, uid) = DOMAIN session \cup {sid}
        /\ Set(sid, uid)[sid] = [uid |-> uid, left |-> SessionLife]
        /\ \A s \in DOMAIN session \ {sid} : Set(sid, uid)[s] = session[s]
BY DEF Set

LEMMA DelKeys ==
    \A sid :
        /\ DOMAIN Del(sid) = DOMAIN session \ {sid}
        /\ \A s \in DOMAIN session \ {sid} : Del(sid)[s] = session[s]
BY DEF Del, Restrict

LEMMA ExpireKeys ==
    TypeOK => \A sid :
        /\ DOMAIN Expire(sid) = DOMAIN session
        /\ \A s \in DOMAIN session : Expire(sid)[s].uid = session[s].uid
        /\ \A s \in DOMAIN session : Expire(sid)[s] \in Sessions
<1> SUFFICES ASSUME TypeOK, NEW sid
             PROVE  /\ DOMAIN Expire(sid) = DOMAIN session
                    /\ \A s \in DOMAIN session :
                        /\ Expire(sid)[s].uid = session[s].uid
                        /\ Expire(sid)[s] \in Sessions
  OBVIOUS
<1>1. CASE sid \notin DOMAIN session
  BY <1>1 DEF Expire, TypeOK
<1>2. CASE sid \in DOMAIN session
  <2>1. Expire(sid) = Set(sid, session[sid].uid)
    BY <1>2 DEF Expire
  <2>2. SessionLife \in 1 .. SessionLife
    BY SessionAssumption
  <2>3. session[sid] \in Sessions
    BY <1>2 DEF TypeOK
  <2>4. DOMAIN Expire(sid) = DOMAIN session
    <3>1. DOMAIN Set(sid, session[sid].uid) = DOMAIN session \cup {sid}
      BY SetKeys
    <3> QED
      BY <1>2, <2>1, <3>1
  <2>5. ASSUME NEW s \in DOMAIN session
        PROVE  /\ Expire(sid)[s].uid = session[s].uid
               /\ Expire(sid)[s] \in Sessions
    <3>1. CASE s = sid
      <4>1. Expire(sid)[s] = [uid |-> session[sid].uid, left |-> SessionLife]
        BY <2>1, <3>1, SetKeys
      <4> QED
        BY <4>1, <2>2, <2>3, <3>1 DEF Sessions
    <3>2. CASE s # sid
      <4>1. Expire(sid)[s] = session[s]
        BY <2>1, <2>5, <3>2, SetKeys
      <4> QED
        BY <4>1, <2>5 DEF TypeOK
    <3> QED
      BY <3>1, <3>2
  <2> QED
    BY <2>4, <2>5
<1> QED
  BY <1>1, <1>2

-----------------------------------------------------------------------------
\* A step that loses no session but to the history keeps every claim backed.
Kept ==
    /\ ended \subseteq ended'
    /\ \A s \in DOMAIN session :
        s \in ended' \/ (s \in DOMAIN session' /\ session'[s].uid = session[s].uid)

LEMMA BackedStays ==
    Kept => \A sid, uid : Backed(sid, uid) => Backed(sid, uid)'
BY DEF Kept, Backed, Passes

-----------------------------------------------------------------------------
\* What a step does to the requests: r turns into req, the others stay.
LEMMA RequestStep ==
    ASSUME TypeOK, NEW r \in Requests, NEW STATE req,
           request' = [request EXCEPT ![r] = req]
    PROVE  /\ request'[r] = req
           /\ \A q \in Requests \ {r} : request'[q] = request[q]
           /\ req \in {Idle} \cup Busy =>
                request' \in [Requests -> {Idle} \cup Busy]
BY DEF TypeOK

LEMMA ProceedStep ==
    ASSUME TypeOK, NEW r \in Requests, NEW step \in Steps,
           request[r] # Idle, Proceed(r, step)
    PROVE  /\ request'[r].step = step
           /\ request'[r].sid = request[r].sid
           /\ request'[r].uid = request[r].uid
           /\ request'[r].late = request[r].late
           /\ request'[r] \in Busy
           /\ \A q \in Requests \ {r} : request'[q] = request[q]
           /\ request' \in [Requests -> {Idle} \cup Busy]
BY DEF TypeOK, Proceed, Busy

LEMMA BusyRequest ==
    ASSUME TypeOK, NEW r \in Requests
    PROVE  /\ request[r] = Idle => request[r].step = "idle"
           /\ request[r] # Idle =>
                /\ request[r] \in Busy
                /\ request[r].step \in Steps
                /\ request[r].sid \in SIDs
                /\ request[r].uid \in Users
                /\ request[r].late \in BOOLEAN
BY DEF TypeOK, Idle, Busy

-----------------------------------------------------------------------------
\* One lemma per action: it preserves the invariant.
LEMMA InitOK == Init => IInv
BY SessionAssumption DEF Init, IInv, TypeOK, NoRevival, TokensBacked, Fresh,
   Drawn, RequestsBacked, SignInsInTime, Idle

LEMMA SignInOK ==
    ASSUME IInv, NEW r \in Requests, SignIn(r)
    PROVE  IInv'
<1> USE DEF IInv
<1>1. PICK sid \in SIDs \ used, uid \in Users :
        /\ used' = used \cup {sid}
        /\ request' = [request EXCEPT ![r] =
                [step |-> "create", sid |-> sid, uid |-> uid, late |-> FALSE]]
  BY DEF SignIn
<1>2. UNCHANGED <<session, tokens, clearing, ended>>
  BY DEF SignIn
<1> DEFINE req == [step |-> "create", sid |-> sid, uid |-> uid, late |-> FALSE]
<1>3. req \in Busy
  BY DEF Busy, Steps
<1>4. /\ request'[r] = req
      /\ \A q \in Requests \ {r} : request'[q] = request[q]
      /\ request' \in [Requests -> {Idle} \cup Busy]
  BY <1>1, <1>3, RequestStep
<1>5. TypeOK'
  BY <1>1, <1>2, <1>4 DEF TypeOK
<1>6. NoRevival' /\ TokensBacked'
  BY <1>2 DEF NoRevival, TokensBacked, Passes
<1>7. Fresh'
  <2>1. /\ sid \notin DOMAIN session \cup ended
        /\ \A t \in tokens : t.sid # sid
        /\ \A q \in Requests \ {r} : request[q] # Idle => request[q].sid # sid
    BY DEF Drawn
  <2>2. \A q \in Requests \ {r} : request[q].step = "create" => request[q] # Idle
    BY DEF Idle
  <2> SUFFICES ASSUME NEW p \in Requests, request'[p].step = "create"
               PROVE  /\ request'[p].sid \notin DOMAIN session \cup ended
                      /\ \A t \in tokens : t.sid # request'[p].sid
                      /\ \A q \in Requests \ {p} :
                            request'[q] # Idle => request'[q].sid # request'[p].sid
    BY <1>2 DEF Fresh
  <2>3. CASE p = r
    BY <1>4, <2>1, <2>3
  <2>4. CASE p # r
    BY <1>4, <2>1, <2>2, <2>4 DEF Fresh
  <2> QED
    BY <2>3, <2>4
<1>8. Drawn'
  BY <1>1, <1>2, <1>4 DEF Drawn
<1>9. RequestsBacked' /\ SignInsInTime'
  BY <1>2, <1>4 DEF RequestsBacked, SignInsInTime, Backed, Passes
<1> QED
  BY <1>5, <1>6, <1>7, <1>8, <1>9

LEMMA CreateSessionOK ==
    ASSUME IInv, NEW r \in Requests, CreateSession(r)
    PROVE  IInv'
<1> USE DEF IInv
<1> DEFINE sid == request[r].sid
           uid == request[r].uid
<1>1. /\ request[r].step = "create"
      /\ UNCHANGED <<tokens, clearing, used, ended>>
      /\ session' \in {session, Set(sid, uid)}
      /\ \/ session' = Set(sid, uid) /\ Proceed(r, "generate")
         \/ End(r)
  BY DEF CreateSession
<1>2. request[r] \in Busy /\ request[r] # Idle /\ sid \in SIDs /\ uid \in Users
  BY <1>1, BusyRequest DEF Idle
<1>3. /\ sid \notin DOMAIN session \cup ended
      /\ \A t \in tokens : t.sid # sid
      /\ \A q \in Requests \ {r} : request[q] # Idle => request[q].sid # sid
  BY <1>1 DEF Fresh
<1>4. /\ DOMAIN Set(sid, uid) = DOMAIN session \cup {sid}
      /\ Set(sid, uid)[sid] = [uid |-> uid, left |-> SessionLife]
      /\ \A s \in DOMAIN session : Set(sid, uid)[s] = session[s]
  <2>1. /\ DOMAIN Set(sid, uid) = DOMAIN session \cup {sid}
        /\ Set(sid, uid)[sid] = [uid |-> uid, left |-> SessionLife]
        /\ \A s \in DOMAIN session \ {sid} : Set(sid, uid)[s] = session[s]
    BY DEF Set
  <2> QED
    BY <1>3, <2>1
<1>5. /\ \A s \in DOMAIN session : s \in DOMAIN session' /\ session'[s] = session[s]
      /\ DOMAIN session' \subseteq DOMAIN session \cup {sid}
      /\ sid \in DOMAIN session' => session'[sid] = [uid |-> uid, left |-> SessionLife]
  BY <1>1, <1>3, <1>4
<1>6. Kept
  BY <1>1, <1>5 DEF Kept
<1>7. /\ \A q \in Requests \ {r} : request'[q] = request[q]
      /\ request' \in [Requests -> {Idle} \cup Busy]
      /\ \/ request'[r] = Idle
         \/ /\ session' = Set(sid, uid)
            /\ request'[r].step = "generate"
            /\ request'[r].sid = sid
            /\ request'[r].uid = uid
            /\ request'[r].late = request[r].late
  <2>1. CASE session' = Set(sid, uid) /\ Proceed(r, "generate")
    <3>1. "generate" \in Steps
      BY DEF Steps
    <3> QED
      BY <1>2, <2>1, <3>1, ProceedStep
  <2>2. CASE End(r)
    BY <2>2, RequestStep DEF End
  <2> QED
    BY <1>1, <2>1, <2>2
<1>8. TypeOK'
  <2>1. [uid |-> uid, left |-> SessionLife] \in Sessions
    BY <1>2, SessionAssumption DEF Sessions
  <2>2. \A s \in DOMAIN session' : session'[s] \in Sessions
    BY <1>5, <2>1 DEF TypeOK
  <2> QED
    BY <1>1, <1>2, <1>5, <1>7, <2>2 DEF TypeOK
<1>9. NoRevival'
  BY <1>1, <1>3, <1>5 DEF NoRevival
<1>10. TokensBacked'
  BY <1>1, <1>6, BackedStays DEF TokensBacked, Backed
<1>11. Fresh'
  BY <1>1, <1>3, <1>5, <1>7 DEF Fresh, Idle
<1>12. Drawn'
  BY <1>1, <1>2, <1>5, <1>7 DEF Drawn
<1>13. RequestsBacked'
  <2>1. \A q \in Requests \ {r} : request[q] # Idle /\ request[q].step # "create" =>
            Backed(request[q].sid, request[q].uid)'
    BY <1>6, <1>7, BackedStays DEF RequestsBacked
  <2>2. request'[r] # Idle => Backed(sid, uid)' /\ ~request'[r].late
    BY <1>1, <1>4, <1>7 DEF Backed, Passes, SignInsInTime
  <2> QED
    BY <1>1, <1>7, <2>1, <2>2 DEF RequestsBacked, Backed, Passes
<1>14. SignInsInTime'
  BY <1>7 DEF SignInsInTime, Idle
<1> QED
  BY <1>8, <1>9, <1>10, <1>11, <1>12, <1>13, <1>14
LEMMA GenerateTokenOK ==
    ASSUME IInv, NEW r \in Requests, GenerateToken(r)
    PROVE  IInv'
<1> USE DEF IInv
<1> DEFINE sid == request[r].sid
           uid == request[r].uid
           at == [kind |-> "access", sid |-> sid, uid |-> uid, left |-> AccessLife]
           rt == [kind |-> "refresh", sid |-> sid, uid |-> uid, left |-> RefreshLife]
<1>1. /\ request[r].step = "generate"
      /\ tokens' = tokens \cup {at, rt} \/ tokens' = tokens
      /\ End(r)
      /\ UNCHANGED <<session, clearing, used, ended>>
  BY DEF GenerateToken
<1>2. request[r] \in Busy /\ request[r] # Idle /\ sid \in SIDs /\ uid \in Users
  BY <1>1, BusyRequest DEF Idle
<1>3. /\ request'[r] = Idle
      /\ \A q \in Requests \ {r} : request'[q] = request[q]
      /\ request' \in [Requests -> {Idle} \cup Busy]
  BY <1>1, RequestStep DEF End
<1>4. \A t \in tokens' : t \in tokens \/ (t.sid = sid /\ t.uid = uid)
  BY <1>1
<1>5. TypeOK'
  <2>1. AccessLife \in 1 .. Longest /\ RefreshLife \in 1 .. Longest
    BY SessionAssumption DEF Longest
  <2>2. at \in Tokens /\ rt \in Tokens
    BY <1>2, <2>1 DEF Tokens, Kinds
  <2> QED
    BY <1>1, <1>3, <2>2 DEF TypeOK
<1>6. NoRevival'
  BY <1>1 DEF NoRevival
<1>7. Backed(sid, uid)
  BY <1>1, <1>2 DEF RequestsBacked
<1>8. TokensBacked'
  BY <1>1, <1>4, <1>7 DEF TokensBacked, Backed, Passes
<1>9. Fresh'
  <2> SUFFICES ASSUME NEW p \in Requests, request'[p].step = "create"
               PROVE  /\ request'[p].sid \notin DOMAIN session \cup ended
                      /\ \A t \in tokens' : t.sid # request'[p].sid
                      /\ \A q \in Requests \ {p} :
                            request'[q] # Idle => request'[q].sid # request'[p].sid
    BY <1>1 DEF Fresh
  <2>1. p # r /\ request'[p] = request[p]
    BY <1>3 DEF Idle
  <2>2. request[p].sid # sid
    BY <1>2, <2>1 DEF Fresh
  <2> QED
    BY <1>3, <1>4, <2>1, <2>2 DEF Fresh
<1>10. Drawn'
  BY <1>1, <1>2, <1>3, <1>4 DEF Drawn
<1>11. RequestsBacked' /\ SignInsInTime'
  BY <1>1, <1>3 DEF RequestsBacked, SignInsInTime, Backed, Passes, Idle
<1> QED
  BY <1>5, <1>6, <1>8, <1>9, <1>10, <1>11

LEMMA RefreshTokenOK ==
    ASSUME IInv, NEW r \in Requests, RefreshToken(r)
    PROVE  IInv'
<1> USE DEF IInv
<1>1. PICK t \in tokens :
        request' = [request EXCEPT ![r] =
            [step |-> "check", sid |-> t.sid, uid |-> t.uid, late |-> t.sid \in ended]]
  BY DEF RefreshToken
<1>2. UNCHANGED <<session, tokens, clearing, used, ended>>
  BY DEF RefreshToken
<1> DEFINE req == [step |-> "check", sid |-> t.sid, uid |-> t.uid,
                   late |-> t.sid \in ended]
<1>3. req \in Busy
  BY DEF Busy, Steps, TypeOK, Tokens
<1>4. /\ request'[r] = req
      /\ \A q \in Requests \ {r} : request'[q] = request[q]
      /\ request' \in [Requests -> {Idle} \cup Busy]
  BY <1>1, <1>3, RequestStep
<1>5. TypeOK'
  BY <1>2, <1>4 DEF TypeOK
<1>6. NoRevival' /\ TokensBacked'
  BY <1>2 DEF NoRevival, TokensBacked, Passes
<1>7. Fresh'
  <2> SUFFICES ASSUME NEW p \in Requests, request'[p].step = "create"
               PROVE  /\ request'[p].sid \notin DOMAIN session \cup ended
                      /\ \A u \in tokens : u.sid # request'[p].sid
                      /\ \A q \in Requests \ {p} :
                            request'[q] # Idle => request'[q].sid # request'[p].sid
    BY <1>2 DEF Fresh
  <2>1. p # r /\ request'[p] = request[p]
    BY <1>4
  <2>2. request[p].sid # t.sid
    BY <2>1 DEF Fresh
  <2> QED
    BY <1>4, <2>1, <2>2 DEF Fresh
<1>8. Drawn'
  BY <1>2, <1>4 DEF Drawn
<1>9. Backed(t.sid, t.uid)
  BY DEF TokensBacked, Backed
<1>10. RequestsBacked'
  <2>1. ASSUME NEW q \in Requests \ {r}, request'[q] # Idle, request'[q].step # "create"
        PROVE  /\ Backed(request'[q].sid, request'[q].uid)
               /\ request'[q].late => request'[q].step = "check" /\ request'[q].sid \in ended
    BY <1>4, <2>1 DEF RequestsBacked
  <2>2. request'[r].late => request'[r].step = "check" /\ request'[r].sid \in ended
    <3>1. request'[r].late <=> t.sid \in ended
      <4>1. request'[r] = req
        BY <1>4
      <4>2. req.late = (t.sid \in ended)
        OBVIOUS
      <4>3. request'[r].late = (t.sid \in ended)
        BY <4>1, <4>2, Zenon
      <4> QED
        BY <4>3, Zenon
    <3>2. request'[r].step = "check" /\ request'[r].sid = t.sid
      BY <1>4
    <3> QED
      BY <3>1, <3>2
  <2>3. Backed(request'[r].sid, request'[r].uid)
    BY <1>4, <1>9
  <2> QED
    BY <1>2, <2>1, <2>2, <2>3 DEF RequestsBacked, Backed, Passes
<1>11. SignInsInTime'
  BY <1>4 DEF SignInsInTime
<1> QED
  BY <1>5, <1>6, <1>7, <1>8, <1>10, <1>11
-----------------------------------------------------------------------------
\* The other actions create no session and no claim on one: sessions only leave
\* into the history, tokens only expire, and a request goes on with what it had.
GoesOn(q) ==
    \/ request'[q] = Idle
    \/ request'[q] = request[q]
    \/ /\ request[q] # Idle
       /\ request[q].step # "create"
       /\ request'[q].step # "create"
       /\ request'[q].sid = request[q].sid
       /\ request'[q].uid = request[q].uid
       /\ request'[q].late = request[q].late
       /\ ~request[q].late

Shrinks ==
    /\ DOMAIN session' \subseteq DOMAIN session
    /\ \A s \in DOMAIN session' : session'[s].uid = session[s].uid
    /\ ended' = ended \cup (DOMAIN session \ DOMAIN session')
    /\ used' = used
    /\ \A u \in tokens' : \E t \in tokens : u.sid = t.sid /\ u.uid = t.uid
    /\ \A q \in Requests : GoesOn(q)

LEMMA ShrinksOK ==
    ASSUME IInv, TypeOK', Shrinks
    PROVE  IInv'
<1> USE DEF IInv
<1>1. Kept
  BY DEF Kept, Shrinks
<1>2. NoRevival'
  BY DEF NoRevival, Shrinks
<1>3. TokensBacked'
  BY <1>1, BackedStays DEF TokensBacked, Backed, Shrinks
<1>4. Fresh'
  <2> SUFFICES ASSUME NEW p \in Requests, request'[p].step = "create"
               PROVE  /\ request'[p].sid \notin DOMAIN session' \cup ended'
                      /\ \A t \in tokens' : t.sid # request'[p].sid
                      /\ \A q \in Requests \ {p} :
                            request'[q] # Idle => request'[q].sid # request'[p].sid
    BY DEF Fresh
  <2>1. request'[p] = request[p]
    BY DEF Shrinks, GoesOn, Idle
  <2>2. request'[p].sid \notin DOMAIN session' \cup ended'
    BY <2>1 DEF Shrinks, Fresh
  <2>3. \A t \in tokens' : t.sid # request'[p].sid
    BY <2>1 DEF Shrinks, Fresh
  <2>4. ASSUME NEW q \in Requests \ {p}, request'[q] # Idle
        PROVE  request'[q].sid # request'[p].sid
    <3>1. request[q] # Idle /\ request'[q].sid = request[q].sid
      BY <2>4 DEF Shrinks, GoesOn
    <3> QED
      BY <2>1, <3>1 DEF Fresh
  <2> QED
    BY <2>2, <2>3, <2>4
<1>5. Drawn'
  BY DEF Drawn, Shrinks, GoesOn
<1>6. RequestsBacked'
  <2> SUFFICES ASSUME NEW q \in Requests, request'[q] # Idle, request'[q].step # "create"
               PROVE  /\ Backed(request[q].sid, request[q].uid)'
                      /\ request'[q].late =>
                            request'[q].step = "check" /\ request'[q].sid \in ended'
    BY DEF RequestsBacked, Backed, Passes
  <2>1. /\ request[q] # Idle
        /\ request[q].step # "create"
        /\ request'[q].sid = request[q].sid
        /\ request'[q].uid = request[q].uid
        /\ request'[q] = request[q] \/ (request'[q].late = request[q].late /\ ~request[q].late)
    BY DEF Shrinks, GoesOn
  <2>2. Backed(request[q].sid, request[q].uid)
    BY <2>1 DEF RequestsBacked
  <2>3. request'[q].late => request'[q].step = "check" /\ request'[q].sid \in ended'
    BY <2>1 DEF RequestsBacked, Shrinks
  <2>4. Backed(request[q].sid, request[q].uid)'
    BY <1>1, <2>1, <2>2 DEF Kept, Backed, Passes
  <2> QED
    BY <2>3, <2>4
<1>7. SignInsInTime'
  BY DEF SignInsInTime, Shrinks, GoesOn, Idle
<1> QED
  BY <1>2, <1>3, <1>4, <1>5, <1>6, <1>7
LEMMA CheckSessionOK ==
    ASSUME IInv, NEW r \in Requests, CheckSession(r)
    PROVE  IInv'
<1> USE DEF IInv
<1>1. /\ request[r].step = "check"
      /\ UNCHANGED <<session, tokens, clearing, used, ended>>
      /\ \/ Passes(request[r].sid, request[r].uid) /\ Proceed(r, "expire")
         \/ End(r)
  BY DEF CheckSession
<1>2. request[r] # Idle /\ request[r].late \in BOOLEAN
  BY <1>1, BusyRequest DEF Idle
<1>3. /\ \A q \in Requests : GoesOn(q)
      /\ request' \in [Requests -> {Idle} \cup Busy]
  <2>1. CASE Passes(request[r].sid, request[r].uid) /\ Proceed(r, "expire")
    <3>1. "expire" \in Steps
      BY DEF Steps
    <3>2. ~request[r].late
      BY <1>1, <1>2, <2>1 DEF RequestsBacked, NoRevival, Passes
    <3> QED
      BY <1>1, <1>2, <2>1, <3>1, <3>2, ProceedStep DEF GoesOn
  <2>2. CASE End(r)
    BY <2>2, RequestStep DEF End, GoesOn
  <2> QED
    BY <1>1, <2>1, <2>2
<1>4. TypeOK'
  BY <1>1, <1>3 DEF TypeOK
<1>5. Shrinks
  BY <1>1, <1>3 DEF Shrinks
<1> QED
  BY <1>4, <1>5, ShrinksOK

LEMMA RefreshSessionOK ==
    ASSUME IInv, NEW r \in Requests, RefreshSession(r)
    PROVE  IInv'
<1> USE DEF IInv
<1>1. /\ request[r].step = "expire"
      /\ UNCHANGED <<tokens, clearing, used, ended>>
      /\ session' = session \/ session' = Expire(request[r].sid)
      /\ Proceed(r, "generate")
  BY DEF RefreshSession
<1>2. request[r] # Idle /\ request[r].late \in BOOLEAN
  BY <1>1, BusyRequest DEF Idle
<1>3. ~request[r].late
  BY <1>1, <1>2 DEF RequestsBacked
<1>4. "generate" \in Steps
  BY DEF Steps
<1>5. /\ \A q \in Requests : GoesOn(q)
      /\ request' \in [Requests -> {Idle} \cup Busy]
  BY <1>1, <1>2, <1>3, <1>4, ProceedStep DEF GoesOn
<1>6. /\ DOMAIN session' = DOMAIN session
      /\ \A s \in DOMAIN session : session'[s].uid = session[s].uid
      /\ \A s \in DOMAIN session : session'[s] \in Sessions
  BY <1>1, ExpireKeys DEF TypeOK
<1>7. TypeOK'
  BY <1>1, <1>5, <1>6 DEF TypeOK
<1>8. Shrinks
  BY <1>1, <1>5, <1>6 DEF Shrinks
<1> QED
  BY <1>7, <1>8, ShrinksOK

LEMMA SignOutOK ==
    ASSUME IInv, SignOut
    PROVE  IInv'
<1> USE DEF IInv
<1>1. UNCHANGED <<session, tokens, request, used, ended>>
  BY DEF SignOut
<1>2. clearing' \subseteq SIDs
  BY DEF SignOut, TypeOK, Tokens
<1>3. TypeOK'
  BY <1>1, <1>2 DEF TypeOK
<1>4. Shrinks
  BY <1>1 DEF Shrinks, GoesOn
<1> QED
  BY <1>3, <1>4, ShrinksOK

LEMMA ClearSessionOK ==
    ASSUME IInv, NEW sid \in SIDs, ClearSession(sid) \/ ClearFails(sid)
    PROVE  IInv'
<1> USE DEF IInv
<1>1. /\ UNCHANGED <<tokens, request, used>>
      /\ clearing' \subseteq clearing
      /\ session' = session \/ session' = Del(sid)
      /\ ended' = ended \cup (DOMAIN session \ DOMAIN session')
  BY DEF ClearSession, ClearFails
<1>2. /\ DOMAIN session' \subseteq DOMAIN session
      /\ \A s \in DOMAIN session' : session'[s] = session[s]
  BY <1>1, DelKeys
<1>3. TypeOK'
  BY <1>1, <1>2 DEF TypeOK
<1>4. Shrinks
  BY <1>1, <1>2 DEF Shrinks, GoesOn
<1> QED
  BY <1>3, <1>4, ShrinksOK

LEMMA CrashOK ==
    ASSUME IInv, Crash
    PROVE  IInv'
<1> USE DEF IInv
<1>1. TypeOK'
  BY DEF Crash, TypeOK
<1>2. Shrinks
  BY DEF Crash, Shrinks, GoesOn
<1> QED
  BY <1>1, <1>2, ShrinksOK

LEMMA TickOK ==
    ASSUME IInv, Tick
    PROVE  IInv'
<1> USE DEF IInv
<1>1. /\ DOMAIN session' = {s \in DOMAIN session : session[s].left > 1}
      /\ \A s \in DOMAIN session' :
            session'[s] = [session[s] EXCEPT !.left = @ - 1]
  BY DEF Tick
<1>2. \A s \in DOMAIN session' :
            /\ session'[s].uid = session[s].uid
            /\ session'[s] \in Sessions
  <2> SUFFICES ASSUME NEW s \in DOMAIN session'
               PROVE  session'[s].uid = session[s].uid /\ session'[s] \in Sessions
    OBVIOUS
  <2>1. s \in DOMAIN session /\ session[s].left > 1
    BY <1>1
  <2>2. session[s] \in [uid : Users, left : 1 .. SessionLife]
    BY <2>1 DEF TypeOK, Sessions
  <2>3. session'[s] = [uid |-> session[s].uid, left |-> session[s].left - 1]
    BY <1>1, <2>2
  <2>4. session[s].left - 1 \in 1 .. SessionLife
    BY <2>1, <2>2, SessionAssumption
  <2> QED
    BY <2>2, <2>3, <2>4 DEF Sessions
<1>3. \A u \in tokens' : \E t \in tokens :
            t.left > 1 /\ u = [t EXCEPT !.left = @ - 1]
  BY DEF Tick
<1>4. Longest \in Nat
  BY SessionAssumption DEF Longest
<1>5. \A u \in tokens' :
            /\ u \in Tokens
            /\ \E t \in tokens : u.sid = t.sid /\ u.uid = t.uid
  BY <1>3, <1>4 DEF TypeOK, Tokens
<1>6. /\ UNCHANGED <<request, clearing, used>>
      /\ ended' = ended \cup (DOMAIN session \ DOMAIN session')
  BY DEF Tick
<1>7. TypeOK'
  BY <1>1, <1>2, <1>5, <1>6 DEF TypeOK
<1>8. Shrinks
  BY <1>1, <1>2, <1>5, <1>6 DEF Shrinks, GoesOn
<1> QED
  BY <1>7, <1>8, ShrinksOK

-----------------------------------------------------------------------------
LEMMA StepOK == IInv /\ [Next]_vars => IInv'
<1> SUFFICES ASSUME IInv, [Next]_vars
             PROVE  IInv'
  OBVIOUS
<1>1. ASSUME NEW r \in Requests, SignIn(r)
      PROVE  IInv'
  BY <1>1, SignInOK
<1>2. ASSUME NEW r \in Requests, RefreshToken(r)
      PROVE  IInv'
  BY <1>2, RefreshTokenOK
<1>3. ASSUME NEW r \in Requests, Step(r)
      PROVE  IInv'
  BY <1>3, CreateSessionOK, GenerateTokenOK, CheckSessionOK, RefreshSessionOK DEF Step
<1>4. CASE SignOut
  BY <1>4, SignOutOK
<1>5. ASSUME NEW sid \in SIDs, ClearSession(sid) \/ ClearFails(sid)
      PROVE  IInv'
  BY <1>5, ClearSessionOK
<1>6. CASE Crash
  BY <1>6, CrashOK
<1>7. CASE Tick
  BY <1>7, TickOK
<1>8. CASE UNCHANGED vars
  BY <1>8 DEF vars, IInv, TypeOK, NoRevival, TokensBacked, Fresh, Drawn,
     RequestsBacked, SignInsInTime, Backed, Passes
<1> QED
  BY <1>1, <1>2, <1>3, <1>4, <1>5, <1>6, <1>7, <1>8 DEF Next

\* In every state the sessions, tokens and requests fit together.
THEOREM SessionInvariant == Spec => []IInv
BY InitOK, StepOK, PTL DEF Spec

\* Type correctness: sessions, tokens and requests are of the kinds the code makes.
THEOREM TypeCorrect == Spec => []TypeOK
<1>1. IInv => TypeOK
  BY DEF IInv
<1> QED
  BY <1>1, SessionInvariant, PTL

\* No refresh, however late, revives a session that was cleared or has expired.
THEOREM SessionsStayEnded == Spec => []NoRevival
<1>1. IInv => NoRevival
  BY DEF IInv
<1> QED
  BY <1>1, SessionInvariant, PTL

\* Every token stands on a session of its user, or on one that has ended.
THEOREM TokensAlwaysBacked == Spec => []TokensBacked
<1>1. IInv => TokensBacked
  BY DEF IInv
<1> QED
  BY <1>1, SessionInvariant, PTL

\* A refresh that begins after its session has ended hands out no tokens.
THEOREM LateRefreshRefused == Spec => []NoLateRefresh
<1>1. IInv => NoLateRefresh
  <2> SUFFICES ASSUME IInv, NEW r \in Requests, request[r].step = "generate"
               PROVE  ~request[r].late
    BY DEF NoLateRefresh
  <2> QED
    BY DEF IInv, RequestsBacked, Idle
<1> QED
  BY <1>1, SessionInvariant, PTL
=============================================================================
