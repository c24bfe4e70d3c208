--------------------------- MODULE TokenCacheProofs ---------------------------
(***************************************************************************)
(* Proofs about the token cache.  The second look under the write lock is  *)
(* worth something because only time can touch the cache while the lock is *)
(* held; and the margin outweighs the age of an answer because the client  *)
(* gives up in time.                                                       *)
(***************************************************************************)
EXTENDS TokenCache, TLAPS

\* A token is requested because the cached one cannot be used, and stays so.
FetchedForNeed == \A c \in Caller : pc[c] = "fetch" => ~Usable

\* An answer is for somebody, and not older than the request.
AnswerFresh ==
    answer # Nothing =>
        /\ Fetching
        /\ answer \in Answer
        /\ answer.left >= answer.expiresIn - delay

\* The margin, but for the time the request took.
MarginKept == Usable => accessToken.left >= expiresAt + Margin - Timeout

IInv == TypeOK /\ NoneWasted /\ FetchedForNeed /\ AnswerFresh /\ MarginKept

-----------------------------------------------------------------------------
LEMMA InitInvariant == Init => IInv
<1> SUFFICES ASSUME Init PROVE IInv
  OBVIOUS
<1> USE DEF Init
<1>1. TypeOK
  <2>1. LockOK
    BY CallerAssumption DEF LockOK
  <2>2. accessToken \in Token /\ delay \in 0 .. Timeout
    BY TimeAssumption DEF Token
  <2> QED
    BY <2>1, <2>2 DEF TypeOK
<1>2. NoneWasted /\ FetchedForNeed /\ AnswerFresh /\ MarginKept
  BY DEF NoneWasted, FetchedForNeed, AnswerFresh, MarginKept, Usable
<1> QED
  BY <1>1, <1>2 DEF IInv

\* The deferred Unlock hands the lock to the readers that waited.
LEMMA UnlockKeepsLock ==
    ASSUME TypeOK, NEW c \in Caller, pc[c] \in {"check", "fetch"}, Unlock(c)
    PROVE  /\ LockOK'
           /\ pc' \in [Caller -> {"idle", "rlock", "wait", "read",
                                  "lock", "drain", "check", "fetch"}]
           /\ writer' = NoCaller
           /\ ~Fetching'
<1>1. writer = c /\ writer' = NoCaller /\ NoCaller \notin Caller
  BY CallerAssumption DEF TypeOK, LockOK, Unlock
<1>2. \A d \in Caller : pc[d] \in {"drain", "check", "fetch"} => d = c
  BY <1>1 DEF TypeOK, LockOK
<1>3. \A d \in Caller :
        /\ pc'[d] \in {"idle", "rlock", "read", "lock"}
        /\ pc'[d] = "read" <=> d # c /\ pc[d] \in {"read", "wait"}
  BY <1>2 DEF Unlock, TypeOK
<1>4. pc' \in [Caller -> {"idle", "rlock", "wait", "read",
                          "lock", "drain", "check", "fetch"}]
  BY <1>3 DEF Unlock
<1>5. readers' = {d \in Caller : pc'[d] = "read"}
  BY <1>3 DEF Unlock, TypeOK, LockOK
<1> QED
  BY <1>1, <1>3, <1>4, <1>5 DEF LockOK, Fetching

LEMMA TypeStep == TypeOK /\ [Next]_vars => TypeOK'
<1> SUFFICES ASSUME TypeOK, [Next]_vars PROVE TypeOK'
  OBVIOUS
<1> USE DEF cache, request, Goto
<1>1. CASE UNCHANGED vars
  BY <1>1 DEF vars, TypeOK, LockOK
<1>2. ASSUME NEW c \in Caller, Start(c) PROVE TypeOK'
  BY <1>2 DEF Start, TypeOK, LockOK
<1>3. ASSUME NEW c \in Caller, RLock(c) PROVE TypeOK'
  BY <1>3, CallerAssumption DEF RLock, TypeOK, LockOK
<1>4. ASSUME NEW c \in Caller, AwaitWriter(c) PROVE TypeOK'
  BY <1>4 DEF AwaitWriter, TypeOK, LockOK
<1>5. ASSUME NEW c \in Caller, Reuse(c) PROVE TypeOK'
  BY <1>5 DEF Reuse, TypeOK, LockOK
<1>6. ASSUME NEW c \in Caller, Miss(c) PROVE TypeOK'
  BY <1>6 DEF Miss, TypeOK, LockOK
<1>7. ASSUME NEW c \in Caller, Lock(c) PROVE TypeOK'
  BY <1>7, CallerAssumption DEF Lock, TypeOK, LockOK
<1>8. ASSUME NEW c \in Caller, Locked(c) PROVE TypeOK'
  BY <1>8 DEF Locked, TypeOK, LockOK
<1>9. ASSUME NEW c \in Caller, ReuseLocked(c) PROVE TypeOK'
  BY <1>9, UnlockKeepsLock DEF ReuseLocked, TypeOK
<1>10. ASSUME NEW c \in Caller, Request(c) PROVE TypeOK'
  <2>1. 0 \in 0 .. Timeout
    BY TimeAssumption
  <2> QED
    BY <1>10, <2>1 DEF Request, TypeOK, LockOK
<1>11. CASE Respond
  <2>1. answer' \in Answer
    BY <1>11, TimeAssumption DEF Respond, Answer
  <2> QED
    BY <1>11, <2>1 DEF Respond, TypeOK, LockOK
<1>12. ASSUME NEW c \in Caller, Store(c) PROVE TypeOK'
  <2>1. answer \in Answer
    BY <1>12 DEF Store, TypeOK
  <2>2. accessToken' \in Token
    BY <1>12, <2>1 DEF Store, Answer, Token
  <2>3. expiresAt' \in Nat
    <3>1. answer.expiresIn \in Nat
      BY <2>1, TimeAssumption DEF Answer
    <3> QED
      BY <1>12, <3>1, TimeAssumption DEF Store, Window
  <2>4. 0 \in 0 .. Timeout
    BY TimeAssumption
  <2>5. wasted' \in BOOLEAN
    BY <1>12 DEF Store, TypeOK
  <2>6. LockOK' /\ pc' \in [Caller -> {"idle", "rlock", "wait", "read",
                                     "lock", "drain", "check", "fetch"}]
        /\ writer' = NoCaller
    BY <1>12, UnlockKeepsLock DEF Store
  <2> QED
    BY <1>12, <2>2, <2>3, <2>4, <2>5, <2>6 DEF Store, TypeOK
<1>13. ASSUME NEW c \in Caller, Fail(c) PROVE TypeOK'
  <2>1. 0 \in 0 .. Timeout
    BY TimeAssumption
  <2> QED
    BY <1>13, <2>1, UnlockKeepsLock DEF Fail, TypeOK
<1>14. CASE Tick
  <2>1. accessToken' \in Token /\ expiresAt' \in Nat
    BY <1>14 DEF Tick, TypeOK, Token, Less
  <2>2. delay' \in 0 .. Timeout
    BY <1>14, TimeAssumption DEF Tick, TypeOK
  <2>3. answer' \in Answer \cup {Nothing}
    BY <1>14 DEF Tick, TypeOK, Answer, Less
  <2> QED
    BY <1>14, <2>1, <2>2, <2>3 DEF Tick, TypeOK, LockOK
<1> QED
  BY <1>1, <1>2, <1>3, <1>4, <1>5, <1>6, <1>7, <1>8, <1>9, <1>10, <1>11,
     <1>12, <1>13, <1>14 DEF Next, Go, Finish

\* Only Request begins a fetch, and only because the token cannot be used.
LEMMA FetchedForNeedStep == TypeOK /\ FetchedForNeed /\ [Next]_vars => FetchedForNeed'
<1> SUFFICES ASSUME TypeOK, FetchedForNeed, [Next]_vars,
                    NEW d \in Caller, pc'[d] = "fetch"
             PROVE  ~Usable'
  BY DEF FetchedForNeed
<1> USE DEF cache, request, Goto
<1>1. CASE pc[d] = "fetch" /\ UNCHANGED cache
  BY <1>1 DEF FetchedForNeed, Usable
<1>2. CASE \E c \in Caller : Store(c)
  <2>1. ~Fetching'
    BY <1>2, UnlockKeepsLock DEF Store
  <2> QED
    BY <2>1 DEF Fetching
<1>3. CASE Tick
  BY <1>3 DEF Tick, FetchedForNeed, Usable, Less, TypeOK
<1>4. CASE \E c \in Caller : Request(c)
  BY <1>4 DEF Request, TypeOK, FetchedForNeed, Usable
<1>5. CASE \E c \in Caller : ReuseLocked(c) \/ Fail(c)
  <2>1. ~Fetching'
    BY <1>5, UnlockKeepsLock DEF ReuseLocked, Fail
  <2> QED
    BY <2>1 DEF Fetching
<1>6. CASE \E c \in Caller : Start(c) \/ RLock(c) \/ AwaitWriter(c) \/ Reuse(c)
                                \/ Miss(c) \/ Lock(c) \/ Locked(c)
  <2>1. pc[d] = "fetch" /\ UNCHANGED cache
    BY <1>6 DEF Start, RLock, AwaitWriter, Reuse, Miss, Lock, Locked, TypeOK
  <2> QED
    BY <2>1, <1>1
<1>7. CASE Respond \/ UNCHANGED vars
  <2>1. pc[d] = "fetch" /\ UNCHANGED cache
    BY <1>7 DEF Respond, vars
  <2> QED
    BY <2>1, <1>1
<1> QED
  BY <1>2, <1>3, <1>4, <1>5, <1>6, <1>7 DEF Next, Go, Finish

LEMMA NoneWastedStep ==
    FetchedForNeed /\ NoneWasted /\ [Next]_vars => NoneWasted'
<1> SUFFICES ASSUME FetchedForNeed, NoneWasted, [Next]_vars PROVE ~wasted'
  BY DEF NoneWasted
<1>1. CASE \E c \in Caller : Store(c)
  BY <1>1 DEF Store, FetchedForNeed, NoneWasted
<1>2. CASE UNCHANGED wasted
  BY <1>2 DEF NoneWasted
<1> QED
  BY <1>1, <1>2 DEF Next, Go, Finish, Start, RLock, AwaitWriter, Reuse, Miss,
     Lock, Locked, ReuseLocked, Request, Fail, Respond, Tick, vars

LEMMA AnswerFreshStep == TypeOK /\ AnswerFresh /\ [Next]_vars => AnswerFresh'
<1> SUFFICES ASSUME TypeOK, AnswerFresh, [Next]_vars, answer' # Nothing
             PROVE  /\ Fetching'
                    /\ answer' \in Answer
                    /\ answer'.left >= answer'.expiresIn - delay'
  BY DEF AnswerFresh
<1> USE DEF cache, request, Goto
<1>1. CASE Respond
  <2>1. PICK given \in BOOLEAN, life \in Lives :
            answer' = [given |-> given, expiresIn |-> life, left |-> life]
    BY <1>1 DEF Respond
  <2>2. life \in Nat /\ delay' \in Nat
    BY <1>1, TimeAssumption DEF Respond, TypeOK
  <2> QED
    BY <1>1, <2>1, <2>2 DEF Respond, Fetching, Answer
<1>2. CASE Tick
  <2>1. answer # Nothing /\ answer \in Answer /\ Fetching
    BY <1>2 DEF Tick, AnswerFresh
  <2>2. answer.left \in Nat /\ answer.expiresIn \in Nat /\ delay \in Nat
    <3>1. answer.left \in Nat /\ answer.expiresIn \in Nat
      BY <2>1, TimeAssumption DEF Answer
    <3>2. delay \in Nat
      BY TimeAssumption DEF TypeOK
    <3> QED
      BY <3>1, <3>2
  <2>3. answer' = [given |-> answer.given, expiresIn |-> answer.expiresIn,
                   left |-> Less(answer.left)]
        /\ delay' = delay + 1
    BY <1>2, <2>1 DEF Tick
  <2>4. Less(answer.left) \in Nat /\ Less(answer.left) >= answer.left - 1
    BY <2>2 DEF Less
  <2>5. answer.left >= answer.expiresIn - delay
    BY <2>1 DEF AnswerFresh
  <2>6. answer' \in Answer
    BY <2>1, <2>3, <2>4 DEF Answer
  <2>7. answer'.left >= answer'.expiresIn - delay'
    BY <2>2, <2>3, <2>4, <2>5
  <2> QED
    BY <1>2, <2>1, <2>6, <2>7 DEF Tick, Fetching
<1>3. CASE \E c \in Caller : Request(c) \/ Store(c) \/ Fail(c)
  BY <1>3 DEF Request, Store, Fail
<1>4. CASE \E c \in Caller : ReuseLocked(c)
  <2>1. PICK c \in Caller : ReuseLocked(c)
    BY <1>4
  <2>2. ~Fetching
    BY <2>1 DEF ReuseLocked, Fetching, TypeOK, LockOK
  <2> QED
    BY <2>1, <2>2 DEF ReuseLocked, AnswerFresh
<1>5. CASE UNCHANGED request /\ (Fetching => Fetching')
  BY <1>5 DEF AnswerFresh
<1>6. CASE \E c \in Caller : Start(c) \/ RLock(c) \/ AwaitWriter(c) \/ Reuse(c)
                                \/ Miss(c) \/ Lock(c) \/ Locked(c)
  <2>1. UNCHANGED request /\ \A d \in Caller : pc[d] = "fetch" => pc'[d] = "fetch"
    BY <1>6 DEF Start, RLock, AwaitWriter, Reuse, Miss, Lock, Locked, TypeOK
  <2> QED
    BY <2>1, <1>5 DEF Fetching
<1>7. CASE UNCHANGED vars
  BY <1>5, <1>7 DEF vars, Fetching
<1> QED
  BY <1>1, <1>2, <1>3, <1>4, <1>6, <1>7 DEF Next, Go, Finish

\* What is stored was not older than Timeout, and then the token and its use-by
\* time age together.
LEMMA MarginKeptStep ==
    TypeOK /\ AnswerFresh /\ MarginKept /\ [Next]_vars => MarginKept'
<1> SUFFICES ASSUME TypeOK, AnswerFresh, MarginKept, [Next]_vars, Usable'
             PROVE  accessToken'.left >= expiresAt' + Margin - Timeout
  BY DEF MarginKept
<1> USE DEF cache
<1>1. CASE \E c \in Caller : Store(c)
  <2>1. PICK c \in Caller : Store(c)
    BY <1>1
  <2>2. answer \in Answer /\ answer.left >= answer.expiresIn - delay
    BY <2>1 DEF Store, AnswerFresh
  <2>3. answer.left \in Nat /\ answer.expiresIn \in Nat /\ delay \in 0 .. Timeout
    BY <2>2, TimeAssumption DEF Answer, TypeOK
  <2>4. accessToken'.left = answer.left /\ expiresAt' = Window(answer.expiresIn)
    BY <2>1 DEF Store
  <2>5. expiresAt' > 0
    BY DEF Usable
  <2>6. expiresAt' = answer.expiresIn - Margin
    BY <2>3, <2>4, <2>5, TimeAssumption DEF Window
  <2> QED
    BY <2>2, <2>3, <2>4, <2>6, TimeAssumption
<1>2. CASE Tick
  <2>1. accessToken.left \in Nat /\ expiresAt \in Nat
    BY DEF TypeOK, Token
  <2>2. accessToken'.left = Less(accessToken.left) /\ expiresAt' = Less(expiresAt)
        /\ accessToken'.given = accessToken.given
    BY <1>2 DEF Tick
  <2>3. expiresAt' > 0
    BY DEF Usable
  <2>4. Usable /\ expiresAt' = expiresAt - 1
    BY <2>1, <2>2, <2>3 DEF Usable, Less
  <2>5. accessToken.left >= expiresAt + Margin - Timeout
    BY <2>4 DEF MarginKept
  <2>6. accessToken'.left >= accessToken.left - 1
    BY <2>1, <2>2 DEF Less
  <2>7. accessToken'.left \in Nat
    BY <2>1, <2>2 DEF Less
  <2> QED
    BY <2>1, <2>4, <2>5, <2>6, <2>7, TimeAssumption
<1>3. CASE UNCHANGED cache
  BY <1>3 DEF MarginKept, Usable
<1> QED
  BY <1>1, <1>2, <1>3 DEF Next, Go, Finish, Start, RLock, AwaitWriter, Reuse,
     Miss, Lock, Locked, ReuseLocked, Request, Fail, Respond, vars

-----------------------------------------------------------------------------
\* The token cache keeps its invariant, whatever the endpoint answers and however
\* the callers interleave (kafka_oauth.go:57-119).
THEOREM CacheInvariant == Spec => []IInv
<1>1. Init => IInv
  BY InitInvariant
<1>2. IInv /\ [Next]_vars => IInv'
  BY TypeStep, FetchedForNeedStep, NoneWastedStep, AnswerFreshStep, MarginKeptStep
     DEF IInv
<1> QED
  BY <1>1, <1>2, PTL DEF Spec

\* The lock is given up on every path (the deferred Unlock, kafka_oauth.go:69).
THEOREM TypeCorrect == Spec => []TypeOK
<1>1. IInv => TypeOK
  BY DEF IInv
<1> QED
  BY <1>1, CacheInvariant, PTL

\* No usable token is ever replaced (the second check, kafka_oauth.go:71-75).
THEOREM NoTokenWasted == Spec => []NoneWasted
<1>1. IInv => NoneWasted
  BY DEF IInv
<1> QED
  BY <1>1, CacheInvariant, PTL

\* A token that is handed out outlives the margin less the HTTP timeout
\* (kafka_oauth.go:86-90, 114-116).
THEOREM TokensStillValid == Spec => []StillValid
<1>1. IInv => StillValid
  <2> SUFFICES ASSUME IInv, Usable PROVE accessToken.left > Margin - Timeout
    BY DEF StillValid
  <2>1. accessToken.left >= expiresAt + Margin - Timeout
    BY DEF IInv, MarginKept
  <2>2. accessToken.left \in Nat /\ expiresAt \in Nat /\ expiresAt > 0
    BY DEF IInv, TypeOK, Token, Usable
  <2> QED
    BY <2>1, <2>2, TimeAssumption
<1> QED
  BY <1>1, CacheInvariant, PTL
=============================================================================
