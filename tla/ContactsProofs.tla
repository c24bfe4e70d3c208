---------------------------- MODULE ContactsProofs ----------------------------
(***************************************************************************)
(* Proofs about users and contact applications, for every layout, hash,    *)
(* number of requests and number of identifiers.  What readers find        *)
(* follows from where rows are placed; that rows are unique, from the      *)
(* generator's promise, which IDSource states.                             *)
(***************************************************************************)
EXTENDS Contacts, ShardingProofs

\* A row with this identifier was written for the shard value v.
Placed(id, v, dst) ==
    /\ id \in Issued
    /\ ExtractShardVal(id) = v % HashSize
    /\ dst = Shard(Tables, v)

UsersPlaced ==
    \A d \in Dsts(Tables) : \A u \in biz_user[d] : Placed(u.id, Hash[u.email], d)
ApplicationsPlaced ==
    \A d \in Dsts(Tables) : \A a \in contact_application[d] : Placed(a.id, a.target_id, d)
ContactsPlaced ==
    \A d \in Dsts(Tables) : \A c \in user_contact[d] : d = Shard(Tables, c.user_id)

Honest(u, t) == u # t /\ <<u, t>> \in submitted

ApplicationsHonest ==
    \A a \in AllRows(contact_application) : Honest(a.applicant_id, a.target_id)

\* What a request knows when it is at its next statement.
Promises(q) ==
    /\ q.pc = "insertUser" => Placed(q.row.id, Hash[q.row.email], q.dst)
    /\ q.pc = "insertApplication" =>
           /\ Placed(q.row.id, q.row.target_id, q.dst)
           /\ Honest(q.row.applicant_id, q.row.target_id)
           /\ ~q.befriended
    /\ q.pc \in {"checkContact", "findApplicant", "saveApplication"} => Honest(q.u, q.t)
    /\ q.pc = "checkContact" /\ q.befriended => FindByUserIDAndContactID(q.u, q.t) # {}
    /\ q.pc \in {"findApplicant", "saveApplication"} => ~q.befriended

RequestsOK == \A r \in Req : Promises(req[r])

\* The identifiers on their way into a row belong to no row and to one request.
Holds(r) == req[r].pc \in {"insertUser", "insertApplication"}

OneOwner ==
    /\ \A r \in Req : Holds(r) => req[r].row.id \notin UserIDs \cup ApplicationIDs
    /\ \A r, q \in Req : r # q /\ Holds(r) /\ Holds(q) => req[r].row.id # req[q].row.id

IInv ==
    /\ TypeOK
    /\ UsersPlaced /\ ApplicationsPlaced /\ ContactsPlaced
    /\ RequestsOK /\ OneOwner
    /\ RowIDsUnique /\ EmailUnique /\ ApplicationsHonest

-----------------------------------------------------------------------------
\* Tables.

LEMMA IDsAreInts == IDs \subseteq Int
BY LayoutAssumption DEF IDs

LEMMA TablesKnown ==
    /\ Tables \in Layouts
    /\ \A v \in Int : Shard(Tables, v) \in Dsts(Tables)
BY ContactsAssumption, ShardInLayout

\* The table of an identifier is one of the layout.
LEMMA TableOfID == \A id \in IDs : DstFromID(Tables, id) \in Dsts(Tables)
<1> SUFFICES ASSUME NEW id \in IDs PROVE DstFromID(Tables, id) \in Dsts(Tables)
  OBVIOUS
<1>1. ExtractShardVal(id) \in Int
  <2>1. id \in Int /\ SequenceSize \in Nat \ {0} /\ HashSize \in Nat \ {0}
    BY IDsAreInts, LayoutAssumption
  <2>2. id \div SequenceSize \in Int
    BY <2>1
  <2> QED
    BY <2>1, <2>2, ModRange DEF ExtractShardVal
<1>2. DstFromID(Tables, id) = Shard(Tables, ExtractShardVal(id))
  BY DEF DstFromID, DstFromShardVal, Shard
<1> QED
  BY <1>1, <1>2, TablesKnown

LEMMA InAllRows ==
    ASSUME NEW STATE table, NEW x
    PROVE  x \in AllRows(table) <=> \E d \in Dsts(Tables) : x \in table[d]
BY DEF AllRows

\* What the generator promises: an identifier nobody had.
LEMMA FreshID ==
    ASSUME TypeOK, NEW v \in Int, NEW id \in IDs, NextID(v, id)
    PROVE  /\ issued' \in Seq(IDs)
           /\ Issued' = Issued \cup {id} /\ id \notin Issued
           /\ ExtractShardVal(id) = v % HashSize
<1>1. /\ ExtractShardVal(id) = v % HashSize
      /\ issued' = Append(issued, id)
      /\ \A i \in 1 .. Len(issued) :
             ExtractShardVal(issued[i]) = v % HashSize => issued[i] < id
  BY DEF NextID, Generator!Issue, Generator!ExtractShardVal, ExtractShardVal
<1>2. issued \in Seq(IDs)
  BY DEF TypeOK
<1>3. /\ issued' \in Seq(IDs) /\ Len(issued') = Len(issued) + 1 /\ Len(issued) \in Nat
      /\ issued'[Len(issued) + 1] = id
      /\ \A i \in 1 .. Len(issued) : issued'[i] = issued[i]
  BY <1>1, <1>2
<1>4. Issued' = Issued \cup {id}
  <2>1. \A i : i \in 1 .. Len(issued') <=> i \in 1 .. Len(issued) \/ i = Len(issued) + 1
    BY <1>3
  <2>2. Issued' = {issued'[i] : i \in 1 .. Len(issued')}
    BY DEF Issued
  <2> QED
    BY <1>3, <2>1, <2>2, Zenon DEF Issued
<1>5. id \notin Issued
  <2> SUFFICES ASSUME NEW i \in 1 .. Len(issued), issued[i] = id PROVE FALSE
    BY DEF Issued
  <2>1. issued[i] < id /\ id \in Int
    BY <1>1, IDsAreInts
  <2> QED
    BY <2>1
<1> QED
  BY <1>1, <1>3, <1>4, <1>5

\* The locals of a request.
LEMMA Locals ==
    ASSUME TypeOK, NEW r \in Req
    PROVE  /\ At(r, "insertUser") => req[r].dst \in Dsts(Tables) /\ req[r].row \in Users
           /\ At(r, "insertApplication") =>
                  /\ req[r].dst \in Dsts(Tables) /\ req[r].row \in Applications
                  /\ req[r].befriended \in BOOLEAN
           /\ req[r].pc \in {"checkContact", "findApplicant", "saveApplication"} =>
                  req[r] \in [pc : {"checkContact", "findApplicant", "saveApplication"},
                              u : IDs, t : IDs, befriended : BOOLEAN]
<1>1. req[r] \in Requests
  BY DEF TypeOK
<1> QED
  BY <1>1 DEF Requests, Idle, At

-----------------------------------------------------------------------------
LEMMA InitOK == Init => IInv
<1> SUFFICES ASSUME Init PROVE IInv
  OBVIOUS
<1>1. /\ AllRows(biz_user) = {} /\ AllRows(user_contact) = {}
      /\ AllRows(contact_application) = {}
  BY DEF Init, AllRows
<1>2. TypeOK
  BY DEF Init, TypeOK, Requests
<1>3. UsersPlaced /\ ApplicationsPlaced /\ ContactsPlaced
  BY DEF Init, UsersPlaced, ApplicationsPlaced, ContactsPlaced
<1>4. RequestsOK /\ OneOwner
  BY DEF Init, RequestsOK, Promises, OneOwner, Holds, Idle
<1> QED
  BY <1>1, <1>2, <1>3, <1>4 DEF IInv, RowIDsUnique, EmailUnique, ApplicationsHonest,
     UserIDs, ApplicationIDs

\* Requests that do not move keep their promises while identifiers, contacts and
\* the history only grow.
LEMMA RequestsKeep ==
    ASSUME TypeOK, RequestsOK, Issued \subseteq Issued', submitted \subseteq submitted',
           \A u, t \in IDs :
               FindByUserIDAndContactID(u, t) \subseteq FindByUserIDAndContactID(u, t)',
           \A r \in Req : req'[r] = req[r] \/ Promises(req[r])'
    PROVE  RequestsOK'
<1> SUFFICES ASSUME NEW r \in Req, req'[r] = req[r] PROVE Promises(req[r])'
  BY DEF RequestsOK
<1>1. Promises(req[r])
  BY DEF RequestsOK
<1>2. At(r, "checkContact") => req[r].u \in IDs /\ req[r].t \in IDs
  BY Locals DEF At
<1>3. At(r, "checkContact") /\ req[r].befriended =>
          (FindByUserIDAndContactID(req[r].u, req[r].t) # {})'
  <2> SUFFICES ASSUME At(r, "checkContact"), req[r].befriended
               PROVE  (FindByUserIDAndContactID(req[r].u, req[r].t) # {})'
    OBVIOUS
  <2>1. PICK u \in IDs, t \in IDs : u = req[r].u /\ t = req[r].t
    BY <1>2
  <2>2. FindByUserIDAndContactID(u, t) # {}
    BY <1>1, <2>1 DEF Promises, At
  <2>3. FindByUserIDAndContactID(u, t)' # {}
    BY <2>2
  <2>4. u = req'[r].u /\ t = req'[r].t
    BY <2>1
  <2> QED
    BY <2>3, <2>4 DEF FindByUserIDAndContactID, SingleIDSharder
<1> QED
  BY <1>1, <1>3 DEF Promises, Placed, Honest, At

\* A step of one request that writes nothing and holds no new identifier.
LEMMA RequestMoves ==
    ASSUME IInv, NEW r \in Req, UNCHANGED <<issued, stored>>,
           submitted \subseteq submitted', submitted' \subseteq IDs \X IDs,
           req' \in [Req -> Requests], \A q \in Req \ {r} : req'[q] = req[q],
           ~Holds(r)', Promises(req[r])'
    PROVE  IInv'
<1>1. TypeOK'
  BY DEF IInv, TypeOK, stored
<1>2. UsersPlaced' /\ ApplicationsPlaced' /\ ContactsPlaced'
  BY DEF IInv, UsersPlaced, ApplicationsPlaced, ContactsPlaced, Placed, Issued, stored
<1>3. RequestsOK'
  <2>1. Issued' = Issued
    BY DEF Issued
  <2>2. \A u, t \in IDs : FindByUserIDAndContactID(u, t)' = FindByUserIDAndContactID(u, t)
    BY DEF FindByUserIDAndContactID, stored
  <2> QED
    BY <2>1, <2>2, RequestsKeep DEF IInv
<1>4. OneOwner'
  BY DEF IInv, OneOwner, Holds, UserIDs, ApplicationIDs, AllRows, stored
<1>5. RowIDsUnique' /\ EmailUnique'
  BY DEF IInv, RowIDsUnique, EmailUnique, UserIDs, ApplicationIDs, AllRows, stored
<1>6. ApplicationsHonest'
  BY DEF IInv, ApplicationsHonest, Honest, AllRows, stored
<1> QED
  BY <1>1, <1>2, <1>3, <1>4, <1>5, <1>6 DEF IInv

\* Whoever is asked for, its identifier is one.
LEMMA IssuedAreIDs == TypeOK => Issued \cup Strangers \subseteq IDs
BY ContactsAssumption DEF TypeOK, Issued

LEMMA ApplyContactOK ==
    ASSUME IInv, NEW r \in Req, NEW u \in UserIDs, NEW t \in IDs, ApplyContact(r, u, t)
    PROVE  IInv'
<1>1. u \in IDs /\ t \in IDs
  <2>1. \A x \in AllRows(biz_user) : x.id \in IDs
    BY InAllRows DEF IInv, TypeOK, Users
  <2> QED
    BY <2>1 DEF UserIDs
<1> DEFINE b == \E c \in AllRows(user_contact) : c.user_id = u /\ c.contact_id = t
           q == [pc |-> "checkContact", u |-> u, t |-> t, befriended |-> b]
<1>2. req' = [req EXCEPT ![r] = q] /\ u # t /\ submitted' = submitted \cup {<<u, t>>}
      /\ UNCHANGED <<issued, stored>>
  BY DEF ApplyContact, Become
<1>3. b \in BOOLEAN
  OBVIOUS
<1>4. b => FindByUserIDAndContactID(u, t)' # {}
  <2> SUFFICES ASSUME NEW c \in AllRows(user_contact), c.user_id = u, c.contact_id = t
               PROVE  FindByUserIDAndContactID(u, t)' # {}
    OBVIOUS
  <2>1. PICK d \in Dsts(Tables) : c \in user_contact[d]
    BY InAllRows
  <2>2. d = DstFromSharder(SingleIDSharder(u))
    BY <2>1 DEF IInv, ContactsPlaced, Shard, DstFromSharder, DstFromShardVal, SingleIDSharder
  <2>3. c \in FindByUserIDAndContactID(u, t)
    BY <2>1, <2>2 DEF FindByUserIDAndContactID
  <2>4. FindByUserIDAndContactID(u, t)' = FindByUserIDAndContactID(u, t)
    BY <1>2 DEF FindByUserIDAndContactID, stored
  <2> QED
    BY <2>3, <2>4
<1> HIDE DEF b
<1>5. q \in Requests
  BY <1>1, <1>3 DEF Requests
<1>6. req' \in [Req -> Requests] /\ req'[r] = q /\ \A s \in Req \ {r} : req'[s] = req[s]
  BY <1>2, <1>5 DEF IInv, TypeOK
<1>7. submitted \subseteq submitted' /\ submitted' \subseteq IDs \X IDs /\ <<u, t>> \in submitted'
  BY <1>1, <1>2 DEF IInv, TypeOK
<1>8. Promises(req[r])'
  <2>1. req'[r].pc = "checkContact" /\ req'[r].u = u /\ req'[r].t = t
        /\ req'[r].befriended = b
    BY <1>6
  <2> QED
    BY <1>2, <1>4, <1>7, <2>1 DEF Promises, Honest
<1>9. ~Holds(r)'
  BY <1>6 DEF Holds
<1> QED
  BY <1>2, <1>6, <1>7, <1>8, <1>9, RequestMoves

\* CheckContact, FindApplicant and Fail.
LEMMA ReadStepOK ==
    ASSUME IInv, NEW r \in Req, CheckContact(r) \/ FindApplicant(r) \/ Fail(r)
    PROVE  IInv'
<1>1. UNCHANGED <<issued, stored, submitted>>
  BY DEF CheckContact, FindApplicant, Fail
<1>2. submitted' \subseteq IDs \X IDs
  BY <1>1 DEF IInv, TypeOK
<1>3. CASE req' = [req EXCEPT ![r] = Idle]
  <2>1. req' \in [Req -> Requests] /\ req'[r] = Idle /\ \A s \in Req \ {r} : req'[s] = req[s]
    BY <1>3 DEF IInv, TypeOK, Requests
  <2>2. req'[r].pc = "idle"
    BY <2>1 DEF Idle
  <2>3. Promises(req[r])' /\ ~Holds(r)'
    BY <2>2 DEF Promises, Holds
  <2> QED
    BY <1>1, <1>2, <2>1, <2>3, RequestMoves
<1>4. ASSUME NEW l \in {"findApplicant", "saveApplication"},
             req[r].pc \in {"checkContact", "findApplicant"},
             req' = [req EXCEPT ![r] = [req[r] EXCEPT !.pc = l]],
             ~req[r].befriended
      PROVE  IInv'
  <2>1. req[r] \in [pc : {"checkContact", "findApplicant", "saveApplication"},
                    u : IDs, t : IDs, befriended : BOOLEAN]
    BY <1>4, Locals DEF IInv
  <2>2. [req[r] EXCEPT !.pc = l] \in Requests
    BY <2>1 DEF Requests
  <2>3. /\ req' \in [Req -> Requests] /\ \A s \in Req \ {r} : req'[s] = req[s]
        /\ req'[r] = [req[r] EXCEPT !.pc = l]
    BY <1>4, <2>2 DEF IInv, TypeOK
  <2>4. req'[r].pc = l /\ req'[r].u = req[r].u /\ req'[r].t = req[r].t /\ ~req'[r].befriended
    BY <1>4, <2>1, <2>3
  <2>5. Honest(req[r].u, req[r].t)
    BY <1>4 DEF IInv, RequestsOK, Promises
  <2>6. Promises(req[r])' /\ ~Holds(r)'
    BY <1>1, <1>4, <2>4, <2>5 DEF Promises, Honest, Holds
  <2> QED
    BY <1>1, <1>2, <2>3, <2>6, RequestMoves
<1>5. CASE CheckContact(r)
  <2>1. PICK result \in Lookup(FindByUserIDAndContactID(req[r].u, req[r].t)) :
            Become(r, IF result = "not found"
                      THEN [req[r] EXCEPT !.pc = "findApplicant"] ELSE Idle)
    BY <1>5 DEF CheckContact
  <2>2. CASE result = "not found"
    <3>1. FindByUserIDAndContactID(req[r].u, req[r].t) = {}
      BY <2>2 DEF Lookup
    <3>2. req[r].pc = "checkContact"
      BY <1>5 DEF CheckContact, At
    <3>3. ~req[r].befriended
      BY <3>1, <3>2 DEF IInv, RequestsOK, Promises
    <3> QED
      BY <1>4, <2>1, <2>2, <3>2, <3>3 DEF Become
  <2>3. CASE result # "not found"
    BY <1>3, <2>1, <2>3 DEF Become
  <2> QED
    BY <2>2, <2>3
<1>6. CASE FindApplicant(r)
  <2>1. PICK result : Become(r, IF result = "found"
                      THEN [req[r] EXCEPT !.pc = "saveApplication"] ELSE Idle)
    BY <1>6 DEF FindApplicant
  <2>2. req[r].pc = "findApplicant"
    BY <1>6 DEF FindApplicant, At
  <2>3. ~req[r].befriended
    BY <2>2 DEF IInv, RequestsOK, Promises
  <2> QED
    BY <1>3, <1>4, <2>1, <2>2, <2>3 DEF Become
<1>7. CASE Fail(r)
  BY <1>3, <1>7 DEF Fail, Become
<1> QED
  BY <1>5, <1>6, <1>7

\* Every identifier in a row, or on its way into one, was issued.
LEMMA KnownIDs ==
    ASSUME IInv
    PROVE  /\ UserIDs \cup ApplicationIDs \subseteq Issued
           /\ \A r \in Req : Holds(r) => req[r].row.id \in Issued
<1>1. \A u \in AllRows(biz_user) : u.id \in Issued
  BY InAllRows DEF IInv, UsersPlaced, Placed
<1>2. \A a \in AllRows(contact_application) : a.id \in Issued
  BY InAllRows DEF IInv, ApplicationsPlaced, Placed
<1>3. \A r \in Req : Holds(r) => req[r].row.id \in Issued
  BY DEF IInv, RequestsOK, Promises, Placed, Holds
<1> QED
  BY <1>1, <1>2, <1>3 DEF UserIDs, ApplicationIDs

\* A request takes an identifier, which is nobody else's.
LEMMA TakesID ==
    ASSUME IInv, NEW r \in Req, NEW v \in Int, NEW id \in IDs, NextID(v, id),
           UNCHANGED <<stored, submitted>>,
           req' \in [Req -> Requests], \A q \in Req \ {r} : req'[q] = req[q],
           Holds(r)', req'[r].row.id = id, Promises(req[r])'
    PROVE  IInv'
<1>1. issued' \in Seq(IDs) /\ Issued' = Issued \cup {id} /\ id \notin Issued
  BY FreshID DEF IInv
<1>2. TypeOK'
  BY <1>1 DEF IInv, TypeOK, stored
<1>3. UsersPlaced' /\ ApplicationsPlaced' /\ ContactsPlaced'
  BY <1>1 DEF IInv, UsersPlaced, ApplicationsPlaced, ContactsPlaced, Placed, stored
<1>4. RequestsOK'
  <2>1. \A u, t \in IDs : FindByUserIDAndContactID(u, t)' = FindByUserIDAndContactID(u, t)
    BY DEF FindByUserIDAndContactID, stored
  <2> QED
    BY <1>1, <2>1, RequestsKeep DEF IInv
<1>5. UserIDs' = UserIDs /\ ApplicationIDs' = ApplicationIDs
  BY DEF UserIDs, ApplicationIDs, AllRows, stored
<1>6. OneOwner'
  <2>1. \A q \in Req \ {r} : (Holds(q)' => Holds(q)) /\ req'[q].row = req[q].row
    BY DEF Holds
  <2>2. id \notin UserIDs \cup ApplicationIDs /\ \A q \in Req : Holds(q) => req[q].row.id # id
    BY <1>1, KnownIDs
  <2>3. \A q \in Req : Holds(q)' => req'[q].row.id \notin UserIDs' \cup ApplicationIDs'
    BY <1>5, <2>1, <2>2 DEF IInv, OneOwner
  <2>4. \A p, q \in Req : p # q /\ Holds(p)' /\ Holds(q)' => req'[p].row.id # req'[q].row.id
    BY <2>1, <2>2 DEF IInv, OneOwner
  <2> QED
    BY <2>3, <2>4 DEF OneOwner, Holds
<1>7. RowIDsUnique' /\ EmailUnique'
  BY <1>5 DEF IInv, RowIDsUnique, EmailUnique, AllRows, stored
<1>8. ApplicationsHonest'
  BY DEF IInv, ApplicationsHonest, Honest, AllRows, stored
<1> QED
  BY <1>2, <1>3, <1>4, <1>6, <1>7, <1>8 DEF IInv

LEMMA AddUserOK ==
    ASSUME IInv, NEW r \in Req, NEW email \in Emails, NEW mobile \in Mobiles,
           AddUser(r, email, mobile)
    PROVE  IInv'
<1> DEFINE v == StringSharder(email)
<1>1. v \in Int /\ v = Hash[email]
  BY ContactsAssumption DEF StringSharder
<1>2. PICK id \in IDs :
        /\ NextID(v, id)
        /\ Become(r, [pc |-> "insertUser", dst |-> Shard(Tables, v),
                      row |-> [id |-> id, email |-> email, mobile |-> mobile]])
  BY DEF AddUser, UserToInsert
<1>3. UNCHANGED <<stored, submitted>>
  BY DEF AddUser
<1>4. Shard(Tables, v) \in Dsts(Tables)
  BY <1>1, TablesKnown
<1> HIDE DEF v
<1> DEFINE row == [id |-> id, email |-> email, mobile |-> mobile]
           q == [pc |-> "insertUser", dst |-> Shard(Tables, v), row |-> row]
<1>5. row \in Users /\ row.id = id /\ row.email = email
  BY DEF Users
<1> HIDE DEF row
<1>6. q \in Requests
  BY <1>4, <1>5 DEF Requests
<1>7. /\ req' \in [Req -> Requests] /\ \A s \in Req \ {r} : req'[s] = req[s]
      /\ req'[r] = q
  BY <1>2, <1>6 DEF IInv, TypeOK, Become, row
<1>8. /\ req'[r].pc = "insertUser" /\ req'[r].row = row
      /\ req'[r].dst = Shard(Tables, v)
  BY <1>7
<1>9. id \in Issued' /\ ExtractShardVal(id) = v % HashSize
  BY <1>1, <1>2, FreshID DEF IInv
<1>10. Promises(req[r])' /\ Holds(r)'
  BY <1>1, <1>5, <1>8, <1>9 DEF Promises, Holds, Placed
<1> QED
  BY <1>1, <1>2, <1>3, <1>5, <1>7, <1>8, <1>10, TakesID

LEMMA SaveApplicationOK ==
    ASSUME IInv, NEW r \in Req, SaveApplication(r)
    PROVE  IInv'
<1>1. At(r, "saveApplication") /\ UNCHANGED <<stored, submitted>>
  BY DEF SaveApplication
<1>2. req[r].u \in IDs /\ req[r].t \in IDs /\ req[r].befriended = FALSE
      /\ Honest(req[r].u, req[r].t)
  <2>1. req[r].u \in IDs /\ req[r].t \in IDs /\ req[r].befriended \in BOOLEAN
    BY <1>1, Locals DEF IInv, At
  <2> QED
    BY <1>1, <2>1 DEF IInv, RequestsOK, Promises, At
<1>3. PICK u \in IDs, v \in IDs : u = req[r].u /\ v = req[r].t
  BY <1>2
<1>4. PICK id \in IDs :
        /\ NextID(v, id)
        /\ Become(r, [pc |-> "insertApplication", dst |-> Shard(Tables, v),
                      row |-> [id |-> id, target_id |-> v, applicant_id |-> u,
                               status |-> "pending"],
                      befriended |-> FALSE])
  BY <1>2, <1>3 DEF SaveApplication, ApplicationToInsert, SingleIDSharder
<1>5. v \in Int /\ Shard(Tables, v) \in Dsts(Tables)
  BY IDsAreInts, TablesKnown
<1> DEFINE row == [id |-> id, target_id |-> v, applicant_id |-> u, status |-> "pending"]
           q == [pc |-> "insertApplication", dst |-> Shard(Tables, v), row |-> row,
                 befriended |-> FALSE]
<1>6. row \in Applications /\ row.id = id /\ row.target_id = v /\ row.applicant_id = u
  BY DEF Applications, Status
<1> HIDE DEF row
<1>7. q \in Requests
  BY <1>5, <1>6 DEF Requests
<1>8. /\ req' \in [Req -> Requests] /\ \A s \in Req \ {r} : req'[s] = req[s]
      /\ req'[r] = q
  BY <1>4, <1>7 DEF IInv, TypeOK, Become, row
<1>9. /\ req'[r].pc = "insertApplication" /\ req'[r].row = row
      /\ req'[r].dst = Shard(Tables, v) /\ req'[r].befriended = FALSE
  BY <1>8
<1>10. id \in Issued' /\ ExtractShardVal(id) = v % HashSize
  BY <1>4, <1>5, FreshID DEF IInv
<1>11. Promises(req[r])' /\ Holds(r)'
  BY <1>1, <1>2, <1>3, <1>6, <1>9, <1>10 DEF Promises, Holds, Placed, Honest
<1> QED
  BY <1>1, <1>4, <1>5, <1>6, <1>8, <1>9, <1>11, TakesID

\* The request r, whose row was written, is idle.
LEMMA BecomesIdle ==
    ASSUME TypeOK, NEW r \in Req, Become(r, Idle)
    PROVE  /\ req' \in [Req -> Requests] /\ \A q \in Req \ {r} : req'[q] = req[q]
           /\ Promises(req[r])' /\ ~Holds(r)'
<1>1. /\ req' \in [Req -> Requests] /\ \A q \in Req \ {r} : req'[q] = req[q]
      /\ req'[r] = Idle
  BY DEF TypeOK, Become, Requests
<1>2. req'[r].pc = "idle"
  BY <1>1 DEF Idle
<1> QED
  BY <1>1, <1>2 DEF Promises, Holds

LEMMA InsertUserOK ==
    ASSUME IInv, NEW r \in Req, InsertUser(r)
    PROVE  IInv'
<1> DEFINE row == req[r].row
           dst == req[r].dst
<1>1. /\ At(r, "insertUser") /\ ~Conflict(dst, row)
      /\ biz_user' = Insert(biz_user, dst, row) /\ Become(r, Idle)
      /\ UNCHANGED <<issued, user_contact, contact_application, submitted>>
  BY DEF InsertUser
<1>2. dst \in Dsts(Tables) /\ row \in Users /\ Placed(row.id, Hash[row.email], dst) /\ Holds(r)
  BY <1>1, Locals DEF IInv, RequestsOK, Promises, At, Holds
<1>3. PICK d \in Dsts(Tables), u \in Users : d = dst /\ u = row
  BY <1>2
<1> HIDE DEF row, dst
<1>4. /\ biz_user' \in [Dsts(Tables) -> SUBSET Users]
      /\ biz_user'[d] = biz_user[d] \cup {u}
      /\ \A e \in Dsts(Tables) \ {d} : biz_user'[e] = biz_user[e]
      /\ AllRows(biz_user)' = AllRows(biz_user) \cup {u}
  <2>1. /\ biz_user' = Insert(biz_user, d, u)
        /\ biz_user \in [Dsts(Tables) -> SUBSET Users]
    BY <1>1, <1>3 DEF IInv, TypeOK
  <2>2. /\ biz_user' \in [Dsts(Tables) -> SUBSET Users]
        /\ biz_user'[d] = biz_user[d] \cup {u}
        /\ \A e \in Dsts(Tables) \ {d} : biz_user'[e] = biz_user[e]
    BY <2>1 DEF Insert
  <2>3. AllRows(biz_user)' = AllRows(biz_user) \cup {u}
    BY <2>2 DEF AllRows
  <2> QED
    BY <2>2, <2>3
<1>5. /\ req' \in [Req -> Requests] /\ \A q \in Req \ {r} : req'[q] = req[q]
      /\ Promises(req[r])' /\ ~Holds(r)'
  BY <1>1, BecomesIdle DEF IInv
<1>6. TypeOK'
  BY <1>1, <1>4, <1>5 DEF IInv, TypeOK
<1>7. UsersPlaced'
  <2>1. \A e \in Dsts(Tables) : \A w \in biz_user'[e] : w \in biz_user[e] \/ (e = d /\ w = u)
    BY <1>4
  <2>2. Placed(u.id, Hash[u.email], d)
    BY <1>2, <1>3
  <2> QED
    BY <1>1, <2>1, <2>2 DEF IInv, UsersPlaced, Placed, Issued
<1>8. ApplicationsPlaced' /\ ContactsPlaced'
  BY <1>1 DEF IInv, ApplicationsPlaced, ContactsPlaced, Placed, Issued
<1>9. RequestsOK'
  <2>1. \A x, t \in IDs : FindByUserIDAndContactID(x, t)' = FindByUserIDAndContactID(x, t)
    BY <1>1 DEF FindByUserIDAndContactID
  <2> QED
    BY <1>1, <1>5, <2>1, RequestsKeep DEF IInv, Issued
<1>10. UserIDs' = UserIDs \cup {u.id} /\ ApplicationIDs' = ApplicationIDs
  <2>1. AllRows(contact_application)' = AllRows(contact_application)
    BY <1>1 DEF AllRows
  <2> QED
    BY <1>4, <2>1 DEF UserIDs, ApplicationIDs
<1>11. u.id \notin UserIDs \cup ApplicationIDs
       /\ \A q \in Req \ {r} : Holds(q) => req[q].row.id # u.id
  BY <1>2, <1>3 DEF IInv, OneOwner, row
<1>12. OneOwner'
  BY <1>5, <1>10, <1>11 DEF IInv, OneOwner, Holds
<1>13. RowIDsUnique'
  <2>1. UserIDs' \cap ApplicationIDs' = {}
    BY <1>10, <1>11 DEF IInv, RowIDsUnique
  <2>2. \A w \in AllRows(biz_user) : w.id # u.id
    BY <1>11 DEF UserIDs
  <2>3. AllRows(contact_application)' = AllRows(contact_application)
    BY <1>1 DEF AllRows
  <2> QED
    BY <1>4, <2>1, <2>2, <2>3 DEF IInv, RowIDsUnique
<1>14. EmailUnique'
  <2>1. ASSUME NEW w \in AllRows(biz_user), w.email = u.email PROVE FALSE
    <3>1. PICK e \in Dsts(Tables) : w \in biz_user[e]
      BY InAllRows
    <3>2. e = d
      BY <1>2, <1>3, <2>1, <3>1 DEF IInv, UsersPlaced, Placed
    <3> QED
      BY <1>1, <1>3, <2>1, <3>1, <3>2 DEF Conflict
  <2> QED
    BY <1>4, <2>1 DEF IInv, EmailUnique
<1>15. ApplicationsHonest'
  BY <1>1 DEF IInv, ApplicationsHonest, Honest, AllRows
<1> QED
  BY <1>6, <1>7, <1>8, <1>9, <1>12, <1>13, <1>14, <1>15 DEF IInv

LEMMA InsertApplicationOK ==
    ASSUME IInv, NEW r \in Req, InsertApplication(r)
    PROVE  IInv'
<1> DEFINE row == req[r].row
           dst == req[r].dst
<1>1. /\ At(r, "insertApplication") /\ Become(r, Idle)
      /\ contact_application' = Insert(contact_application, dst, row)
      /\ UNCHANGED <<issued, biz_user, user_contact, submitted>>
  BY DEF InsertApplication
<1>2. /\ dst \in Dsts(Tables) /\ row \in Applications /\ Holds(r)
      /\ Placed(row.id, row.target_id, dst) /\ Honest(row.applicant_id, row.target_id)
  BY <1>1, Locals DEF IInv, RequestsOK, Promises, At, Holds
<1>3. PICK d \in Dsts(Tables), a \in Applications : d = dst /\ a = row
  BY <1>2
<1> HIDE DEF row, dst
<1>4. /\ contact_application' \in [Dsts(Tables) -> SUBSET Applications]
      /\ contact_application'[d] = contact_application[d] \cup {a}
      /\ \A e \in Dsts(Tables) \ {d} : contact_application'[e] = contact_application[e]
      /\ AllRows(contact_application)' = AllRows(contact_application) \cup {a}
  <2>1. /\ contact_application' = Insert(contact_application, d, a)
        /\ contact_application \in [Dsts(Tables) -> SUBSET Applications]
    BY <1>1, <1>3 DEF IInv, TypeOK
  <2>2. /\ contact_application' \in [Dsts(Tables) -> SUBSET Applications]
        /\ contact_application'[d] = contact_application[d] \cup {a}
        /\ \A e \in Dsts(Tables) \ {d} : contact_application'[e] = contact_application[e]
    BY <2>1 DEF Insert
  <2>3. AllRows(contact_application)' = AllRows(contact_application) \cup {a}
    BY <2>2 DEF AllRows
  <2> QED
    BY <2>2, <2>3
<1>5. /\ req' \in [Req -> Requests] /\ \A q \in Req \ {r} : req'[q] = req[q]
      /\ Promises(req[r])' /\ ~Holds(r)'
  BY <1>1, BecomesIdle DEF IInv
<1>6. TypeOK'
  BY <1>1, <1>4, <1>5 DEF IInv, TypeOK
<1>7. ApplicationsPlaced'
  <2>1. \A e \in Dsts(Tables) : \A b \in contact_application'[e] :
            b \in contact_application[e] \/ (e = d /\ b = a)
    BY <1>4
  <2>2. Placed(a.id, a.target_id, d)
    BY <1>2, <1>3
  <2> QED
    BY <1>1, <2>1, <2>2 DEF IInv, ApplicationsPlaced, Placed, Issued
<1>8. UsersPlaced' /\ ContactsPlaced'
  BY <1>1 DEF IInv, UsersPlaced, ContactsPlaced, Placed, Issued
<1>9. RequestsOK'
  <2>1. \A x, t \in IDs : FindByUserIDAndContactID(x, t)' = FindByUserIDAndContactID(x, t)
    BY <1>1 DEF FindByUserIDAndContactID
  <2> QED
    BY <1>1, <1>5, <2>1, RequestsKeep DEF IInv, Issued
<1>10. UserIDs' = UserIDs /\ ApplicationIDs' = ApplicationIDs \cup {a.id}
  <2>1. AllRows(biz_user)' = AllRows(biz_user)
    BY <1>1 DEF AllRows
  <2> QED
    BY <1>4, <2>1 DEF UserIDs, ApplicationIDs
<1>11. a.id \notin UserIDs \cup ApplicationIDs
       /\ \A q \in Req \ {r} : Holds(q) => req[q].row.id # a.id
  BY <1>2, <1>3 DEF IInv, OneOwner, row
<1>12. OneOwner'
  BY <1>5, <1>10, <1>11 DEF IInv, OneOwner, Holds
<1>13. RowIDsUnique' /\ EmailUnique'
  <2>1. UserIDs' \cap ApplicationIDs' = {}
    BY <1>10, <1>11 DEF IInv, RowIDsUnique
  <2>2. \A b \in AllRows(contact_application) : b.id # a.id
    BY <1>11 DEF ApplicationIDs
  <2>3. AllRows(biz_user)' = AllRows(biz_user)
    BY <1>1 DEF AllRows
  <2> QED
    BY <1>4, <2>1, <2>2, <2>3 DEF IInv, RowIDsUnique, EmailUnique
<1>14. ApplicationsHonest'
  BY <1>1, <1>2, <1>3, <1>4 DEF IInv, ApplicationsHonest, Honest
<1> QED
  BY <1>6, <1>7, <1>8, <1>9, <1>12, <1>13, <1>14 DEF IInv

\* What a review makes of the row a of table e.
Reviewed(a, e, id, status) ==
    IF e = DstFromID(Tables, id) /\ a.id = id THEN [a EXCEPT !.status = status] ELSE a

LEMMA ReviewKeeps ==
    ASSUME NEW a \in Applications, NEW e, NEW id, NEW status \in Status
    PROVE  /\ Reviewed(a, e, id, status) \in Applications
           /\ Reviewed(a, e, id, status).id = a.id
           /\ Reviewed(a, e, id, status).target_id = a.target_id
           /\ Reviewed(a, e, id, status).applicant_id = a.applicant_id
BY DEF Reviewed, Applications, Status

\* An update changes the rows it finds and nothing else.
LEMMA TablesReviewed ==
    ASSUME TypeOK, NEW id \in IDs, NEW status \in Status, UpdateStatus(id, status)
    PROVE  /\ contact_application' \in [Dsts(Tables) -> SUBSET Applications]
           /\ \A e \in Dsts(Tables) :
                  contact_application'[e] =
                      {Reviewed(a, e, id, status) : a \in contact_application[e]}
<1> DEFINE d == DstFromID(Tables, id)
           new == (contact_application[d] \ UpdatedRows(id))
                      \cup {[a EXCEPT !.status = status] : a \in UpdatedRows(id)}
<1>1. d \in Dsts(Tables)
  BY TableOfID
<1>2. UpdatedRows(id) = {a \in contact_application[d] : a.id = id}
  BY DEF UpdatedRows
<1>3. contact_application \in [Dsts(Tables) -> SUBSET Applications]
  BY DEF TypeOK
<1>4. contact_application' = [contact_application EXCEPT ![d] = new]
  BY DEF UpdateStatus
<1>5. /\ contact_application'[d] = new
      /\ \A e \in Dsts(Tables) \ {d} : contact_application'[e] = contact_application[e]
      /\ DOMAIN contact_application' = Dsts(Tables)
      /\ contact_application' = [e \in Dsts(Tables) |-> contact_application'[e]]
  <2> HIDE DEF new, d
  <2> QED
    BY <1>1, <1>3, <1>4
<1>6. new = {Reviewed(a, d, id, status) : a \in contact_application[d]}
  BY <1>2 DEF Reviewed
<1> HIDE DEF d, new
<1>7. ASSUME NEW e \in Dsts(Tables)
      PROVE  contact_application'[e] =
                 {Reviewed(a, e, id, status) : a \in contact_application[e]}
  <2>1. CASE e = d
    BY <1>5, <1>6, <2>1
  <2>2. CASE e # d
    BY <1>5, <2>2 DEF Reviewed, d
  <2> QED
    BY <2>1, <2>2
<1>8. \A e \in Dsts(Tables) : contact_application'[e] \in SUBSET Applications
  BY <1>3, <1>7, ReviewKeeps
<1>9. contact_application' \in [Dsts(Tables) -> SUBSET Applications]
  BY <1>5, <1>8, Zenon
<1> QED
  BY <1>7, <1>9

LEMMA UpdateStatusOK ==
    ASSUME IInv, NEW id \in ApplicationIDs, NEW status \in Status, UpdateStatus(id, status)
    PROVE  IInv'
<1> DEFINE f(a, e) == Reviewed(a, e, id, status)
<1>1. \A e \in Dsts(Tables) : contact_application[e] \subseteq Applications
  BY DEF IInv, TypeOK
<1>2. id \in IDs
  <2>1. \A a \in AllRows(contact_application) : a.id \in IDs
    BY <1>1, InAllRows DEF Applications
  <2> QED
    BY <2>1 DEF ApplicationIDs
<1>3. /\ contact_application' \in [Dsts(Tables) -> SUBSET Applications]
      /\ \A e \in Dsts(Tables) :
             contact_application'[e] = {f(a, e) : a \in contact_application[e]}
  BY <1>2, TablesReviewed DEF IInv
<1>4. \A e \in Dsts(Tables) : \A a \in contact_application[e] :
          /\ f(a, e).id = a.id /\ f(a, e).target_id = a.target_id
          /\ f(a, e).applicant_id = a.applicant_id
  BY <1>1, ReviewKeeps
<1>5. UNCHANGED <<issued, biz_user, user_contact, req, submitted>>
  BY DEF UpdateStatus
<1> HIDE DEF f
<1>6. \A b : b \in AllRows(contact_application)' <=>
          \E e \in Dsts(Tables) : \E a \in contact_application[e] : b = f(a, e)
  BY <1>3 DEF AllRows
<1>7. ApplicationIDs' = ApplicationIDs /\ UserIDs' = UserIDs
  <2>1. AllRows(biz_user)' = AllRows(biz_user)
    BY <1>5 DEF AllRows
  <2>2. \A b \in AllRows(contact_application)' : b.id \in ApplicationIDs
    BY <1>4, <1>6, InAllRows DEF ApplicationIDs
  <2>3. \A a \in AllRows(contact_application) :
            \E b \in AllRows(contact_application)' : b.id = a.id
    BY <1>4, <1>6, InAllRows
  <2> QED
    BY <2>1, <2>2, <2>3 DEF ApplicationIDs, UserIDs
<1>8. TypeOK'
  BY <1>3, <1>5 DEF IInv, TypeOK
<1>9. ApplicationsPlaced'
  <2> SUFFICES ASSUME NEW e \in Dsts(Tables), NEW b \in contact_application'[e]
               PROVE  Placed(b.id, b.target_id, e)'
    BY DEF ApplicationsPlaced
  <2>1. PICK a \in contact_application[e] : b = f(a, e)
    BY <1>3
  <2>2. Placed(a.id, a.target_id, e) /\ b.id = a.id /\ b.target_id = a.target_id
    BY <1>4, <2>1 DEF IInv, ApplicationsPlaced
  <2> QED
    BY <1>5, <2>2 DEF Placed, Issued
<1>10. UsersPlaced' /\ ContactsPlaced'
  BY <1>5 DEF IInv, UsersPlaced, ContactsPlaced, Placed, Issued
<1>11. RequestsOK'
  <2>1. \A u, t \in IDs : FindByUserIDAndContactID(u, t)' = FindByUserIDAndContactID(u, t)
    BY <1>5 DEF FindByUserIDAndContactID
  <2> QED
    BY <1>5, <2>1, RequestsKeep DEF IInv, Issued
<1>12. OneOwner'
  BY <1>5, <1>7 DEF IInv, OneOwner, Holds
<1>13. RowIDsUnique' /\ EmailUnique'
  <2>1. ASSUME NEW b \in AllRows(contact_application)', NEW c \in AllRows(contact_application)',
               b.id = c.id
        PROVE  b = c
    <3>1. PICK e, a : e \in Dsts(Tables) /\ a \in contact_application[e] /\ b = f(a, e)
      BY <1>6
    <3>2. PICK g, h : g \in Dsts(Tables) /\ h \in contact_application[g] /\ c = f(h, g)
      BY <1>6
    <3>3. a.id = h.id
      BY <1>4, <2>1, <3>1, <3>2
    <3>4. a = h
      BY <3>1, <3>2, <3>3, InAllRows DEF IInv, RowIDsUnique
    <3>5. e = g
      BY <3>1, <3>2, <3>4 DEF IInv, ApplicationsPlaced, Placed
    <3> QED
      BY <3>1, <3>2, <3>4, <3>5
  <2>2. AllRows(biz_user)' = AllRows(biz_user)
    BY <1>5 DEF AllRows
  <2> QED
    BY <1>7, <2>1, <2>2 DEF IInv, RowIDsUnique, EmailUnique
<1>14. ApplicationsHonest'
  <2> SUFFICES ASSUME NEW b \in AllRows(contact_application)'
               PROVE  Honest(b.applicant_id, b.target_id)'
    BY DEF ApplicationsHonest
  <2>1. PICK e, a : e \in Dsts(Tables) /\ a \in contact_application[e] /\ b = f(a, e)
    BY <1>6
  <2>2. Honest(a.applicant_id, a.target_id)
    BY <2>1, InAllRows DEF IInv, ApplicationsHonest
  <2> QED
    BY <1>4, <1>5, <2>1, <2>2 DEF Honest
<1> QED
  BY <1>8, <1>9, <1>10, <1>11, <1>12, <1>13, <1>14 DEF IInv

LEMMA BefriendOK ==
    ASSUME IInv, NEW u \in UserIDs, NEW t \in UserIDs, Befriend(u, t)
    PROVE  IInv'
<1>1. u \in IDs /\ t \in IDs /\ Shard(Tables, u) \in Dsts(Tables)
  <2>1. \A x \in AllRows(biz_user) : x.id \in IDs
    BY InAllRows DEF IInv, TypeOK, Users
  <2> QED
    BY <2>1, IDsAreInts, TablesKnown DEF UserIDs
<1> DEFINE c == [user_id |-> u, contact_id |-> t]
<1>2. c \in ContactRows /\ c.user_id = u
  BY <1>1 DEF ContactRows
<1>3. /\ user_contact' = Insert(user_contact, Shard(Tables, u), c)
      /\ UNCHANGED <<issued, biz_user, contact_application, req, submitted>>
  BY DEF Befriend
<1> HIDE DEF c
<1>4. /\ user_contact' \in [Dsts(Tables) -> SUBSET ContactRows]
      /\ user_contact'[Shard(Tables, u)] = user_contact[Shard(Tables, u)] \cup {c}
      /\ \A e \in Dsts(Tables) \ {Shard(Tables, u)} : user_contact'[e] = user_contact[e]
  BY <1>1, <1>2, <1>3 DEF IInv, TypeOK, Insert
<1>5. TypeOK'
  BY <1>3, <1>4 DEF IInv, TypeOK
<1>6. ContactsPlaced'
  BY <1>2, <1>4 DEF IInv, ContactsPlaced
<1>7. UsersPlaced' /\ ApplicationsPlaced'
  BY <1>3 DEF IInv, UsersPlaced, ApplicationsPlaced, Placed, Issued
<1>8. RequestsOK'
  <2>1. \A e \in Dsts(Tables) : user_contact[e] \subseteq user_contact'[e]
    BY <1>4
  <2>2. \A x \in IDs : DstFromSharder(SingleIDSharder(x)) \in Dsts(Tables)
    <3>1. \A x \in IDs : DstFromSharder(SingleIDSharder(x)) = Shard(Tables, x)
      BY DEF DstFromSharder, DstFromShardVal, SingleIDSharder, Shard
    <3> QED
      BY <3>1, IDsAreInts, TablesKnown
  <2>3. \A x, y \in IDs :
            FindByUserIDAndContactID(x, y) \subseteq FindByUserIDAndContactID(x, y)'
    BY <2>1, <2>2 DEF FindByUserIDAndContactID
  <2> QED
    BY <1>3, <2>3, RequestsKeep DEF IInv, Issued
<1>9. OneOwner' /\ RowIDsUnique' /\ EmailUnique' /\ ApplicationsHonest'
  <2>1. /\ AllRows(biz_user)' = AllRows(biz_user)
        /\ AllRows(contact_application)' = AllRows(contact_application)
    BY <1>3 DEF AllRows
  <2>2. UserIDs' = UserIDs /\ ApplicationIDs' = ApplicationIDs
    BY <2>1 DEF UserIDs, ApplicationIDs
  <2>3. OneOwner'
    BY <1>3, <2>2 DEF IInv, OneOwner, Holds
  <2>4. RowIDsUnique' /\ EmailUnique'
    BY <2>1, <2>2 DEF IInv, RowIDsUnique, EmailUnique
  <2>5. ApplicationsHonest'
    BY <1>3, <2>1 DEF IInv, ApplicationsHonest, Honest
  <2> QED
    BY <2>3, <2>4, <2>5
<1> QED
  BY <1>5, <1>6, <1>7, <1>8, <1>9 DEF IInv

LEMMA CrashOK == ASSUME IInv, Crash PROVE IInv'
<1>1. /\ req' = [r \in Req |-> Idle]
      /\ UNCHANGED <<issued, biz_user, user_contact, contact_application, submitted>>
  BY DEF Crash, stored
<1>2. req' \in [Req -> Requests] /\ \A r \in Req : req'[r].pc = "idle"
  BY <1>1 DEF Requests, Idle
<1>3. TypeOK' /\ UsersPlaced' /\ ApplicationsPlaced' /\ ContactsPlaced'
  BY <1>1, <1>2 DEF IInv, TypeOK, UsersPlaced, ApplicationsPlaced, ContactsPlaced,
     Placed, Issued
<1>4. RequestsOK' /\ OneOwner'
  BY <1>2 DEF RequestsOK, Promises, OneOwner, Holds
<1>5. RowIDsUnique' /\ EmailUnique' /\ ApplicationsHonest'
  BY <1>1 DEF IInv, RowIDsUnique, EmailUnique, ApplicationsHonest, Honest, UserIDs,
     ApplicationIDs, AllRows
<1> QED
  BY <1>3, <1>4, <1>5 DEF IInv

LEMMA StutterOK == IInv /\ UNCHANGED vars => IInv'
<1> SUFFICES ASSUME IInv, UNCHANGED vars PROVE IInv'
  OBVIOUS
<1>1. UNCHANGED <<issued, biz_user, user_contact, contact_application, req, submitted>>
  BY DEF vars
<1>2. TypeOK' /\ UsersPlaced' /\ ApplicationsPlaced' /\ ContactsPlaced'
  BY <1>1 DEF IInv, TypeOK, UsersPlaced, ApplicationsPlaced, ContactsPlaced, Placed, Issued
<1>3. RequestsOK'
  <2>1. \A u, t \in IDs : FindByUserIDAndContactID(u, t)' = FindByUserIDAndContactID(u, t)
    BY <1>1 DEF FindByUserIDAndContactID
  <2> QED
    BY <1>1, <2>1, RequestsKeep DEF IInv, Issued
<1>4. OneOwner' /\ RowIDsUnique' /\ EmailUnique' /\ ApplicationsHonest'
  <2>1. /\ AllRows(biz_user)' = AllRows(biz_user)
        /\ AllRows(contact_application)' = AllRows(contact_application)
    BY <1>1 DEF AllRows
  <2>2. UserIDs' = UserIDs /\ ApplicationIDs' = ApplicationIDs
    BY <2>1 DEF UserIDs, ApplicationIDs
  <2>3. OneOwner'
    BY <1>1, <2>2 DEF IInv, OneOwner, Holds
  <2>4. RowIDsUnique' /\ EmailUnique'
    BY <2>1, <2>2 DEF IInv, RowIDsUnique, EmailUnique
  <2>5. ApplicationsHonest'
    BY <1>1, <2>1 DEF IInv, ApplicationsHonest, Honest
  <2> QED
    BY <2>3, <2>4, <2>5
<1> QED
  BY <1>2, <1>3, <1>4 DEF IInv

LEMMA StepOK == IInv /\ [Next]_vars => IInv'
<1> SUFFICES ASSUME IInv, [Next]_vars PROVE IInv'
  OBVIOUS
<1>1. ASSUME NEW r \in Req, Step(r) PROVE IInv'
  <2>1. CASE \E email \in Emails, mobile \in Mobiles : AddUser(r, email, mobile)
    BY <2>1, AddUserOK
  <2>2. CASE InsertUser(r)
    BY <2>2, InsertUserOK
  <2>3. CASE \E u \in UserIDs, t \in Issued \cup Strangers : ApplyContact(r, u, t)
    BY <2>3, IssuedAreIDs, ApplyContactOK DEF IInv
  <2>4. CASE CheckContact(r) \/ FindApplicant(r) \/ Fail(r)
    BY <2>4, ReadStepOK
  <2>5. CASE SaveApplication(r)
    BY <2>5, SaveApplicationOK
  <2>6. CASE InsertApplication(r)
    BY <2>6, InsertApplicationOK
  <2> QED
    BY <1>1, <2>1, <2>2, <2>3, <2>4, <2>5, <2>6 DEF Step, Issued
<1>2. CASE \E id \in ApplicationIDs, status \in Status : UpdateStatus(id, status)
  BY <1>2, UpdateStatusOK
<1>3. CASE \E u, t \in UserIDs : u # t /\ Befriend(u, t)
  BY <1>3, BefriendOK
<1>4. CASE Crash
  BY <1>4, CrashOK
<1>5. CASE UNCHANGED vars
  BY <1>5, StutterOK
<1> QED
  BY <1>1, <1>2, <1>3, <1>4, <1>5 DEF Next, Others

\* The invariant everything below follows from.
THEOREM Invariant == Spec => []IInv
BY InitOK, StepOK, PTL DEF Spec

-----------------------------------------------------------------------------
\* Routing by identifier agrees with routing by shard value.

\* The number of tables divides what the shard field of an identifier can hold.
\* Nothing in the code checks it: 2 x 2 tables and 10 bits do.
RoutesMatch == \E k \in Nat \ {0} : HashSize = k * Total(Tables)

LEMMA SameTable ==
    ASSUME RoutesMatch, NEW id, NEW v \in Int, NEW d, Placed(id, v, d)
    PROVE  DstFromID(Tables, id) = d /\ DstFromShardVal(Tables, v) = d
<1>1. PICK k \in Nat \ {0} : HashSize = k * Total(Tables)
  BY DEF RoutesMatch
<1>2. Total(Tables) \in Nat \ {0}
  BY TablesKnown, LayoutPositive
<1>3. (v % HashSize) % Total(Tables) = v % Total(Tables)
  <2> DEFINE n == Total(Tables)
  <2> HIDE DEF n
  <2>1. n \in Nat \ {0} /\ HashSize = k * n
    BY <1>1, <1>2 DEF n
  <2>2. (v % (k * n)) % n = v % n
    BY <2>1, ModMod
  <2> QED
    BY <2>1, <2>2 DEF n
<1>4. ExtractShardVal(id) = v % HashSize /\ d = Shard(Tables, v)
  BY DEF Placed
<1> QED
  BY <1>3, <1>4 DEF DstFromID, DstFromShardVal, Shard

LEMMA FindersFind ==
    ASSUME RoutesMatch, IInv
    PROVE  UsersFound /\ UpdatesReach
<1>1. ASSUME NEW u \in AllRows(biz_user)
      PROVE  FindByID(u.id) = {u} /\ FindByEmail(u.email) = {u}
  <2>1. PICK d \in Dsts(Tables) : u \in biz_user[d]
    BY InAllRows
  <2>2. Placed(u.id, Hash[u.email], d) /\ Hash[u.email] \in Int
    <3>1. u \in Users
      BY <2>1 DEF IInv, TypeOK
    <3> QED
      BY <2>1, <3>1, ContactsAssumption DEF IInv, UsersPlaced, Users
  <2>3. DstFromID(Tables, u.id) = d /\ DstFromShardVal(Tables, Hash[u.email]) = d
    BY <2>2, SameTable
  <2>4. \A w \in biz_user[d] : w \in AllRows(biz_user)
    BY InAllRows
  <2>5. FindByID(u.id) = {u}
    BY <2>1, <2>3, <2>4 DEF FindByID, IInv, RowIDsUnique
  <2>6. FindByEmail(u.email) = {u}
    BY <2>1, <2>3, <2>4 DEF FindByEmail, DstFromSharder, StringSharder, IInv, EmailUnique
  <2> QED
    BY <2>5, <2>6
<1>2. ASSUME NEW a \in AllRows(contact_application)
      PROVE  UpdatedRows(a.id) = {a}
  <2>1. PICK d \in Dsts(Tables) : a \in contact_application[d]
    BY InAllRows
  <2>2. Placed(a.id, a.target_id, d) /\ a.target_id \in Int
    <3>1. a \in Applications
      BY <2>1 DEF IInv, TypeOK
    <3> QED
      BY <2>1, <3>1, IDsAreInts DEF IInv, ApplicationsPlaced, Applications
  <2>3. DstFromID(Tables, a.id) = d
    BY <2>2, SameTable
  <2>4. \A b \in contact_application[d] : b \in AllRows(contact_application)
    BY InAllRows
  <2> QED
    BY <2>1, <2>3, <2>4 DEF UpdatedRows, IInv, RowIDsUnique
<1> QED
  BY <1>1, <1>2 DEF UsersFound, UpdatesReach

-----------------------------------------------------------------------------
\* What follows from the invariant.

LEMMA InboxOfInvariant == IInv => InboxRight
<1> SUFFICES ASSUME IInv PROVE InboxRight
  OBVIOUS
<1>1. ASSUME NEW b \in AllRows(contact_application)
      PROVE  ListPendingByTargetID(b.target_id) =
                 {a \in AllRows(contact_application) :
                     a.target_id = b.target_id /\ a.status = "pending"}
  <2> DEFINE d == Shard(Tables, b.target_id)
  <2>1. \A e \in Dsts(Tables) : \A a \in contact_application[e] :
            a.target_id = b.target_id => e = d
    BY DEF IInv, ApplicationsPlaced, Placed
  <2>2. d \in Dsts(Tables)
    BY <2>1, InAllRows
  <2>3. DstFromSharder(SingleIDSharder(b.target_id)) = d
    BY DEF DstFromSharder, SingleIDSharder, DstFromShardVal, Shard
  <2> HIDE DEF d
  <2> QED
    BY <2>1, <2>2, <2>3 DEF ListPendingByTargetID, AllRows
<1>2. ASSUME NEW b \in AllRows(contact_application), NEW a \in GetApplications(b.target_id)
      PROVE  /\ a.applicant_id # b.target_id
             /\ <<a.applicant_id, b.target_id>> \in submitted
  <2>1. PICK c \in ListPendingByTargetID(b.target_id) :
            a = [id |-> c.id, applicant_id |-> c.applicant_id]
    BY <1>2 DEF GetApplications
  <2>2. c \in AllRows(contact_application) /\ c.target_id = b.target_id
    BY <1>1
  <2> QED
    BY <2>1, <2>2 DEF IInv, ApplicationsHonest, Honest
<1>3. ASSUME NEW b \in AllRows(contact_application)
      PROVE  GetApplications(b.target_id) =
                 {[id |-> a.id, applicant_id |-> a.applicant_id] :
                     a \in {c \in AllRows(contact_application) :
                               c.target_id = b.target_id /\ c.status = "pending"}}
  BY <1>1, Zenon DEF GetApplications
<1> QED
  BY <1>2, <1>3, Zenon DEF InboxRight

LEMMA NoneToContacts == IInv => NoApplicationToContact
BY DEF IInv, RequestsOK, Promises, NoApplicationToContact, At

\* Type correctness: tables, requests and the history keep their types.
THEOREM TypeCorrect == Spec => []TypeOK
<1>1. IInv => TypeOK
  BY DEF IInv
<1> QED
  BY <1>1, Invariant, PTL

\* Save and the two lookups of a user agree, in every layout whose number of
\* tables divides the shard field of an identifier (biz_user_dao.go).
THEOREM AlwaysUsersFound == ASSUME RoutesMatch PROVE Spec => []UsersFound
<1>1. IInv => UsersFound
  BY FindersFind
<1> QED
  BY <1>1, Invariant, PTL

\* Under the same condition an update by identifier finds the application it is
\* for (contact_application_dao.go:80-95).
THEOREM AlwaysUpdatesReach == ASSUME RoutesMatch PROVE Spec => []UpdatesReach
<1>1. IInv => UpdatesReach
  BY FindersFind
<1> QED
  BY <1>1, Invariant, PTL

\* An email belongs to one user, for every hash and every layout: equal emails go
\* to the same physical table, whose index refuses the second.
THEOREM AlwaysEmailUnique == Spec => []EmailUnique
<1>1. IInv => EmailUnique
  BY DEF IInv
<1> QED
  BY <1>1, Invariant, PTL

\* No two rows share an identifier, whatever interleaving of requests: an
\* identifier belongs to the request that took it until its row is written.
THEOREM AlwaysRowIDsUnique == Spec => []RowIDsUnique
<1>1. IInv => RowIDsUnique
  BY DEF IInv
<1> QED
  BY <1>1, Invariant, PTL

\* What a user is shown is right: the list is complete, as all his applications were
\* written for the one shard value it is read with, and each was sent to him by the
\* one it names, who is not himself.
THEOREM AlwaysInboxRight == Spec => []InboxRight
BY InboxOfInvariant, Invariant, PTL

\* A request that starts when the target is a contact submits no application: the
\* lookup finds the contact in the table of the applicant.
THEOREM AlwaysNoApplicationToContact == Spec => []NoApplicationToContact
BY NoneToContacts, Invariant, PTL
-----------------------------------------------------------------------------
\* Sharding is transparent.

\* What the requests are about.
Work == [r \in Req |-> View(req[r])]

LEMMA Views ==
    ASSUME NEW q
    PROVE  /\ q.pc = "idle" => View(q) = [doing |-> "nothing"]
           /\ q.pc = "insertUser" => View(q) = [doing |-> "register", row |-> q.row]
           /\ q.pc = "checkContact" => View(q) = [doing |-> "ask", u |-> q.u, t |-> q.t]
           /\ q.pc \in {"findApplicant", "saveApplication"} =>
                  View(q) = [doing |-> "clear", u |-> q.u, t |-> q.t]
           /\ q.pc = "insertApplication" => View(q) = [doing |-> "submit", row |-> q.row]
BY DEF View

\* A request that moves does what it does in the directory.
LEMMA WorkMoves ==
    ASSUME TypeOK, NEW r \in Req, NEW q, Become(r, q)
    PROVE  Work' = [Work EXCEPT ![r] = View(q)]
<1>1. req' = [req EXCEPT ![r] = q] /\ req \in [Req -> Requests]
  BY DEF Become, TypeOK
<1>2. req'[r] = q /\ \A s \in Req \ {r} : req'[s] = req[s]
  BY <1>1
<1> QED
  BY <1>2 DEF Work

\* A row that is inserted in its table is a row of the whole.
LEMMA RowAdded ==
    ASSUME NEW S, NEW f \in [Dsts(Tables) -> SUBSET S], NEW d \in Dsts(Tables), NEW row,
           NEW g, g = Insert(f, d, row)
    PROVE  AllRows(g) = AllRows(f) \cup {row}
<1>1. g[d] = f[d] \cup {row} /\ \A e \in Dsts(Tables) \ {d} : g[e] = f[e]
  BY DEF Insert
<1> QED
  BY <1>1 DEF AllRows

\* The rows of the whole change when their tables do.
LEMMA RowsStay ==
    /\ UNCHANGED biz_user => AllRows(biz_user)' = AllRows(biz_user)
    /\ UNCHANGED user_contact => AllRows(user_contact)' = AllRows(user_contact)
    /\ UNCHANGED contact_application =>
           AllRows(contact_application)' = AllRows(contact_application)
    /\ UNCHANGED issued => Issued' = Issued
BY DEF AllRows, Issued

LEMMA DirInitOK == Init => Unsharded!DirInit
<1> SUFFICES ASSUME Init PROVE Unsharded!DirInit
  OBVIOUS
<1>1. Issued = {} /\ AllRows(biz_user) = {} /\ AllRows(user_contact) = {}
      /\ AllRows(contact_application) = {}
  BY DEF Init, Issued, AllRows
<1>2. Work = [r \in Req |-> [doing |-> "nothing"]]
  <2>1. \A r \in Req : View(req[r]) = [doing |-> "nothing"]
    BY Views DEF Init, Idle
  <2> QED
    BY <2>1 DEF Work
<1> QED
  BY <1>1, <1>2 DEF Unsharded!DirInit, Unsharded!Nothing, Work

LEMMA RegisterOK ==
    ASSUME IInv, NEW r \in Req, NEW email \in Emails, NEW mobile \in Mobiles,
           AddUser(r, email, mobile)
    PROVE  Unsharded!Register(r)
<1>1. PICK id \in IDs :
        /\ NextID(StringSharder(email), id)
        /\ Become(r, [pc |-> "insertUser", dst |-> Shard(Tables, StringSharder(email)),
                      row |-> [id |-> id, email |-> email, mobile |-> mobile]])
  BY DEF AddUser, UserToInsert
<1>2. StringSharder(email) \in Int
  BY ContactsAssumption DEF StringSharder
<1>3. id \notin Issued /\ Issued' = Issued \cup {id}
  BY <1>1, <1>2, FreshID DEF IInv
<1>4. Work[r] = [doing |-> "nothing"]
  BY Views DEF AddUser, At, Work
<1>5. Work' = [Work EXCEPT ![r] =
                  [doing |-> "register",
                   row |-> [id |-> id, email |-> email, mobile |-> mobile]]]
  <2> DEFINE row == [id |-> id, email |-> email, mobile |-> mobile]
             q == [pc |-> "insertUser", dst |-> Shard(Tables, StringSharder(email)),
                   row |-> row]
  <2>1. Work' = [Work EXCEPT ![r] = View(q)]
    BY <1>1, WorkMoves DEF IInv
  <2>2. q.pc = "insertUser" /\ q.row = row
    OBVIOUS
  <2> HIDE DEF q
  <2>3. View(q) = [doing |-> "register", row |-> row]
    BY <2>2, Views
  <2> QED
    BY <2>1, <2>3
<1>6. UNCHANGED <<AllRows(biz_user), AllRows(user_contact), AllRows(contact_application)>>
  BY RowsStay DEF AddUser, stored
<1>7. Unsharded!Doing(r, "nothing") /\ Unsharded!Takes(id)
  BY <1>3, <1>4 DEF Unsharded!Doing, Unsharded!Takes, Work
<1>8. Unsharded!Goes(r, [doing |-> "register",
                         row |-> [id |-> id, email |-> email, mobile |-> mobile]])
  BY <1>5 DEF Unsharded!Goes, Work
<1> QED
  BY <1>6, <1>7, <1>8 DEF Unsharded!Register, Unsharded!data

LEMMA RegisteredOK ==
    ASSUME IInv, NEW r \in Req, InsertUser(r)
    PROVE  Unsharded!Registered(r)
<1>1. /\ At(r, "insertUser") /\ ~Conflict(req[r].dst, req[r].row)
      /\ biz_user' = Insert(biz_user, req[r].dst, req[r].row) /\ Become(r, Idle)
      /\ UNCHANGED <<issued, user_contact, contact_application>>
  BY DEF InsertUser
<1>2. /\ req[r].dst \in Dsts(Tables) /\ req[r].row \in Users
      /\ Placed(req[r].row.id, Hash[req[r].row.email], req[r].dst)
  BY <1>1, Locals DEF IInv, RequestsOK, Promises, At
<1>3. Work[r] = [doing |-> "register", row |-> req[r].row]
  BY <1>1, Views DEF At, Work
<1>4. ASSUME NEW u \in AllRows(biz_user)
      PROVE  u.email # req[r].row.email
  <2>1. PICK d \in Dsts(Tables) : u \in biz_user[d]
    BY InAllRows
  <2>2. u.email = req[r].row.email => d = req[r].dst
    BY <1>2, <2>1 DEF IInv, UsersPlaced, Placed
  <2> QED
    BY <1>1, <2>1, <2>2 DEF Conflict
<1>5. AllRows(biz_user)' = AllRows(biz_user) \cup {req[r].row}
  <2>1. AllRows(biz_user') = AllRows(biz_user) \cup {req[r].row}
    BY <1>1, <1>2, RowAdded DEF IInv, TypeOK
  <2> QED
    BY <2>1 DEF AllRows
<1>6. Work' = [Work EXCEPT ![r] = [doing |-> "nothing"]]
  BY <1>1, WorkMoves, Views DEF IInv, Idle
<1>7. UNCHANGED <<Issued, AllRows(user_contact), AllRows(contact_application)>>
  BY <1>1, RowsStay
<1> QED
  BY <1>3, <1>4, <1>5, <1>6, <1>7
  DEF Unsharded!Registered, Unsharded!Doing, Unsharded!Goes, Unsharded!Nothing, Work

LEMMA AskOK ==
    ASSUME IInv, NEW r \in Req, NEW u \in UserIDs, NEW t \in IDs, ApplyContact(r, u, t)
    PROVE  Unsharded!Ask(r)
<1> DEFINE b == \E c \in AllRows(user_contact) : c.user_id = u /\ c.contact_id = t
           q == [pc |-> "checkContact", u |-> u, t |-> t, befriended |-> b]
<1>1. At(r, "idle") /\ u # t /\ Become(r, q) /\ UNCHANGED <<issued, stored>>
  BY DEF ApplyContact
<1>2. q.pc = "checkContact" /\ q.u = u /\ q.t = t
  OBVIOUS
<1> HIDE DEF q
<1>3. Unsharded!Goes(r, [doing |-> "ask", u |-> u, t |-> t])
  <2>1. Work' = [Work EXCEPT ![r] = View(q)]
    BY <1>1, WorkMoves DEF IInv
  <2> QED
    BY <1>2, <2>1, Views DEF Unsharded!Goes, Work
<1>4. Unsharded!Doing(r, "nothing")
  BY <1>1, Views DEF At, Unsharded!Doing
<1>5. u \in Unsharded!KnownUsers
  BY DEF UserIDs, Unsharded!KnownUsers
<1>6. UNCHANGED <<Issued, AllRows(biz_user), AllRows(user_contact),
                  AllRows(contact_application)>>
  BY <1>1, RowsStay DEF stored
<1> QED
  BY <1>1, <1>3, <1>4, <1>5, <1>6 DEF Unsharded!Ask, Unsharded!data

\* The lookup that finds no contact has looked where it would be.
LEMMA ClearOK ==
    ASSUME IInv, NEW r \in Req, CheckContact(r)
    PROVE  Unsharded!Clear(r) \/ Unsharded!GiveUp(r)
<1>1. PICK result \in Lookup(FindByUserIDAndContactID(req[r].u, req[r].t)) :
          Become(r, IF result = "not found"
                    THEN [req[r] EXCEPT !.pc = "findApplicant"] ELSE Idle)
  BY DEF CheckContact
<1>2. UNCHANGED <<Issued, AllRows(biz_user), AllRows(user_contact),
                  AllRows(contact_application)>>
  BY RowsStay DEF CheckContact, stored
<1>3. CASE result # "not found"
  <2>1. Become(r, Idle)
    BY <1>1, <1>3
  <2>2. Work' = [Work EXCEPT ![r] = [doing |-> "nothing"]]
    BY <2>1, WorkMoves, Views DEF IInv, Idle
  <2> QED
    BY <1>2, <2>2 DEF Unsharded!GiveUp, Unsharded!Goes, Unsharded!Nothing, Unsharded!data,
       Work
<1>4. CASE result = "not found"
  <2>1. req[r] \in [pc : {"checkContact", "findApplicant", "saveApplication"},
                    u : IDs, t : IDs, befriended : BOOLEAN] /\ req[r].pc = "checkContact"
    BY Locals DEF IInv, CheckContact, At
  <2>2. Work[r] = [doing |-> "ask", u |-> req[r].u, t |-> req[r].t]
    BY <2>1, Views DEF Work
  <2> DEFINE q == [req[r] EXCEPT !.pc = "findApplicant"]
  <2>3. q.pc = "findApplicant" /\ q.u = req[r].u /\ q.t = req[r].t
    BY <2>1
  <2>4. Become(r, q)
    BY <1>1, <1>4
  <2> HIDE DEF q
  <2>5. Work' = [Work EXCEPT ![r] = View(q)]
    BY <2>4, WorkMoves DEF IInv
  <2>6. View(q) = [doing |-> "clear", u |-> req[r].u, t |-> req[r].t]
    BY <2>3, Views
  <2>7. \A c \in AllRows(user_contact) :
            c.user_id # req[r].u \/ c.contact_id # req[r].t
    <3>1. FindByUserIDAndContactID(req[r].u, req[r].t) = {}
      BY <1>4 DEF Lookup
    <3> SUFFICES ASSUME NEW c \in AllRows(user_contact), c.user_id = req[r].u,
                        c.contact_id = req[r].t
                 PROVE  FALSE
      OBVIOUS
    <3>2. PICK d \in Dsts(Tables) : c \in user_contact[d]
      BY InAllRows
    <3>3. d = DstFromSharder(SingleIDSharder(req[r].u))
      BY <3>2 DEF IInv, ContactsPlaced, Shard, DstFromSharder, DstFromShardVal,
         SingleIDSharder
    <3> QED
      BY <3>1, <3>2, <3>3 DEF FindByUserIDAndContactID
  <2>8. Unsharded!Doing(r, "ask")
    BY <2>2 DEF Unsharded!Doing, Work
  <2>9. Unsharded!Goes(r, [Work[r] EXCEPT !.doing = "clear"])
    <3>1. View(q) = [Work[r] EXCEPT !.doing = "clear"]
      BY <2>2, <2>6
    <3> QED
      BY <2>5, <3>1 DEF Unsharded!Goes, Work
  <2> QED
    BY <1>2, <2>2, <2>7, <2>8, <2>9 DEF Unsharded!Clear, Unsharded!data, Work
<1> QED
  BY <1>3, <1>4

\* The applicant is looked up, or the request ends: neither shows.
LEMMA FindApplicantOK ==
    ASSUME IInv, NEW r \in Req, FindApplicant(r) \/ Fail(r)
    PROVE  UNCHANGED Unsharded!dirVars \/ Unsharded!GiveUp(r)
<1>1. UNCHANGED <<Issued, AllRows(biz_user), AllRows(user_contact),
                  AllRows(contact_application)>>
  BY RowsStay DEF FindApplicant, Fail, stored
<1>2. CASE Become(r, Idle)
  <2>1. Work' = [Work EXCEPT ![r] = [doing |-> "nothing"]]
    BY <1>2, WorkMoves, Views DEF IInv, Idle
  <2> QED
    BY <1>1, <2>1 DEF Unsharded!GiveUp, Unsharded!Goes, Unsharded!Nothing, Unsharded!data,
       Work
<1>3. CASE FindApplicant(r) /\ Become(r, [req[r] EXCEPT !.pc = "saveApplication"])
  <2>1. req[r] \in [pc : {"checkContact", "findApplicant", "saveApplication"},
                    u : IDs, t : IDs, befriended : BOOLEAN] /\ req[r].pc = "findApplicant"
    BY <1>3, Locals DEF IInv, FindApplicant, At
  <2> DEFINE q == [req[r] EXCEPT !.pc = "saveApplication"]
  <2>2. q.pc = "saveApplication" /\ q.u = req[r].u /\ q.t = req[r].t
    BY <2>1
  <2>3. Become(r, q)
    BY <1>3
  <2> HIDE DEF q
  <2>4. View(q) = View(req[r])
    BY <2>1, <2>2, Views
  <2>5. Work' = [Work EXCEPT ![r] = View(q)] /\ Work[r] = View(req[r])
    BY <2>3, WorkMoves DEF IInv, Work
  <2>6. Work' = Work
    BY <2>4, <2>5 DEF Work
  <2> QED
    BY <1>1, <2>6 DEF Unsharded!dirVars, Work
<1> QED
  BY <1>2, <1>3 DEF FindApplicant, Fail

LEMMA MakeOutOK ==
    ASSUME IInv, NEW r \in Req, SaveApplication(r)
    PROVE  Unsharded!MakeOut(r)
<1> DEFINE row(id) == [id |-> id, target_id |-> req[r].t, applicant_id |-> req[r].u,
                       status |-> "pending"]
           q(id) == [pc |-> "insertApplication",
                     dst |-> Shard(Tables, SingleIDSharder(req[r].t)),
                     row |-> row(id), befriended |-> req[r].befriended]
<1>1. PICK id \in IDs : NextID(SingleIDSharder(req[r].t), id) /\ Become(r, q(id))
  BY DEF SaveApplication, ApplicationToInsert
<1>2. req[r].pc = "saveApplication" /\ req[r].t \in IDs
  BY Locals DEF SaveApplication, At, IInv
<1>3. id \notin Issued /\ Issued' = Issued \cup {id}
  <2>1. req[r].t \in Int
    BY <1>2, IDsAreInts
  <2> QED
    BY <1>1, <2>1, FreshID DEF IInv, SingleIDSharder
<1>4. Work[r] = [doing |-> "clear", u |-> req[r].u, t |-> req[r].t]
  BY <1>2, Views DEF Work
<1>5. Work' = [Work EXCEPT ![r] = [doing |-> "submit", row |-> row(id)]]
  <2>1. Work' = [Work EXCEPT ![r] = View(q(id))]
    BY <1>1, WorkMoves DEF IInv
  <2>2. q(id).pc = "insertApplication" /\ q(id).row = row(id)
    OBVIOUS
  <2> HIDE DEF q
  <2>3. View(q(id)) = [doing |-> "submit", row |-> row(id)]
    BY <2>2, Views
  <2> QED
    BY <2>1, <2>3
<1>6. UNCHANGED <<AllRows(biz_user), AllRows(user_contact), AllRows(contact_application)>>
  BY RowsStay DEF SaveApplication, stored
<1>7. Unsharded!Doing(r, "clear") /\ Unsharded!Takes(id)
  BY <1>3, <1>4 DEF Unsharded!Doing, Unsharded!Takes, Work
<1>8. Unsharded!Goes(r, [doing |-> "submit",
                         row |-> [id |-> id, target_id |-> Work[r].t,
                                  applicant_id |-> Work[r].u, status |-> "pending"]])
  <2>1. row(id) = [id |-> id, target_id |-> Work[r].t, applicant_id |-> Work[r].u,
                   status |-> "pending"]
    BY <1>4
  <2> HIDE DEF row
  <2> QED
    BY <1>5, <2>1 DEF Unsharded!Goes, Work
<1> QED
  BY <1>6, <1>7, <1>8 DEF Unsharded!MakeOut, Unsharded!data, Work

LEMMA SubmitOK ==
    ASSUME IInv, NEW r \in Req, InsertApplication(r)
    PROVE  Unsharded!Submit(r)
<1>1. /\ At(r, "insertApplication") /\ Become(r, Idle)
      /\ contact_application' = Insert(contact_application, req[r].dst, req[r].row)
      /\ UNCHANGED <<issued, biz_user, user_contact>>
  BY DEF InsertApplication
<1>2. Work[r] = [doing |-> "submit", row |-> req[r].row]
  BY <1>1, Views DEF At, Work
<1>3. AllRows(contact_application)' = AllRows(contact_application) \cup {req[r].row}
  <2>1. req[r].dst \in Dsts(Tables)
    BY <1>1, Locals DEF IInv
  <2>2. AllRows(contact_application') = AllRows(contact_application) \cup {req[r].row}
    BY <1>1, <2>1, RowAdded DEF IInv, TypeOK
  <2> QED
    BY <2>2 DEF AllRows
<1>4. Work' = [Work EXCEPT ![r] = [doing |-> "nothing"]]
  BY <1>1, WorkMoves, Views DEF IInv, Idle
<1>5. UNCHANGED <<Issued, AllRows(biz_user), AllRows(user_contact)>>
  BY <1>1, RowsStay
<1> QED
  BY <1>2, <1>3, <1>4, <1>5
  DEF Unsharded!Submit, Unsharded!Doing, Unsharded!Goes, Unsharded!Nothing, Work

\* An update reaches the row it is for, in whatever table, and only that one.
LEMMA DirReviewOK ==
    ASSUME RoutesMatch, IInv, NEW id \in ApplicationIDs, NEW status \in Status,
           UpdateStatus(id, status)
    PROVE  Unsharded!Review(id, status)
<1> DEFINE now(a) == IF a.id = id THEN [a EXCEPT !.status = status] ELSE a
<1>1. id \in IDs
  <2>1. \A a \in AllRows(contact_application) : a.id \in IDs
    BY InAllRows DEF IInv, TypeOK, Applications
  <2> QED
    BY <2>1 DEF ApplicationIDs
<1>2. ASSUME NEW d \in Dsts(Tables), NEW a \in contact_application[d]
      PROVE  Reviewed(a, d, id, status) = now(a)
  <2>1. Placed(a.id, a.target_id, d) /\ a.target_id \in Int
    <3>1. a \in Applications
      BY <1>2 DEF IInv, TypeOK
    <3> QED
      BY <1>2, <3>1, IDsAreInts DEF IInv, ApplicationsPlaced, Applications
  <2>2. DstFromID(Tables, a.id) = d
    BY <2>1, SameTable
  <2> QED
    BY <2>2 DEF Reviewed
<1>3. \A d \in Dsts(Tables) :
          contact_application'[d] = {now(a) : a \in contact_application[d]}
  BY <1>1, <1>2, TablesReviewed DEF IInv
<1> HIDE DEF now
<1>4. AllRows(contact_application)' = {now(a) : a \in AllRows(contact_application)}
  BY <1>3 DEF AllRows
<1>5. UNCHANGED <<Issued, AllRows(biz_user), AllRows(user_contact), Work>>
  BY RowsStay DEF UpdateStatus, Work
<1> QED
  BY <1>4, <1>5 DEF Unsharded!Review, Work, now

LEMMA MeetOK ==
    ASSUME IInv, NEW u \in UserIDs, NEW t \in UserIDs, Befriend(u, t)
    PROVE  Unsharded!Meet(u, t)
<1>1. Shard(Tables, u) \in Dsts(Tables)
  <2>1. u \in Int
    <3>1. \A w \in AllRows(biz_user) : w.id \in IDs
      BY InAllRows DEF IInv, TypeOK, Users
    <3> QED
      BY <3>1, IDsAreInts DEF UserIDs
  <2> QED
    BY <2>1, TablesKnown
<1>2. AllRows(user_contact)' = AllRows(user_contact) \cup {[user_id |-> u, contact_id |-> t]}
  <2>1. AllRows(user_contact') = AllRows(user_contact) \cup {[user_id |-> u, contact_id |-> t]}
    BY <1>1, RowAdded DEF Befriend, IInv, TypeOK
  <2> QED
    BY <2>1 DEF AllRows
<1>3. UNCHANGED <<Issued, AllRows(biz_user), AllRows(contact_application), Work>>
  BY RowsStay DEF Befriend, Work
<1> QED
  BY <1>2, <1>3 DEF Unsharded!Meet, Work

LEMMA GiveUpAllOK == ASSUME Crash PROVE Unsharded!GiveUpAll
<1>1. /\ req' = [r \in Req |-> Idle]
      /\ UNCHANGED <<issued, biz_user, user_contact, contact_application>>
  BY DEF Crash, stored
<1>2. \A r \in Req : View(req'[r]) = [doing |-> "nothing"]
  BY <1>1, Views DEF Idle
<1>3. Work' = [r \in Req |-> [doing |-> "nothing"]]
  BY <1>2 DEF Work
<1>4. UNCHANGED <<Issued, AllRows(biz_user), AllRows(user_contact),
                  AllRows(contact_application)>>
  BY <1>1, RowsStay
<1> QED
  BY <1>3, <1>4 DEF Unsharded!GiveUpAll, Unsharded!Nothing, Unsharded!data, Work

LEMMA DirStepOK ==
    ASSUME RoutesMatch, IInv, [Next]_vars
    PROVE  [Unsharded!DirNext]_(Unsharded!dirVars)
<1>1. ASSUME NEW r \in Req, Step(r)
      PROVE  [Unsharded!DirNext]_(Unsharded!dirVars)
  <2>1. CASE \E email \in Emails, mobile \in Mobiles : AddUser(r, email, mobile)
    BY <2>1, RegisterOK DEF Unsharded!DirNext
  <2>2. CASE InsertUser(r)
    BY <2>2, RegisteredOK DEF Unsharded!DirNext
  <2>3. CASE \E u \in UserIDs, t \in Issued \cup Strangers : ApplyContact(r, u, t)
    BY <2>3, IssuedAreIDs, AskOK DEF IInv, Unsharded!DirNext
  <2>4. CASE CheckContact(r)
    BY <2>4, ClearOK DEF Unsharded!DirNext
  <2>5. CASE FindApplicant(r) \/ Fail(r)
    BY <2>5, FindApplicantOK DEF Unsharded!DirNext
  <2>6. CASE SaveApplication(r)
    BY <2>6, MakeOutOK DEF Unsharded!DirNext
  <2>7. CASE InsertApplication(r)
    BY <2>7, SubmitOK DEF Unsharded!DirNext
  <2> QED
    BY <1>1, <2>1, <2>2, <2>3, <2>4, <2>5, <2>6, <2>7 DEF Step
<1>2. CASE \E id \in ApplicationIDs, status \in Status : UpdateStatus(id, status)
  BY <1>2, DirReviewOK DEF Unsharded!DirNext, Unsharded!Statuses, ApplicationIDs, Status
<1>3. CASE \E u, t \in UserIDs : u # t /\ Befriend(u, t)
  BY <1>3, MeetOK DEF Unsharded!DirNext, Unsharded!KnownUsers, UserIDs
<1>4. CASE Crash
  BY <1>4, GiveUpAllOK DEF Unsharded!DirNext
<1>5. CASE UNCHANGED vars
  <2>1. UNCHANGED <<Issued, AllRows(biz_user), AllRows(user_contact),
                    AllRows(contact_application), Work>>
    BY <1>5, RowsStay DEF vars, Work
  <2> QED
    BY <2>1 DEF Unsharded!dirVars, Work
<1> QED
  BY <1>1, <1>2, <1>3, <1>4, <1>5 DEF Next, Others

\* Sharding does not show (modulo_sharding.go:80-115, the DAOs): in every layout whose
\* number of tables divides the shard field of an identifier, for every hash and any
\* number of requests, the tables together are one directory.
THEOREM Transparent == ASSUME RoutesMatch PROVE Spec => ImplementsDirectory
<1>1. IInv /\ [Next]_vars => [Unsharded!DirNext]_(Unsharded!dirVars)
  BY DirStepOK
<1> QED
  BY <1>1, DirInitOK, Invariant, PTL DEF Spec, ImplementsDirectory, Unsharded!DirSpec
=============================================================================
