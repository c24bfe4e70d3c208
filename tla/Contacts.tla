------------------------------- MODULE Contacts -------------------------------
(***************************************************************************)
(* Users and contact applications in sharded tables: the path of AddUser   *)
(* and ApplyContact requests through handler, service, repository and DAO, *)
(* one action per statement that reads or writes outside the process.      *)
(*                                                                         *)
(* Identifiers come from the generator all four shard helpers share, seen  *)
(* through its abstract specification IDSource.  PostgreSQL is a set of    *)
(* rows per table with the unique indexes of scripts/sql; a statement may  *)
(* fail, before or after it took effect.                                   *)
(***************************************************************************)
EXTENDS Sharding

CONSTANTS
    DBCount, TBCount,   \* config/sharding.yaml: the same for every table
    Req,                \* concurrent requests
    Emails, Mobiles,    \* what users register with
    Hash,               \* xxhash of an email, as a function
    Strangers,          \* identifiers asked for that nobody need have: IDs in the code
    MaxIDs              \* how many identifiers are issued (bound)

Tables == [db |-> DBCount, tb |-> TBCount]

ASSUME ContactsAssumption ==
    /\ Tables \in Layouts
    /\ Hash \in [Emails -> Nat]
    /\ Strangers \subseteq IDs
    /\ MaxIDs \in Nat

VARIABLES
    issued,         \* identifiers issued so far
    biz_user,       \* rows of the biz_user tables, by destination
    user_contact,   \* rows of the user_contact tables
    contact_application,
    req,            \* what each request is doing
    submitted       \* history: who asked whom, past the checks of the handler
vars == <<issued, biz_user, user_contact, contact_application, req, submitted>>
stored == <<biz_user, user_contact, contact_application>>

Users == [id : IDs, email : Emails, mobile : Mobiles]
ContactRows == [user_id : IDs, contact_id : IDs]
Status == {"pending", "approved", "rejected"}
Applications == [id : IDs, target_id : IDs, applicant_id : IDs, status : Status]

Generator == INSTANCE IDSource WITH ShardVals <- Nat

Issued == {issued[i] : i \in 1 .. Len(issued)}

AllRows(table) == UNION {table[d] : d \in Dsts(Tables)}
Insert(table, dst, row) == [table EXCEPT ![dst] = @ \cup {row}]

\* The shard value of an email is its hash, that of an identifier the identifier.
StringSharder(key) == Hash[key]
SingleIDSharder(id) == id
DstFromSharder(shardVal) == DstFromShardVal(Tables, shardVal)

\* The reads of the DAOs: one table each, chosen by what the caller knows.
\* (Mutants: the identifier or the target is taken for the shard value or for an
\* identifier, the two ends of a contact are swapped.)
FindByID_ByShardVal(id) ==
    {u \in biz_user[DstFromShardVal(Tables, id)] : u.id = id}
FindByID(id) ==
    {u \in biz_user[DstFromID(Tables, id)] : u.id = id}
FindByEmail(email) ==
    {u \in biz_user[DstFromSharder(StringSharder(email))] : u.email = email}
FindByUserIDAndContactID_Swapped(u, c) ==
    {r \in user_contact[DstFromSharder(SingleIDSharder(c))] :
        r.user_id = c /\ r.contact_id = u}
FindByUserIDAndContactID(u, c) ==
    {r \in user_contact[DstFromSharder(SingleIDSharder(u))] :
        r.user_id = u /\ r.contact_id = c}
ListPendingByTargetID_ByID(t) ==
    {a \in contact_application[DstFromID(Tables, t)] :
        a.target_id = t /\ a.status = "pending"}
ListPendingByTargetID(t) ==
    {a \in contact_application[DstFromSharder(SingleIDSharder(t))] :
        a.target_id = t /\ a.status = "pending"}

\* What reaches the service from a read: a row, the repository's own "not found",
\* which gorm's becomes, or any other error.
Lookup(rows) == {"failed", IF rows = {} THEN "not found" ELSE "found"}

\* What GetApplications shows to the user t.
\* (Mutant: applicant and target swapped.)
GetApplications_Swapped(t) ==
    {[id |-> a.id, applicant_id |-> a.target_id] : a \in ListPendingByTargetID(t)}
GetApplications(t) ==
    {[id |-> a.id, applicant_id |-> a.applicant_id] : a \in ListPendingByTargetID(t)}

Idle == [pc |-> "idle"]
Init ==
    /\ issued = << >>
    /\ biz_user = [d \in Dsts(Tables) |-> {}]
    /\ user_contact = [d \in Dsts(Tables) |-> {}]
    /\ contact_application = [d \in Dsts(Tables) |-> {}]
    /\ req = [r \in Req |-> Idle]
    /\ submitted = {}

At(r, l) == req[r].pc = l
Become(r, q) == req' = [req EXCEPT ![r] = q]

\* NextIDAndShard: an identifier for the shard value v; the table is that of v.
NextID(v, id) ==
    /\ Len(issued) < MaxIDs
    /\ Generator!Issue(v, id)

\* A request whose row has its identifier, and its place by the shard value.
UserToInsert(email, mobile, id) ==
    [pc |-> "insertUser",
     dst |-> Shard(Tables, StringSharder(email)),
     row |-> [id |-> id, email |-> email, mobile |-> mobile]]
ApplicationToInsert(q, id) ==
    [pc |-> "insertApplication",
     dst |-> Shard(Tables, SingleIDSharder(q.t)),
     row |-> [id |-> id, target_id |-> q.t, applicant_id |-> q.u,
              status |-> "pending"],
     befriended |-> q.befriended]

-----------------------------------------------------------------------------
\* Mutant: users are spread over the tables one after the other.
AddUser_InTurn(r, email, mobile) ==
    /\ At(r, "idle")
    /\ \E id \in IDs :
           /\ NextID(Len(issued), id)
           /\ Become(r, [UserToInsert(email, mobile, id) EXCEPT
                             !.dst = Shard(Tables, Len(issued))])
    /\ UNCHANGED <<stored, submitted>>

\* AddUser and Save: take an identifier for the hash of the email, then insert.
AddUser(r, email, mobile) ==
    /\ At(r, "idle")
    /\ \E id \in IDs :
           /\ NextID(StringSharder(email), id)
           /\ Become(r, UserToInsert(email, mobile, id))
    /\ UNCHANGED <<stored, submitted>>

\* uk_biz_user_email and uk_biz_user_mobile, of one physical table.
Conflict(dst, row) ==
    \E u \in biz_user[dst] : u.email = row.email \/ u.mobile = row.mobile

\* The row is inserted.  Whether the caller learns it makes no difference here.
InsertUser(r) ==
    /\ At(r, "insertUser")
    /\ ~Conflict(req[r].dst, req[r].row)
    /\ biz_user' = Insert(biz_user, req[r].dst, req[r].row)
    /\ Become(r, Idle)
    /\ UNCHANGED <<issued, user_contact, contact_application, submitted>>

\* ApplyContact is called with the caller's own id u and a requested id t; the
\* handler refuses t = u.  befriended remembers, for a property, whether t was
\* in u's contacts at that moment.
ApplyContact(r, u, t) ==
    /\ At(r, "idle")
    /\ u # t
    /\ Become(r, [pc |-> "checkContact", u |-> u, t |-> t,
                  befriended |-> \E c \in AllRows(user_contact) :
                                    c.user_id = u /\ c.contact_id = t])
    /\ submitted' = submitted \cup {<<u, t>>}
    /\ UNCHANGED <<issued, stored>>

\* The service goes on only when there is no contact: neither an existing one nor
\* an error will do.  (Mutant: every error is taken for "not found".)
CheckContact_IgnoresErrors(r) ==
    /\ At(r, "checkContact")
    /\ \E result \in Lookup(FindByUserIDAndContactID(req[r].u, req[r].t)) :
          Become(r, IF result = "found" THEN Idle
                    ELSE [req[r] EXCEPT !.pc = "findApplicant"])
    /\ UNCHANGED <<issued, stored, submitted>>
CheckContact(r) ==
    /\ At(r, "checkContact")
    /\ \E result \in Lookup(FindByUserIDAndContactID(req[r].u, req[r].t)) :
          Become(r, IF result = "not found"
                    THEN [req[r] EXCEPT !.pc = "findApplicant"] ELSE Idle)
    /\ UNCHANGED <<issued, stored, submitted>>

\* It reads the applicant, whose name goes into the application.
FindApplicant(r) ==
    /\ At(r, "findApplicant")
    /\ \E result \in Lookup(FindByID(req[r].u)) :
          Become(r, IF result = "found"
                    THEN [req[r] EXCEPT !.pc = "saveApplication"] ELSE Idle)
    /\ UNCHANGED <<issued, stored, submitted>>

\* Save: take an identifier for the target's id, then insert the row.
SaveApplication(r) ==
    /\ At(r, "saveApplication")
    /\ \E id \in IDs :
           /\ NextID(SingleIDSharder(req[r].t), id)
           /\ Become(r, ApplicationToInsert(req[r], id))
    /\ UNCHANGED <<stored, submitted>>

InsertApplication(r) ==
    /\ At(r, "insertApplication")
    /\ contact_application' = Insert(contact_application, req[r].dst, req[r].row)
    /\ Become(r, Idle)
    /\ UNCHANGED <<issued, biz_user, user_contact, submitted>>

\* No identifier is to be had (NextID refuses), or the insert fails (a unique index,
\* a lost database, a timeout): the request ends with an error.  When the insert
\* took effect all the same, the tables are those of InsertUser and
\* InsertApplication.
Fail(r) ==
    /\ req[r].pc \in {"insertUser", "saveApplication", "insertApplication"}
    /\ Become(r, Idle)
    /\ UNCHANGED <<issued, stored, submitted>>

\* The rows an update of the application id finds.
\* (Mutant: the identifier is taken for the shard value.)
UpdatedRows_ByShardVal(id) ==
    {a \in contact_application[DstFromShardVal(Tables, id)] : a.id = id}
UpdatedRows(id) == {a \in contact_application[DstFromID(Tables, id)] : a.id = id}

\* ContactApplicationDao.UpdateStatus, an operation of the DAO that no service calls
\* yet (ReviewContactApplication ends in a panic before it writes anything).  It
\* knows the identifier only, asks for no previous status and writes any.
UpdateStatus(id, status) ==
    /\ contact_application' =
           [contact_application EXCEPT ![DstFromID(Tables, id)] =
               (@ \ UpdatedRows(id))
                   \cup {[a EXCEPT !.status = status] : a \in UpdatedRows(id)}]
    /\ UNCHANGED <<issued, biz_user, user_contact, req, submitted>>

\* Contacts are made outside this code (approval is not implemented): a row for
\* u in u's table.
Befriend(u, t) ==
    /\ user_contact' = Insert(user_contact, Shard(Tables, u),
                              [user_id |-> u, contact_id |-> t])
    /\ UNCHANGED <<issued, biz_user, contact_application, req, submitted>>

\* The process of the server ends, with all its requests, and is started again.
Crash ==
    /\ req' = [r \in Req |-> Idle]
    /\ UNCHANGED <<issued, stored, submitted>>

UserIDs == {u.id : u \in AllRows(biz_user)}
ApplicationIDs == {a.id : a \in AllRows(contact_application)}

Step(r) ==
    \/ \E email \in Emails, mobile \in Mobiles : AddUser(r, email, mobile)
    \/ InsertUser(r)
    \/ \E u \in UserIDs, t \in Issued \cup Strangers : ApplyContact(r, u, t)
    \/ CheckContact(r)
    \/ FindApplicant(r)
    \/ SaveApplication(r)
    \/ InsertApplication(r)
    \/ Fail(r)

\* What no request does.
Others ==
    \/ \E id \in ApplicationIDs, status \in Status : UpdateStatus(id, status)
    \/ \E u, t \in UserIDs : u # t /\ Befriend(u, t)

Next ==
    \/ \E r \in Req : Step(r)
    \/ Others
    \/ Crash

Spec == Init /\ [][Next]_vars

-----------------------------------------------------------------------------
Requests ==
    {Idle}
        \cup [pc : {"insertUser"}, dst : Dsts(Tables), row : Users]
        \cup [pc : {"checkContact", "findApplicant", "saveApplication"},
              u : IDs, t : IDs, befriended : BOOLEAN]
        \cup [pc : {"insertApplication"}, dst : Dsts(Tables), row : Applications,
              befriended : BOOLEAN]

\* Type correctness: every table holds rows of its type, every request has the
\* locals of the statement it is at.
TypeOK ==
    /\ issued \in Seq(IDs)
    /\ biz_user \in [Dsts(Tables) -> SUBSET Users]
    /\ user_contact \in [Dsts(Tables) -> SUBSET ContactRows]
    /\ contact_application \in [Dsts(Tables) -> SUBSET Applications]
    /\ req \in [Req -> Requests]
    /\ submitted \subseteq IDs \X IDs

\* A stored user is found by its identifier and by its email, and nobody else
\* is: FindByID and FindByEmail look into the table Save chose.
UsersFound ==
    \A u \in AllRows(biz_user) : FindByID(u.id) = {u} /\ FindByEmail(u.email) = {u}

\* An email belongs to one user of the whole system, although only the index of
\* one physical table enforces it (02_user_init.sql:55,71).
EmailUnique ==
    \A u, w \in AllRows(biz_user) : u.email = w.email => u = w

\* What a user is shown is right: it is the complete list of the applications that
\* await him, whatever tables they are in and whatever was written
\* meanwhile, and each was sent to him, by the one it names, who is not himself:
\* through handler, service, rows and list nobody takes the place of another
\* (contact_handler.go:49-72,98-122).
InboxRight ==
    \A t \in {a.target_id : a \in AllRows(contact_application)} :
        /\ GetApplications(t) =
               {[id |-> a.id, applicant_id |-> a.applicant_id] :
                   a \in {b \in AllRows(contact_application) :
                             b.target_id = t /\ b.status = "pending"}}
        /\ \A a \in GetApplications(t) :
               a.applicant_id # t /\ <<a.applicant_id, t>> \in submitted

\* An update of an application changes that application: UpdateStatus, which is given an
\* identifier, looks into the table Save chose by the target.
UpdatesReach ==
    \A a \in AllRows(contact_application) : UpdatedRows(a.id) = {a}

\* A request that starts when the target is already a contact of the applicant
\* submits no application.
NoApplicationToContact ==
    \A r \in Req : At(r, "insertApplication") => ~req[r].befriended

\* No two rows, of users or of applications, share an identifier.
RowIDsUnique ==
    /\ UserIDs \cap ApplicationIDs = {}
    /\ \A u, w \in AllRows(biz_user) : u.id = w.id => u = w
    /\ \A a, b \in AllRows(contact_application) : a.id = b.id => a = b

\* What a request is about, whatever table it is to write.
View(q) ==
    CASE q.pc = "idle" -> [doing |-> "nothing"]
      [] q.pc = "insertUser" -> [doing |-> "register", row |-> q.row]
      [] q.pc = "checkContact" -> [doing |-> "ask", u |-> q.u, t |-> q.t]
      [] q.pc \in {"findApplicant", "saveApplication"} ->
             [doing |-> "clear", u |-> q.u, t |-> q.t]
      [] q.pc = "insertApplication" -> [doing |-> "submit", row |-> q.row]

\* Sharding does not show: the tables of all databases behave like one table of each
\* kind, in which an email is unique, a lookup sees every row and an update changes no
\* row but the one it is for (sharding/helper.go:53-116 and the DAOs).
Unsharded == INSTANCE Directory WITH
    taken <- Issued, users <- AllRows(biz_user), contacts <- AllRows(user_contact),
    applications <- AllRows(contact_application),
    work <- [r \in Req |-> View(req[r])]
ImplementsDirectory == Unsharded!DirSpec

\* A mobile number belongs to one user (02_user_init.sql:56: unique).
MobileUnique ==
    \A u, w \in AllRows(biz_user) : u.mobile = w.mobile => u = w

\* An application is for a user that exists: "target user is not exists" is an
\* error of ApplyContact (application_service.go:60-64).
TargetExists ==
    \A a \in AllRows(contact_application) : a.target_id \in UserIDs
=============================================================================
