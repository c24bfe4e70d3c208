------------------------------ MODULE Directory ------------------------------
(***************************************************************************)
(* What the tables of users, contacts and applications promise together,   *)
(* whichever table of whichever database a row is in: one set of rows of a *)
(* kind, with the unique email of the whole system, and requests whose     *)
(* reads see all of it.  Contacts implements it.                           *)
(***************************************************************************)
CONSTANTS
    Req,                \* concurrent requests
    Emails, Mobiles,    \* what users register with
    IDs                 \* identifiers

VARIABLES
    taken,          \* identifiers that were given out
    users, contacts, applications,
    work            \* what each request has to do
data == <<users, contacts, applications>>
dirVars == <<taken, users, contacts, applications, work>>

Nothing == [doing |-> "nothing"]
Statuses == {"pending", "approved", "rejected"}

DirInit ==
    /\ taken = {}
    /\ users = {}
    /\ contacts = {}
    /\ applications = {}
    /\ work = [r \in Req |-> Nothing]

Doing(r, what) == work[r].doing = what
Goes(r, w) == work' = [work EXCEPT ![r] = w]

\* An identifier nobody had.
Takes(id) == id \notin taken /\ taken' = taken \cup {id}

KnownUsers == {u.id : u \in users}

-----------------------------------------------------------------------------
\* Somebody wants to be a user, and is one if no user has the email.
Register(r) ==
    /\ Doing(r, "nothing")
    /\ \E id \in IDs, email \in Emails, mobile \in Mobiles :
           /\ Takes(id)
           /\ Goes(r, [doing |-> "register",
                       row |-> [id |-> id, email |-> email, mobile |-> mobile]])
    /\ UNCHANGED data

Registered(r) ==
    /\ Doing(r, "register")
    /\ \A u \in users : u.email # work[r].row.email
    /\ users' = users \cup {work[r].row}
    /\ Goes(r, Nothing)
    /\ UNCHANGED <<taken, contacts, applications>>

\* The user u wants t for a contact, who may not exist; when t is none, u has an application made
\* out, and submits it.
Ask(r) ==
    /\ Doing(r, "nothing")
    /\ \E u \in KnownUsers, t \in IDs :
           u # t /\ Goes(r, [doing |-> "ask", u |-> u, t |-> t])
    /\ UNCHANGED <<taken, data>>

Clear(r) ==
    /\ Doing(r, "ask")
    /\ \A c \in contacts : c.user_id # work[r].u \/ c.contact_id # work[r].t
    /\ Goes(r, [work[r] EXCEPT !.doing = "clear"])
    /\ UNCHANGED <<taken, data>>

MakeOut(r) ==
    /\ Doing(r, "clear")
    /\ \E id \in IDs :
           /\ Takes(id)
           /\ Goes(r, [doing |-> "submit",
                       row |-> [id |-> id, target_id |-> work[r].t,
                                applicant_id |-> work[r].u, status |-> "pending"]])
    /\ UNCHANGED data

Submit(r) ==
    /\ Doing(r, "submit")
    /\ applications' = applications \cup {work[r].row}
    /\ Goes(r, Nothing)
    /\ UNCHANGED <<taken, users, contacts>>

\* A request may end with an error at any time.
GiveUp(r) ==
    /\ Goes(r, Nothing)
    /\ UNCHANGED <<taken, data>>

\* All requests may, at once.
GiveUpAll ==
    /\ work' = [r \in Req |-> Nothing]
    /\ UNCHANGED <<taken, data>>

\* The application id gets another status, all others stay as they are.
Review(id, status) ==
    /\ applications' = {IF a.id = id THEN [a EXCEPT !.status = status] ELSE a :
                            a \in applications}
    /\ UNCHANGED <<taken, users, contacts, work>>

Meet(u, t) ==
    /\ contacts' = contacts \cup {[user_id |-> u, contact_id |-> t]}
    /\ UNCHANGED <<taken, users, applications, work>>

DirNext ==
    \/ \E r \in Req :
          \/ Register(r) \/ Registered(r)
          \/ Ask(r) \/ Clear(r) \/ MakeOut(r) \/ Submit(r)
          \/ GiveUp(r)
    \/ GiveUpAll
    \/ \E id \in {a.id : a \in applications}, status \in Statuses :
          Review(id, status)
    \/ \E u, t \in KnownUsers : u # t /\ Meet(u, t)

DirSpec == DirInit /\ [][DirNext]_dirVars
=============================================================================
