------------------------------ MODULE Tenancy ------------------------------
(* Organizations and their members: concurrent requests that join an        *)
(* organization, assign a user, delete an organization or a user, and       *)
(* insert rows that refer to both.  Each has a session of its own (READ     *)
(* COMMITTED), one action per query or statement that waits for a row lock; *)
(* an exception closes the session and rolls it back.                       *)
EXTENDS Naturals, FiniteSets

CONSTANTS
  Users,                 \* tenants, by id
  Orgs, None,            \* organizations, and the null organization
  Joins,                 \* POST /users/me/organization
  Assigns,               \* PATCH /users/{user_id} with an organization_id
  OrgDeletes,            \* DELETE /organizations/{organization_id}
  UserDeletes,           \* DELETE /users/{user_id}
  Inserts                \* inserts of an import job, a conversation or a chat thread

Tables == {"import_jobs", "conversations", "chat_threads"}
Row == [table : Tables, user : Users, org : Orgs \cup {None}]

ASSUME TenancyAssumption ==
  /\ Users \subseteq Nat /\ IsFiniteSet(Users)
  /\ None \notin Orgs \cup Users \cup Row
  /\ Joins \cap Assigns = {}
  /\ (Joins \cup Assigns) \cap (OrgDeletes \cup UserDeletes \cup Inserts) = {}
  /\ OrgDeletes \cap (UserDeletes \cup Inserts) = {}
  /\ UserDeletes \cap Inserts = {}

Changes == Joins \cup Assigns
Calls == Changes \cup OrgDeletes \cup UserDeletes \cup Inserts

VARIABLES
  orgs,      \* the organizations that exist
  users,     \* the users that exist
  org,       \* users.organization_id
  rows,      \* the row each insert has committed
  call       \* the requests and their sessions

vars == <<orgs, users, org, rows, call>>

CallStates ==
  {"idle", "lookup", "update", "key", "users", "jobs", "children", "nullify", "erase",
   "insert", "commit", "refresh", "answered", "refused", "missing", "conflict", "failed",
   "died"}
Ended == {"answered", "refused", "missing", "conflict", "failed", "died"}

\* A session: the user and organization it is about, the organization_id it
\* loaded, the table it inserts into, the members and chat threads it loaded,
\* and the members it has yet to update.
Session == [pc : CallStates, user : Users \cup {None}, org : Orgs \cup {None}, was : Orgs \cup {None},
            table : Tables, members : SUBSET Users, threads : SUBSET Inserts,
            todo : SUBSET Users]

Blank == [pc |-> "idle", user |-> None, org |-> None, was |-> None,
          table |-> "chat_threads", members |-> {}, threads |-> {}, todo |-> {}]

TypeOK ==
  /\ orgs \in SUBSET Orgs
  /\ users \in SUBSET Users
  /\ org \in [Users -> Orgs \cup {None}]
  /\ rows \in [Inserts -> Row \cup {None}]
  /\ call \in [Calls -> Session]

Init ==
  /\ orgs = Orgs
  /\ users = Users
  /\ org \in [Users -> Orgs \cup {None}]
  /\ rows = [i \in Inserts |-> None]
  /\ call = [c \in Calls |-> Blank]

To(c, state) == call' = [call EXCEPT ![c].pc = state]

(***************************************************************************)
(* Row locks, held until the session ends.                                 *)
(***************************************************************************)
\* Sessions that have updated the row of user u.
UserUpdaters(u) ==
  {c \in Changes : call[c].user = u /\ call[c].pc \in {"key", "commit"}}
    \cup {d \in OrgDeletes : /\ call[d].pc \in {"nullify", "commit"}
                             /\ u \in call[d].members \ call[d].todo}

UserDeleters(u) == {d \in UserDeletes : call[d].pc = "commit" /\ call[d].user = u}

OrgDeleters(o) == {d \in OrgDeletes : call[d].pc = "commit" /\ call[d].org = o}

\* Sessions whose foreign keys hold a KEY SHARE lock, on a user or an organization.
UserSharers(u) == {i \in Inserts : call[i].pc = "commit" /\ call[i].user = u}

\* Mutant: the organization is looked up with its row locked.
OrgSharersEarly(o) ==
  {c \in Changes : call[c].pc \in {"update", "key", "commit"} /\ call[c].org = o}
    \cup {i \in Inserts : call[i].pc = "commit" /\ call[i].was = o}

OrgSharers(o) ==
  {c \in Changes : call[c].pc = "commit" /\ call[c].org = o}
    \cup {i \in Inserts : call[i].pc = "commit" /\ call[i].was = o}

\* The next UPDATE of a deletion is of the member with the lowest id.
First(todo) == {u \in todo : \A v \in todo : u <= v}

\* The sessions that hold a row which the next statement of c waits for.
Blockers(c) ==
  LET s == call[c] IN
    CASE s.pc = "update"  -> IF s.org = s.was THEN {}
                             ELSE UserUpdaters(s.user) \cup UserDeleters(s.user)
      [] s.pc = "key"     -> OrgDeleters(s.org)
      [] s.pc = "nullify" -> IF s.todo = {} THEN OrgSharers(s.org) \cup OrgDeleters(s.org)
                             ELSE UNION {UserUpdaters(u) \cup UserDeleters(u) : u \in First(s.todo)}
      [] s.pc = "erase"   -> UserUpdaters(s.user) \cup UserDeleters(s.user) \cup UserSharers(s.user)
      [] s.pc = "insert"  -> UserDeleters(s.user) \cup OrgDeleters(s.was)
      [] OTHER            -> {}

(***************************************************************************)
(* join_organization and update_user.                                      *)
(***************************************************************************)
\* get_current_user; the session keeps the caller's row as loaded here.
StartJoin(c, u, o) ==
  /\ call[c].pc = "idle"
  /\ call' = [call EXCEPT ![c].user = u, ![c].org = o,
       ![c].pc = IF u \notin users THEN "refused"
                 ELSE IF org[u] # None THEN "conflict" ELSE "lookup"]
  /\ UNCHANGED <<orgs, users, org, rows>>

\* The target as the administrator's session loads it; null needs no look-up.
StartAssign(c, u, o) ==
  /\ call[c].pc = "idle"
  /\ call' = [call EXCEPT ![c].user = u, ![c].org = o, ![c].was = org[u],
       ![c].pc = IF u \notin users THEN "missing" ELSE IF o = None THEN "update" ELSE "lookup"]
  /\ UNCHANGED <<orgs, users, org, rows>>

\* session.get(Organization)
FindOrg(c) ==
  /\ call[c].pc = "lookup"
  /\ To(c, IF call[c].org \in orgs THEN "update" ELSE "conflict")
  /\ UNCHANGED <<orgs, users, org, rows>>

\* The flush: no UPDATE when the value is the loaded one; one that matches no row
\* is a StaleDataError.
UpdateUser(c) ==
  /\ call[c].pc = "update"
  /\ Blockers(c) = {}
  /\ To(c, IF call[c].org = call[c].was THEN "refresh"
           ELSE IF call[c].user \notin users THEN "failed"
           ELSE IF call[c].org = None THEN "commit" ELSE "key")
  /\ UNCHANGED <<orgs, users, org, rows>>

\* The foreign key's check, at the end of the UPDATE, with the user's row locked.
\* update_user answers an IntegrityError with 409, join_organization does not.
CheckKey(c) ==
  /\ call[c].pc = "key"
  /\ Blockers(c) = {}
  /\ To(c, IF call[c].org \in orgs THEN "commit"
           ELSE IF c \in Joins THEN "failed" ELSE "conflict")
  /\ UNCHANGED <<orgs, users, org, rows>>

CommitChange(c) ==
  /\ call[c].pc = "commit"
  /\ org' = [org EXCEPT ![call[c].user] = call[c].org]
  /\ To(c, "refresh")
  /\ UNCHANGED <<orgs, users, rows>>

\* db.refresh raises when the user was deleted since.
RefreshUser(c) ==
  /\ call[c].pc = "refresh"
  /\ To(c, IF call[c].user \in users THEN "answered" ELSE "failed")
  /\ UNCHANGED <<orgs, users, org, rows>>

ChangeStep(c) == FindOrg(c) \/ UpdateUser(c) \/ CheckKey(c) \/ CommitChange(c) \/ RefreshUser(c)

(***************************************************************************)
(* delete_organization                                                     *)
(***************************************************************************)
StartOrgDelete(d, o) ==
  /\ call[d].pc = "idle"
  /\ call' = [call EXCEPT ![d].org = o, ![d].pc = IF o \in orgs THEN "users" ELSE "missing"]
  /\ UNCHANGED <<orgs, users, org, rows>>

Members(o) == {u \in users : org[u] = o}
RowsOf(o, tables) == {i \in Inserts : rows[i] # None /\ rows[i].table \in tables /\ rows[i].org = o}

CountUsers(d) ==
  /\ call[d].pc = "users"
  /\ To(d, IF Members(call[d].org) = {} THEN "jobs" ELSE "conflict")
  /\ UNCHANGED <<orgs, users, org, rows>>

CountJobs(d) ==
  /\ call[d].pc = "jobs"
  /\ To(d, IF RowsOf(call[d].org, {"import_jobs"}) = {} THEN "children" ELSE "conflict")
  /\ UNCHANGED <<orgs, users, org, rows>>

\* The relationships of Organization do not cascade: the flush loads the rows
\* that refer to it and sets their organization_id to null.
LoadChildren(d) ==
  /\ call[d].pc = "children"
  /\ LET o == call[d].org IN
       call' = [call EXCEPT ![d].pc = "nullify", ![d].members = Members(o),
                            ![d].todo = Members(o),
                            ![d].threads = RowsOf(o, {"chat_threads"})]
  /\ UNCHANGED <<orgs, users, org, rows>>

\* One UPDATE per member, in the order of the primary key.
NullifyMember(d) ==
  /\ call[d].pc = "nullify"
  /\ Blockers(d) = {}
  /\ \E u \in First(call[d].todo) :
       call' = IF u \in users THEN [call EXCEPT ![d].todo = @ \ {u}]
               ELSE [call EXCEPT ![d].pc = "failed"]
  /\ UNCHANGED <<orgs, users, org, rows>>

\* Mutant: the IntegrityError comes from nowhere (no foreign keys).
DeleteOrgUnchecked(d) ==
  /\ call[d].pc = "nullify" /\ call[d].todo = {}
  /\ Blockers(d) = {}
  /\ To(d, "commit")
  /\ UNCHANGED <<orgs, users, org, rows>>

\* The DELETE waits for the foreign keys of other sessions, and fails when a row
\* that was not loaded, or one that cannot be null, refers to the organization.
DeleteOrg(d) ==
  /\ call[d].pc = "nullify" /\ call[d].todo = {}
  /\ Blockers(d) = {}
  /\ LET o == call[d].org IN
       To(d, IF \/ ~(Members(o) \subseteq call[d].members)
                \/ RowsOf(o, {"import_jobs", "conversations"}) # {}
                \/ ~(RowsOf(o, {"chat_threads"}) \subseteq call[d].threads)
             THEN "conflict" ELSE "commit")
  /\ UNCHANGED <<orgs, users, org, rows>>

CommitOrgDelete(d) ==
  /\ call[d].pc = "commit"
  /\ orgs' = orgs \ {call[d].org}
  /\ org' = [u \in Users |-> IF u \in call[d].members THEN None ELSE org[u]]
  /\ rows' = [i \in Inserts |->
       IF i \in call[d].threads THEN [rows[i] EXCEPT !.org = None] ELSE rows[i]]
  /\ To(d, "answered")
  /\ UNCHANGED users

OrgDeleteStep(d) ==
  \/ CountUsers(d) \/ CountJobs(d) \/ LoadChildren(d)
  \/ NullifyMember(d) \/ DeleteOrg(d) \/ CommitOrgDelete(d)

(***************************************************************************)
(* delete_user                                                             *)
(***************************************************************************)
StartUserDelete(d, u) ==
  /\ call[d].pc = "idle"
  /\ call' = [call EXCEPT ![d].user = u, ![d].pc = IF u \in users THEN "erase" ELSE "missing"]
  /\ UNCHANGED <<orgs, users, org, rows>>

\* Mutant: the rows that refer to the user are not looked at.
DeleteUserUnchecked(d) ==
  /\ call[d].pc = "erase"
  /\ Blockers(d) = {}
  /\ To(d, IF call[d].user \notin users THEN "answered" ELSE "commit")
  /\ UNCHANGED <<orgs, users, org, rows>>

\* The user_id of every row that refers to a user is not null, so neither the
\* update of a loaded row nor the foreign key of another lets the user go.
DeleteUser(d) ==
  /\ call[d].pc = "erase"
  /\ Blockers(d) = {}
  /\ To(d, IF call[d].user \notin users THEN "answered"
           ELSE IF \E i \in Inserts : rows[i] # None /\ rows[i].user = call[d].user
                THEN "conflict" ELSE "commit")
  /\ UNCHANGED <<orgs, users, org, rows>>

CommitUserDelete(d) ==
  /\ call[d].pc = "commit"
  /\ users' = users \ {call[d].user}
  /\ To(d, "answered")
  /\ UNCHANGED <<orgs, org, rows>>

UserDeleteStep(d) == DeleteUser(d) \/ CommitUserDelete(d)

(***************************************************************************)
(* create_import_job, the INSERT of upsert_conversation and create_thread: *)
(* the row takes the organization the session loaded with the user.        *)
(***************************************************************************)
\* Conversations come from the import jobs of a user.
Uploaders ==
  {rows[j].user : j \in {i \in Inserts : rows[i] # None /\ rows[i].table = "import_jobs"}}

StartInsert(i, table, u) ==
  /\ call[i].pc = "idle"
  /\ table = "conversations" => u \in Uploaders
  /\ call' = [call EXCEPT ![i].table = table, ![i].user = u, ![i].was = org[u],
       ![i].pc = IF u \notin users \/ (org[u] = None /\ table # "chat_threads")
                 THEN "refused" ELSE "insert"]
  /\ UNCHANGED <<orgs, users, org, rows>>

InsertRow(i) ==
  /\ call[i].pc = "insert"
  /\ Blockers(i) = {}
  /\ To(i, IF call[i].user \in users /\ call[i].was \in orgs \cup {None}
           THEN "commit" ELSE "failed")
  /\ UNCHANGED <<orgs, users, org, rows>>

CommitInsert(i) ==
  /\ call[i].pc = "commit"
  /\ rows' = [rows EXCEPT ![i] =
       [table |-> call[i].table, user |-> call[i].user, org |-> call[i].was]]
  /\ To(i, "answered")
  /\ UNCHANGED <<orgs, users, org>>

InsertStep(i) == InsertRow(i) \/ CommitInsert(i)

(***************************************************************************)
(* The system.                                                             *)
(***************************************************************************)
\* The process or its connection dies, and the session with it.
CallDies(c) ==
  /\ call[c].pc \notin Ended \cup {"idle"}
  /\ To(c, "died")
  /\ UNCHANGED <<orgs, users, org, rows>>

Step(c) ==
  \/ c \in Changes /\ ChangeStep(c)
  \/ c \in OrgDeletes /\ OrgDeleteStep(c)
  \/ c \in UserDeletes /\ UserDeleteStep(c)
  \/ c \in Inserts /\ InsertStep(c)

Start(c) ==
  \/ c \in Joins /\ \E u \in Users, o \in Orgs : StartJoin(c, u, o)
  \/ c \in Assigns /\ \E u \in Users, o \in Orgs \cup {None} : StartAssign(c, u, o)
  \/ c \in OrgDeletes /\ \E o \in Orgs : StartOrgDelete(c, o)
  \/ c \in UserDeletes /\ \E u \in Users : StartUserDelete(c, u)
  \/ c \in Inserts /\ \E table \in Tables, u \in Users : StartInsert(c, table, u)

Quiet == \A c \in Calls : call[c].pc \in Ended \cup {"idle"}
Idle == Quiet /\ UNCHANGED vars

Next == (\E c \in Calls : Start(c) \/ Step(c) \/ CallDies(c)) \/ Idle

Spec == Init /\ [][Next]_vars

(***************************************************************************)
(* Properties.                                                             *)
(***************************************************************************)
\* What is stored refers to users and organizations that exist, whatever is
\* deleted while it is written; only a chat thread may be without organization.
ReferencesResolve ==
  /\ \A u \in users : org[u] \in orgs \cup {None}
  /\ \A i \in Inserts :
       rows[i] # None =>
         /\ rows[i].user \in users
         /\ rows[i].org \in orgs \cup IF rows[i].table = "chat_threads" THEN {None} ELSE {}

\* Of sessions that wait for the rows of users and of organizations, no group waits
\* for nothing but its own: there is no deadlock.
Waiting == {c \in Calls : Blockers(c) # {}}
NoCircle == \A group \in (SUBSET Waiting) \ {{}} : \E c \in group : Blockers(c) \cap group = {}

\* A request that a session works on, and one whose next query or statement has
\* what it takes.
UnderWay(c) == call[c].pc \notin Ended \cup {"idle"}

CanGoOn(c) ==
  /\ Blockers(c) = {}
  /\ \/ c \in Changes /\ call[c].pc \in {"lookup", "update", "key", "commit", "refresh"}
     \/ c \in OrgDeletes /\ call[c].pc \in {"users", "jobs", "children", "commit"}
     \/ c \in OrgDeletes /\ call[c].pc = "nullify" /\ (call[c].todo # {} => First(call[c].todo) # {})
     \/ c \in UserDeletes /\ call[c].pc \in {"erase", "commit"}
     \/ c \in Inserts /\ call[c].pc \in {"insert", "commit"}

(***************************************************************************)
(* The inductive strengthening of ReferencesResolve: a session about to    *)
(* commit has its references pinned.                                       *)
(***************************************************************************)
\* An insert about to commit refers to what exists and what no session deletes;
\* a row is there only when its request was answered.
InsertInv(i) ==
  /\ rows[i] # None => call[i].pc = "answered"
  /\ call[i].pc = "insert" /\ call[i].was = None => call[i].table = "chat_threads"
  /\ call[i].pc = "commit" =>
       /\ call[i].user \in users /\ UserDeleters(call[i].user) = {}
       /\ call[i].was \in orgs \cup IF call[i].table = "chat_threads" THEN {None} ELSE {}
       /\ OrgDeleters(call[i].was) = {}

\* An update about to commit names an organization that exists, and stays.
ChangeInv(c) ==
  call[c].pc = "commit" => call[c].org \in orgs \cup {None} /\ OrgDeleters(call[c].org) = {}

\* A deletion about to commit has loaded every member and row of the organization,
\* and the rows are chat threads.
OrgDeleteInv(d) ==
  /\ call[d].pc # "idle" => call[d].org \in Orgs
  /\ \A i \in call[d].threads : rows[i] # None /\ rows[i].table = "chat_threads"
  /\ call[d].pc = "commit" =>
       /\ Members(call[d].org) \subseteq call[d].members
       /\ RowsOf(call[d].org, Tables) \subseteq call[d].threads

\* A user about to be deleted has no row.
UserDeleteInv(d) ==
  call[d].pc = "commit" => \A i \in Inserts : rows[i] # None => rows[i].user # call[d].user

\* What is stored resolves, and stays so whichever sessions commit next.
TenancyInv ==
  /\ TypeOK /\ ReferencesResolve
  /\ \A i \in Inserts : InsertInv(i)
  /\ \A c \in Changes : ChangeInv(c)
  /\ \A d \in OrgDeletes : OrgDeleteInv(d)
  /\ \A d \in UserDeletes : UserDeleteInv(d)

(***************************************************************************)
(* What the documentation says and the code does not do.                   *)
(***************************************************************************)
\* docs/API.md, DELETE /organizations/{organization_id}: 409 if users still
\* reference the organization.
MembersBlockDeletion == [][\A o \in orgs \ orgs' : Members(o) = {}]_vars
=============================================================================
