---------------------------- MODULE Migrations ----------------------------
(* The schema and its revisions (src/alembic): every api container runs     *)
(* `alembic upgrade head` before it serves, an operator may downgrade, and  *)
(* requests write rows meanwhile.  alembic runs all the revisions of one    *)
(* call in one transaction, which also updates alembic_version.             *)
EXTENDS Naturals

CONSTANTS
  Users, Orgs, Threads,        \* ids of rows
  Addresses, Old, New,         \* e-mail addresses; the old and the new default user's
  Containers, Operator,        \* who runs alembic
  None,
  MaxDowngrades, MaxFailures   \* bounds on downgrades, and on crashes and restarts

ASSUME MigrationsAssumption ==
  /\ Old \in Addresses /\ New \in Addresses /\ Old # New
  /\ None \notin Orgs /\ None \notin Users
  /\ None \notin [email : Addresses, org : Orgs \cup {None}, admin : BOOLEAN]
  /\ None \notin [owner : Users, ctx : Users \cup {None}]
  /\ Operator \notin Containers /\ None \notin Containers \cup {Operator}
  /\ MaxDowngrades \in Nat /\ MaxFailures \in Nat

Head == 7
Migrators == Containers \cup {Operator}

VARIABLES
  db,         \* the committed version and rows
  work,       \* the open transaction that has run a revision; None is told by work.by
  pc,         \* what each migrator does
  seen,       \* the version it read when it began; 0 between calls
  goal,       \* the version the operator goes back to
  failures, downgrades

vars == <<db, work, pc, seen, goal, failures, downgrades>>

UserRow == [email : Addresses, org : Orgs \cup {None}, admin : BOOLEAN]
ThreadRow == [owner : Users, ctx : Users \cup {None}]

\* Rows of tables a version does not have yet are absent; a column it does not
\* have is null or false.
Database ==
  [version : 0..Head,
   users   : [Users -> UserRow \cup {None}],
   orgs    : SUBSET Orgs,
   convs   : SUBSET (Users \X Orgs),              \* who has imports, and for which organization
   threads : [Threads -> ThreadRow \cup {None}],
   links   : SUBSET Users]                        \* users with an OAuth identity

NoUsers == [u \in Users |-> None]
NoThreads == [t \in Threads |-> None]
Empty(v) == [version |-> v, users |-> NoUsers, orgs |-> {}, convs |-> {},
             threads |-> NoThreads, links |-> {}]

Exists(d, u) == d.users[u] # None
HasAddress(d, e) == \E u \in Users : Exists(d, u) /\ d.users[u].email = e

(***************************************************************************)
(* The revisions.  Each maps the rows before to the rows after; its guard  *)
(* is what its statements and constraints ask of the rows.                 *)
(***************************************************************************)
Readdress(d, e, f) ==
  [u \in Users |-> IF Exists(d, u) /\ d.users[u].email = e
                   THEN [d.users[u] EXCEPT !.email = f] ELSE d.users[u]]

\* 001 and 002 create the first tables, without rows.
CreateTables(d) == Empty(d.version + 1)

\* 003: super_admin is false for everyone, and the organization may be null.
AddSuperAdmin(d) ==
  [d EXCEPT !.version = 3,
            !.users = [u \in Users |->
              IF Exists(d, u) THEN [d.users[u] EXCEPT !.admin = FALSE] ELSE None]]

\* 004: the UPDATE meets the unique address when both users are there.
FixAddressOK(d) == ~(HasAddress(d, Old) /\ HasAddress(d, New))
FixAddress(d) == [d EXCEPT !.version = 4, !.users = Readdress(d, Old, New)]

AddThreads(d) == [d EXCEPT !.version = 5, !.threads = NoThreads]

\* Mutant: no UPDATE before the column is set NOT NULL.
AddContextUserUnset(d) == [d EXCEPT !.version = 6]

\* Mutant: the threads there are get whichever user the query returns first.
AddContextUserFirst(d) ==
  [d EXCEPT !.version = 6,
            !.threads = [t \in Threads |->
              IF d.threads[t] = None THEN None
              ELSE [d.threads[t] EXCEPT !.ctx = CHOOSE u \in Users : Exists(d, u)]]]

\* 006: a thread so far searched its owner's history.
AddContextUser(d) ==
  [d EXCEPT !.version = 6,
            !.threads = [t \in Threads |->
              IF d.threads[t] = None THEN None
              ELSE [d.threads[t] EXCEPT !.ctx = d.threads[t].owner]]]

ContextsSet(d) == \A t \in Threads : d.threads[t] # None => d.threads[t].ctx # None

AddLinks(d) == [d EXCEPT !.version = 7, !.links = {}]

DropLinks(d) == [d EXCEPT !.version = 6, !.links = {}]

DropContextUser(d) ==
  [d EXCEPT !.version = 5,
            !.threads = [t \in Threads |->
              IF d.threads[t] = None THEN None ELSE [d.threads[t] EXCEPT !.ctx = None]]]

\* Mutant: a table is not dropped.
DropThreadsKept(d) == [d EXCEPT !.version = 4]

DropThreads(d) == [d EXCEPT !.version = 4, !.threads = NoThreads]

UnfixAddress(d) == [d EXCEPT !.version = 3, !.users = Readdress(d, New, Old)]

\* 003 down: everyone without an organization is put into one, whichever the
\* query returns first; without any organization SET NOT NULL fails.
DropSuperAdminOK(d) ==
  d.orgs # {} \/ \A u \in Users : Exists(d, u) => d.users[u].org # None

DropSuperAdmin(d, o) ==
  [d EXCEPT !.version = 2,
            !.users = [u \in Users |->
              IF ~Exists(d, u) THEN None
              ELSE [d.users[u] EXCEPT !.admin = FALSE,
                                      !.org = IF @ = None THEN o ELSE @]]]

DropTables(d) == Empty(d.version - 1)

\* The databases the next revision up or down may leave; none when it fails.
Upgraded(d) ==
  CASE d.version \in {0, 1} -> {CreateTables(d)}
    [] d.version = 2 -> {AddSuperAdmin(d)}
    [] d.version = 3 -> IF FixAddressOK(d) THEN {FixAddress(d)} ELSE {}
    [] d.version = 4 -> {AddThreads(d)}
    [] d.version = 5 -> {x \in {AddContextUser(d)} : ContextsSet(x)}
    [] d.version = 6 -> {AddLinks(d)}
    [] OTHER -> {}

Downgraded(d) ==
  CASE d.version \in {1, 2} -> {DropTables(d)}
    [] d.version = 3 -> IF DropSuperAdminOK(d)
                        THEN {DropSuperAdmin(d, o) : o \in d.orgs \cup (IF d.orgs = {} THEN {None} ELSE {})}
                        ELSE {}
    [] d.version = 4 -> IF FixAddressOK(d) THEN {UnfixAddress(d)} ELSE {}
    [] d.version = 5 -> {DropThreads(d)}
    [] d.version = 6 -> {DropContextUser(d)}
    [] d.version = 7 -> {DropLinks(d)}
    [] OTHER -> {}

Revised(d, v) == IF d.version < v THEN Upgraded(d) ELSE Downgraded(d)

(***************************************************************************)
(* A call of alembic.                                                      *)
(***************************************************************************)
NoWork == [by |-> None, db |-> Empty(0)]
Open == work.by # None

Target(m) == IF m = Operator THEN goal ELSE Head

Begin(m) ==
  /\ pc[m] = "down"
  /\ pc' = [pc EXCEPT ![m] = "migrating"]
  /\ seen' = [seen EXCEPT ![m] = db.version]

End(m, state) ==
  /\ pc' = [pc EXCEPT ![m] = state]
  /\ seen' = [seen EXCEPT ![m] = 0]
  /\ goal' = IF m = Operator THEN 0 ELSE goal

Init ==
  /\ \E v \in 0..Head : db = Empty(v)          \* installed by this or an older release
  /\ work = NoWork
  /\ pc = [m \in Migrators |-> "down"]
  /\ seen = [m \in Migrators |-> 0]
  /\ goal = 0
  /\ failures = 0
  /\ downgrades = 0

\* The container's entry point calls alembic, which reads the version.
Start(c) ==
  /\ c \in Containers
  /\ Begin(c)
  /\ UNCHANGED <<db, work, goal, failures, downgrades>>

StartDowngrade ==
  /\ downgrades < MaxDowngrades
  /\ downgrades' = downgrades + 1
  /\ goal' \in 0..Head /\ goal' < db.version
  /\ Begin(Operator)
  /\ UNCHANGED <<db, work, failures>>

\* Who has run a revision holds the row of alembic_version: the others wait, and
\* go on from the version they read only if it is the version still.
MayRevise(m) ==
  /\ pc[m] = "migrating"
  /\ IF Open THEN work.by = m ELSE seen[m] # Target(m)

Mine(m) == IF Open THEN work.db ELSE db
Current(m) == Open \/ db.version = seen[m]

RunRevision(m) ==
  /\ MayRevise(m)
  /\ Current(m)
  /\ Mine(m).version # Target(m)
  /\ \E d \in Revised(Mine(m), Target(m)) :
       work' = [by |-> m, db |-> d]
  /\ UNCHANGED <<db, pc, seen, goal, failures, downgrades>>

\* The transaction is rolled back, and the container ends (set -e).
Rollback(m) ==
  /\ work' = IF work.by = m THEN NoWork ELSE work
  /\ End(m, "down")
  /\ UNCHANGED <<db, downgrades>>

\* A statement fails, or the version is no longer the one that was read.
RevisionFails(m) ==
  /\ MayRevise(m)
  /\ ~Current(m) \/ (Mine(m).version # Target(m) /\ Revised(Mine(m), Target(m)) = {})
  /\ Rollback(m)
  /\ UNCHANGED failures

\* Also the end of a call that had nothing to do.
Commit(m) ==
  /\ pc[m] = "migrating"
  /\ \/ work.by = m /\ work.db.version = Target(m) /\ db' = work.db /\ work' = NoWork
     \/ work.by # m /\ seen[m] = Target(m) /\ UNCHANGED <<db, work>>
  /\ End(m, IF m \in Containers THEN "serving" ELSE "down")
  /\ UNCHANGED <<failures, downgrades>>

\* A crash, a lost connection, or the victim of a deadlock with a migrator or a request.
Abort(m) ==
  /\ pc[m] = "migrating"
  /\ failures < MaxFailures
  /\ failures' = failures + 1
  /\ Rollback(m)

Restart(c) ==
  /\ pc[c] = "serving"
  /\ failures < MaxFailures
  /\ failures' = failures + 1
  /\ End(c, "down")
  /\ UNCHANGED <<db, work, downgrades>>

(***************************************************************************)
(* The tables that the open transaction has locked, until it ends.         *)
(***************************************************************************)
Tables == {"organizations", "users", "chat_threads"}

\* The revisions it has run.
Ran ==
  {r \in 1..Head : /\ Open
                   /\ \/ db.version < r /\ r <= work.db.version
                      \/ work.db.version < r /\ r <= db.version}
Forward == db.version < work.db.version

\* ALTER TABLE and DROP TABLE take a table for themselves; dropping a foreign key,
\* or a table that has one, takes the table it refers to as well.
Altered(r, up) ==
  CASE r = 3 -> {"users"}
    [] r = 6 -> {"chat_threads"} \cup IF up THEN {} ELSE {"users"}
    [] r = 7 /\ ~up -> {"users"}
    [] r \in {1, 2, 5} /\ ~up -> Tables
    [] OTHER -> {}

\* Adding a foreign key takes SHARE ROW EXCLUSIVE on the table it refers to: nobody
\* writes it, but other foreign keys are checked against it.
Referenced(r, up) ==
  CASE r = 5 /\ up -> {"users", "organizations"}
    [] r \in {6, 7} /\ up -> {"users"}
    [] OTHER -> {}

Checkable(table) == \A r \in Ran : table \notin Altered(r, Forward)
Writable(table) == Checkable(table) /\ \A r \in Ran : table \notin Referenced(r, Forward)

(***************************************************************************)
(* Rows written meanwhile, by a release that fits the committed version,   *)
(* each write with its commit.  It needs the tables it writes and those    *)
(* its foreign keys, or those that refer to it, are checked against; a     *)
(* table locked with users is not named.                                   *)
(***************************************************************************)
Write(d, e) ==
  /\ db' = d
  /\ work' = IF Open THEN [work EXCEPT !.db = e] ELSE work
  /\ UNCHANGED <<pc, seen, goal, failures, downgrades>>

\* The open transaction has not updated the row; 004 updates a unique column, so
\* that not even a foreign key can be checked against the row.
Free(u) == Open => work.db.users[u] = db.users[u]

\* The unique index has the address neither before nor after the open UPDATE.
Unused(email) ==
  /\ ~HasAddress(db, email)
  /\ Open => ~HasAddress(work.db, email)
  /\ email = Old => db.version < 4

Membership == IF db.version = 2 THEN db.orgs ELSE db.orgs \cup {None}

SetUser(d, u, row) == [d EXCEPT !.users[u] = row]

InsertUser(u, row) ==
  /\ db.version >= 2 /\ Writable("users")
  /\ ~Exists(db, u) /\ Free(u)
  /\ Unused(row.email)
  /\ row.org \in Membership
  /\ row.admin => row.org = None /\ db.version >= 3
  /\ Write(SetUser(db, u, row), SetUser(work.db, u, row))

\* join_organization, and update_user, which may also take a user out of one.
AssignUser(u, o) ==
  /\ db.version >= 2 /\ Writable("users")
  /\ Exists(db, u) /\ Free(u) /\ ~db.users[u].admin
  /\ o \in Membership
  /\ LET row == [db.users[u] EXCEPT !.org = o]
     IN  Write(SetUser(db, u, row), SetUser(work.db, u, row))

EditAddress(u, email) ==
  /\ db.version >= 2 /\ Writable("users")
  /\ Exists(db, u) /\ Free(u)
  /\ Unused(email)
  /\ LET row == [db.users[u] EXCEPT !.email = email]
     IN  Write(SetUser(db, u, row), SetUser(work.db, u, row))

\* Imports, threads and identities of the user make it fail with an IntegrityError.
DeleteUser(u) ==
  /\ db.version >= 2 /\ Writable("users")
  /\ Exists(db, u) /\ Free(u) /\ ~db.users[u].admin
  /\ \A o \in Orgs : <<u, o>> \notin db.convs
  /\ u \notin db.links
  /\ \A t \in Threads : db.threads[t] # None => u \notin {db.threads[t].owner, db.threads[t].ctx}
  /\ Write(SetUser(db, u, None), SetUser(work.db, u, None))

SetOrgs(d, orgs) == [d EXCEPT !.orgs = orgs]

InsertOrg(o) ==
  /\ db.version >= 2 /\ Writable("organizations")
  /\ o \notin db.orgs
  /\ Write(SetOrgs(db, db.orgs \cup {o}), SetOrgs(work.db, db.orgs \cup {o}))

\* Members and imports prevent it; 003 down holds the row of the organization it gave.
DeleteOrg(o) ==
  /\ db.version >= 2 /\ Writable("organizations")
  /\ Checkable("users") /\ Checkable("chat_threads")
  /\ o \in db.orgs
  /\ \A u \in Users :
       /\ <<u, o>> \notin db.convs
       /\ Exists(db, u) => db.users[u].org # o
       /\ Open /\ Exists(work.db, u) => work.db.users[u].org # o
  /\ Write(SetOrgs(db, db.orgs \ {o}), SetOrgs(work.db, db.orgs \ {o}))

AddImport(d, u, o) == [d EXCEPT !.convs = @ \cup {<<u, o>>}]

Import(u) ==
  /\ db.version >= 2 /\ Checkable("users") /\ Checkable("organizations")
  /\ Exists(db, u) /\ Free(u) /\ db.users[u].org # None
  /\ LET o == db.users[u].org IN Write(AddImport(db, u, o), AddImport(work.db, u, o))

SetThread(d, t, row) == [d EXCEPT !.threads[t] = row]

InsertThread(t, u, c) ==
  /\ db.version >= 5 /\ Writable("chat_threads") /\ Checkable("users")
  /\ db.threads[t] = None
  /\ Exists(db, u) /\ Exists(db, c)
  /\ LET row == [owner |-> u, ctx |-> IF db.version = 5 THEN None ELSE c]
     IN  Write(SetThread(db, t, row), SetThread(work.db, t, row))

DeleteThread(t) ==
  /\ db.version >= 5 /\ Writable("chat_threads")
  /\ db.threads[t] # None
  /\ Write(SetThread(db, t, None), SetThread(work.db, t, None))

Link(u) ==
  /\ db.version >= 7 /\ Checkable("users")
  /\ Exists(db, u)
  /\ Write([db EXCEPT !.links = @ \cup {u}], work.db)

WriteRow ==
  \/ \E u \in Users, row \in UserRow : InsertUser(u, row)
  \/ \E u \in Users, o \in Orgs \cup {None} : AssignUser(u, o)
  \/ \E u \in Users, email \in Addresses : EditAddress(u, email)
  \/ \E u \in Users : DeleteUser(u) \/ Import(u) \/ Link(u)
  \/ \E o \in Orgs : InsertOrg(o) \/ DeleteOrg(o)
  \/ \E t \in Threads, u, c \in Users : InsertThread(t, u, c)
  \/ \E t \in Threads : DeleteThread(t)

MigratorStep(m) == Start(m) \/ RunRevision(m) \/ RevisionFails(m) \/ Commit(m)

\* Every container serves and nobody migrates.
Idle ==
  /\ \A m \in Migrators : pc[m] = IF m = Operator THEN "down" ELSE "serving"
  /\ UNCHANGED vars

Next ==
  \/ \E m \in Migrators : MigratorStep(m) \/ Abort(m)
  \/ StartDowngrade
  \/ \E c \in Containers : Restart(c)
  \/ WriteRow
  \/ Idle

Spec == Init /\ [][Next]_vars

\* Containers are restarted until they serve, and a call of alembic goes on.
FairSpec == Spec /\ \A m \in Migrators : WF_vars(MigratorStep(m))

(***************************************************************************)
(* Properties.                                                             *)
(***************************************************************************)
\* The rows meet the constraints of the version: addresses are unique,
\* references resolve, members of no organization and super admins only from
\* 003 on, a thread has a context user exactly from 006 on.
RowsFit(d) ==
  /\ d \in Database
  /\ d.version < 2 => d = Empty(d.version)
  /\ d.version < 5 => d.threads = NoThreads
  /\ d.version < 7 => d.links = {}
  /\ \A u, v \in Users :
       Exists(d, u) /\ Exists(d, v) /\ d.users[u].email = d.users[v].email => u = v
  /\ \A u \in Users :
       /\ Exists(d, u) =>
            /\ d.users[u].org \in d.orgs \cup {None}
            /\ d.version = 2 => d.users[u].org # None
            /\ d.users[u].admin => d.users[u].org = None /\ d.version >= 3
       /\ u \in d.links => Exists(d, u)
       /\ \A o \in Orgs : <<u, o>> \in d.convs => Exists(d, u) /\ o \in d.orgs
  /\ \A t \in Threads :
       d.threads[t] # None =>
         /\ Exists(d, d.threads[t].owner)
         /\ IF d.version = 5 THEN d.threads[t].ctx = None
            ELSE d.threads[t].ctx # None /\ Exists(d, d.threads[t].ctx)

\* Whatever is written while revisions run, the committed rows always fit the
\* committed version, and so do those of the open transaction.
RowsFitSchema == RowsFit(db) /\ (Open => RowsFit(work.db))

\* A migration keeps the organizations, every user with address, organization and imports, makes
\* nobody a super admin, and changes whose history a thread searches only from
\* its owner's to nothing and back: the default user's address is the only
\* exception, and those without organization are put into one below 003.
Kept(d, e) ==
  /\ \A u \in Users :
       Exists(d, u) =>
         /\ Exists(e, u)
         /\ e.users[u].email = d.users[u].email \/ {e.users[u].email, d.users[u].email} = {Old, New}
         /\ d.users[u].org # None => e.users[u].org = d.users[u].org
         /\ d.users[u].org = None /\ e.users[u].org # None => e.version = 2
         /\ e.users[u].admin => d.users[u].admin
  /\ \A u \in Users : Exists(e, u) => Exists(d, u)
  /\ d.orgs = e.orgs /\ d.convs = e.convs
  /\ \A t \in Threads :
       d.threads[t] # None /\ e.version >= 5 =>
         /\ e.threads[t] # None
         /\ e.threads[t].owner = d.threads[t].owner
         /\ e.threads[t].ctx \in {d.threads[t].ctx, d.threads[t].owner, None}
         /\ d.version >= 6 /\ e.version >= 6 => e.threads[t].ctx = d.threads[t].ctx

AccountsSurvive ==
  [][db'.version # db.version /\ db'.version >= 2 => Kept(db, db')]_vars

\* A container that is down comes up, however many start together and whatever
\* rows there are, unless both default users' addresses are taken.
ContainersComeUp ==
  \A c \in Containers :
    pc[c] # "serving" ~> (pc[c] = "serving" \/ (HasAddress(db, Old) /\ HasAddress(db, New)))
=============================================================================
