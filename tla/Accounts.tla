------------------------------ MODULE Accounts ------------------------------
(* User accounts and the Google or GitHub identities linked to them:        *)
(* concurrent requests that register a user, log in with an identity,       *)
(* change an e-mail address or delete a user.  Each has a session of its    *)
(* own (READ COMMITTED), one action per query or statement that waits for   *)
(* another session; an exception closes the session and rolls it back.      *)
EXTENDS Naturals, FiniteSets

CONSTANTS
  Members,               \* users registered before
  Registers,             \* POST /auth/register, POST /users
  Logins,                \* POST /auth/google/token, POST /auth/github/token
  Edits,                 \* PATCH /users/me, PATCH /users/{user_id} with an e-mail
  Deletes,               \* DELETE /users/{user_id}
  Mailboxes, Spellings,  \* e-mail addresses, and the ways to spell one
  Providers, Subjects,   \* OAuth providers, and their provider_user_ids
  None

\* A request that inserts a user gives the row its name.
UserIds == Members \cup Registers \cup Logins
Calls == Registers \cup Logins \cup Edits \cup Deletes

\* The validation of an address keeps the spelling of its local part, the profile
\* of an identity loses it.
Email == [box : Mailboxes, spelling : Spellings]
Lower(e) == [e EXCEPT !.spelling = "lower"]
Identity == [provider : Providers, subject : Subjects]
Link == [user : UserIds, identity : Identity]

ASSUME AccountsAssumption ==
  /\ Members \cap Calls = {}
  /\ Registers \cap (Logins \cup Edits \cup Deletes) = {}
  /\ Logins \cap (Edits \cup Deletes) = {} /\ Edits \cap Deletes = {}
  /\ "lower" \in Spellings
  /\ None \notin UserIds \cup Email \cup Link

VARIABLES
  email,     \* users.email, None where there is no row
  password,  \* the users with a password_hash
  link,      \* the oauth_accounts row each login has committed
  call       \* the requests and their sessions

vars == <<email, password, link, call>>

Ended == {"answered", "refused", "conflict", "failed", "missing", "died"}
CallStates == Ended \cup
  {"idle", "check", "insert",                              \* register_user, create_user
   "identity", "load", "find", "user", "link", "share",    \* authenticate_with_oauth
   "update", "key", "erase", "commit", "refresh"}

\* A session: its user, the address and identity it is about, and the address
\* of the user as it loaded it.
Session == [pc : CallStates, user : UserIds \cup {None}, email : Email \cup {None},
            identity : Identity \cup {None}, was : Email \cup {None}, password : BOOLEAN]

Blank == [pc |-> "idle", user |-> None, email |-> None, identity |-> None,
          was |-> None, password |-> FALSE]

Exists(u) == email[u] # None
EmailExists(e) == \E u \in UserIds : email[u] = e
Linked(u) == \E l \in Logins : link[l] # None /\ link[l].user = u

TypeOK ==
  /\ email \in [UserIds -> Email \cup {None}]
  /\ password \in SUBSET UserIds
  /\ link \in [Logins -> Link \cup {None}]
  /\ call \in [Calls -> Session]

Init ==
  /\ email \in [UserIds -> Email \cup {None}]
  /\ \A u \in UserIds : Exists(u) <=> u \in Members
  /\ \A u, v \in Members : email[u] = email[v] => u = v
  /\ password \in SUBSET Members
  /\ link = [l \in Logins |-> None]
  /\ call = [c \in Calls |-> Blank]

To(c, state) == call' = [call EXCEPT ![c].pc = state]
Stored == <<email, password, link>>

(***************************************************************************)
(* What one session holds until it ends, and what another waits for.       *)
(***************************************************************************)
\* Sessions with an uncommitted row, update or delete of a user with address e.
EmailHolders(e) ==
  {r \in Registers : call[r].pc = "commit" /\ call[r].email = e}
    \cup {l \in Logins : /\ call[l].pc \in {"link", "share", "commit"}
                         /\ call[l].user = l /\ call[l].email = e}
    \cup {d \in Edits : \/ call[d].pc = "commit" /\ call[d].email = e
                        \/ call[d].pc \in {"key", "commit"} /\ email[call[d].user] = e}
    \cup {d \in Deletes : call[d].pc = "commit" /\ email[call[d].user] = e}

\* uq_oauth_accounts_provider_user and uq_oauth_accounts_user_provider.
SameKey(u, i, v, j) == i = j \/ (u = v /\ i.provider = j.provider)

\* Sessions with an uncommitted link that has a key in common with that of l.
LinkHolders(l) ==
  {m \in Logins \ {l} : /\ call[m].pc \in {"share", "commit"}
                        /\ SameKey(call[l].user, call[l].identity, call[m].user, call[m].identity)}

\* Mutant: a session that ends with an error keeps its locks.
RowHoldersUnreleased(u) ==
  {d \in Edits : call[d].pc \in {"key", "commit", "conflict"} /\ call[d].user = u}
    \cup {d \in Deletes : call[d].pc = "commit" /\ call[d].user = u}

\* Sessions that updated or deleted the row of user u, and those whose foreign key
\* holds its KEY SHARE lock, which the update of a unique column waits for.
RowHolders(u) ==
  {d \in Edits : call[d].pc \in {"key", "commit"} /\ call[d].user = u}
    \cup {d \in Deletes : call[d].pc = "commit" /\ call[d].user = u}

RowSharers(u) == {l \in Logins : call[l].pc = "commit" /\ call[l].user = u}

Blockers(c) ==
  CASE call[c].pc \in {"insert", "user", "key"} -> EmailHolders(call[c].email) \ {c}
    [] call[c].pc = "link" -> LinkHolders(c)
    [] call[c].pc = "share" -> RowHolders(call[c].user)
    [] call[c].pc \in {"update", "erase"} -> RowHolders(call[c].user) \cup RowSharers(call[c].user)
    [] OTHER -> {}

(***************************************************************************)
(* register_user and create_user                                           *)
(***************************************************************************)
\* create_user takes no password when it is given none.
StartRegister(r, e) ==
  /\ call[r].pc = "idle"
  /\ \E given \in BOOLEAN :
       call' = [call EXCEPT ![r].pc = "check", ![r].email = e, ![r].password = given]
  /\ UNCHANGED Stored

CheckEmail(r) ==
  /\ call[r].pc = "check" /\ r \in Registers
  /\ To(r, IF EmailExists(call[r].email) THEN "conflict" ELSE "insert")
  /\ UNCHANGED Stored

\* Mutant: no unique constraint on users.email.
InsertUserUnchecked(r) ==
  /\ call[r].pc = "insert"
  /\ call' = [call EXCEPT ![r].user = r, ![r].pc = "commit"]
  /\ UNCHANGED Stored

\* The flush; an IntegrityError is a ConflictError.
InsertUser(r) ==
  /\ call[r].pc = "insert"
  /\ Blockers(r) = {}
  /\ call' = [call EXCEPT ![r].user = r,
       ![r].pc = IF EmailExists(call[r].email) THEN "conflict" ELSE "commit"]
  /\ UNCHANGED Stored

CommitUser(r) ==
  /\ call[r].pc = "commit"
  /\ email' = [email EXCEPT ![r] = call[r].email]
  /\ password' = IF call[r].password THEN password \cup {r} ELSE password
  /\ To(r, "refresh")
  /\ UNCHANGED link

RegisterStep(r) == CheckEmail(r) \/ InsertUser(r) \/ CommitUser(r)

(***************************************************************************)
(* login_with_google, login_with_github                                    *)
(***************************************************************************)
\* The exchange of the code: the profile, whose address may have changed since the
\* identity was linked, or an AuthenticationError.
StartLogin(l, i, e) ==
  /\ call[l].pc = "idle"
  /\ \/ call' = [call EXCEPT ![l].pc = "identity", ![l].identity = i, ![l].email = Lower(e)]
     \/ To(l, "refused")
  /\ UNCHANGED Stored

\* Mutant: the user with the profile's address comes before the identity's.
FindByEmailFirst(l) ==
  /\ call[l].pc = "identity"
  /\ \/ \E u \in UserIds :
          /\ email[u] = call[l].email
          /\ call' = [call EXCEPT ![l].user = u, ![l].pc = IF Linked(u) THEN "load" ELSE "link"]
     \/ /\ ~EmailExists(call[l].email)
        /\ To(l, "find")
  /\ UNCHANGED Stored

FindIdentity(l) ==
  /\ call[l].pc = "identity"
  /\ LET found == {m \in Logins : link[m] # None /\ link[m].identity = call[l].identity} IN
       \/ \E m \in found : call' = [call EXCEPT ![l].user = link[m].user, ![l].pc = "load"]
       \/ found = {} /\ To(l, "find")
  /\ UNCHANGED Stored

\* session.get(User), and a commit of nothing.
LoadUser(l) ==
  /\ call[l].pc = "load"
  /\ To(l, IF Exists(call[l].user) THEN "refresh" ELSE "refused")
  /\ UNCHANGED Stored

FindByEmail(l) ==
  /\ call[l].pc = "find"
  /\ \/ \E u \in UserIds :
          email[u] = call[l].email /\ call' = [call EXCEPT ![l].user = u, ![l].pc = "link"]
     \/ ~EmailExists(call[l].email) /\ To(l, "user")
  /\ UNCHANGED Stored

\* Mutant: the new user is committed before its link.
InsertOAuthUserCommitted(l) ==
  /\ call[l].pc = "user"
  /\ Blockers(l) = {}
  /\ IF EmailExists(call[l].email)
     THEN To(l, "failed") /\ UNCHANGED email
     ELSE /\ call' = [call EXCEPT ![l].user = l, ![l].pc = "link"]
          /\ email' = [email EXCEPT ![l] = call[l].email]
  /\ UNCHANGED <<password, link>>

\* The flush of a new user, whose IntegrityError nobody catches.
InsertOAuthUser(l) ==
  /\ call[l].pc = "user"
  /\ Blockers(l) = {}
  /\ call' = IF EmailExists(call[l].email) THEN [call EXCEPT ![l].pc = "failed"]
             ELSE [call EXCEPT ![l].user = l, ![l].pc = "link"]
  /\ UNCHANGED Stored

\* The flush of the link: its unique keys, then its foreign key.
InsertLink(l) ==
  /\ call[l].pc = "link"
  /\ Blockers(l) = {}
  /\ To(l, IF \E m \in Logins :
                link[m] # None /\ SameKey(call[l].user, call[l].identity, link[m].user, link[m].identity)
           THEN "conflict" ELSE "share")
  /\ UNCHANGED Stored

ShareUser(l) ==
  /\ call[l].pc = "share"
  /\ Blockers(l) = {}
  /\ To(l, IF call[l].user = l \/ Exists(call[l].user) THEN "commit" ELSE "conflict")
  /\ UNCHANGED Stored

CommitLogin(l) ==
  /\ call[l].pc = "commit"
  /\ email' = IF call[l].user = l THEN [email EXCEPT ![l] = call[l].email] ELSE email
  /\ link' = [link EXCEPT ![l] = [user |-> call[l].user, identity |-> call[l].identity]]
  /\ To(l, "refresh")
  /\ UNCHANGED password

LoginStep(l) ==
  \/ FindIdentity(l) \/ LoadUser(l) \/ FindByEmail(l) \/ InsertOAuthUser(l)
  \/ InsertLink(l) \/ ShareUser(l) \/ CommitLogin(l)

(***************************************************************************)
(* update_self and update_user, with an address                            *)
(***************************************************************************)
StartEdit(d, u, e) ==
  /\ call[d].pc = "idle"
  /\ call' = [call EXCEPT ![d].user = u, ![d].email = e, ![d].was = email[u],
       ![d].pc = IF Exists(u) THEN "check" ELSE "missing"]
  /\ UNCHANGED Stored

\* The address the session loaded is the user's own, and not written.
CheckAddress(d) ==
  /\ call[d].pc = "check" /\ d \in Edits
  /\ To(d, IF call[d].email = call[d].was THEN "refresh"
           ELSE IF EmailExists(call[d].email) THEN "conflict" ELSE "update")
  /\ UNCHANGED Stored

\* The UPDATE locks the row, then waits for the address; a row that is gone is a
\* StaleDataError.
UpdateEmail(d) ==
  /\ call[d].pc = "update"
  /\ Blockers(d) = {}
  /\ To(d, IF Exists(call[d].user) THEN "key" ELSE "failed")
  /\ UNCHANGED Stored

CheckKey(d) ==
  /\ call[d].pc = "key"
  /\ Blockers(d) = {}
  /\ To(d, IF \E v \in UserIds \ {call[d].user} : email[v] = call[d].email
           THEN "conflict" ELSE "commit")
  /\ UNCHANGED Stored

CommitEmail(d) ==
  /\ call[d].pc = "commit"
  /\ email' = [email EXCEPT ![call[d].user] = call[d].email]
  /\ To(d, "refresh")
  /\ UNCHANGED <<password, link>>

EditStep(d) == CheckAddress(d) \/ UpdateEmail(d) \/ CheckKey(d) \/ CommitEmail(d)

(***************************************************************************)
(* delete_user                                                             *)
(***************************************************************************)
StartDelete(d, u) ==
  /\ call[d].pc = "idle"
  /\ call' = [call EXCEPT ![d].user = u, ![d].pc = IF Exists(u) THEN "erase" ELSE "missing"]
  /\ UNCHANGED Stored

\* A link's user_id cannot be null: a linked user cannot be deleted.
DeleteUser(d) ==
  /\ call[d].pc = "erase"
  /\ Blockers(d) = {}
  /\ To(d, IF ~Exists(call[d].user) THEN "answered"
           ELSE IF Linked(call[d].user) THEN "conflict" ELSE "commit")
  /\ UNCHANGED Stored

CommitDelete(d) ==
  /\ call[d].pc = "commit"
  /\ email' = [email EXCEPT ![call[d].user] = None]
  /\ password' = password \ {call[d].user}
  /\ To(d, "answered")
  /\ UNCHANGED link

DeleteStep(d) == DeleteUser(d) \/ CommitDelete(d)

(***************************************************************************)
(* The system.                                                             *)
(***************************************************************************)
\* db.refresh raises when the user was deleted since.
RefreshUser(c) ==
  /\ call[c].pc = "refresh"
  /\ To(c, IF Exists(call[c].user) THEN "answered" ELSE "failed")
  /\ UNCHANGED Stored

\* Sessions that wait for each other in a circle: no part of them waits only for
\* itself.
Circle(S) ==
  Cardinality(S) > 1
    /\ \A T \in (SUBSET S) \ {S, {}} : \E c \in T : Blockers(c) \cap (S \ T) # {}

\* The database aborts one of them, with an error that is no IntegrityError.
DeadlockVictim(c) ==
  /\ Blockers(c) # {}
  /\ \E S \in SUBSET {b \in Calls : Blockers(b) # {}} : c \in S /\ Circle(S)
  /\ To(c, "failed")
  /\ UNCHANGED Stored

\* The process or its connection dies, and the session with it.
CallDies(c) ==
  /\ call[c].pc \notin Ended \cup {"idle"}
  /\ To(c, "died")
  /\ UNCHANGED Stored

Start(c) ==
  \/ c \in Registers /\ \E e \in Email : StartRegister(c, e)
  \/ c \in Logins /\ \E i \in Identity, e \in Email : StartLogin(c, i, e)
  \/ c \in Edits /\ \E u \in UserIds, e \in Email : StartEdit(c, u, e)
  \/ c \in Deletes /\ \E u \in UserIds : StartDelete(c, u)

Step(c) ==
  \/ c \in Registers /\ RegisterStep(c)
  \/ c \in Logins /\ LoginStep(c)
  \/ c \in Edits /\ EditStep(c)
  \/ c \in Deletes /\ DeleteStep(c)
  \/ RefreshUser(c) \/ DeadlockVictim(c)

Quiet == \A c \in Calls : call[c].pc \in Ended \cup {"idle"}
Idle == Quiet /\ UNCHANGED vars

Next == (\E c \in Calls : Start(c) \/ Step(c) \/ CallDies(c)) \/ Idle

Spec == Init /\ [][Next]_vars

\* A request under way goes on: queries end, locks are granted, deadlocks detected.
FairSpec == Spec /\ \A c \in Calls : WF_vars(Step(c))

(***************************************************************************)
(* Properties.                                                             *)
(***************************************************************************)
\* However sessions interleave, the users and links they commit fit together: an
\* address has one user, an identity one link, a user one link per provider, and
\* every link a user that exists.
RowsFit ==
  /\ \A u, v \in UserIds : Exists(u) /\ email[u] = email[v] => u = v
  /\ \A l, m \in Logins :
       link[l] # None /\ link[m] # None
         /\ SameKey(link[l].user, link[l].identity, link[m].user, link[m].identity) => l = m
  /\ \A l \in Logins : link[l] # None => Exists(link[l].user)

\* Whoever logs in with an identity is, from then on, the user this identity logs in
\* as: for concurrent first logins, changed addresses and deleted users alike.
LoginIsLinked ==
  \A l \in Logins :
    call[l].pc = "answered" =>
      \E m \in Logins : link[m] = [user |-> call[l].user, identity |-> call[l].identity]

\* A user that a login created has no password, but is never without its link: no
\* crash or conflict between the two inserts leaves an account nobody can enter.
NobodyIsLockedOut == \A l \in Logins : Exists(l) => Linked(l)

\* Every request comes to an end, whoever waits for whose row, address or identity.
RequestsEnd == \A c \in Calls : call[c].pc # "idle" ~> call[c].pc \in Ended

(***************************************************************************)
(* The inductive invariant: what a session relies on when it commits.      *)
(***************************************************************************)
\* A session knows what its next statement needs.
SessionInv(c) ==
  LET s == call[c] IN
    /\ c \in Registers /\ s.pc # "idle" => s.email \in Email
    /\ c \in Logins /\ s.pc \in {"identity", "load", "find", "user", "link", "share", "commit",
                                  "refresh", "answered"} =>
         s.email \in Email /\ s.identity \in Identity
    /\ c \in Logins /\ s.pc \in {"load", "link", "share", "commit", "refresh", "answered"} =>
         s.user \in UserIds
    /\ c \in Edits /\ s.pc # "idle" => s.user \in UserIds /\ s.email \in Email
    /\ c \in Deletes /\ s.pc # "idle" => s.user \in UserIds

\* What a request inserts is there only after its commit.
FreshInv(c) ==
  c \in Registers \cup Logins /\ call[c].pc \notin {"refresh", "answered", "failed", "died"} =>
    ~Exists(c) /\ (c \in Logins => link[c] = None)

\* Sessions that have an address in a row that they have not committed.
Writes(c, e) ==
  \/ c \in Registers /\ call[c].pc = "commit" /\ call[c].email = e
  \/ /\ c \in Logins /\ call[c].pc \in {"link", "share", "commit"}
     /\ call[c].user = c /\ call[c].email = e
  \/ c \in Edits /\ call[c].pc = "commit" /\ call[c].email = e

\* An address that a session has written is no other session's and no other user's.
AddressInv(c) ==
  \A e \in Email :
    Writes(c, e) =>
      /\ \A d \in Calls : Writes(d, e) => d = c
      /\ \A u \in UserIds : email[u] = e => c \in Edits /\ call[c].user = u

\* A user's row is updated or deleted by one session, with no link to it about to
\* be committed, and deleted without links.
RowInv(u) ==
  /\ \A c, d \in RowHolders(u) : c = d
  /\ RowHolders(u) # {} => Exists(u) /\ RowSharers(u) = {}
  /\ \A d \in Deletes : call[d].pc = "commit" /\ call[d].user = u => ~Linked(u)

\* A login's link has its keys for itself, and its user when it is about to commit.
LinkInv(l) ==
  /\ call[l].pc \in {"share", "commit"} =>
       /\ LinkHolders(l) = {}
       /\ \A m \in Logins :
            link[m] # None =>
              ~SameKey(call[l].user, call[l].identity, link[m].user, link[m].identity)
  /\ call[l].pc = "commit" => call[l].user = l \/ Exists(call[l].user)

\* A login that found its identity, or committed it, is the linked user's.
FoundInv(l) ==
  call[l].pc \in {"load", "refresh", "answered"} =>
    \E m \in Logins : link[m] = [user |-> call[l].user, identity |-> call[l].identity]

\* All of it: no interleaving lets a session commit what no longer fits.
AccountsInv ==
  /\ TypeOK /\ RowsFit /\ NobodyIsLockedOut
  /\ \A c \in Calls : SessionInv(c) /\ FreshInv(c) /\ AddressInv(c)
  /\ \A u \in UserIds : RowInv(u)
  /\ \A l \in Logins : LinkInv(l) /\ FoundInv(l)
=============================================================================
