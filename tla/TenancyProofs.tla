--------------------------- MODULE TenancyProofs ---------------------------
(* Theorems about users, organizations and what refers to them, for any     *)
(* number of each and of concurrent requests.                               *)
EXTENDS Tenancy, FiniteSetTheorems, TLAPS

(***************************************************************************)
(* Types, and steps of one session.                                        *)
(***************************************************************************)
\* The kinds of calls are apart.
LEMMA Kinds ==
  /\ Changes \cap OrgDeletes = {} /\ Changes \cap UserDeletes = {} /\ Changes \cap Inserts = {}
  /\ OrgDeletes \cap UserDeletes = {} /\ OrgDeletes \cap Inserts = {}
  /\ UserDeletes \cap Inserts = {}
  /\ Changes \subseteq Calls /\ OrgDeletes \subseteq Calls
  /\ UserDeletes \subseteq Calls /\ Inserts \subseteq Calls
BY TenancyAssumption DEF Changes, Calls

\* The next state of a call keeps the rest of its session.
LEMMA ToSession ==
  ASSUME TypeOK, NEW c \in Calls, NEW state \in CallStates, To(c, state)
  PROVE  /\ call' \in [Calls -> Session]
         /\ call'[c] = [call[c] EXCEPT !.pc = state]
         /\ \A x \in Calls \ {c} : call'[x] = call[x]
<1>1. call \in [Calls -> Session] BY DEF TypeOK
<1>2. QED BY <1>1 DEF To, Session

\* A statement that goes on found the rows it needs free.
LEMMA RowsAreFree ==
  ASSUME NEW c, Blockers(c) = {}
  PROVE  /\ call[c].pc = "key" => OrgDeleters(call[c].org) = {}
         /\ call[c].pc = "nullify" /\ call[c].todo = {} => OrgSharers(call[c].org) = {}
         /\ call[c].pc = "erase" => UserSharers(call[c].user) = {}
         /\ call[c].pc = "insert" =>
              UserDeleters(call[c].user) = {} /\ OrgDeleters(call[c].was) = {}
<1>1. PICK s : s = call[c] OBVIOUS
<1>2. CASE s.pc = "key" BY <1>1, <1>2 DEF Blockers
<1>3. CASE s.pc = "nullify" BY <1>1, <1>3 DEF Blockers
<1>4. CASE s.pc = "erase" BY <1>1, <1>4 DEF Blockers
<1>5. CASE s.pc = "insert" BY <1>1, <1>5 DEF Blockers
<1>6. QED BY <1>1, <1>2, <1>3, <1>4, <1>5

\* A step that changes only the session of call c, and does not take it to its
\* commit, keeps the invariant.
LEMMA LocalStep ==
  ASSUME TenancyInv, NEW c \in Calls, UNCHANGED <<orgs, users, org, rows>>,
         call' \in [Calls -> Session],
         \A x \in Calls \ {c} : call'[x] = call[x],
         call'[c].pc # "commit",
         c \in Inserts =>
           /\ rows[c] = None
           /\ call'[c].pc = "insert" /\ call'[c].was = None => call'[c].table = "chat_threads",
         c \in OrgDeletes =>
           /\ call'[c].pc # "idle" => call'[c].org \in Orgs
           /\ \A i \in call'[c].threads : rows[i] # None /\ rows[i].table = "chat_threads"
  PROVE  TenancyInv'
<1> USE Kinds
<1>1. TypeOK' BY DEF TenancyInv, TypeOK
<1>2. ReferencesResolve' BY DEF TenancyInv, ReferencesResolve
<1>3. /\ \A o : OrgDeleters(o)' \subseteq OrgDeleters(o)
      /\ \A u : UserDeleters(u)' \subseteq UserDeleters(u)
  BY DEF OrgDeleters, UserDeleters
<1>4. ASSUME NEW i \in Inserts PROVE InsertInv(i)'
  <2>1. CASE i = c BY <2>1 DEF InsertInv
  <2>2. CASE i # c
    <3>1. InsertInv(i) /\ call'[i] = call[i] BY <2>2 DEF TenancyInv
    <3>2. QED BY <3>1, <1>3 DEF InsertInv
  <2>3. QED BY <2>1, <2>2
<1>5. ASSUME NEW d \in Changes PROVE ChangeInv(d)'
  <2>1. CASE d = c BY <2>1 DEF ChangeInv
  <2>2. CASE d # c
    <3>1. ChangeInv(d) /\ call'[d] = call[d] BY <2>2 DEF TenancyInv
    <3>2. QED BY <3>1, <1>3 DEF ChangeInv
  <2>3. QED BY <2>1, <2>2
<1>6. ASSUME NEW d \in OrgDeletes PROVE OrgDeleteInv(d)'
  <2>1. CASE d = c BY <2>1 DEF OrgDeleteInv
  <2>2. CASE d # c
    <3>1. OrgDeleteInv(d) /\ call'[d] = call[d] BY <2>2 DEF TenancyInv
    <3>2. QED BY <3>1 DEF OrgDeleteInv, Members, RowsOf
  <2>3. QED BY <2>1, <2>2
<1>7. ASSUME NEW d \in UserDeletes PROVE UserDeleteInv(d)'
  <2>1. CASE d = c BY <2>1 DEF UserDeleteInv
  <2>2. CASE d # c
    <3>1. UserDeleteInv(d) /\ call'[d] = call[d] BY <2>2 DEF TenancyInv
    <3>2. QED BY <3>1 DEF UserDeleteInv
  <2>3. QED BY <2>1, <2>2
<1>8. QED BY <1>1, <1>2, <1>4, <1>5, <1>6, <1>7 DEF TenancyInv

\* A step that only changes the state of call c, to any but its commit, is such a step.
LEMMA ToStep ==
  ASSUME TenancyInv, NEW c \in Calls, UNCHANGED <<orgs, users, org, rows>>,
         NEW state \in CallStates \ {"idle", "insert", "commit"}, To(c, state),
         call[c].pc \notin {"idle", "answered"}
  PROVE  TenancyInv'
<1>1. /\ call' \in [Calls -> Session]
      /\ call'[c] = [call[c] EXCEPT !.pc = state]
      /\ \A x \in Calls \ {c} : call'[x] = call[x]
  BY ToSession DEF TenancyInv
<1>2. call[c] \in Session BY DEF TenancyInv, TypeOK
<1>3. c \in Inserts => rows[c] = None BY DEF TenancyInv, InsertInv
<1>4. c \in OrgDeletes =>
        /\ call[c].org \in Orgs
        /\ \A i \in call[c].threads : rows[i] # None /\ rows[i].table = "chat_threads"
  BY DEF TenancyInv, OrgDeleteInv
<1>5. call'[c].pc = state /\ call'[c].org = call[c].org /\ call'[c].threads = call[c].threads
  BY <1>1, <1>2 DEF Session
<1>6. QED BY <1>1, <1>3, <1>4, <1>5, LocalStep

(***************************************************************************)
(* Starting.                                                               *)
(***************************************************************************)
\* A request takes its arguments, and what it loads first.
LEMMA StartInv ==
  ASSUME TenancyInv, NEW c \in Calls, Start(c)
  PROVE  TenancyInv'
<1> USE Kinds
<1>1. call \in [Calls -> Session] /\ org \in [Users -> Orgs \cup {None}]
  BY DEF TenancyInv, TypeOK
<1>2. ASSUME NEW u \in Users, NEW o \in Orgs, c \in Joins, StartJoin(c, u, o) PROVE TenancyInv'
  <2>1. c \in Changes BY <1>2 DEF Changes
  <2>2. /\ call' \in [Calls -> Session]
        /\ call'[c].pc # "commit"
        /\ \A x \in Calls \ {c} : call'[x] = call[x]
    BY <1>1, <1>2 DEF StartJoin, Session, CallStates
  <2>3. UNCHANGED <<orgs, users, org, rows>> BY <1>2 DEF StartJoin
  <2>4. QED BY <2>1, <2>2, <2>3, LocalStep
<1>3. ASSUME NEW u \in Users, NEW o \in Orgs \cup {None}, c \in Assigns, StartAssign(c, u, o)
      PROVE TenancyInv'
  <2>1. c \in Changes BY <1>3 DEF Changes
  <2>2. /\ call' \in [Calls -> Session]
        /\ call'[c].pc # "commit"
        /\ \A x \in Calls \ {c} : call'[x] = call[x]
    BY <1>1, <1>3 DEF StartAssign, Session, CallStates
  <2>3. UNCHANGED <<orgs, users, org, rows>> BY <1>3 DEF StartAssign
  <2>4. QED BY <2>1, <2>2, <2>3, LocalStep
<1>4. ASSUME NEW o \in Orgs, c \in OrgDeletes, StartOrgDelete(c, o) PROVE TenancyInv'
  <2>1. /\ call' \in [Calls -> Session]
        /\ call'[c].pc # "commit" /\ call'[c].org = o
        /\ call'[c].threads = call[c].threads
        /\ \A x \in Calls \ {c} : call'[x] = call[x]
    BY <1>1, <1>4 DEF StartOrgDelete, Session, CallStates
  <2>2. \A i \in call[c].threads : rows[i] # None /\ rows[i].table = "chat_threads"
    BY <1>4 DEF TenancyInv, OrgDeleteInv
  <2>3. UNCHANGED <<orgs, users, org, rows>> BY <1>4 DEF StartOrgDelete
  <2>4. QED BY <1>4, <2>1, <2>2, <2>3, LocalStep
<1>5. ASSUME NEW u \in Users, c \in UserDeletes, StartUserDelete(c, u) PROVE TenancyInv'
  <2>1. /\ call' \in [Calls -> Session]
        /\ call'[c].pc # "commit"
        /\ \A x \in Calls \ {c} : call'[x] = call[x]
    BY <1>1, <1>5 DEF StartUserDelete, Session, CallStates
  <2>2. UNCHANGED <<orgs, users, org, rows>> BY <1>5 DEF StartUserDelete
  <2>3. QED BY <1>5, <2>1, <2>2, LocalStep
<1>6. ASSUME NEW table \in Tables, NEW u \in Users, c \in Inserts, StartInsert(c, table, u)
      PROVE TenancyInv'
  <2>1. /\ call' \in [Calls -> Session]
        /\ call'[c].pc # "commit"
        /\ call'[c].pc = "insert" /\ call'[c].was = None => call'[c].table = "chat_threads"
        /\ \A x \in Calls \ {c} : call'[x] = call[x]
    BY <1>1, <1>6 DEF StartInsert, Session, CallStates
  <2>2. UNCHANGED <<orgs, users, org, rows>> BY <1>6 DEF StartInsert
  <2>3. rows[c] = None BY <1>6 DEF TenancyInv, InsertInv, StartInsert
  <2>4. QED BY <1>6, <2>1, <2>2, <2>3, LocalStep
<1>7. QED BY <1>2, <1>3, <1>4, <1>5, <1>6 DEF Start

(***************************************************************************)
(* Joining and assigning.                                                  *)
(***************************************************************************)
\* An update that takes its lock names an organization no session is deleting.
LEMMA PinChange ==
  ASSUME TenancyInv, NEW c \in Changes, UNCHANGED <<orgs, users, org, rows>>,
         To(c, "commit"), call[c].org \in orgs \cup {None}, OrgDeleters(call[c].org) = {}
  PROVE  TenancyInv'
<1> USE Kinds
<1>1. /\ call' \in [Calls -> Session]
      /\ call'[c] = [call[c] EXCEPT !.pc = "commit"]
      /\ \A x \in Calls \ {c} : call'[x] = call[x]
  BY ToSession DEF TenancyInv, CallStates
<1>2. call'[c].org = call[c].org BY <1>1 DEF TenancyInv, TypeOK, Session
<1>3. /\ \A o : OrgDeleters(o)' = OrgDeleters(o)
      /\ \A u : UserDeleters(u)' = UserDeleters(u)
  BY <1>1 DEF OrgDeleters, UserDeleters
<1>4. TypeOK' /\ ReferencesResolve'
  BY <1>1 DEF TenancyInv, TypeOK, ReferencesResolve
<1>5. ASSUME NEW i \in Inserts PROVE InsertInv(i)'
  <2>1. InsertInv(i) /\ call'[i] = call[i] BY <1>1 DEF TenancyInv
  <2>2. QED BY <2>1, <1>3 DEF InsertInv
<1>6. ASSUME NEW d \in Changes PROVE ChangeInv(d)'
  <2>1. CASE d = c BY <2>1, <1>2, <1>3 DEF ChangeInv
  <2>2. CASE d # c
    <3>1. ChangeInv(d) /\ call'[d] = call[d] BY <2>2, <1>1 DEF TenancyInv
    <3>2. QED BY <3>1, <1>3 DEF ChangeInv
  <2>3. QED BY <2>1, <2>2
<1>7. ASSUME NEW d \in OrgDeletes PROVE OrgDeleteInv(d)'
  <2>1. OrgDeleteInv(d) /\ call'[d] = call[d] BY <1>1 DEF TenancyInv
  <2>2. QED BY <2>1 DEF OrgDeleteInv, Members, RowsOf
<1>8. ASSUME NEW d \in UserDeletes PROVE UserDeleteInv(d)'
  <2>1. UserDeleteInv(d) /\ call'[d] = call[d] BY <1>1 DEF TenancyInv
  <2>2. QED BY <2>1 DEF UserDeleteInv
<1>9. QED BY <1>4, <1>5, <1>6, <1>7, <1>8 DEF TenancyInv

\* The commit gives the user an organization that no session is about to delete.
LEMMA CommitChangeInv ==
  ASSUME TenancyInv, NEW c \in Changes, CommitChange(c)
  PROVE  TenancyInv'
<1> USE Kinds
<1>1. /\ call' \in [Calls -> Session]
      /\ call'[c].pc = "refresh"
      /\ \A x \in Calls \ {c} : call'[x] = call[x]
  <2>1. To(c, "refresh") BY DEF CommitChange
  <2>2. /\ call' \in [Calls -> Session]
        /\ call'[c] = [call[c] EXCEPT !.pc = "refresh"]
        /\ \A x \in Calls \ {c} : call'[x] = call[x]
    BY <2>1, ToSession DEF TenancyInv, CallStates
  <2>3. call[c] \in Session BY DEF TenancyInv, TypeOK
  <2>4. QED BY <2>2, <2>3 DEF Session
<1>2. call[c].org \in orgs \cup {None} /\ OrgDeleters(call[c].org) = {}
  BY DEF TenancyInv, ChangeInv, CommitChange
<1>3. /\ \A o : OrgDeleters(o)' = OrgDeleters(o)
      /\ \A u : UserDeleters(u)' = UserDeleters(u)
  BY <1>1 DEF OrgDeleters, UserDeleters
<1>4. UNCHANGED <<orgs, users, rows>> BY DEF CommitChange
<1>5. org \in [Users -> Orgs \cup {None}] /\ users \subseteq Users /\ orgs \subseteq Orgs
  BY DEF TenancyInv, TypeOK
<1>6. \A u \in Users : org'[u] = IF u = call[c].user THEN call[c].org ELSE org[u]
  BY <1>5 DEF CommitChange
<1>7. TypeOK'
  <2>1. org' \in [Users -> Orgs \cup {None}] BY <1>2, <1>5 DEF CommitChange
  <2>2. QED BY <1>1, <1>4, <2>1 DEF TenancyInv, TypeOK
<1>8. ReferencesResolve' BY <1>2, <1>4, <1>5, <1>6 DEF TenancyInv, ReferencesResolve
<1>9. ASSUME NEW i \in Inserts PROVE InsertInv(i)'
  <2>1. InsertInv(i) /\ call'[i] = call[i] BY <1>1 DEF TenancyInv
  <2>2. QED BY <2>1, <1>3, <1>4 DEF InsertInv
<1>10. ASSUME NEW d \in Changes PROVE ChangeInv(d)'
  <2>1. CASE d = c BY <2>1, <1>1 DEF ChangeInv
  <2>2. CASE d # c
    <3>1. ChangeInv(d) /\ call'[d] = call[d] BY <2>2, <1>1 DEF TenancyInv
    <3>2. QED BY <3>1, <1>3, <1>4 DEF ChangeInv
  <2>3. QED BY <2>1, <2>2
<1>11. ASSUME NEW d \in OrgDeletes PROVE OrgDeleteInv(d)'
  <2>1. OrgDeleteInv(d) /\ call'[d] = call[d] BY <1>1 DEF TenancyInv
  <2>2. call[d].pc = "commit" => call[d].org # call[c].org
    BY <1>2 DEF OrgDeleters
  <2>3. call[d].pc = "commit" => Members(call[d].org)' \subseteq Members(call[d].org)
    BY <2>1, <2>2, <1>4, <1>5, <1>6 DEF Members
  <2>4. RowsOf(call[d].org, Tables)' = RowsOf(call[d].org, Tables) BY <2>1, <1>4 DEF RowsOf
  <2>5. call'[d].org = call[d].org /\ call'[d].members = call[d].members BY <2>1
  <2>6. QED BY <2>1, <2>3, <2>4, <2>5, <1>4 DEF OrgDeleteInv
<1>12. ASSUME NEW d \in UserDeletes PROVE UserDeleteInv(d)'
  <2>1. UserDeleteInv(d) /\ call'[d] = call[d] BY <1>1 DEF TenancyInv
  <2>2. QED BY <2>1, <1>4 DEF UserDeleteInv
<1>13. QED BY <1>7, <1>8, <1>9, <1>10, <1>11, <1>12 DEF TenancyInv

\* The steps of a join or an assignment.
LEMMA ChangeStepInv ==
  ASSUME TenancyInv, NEW c \in Changes, ChangeStep(c)
  PROVE  TenancyInv'
<1> USE Kinds
<1>1. CASE FindOrg(c)
  <2>1. PICK state \in {"update", "conflict"} : To(c, state) BY <1>1 DEF FindOrg
  <2>2. QED BY <1>1, <2>1, ToStep DEF FindOrg, CallStates, Ended
<1>2. CASE UpdateUser(c)
  <2>1. PICK state \in {"refresh", "failed", "commit", "key"} :
          To(c, state) /\ (state = "commit" => call[c].org = None)
    BY <1>2 DEF UpdateUser
  <2>2. CASE state = "commit"
    <3>1. OrgDeleters(None) = {}
      BY TenancyAssumption DEF TenancyInv, OrgDeleteInv, OrgDeleters
    <3>2. QED BY <1>2, <2>1, <2>2, <3>1, PinChange DEF UpdateUser
  <2>3. CASE state # "commit"
    BY <1>2, <2>1, <2>3, ToStep DEF UpdateUser, CallStates, Ended
  <2>4. QED BY <2>2, <2>3
<1>3. CASE CheckKey(c)
  <2>1. PICK state \in {"commit", "failed", "conflict"} :
          To(c, state) /\ (state = "commit" => call[c].org \in orgs)
    BY <1>3 DEF CheckKey
  <2>2. CASE state = "commit"
    BY <1>3, <2>1, <2>2, RowsAreFree, PinChange DEF CheckKey
  <2>3. CASE state # "commit"
    BY <1>3, <2>1, <2>3, ToStep DEF CheckKey, CallStates, Ended
  <2>4. QED BY <2>2, <2>3
<1>4. CASE CommitChange(c) BY <1>4, CommitChangeInv
<1>5. CASE RefreshUser(c)
  <2>1. PICK state \in {"answered", "failed"} : To(c, state) BY <1>5 DEF RefreshUser
  <2>2. QED BY <1>5, <2>1, ToStep DEF RefreshUser, CallStates, Ended
<1>6. QED BY <1>1, <1>2, <1>3, <1>4, <1>5 DEF ChangeStep

(***************************************************************************)
(* Deleting an organization.                                               *)
(***************************************************************************)
\* A deletion takes its lock when nothing else about to commit refers to the
\* organization, and nothing stored does that it has not loaded.
LEMMA PinOrgDelete ==
  ASSUME TenancyInv, NEW d \in OrgDeletes, DeleteOrg(d), To(d, "commit"),
         Members(call[d].org) \subseteq call[d].members,
         RowsOf(call[d].org, Tables) \subseteq call[d].threads
  PROVE  TenancyInv'
<1> USE Kinds
<1> DEFINE o == call[d].org
<1>1. /\ call' \in [Calls -> Session]
      /\ call'[d] = [call[d] EXCEPT !.pc = "commit"]
      /\ \A x \in Calls \ {d} : call'[x] = call[x]
  BY ToSession DEF TenancyInv, CallStates
<1>2. /\ call'[d].pc = "commit" /\ call'[d].org = o
      /\ call'[d].members = call[d].members /\ call'[d].threads = call[d].threads
  BY <1>1 DEF TenancyInv, TypeOK, Session
<1>3. OrgSharers(o) = {} /\ UNCHANGED <<orgs, users, org, rows>>
  BY RowsAreFree DEF DeleteOrg
<1>4. o \in Orgs /\ call[d].pc = "nullify" BY DEF TenancyInv, OrgDeleteInv, DeleteOrg
<1>5. /\ \A p : p # o => OrgDeleters(p)' = OrgDeleters(p)
      /\ \A u : UserDeleters(u)' = UserDeleters(u)
  BY <1>1, <1>2 DEF OrgDeleters, UserDeleters
<1>6. TypeOK' /\ ReferencesResolve'
  BY <1>1, <1>3 DEF TenancyInv, TypeOK, ReferencesResolve
<1>7. ASSUME NEW i \in Inserts PROVE InsertInv(i)'
  <2>1. InsertInv(i) /\ call'[i] = call[i] BY <1>1 DEF TenancyInv
  <2>2. call[i].pc = "commit" => call[i].was # o BY <1>3 DEF OrgSharers
  <2>3. QED BY <2>1, <2>2, <1>3, <1>5 DEF InsertInv
<1>8. ASSUME NEW c \in Changes PROVE ChangeInv(c)'
  <2>1. ChangeInv(c) /\ call'[c] = call[c] BY <1>1 DEF TenancyInv
  <2>2. call[c].pc = "commit" => call[c].org # o BY <1>3 DEF OrgSharers
  <2>3. QED BY <2>1, <2>2, <1>3, <1>5 DEF ChangeInv
<1>9. ASSUME NEW e \in OrgDeletes PROVE OrgDeleteInv(e)'
  <2>1. CASE e = d
    <3>1. \A i \in call[d].threads : rows[i] # None /\ rows[i].table = "chat_threads"
      BY DEF TenancyInv, OrgDeleteInv
    <3>2. Members(o)' = Members(o) BY <1>2, <1>3 DEF Members
    <3>3. RowsOf(o, Tables)' = RowsOf(o, Tables) BY <1>2, <1>3 DEF RowsOf
    <3>4. QED BY <2>1, <3>1, <3>2, <3>3, <1>2, <1>3, <1>4 DEF OrgDeleteInv
  <2>2. CASE e # d
    <3>1. OrgDeleteInv(e) /\ call'[e] = call[e] BY <2>2, <1>1 DEF TenancyInv
    <3>2. QED BY <3>1, <1>3 DEF OrgDeleteInv, Members, RowsOf
  <2>3. QED BY <2>1, <2>2
<1>10. ASSUME NEW e \in UserDeletes PROVE UserDeleteInv(e)'
  <2>1. UserDeleteInv(e) /\ call'[e] = call[e] BY <1>1 DEF TenancyInv
  <2>2. QED BY <2>1, <1>3 DEF UserDeleteInv
<1>11. QED BY <1>6, <1>7, <1>8, <1>9, <1>10 DEF TenancyInv

\* The commit takes the organization away from members and threads that name it,
\* and nothing else names it.
LEMMA CommitOrgDeleteInv ==
  ASSUME TenancyInv, NEW d \in OrgDeletes, CommitOrgDelete(d)
  PROVE  TenancyInv'
<1> USE Kinds
<1> DEFINE o == call[d].org
<1>1. /\ call' \in [Calls -> Session]
      /\ call'[d].pc = "answered" /\ call'[d].org = o /\ call'[d].threads = call[d].threads
      /\ \A x \in Calls \ {d} : call'[x] = call[x]
  <2>1. To(d, "answered") BY DEF CommitOrgDelete
  <2>2. /\ call' \in [Calls -> Session]
        /\ call'[d] = [call[d] EXCEPT !.pc = "answered"]
        /\ \A x \in Calls \ {d} : call'[x] = call[x]
    BY <2>1, ToSession DEF TenancyInv, CallStates, Ended
  <2>3. call[d] \in Session BY DEF TenancyInv, TypeOK
  <2>4. QED BY <2>2, <2>3 DEF Session
<1>2. /\ o \in Orgs /\ o # None /\ d \in OrgDeleters(o)
      /\ Members(o) \subseteq call[d].members
      /\ RowsOf(o, Tables) \subseteq call[d].threads
      /\ \A i \in call[d].threads : rows[i] # None /\ rows[i].table = "chat_threads"
  BY TenancyAssumption DEF TenancyInv, OrgDeleteInv, CommitOrgDelete, OrgDeleters
<1>3. /\ orgs' = orgs \ {o} /\ users' = users
      /\ org' = [u \in Users |-> IF u \in call[d].members THEN None ELSE org[u]]
      /\ rows' = [i \in Inserts |->
           IF i \in call[d].threads THEN [rows[i] EXCEPT !.org = None] ELSE rows[i]]
  BY DEF CommitOrgDelete
<1>4. /\ orgs \subseteq Orgs /\ users \subseteq Users /\ org \in [Users -> Orgs \cup {None}]
      /\ rows \in [Inserts -> Row \cup {None}] /\ call \in [Calls -> Session]
  BY DEF TenancyInv, TypeOK
<1>5. \A i \in Inserts :
        /\ i \in call[d].threads =>
             /\ rows[i] \in Row /\ rows'[i] \in Row /\ rows'[i].org = None
             /\ rows'[i].table = "chat_threads" /\ rows'[i].user = rows[i].user
        /\ i \notin call[d].threads => rows'[i] = rows[i]
  BY <1>2, <1>3, <1>4 DEF Row
<1>6. \A i \in Inserts : rows'[i] # None <=> rows[i] # None BY <1>5, TenancyAssumption
<1>7. \A u \in Users : org'[u] = IF u \in call[d].members THEN None ELSE org[u] BY <1>3
<1>8. /\ \A p : OrgDeleters(p)' \subseteq OrgDeleters(p)
      /\ \A u : UserDeleters(u)' = UserDeleters(u)
  BY <1>1 DEF OrgDeleters, UserDeleters
<1>9. TypeOK'
  <2>1. org' \in [Users -> Orgs \cup {None}] BY <1>3, <1>4
  <2>2. rows' \in [Inserts -> Row \cup {None}] BY <1>3, <1>4, <1>5
  <2>3. QED BY <1>1, <1>3, <1>4, <2>1, <2>2 DEF TypeOK
<1>10. ReferencesResolve'
  <2>1. ASSUME NEW u \in users PROVE org'[u] \in orgs' \cup {None}
    <3>1. org[u] \in orgs \cup {None} BY DEF TenancyInv, ReferencesResolve
    <3>2. org[u] = o => u \in call[d].members BY <1>2 DEF Members
    <3>3. QED BY <3>1, <3>2, <1>3, <1>4, <1>7
  <2>2. ASSUME NEW i \in Inserts, rows'[i] # None
        PROVE  /\ rows'[i].user \in users'
               /\ rows'[i].org \in orgs' \cup IF rows'[i].table = "chat_threads" THEN {None} ELSE {}
    <3>1. /\ rows[i] # None /\ rows[i].user \in users
          /\ rows[i].org \in orgs \cup IF rows[i].table = "chat_threads" THEN {None} ELSE {}
      BY <2>2, <1>6 DEF TenancyInv, ReferencesResolve
    <3>2. CASE i \in call[d].threads BY <3>1, <3>2, <1>3, <1>5
    <3>3. CASE i \notin call[d].threads
      <4>1. rows[i].table \in Tables BY <3>1, <1>4 DEF Row
      <4>2. rows[i].org # o BY <3>1, <3>3, <4>1, <1>2 DEF RowsOf
      <4>3. QED BY <3>1, <3>3, <4>2, <1>3, <1>5
    <3>4. QED BY <3>2, <3>3
  <2>3. QED BY <2>1, <2>2, <1>3 DEF ReferencesResolve
<1>11. ASSUME NEW i \in Inserts PROVE InsertInv(i)'
  <2>1. InsertInv(i) /\ call'[i] = call[i] BY <1>1 DEF TenancyInv
  <2>2. call[i].pc = "commit" => call[i].was # o BY <2>1, <1>2 DEF InsertInv
  <2>3. QED BY <2>1, <2>2, <1>3, <1>6, <1>8 DEF InsertInv
<1>12. ASSUME NEW c \in Changes PROVE ChangeInv(c)'
  <2>1. ChangeInv(c) /\ call'[c] = call[c] BY <1>1 DEF TenancyInv
  <2>2. call[c].pc = "commit" => call[c].org # o BY <2>1, <1>2 DEF ChangeInv
  <2>3. QED BY <2>1, <2>2, <1>3, <1>8 DEF ChangeInv
<1>13. ASSUME NEW e \in OrgDeletes PROVE OrgDeleteInv(e)'
  <2>1. OrgDeleteInv(e) BY DEF TenancyInv
  <2>2. \A i \in call[e].threads : rows'[i] # None /\ rows'[i].table = "chat_threads"
    <3>1. call[e].threads \subseteq Inserts BY <1>4 DEF Session
    <3>2. QED BY <3>1, <2>1, <1>5, <1>6 DEF OrgDeleteInv
  <2>3. CASE e = d BY <2>1, <2>2, <2>3, <1>1, <1>2 DEF OrgDeleteInv
  <2>4. CASE e # d
    <3>1. call'[e] = call[e] BY <2>4, <1>1
    <3>2. ASSUME call[e].pc = "commit" PROVE Members(call[e].org)' \subseteq Members(call[e].org)
      BY <3>1, <3>2, <2>1, <1>3, <1>4, <1>7, TenancyAssumption DEF Members, OrgDeleteInv
    <3>3. ASSUME call[e].pc = "commit"
          PROVE RowsOf(call[e].org, Tables)' \subseteq RowsOf(call[e].org, Tables)
      <4>1. call[e].org # None BY <3>3, <2>1, TenancyAssumption DEF OrgDeleteInv
      <4>2. QED BY <4>1, <3>1, <1>5, <1>6 DEF RowsOf
    <3>4. QED BY <2>1, <2>2, <3>1, <3>2, <3>3 DEF OrgDeleteInv
  <2>5. QED BY <2>3, <2>4
<1>14. ASSUME NEW e \in UserDeletes PROVE UserDeleteInv(e)'
  <2>1. UserDeleteInv(e) /\ call'[e] = call[e] BY <1>1 DEF TenancyInv
  <2>2. QED BY <2>1, <1>5, <1>6 DEF UserDeleteInv
<1>15. QED BY <1>9, <1>10, <1>11, <1>12, <1>13, <1>14 DEF TenancyInv

\* The steps of a deletion.
LEMMA OrgDeleteStepInv ==
  ASSUME TenancyInv, NEW d \in OrgDeletes, OrgDeleteStep(d)
  PROVE  TenancyInv'
<1> USE Kinds
<1>1. CASE CountUsers(d)
  <2>1. PICK state \in {"jobs", "conflict"} : To(d, state) BY <1>1 DEF CountUsers
  <2>2. QED BY <1>1, <2>1, ToStep DEF CountUsers, CallStates, Ended
<1>2. CASE CountJobs(d)
  <2>1. PICK state \in {"children", "conflict"} : To(d, state) BY <1>2 DEF CountJobs
  <2>2. QED BY <1>2, <2>1, ToStep DEF CountJobs, CallStates, Ended
<1>3. CASE LoadChildren(d)
  <2> DEFINE o == call[d].org
  <2>1. call \in [Calls -> Session] /\ users \subseteq Users BY DEF TenancyInv, TypeOK
  <2>2. Members(o) \subseteq Users /\ RowsOf(o, {"chat_threads"}) \subseteq Inserts
    BY <2>1 DEF Members, RowsOf
  <2>3. call' = [call EXCEPT ![d].pc = "nullify", ![d].members = Members(o),
                             ![d].todo = Members(o),
                             ![d].threads = RowsOf(o, {"chat_threads"})]
    BY <1>3 DEF LoadChildren
  <2>4. /\ call' \in [Calls -> Session]
        /\ call'[d].pc = "nullify" /\ call'[d].org = o
        /\ call'[d].threads = RowsOf(o, {"chat_threads"})
        /\ \A x \in Calls \ {d} : call'[x] = call[x]
    <3>1. call[d] \in Session BY <2>1
    <3>2. call'[d] = [call[d] EXCEPT !.pc = "nullify", !.members = Members(o),
                                     !.todo = Members(o), !.threads = RowsOf(o, {"chat_threads"})]
      BY <2>1, <2>3
    <3>3. call'[d] \in Session BY <3>1, <3>2, <2>2 DEF Session, CallStates
    <3>4. QED BY <2>1, <2>3, <3>1, <3>2, <3>3 DEF Session
  <2>5. o \in Orgs BY <1>3 DEF TenancyInv, OrgDeleteInv, LoadChildren
  <2>6. \A i \in RowsOf(o, {"chat_threads"}) : rows[i] # None /\ rows[i].table = "chat_threads"
    BY DEF RowsOf
  <2>7. UNCHANGED <<orgs, users, org, rows>> BY <1>3 DEF LoadChildren
  <2>8. QED BY <2>4, <2>5, <2>6, <2>7, LocalStep
<1>4. CASE NullifyMember(d)
  <2>1. call \in [Calls -> Session] BY DEF TenancyInv, TypeOK
  <2>2. PICK u \in call[d].todo :
          call' = IF u \in users THEN [call EXCEPT ![d].todo = @ \ {u}]
                  ELSE [call EXCEPT ![d].pc = "failed"]
    BY <1>4 DEF NullifyMember, First
  <2>3. /\ call' \in [Calls -> Session]
        /\ call'[d].pc # "commit" /\ call'[d].org = call[d].org
        /\ call'[d].threads = call[d].threads
        /\ \A x \in Calls \ {d} : call'[x] = call[x]
    <3>1. CASE u \in users BY <1>4, <2>1, <2>2, <3>1 DEF Session, NullifyMember
    <3>2. CASE u \notin users BY <2>1, <2>2, <3>2 DEF Session, CallStates, Ended
    <3>3. QED BY <3>1, <3>2
  <2>4. /\ call[d].org \in Orgs
        /\ \A i \in call[d].threads : rows[i] # None /\ rows[i].table = "chat_threads"
    BY <1>4 DEF TenancyInv, OrgDeleteInv, NullifyMember
  <2>5. UNCHANGED <<orgs, users, org, rows>> BY <1>4 DEF NullifyMember
  <2>6. QED BY <2>3, <2>4, <2>5, LocalStep
<1>5. CASE DeleteOrg(d)
  <2> DEFINE o == call[d].org
  <2>1. PICK state \in {"conflict", "commit"} :
          /\ To(d, state)
          /\ state = "commit" =>
               /\ Members(o) \subseteq call[d].members
               /\ RowsOf(o, {"import_jobs", "conversations"}) = {}
               /\ RowsOf(o, {"chat_threads"}) \subseteq call[d].threads
    BY <1>5 DEF DeleteOrg
  <2>2. CASE state = "commit"
    <3>1. RowsOf(o, Tables) \subseteq call[d].threads BY <2>1, <2>2 DEF RowsOf, Tables
    <3>2. QED BY <1>5, <2>1, <2>2, <3>1, PinOrgDelete
  <2>3. CASE state # "commit"
    BY <1>5, <2>1, <2>3, ToStep DEF DeleteOrg, CallStates, Ended
  <2>4. QED BY <2>2, <2>3
<1>6. CASE CommitOrgDelete(d) BY <1>6, CommitOrgDeleteInv
<1>7. QED BY <1>1, <1>2, <1>3, <1>4, <1>5, <1>6 DEF OrgDeleteStep

(***************************************************************************)
(* Deleting a user.                                                        *)
(***************************************************************************)
\* A deletion takes its lock when no insert about to commit, and no row, is the user's.
LEMMA PinUserDelete ==
  ASSUME TenancyInv, NEW d \in UserDeletes, UNCHANGED <<orgs, users, org, rows>>,
         To(d, "commit"), UserSharers(call[d].user) = {},
         \A i \in Inserts : rows[i] # None => rows[i].user # call[d].user
  PROVE  TenancyInv'
<1> USE Kinds
<1>1. /\ call' \in [Calls -> Session]
      /\ call'[d] = [call[d] EXCEPT !.pc = "commit"]
      /\ \A x \in Calls \ {d} : call'[x] = call[x]
  BY ToSession DEF TenancyInv, CallStates
<1>2. call'[d].user = call[d].user BY <1>1 DEF TenancyInv, TypeOK, Session
<1>3. /\ \A o : OrgDeleters(o)' = OrgDeleters(o)
      /\ \A u : u # call[d].user => UserDeleters(u)' = UserDeleters(u)
  BY <1>1, <1>2 DEF OrgDeleters, UserDeleters
<1>4. TypeOK' /\ ReferencesResolve'
  BY <1>1 DEF TenancyInv, TypeOK, ReferencesResolve
<1>5. ASSUME NEW i \in Inserts PROVE InsertInv(i)'
  <2>1. InsertInv(i) /\ call'[i] = call[i] BY <1>1 DEF TenancyInv
  <2>2. call[i].pc = "commit" => call[i].user # call[d].user BY DEF UserSharers
  <2>3. QED BY <2>1, <2>2, <1>3 DEF InsertInv
<1>6. ASSUME NEW c \in Changes PROVE ChangeInv(c)'
  <2>1. ChangeInv(c) /\ call'[c] = call[c] BY <1>1 DEF TenancyInv
  <2>2. QED BY <2>1, <1>3 DEF ChangeInv
<1>7. ASSUME NEW e \in OrgDeletes PROVE OrgDeleteInv(e)'
  <2>1. OrgDeleteInv(e) /\ call'[e] = call[e] BY <1>1 DEF TenancyInv
  <2>2. QED BY <2>1 DEF OrgDeleteInv, Members, RowsOf
<1>8. ASSUME NEW e \in UserDeletes PROVE UserDeleteInv(e)'
  <2>1. CASE e = d BY <2>1, <1>2 DEF UserDeleteInv
  <2>2. CASE e # d
    <3>1. UserDeleteInv(e) /\ call'[e] = call[e] BY <2>2, <1>1 DEF TenancyInv
    <3>2. QED BY <3>1 DEF UserDeleteInv
  <2>3. QED BY <2>1, <2>2
<1>9. QED BY <1>4, <1>5, <1>6, <1>7, <1>8 DEF TenancyInv

\* The commit removes a user whom no row and no insert about to commit refers to.
LEMMA CommitUserDeleteInv ==
  ASSUME TenancyInv, NEW d \in UserDeletes, CommitUserDelete(d)
  PROVE  TenancyInv'
<1> USE Kinds
<1>1. To(d, "answered") /\ call[d].pc = "commit" /\ users' = users \ {call[d].user}
      /\ UNCHANGED <<orgs, org, rows>>
  BY DEF CommitUserDelete
<1>2. /\ call' \in [Calls -> Session]
      /\ call'[d] = [call[d] EXCEPT !.pc = "answered"]
      /\ \A x \in Calls \ {d} : call'[x] = call[x]
  BY <1>1, ToSession DEF TenancyInv, CallStates, Ended
<1>3. call'[d].pc = "answered" BY <1>2 DEF TenancyInv, TypeOK, Session
<1>4. /\ \A o : OrgDeleters(o)' = OrgDeleters(o)
      /\ \A u : UserDeleters(u)' \subseteq UserDeleters(u)
      /\ d \in UserDeleters(call[d].user)
  BY <1>1, <1>2, <1>3 DEF OrgDeleters, UserDeleters
<1>5. TypeOK' BY <1>1, <1>2 DEF TenancyInv, TypeOK
<1>6. ReferencesResolve'
  <2>1. \A i \in Inserts : rows[i] # None => rows[i].user # call[d].user
    BY <1>1 DEF TenancyInv, UserDeleteInv
  <2>2. QED BY <2>1, <1>1 DEF TenancyInv, ReferencesResolve
<1>7. ASSUME NEW i \in Inserts PROVE InsertInv(i)'
  <2>1. InsertInv(i) /\ call'[i] = call[i] BY <1>2 DEF TenancyInv
  <2>2. call[i].pc = "commit" => call[i].user # call[d].user BY <2>1, <1>4 DEF InsertInv
  <2>3. QED BY <2>1, <2>2, <1>1, <1>4 DEF InsertInv
<1>8. ASSUME NEW c \in Changes PROVE ChangeInv(c)'
  <2>1. ChangeInv(c) /\ call'[c] = call[c] BY <1>2 DEF TenancyInv
  <2>2. QED BY <2>1, <1>1, <1>4 DEF ChangeInv
<1>9. ASSUME NEW e \in OrgDeletes PROVE OrgDeleteInv(e)'
  <2>1. OrgDeleteInv(e) /\ call'[e] = call[e] BY <1>2 DEF TenancyInv
  <2>2. QED BY <2>1, <1>1 DEF OrgDeleteInv, Members, RowsOf
<1>10. ASSUME NEW e \in UserDeletes PROVE UserDeleteInv(e)'
  <2>1. CASE e = d BY <2>1, <1>3 DEF UserDeleteInv
  <2>2. CASE e # d
    <3>1. UserDeleteInv(e) /\ call'[e] = call[e] BY <2>2, <1>2 DEF TenancyInv
    <3>2. QED BY <3>1, <1>1 DEF UserDeleteInv
  <2>3. QED BY <2>1, <2>2
<1>11. QED BY <1>5, <1>6, <1>7, <1>8, <1>9, <1>10 DEF TenancyInv

\* The steps of a deletion.
LEMMA UserDeleteStepInv ==
  ASSUME TenancyInv, NEW d \in UserDeletes, UserDeleteStep(d)
  PROVE  TenancyInv'
<1> USE Kinds
<1>1. CASE DeleteUser(d)
  <2>1. PICK state \in {"answered", "conflict", "commit"} :
          /\ To(d, state)
          /\ state = "commit" => \A i \in Inserts : rows[i] # None => rows[i].user # call[d].user
    BY <1>1 DEF DeleteUser
  <2>2. CASE state = "commit" BY <1>1, <2>1, <2>2, RowsAreFree, PinUserDelete DEF DeleteUser
  <2>3. CASE state # "commit" BY <1>1, <2>1, <2>3, ToStep DEF DeleteUser, CallStates, Ended
  <2>4. QED BY <2>2, <2>3
<1>2. CASE CommitUserDelete(d) BY <1>2, CommitUserDeleteInv
<1>3. QED BY <1>1, <1>2 DEF UserDeleteStep

(***************************************************************************)
(* Inserting a row.                                                        *)
(***************************************************************************)
\* The foreign keys find the user and the organization, and keep them.
LEMMA PinInsert ==
  ASSUME TenancyInv, NEW i \in Inserts, InsertRow(i), To(i, "commit"),
         call[i].user \in users, call[i].was \in orgs \cup {None},
         call[i].was = None => call[i].table = "chat_threads"
  PROVE  TenancyInv'
<1> USE Kinds
<1>1. /\ call' \in [Calls -> Session]
      /\ call'[i] = [call[i] EXCEPT !.pc = "commit"]
      /\ \A x \in Calls \ {i} : call'[x] = call[x]
  BY ToSession DEF TenancyInv, CallStates
<1>2. call'[i].user = call[i].user /\ call'[i].was = call[i].was /\ call'[i].table = call[i].table
      /\ call'[i].pc = "commit"
  BY <1>1 DEF TenancyInv, TypeOK, Session
<1>3. /\ UserDeleters(call[i].user) = {} /\ OrgDeleters(call[i].was) = {}
      /\ UNCHANGED <<orgs, users, org, rows>> /\ call[i].pc = "insert"
  BY RowsAreFree DEF InsertRow
<1>4. /\ \A o : OrgDeleters(o)' = OrgDeleters(o)
      /\ \A u : UserDeleters(u)' = UserDeleters(u)
  BY <1>1 DEF OrgDeleters, UserDeleters
<1>5. TypeOK' /\ ReferencesResolve'
  BY <1>1, <1>3 DEF TenancyInv, TypeOK, ReferencesResolve
<1>6. ASSUME NEW n \in Inserts PROVE InsertInv(n)'
  <2>1. CASE n = i
    <3>1. rows[i] = None BY <1>3 DEF TenancyInv, InsertInv
    <3>2. QED BY <2>1, <3>1, <1>2, <1>3, <1>4 DEF InsertInv
  <2>2. CASE n # i
    <3>1. InsertInv(n) /\ call'[n] = call[n] BY <2>2, <1>1 DEF TenancyInv
    <3>2. QED BY <3>1, <1>3, <1>4 DEF InsertInv
  <2>3. QED BY <2>1, <2>2
<1>7. ASSUME NEW c \in Changes PROVE ChangeInv(c)'
  <2>1. ChangeInv(c) /\ call'[c] = call[c] BY <1>1 DEF TenancyInv
  <2>2. QED BY <2>1, <1>3, <1>4 DEF ChangeInv
<1>8. ASSUME NEW e \in OrgDeletes PROVE OrgDeleteInv(e)'
  <2>1. OrgDeleteInv(e) /\ call'[e] = call[e] BY <1>1 DEF TenancyInv
  <2>2. QED BY <2>1, <1>3 DEF OrgDeleteInv, Members, RowsOf
<1>9. ASSUME NEW e \in UserDeletes PROVE UserDeleteInv(e)'
  <2>1. UserDeleteInv(e) /\ call'[e] = call[e] BY <1>1 DEF TenancyInv
  <2>2. QED BY <2>1, <1>3 DEF UserDeleteInv
<1>10. QED BY <1>5, <1>6, <1>7, <1>8, <1>9 DEF TenancyInv

\* The commit stores a row that resolves and that no session is about to break.
LEMMA CommitInsertInv ==
  ASSUME TenancyInv, NEW i \in Inserts, CommitInsert(i)
  PROVE  TenancyInv'
<1> USE Kinds
<1>1. /\ To(i, "answered") /\ call[i].pc = "commit" /\ UNCHANGED <<orgs, users, org>>
      /\ rows' = [rows EXCEPT ![i] =
           [table |-> call[i].table, user |-> call[i].user, org |-> call[i].was]]
  BY DEF CommitInsert
<1>2. /\ call' \in [Calls -> Session]
      /\ call'[i] = [call[i] EXCEPT !.pc = "answered"]
      /\ \A x \in Calls \ {i} : call'[x] = call[x]
  BY <1>1, ToSession DEF TenancyInv, CallStates, Ended
<1>3. call'[i].pc = "answered" BY <1>2 DEF TenancyInv, TypeOK, Session
<1>4. /\ InsertInv(i) /\ rows \in [Inserts -> Row \cup {None}] /\ users \subseteq Users
      /\ call[i] \in Session
  BY DEF TenancyInv, TypeOK
<1>5. /\ rows'[i] = [table |-> call[i].table, user |-> call[i].user, org |-> call[i].was]
      /\ \A n \in Inserts \ {i} : rows'[n] = rows[n]
  BY <1>1, <1>4
<1>6. /\ call[i].user \in users /\ UserDeleters(call[i].user) = {}
      /\ call[i].was \in orgs \cup IF call[i].table = "chat_threads" THEN {None} ELSE {}
      /\ OrgDeleters(call[i].was) = {} /\ rows[i] = None
  BY <1>1, <1>4 DEF InsertInv
<1>7. /\ \A o : OrgDeleters(o)' = OrgDeleters(o)
      /\ \A u : UserDeleters(u)' = UserDeleters(u)
  BY <1>2 DEF OrgDeleters, UserDeleters
<1>8. TypeOK'
  <2>1. rows'[i] \in Row BY <1>4, <1>5, <1>6 DEF Session, Row
  <2>2. rows' \in [Inserts -> Row \cup {None}] BY <1>1, <1>4, <1>5, <2>1
  <2>3. QED BY <1>1, <1>2, <2>2 DEF TenancyInv, TypeOK
<1>9. ReferencesResolve'
  <2>1. /\ rows'[i].user \in users
        /\ rows'[i].org \in orgs \cup IF rows'[i].table = "chat_threads" THEN {None} ELSE {}
    BY <1>5, <1>6
  <2>2. QED BY <2>1, <1>1, <1>5 DEF TenancyInv, ReferencesResolve
<1>10. ASSUME NEW n \in Inserts PROVE InsertInv(n)'
  <2>1. CASE n = i BY <2>1, <1>3 DEF InsertInv
  <2>2. CASE n # i
    <3>1. InsertInv(n) /\ call'[n] = call[n] BY <2>2, <1>2 DEF TenancyInv
    <3>2. QED BY <3>1, <2>2, <1>1, <1>5, <1>7 DEF InsertInv
  <2>3. QED BY <2>1, <2>2
<1>11. ASSUME NEW c \in Changes PROVE ChangeInv(c)'
  <2>1. ChangeInv(c) /\ call'[c] = call[c] BY <1>2 DEF TenancyInv
  <2>2. QED BY <2>1, <1>1, <1>7 DEF ChangeInv
<1>12. ASSUME NEW e \in OrgDeletes PROVE OrgDeleteInv(e)'
  <2>1. OrgDeleteInv(e) /\ call'[e] = call[e] BY <1>2 DEF TenancyInv
  <2>2. call[e] \in Session BY DEF TenancyInv, TypeOK
  <2>3. \A n \in call[e].threads : n # i /\ rows'[n] = rows[n]
    BY <2>1, <2>2, <1>5, <1>6 DEF OrgDeleteInv, Session
  <2>4. call[e].pc = "commit" => call[e].org # call[i].was BY <1>6 DEF OrgDeleters
  <2>5. call[e].pc = "commit" => RowsOf(call[e].org, Tables)' \subseteq RowsOf(call[e].org, Tables)
    BY <2>1, <2>4, <1>5 DEF RowsOf
  <2>6. Members(call[e].org)' = Members(call[e].org) BY <2>1, <1>1 DEF Members
  <2>7. QED BY <2>1, <2>3, <2>5, <2>6, <1>1 DEF OrgDeleteInv
<1>13. ASSUME NEW e \in UserDeletes PROVE UserDeleteInv(e)'
  <2>1. UserDeleteInv(e) /\ call'[e] = call[e] BY <1>2 DEF TenancyInv
  <2>2. call[e].pc = "commit" => call[e].user # call[i].user BY <1>6 DEF UserDeleters
  <2>3. QED BY <2>1, <2>2, <1>5 DEF UserDeleteInv
<1>14. QED BY <1>8, <1>9, <1>10, <1>11, <1>12, <1>13 DEF TenancyInv

\* The steps of an insert.
LEMMA InsertStepInv ==
  ASSUME TenancyInv, NEW i \in Inserts, InsertStep(i)
  PROVE  TenancyInv'
<1> USE Kinds
<1>1. CASE InsertRow(i)
  <2>1. PICK state \in {"commit", "failed"} :
          /\ To(i, state)
          /\ state = "commit" => call[i].user \in users /\ call[i].was \in orgs \cup {None}
    BY <1>1 DEF InsertRow
  <2>2. CASE state = "commit"
    <3>1. call[i].was = None => call[i].table = "chat_threads"
      BY <1>1 DEF TenancyInv, InsertInv, InsertRow
    <3>2. QED BY <1>1, <2>1, <2>2, <3>1, PinInsert
  <2>3. CASE state # "commit" BY <1>1, <2>1, <2>3, ToStep DEF InsertRow, CallStates, Ended
  <2>4. QED BY <2>2, <2>3
<1>2. CASE CommitInsert(i) BY <1>2, CommitInsertInv
<1>3. QED BY <1>1, <1>2 DEF InsertStep

(***************************************************************************)
(* The theorems.                                                           *)
(***************************************************************************)
\* Every step keeps the invariant.
LEMMA TenancyStep == TenancyInv /\ [Next]_vars => TenancyInv'
<1> SUFFICES ASSUME TenancyInv, [Next]_vars PROVE TenancyInv' OBVIOUS
<1> USE Kinds
<1>1. CASE UNCHANGED vars
  <2>1. UNCHANGED <<orgs, users, org, rows, call>> BY <1>1 DEF vars
  <2>2. /\ \A o : OrgDeleters(o)' = OrgDeleters(o) /\ Members(o)' = Members(o)
                  /\ RowsOf(o, Tables)' = RowsOf(o, Tables)
        /\ \A u : UserDeleters(u)' = UserDeleters(u)
    BY <2>1 DEF OrgDeleters, UserDeleters, Members, RowsOf
  <2>3. TypeOK' /\ ReferencesResolve' BY <2>1 DEF TenancyInv, TypeOK, ReferencesResolve
  <2>4. \A i \in Inserts : InsertInv(i)' BY <2>1, <2>2 DEF TenancyInv, InsertInv
  <2>5. \A c \in Changes : ChangeInv(c)' BY <2>1, <2>2 DEF TenancyInv, ChangeInv
  <2>6. \A d \in OrgDeletes : OrgDeleteInv(d)'
    BY <2>1 DEF TenancyInv, OrgDeleteInv, Members, RowsOf
  <2>7. \A d \in UserDeletes : UserDeleteInv(d)' BY <2>1 DEF TenancyInv, UserDeleteInv
  <2>8. QED BY <2>3, <2>4, <2>5, <2>6, <2>7 DEF TenancyInv
<1>2. ASSUME NEW c \in Calls, Start(c) PROVE TenancyInv' BY <1>2, StartInv
<1>3. ASSUME NEW c \in Calls, Step(c) PROVE TenancyInv'
  BY <1>3, ChangeStepInv, OrgDeleteStepInv, UserDeleteStepInv, InsertStepInv DEF Step
<1>4. ASSUME NEW c \in Calls, CallDies(c) PROVE TenancyInv'
  BY <1>4, ToStep DEF CallDies, CallStates, Ended
<1>5. QED BY <1>1, <1>2, <1>3, <1>4 DEF Next, Idle

\* It holds when no request has started.
LEMMA TenancyInit == Init => TenancyInv
<1> SUFFICES ASSUME Init PROVE TenancyInv OBVIOUS
<1> USE Kinds
<1>1. Blank \in Session
  BY TenancyAssumption DEF Blank, Session, CallStates, Tables
<1>2. \A c \in Calls : call[c].pc = "idle" /\ call[c].threads = {} BY DEF Init, Blank
<1>3. TypeOK BY <1>1 DEF Init, TypeOK
<1>4. ReferencesResolve BY DEF Init, ReferencesResolve
<1>5. \A i \in Inserts : InsertInv(i) BY <1>2 DEF Init, InsertInv
<1>6. \A c \in Changes : ChangeInv(c) BY <1>2 DEF ChangeInv
<1>7. \A d \in OrgDeletes : OrgDeleteInv(d) BY <1>2 DEF OrgDeleteInv
<1>8. \A d \in UserDeletes : UserDeleteInv(d) BY <1>2 DEF UserDeleteInv
<1>9. QED BY <1>3, <1>4, <1>5, <1>6, <1>7, <1>8 DEF TenancyInv

\* Whichever requests overlap, and wherever they die, a session about to commit
\* has what it refers to pinned by the locks of its statements.
THEOREM TenancyInvHolds == Spec => []TenancyInv
<1>1. QED BY TenancyInit, TenancyStep, PTL DEF Spec

\* No row ever refers to a user or an organization that was deleted.
THEOREM References == Spec => []ReferencesResolve
<1>1. TenancyInv => ReferencesResolve BY DEF TenancyInv
<1>2. QED BY <1>1, TenancyInvHolds, PTL

(***************************************************************************)
(* Who waits for whom.                                                     *)
(***************************************************************************)
\* A deletion has updated the members below those it has yet to update.
OrderInv ==
  \A d \in Calls :
    call[d].pc = "nullify" =>
      \A u \in call[d].members \ call[d].todo, v \in call[d].todo : u < v

\* A step that leaves the session of c out of its UPDATEs keeps the order.
LEMMA OrderElsewhere ==
  ASSUME OrderInv, NEW c \in Calls, call'[c].pc # "nullify",
         \A x \in Calls \ {c} : call'[x] = call[x]
  PROVE  OrderInv'
<1> SUFFICES ASSUME NEW d \in Calls, call'[d].pc = "nullify",
                    NEW u \in call'[d].members \ call'[d].todo, NEW v \in call'[d].todo
             PROVE  u < v
  BY DEF OrderInv
<1>1. call'[d] = call[d] OBVIOUS
<1>2. QED BY <1>1 DEF OrderInv

\* The members are loaded together and then taken from the lowest id up.
LEMMA OrderStep == TypeOK /\ OrderInv /\ [Next]_vars => OrderInv'
<1> SUFFICES ASSUME TypeOK, OrderInv, [Next]_vars PROVE OrderInv' OBVIOUS
<1> USE Kinds
<1>1. call \in [Calls -> Session] /\ users \subseteq Users BY DEF TypeOK
<1>2. ASSUME NEW c \in Calls, NEW state \in CallStates \ {"nullify"}, To(c, state)
      PROVE  OrderInv'
  <2>1. call'[c] = [call[c] EXCEPT !.pc = state] /\ \A x \in Calls \ {c} : call'[x] = call[x]
    BY <1>2, ToSession
  <2>2. call'[c].pc = state BY <1>1, <2>1 DEF Session
  <2>3. QED BY <2>1, <2>2, OrderElsewhere
<1>3. CASE UNCHANGED vars BY <1>3 DEF vars, OrderInv
<1>4. ASSUME NEW c \in Calls, Start(c) PROVE OrderInv'
  <2> DEFINE Elsewhere == call'[c].pc # "nullify" /\ \A x \in Calls \ {c} : call'[x] = call[x]
  <2>1. ASSUME NEW u, NEW o, StartJoin(c, u, o) PROVE Elsewhere
    BY <1>1, <2>1 DEF StartJoin, Session
  <2>2. ASSUME NEW u, NEW o, StartAssign(c, u, o) PROVE Elsewhere
    BY <1>1, <2>2 DEF StartAssign, Session
  <2>3. ASSUME NEW o, StartOrgDelete(c, o) PROVE Elsewhere
    BY <1>1, <2>3 DEF StartOrgDelete, Session
  <2>4. ASSUME NEW u, StartUserDelete(c, u) PROVE Elsewhere
    BY <1>1, <2>4 DEF StartUserDelete, Session
  <2>5. ASSUME NEW table, NEW u, StartInsert(c, table, u) PROVE Elsewhere
    BY <1>1, <2>5 DEF StartInsert, Session
  <2>6. Elsewhere
    <3> HIDE DEF Elsewhere
    <3>1. QED BY <1>4, <2>1, <2>2, <2>3, <2>4, <2>5 DEF Start
  <2>7. QED BY <2>6, OrderElsewhere
<1>5. ASSUME NEW c \in Calls, CallDies(c) PROVE OrderInv'
  BY <1>2, <1>5 DEF CallDies, CallStates, Ended
<1>6. ASSUME NEW c \in Changes, ChangeStep(c) PROVE OrderInv'
  <2>1. \E state \in CallStates \ {"nullify"} : To(c, state)
    BY <1>6 DEF ChangeStep, FindOrg, UpdateUser, CheckKey, CommitChange, RefreshUser,
                CallStates, Ended
  <2>2. QED BY <1>2, <2>1
<1>7. ASSUME NEW c \in UserDeletes \cup Inserts, UserDeleteStep(c) \/ InsertStep(c)
      PROVE OrderInv'
  <2>1. \E state \in CallStates \ {"nullify"} : To(c, state)
    BY <1>7 DEF UserDeleteStep, InsertStep, DeleteUser, CommitUserDelete, InsertRow, CommitInsert,
                CallStates, Ended
  <2>2. QED BY <1>2, <1>7, <2>1
<1>8. ASSUME NEW d \in OrgDeletes, OrgDeleteStep(d) PROVE OrderInv'
  <2>1. CASE CountUsers(d) \/ CountJobs(d) \/ DeleteOrg(d) \/ CommitOrgDelete(d)
    <3>1. \E state \in CallStates \ {"nullify"} : To(d, state)
      BY <2>1 DEF CountUsers, CountJobs, DeleteOrg, CommitOrgDelete, CallStates, Ended
    <3>2. QED BY <1>2, <3>1
  <2>2. CASE LoadChildren(d)
    <3>1. /\ call'[d].members = call'[d].todo
          /\ \A x \in Calls \ {d} : call'[x] = call[x]
      BY <1>1, <2>2 DEF LoadChildren, Session
    <3>2. QED BY <3>1 DEF OrderInv
  <2>3. CASE NullifyMember(d)
    <3>1. PICK u \in First(call[d].todo) :
            call' = IF u \in users THEN [call EXCEPT ![d].todo = @ \ {u}]
                    ELSE [call EXCEPT ![d].pc = "failed"]
      BY <2>3 DEF NullifyMember
    <3>2. CASE u \notin users
      <4>1. call'[d].pc # "nullify" /\ \A x \in Calls \ {d} : call'[x] = call[x]
        BY <1>1, <3>1, <3>2 DEF Session
      <4>2. QED BY <4>1, OrderElsewhere
    <3>3. CASE u \in users
      <4>1. /\ call'[d].pc = call[d].pc /\ call'[d].members = call[d].members
            /\ call'[d].todo = call[d].todo \ {u}
            /\ \A x \in Calls \ {d} : call'[x] = call[x]
        BY <1>1, <3>1, <3>3 DEF Session
      <4>2. /\ u \in Nat /\ call[d].todo \subseteq Nat /\ call[d].members \subseteq Nat
            /\ u \in call[d].todo /\ \A v \in call[d].todo : u <= v
        BY <1>1, <3>1, TenancyAssumption DEF Session, First
      <4>3. \A w \in call'[d].members \ call'[d].todo, v \in call'[d].todo :
              call[d].pc = "nullify" => w < v
        <5> SUFFICES ASSUME NEW w \in call'[d].members \ call'[d].todo, NEW v \in call'[d].todo,
                            call[d].pc = "nullify"
                     PROVE  w < v
          OBVIOUS
        <5>1. v \in call[d].todo /\ v # u /\ w \in call[d].members BY <4>1
        <5>2. CASE w = u BY <4>2, <5>1, <5>2
        <5>3. CASE w # u
          <6>1. w \notin call[d].todo BY <4>1, <5>3
          <6>2. QED BY <5>1, <6>1 DEF OrderInv
        <5>4. QED BY <5>2, <5>3
      <4>4. QED BY <4>1, <4>3 DEF OrderInv
    <3>4. QED BY <3>2, <3>3
  <2>4. QED BY <2>1, <2>2, <2>3, <1>8 DEF OrgDeleteStep
<1>9. QED BY <1>3, <1>4, <1>5, <1>6, <1>7, <1>8 DEF Next, Step, Idle

\* A finite set of numbers has a highest and a lowest one.
LEMMA Extremes ==
  ASSUME NEW T \in SUBSET Nat, IsFiniteSet(T), T # {}
  PROVE  /\ \E m \in T : \A k \in T : k <= m
         /\ \E m \in T : \A k \in T : m <= k
<1>1. IsWellFoundedOn(StrictSubsetOrdering(T), FiniteSubsetsOf(T))
  BY FS_StrictSubsetOrderingWellFounded
<1>2. ASSUME NEW F \in SUBSET (SUBSET T), F # {}
      PROVE  \E x \in F : \A y \in F : ~(y \subseteq x /\ y # x)
  <2>1. F \subseteq FiniteSubsetsOf(T) BY FS_Subset DEF FiniteSubsetsOf
  <2>2. PICK x \in F : \A y \in F : ~(<<y, x>> \in StrictSubsetOrdering(T))
    BY <1>1, <1>2, <2>1, WFMin
  <2>3. ASSUME NEW y \in F, y \subseteq x, y # x PROVE FALSE
    BY <2>2, <2>3 DEF StrictSubsetOrdering
  <2>4. QED BY <2>3
<1>3. \E m \in T : \A k \in T : k <= m
  <2> DEFINE Above(m) == {k \in T : k > m}
  <2>1. PICK x \in {Above(m) : m \in T} :
          \A y \in {Above(m) : m \in T} : ~(y \subseteq x /\ y # x)
    <3>1. \A m \in T : Above(m) \in SUBSET T OBVIOUS
    <3> HIDE DEF Above
    <3>2. {Above(m) : m \in T} \in SUBSET (SUBSET T) /\ {Above(m) : m \in T} # {} BY <3>1
    <3>3. QED BY <1>2, <3>2
  <2>2. PICK m \in T : x = Above(m) BY <2>1
  <2>3. ASSUME NEW k \in T, ~(k <= m) PROVE FALSE
    <3>1. m \in Nat /\ k \in Nat /\ \A i \in T : i \in Nat OBVIOUS
    <3>2. k \in Above(m) /\ k \notin Above(k) BY <2>3, <3>1
    <3>3. Above(k) \subseteq Above(m)
      <4> SUFFICES ASSUME NEW i \in T, i > k PROVE i > m OBVIOUS
      <4>1. i \in Nat BY <3>1
      <4>2. QED BY <2>3, <3>1, <4>1
    <3>4. QED BY <2>1, <2>2, <3>2, <3>3
  <2>4. QED BY <2>3
<1>4. \E m \in T : \A k \in T : m <= k
  <2> DEFINE Below(m) == {k \in T : k < m}
  <2>1. PICK x \in {Below(m) : m \in T} :
          \A y \in {Below(m) : m \in T} : ~(y \subseteq x /\ y # x)
    <3>1. \A m \in T : Below(m) \in SUBSET T OBVIOUS
    <3> HIDE DEF Below
    <3>2. {Below(m) : m \in T} \in SUBSET (SUBSET T) /\ {Below(m) : m \in T} # {} BY <3>1
    <3>3. QED BY <1>2, <3>2
  <2>2. PICK m \in T : x = Below(m) BY <2>1
  <2>3. ASSUME NEW k \in T, ~(m <= k) PROVE FALSE
    <3>1. m \in Nat /\ k \in Nat /\ \A i \in T : i \in Nat OBVIOUS
    <3>2. k \in Below(m) /\ k \notin Below(k) BY <2>3, <3>1
    <3>3. Below(k) \subseteq Below(m)
      <4> SUFFICES ASSUME NEW i \in T, i < k PROVE i < m OBVIOUS
      <4>1. i \in Nat BY <3>1
      <4>2. QED BY <2>3, <3>1, <4>1
    <3>4. QED BY <2>1, <2>2, <3>2, <3>3
  <2>4. QED BY <2>3
<1>5. QED BY <1>3, <1>4

\* A session about to commit waits for nobody, and everybody waits only for sessions
\* that are about to commit or check a key, or for a deletion that has updated a member.
LEMMA WhoBlocks ==
  ASSUME NEW c, NEW b \in Blockers(c)
  PROVE  /\ b \in Calls /\ call[c].pc # "commit"
         /\ call[b].pc \in {"key", "nullify", "commit"}
         /\ call[c].pc = "key" => call[b].pc = "commit"
         /\ call[c].pc = "nullify" /\ call[c].todo = {} => call[b].pc = "commit"
         /\ call[c].pc = "nullify" /\ call[c].todo # {} /\ call[b].pc = "nullify" =>
              \E u \in First(call[c].todo) : u \in call[b].members \ call[b].todo
<1> USE Kinds
<1>1. PICK s : s = call[c] OBVIOUS
<1>2. ASSUME NEW u, b \in UserUpdaters(u)
      PROVE  /\ b \in Calls /\ call[b].pc \in {"key", "nullify", "commit"}
             /\ call[b].pc = "nullify" => u \in call[b].members \ call[b].todo
  BY <1>2 DEF UserUpdaters
<1>3. ASSUME \/ \E u : b \in UserDeleters(u) \cup UserSharers(u)
             \/ \E o : b \in OrgDeleters(o) \cup OrgSharers(o)
      PROVE  b \in Calls /\ call[b].pc = "commit"
  BY <1>3 DEF UserDeleters, UserSharers, OrgDeleters, OrgSharers
<1>4. CASE s.pc = "update"
  <2>1. b \in UserUpdaters(s.user) \cup UserDeleters(s.user) BY <1>1, <1>4 DEF Blockers
  <2>2. QED BY <1>1, <1>2, <1>3, <1>4, <2>1
<1>5. CASE s.pc = "key"
  <2>1. b \in OrgDeleters(s.org) BY <1>1, <1>5 DEF Blockers
  <2>2. QED BY <1>1, <1>3, <1>5, <2>1
<1>6. CASE s.pc = "nullify" /\ s.todo = {}
  <2>1. b \in OrgSharers(s.org) \cup OrgDeleters(s.org) BY <1>1, <1>6 DEF Blockers
  <2>2. QED BY <1>1, <1>3, <1>6, <2>1
<1>7. CASE s.pc = "nullify" /\ s.todo # {}
  <2>1. PICK u \in First(s.todo) : b \in UserUpdaters(u) \cup UserDeleters(u)
    BY <1>1, <1>7 DEF Blockers
  <2>2. QED BY <1>1, <1>2, <1>3, <1>7, <2>1
<1>8. CASE s.pc = "erase"
  <2>1. b \in UserUpdaters(s.user) \cup UserDeleters(s.user) \cup UserSharers(s.user)
    BY <1>1, <1>8 DEF Blockers
  <2>2. QED BY <1>1, <1>2, <1>3, <1>8, <2>1
<1>9. CASE s.pc = "insert"
  <2>1. b \in UserDeleters(s.user) \cup OrgDeleters(s.was) BY <1>1, <1>9 DEF Blockers
  <2>2. QED BY <1>1, <1>3, <1>9, <2>1
<1>10. CASE s.pc \notin {"update", "key", "nullify", "erase", "insert"}
  BY <1>1, <1>10 DEF Blockers
<1>11. QED BY <1>4, <1>5, <1>6, <1>7, <1>8, <1>9, <1>10

\* In any group, the first of these waits for nobody in it: a session that checks a key;
\* a deletion that has updated its members; of those still at it, the one whose next
\* member has the highest id; any other.
LEMMA OrderMeansNoCircle ==
  ASSUME TypeOK, OrderInv
  PROVE  NoCircle
<1> SUFFICES ASSUME NEW group \in SUBSET Waiting, group # {}
             PROVE  \E c \in group : Blockers(c) \cap group = {}
  BY DEF NoCircle
<1>1. \A c \in group : call[c].pc # "commit" BY WhoBlocks DEF Waiting
<1>2. CASE \E c \in group : call[c].pc = "key" \/ (call[c].pc = "nullify" /\ call[c].todo = {})
  <2>1. PICK c \in group : call[c].pc = "key" \/ (call[c].pc = "nullify" /\ call[c].todo = {})
    BY <1>2
  <2>2. \A b \in Blockers(c) : call[b].pc = "commit" BY <2>1, WhoBlocks
  <2>3. QED BY <1>1, <2>2
<1> DEFINE updating == {c \in group : call[c].pc = "nullify" /\ call[c].todo # {}}
           next == UNION {First(call[c].todo) : c \in updating}
<1>3. CASE updating # {} /\ \A c \in group : call[c].pc # "key" /\ (call[c].pc = "nullify" => c \in updating)
  <2>1. /\ Users \subseteq Nat
        /\ \A c \in updating : call[c].todo \in SUBSET Users /\ call[c].todo # {}
    BY TenancyAssumption DEF TypeOK, Session, Waiting
  <2>2. ASSUME NEW c \in updating PROVE First(call[c].todo) # {}
    <3>1. call[c].todo \in SUBSET Nat /\ IsFiniteSet(call[c].todo) /\ call[c].todo # {}
      BY <2>1, TenancyAssumption, FS_Subset
    <3>2. PICK m \in call[c].todo : \A k \in call[c].todo : m <= k BY <3>1, Extremes
    <3>3. QED BY <3>2 DEF First
  <2>3. next \in SUBSET Nat /\ IsFiniteSet(next) /\ next # {}
    <3>1. next \in SUBSET Users BY <2>1 DEF First
    <3>2. IsFiniteSet(next) BY <3>1, TenancyAssumption, FS_Subset
    <3>3. next # {} BY <1>3, <2>2
    <3>4. QED BY <2>1, <3>1, <3>2, <3>3
  <2>4. PICK m \in next : \A k \in next : k <= m
    <3> HIDE DEF next
    <3>1. QED BY <2>3, Extremes
  <2>5. PICK c \in updating : m \in First(call[c].todo) BY <2>4
  <2>6. ASSUME NEW b \in Blockers(c) \cap group PROVE FALSE
    <3>1. call[b].pc = "nullify" /\ b \in updating BY <1>1, <1>3, <2>6, WhoBlocks
    <3>2. PICK u \in First(call[c].todo) : u \in call[b].members \ call[b].todo
      BY <2>5, <3>1, WhoBlocks
    <3>3. PICK v \in First(call[b].todo) : TRUE BY <2>2, <3>1
    <3>4. u < v
      <4>1. b \in Calls /\ v \in call[b].todo BY <3>3, WhoBlocks DEF First
      <4>2. QED BY <3>1, <3>2, <4>1 DEF OrderInv
    <3>5. v <= m BY <2>4, <3>1, <3>3
    <3>6. u \in Nat /\ v \in Nat /\ m \in Nat /\ m <= u
      <4>1. m \in call[c].todo /\ u \in call[c].todo /\ m <= u BY <2>5, <3>2 DEF First
      <4>2. v \in next BY <3>1, <3>3
      <4>3. QED BY <2>1, <2>3, <2>5, <4>1, <4>2
    <3>7. QED BY <3>4, <3>5, <3>6
  <2>7. QED BY <2>5, <2>6
<1>4. CASE \A c \in group : call[c].pc \notin {"key", "nullify"}
  <2>1. PICK c \in group : TRUE OBVIOUS
  <2>2. \A b \in Blockers(c) : call[b].pc \in {"key", "nullify", "commit"} BY WhoBlocks
  <2>3. QED BY <1>1, <1>4, <2>1, <2>2
<1>5. QED BY <1>2, <1>3, <1>4

\* No group of sessions ever waits only for one another, however many organizations and
\* users are joined, assigned and deleted at once.
THEOREM NoDeadlock == Spec => []NoCircle
<1>1. Init => OrderInv BY DEF Init, Blank, OrderInv
<1>2. TenancyInv => TypeOK BY DEF TenancyInv
<1>3. QED BY <1>1, <1>2, OrderStep, OrderMeansNoCircle, TenancyInvHolds, PTL DEF Spec

(***************************************************************************)
(* Somebody can always go on.                                              *)
(***************************************************************************)
\* The states in which the session of a call of each kind works.
Working(c) ==
  IF c \in Changes THEN {"lookup", "update", "key", "commit", "refresh"}
  ELSE IF c \in OrgDeletes THEN {"users", "jobs", "children", "nullify", "commit"}
  ELSE IF c \in UserDeletes THEN {"erase", "commit"}
  ELSE {"insert", "commit"}

WorkInv == \A c \in Calls : UnderWay(c) => call[c].pc \in Working(c)

\* A call works only at what is of its kind.
LEMMA WorkStep == TypeOK /\ WorkInv /\ [Next]_vars => WorkInv'
<1> SUFFICES ASSUME TypeOK, WorkInv, [Next]_vars PROVE WorkInv' OBVIOUS
<1> USE Kinds
<1>1. call \in [Calls -> Session] BY DEF TypeOK
<1>2. CASE UNCHANGED call BY <1>2 DEF WorkInv, UnderWay
<1>3. ASSUME NEW c \in Calls, \A x \in Calls \ {c} : call'[x] = call[x],
             call'[c].pc \in Ended \cup Working(c)
      PROVE  WorkInv'
  BY <1>3 DEF WorkInv, UnderWay
<1>4. ASSUME NEW c \in Changes, ChangeStep(c) PROVE WorkInv'
  <2>1. /\ \A x \in Calls \ {c} : call'[x] = call[x]
        /\ call'[c].pc \in {"update", "conflict", "refresh", "failed", "commit", "key", "answered"}
    BY <1>1, <1>4 DEF ChangeStep, FindOrg, UpdateUser, CheckKey, CommitChange, RefreshUser, To, Session
  <2>2. QED BY <1>3, <2>1 DEF Working, Ended
<1>5. ASSUME NEW c \in OrgDeletes, OrgDeleteStep(c) PROVE WorkInv'
  <2>1. /\ \A x \in Calls \ {c} : call'[x] = call[x]
        /\ call'[c].pc \in {"jobs", "children", "conflict", "nullify", "failed", "commit", "answered"}
    <3>1. CASE NullifyMember(c)
      BY <1>1, <3>1 DEF NullifyMember, Session
    <3>2. CASE LoadChildren(c) BY <1>1, <3>2 DEF LoadChildren, Session
    <3>3. CASE CountUsers(c) \/ CountJobs(c) \/ DeleteOrg(c) \/ CommitOrgDelete(c)
      BY <1>1, <3>3 DEF CountUsers, CountJobs, DeleteOrg, CommitOrgDelete, To, Session
    <3>4. QED BY <1>5, <3>1, <3>2, <3>3 DEF OrgDeleteStep
  <2>2. QED BY <1>3, <2>1 DEF Working, Ended
<1>6. ASSUME NEW c \in UserDeletes, UserDeleteStep(c) PROVE WorkInv'
  <2>1. /\ \A x \in Calls \ {c} : call'[x] = call[x]
        /\ call'[c].pc \in {"conflict", "commit", "answered"}
    BY <1>1, <1>6 DEF UserDeleteStep, DeleteUser, CommitUserDelete, To, Session
  <2>2. QED BY <1>3, <2>1 DEF Working, Ended
<1>7. ASSUME NEW c \in Inserts, InsertStep(c) PROVE WorkInv'
  <2>1. /\ \A x \in Calls \ {c} : call'[x] = call[x]
        /\ call'[c].pc \in {"failed", "commit", "answered"}
    BY <1>1, <1>7 DEF InsertStep, InsertRow, CommitInsert, To, Session
  <2>2. QED BY <1>3, <2>1 DEF Working, Ended
<1>8. ASSUME NEW c \in Calls, CallDies(c) PROVE WorkInv'
  <2>1. /\ \A x \in Calls \ {c} : call'[x] = call[x]
        /\ call'[c].pc = "died"
    BY <1>1, <1>8 DEF CallDies, To, Session
  <2>2. QED BY <1>3, <2>1 DEF Ended
<1>9. ASSUME NEW c \in Calls, Start(c) PROVE WorkInv'
  <2>1. \A x \in Calls \ {c} : call'[x] = call[x]
    BY <1>1, <1>9 DEF Start, StartJoin, StartAssign, StartOrgDelete, StartUserDelete, StartInsert
  <2>2. ASSUME NEW u, NEW o, StartJoin(c, u, o) \/ StartAssign(c, u, o)
        PROVE  call'[c].pc \in {"refused", "conflict", "lookup", "missing", "update"}
    BY <1>1, <2>2 DEF StartJoin, StartAssign, Session
  <2>3. ASSUME NEW o, StartOrgDelete(c, o) PROVE call'[c].pc \in {"users", "missing"}
    BY <1>1, <2>3 DEF StartOrgDelete, Session
  <2>4. ASSUME NEW u, StartUserDelete(c, u) PROVE call'[c].pc \in {"erase", "missing"}
    BY <1>1, <2>4 DEF StartUserDelete, Session
  <2>5. ASSUME NEW table, NEW u, StartInsert(c, table, u)
        PROVE  call'[c].pc \in {"refused", "insert"}
    BY <1>1, <2>5 DEF StartInsert, Session
  <2>6. Joins \subseteq Changes /\ Assigns \subseteq Changes BY DEF Changes
  <2>7. call'[c].pc \in Ended \cup Working(c)
    BY <1>9, <2>2, <2>3, <2>4, <2>5, <2>6 DEF Start, Working, Ended
  <2>8. QED BY <1>3, <2>1, <2>7
<1>10. QED BY <1>2, <1>4, <1>5, <1>6, <1>7, <1>8, <1>9 DEF Next, Step, Idle, vars

\* A request that waits for nobody can go on: the queries and statements of each kind
\* follow one another, and a deletion that has members to update has a next one.
FreeGoOn == \A c \in Calls \ Waiting : UnderWay(c) => CanGoOn(c)

LEMMA FreeCallsGoOn == TypeOK /\ WorkInv => FreeGoOn
<1> SUFFICES ASSUME TypeOK, WorkInv, NEW c \in Calls \ Waiting, UnderWay(c) PROVE CanGoOn(c)
  BY DEF FreeGoOn
<1> USE Kinds
<1>1. Blockers(c) = {} BY DEF Waiting
<1>2. call[c].todo # {} => First(call[c].todo) # {}
  <2> SUFFICES ASSUME call[c].todo # {} PROVE First(call[c].todo) # {} OBVIOUS
  <2>1. call[c].todo \in SUBSET Users BY DEF TypeOK, Session
  <2>2. call[c].todo \in SUBSET Nat /\ IsFiniteSet(call[c].todo)
    BY <2>1, TenancyAssumption, FS_Subset
  <2>3. PICK m \in call[c].todo : \A k \in call[c].todo : m <= k BY <2>2, Extremes
  <2>4. QED BY <2>3 DEF First
<1>3. call[c].pc \in Working(c) BY DEF WorkInv
<1>4. CASE c \in Changes BY <1>1, <1>3, <1>4 DEF CanGoOn, Working
<1>5. CASE c \in OrgDeletes BY <1>1, <1>2, <1>3, <1>5 DEF CanGoOn, Working
<1>6. CASE c \in UserDeletes BY <1>1, <1>3, <1>6 DEF CanGoOn, Working
<1>7. CASE c \in Inserts BY <1>1, <1>3, <1>7 DEF CanGoOn, Working
<1>8. QED BY <1>4, <1>5, <1>6, <1>7 DEF Calls

\* Whenever requests are under way, one of them can go on.
NeverStuck == (\E c \in Calls : UnderWay(c)) => \E c \in Calls : CanGoOn(c)

\* With no circle, who waits waits in the end for somebody who does not.
LEMMA NobodyIsStuck == TypeOK /\ WorkInv /\ NoCircle => NeverStuck
<1> SUFFICES ASSUME TypeOK, WorkInv, NoCircle, NEW c \in Calls, UnderWay(c)
             PROVE  \E b \in Calls : CanGoOn(b)
  BY DEF NeverStuck
<1>1. FreeGoOn BY FreeCallsGoOn
<1>2. CASE c \notin Waiting BY <1>1, <1>2 DEF FreeGoOn
<1>3. CASE c \in Waiting
  <2>1. PICK w \in Waiting : Blockers(w) \cap Waiting = {} BY <1>3 DEF NoCircle
  <2>2. PICK b \in Blockers(w) : b \notin Waiting BY <2>1 DEF Waiting
  <2>3. b \in Calls /\ call[b].pc \in {"key", "nullify", "commit"} BY <2>2, WhoBlocks
  <2>4. UnderWay(b) BY <2>3 DEF UnderWay, Ended
  <2>5. QED BY <1>1, <2>2, <2>3, <2>4 DEF FreeGoOn
<1>4. QED BY <1>2, <1>3

\* A request waits for nothing but rows, and as long as requests are under way one of
\* them can go on, for any number of users, organizations and requests: no mix of
\* joins, assignments, deletions and inserts leaves all of them waiting.
THEOREM SomebodyGoesOn == Spec => [](FreeGoOn /\ NeverStuck)
<1>1. Init => WorkInv BY DEF Init, Blank, WorkInv, UnderWay
<1>2. TenancyInv => TypeOK BY DEF TenancyInv
<1>3. TypeOK /\ WorkInv => FreeGoOn BY FreeCallsGoOn
<1>4. TypeOK /\ WorkInv /\ NoCircle => NeverStuck BY NobodyIsStuck
<1>5. QED
  BY <1>1, <1>2, <1>3, <1>4, WorkStep, NoDeadlock, TenancyInvHolds, PTL DEF Spec
=============================================================================
