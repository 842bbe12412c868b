------------------------- MODULE MigrationsProofs -------------------------
(* Theorems about the revisions, for any number of containers, rows,        *)
(* crashes and downgrades.                                                  *)
EXTENDS Migrations, TLAPS

(***************************************************************************)
(* The revisions.                                                          *)
(***************************************************************************)
\* A row is not the mark of a missing one.
LEMMA RowFacts ==
  ASSUME NEW d \in Database
  PROVE  /\ \A u \in Users : Exists(d, u) => d.users[u] \in UserRow
         /\ \A t \in Threads : d.threads[t] # None => d.threads[t] \in ThreadRow
         /\ None \notin UserRow /\ None \notin ThreadRow
  BY MigrationsAssumption DEF Database, Exists, UserRow, ThreadRow

LEMMA EmptyFits ==
  ASSUME NEW v \in 0..Head
  PROVE  RowsFit(Empty(v))
<1>1. Empty(v) \in Database BY DEF Empty, Database, NoUsers, NoThreads
<1>2. \A u \in Users : ~Exists(Empty(v), u) BY DEF Empty, Exists, NoUsers
<1>3. QED BY <1>1, <1>2 DEF RowsFit, Empty, NoThreads

\* The parts of RowsFit about users and about threads.
UsersFit(d) ==
  /\ \A u, v \in Users :
       Exists(d, u) /\ Exists(d, v) /\ d.users[u].email = d.users[v].email => u = v
  /\ \A u \in Users :
       /\ Exists(d, u) =>
            /\ d.users[u].org \in d.orgs \cup {None}
            /\ d.version = 2 => d.users[u].org # None
            /\ d.users[u].admin => d.users[u].org = None /\ d.version >= 3
       /\ u \in d.links => Exists(d, u)
       /\ \A o \in Orgs : <<u, o>> \in d.convs => Exists(d, u) /\ o \in d.orgs

ThreadsFit(d) ==
  /\ d.version < 5 => d.threads = NoThreads
  /\ \A t \in Threads :
       d.threads[t] # None =>
         /\ Exists(d, d.threads[t].owner)
         /\ IF d.version = 5 THEN d.threads[t].ctx = None
            ELSE d.threads[t].ctx # None /\ Exists(d, d.threads[t].ctx)

LEMMA Fits ==
  ASSUME NEW d
  PROVE  RowsFit(d) <=> /\ d \in Database
                        /\ d.version < 2 => d = Empty(d.version)
                        /\ d.version < 7 => d.links = {}
                        /\ UsersFit(d) /\ ThreadsFit(d)
  BY DEF RowsFit, UsersFit, ThreadsFit

\* A revision that keeps the users, with other rows for them at most.
LEMMA UsersKept ==
  ASSUME NEW d \in Database, NEW e \in Database, UsersFit(d),
         d.version >= 2, e.version >= 2,
         e.orgs = d.orgs, e.convs = d.convs, e.links \subseteq d.links,
         \A u \in Users : Exists(e, u) <=> Exists(d, u),
         \A u \in Users : Exists(d, u) =>
           /\ e.users[u].org = d.users[u].org
           /\ e.users[u].admin => d.users[u].admin /\ e.version >= 3
           /\ e.version = 2 => d.users[u].org # None,
         \A u, v \in Users :
           Exists(d, u) /\ Exists(d, v) /\ e.users[u].email = e.users[v].email =>
             d.users[u].email = d.users[v].email
  PROVE  UsersFit(e)
  BY DEF UsersFit

(***************************************************************************)
(* What a revision changes of the database.                                *)
(***************************************************************************)
\* A revision to v, told by the tables it may touch.
Revises(d, e, v) ==
  /\ d \in Database /\ e \in Database
  /\ e.version = v /\ e.orgs = d.orgs /\ e.convs = d.convs

\* A revision of the threads or the links leaves the users and what they import.
LEMMA SameUsers ==
  ASSUME NEW d \in Database, NEW e \in Database, UsersFit(d), d.version >= 4, e.version >= 4,
         e.users = d.users, e.orgs = d.orgs, e.convs = d.convs, e.links \subseteq d.links
  PROVE  /\ UsersFit(e)
         /\ \A u \in Users : Exists(e, u) <=> Exists(d, u)
<1>1. \A u \in Users : Exists(e, u) <=> Exists(d, u) BY DEF Exists
<1>2. d.version \in Nat /\ e.version \in Nat BY DEF Database, Head
<1>3. QED BY <1>1, <1>2, UsersKept DEF UsersFit

LEMMA Cleared ==
  ASSUME NEW row \in UserRow
  PROVE  /\ [row EXCEPT !.admin = FALSE] \in UserRow
         /\ [row EXCEPT !.admin = FALSE].email = row.email
         /\ [row EXCEPT !.admin = FALSE].org = row.org
         /\ [row EXCEPT !.admin = FALSE].admin = FALSE
  BY DEF UserRow


LEMMA ReaddressType ==
  ASSUME NEW d \in Database, NEW x, NEW y \in Addresses
  PROVE  Readdress(d, x, y) \in [Users -> UserRow \cup {None}]
<1>1. ASSUME NEW u \in Users, Exists(d, u) PROVE [d.users[u] EXCEPT !.email = y] \in UserRow
  <2>1. PICK row : row = d.users[u] OBVIOUS
  <2>2. row \in UserRow BY <1>1, <2>1, RowFacts
  <2>3. QED BY <2>1, <2>2 DEF UserRow
<1>2. \A u \in Users : d.users[u] \in UserRow \cup {None} BY DEF Database
<1>3. QED BY <1>1, <1>2 DEF Readdress

LEMMA ContextType ==
  ASSUME NEW d \in Database, NEW v,
         NEW ts, ts = [t \in Threads |->
              IF d.threads[t] = None THEN None
              ELSE [d.threads[t] EXCEPT !.ctx = IF v = 6 THEN d.threads[t].owner ELSE None]]
  PROVE  ts \in [Threads -> ThreadRow \cup {None}]
<1>1. ASSUME NEW t \in Threads, d.threads[t] # None PROVE ts[t] \in ThreadRow
  <2>1. PICK row : row = d.threads[t] OBVIOUS
  <2>2. row \in ThreadRow BY <1>1, <2>1, RowFacts
  <2>3. PICK c : c = IF v = 6 THEN row.owner ELSE None OBVIOUS
  <2>4. c \in Users \cup {None} BY <2>2, <2>3 DEF ThreadRow
  <2>5. ts[t] = [row EXCEPT !.ctx = c] BY <1>1, <2>1, <2>3
  <2>6. QED BY <2>2, <2>4, <2>5 DEF ThreadRow
<1>2. QED BY <1>1

\* 003 keeps each account and makes nobody a super admin.
LEMMA AddSuperAdminFits ==
  ASSUME NEW d, RowsFit(d), d.version = 2
  PROVE  RowsFit(AddSuperAdmin(d)) /\ Kept(d, AddSuperAdmin(d)) /\ AddSuperAdmin(d).version = 3
<1>1. d \in Database /\ UsersFit(d) /\ ThreadsFit(d) /\ d.links = {} BY Fits
<1>2. PICK us : us = [u \in Users |-> IF Exists(d, u) THEN [d.users[u] EXCEPT !.admin = FALSE]
                                      ELSE None]
  OBVIOUS
<1>3. PICK e : e = [version |-> 3, users |-> us, orgs |-> d.orgs, convs |-> d.convs,
                    threads |-> d.threads, links |-> d.links]
  OBVIOUS
<1>4. \A u \in Users :
        /\ Exists(d, u) => /\ us[u] \in UserRow /\ us[u].email = d.users[u].email
                           /\ us[u].org = d.users[u].org /\ us[u].admin = FALSE
        /\ ~Exists(d, u) => us[u] = None
  BY <1>1, <1>2, RowFacts, Cleared
<1>5. us \in [Users -> UserRow \cup {None}] BY <1>2, <1>4
<1>6. /\ e \in Database
      /\ e.version = 3 /\ e.users = us /\ e.orgs = d.orgs /\ e.convs = d.convs
      /\ e.threads = d.threads /\ e.links = d.links
  BY <1>1, <1>3, <1>5 DEF Database, Head
<1>7. \A u \in Users : Exists(e, u) <=> Exists(d, u)
  BY <1>1, <1>4, <1>6, RowFacts DEF Exists
<1>8. UsersFit(e) BY <1>1, <1>4, <1>6, <1>7, UsersKept
<1>9. ThreadsFit(e) BY <1>1, <1>6 DEF ThreadsFit, NoThreads
<1>10. e = AddSuperAdmin(d)
  <2>1. AddSuperAdmin(d) = [d EXCEPT !.version = 3, !.users = us] BY <1>2 DEF AddSuperAdmin
  <2>2. QED BY <1>1, <1>3, <2>1 DEF Database
<1>11. Kept(d, e) BY <1>4, <1>6, <1>7 DEF Kept
<1>12. QED BY <1>1, <1>6, <1>8, <1>9, <1>10, <1>11, Fits

\* 004, up and down: one address becomes the other one, which nobody has.
LEMMA ReaddressFits ==
  ASSUME NEW d, RowsFit(d), NEW v \in {3, 4}, d.version \in {3, 4}, FixAddressOK(d),
         NEW x, NEW y, <<x, y>> \in {<<Old, New>>, <<New, Old>>},
         NEW e, Revises(d, e, v),
         e.users = Readdress(d, x, y), e.threads = d.threads, e.links = d.links
  PROVE  RowsFit(e) /\ Kept(d, e) /\ e.version = v
<1>1. d \in Database /\ UsersFit(d) /\ ThreadsFit(d) /\ d.links = {} BY Fits
<1>2. PICK us : us = Readdress(d, x, y) OBVIOUS
<1>3. x \in Addresses /\ y \in Addresses /\ {x, y} = {Old, New} BY MigrationsAssumption
<1>4. \A row \in UserRow :
        LET new == [row EXCEPT !.email = y] IN
          new \in UserRow /\ new.email = y /\ new.org = row.org /\ (new.admin <=> row.admin)
  BY <1>3 DEF UserRow
<1>5. \A u \in Users :
        /\ Exists(d, u) =>
             /\ us[u] \in UserRow /\ us[u].org = d.users[u].org
             /\ us[u].admin <=> d.users[u].admin
             /\ us[u].email = IF d.users[u].email = x THEN y ELSE d.users[u].email
        /\ ~Exists(d, u) => us[u] = None
  <2>1. SUFFICES ASSUME NEW u \in Users, Exists(d, u)
                 PROVE  /\ us[u] \in UserRow /\ us[u].org = d.users[u].org
                        /\ us[u].admin <=> d.users[u].admin
                        /\ us[u].email = IF d.users[u].email = x THEN y ELSE d.users[u].email
    BY <1>2 DEF Readdress, Exists
  <2>2. PICK row : row = d.users[u] OBVIOUS
  <2>3. row \in UserRow BY <1>1, <2>1, <2>2, RowFacts
  <2>4. us[u] = IF row.email = x THEN [row EXCEPT !.email = y] ELSE row
    BY <1>2, <2>1, <2>2 DEF Readdress
  <2>5. CASE row.email = x BY <1>4, <2>2, <2>3, <2>4, <2>5
  <2>6. CASE row.email # x BY <2>2, <2>3, <2>4, <2>6
  <2>7. QED BY <2>5, <2>6
<1>6. us \in [Users -> UserRow \cup {None}] BY <1>2, <1>5 DEF Readdress
<1>7. /\ e \in Database
      /\ e.version = v /\ e.users = us /\ e.orgs = d.orgs /\ e.convs = d.convs
      /\ e.threads = d.threads /\ e.links = d.links
  BY <1>2 DEF Revises
<1>8. \A u \in Users : Exists(e, u) <=> Exists(d, u)
  BY <1>1, <1>5, <1>7, RowFacts DEF Exists
<1>9. ~HasAddress(d, x) \/ ~HasAddress(d, y) BY <1>3 DEF FixAddressOK
<1>10. \A u, w \in Users :
         Exists(d, u) /\ Exists(d, w) /\ us[u].email = us[w].email =>
           d.users[u].email = d.users[w].email
  BY <1>5, <1>9 DEF HasAddress
<1>11. UsersFit(e) BY <1>1, <1>5, <1>7, <1>8, <1>10, UsersKept DEF UsersFit
<1>12. ThreadsFit(e) BY <1>1, <1>7 DEF ThreadsFit, NoThreads
<1>13. Kept(d, e) BY <1>3, <1>5, <1>7, <1>8 DEF Kept
<1>14. QED BY <1>1, <1>7, <1>11, <1>12, <1>13, Fits

\* 005, up and down: there are no threads afterwards.
LEMMA NoThreadsFits ==
  ASSUME NEW d, RowsFit(d), NEW v \in {4, 5}, d.version \in {4, 5}, d.version # v,
         NEW e, Revises(d, e, v),
         e.users = d.users, e.threads = NoThreads, e.links = d.links
  PROVE  RowsFit(e) /\ Kept(d, e) /\ e.version = v
<1>1. d \in Database /\ UsersFit(d) /\ ThreadsFit(d) /\ d.links = {} BY Fits
<1>2. NoThreads \in [Threads -> ThreadRow \cup {None}] BY DEF NoThreads
<1>3. /\ e \in Database
      /\ e.version = v /\ e.users = d.users /\ e.orgs = d.orgs /\ e.convs = d.convs
      /\ e.threads = NoThreads /\ e.links = d.links
  BY DEF Revises
<1>4. UsersFit(e) /\ \A u \in Users : Exists(e, u) <=> Exists(d, u)
  BY <1>1, <1>3, SameUsers
<1>5. ThreadsFit(e) BY <1>3 DEF ThreadsFit, NoThreads
<1>6. \A t \in Threads : d.threads[t] # None => e.version < 5
  BY <1>1, <1>3 DEF ThreadsFit, NoThreads
<1>7. Kept(d, e) BY <1>3, <1>4, <1>6 DEF Kept
<1>8. QED BY <1>1, <1>3, <1>4, <1>5, <1>7, Fits

\* 006: a thread's context user is its owner; down, it has none.
LEMMA ContextFits ==
  ASSUME NEW d, RowsFit(d), NEW v \in {5, 6}, d.version \in {5, 6}, d.version # v,
         NEW e, Revises(d, e, v), e.users = d.users, e.links = d.links,
         e.threads = [t \in Threads |->
              IF d.threads[t] = None THEN None
              ELSE [d.threads[t] EXCEPT !.ctx = IF v = 6 THEN d.threads[t].owner ELSE None]]
  PROVE  RowsFit(e) /\ Kept(d, e) /\ e.version = v
<1>1. d \in Database /\ UsersFit(d) /\ ThreadsFit(d) /\ d.links = {} BY Fits
<1>2. PICK ts : ts = [t \in Threads |->
              IF d.threads[t] = None THEN None
              ELSE [d.threads[t] EXCEPT !.ctx = IF v = 6 THEN d.threads[t].owner ELSE None]]
  OBVIOUS
<1>4. \A t \in Threads :
        /\ d.threads[t] # None =>
             /\ ts[t] \in ThreadRow /\ ts[t] # None /\ ts[t].owner = d.threads[t].owner
             /\ ts[t].ctx = IF v = 6 THEN d.threads[t].owner ELSE None
             /\ d.threads[t].owner \in Users
        /\ d.threads[t] = None => ts[t] = None
  <2>1. SUFFICES ASSUME NEW t \in Threads, d.threads[t] # None
                 PROVE  /\ ts[t] \in ThreadRow /\ ts[t] # None /\ ts[t].owner = d.threads[t].owner
                        /\ ts[t].ctx = IF v = 6 THEN d.threads[t].owner ELSE None
                        /\ d.threads[t].owner \in Users
    BY <1>2
  <2>2. PICK row : row = d.threads[t] OBVIOUS
  <2>3. row \in ThreadRow /\ None \notin ThreadRow BY <1>1, <2>1, <2>2, RowFacts
  <2>4. ts[t] = [row EXCEPT !.ctx = IF v = 6 THEN row.owner ELSE None]
    BY <1>2, <2>1, <2>2
  <2>5. QED BY <2>2, <2>3, <2>4 DEF ThreadRow
<1>5. ts \in [Threads -> ThreadRow \cup {None}] BY <1>2, <1>4
<1>6. /\ e \in Database
      /\ e.version = v /\ e.users = d.users /\ e.orgs = d.orgs /\ e.convs = d.convs
      /\ e.threads = ts /\ e.links = d.links
  BY <1>2 DEF Revises
<1>7. UsersFit(e) /\ \A u \in Users : Exists(e, u) <=> Exists(d, u)
  BY <1>1, <1>6, SameUsers
<1>8. ThreadsFit(e) BY <1>1, <1>4, <1>6, <1>7, MigrationsAssumption DEF ThreadsFit
<1>9. Kept(d, e) BY <1>4, <1>6, <1>7 DEF Kept
<1>10. QED BY <1>1, <1>6, <1>7, <1>8, <1>9, Fits

\* 007, up and down: no account is linked afterwards.
LEMMA LinksFits ==
  ASSUME NEW d, RowsFit(d), NEW v \in {6, 7}, d.version \in {6, 7}, d.version # v,
         NEW e, Revises(d, e, v), e.users = d.users, e.threads = d.threads, e.links = {}
  PROVE  RowsFit(e) /\ Kept(d, e) /\ e.version = v
<1>1. d \in Database /\ UsersFit(d) /\ ThreadsFit(d) BY Fits
<1>2. /\ e \in Database
      /\ e.version = v /\ e.users = d.users /\ e.orgs = d.orgs /\ e.convs = d.convs
      /\ e.threads = d.threads /\ e.links = {}
  BY DEF Revises
<1>3. UsersFit(e) /\ \A u \in Users : Exists(e, u) <=> Exists(d, u)
  BY <1>1, <1>2, SameUsers
<1>4. ThreadsFit(e)
  BY <1>1, <1>2 DEF ThreadsFit, Exists
<1>5. Kept(d, e) BY <1>2, <1>3 DEF Kept
<1>6. QED BY <1>1, <1>2, <1>3, <1>4, <1>5, Fits

\* 003 down: everyone without an organization gets one.
LEMMA DropSuperAdminFits ==
  ASSUME NEW d, RowsFit(d), d.version = 3, DropSuperAdminOK(d),
         NEW o \in d.orgs \cup {None}, d.orgs # {} => o \in d.orgs
  PROVE  /\ RowsFit(DropSuperAdmin(d, o)) /\ Kept(d, DropSuperAdmin(d, o))
         /\ DropSuperAdmin(d, o).version = 2
<1>1. d \in Database /\ UsersFit(d) /\ ThreadsFit(d) /\ d.links = {} /\ d.orgs \subseteq Orgs
  BY Fits DEF Database
<1>2. PICK us : us = [u \in Users |->
              IF ~Exists(d, u) THEN None
              ELSE [d.users[u] EXCEPT !.admin = FALSE, !.org = IF @ = None THEN o ELSE @]]
  OBVIOUS
<1>3. PICK e : e = [version |-> 2, users |-> us, orgs |-> d.orgs, convs |-> d.convs,
                    threads |-> d.threads, links |-> d.links]
  OBVIOUS
<1>4. ASSUME NEW u \in Users, Exists(d, u)
      PROVE  /\ us[u] \in UserRow /\ us[u].email = d.users[u].email /\ us[u].admin = FALSE
             /\ us[u].org = IF d.users[u].org = None THEN o ELSE d.users[u].org
             /\ us[u].org \in d.orgs /\ us[u].org # None
  <2>1. PICK row : row = d.users[u] OBVIOUS
  <2>2. row \in UserRow BY <1>1, <1>4, <2>1, RowFacts
  <2>3. us[u] = [row EXCEPT !.admin = FALSE, !.org = IF row.org = None THEN o ELSE row.org]
    BY <1>2, <1>4, <2>1
  <2>4. PICK p : p = IF row.org = None THEN o ELSE row.org OBVIOUS
  <2>5. p \in d.orgs
    BY <1>1, <1>4, <2>1, <2>4 DEF UsersFit, DropSuperAdminOK
  <2>6. p \in Orgs /\ p # None BY <1>1, <2>5, MigrationsAssumption
  <2>7. us[u] = [row EXCEPT !.admin = FALSE, !.org = p] BY <2>3, <2>4
  <2>8. us[u] \in UserRow /\ us[u].email = row.email /\ us[u].admin = FALSE /\ us[u].org = p
    BY <2>2, <2>6, <2>7 DEF UserRow
  <2>9. QED BY <2>1, <2>4, <2>5, <2>6, <2>8
<1>5. us \in [Users -> UserRow \cup {None}] BY <1>2, <1>4
<1>6. /\ e \in Database
      /\ e.version = 2 /\ e.users = us /\ e.orgs = d.orgs /\ e.convs = d.convs
      /\ e.threads = d.threads /\ e.links = d.links
  BY <1>1, <1>3, <1>5 DEF Database, Head
<1>7. \A u \in Users : Exists(e, u) <=> Exists(d, u)
  <2>1. \A u \in Users : ~Exists(d, u) => us[u] = None BY <1>2
  <2>2. QED BY <1>1, <1>4, <1>6, <2>1, RowFacts DEF Exists
<1>8. UsersFit(e) BY <1>1, <1>4, <1>6, <1>7 DEF UsersFit
<1>9. ThreadsFit(e) BY <1>1, <1>6 DEF ThreadsFit, NoThreads
<1>10. e = DropSuperAdmin(d, o)
  <2>1. DropSuperAdmin(d, o) = [d EXCEPT !.version = 2, !.users = us] BY <1>2 DEF DropSuperAdmin
  <2>2. QED BY <1>1, <1>3, <2>1 DEF Database
<1>11. Kept(d, e) BY <1>4, <1>6, <1>7 DEF Kept
<1>12. QED BY <1>1, <1>6, <1>8, <1>9, <1>10, <1>11, Fits

\* The next revision up, or down, of rows that fit gives rows that fit, and keeps
\* the accounts unless it drops their table.
LEMMA UpgradedFits ==
  ASSUME NEW d, RowsFit(d), NEW e \in Upgraded(d)
  PROVE  RowsFit(e) /\ e.version = d.version + 1 /\ Kept(d, e)
<1>1. d \in Database /\ d.version \in 0..7 BY Fits DEF Database, Head
<1>2. CASE d.version \in {0, 1}
  <2>1. e = Empty(d.version + 1) /\ d = Empty(d.version)
    BY <1>2, Fits DEF Upgraded, CreateTables
  <2>2. d.version + 1 \in 0..Head BY <1>2 DEF Head
  <2>3. RowsFit(e) BY <2>1, <2>2, EmptyFits
  <2>4. e.version = d.version + 1 BY <2>1 DEF Empty
  <2>5. /\ \A u \in Users : ~Exists(d, u) /\ ~Exists(e, u)
        /\ d.orgs = e.orgs /\ d.convs = e.convs /\ \A t \in Threads : d.threads[t] = None
    BY <2>1 DEF Empty, Exists, NoUsers, NoThreads
  <2>6. Kept(d, e) BY <2>5 DEF Kept
  <2>7. QED BY <1>2, <2>3, <2>4, <2>6
<1>3. CASE d.version = 2
  <2>1. e = AddSuperAdmin(d) BY <1>3 DEF Upgraded
  <2>2. QED BY <1>3, <2>1, AddSuperAdminFits
<1>4. CASE d.version = 3
  <2>1. e = FixAddress(d) /\ FixAddressOK(d) BY <1>4 DEF Upgraded
  <2>2. PICK us : us = Readdress(d, Old, New) OBVIOUS
  <2>3. us \in [Users -> UserRow \cup {None}] BY <1>1, <2>2, ReaddressType, MigrationsAssumption
  <2>4. e = [d EXCEPT !.version = 4, !.users = us] BY <2>1, <2>2 DEF FixAddress
  <2>5. Revises(d, e, 4) /\ e.users = us /\ e.threads = d.threads /\ e.links = d.links
    <3>1. e = [version |-> 4, users |-> us, orgs |-> d.orgs,
                 convs |-> d.convs, threads |-> d.threads, links |-> d.links]
      BY <1>1, <2>4 DEF Database
    <3>2. QED BY <1>1, <2>3, <3>1 DEF Revises, Database, Head
  <2>6. 4 \in {3, 4} /\ d.version \in {3, 4} /\ <<Old, New>> \in {<<Old, New>>, <<New, Old>>}
    BY <1>4
  <2>7. RowsFit(e) /\ Kept(d, e) /\ e.version = 4
    BY <2>1, <2>2, <2>5, <2>6, ReaddressFits
  <2>8. QED BY <1>4, <2>7
<1>5. CASE d.version = 4
  <2>1. e = [d EXCEPT !.version = 5, !.threads = NoThreads]
    BY <1>5 DEF Upgraded, AddThreads
  <2>2. Revises(d, e, 5) /\ e.users = d.users /\ e.threads = NoThreads /\ e.links = d.links
    <3>1. e = [version |-> 5, users |-> d.users, orgs |-> d.orgs,
                 convs |-> d.convs, threads |-> NoThreads, links |-> d.links]
      BY <1>1, <2>1 DEF Database
    <3>2. QED BY <1>1, <3>1 DEF Revises, Database, Head, NoThreads
  <2>3. 5 \in {4, 5} /\ d.version \in {4, 5} /\ d.version # 5 BY <1>5
  <2>4. RowsFit(e) /\ Kept(d, e) /\ e.version = 5 BY <2>2, <2>3, NoThreadsFits
  <2>5. QED BY <1>5, <2>4
<1>6. CASE d.version = 5
  <2>1. e = AddContextUser(d) BY <1>6 DEF Upgraded
  <2>2. PICK ts : ts = [t \in Threads |->
              IF d.threads[t] = None THEN None
              ELSE [d.threads[t] EXCEPT !.ctx = IF 6 = 6 THEN d.threads[t].owner ELSE None]]
    OBVIOUS
  <2>3. ts \in [Threads -> ThreadRow \cup {None}] BY <1>1, <2>2, ContextType
  <2>4. e = [d EXCEPT !.version = 6, !.threads = ts] BY <2>1, <2>2 DEF AddContextUser
  <2>5. Revises(d, e, 6) /\ e.users = d.users /\ e.threads = ts /\ e.links = d.links
    <3>1. e = [version |-> 6, users |-> d.users, orgs |-> d.orgs,
                 convs |-> d.convs, threads |-> ts, links |-> d.links]
      BY <1>1, <2>4 DEF Database
    <3>2. QED BY <1>1, <2>3, <3>1 DEF Revises, Database, Head
  <2>6. 6 \in {5, 6} /\ d.version \in {5, 6} /\ d.version # 6 BY <1>6
  <2>7. RowsFit(e) /\ Kept(d, e) /\ e.version = 6 BY <2>2, <2>5, <2>6, ContextFits
  <2>8. QED BY <1>6, <2>7
<1>7. CASE d.version = 6
  <2>1. e = [d EXCEPT !.version = 7, !.links = {}] BY <1>7 DEF Upgraded, AddLinks
  <2>2. Revises(d, e, 7) /\ e.users = d.users /\ e.threads = d.threads /\ e.links = {}
    <3>1. e = [version |-> 7, users |-> d.users, orgs |-> d.orgs,
                 convs |-> d.convs, threads |-> d.threads, links |-> {}]
      BY <1>1, <2>1 DEF Database
    <3>2. QED BY <1>1, <3>1 DEF Revises, Database, Head
  <2>3. 7 \in {6, 7} /\ d.version \in {6, 7} /\ d.version # 7 BY <1>7
  <2>4. RowsFit(e) /\ Kept(d, e) /\ e.version = 7 BY <2>2, <2>3, LinksFits
  <2>5. QED BY <1>7, <2>4
<1>8. d.version # 7 BY DEF Upgraded
<1>9. QED BY <1>1, <1>2, <1>3, <1>4, <1>5, <1>6, <1>7, <1>8

LEMMA DowngradedFits ==
  ASSUME NEW d, RowsFit(d), NEW e \in Downgraded(d)
  PROVE  RowsFit(e) /\ e.version = d.version - 1 /\ (e.version >= 2 => Kept(d, e))
<1>1. d \in Database /\ d.version \in 0..7 BY Fits DEF Database, Head
<1>2. CASE d.version \in {1, 2}
  <2>1. e = Empty(d.version - 1) BY <1>2 DEF Downgraded, DropTables
  <2>2. d.version - 1 \in 0..Head BY <1>2 DEF Head
  <2>3. RowsFit(e) BY <2>1, <2>2, EmptyFits
  <2>4. e.version = d.version - 1 BY <2>1 DEF Empty
  <2>5. QED BY <1>2, <2>3, <2>4
<1>3. CASE d.version = 3
  <2>1. DropSuperAdminOK(d) BY <1>3 DEF Downgraded
  <2>2. PICK o \in d.orgs \cup (IF d.orgs = {} THEN {None} ELSE {}) : e = DropSuperAdmin(d, o)
    BY <1>3, <2>1 DEF Downgraded
  <2>3. o \in d.orgs \cup {None} /\ (d.orgs # {} => o \in d.orgs) BY <2>2
  <2>4. QED BY <1>3, <2>1, <2>2, <2>3, DropSuperAdminFits
<1>4. CASE d.version = 4
  <2>1. e = UnfixAddress(d) /\ FixAddressOK(d) BY <1>4 DEF Downgraded
  <2>2. PICK us : us = Readdress(d, New, Old) OBVIOUS
  <2>3. us \in [Users -> UserRow \cup {None}] BY <1>1, <2>2, ReaddressType, MigrationsAssumption
  <2>4. e = [d EXCEPT !.version = 3, !.users = us] BY <2>1, <2>2 DEF UnfixAddress
  <2>5. Revises(d, e, 3) /\ e.users = us /\ e.threads = d.threads /\ e.links = d.links
    <3>1. e = [version |-> 3, users |-> us, orgs |-> d.orgs,
                 convs |-> d.convs, threads |-> d.threads, links |-> d.links]
      BY <1>1, <2>4 DEF Database
    <3>2. QED BY <1>1, <2>3, <3>1 DEF Revises, Database, Head
  <2>6. 3 \in {3, 4} /\ d.version \in {3, 4} /\ <<New, Old>> \in {<<Old, New>>, <<New, Old>>}
    BY <1>4
  <2>7. RowsFit(e) /\ Kept(d, e) /\ e.version = 3
    BY <2>1, <2>2, <2>5, <2>6, ReaddressFits
  <2>8. QED BY <1>4, <2>7
<1>5. CASE d.version = 5
  <2>1. e = [d EXCEPT !.version = 4, !.threads = NoThreads]
    BY <1>5 DEF Downgraded, DropThreads
  <2>2. Revises(d, e, 4) /\ e.users = d.users /\ e.threads = NoThreads /\ e.links = d.links
    <3>1. e = [version |-> 4, users |-> d.users, orgs |-> d.orgs,
                 convs |-> d.convs, threads |-> NoThreads, links |-> d.links]
      BY <1>1, <2>1 DEF Database
    <3>2. QED BY <1>1, <3>1 DEF Revises, Database, Head, NoThreads
  <2>3. 4 \in {4, 5} /\ d.version \in {4, 5} /\ d.version # 4 BY <1>5
  <2>4. RowsFit(e) /\ Kept(d, e) /\ e.version = 4 BY <2>2, <2>3, NoThreadsFits
  <2>5. QED BY <1>5, <2>4
<1>6. CASE d.version = 6
  <2>1. e = DropContextUser(d) BY <1>6 DEF Downgraded
  <2>2. PICK ts : ts = [t \in Threads |->
              IF d.threads[t] = None THEN None
              ELSE [d.threads[t] EXCEPT !.ctx = IF 5 = 6 THEN d.threads[t].owner ELSE None]]
    OBVIOUS
  <2>3. ts \in [Threads -> ThreadRow \cup {None}] BY <1>1, <2>2, ContextType
  <2>4. e = [d EXCEPT !.version = 5, !.threads = ts] BY <2>1, <2>2 DEF DropContextUser
  <2>5. Revises(d, e, 5) /\ e.users = d.users /\ e.threads = ts /\ e.links = d.links
    <3>1. e = [version |-> 5, users |-> d.users, orgs |-> d.orgs,
                 convs |-> d.convs, threads |-> ts, links |-> d.links]
      BY <1>1, <2>4 DEF Database
    <3>2. QED BY <1>1, <2>3, <3>1 DEF Revises, Database, Head
  <2>6. 5 \in {5, 6} /\ d.version \in {5, 6} /\ d.version # 5 BY <1>6
  <2>7. RowsFit(e) /\ Kept(d, e) /\ e.version = 5 BY <2>2, <2>5, <2>6, ContextFits
  <2>8. QED BY <1>6, <2>7
<1>7. CASE d.version = 7
  <2>1. e = [d EXCEPT !.version = 6, !.links = {}] BY <1>7 DEF Downgraded, DropLinks
  <2>2. Revises(d, e, 6) /\ e.users = d.users /\ e.threads = d.threads /\ e.links = {}
    <3>1. e = [version |-> 6, users |-> d.users, orgs |-> d.orgs,
                 convs |-> d.convs, threads |-> d.threads, links |-> {}]
      BY <1>1, <2>1 DEF Database
    <3>2. QED BY <1>1, <3>1 DEF Revises, Database, Head
  <2>3. 6 \in {6, 7} /\ d.version \in {6, 7} /\ d.version # 6 BY <1>7
  <2>4. RowsFit(e) /\ Kept(d, e) /\ e.version = 6 BY <2>2, <2>3, LinksFits
  <2>5. QED BY <1>7, <2>4
<1>8. d.version # 0 BY DEF Downgraded
<1>9. QED BY <1>1, <1>2, <1>3, <1>4, <1>5, <1>6, <1>7, <1>8

(***************************************************************************)
(* Several revisions in one transaction.                                   *)
(***************************************************************************)
\* v is on the way from a to t.
Toward(a, v, t) == (a < v /\ v <= t) \/ (v < a /\ t <= v)

\* What two transactions or two revisions in one direction keep, they keep
\* together: an organization given below 003 stays, and threads are dropped once.
LEMMA KeptTogether ==
  ASSUME NEW b, NEW d, NEW e, RowsFit(b), RowsFit(d), RowsFit(e),
         Kept(b, d), Kept(d, e), e.version >= 2,
         \/ b.version <= d.version /\ d.version <= e.version
         \/ e.version <= d.version /\ d.version <= b.version
  PROVE  Kept(b, e)
<1>1. /\ b \in Database /\ d \in Database /\ e \in Database
      /\ b.version \in 0..7 /\ d.version \in 0..7 /\ e.version \in 0..7
  BY Fits DEF Database, Head
<1>2. ASSUME NEW u \in Users, Exists(b, u)
      PROVE  /\ Exists(e, u)
             /\ e.users[u].email = b.users[u].email \/ {e.users[u].email, b.users[u].email} = {Old, New}
             /\ b.users[u].org # None => e.users[u].org = b.users[u].org
             /\ b.users[u].org = None /\ e.users[u].org # None => e.version = 2
             /\ e.users[u].admin => b.users[u].admin
  <2>1. Exists(d, u) /\ Exists(e, u) BY <1>2 DEF Kept
  <2>2. \/ e.users[u].email = b.users[u].email
        \/ {e.users[u].email, b.users[u].email} = {Old, New}
    <3>1. \/ d.users[u].email = b.users[u].email
          \/ {d.users[u].email, b.users[u].email} = {Old, New}
      BY <1>2 DEF Kept
    <3>2. \/ e.users[u].email = d.users[u].email
          \/ {e.users[u].email, d.users[u].email} = {Old, New}
      BY <2>1 DEF Kept
    <3>3. ASSUME NEW x, NEW y, NEW z,
                 y = x \/ {y, x} = {Old, New}, z = y \/ {z, y} = {Old, New}
          PROVE  z = x \/ {z, x} = {Old, New}
      BY <3>3
    <3>4. QED BY <3>1, <3>2, <3>3
  <2>3. b.users[u].org # None => e.users[u].org = b.users[u].org BY <1>2, <2>1 DEF Kept
  <2>4. b.users[u].org = None /\ e.users[u].org # None => e.version = 2
    <3>1. SUFFICES ASSUME b.users[u].org = None, e.users[u].org # None, e.version # 2
                   PROVE  FALSE
      OBVIOUS
    <3>2. d.users[u].org # None BY <2>1, <3>1 DEF Kept
    <3>3. d.version = 2 BY <1>2, <3>1, <3>2 DEF Kept
    <3>4. b.version <= 2 BY <1>1, <3>1, <3>3
    <3>5. b.version # 2 BY <1>2, <3>1, Fits DEF UsersFit
    <3>6. b = Empty(b.version) BY <1>1, <3>4, <3>5, Fits
    <3>7. QED BY <1>2, <3>6 DEF Empty, Exists, NoUsers
  <2>5. e.users[u].admin => b.users[u].admin BY <1>2, <2>1 DEF Kept
  <2>6. QED BY <2>1, <2>2, <2>3, <2>4, <2>5
<1>3. \A u \in Users : Exists(e, u) => Exists(b, u) BY DEF Kept
<1>4. b.orgs = e.orgs /\ b.convs = e.convs BY DEF Kept
<1>5. ASSUME NEW t \in Threads, b.threads[t] # None, e.version >= 5
      PROVE  /\ e.threads[t] # None
             /\ e.threads[t].owner = b.threads[t].owner
             /\ e.threads[t].ctx \in {b.threads[t].ctx, b.threads[t].owner, None}
             /\ b.version >= 6 /\ e.version >= 6 => e.threads[t].ctx = b.threads[t].ctx
  <2>1. b.version >= 5
    <3>1. b.version < 5 => b.threads = NoThreads BY Fits DEF ThreadsFit
    <3>2. QED BY <1>1, <1>5, <3>1 DEF NoThreads
  <2>2. d.version >= 5 /\ (b.version >= 6 /\ e.version >= 6 => d.version >= 6)
    BY <1>1, <1>5, <2>1
  <2>3. /\ d.threads[t] # None
        /\ d.threads[t].owner = b.threads[t].owner
        /\ d.threads[t].ctx \in {b.threads[t].ctx, b.threads[t].owner, None}
        /\ b.version >= 6 /\ d.version >= 6 => d.threads[t].ctx = b.threads[t].ctx
    BY <1>5, <2>2 DEF Kept
  <2>4. /\ e.threads[t] # None
        /\ e.threads[t].owner = d.threads[t].owner
        /\ e.threads[t].ctx \in {d.threads[t].ctx, d.threads[t].owner, None}
        /\ d.version >= 6 /\ e.version >= 6 => e.threads[t].ctx = d.threads[t].ctx
    BY <1>5, <2>3 DEF Kept
  <2>5. QED BY <2>2, <2>3, <2>4
<1>6. QED BY <1>2, <1>3, <1>4, <1>5 DEF Kept

(***************************************************************************)
(* The inductive invariant.                                                *)
(***************************************************************************)
MigrationsTypes ==
  /\ db \in Database
  /\ work \in [by : Migrators \cup {None}, db : Database]
  /\ pc \in [Migrators -> {"down", "migrating", "serving"}]
  /\ goal \in 0..Head

\* The open transaction is of one who migrates, has come from the committed
\* version towards its target and kept the accounts.
WorkInv ==
  IF Open
  THEN /\ pc[work.by] = "migrating"
       /\ Toward(db.version, work.db.version, Target(work.by))
       /\ work.db.version >= 2 => Kept(db, work.db)
  ELSE work = NoWork

MigrationsInv == MigrationsTypes /\ RowsFitSchema /\ WorkInv

LEMMA InitMigrations == Init => MigrationsInv
<1>1. SUFFICES ASSUME Init PROVE MigrationsInv OBVIOUS
<1>2. PICK v \in 0..Head : db = Empty(v) BY <1>1 DEF Init
<1>3. RowsFit(db) BY <1>2, EmptyFits
<1>4. ~Open BY <1>1 DEF Init, NoWork, Open
<1>5. Empty(0) \in Database BY EmptyFits, Fits DEF Head
<1>6. MigrationsTypes
  <2>1. work \in [by : Migrators \cup {None}, db : Database]
    BY <1>1, <1>5 DEF Init, NoWork
  <2>2. db \in Database BY <1>3, Fits
  <2>3. QED BY <1>1, <2>1, <2>2 DEF MigrationsTypes, Init, Head
<1>7. WorkInv BY <1>1, <1>4 DEF WorkInv, Init
<1>8. QED BY <1>3, <1>4, <1>6, <1>7 DEF MigrationsInv, RowsFitSchema

\* Without accounts there is nothing to keep.
LEMMA EmptyKept ==
  ASSUME NEW v, NEW w
  PROVE  Kept(Empty(v), Empty(w))
  BY DEF Kept, Empty, Exists, NoUsers, NoThreads

LEMMA Somebody == /\ None \notin Migrators
                  /\ \A c \in Containers : c \in Migrators /\ c # Operator
                  /\ Operator \in Migrators
  BY MigrationsAssumption DEF Migrators

LEMMA NoWorkType == NoWork \in [by : Migrators \cup {None}, db : Database]
<1>1. Empty(0) \in Database BY EmptyFits, Fits DEF Head
<1>2. QED BY <1>1 DEF NoWork

\* A step that leaves the committed rows, and the transaction or its absence.
LEMMA Stays ==
  ASSUME MigrationsInv, MigrationsTypes', db' = db,
         \/ work' = NoWork
         \/ /\ work' = work
            /\ Open => /\ pc'[work.by] = "migrating"
                       /\ work.by = Operator => goal' = goal
  PROVE  MigrationsInv'
<1>1. CASE work' = NoWork
  <2>1. ~Open' BY <1>1 DEF Open, NoWork
  <2>2. QED BY <1>1, <2>1 DEF MigrationsInv, RowsFitSchema, WorkInv
<1>2. CASE /\ work' = work
           /\ Open => /\ pc'[work.by] = "migrating"
                      /\ work.by = Operator => goal' = goal
  <2>1. Open' <=> Open BY <1>2 DEF Open
  <2>2. RowsFitSchema' BY <1>2, <2>1 DEF MigrationsInv, RowsFitSchema
  <2>3. ASSUME Open PROVE WorkInv'
    <3>1. Target(work.by)' = Target(work.by) BY <1>2, <2>3 DEF Target
    <3>2. QED BY <1>2, <2>1, <2>3, <3>1 DEF MigrationsInv, WorkInv
  <2>4. ASSUME ~Open PROVE WorkInv' BY <1>2, <2>1, <2>4 DEF MigrationsInv, WorkInv
  <2>5. QED BY <2>2, <2>3, <2>4 DEF MigrationsInv
<1>3. QED BY <1>1, <1>2

\* Who is not migrating has no transaction.
LEMMA NotMine ==
  ASSUME MigrationsInv, NEW m \in Migrators, pc[m] # "migrating"
  PROVE  Open => work.by # m
  BY DEF MigrationsInv, WorkInv

LEMMA BeginsKeep ==
  ASSUME MigrationsInv, NEW m \in Migrators, Begin(m), UNCHANGED <<db, work>>,
         IF m = Operator THEN goal' \in 0..Head ELSE goal' = goal
  PROVE  MigrationsInv'
<1>1. pc[m] = "down" /\ pc' = [pc EXCEPT ![m] = "migrating"] BY DEF Begin
<1>2. Open => work.by # m BY <1>1, NotMine
<1>3. MigrationsTypes'
  BY <1>1 DEF MigrationsInv, MigrationsTypes
<1>4. Open => work.by \in Migrators BY DEF MigrationsInv, MigrationsTypes, Open
<1>5. Open => pc'[work.by] = "migrating" /\ (work.by = Operator => goal' = goal)
  BY <1>1, <1>2, <1>4 DEF MigrationsInv, MigrationsTypes, WorkInv
<1>6. QED BY <1>3, <1>5, Stays

\* Who ends has no transaction afterwards.
LEMMA EndsKeep ==
  ASSUME MigrationsInv, NEW m \in Migrators, NEW state \in {"down", "serving"}, End(m, state),
         db' = db,
         work' = NoWork \/ (work' = work /\ work.by # m)
  PROVE  MigrationsInv'
<1>1. /\ pc' = [pc EXCEPT ![m] = state]
      /\ goal' = IF m = Operator THEN 0 ELSE goal
  BY DEF End
<1>2. MigrationsTypes'
  <2>1. pc' \in [Migrators -> {"down", "migrating", "serving"}]
    BY <1>1 DEF MigrationsInv, MigrationsTypes
  <2>2. goal' \in 0..Head BY <1>1 DEF MigrationsInv, MigrationsTypes, Head
  <2>3. work' \in [by : Migrators \cup {None}, db : Database]
    BY NoWorkType DEF MigrationsInv, MigrationsTypes
  <2>4. QED BY <2>1, <2>2, <2>3 DEF MigrationsInv, MigrationsTypes
<1>3. Open => work.by \in Migrators BY DEF MigrationsInv, MigrationsTypes, Open
<1>4. work.by # m /\ Open => pc'[work.by] = "migrating" /\ (work.by = Operator => goal' = goal)
  BY <1>1, <1>3 DEF MigrationsInv, MigrationsTypes, WorkInv
<1>5. QED BY <1>2, <1>4, Stays

LEMMA RollbackKeeps ==
  ASSUME MigrationsInv, NEW m \in Migrators, Rollback(m)
  PROVE  MigrationsInv'
<1>1. End(m, "down") /\ db' = db /\ (work' = NoWork \/ (work' = work /\ work.by # m))
  BY DEF Rollback
<1>2. QED BY <1>1, EndsKeep

\* A revision of rows that are still those it was begun on.
LEMMA RunRevisionKeeps ==
  ASSUME MigrationsInv, NEW m \in Migrators, RunRevision(m)
  PROVE  MigrationsInv'
<1>1. PICK b : b = Mine(m) OBVIOUS
<1>2. PICK g : g = Target(m) OBVIOUS
<1>3. PICK e \in Revised(b, g) : work' = [by |-> m, db |-> e]
  BY <1>1, <1>2 DEF RunRevision
<1>4. /\ db' = db /\ pc' = pc /\ goal' = goal
      /\ pc[m] = "migrating" /\ b.version # g
      /\ Open => work.by = m
  BY <1>1, <1>2 DEF RunRevision, MayRevise
<1>5. RowsFit(b) /\ b \in Database /\ b.version \in 0..7
  BY <1>1, Fits DEF MigrationsInv, RowsFitSchema, Mine, Database, Head
<1>6. g \in 0..7 BY <1>2 DEF Target, MigrationsInv, MigrationsTypes, Head
<1>7. /\ RowsFit(e)
      /\ IF b.version < g THEN e.version = b.version + 1 ELSE e.version = b.version - 1
      /\ e.version >= 2 => Kept(b, e)
  <2>1. CASE b.version < g
    <3>1. e \in Upgraded(b) BY <1>3, <2>1 DEF Revised
    <3>2. QED BY <1>5, <2>1, <3>1, UpgradedFits
  <2>2. CASE ~(b.version < g)
    <3>1. e \in Downgraded(b) BY <1>3, <2>2 DEF Revised
    <3>2. QED BY <1>5, <2>2, <3>1, DowngradedFits
  <2>3. QED BY <2>1, <2>2
<1>8. e \in Database BY <1>7, Fits
<1>9. RowsFit(db) /\ db \in Database /\ db.version \in 0..7
  BY Fits DEF MigrationsInv, RowsFitSchema, Database, Head
<1>10. /\ Toward(db.version, e.version, g)
       /\ e.version >= 2 => Kept(db, e)
  <2>1. CASE ~Open
    <3>1. b = db BY <1>1, <2>1 DEF Mine
    <3>2. Toward(db.version, e.version, g) BY <1>4, <1>5, <1>6, <1>7, <3>1 DEF Toward
    <3>3. QED BY <1>7, <3>1, <3>2
  <2>2. CASE Open
    <3>1. b = work.db BY <1>1, <2>2 DEF Mine
    <3>2. Toward(db.version, b.version, g) /\ (b.version >= 2 => Kept(db, b))
      BY <1>2, <1>4, <2>2, <3>1 DEF MigrationsInv, WorkInv
    <3>3. Toward(db.version, e.version, g)
      BY <1>4, <1>5, <1>6, <1>7, <1>9, <3>2 DEF Toward
    <3>4. \/ db.version <= b.version /\ b.version <= e.version
          \/ e.version <= b.version /\ b.version <= db.version
      BY <1>4, <1>5, <1>6, <1>7, <1>9, <3>2 DEF Toward
    <3>5. ASSUME e.version >= 2 PROVE Kept(db, e)
      <4>1. Kept(b, e) BY <1>7, <3>5
      <4>2. CASE b.version >= 2 BY <1>5, <1>7, <1>9, <3>2, <3>4, <3>5, <4>1, <4>2, KeptTogether
      <4>3. CASE b.version < 2
        <5>1. db.version < 2 BY <1>5, <1>7, <1>9, <3>4, <3>5, <4>3
        <5>2. db = Empty(db.version) /\ b = Empty(b.version) BY <1>5, <1>9, <4>3, <5>1, Fits
        <5>3. Kept(db, b) BY <5>2, EmptyKept
        <5>4. QED BY <1>5, <1>7, <1>9, <3>4, <3>5, <4>1, <5>3, KeptTogether
      <4>4. QED BY <1>5, <4>2, <4>3
    <3>6. QED BY <3>3, <3>5
  <2>3. QED BY <2>1, <2>2
<1>11. work'.by = m /\ work'.db = e BY <1>3
<1>12. Open' BY <1>11, Somebody DEF Open
<1>13. MigrationsTypes' BY <1>3, <1>4, <1>8 DEF MigrationsInv, MigrationsTypes
<1>14. RowsFitSchema' BY <1>4, <1>7, <1>9, <1>11 DEF RowsFitSchema
<1>15. WorkInv'
  <2>1. Target(m)' = g BY <1>2, <1>4 DEF Target
  <2>2. QED BY <1>4, <1>10, <1>11, <1>12, <2>1 DEF WorkInv
<1>16. QED BY <1>13, <1>14, <1>15 DEF MigrationsInv

LEMMA CommitKeeps ==
  ASSUME MigrationsInv, NEW m \in Migrators, Commit(m)
  PROVE  /\ MigrationsInv'
         /\ db' = db \/ (db' = work.db /\ Open)
<1>1. m \in Containers \/ m = Operator BY DEF Migrators
<1>2. PICK state \in {"down", "serving"} : End(m, state) BY DEF Commit
<1>3. CASE work.by = m /\ db' = work.db /\ work' = NoWork
  <2>1. Open BY <1>3, Somebody DEF Open
  <2>2. RowsFit(db') BY <1>3, <2>1 DEF MigrationsInv, RowsFitSchema
  <2>3. ~Open' BY <1>3 DEF Open, NoWork
  <2>4. MigrationsTypes'
    <3>1. pc' \in [Migrators -> {"down", "migrating", "serving"}]
      BY <1>2 DEF End, MigrationsInv, MigrationsTypes
    <3>2. goal' \in 0..Head BY <1>2 DEF End, MigrationsInv, MigrationsTypes, Head
    <3>3. db' \in Database BY <2>2, Fits
    <3>4. QED BY <1>3, <3>1, <3>2, <3>3, NoWorkType DEF MigrationsTypes
  <2>5. QED BY <1>3, <2>1, <2>2, <2>3, <2>4 DEF MigrationsInv, RowsFitSchema, WorkInv
<1>4. CASE work.by # m /\ UNCHANGED <<db, work>>
  BY <1>2, <1>4, EndsKeep
<1>5. QED BY <1>3, <1>4 DEF Commit

(***************************************************************************)
(* Rows written meanwhile.                                                 *)
(***************************************************************************)
\* What a write has to show: the rows still fit, and so do those the open
\* transaction will leave, which still keep the accounts.
LEMMA WriteKeeps ==
  ASSUME MigrationsInv, NEW d, NEW e, Write(d, e), RowsFit(d), d.version = db.version,
         Open => RowsFit(e) /\ e.version = work.db.version /\ Kept(d, e)
  PROVE  MigrationsInv' /\ db'.version = db.version
<1>1. db' = d /\ pc' = pc /\ goal' = goal BY DEF Write
<1>2. d \in Database BY Fits
<1>3. CASE ~Open
  <2>1. work' = work BY <1>3 DEF Write
  <2>2. ~Open' BY <1>3, <2>1 DEF Open
  <2>3. MigrationsTypes' BY <1>1, <1>2, <2>1 DEF MigrationsInv, MigrationsTypes
  <2>4. RowsFitSchema' BY <1>1, <2>2 DEF RowsFitSchema
  <2>5. WorkInv' BY <1>3, <2>1, <2>2 DEF MigrationsInv, WorkInv
  <2>6. QED BY <1>1, <2>3, <2>4, <2>5 DEF MigrationsInv
<1>4. CASE Open
  <2>1. work \in [by : Migrators \cup {None}, db : Database] BY DEF MigrationsInv, MigrationsTypes
  <2>2. e \in Database BY <1>4, Fits
  <2>3. work' = [work EXCEPT !.db = e] BY <1>4 DEF Write
  <2>4. /\ work' \in [by : Migrators \cup {None}, db : Database]
        /\ work'.by = work.by /\ work'.db = e
    BY <2>1, <2>2, <2>3
  <2>5. Open' BY <1>4, <2>4 DEF Open
  <2>6. MigrationsTypes' BY <1>1, <1>2, <2>4 DEF MigrationsInv, MigrationsTypes
  <2>7. RowsFitSchema' BY <1>1, <1>4, <2>4 DEF RowsFitSchema
  <2>8. Target(work.by)' = Target(work.by) BY <1>1, <2>4 DEF Target
  <2>9. pc[work.by] = "migrating" /\ Toward(db.version, work.db.version, Target(work.by))
    BY <1>4 DEF MigrationsInv, WorkInv
  <2>10. WorkInv' BY <1>1, <1>4, <2>4, <2>5, <2>8, <2>9 DEF WorkInv
  <2>11. QED BY <1>1, <2>6, <2>7, <2>10 DEF MigrationsInv
<1>5. QED BY <1>3, <1>4

\* Both ends of what the open transaction has run.
LEMMA RanEnds ==
  ASSUME MigrationsInv, Open
  PROVE  /\ db.version \in 0..7 /\ work.db.version \in 0..7
         /\ Forward => /\ db.version < work.db.version
                       /\ db.version + 1 \in Ran /\ work.db.version \in Ran
         /\ ~Forward => /\ work.db.version < db.version
                        /\ db.version \in Ran /\ work.db.version + 1 \in Ran
         /\ \A r \in 1..7 : work.db.version < r /\ r <= db.version => r \in Ran
<1>1. db.version \in 0..7 /\ work.db.version \in 0..7
  BY DEF MigrationsInv, MigrationsTypes, Database, Head
<1>2. db.version # work.db.version BY <1>1 DEF MigrationsInv, WorkInv, Toward
<1>3. QED BY <1>1, <1>2 DEF Ran, Forward, Head

\* While a table can be referred to, the open transaction has dropped none, and
\* kept what is in them.
LEMMA TablesStand ==
  ASSUME MigrationsInv, Open, db.version >= 2, NEW table \in Tables, Checkable(table)
  PROVE  RowsFit(work.db) /\ work.db \in Database /\ work.db.version >= 2 /\ Kept(db, work.db)
<1>1. RowsFit(work.db) /\ work.db \in Database BY Fits DEF MigrationsInv, RowsFitSchema
<1>2. work.db.version >= 2
  <2>1. CASE Forward BY <2>1, RanEnds
  <2>2. CASE ~Forward
    <3>1. work.db.version + 1 \in Ran /\ work.db.version \in 0..7 BY <2>2, RanEnds
    <3>2. ASSUME work.db.version + 1 \in {1, 2} PROVE FALSE
      <4>1. Altered(work.db.version + 1, Forward) = Tables BY <2>2, <3>2 DEF Altered
      <4>2. QED BY <3>1, <4>1 DEF Checkable
    <3>3. QED BY <3>1, <3>2
  <2>3. QED BY <2>1, <2>2
<1>3. QED BY <1>1, <1>2 DEF MigrationsInv, WorkInv

\* Only 004 leaves the users open to writes.
LEMMA OnlyAddresses ==
  ASSUME MigrationsInv, Open, db.version >= 2, Writable("users")
  PROVE  db.version \in {3, 4} /\ work.db.version \in {3, 4}
<1>1. \A r \in Ran : r \in 1..7 /\ r \notin {3, 5, 6, 7} /\ (~Forward => r \notin {1, 2})
  BY DEF Writable, Checkable, Altered, Referenced, Ran, Tables, Head
<1>2. QED BY <1>1, RanEnds

LEMMA SetUserFits ==
  ASSUME NEW d, RowsFit(d), d.version >= 2, NEW u \in Users, NEW row \in UserRow \cup {None},
         row # None =>
           /\ \A v \in Users \ {u} : Exists(d, v) => d.users[v].email # row.email
           /\ row.org \in d.orgs \cup {None}
           /\ d.version = 2 => row.org # None
           /\ row.admin => row.org = None /\ d.version >= 3,
         row = None =>
           /\ u \notin d.links /\ \A o \in Orgs : <<u, o>> \notin d.convs
           /\ \A t \in Threads : d.threads[t] # None => u \notin {d.threads[t].owner, d.threads[t].ctx},
         NEW e, e = SetUser(d, u, row)
  PROVE  /\ RowsFit(e) /\ e.version = d.version /\ e.orgs = d.orgs /\ e.convs = d.convs
         /\ e.users = [d.users EXCEPT ![u] = row] /\ e.threads = d.threads
<1>1. d \in Database /\ UsersFit(d) /\ ThreadsFit(d) /\ (d.version < 7 => d.links = {})
  BY Fits
<1>2. PICK us : us = [d.users EXCEPT ![u] = row] OBVIOUS
<1>3. us \in [Users -> UserRow \cup {None}] BY <1>1, <1>2 DEF Database
<1>4. e = [version |-> d.version, users |-> us, orgs |-> d.orgs,
           convs |-> d.convs, threads |-> d.threads, links |-> d.links]
  BY <1>1, <1>2 DEF Database, SetUser
<1>5. e \in Database BY <1>1, <1>3, <1>4 DEF Database
<1>6. /\ e.version = d.version /\ e.orgs = d.orgs /\ e.convs = d.convs
      /\ e.users = us /\ e.threads = d.threads /\ e.links = d.links
  BY <1>4
<1>7. \A v \in Users : us[v] = IF v = u THEN row ELSE d.users[v] BY <1>1, <1>2 DEF Database
<1>8. /\ \A v \in Users : v # u => (Exists(e, v) <=> Exists(d, v))
      /\ Exists(e, u) <=> row # None
  BY <1>6, <1>7 DEF Exists
<1>9. UsersFit(e)
  <2>1. ASSUME NEW v \in Users, NEW w \in Users, Exists(e, v), Exists(e, w),
               us[v].email = us[w].email, v # w
        PROVE  FALSE
    <3>1. CASE v = u
      <4>1. Exists(d, w) /\ d.users[w].email = row.email /\ row # None BY <1>7, <1>8, <2>1, <3>1
      <4>2. QED BY <2>1, <3>1, <4>1
    <3>2. CASE w = u
      <4>1. Exists(d, v) /\ d.users[v].email = row.email /\ row # None BY <1>7, <1>8, <2>1, <3>2
      <4>2. QED BY <2>1, <3>2, <4>1
    <3>3. CASE v # u /\ w # u
      <4>1. Exists(d, v) /\ Exists(d, w) /\ d.users[v].email = d.users[w].email
        BY <1>7, <1>8, <2>1, <3>3
      <4>2. QED BY <1>1, <2>1, <4>1 DEF UsersFit
    <3>4. QED BY <3>1, <3>2, <3>3
  <2>2. ASSUME NEW v \in Users, Exists(e, v)
        PROVE  /\ us[v].org \in d.orgs \cup {None}
               /\ d.version = 2 => us[v].org # None
               /\ us[v].admin => us[v].org = None /\ d.version >= 3
    <3>1. CASE v = u BY <1>7, <1>8, <2>2, <3>1
    <3>2. CASE v # u
      <4>1. Exists(d, v) /\ us[v] = d.users[v] BY <1>7, <1>8, <2>2, <3>2
      <4>2. QED BY <1>1, <4>1 DEF UsersFit
    <3>3. QED BY <3>1, <3>2
  <2>3. \A v \in Users :
          /\ v \in d.links => Exists(e, v)
          /\ \A o \in Orgs : <<v, o>> \in d.convs => Exists(e, v) /\ o \in d.orgs
    BY <1>1, <1>8 DEF UsersFit
  <2>4. QED BY <1>6, <2>1, <2>2, <2>3 DEF UsersFit
<1>10. ThreadsFit(e)
  <2>1. ASSUME NEW t \in Threads, d.threads[t] # None
        PROVE  /\ Exists(e, d.threads[t].owner)
               /\ IF d.version = 5 THEN d.threads[t].ctx = None
                  ELSE d.threads[t].ctx # None /\ Exists(e, d.threads[t].ctx)
    <3>1. d.threads[t] \in ThreadRow BY <1>1, <2>1, RowFacts
    <3>2. d.threads[t].owner \in Users /\ d.threads[t].ctx \in Users \cup {None}
      BY <3>1 DEF ThreadRow
    <3>3. QED BY <1>1, <1>8, <2>1, <3>2 DEF ThreadsFit
  <2>2. QED BY <1>1, <1>6, <2>1 DEF ThreadsFit
<1>11. ~(d.version < 2) BY <1>1 DEF Database, Head
<1>12. RowsFit(e) BY <1>1, <1>5, <1>6, <1>9, <1>10, <1>11, Fits
<1>13. QED BY <1>2, <1>6, <1>12

\* The same row written for a user on both sides, or removed from both.
LEMMA SameRowKept ==
  ASSUME NEW d \in Database, NEW e \in Database, Kept(d, e),
         NEW u \in Users, NEW row \in UserRow \cup {None},
         NEW dd, NEW ee,
         dd.users = [d.users EXCEPT ![u] = row], ee.users = [e.users EXCEPT ![u] = row],
         dd.orgs = d.orgs, ee.orgs = e.orgs, dd.convs = d.convs, ee.convs = e.convs,
         dd.threads = d.threads, ee.threads = e.threads,
         dd.version = d.version, ee.version = e.version
  PROVE  Kept(dd, ee)
<1>1. \A v \in Users : /\ dd.users[v] = IF v = u THEN row ELSE d.users[v]
                       /\ ee.users[v] = IF v = u THEN row ELSE e.users[v]
  BY DEF Database
<1>2. \A v \in Users : v # u => (Exists(dd, v) <=> Exists(d, v)) /\ (Exists(ee, v) <=> Exists(e, v))
  BY <1>1 DEF Exists
<1>3. Exists(dd, u) <=> Exists(ee, u) BY <1>1 DEF Exists
<1>4. ASSUME NEW v \in Users, Exists(dd, v)
      PROVE  /\ Exists(ee, v)
             /\ ee.users[v].email = dd.users[v].email \/ {ee.users[v].email, dd.users[v].email} = {Old, New}
             /\ dd.users[v].org # None => ee.users[v].org = dd.users[v].org
             /\ dd.users[v].org = None /\ ee.users[v].org # None => ee.version = 2
             /\ ee.users[v].admin => dd.users[v].admin
  <2>1. CASE v = u BY <1>1, <1>3, <1>4, <2>1
  <2>2. CASE v # u
    <3>1. dd.users[v] = d.users[v] /\ ee.users[v] = e.users[v] BY <1>1, <2>2
    <3>2. Exists(d, v) BY <1>2, <1>4, <2>2
    <3>3. Exists(ee, v) BY <1>2, <2>2, <3>2 DEF Kept
    <3>4. QED BY <3>1, <3>2, <3>3 DEF Kept
  <2>3. QED BY <2>1, <2>2
<1>5. \A v \in Users : Exists(ee, v) => Exists(dd, v) BY <1>2, <1>3 DEF Kept
<1>6. dd.orgs = ee.orgs /\ dd.convs = ee.convs BY DEF Kept
<1>7. \A t \in Threads :
        dd.threads[t] # None /\ ee.version >= 5 =>
          /\ ee.threads[t] # None
          /\ ee.threads[t].owner = dd.threads[t].owner
          /\ ee.threads[t].ctx \in {dd.threads[t].ctx, dd.threads[t].owner, None}
          /\ dd.version >= 6 /\ ee.version >= 6 => ee.threads[t].ctx = dd.threads[t].ctx
  BY DEF Kept
<1>8. QED BY <1>4, <1>5, <1>6, <1>7 DEF Kept

\* A row of the users, new, changed or removed, next to nothing but 004.
LEMMA UserWritten ==
  ASSUME MigrationsInv, db.version >= 2, Writable("users"),
         NEW u \in Users, NEW row \in UserRow \cup {None},
         Write(SetUser(db, u, row), SetUser(work.db, u, row)),
         row # None =>
           /\ \A v \in Users \ {u} : Exists(db, v) => db.users[v].email # row.email
           /\ Open => \A v \in Users \ {u} : Exists(work.db, v) => work.db.users[v].email # row.email
           /\ row.org \in Membership
           /\ row.admin => row.org = None /\ db.version >= 3,
         row = None =>
           /\ u \notin db.links /\ \A o \in Orgs : <<u, o>> \notin db.convs
           /\ \A t \in Threads : db.threads[t] # None => u \notin {db.threads[t].owner, db.threads[t].ctx}
  PROVE  MigrationsInv' /\ db'.version = db.version
<1>1. RowsFit(db) /\ db \in Database BY Fits DEF MigrationsInv, RowsFitSchema
<1>2. row # None => row.org \in db.orgs \cup {None} /\ (db.version = 2 => row.org # None)
  <2>1. None \notin db.orgs BY <1>1, MigrationsAssumption DEF Database
  <2>2. QED BY <2>1 DEF Membership
<1>3. PICK d : d = SetUser(db, u, row) OBVIOUS
<1>4. PICK e : e = SetUser(work.db, u, row) OBVIOUS
<1>5. /\ RowsFit(d) /\ d.version = db.version /\ d.orgs = db.orgs /\ d.convs = db.convs
      /\ d.users = [db.users EXCEPT ![u] = row] /\ d.threads = db.threads
  BY <1>1, <1>2, <1>3, SetUserFits
<1>6. ASSUME Open PROVE RowsFit(e) /\ e.version = work.db.version /\ Kept(d, e)
  <2>1. db.version \in {3, 4} /\ work.db.version \in {3, 4} BY <1>6, OnlyAddresses
  <2>2. RowsFit(work.db) /\ work.db \in Database /\ Kept(db, work.db)
    BY <1>6, TablesStand DEF Writable, Tables
  <2>3. work.db.orgs = db.orgs /\ work.db.convs = db.convs BY <2>2 DEF Kept
  <2>4. work.db.links = {} /\ work.db.threads = NoThreads BY <2>1, <2>2, Fits DEF ThreadsFit
  <2>5. row # None =>
          /\ row.org \in work.db.orgs \cup {None}
          /\ work.db.version = 2 => row.org # None
          /\ row.admin => row.org = None /\ work.db.version >= 3
    BY <1>2, <2>1, <2>3
  <2>6. row = None =>
          /\ u \notin work.db.links /\ \A o \in Orgs : <<u, o>> \notin work.db.convs
          /\ \A t \in Threads : work.db.threads[t] # None =>
               u \notin {work.db.threads[t].owner, work.db.threads[t].ctx}
    BY <2>3, <2>4 DEF NoThreads
  <2>7. work.db.version >= 2 BY <2>1
  <2>8. /\ RowsFit(e) /\ e.version = work.db.version /\ e.orgs = work.db.orgs
        /\ e.convs = work.db.convs
        /\ e.users = [work.db.users EXCEPT ![u] = row] /\ e.threads = work.db.threads
    BY <1>4, <1>6, <2>2, <2>5, <2>6, <2>7, SetUserFits
  <2>9. Kept(d, e) BY <1>1, <1>5, <2>2, <2>8, SameRowKept
  <2>10. QED BY <2>8, <2>9
<1>7. QED BY <1>3, <1>4, <1>5, <1>6, WriteKeeps

LEMMA UnusedByOthers ==
  ASSUME NEW email, Unused(email), NEW u \in Users
  PROVE  /\ \A v \in Users \ {u} : Exists(db, v) => db.users[v].email # email
         /\ Open => \A v \in Users \ {u} : Exists(work.db, v) => work.db.users[v].email # email
  BY DEF Unused, HasAddress

LEMMA InsertUserKeeps ==
  ASSUME MigrationsInv, NEW u \in Users, NEW row \in UserRow, InsertUser(u, row)
  PROVE  MigrationsInv' /\ db'.version = db.version
<1>1. /\ db.version >= 2 /\ Writable("users") /\ Unused(row.email) /\ row.org \in Membership
      /\ row.admin => row.org = None /\ db.version >= 3
      /\ Write(SetUser(db, u, row), SetUser(work.db, u, row))
  BY DEF InsertUser
<1>2. row # None BY MigrationsAssumption DEF UserRow
<1>3. QED BY <1>1, <1>2, UnusedByOthers, UserWritten

LEMMA AssignUserKeeps ==
  ASSUME MigrationsInv, NEW u \in Users, NEW o \in Orgs \cup {None}, AssignUser(u, o)
  PROVE  MigrationsInv' /\ db'.version = db.version
<1>1. PICK row : row = [db.users[u] EXCEPT !.org = o] OBVIOUS
<1>2. /\ db.version >= 2 /\ Writable("users") /\ Exists(db, u) /\ Free(u)
      /\ ~db.users[u].admin /\ o \in Membership
      /\ Write(SetUser(db, u, row), SetUser(work.db, u, row))
  BY <1>1 DEF AssignUser
<1>3. UsersFit(db) /\ db \in Database BY Fits DEF MigrationsInv, RowsFitSchema
<1>4. db.users[u] \in UserRow BY <1>2, <1>3, RowFacts
<1>5. row \in UserRow /\ row.email = db.users[u].email /\ row.org = o /\ ~row.admin
  BY <1>1, <1>2, <1>4 DEF UserRow
<1>6. \A v \in Users \ {u} : Exists(db, v) => db.users[v].email # row.email
  BY <1>2, <1>3, <1>5 DEF UsersFit
<1>7. ASSUME Open
      PROVE  \A v \in Users \ {u} : Exists(work.db, v) => work.db.users[v].email # row.email
  <2>1. UsersFit(work.db) BY <1>7, Fits DEF MigrationsInv, RowsFitSchema
  <2>2. work.db.users[u] = db.users[u] /\ Exists(work.db, u) BY <1>2, <1>7 DEF Free, Exists
  <2>3. QED BY <1>5, <2>1, <2>2 DEF UsersFit
<1>8. row # None BY <1>5, MigrationsAssumption DEF UserRow
<1>9. QED BY <1>2, <1>5, <1>6, <1>7, <1>8, UserWritten

LEMMA EditAddressKeeps ==
  ASSUME MigrationsInv, NEW u \in Users, NEW email \in Addresses, EditAddress(u, email)
  PROVE  MigrationsInv' /\ db'.version = db.version
<1>1. PICK row : row = [db.users[u] EXCEPT !.email = email] OBVIOUS
<1>2. /\ db.version >= 2 /\ Writable("users") /\ Exists(db, u) /\ Unused(email)
      /\ Write(SetUser(db, u, row), SetUser(work.db, u, row))
  BY <1>1 DEF EditAddress
<1>3. UsersFit(db) /\ db \in Database BY Fits DEF MigrationsInv, RowsFitSchema
<1>4. db.users[u] \in UserRow BY <1>2, <1>3, RowFacts
<1>5. /\ row \in UserRow /\ row.email = email /\ row.org = db.users[u].org
      /\ row.admin = db.users[u].admin
  BY <1>1, <1>4 DEF UserRow
<1>6. row.org \in Membership /\ (row.admin => row.org = None /\ db.version >= 3)
  BY <1>2, <1>3, <1>5 DEF UsersFit, Membership
<1>7. row # None BY <1>5, MigrationsAssumption DEF UserRow
<1>8. QED BY <1>2, <1>5, <1>6, <1>7, UnusedByOthers, UserWritten

LEMMA DeleteUserKeeps ==
  ASSUME MigrationsInv, NEW u \in Users, DeleteUser(u)
  PROVE  MigrationsInv' /\ db'.version = db.version
  BY UserWritten DEF DeleteUser

\* Another set of organizations, with every one that is referred to.
LEMMA SetOrgsFits ==
  ASSUME NEW d, RowsFit(d), d.version >= 2, NEW orgs \in SUBSET Orgs,
         \A u \in Users : Exists(d, u) => d.users[u].org \in orgs \cup {None},
         \A u \in Users, o \in Orgs : <<u, o>> \in d.convs => o \in orgs,
         NEW e, e = SetOrgs(d, orgs)
  PROVE  /\ RowsFit(e) /\ e.version = d.version /\ e.orgs = orgs
         /\ e.convs = d.convs /\ e.users = d.users /\ e.threads = d.threads
<1>1. d \in Database /\ UsersFit(d) /\ ThreadsFit(d) /\ (d.version < 7 => d.links = {})
  BY Fits
<1>2. e = [version |-> d.version, users |-> d.users, orgs |-> orgs,
           convs |-> d.convs, threads |-> d.threads, links |-> d.links]
  BY <1>1 DEF Database, SetOrgs
<1>3. e \in Database BY <1>1, <1>2 DEF Database
<1>4. /\ e.version = d.version /\ e.orgs = orgs /\ e.convs = d.convs
      /\ e.users = d.users /\ e.threads = d.threads /\ e.links = d.links
  BY <1>2
<1>5. UsersFit(e) BY <1>1, <1>4 DEF UsersFit, Exists
<1>6. ThreadsFit(e) BY <1>1, <1>4 DEF ThreadsFit, Exists
<1>7. ~(d.version < 2) BY <1>1 DEF Database, Head
<1>8. RowsFit(e) BY <1>1, <1>3, <1>4, <1>5, <1>6, <1>7, Fits
<1>9. QED BY <1>4, <1>8

LEMMA OrgKeeps ==
  ASSUME MigrationsInv, NEW o \in Orgs, InsertOrg(o) \/ DeleteOrg(o)
  PROVE  MigrationsInv' /\ db'.version = db.version
<1>1. PICK orgs : orgs = IF o \in db.orgs THEN db.orgs \ {o} ELSE db.orgs \cup {o} OBVIOUS
<1>2. /\ db.version >= 2 /\ Checkable("organizations")
      /\ Write(SetOrgs(db, orgs), SetOrgs(work.db, orgs))
  BY <1>1 DEF InsertOrg, DeleteOrg, Writable
<1>3. o \in db.orgs =>
        \A u \in Users : /\ <<u, o>> \notin db.convs
                         /\ Exists(db, u) => db.users[u].org # o
                         /\ Open /\ Exists(work.db, u) => work.db.users[u].org # o
  BY DEF InsertOrg, DeleteOrg
<1>4. RowsFit(db) /\ db \in Database /\ UsersFit(db) BY Fits DEF MigrationsInv, RowsFitSchema
<1>5. orgs \in SUBSET Orgs BY <1>1, <1>4 DEF Database
<1>6. /\ \A u \in Users : Exists(db, u) => db.users[u].org \in orgs \cup {None}
      /\ \A u \in Users, p \in Orgs : <<u, p>> \in db.convs => p \in orgs
  BY <1>1, <1>3, <1>4 DEF UsersFit
<1>7. PICK d : d = SetOrgs(db, orgs) OBVIOUS
<1>8. PICK e : e = SetOrgs(work.db, orgs) OBVIOUS
<1>9. /\ RowsFit(d) /\ d.version = db.version /\ d.orgs = orgs
      /\ d.convs = db.convs /\ d.users = db.users /\ d.threads = db.threads
  BY <1>2, <1>4, <1>5, <1>6, <1>7, SetOrgsFits
<1>10. ASSUME Open PROVE RowsFit(e) /\ e.version = work.db.version /\ Kept(d, e)
  <2>1. RowsFit(work.db) /\ work.db \in Database /\ work.db.version >= 2 /\ Kept(db, work.db)
    BY <1>2, <1>10, TablesStand DEF Tables
  <2>2. UsersFit(work.db) /\ work.db.orgs = db.orgs /\ work.db.convs = db.convs
    BY <2>1, Fits DEF Kept
  <2>3. /\ \A u \in Users : Exists(work.db, u) => work.db.users[u].org \in orgs \cup {None}
        /\ \A u \in Users, p \in Orgs : <<u, p>> \in work.db.convs => p \in orgs
    BY <1>1, <1>3, <1>6, <1>10, <2>2 DEF UsersFit
  <2>4. /\ RowsFit(e) /\ e.version = work.db.version /\ e.orgs = orgs
        /\ e.convs = work.db.convs /\ e.users = work.db.users /\ e.threads = work.db.threads
    BY <1>5, <1>8, <2>1, <2>3, SetOrgsFits
  <2>5. Kept(d, e) BY <1>9, <2>1, <2>4 DEF Kept, Exists
  <2>6. QED BY <2>4, <2>5
<1>11. QED BY <1>2, <1>7, <1>8, <1>9, <1>10, WriteKeeps

LEMMA AddImportFits ==
  ASSUME NEW d, RowsFit(d), d.version >= 2, NEW u \in Users, Exists(d, u), NEW o \in d.orgs,
         NEW e, e = AddImport(d, u, o)
  PROVE  /\ RowsFit(e) /\ e.version = d.version /\ e.orgs = d.orgs
         /\ e.convs = d.convs \cup {<<u, o>>} /\ e.users = d.users /\ e.threads = d.threads
<1>1. d \in Database /\ UsersFit(d) /\ ThreadsFit(d) /\ (d.version < 7 => d.links = {})
  BY Fits
<1>2. PICK convs : convs = d.convs \cup {<<u, o>>} OBVIOUS
<1>3. e = [version |-> d.version, users |-> d.users, orgs |-> d.orgs,
           convs |-> convs, threads |-> d.threads, links |-> d.links]
  BY <1>1, <1>2 DEF Database, AddImport
<1>4. convs \in SUBSET (Users \X Orgs) BY <1>1, <1>2 DEF Database
<1>5. e \in Database BY <1>1, <1>3, <1>4 DEF Database
<1>6. /\ e.version = d.version /\ e.orgs = d.orgs /\ e.convs = convs
      /\ e.users = d.users /\ e.threads = d.threads /\ e.links = d.links
  BY <1>3
<1>7. \A v \in Users, p \in Orgs : <<v, p>> \in convs => Exists(d, v) /\ p \in d.orgs
  BY <1>1, <1>2 DEF UsersFit
<1>8. UsersFit(e) BY <1>1, <1>6, <1>7 DEF UsersFit, Exists
<1>9. ThreadsFit(e) BY <1>1, <1>6 DEF ThreadsFit, Exists
<1>10. ~(d.version < 2) BY <1>1 DEF Database, Head
<1>11. RowsFit(e) BY <1>1, <1>5, <1>6, <1>8, <1>9, <1>10, Fits
<1>12. QED BY <1>2, <1>6, <1>11

LEMMA ImportKeeps ==
  ASSUME MigrationsInv, NEW u \in Users, Import(u)
  PROVE  MigrationsInv' /\ db'.version = db.version
<1>1. PICK o : o = db.users[u].org OBVIOUS
<1>2. /\ db.version >= 2 /\ Checkable("users") /\ Exists(db, u) /\ o # None
      /\ Write(AddImport(db, u, o), AddImport(work.db, u, o))
  BY <1>1 DEF Import
<1>3. RowsFit(db) /\ db \in Database /\ UsersFit(db) BY Fits DEF MigrationsInv, RowsFitSchema
<1>4. o \in db.orgs BY <1>1, <1>2, <1>3 DEF UsersFit
<1>5. PICK d : d = AddImport(db, u, o) OBVIOUS
<1>6. PICK e : e = AddImport(work.db, u, o) OBVIOUS
<1>7. /\ RowsFit(d) /\ d.version = db.version /\ d.orgs = db.orgs
      /\ d.convs = db.convs \cup {<<u, o>>} /\ d.users = db.users /\ d.threads = db.threads
  BY <1>2, <1>3, <1>4, <1>5, AddImportFits
<1>8. ASSUME Open PROVE RowsFit(e) /\ e.version = work.db.version /\ Kept(d, e)
  <2>1. RowsFit(work.db) /\ work.db \in Database /\ work.db.version >= 2 /\ Kept(db, work.db)
    BY <1>2, <1>8, TablesStand DEF Tables
  <2>2. Exists(work.db, u) /\ o \in work.db.orgs /\ work.db.convs = db.convs
    BY <1>2, <1>4, <2>1 DEF Kept
  <2>3. /\ RowsFit(e) /\ e.version = work.db.version /\ e.orgs = work.db.orgs
        /\ e.convs = work.db.convs \cup {<<u, o>>} /\ e.users = work.db.users
        /\ e.threads = work.db.threads
    BY <1>6, <2>1, <2>2, AddImportFits
  <2>4. Kept(d, e) BY <1>7, <2>1, <2>2, <2>3 DEF Kept, Exists
  <2>5. QED BY <2>3, <2>4
<1>9. QED BY <1>2, <1>5, <1>6, <1>7, <1>8, WriteKeeps

LEMMA SetThreadFits ==
  ASSUME NEW d, RowsFit(d), d.version >= 2, NEW t \in Threads, NEW row \in ThreadRow \cup {None},
         row # None =>
           /\ d.version >= 5 /\ Exists(d, row.owner)
           /\ IF d.version = 5 THEN row.ctx = None ELSE row.ctx # None /\ Exists(d, row.ctx),
         NEW e, e = SetThread(d, t, row)
  PROVE  /\ RowsFit(e) /\ e.version = d.version /\ e.orgs = d.orgs /\ e.convs = d.convs
         /\ e.users = d.users /\ e.threads = [d.threads EXCEPT ![t] = row]
<1>1. d \in Database /\ UsersFit(d) /\ ThreadsFit(d) /\ (d.version < 7 => d.links = {})
  BY Fits
<1>2. PICK ts : ts = [d.threads EXCEPT ![t] = row] OBVIOUS
<1>3. e = [version |-> d.version, users |-> d.users, orgs |-> d.orgs,
           convs |-> d.convs, threads |-> ts, links |-> d.links]
  BY <1>1, <1>2 DEF Database, SetThread
<1>4. ts \in [Threads -> ThreadRow \cup {None}] BY <1>1, <1>2 DEF Database
<1>5. e \in Database BY <1>1, <1>3, <1>4 DEF Database
<1>6. /\ e.version = d.version /\ e.orgs = d.orgs /\ e.convs = d.convs
      /\ e.users = d.users /\ e.threads = ts /\ e.links = d.links
  BY <1>3
<1>7. \A x \in Threads : ts[x] = IF x = t THEN row ELSE d.threads[x]
  BY <1>1, <1>2 DEF Database
<1>8. UsersFit(e) BY <1>1, <1>6 DEF UsersFit, Exists
<1>9. ThreadsFit(e)
  <2>1. ASSUME d.version < 5 PROVE ts = NoThreads
    <3>1. d.threads = NoThreads BY <1>1, <2>1 DEF ThreadsFit
    <3>2. row = None BY <1>1, <2>1 DEF Database, Head
    <3>3. QED BY <1>2, <3>1, <3>2 DEF NoThreads
  <2>2. ASSUME NEW x \in Threads, ts[x] # None
        PROVE  /\ Exists(e, ts[x].owner)
               /\ IF d.version = 5 THEN ts[x].ctx = None
                  ELSE ts[x].ctx # None /\ Exists(e, ts[x].ctx)
    <3>1. CASE x = t BY <1>6, <1>7, <2>2, <3>1 DEF Exists
    <3>2. CASE x # t
      <4>1. ts[x] = d.threads[x] BY <1>7, <3>2
      <4>2. QED BY <1>1, <1>6, <2>2, <4>1 DEF ThreadsFit, Exists
    <3>3. QED BY <3>1, <3>2
  <2>3. QED BY <1>6, <2>1, <2>2 DEF ThreadsFit
<1>10. ~(d.version < 2) BY <1>1 DEF Database, Head
<1>11. RowsFit(e) BY <1>1, <1>5, <1>6, <1>8, <1>9, <1>10, Fits
<1>12. QED BY <1>2, <1>6, <1>11

\* The same row written for a thread on both sides, or removed from both.
LEMMA ThreadWritten ==
  ASSUME MigrationsInv, db.version >= 2, Checkable("chat_threads"),
         NEW t \in Threads, NEW row \in ThreadRow \cup {None},
         Write(SetThread(db, t, row), SetThread(work.db, t, row)),
         row # None =>
           /\ db.version >= 5 /\ Exists(db, row.owner)
           /\ IF db.version = 5 THEN row.ctx = None ELSE row.ctx # None /\ Exists(db, row.ctx)
           /\ Open => db.version = 6 /\ work.db.version = 7
  PROVE  MigrationsInv' /\ db'.version = db.version
<1>1. RowsFit(db) /\ db \in Database BY Fits DEF MigrationsInv, RowsFitSchema
<1>2. PICK d : d = SetThread(db, t, row) OBVIOUS
<1>3. PICK e : e = SetThread(work.db, t, row) OBVIOUS
<1>4. /\ RowsFit(d) /\ d.version = db.version /\ d.orgs = db.orgs /\ d.convs = db.convs
      /\ d.users = db.users /\ d.threads = [db.threads EXCEPT ![t] = row]
  BY <1>1, <1>2, SetThreadFits
<1>5. ASSUME Open PROVE RowsFit(e) /\ e.version = work.db.version /\ Kept(d, e)
  <2>1. RowsFit(work.db) /\ work.db \in Database /\ work.db.version >= 2 /\ Kept(db, work.db)
    BY <1>5, TablesStand DEF Tables
  <2>2. row # None =>
          /\ work.db.version >= 5 /\ Exists(work.db, row.owner)
          /\ IF work.db.version = 5 THEN row.ctx = None
             ELSE row.ctx # None /\ Exists(work.db, row.ctx)
    <3>1. row # None => row.owner \in Users /\ row.ctx \in Users \cup {None} BY DEF ThreadRow
    <3>2. QED BY <1>5, <2>1, <3>1 DEF Kept
  <2>3. /\ RowsFit(e) /\ e.version = work.db.version /\ e.orgs = work.db.orgs
        /\ e.convs = work.db.convs /\ e.users = work.db.users
        /\ e.threads = [work.db.threads EXCEPT ![t] = row]
    BY <1>3, <2>1, <2>2, SetThreadFits
  <2>4. \A x \in Threads : /\ d.threads[x] = IF x = t THEN row ELSE db.threads[x]
                           /\ e.threads[x] = IF x = t THEN row ELSE work.db.threads[x]
    BY <1>1, <1>4, <2>1, <2>3 DEF Database
  <2>5. \A x \in Threads :
          d.threads[x] # None /\ e.version >= 5 =>
            /\ e.threads[x] # None
            /\ e.threads[x].owner = d.threads[x].owner
            /\ e.threads[x].ctx \in {d.threads[x].ctx, d.threads[x].owner, None}
            /\ d.version >= 6 /\ e.version >= 6 => e.threads[x].ctx = d.threads[x].ctx
    BY <1>4, <2>1, <2>3, <2>4 DEF Kept
  <2>6. Kept(d, e) BY <1>4, <2>1, <2>3, <2>5 DEF Kept, Exists
  <2>7. QED BY <2>3, <2>6
<1>6. QED BY <1>2, <1>3, <1>4, <1>5, WriteKeeps

LEMMA InsertThreadKeeps ==
  ASSUME MigrationsInv, NEW t \in Threads, NEW u \in Users, NEW c \in Users,
         InsertThread(t, u, c)
  PROVE  MigrationsInv' /\ db'.version = db.version
<1>1. PICK row : row = [owner |-> u, ctx |-> IF db.version = 5 THEN None ELSE c] OBVIOUS
<1>2. /\ db.version >= 5 /\ Writable("chat_threads") /\ Checkable("users")
      /\ Exists(db, u) /\ Exists(db, c)
      /\ Write(SetThread(db, t, row), SetThread(work.db, t, row))
  BY <1>1 DEF InsertThread
<1>3. row \in ThreadRow /\ row.owner = u /\ row.ctx = IF db.version = 5 THEN None ELSE c
  BY <1>1 DEF ThreadRow
<1>4. c # None BY MigrationsAssumption
<1>5. ASSUME Open PROVE db.version = 6 /\ work.db.version = 7
  <2>1. \A r \in Ran : r \in 1..7 /\ r # 6 /\ (~Forward => r \notin {5, 7})
    BY <1>2 DEF Writable, Checkable, Altered, Ran, Tables, Head
  <2>2. QED BY <1>2, <1>5, <2>1, RanEnds
<1>6. db.version >= 2 BY <1>2, <1>5 DEF MigrationsInv, MigrationsTypes, Database, Head
<1>7. QED BY <1>2, <1>3, <1>4, <1>5, <1>6, ThreadWritten DEF Writable

LEMMA DeleteThreadKeeps ==
  ASSUME MigrationsInv, NEW t \in Threads, DeleteThread(t)
  PROVE  MigrationsInv' /\ db'.version = db.version
<1>1. db.version >= 2 BY DEF DeleteThread, MigrationsInv, MigrationsTypes, Database, Head
<1>2. QED BY <1>1, ThreadWritten DEF DeleteThread, Writable

LEMMA LinkKeeps ==
  ASSUME MigrationsInv, NEW u \in Users, Link(u)
  PROVE  MigrationsInv' /\ db'.version = db.version
<1>1. RowsFit(db) /\ db \in Database /\ UsersFit(db) /\ ThreadsFit(db)
  BY Fits DEF MigrationsInv, RowsFitSchema
<1>2. PICK d : d = [db EXCEPT !.links = @ \cup {u}] OBVIOUS
<1>3. /\ db.version >= 7 /\ Checkable("users") /\ Exists(db, u)
      /\ Write(d, work.db)
  BY <1>2 DEF Link
<1>4. ~Open
  <2>1. SUFFICES ASSUME Open PROVE FALSE OBVIOUS
  <2>2. db.version = 7 /\ ~Forward /\ 7 \in Ran BY <1>3, <2>1, RanEnds
  <2>3. QED BY <1>3, <2>2 DEF Checkable, Altered
<1>5. d \in Database BY <1>1, <1>2 DEF Database
<1>6. /\ d.version = db.version /\ d.users = db.users /\ d.orgs = db.orgs
      /\ d.convs = db.convs /\ d.threads = db.threads /\ d.links = db.links \cup {u}
  BY <1>1, <1>2 DEF Database
<1>7. UsersFit(d) BY <1>1, <1>3, <1>6 DEF UsersFit, Exists
<1>8. ThreadsFit(d) BY <1>1, <1>6 DEF ThreadsFit, Exists
<1>9. ~(db.version < 2) /\ ~(db.version < 7) BY <1>1, <1>3 DEF Database, Head
<1>10. RowsFit(d) BY <1>5, <1>6, <1>7, <1>8, <1>9, Fits
<1>11. QED BY <1>3, <1>4, <1>6, <1>10, WriteKeeps

(***************************************************************************)
(* The theorems.                                                           *)
(***************************************************************************)
LEMMA NextMigrations ==
  ASSUME MigrationsInv, [Next]_vars
  PROVE  /\ MigrationsInv'
         /\ db'.version # db.version => db' = work.db /\ Open
<1>1. CASE UNCHANGED vars
  <2>1. MigrationsTypes' BY <1>1 DEF vars, MigrationsInv, MigrationsTypes
  <2>2. work' = work /\ pc' = pc /\ goal' = goal /\ db' = db BY <1>1 DEF vars
  <2>3. Open => pc'[work.by] = "migrating" BY <2>2 DEF MigrationsInv, WorkInv
  <2>4. QED BY <2>1, <2>2, <2>3, Stays
<1>2. ASSUME NEW m \in Migrators, MigratorStep(m) \/ Abort(m)
      PROVE  /\ MigrationsInv'
             /\ db'.version # db.version => db' = work.db /\ Open
  <2>1. CASE Start(m)
    <3>1. m \in Containers /\ m # Operator /\ Begin(m) /\ UNCHANGED <<db, work, goal>>
      BY <2>1, Somebody DEF Start
    <3>2. QED BY <3>1, BeginsKeep
  <2>2. CASE RunRevision(m)
    <3>1. db' = db BY <2>2 DEF RunRevision
    <3>2. QED BY <2>2, <3>1, RunRevisionKeeps
  <2>3. CASE RevisionFails(m) \/ Abort(m)
    <3>1. Rollback(m) /\ db' = db BY <2>3 DEF RevisionFails, Abort, Rollback
    <3>2. QED BY <3>1, RollbackKeeps
  <2>4. CASE Commit(m) BY <2>4, CommitKeeps
  <2>5. QED BY <1>2, <2>1, <2>2, <2>3, <2>4 DEF MigratorStep
<1>3. CASE StartDowngrade
  <2>1. Begin(Operator) /\ goal' \in 0..Head /\ UNCHANGED <<db, work>>
    BY <1>3 DEF StartDowngrade
  <2>2. QED BY <2>1, BeginsKeep, Somebody
<1>4. ASSUME NEW c \in Containers, Restart(c)
      PROVE  MigrationsInv' /\ db' = db
  <2>1. /\ End(c, "down") /\ UNCHANGED <<db, work>> /\ pc[c] # "migrating" /\ c \in Migrators
    BY <1>4, Somebody DEF Restart
  <2>2. work.by # c
    <3>1. Open => work.by # c BY <2>1, NotMine
    <3>2. QED BY <2>1, <3>1, Somebody DEF Open
  <2>3. QED BY <2>1, <2>2, EndsKeep
<1>5. CASE WriteRow
  <2>1. MigrationsInv' /\ db'.version = db.version
    BY <1>5, InsertUserKeeps, AssignUserKeeps, EditAddressKeeps, DeleteUserKeeps, OrgKeeps,
       ImportKeeps, InsertThreadKeeps, DeleteThreadKeeps, LinkKeeps DEF WriteRow
  <2>2. QED BY <2>1
<1>6. CASE Idle
  <2>1. UNCHANGED vars BY <1>6 DEF Idle
  <2>2. QED BY <1>1, <2>1
<1>7. QED BY <1>1, <1>2, <1>3, <1>4, <1>5, <1>6 DEF Next

LEMMA MigrationsHold == Spec => []MigrationsInv
<1>1. MigrationsInv /\ [Next]_vars => MigrationsInv' BY NextMigrations
<1>2. QED BY InitMigrations, <1>1, PTL DEF Spec

\* The committed rows fit the committed version, and the rows of the open
\* transaction its own, whatever the locks of the revisions it has run let requests
\* insert, edit and delete next to it, for any number of containers, rows, crashes
\* and downgrades.
THEOREM SchemaHolds == Spec => []RowsFitSchema
<1>1. MigrationsInv => RowsFitSchema BY DEF MigrationsInv
<1>2. QED BY <1>1, MigrationsHold, PTL

\* Whatever path of revisions a transaction took, up or down, committing it loses no
\* account, no import and no thread there is a table for.
THEOREM AccountsAreKept == Spec => AccountsSurvive
<1>1. MigrationsInv /\ [Next]_vars =>
        (db'.version # db.version /\ db'.version >= 2 => Kept(db, db'))
  <2>1. SUFFICES ASSUME MigrationsInv, [Next]_vars, db'.version # db.version, db'.version >= 2
                 PROVE  Kept(db, db')
    OBVIOUS
  <2>2. db' = work.db /\ Open BY <2>1, NextMigrations
  <2>3. QED BY <2>1, <2>2 DEF MigrationsInv, WorkInv
<1>2. MigrationsInv /\ [Next]_vars =>
        [db'.version # db.version /\ db'.version >= 2 => Kept(db, db')]_vars
  BY <1>1
<1>3. QED BY <1>2, MigrationsHold, PTL DEF Spec, AccountsSurvive

(***************************************************************************)
(* Why containers come up: a call of alembic can always go on, and little  *)
(* can fail an upgrade.                                                    *)
(***************************************************************************)
\* The next revision runs or fails, or there is nothing left but to commit.
CanGoOn(m) ==
  \/ pc[m] = "down" /\ m \in Containers
  \/ /\ MayRevise(m)
     /\ \/ ~Current(m)
        \/ Mine(m).version # Target(m)
  \/ /\ pc[m] = "migrating"
     /\ \/ work.by = m /\ work.db.version = Target(m)
        \/ work.by # m /\ seen[m] = Target(m)

\* Of those who migrate, one can go on: who has run a revision, or else anybody.
NeverStuck ==
  /\ \A c \in Containers : pc[c] = "down" => CanGoOn(c)
  /\ (\E m \in Migrators : pc[m] = "migrating") =>
       \E m \in Migrators : pc[m] = "migrating" /\ CanGoOn(m)

\* On the version it has read a container's next revision has a result, on whatever
\* rows there are, unless both default users' addresses are taken.
OnlyAddressesFail ==
  \A c \in Containers :
    MayRevise(c) /\ Current(c) /\ Mine(c).version # Head =>
      \/ Upgraded(Mine(c)) # {}
      \/ HasAddress(Mine(c), Old) /\ HasAddress(Mine(c), New)

\* Rows that fit a version below the newest let its next revision run: 006 finds an
\* owner for every thread, and only 004 asks something that need not be so.
LEMMA UpgradeRuns ==
  ASSUME NEW d, RowsFit(d), d.version # Head
  PROVE  \/ Upgraded(d) # {}
         \/ HasAddress(d, Old) /\ HasAddress(d, New)
<1>1. d \in Database BY DEF RowsFit
<1>2. d.version \in 0..6 BY <1>1 DEF Database, Head
<1>3. CASE d.version = 5
  <2>1. ASSUME NEW t \in Threads, AddContextUser(d).threads[t] # None
        PROVE  AddContextUser(d).threads[t].ctx # None
    <3>1. d.threads \in [Threads -> ThreadRow \cup {None}] BY <1>1 DEF Database
    <3>2. AddContextUser(d).threads[t] = [d.threads[t] EXCEPT !.ctx = d.threads[t].owner]
          /\ d.threads[t] # None
      BY <1>1, <2>1 DEF AddContextUser, Database
    <3>3. d.threads[t] \in ThreadRow BY <3>1, <3>2
    <3>4. AddContextUser(d).threads[t].ctx = d.threads[t].owner /\ d.threads[t].owner \in Users
      BY <3>2, <3>3 DEF ThreadRow
    <3>5. QED BY <3>4, MigrationsAssumption
  <2>2. ContextsSet(AddContextUser(d)) BY <2>1 DEF ContextsSet
  <2>3. QED BY <1>3, <2>2 DEF Upgraded
<1>4. CASE d.version = 3 BY <1>4 DEF Upgraded, FixAddressOK
<1>5. CASE d.version \in {0, 1, 2, 4, 6} BY <1>5 DEF Upgraded
<1>6. QED BY <1>2, <1>3, <1>4, <1>5

\* A call of alembic that is under way, or one it waits for, has a next step, however
\* many containers start together; and what can keep a container from coming up is the
\* address revision 004 needs, or a version that another has changed since it was read.
THEOREM UpgradesGoOn == Spec => [](NeverStuck /\ OnlyAddressesFail)
<1>1. MigrationsInv => NeverStuck
  <2> SUFFICES ASSUME MigrationsInv, NEW n \in Migrators, pc[n] = "migrating"
               PROVE  \E m \in Migrators : pc[m] = "migrating" /\ CanGoOn(m)
    BY DEF NeverStuck, CanGoOn
  <2>1. CASE Open
    <3>1. work.by \in Migrators /\ pc[work.by] = "migrating"
      BY <2>1 DEF MigrationsInv, MigrationsTypes, WorkInv, Open
    <3>2. CanGoOn(work.by) BY <2>1, <3>1 DEF CanGoOn, MayRevise, Mine
    <3>3. QED BY <3>1, <3>2
  <2>2. CASE ~Open
    <3>1. work.by # n BY <2>2, Somebody DEF Open
    <3>2. CanGoOn(n) BY <2>2, <3>1 DEF CanGoOn, MayRevise, Mine, Current
    <3>3. QED BY <3>2
  <2>3. QED BY <2>1, <2>2
<1>2. MigrationsInv => OnlyAddressesFail
  <2> SUFFICES ASSUME MigrationsInv, NEW c \in Containers, MayRevise(c), Mine(c).version # Head
               PROVE  \/ Upgraded(Mine(c)) # {}
                      \/ HasAddress(Mine(c), Old) /\ HasAddress(Mine(c), New)
    BY DEF OnlyAddressesFail
  <2>1. RowsFit(Mine(c)) BY DEF MigrationsInv, RowsFitSchema, Mine
  <2>2. QED BY <2>1, UpgradeRuns
<1>3. QED BY <1>1, <1>2, MigrationsHold, PTL
=============================================================================
