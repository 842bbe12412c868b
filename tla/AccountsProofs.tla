--------------------------- MODULE AccountsProofs ---------------------------
(* Theorems about user accounts and their identities, for any number of     *)
(* users, addresses and identities and of concurrent requests.              *)
EXTENDS Accounts, FiniteSetTheorems, TLAPS

(***************************************************************************)
(* What a session holds.                                                   *)
(***************************************************************************)
\* The kinds of calls are apart.
LEMMA Kinds ==
  /\ Registers \cap Logins = {} /\ Registers \cap Edits = {} /\ Registers \cap Deletes = {}
  /\ Logins \cap Edits = {} /\ Logins \cap Deletes = {} /\ Edits \cap Deletes = {}
  /\ Registers \subseteq Calls /\ Logins \subseteq Calls
  /\ Edits \subseteq Calls /\ Deletes \subseteq Calls
  /\ Registers \subseteq UserIds /\ Logins \subseteq UserIds
BY AccountsAssumption DEF Calls, UserIds

\* The next state of a call keeps the rest of its session.
LEMMA ToSession ==
  ASSUME TypeOK, NEW c \in Calls, NEW state \in CallStates, To(c, state)
  PROVE  /\ call' \in [Calls -> Session]
         /\ call'[c] = [call[c] EXCEPT !.pc = state]
         /\ call'[c].pc = state /\ call'[c].user = call[c].user
         /\ call'[c].email = call[c].email /\ call'[c].identity = call[c].identity
         /\ \A x \in Calls \ {c} : call'[x] = call[x]
<1>1. call \in [Calls -> Session] /\ call[c] \in Session BY DEF TypeOK
<1>2. call'[c] = [call[c] EXCEPT !.pc = state] BY <1>1 DEF To
<1>3. QED BY <1>1, <1>2 DEF To, Session

\* Keys in common are in common both ways.
LEMMA SameKeySymmetric ==
  \A u, v, i, j : SameKey(u, i, v, j) <=> SameKey(v, j, u, i)
BY DEF SameKey

\* A session that is in none of the states after a flush has written no address
\* and holds no lock.
Free(c) ==
  /\ call[c].pc \notin {"key", "share", "commit"}
  /\ c \in Logins /\ call[c].pc = "link" => call[c].user # c

\* When one session gives up what it has, the others keep what they have.
LEMMA Released ==
  ASSUME NEW c \in Calls, Free(c)', \A x \in Calls \ {c} : call'[x] = call[x]
  PROVE  /\ \A e : ~Writes(c, e)'
         /\ \A x \in Calls \ {c} : \A e : Writes(x, e)' <=> Writes(x, e)
         /\ \A u : RowHolders(u)' = RowHolders(u) \ {c}
         /\ \A u : RowSharers(u)' = RowSharers(u) \ {c}
<1> USE Kinds
<1>1. \A e : ~Writes(c, e)' BY DEF Free, Writes
<1>2. \A x \in Calls \ {c} : \A e : Writes(x, e)' <=> Writes(x, e) BY DEF Writes
<1>3. \A u : RowHolders(u)' = RowHolders(u) \ {c} BY DEF Free, RowHolders
<1>4. \A u : RowSharers(u)' = RowSharers(u) \ {c} BY DEF Free, RowSharers
<1>5. QED BY <1>1, <1>2, <1>3, <1>4

\* What two sessions rely on is symmetric: the part of the one that moved implies
\* the others', as long as nothing stored changes.
LEMMA SessionStep ==
  ASSUME AccountsInv, NEW c \in Calls, UNCHANGED Stored, call' \in [Calls -> Session],
         \A x \in Calls \ {c} : call'[x] = call[x],
         SessionInv(c)', FreshInv(c)', AddressInv(c)',
         c \in Logins => LinkInv(c)' /\ FoundInv(c)',
         \A u \in UserIds : RowInv(u)'
  PROVE  AccountsInv'
<1> USE Kinds DEF Stored
<1>1. TypeOK' BY DEF AccountsInv, TypeOK
<1>2. RowsFit' /\ NobodyIsLockedOut'
  BY DEF AccountsInv, RowsFit, NobodyIsLockedOut, Exists, Linked
<1>3. ASSUME NEW x \in Calls, x # c
      PROVE  SessionInv(x)' /\ FreshInv(x)' /\ AddressInv(x)'
  <2>1. SessionInv(x) /\ FreshInv(x) /\ AddressInv(x) /\ call'[x] = call[x]
    BY <1>3 DEF AccountsInv
  <2>2. SessionInv(x)' BY <2>1 DEF SessionInv
  <2>3. FreshInv(x)' BY <2>1 DEF FreshInv, Exists
  <2>4. \A y \in Calls \ {c} : \A e : Writes(y, e)' <=> Writes(y, e) BY DEF Writes
  <2>5. AddressInv(x)'
    <3>1. \A e \in Email : Writes(x, e)' => ~Writes(c, e)' BY <1>3 DEF AddressInv
    <3>2. QED BY <3>1, <2>1, <2>4, <1>3 DEF AddressInv
  <2>6. QED BY <2>2, <2>3, <2>5
<1>4. ASSUME NEW l \in Logins, l # c PROVE LinkInv(l)' /\ FoundInv(l)'
  <2>1. LinkInv(l) /\ FoundInv(l) /\ call'[l] = call[l] BY <1>4 DEF AccountsInv
  <2>2. FoundInv(l)' BY <2>1 DEF FoundInv
  <2>3. ASSUME call[l].pc \in {"share", "commit"} PROVE LinkHolders(l)' = {}
    <3>1. LinkHolders(l) = {} BY <2>1, <2>3 DEF LinkInv
    <3>2. \A m \in Logins \ {c} : m \notin LinkHolders(l)'
      BY <3>1, <2>1 DEF LinkHolders
    <3>3. c \notin LinkHolders(l)'
      <4>1. SUFFICES ASSUME c \in Logins, call'[c].pc \in {"share", "commit"}
                     PROVE  ~SameKey(call[l].user, call[l].identity,
                                     call'[c].user, call'[c].identity)
        BY <2>1 DEF LinkHolders
      <4>2. l \notin LinkHolders(c)' BY <4>1 DEF LinkInv
      <4>3. QED BY <4>1, <4>2, <2>1, <2>3, <1>4, SameKeySymmetric DEF LinkHolders
    <3>4. QED BY <3>2, <3>3 DEF LinkHolders
  <2>4. LinkInv(l)' BY <2>1, <2>3 DEF LinkInv, Exists
  <2>5. QED BY <2>2, <2>4
<1>5. QED BY <1>1, <1>2, <1>3, <1>4 DEF AccountsInv

(***************************************************************************)
(* Steps that take no lock.                                                *)
(***************************************************************************)
\* A step that leaves its session with no address and no lock only has to say what
\* the session knows.
LEMMA LocalStep ==
  ASSUME AccountsInv, NEW c \in Calls, UNCHANGED Stored, call' \in [Calls -> Session],
         \A x \in Calls \ {c} : call'[x] = call[x],
         Free(c)', SessionInv(c)', FreshInv(c)', c \in Logins => FoundInv(c)'
  PROVE  AccountsInv'
<1> USE Kinds
<1>1. /\ \A e : ~Writes(c, e)'
      /\ \A u : RowHolders(u)' \subseteq RowHolders(u)
      /\ \A u : RowSharers(u)' \subseteq RowSharers(u)
  BY Released
<1>2. AddressInv(c)' BY <1>1 DEF AddressInv
<1>3. c \in Logins => LinkInv(c)' BY DEF LinkInv, Free
<1>4. ASSUME NEW u \in UserIds PROVE RowInv(u)'
  <2>1. RowInv(u) /\ RowHolders(u)' \subseteq RowHolders(u) /\ RowSharers(u)' \subseteq RowSharers(u)
    BY <1>1 DEF AccountsInv
  <2>2. \A d \in Deletes : call'[d].pc = "commit" => call'[d] = call[d] BY DEF Free
  <2>3. Exists(u)' = Exists(u) /\ Linked(u)' = Linked(u) BY DEF Exists, Linked, Stored
  <2>4. QED BY <2>1, <2>2, <2>3 DEF RowInv
<1>5. QED BY <1>2, <1>3, <1>4, SessionStep

\* Steps that only move a session on, to where it relies on nothing more.
LEMMA ToStep ==
  ASSUME AccountsInv, NEW c \in Calls, UNCHANGED Stored,
         NEW state \in CallStates \ {"idle", "key", "link", "share", "commit"}, To(c, state),
         call[c].pc \notin {"idle"},
         call[c].pc \in {"refresh", "answered", "failed", "died"} =>
           state \in {"refresh", "answered", "failed", "died"},
         c \in Logins =>
           /\ state \in {"identity", "find", "user"} => call[c].pc \in {"identity", "find"}
           /\ state \in {"load", "refresh", "answered"} => call[c].pc \in {"load", "refresh"}
  PROVE  AccountsInv'
<1> USE Kinds
<1>1. /\ call' \in [Calls -> Session]
      /\ call'[c].pc = state /\ call'[c].user = call[c].user
      /\ call'[c].email = call[c].email /\ call'[c].identity = call[c].identity
      /\ \A x \in Calls \ {c} : call'[x] = call[x]
  BY ToSession DEF AccountsInv
<1>2. SessionInv(c) /\ FreshInv(c) /\ (c \in Logins => FoundInv(c)) BY DEF AccountsInv
<1>3. Free(c)' BY <1>1 DEF Free
<1>4. SessionInv(c)' BY <1>1, <1>2 DEF SessionInv
<1>5. FreshInv(c)' BY <1>1, <1>2 DEF FreshInv, Exists, Stored
<1>6. c \in Logins => FoundInv(c)' BY <1>1, <1>2 DEF FoundInv, Stored
<1>7. QED BY <1>1, <1>3, <1>4, <1>5, <1>6, LocalStep

\* A request takes its arguments, and what it loads first.
LEMMA StartInv ==
  ASSUME AccountsInv, NEW c \in Calls, Start(c)
  PROVE  AccountsInv'
<1> USE Kinds
<1>1. /\ call \in [Calls -> Session] /\ call[c] \in Session
      /\ email \in [UserIds -> Email \cup {None}]
  BY DEF AccountsInv, TypeOK
<1>2. UNCHANGED Stored /\ call[c].pc = "idle"
  BY DEF Start, StartRegister, StartLogin, StartEdit, StartDelete
<1>3. FreshInv(c)'
  <2>1. FreshInv(c) BY DEF AccountsInv
  <2>2. QED BY <2>1, <1>2 DEF FreshInv, Exists, Stored
<1>4. ASSUME NEW e \in Email, c \in Registers, StartRegister(c, e) PROVE AccountsInv'
  <2>1. PICK given \in BOOLEAN :
          call' = [call EXCEPT ![c].pc = "check", ![c].email = e, ![c].password = given]
    BY <1>4 DEF StartRegister
  <2>2. /\ call' \in [Calls -> Session]
        /\ call'[c].pc = "check" /\ call'[c].email = e
        /\ \A x \in Calls \ {c} : call'[x] = call[x]
    BY <1>1, <2>1 DEF Session, CallStates
  <2>3. Free(c)' /\ SessionInv(c)' BY <1>4, <2>2 DEF Free, SessionInv
  <2>4. QED BY <1>2, <1>3, <1>4, <2>2, <2>3, LocalStep
<1>5. ASSUME NEW i \in Identity, NEW e \in Email, c \in Logins, StartLogin(c, i, e)
      PROVE AccountsInv'
  <2>1. Lower(e) \in Email BY AccountsAssumption DEF Lower, Email
  <2>2. /\ call' \in [Calls -> Session]
        /\ \/ call'[c].pc = "identity" /\ call'[c].identity = i /\ call'[c].email = Lower(e)
           \/ call'[c].pc = "refused"
        /\ \A x \in Calls \ {c} : call'[x] = call[x]
    <3>1. CASE To(c, "refused") BY <1>1, <3>1 DEF To, Session, CallStates, Ended
    <3>2. CASE call' = [call EXCEPT ![c].pc = "identity", ![c].identity = i, ![c].email = Lower(e)]
      BY <1>1, <2>1, <3>2 DEF Session, CallStates
    <3>3. QED BY <1>5, <3>1, <3>2 DEF StartLogin
  <2>3. Free(c)' /\ SessionInv(c)' /\ FoundInv(c)'
    BY <1>5, <2>1, <2>2 DEF Free, SessionInv, FoundInv
  <2>4. QED BY <1>2, <1>3, <2>2, <2>3, LocalStep
<1>6. ASSUME NEW u \in UserIds, NEW e \in Email, c \in Edits, StartEdit(c, u, e) PROVE AccountsInv'
  <2>1. /\ call' \in [Calls -> Session]
        /\ call'[c].pc \in {"check", "missing"} /\ call'[c].user = u /\ call'[c].email = e
        /\ \A x \in Calls \ {c} : call'[x] = call[x]
    BY <1>1, <1>6 DEF StartEdit, Session, CallStates, Ended
  <2>2. Free(c)' /\ SessionInv(c)' BY <1>6, <2>1 DEF Free, SessionInv
  <2>3. QED BY <1>2, <1>3, <1>6, <2>1, <2>2, LocalStep
<1>7. ASSUME NEW u \in UserIds, c \in Deletes, StartDelete(c, u) PROVE AccountsInv'
  <2>1. /\ call' \in [Calls -> Session]
        /\ call'[c].pc \in {"erase", "missing"} /\ call'[c].user = u
        /\ \A x \in Calls \ {c} : call'[x] = call[x]
    BY <1>1, <1>7 DEF StartDelete, Session, CallStates, Ended
  <2>2. Free(c)' /\ SessionInv(c)' BY <1>7, <2>1 DEF Free, SessionInv
  <2>3. QED BY <1>2, <1>3, <1>7, <2>1, <2>2, LocalStep
<1>8. QED BY <1>4, <1>5, <1>6, <1>7 DEF Start

\* Any step that ends a session with an error, and the refresh.
LEMMA EndInv ==
  ASSUME AccountsInv, NEW c \in Calls, RefreshUser(c) \/ DeadlockVictim(c) \/ CallDies(c)
  PROVE  AccountsInv'
<1>1. CASE RefreshUser(c)
  <2>1. PICK state \in {"answered", "failed"} : To(c, state) BY <1>1 DEF RefreshUser
  <2>2. QED BY <1>1, <2>1, ToStep DEF RefreshUser, CallStates, Ended
<1>2. CASE DeadlockVictim(c)
  <2>1. call[c].pc # "idle" BY <1>2 DEF DeadlockVictim, Blockers
  <2>2. QED BY <1>2, <2>1, ToStep DEF DeadlockVictim, CallStates, Ended
<1>3. CASE CallDies(c) BY <1>3, ToStep DEF CallDies, CallStates, Ended
<1>4. QED BY <1>1, <1>2, <1>3

(***************************************************************************)
(* Commits: what two of them rely on.                                      *)
(***************************************************************************)
\* A commit leaves the other sessions where they are, and its own with nothing.
LEMMA CommitFrame ==
  ASSUME AccountsInv, NEW c \in Calls, call[c].pc = "commit",
         NEW state \in {"refresh", "answered"}, To(c, state)
  PROVE  /\ call' \in [Calls -> Session]
         /\ call'[c].pc = state /\ call'[c].user = call[c].user
         /\ call'[c].email = call[c].email /\ call'[c].identity = call[c].identity
         /\ \A x \in Calls \ {c} :
              /\ call'[x] = call[x] /\ SessionInv(x)'
              /\ \A e : Writes(x, e)' <=> Writes(x, e)
         /\ \A e : ~Writes(c, e)'
         /\ SessionInv(c)'
         /\ \A u : RowHolders(u)' = RowHolders(u) \ {c}
         /\ \A u : RowSharers(u)' = RowSharers(u) \ {c}
         /\ \A l \in Logins : call'[l].pc \in {"share", "commit"} => LinkHolders(l)' = {}
<1> USE Kinds
<1>1. /\ call' \in [Calls -> Session]
      /\ call'[c].pc = state /\ call'[c].user = call[c].user
      /\ call'[c].email = call[c].email /\ call'[c].identity = call[c].identity
      /\ \A x \in Calls \ {c} : call'[x] = call[x]
  BY ToSession DEF AccountsInv, CallStates, Ended
<1>2. Free(c)' BY <1>1 DEF Free
<1>3. \A x \in Calls : SessionInv(x) BY DEF AccountsInv
<1>4. SessionInv(c)' BY <1>1, <1>3 DEF SessionInv
<1>5. \A x \in Calls \ {c} : SessionInv(x)' BY <1>1, <1>3 DEF SessionInv
<1>6. ASSUME NEW l \in Logins, call'[l].pc \in {"share", "commit"} PROVE LinkHolders(l)' = {}
  <2>1. l # c /\ call'[l] = call[l] BY <1>1, <1>6
  <2>2. LinkHolders(l) = {} BY <2>1, <1>6 DEF AccountsInv, LinkInv
  <2>3. QED BY <2>1, <2>2, <1>1 DEF LinkHolders
<1>7. QED BY <1>1, <1>2, <1>4, <1>5, <1>6, Released

\* What a session relies on survives a commit that puts an address only where its
\* session has written it, and leaves the users that others need.
LEMMA AfterCommit ==
  ASSUME AccountsInv, NEW c \in Calls, call[c].pc = "commit",
         NEW state \in {"refresh", "answered"}, To(c, state),
         TypeOK', RowsFit', NobodyIsLockedOut',
         \A u \in UserIds \ {c} : Exists(u)' => Exists(u),
         \A e \in Email, u \in UserIds : email'[u] = e => email[u] = e \/ Writes(c, e),
         \A u \in UserIds : RowHolders(u) \ {c} # {} => Exists(u)',
         \A d \in Deletes \ {c}, u \in UserIds :
           call[d].pc = "commit" /\ call[d].user = u => ~Linked(u)',
         \A l \in Logins \ {c}, u \in UserIds :
           /\ link'[l] = link[l]
           /\ call[l].pc = "commit" /\ call[l].user = u => u = l \/ Exists(u)',
         c \in Logins => link'[c] = [user |-> call[c].user, identity |-> call[c].identity]
  PROVE  AccountsInv'
<1> USE Kinds
<1>1. /\ call'[c].pc = state /\ call'[c].user = call[c].user
      /\ call'[c].email = call[c].email /\ call'[c].identity = call[c].identity
      /\ \A x \in Calls \ {c} :
           /\ call'[x] = call[x] /\ SessionInv(x)'
           /\ \A e : Writes(x, e)' <=> Writes(x, e)
      /\ \A e : ~Writes(c, e)'
      /\ SessionInv(c)'
      /\ \A u : RowHolders(u)' = RowHolders(u) \ {c}
      /\ \A u : RowSharers(u)' = RowSharers(u) \ {c}
      /\ \A l \in Logins : call'[l].pc \in {"share", "commit"} => LinkHolders(l)' = {}
  BY CommitFrame
<1>2. ASSUME NEW x \in Calls PROVE SessionInv(x)' /\ FreshInv(x)' /\ AddressInv(x)'
  <2>1. CASE x = c
    <3>1. FreshInv(x)' BY <2>1, <1>1 DEF FreshInv
    <3>2. AddressInv(x)' BY <2>1, <1>1 DEF AddressInv
    <3>3. QED BY <2>1, <3>1, <3>2, <1>1
  <2>2. CASE x # c
    <3>1. FreshInv(x) /\ AddressInv(x) /\ AddressInv(c) /\ call'[x] = call[x]
      BY <2>2, <1>1 DEF AccountsInv
    <3>2. FreshInv(x)' BY <3>1, <2>2 DEF FreshInv
    <3>3. ASSUME NEW e \in Email, Writes(x, e)'
          PROVE  /\ \A d \in Calls : Writes(d, e)' => d = x
                 /\ \A u \in UserIds : email'[u] = e => x \in Edits /\ call'[x].user = u
      <4>1. Writes(x, e) BY <3>3, <2>2, <1>1
      <4>2. \A d \in Calls : Writes(d, e) => d = x BY <4>1, <3>1 DEF AddressInv
      <4>3. \A d \in Calls : Writes(d, e)' => d = x BY <4>2, <1>1
      <4>4. ~Writes(c, e) BY <4>2, <2>2
      <4>5. \A u \in UserIds : email'[u] = e => email[u] = e BY <4>4
      <4>6. QED BY <4>1, <4>3, <4>5, <3>1 DEF AddressInv
    <3>4. AddressInv(x)' BY <3>3 DEF AddressInv
    <3>5. QED BY <3>2, <3>4, <2>2, <1>1
  <2>3. QED BY <2>1, <2>2
<1>3. ASSUME NEW u \in UserIds PROVE RowInv(u)'
  <2>1. RowInv(u) /\ RowHolders(u)' = RowHolders(u) \ {c} /\ RowSharers(u)' = RowSharers(u) \ {c}
    BY <1>1 DEF AccountsInv
  <2>2. \A d \in Deletes : call'[d].pc = "commit" /\ call'[d].user = u => ~Linked(u)' BY <1>1
  <2>3. QED BY <2>1, <2>2 DEF RowInv
<1>4. ASSUME NEW l \in Logins PROVE LinkInv(l)' /\ FoundInv(l)'
  <2>1. c \in Logins => link[c] = None BY DEF AccountsInv, FreshInv
  <2>2. CASE l = c
    <3>1. LinkInv(l)' BY <2>2, <1>1 DEF LinkInv
    <3>2. FoundInv(l)' BY <2>2, <1>1 DEF FoundInv
    <3>3. QED BY <3>1, <3>2
  <2>3. CASE l # c
    <3>1. LinkInv(l) /\ FoundInv(l) /\ call'[l] = call[l] BY <2>3, <1>1 DEF AccountsInv
    <3>2. ASSUME call[l].pc \in {"share", "commit"}, NEW m \in Logins, link'[m] # None
          PROVE  ~SameKey(call[l].user, call[l].identity, link'[m].user, link'[m].identity)
      <4>1. CASE m = c
        <5>1. c \notin LinkHolders(l) BY <3>1, <3>2 DEF LinkInv
        <5>2. ~SameKey(call[l].user, call[l].identity, call[c].user, call[c].identity)
          BY <5>1, <4>1, <2>3 DEF LinkHolders
        <5>3. link'[m].user = call[c].user /\ link'[m].identity = call[c].identity
          BY <4>1
        <5>4. QED BY <5>2, <5>3
      <4>2. CASE m # c BY <4>2, <3>1, <3>2 DEF LinkInv
      <4>3. QED BY <4>1, <4>2
    <3>3. LinkInv(l)'
      <4>1. call[l].pc = "commit" => call[l].user \in UserIds BY DEF AccountsInv, SessionInv
      <4>2. QED BY <4>1, <3>1, <3>2, <2>3, <1>1 DEF LinkInv
    <3>4. FoundInv(l)'
      <4>1. SUFFICES ASSUME call[l].pc \in {"load", "refresh", "answered"}
                     PROVE  \E m \in Logins :
                              link'[m] = [user |-> call[l].user, identity |-> call[l].identity]
        BY <3>1 DEF FoundInv
      <4>2. PICK m \in Logins : link[m] = [user |-> call[l].user, identity |-> call[l].identity]
        BY <4>1, <3>1 DEF FoundInv
      <4>3. /\ call[l].user \in UserIds /\ call[l].identity \in Identity
        BY <4>1 DEF AccountsInv, SessionInv
      <4>4. link[m] # None BY <4>2, <4>3, AccountsAssumption DEF Link
      <4>5. m # c BY <4>4, <2>1
      <4>6. QED BY <4>2, <4>5
    <3>5. QED BY <3>3, <3>4
  <2>4. QED BY <2>2, <2>3
<1>5. QED BY <1>2, <1>3, <1>4 DEF AccountsInv

(***************************************************************************)
(* Registering.                                                            *)
(***************************************************************************)
\* A flush that leaves the locks on user rows alone leaves their part alone.
LEMMA RowsKept ==
  ASSUME AccountsInv, NEW c \in Calls, UNCHANGED Stored,
         \A x \in Calls \ {c} : call'[x] = call[x],
         \A u : RowHolders(u)' = RowHolders(u) /\ RowSharers(u)' = RowSharers(u),
         c \notin Deletes
  PROVE  \A u \in UserIds : RowInv(u)'
<1> USE Kinds
<1>1. ASSUME NEW u \in UserIds PROVE RowInv(u)'
  <2>1. RowInv(u) BY DEF AccountsInv
  <2>2. Exists(u)' = Exists(u) /\ Linked(u)' = Linked(u) BY DEF Exists, Linked, Stored
  <2>3. QED BY <2>1, <2>2 DEF RowInv
<1>2. QED BY <1>1

\* The unique key finds the address free, and keeps it.
LEMMA PinUser ==
  ASSUME AccountsInv, NEW r \in Registers, InsertUser(r), ~EmailExists(call[r].email)
  PROVE  AccountsInv'
<1> USE Kinds
<1>0. PICK e : e = call[r].email OBVIOUS
<1>1. /\ call \in [Calls -> Session] /\ call[r] \in Session /\ SessionInv(r) /\ FreshInv(r)
  BY DEF AccountsInv, TypeOK
<1>2. call[r].pc = "insert" /\ EmailHolders(e) \ {r} = {} /\ UNCHANGED Stored
  BY <1>0 DEF InsertUser, Blockers
<1>3. call' = [call EXCEPT ![r].user = r, ![r].pc = "commit"] BY DEF InsertUser
<1>4. /\ call' \in [Calls -> Session]
      /\ call'[r].pc = "commit" /\ call'[r].user = r /\ call'[r].email = e
      /\ \A x \in Calls \ {r} : call'[x] = call[x]
  BY <1>0, <1>1, <1>3 DEF Session, CallStates
<1>5. SessionInv(r)' BY <1>0, <1>1, <1>2, <1>4 DEF SessionInv
<1>6. FreshInv(r)' BY <1>1, <1>2, <1>4 DEF FreshInv, Exists, Stored
<1>7. AddressInv(r)'
  <2>1. ASSUME NEW x \in Calls \ {r} PROVE ~Writes(x, e)'
    <3>1. ~Writes(x, e) BY <1>2 DEF Writes, EmailHolders
    <3>2. QED BY <3>1, <1>4 DEF Writes
  <2>2. \A f : Writes(r, f)' => f = e BY <1>4 DEF Writes
  <2>3. \A u \in UserIds : email'[u] # e BY <1>0, <1>2 DEF EmailExists, Stored
  <2>4. QED BY <2>1, <2>2, <2>3 DEF AddressInv
<1>8. \A u \in UserIds : RowInv(u)'
  <2>1. \A u : RowHolders(u)' = RowHolders(u) /\ RowSharers(u)' = RowSharers(u)
    BY <1>4 DEF RowHolders, RowSharers
  <2>2. QED BY <2>1, <1>2, <1>4, RowsKept
<1>9. QED BY <1>2, <1>4, <1>5, <1>6, <1>7, <1>8, SessionStep

\* The commit stores an address that is no one else's.
LEMMA CommitUserInv ==
  ASSUME AccountsInv, NEW r \in Registers, CommitUser(r)
  PROVE  AccountsInv'
<1> USE Kinds
<1> DEFINE e == call[r].email
<1>1. /\ call[r].pc = "commit" /\ To(r, "refresh") /\ link' = link
      /\ email' = [email EXCEPT ![r] = e]
      /\ password' \in {password, password \cup {r}}
  BY DEF CommitUser
<1>2. /\ email \in [UserIds -> Email \cup {None}] /\ password \subseteq UserIds /\ e \in Email
      /\ link \in [Logins -> Link \cup {None}]
      /\ RowsFit /\ NobodyIsLockedOut /\ AddressInv(r) /\ call' \in [Calls -> Session]
  BY <1>1, CommitFrame DEF AccountsInv, TypeOK, SessionInv
<1>3. \A u \in UserIds : email'[u] = IF u = r THEN e ELSE email[u] BY <1>1, <1>2
<1>4. Writes(r, e) /\ e # None BY <1>1, <1>2, AccountsAssumption DEF Writes
<1>5. \A u \in UserIds : email[u] # e BY <1>2, <1>4 DEF AddressInv
<1>6. TypeOK'
  <2>1. email' \in [UserIds -> Email \cup {None}] BY <1>1, <1>2
  <2>2. QED BY <2>1, <1>1, <1>2 DEF TypeOK
<1>7. /\ \A u \in UserIds : Exists(u) => Exists(u)'
      /\ \A u \in UserIds \ {r} : Exists(u)' => Exists(u)
      /\ \A u : Linked(u)' = Linked(u)
  BY <1>1, <1>3, <1>4 DEF Exists, Linked
<1>8. RowsFit'
  <2>1. ASSUME NEW u \in UserIds, NEW v \in UserIds, Exists(u)', email'[u] = email'[v] PROVE u = v
    BY <2>1, <1>2, <1>3, <1>5 DEF RowsFit, Exists
  <2>2. \A l \in Logins : link[l] # None => email'[link[l].user] # None
    BY <1>2, <1>7 DEF RowsFit, Exists, Link
  <2>3. QED BY <2>1, <2>2, <1>1, <1>2 DEF RowsFit, Exists
<1>9. NobodyIsLockedOut' BY <1>2, <1>7 DEF NobodyIsLockedOut
<1>10. \A f \in Email, u \in UserIds : email'[u] = f => email[u] = f \/ Writes(r, f)
  BY <1>3, <1>4
<1>11. \A u \in UserIds : RowHolders(u) \ {r} # {} => Exists(u)'
  BY <1>7 DEF AccountsInv, RowInv
<1>12. \A d \in Deletes \ {r}, u \in UserIds :
         call[d].pc = "commit" /\ call[d].user = u => ~Linked(u)'
  BY <1>7 DEF AccountsInv, RowInv
<1>13. \A l \in Logins \ {r}, u \in UserIds :
         /\ link'[l] = link[l]
         /\ call[l].pc = "commit" /\ call[l].user = u => u = l \/ Exists(u)'
  BY <1>1, <1>7 DEF AccountsInv, LinkInv
<1>14. QED BY <1>1, <1>6, <1>7, <1>8, <1>9, <1>10, <1>11, <1>12, <1>13, AfterCommit

\* The steps of a registration.
LEMMA RegisterStepInv ==
  ASSUME AccountsInv, NEW r \in Registers, RegisterStep(r)
  PROVE  AccountsInv'
<1> USE Kinds
<1>1. CASE CheckEmail(r)
  <2>1. PICK state \in {"conflict", "insert"} : To(r, state) BY <1>1 DEF CheckEmail
  <2>2. QED BY <1>1, <2>1, ToStep DEF CheckEmail, CallStates, Ended
<1>2. CASE InsertUser(r)
  <2>1. CASE EmailExists(call[r].email)
    <3>1. /\ call' = [call EXCEPT ![r].user = r, ![r].pc = "conflict"]
          /\ call[r].pc = "insert" /\ UNCHANGED Stored
      BY <1>2, <2>1 DEF InsertUser
    <3>2. call \in [Calls -> Session] /\ SessionInv(r) /\ FreshInv(r)
      BY DEF AccountsInv, TypeOK
    <3>3. /\ call' \in [Calls -> Session]
          /\ call'[r].pc = "conflict" /\ call'[r].email = call[r].email
          /\ \A x \in Calls \ {r} : call'[x] = call[x]
      BY <3>1, <3>2 DEF Session, CallStates, Ended
    <3>4. Free(r)' BY <3>3 DEF Free
    <3>5. SessionInv(r)' BY <3>1, <3>2, <3>3 DEF SessionInv
    <3>6. FreshInv(r)' BY <3>1, <3>2, <3>3 DEF FreshInv, Exists, Stored
    <3>7. QED BY <3>1, <3>3, <3>4, <3>5, <3>6, LocalStep
  <2>2. CASE ~EmailExists(call[r].email) BY <1>2, <2>2, PinUser
  <2>3. QED BY <2>1, <2>2
<1>3. CASE CommitUser(r) BY <1>3, CommitUserInv
<1>4. QED BY <1>1, <1>2, <1>3 DEF RegisterStep

(***************************************************************************)
(* Logging in.                                                             *)
(***************************************************************************)
\* The look-ups: by identity, of the user, by address.
LEMMA LookUpInv ==
  ASSUME AccountsInv, NEW l \in Logins, FindIdentity(l) \/ LoadUser(l) \/ FindByEmail(l)
  PROVE  AccountsInv'
<1> USE Kinds
<1>1. /\ call \in [Calls -> Session] /\ call[l] \in Session
      /\ link \in [Logins -> Link \cup {None}]
      /\ SessionInv(l) /\ FreshInv(l)
  BY DEF AccountsInv, TypeOK
<1>2. CASE FindIdentity(l)
  <2>1. CASE To(l, "find") BY <1>2, <2>1, ToStep DEF FindIdentity, CallStates
  <2>2. CASE \E m \in Logins :
               /\ link[m] # None /\ link[m].identity = call[l].identity
               /\ call' = [call EXCEPT ![l].user = link[m].user, ![l].pc = "load"]
    <3>1. PICK m \in Logins :
            /\ link[m] # None /\ link[m].identity = call[l].identity
            /\ call' = [call EXCEPT ![l].user = link[m].user, ![l].pc = "load"]
      BY <2>2
    <3>2. link[m] \in Link BY <1>1, <3>1
    <3>3. /\ call' \in [Calls -> Session]
          /\ call'[l].pc = "load" /\ call'[l].user = link[m].user
          /\ call'[l].email = call[l].email /\ call'[l].identity = call[l].identity
          /\ \A x \in Calls \ {l} : call'[x] = call[x]
      BY <1>1, <3>1, <3>2 DEF Session, CallStates, Link
    <3>4. call[l].pc = "identity" /\ UNCHANGED Stored BY <1>2 DEF FindIdentity
    <3>5. Free(l)' BY <3>3 DEF Free
    <3>6. SessionInv(l)' BY <1>1, <3>2, <3>3, <3>4 DEF SessionInv, Link
    <3>7. FreshInv(l)' BY <1>1, <3>3, <3>4 DEF FreshInv, Exists, Stored
    <3>8. link[m] = [user |-> link[m].user, identity |-> link[m].identity] BY <3>2 DEF Link
    <3>9. FoundInv(l)' BY <3>1, <3>3, <3>4, <3>8 DEF FoundInv, Stored
    <3>10. QED BY <3>3, <3>4, <3>5, <3>6, <3>7, <3>9, LocalStep
  <2>3. QED BY <1>2, <2>1, <2>2 DEF FindIdentity
<1>3. CASE LoadUser(l)
  <2>1. PICK state \in {"refresh", "refused"} : To(l, state) BY <1>3 DEF LoadUser
  <2>2. QED BY <1>3, <2>1, ToStep DEF LoadUser, CallStates, Ended
<1>4. CASE FindByEmail(l)
  <2>1. CASE To(l, "user") BY <1>4, <2>1, ToStep DEF FindByEmail, CallStates
  <2>2. CASE \E u \in UserIds :
               email[u] = call[l].email /\ call' = [call EXCEPT ![l].user = u, ![l].pc = "link"]
    <3>1. PICK u \in UserIds :
            email[u] = call[l].email /\ call' = [call EXCEPT ![l].user = u, ![l].pc = "link"]
      BY <2>2
    <3>2. call[l].pc = "find" /\ UNCHANGED Stored BY <1>4 DEF FindByEmail
    <3>3. u # l
      BY <1>1, <3>1, <3>2, AccountsAssumption DEF SessionInv, FreshInv, Exists
    <3>4. /\ call' \in [Calls -> Session]
          /\ call'[l].pc = "link" /\ call'[l].user = u
          /\ call'[l].email = call[l].email /\ call'[l].identity = call[l].identity
          /\ \A x \in Calls \ {l} : call'[x] = call[x]
      BY <1>1, <3>1 DEF Session, CallStates
    <3>5. Free(l)' BY <3>3, <3>4 DEF Free
    <3>6. SessionInv(l)' BY <1>1, <3>2, <3>4 DEF SessionInv
    <3>7. FreshInv(l)' BY <1>1, <3>2, <3>4 DEF FreshInv, Exists, Stored
    <3>8. FoundInv(l)' BY <3>4 DEF FoundInv
    <3>9. QED BY <3>2, <3>4, <3>5, <3>6, <3>7, <3>8, LocalStep
  <2>3. QED BY <1>4, <2>1, <2>2 DEF FindByEmail
<1>5. QED BY <1>2, <1>3, <1>4

\* A new user takes an address that the unique key finds free.
LEMMA InsertOAuthUserInv ==
  ASSUME AccountsInv, NEW l \in Logins, InsertOAuthUser(l)
  PROVE  AccountsInv'
<1> USE Kinds
<1>0. PICK e : e = call[l].email OBVIOUS
<1>1. /\ call \in [Calls -> Session] /\ call[l] \in Session /\ SessionInv(l) /\ FreshInv(l)
  BY DEF AccountsInv, TypeOK
<1>2. call[l].pc = "user" /\ EmailHolders(e) \ {l} = {} /\ UNCHANGED Stored
  BY <1>0 DEF InsertOAuthUser, Blockers
<1>3. CASE EmailExists(e)
  <2>1. To(l, "failed") BY <1>0, <1>3 DEF InsertOAuthUser, To
  <2>2. QED BY <1>2, <2>1, ToStep DEF CallStates, Ended
<1>4. CASE ~EmailExists(e)
  <2>1. call' = [call EXCEPT ![l].user = l, ![l].pc = "link"]
    BY <1>0, <1>4 DEF InsertOAuthUser
  <2>2. /\ call' \in [Calls -> Session]
        /\ call'[l].pc = "link" /\ call'[l].user = l /\ call'[l].email = e
        /\ call'[l].identity = call[l].identity
        /\ \A x \in Calls \ {l} : call'[x] = call[x]
    BY <1>0, <1>1, <2>1 DEF Session, CallStates
  <2>3. SessionInv(l)' BY <1>0, <1>1, <1>2, <2>2 DEF SessionInv
  <2>4. FreshInv(l)' BY <1>1, <1>2, <2>2 DEF FreshInv, Exists, Stored
  <2>5. AddressInv(l)'
    <3>1. ASSUME NEW x \in Calls \ {l} PROVE ~Writes(x, e)'
      <4>1. ~Writes(x, e) BY <1>2 DEF Writes, EmailHolders
      <4>2. QED BY <4>1, <2>2 DEF Writes
    <3>2. \A f : Writes(l, f)' => f = e BY <2>2 DEF Writes
    <3>3. \A u \in UserIds : email'[u] # e BY <1>2, <1>4 DEF EmailExists, Stored
    <3>4. QED BY <3>1, <3>2, <3>3 DEF AddressInv
  <2>6. LinkInv(l)' /\ FoundInv(l)' BY <2>2 DEF LinkInv, FoundInv
  <2>7. \A u \in UserIds : RowInv(u)'
    <3>1. \A u : RowHolders(u)' = RowHolders(u) /\ RowSharers(u)' = RowSharers(u)
      BY <1>2, <2>2 DEF RowHolders, RowSharers
    <3>2. QED BY <3>1, <1>2, <2>2, RowsKept
  <2>8. QED BY <1>2, <2>2, <2>3, <2>4, <2>5, <2>6, <2>7, SessionStep
<1>5. QED BY <1>3, <1>4

\* The link takes its keys, which no other link has.
LEMMA PinLink ==
  ASSUME AccountsInv, NEW l \in Logins, InsertLink(l), To(l, "share"),
         \A m \in Logins :
           link[m] # None =>
             ~SameKey(call[l].user, call[l].identity, link[m].user, link[m].identity)
  PROVE  AccountsInv'
<1> USE Kinds
<1>1. SessionInv(l) /\ FreshInv(l) /\ AddressInv(l) BY DEF AccountsInv
<1>2. call[l].pc = "link" /\ LinkHolders(l) = {} /\ UNCHANGED Stored
  BY DEF InsertLink, Blockers
<1>3. /\ call' \in [Calls -> Session]
      /\ call'[l].pc = "share" /\ call'[l].user = call[l].user
      /\ call'[l].email = call[l].email /\ call'[l].identity = call[l].identity
      /\ \A x \in Calls \ {l} : call'[x] = call[x]
  BY ToSession DEF AccountsInv, CallStates
<1>4. SessionInv(l)' BY <1>1, <1>2, <1>3 DEF SessionInv
<1>5. FreshInv(l)' BY <1>1, <1>2, <1>3 DEF FreshInv, Exists, Stored
<1>6. \A x \in Calls : \A e : Writes(x, e)' <=> Writes(x, e) BY <1>2, <1>3 DEF Writes
<1>7. AddressInv(l)' BY <1>1, <1>2, <1>3, <1>6 DEF AddressInv, Stored
<1>8. LinkInv(l)'
  <2>1. LinkHolders(l)' = LinkHolders(l) BY <1>3 DEF LinkHolders
  <2>2. QED BY <2>1, <1>2, <1>3 DEF LinkInv, Stored
<1>9. FoundInv(l)' BY <1>3 DEF FoundInv
<1>10. \A u \in UserIds : RowInv(u)'
  <2>1. \A u : RowHolders(u)' = RowHolders(u) /\ RowSharers(u)' = RowSharers(u)
    BY <1>2, <1>3 DEF RowHolders, RowSharers
  <2>2. QED BY <2>1, <1>2, <1>3, RowsKept
<1>11. QED BY <1>2, <1>3, <1>4, <1>5, <1>7, <1>8, <1>9, <1>10, SessionStep

\* The foreign key finds the user, whom no session updates or deletes.
LEMMA PinShare ==
  ASSUME AccountsInv, NEW l \in Logins, ShareUser(l), To(l, "commit"),
         call[l].user = l \/ Exists(call[l].user)
  PROVE  AccountsInv'
<1> USE Kinds
<1>0. PICK v : v = call[l].user OBVIOUS
<1>1. SessionInv(l) /\ FreshInv(l) /\ AddressInv(l) /\ LinkInv(l) BY DEF AccountsInv
<1>2. call[l].pc = "share" /\ RowHolders(v) = {} /\ UNCHANGED Stored
  BY <1>0 DEF ShareUser, Blockers
<1>3. /\ call' \in [Calls -> Session]
      /\ call'[l].pc = "commit" /\ call'[l].user = v
      /\ call'[l].email = call[l].email /\ call'[l].identity = call[l].identity
      /\ \A x \in Calls \ {l} : call'[x] = call[x]
  BY <1>0, ToSession DEF AccountsInv, CallStates
<1>4. SessionInv(l)' BY <1>0, <1>1, <1>2, <1>3 DEF SessionInv
<1>5. FreshInv(l)' BY <1>1, <1>2, <1>3 DEF FreshInv, Exists, Stored
<1>6. \A x \in Calls : \A e : Writes(x, e)' <=> Writes(x, e)
  BY <1>0, <1>2, <1>3 DEF Writes
<1>7. AddressInv(l)' BY <1>1, <1>2, <1>3, <1>6 DEF AddressInv, Stored
<1>8. LinkInv(l)'
  <2>1. LinkHolders(l)' = LinkHolders(l) BY <1>0, <1>3 DEF LinkHolders
  <2>2. v = l \/ Exists(v)' BY <1>0, <1>2 DEF Exists, Stored
  <2>3. QED BY <2>1, <2>2, <1>0, <1>1, <1>2, <1>3 DEF LinkInv, Exists, Stored
<1>9. FoundInv(l)' BY <1>3 DEF FoundInv
<1>10. ASSUME NEW u \in UserIds PROVE RowInv(u)'
  <2>1. RowInv(u) BY DEF AccountsInv
  <2>2. RowHolders(u)' = RowHolders(u) BY <1>3 DEF RowHolders
  <2>3. u # v => RowSharers(u)' = RowSharers(u) BY <1>2, <1>3 DEF RowSharers
  <2>4. Exists(u)' = Exists(u) /\ Linked(u)' = Linked(u) BY <1>2 DEF Exists, Linked, Stored
  <2>5. \A d \in Deletes : call'[d] = call[d] BY <1>3
  <2>6. QED BY <2>1, <2>2, <2>3, <2>4, <2>5, <1>2 DEF RowInv
<1>11. QED BY <1>2, <1>3, <1>4, <1>5, <1>7, <1>8, <1>9, <1>10, SessionStep

\* The commit stores a link that fits all others, to a user that stays or is new.
LEMMA CommitLoginInv ==
  ASSUME AccountsInv, NEW l \in Logins, CommitLogin(l)
  PROVE  AccountsInv'
<1> USE Kinds
<1>0. PICK u, i, e : u = call[l].user /\ i = call[l].identity /\ e = call[l].email OBVIOUS
<1>1. /\ call[l].pc = "commit" /\ To(l, "refresh") /\ password' = password
      /\ email' = IF u = l THEN [email EXCEPT ![l] = e] ELSE email
      /\ link' = [link EXCEPT ![l] = [user |-> u, identity |-> i]]
  BY <1>0 DEF CommitLogin
<1>2. /\ email \in [UserIds -> Email \cup {None}] /\ password \in SUBSET UserIds
      /\ link \in [Logins -> Link \cup {None}]
      /\ RowsFit /\ NobodyIsLockedOut /\ AddressInv(l) /\ LinkInv(l) /\ SessionInv(l) /\ FreshInv(l)
      /\ call' \in [Calls -> Session]
  BY <1>1, CommitFrame DEF AccountsInv, TypeOK
<1>3. u \in UserIds /\ i \in Identity /\ e \in Email /\ e # None
  BY <1>0, <1>1, <1>2, AccountsAssumption DEF SessionInv
<1>4. ~Exists(l) /\ link[l] = None BY <1>1, <1>2 DEF FreshInv
<1>5. \A x \in UserIds : email'[x] = IF x = l /\ u = l THEN e ELSE email[x] BY <1>1, <1>2
<1>6. u = l => Writes(l, e) BY <1>0, <1>1 DEF Writes
<1>7. u = l => \A x \in UserIds : email[x] # e BY <1>2, <1>3, <1>6 DEF AddressInv
<1>8. /\ link'[l] = [user |-> u, identity |-> i] /\ link'[l] # None
      /\ \A m \in Logins \ {l} : link'[m] = link[m]
  <2>1. [user |-> u, identity |-> i] \in Link BY <1>3 DEF Link
  <2>2. QED BY <2>1, <1>1, <1>2, AccountsAssumption
<1>9. TypeOK'
  <2>1. email' \in [UserIds -> Email \cup {None}] BY <1>1, <1>2, <1>3
  <2>2. link' \in [Logins -> Link \cup {None}]
    <3>1. [user |-> u, identity |-> i] \in Link BY <1>3 DEF Link
    <3>2. QED BY <3>1, <1>1, <1>2
  <2>3. QED BY <2>1, <2>2, <1>1, <1>2 DEF TypeOK
<1>10. /\ \A x \in UserIds : Exists(x) => Exists(x)'
       /\ \A x \in UserIds \ {l} : Exists(x)' => Exists(x)
       /\ Exists(u)'
  <2>1. u = l \/ Exists(u) BY <1>0, <1>1, <1>2 DEF LinkInv
  <2>2. QED BY <2>1, <1>3, <1>5 DEF Exists
<1>11. /\ \A x : Linked(x) => Linked(x)'
       /\ \A x : Linked(x)' => Linked(x) \/ x = u
       /\ Linked(u)'
  <2>1. \A x : Linked(x) => Linked(x)' BY <1>4, <1>8 DEF Linked
  <2>2. \A x : Linked(x)' => Linked(x) \/ x = u BY <1>8 DEF Linked
  <2>3. Linked(u)' BY <1>8 DEF Linked
  <2>4. QED BY <2>1, <2>2, <2>3
<1>12. RowsFit'
  <2>1. ASSUME NEW x \in UserIds, NEW y \in UserIds, Exists(x)', email'[x] = email'[y] PROVE x = y
    BY <2>1, <1>2, <1>5, <1>7 DEF RowsFit, Exists
  <2>2. ASSUME NEW m \in Logins, NEW n \in Logins, link'[m] # None, link'[n] # None,
               SameKey(link'[m].user, link'[m].identity, link'[n].user, link'[n].identity)
        PROVE m = n
    <3>1. \A k \in Logins : link[k] # None => ~SameKey(u, i, link[k].user, link[k].identity)
      BY <1>0, <1>1, <1>2 DEF LinkInv
    <3>2. CASE m = l
      <4>1. SUFFICES ASSUME n # l PROVE FALSE BY <3>2
      <4>2. SameKey(u, i, link[n].user, link[n].identity) /\ link[n] # None
        BY <2>2, <3>2, <4>1, <1>8
      <4>3. QED BY <3>1, <4>2
    <3>3. CASE n = l
      <4>1. SUFFICES ASSUME m # l PROVE FALSE BY <3>3
      <4>2. SameKey(link[m].user, link[m].identity, u, i) /\ link[m] # None
        BY <2>2, <3>3, <4>1, <1>8
      <4>3. QED BY <3>1, <4>2, SameKeySymmetric
    <3>4. CASE m # l /\ n # l BY <2>2, <3>4, <1>2, <1>8 DEF RowsFit
    <3>5. QED BY <3>2, <3>3, <3>4
  <2>3. ASSUME NEW m \in Logins, link'[m] # None PROVE email'[link'[m].user] # None
    <3>1. CASE m = l BY <3>1, <1>8, <1>10 DEF Exists
    <3>2. CASE m # l
      <4>1. link[m] \in Link /\ Exists(link[m].user) BY <2>3, <3>2, <1>2, <1>8 DEF RowsFit
      <4>2. PICK x \in UserIds : x = link[m].user BY <4>1 DEF Link
      <4>3. Exists(x)' BY <4>1, <4>2, <1>10
      <4>4. QED BY <4>2, <4>3, <3>2, <1>8 DEF Exists
    <3>3. QED BY <3>1, <3>2
  <2>4. QED BY <2>1, <2>2, <2>3 DEF RowsFit, Exists
<1>13. NobodyIsLockedOut'
  <2>1. ASSUME NEW m \in Logins, Exists(m)' PROVE Linked(m)'
    <3>1. Exists(m) \/ m = u BY <2>1, <1>4, <1>5 DEF Exists
    <3>2. QED BY <3>1, <1>2, <1>11 DEF NobodyIsLockedOut
  <2>2. QED BY <2>1 DEF NobodyIsLockedOut
<1>14. \A f \in Email, x \in UserIds : email'[x] = f => email[x] = f \/ Writes(l, f)
  BY <1>5, <1>6
<1>15. \A x \in UserIds : RowHolders(x) \ {l} # {} => Exists(x)'
  BY <1>10 DEF AccountsInv, RowInv
<1>16. ASSUME NEW d \in Deletes \ {l}, NEW x \in UserIds, call[d].pc = "commit", call[d].user = x
       PROVE  ~Linked(x)'
  <2>1. RowInv(x) BY DEF AccountsInv
  <2>2. d \in RowHolders(x) BY <1>16 DEF RowHolders
  <2>3. x # u BY <2>1, <2>2, <1>0, <1>1 DEF RowInv, RowSharers
  <2>4. QED BY <2>1, <2>3, <1>11, <1>16 DEF RowInv
<1>17. \A m \in Logins \ {l}, x \in UserIds :
         /\ link'[m] = link[m]
         /\ call[m].pc = "commit" /\ call[m].user = x => x = m \/ Exists(x)'
  BY <1>8, <1>10 DEF AccountsInv, LinkInv
<1>18. link'[l] = [user |-> call[l].user, identity |-> call[l].identity] BY <1>0, <1>8
<1>19. QED BY <1>1, <1>9, <1>10, <1>12, <1>13, <1>14, <1>15, <1>16, <1>17, <1>18, AfterCommit

\* The steps of a login.
LEMMA LoginStepInv ==
  ASSUME AccountsInv, NEW l \in Logins, LoginStep(l)
  PROVE  AccountsInv'
<1> USE Kinds
<1>1. CASE FindIdentity(l) \/ LoadUser(l) \/ FindByEmail(l) BY <1>1, LookUpInv
<1>2. CASE InsertOAuthUser(l) BY <1>2, InsertOAuthUserInv
<1>3. CASE InsertLink(l)
  <2>1. CASE \E m \in Logins :
               link[m] # None /\ SameKey(call[l].user, call[l].identity, link[m].user, link[m].identity)
    <3>1. To(l, "conflict") BY <1>3, <2>1 DEF InsertLink
    <3>2. QED BY <1>3, <3>1, ToStep DEF InsertLink, CallStates, Ended
  <2>2. CASE \A m \in Logins :
               link[m] # None => ~SameKey(call[l].user, call[l].identity, link[m].user, link[m].identity)
    <3>1. To(l, "share") BY <1>3, <2>2 DEF InsertLink
    <3>2. QED BY <1>3, <2>2, <3>1, PinLink
  <2>3. QED BY <2>1, <2>2
<1>4. CASE ShareUser(l)
  <2>1. CASE call[l].user = l \/ Exists(call[l].user)
    <3>1. To(l, "commit") BY <1>4, <2>1 DEF ShareUser
    <3>2. QED BY <1>4, <2>1, <3>1, PinShare
  <2>2. CASE ~(call[l].user = l \/ Exists(call[l].user))
    <3>1. To(l, "conflict") BY <1>4, <2>2 DEF ShareUser
    <3>2. QED BY <1>4, <3>1, ToStep DEF ShareUser, CallStates, Ended
  <2>3. QED BY <2>1, <2>2
<1>5. CASE CommitLogin(l) BY <1>5, CommitLoginInv
<1>6. QED BY <1>1, <1>2, <1>3, <1>4, <1>5 DEF LoginStep

(***************************************************************************)
(* Changing an address.                                                    *)
(***************************************************************************)
\* The UPDATE finds the row free and keeps it.
LEMMA PinRow ==
  ASSUME AccountsInv, NEW d \in Edits, UpdateEmail(d), To(d, "key"), Exists(call[d].user)
  PROVE  AccountsInv'
<1> USE Kinds
<1>0. PICK v : v = call[d].user OBVIOUS
<1>1. SessionInv(d) BY DEF AccountsInv
<1>2. call[d].pc = "update" /\ RowHolders(v) = {} /\ RowSharers(v) = {} /\ UNCHANGED Stored
  BY <1>0 DEF UpdateEmail, Blockers
<1>3. /\ call' \in [Calls -> Session]
      /\ call'[d].pc = "key" /\ call'[d].user = v /\ call'[d].email = call[d].email
      /\ \A x \in Calls \ {d} : call'[x] = call[x]
  BY <1>0, ToSession DEF AccountsInv, CallStates
<1>4. SessionInv(d)' BY <1>0, <1>1, <1>2, <1>3 DEF SessionInv
<1>5. FreshInv(d)' BY DEF FreshInv
<1>6. AddressInv(d)' BY <1>3 DEF AddressInv, Writes
<1>7. ASSUME NEW u \in UserIds PROVE RowInv(u)'
  <2>1. RowInv(u) BY DEF AccountsInv
  <2>2. RowSharers(u)' = RowSharers(u) BY <1>3 DEF RowSharers
  <2>3. RowHolders(u)' = IF u = v THEN {d} ELSE RowHolders(u)
    <3>1. CASE u = v
      <4>1. \A x \in Calls \ {d} : x \notin RowHolders(u)' BY <3>1, <1>2, <1>3 DEF RowHolders
      <4>2. d \in RowHolders(u)' BY <3>1, <1>3 DEF RowHolders
      <4>3. QED BY <3>1, <4>1, <4>2 DEF RowHolders
    <3>2. CASE u # v BY <3>2, <1>2, <1>3 DEF RowHolders
    <3>3. QED BY <3>1, <3>2
  <2>4. Exists(u)' = Exists(u) /\ Linked(u)' = Linked(u) BY <1>2 DEF Exists, Linked, Stored
  <2>5. \A x \in Deletes : call'[x] = call[x] BY <1>3
  <2>6. QED BY <2>1, <2>2, <2>3, <2>4, <2>5, <1>0, <1>2 DEF RowInv
<1>8. QED BY <1>2, <1>3, <1>4, <1>5, <1>6, <1>7, SessionStep

\* The unique key finds the address with no other user, and keeps it.
LEMMA PinAddress ==
  ASSUME AccountsInv, NEW d \in Edits, CheckKey(d), To(d, "commit"),
         \A v \in UserIds \ {call[d].user} : email[v] # call[d].email
  PROVE  AccountsInv'
<1> USE Kinds
<1>0. PICK v, e : v = call[d].user /\ e = call[d].email OBVIOUS
<1>1. SessionInv(d) BY DEF AccountsInv
<1>2. call[d].pc = "key" /\ EmailHolders(e) \ {d} = {} /\ UNCHANGED Stored
  BY <1>0 DEF CheckKey, Blockers
<1>3. /\ call' \in [Calls -> Session]
      /\ call'[d].pc = "commit" /\ call'[d].user = v /\ call'[d].email = e
      /\ \A x \in Calls \ {d} : call'[x] = call[x]
  BY <1>0, ToSession DEF AccountsInv, CallStates
<1>4. SessionInv(d)' BY <1>0, <1>1, <1>2, <1>3 DEF SessionInv
<1>5. FreshInv(d)' BY DEF FreshInv
<1>6. AddressInv(d)'
  <2>1. ASSUME NEW x \in Calls \ {d} PROVE ~Writes(x, e)'
    <3>1. ~Writes(x, e) BY <1>2 DEF Writes, EmailHolders
    <3>2. QED BY <3>1, <1>3 DEF Writes
  <2>2. \A f : Writes(d, f)' => f = e BY <1>3 DEF Writes
  <2>3. \A u \in UserIds : email'[u] = e => u = v BY <1>0, <1>2 DEF Stored
  <2>4. QED BY <2>1, <2>2, <2>3, <1>3 DEF AddressInv
<1>7. \A u \in UserIds : RowInv(u)'
  <2>1. \A u : RowHolders(u)' = RowHolders(u) /\ RowSharers(u)' = RowSharers(u)
    BY <1>0, <1>2, <1>3 DEF RowHolders, RowSharers
  <2>2. QED BY <2>1, <1>2, <1>3, RowsKept
<1>8. QED BY <1>2, <1>3, <1>4, <1>5, <1>6, <1>7, SessionStep

\* The commit gives a user that is still there an address that is no one else's.
LEMMA CommitEmailInv ==
  ASSUME AccountsInv, NEW d \in Edits, CommitEmail(d)
  PROVE  AccountsInv'
<1> USE Kinds
<1>0. PICK v, e : v = call[d].user /\ e = call[d].email OBVIOUS
<1>1. /\ call[d].pc = "commit" /\ To(d, "refresh") /\ link' = link /\ password' = password
      /\ email' = [email EXCEPT ![v] = e]
  BY <1>0 DEF CommitEmail
<1>2. /\ email \in [UserIds -> Email \cup {None}] /\ password \in SUBSET UserIds
      /\ link \in [Logins -> Link \cup {None}]
      /\ RowsFit /\ NobodyIsLockedOut /\ AddressInv(d) /\ SessionInv(d)
      /\ call' \in [Calls -> Session]
  BY <1>1, CommitFrame DEF AccountsInv, TypeOK
<1>3. v \in UserIds /\ e \in Email /\ e # None
  BY <1>0, <1>1, <1>2, AccountsAssumption DEF SessionInv
<1>4. Exists(v)
  <2>1. d \in RowHolders(v) BY <1>0, <1>1 DEF RowHolders
  <2>2. QED BY <2>1, <1>3 DEF AccountsInv, RowInv
<1>5. Writes(d, e) BY <1>0, <1>1 DEF Writes
<1>6. \A x \in UserIds : email[x] = e => x = v BY <1>0, <1>2, <1>3, <1>5 DEF AddressInv
<1>7. \A x \in UserIds : email'[x] = IF x = v THEN e ELSE email[x] BY <1>1, <1>2
<1>8. /\ \A x \in UserIds : Exists(x)' <=> Exists(x)
      /\ \A x : Linked(x)' = Linked(x)
  BY <1>1, <1>3, <1>4, <1>7 DEF Exists, Linked
<1>9. TypeOK'
  <2>1. email' \in [UserIds -> Email \cup {None}] BY <1>1, <1>2, <1>3
  <2>2. QED BY <2>1, <1>1, <1>2 DEF TypeOK
<1>10. RowsFit'
  <2>1. ASSUME NEW x \in UserIds, NEW y \in UserIds, Exists(x)', email'[x] = email'[y] PROVE x = y
    BY <2>1, <1>2, <1>6, <1>7 DEF RowsFit, Exists
  <2>2. \A l \in Logins : link[l] # None => email'[link[l].user] # None
    BY <1>2, <1>8 DEF RowsFit, Exists, Link
  <2>3. QED BY <2>1, <2>2, <1>1, <1>2 DEF RowsFit, Exists
<1>11. NobodyIsLockedOut' BY <1>2, <1>8 DEF NobodyIsLockedOut
<1>12. \A f \in Email, x \in UserIds : email'[x] = f => email[x] = f \/ Writes(d, f)
  BY <1>5, <1>7
<1>13. \A x \in UserIds : RowHolders(x) \ {d} # {} => Exists(x)'
  BY <1>8 DEF AccountsInv, RowInv
<1>14. \A x \in Deletes \ {d}, u \in UserIds :
         call[x].pc = "commit" /\ call[x].user = u => ~Linked(u)'
  BY <1>8 DEF AccountsInv, RowInv
<1>15. \A l \in Logins \ {d}, u \in UserIds :
         /\ link'[l] = link[l]
         /\ call[l].pc = "commit" /\ call[l].user = u => u = l \/ Exists(u)'
  BY <1>1, <1>8 DEF AccountsInv, LinkInv
<1>16. QED BY <1>1, <1>8, <1>9, <1>10, <1>11, <1>12, <1>13, <1>14, <1>15, AfterCommit

\* The steps of an edit.
LEMMA EditStepInv ==
  ASSUME AccountsInv, NEW d \in Edits, EditStep(d)
  PROVE  AccountsInv'
<1> USE Kinds
<1>1. CASE CheckAddress(d)
  <2>1. PICK state \in {"refresh", "conflict", "update"} : To(d, state) BY <1>1 DEF CheckAddress
  <2>2. QED BY <1>1, <2>1, ToStep DEF CheckAddress, CallStates, Ended
<1>2. CASE UpdateEmail(d)
  <2>1. CASE Exists(call[d].user)
    <3>1. To(d, "key") BY <1>2, <2>1 DEF UpdateEmail
    <3>2. QED BY <1>2, <2>1, <3>1, PinRow
  <2>2. CASE ~Exists(call[d].user)
    <3>1. To(d, "failed") BY <1>2, <2>2 DEF UpdateEmail
    <3>2. QED BY <1>2, <3>1, ToStep DEF UpdateEmail, CallStates, Ended
  <2>3. QED BY <2>1, <2>2
<1>3. CASE CheckKey(d)
  <2>1. CASE \E v \in UserIds \ {call[d].user} : email[v] = call[d].email
    <3>1. To(d, "conflict") BY <1>3, <2>1 DEF CheckKey
    <3>2. QED BY <1>3, <3>1, ToStep DEF CheckKey, CallStates, Ended
  <2>2. CASE \A v \in UserIds \ {call[d].user} : email[v] # call[d].email
    <3>1. To(d, "commit") BY <1>3, <2>2 DEF CheckKey
    <3>2. QED BY <1>3, <2>2, <3>1, PinAddress
  <2>3. QED BY <2>1, <2>2
<1>4. CASE CommitEmail(d) BY <1>4, CommitEmailInv
<1>5. QED BY <1>1, <1>2, <1>3, <1>4 DEF EditStep

(***************************************************************************)
(* Deleting a user.                                                        *)
(***************************************************************************)
\* The DELETE finds the row free and without links, and keeps it.
LEMMA PinDelete ==
  ASSUME AccountsInv, NEW d \in Deletes, DeleteUser(d), To(d, "commit"),
         Exists(call[d].user), ~Linked(call[d].user)
  PROVE  AccountsInv'
<1> USE Kinds
<1>0. PICK v : v = call[d].user OBVIOUS
<1>1. SessionInv(d) BY DEF AccountsInv
<1>2. call[d].pc = "erase" /\ RowHolders(v) = {} /\ RowSharers(v) = {} /\ UNCHANGED Stored
  BY <1>0 DEF DeleteUser, Blockers
<1>3. /\ call' \in [Calls -> Session]
      /\ call'[d].pc = "commit" /\ call'[d].user = v /\ call'[d].email = call[d].email
      /\ \A x \in Calls \ {d} : call'[x] = call[x]
  BY <1>0, ToSession DEF AccountsInv, CallStates
<1>4. SessionInv(d)' BY <1>0, <1>1, <1>2, <1>3 DEF SessionInv
<1>5. FreshInv(d)' BY DEF FreshInv
<1>6. AddressInv(d)' BY DEF AddressInv, Writes
<1>7. ASSUME NEW u \in UserIds PROVE RowInv(u)'
  <2>1. RowInv(u) BY DEF AccountsInv
  <2>2. RowSharers(u)' = RowSharers(u) BY <1>3 DEF RowSharers
  <2>3. RowHolders(u)' = IF u = v THEN {d} ELSE RowHolders(u)
    <3>1. CASE u = v
      <4>1. \A x \in Calls \ {d} : x \notin RowHolders(u)' BY <3>1, <1>2, <1>3 DEF RowHolders
      <4>2. d \in RowHolders(u)' BY <3>1, <1>3 DEF RowHolders
      <4>3. QED BY <3>1, <4>1, <4>2 DEF RowHolders
    <3>2. CASE u # v BY <3>2, <1>2, <1>3 DEF RowHolders
    <3>3. QED BY <3>1, <3>2
  <2>4. Exists(u)' = Exists(u) /\ Linked(u)' = Linked(u) BY <1>2 DEF Exists, Linked, Stored
  <2>5. \A x \in Deletes \ {d} : call'[x] = call[x] BY <1>3
  <2>6. call'[d].user = v BY <1>3
  <2>7. QED BY <2>1, <2>2, <2>3, <2>4, <2>5, <2>6, <1>0, <1>2 DEF RowInv
<1>8. QED BY <1>2, <1>3, <1>4, <1>5, <1>6, <1>7, SessionStep

\* The commit removes a user whom no link needs and no other session is writing.
LEMMA CommitDeleteInv ==
  ASSUME AccountsInv, NEW d \in Deletes, CommitDelete(d)
  PROVE  AccountsInv'
<1> USE Kinds
<1>0. PICK v : v = call[d].user OBVIOUS
<1>1. /\ call[d].pc = "commit" /\ To(d, "answered") /\ link' = link
      /\ password' = password \ {v} /\ email' = [email EXCEPT ![v] = None]
  BY <1>0 DEF CommitDelete
<1>2. /\ email \in [UserIds -> Email \cup {None}] /\ password \in SUBSET UserIds
      /\ link \in [Logins -> Link \cup {None}]
      /\ RowsFit /\ NobodyIsLockedOut /\ SessionInv(d) /\ call' \in [Calls -> Session]
  BY <1>1, CommitFrame DEF AccountsInv, TypeOK
<1>3. v \in UserIds BY <1>0, <1>1, <1>2 DEF SessionInv
<1>4. RowHolders(v) \ {d} = {} /\ RowSharers(v) = {} /\ ~Linked(v)
  <2>1. d \in RowHolders(v) BY <1>0, <1>1 DEF RowHolders
  <2>2. RowInv(v) BY <1>3 DEF AccountsInv
  <2>3. QED BY <2>1, <2>2, <1>0, <1>1 DEF RowInv
<1>5. \A x \in UserIds : email'[x] = IF x = v THEN None ELSE email[x] BY <1>1, <1>2
<1>6. /\ \A x \in UserIds : Exists(x)' <=> Exists(x) /\ x # v
      /\ \A x : Linked(x)' = Linked(x)
  BY <1>1, <1>5 DEF Exists, Linked
<1>7. TypeOK'
  <2>1. email' \in [UserIds -> Email \cup {None}] BY <1>1, <1>2
  <2>2. QED BY <2>1, <1>1, <1>2 DEF TypeOK
<1>8. RowsFit'
  <2>1. ASSUME NEW x \in UserIds, NEW y \in UserIds, Exists(x)', email'[x] = email'[y] PROVE x = y
    BY <2>1, <1>2, <1>5 DEF RowsFit, Exists
  <2>2. ASSUME NEW l \in Logins, link[l] # None PROVE email'[link[l].user] # None
    <3>1. link[l] \in Link /\ Exists(link[l].user) BY <2>2, <1>2 DEF RowsFit
    <3>2. link[l].user # v BY <2>2, <1>4 DEF Linked
    <3>3. QED BY <3>1, <3>2, <1>5 DEF Link, Exists
  <2>3. QED BY <2>1, <2>2, <1>1, <1>2 DEF RowsFit, Exists
<1>9. NobodyIsLockedOut' BY <1>2, <1>6 DEF NobodyIsLockedOut
<1>10. \A f \in Email, x \in UserIds : email'[x] = f => email[x] = f \/ Writes(d, f)
  BY <1>5, AccountsAssumption
<1>11. ASSUME NEW x \in UserIds, RowHolders(x) \ {d} # {} PROVE Exists(x)'
  <2>1. RowInv(x) BY DEF AccountsInv
  <2>2. x # v BY <1>4, <1>11
  <2>3. QED BY <2>1, <2>2, <1>6, <1>11 DEF RowInv
<1>12. \A x \in Deletes \ {d}, u \in UserIds :
         call[x].pc = "commit" /\ call[x].user = u => ~Linked(u)'
  BY <1>6 DEF AccountsInv, RowInv
<1>13. ASSUME NEW l \in Logins \ {d}, NEW u \in UserIds
       PROVE  /\ link'[l] = link[l]
              /\ call[l].pc = "commit" /\ call[l].user = u => u = l \/ Exists(u)'
  <2>1. LinkInv(l) BY DEF AccountsInv
  <2>2. call[l].pc = "commit" /\ call[l].user = u => u # v BY <1>4 DEF RowSharers
  <2>3. QED BY <2>1, <2>2, <1>1, <1>6 DEF LinkInv
<1>14. QED BY <1>1, <1>6, <1>7, <1>8, <1>9, <1>10, <1>11, <1>12, <1>13, AfterCommit

\* The steps of a deletion.
LEMMA DeleteStepInv ==
  ASSUME AccountsInv, NEW d \in Deletes, DeleteStep(d)
  PROVE  AccountsInv'
<1> USE Kinds
<1>1. CASE DeleteUser(d)
  <2>1. CASE Exists(call[d].user) /\ ~Linked(call[d].user)
    <3>1. To(d, "commit") BY <1>1, <2>1 DEF DeleteUser
    <3>2. QED BY <1>1, <2>1, <3>1, PinDelete
  <2>2. CASE ~Exists(call[d].user) \/ Linked(call[d].user)
    <3>1. PICK state \in {"answered", "conflict"} : To(d, state) BY <1>1, <2>2 DEF DeleteUser
    <3>2. QED BY <1>1, <3>1, ToStep DEF DeleteUser, CallStates, Ended
  <2>3. QED BY <2>1, <2>2
<1>2. CASE CommitDelete(d) BY <1>2, CommitDeleteInv
<1>3. QED BY <1>1, <1>2 DEF DeleteStep

(***************************************************************************)
(* The theorems.                                                           *)
(***************************************************************************)
\* Before the first request nothing is inserted and nothing linked.
LEMMA AccountsInit == Init => AccountsInv
<1> USE Kinds
<1> SUFFICES ASSUME Init PROVE AccountsInv OBVIOUS
<1>1. TypeOK
  <2>1. Blank \in Session BY DEF Blank, Session, CallStates
  <2>2. password \in SUBSET UserIds BY DEF Init, UserIds
  <2>3. QED BY <2>1, <2>2 DEF Init, TypeOK
<1>2. /\ \A c \in Calls : call[c].pc = "idle" /\ call[c].user = None
      /\ \A l \in Logins : link[l] = None
  BY DEF Init, Blank
<1>3. \A c \in Registers \cup Logins : ~Exists(c)
  BY AccountsAssumption DEF Init, Calls
<1>4. RowsFit
  <2>1. \A u, v \in UserIds : Exists(u) /\ email[u] = email[v] => u = v
    BY DEF Init, Exists
  <2>2. QED BY <2>1, <1>2 DEF RowsFit
<1>5. NobodyIsLockedOut BY <1>3 DEF NobodyIsLockedOut
<1>6. \A c \in Calls : SessionInv(c) /\ FreshInv(c) /\ AddressInv(c)
  BY <1>2, <1>3 DEF SessionInv, FreshInv, AddressInv, Writes
<1>7. \A u \in UserIds : RowInv(u) BY <1>2 DEF RowInv, RowHolders
<1>8. \A l \in Logins : LinkInv(l) /\ FoundInv(l) BY <1>2 DEF LinkInv, FoundInv
<1>9. QED BY <1>1, <1>4, <1>5, <1>6, <1>7, <1>8 DEF AccountsInv

\* Every step of every request keeps the invariant.
LEMMA AccountsStep == AccountsInv /\ [Next]_vars => AccountsInv'
<1> SUFFICES ASSUME AccountsInv, [Next]_vars PROVE AccountsInv' OBVIOUS
<1>1. CASE UNCHANGED vars
  <2>1. email' = email /\ password' = password /\ link' = link /\ call' = call
    BY <1>1 DEF vars
  <2>2. /\ TypeOK' = TypeOK /\ RowsFit' = RowsFit /\ NobodyIsLockedOut' = NobodyIsLockedOut
    BY <2>1 DEF TypeOK, RowsFit, NobodyIsLockedOut, Exists, Linked
  <2>3. \A c : SessionInv(c)' = SessionInv(c) /\ FreshInv(c)' = FreshInv(c)
    BY <2>1 DEF SessionInv, FreshInv, Exists
  <2>4. \A c : AddressInv(c)' = AddressInv(c) BY <2>1 DEF AddressInv, Writes
  <2>5. \A u : RowInv(u)' = RowInv(u)
    BY <2>1 DEF RowInv, RowHolders, RowSharers, Exists, Linked
  <2>6. \A l : LinkInv(l)' = LinkInv(l) /\ FoundInv(l)' = FoundInv(l)
    BY <2>1 DEF LinkInv, LinkHolders, FoundInv, Exists
  <2>7. QED BY <2>2, <2>3, <2>4, <2>5, <2>6 DEF AccountsInv
<1>2. ASSUME NEW c \in Calls, Start(c) \/ Step(c) \/ CallDies(c) PROVE AccountsInv'
  <2>1. CASE Start(c) BY <2>1, StartInv
  <2>2. CASE c \in Registers /\ RegisterStep(c) BY <2>2, RegisterStepInv
  <2>3. CASE c \in Logins /\ LoginStep(c) BY <2>3, LoginStepInv
  <2>4. CASE c \in Edits /\ EditStep(c) BY <2>4, EditStepInv
  <2>5. CASE c \in Deletes /\ DeleteStep(c) BY <2>5, DeleteStepInv
  <2>6. CASE RefreshUser(c) \/ DeadlockVictim(c) \/ CallDies(c) BY <2>6, EndInv
  <2>7. QED BY <1>2, <2>1, <2>2, <2>3, <2>4, <2>5, <2>6 DEF Step
<1>3. QED BY <1>1, <1>2 DEF Next, Idle

\* No interleaving, deadlock or crash of requests lets one of them commit what no
\* longer fits the committed users and links (user and OAuth repositories).
THEOREM AccountsInvHolds == Spec => []AccountsInv
<1>1. Init => AccountsInv BY AccountsInit
<1>2. AccountsInv /\ [Next]_vars => AccountsInv' BY AccountsStep
<1>3. QED BY <1>1, <1>2, PTL DEF Spec

\* The unique and foreign keys hold of what is committed, although every check that
\* precedes a statement may be stale when it runs.
THEOREM RowsAlwaysFit == Spec => []RowsFit
<1>1. AccountsInv => RowsFit BY DEF AccountsInv
<1>2. QED BY <1>1, AccountsInvHolds, PTL

\* A login that is answered is the login of the user its identity is linked to, by
\* authenticate_with_oauth, for concurrent first logins and deleted users alike.
THEOREM LoginsLinked == Spec => []LoginIsLinked
<1>1. AccountsInv => LoginIsLinked BY DEF AccountsInv, FoundInv, LoginIsLinked
<1>2. QED BY <1>1, AccountsInvHolds, PTL

\* A user made by authenticate_with_oauth never lacks the link it can log in with.
THEOREM NobodyLockedOut == Spec => []NobodyIsLockedOut
<1>1. AccountsInv => NobodyIsLockedOut BY DEF AccountsInv
<1>2. QED BY <1>1, AccountsInvHolds, PTL

(***************************************************************************)
(* Requests end: every one is a few steps long, and while some are under   *)
(* way one of them can take a step.                                        *)
(***************************************************************************)
\* From where to where a step takes its request.
Ways ==
  {"idle"} \X {"check", "identity", "erase", "refused", "missing"}
    \cup {"check"} \X {"insert", "update", "refresh", "conflict"}
    \cup {"identity"} \X {"load", "find"}
    \cup {"load"} \X {"refresh", "refused"}
    \cup {"find"} \X {"user", "link"}
    \cup {"update"} \X {"key", "failed"}
    \cup {"erase"} \X {"commit", "answered", "conflict"}
    \cup {"user"} \X {"link", "failed"}
    \cup {"insert", "key"} \X {"commit", "conflict"}
    \cup {"link"} \X {"share", "conflict"}
    \cup {"share"} \X {"commit", "conflict"}
    \cup {"commit"} \X {"refresh", "answered"}
    \cup {"refresh"} \X {"answered", "failed"}
    \cup (CallStates \ (Ended \cup {"idle"})) \X {"failed", "died"}

\* How many steps a request has left there, at most.
StepsFrom(state) ==
  CASE state = "idle"                                -> 8
    [] state \in {"check", "identity"}               -> 7
    [] state \in {"load", "find", "update", "erase"} -> 6
    [] state \in {"user", "insert", "key"}           -> 5
    [] state = "link"                                -> 4
    [] state = "share"                               -> 3
    [] state = "commit"                              -> 2
    [] state = "refresh"                             -> 1
    [] OTHER                                         -> 0
StepsLeft(c) == StepsFrom(call[c].pc)

LEMMA WaysShorten == \A way \in Ways : StepsFrom(way[2]) < StepsFrom(way[1])
<1> SUFFICES ASSUME NEW from, NEW to, <<from, to>> \in Ways PROVE StepsFrom(to) < StepsFrom(from)
  BY DEF Ways
<1>1. CASE from = "idle" BY <1>1 DEF Ways, StepsFrom, CallStates, Ended
<1>2. CASE from \in {"check", "identity"} BY <1>2 DEF Ways, StepsFrom, CallStates, Ended
<1>3. CASE from \in {"load", "find"} BY <1>3 DEF Ways, StepsFrom, CallStates, Ended
<1>4. CASE from \in {"update", "erase"} BY <1>4 DEF Ways, StepsFrom, CallStates, Ended
<1>5. CASE from \in {"user", "insert", "key"} BY <1>5 DEF Ways, StepsFrom, CallStates, Ended
<1>6. CASE from \in {"link", "share", "commit", "refresh"}
  BY <1>6 DEF Ways, StepsFrom, CallStates, Ended
<1>7. QED BY <1>1, <1>2, <1>3, <1>4, <1>5, <1>6 DEF Ways, CallStates, Ended

\* A step is one request's, and brings it nearer to its end.
Counts ==
  \E c \in Calls :
    /\ StepsLeft(c)' < StepsLeft(c)
    /\ \A d \in Calls \ {c} : call'[d] = call[d]

\* The statements of a request of each kind.
Statements(c) ==
  {"refresh"} \cup
    CASE c \in Registers -> {"check", "insert", "commit"}
      [] c \in Logins    -> {"identity", "load", "find", "user", "link", "share", "commit"}
      [] c \in Edits     -> {"check", "update", "key", "commit"}
      [] OTHER           -> {"erase", "commit"}

\* From where to where each step takes its request.
LEMMA Moves ==
  ASSUME TypeOK, NEW c \in Calls, Start(c) \/ Step(c) \/ CallDies(c)
  PROVE  /\ \A d \in Calls \ {c} : call'[d] = call[d]
         /\ <<call[c].pc, call'[c].pc>> \in Ways
         /\ call'[c].pc \in Statements(c) \cup Ended
<1> USE Kinds
<1>1. call \in [Calls -> Session] /\ call[c].pc \in CallStates BY DEF TypeOK, Session
<1>2. ASSUME NEW to, To(c, to)
      PROVE  call'[c].pc = to /\ \A d \in Calls \ {c} : call'[d] = call[d]
  BY <1>1, <1>2 DEF To, Session
<1>3. CASE Start(c)
  <2>1. CASE c \in Registers /\ \E e \in Email : StartRegister(c, e)
    BY <1>1, <2>1 DEF StartRegister, Session, Ways, Statements, Ended
  <2>2. CASE c \in Logins /\ \E i \in Identity, e \in Email : StartLogin(c, i, e)
    BY <1>1, <1>2, <2>2 DEF StartLogin, Session, Ways, Statements, Ended
  <2>3. CASE c \in Edits /\ \E u \in UserIds, e \in Email : StartEdit(c, u, e)
    BY <1>1, <2>3 DEF StartEdit, Session, Ways, Statements, Ended
  <2>4. CASE c \in Deletes /\ \E u \in UserIds : StartDelete(c, u)
    BY <1>1, <2>4 DEF StartDelete, Session, Ways, Statements, Ended
  <2>5. QED BY <1>3, <2>1, <2>2, <2>3, <2>4 DEF Start
<1>4. CASE c \in Registers /\ RegisterStep(c)
  <2>1. CASE CheckEmail(c) BY <1>2, <2>1 DEF CheckEmail, Ways, Statements, Ended
  <2>2. CASE InsertUser(c) BY <1>1, <2>2 DEF InsertUser, Session, Ways, Statements, Ended
  <2>3. CASE CommitUser(c) BY <1>2, <2>3 DEF CommitUser, Ways, Statements, Ended
  <2>4. QED BY <1>4, <2>1, <2>2, <2>3 DEF RegisterStep
<1>5. CASE c \in Logins /\ LoginStep(c)
  <2>1. CASE FindIdentity(c)
    <3>1. call[c].pc = "identity"
          /\ \/ To(c, "find")
             \/ \E u \in UserIds \cup {link[m].user : m \in Logins} :
                  call' = [call EXCEPT ![c].user = u, ![c].pc = "load"]
      BY <2>1 DEF FindIdentity
    <3>2. call'[c].pc \in {"find", "load"} /\ \A d \in Calls \ {c} : call'[d] = call[d]
      BY <1>1, <1>2, <3>1 DEF Session
    <3>3. QED BY <1>5, <3>1, <3>2 DEF Ways, Statements
  <2>2. CASE LoadUser(c) BY <1>2, <2>2 DEF LoadUser, Ways, Statements, Ended
  <2>3. CASE FindByEmail(c)
    <3>1. call[c].pc = "find"
          /\ \/ To(c, "user")
             \/ \E u \in UserIds : call' = [call EXCEPT ![c].user = u, ![c].pc = "link"]
      BY <2>3 DEF FindByEmail
    <3>2. call'[c].pc \in {"user", "link"} /\ \A d \in Calls \ {c} : call'[d] = call[d]
      BY <1>1, <1>2, <3>1 DEF Session
    <3>3. QED BY <1>5, <3>1, <3>2 DEF Ways, Statements
  <2>4. CASE InsertOAuthUser(c) BY <1>1, <2>4 DEF InsertOAuthUser, Session, Ways, Statements, Ended
  <2>5. CASE InsertLink(c)
    <3>1. call[c].pc = "link" /\ \E to \in {"share", "conflict"} : To(c, to)
      BY <2>5 DEF InsertLink
    <3>2. QED BY <1>2, <1>5, <3>1 DEF Ways, Statements, Ended
  <2>6. CASE ShareUser(c) BY <1>2, <2>6 DEF ShareUser, Ways, Statements, Ended
  <2>7. CASE CommitLogin(c) BY <1>2, <2>7 DEF CommitLogin, Ways, Statements, Ended
  <2>8. QED BY <1>5, <2>1, <2>2, <2>3, <2>4, <2>5, <2>6, <2>7 DEF LoginStep
<1>6. CASE c \in Edits /\ EditStep(c)
  BY <1>2, <1>6 DEF EditStep, CheckAddress, UpdateEmail, CheckKey, CommitEmail, Ways, Statements, Ended
<1>7. CASE c \in Deletes /\ DeleteStep(c)
  BY <1>2, <1>7 DEF DeleteStep, DeleteUser, CommitDelete, Ways, Statements, Ended
<1>8. CASE RefreshUser(c) BY <1>2, <1>8 DEF RefreshUser, Ways, Statements, Ended
<1>9. CASE DeadlockVictim(c)
  <2>1. call[c].pc \in {"insert", "user", "key", "link", "share", "update", "erase"}
    BY <1>9 DEF DeadlockVictim, Blockers
  <2>2. QED BY <1>1, <1>2, <1>9, <2>1 DEF DeadlockVictim, Ways, Statements, Ended
<1>10. CASE CallDies(c) BY <1>1, <1>2, <1>10 DEF CallDies, Ways, Statements, Ended
<1>11. QED BY <1>3, <1>4, <1>5, <1>6, <1>7, <1>8, <1>9, <1>10 DEF Step

\* Whatever a request waits for, finds or conflicts with, it ends after eight steps of
\* its own: none is taken twice, and no other request sends it back.
THEOREM EveryStepCounts == Spec => [][Counts]_vars
<1>1. AccountsInv /\ [Next]_vars => [Counts]_vars
  <2> SUFFICES ASSUME AccountsInv, Next PROVE Counts \/ UNCHANGED vars OBVIOUS
  <2>1. TypeOK BY DEF AccountsInv
  <2>2. ASSUME NEW c \in Calls, Start(c) \/ Step(c) \/ CallDies(c) PROVE Counts
    <3>1. StepsLeft(c)' < StepsLeft(c)
      BY <2>1, <2>2, Moves, WaysShorten DEF StepsLeft
    <3>2. QED BY <2>1, <2>2, <3>1, Moves DEF Counts
  <2>3. QED BY <2>2 DEF Next, Idle
<1>2. QED BY <1>1, AccountsInvHolds, PTL DEF Spec

\* A request that a session works on.
UnderWay(c) == call[c].pc \notin Ended \cup {"idle"}

\* Its next statement waits for nobody, or Postgres finds it in a circle.
CanGoOn(c) ==
  /\ call[c].pc \in Statements(c)
  /\ \/ Blockers(c) = {}
     \/ \E S \in SUBSET {b \in Calls : Blockers(b) # {}} : c \in S /\ Circle(S)

\* Whenever requests are under way, one of them can go on.
NeverStuck == (\E c \in Calls : UnderWay(c)) => \E c \in Calls : CanGoOn(c)

\* Finitely many are under way.
WorkInv ==
  /\ IsFiniteSet({c \in Calls : UnderWay(c)})
  /\ \A c \in Calls : UnderWay(c) => call[c].pc \in Statements(c)

LEMMA WorkStep == AccountsInv /\ WorkInv /\ [Next]_vars => WorkInv'
<1> SUFFICES ASSUME AccountsInv, WorkInv, [Next]_vars PROVE WorkInv' OBVIOUS
<1> USE Kinds
<1>1. CASE UNCHANGED vars BY <1>1 DEF vars, WorkInv, UnderWay
<1>2. ASSUME NEW c \in Calls, Start(c) \/ Step(c) \/ CallDies(c) PROVE WorkInv'
  <2>1. TypeOK BY DEF AccountsInv
  <2>2. \A d \in Calls \ {c} : call'[d] = call[d] BY <1>2, <2>1, Moves
  <2> DEFINE W == {d \in Calls : UnderWay(d)}
  <2>3. IsFiniteSet(W)'
    <3>1. W' \subseteq W \cup {c} BY <2>2 DEF UnderWay
    <3>2. IsFiniteSet(W) BY DEF WorkInv
    <3> HIDE DEF W
    <3>3. QED BY <3>1, <3>2, FS_AddElement, FS_Subset
  <2>4. UnderWay(c)' => call'[c].pc \in Statements(c) BY <1>2, <2>1, Moves DEF UnderWay
  <2>5. ASSUME NEW d \in Calls \ {c}, UnderWay(d)' PROVE call'[d].pc \in Statements(d)
    BY <2>2, <2>5 DEF WorkInv, UnderWay
  <2>6. QED BY <2>3, <2>4, <2>5 DEF WorkInv, Statements
<1>3. QED BY <1>1, <1>2 DEF Next, Idle

\* Who is waited for is under way, and is not the one who waits.
LEMMA WhoBlocks ==
  ASSUME NEW c \in Calls, NEW b \in Blockers(c)
  PROVE  b \in Calls /\ b # c /\ call[b].pc \in {"key", "link", "share", "commit"}
<1> USE Kinds
<1>1. CASE call[c].pc \in {"insert", "user", "key"} BY <1>1 DEF Blockers, EmailHolders
<1>2. CASE call[c].pc = "link" BY <1>2 DEF Blockers, LinkHolders
<1>3. CASE call[c].pc = "share"
  BY <1>3 DEF Blockers, RowHolders
<1>4. CASE call[c].pc \in {"update", "erase"} BY <1>4 DEF Blockers, RowHolders, RowSharers
<1>5. QED BY <1>1, <1>2, <1>3, <1>4 DEF Blockers

\* A group that waits only for itself has a smallest part that does, which is a circle.
LEMMA SomeCircle ==
  ASSUME NEW W \in SUBSET Calls, IsFiniteSet(W), W # {},
         \A c \in W : Blockers(c) # {} /\ Blockers(c) \subseteq W
  PROVE  \E S \in SUBSET W : S # {} /\ Circle(S)
<1> DEFINE Closed == {T \in SUBSET W : T # {} /\ \A c \in T : Blockers(c) \subseteq T}
<1>1. PICK S \in Closed : \A T \in Closed : ~(<<T, S>> \in StrictSubsetOrdering(W))
  <2>1. W \in Closed OBVIOUS
  <2>2. Closed \subseteq FiniteSubsetsOf(W) BY FS_Subset DEF FiniteSubsetsOf
  <2> HIDE DEF Closed
  <2>3. QED BY <2>1, <2>2, FS_StrictSubsetOrderingWellFounded, WFMin
<1>2. S \in SUBSET W /\ IsFiniteSet(S) /\ S # {} BY FS_Subset
<1>3. Cardinality(S) > 1
  <2>1. PICK c \in S : TRUE BY <1>2
  <2>2. PICK b \in Blockers(c) : b \in S /\ b # c BY <1>1, <1>2, <2>1, WhoBlocks
  <2>3. Cardinality(S \ {c}) = Cardinality(S) - 1 BY <1>2, FS_RemoveElement
  <2>4. IsFiniteSet(S \ {c}) /\ S \ {c} # {} BY <1>2, <2>2, FS_Subset
  <2>5. Cardinality(S \ {c}) \in Nat \ {0} BY <2>4, FS_CardinalityType, FS_EmptySet
  <2>6. Cardinality(S) \in Nat BY <1>2, FS_CardinalityType
  <2>7. QED BY <2>3, <2>5, <2>6
<1>4. ASSUME NEW T \in (SUBSET S) \ {S, {}} PROVE \E c \in T : Blockers(c) \cap (S \ T) # {}
  <2>1. T \subseteq S /\ T # S /\ T # {} BY <1>4
  <2>2. <<T, S>> \in StrictSubsetOrdering(W) BY <1>2, <2>1 DEF StrictSubsetOrdering
  <2>3. T \notin Closed BY <1>1, <2>2
  <2>4. PICK c \in T : ~(Blockers(c) \subseteq T) BY <1>2, <2>1, <2>3
  <2>5. Blockers(c) \subseteq S BY <1>1, <2>1, <2>4
  <2>6. QED BY <2>4, <2>5
<1>5. QED BY <1>2, <1>3, <1>4 DEF Circle

\* Where nobody is free, those who wait wait for one another, and the database finds a
\* circle among them.
LEMMA NobodyIsStuck == WorkInv => NeverStuck
<1> SUFFICES ASSUME WorkInv, NEW a \in Calls, UnderWay(a), \A c \in Calls : ~CanGoOn(c)
             PROVE  FALSE
  BY DEF NeverStuck
<1> DEFINE W == {c \in Calls : UnderWay(c)}
<1>1. \A c \in W : call[c].pc \in Statements(c) BY DEF WorkInv
<1>2. \A c \in W : Blockers(c) # {} BY <1>1 DEF CanGoOn
<1>3. \A c \in W : Blockers(c) \subseteq W
  <2> SUFFICES ASSUME NEW c \in W, NEW b \in Blockers(c) PROVE b \in W OBVIOUS
  <2>1. QED BY WhoBlocks DEF UnderWay, Ended
<1>4. IsFiniteSet(W) /\ W # {} /\ W \in SUBSET Calls BY DEF WorkInv
<1> HIDE DEF W
<1>5. PICK S \in SUBSET W : S # {} /\ Circle(S) BY <1>2, <1>3, <1>4, SomeCircle
<1>6. PICK c \in S : TRUE BY <1>5
<1>7. S \in SUBSET {b \in Calls : Blockers(b) # {}} BY <1>2, <1>4, <1>5
<1>8. CanGoOn(c) BY <1>1, <1>5, <1>6, <1>7 DEF CanGoOn
<1>9. QED BY <1>4, <1>5, <1>6, <1>8

\* For any number of registrations, logins, edits and deletions: as long as some are under
\* way, one of them can go on, and where they all wait for each other's rows, addresses or
\* identities, one of those who do is a deadlock's victim.
THEOREM SomebodyGoesOn == Spec => []NeverStuck
<1>1. Init => WorkInv
  <2> SUFFICES ASSUME Init PROVE WorkInv OBVIOUS
  <2>1. {c \in Calls : UnderWay(c)} = {} BY DEF Init, Blank, UnderWay
  <2>2. QED BY <2>1, FS_EmptySet DEF WorkInv
<1>2. QED BY <1>1, WorkStep, NobodyIsStuck, AccountsInvHolds, PTL DEF Spec
=============================================================================
