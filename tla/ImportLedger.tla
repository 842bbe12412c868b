--------------------------- MODULE ImportLedger ---------------------------
(* What the import pipeline promises of the database, with no workers,      *)
(* broker, sessions or locks: a file is accepted once per user, applied as  *)
(* a whole or not at all, and indexed from what was imported.               *)
EXTENDS ImportStore

LedgerInit == StoreInit

\* A job for a file its user has not uploaded before.
Accept(r, u, f) ==
  /\ jobs[r] = None
  /\ ~JobExists(u, f)
  /\ jobs' = [jobs EXCEPT ![r] = [user |-> u, file |-> f, status |-> "pending"]]
  /\ UNCHANGED <<convs, msgs, embs, member, uploads>>

Store(r) ==
  /\ jobs[r] # None
  /\ uploads' = uploads \cup {r}
  /\ UNCHANGED <<jobs, convs, msgs, embs, member>>

\* Every message of the file is there afterwards and every content that changes
\* changes to the file's; a new conversation is the uploader's, an old one keeps
\* its owner; nothing outside the file is touched.
Apply(r, a) ==
  /\ jobs[r] # None
  /\ Loadable(r)
  /\ jobs' = [jobs EXCEPT ![r].status = "completed"]
  /\ \A k \in ConvKeys :
       LET text == IF k[2] = a /\ \E i \in DOMAIN Order(r) : Order(r)[i] = k[1]
                   THEN FileText(r, k[1]) ELSE [m \in MsgIds |-> None]
       IN  /\ \A m \in MsgIds :
                /\ msgs'[k][m] \in {text[m], msgs[k][m]}
                /\ msgs'[k][m] = None => text[m] = None /\ msgs[k][m] = None
           /\ \/ convs'[k] = convs[k] /\ (convs[k] = None => text = [m \in MsgIds |-> None])
              \/ /\ text # [m \in MsgIds |-> None]
                 /\ convs'[k] = [owner |-> IF convs[k] = None THEN jobs[r].user
                                           ELSE convs[k].owner,
                                 job   |-> r]
  /\ UNCHANGED <<embs, member, uploads>>

\* A text some completed import had for message m of conversation k.
Imported(k, m, t) ==
  \E r \in Requests :
    jobs[r] # None /\ jobs[r].status = "completed" /\ FileText(r, k[1])[m] = t

Index ==
  /\ \A k \in ConvKeys, m \in MsgIds :
       \/ embs'[k][m] = embs[k][m]
       \/ \E t \in Texts : Imported(k, m, t) /\ embs'[k][m] = Append(embs[k][m], t)
  /\ UNCHANGED <<jobs, convs, msgs, member, uploads>>

SetMembership == \E M \in SUBSET Users : member' = M /\ UNCHANGED <<jobs, convs, msgs, embs, uploads>>

LedgerNext ==
  \/ \E r \in Requests : \/ \E u \in Users, f \in Files : Accept(r, u, f)
                         \/ Store(r)
                         \/ \E a \in Accounts : Apply(r, a)
  \/ Index
  \/ SetMembership

LedgerSpec == LedgerInit /\ [][LedgerNext]_storeVars
=============================================================================
