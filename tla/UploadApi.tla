----------------------------- MODULE UploadApi -----------------------------
(* POST /imports: upload_claude_export, one action per await or external    *)
(* call, for any number of concurrent requests.                             *)
EXTENDS Broker

VARIABLE req      \* where each request is, and its uploader, file and account_id

RequestStates ==
  {"idle", "insert", "save", "enqueue",
   "accepted", "duplicate", "forbidden", "conflict", "died"}

Request == [pc : RequestStates, user : Users \cup {None},
            file : Files \cup {None}, acct : Accounts \cup {None}]

RequestTypeOK ==
  /\ req \in [Requests -> Request]
  /\ \A r \in Requests :
       req[r].pc # "idle" =>
         req[r].user \in Users /\ req[r].file \in Files /\ req[r].acct \in Accounts

RequestInit ==
  req = [r \in Requests |-> [pc |-> "idle", user |-> None, file |-> None, acct |-> None]]

Goto(r, state) == req' = [req EXCEPT ![r].pc = state]

\* The session has loaded the user and looks for a job of the same user and hash.
StartUpload(r, u, f, a) ==
  /\ req[r].pc = "idle"
  /\ req' = [req EXCEPT ![r] =
       [pc   |-> IF u \notin member THEN "forbidden"
                 ELSE IF JobExists(u, f) THEN "duplicate" ELSE "insert",
        user |-> u, file |-> f, acct |-> a]]
  /\ UNCHANGED <<storeVars, brokerVars>>

\* Mutants: the task is enqueued without the file; no unique constraint.
InsertJobUnsaved(r) ==
  /\ req[r].pc = "insert"
  /\ ~JobExists(req[r].user, req[r].file)
  /\ jobs' = [jobs EXCEPT ![r] =
       [user |-> req[r].user, file |-> req[r].file, status |-> "pending"]]
  /\ Goto(r, "enqueue")
  /\ UNCHANGED <<convs, msgs, embs, member, uploads, brokerVars>>

InsertJobUnchecked(r) ==
  /\ req[r].pc = "insert"
  /\ jobs' = [jobs EXCEPT ![r] =
       [user |-> req[r].user, file |-> req[r].file, status |-> "pending"]]
  /\ Goto(r, "save")
  /\ UNCHANGED <<convs, msgs, embs, member, uploads, brokerVars>>

\* create_import_job and the commit: the unique constraint decides between two
\* requests that both found no job; the IntegrityError is a 500.
InsertJob(r) ==
  /\ req[r].pc = "insert"
  /\ IF JobExists(req[r].user, req[r].file)
     THEN Goto(r, "conflict") /\ UNCHANGED jobs
     ELSE /\ jobs' = [jobs EXCEPT ![r] =
               [user |-> req[r].user, file |-> req[r].file, status |-> "pending"]]
          /\ Goto(r, "save")
  /\ UNCHANGED <<convs, msgs, embs, member, uploads, brokerVars>>

SaveUpload(r) ==
  /\ req[r].pc = "save"
  /\ uploads' = uploads \cup {r}
  /\ Goto(r, "enqueue")
  /\ UNCHANGED <<jobs, convs, msgs, embs, member, brokerVars>>

\* enqueue_claude_import: only the first task of the chain is published.
Enqueue(r) ==
  /\ req[r].pc = "enqueue"
  /\ Publish(ImportMsg(r))
  /\ account' = [account EXCEPT ![r] = req[r].acct]
  /\ Goto(r, "accepted")
  /\ UNCHANGED <<storeVars, result, timeouts>>

\* The process stops, the disk is full or the broker refuses the message.  The
\* job row, once committed, stays.
RequestDies(r) ==
  /\ req[r].pc \in {"insert", "save", "enqueue"}
  /\ Goto(r, "died")
  /\ UNCHANGED <<storeVars, brokerVars>>

UploadStep(r) == InsertJob(r) \/ SaveUpload(r) \/ Enqueue(r)
=============================================================================
