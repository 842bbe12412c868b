---------------------------- MODULE ImportStore ----------------------------
(* What outlives a request or a task: the Postgres tables the import        *)
(* pipeline works on (app/models) and the upload directory.  Only committed *)
(* rows are kept here; what a session has flushed but not committed is in   *)
(* WorkerPool.                                                              *)
EXTENDS ClaudeParser

CONSTANTS
  Users, Files, Accounts,      \* uploaders, file contents (one per hash), account_id values
  Requests,                    \* POST /imports requests; a job is named by the one that inserts it
  Parsed                       \* what load_conversations_from_bytes makes of each file

ParsedFile == [order : Seq(ConvIds),
               text  : [ConvIds -> [MsgIds -> Texts \cup {None}]]]

\* No conversation occurs twice in one file.
ASSUME ParsedAssumption ==
  \A f \in Files :
    \/ Parsed[f] = Unreadable
    \/ /\ Parsed[f] \in ParsedFile
       /\ \A i, n \in DOMAIN Parsed[f].order :
            Parsed[f].order[i] = Parsed[f].order[n] => i = n

ASSUME NoneAssumption ==
  /\ None \notin Texts
  /\ None \notin [user : Users, file : Files, status : {"pending", "completed", "failed"}]
  /\ None \notin [owner : Users, job : Requests]

VARIABLES
  jobs,       \* import_jobs, by id
  convs,      \* conversations, by (external_uuid, account_id)
  msgs,       \* messages: content by conversation and external_uuid
  embs,       \* embedding_records: the contents embedded under each message's namespace
  member,     \* the users whose organization_id is not null
  uploads     \* the jobs with a <job id>.bin file in UPLOAD_DIR

storeVars == <<jobs, convs, msgs, embs, member, uploads>>

ConvKeys == ConvIds \X Accounts

\* A job is failed only in a session that is then rolled back; the status is
\* kept in the type because the code means to write it.
Statuses == {"pending", "completed", "failed"}
JobRow == [user : Users, file : Files, status : Statuses]
ConvRow == [owner : Users, job : Requests]
Contents == [ConvKeys -> [MsgIds -> Texts \cup {None}]]
\* The contents embedded under namespace message:<id>, in the order they were added.
Embeddings == [ConvKeys -> [MsgIds -> Seq(Texts)]]
NoContents == [k \in ConvKeys |-> [m \in MsgIds |-> None]]

StoreTypeOK ==
  /\ jobs \in [Requests -> JobRow \cup {None}]
  /\ convs \in [ConvKeys -> ConvRow \cup {None}]
  /\ msgs \in Contents
  /\ embs \in Embeddings
  /\ member \in SUBSET Users
  /\ uploads \in SUBSET Requests

StoreInit ==
  /\ jobs = [r \in Requests |-> None]
  /\ convs = [k \in ConvKeys |-> None]
  /\ msgs = NoContents
  /\ embs = [k \in ConvKeys |-> [m \in MsgIds |-> <<>>]]
  /\ member = Users
  /\ uploads = {}

\* The row get_existing_import_job finds, and the one the unique constraint
\* uq_import_jobs_user_file_hash compares a new row with.
JobExists(u, f) ==
  \E r \in Requests : jobs[r] # None /\ jobs[r].user = u /\ jobs[r].file = f

\* What the parser yields for a job's file: the conversations in the order of
\* the file, and one conversation's messages.
Loadable(j) == j \in uploads /\ Parsed[jobs[j].file] # Unreadable
Order(j) == Parsed[jobs[j].file].order
FileText(j, c) == Parsed[jobs[j].file].text[c]
HasMessages(j, c) == \E m \in MsgIds : FileText(j, c)[m] # None
=============================================================================
