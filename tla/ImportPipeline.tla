-------------------------- MODULE ImportPipeline --------------------------
(* The import pipeline of human_context: upload requests, the broker, the   *)
(* workers with their two tasks, and the operator and administrators who    *)
(* act on it.                                                               *)
EXTENDS UploadApi, ImportTask, EmbedTask, SearchService

CONSTANT MaxMoves     \* bound on the changes of users' organization

\* One embed message per execution of an import task.
ASSUME TagAssumption ==
  MaxMoves \in Nat /\ MaxTag = 1 + MaxKills + MaxTimeouts

VARIABLE moves        \* how many times a user joined or left an organization

vars == <<storeVars, brokerVars, req, poolVars, moves>>

Init ==
  /\ StoreInit
  /\ BrokerInit
  /\ RequestInit
  /\ PoolInit
  /\ moves = 0

(***************************************************************************)
(* The environment.                                                        *)
(***************************************************************************)
\* update_user with an organization_id, or null: jobs and conversations keep theirs.
MoveUser(u) ==
  /\ moves < MaxMoves
  /\ moves' = moves + 1
  /\ member' = IF u \in member THEN member \ {u} ELSE member \cup {u}
  /\ UNCHANGED <<jobs, convs, msgs, embs, uploads, brokerVars, req, poolVars>>

\* make re-embed JOB_ID=r
Reembed(r) ==
  /\ jobs[r] # None
  /\ \E t \in 1..MaxReembeds : Publish(ReembedMsg(r, t))
  /\ UNCHANGED <<storeVars, account, result, timeouts, req, poolVars, moves>>

(***************************************************************************)
(* The components' steps.                                                  *)
(***************************************************************************)
Upload(r) ==
  /\ \/ \E u \in Users, f \in Files, a \in Accounts : StartUpload(r, u, f, a)
     \/ UploadStep(r)
     \/ RequestDies(r)
  /\ UNCHANGED <<poolVars, moves>>

DeliverTask(w) ==
  (\E b \in Messages : Deliver(w, b)) /\ UNCHANGED <<req, moves>>

TaskStep(w) ==
  /\ ImportStep(w) \/ EmbedStep(w) \/ StoreSuccess(w) \/ AckTask(w)
  /\ UNCHANGED <<req, moves>>

Crash(w) ==
  (KillWorker(w) \/ LoseChild(w)) /\ UNCHANGED <<req, moves>>

Restore(b) ==
  (RestoreOrphan(b) \/ RestoreRunning(b)) /\ UNCHANGED <<req, moves>>

Expire(b) == ExpireResult(b) /\ UNCHANGED <<req, moves>>

\* No request, message or task is under way.
Quiet ==
  /\ \A r \in Requests : req[r].pc \notin {"insert", "save", "enqueue"}
  /\ \A w \in Workers : pc[w] = "idle"
  /\ \A b \in Messages : broker[b] \in {"unsent", "acked"}

Idle == Quiet /\ UNCHANGED vars

Next ==
  \/ \E r \in Requests : Upload(r) \/ Reembed(r)
  \/ \E w \in Workers : DeliverTask(w) \/ TaskStep(w) \/ Crash(w)
  \/ \E b \in Messages : Restore(b) \/ Expire(b)
  \/ \E u \in Users : MoveUser(u)
  \/ Idle

Spec == Init /\ [][Next]_vars

\* Workers keep consuming and running, a message nobody works on is restored
\* when its visibility timeout has passed, and a request that does not die goes
\* on.  Uploads, crashes, timeouts of running tasks and re-embeds need not happen.
Fairness ==
  /\ \A w \in Workers : WF_vars(DeliverTask(w)) /\ WF_vars(TaskStep(w))
  /\ \A b \in Messages : WF_vars(RestoreOrphan(b) /\ UNCHANGED <<req, moves>>)
  /\ \A r \in Requests : WF_vars(UploadStep(r) /\ UNCHANGED <<poolVars, moves>>)

FairSpec == Spec /\ Fairness

(***************************************************************************)
(* Properties.                                                             *)
(***************************************************************************)
\* Every variable has its type; a worker that is not idle runs a message that
\* was published for a job that exists, of the kind its state belongs to.
TaskOK(w) ==
  IF pc[w] = "idle" THEN task[w] = None
  ELSE /\ task[w] \in Messages
       /\ broker[task[w]] # "unsent"
       /\ jobs[JobOf(w)] # None
       /\ pc[w] \in ImportStates => task[w].kind = "import"
       /\ pc[w] \in EmbedStates => task[w].kind \in {"embed", "reembed"}

TypeOK ==
  /\ StoreTypeOK /\ BrokerTypeOK /\ RequestTypeOK /\ PoolTypeOK
  /\ moves \in 0..MaxMoves
  /\ \A w \in Workers : TaskOK(w)

\* A user has at most one job per file content, however requests overlap.
OneJobPerUpload ==
  \A r, s \in Requests :
    (/\ jobs[r] # None /\ jobs[s] # None
     /\ jobs[r].user = jobs[s].user /\ jobs[r].file = jobs[s].file) => r = s

\* A job a worker may hear of is committed and its file is on disk.
UploadBeforeTask ==
  \A b \in Messages :
    broker[b] # "unsent" /\ b.kind # "reembed" => jobs[b.job] # None /\ b.job \in uploads

\* Two sessions never have the same conversation row, or the same message of
\* it, inserted or updated at once, and only one imports a job.
WritesAreExclusive ==
  \A v, w \in Workers :
    v # w =>
      /\ tx[v].moved \cap tx[w].moved = {}
      /\ \A k \in ConvKeys, m \in MsgIds : tx[v].write[k][m] = None \/ tx[w].write[k][m] = None
      /\ ~(HoldsJob(v) /\ HoldsJob(w) /\ JobOf(v) = JobOf(w))

\* A completed job left all of its file in the database: each conversation that
\* has messages, under the account_id of the upload, with each of its messages.
CompletedMeansImported ==
  \A r \in Requests :
    jobs[r] # None /\ jobs[r].status = "completed" =>
      \A i \in DOMAIN Order(r) :
        LET c == Order(r)[i] IN
          HasMessages(r, c) =>
            /\ convs[<<c, account[r]>>] # None
            /\ \A m \in MsgIds :
                 FileText(r, c)[m] # None => msgs[<<c, account[r]>>][m] # None

\* Nothing is imported for a job that is not completed: a conversation names a
\* completed job, and a stored message has a text of some completed job's file.
OnlyCompletedIsVisible ==
  \A k \in ConvKeys :
    /\ convs[k] # None => jobs[convs[k].job] # None /\ jobs[convs[k].job].status = "completed"
    /\ \A m \in MsgIds :
         msgs[k][m] # None =>
           /\ convs[k] # None
           /\ \E r \in Requests :
                /\ jobs[r] # None /\ jobs[r].status = "completed" /\ account[r] = k[2]
                /\ FileText(r, k[1])[m] = msgs[k][m]

\* What is embedded under a message is a text a completed import had for it.
EmbeddedTextWasImported ==
  \A k \in ConvKeys, m \in MsgIds :
    \A i \in DOMAIN embs[k][m] :
      \E r \in Requests :
        /\ jobs[r] # None /\ jobs[r].status = "completed" /\ account[r] = k[2]
        /\ FileText(r, k[1])[m] = embs[k][m][i]

\* A message is embedded again only by tasks that were reading when the first
\* record was committed: never more records than workers.
PendingFor(k, m) == {w \in Workers : tx[w].pend[k][m] # None}

DuplicatesBoundedByWorkers ==
  \A k \in ConvKeys, m \in MsgIds :
    Len(embs[k][m]) > 0 =>
      Len(embs[k][m]) + Cardinality(PendingFor(k, m) \ {w \in Workers : pc[w] = "skip"})
        <= Cardinality(Workers)

\* Somebody will still see to a job: its request, the broker or a worker.
Attended(r) ==
  /\ jobs[r] # None
  /\ \/ req[r].pc \in {"save", "enqueue"}
     \/ broker[ImportMsg(r)] \in {"queued", "unacked"}
     \/ Running(ImportMsg(r))

\* What its import can have come to: a failure the uploader may ask for, or a
\* completed job with its embedding on the way.
Decided(r) ==
  \/ result[ImportMsg(r)] = "FAILURE"
  \/ jobs[r].status = "completed" /\ broker[EmbedMsg(r, 1)] # "unsent"

\* A job is given up only when its request dies or its import is decided.  A kill
\* beside the timeout of a running import is excepted: the start of the second
\* run takes the first one's failure off the record.
NoJobIsLost ==
  [][\A r \in Requests :
       Attended(r) /\ ~Attended(r)' =>
         \/ req'[r].pc = "died"
         \/ Decided(r)'
         \/ timeouts' > 0 /\ crashes'.kills > 0]_vars

\* No embed task failed, and nothing kept a killed import from running again to
\* its end: neither a second delivery of a running task nor a deadlock.
Undisturbed ==
  /\ crashes.outages = 0 /\ crashes.losses = 0
  /\ crashes.kills = 0 \/ (timeouts = 0 /\ ~crashes.aborted)

\* No worker was killed and no running task timed out: each message ran once.
RanOnce == crashes.kills = 0 /\ timeouts = 0

Indexing(r) ==
  broker[EmbedMsg(r, 1)] \in {"queued", "unacked"} \/ Running(EmbedMsg(r, 1))

\* What the embed task of a job can have come to: a failure, or an embedding of
\* every message of the conversations that are the job's now.
Indexed(r) ==
  \/ result[EmbedMsg(r, 1)] = "FAILURE"
  \/ \A k \in ConvKeys, m \in MsgIds :
       convs[k] # None /\ convs[k].job = r /\ msgs[k][m] # None => embs[k][m] # <<>>

\* The embedding of a job is given up, whatever other tasks do to its conversations
\* meanwhile, only when it has failed or nothing is left to embed.
NoIndexingIsLost ==
  [][RanOnce' =>
       \A r \in Requests : Indexing(r) /\ ~Indexing(r)' => Indexed(r)']_vars

\* When nothing is under way, a search of its owner's history finds every message
\* stored, whichever jobs its conversation went through and however often their
\* tasks were killed and ran again, unless something disturbed the tasks.
SettledMeansSearchable ==
  Quiet =>
    \A k \in ConvKeys, m \in MsgIds :
      msgs[k][m] # None =>
        <<k, m>> \in Candidates(convs[k].owner) \/ ~Undisturbed

\* No step takes a completed job back, drops a job, a conversation, a message or
\* an embedding, or gives a conversation to another user.
NothingIsTakenBack ==
  [][/\ \A r \in Requests :
          jobs[r] # None =>
            /\ jobs'[r] # None /\ jobs'[r].user = jobs[r].user /\ jobs'[r].file = jobs[r].file
            /\ jobs[r].status = "completed" => jobs'[r].status = "completed"
     /\ \A k \in ConvKeys :
          /\ convs[k] # None => convs'[k] # None /\ convs'[k].owner = convs[k].owner
          /\ \A m \in MsgIds :
               /\ msgs[k][m] # None => msgs'[k][m] # None
               /\ Len(embs'[k][m]) \in {Len(embs[k][m]), Len(embs[k][m]) + 1}]_vars

\* The tables are what ImportLedger says: jobs accepted once, files applied
\* whole, embeddings of imported texts only.
Ledger == INSTANCE ImportLedger
ImplementsLedger == Ledger!LedgerSpec

\* An accepted upload is decided: its import, while its message is not
\* acknowledged, goes on to succeed or fail.
AcceptedIsDecided ==
  \A r \in Requests :
    req[r].pc = "accepted" /\ broker[ImportMsg(r)] # "acked"
      ~> result[ImportMsg(r)] \in {"SUCCESS", "FAILURE"}

\* What a job imported is embedded in the end, unless something disturbed it.
ImportedIsIndexed ==
  \A k \in ConvKeys, m \in MsgIds :
    msgs[k][m] # None ~> (embs[k][m] # <<>> \/ ~Undisturbed)

(***************************************************************************)
(* The inductive invariant of the proofs.                                  *)
(***************************************************************************)
\* A request past the insert has its row, past the save its file, and before the
\* insert nothing.
RequestInv ==
  \A r \in Requests :
    /\ req[r].pc \in {"idle", "insert"} => jobs[r] = None
    /\ req[r].pc \in {"save", "enqueue", "accepted"} => jobs[r] # None
    /\ req[r].pc \in {"enqueue", "accepted"} => r \in uploads

\* A published message is about a job that exists; an import message also has
\* its account_id and its file.
SentInv ==
  \A b \in Messages :
    broker[b] # "unsent" =>
      /\ jobs[b.job] # None
      /\ b.kind # "reembed" => account[b.job] \in Accounts /\ b.job \in uploads

\* An import that holds its job row is inside the loop over a readable file; any
\* other session has written nothing, and only an embed task that has read its
\* messages has some pending.
SessionOK(w) ==
  /\ HoldsJob(w) =>
       /\ Parsed[jobs[JobOf(w)].file] \in ParsedFile
       /\ tx[w].next \in 1..(Len(Order(JobOf(w))) + 1)
       /\ pc[w] # "select" => tx[w].next <= Len(Order(JobOf(w)))
  /\ ~HoldsJob(w) => tx[w].moved = {} /\ tx[w].write = NoContents /\ tx[w].next = 1
  /\ pc[w] \notin {"skip", "embed"} => tx[w].pend = NoContents

SessionInv == \A w \in Workers : SessionOK(w)

Inv == TypeOK /\ RequestInv /\ SentInv /\ SessionInv

(***************************************************************************)
(* What the repository says and the code does not do.                      *)
(***************************************************************************)
\* .cursor/rules/error-handling.mdc: a task whose AppError is caught persists it
\* on the job.
FailureIsPersisted ==
  \A r \in Requests :
    result[EmbedMsg(r, 1)] = "FAILURE" => jobs[r].status = "failed"
=============================================================================
