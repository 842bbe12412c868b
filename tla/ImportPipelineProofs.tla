----------------------- MODULE ImportPipelineProofs -----------------------
(* Theorems about the import pipeline, for any number of users, files,      *)
(* requests and workers and any bounds.                                     *)
EXTENDS ImportPipeline, TLAPS

(***************************************************************************)
(* Messages.                                                               *)
(***************************************************************************)
\* The parts of a message and the messages of a job.
LEMMA MessageFacts ==
  /\ \A b \in Messages :
       /\ b.job \in Requests
       /\ b.kind \in {"import", "embed", "reembed"}
       /\ b.kind = "import" => b = ImportMsg(b.job)
       /\ TaskId(b) \in Messages
  /\ \A r \in Requests :
       /\ ImportMsg(r) \in Messages
       /\ ImportMsg(r).kind = "import" /\ ImportMsg(r).job = r
       /\ \A t \in 1..MaxTag :
            EmbedMsg(r, t) \in Messages /\ EmbedMsg(r, t).kind = "embed" /\ EmbedMsg(r, t).job = r
       /\ \A t \in 1..MaxReembeds :
            /\ ReembedMsg(r, t) \in Messages
            /\ ReembedMsg(r, t).kind = "reembed" /\ ReembedMsg(r, t).job = r
<1>1. ASSUME NEW b \in Messages
      PROVE  /\ b.job \in Requests
             /\ b.kind \in {"import", "embed", "reembed"}
             /\ b.kind = "import" => b = ImportMsg(b.job)
             /\ TaskId(b) \in Messages
  <2> USE DEF ImportMsg, EmbedMsg, ReembedMsg
  <2>1. CASE b \in ImportMessages BY <2>1 DEF TaskId, Messages, ImportMessages
  <2>2. CASE b \in EmbedMessages
    <3>1. 1 \in 1..MaxTag BY BrokerAssumption
    <3>2. PICK r \in Requests, t \in 1..MaxTag : b = EmbedMsg(r, t) BY <2>2 DEF EmbedMessages
    <3>3. TaskId(b) = EmbedMsg(r, 1) BY <3>2 DEF TaskId
    <3>4. QED BY <3>1, <3>2, <3>3 DEF Messages, EmbedMessages
  <2>3. CASE b \in ReembedMessages BY <2>3 DEF TaskId, Messages, ReembedMessages
  <2>4. QED BY <1>1, <2>1, <2>2, <2>3 DEF Messages
<1>2. ASSUME NEW r \in Requests
      PROVE  ImportMsg(r) \in Messages /\ ImportMsg(r).kind = "import" /\ ImportMsg(r).job = r
  <2>1. ImportMsg(r) \in Messages BY DEF Messages, ImportMessages
  <2>2. QED BY <2>1 DEF ImportMsg
<1>3. ASSUME NEW r \in Requests, NEW t \in 1..MaxTag
      PROVE  EmbedMsg(r, t) \in Messages /\ EmbedMsg(r, t).kind = "embed" /\ EmbedMsg(r, t).job = r
  <2>1. EmbedMsg(r, t) \in Messages BY DEF Messages, EmbedMessages
  <2>2. QED BY <2>1 DEF EmbedMsg
<1>4. ASSUME NEW r \in Requests, NEW t \in 1..MaxReembeds
      PROVE  /\ ReembedMsg(r, t) \in Messages
             /\ ReembedMsg(r, t).kind = "reembed" /\ ReembedMsg(r, t).job = r
  <2>1. ReembedMsg(r, t) \in Messages BY DEF Messages, ReembedMessages
  <2>2. QED BY <2>1 DEF ReembedMsg
<1>5. QED BY <1>1, <1>2, <1>3, <1>4, Zenon

(***************************************************************************)
(* Steps that leave a worker alone.                                        *)
(***************************************************************************)
\* What no step undoes: a job's row with its user and file, a file on disk, a
\* message once published.
Kept ==
  /\ \A r \in Requests :
       jobs[r] # None =>
         jobs'[r] # None /\ jobs'[r].user = jobs[r].user /\ jobs'[r].file = jobs[r].file
  /\ uploads \subseteq uploads'
  /\ \A b \in Messages : broker[b] # "unsent" => broker'[b] # "unsent"

\* A worker that did not move keeps its part of the invariant.
LEMMA WorkerFrame ==
  ASSUME Inv, Kept, NEW w \in Workers,
         pc'[w] = pc[w], task'[w] = task[w], tx'[w] = tx[w]
  PROVE  TaskOK(w)' /\ SessionOK(w)'
<1>1. TaskOK(w) /\ SessionOK(w) BY DEF Inv, TypeOK, SessionInv
<1>2. TaskOK(w)'
  BY <1>1, MessageFacts DEF TaskOK, Kept, JobOf
<1>3. SessionOK(w)'
  <2>1. CASE HoldsJob(w)
    <3>1. task[w] \in Messages /\ jobs[task[w].job] # None
      BY <1>1, <2>1 DEF TaskOK, HoldsJob, JobOf
    <3>2. jobs'[task'[w].job].file = jobs[task[w].job].file
      BY <3>1, MessageFacts DEF Kept
    <3>3. QED BY <1>1, <2>1, <3>2 DEF SessionOK, HoldsJob, JobOf, Order
  <2>2. CASE ~HoldsJob(w)
    BY <1>1, <2>2 DEF SessionOK, HoldsJob
  <2>3. QED BY <2>1, <2>2
<1>4. QED BY <1>2, <1>3

(***************************************************************************)
(* The upload API.                                                         *)
(***************************************************************************)
\* A new request only records its uploader, file and account_id.
LEMMA StartUploadInv ==
  ASSUME Inv, NEW r \in Requests, NEW u \in Users, NEW f \in Files, NEW a \in Accounts,
         StartUpload(r, u, f, a), UNCHANGED <<poolVars, moves>>
  PROVE  Inv'
<1> USE DEF StartUpload, storeVars, brokerVars, poolVars
<1>1. Kept BY DEF Kept
<1>2. \A w \in Workers : TaskOK(w)' /\ SessionOK(w)' BY <1>1, WorkerFrame
<1>3. RequestTypeOK' BY DEF Inv, TypeOK, RequestTypeOK, Request, RequestStates
<1>4. TypeOK'
  BY <1>2, <1>3 DEF Inv, TypeOK, StoreTypeOK, BrokerTypeOK, PoolTypeOK
<1>5. RequestInv'
  BY DEF Inv, TypeOK, RequestTypeOK, RequestInv
<1>6. SentInv' BY DEF Inv, SentInv
<1>7. QED BY <1>2, <1>4, <1>5, <1>6 DEF Inv, SessionInv

\* An insert adds a pending row, of a request that had none, or changes no table.
LEMMA InsertJobInv ==
  ASSUME Inv, NEW r \in Requests, InsertJob(r), UNCHANGED <<poolVars, moves>>
  PROVE  Inv'
<1> USE DEF InsertJob, Goto, brokerVars, poolVars
<1>1. /\ req \in [Requests -> Request] /\ req[r].user \in Users /\ req[r].file \in Files
      /\ jobs \in [Requests -> JobRow \cup {None}] /\ jobs[r] = None
  BY DEF Inv, TypeOK, StoreTypeOK, RequestTypeOK, RequestInv
<1>2. Kept BY <1>1 DEF Kept
<1>3. \A w \in Workers : TaskOK(w)' /\ SessionOK(w)' BY <1>2, WorkerFrame
<1>4. CASE JobExists(req[r].user, req[r].file)
  <2>1. RequestTypeOK'
    BY <1>1, <1>4 DEF Inv, TypeOK, RequestTypeOK, Request, RequestStates
  <2>2. TypeOK'
    BY <1>3, <1>4, <2>1 DEF Inv, TypeOK, StoreTypeOK, BrokerTypeOK, PoolTypeOK
  <2>3. RequestInv' /\ SentInv'
    BY <1>1, <1>4 DEF Inv, RequestInv, SentInv, Request
  <2>4. QED BY <1>3, <2>2, <2>3 DEF Inv, SessionInv
<1>5. CASE ~JobExists(req[r].user, req[r].file)
  <2> DEFINE row == [user |-> req[r].user, file |-> req[r].file, status |-> "pending"]
  <2>1. row \in JobRow BY <1>1 DEF JobRow, Statuses
  <2>2. row # None BY <1>1, NoneAssumption
  <2>3. jobs' = [jobs EXCEPT ![r] = row] /\ uploads' = uploads BY <1>5
  <2> HIDE DEF row
  <2>4. StoreTypeOK' BY <1>1, <1>5, <2>1, <2>3 DEF Inv, TypeOK, StoreTypeOK
  <2>5. RequestTypeOK'
    BY <1>1, <1>5 DEF Inv, TypeOK, RequestTypeOK, Request, RequestStates
  <2>6. TypeOK'
    BY <1>3, <1>5, <2>4, <2>5 DEF Inv, TypeOK, BrokerTypeOK, PoolTypeOK
  <2>7. RequestInv'
    BY <1>1, <1>5, <2>2, <2>3 DEF Inv, RequestInv, Request
  <2>8. SentInv'
    BY <1>1, <1>5, <2>2, <2>3, MessageFacts DEF Inv, SentInv
  <2>9. QED BY <1>3, <2>6, <2>7, <2>8 DEF Inv, SessionInv
<1>6. QED BY <1>4, <1>5

\* A file is added for a job whose row is committed.
LEMMA SaveUploadInv ==
  ASSUME Inv, NEW r \in Requests, SaveUpload(r), UNCHANGED <<poolVars, moves>>
  PROVE  Inv'
<1> USE DEF SaveUpload, Goto, brokerVars, poolVars
<1>1. Kept BY DEF Kept
<1>2. \A w \in Workers : TaskOK(w)' /\ SessionOK(w)' BY <1>1, WorkerFrame
<1>3. RequestTypeOK' BY DEF Inv, TypeOK, RequestTypeOK, Request, RequestStates
<1>4. TypeOK'
  BY <1>2, <1>3 DEF Inv, TypeOK, StoreTypeOK, BrokerTypeOK, PoolTypeOK
<1>5. RequestInv' BY DEF Inv, TypeOK, RequestTypeOK, Request, RequestInv
<1>6. SentInv' BY DEF Inv, SentInv
<1>7. QED BY <1>2, <1>4, <1>5, <1>6 DEF Inv, SessionInv

\* The import message is published once the row and the file are there.
LEMMA EnqueueInv ==
  ASSUME Inv, NEW r \in Requests, Enqueue(r), UNCHANGED <<poolVars, moves>>
  PROVE  Inv'
<1> USE DEF Enqueue, Goto, Publish, storeVars, poolVars
<1>1. /\ req \in [Requests -> Request] /\ req[r].acct \in Accounts
      /\ broker \in [Messages -> MessageStates]
      /\ account \in [Requests -> Accounts \cup {None}]
      /\ jobs[r] # None /\ r \in uploads
  BY DEF Inv, TypeOK, BrokerTypeOK, RequestTypeOK, RequestInv
<1>2. Kept BY <1>1 DEF Kept
<1>3. \A w \in Workers : TaskOK(w)' /\ SessionOK(w)' BY <1>2, WorkerFrame
<1>4. RequestTypeOK'
  BY <1>1 DEF Inv, TypeOK, RequestTypeOK, Request, RequestStates
<1>5. BrokerTypeOK' BY <1>1 DEF Inv, TypeOK, BrokerTypeOK, MessageStates
<1>6. TypeOK'
  BY <1>3, <1>4, <1>5 DEF Inv, TypeOK, StoreTypeOK, PoolTypeOK
<1>7. RequestInv' BY <1>1 DEF Inv, RequestInv, Request
<1>8. SentInv' BY <1>1, MessageFacts DEF Inv, SentInv
<1>9. QED BY <1>3, <1>6, <1>7, <1>8 DEF Inv, SessionInv

\* A request that dies leaves what it committed.
LEMMA RequestDiesInv ==
  ASSUME Inv, NEW r \in Requests, RequestDies(r), UNCHANGED <<poolVars, moves>>
  PROVE  Inv'
<1> USE DEF RequestDies, Goto, storeVars, brokerVars, poolVars
<1>1. Kept BY DEF Kept
<1>2. \A w \in Workers : TaskOK(w)' /\ SessionOK(w)' BY <1>1, WorkerFrame
<1>3. RequestTypeOK' BY DEF Inv, TypeOK, RequestTypeOK, Request, RequestStates
<1>4. TypeOK'
  BY <1>2, <1>3 DEF Inv, TypeOK, StoreTypeOK, BrokerTypeOK, PoolTypeOK
<1>5. RequestInv' BY DEF Inv, TypeOK, RequestTypeOK, Request, RequestInv
<1>6. SentInv' BY DEF Inv, SentInv
<1>7. QED BY <1>2, <1>4, <1>5, <1>6 DEF Inv, SessionInv

\* Every step of a request.
LEMMA UploadInv ==
  ASSUME Inv, NEW r \in Requests, Upload(r)
  PROVE  Inv'
  BY StartUploadInv, InsertJobInv, SaveUploadInv, EnqueueInv, RequestDiesInv
  DEF Upload, UploadStep

(***************************************************************************)
(* The environment.                                                        *)
(***************************************************************************)
\* A change of organization touches no job, conversation or task.
LEMMA MoveUserInv ==
  ASSUME Inv, NEW u \in Users, MoveUser(u)
  PROVE  Inv'
<1> USE DEF MoveUser, brokerVars, poolVars
<1>1. Kept BY DEF Kept
<1>2. \A w \in Workers : TaskOK(w)' /\ SessionOK(w)' BY <1>1, WorkerFrame
<1>3. StoreTypeOK' /\ moves' \in 0..MaxMoves
  BY TagAssumption DEF Inv, TypeOK, StoreTypeOK
<1>4. TypeOK'
  BY <1>2, <1>3 DEF Inv, TypeOK, BrokerTypeOK, RequestTypeOK, PoolTypeOK
<1>5. RequestInv' /\ SentInv' BY DEF Inv, RequestInv, SentInv
<1>6. QED BY <1>2, <1>4, <1>5 DEF Inv, SessionInv

\* A re-embed is published only for a job that exists.
LEMMA ReembedInv ==
  ASSUME Inv, NEW r \in Requests, Reembed(r)
  PROVE  Inv'
<1> USE DEF Reembed, Publish, storeVars, poolVars
<1>1. PICK t \in 1..MaxReembeds : Publish(ReembedMsg(r, t)) BY DEF Reembed
<1>2. broker \in [Messages -> MessageStates] BY DEF Inv, TypeOK, BrokerTypeOK
<1>3. Kept BY <1>1, <1>2 DEF Kept
<1>4. \A w \in Workers : TaskOK(w)' /\ SessionOK(w)' BY <1>3, WorkerFrame
<1>5. BrokerTypeOK' BY <1>1, <1>2 DEF Inv, TypeOK, BrokerTypeOK, MessageStates
<1>6. TypeOK'
  BY <1>4, <1>5 DEF Inv, TypeOK, StoreTypeOK, RequestTypeOK, PoolTypeOK
<1>7. RequestInv' BY DEF Inv, RequestInv
<1>8. SentInv' BY <1>1, <1>2, MessageFacts DEF Inv, SentInv
<1>9. QED BY <1>4, <1>6, <1>7, <1>8 DEF Inv, SessionInv

(***************************************************************************)
(* The workers.                                                            *)
(***************************************************************************)
\* A worker's step takes the whole invariant with it when it keeps the tables'
\* types, undoes nothing and leaves the worker itself in order.
WorkerMoves(w) ==
  /\ \A v \in Workers \ {w} : pc'[v] = pc[v] /\ task'[v] = task[v] /\ tx'[v] = tx[v]
  /\ UNCHANGED <<req, account, moves>>

\* Enough for the invariant to hold after a worker's step.
LEMMA WorkerStepInv ==
  ASSUME Inv, Kept, NEW w \in Workers, WorkerMoves(w),
         StoreTypeOK', BrokerTypeOK', PoolTypeOK', SentInv',
         \A r \in Requests : jobs[r] = None => jobs'[r] = None,
         TaskOK(w)', SessionOK(w)'
  PROVE  Inv'
<1> USE DEF WorkerMoves
<1>1. \A v \in Workers : TaskOK(v)' /\ SessionOK(v)'
  BY WorkerFrame
<1>2. RequestTypeOK' /\ moves' \in 0..MaxMoves BY DEF Inv, TypeOK, RequestTypeOK
<1>3. RequestInv' BY DEF Inv, RequestInv, Kept
<1>4. TypeOK' BY <1>1, <1>2 DEF TypeOK
<1>5. QED BY <1>1, <1>3, <1>4 DEF Inv, SessionInv

\* The steps that touch only the worker: the tables and the broker are as before.
LEMMA LocalStepInv ==
  ASSUME Inv, NEW w \in Workers, WorkerMoves(w), UNCHANGED <<storeVars, brokerVars>>,
         PoolTypeOK', TaskOK(w)', SessionOK(w)'
  PROVE  Inv'
<1> USE DEF storeVars, brokerVars
<1>1. Kept BY DEF Kept
<1>2. StoreTypeOK' /\ BrokerTypeOK'
  BY DEF Inv, TypeOK, StoreTypeOK, BrokerTypeOK
<1>3. SentInv' BY DEF Inv, SentInv
<1>4. QED BY <1>1, <1>2, <1>3, WorkerStepInv

\* The session a task starts with.
LEMMA NoTxType == NoTx \in Session /\ NoContents \in Contents
<1>1. NoContents \in Contents BY DEF NoContents, Contents
<1>2. QED BY <1>1 DEF NoTx, Session

\* A delivered task starts with an empty session, at the first step of its kind.
LEMMA DeliverInv ==
  ASSUME Inv, NEW w \in Workers, DeliverTask(w)
  PROVE  Inv'
<1>1. PICK b \in Messages : Deliver(w, b) BY DEF DeliverTask
<1> USE <1>1 DEF Deliver, To, storeVars
<1>2. /\ pc \in [Workers -> WorkerStates] /\ task \in [Workers -> Messages \cup {None}]
      /\ tx \in [Workers -> Session] /\ crashes' = crashes
      /\ broker \in [Messages -> MessageStates]
  BY DEF Inv, TypeOK, PoolTypeOK, BrokerTypeOK
<1>3. WorkerMoves(w) BY <1>2 DEF WorkerMoves, DeliverTask
<1>4. Kept BY <1>2 DEF Kept
<1>5. StoreTypeOK' BY DEF Inv, TypeOK, StoreTypeOK
<1>6. BrokerTypeOK'
  BY <1>2 DEF Inv, TypeOK, BrokerTypeOK, MessageStates, StoreResult, Outcomes
<1>7. PoolTypeOK'
  BY <1>2 DEF Inv, TypeOK, PoolTypeOK, WorkerStates, ImportStates, EmbedStates
<1>8. jobs[b.job] # None BY DEF Inv, SentInv
<1>9. TaskOK(w)'
  BY <1>2, <1>8, MessageFacts DEF TaskOK, JobOf, ImportStates, EmbedStates
<1>10. SessionOK(w)'
  BY <1>2 DEF Inv, SessionInv, SessionOK, HoldsJob
<1>11. SentInv' BY <1>2 DEF Inv, SentInv
<1>12. QED BY <1>3, <1>4, <1>5, <1>6, <1>7, <1>9, <1>10, <1>11, WorkerStepInv

\* A session that raises leaves the tables as they are.
LEMMA RaiseInv ==
  ASSUME Inv, NEW w \in Workers, Raise(w), pc[w] # "idle", UNCHANGED <<req, moves>>,
         crashes' \in Crashes
  PROVE  Inv'
<1> USE DEF Raise, To, StoreResult, storeVars
<1>1. /\ pc \in [Workers -> WorkerStates] /\ task \in [Workers -> Messages \cup {None}]
      /\ tx \in [Workers -> Session] /\ result \in [Messages -> Outcomes]
      /\ task[w] \in Messages /\ TaskOK(w) /\ SessionOK(w)
  BY DEF Inv, TypeOK, PoolTypeOK, BrokerTypeOK, TaskOK, SessionInv
<1>2. WorkerMoves(w) BY <1>1 DEF WorkerMoves
<1>3. Kept BY DEF Kept
<1>4. StoreTypeOK' BY DEF Inv, TypeOK, StoreTypeOK
<1>5. BrokerTypeOK' BY <1>1 DEF Inv, TypeOK, BrokerTypeOK, Outcomes
<1>6. PoolTypeOK' BY <1>1, NoTxType DEF PoolTypeOK, WorkerStates
<1>7. TaskOK(w)'
  BY <1>1 DEF TaskOK, JobOf, ImportStates, EmbedStates
<1>8. SessionOK(w)' BY <1>1 DEF SessionOK, HoldsJob, NoTx
<1>9. SentInv' BY DEF Inv, SentInv
<1>10. QED BY <1>2, <1>3, <1>4, <1>5, <1>6, <1>7, <1>8, <1>9, WorkerStepInv

\* A stored result changes no table and ends no task.
LEMMA StoreSuccessInv ==
  ASSUME Inv, NEW w \in Workers, StoreSuccess(w), UNCHANGED <<req, moves>>
  PROVE  Inv'
<1> USE DEF StoreSuccess, To, StoreResult, storeVars
<1>1. /\ pc \in [Workers -> WorkerStates] /\ task \in [Workers -> Messages \cup {None}]
      /\ tx \in [Workers -> Session] /\ result \in [Messages -> Outcomes]
      /\ TaskOK(w) /\ SessionOK(w)
  BY DEF Inv, TypeOK, PoolTypeOK, BrokerTypeOK, SessionInv
<1>2. WorkerMoves(w) BY <1>1 DEF WorkerMoves
<1>3. Kept BY DEF Kept
<1>4. StoreTypeOK' BY DEF Inv, TypeOK, StoreTypeOK
<1>5. BrokerTypeOK' BY <1>1 DEF Inv, TypeOK, BrokerTypeOK, Outcomes
<1>6. PoolTypeOK' BY <1>1 DEF Inv, TypeOK, PoolTypeOK, WorkerStates
<1>7. TaskOK(w)'
  BY <1>1 DEF TaskOK, JobOf, ImportStates, EmbedStates
<1>8. SessionOK(w)' BY <1>1 DEF SessionOK, HoldsJob
<1>9. SentInv' BY DEF Inv, SentInv
<1>10. QED BY <1>2, <1>3, <1>4, <1>5, <1>6, <1>7, <1>8, <1>9, WorkerStepInv

\* An acknowledged worker is idle; the message stays published.
LEMMA AckTaskInv ==
  ASSUME Inv, NEW w \in Workers, AckTask(w), UNCHANGED <<req, moves>>
  PROVE  Inv'
<1> USE DEF AckTask, Ack, To, storeVars
<1>1. /\ pc \in [Workers -> WorkerStates] /\ task \in [Workers -> Messages \cup {None}]
      /\ tx \in [Workers -> Session] /\ broker \in [Messages -> MessageStates]
      /\ TaskOK(w) /\ SessionOK(w)
  BY DEF Inv, TypeOK, PoolTypeOK, BrokerTypeOK, SessionInv
<1>2. WorkerMoves(w) BY <1>1 DEF WorkerMoves
<1>3. \A b \in Messages : broker'[b] # "unsent" <=> broker[b] # "unsent" BY <1>1
<1>4. Kept BY <1>3 DEF Kept
<1>5. StoreTypeOK' BY DEF Inv, TypeOK, StoreTypeOK
<1>6. BrokerTypeOK' BY <1>1 DEF Inv, TypeOK, BrokerTypeOK, MessageStates
<1>7. PoolTypeOK' BY <1>1 DEF Inv, TypeOK, PoolTypeOK, WorkerStates
<1>8. TaskOK(w)' BY <1>1 DEF TaskOK
<1>9. SessionOK(w)' BY <1>1 DEF SessionOK, HoldsJob
<1>10. SentInv' BY <1>3 DEF Inv, SentInv
<1>11. QED BY <1>2, <1>4, <1>5, <1>6, <1>7, <1>8, <1>9, <1>10, WorkerStepInv

\* A killed worker is idle with an empty session; its message is not touched.
LEMMA KillWorkerInv ==
  ASSUME Inv, NEW w \in Workers, KillWorker(w), UNCHANGED <<req, moves>>
  PROVE  Inv'
<1> USE DEF KillWorker, To
<1>1. /\ pc \in [Workers -> WorkerStates] /\ task \in [Workers -> Messages \cup {None}]
      /\ tx \in [Workers -> Session]
      /\ crashes \in Crashes
  BY DEF Inv, TypeOK, PoolTypeOK
<1>2. WorkerMoves(w) BY <1>1 DEF WorkerMoves, brokerVars
<1>3. crashes' \in Crashes BY <1>1, WorkerAssumption DEF Crashes
<1>4. PoolTypeOK' BY <1>1, <1>3, NoTxType DEF PoolTypeOK, WorkerStates
<1>5. TaskOK(w)' BY <1>1 DEF TaskOK
<1>6. SessionOK(w)' BY <1>1 DEF SessionOK, HoldsJob, NoTx
<1>7. QED BY <1>2, <1>4, <1>5, <1>6, LocalStepInv

\* A worker that lost its pool child is idle with an empty session.
LEMMA LoseChildInv ==
  ASSUME Inv, NEW w \in Workers, LoseChild(w), UNCHANGED <<req, moves>>
  PROVE  Inv'
<1> USE DEF LoseChild, Ack, To, StoreResult, storeVars
<1>1. /\ pc \in [Workers -> WorkerStates] /\ task \in [Workers -> Messages \cup {None}]
      /\ tx \in [Workers -> Session] /\ result \in [Messages -> Outcomes]
      /\ broker \in [Messages -> MessageStates]
      /\ crashes \in Crashes
  BY DEF Inv, TypeOK, PoolTypeOK, BrokerTypeOK
<1>2. WorkerMoves(w) BY <1>1 DEF WorkerMoves
<1>3. \A b \in Messages : broker'[b] # "unsent" <=> broker[b] # "unsent" BY <1>1
<1>4. Kept BY <1>3 DEF Kept
<1>5. StoreTypeOK' BY DEF Inv, TypeOK, StoreTypeOK
<1>6. BrokerTypeOK'
  BY <1>1 DEF Inv, TypeOK, BrokerTypeOK, MessageStates, Outcomes
<1>7. crashes' \in Crashes BY <1>1, WorkerAssumption DEF Crashes
<1>8. PoolTypeOK' BY <1>1, <1>7, NoTxType DEF PoolTypeOK, WorkerStates
<1>9. TaskOK(w)' BY <1>1 DEF TaskOK
<1>10. SessionOK(w)' BY <1>1 DEF SessionOK, HoldsJob, NoTx
<1>11. SentInv' BY <1>3 DEF Inv, SentInv
<1>12. QED BY <1>2, <1>4, <1>5, <1>6, <1>8, <1>9, <1>10, <1>11, WorkerStepInv

\* A restored message was published before.
LEMMA RestoreInv ==
  ASSUME Inv, NEW b \in Messages, Restore(b)
  PROVE  Inv'
<1> USE DEF Restore, RestoreOrphan, RestoreRunning, storeVars, poolVars
<1>1. broker \in [Messages -> MessageStates] /\ timeouts \in 0..MaxTimeouts
  BY DEF Inv, TypeOK, BrokerTypeOK
<1>2. \A x \in Messages : broker'[x] # "unsent" <=> broker[x] # "unsent" BY <1>1
<1>3. Kept BY <1>2 DEF Kept
<1>4. \A w \in Workers : TaskOK(w)' /\ SessionOK(w)' BY <1>3, WorkerFrame
<1>5. BrokerTypeOK'
  BY <1>1, BrokerAssumption DEF Inv, TypeOK, BrokerTypeOK, MessageStates
<1>6. TypeOK'
  BY <1>4, <1>5 DEF Inv, TypeOK, StoreTypeOK, RequestTypeOK, PoolTypeOK
<1>7. RequestInv' BY DEF Inv, RequestInv
<1>8. SentInv' BY <1>2 DEF Inv, SentInv
<1>9. QED BY <1>4, <1>6, <1>7, <1>8 DEF Inv, SessionInv

\* A result that expires is all that changes.
LEMMA ExpireInv ==
  ASSUME Inv, NEW b \in Messages, Expire(b)
  PROVE  Inv'
<1> USE DEF Expire, ExpireResult, storeVars, poolVars
<1>1. Kept BY DEF Kept
<1>2. \A w \in Workers : TaskOK(w)' /\ SessionOK(w)' BY <1>1, WorkerFrame
<1>3. BrokerTypeOK' BY DEF Inv, TypeOK, BrokerTypeOK, Outcomes
<1>4. TypeOK'
  BY <1>2, <1>3 DEF Inv, TypeOK, StoreTypeOK, RequestTypeOK, PoolTypeOK
<1>5. RequestInv' /\ SentInv' BY DEF Inv, RequestInv, SentInv
<1>6. QED BY <1>2, <1>4, <1>5 DEF Inv, SessionInv

(***************************************************************************)
(* The import task.                                                        *)
(***************************************************************************)
\* The job, file and account of a worker that runs an import.
LEMMA ImportJobFacts ==
  ASSUME Inv, NEW w \in Workers, pc[w] \in ImportStates
  PROVE  /\ task[w] \in Messages /\ task[w].kind = "import"
         /\ JobOf(w) \in Requests /\ task[w] = ImportMsg(JobOf(w))
         /\ jobs[JobOf(w)] \in JobRow /\ jobs[JobOf(w)] # None
         /\ account[JobOf(w)] \in Accounts /\ JobOf(w) \in uploads
<1>1. TaskOK(w) /\ pc[w] # "idle" BY DEF Inv, TypeOK, ImportStates
<1>2. /\ task[w] \in Messages /\ task[w].kind = "import"
      /\ JobOf(w) \in Requests /\ task[w] = ImportMsg(JobOf(w))
      /\ jobs[JobOf(w)] # None /\ broker[task[w]] # "unsent"
  BY <1>1, MessageFacts DEF TaskOK, JobOf
<1>3. jobs[JobOf(w)] \in JobRow BY <1>2 DEF Inv, TypeOK, StoreTypeOK
<1>4. account[JobOf(w)] \in Accounts /\ JobOf(w) \in uploads
  BY <1>2 DEF Inv, SentInv, JobOf
<1>5. QED BY <1>2, <1>3, <1>4

\* The file of a worker inside the loop, and the conversation it is at.
LEMMA LoopFacts ==
  ASSUME Inv, NEW w \in Workers, HoldsJob(w)
  PROVE  /\ pc[w] \in ImportStates
         /\ Parsed[jobs[JobOf(w)].file] \in ParsedFile
         /\ Len(Order(JobOf(w))) \in Nat
         /\ tx[w].next \in Nat
         /\ tx[w].next \in 1..(Len(Order(JobOf(w))) + 1)
         /\ tx[w].next <= Len(Order(JobOf(w))) =>
              /\ Key(w) \in ConvKeys
              /\ Key(w)[1] = Order(JobOf(w))[tx[w].next]
              /\ Key(w)[2] = account[JobOf(w)]
              /\ File(w) \in [MsgIds -> Texts \cup {None}]
<1>1. pc[w] \in ImportStates BY DEF HoldsJob, ImportStates
<1>2. /\ Parsed[jobs[JobOf(w)].file] \in ParsedFile
      /\ tx[w].next \in 1..(Len(Order(JobOf(w))) + 1)
  BY DEF Inv, SessionInv, SessionOK
<1>3. /\ Order(JobOf(w)) \in Seq(ConvIds)
      /\ Parsed[jobs[JobOf(w)].file].text \in [ConvIds -> [MsgIds -> Texts \cup {None}]]
  BY <1>2 DEF ParsedFile, Order
<1>4. Len(Order(JobOf(w))) \in Nat BY <1>3
<1>5. tx[w].next \in Nat BY <1>2, <1>4
<1>6. ASSUME tx[w].next <= Len(Order(JobOf(w)))
      PROVE  /\ Key(w) \in ConvKeys
             /\ Key(w)[1] = Order(JobOf(w))[tx[w].next]
             /\ Key(w)[2] = account[JobOf(w)]
             /\ File(w) \in [MsgIds -> Texts \cup {None}]
  <2>1. Order(JobOf(w))[tx[w].next] \in ConvIds BY <1>2, <1>3, <1>4, <1>6
  <2>2. account[JobOf(w)] \in Accounts BY <1>1, ImportJobFacts
  <2>3. QED BY <1>3, <2>1, <2>2 DEF Key, ConvKeys, File, FileText
<1>7. QED BY <1>1, <1>2, <1>4, <1>5, <1>6

\* Loading the job and the user writes nothing.
LEMMA BeginImportInv ==
  ASSUME Inv, NEW w \in Workers, BeginImport(w), UNCHANGED <<req, moves>>
  PROVE  Inv'
<1> USE DEF BeginImport, To
<1>1. /\ pc \in [Workers -> WorkerStates] /\ tx \in [Workers -> Session]
      /\ TaskOK(w) /\ SessionOK(w)
  BY DEF Inv, TypeOK, PoolTypeOK, SessionInv
<1>2. WorkerMoves(w) BY <1>1 DEF WorkerMoves, brokerVars
<1>3. PoolTypeOK'
  <2>1. (jobs[JobOf(w)].user \in member) \in BOOLEAN OBVIOUS
  <2>2. QED BY <1>1, <2>1 DEF Inv, TypeOK, PoolTypeOK, WorkerStates, ImportStates, Session
<1>4. TaskOK(w)' BY <1>1 DEF TaskOK, JobOf, ImportStates, EmbedStates, storeVars, brokerVars
<1>5. SessionOK(w)' BY <1>1 DEF SessionOK, HoldsJob, Session
<1>6. QED BY <1>2, <1>3, <1>4, <1>5, LocalStepInv

\* An import enters the loop at the first conversation of a readable file, or raises.
LEMMA LockJobInv ==
  ASSUME Inv, NEW w \in Workers, LockJob(w), UNCHANGED <<req, moves>>
  PROVE  Inv'
<1> USE DEF LockJob, To
<1>1. /\ pc \in [Workers -> WorkerStates] /\ tx \in [Workers -> Session]
      /\ TaskOK(w) /\ SessionOK(w) /\ pc[w] \in ImportStates
      /\ crashes \in Crashes
  BY DEF Inv, TypeOK, PoolTypeOK, SessionInv, ImportStates
<1>2. CASE Loadable(JobOf(w))
  <2>1. WorkerMoves(w) BY <1>1, <1>2 DEF WorkerMoves, brokerVars
  <2>2. PoolTypeOK'
    BY <1>1, <1>2 DEF Inv, TypeOK, PoolTypeOK, WorkerStates, ImportStates
  <2>3. TaskOK(w)'
    BY <1>1, <1>2 DEF TaskOK, JobOf, ImportStates, EmbedStates, storeVars, brokerVars
  <2>4. Parsed[jobs[JobOf(w)].file] \in ParsedFile
    BY <1>1, <1>2, ImportJobFacts, ParsedAssumption DEF Loadable, JobRow
  <2>5. Len(Order(JobOf(w))) \in Nat BY <2>4 DEF Order, ParsedFile
  <2>6. SessionOK(w)'
    BY <1>1, <1>2, <2>4, <2>5 DEF SessionOK, HoldsJob, JobOf, Order, storeVars
  <2>7. QED BY <1>2, <2>1, <2>2, <2>3, <2>6, LocalStepInv
<1>3. CASE ~Loadable(JobOf(w)) BY <1>1, <1>3, RaiseInv
<1>4. QED BY <1>2, <1>3

\* A conversation without messages only moves the index, by one.
LEMMA SkipConversationInv ==
  ASSUME Inv, NEW w \in Workers, SkipConversation(w), UNCHANGED <<req, moves>>
  PROVE  Inv'
<1> USE DEF SkipConversation, MoreConversations
<1>1. /\ pc \in [Workers -> WorkerStates] /\ tx \in [Workers -> Session]
      /\ TaskOK(w) /\ SessionOK(w)
  BY DEF Inv, TypeOK, PoolTypeOK, SessionInv
<1>2. HoldsJob(w) BY DEF HoldsJob
<1>3. WorkerMoves(w) BY <1>1 DEF WorkerMoves, brokerVars
<1> DEFINE len == Len(Order(JobOf(w)))
<1>4. tx[w].next \in Nat /\ len \in Nat /\ tx[w].next + 1 \in 1..(len + 1)
  <2>1. tx[w].next \in Nat /\ len \in Nat BY <1>2, LoopFacts
  <2>2. tx[w].next \in 1..(len + 1) BY <1>1, <1>2 DEF SessionOK
  <2>3. tx[w].next <= len OBVIOUS
  <2> HIDE DEF len, SkipConversation, MoreConversations
  <2>4. QED BY <2>1, <2>2, <2>3
<1>5. tx' = [tx EXCEPT ![w].next = tx[w].next + 1] /\ tx'[w].next = tx[w].next + 1
  BY <1>1 DEF Session
<1>6. PoolTypeOK'
  <2>1. tx[w].next + 1 \in Nat BY <1>4
  <2> HIDE DEF len
  <2>2. tx' \in [Workers -> Session] BY <1>1, <1>5, <2>1 DEF Session
  <2>3. QED BY <2>2 DEF Inv, TypeOK, PoolTypeOK
<1>7. TaskOK(w)' BY <1>1 DEF TaskOK, JobOf, storeVars, brokerVars
<1>8. SessionOK(w)'
  <2>1. len' = len /\ jobs'[JobOf(w)'].file = jobs[JobOf(w)].file
    BY DEF JobOf, Order, storeVars
  <2>2. HoldsJob(w)' /\ pc'[w] = "select" /\ tx'[w].pend = tx[w].pend
    BY <1>1, <1>2, <1>5 DEF HoldsJob, Session
  <2>3. tx'[w].next \in 1..(len' + 1) BY <1>4, <1>5, <2>1
  <2> HIDE DEF len
  <2>4. QED BY <1>1, <1>2, <2>1, <2>2, <2>3 DEF SessionOK, len
<1>9. QED BY <1>3, <1>6, <1>7, <1>8, LocalStepInv

\* The SELECT leaves the index within the file.
LEMMA SelectConversationInv ==
  ASSUME Inv, NEW w \in Workers, SelectConversation(w), UNCHANGED <<req, moves>>
  PROVE  Inv'
<1> USE DEF SelectConversation, MoreConversations, To
<1>1. /\ pc \in [Workers -> WorkerStates] /\ tx \in [Workers -> Session]
      /\ TaskOK(w) /\ SessionOK(w)
  BY DEF Inv, TypeOK, PoolTypeOK, SessionInv
<1>2. WorkerMoves(w) BY <1>1 DEF WorkerMoves, brokerVars
<1>3. PoolTypeOK'
  <2>1. PICK seen \in {"absent", "mine", "other"} : tx' = [tx EXCEPT ![w].seen = seen]
    <3> DEFINE conv == convs[Key(w)]
    <3>1. CASE conv = None BY <3>1
    <3>2. CASE conv # None /\ conv.job = JobOf(w) BY <3>2
    <3>3. CASE conv # None /\ conv.job # JobOf(w) BY <3>3
    <3>4. QED BY <3>1, <3>2, <3>3
  <2>2. tx' \in [Workers -> Session] BY <1>1, <2>1 DEF Session
  <2>3. pc' \in [Workers -> WorkerStates] BY <1>1 DEF WorkerStates, ImportStates
  <2>4. task' = task /\ crashes' = crashes OBVIOUS
  <2>5. QED BY <2>2, <2>3, <2>4 DEF Inv, TypeOK, PoolTypeOK
<1>4. TaskOK(w)' BY <1>1 DEF TaskOK, JobOf, ImportStates, EmbedStates, storeVars, brokerVars
<1>5. SessionOK(w)'
  BY <1>1 DEF SessionOK, HoldsJob, JobOf, Order, Session, storeVars
<1>6. QED BY <1>2, <1>3, <1>4, <1>5, LocalStepInv

\* A claimed row is a conversation key.
LEMMA ClaimConversationInv ==
  ASSUME Inv, NEW w \in Workers, ClaimConversation(w), UNCHANGED <<req, moves>>
  PROVE  Inv'
<1> USE DEF ClaimConversation, To
<1>1. /\ pc \in [Workers -> WorkerStates] /\ tx \in [Workers -> Session]
      /\ TaskOK(w) /\ SessionOK(w) /\ HoldsJob(w)
  BY DEF Inv, TypeOK, PoolTypeOK, SessionInv, HoldsJob
<1>2. Key(w) \in ConvKeys BY <1>1, LoopFacts DEF SessionOK
<1>3. WorkerMoves(w) BY <1>1 DEF WorkerMoves, brokerVars
<1>4. PoolTypeOK'
  BY <1>1, <1>2 DEF Inv, TypeOK, PoolTypeOK, WorkerStates, ImportStates, Session
<1>5. TaskOK(w)' BY <1>1 DEF TaskOK, JobOf, ImportStates, EmbedStates, storeVars, brokerVars
<1>6. SessionOK(w)'
  BY <1>1 DEF SessionOK, HoldsJob, JobOf, Order, Session, storeVars
<1>7. QED BY <1>3, <1>4, <1>5, <1>6, LocalStepInv

\* A statement that fails for a reason of its own: the provider is not involved.
LEMMA FailInv ==
  ASSUME Inv, NEW w \in Workers, Raise(w), pc[w] # "idle", UNCHANGED <<req, moves, crashes>>
  PROVE  Inv'
  BY RaiseInv DEF Inv, TypeOK, PoolTypeOK

\* The victim of a deadlock raises.
LEMMA DeadlockVictimInv ==
  ASSUME Inv, NEW w \in Workers, DeadlockVictim(w), UNCHANGED <<req, moves>>
  PROVE  Inv'
<1>1. Blockers(w) # {} BY DEF DeadlockVictim, Deadlocked
<1>2. pc[w] # "idle" BY <1>1 DEF Blockers
<1>3. crashes \in Crashes BY DEF Inv, TypeOK, PoolTypeOK
<1>4. crashes' \in Crashes BY <1>3 DEF DeadlockVictim, Crashes
<1>5. QED BY <1>2, <1>4, RaiseInv DEF DeadlockVictim

\* What is written is the file's text, and the index moves by one.
LEMMA WriteMessagesInv ==
  ASSUME Inv, NEW w \in Workers, WriteMessages(w), UNCHANGED <<req, moves>>
  PROVE  Inv'
<1> USE DEF WriteMessages, To
<1> DEFINE len == Len(Order(JobOf(w)))
           row == [m \in MsgIds |-> IF m \in ToWrite(w) THEN File(w)[m]
                                    ELSE tx[w].write[Key(w)][m]]
           wr == [tx[w].write EXCEPT ![Key(w)] = row]
<1>1. /\ pc \in [Workers -> WorkerStates] /\ tx \in [Workers -> Session]
      /\ TaskOK(w) /\ SessionOK(w) /\ HoldsJob(w)
  BY DEF Inv, TypeOK, PoolTypeOK, SessionInv, HoldsJob
<1>2. tx[w].next <= len BY <1>1 DEF SessionOK
<1>3. /\ Key(w) \in ConvKeys /\ File(w) \in [MsgIds -> Texts \cup {None}]
      /\ tx[w].next \in Nat /\ len \in Nat
  BY <1>1, <1>2, LoopFacts
<1>4. tx[w].next + 1 \in 1..(len + 1) BY <1>2, <1>3
<1>5. tx' = [tx EXCEPT ![w].write = wr, ![w].next = tx[w].next + 1]
  BY <1>1 DEF Session
<1>6. wr \in Contents
  <2>1. row \in [MsgIds -> Texts \cup {None}]
    BY <1>1, <1>3 DEF Session, Contents
  <2>2. QED BY <1>1, <2>1 DEF Session, Contents
<1> HIDE DEF wr
<1>7. WorkerMoves(w) BY <1>1, <1>5 DEF WorkerMoves, brokerVars
<1>8. PoolTypeOK'
  <2>1. [tx[w] EXCEPT !.write = wr, !.next = tx[w].next + 1] \in Session
    BY <1>1, <1>3, <1>6 DEF Session
  <2>2. tx' = [tx EXCEPT ![w] = [tx[w] EXCEPT !.write = wr, !.next = tx[w].next + 1]]
    BY <1>1, <1>5
  <2>3. tx' \in [Workers -> Session] BY <1>1, <2>1, <2>2
  <2>4. QED BY <1>1, <2>3 DEF Inv, TypeOK, PoolTypeOK, WorkerStates, ImportStates
<1>9. TaskOK(w)' BY <1>1 DEF TaskOK, JobOf, ImportStates, EmbedStates, storeVars, brokerVars
<1>10. SessionOK(w)'
  <2>1. len' = len /\ jobs'[JobOf(w)'].file = jobs[JobOf(w)].file
    BY DEF JobOf, Order, storeVars
  <2>2. HoldsJob(w)' /\ pc'[w] = "select" /\ tx'[w].pend = tx[w].pend
    BY <1>1, <1>5 DEF HoldsJob, Session
  <2>3. tx'[w].next \in 1..(len' + 1) BY <1>1, <1>4, <1>5, <2>1 DEF Session
  <2>4. tx[w].pend = NoContents BY <1>1 DEF SessionOK
  <2> HIDE DEF len
  <2>5. QED BY <1>1, <2>1, <2>2, <2>3, <2>4 DEF SessionOK, len
<1>11. QED BY <1>7, <1>8, <1>9, <1>10, LocalStepInv

\* The commit keeps every row well typed and empties the session.
LEMMA ImportCommitInv ==
  ASSUME Inv, NEW w \in Workers, ImportCommit(w), UNCHANGED <<req, moves>>
  PROVE  Inv'
<1> USE DEF ImportCommit, To
<1>1. /\ pc \in [Workers -> WorkerStates] /\ tx \in [Workers -> Session]
      /\ jobs \in [Requests -> JobRow \cup {None}]
      /\ convs \in [ConvKeys -> ConvRow \cup {None}] /\ msgs \in Contents
      /\ TaskOK(w) /\ SessionOK(w) /\ pc[w] \in ImportStates
  BY DEF Inv, TypeOK, StoreTypeOK, PoolTypeOK, SessionInv, ImportStates
<1>2. JobOf(w) \in Requests /\ jobs[JobOf(w)] \in JobRow /\ jobs[JobOf(w)] # None
  BY <1>1, ImportJobFacts
<1> DEFINE row == [jobs[JobOf(w)] EXCEPT !.status = "completed"]
<1>3. row \in JobRow /\ row.user = jobs[JobOf(w)].user /\ row.file = jobs[JobOf(w)].file
  BY <1>2 DEF JobRow, Statuses
<1>4. row # None BY <1>3, NoneAssumption DEF JobRow, Statuses
<1>5. jobs' = [jobs EXCEPT ![JobOf(w)] = row] OBVIOUS
<1> HIDE DEF row
<1>6. WorkerMoves(w) BY <1>1 DEF WorkerMoves, brokerVars
<1>7. Kept BY <1>1, <1>2, <1>3, <1>4, <1>5 DEF Kept, brokerVars
<1>8. StoreTypeOK'
  <2>1. jobs' \in [Requests -> JobRow \cup {None}] BY <1>1, <1>3, <1>5
  <2>2. ConvsAfter(w) \in [ConvKeys -> ConvRow \cup {None}]
    BY <1>1, <1>2 DEF ConvsAfter, ConvRow, JobRow
  <2>3. MsgsAfter(w) \in Contents
    BY <1>1 DEF MsgsAfter, Contents, Session
  <2>4. QED BY <2>1, <2>2, <2>3 DEF Inv, TypeOK, StoreTypeOK
<1>9. BrokerTypeOK' BY DEF Inv, TypeOK, BrokerTypeOK, brokerVars
<1>10. PoolTypeOK'
  BY <1>1, NoTxType DEF Inv, TypeOK, PoolTypeOK, WorkerStates, ImportStates
<1>11. TaskOK(w)'
  BY <1>1, <1>2, <1>4, <1>5 DEF TaskOK, JobOf, ImportStates, EmbedStates, brokerVars
<1>12. SessionOK(w)' BY <1>1 DEF SessionOK, HoldsJob, NoTx
<1>13. SentInv' BY <1>7, MessageFacts DEF Inv, SentInv, Kept, brokerVars
<1>14. \A r \in Requests : jobs[r] = None => jobs'[r] = None BY <1>1, <1>2, <1>5
<1>15. QED
  BY <1>6, <1>7, <1>8, <1>9, <1>10, <1>11, <1>12, <1>13, <1>14, WorkerStepInv

\* The chain's next message is about the same job.
LEMMA PublishEmbedInv ==
  ASSUME Inv, NEW w \in Workers, PublishEmbed(w), UNCHANGED <<req, moves>>
  PROVE  Inv'
<1> USE DEF PublishEmbed, To, storeVars
<1>1. /\ pc \in [Workers -> WorkerStates] /\ tx \in [Workers -> Session]
      /\ broker \in [Messages -> MessageStates]
      /\ TaskOK(w) /\ SessionOK(w) /\ pc[w] \in ImportStates
  BY DEF Inv, TypeOK, BrokerTypeOK, PoolTypeOK, SessionInv, ImportStates
<1>2. /\ JobOf(w) \in Requests /\ jobs[JobOf(w)] # None
      /\ account[JobOf(w)] \in Accounts /\ JobOf(w) \in uploads
      /\ task[w] \in Messages
  BY <1>1, ImportJobFacts
<1>3. PICK t \in 1..MaxTag : Publish(EmbedMsg(JobOf(w), t)) BY DEF PublishEmbed
<1>4. EmbedMsg(JobOf(w), t) \in Messages /\ EmbedMsg(JobOf(w), t).job = JobOf(w)
  BY <1>2, MessageFacts
<1>5. broker' = [broker EXCEPT ![EmbedMsg(JobOf(w), t)] = "queued"] BY <1>3 DEF Publish
<1>6. WorkerMoves(w) BY <1>1 DEF WorkerMoves
<1>7. Kept BY <1>1, <1>5 DEF Kept
<1>8. StoreTypeOK' BY DEF Inv, TypeOK, StoreTypeOK
<1>9. BrokerTypeOK' BY <1>1, <1>5 DEF Inv, TypeOK, BrokerTypeOK, MessageStates
<1>10. PoolTypeOK' BY <1>1 DEF Inv, TypeOK, PoolTypeOK, WorkerStates
<1>11. TaskOK(w)'
  BY <1>1, <1>2, <1>7 DEF TaskOK, JobOf, Kept, ImportStates, EmbedStates
<1>12. SessionOK(w)' BY <1>1 DEF SessionOK, HoldsJob
<1>13. SentInv' BY <1>1, <1>2, <1>4, <1>5 DEF Inv, SentInv
<1>14. QED
  BY <1>6, <1>7, <1>8, <1>9, <1>10, <1>11, <1>12, <1>13, WorkerStepInv

\* Every step of an import task.
LEMMA ImportStepInv ==
  ASSUME Inv, NEW w \in Workers, ImportStep(w), UNCHANGED <<req, moves>>
  PROVE  Inv'
<1>1. CASE ClaimFails(w) BY <1>1, FailInv DEF ClaimFails
<1>2. QED
  BY <1>1, BeginImportInv, LockJobInv, SkipConversationInv, SelectConversationInv,
     ClaimConversationInv, WriteMessagesInv, DeadlockVictimInv, ImportCommitInv,
     PublishEmbedInv
  DEF ImportStep
(***************************************************************************)
(* The embed task.                                                         *)
(***************************************************************************)
\* The first query of an embed task leaves its pending contents empty.
LEMMA ReadConversationsInv ==
  ASSUME Inv, NEW w \in Workers, ReadConversations(w), UNCHANGED <<req, moves>>
  PROVE  Inv'
<1> USE DEF ReadConversations, To
<1>1. /\ pc \in [Workers -> WorkerStates] /\ tx \in [Workers -> Session]
      /\ TaskOK(w) /\ SessionOK(w)
  BY DEF Inv, TypeOK, PoolTypeOK, SessionInv
<1>2. WorkerMoves(w) BY <1>1 DEF WorkerMoves, brokerVars
<1>3. PoolTypeOK'
  BY <1>1 DEF Inv, TypeOK, PoolTypeOK, WorkerStates, EmbedStates, Session
<1>4. TaskOK(w)' BY <1>1 DEF TaskOK, JobOf, ImportStates, EmbedStates, storeVars, brokerVars
<1>5. SessionOK(w)' BY <1>1 DEF SessionOK, HoldsJob, Session
<1>6. QED BY <1>2, <1>3, <1>4, <1>5, LocalStepInv

\* What an embed task reads is stored content.
LEMMA ReadMessagesInv ==
  ASSUME Inv, NEW w \in Workers, ReadMessages(w), UNCHANGED <<req, moves>>
  PROVE  Inv'
<1> USE DEF ReadMessages, To
<1> DEFINE pend == [k \in ConvKeys |->
                      IF k \in tx[w].cids THEN msgs[k] ELSE [m \in MsgIds |-> None]]
<1>1. /\ pc \in [Workers -> WorkerStates] /\ tx \in [Workers -> Session]
      /\ TaskOK(w) /\ SessionOK(w) /\ msgs \in Contents
  BY DEF Inv, TypeOK, StoreTypeOK, PoolTypeOK, SessionInv
<1>2. WorkerMoves(w) BY <1>1 DEF WorkerMoves, brokerVars
<1>3. pend \in Contents BY <1>1 DEF Contents
<1>4. tx' = [tx EXCEPT ![w].pend = pend] OBVIOUS
<1> HIDE DEF pend
<1>5. PoolTypeOK'
  BY <1>1, <1>3, <1>4 DEF Inv, TypeOK, PoolTypeOK, WorkerStates, EmbedStates, Session
<1>6. TaskOK(w)' BY <1>1 DEF TaskOK, JobOf, ImportStates, EmbedStates, storeVars, brokerVars
<1>7. SessionOK(w)' BY <1>1, <1>4 DEF SessionOK, HoldsJob, Session
<1>8. QED BY <1>2, <1>5, <1>6, <1>7, LocalStepInv

\* Leaving messages out keeps the pending contents well typed.
LEMMA SkipExistingInv ==
  ASSUME Inv, NEW w \in Workers, SkipExisting(w), UNCHANGED <<req, moves>>
  PROVE  Inv'
<1> DEFINE pend == [k \in ConvKeys |-> [m \in MsgIds |->
                      IF embs[k][m] = <<>> THEN tx[w].pend[k][m] ELSE None]]
<1>1. /\ pc \in [Workers -> WorkerStates] /\ tx \in [Workers -> Session]
      /\ TaskOK(w) /\ SessionOK(w)
  BY DEF Inv, TypeOK, PoolTypeOK, SessionInv
<1>2. /\ pc[w] = "skip" /\ pc' = [pc EXCEPT ![w] = "embed"]
      /\ UNCHANGED <<storeVars, brokerVars, task, crashes>>
  BY DEF SkipExisting, To
<1>3. pend \in Contents BY <1>1 DEF Contents, Session
<1>4. tx' = [tx EXCEPT ![w].pend = pend] BY <1>1 DEF SkipExisting, Session
<1> HIDE DEF pend
<1>5. WorkerMoves(w) BY <1>1, <1>2, <1>4 DEF WorkerMoves, brokerVars, SkipExisting
<1>6. PoolTypeOK'
  BY <1>1, <1>2, <1>3, <1>4 DEF Inv, TypeOK, PoolTypeOK, WorkerStates, EmbedStates, Session
<1>7. TaskOK(w)' BY <1>1, <1>2 DEF TaskOK, JobOf, ImportStates, EmbedStates, storeVars, brokerVars
<1>8. SessionOK(w)' BY <1>1, <1>2, <1>4 DEF SessionOK, HoldsJob, Session
<1>9. QED BY <1>2, <1>5, <1>6, <1>7, <1>8, LocalStepInv

\* A failed call of the provider raises.
LEMMA EmbedFailsInv ==
  ASSUME Inv, NEW w \in Workers, EmbedFails(w), UNCHANGED <<req, moves>>
  PROVE  Inv'
<1>1. crashes \in Crashes BY DEF Inv, TypeOK, PoolTypeOK
<1>2. crashes' \in Crashes BY <1>1, WorkerAssumption DEF EmbedFails, Crashes
<1>3. QED BY <1>2, RaiseInv DEF EmbedFails

\* The commit appends stored contents to the records.
LEMMA EmbedCommitInv ==
  ASSUME Inv, NEW w \in Workers, EmbedCommit(w), UNCHANGED <<req, moves>>
  PROVE  Inv'
<1> USE DEF EmbedCommit, To
<1>1. /\ pc \in [Workers -> WorkerStates] /\ tx \in [Workers -> Session]
      /\ TaskOK(w) /\ SessionOK(w)
      /\ embs \in [ConvKeys -> [MsgIds -> Seq(Texts)]]
  BY DEF Inv, TypeOK, StoreTypeOK, Embeddings, PoolTypeOK, SessionInv
<1>2. WorkerMoves(w) BY <1>1 DEF WorkerMoves, brokerVars
<1>3. Kept BY DEF Kept, brokerVars
<1>4. embs' \in [ConvKeys -> [MsgIds -> Seq(Texts)]]
  <2>1. ASSUME NEW k \in ConvKeys, NEW m \in MsgIds
        PROVE  (IF tx[w].pend[k][m] = None THEN embs[k][m]
                ELSE Append(embs[k][m], tx[w].pend[k][m])) \in Seq(Texts)
    <3>1. embs[k][m] \in Seq(Texts) /\ tx[w].pend[k][m] \in Texts \cup {None}
      BY <1>1 DEF Session, Contents
    <3>2. QED BY <3>1
  <2>2. QED BY <2>1
<1>5. StoreTypeOK' BY <1>4 DEF Inv, TypeOK, StoreTypeOK, Embeddings
<1>6. BrokerTypeOK' BY DEF Inv, TypeOK, BrokerTypeOK, brokerVars
<1>7. PoolTypeOK' BY <1>1, NoTxType DEF Inv, TypeOK, PoolTypeOK, WorkerStates
<1>8. TaskOK(w)' BY <1>1 DEF TaskOK, JobOf, ImportStates, EmbedStates, brokerVars
<1>9. SessionOK(w)' BY <1>1 DEF SessionOK, HoldsJob, NoTx
<1>10. SentInv' BY DEF Inv, SentInv, brokerVars
<1>11. QED BY <1>2, <1>3, <1>5, <1>6, <1>7, <1>8, <1>9, <1>10, WorkerStepInv

\* Every step of an embed task.
LEMMA EmbedStepInv ==
  ASSUME Inv, NEW w \in Workers, EmbedStep(w), UNCHANGED <<req, moves>>
  PROVE  Inv'
  BY ReadConversationsInv, ReadMessagesInv, SkipExistingInv, EmbedFailsInv, EmbedCommitInv
  DEF EmbedStep

(***************************************************************************)
(* The invariant.                                                          *)
(***************************************************************************)
\* The invariant holds initially.
LEMMA InitInv == Init => Inv
<1> SUFFICES ASSUME Init PROVE Inv OBVIOUS
<1> USE DEF Init
<1>1. StoreTypeOK BY NoTxType DEF StoreInit, StoreTypeOK, Embeddings
<1>2. BrokerTypeOK
  BY BrokerAssumption DEF BrokerInit, BrokerTypeOK, MessageStates, Outcomes
<1>3. RequestTypeOK BY DEF RequestInit, RequestTypeOK, Request, RequestStates
<1>4. PoolTypeOK BY NoTxType, WorkerAssumption DEF PoolInit, PoolTypeOK, WorkerStates, Crashes
<1>5. moves \in 0..MaxMoves BY TagAssumption
<1>6. \A w \in Workers : TaskOK(w) /\ SessionOK(w)
  BY DEF PoolInit, TaskOK, SessionOK, HoldsJob, NoTx
<1>7. RequestInv BY DEF StoreInit, RequestInit, RequestInv
<1>8. SentInv BY DEF BrokerInit, SentInv
<1>9. QED
  BY <1>1, <1>2, <1>3, <1>4, <1>5, <1>6, <1>7, <1>8 DEF Inv, TypeOK, SessionInv

\* Every step of the pipeline keeps the invariant.
LEMMA NextInv == Inv /\ [Next]_vars => Inv'
<1> SUFFICES ASSUME Inv, [Next]_vars PROVE Inv' OBVIOUS
<1>1. ASSUME NEW r \in Requests, Upload(r) \/ Reembed(r) PROVE Inv'
  BY <1>1, UploadInv, ReembedInv
<1>2. ASSUME NEW w \in Workers, DeliverTask(w) PROVE Inv' BY <1>2, DeliverInv
<1>3. ASSUME NEW w \in Workers, TaskStep(w) PROVE Inv'
  BY <1>3, ImportStepInv, EmbedStepInv, StoreSuccessInv, AckTaskInv DEF TaskStep
<1>4. ASSUME NEW w \in Workers, Crash(w) PROVE Inv'
  BY <1>4, KillWorkerInv, LoseChildInv DEF Crash
<1>5. ASSUME NEW b \in Messages, Restore(b) \/ Expire(b) PROVE Inv'
  BY <1>5, RestoreInv, ExpireInv
<1>6. ASSUME NEW u \in Users, MoveUser(u) PROVE Inv' BY <1>6, MoveUserInv
<1>7. CASE UNCHANGED vars
  <2> USE <1>7 DEF vars, storeVars, brokerVars, poolVars
  <2>1. Kept BY DEF Kept
  <2>2. \A w \in Workers : TaskOK(w)' /\ SessionOK(w)' BY <2>1, WorkerFrame
  <2>3. TypeOK'
    BY <2>2 DEF Inv, TypeOK, StoreTypeOK, BrokerTypeOK, RequestTypeOK, PoolTypeOK
  <2>4. RequestInv' /\ SentInv' BY DEF Inv, RequestInv, SentInv
  <2>5. QED BY <2>2, <2>3, <2>4 DEF Inv, SessionInv
<1>8. QED
  BY <1>1, <1>2, <1>3, <1>4, <1>5, <1>6, <1>7 DEF Next, Idle

\* The inductive invariant holds: every variable has its type, every task under
\* way is for a committed job whose file was stored and readable, and nothing a
\* session wrote outlives it.
THEOREM InvHolds == Spec => []Inv
  BY InitInv, NextInv, PTL DEF Spec

\* Type correctness, with every task at a published message of an existing job.
THEOREM TypeCorrect == Spec => []TypeOK
<1>1. Inv => TypeOK BY DEF Inv
<1>2. QED BY <1>1, InvHolds, PTL

\* A job a worker may hear of is committed and its file is on disk.
THEOREM UploadPrecedesTask == Spec => []UploadBeforeTask
<1>1. Inv => UploadBeforeTask BY DEF Inv, SentInv, UploadBeforeTask
<1>2. QED BY <1>1, InvHolds, PTL

(***************************************************************************)
(* One job per user and file.                                              *)
(***************************************************************************)
\* Only an insert and the commit of an import change import_jobs.
LEMMA JobsChange ==
  ASSUME [Next]_vars
  PROVE  \/ jobs' = jobs
         \/ \E r \in Requests : InsertJob(r)
         \/ \E w \in Workers : ImportCommit(w)
<1> USE DEF vars, storeVars, brokerVars, poolVars
<1>1. ASSUME NEW r \in Requests, Upload(r), ~InsertJob(r) PROVE jobs' = jobs
  BY <1>1 DEF Upload, UploadStep, StartUpload, SaveUpload, Enqueue, RequestDies
<1>2. ASSUME NEW r \in Requests, Reembed(r) PROVE jobs' = jobs BY <1>2 DEF Reembed
<1>3. ASSUME NEW w \in Workers, DeliverTask(w) \/ Crash(w) PROVE jobs' = jobs
  BY <1>3 DEF DeliverTask, Deliver, Crash, KillWorker, LoseChild, Raise
<1>4. ASSUME NEW w \in Workers, TaskStep(w), ~ImportCommit(w) PROVE jobs' = jobs
  <2>1. CASE ImportStep(w)
    BY <1>4, <2>1 DEF ImportStep, BeginImport, LockJob, SkipConversation, SelectConversation,
      ClaimConversation, ClaimFails, WriteMessages, DeadlockVictim, PublishEmbed, Raise
  <2>2. CASE EmbedStep(w)
    BY <2>2 DEF EmbedStep, ReadConversations, ReadMessages, SkipExisting, EmbedFails,
      EmbedCommit, Raise
  <2>3. CASE StoreSuccess(w) \/ AckTask(w) BY <2>3 DEF StoreSuccess, AckTask
  <2>4. QED BY <1>4, <2>1, <2>2, <2>3 DEF TaskStep
<1>5. ASSUME NEW b \in Messages, Restore(b) \/ Expire(b) PROVE jobs' = jobs
  BY <1>5 DEF Restore, RestoreOrphan, RestoreRunning, Expire, ExpireResult
<1>6. ASSUME NEW u \in Users, MoveUser(u) PROVE jobs' = jobs BY <1>6 DEF MoveUser
<1>7. QED BY <1>1, <1>2, <1>3, <1>4, <1>5, <1>6 DEF Next, Idle

\* A user has at most one job per file content, whatever requests run at once:
\* the check in the handler is not enough, the constraint on the row is.
THEOREM OneJob == Spec => []OneJobPerUpload
<1>1. Init => OneJobPerUpload BY DEF Init, StoreInit, OneJobPerUpload
<1>2. Inv /\ OneJobPerUpload /\ [Next]_vars => OneJobPerUpload'
  <2> SUFFICES ASSUME Inv, OneJobPerUpload, [Next]_vars PROVE OneJobPerUpload' OBVIOUS
  <2>1. jobs \in [Requests -> JobRow \cup {None}] BY DEF Inv, TypeOK, StoreTypeOK
  <2>2. CASE jobs' = jobs BY <2>2 DEF OneJobPerUpload
  <2>3. ASSUME NEW r \in Requests, InsertJob(r) PROVE OneJobPerUpload'
    BY <2>1, <2>3 DEF InsertJob, JobExists, OneJobPerUpload
  <2>4. ASSUME NEW w \in Workers, ImportCommit(w) PROVE OneJobPerUpload'
    <3>1. pc[w] \in ImportStates BY <2>4 DEF ImportCommit, ImportStates
    <3>2. JobOf(w) \in Requests /\ jobs[JobOf(w)] # None /\ jobs[JobOf(w)] \in JobRow
      BY <3>1, ImportJobFacts
    <3>3. \A r \in Requests :
            jobs'[r] # None =>
              jobs[r] # None /\ jobs'[r].user = jobs[r].user /\ jobs'[r].file = jobs[r].file
      BY <2>1, <2>4, <3>2 DEF ImportCommit, JobRow
    <3>4. QED BY <3>3 DEF OneJobPerUpload
  <2>5. QED BY <2>2, <2>3, <2>4, JobsChange
<1>3. QED BY <1>1, <1>2, InvHolds, PTL DEF Spec

(***************************************************************************)
(* Exclusive writes.                                                       *)
(***************************************************************************)
\* What one session has written, seen from another.
Apart(v, w) ==
  /\ tx[v].moved \cap tx[w].moved = {}
  /\ \A k \in ConvKeys, m \in MsgIds : tx[v].write[k][m] = None \/ tx[w].write[k][m] = None
  /\ ~(HoldsJob(v) /\ HoldsJob(w) /\ JobOf(v) = JobOf(w))

\* It is enough that the worker that moves stays apart from the others.
LEMMA ApartFrame ==
  ASSUME WritesAreExclusive, NEW w \in Workers, WorkerMoves(w),
         \A v \in Workers \ {w} : Apart(v, w)'
  PROVE  WritesAreExclusive'
<1>1. ASSUME NEW v \in Workers, NEW x \in Workers, v # x, v # w, x # w
      PROVE  Apart(v, x)'
  <2>1. Apart(v, x) BY <1>1 DEF WritesAreExclusive, Apart
  <2>2. QED BY <1>1, <2>1 DEF Apart, WorkerMoves, HoldsJob, JobOf
<1>2. \A v \in Workers \ {w} : Apart(w, v)' BY DEF Apart
<1>3. QED BY <1>1, <1>2 DEF WritesAreExclusive, Apart

\* A step that writes nothing and takes no job row keeps a worker apart.
LEMMA ReleaseApart ==
  ASSUME WritesAreExclusive, NEW w \in Workers, WorkerMoves(w),
         tx'[w].moved \subseteq tx[w].moved,
         \A k \in ConvKeys, m \in MsgIds : tx'[w].write[k][m] \in {None, tx[w].write[k][m]},
         HoldsJob(w)' => HoldsJob(w) /\ task'[w] = task[w]
  PROVE  WritesAreExclusive'
<1>1. ASSUME NEW v \in Workers \ {w} PROVE Apart(v, w)'
  <2>1. Apart(v, w) BY DEF WritesAreExclusive, Apart
  <2>2. tx'[v] = tx[v] /\ (HoldsJob(v)' <=> HoldsJob(v)) /\ JobOf(v)' = JobOf(v)
    BY DEF WorkerMoves, HoldsJob, JobOf
  <2>3. QED BY <2>1, <2>2 DEF Apart, JobOf
<1>2. QED BY <1>1, ApartFrame

\* A session that ends leaves nothing behind.
LEMMA EndApart ==
  ASSUME Inv, WritesAreExclusive, NEW w \in Workers, WorkerMoves(w),
         tx'[w] = NoTx, ~HoldsJob(w)'
  PROVE  WritesAreExclusive'
<1>1. tx'[w].moved = {} /\ \A k \in ConvKeys, m \in MsgIds : tx'[w].write[k][m] = None
  BY DEF NoTx, NoContents
<1>2. QED BY <1>1, ReleaseApart

\* A session that raises releases its rows.
LEMMA RaiseApart ==
  ASSUME Inv, WritesAreExclusive, NEW w \in Workers, Raise(w), UNCHANGED <<req, moves>>
  PROVE  WritesAreExclusive'
<1> USE DEF Raise, To
<1>1. pc \in [Workers -> WorkerStates] /\ tx \in [Workers -> Session]
  BY DEF Inv, TypeOK, PoolTypeOK
<1>2. WorkerMoves(w) BY <1>1 DEF WorkerMoves
<1>3. tx'[w] = NoTx /\ ~HoldsJob(w)' BY <1>1 DEF HoldsJob
<1>4. QED BY <1>2, <1>3, EndApart

\* The job row is locked only when no other session holds it.
LEMMA LockJobApart ==
  ASSUME Inv, WritesAreExclusive, NEW w \in Workers, LockJob(w), UNCHANGED <<req, moves>>
  PROVE  WritesAreExclusive'
<1> USE DEF LockJob, To
<1>1. pc \in [Workers -> WorkerStates] /\ tx \in [Workers -> Session]
  BY DEF Inv, TypeOK, PoolTypeOK
<1>2. CASE Loadable(JobOf(w))
  <2>1. WorkerMoves(w) BY <1>1, <1>2 DEF WorkerMoves, brokerVars
  <2>2. ASSUME NEW v \in Workers \ {w} PROVE Apart(v, w)'
    <3>1. Apart(v, w) BY DEF WritesAreExclusive, Apart
    <3>2. tx' = tx /\ (HoldsJob(v)' <=> HoldsJob(v)) /\ JobOf(v)' = JobOf(v) /\ JobOf(w)' = JobOf(w)
      BY <1>2, <2>1 DEF WorkerMoves, HoldsJob, JobOf
    <3>3. ~(HoldsJob(v) /\ JobOf(v) = JobOf(w)) BY DEF Blocked, Blockers
    <3>4. QED BY <3>1, <3>2, <3>3 DEF Apart
  <2>3. QED BY <2>1, <2>2, ApartFrame
<1>3. CASE ~Loadable(JobOf(w)) BY <1>3, RaiseApart
<1>4. QED BY <1>2, <1>3

\* A conversation is claimed only when no other session has it.
LEMMA ClaimConversationApart ==
  ASSUME Inv, WritesAreExclusive, NEW w \in Workers, ClaimConversation(w),
         UNCHANGED <<req, moves>>
  PROVE  WritesAreExclusive'
<1> USE DEF ClaimConversation, To
<1>1. pc \in [Workers -> WorkerStates] /\ tx \in [Workers -> Session] /\ HoldsJob(w)
  BY DEF Inv, TypeOK, PoolTypeOK, HoldsJob
<1>2. WorkerMoves(w) BY <1>1 DEF WorkerMoves, brokerVars
<1>3. /\ tx'[w].write = tx[w].write
      /\ tx'[w].moved = IF tx[w].seen = "mine" THEN tx[w].moved ELSE tx[w].moved \cup {Key(w)}
  BY <1>1 DEF Session
<1>4. ASSUME NEW v \in Workers \ {w} PROVE Apart(v, w)'
  <2>1. Apart(v, w) BY DEF WritesAreExclusive, Apart
  <2>2. /\ tx'[v] = tx[v] /\ (HoldsJob(v)' <=> HoldsJob(v))
        /\ JobOf(v)' = JobOf(v) /\ JobOf(w)' = JobOf(w)
    BY <1>2 DEF WorkerMoves, HoldsJob, JobOf
  <2>3. tx[w].seen # "mine" => Key(w) \notin tx[v].moved
    <3>1. tx[w].seen \in {"absent", "mine", "other"} BY <1>1 DEF Session
    <3>2. QED BY <3>1 DEF Blocked, Blockers, ClaimsRow
  <2>4. tx'[v].moved \cap tx'[w].moved = {} BY <1>3, <2>1, <2>2, <2>3 DEF Apart
  <2>5. QED BY <1>1, <1>3, <2>1, <2>2, <2>4 DEF Apart
<1>5. QED BY <1>2, <1>4, ApartFrame

\* A message is written only when no other session has written it.
LEMMA WriteMessagesApart ==
  ASSUME Inv, WritesAreExclusive, NEW w \in Workers, WriteMessages(w), UNCHANGED <<req, moves>>
  PROVE  WritesAreExclusive'
<1>1. pc \in [Workers -> WorkerStates] /\ tx \in [Workers -> Session] /\ HoldsJob(w)
  BY DEF Inv, TypeOK, PoolTypeOK, HoldsJob, WriteMessages
<1>2. WorkerMoves(w) BY <1>1 DEF WorkerMoves, brokerVars, WriteMessages, To
<1> DEFINE row == [m \in MsgIds |-> IF m \in ToWrite(w) THEN File(w)[m]
                                    ELSE tx[w].write[Key(w)][m]]
<1>3. /\ tx'[w].moved = tx[w].moved
      /\ tx'[w].write = [tx[w].write EXCEPT ![Key(w)] = row]
      /\ task' = task
  BY <1>1 DEF Session, WriteMessages
<1>4. \A k \in ConvKeys, m \in MsgIds :
        tx'[w].write[k][m] # tx[w].write[k][m] => k = Key(w) /\ m \in ToWrite(w)
  BY <1>1, <1>3 DEF Session, Contents
<1>5. ASSUME NEW v \in Workers \ {w} PROVE Apart(v, w)'
  <2>1. Apart(v, w) BY DEF WritesAreExclusive, Apart
  <2>2. /\ tx'[v] = tx[v] /\ (HoldsJob(v)' <=> HoldsJob(v))
        /\ JobOf(v)' = JobOf(v) /\ JobOf(w)' = JobOf(w)
    BY <1>2, <1>3 DEF WorkerMoves, HoldsJob, JobOf
  <2>3. \A m \in ToWrite(w) : tx[v].write[Key(w)][m] = None
    BY DEF WriteMessages, Blocked, Blockers
  <2>4. \A k \in ConvKeys, m \in MsgIds :
          tx'[v].write[k][m] = None \/ tx'[w].write[k][m] = None
    BY <1>4, <2>1, <2>2, <2>3 DEF Apart
  <2>5. QED BY <1>1, <1>3, <2>1, <2>2, <2>4 DEF Apart
<1>6. QED BY <1>2, <1>5, ApartFrame

\* The other steps of an import.
LEMMA ImportStepApart ==
  ASSUME Inv, WritesAreExclusive, NEW w \in Workers, ImportStep(w), UNCHANGED <<req, moves>>
  PROVE  WritesAreExclusive'
<1>1. pc \in [Workers -> WorkerStates] /\ tx \in [Workers -> Session]
  BY DEF Inv, TypeOK, PoolTypeOK
<1>2. CASE BeginImport(w)
  <2> USE <1>2 DEF BeginImport, To
  <2>1. WorkerMoves(w) BY <1>1 DEF WorkerMoves, brokerVars
  <2>2. /\ tx'[w].moved = tx[w].moved /\ tx'[w].write = tx[w].write /\ ~HoldsJob(w)'
    BY <1>1 DEF Session, HoldsJob
  <2>3. QED BY <2>1, <2>2, ReleaseApart
<1>3. CASE SkipConversation(w) \/ SelectConversation(w)
  <2> USE <1>3 DEF SkipConversation, SelectConversation, MoreConversations, To
  <2>1. WorkerMoves(w) BY <1>1 DEF WorkerMoves, brokerVars
  <2>2. /\ tx'[w].moved = tx[w].moved /\ tx'[w].write = tx[w].write
        /\ HoldsJob(w) /\ task' = task
    BY <1>1 DEF Session, HoldsJob
  <2>3. QED BY <2>1, <2>2, ReleaseApart
<1>4. CASE ClaimFails(w) \/ DeadlockVictim(w)
  BY <1>4, RaiseApart DEF ClaimFails, DeadlockVictim
<1>5. CASE ImportCommit(w)
  <2> USE <1>5 DEF ImportCommit, To
  <2>1. WorkerMoves(w) BY <1>1 DEF WorkerMoves, brokerVars
  <2>2. tx'[w] = NoTx /\ ~HoldsJob(w)' BY <1>1 DEF HoldsJob
  <2>3. QED BY <2>1, <2>2, EndApart
<1>6. CASE PublishEmbed(w)
  <2> USE <1>6 DEF PublishEmbed, To
  <2>1. WorkerMoves(w) BY <1>1 DEF WorkerMoves
  <2>2. tx' = tx /\ ~HoldsJob(w)' BY <1>1 DEF HoldsJob
  <2>3. QED BY <2>1, <2>2, ReleaseApart
<1>7. QED
  BY <1>2, <1>3, <1>4, <1>5, <1>6, LockJobApart, ClaimConversationApart, WriteMessagesApart
  DEF ImportStep

\* An embed task takes no row of the import tables.
LEMMA EmbedStepApart ==
  ASSUME Inv, WritesAreExclusive, NEW w \in Workers, EmbedStep(w), UNCHANGED <<req, moves>>
  PROVE  WritesAreExclusive'
<1>1. pc \in [Workers -> WorkerStates] /\ tx \in [Workers -> Session]
  BY DEF Inv, TypeOK, PoolTypeOK
<1>2. CASE EmbedFails(w) BY <1>2, RaiseApart DEF EmbedFails
<1>3. CASE EmbedCommit(w)
  <2> USE <1>3 DEF EmbedCommit, To
  <2>1. WorkerMoves(w) BY <1>1 DEF WorkerMoves, brokerVars
  <2>2. tx'[w] = NoTx /\ ~HoldsJob(w)' BY <1>1 DEF HoldsJob
  <2>3. QED BY <2>1, <2>2, EndApart
<1>4. CASE ReadConversations(w) \/ ReadMessages(w) \/ SkipExisting(w)
  <2>1. WorkerMoves(w)
    BY <1>1, <1>4 DEF ReadConversations, ReadMessages, SkipExisting, To, WorkerMoves, brokerVars
  <2>2. tx'[w].moved = tx[w].moved /\ tx'[w].write = tx[w].write
    BY <1>1, <1>4 DEF ReadConversations, ReadMessages, SkipExisting, Session
  <2>3. ~HoldsJob(w)'
    BY <1>1, <1>4 DEF ReadConversations, ReadMessages, SkipExisting, To, HoldsJob
  <2>4. QED BY <2>1, <2>2, <2>3, ReleaseApart
<1>5. QED BY <1>2, <1>3, <1>4 DEF EmbedStep

\* Two sessions never hold the same row: no update of a conversation, a message
\* or a job is lost to another session's, whatever is redelivered or restarted.
THEOREM ExclusiveWrites == Spec => []WritesAreExclusive
<1>1. Init => WritesAreExclusive
  BY DEF Init, PoolInit, WritesAreExclusive, HoldsJob, NoTx, NoContents
<1>2. Inv /\ WritesAreExclusive /\ [Next]_vars => WritesAreExclusive'
  <2> SUFFICES ASSUME Inv, WritesAreExclusive, [Next]_vars PROVE WritesAreExclusive' OBVIOUS
  <2>1. pc \in [Workers -> WorkerStates] /\ tx \in [Workers -> Session]
        /\ task \in [Workers -> Messages \cup {None}]
    BY DEF Inv, TypeOK, PoolTypeOK
  <2>2. CASE UNCHANGED poolVars BY <2>2 DEF poolVars, WritesAreExclusive, HoldsJob, JobOf
  <2>3. ASSUME NEW w \in Workers, DeliverTask(w) PROVE WritesAreExclusive'
    <3> USE <2>3 DEF DeliverTask, Deliver, To
    <3>1. WorkerMoves(w) BY <2>1 DEF WorkerMoves
    <3>2. tx' = tx /\ ~HoldsJob(w)' BY <2>1 DEF HoldsJob
    <3>3. QED BY <3>1, <3>2, ReleaseApart
  <2>4. ASSUME NEW w \in Workers, TaskStep(w) PROVE WritesAreExclusive'
    <3>1. CASE StoreSuccess(w) \/ AckTask(w)
      <4>1. WorkerMoves(w)
        BY <2>1, <2>4, <3>1 DEF TaskStep, StoreSuccess, AckTask, To, WorkerMoves
      <4>2. tx' = tx /\ ~HoldsJob(w)'
        BY <2>1, <3>1 DEF StoreSuccess, AckTask, To, HoldsJob
      <4>3. QED BY <4>1, <4>2, ReleaseApart
    <3>2. QED BY <2>4, <3>1, ImportStepApart, EmbedStepApart DEF TaskStep
  <2>5. ASSUME NEW w \in Workers, Crash(w) PROVE WritesAreExclusive'
    <3>1. WorkerMoves(w)
      BY <2>1, <2>5 DEF Crash, KillWorker, LoseChild, To, WorkerMoves, brokerVars
    <3>2. tx'[w] = NoTx /\ ~HoldsJob(w)'
      BY <2>1, <2>5 DEF Crash, KillWorker, LoseChild, To, HoldsJob
    <3>3. QED BY <3>1, <3>2, EndApart
  <2>6. QED
    BY <2>2, <2>3, <2>4, <2>5
    DEF Next, Upload, Reembed, Restore, RestoreOrphan, RestoreRunning, Expire, ExpireResult,
      MoveUser, Idle, vars, poolVars
<1>3. QED BY <1>1, <1>2, InvHolds, PTL DEF Spec

(***************************************************************************)
(* Where requests, messages and results have got to.                       *)
(***************************************************************************)
Sent(b) == broker[b] # "unsent"
Completed(r) == jobs[r] # None /\ jobs[r].status = "completed"

\* Where a request, a message and a result have got to, for an import.
RequestFlow(r) ==
  /\ req[r].pc \in {"duplicate", "forbidden", "conflict"} => jobs[r] = None
  /\ req[r].pc = "accepted" => Sent(ImportMsg(r))
  /\ Completed(r) => Sent(ImportMsg(r))
  /\ result[ImportMsg(r)] = "SUCCESS" => Completed(r) /\ Sent(EmbedMsg(r, 1))

\* What a worker past the commit of an import relies on.
WorkerFlow(w) ==
  /\ pc[w] = "publish" => Completed(JobOf(w))
  /\ pc[w] = "store" /\ task[w].kind = "import" =>
       Completed(JobOf(w)) /\ Sent(EmbedMsg(JobOf(w), 1))

FlowInv ==
  /\ \A r \in Requests : RequestFlow(r)
  /\ \A w \in Workers : WorkerFlow(w)

(***************************************************************************)
(* What no step undoes.                                                    *)
(***************************************************************************)
Grows ==
  /\ \A r \in Requests :
       jobs[r] # None =>
         /\ jobs'[r] # None /\ jobs'[r].user = jobs[r].user /\ jobs'[r].file = jobs[r].file
         /\ jobs[r].status = "completed" => jobs'[r].status = "completed"
  /\ \A b \in Messages : Sent(b) => Sent(b)'
  /\ \A r \in Requests : Sent(ImportMsg(r)) => account'[r] = account[r]
  /\ \A k \in ConvKeys : convs[k] # None => convs'[k] # None /\ convs'[k].owner = convs[k].owner
  /\ \A k \in ConvKeys, m \in MsgIds : msgs[k][m] # None => msgs'[k][m] # None

\* A step that leaves the tables but embedding_records alone, and takes no
\* message back.
LEMMA QuietGrows ==
  ASSUME UNCHANGED <<jobs, convs, msgs, account>>,
         \A b \in Messages : Sent(b) => Sent(b)'
  PROVE  Grows
  BY DEF Grows

\* A request adds a row to import_jobs, or an import message with its account_id.
LEMMA UploadGrows ==
  ASSUME Inv, NEW r \in Requests, Upload(r)
  PROVE  Grows
<1> USE DEF storeVars, brokerVars
<1>1. CASE \/ SaveUpload(r) \/ RequestDies(r)
           \/ \E u \in Users, f \in Files, a \in Accounts : StartUpload(r, u, f, a)
  BY <1>1, QuietGrows DEF SaveUpload, RequestDies, StartUpload, Sent
<1>2. CASE InsertJob(r)
  <2>1. jobs[r] = None BY <1>2 DEF InsertJob, Inv, RequestInv
  <2>2. \A s \in Requests \ {r} : jobs'[s] = jobs[s]
    BY <1>2 DEF InsertJob, Inv, TypeOK, StoreTypeOK
  <2>3. QED BY <1>2, <2>1, <2>2 DEF InsertJob, Grows, Sent
<1>3. CASE Enqueue(r)
  <2>1. ~Sent(ImportMsg(r)) /\ \A b \in Messages : Sent(b) => Sent(b)'
    BY <1>3, MessageFacts DEF Enqueue, Publish, Sent, Inv, TypeOK, BrokerTypeOK
  <2>2. \A s \in Requests \ {r} : account'[s] = account[s]
    BY <1>3 DEF Enqueue, Inv, TypeOK, BrokerTypeOK
  <2>3. QED BY <1>3, <2>1, <2>2 DEF Enqueue, Grows
<1>4. QED BY <1>1, <1>2, <1>3 DEF Upload, UploadStep

\* The commit of an import completes its job and keeps every row there was.
LEMMA ImportCommitGrows ==
  ASSUME Inv, NEW w \in Workers, ImportCommit(w)
  PROVE  Grows
<1> USE DEF ImportCommit
<1>1. jobs \in [Requests -> JobRow \cup {None}] /\ pc[w] \in ImportStates
  BY DEF Inv, TypeOK, StoreTypeOK, ImportStates
<1>2. JobOf(w) \in Requests /\ jobs[JobOf(w)] \in JobRow /\ jobs[JobOf(w)] # None
  BY <1>1, ImportJobFacts
<1> DEFINE row == [jobs[JobOf(w)] EXCEPT !.status = "completed"]
<1>3. /\ row \in JobRow /\ row.user = jobs[JobOf(w)].user /\ row.file = jobs[JobOf(w)].file
      /\ row.status = "completed"
  BY <1>2 DEF JobRow, Statuses
<1>4. row # None BY <1>3, NoneAssumption DEF JobRow, Statuses
<1>5. jobs'[JobOf(w)] = row /\ \A r \in Requests \ {JobOf(w)} : jobs'[r] = jobs[r]
  BY <1>1, <1>2
<1> HIDE DEF row
<1>6. \A k \in ConvKeys : convs[k] # None => convs'[k] # None /\ convs'[k].owner = convs[k].owner
  <2>1. SUFFICES ASSUME NEW k \in ConvKeys, convs[k] # None
                 PROVE  convs'[k] # None /\ convs'[k].owner = convs[k].owner
    OBVIOUS
  <2>2. CASE k \notin tx[w].moved BY <2>1, <2>2 DEF ConvsAfter
  <2>3. CASE k \in tx[w].moved
    <3>1. convs'[k] = [owner |-> convs[k].owner, job |-> JobOf(w)]
      BY <2>1, <2>3 DEF ConvsAfter
    <3>2. convs[k] \in ConvRow BY <2>1 DEF Inv, TypeOK, StoreTypeOK
    <3>3. convs'[k] \in [owner : Users, job : Requests] BY <1>2, <3>1, <3>2 DEF ConvRow
    <3>4. QED BY <3>1, <3>3, NoneAssumption
  <2>4. QED BY <2>2, <2>3
<1>7. \A k \in ConvKeys, m \in MsgIds : msgs[k][m] # None => msgs'[k][m] # None
  BY DEF MsgsAfter
<1>8. QED BY <1>2, <1>3, <1>4, <1>5, <1>6, <1>7 DEF Grows, Sent, brokerVars

\* The other steps of a worker change neither the imported tables nor account_id.
LEMMA WorkerGrows ==
  ASSUME Inv, NEW w \in Workers, DeliverTask(w) \/ TaskStep(w) \/ Crash(w)
  PROVE  Grows
<1> USE DEF storeVars, brokerVars, Sent
<1>0. broker \in [Messages -> MessageStates] BY DEF Inv, TypeOK, BrokerTypeOK
<1>1. CASE DeliverTask(w)
  BY <1>0, <1>1, QuietGrows DEF DeliverTask, Deliver
<1>2. CASE Crash(w)
  BY <1>0, <1>2, QuietGrows DEF Crash, KillWorker, LoseChild, Ack
<1>3. CASE ImportStep(w)
  <2>1. CASE ImportCommit(w) BY <2>1, ImportCommitGrows
  <2>2. CASE PublishEmbed(w)
    BY <1>0, <2>2, QuietGrows DEF PublishEmbed, Publish
  <2>3. CASE ~ImportCommit(w) /\ ~PublishEmbed(w)
    BY <1>3, <2>3, QuietGrows DEF ImportStep, BeginImport, LockJob, SkipConversation,
      SelectConversation, ClaimConversation, ClaimFails, WriteMessages, DeadlockVictim, Raise
  <2>4. QED BY <2>1, <2>2, <2>3
<1>4. CASE EmbedStep(w)
  BY <1>4, QuietGrows DEF EmbedStep, ReadConversations, ReadMessages, SkipExisting, EmbedFails,
    EmbedCommit, Raise
<1>5. CASE StoreSuccess(w) \/ AckTask(w)
  BY <1>0, <1>5, QuietGrows DEF StoreSuccess, AckTask, Ack
<1>6. QED BY <1>1, <1>2, <1>3, <1>4, <1>5 DEF TaskStep

\* Every step of the pipeline.
LEMMA NextGrows == Inv /\ [Next]_vars => Grows
<1> SUFFICES ASSUME Inv, [Next]_vars PROVE Grows OBVIOUS
<1>0. broker \in [Messages -> MessageStates] BY DEF Inv, TypeOK, BrokerTypeOK
<1>1. ASSUME NEW r \in Requests, Reembed(r) PROVE Grows
  BY <1>0, <1>1, QuietGrows DEF Reembed, Publish, storeVars, Sent
<1>2. ASSUME NEW b \in Messages, Restore(b) \/ Expire(b) PROVE Grows
  BY <1>0, <1>2, QuietGrows
  DEF Restore, RestoreOrphan, RestoreRunning, Expire, ExpireResult, storeVars, Sent
<1>3. ASSUME NEW u \in Users, MoveUser(u) PROVE Grows
  BY <1>3, QuietGrows DEF MoveUser, brokerVars, Sent
<1>4. CASE UNCHANGED vars BY <1>4, QuietGrows DEF vars, storeVars, brokerVars, Sent
<1>5. QED BY <1>1, <1>2, <1>3, <1>4, UploadGrows, WorkerGrows DEF Next, Idle

(***************************************************************************)
(* Jobs, messages and results.                                             *)
(***************************************************************************)
\* No import has succeeded that had not before.
NoNewSuccess ==
  \A r \in Requests : result'[ImportMsg(r)] = "SUCCESS" => result[ImportMsg(r)] = "SUCCESS"

\* A request is in order when it was, and no more imports have succeeded.
LEMMA RequestFlowFrame ==
  ASSUME FlowInv, Grows, UNCHANGED <<jobs, req>>, NoNewSuccess, NEW r \in Requests
  PROVE  RequestFlow(r)'
<1>1. 1 \in 1..MaxTag BY BrokerAssumption
<1>2. ImportMsg(r) \in Messages /\ EmbedMsg(r, 1) \in Messages BY <1>1, MessageFacts
<1>3. RequestFlow(r) BY DEF FlowInv
<1>4. Sent(ImportMsg(r)) => Sent(ImportMsg(r))' BY <1>2 DEF Grows
<1>5. Sent(EmbedMsg(r, 1)) => Sent(EmbedMsg(r, 1))' BY <1>2 DEF Grows
<1>6. QED BY <1>3, <1>4, <1>5 DEF RequestFlow, Completed, NoNewSuccess

\* A worker that did not move is still in order.
LEMMA WorkerFlowFrame ==
  ASSUME Inv, FlowInv, Grows, NEW v \in Workers, pc'[v] = pc[v], task'[v] = task[v]
  PROVE  WorkerFlow(v)'
<1>1. CASE pc[v] = "idle" BY <1>1 DEF WorkerFlow
<1>2. CASE pc[v] # "idle"
  <2>1. 1 \in 1..MaxTag BY BrokerAssumption
  <2>2. task[v] \in Messages /\ JobOf(v) \in Requests
    BY <1>2, MessageFacts DEF Inv, TypeOK, TaskOK, JobOf
  <2>3. EmbedMsg(JobOf(v), 1) \in Messages BY <2>1, <2>2, MessageFacts
  <2>4. JobOf(v)' = JobOf(v) BY DEF JobOf
  <2>5. WorkerFlow(v) BY DEF FlowInv
  <2>6. Completed(JobOf(v)) => Completed(JobOf(v))' BY <2>2, <2>4 DEF Grows, Completed
  <2>7. Sent(EmbedMsg(JobOf(v), 1)) => Sent(EmbedMsg(JobOf(v), 1))'
    BY <2>3, <2>4 DEF Grows
  <2>8. QED BY <2>4, <2>5, <2>6, <2>7 DEF WorkerFlow
<1>3. QED BY <1>1, <1>2

\* Enough for a step of worker w.
LEMMA FlowStep ==
  ASSUME Inv, FlowInv, Grows, NEW w \in Workers,
         \A v \in Workers \ {w} : pc'[v] = pc[v] /\ task'[v] = task[v],
         \A r \in Requests : RequestFlow(r)', WorkerFlow(w)'
  PROVE  FlowInv'
<1>1. \A v \in Workers : WorkerFlow(v)' BY WorkerFlowFrame
<1>2. QED BY <1>1 DEF FlowInv

\* Enough for a step of a request or of the environment.
LEMMA OutsideFlow ==
  ASSUME Inv, FlowInv, Grows, UNCHANGED poolVars, \A r \in Requests : RequestFlow(r)'
  PROVE  FlowInv'
<1>1. \A v \in Workers : WorkerFlow(v)' BY WorkerFlowFrame DEF poolVars
<1>2. QED BY <1>1 DEF FlowInv

\* A request that found a job has none of its own; one that is accepted has sent
\* its message.
LEMMA UploadFlow ==
  ASSUME Inv, FlowInv, Grows, NEW r \in Requests, Upload(r)
  PROVE  FlowInv'
<1>1. UNCHANGED <<poolVars, result>>
  BY DEF Upload, UploadStep, StartUpload, InsertJob, SaveUpload, Enqueue, RequestDies, brokerVars
<1>2. req \in [Requests -> Request] /\ jobs \in [Requests -> JobRow \cup {None}]
  BY DEF Inv, TypeOK, RequestTypeOK, StoreTypeOK
<1>3. 1 \in 1..MaxTag BY BrokerAssumption
<1>4. ASSUME NEW s \in Requests PROVE RequestFlow(s)'
  <2>1. ImportMsg(s) \in Messages /\ EmbedMsg(s, 1) \in Messages BY <1>3, MessageFacts
  <2>2. /\ Sent(ImportMsg(s)) => Sent(ImportMsg(s))'
        /\ Sent(EmbedMsg(s, 1)) => Sent(EmbedMsg(s, 1))'
        /\ Completed(s) => Completed(s)'
    BY <2>1 DEF Grows, Completed
  <2>3. RequestFlow(s) BY DEF FlowInv
  <2>4. Completed(s)' => Completed(s)
    BY <1>2 DEF Upload, UploadStep, StartUpload, InsertJob, SaveUpload, Enqueue, RequestDies,
      Completed, storeVars
  <2>5. result'[ImportMsg(s)] = result[ImportMsg(s)] BY <1>1
  <2>6. CASE s # r
    <3>1. req'[s] = req[s] /\ jobs'[s] = jobs[s]
      BY <1>2, <2>6 DEF Upload, UploadStep, StartUpload, InsertJob, SaveUpload, Enqueue,
        RequestDies, Goto, storeVars
    <3>2. QED BY <2>2, <2>3, <2>4, <2>5, <3>1 DEF RequestFlow
  <2>7. CASE s = r
    <3>1. req'[r].pc \in {"duplicate", "forbidden", "conflict"} => jobs'[r] = None
      BY <1>2 DEF Upload, UploadStep, StartUpload, InsertJob, SaveUpload, Enqueue,
        RequestDies, Goto, storeVars, Inv, RequestInv, Request
    <3>2. req'[r].pc = "accepted" => Sent(ImportMsg(r))'
      <4>1. broker \in [Messages -> MessageStates] BY DEF Inv, TypeOK, BrokerTypeOK
      <4>2. ImportMsg(r) \in Messages BY MessageFacts
      <4>3. CASE Enqueue(r)
        BY <4>1, <4>2, <4>3 DEF Enqueue, Publish, Sent
      <4>4. CASE ~Enqueue(r)
        <5>1. req'[r].pc # "accepted"
          BY <1>2, <4>4 DEF Upload, UploadStep, StartUpload, InsertJob, SaveUpload,
            RequestDies, Goto, Request
        <5>2. QED BY <5>1
      <4>5. QED BY <4>3, <4>4
    <3>3. QED BY <2>2, <2>3, <2>4, <2>5, <2>7, <3>1, <3>2 DEF RequestFlow
  <2>8. QED BY <2>6, <2>7
<1>5. QED BY <1>1, <1>4, OutsideFlow

\* A failure, or the start of a task, is no success.
LEMMA StoreFailureFlow ==
  ASSUME Inv, NEW b \in Messages,
         NEW outcome \in {"FAILURE", "PENDING"}, StoreResult(b, outcome)
  PROVE  NoNewSuccess
<1>1. result \in [Messages -> Outcomes] BY DEF Inv, TypeOK, BrokerTypeOK
<1>2. TaskId(b) \in Messages /\ \A r \in Requests : ImportMsg(r) \in Messages BY MessageFacts
<1>3. QED BY <1>1, <1>2 DEF StoreResult, NoNewSuccess

LEMMA RaiseFlow ==
  ASSUME Inv, FlowInv, Grows, NEW w \in Workers, Raise(w), pc[w] # "idle", UNCHANGED req
  PROVE  FlowInv'
<1> USE DEF Raise, To
<1>1. /\ pc \in [Workers -> WorkerStates] /\ task \in [Workers -> Messages \cup {None}]
      /\ task[w] \in Messages
  BY DEF Inv, TypeOK, PoolTypeOK, TaskOK
<1>2. NoNewSuccess BY <1>1, StoreFailureFlow
<1>3. \A r \in Requests : RequestFlow(r)' BY <1>2, RequestFlowFrame DEF storeVars
<1>4. WorkerFlow(w)' BY <1>1 DEF WorkerFlow
<1>5. \A v \in Workers \ {w} : pc'[v] = pc[v] /\ task'[v] = task[v] BY <1>1
<1>6. QED BY <1>3, <1>4, <1>5, FlowStep

\* A lost child's message is acknowledged with a failure.
LEMMA CrashFlow ==
  ASSUME Inv, FlowInv, Grows, NEW w \in Workers, Crash(w)
  PROVE  FlowInv'
<1>1. /\ pc \in [Workers -> WorkerStates] /\ task \in [Workers -> Messages \cup {None}]
      /\ broker \in [Messages -> MessageStates]
  BY DEF Inv, TypeOK, PoolTypeOK, BrokerTypeOK
<1>2. /\ WorkerFlow(w)' /\ UNCHANGED <<jobs, req>>
      /\ \A v \in Workers \ {w} : pc'[v] = pc[v] /\ task'[v] = task[v]
  BY <1>1 DEF Crash, KillWorker, LoseChild, To, WorkerFlow, storeVars
<1>3. NoNewSuccess
  <2>1. CASE KillWorker(w) BY <2>1 DEF KillWorker, brokerVars, NoNewSuccess
  <2>2. CASE LoseChild(w)
    <3>1. task[w] \in Messages BY <2>2 DEF LoseChild, Inv, TypeOK, TaskOK
    <3>2. QED BY <2>2, <3>1, StoreFailureFlow DEF LoseChild
  <2>3. QED BY <2>1, <2>2 DEF Crash
<1>4. \A r \in Requests : RequestFlow(r)' BY <1>2, <1>3, RequestFlowFrame
<1>5. QED BY <1>2, <1>4, FlowStep

\* An import that returned has completed its job and published the next task.
LEMMA StoreSuccessFlow ==
  ASSUME Inv, FlowInv, Grows, NEW w \in Workers, StoreSuccess(w), UNCHANGED req
  PROVE  FlowInv'
<1> USE DEF StoreSuccess, To
<1>1. /\ pc \in [Workers -> WorkerStates] /\ task[w] \in Messages
      /\ result \in [Messages -> Outcomes] /\ broker' = broker /\ jobs' = jobs
  BY DEF Inv, TypeOK, PoolTypeOK, TaskOK, BrokerTypeOK, storeVars
<1>2. TaskId(task[w]) \in Messages /\ \A r \in Requests : ImportMsg(r) \in Messages
  BY <1>1, MessageFacts
<1>3. /\ result'[TaskId(task[w])] = "SUCCESS"
      /\ \A b \in Messages : b # TaskId(task[w]) => result'[b] = result[b]
  BY <1>1, <1>2 DEF StoreResult
<1>4. ASSUME NEW r \in Requests PROVE RequestFlow(r)'
  <2>1. CASE ImportMsg(r) # TaskId(task[w])
    <3>1. result'[ImportMsg(r)] = result[ImportMsg(r)] BY <1>2, <1>3, <2>1
    <3>2. RequestFlow(r) BY DEF FlowInv
    <3>3. QED BY <1>1, <3>1, <3>2 DEF RequestFlow, Completed, Sent
  <2>2. CASE ImportMsg(r) = TaskId(task[w])
    <3>1. ImportMsg(r).kind = "import" /\ EmbedMsg(task[w].job, 1).kind = "embed"
      BY DEF ImportMsg, EmbedMsg
    <3>2. task[w] = ImportMsg(r) BY <2>2, <3>1 DEF TaskId
    <3>3. JobOf(w) = r /\ task[w].kind = "import" BY <3>1, <3>2 DEF JobOf, ImportMsg
    <3>4. Completed(r) /\ Sent(EmbedMsg(r, 1)) BY <3>3 DEF FlowInv, WorkerFlow
    <3>5. RequestFlow(r) BY DEF FlowInv
    <3>6. QED BY <1>1, <3>4, <3>5 DEF RequestFlow, Completed, Sent
  <2>3. QED BY <2>1, <2>2
<1>5. WorkerFlow(w)' BY <1>1 DEF WorkerFlow
<1>6. \A v \in Workers \ {w} : pc'[v] = pc[v] /\ task'[v] = task[v] BY <1>1
<1>7. QED BY <1>4, <1>5, <1>6, FlowStep

\* An acknowledgement is no outcome.
LEMMA AckTaskFlow ==
  ASSUME Inv, FlowInv, Grows, NEW w \in Workers, AckTask(w), UNCHANGED req
  PROVE  FlowInv'
<1> USE DEF AckTask, To
<1>1. pc \in [Workers -> WorkerStates] /\ task \in [Workers -> Messages \cup {None}]
  BY DEF Inv, TypeOK, PoolTypeOK
<1>2. NoNewSuccess BY DEF NoNewSuccess
<1>3. \A r \in Requests : RequestFlow(r)' BY <1>2, RequestFlowFrame DEF storeVars
<1>4. WorkerFlow(w)' BY <1>1 DEF WorkerFlow
<1>5. \A v \in Workers \ {w} : pc'[v] = pc[v] /\ task'[v] = task[v] BY <1>1
<1>6. QED BY <1>3, <1>4, <1>5, FlowStep

\* The commit of an import: its message is published, or it would not run.
LEMMA ImportCommitFlow ==
  ASSUME Inv, FlowInv, Grows, NEW w \in Workers, ImportCommit(w), UNCHANGED req
  PROVE  FlowInv'
<1> USE DEF ImportCommit, To
<1>1. /\ pc \in [Workers -> WorkerStates] /\ task \in [Workers -> Messages \cup {None}]
      /\ jobs \in [Requests -> JobRow \cup {None}] /\ pc[w] \in ImportStates
  BY DEF Inv, TypeOK, PoolTypeOK, StoreTypeOK, ImportStates
<1>2. /\ JobOf(w) \in Requests /\ jobs[JobOf(w)] # None /\ jobs[JobOf(w)] \in JobRow
      /\ task[w] = ImportMsg(JobOf(w)) /\ Sent(task[w])
  BY <1>1, ImportJobFacts DEF Inv, TypeOK, TaskOK, Sent
<1>3. result' = result /\ broker' = broker BY DEF brokerVars
<1>5. Completed(JobOf(w))'
  <2>1. jobs'[JobOf(w)] # None BY <1>2 DEF Grows
  <2>2. jobs'[JobOf(w)].status = "completed" BY <1>1, <1>2 DEF JobRow
  <2>3. JobOf(w)' = JobOf(w) BY DEF JobOf
  <2>4. QED BY <2>1, <2>2, <2>3 DEF Completed
<1>6. ASSUME NEW r \in Requests PROVE RequestFlow(r)'
  <2>1. RequestFlow(r) BY DEF FlowInv
  <2>2. CASE r = JobOf(w) BY <1>2, <1>3, <2>1, <2>2, <1>5 DEF RequestFlow, Sent, Completed, JobOf
  <2>3. CASE r # JobOf(w)
    <3>1. jobs'[r] = jobs[r] BY <1>1, <2>3
    <3>2. QED BY <1>3, <2>1, <3>1 DEF RequestFlow, Sent, Completed
  <2>4. QED BY <2>2, <2>3
<1>7. WorkerFlow(w)' BY <1>1, <1>5 DEF WorkerFlow
<1>8. \A v \in Workers \ {w} : pc'[v] = pc[v] /\ task'[v] = task[v] BY <1>1
<1>9. QED BY <1>6, <1>7, <1>8, FlowStep

\* The first embed message is out once one has been published.
LEMMA PublishEmbedFlow ==
  ASSUME Inv, FlowInv, Grows, NEW w \in Workers, PublishEmbed(w), UNCHANGED req
  PROVE  FlowInv'
<1> USE DEF PublishEmbed, To
<1>1. /\ pc \in [Workers -> WorkerStates] /\ task \in [Workers -> Messages \cup {None}]
      /\ broker \in [Messages -> MessageStates] /\ pc[w] \in ImportStates
  BY DEF Inv, TypeOK, PoolTypeOK, BrokerTypeOK, ImportStates
<1>2. JobOf(w) \in Requests /\ Completed(JobOf(w))
  BY <1>1, ImportJobFacts DEF FlowInv, WorkerFlow
<1>3. PICK t \in 1..MaxTag :
        /\ Publish(EmbedMsg(JobOf(w), t))
        /\ \A s \in 1..(t - 1) : broker[EmbedMsg(JobOf(w), s)] # "unsent"
  OBVIOUS
<1>4. 1 \in 1..MaxTag /\ (t = 1 \/ 1 \in 1..(t - 1)) BY BrokerAssumption
<1>5. EmbedMsg(JobOf(w), t) \in Messages /\ EmbedMsg(JobOf(w), 1) \in Messages
  BY <1>2, <1>4, MessageFacts
<1>6. Sent(EmbedMsg(JobOf(w), 1))'
  <2>1. JobOf(w)' = JobOf(w) BY DEF JobOf
  <2>2. broker'[EmbedMsg(JobOf(w), t)] = "queued" BY <1>1, <1>3, <1>5 DEF Publish
  <2>3. CASE t = 1 BY <2>1, <2>2, <2>3 DEF Sent
  <2>4. CASE t # 1
    <3>1. Sent(EmbedMsg(JobOf(w), 1)) BY <1>3, <1>4, <2>4 DEF Sent
    <3>2. QED BY <1>5, <2>1, <3>1 DEF Grows
  <2>5. QED BY <2>3, <2>4
<1>7. Completed(JobOf(w))' BY <1>2 DEF Completed, storeVars, JobOf
<1>8. WorkerFlow(w)' BY <1>1, <1>6, <1>7 DEF WorkerFlow
<1>9. NoNewSuccess BY DEF NoNewSuccess
<1>10. \A r \in Requests : RequestFlow(r)' BY <1>9, RequestFlowFrame DEF storeVars
<1>11. \A v \in Workers \ {w} : pc'[v] = pc[v] /\ task'[v] = task[v] BY <1>1
<1>12. QED BY <1>8, <1>10, <1>11, FlowStep

\* A step without success that leaves its worker in the middle of a task or at the
\* end of an embed task.
LEMMA LocalFlow ==
  ASSUME Inv, FlowInv, Grows, NEW w \in Workers, UNCHANGED <<jobs, req>>, NoNewSuccess,
         \A v \in Workers \ {w} : pc'[v] = pc[v] /\ task'[v] = task[v],
         pc'[w] # "publish",
         pc'[w] = "store" => task'[w].kind # "import"
  PROVE  FlowInv'
<1>1. \A r \in Requests : RequestFlow(r)' BY RequestFlowFrame
<1>2. WorkerFlow(w)' BY DEF WorkerFlow
<1>3. QED BY <1>1, <1>2, FlowStep

\* A delivered task is at its beginning.
LEMMA DeliverFlow ==
  ASSUME Inv, FlowInv, Grows, NEW w \in Workers, DeliverTask(w)
  PROVE  FlowInv'
<1> USE DEF DeliverTask, Deliver, To
<1>1. pc \in [Workers -> WorkerStates] /\ task \in [Workers -> Messages \cup {None}]
  BY DEF Inv, TypeOK, PoolTypeOK
<1>2. UNCHANGED <<jobs, req>> /\ NoNewSuccess BY StoreFailureFlow DEF storeVars
<1>3. \A v \in Workers \ {w} : pc'[v] = pc[v] /\ task'[v] = task[v] BY <1>1
<1>4. pc'[w] \in {"begin", "convs"} BY <1>1
<1>5. QED BY <1>2, <1>3, <1>4, LocalFlow

\* The steps of an import up to its commit.
LEMMA ImportFlow ==
  ASSUME Inv, FlowInv, Grows, NEW w \in Workers, ImportStep(w), UNCHANGED req
  PROVE  FlowInv'
<1>1. /\ pc \in [Workers -> WorkerStates] /\ task \in [Workers -> Messages \cup {None}]
  BY DEF Inv, TypeOK, PoolTypeOK
<1>2. CASE ClaimFails(w) \/ DeadlockVictim(w) \/ (LockJob(w) /\ ~Loadable(JobOf(w)))
  <2>1. Raise(w) BY <1>2 DEF ClaimFails, DeadlockVictim, LockJob
  <2>2. pc[w] # "idle"
    BY <1>2 DEF ClaimFails, DeadlockVictim, LockJob, Deadlocked, Blockers
  <2>3. QED BY <2>1, <2>2, RaiseFlow
<1>3. CASE \/ BeginImport(w) \/ SkipConversation(w) \/ SelectConversation(w)
           \/ ClaimConversation(w) \/ WriteMessages(w) \/ (LockJob(w) /\ Loadable(JobOf(w)))
  <2> USE <1>3 DEF BeginImport, LockJob, SkipConversation, SelectConversation,
          ClaimConversation, WriteMessages, MoreConversations, To
  <2>1. UNCHANGED <<storeVars, brokerVars, task>> OBVIOUS
  <2>2. pc'[w] \in {"lock", "select", "claim", "messages"} BY <1>1
  <2>3. \A v \in Workers \ {w} : pc'[v] = pc[v] BY <1>1
  <2>4. UNCHANGED <<jobs, task>> /\ NoNewSuccess
    BY <2>1 DEF storeVars, brokerVars, NoNewSuccess
  <2>5. QED BY <2>2, <2>3, <2>4, LocalFlow
<1>4. QED BY <1>2, <1>3, ImportCommitFlow, PublishEmbedFlow DEF ImportStep

\* The steps of an embed task.
LEMMA EmbedFlow ==
  ASSUME Inv, FlowInv, Grows, NEW w \in Workers, EmbedStep(w), UNCHANGED req
  PROVE  FlowInv'
<1>1. /\ pc \in [Workers -> WorkerStates] /\ task \in [Workers -> Messages \cup {None}]
  BY DEF Inv, TypeOK, PoolTypeOK
<1>2. CASE EmbedFails(w) BY <1>2, RaiseFlow DEF EmbedFails
<1>3. CASE ReadConversations(w) \/ ReadMessages(w) \/ SkipExisting(w) \/ EmbedCommit(w)
  <2> USE <1>3 DEF ReadConversations, ReadMessages, SkipExisting, EmbedCommit, To
  <2>1. UNCHANGED <<jobs, task>> /\ NoNewSuccess BY DEF storeVars, brokerVars, NoNewSuccess
  <2>2. pc[w] \in EmbedStates /\ pc[w] # "idle" BY DEF EmbedStates
  <2>3. task[w].kind # "import" BY <2>2 DEF Inv, TypeOK, TaskOK
  <2>4. \A v \in Workers \ {w} : pc'[v] = pc[v] BY <1>1
  <2>5. pc'[w] \in {"read", "skip", "embed", "store"} BY <1>1
  <2>6. QED BY <2>1, <2>3, <2>4, <2>5, LocalFlow
<1>4. QED BY <1>2, <1>3 DEF EmbedStep

\* Every step keeps jobs, messages and results in order.
LEMMA NextFlow == Inv /\ FlowInv /\ [Next]_vars => FlowInv'
<1> SUFFICES ASSUME Inv, FlowInv, [Next]_vars PROVE FlowInv' OBVIOUS
<1>0. Grows BY NextGrows
<1>1. ASSUME UNCHANGED <<jobs, req, poolVars>>, NoNewSuccess PROVE FlowInv'
  <2>1. \A r \in Requests : RequestFlow(r)' BY <1>0, <1>1, RequestFlowFrame
  <2>2. QED BY <1>0, <1>1, <2>1, OutsideFlow
<1>2. ASSUME UNCHANGED <<jobs, req, poolVars, result>> PROVE FlowInv'
  BY <1>1, <1>2 DEF NoNewSuccess
<1>3. ASSUME NEW r \in Requests, Reembed(r) PROVE FlowInv'
  BY <1>2, <1>3 DEF Reembed, storeVars
<1>4. ASSUME NEW b \in Messages, Restore(b) \/ Expire(b) PROVE FlowInv'
  <2>1. CASE Restore(b)
    BY <1>2, <2>1 DEF Restore, RestoreOrphan, RestoreRunning, storeVars
  <2>2. CASE Expire(b)
    <3>1. NoNewSuccess
      BY <2>2, MessageFacts
      DEF Expire, ExpireResult, NoNewSuccess, Inv, TypeOK, BrokerTypeOK
    <3>2. QED BY <1>1, <2>2, <3>1 DEF Expire, ExpireResult, storeVars
  <2>3. QED BY <1>4, <2>1, <2>2
<1>5. ASSUME NEW u \in Users, MoveUser(u) PROVE FlowInv'
  BY <1>2, <1>5 DEF MoveUser, brokerVars
<1>6. CASE UNCHANGED vars BY <1>2, <1>6 DEF vars, storeVars, brokerVars
<1>7. ASSUME NEW w \in Workers, TaskStep(w) PROVE FlowInv'
  BY <1>0, <1>7, ImportFlow, EmbedFlow, StoreSuccessFlow, AckTaskFlow DEF TaskStep
<1>8. QED
  BY <1>0, <1>3, <1>4, <1>5, <1>6, <1>7, UploadFlow, DeliverFlow, CrashFlow DEF Next, Idle

LEMMA InitFlow == Init => FlowInv
<1> SUFFICES ASSUME Init PROVE FlowInv OBVIOUS
<1> USE DEF Init, StoreInit, BrokerInit, RequestInit, PoolInit
<1>1. ASSUME NEW r \in Requests PROVE RequestFlow(r)
  BY MessageFacts DEF RequestFlow, Completed
<1>2. \A w \in Workers : WorkerFlow(w) BY DEF WorkerFlow
<1>3. QED BY <1>1, <1>2 DEF FlowInv

LEMMA FlowHolds == Spec => [](Inv /\ FlowInv)
  BY InitFlow, NextFlow, InvHolds, PTL DEF Spec
=============================================================================
