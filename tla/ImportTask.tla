---------------------------- MODULE ImportTask ----------------------------
(* process_claude_import: ImportService.process_import_job and              *)
(* upsert_conversation, one action per statement that waits for a lock or   *)
(* reads what another session may change.  Row locks are held until the     *)
(* session ends (READ COMMITTED).                                           *)
EXTENDS WorkerPool

Key(w) == <<Order(JobOf(w))[tx[w].next], account[JobOf(w)]>>
File(w) == FileText(JobOf(w), Key(w)[1])

\* The messages of the conversation at hand that the session has to insert, or
\* to update because their stored content differs.
ToWrite(w) == {m \in MsgIds : File(w)[m] # None /\ File(w)[m] # msgs[Key(w)][m]}

ClaimsRow(w) == tx[w].seen # "mine" /\ (tx[w].seen = "other" \/ tx[w].hasOrg)

HoldsJob(w) == pc[w] \in {"select", "claim", "messages"}

\* Mutant: no lock on the job row.
BlockersByRow(w) ==
  {v \in Workers \ {w} :
     \/ pc[w] = "claim" /\ ClaimsRow(w) /\ Key(w) \in tx[v].moved
     \/ pc[w] = "messages" /\ \E m \in ToWrite(w) : tx[v].write[Key(w)][m] # None}

\* The sessions whose row locks stand in the way of worker w's next statement.
\* A unique value inserted and not yet committed blocks its second insertion.
Blockers(w) ==
  {v \in Workers \ {w} :
     \/ /\ pc[w] = "lock" /\ HoldsJob(v) /\ JobOf(v) = JobOf(w)
     \/ /\ pc[w] = "claim" /\ ClaimsRow(w) /\ Key(w) \in tx[v].moved
     \/ /\ pc[w] = "messages"
        /\ \E m \in ToWrite(w) : tx[v].write[Key(w)][m] # None}

Blocked(w) == Blockers(w) # {}

\* Sessions that wait for each other in a circle: Postgres aborts one.
Deadlocked(w) ==
  \E S \in SUBSET Workers :
    /\ w \in S
    /\ \A v \in S : Blockers(v) \cap S # {} /\ \E x \in S : v \in Blockers(x)

\* session.get(ImportJob), session.get(User).
BeginImport(w) ==
  /\ pc[w] = "begin"
  /\ tx' = [tx EXCEPT ![w].hasOrg = jobs[JobOf(w)].user \in member]
  /\ To(w, "lock")
  /\ UNCHANGED <<storeVars, brokerVars, task, crashes>>

\* The flush of status PROCESSING locks the job row; then the file is loaded.
LockJob(w) ==
  /\ pc[w] = "lock"
  /\ ~Blocked(w)
  /\ IF Loadable(JobOf(w))
     THEN To(w, "select") /\ UNCHANGED <<storeVars, brokerVars, task, tx>>
     ELSE Raise(w)
  /\ UNCHANGED crashes

MoreConversations(w) ==
  pc[w] = "select" /\ tx[w].next <= Len(Order(JobOf(w)))

\* A parsed conversation without messages.
SkipConversation(w) ==
  /\ MoreConversations(w)
  /\ ~HasMessages(JobOf(w), Key(w)[1])
  /\ tx' = [tx EXCEPT ![w].next = @ + 1]
  /\ UNCHANGED <<storeVars, brokerVars, pc, task, crashes>>

\* The SELECT by source, external_uuid and account_id.  It does not look at the
\* conversation's user.
SelectConversation(w) ==
  /\ MoreConversations(w)
  /\ HasMessages(JobOf(w), Key(w)[1])
  /\ tx' = [tx EXCEPT ![w].seen =
       IF convs[Key(w)] = None THEN "absent"
       ELSE IF convs[Key(w)].job = JobOf(w) THEN "mine" ELSE "other"]
  /\ To(w, "claim")
  /\ UNCHANGED <<storeVars, brokerVars, task, crashes>>

\* INSERT of a new conversation, UPDATE of one of another job.  One that was
\* last written by this job has no changed column and is left alone.
ClaimConversation(w) ==
  /\ pc[w] = "claim"
  /\ ~Blocked(w)
  /\ tx[w].seen = "absent" => tx[w].hasOrg /\ convs[Key(w)] = None
  /\ tx' = [tx EXCEPT ![w].moved =
       IF tx[w].seen = "mine" THEN @ ELSE @ \cup {Key(w)}]
  /\ To(w, "messages")
  /\ UNCHANGED <<storeVars, brokerVars, task, crashes>>

\* Mutant: the loop over the conversations swallows the error and goes on.
ClaimFailsSwallowed(w) ==
  /\ pc[w] = "claim"
  /\ ~Blocked(w)
  /\ tx[w].seen = "absent"
  /\ ~tx[w].hasOrg \/ convs[Key(w)] # None
  /\ tx' = [tx EXCEPT ![w].next = @ + 1]
  /\ To(w, "select")
  /\ UNCHANGED <<storeVars, brokerVars, task, crashes>>

\* The INSERT fails: organization_id is null, or another session has committed
\* the conversation since the SELECT.
ClaimFails(w) ==
  /\ pc[w] = "claim"
  /\ ~Blocked(w)
  /\ tx[w].seen = "absent"
  /\ ~tx[w].hasOrg \/ convs[Key(w)] # None
  /\ Raise(w)
  /\ UNCHANGED crashes

WriteMessages(w) ==
  /\ pc[w] = "messages"
  /\ ~Blocked(w)
  /\ tx' = [tx EXCEPT
       ![w].write[Key(w)] = [m \in MsgIds |-> IF m \in ToWrite(w) THEN File(w)[m] ELSE @[m]],
       ![w].next = @ + 1]
  /\ To(w, "select")
  /\ UNCHANGED <<storeVars, brokerVars, task, crashes>>

\* Mutant: the task logs the error of a deadlock and returns.
DeadlockReturns(w) ==
  /\ Deadlocked(w)
  /\ crashes' = [crashes EXCEPT !.aborted = TRUE]
  /\ tx' = [tx EXCEPT ![w] = NoTx]
  /\ To(w, "publish")
  /\ UNCHANGED <<storeVars, brokerVars, task>>

DeadlockVictim(w) ==
  /\ Deadlocked(w)
  /\ crashes' = [crashes EXCEPT !.aborted = TRUE]
  /\ Raise(w)

\* Mutants: a conversation changes hands; import_job_id is set on insert only.
ConvsTakenOver(w) ==
  [k \in ConvKeys |->
     IF k \notin tx[w].moved THEN convs[k]
     ELSE [owner |-> jobs[JobOf(w)].user, job |-> JobOf(w)]]

ConvsOfFirstJob(w) ==
  [k \in ConvKeys |->
     IF k \notin tx[w].moved \/ convs[k] # None THEN convs[k]
     ELSE [owner |-> jobs[JobOf(w)].user, job |-> JobOf(w)]]

\* The tables with what the session wrote.  An existing conversation keeps its
\* user_id.
ConvsAfter(w) ==
  [k \in ConvKeys |->
     IF k \notin tx[w].moved THEN convs[k]
     ELSE [owner |-> IF convs[k] = None THEN jobs[JobOf(w)].user ELSE convs[k].owner,
           job   |-> JobOf(w)]]

MsgsAfter(w) ==
  [k \in ConvKeys |-> [m \in MsgIds |->
     IF tx[w].write[k][m] # None THEN tx[w].write[k][m] ELSE msgs[k][m]]]

\* Mutants: the status is forgotten; the chain has no second task.
ImportCommitPending(w) ==
  /\ pc[w] = "select"
  /\ tx[w].next > Len(Order(JobOf(w)))
  /\ convs' = ConvsAfter(w)
  /\ msgs' = MsgsAfter(w)
  /\ tx' = [tx EXCEPT ![w] = NoTx]
  /\ To(w, "publish")
  /\ UNCHANGED <<jobs, embs, member, uploads, brokerVars, task, crashes>>

ImportCommitUnchained(w) ==
  /\ pc[w] = "select"
  /\ tx[w].next > Len(Order(JobOf(w)))
  /\ jobs' = [jobs EXCEPT ![JobOf(w)].status = "completed"]
  /\ convs' = ConvsAfter(w)
  /\ msgs' = MsgsAfter(w)
  /\ tx' = [tx EXCEPT ![w] = NoTx]
  /\ To(w, "store")
  /\ UNCHANGED <<embs, member, uploads, brokerVars, task, crashes>>

ImportCommit(w) ==
  /\ pc[w] = "select"
  /\ tx[w].next > Len(Order(JobOf(w)))
  /\ jobs' = [jobs EXCEPT ![JobOf(w)].status = "completed"]
  /\ convs' = ConvsAfter(w)
  /\ msgs' = MsgsAfter(w)
  /\ tx' = [tx EXCEPT ![w] = NoTx]
  /\ To(w, "publish")
  /\ UNCHANGED <<embs, member, uploads, brokerVars, task, crashes>>

\* Mutant: the second task is published once per job, not once per execution.
PublishEmbedOnce(w) ==
  /\ pc[w] = "publish"
  /\ IF broker[EmbedMsg(JobOf(w), 1)] = "unsent"
     THEN Publish(EmbedMsg(JobOf(w), 1))
     ELSE UNCHANGED broker
  /\ To(w, "store")
  /\ UNCHANGED <<storeVars, account, result, timeouts, task, tx, crashes>>

\* Celery publishes the next task of the chain before it stores the result.
PublishEmbed(w) ==
  /\ pc[w] = "publish"
  /\ \E t \in 1..MaxTag :
       /\ Publish(EmbedMsg(JobOf(w), t))
       /\ \A s \in 1..(t - 1) : broker[EmbedMsg(JobOf(w), s)] # "unsent"
  /\ To(w, "store")
  /\ UNCHANGED <<storeVars, account, result, timeouts, task, tx, crashes>>

ImportStep(w) ==
  \/ BeginImport(w) \/ LockJob(w)
  \/ SkipConversation(w) \/ SelectConversation(w)
  \/ ClaimConversation(w) \/ ClaimFails(w) \/ WriteMessages(w)
  \/ DeadlockVictim(w)
  \/ ImportCommit(w) \/ PublishEmbed(w)
=============================================================================
