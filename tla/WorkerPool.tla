---------------------------- MODULE WorkerPool ----------------------------
(* Celery workers (prefetch 1, acks late) and the session a task runs in    *)
(* (core/sync_database.get_sync_session): one task at a time per worker,    *)
(* committed when the block ends and rolled back when it raises.            *)
EXTENDS Broker

CONSTANTS
  Workers,
  MaxKills, MaxLosses,   \* bounds on killed workers and on killed pool children
  MaxOutages             \* bound on failed calls of the embedding provider

ASSUME WorkerAssumption ==
  IsFiniteSet(Workers) /\ MaxKills \in Nat /\ MaxLosses \in Nat /\ MaxOutages \in Nat

\* A worker that runs nothing has no message.
ASSUME NoTaskAssumption == None \notin Messages

VARIABLES
  pc,       \* what each worker does next
  task,     \* the message each worker is running
  tx,       \* the session of that task: what it has read and flushed
  crashes   \* how many workers and pool children were killed and provider calls
            \* failed, and whether the database ever aborted a deadlock victim

poolVars == <<pc, task, tx, crashes>>

\* Between "lock" and "messages" an import has its job row locked.
ImportStates == {"begin", "lock", "select", "claim", "messages", "publish"}
EmbedStates == {"convs", "read", "skip", "embed"}
WorkerStates == {"idle", "store", "ack"} \cup ImportStates \cup EmbedStates

Session ==
  [hasOrg : BOOLEAN,                            \* user.organization_id is not null, as loaded
   next   : Nat,                                \* index of the conversation in the file
   seen   : {"absent", "mine", "other"},        \* what the SELECT of that conversation found
   moved  : SUBSET ConvKeys,                    \* conversation rows inserted or updated
   write  : Contents,                           \* message contents inserted or updated
   cids   : SUBSET ConvKeys,                    \* conversations an embed task reads
   pend   : Contents]                           \* contents it is going to embed

NoTx == [hasOrg |-> FALSE, next |-> 1, seen |-> "absent", moved |-> {},
         write |-> NoContents, cids |-> {}, pend |-> NoContents]

Crashes ==
  [kills : 0..MaxKills, losses : 0..MaxLosses, outages : 0..MaxOutages, aborted : BOOLEAN]

PoolTypeOK ==
  /\ pc \in [Workers -> WorkerStates]
  /\ task \in [Workers -> Messages \cup {None}]
  /\ tx \in [Workers -> Session]
  /\ crashes \in Crashes

PoolInit ==
  /\ pc = [w \in Workers |-> "idle"]
  /\ task = [w \in Workers |-> None]
  /\ tx = [w \in Workers |-> NoTx]
  /\ crashes = [kills |-> 0, losses |-> 0, outages |-> 0, aborted |-> FALSE]

JobOf(w) == task[w].job
Running(b) == \E w \in Workers : task[w] = b
To(w, state) == pc' = [pc EXCEPT ![w] = state]

\* Mutant: acknowledged on delivery (task_acks_late off).
DeliverAckedEarly(w, b) ==
  /\ pc[w] = "idle"
  /\ broker[b] = "queued"
  /\ broker' = [broker EXCEPT ![b] = "acked"]
  /\ task' = [task EXCEPT ![w] = b]
  /\ StoreResult(b, "PENDING")
  /\ To(w, IF b.kind = "import" THEN "begin" ELSE "convs")
  /\ UNCHANGED <<storeVars, account, timeouts, tx, crashes>>

Deliver(w, b) ==
  /\ pc[w] = "idle"
  /\ broker[b] = "queued"
  /\ broker' = [broker EXCEPT ![b] = "unacked"]
  /\ task' = [task EXCEPT ![w] = b]
  /\ StoreResult(b, "PENDING")
  /\ To(w, IF b.kind = "import" THEN "begin" ELSE "convs")
  /\ UNCHANGED <<storeVars, account, timeouts, tx, crashes>>

\* An exception leaves the session's block: everything the session wrote is
\* rolled back, the FAILED status and error_message of the except branch too.
Raise(w) ==
  /\ tx' = [tx EXCEPT ![w] = NoTx]
  /\ StoreResult(task[w], "FAILURE")
  /\ To(w, "ack")
  /\ UNCHANGED <<storeVars, broker, account, timeouts, task>>

\* The task returned; the next task of the chain, if any, is already published.
StoreSuccess(w) ==
  /\ pc[w] = "store"
  /\ StoreResult(task[w], "SUCCESS")
  /\ To(w, "ack")
  /\ UNCHANGED <<storeVars, broker, account, timeouts, task, tx, crashes>>

AckTask(w) ==
  /\ pc[w] = "ack"
  /\ Ack(task[w])
  /\ task' = [task EXCEPT ![w] = None]
  /\ To(w, "idle")
  /\ UNCHANGED <<storeVars, account, result, timeouts, tx, crashes>>

\* The worker is killed with its pool: its session is rolled back by the
\* database, its message stays unacked.
KillWorker(w) ==
  /\ pc[w] # "idle"
  /\ crashes.kills < MaxKills
  /\ crashes' = [crashes EXCEPT !.kills = @ + 1]
  /\ tx' = [tx EXCEPT ![w] = NoTx]
  /\ task' = [task EXCEPT ![w] = None]
  /\ To(w, "idle")
  /\ UNCHANGED <<storeVars, brokerVars>>

\* Only the pool child is killed: task_reject_on_worker_lost is not set, so the
\* worker acknowledges the message and stores WorkerLostError, in one callback.
LoseChild(w) ==
  /\ pc[w] \notin {"idle", "ack"}
  /\ crashes.losses < MaxLosses
  /\ crashes' = [crashes EXCEPT !.losses = @ + 1]
  /\ Ack(task[w])
  /\ StoreResult(task[w], "FAILURE")
  /\ tx' = [tx EXCEPT ![w] = NoTx]
  /\ task' = [task EXCEPT ![w] = None]
  /\ To(w, "idle")
  /\ UNCHANGED <<storeVars, account, timeouts>>

\* The visibility timeout returns an unacked message to the queue, for a worker
\* that is gone or for one that is only slow.
RestoreOrphan(b) ==
  /\ broker[b] = "unacked"
  /\ ~Running(b)
  /\ broker' = [broker EXCEPT ![b] = "queued"]
  /\ UNCHANGED <<storeVars, account, result, timeouts, poolVars>>

RestoreRunning(b) ==
  /\ broker[b] = "unacked"
  /\ Running(b)
  /\ timeouts < MaxTimeouts
  /\ timeouts' = timeouts + 1
  /\ broker' = [broker EXCEPT ![b] = "queued"]
  /\ UNCHANGED <<storeVars, account, result, poolVars>>

\* An hour after it was stored (result_expires) a result is gone.  A worker that
\* has stored one acknowledges its message before that.
ExpireResult(b) ==
  /\ Expires
  /\ result[b] # "PENDING"
  /\ \A w \in Workers : pc[w] = "ack" => TaskId(task[w]) # b
  /\ result' = [result EXCEPT ![b] = "PENDING"]
  /\ UNCHANGED <<storeVars, broker, account, timeouts, poolVars>>
=============================================================================
