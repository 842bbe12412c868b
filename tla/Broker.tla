------------------------------ MODULE Broker ------------------------------
(* The Celery broker and result backend on Redis, as app/workers/celery_app *)
(* configures them: task_acks_late, so a delivered message stays in the     *)
(* unacked hash until its task has ended, and comes back to the queue when  *)
(* the visibility timeout passes first.                                     *)
EXTENDS ImportStore

CONSTANTS
  MaxTag,         \* bound on the embed messages the chain of one job publishes
  MaxReembeds,    \* bound on the `make re-embed` calls for one job
  MaxTimeouts,    \* bound on visibility timeouts that hit a task still running
  Expires         \* whether a run lasts for more than result_expires, one hour

ASSUME BrokerAssumption ==
  /\ MaxTag \in Nat \ {0}
  /\ MaxReembeds \in Nat
  /\ MaxTimeouts \in Nat
  /\ Expires \in BOOLEAN

VARIABLES
  broker,     \* where each message is
  account,    \* the account_id argument in a job's import message
  result,     \* the result backend, by task id
  timeouts    \* how many running tasks have been timed out

brokerVars == <<broker, account, result, timeouts>>

ImportMsg(j) == [kind |-> "import", job |-> j, tag |-> 0]
EmbedMsg(j, t) == [kind |-> "embed", job |-> j, tag |-> t]
ReembedMsg(j, t) == [kind |-> "reembed", job |-> j, tag |-> t]

ImportMessages == {ImportMsg(j) : j \in Requests}
EmbedMessages == {EmbedMsg(j, t) : j \in Requests, t \in 1..MaxTag}
ReembedMessages == {ReembedMsg(j, t) : j \in Requests, t \in 1..MaxReembeds}
Messages == ImportMessages \cup EmbedMessages \cup ReembedMessages

\* Celery fixes the ids of a chain's tasks when the chain is built: every embed
\* message published for a job carries the same task id.
TaskId(b) == IF b.kind = "embed" THEN EmbedMsg(b.job, 1) ELSE b

MessageStates == {"unsent", "queued", "unacked", "acked"}
\* PENDING is what the backend says of a task it has nothing on; a task that was
\* only started has no outcome either.
Outcomes == {"PENDING", "SUCCESS", "FAILURE"}

BrokerTypeOK ==
  /\ broker \in [Messages -> MessageStates]
  /\ account \in [Requests -> Accounts \cup {None}]
  /\ result \in [Messages -> Outcomes]
  /\ timeouts \in 0..MaxTimeouts

BrokerInit ==
  /\ broker = [b \in Messages |-> "unsent"]
  /\ account = [r \in Requests |-> None]
  /\ result = [b \in Messages |-> "PENDING"]
  /\ timeouts = 0

Publish(b) == broker[b] = "unsent" /\ broker' = [broker EXCEPT ![b] = "queued"]

\* Acknowledging deletes the delivery tag from the unacked hash.  A message that
\* was restored and waits in the queue is not in that hash: it stays queued.
Ack(b) == broker' = [broker EXCEPT ![b] = IF @ = "unacked" THEN "acked" ELSE @]

\* The backend does not overwrite a stored SUCCESS.  A task that starts stores
\* STARTED (task_track_started): no outcome, and a FAILURE before it is gone.
StoreResult(b, outcome) ==
  result' = [result EXCEPT ![TaskId(b)] = IF @ = "SUCCESS" THEN @ ELSE outcome]
=============================================================================
