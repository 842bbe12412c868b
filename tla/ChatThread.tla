----------------------------- MODULE ChatThread -----------------------------
(* One chat thread of the /chats API: concurrent POST .../messages, PATCH   *)
(* and DELETE requests, each in a session of its own (READ COMMITTED), one  *)
(* action per query, flush or call that waits.  An exception closes the     *)
(* session and rolls it back.                                               *)
EXTENDS Naturals, FiniteSets

CONSTANTS
  Sends, Patches, Deletes,   \* requests of each kind
  Owner, Target,             \* the thread's user and context user, who may be the same
  Orgs,                      \* organizations
  None,                      \* the null organization
  HistoryLimit,              \* settings.chat_history_limit
  MaxMoves, MaxFailures      \* bounds on membership changes and on failed model calls

Requests == Sends \cup Patches \cup Deletes

ASSUME ChatAssumption ==
  /\ None \notin Orgs
  /\ HistoryLimit \in Nat /\ MaxMoves \in Nat /\ MaxFailures \in Nat
  /\ IsFiniteSet(Sends)
  /\ Sends \cap Patches = {} /\ (Sends \cup Patches) \cap Deletes = {}

Flags == {"on", "off"}

VARIABLES
  thread,     \* the chat_threads row: absent, there or deleted, and use_thread_history
  rows,       \* the committed chat_messages
  org,        \* the organization of each user
  imported,   \* does the context user have imported conversations?
  send, patch, del,     \* the requests and their sessions
  moves,      \* how many times a user's organization has changed
  failures    \* how many calls of the model have failed

world == <<org, imported, moves>>
vars == <<thread, rows, world, send, patch, del, failures>>

Message == [send : Sends, role : {"user", "assistant"}, seq : Nat]
Ask(s) == [send |-> s, role |-> "user", seq |-> send[s].seq]
Reply(s) == [send |-> s, role |-> "assistant", seq |-> send[s].seq + 1]

SendEnded == {"answered", "missing", "refused", "failed", "died"}
SendStates == SendEnded \cup
  {"idle", "thread", "access", "max", "ask", "history", "imports", "model", "reply",
   "commit", "refresh"}
PatchStates == {"idle", "flush", "commit", "refresh", "answered", "missing", "failed"}
DeleteStates == {"idle", "flush", "commit", "answered", "missing", "failed"}

\* What the session of a send keeps: the caller's organization and the thread's
\* flag as it loaded them, the sequence of its message and the history it read.
SendSession == [pc : SendStates, org : Orgs \cup {None}, history : Flags,
                seq : Nat, prior : SUBSET Message]

TypeOK ==
  /\ thread \in [state : {"none", "live", "deleted"}, history : Flags]
  /\ rows \in SUBSET Message
  /\ org \in [{Owner, Target} -> Orgs \cup {None}]
  /\ imported \in BOOLEAN
  /\ send \in [Sends -> SendSession]
  /\ patch \in [Patches -> [pc : PatchStates, history : Flags \cup {"same"}]]
  /\ del \in [Deletes -> [pc : DeleteStates, loaded : SUBSET Message]]
  /\ moves \in 0..MaxMoves /\ failures \in 0..MaxFailures

Init ==
  /\ thread = [state |-> "none", history |-> "off"]
  /\ rows = {}
  /\ org \in [{Owner, Target} -> Orgs \cup {None}]
  /\ imported \in BOOLEAN
  /\ send = [s \in Sends |->
       [pc |-> "idle", org |-> None, history |-> "off", seq |-> 0, prior |-> {}]]
  /\ patch = [p \in Patches |-> [pc |-> "idle", history |-> "same"]]
  /\ del = [d \in Deletes |-> [pc |-> "idle", loaded |-> {}]]
  /\ moves = 0 /\ failures = 0

Live == thread.state = "live"
To(s, state) == send' = [send EXCEPT ![s].pc = state]
PatchTo(p, state) == patch' = [patch EXCEPT ![p].pc = state]
DeleteTo(d, state) == del' = [del EXCEPT ![d].pc = state]

\* assert_can_access_user_context, for a caller whose organization was o when
\* the session loaded it.
MayAccess(o) == Owner = Target \/ (o # None /\ org[Target] = o)

(***************************************************************************)
(* Row locks on the thread.  A session that inserted a message holds the   *)
(* foreign key's KEY SHARE lock, one that updated the row the update lock, *)
(* one that deleted it the exclusive lock, each until it ends.             *)
(***************************************************************************)
Sharers == {s \in Sends :
              send[s].pc \in {"history", "imports", "model", "reply", "commit"}}

Updaters == {s \in Sends : send[s].pc = "commit"} \cup {p \in Patches : patch[p].pc = "commit"}

Deleters == {d \in Deletes : del[d].pc = "commit"}

\* Mutant: the update queues behind a delete that waits for the row.
BlockersQueued(c) ==
  IF c \in Sends
  THEN CASE send[c].pc = "ask"   -> Deleters
         [] send[c].pc = "reply" -> Updaters \cup {d \in Deletes : del[d].pc = "flush"}
         [] OTHER                -> {}
  ELSE IF c \in Patches THEN IF patch[c].pc = "flush" THEN Updaters \cup Deleters ELSE {}
  ELSE IF del[c].pc = "flush" THEN Sharers \cup Updaters \cup Deleters ELSE {}

\* The sessions that hold the row against what request c does next.  A session that
\* holds it shared may update it, also while a delete waits for it.
Blockers(c) ==
  IF c \in Sends
  THEN CASE send[c].pc = "ask"   -> Deleters
         [] send[c].pc = "reply" -> Updaters
         [] OTHER                -> {}
  ELSE IF c \in Patches THEN IF patch[c].pc = "flush" THEN Updaters \cup Deleters ELSE {}
  ELSE IF del[c].pc = "flush" THEN Sharers \cup Updaters \cup Deleters ELSE {}

(***************************************************************************)
(* POST /chats                                                             *)
(***************************************************************************)
CreateThread(flag) ==
  /\ thread.state = "none"
  /\ MayAccess(org[Owner])
  /\ thread' = [state |-> "live", history |-> flag]
  /\ UNCHANGED <<rows, world, send, patch, del, failures>>

(***************************************************************************)
(* POST /chats/{thread_id}/messages                                        *)
(***************************************************************************)
\* get_current_user loads the caller; the session keeps what it loaded.
StartSend(s) ==
  /\ send[s].pc = "idle"
  /\ thread.state # "none"
  /\ send' = [send EXCEPT ![s].pc = "thread", ![s].org = org[Owner]]
  /\ UNCHANGED <<thread, rows, world, patch, del, failures>>

LoadThread(s) ==
  /\ send[s].pc = "thread"
  /\ IF Live
     THEN send' = [send EXCEPT ![s].pc = "access", ![s].history = thread.history]
     ELSE To(s, "missing")
  /\ UNCHANGED <<thread, rows, world, patch, del, failures>>

CheckAccess(s) ==
  /\ send[s].pc = "access"
  /\ To(s, IF MayAccess(send[s].org) THEN "max" ELSE "refused")
  /\ UNCHANGED <<thread, rows, world, patch, del, failures>>

\* Mutant: the maximum of the caller's messages only.
ReadMaxAsked(s) ==
  /\ send[s].pc = "max"
  /\ \E n \in {0} \cup {r.seq : r \in {q \in rows : q.role = "user"}} :
       /\ \A r \in rows : r.role = "user" => r.seq <= n
       /\ send' = [send EXCEPT ![s].pc = "ask", ![s].seq = n + 1]
  /\ UNCHANGED <<thread, rows, world, patch, del, failures>>

\* coalesce(max(sequence), 0) + 1, over the committed messages.
ReadMax(s) ==
  /\ send[s].pc = "max"
  /\ \E n \in {0} \cup {r.seq : r \in rows} :
       /\ \A r \in rows : r.seq <= n
       /\ send' = [send EXCEPT ![s].pc = "ask", ![s].seq = n + 1]
  /\ UNCHANGED <<thread, rows, world, patch, del, failures>>

\* The flush of the user's message waits for a delete of the thread, and fails
\* when it is gone.
InsertAsk(s) ==
  /\ send[s].pc = "ask"
  /\ Blockers(s) = {}
  /\ To(s, IF Live THEN "history" ELSE "failed")
  /\ UNCHANGED <<thread, rows, world, patch, del, failures>>

\* The last HistoryLimit messages before the session's own: those that come
\* later are in P too.  Messages of equal sequence come in any order.
Latest(P, M) ==
  /\ P \subseteq M
  /\ Cardinality(P) = IF Cardinality(M) < HistoryLimit THEN Cardinality(M) ELSE HistoryLimit
  /\ \A r \in P, q \in M \ P : q.seq <= r.seq

\* Mutant: in ascending order, so the first messages of the thread.
ReadHistoryOldest(s) ==
  /\ send[s].pc = "history"
  /\ LET M == {r \in rows : r.seq < send[s].seq} IN
       \E P \in SUBSET M :
         /\ Cardinality(P) = IF Cardinality(M) < HistoryLimit THEN Cardinality(M) ELSE HistoryLimit
         /\ \A r \in P, q \in M \ P : q.seq >= r.seq
         /\ send' = [send EXCEPT ![s].pc = "imports",
                                 ![s].prior = IF send[s].history = "on" THEN P ELSE {}]
  /\ UNCHANGED <<thread, rows, world, patch, del, failures>>

ReadHistory(s) ==
  /\ send[s].pc = "history"
  /\ LET M == {r \in rows : r.seq < send[s].seq} IN
       \E P \in SUBSET M :
         /\ Latest(P, M)
         /\ send' = [send EXCEPT ![s].pc = "imports",
                                 ![s].prior = IF send[s].history = "on" THEN P ELSE {}]
  /\ UNCHANGED <<thread, rows, world, patch, del, failures>>

\* Without imported conversations the reply is canned.
CheckImports(s) ==
  /\ send[s].pc = "imports"
  /\ To(s, IF imported THEN "model" ELSE "reply")
  /\ UNCHANGED <<thread, rows, world, patch, del, failures>>

\* The search and generate_chat_reply.
CallModel(s) ==
  /\ send[s].pc = "model"
  /\ To(s, "reply")
  /\ UNCHANGED <<thread, rows, world, patch, del, failures>>

\* Mutant: the user's message is kept when the model fails.
ModelFailsKept(s) ==
  /\ send[s].pc = "model"
  /\ failures < MaxFailures
  /\ failures' = failures + 1
  /\ rows' = rows \cup {Ask(s)}
  /\ To(s, "failed")
  /\ UNCHANGED <<thread, world, patch, del>>

ModelFails(s) ==
  /\ send[s].pc = "model"
  /\ failures < MaxFailures
  /\ failures' = failures + 1
  /\ To(s, "failed")
  /\ UNCHANGED <<thread, rows, world, patch, del>>

\* The flush of the reply and of thread.updated_at: it waits for another
\* session's update of the row, never for a delete that waits for the row.
InsertReply(s) ==
  /\ send[s].pc = "reply"
  /\ Blockers(s) = {}
  /\ To(s, "commit")
  /\ UNCHANGED <<thread, rows, world, patch, del, failures>>

\* Mutant: the endpoint does not commit.
CommitSendForgotten(s) ==
  /\ send[s].pc = "commit"
  /\ To(s, "refresh")
  /\ UNCHANGED <<thread, rows, world, patch, del, failures>>

CommitSend(s) ==
  /\ send[s].pc = "commit"
  /\ rows' = rows \cup {Ask(s), Reply(s)}
  /\ To(s, "refresh")
  /\ UNCHANGED <<thread, world, patch, del, failures>>

\* db.refresh of both messages raises when the thread was deleted since.
RefreshSend(s) ==
  /\ send[s].pc = "refresh"
  /\ To(s, IF Live THEN "answered" ELSE "failed")
  /\ UNCHANGED <<thread, rows, world, patch, del, failures>>

\* The process or its connection dies, and the session with it.
SendDies(s) ==
  /\ send[s].pc \notin SendEnded \cup {"idle"}
  /\ To(s, "died")
  /\ UNCHANGED <<thread, rows, world, patch, del, failures>>

SendStep(s) ==
  \/ LoadThread(s) \/ CheckAccess(s) \/ ReadMax(s) \/ InsertAsk(s)
  \/ ReadHistory(s) \/ CheckImports(s) \/ CallModel(s) \/ ModelFails(s)
  \/ InsertReply(s) \/ CommitSend(s) \/ RefreshSend(s)

(***************************************************************************)
(* PATCH /chats/{thread_id}, with a new title and any use_thread_history.  *)
(***************************************************************************)
\* A flag equal to the loaded one is not a change: the column is not updated.
LoadForPatch(p, flag) ==
  /\ patch[p].pc = "idle"
  /\ thread.state # "none"
  /\ patch' = [patch EXCEPT ![p] =
       [pc      |-> IF Live THEN "flush" ELSE "missing",
        history |-> IF flag = thread.history THEN "same" ELSE flag]]
  /\ UNCHANGED <<thread, rows, world, send, del, failures>>

\* The update waits for the row's lock and fails when the row is gone.
FlushPatch(p) ==
  /\ patch[p].pc = "flush"
  /\ Blockers(p) = {}
  /\ PatchTo(p, IF Live THEN "commit" ELSE "failed")
  /\ UNCHANGED <<thread, rows, world, send, del, failures>>

CommitPatch(p) ==
  /\ patch[p].pc = "commit"
  /\ thread' = [thread EXCEPT !.history = IF patch[p].history = "same" THEN @ ELSE patch[p].history]
  /\ PatchTo(p, "refresh")
  /\ UNCHANGED <<rows, world, send, del, failures>>

RefreshPatch(p) ==
  /\ patch[p].pc = "refresh"
  /\ PatchTo(p, IF Live THEN "answered" ELSE "failed")
  /\ UNCHANGED <<thread, rows, world, send, del, failures>>

PatchStep(p) == FlushPatch(p) \/ CommitPatch(p) \/ RefreshPatch(p)

(***************************************************************************)
(* DELETE /chats/{thread_id}                                               *)
(***************************************************************************)
\* The cascade of session.delete loads the thread's messages.
LoadForDelete(d) ==
  /\ del[d].pc = "idle"
  /\ thread.state # "none"
  /\ del' = [del EXCEPT ![d] = [pc |-> IF Live THEN "flush" ELSE "missing", loaded |-> rows]]
  /\ UNCHANGED <<thread, rows, world, send, patch, failures>>

\* Mutant: no foreign key, so the delete does not wait for inserted messages.
FlushDeleteUnshared(d) ==
  /\ del[d].pc = "flush"
  /\ Updaters = {} /\ Deleters = {}
  /\ DeleteTo(d, IF Live THEN "commit" ELSE "answered")
  /\ UNCHANGED <<thread, rows, world, send, patch, failures>>

\* Deleting a row that is gone matches nothing, which is no error.
FlushDelete(d) ==
  /\ del[d].pc = "flush"
  /\ Blockers(d) = {}
  /\ DeleteTo(d, IF Live THEN "commit" ELSE "answered")
  /\ UNCHANGED <<thread, rows, world, send, patch, failures>>

\* Two deletes that loaded different messages: one holds the messages it loaded,
\* the other's ON DELETE CASCADE wants them, and Postgres aborts one of the two.
DeleteDeadlock(d) ==
  /\ del[d].pc = "flush"
  /\ \E e \in Deletes \ {d} : del[e].pc = "flush" /\ del[e].loaded # del[d].loaded
  /\ DeleteTo(d, "failed")
  /\ UNCHANGED <<thread, rows, world, send, patch, failures>>

\* ON DELETE CASCADE takes the messages committed since the load, too.
CommitDelete(d) ==
  /\ del[d].pc = "commit"
  /\ thread' = [thread EXCEPT !.state = "deleted"]
  /\ rows' = {}
  /\ DeleteTo(d, "answered")
  /\ UNCHANGED <<world, send, patch, failures>>

DeleteStep(d) == FlushDelete(d) \/ CommitDelete(d) \/ DeleteDeadlock(d)

(***************************************************************************)
(* The rest of the system.                                                 *)
(***************************************************************************)
MoveUser(u, o) ==
  /\ moves < MaxMoves
  /\ moves' = moves + 1
  /\ org' = [org EXCEPT ![u] = o]
  /\ UNCHANGED <<thread, rows, imported, send, patch, del, failures>>

\* An import of the context user's conversations commits; none is ever deleted.
ImportLands ==
  /\ imported' = TRUE
  /\ UNCHANGED <<thread, rows, org, moves, send, patch, del, failures>>

Quiet ==
  /\ \A s \in Sends : send[s].pc \in SendEnded \cup {"idle"}
  /\ \A p \in Patches : patch[p].pc \notin {"flush", "commit", "refresh"}
  /\ \A d \in Deletes : del[d].pc \notin {"flush", "commit"}

Idle == Quiet /\ UNCHANGED vars

Next ==
  \/ \E flag \in Flags : CreateThread(flag)
  \/ \E s \in Sends : StartSend(s) \/ SendStep(s) \/ SendDies(s)
  \/ \E p \in Patches : (\E flag \in Flags : LoadForPatch(p, flag)) \/ PatchStep(p)
  \/ \E d \in Deletes : LoadForDelete(d) \/ DeleteStep(d)
  \/ \E u \in {Owner, Target}, o \in Orgs \cup {None} : MoveUser(u, o)
  \/ ImportLands
  \/ Idle

Spec == Init /\ [][Next]_vars

(***************************************************************************)
(* Properties.                                                             *)
(***************************************************************************)
\* A question is stored with its answer, one sequence number apart, or not at
\* all: whatever fails or dies after the user's message was flushed.
WholeExchanges ==
  \A r \in rows :
    \E q \in rows :
      /\ q.send = r.send /\ q.role # r.role
      /\ IF r.role = "user" THEN q.seq = r.seq + 1 ELSE r.seq = q.seq + 1

\* Sequence numbers have no gap and alternate, questions odd and answers even,
\* although concurrent sends compute them without a lock and may share them.
SequencesAlternate ==
  \A r \in rows :
    /\ r.seq % 2 = IF r.role = "user" THEN 1 ELSE 0
    /\ \A n \in 1..r.seq : \E q \in rows : q.seq = n

\* A deleted thread has no messages, also none that was being written while it
\* was deleted.
NoOrphans == ~Live => rows = {}

\* The answer to a send tells what became of its messages: with an error none is
\* stored, also not after a refresh that failed, and with a 200 both are, as long
\* as the thread is there.
OutcomeIsTrue ==
  \A s \in Sends :
    /\ send[s].pc \in {"missing", "refused", "failed"} => \A r \in rows : r.send # s
    /\ send[s].pc = "answered" /\ Live => {Ask(s), Reply(s)} \subseteq rows

\* The history given to the model never shows a question without its answer, and
\* leaves no number out between its first message and the new question, although
\* it is read after that question got its number.  It is there when anything came
\* before the question.
HistoryFits(s) ==
  /\ \A r \in send[s].prior :
       /\ r.role = "user" =>
            \E q \in send[s].prior : q.send = r.send /\ q.role = "assistant"
       /\ r.seq + 1 = send[s].seq \/ \E q \in send[s].prior : q.seq = r.seq + 1
  /\ /\ send[s].pc \in {"imports", "model", "reply", "commit", "refresh", "answered"}
     /\ send[s].history = "on" /\ HistoryLimit > 0 /\ send[s].seq > 1
     => send[s].prior # {}
HistoryIsClosed == \A s \in Sends : HistoryFits(s)

\* The thread is the log of ChatLog, with the question of slot n at sequence
\* number 2n - 1.
Log == INSTANCE ChatLog WITH
  state <- thread.state,
  log   <- {<<r.send, (r.seq + 1) \div 2>> : r \in {q \in rows : q.role = "user"}}
ImplementsLog == Log!LogSpec

\* Of sessions that wait for row locks of the thread, no group waits for nothing but
\* its own, other than the deletes that Postgres breaks up.
Waiting == {c \in Requests : Blockers(c) # {}}
NoCircle == \A group \in (SUBSET Waiting) \ {{}} : \E c \in group : Blockers(c) \cap group = {}

\* A request that a session works on, and one whose next query, flush or commit
\* has what it takes.
UnderWay(c) ==
  IF c \in Sends THEN send[c].pc \notin SendEnded \cup {"idle"}
  ELSE IF c \in Patches THEN patch[c].pc \in {"flush", "commit", "refresh"}
  ELSE del[c].pc \in {"flush", "commit"}

CanGoOn(c) ==
  /\ UnderWay(c) /\ Blockers(c) = {}
  /\ c \in Sends =>
       /\ send[c].pc = "max" =>
            \E n \in {0} \cup {r.seq : r \in rows} : \A r \in rows : r.seq <= n
       /\ send[c].pc = "history" =>
            \E P \in SUBSET rows : Latest(P, {r \in rows : r.seq < send[c].seq})

(***************************************************************************)
(* The inductive invariant of the proofs.                                  *)
(***************************************************************************)
\* A session that holds a lock on the row has the row, and the exclusive lock
\* is held alone.
LockInv ==
  /\ Sharers # {} => Live /\ Deleters = {}
  /\ Deleters # {} => Live
  /\ \A d, e \in Deleters : d = e

\* Nothing is sent to a thread that is not there yet.
CreatedInv == thread.state = "none" => \A s \in Sends : send[s].pc = "idle"

\* A sequence number that was read follows a committed one, or nothing, unless
\* the thread was deleted since; it is a question's.
SequenceInv(s) ==
  send[s].pc = "ask" \/ s \in Sharers =>
    /\ send[s].seq % 2 = 1
    /\ Live => send[s].seq = 1 \/ \E q \in rows : q.seq = send[s].seq - 1

\* What is stored is the exchange of a send that has committed.
RowsInv ==
  \A r \in rows :
    /\ send[r.send].pc \in {"refresh", "answered", "died"}
    /\ r \in {Ask(r.send), Reply(r.send)}
    /\ {Ask(r.send), Reply(r.send)} \subseteq rows

\* A send that has committed has its messages stored while the thread is there.
StoredInv(s) ==
  send[s].pc \in {"refresh", "answered"} /\ Live => {Ask(s), Reply(s)} \subseteq rows

\* The whole of it: concurrent sends, patches and deletes never leave a session
\* about to write what no longer fits the thread.
ChatInv ==
  /\ TypeOK /\ LockInv /\ CreatedInv /\ RowsInv /\ SequencesAlternate /\ NoOrphans
  /\ \A s \in Sends : SequenceInv(s) /\ StoredInv(s)
=============================================================================
