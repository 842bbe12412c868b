-------------------------- MODULE ChatThreadProofs --------------------------
(* Theorems about a chat thread, for any number of requests of each kind    *)
(* and any history limit.                                                   *)
EXTENDS ChatThread, TLAPS, FiniteSetTheorems

(***************************************************************************)
(* Row locks.                                                              *)
(***************************************************************************)
\* A question is flushed only when no delete holds the row, and a delete only when
\* no other session does.
LEMMA RowIsFree ==
  /\ \A s \in Sends : send[s].pc = "ask" /\ Blockers(s) = {} => Deleters = {}
  /\ \A d \in Deletes :
       del[d].pc = "flush" /\ Blockers(d) = {} => Sharers = {} /\ Updaters = {} /\ Deleters = {}
<1>1. \A d \in Deletes : d \notin Sends /\ d \notin Patches BY ChatAssumption
<1>2. QED BY <1>1 DEF Blockers

\* What makes a request wait: the row is held against it by sessions that are about
\* to commit, or, before a delete, by sends that inserted their question.
LEMMA WhoWaits ==
  ASSUME NEW c \in Waiting
  PROVE  /\ Blockers(c) \subseteq Sharers \cup Updaters \cup Deleters
         /\ c \notin Updaters \cup Deleters
         /\ c \in Sharers => Blockers(c) = Updaters
<1> USE DEF Blockers
<1>1. c \in Requests /\ Blockers(c) # {} BY DEF Waiting
<1>2. CASE c \in Sends
  <2>1. c \notin Patches /\ c \notin Deletes BY <1>2, ChatAssumption
  <2>2. send[c].pc \in {"ask", "reply"} BY <1>1, <1>2
  <2>3. CASE send[c].pc = "ask"
    <3>1. Blockers(c) = Deleters BY <1>2, <2>3
    <3>2. c \notin Updaters /\ c \notin Deleters /\ c \notin Sharers
      BY <2>1, <2>3 DEF Updaters, Deleters, Sharers
    <3>3. QED BY <3>1, <3>2
  <2>4. CASE send[c].pc = "reply"
    <3>1. Blockers(c) = Updaters BY <1>2, <2>4
    <3>2. c \notin Updaters /\ c \notin Deleters BY <2>1, <2>4 DEF Updaters, Deleters
    <3>3. QED BY <3>1, <3>2
  <2>5. QED BY <2>2, <2>3, <2>4
<1>3. CASE c \in Patches
  <2>1. c \notin Sends /\ c \notin Deletes BY <1>3, ChatAssumption
  <2>2. patch[c].pc = "flush" /\ Blockers(c) = Updaters \cup Deleters BY <1>1, <1>3, <2>1
  <2>3. c \notin Updaters /\ c \notin Deleters /\ c \notin Sharers
    BY <2>1, <2>2 DEF Updaters, Deleters, Sharers
  <2>4. QED BY <2>2, <2>3
<1>4. CASE c \in Deletes
  <2>1. c \notin Sends /\ c \notin Patches BY <1>4, ChatAssumption
  <2>2. del[c].pc = "flush" /\ Blockers(c) = Sharers \cup Updaters \cup Deleters
    BY <1>1, <1>4, <2>1
  <2>3. c \notin Updaters /\ c \notin Deleters /\ c \notin Sharers
    BY <2>1, <2>2 DEF Updaters, Deleters, Sharers
  <2>4. QED BY <2>2, <2>3
<1>5. QED BY <1>1, <1>2, <1>3, <1>4 DEF Requests

\* No group of waiting sessions waits for its own: a send that holds the row and
\* waits to write its reply waits for sessions about to commit, which wait for
\* nobody, and without such a send in the group every member waits for sessions
\* outside it.
LEMMA NoGroupWaits ==
  NoCircle
<1> SUFFICES ASSUME NEW group \in (SUBSET Waiting) \ {{}}
             PROVE  \E c \in group : Blockers(c) \cap group = {}
  BY DEF NoCircle
<1>1. group \subseteq Waiting /\ group # {} OBVIOUS
<1>2. group \cap (Updaters \cup Deleters) = {} BY <1>1, WhoWaits
<1>3. CASE \E c \in group : c \in Sharers
  <2>1. PICK c \in group : c \in Sharers BY <1>3
  <2>2. Blockers(c) = Updaters BY <1>1, <2>1, WhoWaits
  <2>3. QED BY <1>2, <2>2
<1>4. CASE ~ \E c \in group : c \in Sharers
  <2>1. PICK c \in group : TRUE BY <1>1
  <2>2. Blockers(c) \subseteq Sharers \cup Updaters \cup Deleters BY <1>1, WhoWaits
  <2>3. QED BY <1>2, <1>4, <2>2
<1>5. QED BY <1>3, <1>4

(***************************************************************************)
(* Types.                                                                  *)
(***************************************************************************)
\* A send's own messages are messages.
LEMMA OwnMessages ==
  ASSUME TypeOK, NEW s \in Sends
  PROVE  Ask(s) \in Message /\ Reply(s) \in Message
<1>1. send[s].seq \in Nat BY DEF TypeOK, SendSession
<1>2. QED BY <1>1 DEF Ask, Reply, Message

\* A step of a send takes its session to a session.
LEMMA SendSessionType ==
  ASSUME TypeOK, NEW s \in Sends, StartSend(s) \/ SendStep(s) \/ SendDies(s)
  PROVE  send' \in [Sends -> SendSession]
<1> USE DEF To, SendStates, SendEnded
<1>1. send \in [Sends -> SendSession] /\ thread.history \in Flags
      /\ org[Owner] \in Orgs \cup {None}
  BY DEF TypeOK
<1>2. CASE StartSend(s) BY <1>1, <1>2 DEF StartSend, SendSession
<1>3. CASE LoadThread(s)
  <2>1. CASE Live BY <1>1, <1>3, <2>1 DEF LoadThread, SendSession
  <2>2. CASE ~Live BY <1>1, <1>3, <2>2 DEF LoadThread, SendSession
  <2>3. QED BY <2>1, <2>2
<1>4. CASE ReadMax(s)
  <2>1. PICK n \in {0} \cup {r.seq : r \in rows} :
          send' = [send EXCEPT ![s].pc = "ask", ![s].seq = n + 1]
    BY <1>4 DEF ReadMax
  <2>2. n + 1 \in Nat BY <2>1 DEF TypeOK, Message
  <2>3. QED BY <1>1, <2>1, <2>2 DEF SendSession
<1>5. CASE ReadHistory(s)
  <2>1. PICK P \in SUBSET Message :
          send' = [send EXCEPT ![s].pc = "imports", ![s].prior = P]
    BY <1>5 DEF ReadHistory, TypeOK
  <2>2. QED BY <1>1, <2>1 DEF SendSession
<1>6. ASSUME NEW state \in SendStates, To(s, state) PROVE send' \in [Sends -> SendSession]
  BY <1>1, <1>6 DEF SendSession
<1>7. CASE CheckAccess(s) \/ InsertAsk(s)
  BY <1>6, <1>7 DEF CheckAccess, InsertAsk
<1>8. CASE CheckImports(s) \/ CallModel(s) \/ ModelFails(s)
  BY <1>6, <1>8 DEF CheckImports, CallModel, ModelFails
<1>9. CASE InsertReply(s) \/ CommitSend(s) \/ RefreshSend(s) \/ SendDies(s)
  BY <1>6, <1>9 DEF InsertReply, CommitSend, RefreshSend, SendDies
<1>10. QED BY <1>2, <1>3, <1>4, <1>5, <1>7, <1>8, <1>9 DEF SendStep

\* Every step of a send keeps the types.
LEMMA SendType ==
  ASSUME TypeOK, NEW s \in Sends, StartSend(s) \/ SendStep(s) \/ SendDies(s)
  PROVE  TypeOK'
<1>1. send' \in [Sends -> SendSession] BY SendSessionType
<1>2. UNCHANGED <<thread, org, imported, moves, patch, del>>
  BY DEF StartSend, SendStep, SendDies, LoadThread, CheckAccess, ReadMax, InsertAsk, ReadHistory,
         CheckImports, CallModel, ModelFails, InsertReply, CommitSend, RefreshSend, world
<1>3. rows' \in SUBSET Message
  <2>1. CASE CommitSend(s) BY <2>1, OwnMessages DEF CommitSend, TypeOK
  <2>2. CASE ~CommitSend(s)
    BY <2>2 DEF TypeOK, StartSend, SendStep, SendDies, LoadThread, CheckAccess, ReadMax, InsertAsk,
         ReadHistory, CheckImports, CallModel, ModelFails, InsertReply, RefreshSend
  <2>3. QED BY <2>1, <2>2
<1>4. failures' \in 0..MaxFailures
  <2>1. CASE ModelFails(s) BY <2>1, ChatAssumption DEF ModelFails, TypeOK
  <2>2. CASE ~ModelFails(s)
    BY <2>2 DEF TypeOK, StartSend, SendStep, SendDies, LoadThread, CheckAccess, ReadMax, InsertAsk,
         ReadHistory, CheckImports, CallModel, InsertReply, CommitSend, RefreshSend
  <2>3. QED BY <2>1, <2>2
<1>5. QED BY <1>1, <1>2, <1>3, <1>4 DEF TypeOK

\* Every other step keeps them, too.
LEMMA OtherType ==
  ASSUME TypeOK, Next, \A s \in Sends : ~(StartSend(s) \/ SendStep(s) \/ SendDies(s))
  PROVE  TypeOK'
<1> USE DEF TypeOK, PatchTo, DeleteTo, PatchStates, DeleteStates, world
<1>1. ASSUME NEW flag \in Flags, CreateThread(flag) PROVE TypeOK'
  BY <1>1 DEF CreateThread
<1>2. ASSUME NEW p \in Patches, NEW flag \in Flags, LoadForPatch(p, flag) PROVE TypeOK'
  BY <1>2 DEF LoadForPatch
<1>3. ASSUME NEW p \in Patches, PatchStep(p) PROVE TypeOK'
  <2>1. CASE FlushPatch(p) BY <2>1 DEF FlushPatch
  <2>2. CASE CommitPatch(p) BY <2>2 DEF CommitPatch
  <2>3. CASE RefreshPatch(p) BY <2>3 DEF RefreshPatch
  <2>4. QED BY <1>3, <2>1, <2>2, <2>3 DEF PatchStep
<1>4. ASSUME NEW d \in Deletes, LoadForDelete(d) PROVE TypeOK'
  BY <1>4 DEF LoadForDelete
<1>5. ASSUME NEW d \in Deletes, DeleteStep(d) PROVE TypeOK'
  BY <1>5 DEF DeleteStep, FlushDelete, DeleteDeadlock, CommitDelete
<1>6. ASSUME NEW u \in {Owner, Target}, NEW o \in Orgs \cup {None}, MoveUser(u, o) PROVE TypeOK'
  BY <1>6, ChatAssumption DEF MoveUser
<1>7. CASE ImportLands BY <1>7 DEF ImportLands
<1>8. CASE Idle BY <1>8 DEF Idle, vars
<1>9. QED BY <1>1, <1>2, <1>3, <1>4, <1>5, <1>6, <1>7, <1>8 DEF Next

\* Every step keeps the types.
LEMMA TypeStep == TypeOK /\ [Next]_vars => TypeOK'
<1> SUFFICES ASSUME TypeOK, [Next]_vars PROVE TypeOK' OBVIOUS
<1>1. CASE UNCHANGED vars BY <1>1 DEF TypeOK, vars, world
<1>2. QED BY <1>1, SendType, OtherType

(***************************************************************************)
(* The invariant.                                                          *)
(***************************************************************************)
\* A step that touches only the session of send s keeps the invariant, if s takes
\* the shared lock only of a thread that is there, keeps its sequence number in
\* order, and stays at the end once its messages are stored.
LEMMA LocalSend ==
  ASSUME ChatInv, TypeOK', NEW s \in Sends, UNCHANGED <<thread, rows, del>>,
         \A x \in Sends \ {s} : send'[x] = send[x],
         thread.state # "none",
         s \in Sharers' => s \in Sharers \/ (Live /\ Deleters = {}),
         SequenceInv(s)', StoredInv(s)',
         \A r \in rows : r.send = s =>
           send'[s].pc \in {"refresh", "answered", "died"} /\ send'[s].seq = send[s].seq
  PROVE  ChatInv'
<1> USE DEF ChatInv, Live
<1>1. LockInv' BY DEF LockInv, Sharers, Deleters
<1>2. CreatedInv' BY DEF CreatedInv
<1>3. RowsInv'
  <2> SUFFICES ASSUME NEW r \in rows
               PROVE  /\ send'[r.send].pc \in {"refresh", "answered", "died"}
                      /\ r \in {Ask(r.send)', Reply(r.send)'}
                      /\ {Ask(r.send)', Reply(r.send)'} \subseteq rows
    BY DEF RowsInv
  <2>1. r.send \in Sends BY DEF TypeOK, Message
  <2>2. send'[r.send].pc \in {"refresh", "answered", "died"} /\ send'[r.send].seq = send[r.send].seq
    BY <2>1 DEF RowsInv
  <2>3. QED BY <2>2 DEF RowsInv, Ask, Reply
<1>4. SequencesAlternate' BY DEF SequencesAlternate
<1>5. NoOrphans' BY DEF NoOrphans
<1>6. \A x \in Sends \ {s} : SequenceInv(x)' /\ StoredInv(x)'
  BY DEF SequenceInv, StoredInv, Sharers, Ask, Reply
<1>7. QED BY <1>1, <1>2, <1>3, <1>4, <1>5, <1>6

\* The steps of a send before its messages are stored, but for the ones below,
\* write no sequence number and take no lock.
LEMMA SimpleSendInv ==
  ASSUME ChatInv, TypeOK', NEW s \in Sends,
         \/ StartSend(s) \/ LoadThread(s) \/ CheckAccess(s) \/ CheckImports(s)
         \/ CallModel(s) \/ ModelFails(s) \/ InsertReply(s)
  PROVE  ChatInv'
<1> USE DEF ChatInv, Live
<1>1. send \in [Sends -> SendSession] BY DEF TypeOK
<1>2. UNCHANGED <<thread, rows, del>> /\ \A x \in Sends \ {s} : send'[x] = send[x]
  BY <1>1 DEF StartSend, LoadThread, CheckAccess, CheckImports, CallModel, ModelFails, InsertReply, To
<1>3. /\ send[s].pc \in {"idle", "thread", "access", "imports", "model", "reply"}
      /\ send'[s].pc \in {"thread", "missing", "access", "max", "refused", "model", "reply",
                          "failed", "commit"}
      /\ send'[s].seq = send[s].seq
      /\ send'[s].pc \in {"model", "reply", "commit"} => send[s].pc \in {"imports", "model", "reply"}
  BY <1>1 DEF StartSend, LoadThread, CheckAccess, CheckImports, CallModel, ModelFails, InsertReply,
              To, SendSession
<1>4. thread.state # "none" BY <1>3 DEF CreatedInv, StartSend, LoadThread, CheckAccess,
              CheckImports, CallModel, ModelFails, InsertReply
<1>5. s \in Sharers' => s \in Sharers BY <1>3 DEF Sharers
<1>6. SequenceInv(s)' BY <1>2, <1>3, <1>5 DEF SequenceInv
<1>7. StoredInv(s)' BY <1>3 DEF StoredInv
<1>8. \A r \in rows : r.send # s BY <1>3 DEF RowsInv
<1>9. QED BY <1>2, <1>4, <1>5, <1>6, <1>7, <1>8, LocalSend

\* The greatest sequence is that of an answer: the next one is a question's.
LEMMA ReadMaxInv ==
  ASSUME ChatInv, TypeOK', NEW s \in Sends, ReadMax(s)
  PROVE  ChatInv'
<1> USE DEF ChatInv, Live
<1>1. send \in [Sends -> SendSession] /\ rows \in SUBSET Message BY DEF TypeOK
<1>2. PICK n \in {0} \cup {r.seq : r \in rows} :
        /\ \A r \in rows : r.seq <= n
        /\ send' = [send EXCEPT ![s].pc = "ask", ![s].seq = n + 1]
  BY DEF ReadMax
<1>3. UNCHANGED <<thread, rows, del>> /\ \A x \in Sends \ {s} : send'[x] = send[x]
  BY <1>1, <1>2 DEF ReadMax
<1>4. send[s].pc = "max" /\ send'[s].pc = "ask" /\ send'[s].seq = n + 1
  BY <1>1, <1>2 DEF ReadMax, SendSession
<1>5. n \in Nat BY <1>1, <1>2 DEF Message
<1>6. n = 0 \/ (n % 2 = 0 /\ \E q \in rows : q.seq = n)
  <2> SUFFICES ASSUME n # 0 PROVE n % 2 = 0 /\ \E q \in rows : q.seq = n OBVIOUS
  <2>1. PICK r \in rows : r.seq = n BY <1>2
  <2>2. r.role # "user"
    <3> SUFFICES ASSUME r.role = "user" PROVE FALSE OBVIOUS
    <3>1. r.send \in Sends /\ send[r.send].seq \in Nat BY <1>1 DEF Message, SendSession
    <3>2. r = Ask(r.send) /\ Reply(r.send) \in rows BY DEF RowsInv, Reply
    <3>3. Reply(r.send).seq = n + 1 BY <2>1, <3>2 DEF Ask, Reply
    <3>4. QED BY <1>2, <1>5, <3>2, <3>3
  <2>3. QED BY <2>1, <2>2 DEF SequencesAlternate
<1>7. (n + 1) % 2 = 1 /\ (n + 1 = 1 \/ \E q \in rows : q.seq = (n + 1) - 1)
  BY <1>5, <1>6
<1>8. SequenceInv(s)' BY <1>3, <1>4, <1>7 DEF SequenceInv
<1>9. s \notin Sharers' /\ StoredInv(s)' BY <1>4 DEF Sharers, StoredInv
<1>10. \A r \in rows : r.send # s BY <1>4 DEF RowsInv
<1>11. thread.state # "none" BY <1>4 DEF CreatedInv
<1>12. QED BY <1>3, <1>8, <1>9, <1>10, <1>11, LocalSend

\* The lock is taken only when no session deletes the thread, and it is there.
LEMMA InsertAskInv ==
  ASSUME ChatInv, TypeOK', NEW s \in Sends, InsertAsk(s)
  PROVE  ChatInv'
<1> USE DEF ChatInv, Live
<1>1. send \in [Sends -> SendSession] BY DEF TypeOK
<1>2. /\ UNCHANGED <<thread, rows, del>> /\ \A x \in Sends \ {s} : send'[x] = send[x]
      /\ send[s].pc = "ask" /\ Deleters = {} /\ send'[s].seq = send[s].seq
      /\ send'[s].pc = IF Live THEN "history" ELSE "failed"
  BY <1>1, RowIsFree DEF InsertAsk, To, SendSession
<1>3. thread.state # "none" BY <1>2 DEF CreatedInv
<1>4. SequenceInv(s)' BY <1>2 DEF SequenceInv, Sharers
<1>5. StoredInv(s)' BY <1>2 DEF StoredInv
<1>6. \A r \in rows : r.send # s BY <1>2 DEF RowsInv
<1>7. s \in Sharers' => Live /\ Deleters = {} BY <1>2 DEF Sharers
<1>8. QED BY <1>2, <1>3, <1>4, <1>5, <1>6, <1>7, LocalSend

\* The history is read between two steps that hold the lock.
LEMMA ReadHistoryInv ==
  ASSUME ChatInv, TypeOK', NEW s \in Sends, ReadHistory(s)
  PROVE  ChatInv'
<1> USE DEF ChatInv, Live
<1>1. send \in [Sends -> SendSession] BY DEF TypeOK
<1>2. PICK P \in SUBSET rows :
        send' = [send EXCEPT ![s].pc = "imports",
                             ![s].prior = IF send[s].history = "on" THEN P ELSE {}]
  BY DEF ReadHistory
<1>3. /\ UNCHANGED <<thread, rows, del>> /\ \A x \in Sends \ {s} : send'[x] = send[x]
      /\ send[s].pc = "history" /\ send'[s].pc = "imports" /\ send'[s].seq = send[s].seq
  BY <1>1, <1>2 DEF ReadHistory, SendSession
<1>4. thread.state # "none" BY <1>3 DEF CreatedInv
<1>5. s \in Sharers' => s \in Sharers BY <1>3 DEF Sharers
<1>6. SequenceInv(s)' BY <1>3, <1>5 DEF SequenceInv
<1>7. StoredInv(s)' BY <1>3 DEF StoredInv
<1>8. \A r \in rows : r.send # s BY <1>3 DEF RowsInv
<1>9. QED BY <1>3, <1>4, <1>5, <1>6, <1>7, <1>8, LocalSend

\* A refresh fails only when nothing is stored; a session that dies after its
\* commit leaves its messages.
LEMMA EndSendInv ==
  ASSUME ChatInv, TypeOK', NEW s \in Sends, RefreshSend(s) \/ SendDies(s)
  PROVE  ChatInv'
<1> USE DEF ChatInv, Live
<1>1. send \in [Sends -> SendSession] BY DEF TypeOK
<1>2. /\ UNCHANGED <<thread, rows, del>> /\ \A x \in Sends \ {s} : send'[x] = send[x]
      /\ send[s].pc # "idle" /\ send'[s].seq = send[s].seq
      /\ send'[s].pc \in {"answered", "failed", "died"}
      /\ send'[s].pc = "answered" => send[s].pc = "refresh"
      /\ send'[s].pc = "failed" => ~Live
  BY <1>1 DEF RefreshSend, SendDies, To, SendSession
<1>3. thread.state # "none" BY <1>2 DEF CreatedInv
<1>4. s \notin Sharers' BY <1>2 DEF Sharers
<1>5. SequenceInv(s)' BY <1>2, <1>4 DEF SequenceInv
<1>6. StoredInv(s)' BY <1>2 DEF StoredInv, Ask, Reply
<1>7. send'[s].pc = "failed" => rows = {} BY <1>2 DEF NoOrphans
<1>8. QED BY <1>2, <1>3, <1>4, <1>5, <1>6, <1>7, LocalSend

\* A commit stores a question after a committed answer, or first, and its answer.
LEMMA CommitSendInv ==
  ASSUME ChatInv, TypeOK', NEW s \in Sends, CommitSend(s)
  PROVE  ChatInv'
<1> USE DEF ChatInv, Live
<1>1. send \in [Sends -> SendSession] /\ rows \in SUBSET Message BY DEF TypeOK
<1>2. /\ UNCHANGED <<thread, del>> /\ \A x \in Sends \ {s} : send'[x] = send[x]
      /\ send[s].pc = "commit" /\ send'[s].pc = "refresh" /\ send'[s].seq = send[s].seq
      /\ rows' = rows \cup {Ask(s), Reply(s)}
  BY <1>1 DEF CommitSend, To, SendSession
<1>3. /\ Live /\ Deleters = {} /\ send[s].seq \in Nat /\ send[s].seq % 2 = 1
      /\ send[s].seq = 1 \/ \E q \in rows : q.seq = send[s].seq - 1
      /\ s \in Sharers
  BY <1>1, <1>2 DEF Sharers, LockInv, SequenceInv, SendSession
<1>4. LockInv'
  <2>1. Deleters' = {} BY <1>2, <1>3 DEF Deleters
  <2>2. QED BY <1>2, <1>3, <2>1 DEF LockInv
<1>5. CreatedInv' BY <1>2, <1>3 DEF CreatedInv
<1>6. RowsInv'
  <2> SUFFICES ASSUME NEW r \in rows'
               PROVE  /\ send'[r.send].pc \in {"refresh", "answered", "died"}
                      /\ r \in {Ask(r.send)', Reply(r.send)'}
                      /\ {Ask(r.send)', Reply(r.send)'} \subseteq rows'
    BY DEF RowsInv
  <2>1. CASE r.send = s
    <3>1. r \notin rows BY <1>2, <2>1 DEF RowsInv
    <3>2. QED BY <1>2, <2>1, <3>1 DEF Ask, Reply
  <2>2. CASE r.send # s
    <3>1. r \in rows /\ r.send \in Sends BY <1>1, <1>2, <2>2 DEF Ask, Reply, Message
    <3>2. send'[r.send] = send[r.send] BY <1>2, <2>2, <3>1
    <3>3. Ask(r.send)' = Ask(r.send) /\ Reply(r.send)' = Reply(r.send)
      BY <3>2 DEF Ask, Reply
    <3>4. QED BY <1>2, <3>1, <3>2, <3>3 DEF RowsInv
  <2>3. QED BY <2>1, <2>2
<1>7. SequencesAlternate'
  <2> SUFFICES ASSUME NEW r \in rows'
               PROVE  /\ r.seq % 2 = IF r.role = "user" THEN 1 ELSE 0
                      /\ \A n \in 1..r.seq : \E q \in rows' : q.seq = n
    BY DEF SequencesAlternate
  <2>1. CASE r \in rows BY <1>2, <2>1 DEF SequencesAlternate
  <2>2. \A n \in 1..send[s].seq : \E q \in rows' : q.seq = n
    <3> SUFFICES ASSUME NEW n \in 1..send[s].seq PROVE \E q \in rows' : q.seq = n OBVIOUS
    <3>1. CASE n = send[s].seq
      <4>1. Ask(s) \in rows' /\ Ask(s).seq = n BY <1>2, <3>1 DEF Ask
      <4>2. QED BY <4>1
    <3>2. CASE n # send[s].seq
      <4>1. PICK q \in rows : q.seq = send[s].seq - 1 BY <1>3, <3>2
      <4>2. n \in 1..q.seq BY <1>3, <3>2, <4>1
      <4>3. QED BY <1>2, <4>2 DEF SequencesAlternate
    <3>3. QED BY <3>1, <3>2
  <2>3. CASE r = Ask(s)
    <3>1. r.seq = send[s].seq /\ r.role = "user" BY <2>3 DEF Ask
    <3>2. QED BY <1>3, <2>2, <3>1
  <2>4. CASE r = Reply(s)
    <3>1. r.seq = send[s].seq + 1 /\ r.role = "assistant" BY <2>4 DEF Reply
    <3>2. (send[s].seq + 1) % 2 = 0 BY <1>3
    <3>3. \A n \in 1..r.seq : n \in 1..send[s].seq \/ n = r.seq BY <1>3, <3>1
    <3>4. QED BY <1>2, <2>2, <2>4, <3>1, <3>2, <3>3
  <2>5. QED BY <1>2, <2>1, <2>3, <2>4
<1>8. NoOrphans' BY <1>2, <1>3 DEF NoOrphans
<1>9. ASSUME NEW x \in Sends PROVE SequenceInv(x)' /\ StoredInv(x)'
  <2>1. CASE x = s BY <1>2, <2>1 DEF SequenceInv, StoredInv, Sharers, Ask, Reply
  <2>2. CASE x # s
    <3>1. send'[x] = send[x] /\ rows \subseteq rows' BY <1>2, <2>2
    <3>2. SequenceInv(x)' BY <1>2, <3>1 DEF SequenceInv, Sharers
    <3>3. StoredInv(x)' BY <1>2, <3>1 DEF StoredInv, Ask, Reply
    <3>4. QED BY <3>2, <3>3
  <2>3. QED BY <2>1, <2>2
<1>10. QED BY <1>4, <1>5, <1>6, <1>7, <1>8, <1>9

\* A step that touches neither the messages, the sends nor the locks, and the row
\* only to create it or to set its flag.
LEMMA OtherSessions ==
  ASSUME ChatInv, TypeOK', UNCHANGED <<rows, send>>, Deleters' = Deleters,
         thread'.state = thread.state \/ (thread.state = "none" /\ thread'.state = "live")
  PROVE  ChatInv'
<1> USE DEF ChatInv, Live
<1>1. thread'.state # thread.state => rows = {} /\ \A s \in Sends : send[s].pc = "idle"
  BY DEF NoOrphans, CreatedInv
<1>2. LockInv' BY DEF LockInv, Sharers
<1>3. CreatedInv' BY DEF CreatedInv
<1>4. RowsInv' BY DEF RowsInv, Ask, Reply
<1>5. SequencesAlternate' BY DEF SequencesAlternate
<1>6. NoOrphans' BY <1>1 DEF NoOrphans
<1>7. \A s \in Sends : SequenceInv(s)'
  BY <1>1 DEF SequenceInv, Sharers
<1>8. \A s \in Sends : StoredInv(s)' BY <1>1 DEF StoredInv, Ask, Reply
<1>9. QED BY <1>2, <1>3, <1>4, <1>5, <1>6, <1>7, <1>8

\* The exclusive lock is taken when no session holds one.
LEMMA FlushDeleteInv ==
  ASSUME ChatInv, TypeOK', NEW d \in Deletes, FlushDelete(d)
  PROVE  ChatInv'
<1> USE DEF ChatInv, Live
<1>1. UNCHANGED <<thread, rows, send>> /\ Sharers = {} /\ Deleters = {}
  BY RowIsFree DEF FlushDelete
<1>2. Deleters' \subseteq {d} /\ (Deleters' # {} => Live)
  BY <1>1 DEF FlushDelete, Deleters, DeleteTo, TypeOK
<1>3. Sharers' = {} BY <1>1 DEF Sharers
<1>4. LockInv' BY <1>1, <1>2, <1>3 DEF LockInv
<1>5. CreatedInv' BY <1>1 DEF CreatedInv
<1>6. RowsInv' /\ SequencesAlternate' /\ NoOrphans'
  BY <1>1 DEF RowsInv, SequencesAlternate, NoOrphans, Ask, Reply
<1>7. \A s \in Sends : SequenceInv(s)' /\ StoredInv(s)'
  BY <1>1 DEF SequenceInv, StoredInv, Sharers, Ask, Reply
<1>8. QED BY <1>4, <1>5, <1>6, <1>7

\* When the delete commits, no session holds another lock: no message follows.
LEMMA CommitDeleteInv ==
  ASSUME ChatInv, TypeOK', NEW d \in Deletes, CommitDelete(d)
  PROVE  ChatInv'
<1> USE DEF ChatInv, Live
<1>1. /\ d \in Deleters /\ UNCHANGED send /\ rows' = {} /\ thread'.state = "deleted"
      /\ Deleters' \subseteq Deleters \ {d}
  BY DEF CommitDelete, Deleters, DeleteTo, TypeOK
<1>2. Sharers = {} /\ Deleters' = {} BY <1>1 DEF LockInv
<1>3. Sharers' = {} BY <1>1, <1>2 DEF Sharers
<1>4. LockInv' BY <1>2, <1>3 DEF LockInv
<1>5. CreatedInv' /\ RowsInv' /\ SequencesAlternate' /\ NoOrphans'
  BY <1>1 DEF CreatedInv, RowsInv, SequencesAlternate, NoOrphans
<1>6. \A s \in Sends : SequenceInv(s)' /\ StoredInv(s)'
  BY <1>1 DEF SequenceInv, StoredInv, Sharers
<1>7. QED BY <1>4, <1>5, <1>6

\* Every step keeps the invariant.
LEMMA ChatStep == ChatInv /\ [Next]_vars => ChatInv'
<1> SUFFICES ASSUME ChatInv, [Next]_vars PROVE ChatInv' OBVIOUS
<1>1. TypeOK' BY TypeStep DEF ChatInv
<1>2. ASSUME UNCHANGED <<rows, send, del>>,
             thread'.state = thread.state \/ (thread.state = "none" /\ thread'.state = "live")
      PROVE  ChatInv'
  BY <1>1, <1>2, OtherSessions DEF Deleters
<1>3. CASE UNCHANGED vars BY <1>2, <1>3 DEF vars
<1>4. ASSUME NEW flag \in Flags, CreateThread(flag) PROVE ChatInv'
  BY <1>2, <1>4 DEF CreateThread
<1>5. ASSUME NEW s \in Sends, StartSend(s) \/ SendStep(s) \/ SendDies(s) PROVE ChatInv'
  BY <1>1, <1>5, SimpleSendInv, ReadMaxInv, InsertAskInv, ReadHistoryInv, EndSendInv, CommitSendInv
  DEF SendStep
<1>6. ASSUME NEW p \in Patches, (\E flag \in Flags : LoadForPatch(p, flag)) \/ PatchStep(p)
      PROVE  ChatInv'
  <2>1. UNCHANGED <<rows, send, del>>
    BY <1>6 DEF LoadForPatch, PatchStep, FlushPatch, CommitPatch, RefreshPatch
  <2>2. thread'.state = thread.state
    BY <1>6 DEF LoadForPatch, PatchStep, FlushPatch, CommitPatch, RefreshPatch, ChatInv, TypeOK
  <2>3. QED BY <1>2, <2>1, <2>2
<1>7. ASSUME NEW d \in Deletes, LoadForDelete(d) \/ DeleteStep(d) PROVE ChatInv'
  <2>1. CASE LoadForDelete(d) \/ DeleteDeadlock(d)
    <3>1. Deleters' = Deleters
      BY <2>1 DEF Deleters, LoadForDelete, DeleteDeadlock, DeleteTo, ChatInv, TypeOK
    <3>2. UNCHANGED <<thread, rows, send>> BY <2>1 DEF LoadForDelete, DeleteDeadlock
    <3>3. QED BY <1>1, <3>1, <3>2, OtherSessions
  <2>2. QED BY <1>1, <1>7, <2>1, FlushDeleteInv, CommitDeleteInv DEF DeleteStep
<1>8. ASSUME NEW u \in {Owner, Target}, NEW o \in Orgs \cup {None}, MoveUser(u, o) PROVE ChatInv'
  BY <1>2, <1>8 DEF MoveUser
<1>9. CASE ImportLands BY <1>2, <1>9 DEF ImportLands
<1>10. CASE Idle BY <1>2, <1>10 DEF Idle, vars
<1>11. QED BY <1>3, <1>4, <1>5, <1>6, <1>7, <1>8, <1>9, <1>10 DEF Next

\* The invariant holds initially.
LEMMA ChatInit == Init => ChatInv
<1> SUFFICES ASSUME Init PROVE ChatInv OBVIOUS
<1> USE DEF Init
<1>1. TypeOK
  <2>1. send \in [Sends -> SendSession]
    BY DEF SendSession, SendStates, SendEnded, Flags
  <2>2. QED
    <3>1. rows \in SUBSET Message /\ imported \in BOOLEAN
          /\ org \in [{Owner, Target} -> Orgs \cup {None}]
      OBVIOUS
    <3>2. thread \in [state : {"none", "live", "deleted"}, history : Flags] BY DEF Flags
    <3>3. patch \in [Patches -> [pc : PatchStates, history : Flags \cup {"same"}]]
      BY DEF PatchStates
    <3>4. del \in [Deletes -> [pc : DeleteStates, loaded : SUBSET Message]] BY DEF DeleteStates
    <3>5. moves \in 0..MaxMoves /\ failures \in 0..MaxFailures BY ChatAssumption
    <3>6. QED BY <2>1, <3>1, <3>2, <3>3, <3>4, <3>5 DEF TypeOK
<1>2. Sharers = {} /\ Deleters = {} BY DEF Sharers, Deleters
<1>3. QED
  BY <1>1, <1>2 DEF ChatInv, LockInv, CreatedInv, RowsInv, SequencesAlternate, NoOrphans,
                    SequenceInv, StoredInv

\* The locks a session holds fit the others' and the row; what is stored are
\* whole exchanges of sends that committed, at numbers that follow each other.
THEOREM ChatInvHolds == Spec => []ChatInv
<1>1. QED BY ChatInit, ChatStep, PTL DEF Spec

(***************************************************************************)
(* The properties.                                                         *)
(***************************************************************************)
\* A question is stored with its answer or not at all.
THEOREM Whole == Spec => []WholeExchanges
<1>1. ChatInv => WholeExchanges
  <2> SUFFICES ASSUME ChatInv, NEW r \in rows
               PROVE  \E q \in rows :
                        /\ q.send = r.send /\ q.role # r.role
                        /\ IF r.role = "user" THEN q.seq = r.seq + 1 ELSE r.seq = q.seq + 1
    BY DEF WholeExchanges
  <2>1. r \in {Ask(r.send), Reply(r.send)} /\ {Ask(r.send), Reply(r.send)} \subseteq rows
    BY DEF ChatInv, RowsInv
  <2>2. CASE r = Ask(r.send)
    <3>1. /\ r.role = "user" /\ r.seq = send[r.send].seq
          /\ Reply(r.send).send = r.send /\ Reply(r.send).role = "assistant"
          /\ Reply(r.send).seq = send[r.send].seq + 1
      BY <2>2 DEF Ask, Reply
    <3>2. QED BY <2>1, <3>1
  <2>3. CASE r = Reply(r.send)
    <3>1. /\ r.role = "assistant" /\ r.seq = send[r.send].seq + 1
          /\ Ask(r.send).send = r.send /\ Ask(r.send).role = "user"
          /\ Ask(r.send).seq = send[r.send].seq
      BY <2>3 DEF Ask, Reply
    <3>2. QED BY <2>1, <3>1
  <2>4. QED BY <2>1, <2>2, <2>3
<1>2. QED BY <1>1, ChatInvHolds, PTL

\* Sequence numbers have no gap and alternate, however many sends race.
THEOREM Alternation == Spec => []SequencesAlternate
<1>1. ChatInv => SequencesAlternate BY DEF ChatInv
<1>2. QED BY <1>1, ChatInvHolds, PTL

\* A deleted thread has no messages, whatever was being written.
THEOREM Orphans == Spec => []NoOrphans
<1>1. ChatInv => NoOrphans BY DEF ChatInv
<1>2. QED BY <1>1, ChatInvHolds, PTL

\* The answer to a send tells what became of its messages.
THEOREM Outcome == Spec => []OutcomeIsTrue
<1>1. ChatInv => OutcomeIsTrue
  BY DEF ChatInv, OutcomeIsTrue, RowsInv, StoredInv
<1>2. QED BY <1>1, ChatInvHolds, PTL

\* What is closed under "later" contains the answer to each of its questions.
LEMMA LatestIsClosed ==
  ASSUME ChatInv, NEW n \in Nat, n % 2 = 1,
         NEW P, Latest(P, {r \in rows : r.seq < n}), NEW r \in P, r.role = "user"
  PROVE  \E q \in P : q.send = r.send /\ q.role = "assistant"
<1> DEFINE q == Reply(r.send)
<1>1. r \in rows /\ r.seq < n BY DEF Latest
<1>2. r.seq \in Nat /\ r.seq % 2 = 1
  BY <1>1 DEF ChatInv, TypeOK, Message, SequencesAlternate
<1>3. q \in rows /\ q.send = r.send /\ q.role = "assistant" /\ q.seq = r.seq + 1
  <2>1. r \in {Ask(r.send), Reply(r.send)} /\ Reply(r.send) \in rows
    BY <1>1 DEF ChatInv, RowsInv
  <2>2. Reply(r.send).role = "assistant" BY DEF Reply
  <2>3. r = Ask(r.send) BY <2>1, <2>2
  <2>4. r.seq = send[r.send].seq BY <2>3 DEF Ask
  <2>5. QED BY <2>1, <2>4 DEF Reply
<1> HIDE DEF q
<1>4. q.seq < n BY <1>1, <1>2, <1>3
<1>5. q \in P BY <1>2, <1>3, <1>4 DEF Latest
<1>6. QED BY <1>3, <1>5

\* The requests of a thread never deadlock on its row, however many they are: the
\* levels of the locks alone exclude it, in every state.
THEOREM NoDeadlock == Spec => []NoCircle
BY NoGroupWaits, PTL

\* What is stored is finite: each send has at most two messages.
LEMMA RowsFinite == ChatInv => IsFiniteSet(rows)
<1> SUFFICES ASSUME ChatInv PROVE IsFiniteSet(rows) OBVIOUS
<1> DEFINE A == [s \in Sends |-> Ask(s)]
           R == [s \in Sends |-> Reply(s)]
           Asks == {Ask(s) : s \in Sends}
           Replies == {Reply(s) : s \in Sends}
<1>1. A \in Surjection(Sends, Asks) /\ R \in Surjection(Sends, Replies)
  BY DEF Surjection
<1>2. IsFiniteSet(Asks) /\ IsFiniteSet(Replies)
  <2> HIDE DEF A, R, Asks, Replies
  <2>1. QED BY <1>1, ChatAssumption, FS_Surjection
<1>3. rows \subseteq Asks \cup Replies
  <2> SUFFICES ASSUME NEW r \in rows PROVE r \in Asks \cup Replies OBVIOUS
  <2>1. r.send \in Sends /\ r \in {Ask(r.send), Reply(r.send)}
    BY DEF ChatInv, TypeOK, Message, RowsInv
  <2>2. QED BY <2>1
<1> HIDE DEF Asks, Replies
<1>4. IsFiniteSet(Asks \cup Replies) BY <1>2, FS_Union
<1>5. QED BY <1>3, <1>4, FS_Subset

\* The latest messages before a question leave no number out: the numbers stored
\* have no gap, and a message that the limit cut off comes before all that are kept.
LEMMA LatestReaches ==
  ASSUME ChatInv, NEW n \in Nat, n > 1, \E q \in rows : q.seq = n - 1,
         NEW P, Latest(P, {r \in rows : r.seq < n})
  PROVE  /\ \A r \in P : r.seq + 1 = n \/ \E q \in P : q.seq = r.seq + 1
         /\ HistoryLimit > 0 => P # {}
<1> DEFINE M == {r \in rows : r.seq < n}
<1>1. rows \subseteq Message BY DEF ChatInv, TypeOK
<1>2. PICK top \in rows : top.seq = n - 1 OBVIOUS
<1>3. ASSUME NEW r \in P, r.seq + 1 # n PROVE \E q \in P : q.seq = r.seq + 1
  <2>1. r \in rows /\ r.seq < n BY DEF Latest
  <2>2. r.seq \in Nat BY <1>1, <2>1 DEF Message
  <2>3. r.seq + 1 \in 1..top.seq BY <1>2, <1>3, <2>1, <2>2
  <2>4. PICK q \in rows : q.seq = r.seq + 1 BY <2>3 DEF ChatInv, SequencesAlternate
  <2>5. q \in M /\ ~(q.seq <= r.seq) BY <1>3, <2>1, <2>2, <2>4
  <2>6. QED BY <2>4, <2>5 DEF Latest
<1>4. ASSUME HistoryLimit > 0 PROVE P # {}
  <2>1. IsFiniteSet(M) BY RowsFinite, FS_Subset
  <2>2. top \in M BY <1>2
  <2>3. Cardinality(M) \in Nat /\ Cardinality(M) # 0
    BY <2>1, <2>2, FS_CardinalityType, FS_EmptySet
  <2>4. Cardinality(P) = IF Cardinality(M) < HistoryLimit THEN Cardinality(M) ELSE HistoryLimit
    BY DEF Latest
  <2>5. Cardinality(P) # 0 BY <1>4, <2>3, <2>4, ChatAssumption
  <2>6. QED BY <2>5, FS_EmptySet
<1>5. QED BY <1>3, <1>4

\* Until it reads the history a send has none.
HistoryInv(s) ==
  /\ send[s].pc \in {"idle", "thread", "access", "max"} => send[s].prior = {}
  /\ HistoryFits(s)

\* The step that reads the history gives it that form.
LEMMA HistoryRead ==
  ASSUME ChatInv, NEW s \in Sends, ReadHistory(s)
  PROVE  HistoryInv(s)'
<1>1. send \in [Sends -> SendSession] BY DEF ChatInv, TypeOK
<1>2. PICK P :
        /\ Latest(P, {r \in rows : r.seq < send[s].seq})
        /\ send'[s] = [send[s] EXCEPT !.pc = "imports",
                                      !.prior = IF send[s].history = "on" THEN P ELSE {}]
  BY <1>1 DEF ReadHistory
<1>3. /\ send'[s].pc = "imports" /\ send'[s].seq = send[s].seq
      /\ send'[s].history = send[s].history
      /\ send'[s].prior = IF send[s].history = "on" THEN P ELSE {}
  BY <1>1, <1>2 DEF SendSession
<1>4. send[s].pc = "history" /\ s \in Sharers BY DEF ReadHistory, Sharers
<1>5. /\ send[s].seq \in Nat /\ send[s].seq % 2 = 1
      /\ send[s].seq = 1 \/ \E q \in rows : q.seq = send[s].seq - 1
  BY <1>1, <1>4 DEF ChatInv, SequenceInv, LockInv, SendSession
<1>6. \A r \in P : r.role = "user" => \E q \in P : q.send = r.send /\ q.role = "assistant"
  BY <1>2, <1>5, LatestIsClosed
<1>7. CASE send[s].seq = 1
  <2>1. \A r \in P : r \in rows /\ r.seq \in Nat /\ r.seq < 1
    BY <1>2, <1>7 DEF Latest, ChatInv, TypeOK, Message
  <2>2. \A r \in P : r.seq + 1 = send[s].seq BY <1>7, <2>1
  <2>3. QED BY <1>3, <1>6, <1>7, <2>2 DEF HistoryInv, HistoryFits
<1>8. CASE send[s].seq # 1
  <2>1. send[s].seq > 1 /\ \E q \in rows : q.seq = send[s].seq - 1 BY <1>5, <1>8
  <2>2. /\ \A r \in P : r.seq + 1 = send[s].seq \/ \E q \in P : q.seq = r.seq + 1
        /\ HistoryLimit > 0 => P # {}
    BY <1>2, <1>5, <2>1, LatestReaches
  <2>3. QED BY <1>3, <1>6, <2>2 DEF HistoryInv, HistoryFits
<1>9. QED BY <1>7, <1>8

\* Every other step of a send keeps it: none of them changes the history, the number
\* or the flag once the history is read.
LEMMA HistoryStays ==
  ASSUME ChatInv, NEW s \in Sends, HistoryInv(s), [Next]_vars, ~ReadHistory(s)
  PROVE  HistoryInv(s)'
<1>1. send \in [Sends -> SendSession] BY DEF ChatInv, TypeOK
<1>2. CASE send'[s] = send[s] BY <1>2 DEF HistoryInv, HistoryFits
<1>3. CASE StartSend(s) \/ LoadThread(s) \/ CheckAccess(s) \/ ReadMax(s)
  <2>1. send[s].prior = {}
    BY <1>3 DEF HistoryInv, StartSend, LoadThread, CheckAccess, ReadMax
  <2>2. send'[s].prior = send[s].prior /\ send'[s].pc \in {"thread", "access", "max", "missing", "refused", "ask"}
    BY <1>1, <1>3 DEF StartSend, LoadThread, CheckAccess, ReadMax, To, SendSession
  <2>3. QED BY <2>1, <2>2 DEF HistoryInv, HistoryFits
<1>4. CASE \/ InsertAsk(s) \/ CheckImports(s) \/ CallModel(s) \/ ModelFails(s)
           \/ InsertReply(s) \/ CommitSend(s) \/ RefreshSend(s) \/ SendDies(s)
  <2>1. /\ send'[s].prior = send[s].prior /\ send'[s].seq = send[s].seq
        /\ send'[s].history = send[s].history
        /\ send'[s].pc \in {"history", "failed", "died"} \/
             /\ send[s].pc \in {"imports", "model", "reply", "commit", "refresh"}
             /\ send'[s].pc \in {"model", "reply", "commit", "refresh", "answered"}
    BY <1>1, <1>4 DEF InsertAsk, CheckImports, CallModel, ModelFails, InsertReply, CommitSend,
       RefreshSend, SendDies, To, SendSession
  <2>2. QED BY <2>1 DEF HistoryInv, HistoryFits
<1>5. ASSUME NEW x \in Sends \ {s}, StartSend(x) \/ SendStep(x) \/ SendDies(x)
      PROVE  send'[s] = send[s]
  BY <1>1, <1>5 DEF StartSend, SendStep, SendDies, LoadThread, CheckAccess, ReadMax, InsertAsk,
     ReadHistory, CheckImports, CallModel, ModelFails, InsertReply, CommitSend, RefreshSend, To
<1>6. ASSUME NEW x \in Sends, StartSend(x) \/ SendStep(x) \/ SendDies(x)
      PROVE  HistoryInv(s)'
  BY <1>2, <1>3, <1>4, <1>5, <1>6 DEF SendStep
<1>7. QED
  BY <1>2, <1>6 DEF Next, CreateThread, LoadForPatch, PatchStep, FlushPatch,
     CommitPatch, RefreshPatch, LoadForDelete, DeleteStep, FlushDelete, DeleteDeadlock,
     CommitDelete, MoveUser, ImportLands, Idle, vars

\* The history given to the model never shows a question without its answer, also
\* where the limit cuts it, and leaves no number out before the new question.
THEOREM ClosedHistory == Spec => []HistoryIsClosed
<1> DEFINE Inv == \A s \in Sends : HistoryInv(s)
<1>1. Init => Inv BY DEF Init, HistoryInv, HistoryFits
<1>2. ChatInv /\ Inv /\ [Next]_vars => Inv' BY HistoryRead, HistoryStays
<1>3. Inv => HistoryIsClosed BY DEF HistoryInv, HistoryIsClosed
<1> HIDE DEF Inv
<1>4. QED BY <1>1, <1>2, <1>3, ChatInvHolds, PTL DEF Spec

(***************************************************************************)
(* Somebody can always go on.                                              *)
(***************************************************************************)
\* Of finitely many messages one has the lowest number, and one the highest.
LEMMA Extremes ==
  ASSUME NEW M, IsFiniteSet(M), M # {}, \A r \in M : r.seq \in Nat
  PROVE  /\ \E m \in M : \A r \in M : m.seq <= r.seq
         /\ \E m \in M : \A r \in M : r.seq <= m.seq
<1>1. ASSUME NEW F \in SUBSET (SUBSET M), F # {}
      PROVE  \E x \in F : \A y \in F : ~(y \subseteq x /\ y # x)
  <2>1. F \subseteq FiniteSubsetsOf(M) BY FS_Subset DEF FiniteSubsetsOf
  <2>2. PICK x \in F : \A y \in F : ~(<<y, x>> \in StrictSubsetOrdering(M))
    BY <1>1, <2>1, FS_StrictSubsetOrderingWellFounded, WFMin
  <2>3. ASSUME NEW y \in F, y \subseteq x, y # x PROVE FALSE
    BY <2>2, <2>3 DEF StrictSubsetOrdering
  <2>4. QED BY <2>3
<1>2. \E m \in M : \A r \in M : m.seq <= r.seq
  <2> DEFINE Below(m) == {r \in M : r.seq < m.seq}
  <2>1. PICK m \in M : \A k \in M : ~(Below(k) \subseteq Below(m) /\ Below(k) # Below(m))
    <3>1. \A k \in M : Below(k) \in SUBSET M OBVIOUS
    <3> HIDE DEF Below
    <3> DEFINE F == {Below(k) : k \in M}
    <3>2. F \in SUBSET (SUBSET M) /\ F # {} BY <3>1
    <3>3. \A k \in M : Below(k) \in F OBVIOUS
    <3>4. PICK x \in F : \A y \in F : ~(y \subseteq x /\ y # x)
      <4> HIDE DEF F
      <4>1. QED BY <1>1, <3>2
    <3>5. PICK m \in M : x = Below(m) OBVIOUS
    <3>6. QED BY <3>3, <3>4, <3>5
  <2>2. ASSUME NEW k \in M, ~(m.seq <= k.seq) PROVE FALSE
    <3>1. k \in Below(m) /\ k \notin Below(k) BY <2>2
    <3>2. Below(k) \subseteq Below(m) BY <2>2
    <3>3. QED BY <2>1, <3>1, <3>2
  <2>3. QED BY <2>2
<1>3. \E m \in M : \A r \in M : r.seq <= m.seq
  <2> DEFINE Above(m) == {r \in M : r.seq > m.seq}
  <2>1. PICK m \in M : \A k \in M : ~(Above(k) \subseteq Above(m) /\ Above(k) # Above(m))
    <3>1. \A k \in M : Above(k) \in SUBSET M OBVIOUS
    <3> HIDE DEF Above
    <3> DEFINE F == {Above(k) : k \in M}
    <3>2. F \in SUBSET (SUBSET M) /\ F # {} BY <3>1
    <3>3. \A k \in M : Above(k) \in F OBVIOUS
    <3>4. PICK x \in F : \A y \in F : ~(y \subseteq x /\ y # x)
      <4> HIDE DEF F
      <4>1. QED BY <1>1, <3>2
    <3>5. PICK m \in M : x = Above(m) OBVIOUS
    <3>6. QED BY <3>3, <3>4, <3>5
  <2>2. ASSUME NEW k \in M, ~(k.seq <= m.seq) PROVE FALSE
    <3>1. k \in Above(m) /\ k \notin Above(k) BY <2>2
    <3>2. Above(k) \subseteq Above(m) BY <2>2
    <3>3. QED BY <2>1, <3>1, <3>2
  <2>3. QED BY <2>2
<1>4. QED BY <1>2, <1>3

\* There is always a latest part of the thread, whatever numbers it repeats: of the sets
\* of at least that size that leave out nothing later, a smallest one has that size.
LEMMA LatestExists ==
  ASSUME NEW M, IsFiniteSet(M), \A r \in M : r.seq \in Nat
  PROVE  \E P \in SUBSET M : Latest(P, M)
<1> DEFINE k == IF Cardinality(M) < HistoryLimit THEN Cardinality(M) ELSE HistoryLimit
           Ends(P) == Cardinality(P) >= k /\ \A r \in P, q \in M \ P : q.seq <= r.seq
           F == {P \in SUBSET M : Ends(P)}
<1>1. Cardinality(M) \in Nat /\ k \in Nat /\ Cardinality(M) >= k
  BY FS_CardinalityType, ChatAssumption
<1>2. \A P \in SUBSET M : IsFiniteSet(P) /\ Cardinality(P) \in Nat
  BY FS_Subset, FS_CardinalityType
<1> HIDE DEF k
<1>3. M \in F BY <1>1
<1>4. PICK P \in F : \A Q \in F : ~(<<Q, P>> \in StrictSubsetOrdering(M))
  <2>1. F \subseteq FiniteSubsetsOf(M) /\ F # {} BY <1>2, <1>3 DEF FiniteSubsetsOf
  <2> HIDE DEF F
  <2>2. QED BY <2>1, FS_StrictSubsetOrderingWellFounded, WFMin
<1>5. P \in SUBSET M /\ IsFiniteSet(P) /\ Cardinality(P) \in Nat /\ Cardinality(P) >= k
  BY <1>2, <1>4
<1>6. ASSUME Cardinality(P) # k PROVE FALSE
  <2>1. P # {} BY <1>1, <1>5, <1>6, FS_EmptySet
  <2>2. PICK m \in P : \A r \in P : m.seq <= r.seq BY <1>5, <2>1, Extremes
  <2> DEFINE Q == P \ {m}
  <2>3. Cardinality(Q) = Cardinality(P) - 1 BY <1>5, FS_RemoveElement
  <2>4. Cardinality(Q) >= k BY <1>1, <1>5, <1>6, <2>3
  <2>5. \A r \in Q, q \in M \ Q : q.seq <= r.seq BY <1>4, <2>2
  <2>6. Q \in F BY <1>5, <2>4, <2>5
  <2>7. <<Q, P>> \in StrictSubsetOrdering(M) BY <1>5, <2>2 DEF StrictSubsetOrdering
  <2>8. QED BY <1>4, <2>6, <2>7
<1>7. QED BY <1>4, <1>5, <1>6 DEF Latest, k

\* A request that waits for nobody has what its next step takes: the queries of a send
\* always have a result.
FreeGoOn == \A c \in Requests \ Waiting : UnderWay(c) => CanGoOn(c)

LEMMA QueriesAnswer ==
  ASSUME ChatInv
  PROVE  FreeGoOn
<1> SUFFICES ASSUME NEW c \in Requests \ Waiting, UnderWay(c) PROVE CanGoOn(c)
  BY DEF FreeGoOn
<1>1. Blockers(c) = {} BY DEF Waiting
<1>2. IsFiniteSet(rows) /\ \A r \in rows : r.seq \in Nat
  BY RowsFinite DEF ChatInv, TypeOK, Message
<1>3. \E n \in {0} \cup {r.seq : r \in rows} : \A r \in rows : r.seq <= n
  <2>1. CASE rows = {} BY <2>1
  <2>2. CASE rows # {}
    <3>1. PICK m \in rows : \A r \in rows : r.seq <= m.seq BY <1>2, <2>2, Extremes
    <3>2. QED BY <3>1
  <2>3. QED BY <2>1, <2>2
<1>4. \E P \in SUBSET rows : Latest(P, {r \in rows : r.seq < send[c].seq})
  <2> DEFINE M == {r \in rows : r.seq < send[c].seq}
  <2>1. M \in SUBSET rows OBVIOUS
  <2>2. IsFiniteSet(M) /\ \A r \in M : r.seq \in Nat BY <1>2, <2>1, FS_Subset
  <2> HIDE DEF M
  <2>3. PICK P \in SUBSET M : Latest(P, M) BY <2>2, LatestExists
  <2>4. QED BY <2>1, <2>3 DEF M
<1>5. QED BY <1>1, <1>3, <1>4 DEF CanGoOn

\* Whenever requests are under way, one of them can go on.
NeverStuck == (\E c \in Requests : UnderWay(c)) => \E c \in Requests : CanGoOn(c)

\* Those who hold the row are under way.
LEMMA HoldersAreUnderWay ==
  ASSUME NEW b \in Sharers \cup Updaters \cup Deleters
  PROVE  b \in Requests /\ UnderWay(b)
<1>1. CASE b \in Sends
  <2>1. b \notin Patches /\ b \notin Deletes BY <1>1, ChatAssumption
  <2>2. send[b].pc \in {"history", "imports", "model", "reply", "commit"}
    BY <2>1 DEF Sharers, Updaters, Deleters
  <2>3. QED BY <1>1, <2>2 DEF UnderWay, Requests, SendEnded
<1>2. CASE b \in Patches
  <2>1. b \notin Sends /\ b \notin Deletes BY <1>2, ChatAssumption
  <2>2. patch[b].pc = "commit" BY <2>1 DEF Sharers, Updaters, Deleters
  <2>3. QED BY <1>2, <2>1, <2>2 DEF UnderWay, Requests
<1>3. CASE b \in Deletes
  <2>1. b \notin Sends /\ b \notin Patches BY <1>3, ChatAssumption
  <2>2. del[b].pc = "commit" BY <2>1 DEF Sharers, Updaters, Deleters
  <2>3. QED BY <1>3, <2>1, <2>2 DEF UnderWay, Requests
<1>4. QED BY <1>1, <1>2, <1>3 DEF Sharers, Updaters, Deleters

\* With no circle, who waits waits in the end for somebody who does not.
LEMMA NobodyIsStuck == ChatInv => NeverStuck
<1> SUFFICES ASSUME ChatInv, NEW c \in Requests, UnderWay(c)
             PROVE  \E b \in Requests : CanGoOn(b)
  BY DEF NeverStuck
<1>1. CASE c \notin Waiting BY <1>1, QueriesAnswer DEF FreeGoOn
<1>2. CASE c \in Waiting
  <2>1. PICK w \in Waiting : Blockers(w) \cap Waiting = {} BY <1>2, NoGroupWaits DEF NoCircle
  <2>2. PICK b \in Blockers(w) : b \notin Waiting BY <2>1 DEF Waiting
  <2>3. b \in Requests /\ UnderWay(b) BY <2>2, WhoWaits, HoldersAreUnderWay
  <2>4. QED BY <2>2, <2>3, QueriesAnswer DEF FreeGoOn
<1>3. QED BY <1>1, <1>2

\* A request waits for nothing but the row, and as long as requests are under way one
\* of them can go on, for any number of them: no mix of sends, patches and deletes
\* leaves all of them waiting.
THEOREM SomebodyGoesOn == Spec => [](FreeGoOn /\ NeverStuck)
<1>1. ChatInv => FreeGoOn /\ NeverStuck BY QueriesAnswer, NobodyIsStuck
<1>2. QED BY <1>1, ChatInvHolds, PTL

(***************************************************************************)
(* The thread is a ChatLog.                                                *)
(***************************************************************************)
\* The mapped log.
Exchanges == {<<r.send, (r.seq + 1) \div 2>> : r \in {q \in rows : q.role = "user"}}

\* A commit appends one exchange of its send, in the slot after a taken one.
LEMMA CommitIsExchange ==
  ASSUME ChatInv, NEW s \in Sends, CommitSend(s)
  PROVE  Log!LogNext
<1> DEFINE n == (send[s].seq + 1) \div 2
<1>1. send \in [Sends -> SendSession] /\ rows \in SUBSET Message BY DEF ChatInv, TypeOK
<1>2. /\ send[s].pc = "commit" /\ thread' = thread /\ rows' = rows \cup {Ask(s), Reply(s)}
      /\ send[s].seq \in Nat /\ s \in Sharers
  BY <1>1 DEF CommitSend, Sharers, SendSession
<1>3. /\ Live /\ send[s].seq % 2 = 1
      /\ send[s].seq = 1 \/ \E q \in rows : q.seq = send[s].seq - 1
  BY <1>2 DEF ChatInv, LockInv, SequenceInv
<1>4. \A e \in Exchanges : e[1] # s
  <2> SUFFICES ASSUME NEW r \in rows PROVE r.send # s
    BY DEF Exchanges
  <2>1. send[r.send].pc # "commit" BY DEF ChatInv, RowsInv
  <2>2. QED BY <1>2, <2>1
<1>5. n \in {1} \cup {e[2] + 1 : e \in Exchanges}
  <2>1. CASE send[s].seq = 1 BY <2>1
  <2>2. CASE send[s].seq # 1
    <3>1. PICK q \in rows : q.seq = send[s].seq - 1 BY <1>3, <2>2
    <3>2. q.seq % 2 = 0 /\ q.seq \in Nat BY <1>1, <1>2, <1>3, <3>1 DEF Message
    <3>3. q.role # "user" BY <3>2 DEF ChatInv, SequencesAlternate
    <3>4. /\ q \in {Ask(q.send), Reply(q.send)} /\ Ask(q.send) \in rows
          /\ q.send \in Sends /\ send[q.send].seq \in Nat
      BY <1>1 DEF ChatInv, RowsInv, Message, SendSession
    <3>5. q.seq = send[q.send].seq + 1 BY <3>3, <3>4 DEF Ask, Reply
    <3>6. <<q.send, (send[q.send].seq + 1) \div 2>> \in Exchanges
      BY <3>4 DEF Exchanges, Ask
    <3>7. n = (send[q.send].seq + 1) \div 2 + 1 BY <1>2, <3>1, <3>4, <3>5
    <3>8. QED BY <3>6, <3>7
  <2>3. QED BY <2>1, <2>2
<1>6. Exchanges' = Exchanges \cup {<<s, n>>}
  <2>1. {q \in rows' : q.role = "user"} = {q \in rows : q.role = "user"} \cup {Ask(s)}
    BY <1>2 DEF Ask, Reply
  <2>2. Exchanges' = {<<r.send, (r.seq + 1) \div 2>> : r \in {q \in rows : q.role = "user"} \cup {Ask(s)}}
    BY <2>1 DEF Exchanges
  <2>3. <<Ask(s).send, (Ask(s).seq + 1) \div 2>> = <<s, n>> BY DEF Ask
  <2> HIDE DEF n
  <2>4. QED BY <2>2, <2>3 DEF Exchanges
<1>7. thread.state = "live" /\ thread'.state = thread.state BY <1>2, <1>3 DEF Live
<1>8. QED
  BY <1>4, <1>5, <1>6, <1>7 DEF Log!LogNext, Log!Exchange, Log!Slots, Exchanges

\* The rows of a chat thread implement the log: every step of every request is a
\* step of the log or none, so exchanges are appended whole and deleted at once.
THEOREM ThreadIsLog == Spec => ImplementsLog
<1>1. Init => Log!LogInit BY DEF Init, Log!LogInit
<1>2. ChatInv /\ [Next]_vars => [Log!LogNext]_<<thread.state, Exchanges>>
  <2> SUFFICES ASSUME ChatInv, [Next]_vars
               PROVE  Log!LogNext \/ UNCHANGED <<thread.state, Exchanges>>
    OBVIOUS
  <2>1. ASSUME UNCHANGED rows, thread'.state = thread.state
        PROVE  UNCHANGED <<thread.state, Exchanges>>
    BY <2>1 DEF Exchanges
  <2>2. ASSUME NEW flag \in Flags, CreateThread(flag) PROVE Log!LogNext
    BY <2>2 DEF CreateThread, Log!LogNext, Log!Open
  <2>3. ASSUME NEW s \in Sends, StartSend(s) \/ SendStep(s) \/ SendDies(s), ~CommitSend(s)
        PROVE  UNCHANGED rows /\ thread' = thread
    BY <2>3 DEF StartSend, SendStep, SendDies, LoadThread, CheckAccess, ReadMax, InsertAsk,
       ReadHistory, CheckImports, CallModel, ModelFails, InsertReply, RefreshSend
  <2>4. ASSUME NEW p \in Patches, (\E flag \in Flags : LoadForPatch(p, flag)) \/ PatchStep(p)
        PROVE  UNCHANGED rows /\ thread'.state = thread.state
    BY <2>4 DEF LoadForPatch, PatchStep, FlushPatch, CommitPatch, RefreshPatch, ChatInv, TypeOK
  <2>5. ASSUME NEW d \in Deletes, CommitDelete(d) PROVE Log!LogNext
    <3>1. d \in Deleters BY <2>5 DEF CommitDelete, Deleters
    <3>2. thread.state = "live" BY <3>1 DEF ChatInv, LockInv, Live
    <3>3. thread'.state = "deleted" /\ rows' = {} BY <2>5 DEF CommitDelete, ChatInv, TypeOK
    <3>4. QED BY <3>2, <3>3 DEF Log!LogNext, Log!Delete
  <2>6. ASSUME NEW d \in Deletes, LoadForDelete(d) \/ FlushDelete(d) \/ DeleteDeadlock(d)
        PROVE  UNCHANGED rows /\ thread' = thread
    BY <2>6 DEF LoadForDelete, FlushDelete, DeleteDeadlock
  <2>7. QED
    BY <2>1, <2>2, <2>3, <2>4, <2>5, <2>6, CommitIsExchange
    DEF Next, DeleteStep, MoveUser, ImportLands, Idle, vars
<1>3. QED
  BY <1>1, <1>2, ChatInvHolds, PTL DEF Spec, ImplementsLog, Log!LogSpec, Exchanges
=============================================================================
