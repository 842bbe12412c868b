------------------------ MODULE ImportSafetyProofs ------------------------
(* What the import pipeline leaves in the database, for any number of       *)
(* users, files, requests and workers and any bounds: nothing of a job that *)
(* is not completed, all of one that is, and no job lost on its way.        *)
EXTENDS ImportPipelineProofs, FiniteSetTheorems

(***************************************************************************)
(* The invariants.                                                         *)
(***************************************************************************)
\* A text some completed import had for message m of conversation k.
WasImported(k, m, t) ==
  \E r \in Requests : Completed(r) /\ account[r] = k[2] /\ FileText(r, k[1])[m] = t

InFile(w, k) ==
  /\ k[2] = account[JobOf(w)]
  /\ \E i \in DOMAIN Order(JobOf(w)) : Order(JobOf(w))[i] = k[1]

Claimed(w, k) == k \in tx[w].moved \/ convs[k] # None

\* The conversation at index i of the file is written, by this session or before.
Written(w, i) ==
  LET c == Order(JobOf(w))[i]
      k == <<c, account[JobOf(w)]>>
  IN HasMessages(JobOf(w), c) =>
       /\ Claimed(w, k)
       /\ \A m \in MsgIds :
            FileText(JobOf(w), c)[m] # None => tx[w].write[k][m] # None \/ msgs[k][m] # None

\* An import's session wrote what its file says, all of it up to the index it has
\* reached; what an embed task is going to embed was imported.
SessionData(w) ==
  /\ HoldsJob(w) =>
       /\ Parsed[jobs[JobOf(w)].file] # Unreadable
       /\ \A k \in tx[w].moved : InFile(w, k) /\ HasMessages(JobOf(w), k[1])
       /\ \A k \in ConvKeys, m \in MsgIds :
            tx[w].write[k][m] # None =>
              InFile(w, k) /\ tx[w].write[k][m] = FileText(JobOf(w), k[1])[m] /\ Claimed(w, k)
       /\ \A i \in 1..(tx[w].next - 1) : Written(w, i)
  /\ pc[w] \in {"claim", "messages"} => HasMessages(JobOf(w), Key(w)[1])
  /\ pc[w] = "claim" /\ tx[w].seen # "absent" => convs[Key(w)] # None
  /\ pc[w] = "messages" => Claimed(w, Key(w))
  /\ \A k \in ConvKeys, m \in MsgIds :
       tx[w].pend[k][m] # None => WasImported(k, m, tx[w].pend[k][m])

\* Only a file that can be loaded is imported.
CompletedIsReadable ==
  \A r \in Requests : Completed(r) => Parsed[jobs[r].file] # Unreadable

DataInv ==
  /\ \A w \in Workers : SessionData(w)
  /\ CompletedIsReadable
  /\ OnlyCompletedIsVisible
  /\ CompletedMeansImported
  /\ EmbeddedTextWasImported

SafetyInv == Inv /\ FlowInv /\ DataInv

(***************************************************************************)
(* What imports write.                                                     *)
(***************************************************************************)
\* A completed job stays completed, with its account_id and its file.
LEMMA CompletedKeeps ==
  ASSUME FlowInv, Grows, NEW r \in Requests, Completed(r)
  PROVE  /\ Completed(r)' /\ account'[r] = account[r]
         /\ jobs'[r].user = jobs[r].user /\ jobs'[r].file = jobs[r].file
<1>1. RequestFlow(r) BY DEF FlowInv
<1>2. Sent(ImportMsg(r)) BY <1>1 DEF RequestFlow
<1>3. QED BY <1>2 DEF Grows, Completed

\* A text once imported stays one.
LEMMA ImportedKeeps ==
  ASSUME FlowInv, Grows, NEW k \in ConvKeys, NEW m \in MsgIds, NEW t, WasImported(k, m, t)
  PROVE  WasImported(k, m, t)'
<1>1. PICK r \in Requests : Completed(r) /\ account[r] = k[2] /\ FileText(r, k[1])[m] = t
  BY DEF WasImported
<1>2. Completed(r)' /\ account'[r] = account[r] /\ jobs'[r].file = jobs[r].file
  BY <1>1, CompletedKeeps
<1>3. FileText(r, k[1])'[m] = t BY <1>1, <1>2 DEF FileText
<1>4. QED BY <1>1, <1>2, <1>3 DEF WasImported

\* The tables keep what they say while no conversation, message or embedding is
\* written and no job is completed.
LEMMA TablesFrame ==
  ASSUME Inv, FlowInv, DataInv, Grows, UNCHANGED <<convs, msgs>>,
         \A r \in Requests : Completed(r)' => Completed(r)
  PROVE  OnlyCompletedIsVisible' /\ CompletedMeansImported' /\ CompletedIsReadable'
<1>1. OnlyCompletedIsVisible'
  <2>1. SUFFICES ASSUME NEW k \in ConvKeys
                 PROVE  /\ convs[k] # None => Completed(convs[k].job)'
                        /\ \A m \in MsgIds :
                             msgs[k][m] # None =>
                               convs[k] # None /\ WasImported(k, m, msgs[k][m])'
    BY DEF OnlyCompletedIsVisible, Completed, WasImported
  <2>2. /\ convs[k] # None => Completed(convs[k].job)
        /\ \A m \in MsgIds :
             msgs[k][m] # None => convs[k] # None /\ WasImported(k, m, msgs[k][m])
    BY DEF DataInv, OnlyCompletedIsVisible, Completed, WasImported
  <2>3. convs[k] # None => convs[k].job \in Requests
    BY DEF Inv, TypeOK, StoreTypeOK, ConvRow
  <2>4. convs[k] # None => Completed(convs[k].job)'
    BY <2>2, <2>3, CompletedKeeps
  <2>5. ASSUME NEW m \in MsgIds, msgs[k][m] # None
        PROVE  convs[k] # None /\ WasImported(k, m, msgs[k][m])'
    BY <2>2, <2>5, ImportedKeeps
  <2>6. QED BY <2>4, <2>5
<1>2. CompletedMeansImported'
  <2>1. SUFFICES ASSUME NEW r \in Requests, Completed(r)',
                        NEW i \in DOMAIN Order(r)', HasMessages(r, Order(r)[i])'
                 PROVE  /\ convs'[<<Order(r)[i]', account'[r]>>] # None
                        /\ \A m \in MsgIds :
                             (FileText(r, Order(r)[i])[m])' # None =>
                               msgs'[<<Order(r)[i]', account'[r]>>][m] # None
    BY DEF CompletedMeansImported, Completed
  <2>2. Completed(r) BY <2>1
  <2>3. account'[r] = account[r] /\ jobs'[r].file = jobs[r].file BY <2>2, CompletedKeeps
  <2>4. /\ Order(r)' = Order(r)
        /\ \A c : FileText(r, c)' = FileText(r, c)
    BY <2>3 DEF Order, FileText
  <2>5. i \in DOMAIN Order(r) /\ HasMessages(r, Order(r)[i])
    BY <2>1, <2>3 DEF HasMessages, FileText, Order
  <2>6. /\ convs[<<Order(r)[i], account[r]>>] # None
        /\ \A m \in MsgIds :
             FileText(r, Order(r)[i])[m] # None =>
               msgs[<<Order(r)[i], account[r]>>][m] # None
    BY <2>2, <2>5 DEF DataInv, CompletedMeansImported, Completed
  <2>7. QED BY <2>3, <2>6 DEF Order, FileText
<1>3. CompletedIsReadable'
  <2>1. \A r \in Requests : Completed(r) => jobs'[r].file = jobs[r].file BY CompletedKeeps
  <2>2. QED BY <2>1 DEF DataInv, CompletedIsReadable
<1>4. QED BY <1>1, <1>2, <1>3

LEMMA RecordsFrame ==
  ASSUME FlowInv, DataInv, Grows, UNCHANGED embs
  PROVE  EmbeddedTextWasImported'
<1>1. SUFFICES ASSUME NEW k \in ConvKeys, NEW m \in MsgIds, NEW i \in DOMAIN embs[k][m]
               PROVE  WasImported(k, m, embs[k][m][i])'
  BY DEF EmbeddedTextWasImported, WasImported, Completed
<1>2. WasImported(k, m, embs[k][m][i])
  BY DEF DataInv, EmbeddedTextWasImported, WasImported, Completed
<1>3. QED BY <1>2, ImportedKeeps

\* An import in the loop goes on with the same job, account_id and file.
LEMMA JobView ==
  ASSUME Inv, Grows, NEW v \in Workers, HoldsJob(v), task'[v] = task[v]
  PROVE  /\ JobOf(v)' = JobOf(v) /\ JobOf(v) \in Requests /\ jobs[JobOf(v)] # None
         /\ jobs'[JobOf(v)].file = jobs[JobOf(v)].file
         /\ account'[JobOf(v)] = account[JobOf(v)]
<1>1. pc[v] \in ImportStates BY LoopFacts
<1>2. JobOf(v) \in Requests /\ task[v] = ImportMsg(JobOf(v)) /\ jobs[JobOf(v)] # None
  BY <1>1, ImportJobFacts
<1>3. pc[v] # "idle" BY DEF HoldsJob
<1>4. Sent(ImportMsg(JobOf(v))) BY <1>2, <1>3 DEF Inv, TypeOK, TaskOK, Sent
<1>5. QED BY <1>2, <1>4 DEF Grows, JobOf

\* A worker that did not move keeps its part of the invariant.
LEMMA SessionFrame ==
  ASSUME Inv, FlowInv, Grows, NEW v \in Workers, SessionData(v),
         pc'[v] = pc[v], task'[v] = task[v], tx'[v] = tx[v]
  PROVE  SessionData(v)'
<1>1. ASSUME NEW k \in ConvKeys, NEW m \in MsgIds, tx'[v].pend[k][m] # None
      PROVE  WasImported(k, m, tx[v].pend[k][m])'
  <2>1. WasImported(k, m, tx[v].pend[k][m]) BY <1>1 DEF SessionData
  <2>2. QED BY <2>1, ImportedKeeps DEF WasImported
<1>2. CASE ~HoldsJob(v)
  BY <1>1, <1>2 DEF SessionData, HoldsJob, WasImported
<1>3. CASE HoldsJob(v)
  <2>1. /\ JobOf(v)' = JobOf(v) /\ jobs'[JobOf(v)].file = jobs[JobOf(v)].file
        /\ account'[JobOf(v)] = account[JobOf(v)]
    BY <1>3, JobView
  <2>2. /\ Order(JobOf(v))' = Order(JobOf(v))
        /\ \A c : FileText(JobOf(v), c)' = FileText(JobOf(v), c)
        /\ \A c : HasMessages(JobOf(v), c)' <=> HasMessages(JobOf(v), c)
    BY <2>1 DEF Order, FileText, HasMessages
  <2>3. tx[v].moved \subseteq ConvKeys BY DEF Inv, TypeOK, PoolTypeOK, Session
  <2>4. Key(v)' = Key(v) BY <2>1, <2>2 DEF Key
  <2>5. \A k \in ConvKeys : Claimed(v, k) => Claimed(v, k)' BY DEF Claimed, Grows
  <2>6. \A k : InFile(v, k)' <=> InFile(v, k) BY <2>1, <2>2 DEF InFile
  <2>7. \A k \in tx'[v].moved : InFile(v, k)' /\ HasMessages(JobOf(v), k[1])'
    BY <1>3, <2>2, <2>6 DEF SessionData
  <2>8. ASSUME NEW k \in ConvKeys, NEW m \in MsgIds, tx[v].write[k][m] # None
        PROVE  /\ InFile(v, k)' /\ tx[v].write[k][m] = FileText(JobOf(v), k[1])'[m]
               /\ Claimed(v, k)'
    BY <1>3, <2>2, <2>5, <2>6, <2>8 DEF SessionData
  <2>9. ASSUME NEW i \in 1..(tx[v].next - 1)
        PROVE  Written(v, i)'
    <3>1. Written(v, i) BY <1>3 DEF SessionData
    <3>2. PICK c : c = Order(JobOf(v))[i] OBVIOUS
    <3>3. PICK k : k = <<c, account[JobOf(v)]>> OBVIOUS
    <3>4. i \in DOMAIN Order(JobOf(v)) /\ c \in ConvIds
      <4>1. Order(JobOf(v)) \in Seq(ConvIds) BY <1>3, LoopFacts DEF ParsedFile, Order
      <4>2. i \in 1..Len(Order(JobOf(v))) BY <1>3, LoopFacts
      <4>3. QED BY <3>2, <4>1, <4>2
    <3>5. account[JobOf(v)] \in Accounts
      BY <1>3, LoopFacts, ImportJobFacts
    <3>6. k \in ConvKeys BY <3>3, <3>4, <3>5 DEF ConvKeys
    <3>7. HasMessages(JobOf(v), c) =>
            /\ Claimed(v, k)
            /\ \A m \in MsgIds : FileText(JobOf(v), c)[m] # None =>
                 tx[v].write[k][m] # None \/ msgs[k][m] # None
      BY <3>1, <3>2, <3>3 DEF Written
    <3>8. HasMessages(JobOf(v), c)' =>
            /\ Claimed(v, k)'
            /\ \A m \in MsgIds : FileText(JobOf(v), c)'[m] # None =>
                 tx'[v].write[k][m] # None \/ msgs'[k][m] # None
      BY <2>2, <2>5, <3>6, <3>7 DEF Grows
    <3>9. /\ c = Order(JobOf(v))'[i] /\ k = <<c, account'[JobOf(v)']>>
      BY <2>1, <2>2, <3>2, <3>3
    <3>10. QED BY <3>8, <3>9 DEF Written
  <2>10. pc[v] = "claim" /\ tx[v].seen # "absent" => convs'[Key(v)] # None
    <3>1. pc[v] # "select" => Key(v) \in ConvKeys
      BY <1>3, LoopFacts DEF Inv, SessionInv, SessionOK
    <3>2. QED BY <3>1 DEF SessionData, Grows
  <2>11. pc[v] = "messages" => Claimed(v, Key(v))'
    <3>1. pc[v] # "select" => Key(v) \in ConvKeys
      BY <1>3, LoopFacts DEF Inv, SessionInv, SessionOK
    <3>2. QED BY <2>4, <2>5, <3>1 DEF SessionData, Claimed
  <2>12. pc[v] \in {"claim", "messages"} => HasMessages(JobOf(v), Key(v)[1])'
    BY <2>2, <2>4 DEF SessionData
  <2>13. Parsed[jobs'[JobOf(v)].file] # Unreadable BY <1>3, <2>1 DEF SessionData
  <2>14. QED
    BY <1>1, <2>1, <2>4, <2>7, <2>8, <2>9, <2>10, <2>11, <2>12, <2>13
    DEF SessionData, WasImported, Claimed, InFile
<1>4. QED BY <1>2, <1>3

\* A session outside the loop of an import, with nothing to embed, is in order.
LEMMA OutsideLoop ==
  ASSUME Inv', NEW w \in Workers, pc'[w] \notin {"select", "claim", "messages", "skip", "embed"}
  PROVE  SessionData(w)'
<1>1. tx'[w].pend = NoContents BY DEF Inv, SessionInv, SessionOK
<1>2. \A k \in ConvKeys, m \in MsgIds : tx'[w].pend[k][m] = None
  BY <1>1 DEF NoContents
<1>3. QED BY <1>2 DEF SessionData, HoldsJob

\* The loop starts with nothing written.
LEMMA LockJobData ==
  ASSUME Inv, Inv', NEW w \in Workers, LockJob(w)
  PROVE  SessionData(w)'
<1>1. /\ pc \in [Workers -> WorkerStates] /\ tx \in [Workers -> Session]
      /\ SessionOK(w) /\ pc[w] = "lock"
  BY DEF Inv, TypeOK, PoolTypeOK, SessionInv, LockJob
<1>2. CASE ~Loadable(JobOf(w))
  <2>1. pc'[w] = "ack" BY <1>1, <1>2 DEF LockJob, Raise, To
  <2>2. QED BY <2>1, OutsideLoop
<1>3. CASE Loadable(JobOf(w))
  <2>1. /\ pc'[w] = "select" /\ UNCHANGED <<jobs, task, tx>>
        /\ Parsed[jobs[JobOf(w)].file] # Unreadable
    BY <1>1, <1>3 DEF LockJob, To, Loadable, storeVars
  <2>2. tx[w].moved = {} /\ tx[w].write = NoContents /\ tx[w].next = 1
    BY <1>1 DEF SessionOK, HoldsJob
  <2>3. tx[w].pend = NoContents BY <1>1 DEF SessionOK
  <2>4. \A k \in ConvKeys, m \in MsgIds : tx[w].write[k][m] = None /\ tx[w].pend[k][m] = None
    BY <2>2, <2>3 DEF NoContents
  <2>5. QED BY <2>1, <2>2, <2>4 DEF SessionData, JobOf
<1>4. QED BY <1>2, <1>3

\* The keys of the conversations a session has gone through.
LEMMA OrderFacts ==
  ASSUME Inv, NEW w \in Workers, HoldsJob(w), NEW i \in 1..(tx[w].next - 1)
  PROVE  /\ i \in DOMAIN Order(JobOf(w))
         /\ <<Order(JobOf(w))[i], account[JobOf(w)]>> \in ConvKeys
<1>1. Order(JobOf(w)) \in Seq(ConvIds) BY LoopFacts DEF ParsedFile, Order
<1>2. i \in 1..Len(Order(JobOf(w))) BY LoopFacts
<1>3. account[JobOf(w)] \in Accounts BY LoopFacts, ImportJobFacts
<1>4. QED BY <1>1, <1>2, <1>3 DEF ConvKeys

\* The conversation at hand is one of the file.
LEMMA AtHand ==
  ASSUME Inv, NEW w \in Workers, HoldsJob(w), tx[w].next <= Len(Order(JobOf(w)))
  PROVE  /\ tx[w].next \in DOMAIN Order(JobOf(w)) /\ InFile(w, Key(w)) /\ Key(w) \in ConvKeys
         /\ Key(w) = <<Order(JobOf(w))[tx[w].next], account[JobOf(w)]>>
<1>1. Order(JobOf(w)) \in Seq(ConvIds) BY LoopFacts DEF ParsedFile, Order
<1>2. tx[w].next \in 1..Len(Order(JobOf(w))) BY LoopFacts
<1>3. tx[w].next \in DOMAIN Order(JobOf(w)) BY <1>1, <1>2
<1>4. QED BY <1>3, LoopFacts DEF InFile, Key

\* Enough for a step of the loop: the tables stay, and what the session wrote
\* grows by what the file says.
LEMMA LoopStep ==
  ASSUME Inv, NEW w \in Workers, SessionData(w), HoldsJob(w),
         UNCHANGED <<jobs, account, convs, msgs, task>>,
         tx'[w].pend = tx[w].pend,
         tx[w].moved \subseteq tx'[w].moved,
         \A k \in tx'[w].moved \ tx[w].moved : InFile(w, k) /\ HasMessages(JobOf(w), k[1]),
         \A k \in ConvKeys, m \in MsgIds :
           /\ tx[w].write[k][m] # None => tx'[w].write[k][m] # None
           /\ tx'[w].write[k][m] # tx[w].write[k][m] =>
                InFile(w, k) /\ tx'[w].write[k][m] = FileText(JobOf(w), k[1])[m] /\ Claimed(w, k),
         \A i \in 1..(tx'[w].next - 1) : i \in 1..(tx[w].next - 1) \/ Written(w, i)',
         pc'[w] \in {"claim", "messages"} => HasMessages(JobOf(w), Key(w)[1])',
         pc'[w] = "claim" /\ tx'[w].seen # "absent" => (convs[Key(w)] # None)',
         pc'[w] = "messages" => Claimed(w, Key(w))'
  PROVE  SessionData(w)'
<1>1. \A c : /\ FileText(JobOf(w), c)' = FileText(JobOf(w), c)
             /\ HasMessages(JobOf(w), c)' <=> HasMessages(JobOf(w), c)
  BY DEF FileText, JobOf, HasMessages
<1>2. Order(JobOf(w))' = Order(JobOf(w)) /\ account'[JobOf(w)'] = account[JobOf(w)]
  BY DEF Order, JobOf
<1>3. \A k : InFile(w, k)' <=> InFile(w, k) BY <1>2 DEF InFile
<1>4. \A k : Claimed(w, k) => Claimed(w, k)' BY DEF Claimed
<1>5. Parsed[jobs'[JobOf(w)'].file] # Unreadable BY DEF SessionData, JobOf
<1>6. \A k \in tx'[w].moved : InFile(w, k)' /\ HasMessages(JobOf(w), k[1])'
  BY <1>1, <1>3 DEF SessionData
<1>7. ASSUME NEW k \in ConvKeys, NEW m \in MsgIds, tx'[w].write[k][m] # None
      PROVE  /\ InFile(w, k)' /\ tx'[w].write[k][m] = FileText(JobOf(w), k[1])'[m]
             /\ Claimed(w, k)'
  <2>1. /\ InFile(w, k) /\ tx'[w].write[k][m] = FileText(JobOf(w), k[1])[m] /\ Claimed(w, k)
    BY <1>7 DEF SessionData
  <2>2. QED BY <1>1, <1>3, <1>4, <2>1
<1>8. ASSUME NEW i \in 1..(tx[w].next - 1)
      PROVE  Written(w, i)'
  <2>1. Written(w, i) BY DEF SessionData
  <2>2. PICK c : c = Order(JobOf(w))[i] OBVIOUS
  <2>3. PICK k : k = <<c, account[JobOf(w)]>> OBVIOUS
  <2>4. CASE ~HasMessages(JobOf(w), c) BY <1>1, <1>2, <2>2, <2>4 DEF Written
  <2>5. CASE HasMessages(JobOf(w), c)
    <3>1. /\ Claimed(w, k)
          /\ \A m \in MsgIds : FileText(JobOf(w), c)[m] # None =>
               tx[w].write[k][m] # None \/ msgs[k][m] # None
      BY <2>1, <2>2, <2>3, <2>5 DEF Written
    <3>2. k \in ConvKeys BY <2>2, <2>3, OrderFacts
    <3>3. QED BY <1>1, <1>2, <1>4, <2>2, <2>3, <3>1, <3>2 DEF Written
  <2>6. QED BY <2>4, <2>5
<1>9. \A i \in 1..(tx'[w].next - 1) : Written(w, i)' BY <1>8
<1>10. \A k \in ConvKeys, m \in MsgIds :
         tx'[w].pend[k][m] # None => WasImported(k, m, tx[w].pend[k][m])'
  BY DEF SessionData, WasImported, Completed, FileText
<1>11. QED BY <1>5, <1>6, <1>7, <1>9, <1>10 DEF SessionData, WasImported

\* The index has moved by one.
LEMMA NextIndex ==
  ASSUME NEW n \in Nat, NEW i \in 1..((n + 1) - 1), i \notin 1..(n - 1)
  PROVE  i = n
  OBVIOUS

\* A conversation without messages is passed over.
LEMMA SkipConversationData ==
  ASSUME Inv, NEW w \in Workers, SkipConversation(w), SessionData(w)
  PROVE  SessionData(w)'
<1> USE DEF SkipConversation, MoreConversations, storeVars, brokerVars
<1>1. /\ pc[w] = "select" /\ HoldsJob(w) /\ tx \in [Workers -> Session] /\ tx[w].next \in Nat
  BY LoopFacts DEF Inv, TypeOK, PoolTypeOK, HoldsJob
<1>2. UNCHANGED <<jobs, account, convs, msgs, pc, task>> OBVIOUS
<1>3. /\ tx'[w].next = tx[w].next + 1 /\ tx'[w].moved = tx[w].moved
      /\ tx'[w].write = tx[w].write /\ tx'[w].pend = tx[w].pend
  BY <1>1 DEF Session
<1>4. PICK n \in Nat : n = tx[w].next BY <1>1
<1>5. Written(w, n)'
  <2>1. ~HasMessages(JobOf(w), Order(JobOf(w))[n]) BY <1>4 DEF Key
  <2>2. QED BY <1>2, <2>1 DEF Written, JobOf, Order, HasMessages, FileText
<1>6. \A i \in 1..(tx'[w].next - 1) : i \in 1..(tx[w].next - 1) \/ Written(w, i)'
  BY <1>3, <1>4, <1>5, NextIndex
<1>7. QED BY <1>1, <1>2, <1>3, <1>6, LoopStep

LEMMA SelectConversationData ==
  ASSUME Inv, NEW w \in Workers, SelectConversation(w), SessionData(w)
  PROVE  SessionData(w)'
<1> USE DEF SelectConversation, MoreConversations, To, storeVars, brokerVars
<1>1. /\ pc \in [Workers -> WorkerStates] /\ HoldsJob(w) /\ tx \in [Workers -> Session]
  BY DEF Inv, TypeOK, PoolTypeOK, HoldsJob
<1>2. /\ UNCHANGED <<jobs, account, convs, msgs, task>> /\ pc'[w] = "claim"
      /\ tx'[w].seen # "absent" => convs[Key(w)] # None
  BY <1>1 DEF Session
<1>3. /\ tx'[w].next = tx[w].next /\ tx'[w].moved = tx[w].moved
      /\ tx'[w].write = tx[w].write /\ tx'[w].pend = tx[w].pend
  BY <1>1 DEF Session
<1>4. Key(w)' = Key(w) BY <1>2, <1>3 DEF Key, JobOf, Order
<1>5. HasMessages(JobOf(w), Key(w)[1])'
  BY <1>2, <1>4 DEF HasMessages, FileText, JobOf
<1>6. QED BY <1>1, <1>2, <1>3, <1>4, <1>5, LoopStep

\* A conversation that existed stays; the others are inserted or updated.
LEMMA ClaimConversationData ==
  ASSUME Inv, NEW w \in Workers, ClaimConversation(w), SessionData(w)
  PROVE  SessionData(w)'
<1> USE DEF ClaimConversation, To, storeVars, brokerVars
<1>1. /\ pc \in [Workers -> WorkerStates] /\ HoldsJob(w) /\ tx \in [Workers -> Session]
      /\ tx[w].next <= Len(Order(JobOf(w))) /\ pc[w] = "claim"
  BY DEF Inv, TypeOK, PoolTypeOK, HoldsJob, SessionInv, SessionOK
<1>2. UNCHANGED <<jobs, account, convs, msgs, task>> /\ pc'[w] = "messages"
  BY <1>1
<1>3. /\ tx'[w].next = tx[w].next /\ tx'[w].write = tx[w].write /\ tx'[w].pend = tx[w].pend
      /\ tx'[w].moved = IF tx[w].seen = "mine" THEN tx[w].moved ELSE tx[w].moved \cup {Key(w)}
  BY <1>1 DEF Session
<1>4. Key(w)' = Key(w) BY <1>2, <1>3 DEF Key, JobOf, Order
<1>5. HasMessages(JobOf(w), Key(w)[1]) BY <1>1 DEF SessionData
<1>6. Claimed(w, Key(w))'
  <2>1. CASE tx[w].seen = "mine" BY <1>1, <1>2, <1>4, <2>1 DEF SessionData, Claimed
  <2>2. CASE tx[w].seen # "mine" BY <1>3, <1>4, <2>2 DEF Claimed
  <2>3. QED BY <2>1, <2>2
<1>7. HasMessages(JobOf(w), Key(w)[1])'
  BY <1>2, <1>4, <1>5 DEF HasMessages, FileText, JobOf
<1>8. \A k \in tx'[w].moved \ tx[w].moved : InFile(w, k) /\ HasMessages(JobOf(w), k[1])
  BY <1>1, <1>3, <1>5, AtHand
<1>9. QED BY <1>1, <1>2, <1>3, <1>6, <1>7, <1>8, LoopStep

\* Each message of the conversation is stored already or written now.
LEMMA WriteMessagesData ==
  ASSUME Inv, NEW w \in Workers, WriteMessages(w), SessionData(w)
  PROVE  SessionData(w)'
<1> USE DEF WriteMessages, To, storeVars, brokerVars
<1>1. /\ pc \in [Workers -> WorkerStates] /\ HoldsJob(w) /\ tx \in [Workers -> Session]
      /\ tx[w].next <= Len(Order(JobOf(w))) /\ tx[w].next \in Nat /\ pc[w] = "messages"
  BY LoopFacts DEF Inv, TypeOK, PoolTypeOK, HoldsJob, SessionInv, SessionOK
<1>2. UNCHANGED <<jobs, account, convs, msgs, task>> /\ pc'[w] = "select"
  BY <1>1
<1>3. /\ Key(w) \in ConvKeys /\ InFile(w, Key(w)) /\ Claimed(w, Key(w))
      /\ Key(w) = <<Order(JobOf(w))[tx[w].next], account[JobOf(w)]>>
  BY <1>1, AtHand DEF SessionData
<1>4. PICK row : row = [m \in MsgIds |-> IF m \in ToWrite(w) THEN File(w)[m]
                                         ELSE tx[w].write[Key(w)][m]]
  OBVIOUS
<1>5. /\ tx'[w].next = tx[w].next + 1 /\ tx'[w].moved = tx[w].moved
      /\ tx'[w].pend = tx[w].pend
      /\ tx'[w].write = [tx[w].write EXCEPT ![Key(w)] = row]
  BY <1>1, <1>4 DEF Session
<1>6. tx[w].write \in [ConvKeys -> [MsgIds -> Texts \cup {None}]]
  BY <1>1 DEF Session, Contents
<1>7. tx'[w].write[Key(w)] = row /\ \A k \in ConvKeys \ {Key(w)} : tx'[w].write[k] = tx[w].write[k]
  BY <1>3, <1>5, <1>6
<1>8. \A m \in ToWrite(w) : m \in MsgIds /\ File(w)[m] # None /\ row[m] = File(w)[m]
  BY <1>4 DEF ToWrite
<1>9. \A m \in MsgIds \ ToWrite(w) : row[m] = tx[w].write[Key(w)][m] BY <1>4
<1>10. ASSUME NEW k \in ConvKeys, NEW m \in MsgIds
       PROVE  /\ tx[w].write[k][m] # None => tx'[w].write[k][m] # None
              /\ tx'[w].write[k][m] # tx[w].write[k][m] =>
                   /\ InFile(w, k) /\ Claimed(w, k)
                   /\ tx'[w].write[k][m] = FileText(JobOf(w), k[1])[m]
  BY <1>3, <1>7, <1>8, <1>9 DEF File
<1>11. PICK n \in Nat : n = tx[w].next BY <1>1
<1>12. Written(w, n)'
  <2>1. ASSUME NEW m \in MsgIds, File(w)[m] # None
        PROVE  row[m] # None \/ msgs[Key(w)][m] # None
    BY <1>8, <2>1 DEF ToWrite
  <2>2. Claimed(w, Key(w)) /\ tx'[w].moved = tx[w].moved BY <1>3, <1>5
  <2>3. \A m \in MsgIds : FileText(JobOf(w), Key(w)[1])[m] # None =>
          tx'[w].write[Key(w)][m] # None \/ msgs'[Key(w)][m] # None
    BY <1>2, <1>7, <2>1 DEF File
  <2>4. Order(JobOf(w))' = Order(JobOf(w)) /\ account'[JobOf(w)'] = account[JobOf(w)]
    BY <1>2 DEF Order, JobOf
  <2>5. \A c : FileText(JobOf(w), c)' = FileText(JobOf(w), c) BY <1>2 DEF FileText, JobOf
  <2>6. Key(w) = <<Order(JobOf(w))[n], account[JobOf(w)]>> BY <1>3, <1>11
  <2>7. PICK k : k = Key(w) OBVIOUS
  <2>8. k = <<Order(JobOf(w))'[n], account'[JobOf(w)']>> /\ k[1] = Order(JobOf(w))'[n]
    BY <2>4, <2>6, <2>7
  <2>9. Claimed(w, k)' BY <1>2, <2>2, <2>7 DEF Claimed
  <2>10. \A m \in MsgIds : FileText(JobOf(w), k[1])'[m] # None =>
           tx'[w].write[k][m] # None \/ msgs'[k][m] # None
    BY <2>3, <2>5, <2>7
  <2>11. QED BY <2>8, <2>9, <2>10 DEF Written
<1>13. \A i \in 1..(tx'[w].next - 1) : i \in 1..(tx[w].next - 1) \/ Written(w, i)'
  BY <1>5, <1>11, <1>12, NextIndex
<1>14. QED BY <1>1, <1>2, <1>5, <1>10, <1>13, LoopStep

\* What an embed task reads was imported.
LEMMA ReadMessagesData ==
  ASSUME Inv, DataInv, NEW w \in Workers, ReadMessages(w)
  PROVE  SessionData(w)'
<1> USE DEF ReadMessages, To, storeVars, brokerVars
<1>1. pc \in [Workers -> WorkerStates] /\ tx \in [Workers -> Session]
  BY DEF Inv, TypeOK, PoolTypeOK
<1>2. /\ UNCHANGED <<jobs, account, convs, msgs, task>> /\ pc'[w] = "skip"
      /\ \A k \in ConvKeys, m \in MsgIds : tx'[w].pend[k][m] \in {None, msgs[k][m]}
  BY <1>1 DEF Session
<1>3. ASSUME NEW k \in ConvKeys, NEW m \in MsgIds, tx'[w].pend[k][m] # None
      PROVE  WasImported(k, m, tx'[w].pend[k][m])
  BY <1>2, <1>3 DEF DataInv, OnlyCompletedIsVisible, WasImported, Completed
<1>4. \A k \in ConvKeys, m \in MsgIds :
        tx'[w].pend[k][m] # None => WasImported(k, m, tx[w].pend[k][m])'
  BY <1>2, <1>3 DEF WasImported, Completed, FileText
<1>5. QED BY <1>2, <1>4 DEF SessionData, HoldsJob

LEMMA SkipExistingData ==
  ASSUME Inv, NEW w \in Workers, SkipExisting(w), SessionData(w)
  PROVE  SessionData(w)'
<1> USE DEF SkipExisting, To, storeVars, brokerVars
<1>1. pc \in [Workers -> WorkerStates] /\ tx \in [Workers -> Session]
  BY DEF Inv, TypeOK, PoolTypeOK
<1>2. /\ UNCHANGED <<jobs, account, convs, msgs, task>> /\ pc'[w] = "embed"
      /\ \A k \in ConvKeys, m \in MsgIds : tx'[w].pend[k][m] \in {None, tx[w].pend[k][m]}
  BY <1>1 DEF Session
<1>3. ASSUME NEW k \in ConvKeys, NEW m \in MsgIds, tx'[w].pend[k][m] # None
      PROVE  WasImported(k, m, tx'[w].pend[k][m])
  BY <1>2, <1>3 DEF SessionData
<1>4. \A k \in ConvKeys, m \in MsgIds :
        tx'[w].pend[k][m] # None => WasImported(k, m, tx[w].pend[k][m])'
  BY <1>2, <1>3 DEF WasImported, Completed, FileText
<1>5. QED BY <1>2, <1>4 DEF SessionData, HoldsJob

(***************************************************************************)
(* What the commits leave behind.                                          *)
(***************************************************************************)
\* The job is completed, and the tables have what its session wrote.
LEMMA ImportCommitTables ==
  ASSUME Inv, FlowInv, DataInv, Grows, NEW w \in Workers, ImportCommit(w)
  PROVE  OnlyCompletedIsVisible' /\ CompletedMeansImported' /\ CompletedIsReadable'
<1> USE DEF ImportCommit
<1>1. /\ jobs \in [Requests -> JobRow \cup {None}] /\ pc[w] \in ImportStates
      /\ HoldsJob(w) /\ SessionData(w)
      /\ convs \in [ConvKeys -> ConvRow \cup {None}]
      /\ tx[w].moved \subseteq ConvKeys
  BY DEF Inv, TypeOK, StoreTypeOK, ImportStates, HoldsJob, DataInv, PoolTypeOK, Session
<1>2. PICK j \in Requests : j = JobOf(w) BY <1>1, ImportJobFacts
<1>3. jobs[j] \in JobRow /\ jobs[j] # None BY <1>1, <1>2, ImportJobFacts
<1>4. /\ jobs'[j].file = jobs[j].file /\ jobs'[j].user = jobs[j].user /\ jobs'[j] # None
      /\ jobs'[j].status = "completed"
      /\ \A r \in Requests \ {j} : jobs'[r] = jobs[r]
  BY <1>1, <1>2, <1>3 DEF JobRow, Grows
<1>5. /\ Completed(j)' /\ account'[j] = account[j] BY <1>4 DEF Completed, brokerVars
<1>6. \A c : FileText(j, c)' = FileText(j, c) /\ (HasMessages(j, c)' <=> HasMessages(j, c))
  BY <1>4 DEF FileText, HasMessages
<1>7. /\ \A k \in ConvKeys \ tx[w].moved : convs'[k] = convs[k]
      /\ \A k \in tx[w].moved : convs'[k].job = j /\ convs'[k] # None
  <2>1. \A k \in ConvKeys \ tx[w].moved : convs'[k] = convs[k] BY DEF ConvsAfter
  <2>2. ASSUME NEW k \in tx[w].moved
        PROVE  convs'[k].job = j /\ convs'[k] # None
    <3>1. convs'[k] = [owner |-> IF convs[k] = None THEN jobs[j].user ELSE convs[k].owner,
                       job |-> j]
      BY <1>1, <1>2 DEF ConvsAfter
    <3>2. convs[k] # None => convs[k].owner \in Users BY <1>1 DEF ConvRow
    <3>3. convs'[k] \in [owner : Users, job : Requests] BY <1>3, <3>1, <3>2 DEF JobRow
    <3>4. QED BY <3>1, <3>3, NoneAssumption
  <2>3. QED BY <2>1, <2>2
<1>8. \A k \in ConvKeys, m \in MsgIds :
        msgs'[k][m] = IF tx[w].write[k][m] # None THEN tx[w].write[k][m] ELSE msgs[k][m]
  BY DEF MsgsAfter
<1>9. \A k \in ConvKeys : Claimed(w, k) => convs'[k] # None
  BY <1>7 DEF Claimed
<1>10. OnlyCompletedIsVisible'
  <2>1. SUFFICES ASSUME NEW k \in ConvKeys
                 PROVE  /\ convs'[k] # None => (Completed(convs[k].job))'
                        /\ \A m \in MsgIds :
                             msgs'[k][m] # None =>
                               convs'[k] # None /\ WasImported(k, m, msgs[k][m])'
    BY DEF OnlyCompletedIsVisible, Completed, WasImported
  <2>2. convs'[k] # None => (Completed(convs[k].job))'
    <3>1. CASE k \in tx[w].moved BY <1>4, <1>7, <3>1 DEF Completed
    <3>2. CASE k \notin tx[w].moved /\ convs[k] # None
      <4>1. convs[k].job \in Requests /\ Completed(convs[k].job)
        BY <1>1, <3>2 DEF DataInv, OnlyCompletedIsVisible, Completed, ConvRow
      <4>2. PICK r \in Requests : r = convs[k].job BY <4>1
      <4>3. Completed(r)' BY <4>1, <4>2, CompletedKeeps
      <4>4. convs'[k].job = r BY <1>7, <3>2, <4>2
      <4>5. QED BY <4>3, <4>4 DEF Completed
    <3>3. QED BY <1>7, <3>1, <3>2
  <2>3. ASSUME NEW m \in MsgIds, msgs'[k][m] # None
        PROVE  convs'[k] # None /\ WasImported(k, m, msgs[k][m])'
    <3>1. CASE tx[w].write[k][m] # None
      <4>1. /\ k[2] = account[j] /\ msgs'[k][m] = FileText(j, k[1])[m] /\ Claimed(w, k)
        BY <1>1, <1>2, <1>8, <3>1 DEF SessionData, InFile
      <4>2. k[2] = account'[j] /\ msgs'[k][m] = FileText(j, k[1])'[m]
        BY <1>5, <1>6, <4>1
      <4>3. QED BY <1>5, <1>9, <4>1, <4>2 DEF WasImported
    <3>2. CASE tx[w].write[k][m] = None
      <4>1. msgs'[k][m] = msgs[k][m] BY <1>8, <3>2
      <4>2. convs[k] # None /\ WasImported(k, m, msgs[k][m])
        BY <2>3, <4>1 DEF DataInv, OnlyCompletedIsVisible, WasImported, Completed
      <4>3. PICK t : t = msgs[k][m] OBVIOUS
      <4>4. WasImported(k, m, t)' BY <4>2, <4>3, ImportedKeeps
      <4>5. QED BY <4>1, <4>2, <4>3, <4>4 DEF WasImported, Grows
    <3>3. QED BY <3>1, <3>2
  <2>4. QED BY <2>2, <2>3
<1>11. CompletedMeansImported'
  <2>1. SUFFICES ASSUME NEW r \in Requests, Completed(r)',
                        NEW i \in DOMAIN Order(r)', HasMessages(r, Order(r)[i])'
                 PROVE  /\ convs'[<<Order(r)'[i], account'[r]>>] # None
                        /\ \A m \in MsgIds :
                             FileText(r, Order(r)[i])'[m] # None =>
                               msgs'[<<Order(r)'[i], account'[r]>>][m] # None
    BY DEF CompletedMeansImported, Completed, HasMessages, FileText, Order
  <2>2. jobs'[r].file = jobs[r].file /\ account'[r] = account[r]
    BY <1>4 DEF brokerVars
  <2>3. Order(r)' = Order(r) /\ \A c : FileText(r, c)' = FileText(r, c)
    BY <2>2 DEF Order, FileText
  <2>4. PICK c : c = Order(r)[i] OBVIOUS
  <2>5. HasMessages(r, c) BY <2>1, <2>2, <2>3, <2>4 DEF HasMessages, FileText, Order
  <2>6. PICK k : k = <<c, account[r]>> OBVIOUS
  <2>7. /\ convs'[k] # None
        /\ \A m \in MsgIds : FileText(r, c)[m] # None => msgs'[k][m] # None
    <3>1. CASE r = j
      <4>1. i \in 1..(tx[w].next - 1)
        <5>1. Order(r) \in Seq(ConvIds) BY <1>1, <1>2, <3>1, LoopFacts DEF ParsedFile, Order
        <5>2. i \in 1..Len(Order(r)) BY <2>1, <2>3, <5>1
        <5>3. QED BY <1>1, <1>2, <3>1, <5>2, LoopFacts
      <4>2. Written(w, i) /\ k \in ConvKeys
        BY <1>1, <1>2, <2>4, <2>6, <3>1, <4>1, OrderFacts DEF SessionData
      <4>3. /\ Claimed(w, k)
            /\ \A m \in MsgIds : FileText(r, c)[m] # None =>
                 tx[w].write[k][m] # None \/ msgs[k][m] # None
        BY <1>2, <2>4, <2>5, <2>6, <3>1, <4>2 DEF Written
      <4>4. QED BY <1>8, <1>9, <4>2, <4>3
    <3>2. CASE r # j
      <4>1. Completed(r) BY <1>4, <2>1, <3>2 DEF Completed
      <4>2. i \in DOMAIN Order(r) BY <2>1, <2>3
      <4>3. /\ convs[k] # None
            /\ \A m \in MsgIds : FileText(r, c)[m] # None => msgs[k][m] # None
        BY <2>4, <2>5, <2>6, <4>1, <4>2 DEF DataInv, CompletedMeansImported, Completed
      <4>4. k \in ConvKeys
        <5>1. SentInv /\ Sent(ImportMsg(r)) /\ ImportMsg(r) \in Messages
          BY <4>1, MessageFacts DEF Inv, FlowInv, RequestFlow
        <5>2. account[r] \in Accounts BY <5>1, MessageFacts DEF SentInv, Sent
        <5>3. jobs[r].file \in Files BY <1>1, <4>1 DEF Completed, JobRow
        <5>4. Order(r) \in Seq(ConvIds)
          BY <4>1, <5>3, ParsedAssumption DEF DataInv, CompletedIsReadable, ParsedFile, Order
        <5>5. QED BY <2>4, <2>6, <4>2, <5>2, <5>4 DEF ConvKeys
      <4>5. QED BY <4>3, <4>4 DEF Grows
    <3>3. QED BY <3>1, <3>2
  <2>8. QED BY <2>2, <2>3, <2>4, <2>6, <2>7
<1>12. CompletedIsReadable'
  <2>1. Parsed[jobs'[j].file] # Unreadable BY <1>1, <1>2, <1>4 DEF SessionData
  <2>2. QED BY <1>4, <2>1 DEF DataInv, CompletedIsReadable, Completed
<1>13. QED BY <1>10, <1>11, <1>12

\* The records get the texts the session was going to embed.
LEMMA EmbedCommitRecords ==
  ASSUME Inv, FlowInv, DataInv, Grows, NEW w \in Workers, EmbedCommit(w)
  PROVE  EmbeddedTextWasImported'
<1>1. SUFFICES ASSUME NEW k \in ConvKeys, NEW m \in MsgIds, NEW i \in DOMAIN embs'[k][m]
               PROVE  WasImported(k, m, embs[k][m][i])'
  BY DEF EmbeddedTextWasImported, WasImported, Completed
<1>2. embs[k][m] \in Seq(Texts) /\ tx[w].pend \in Contents
  BY DEF Inv, TypeOK, StoreTypeOK, Embeddings, PoolTypeOK, Session
<1>3. embs'[k][m] = IF tx[w].pend[k][m] = None THEN embs[k][m]
                    ELSE Append(embs[k][m], tx[w].pend[k][m])
  BY DEF EmbedCommit
<1>4. SessionData(w) BY DEF DataInv
<1>5. PICK t : t = embs'[k][m][i] OBVIOUS
<1>6. WasImported(k, m, t)
  <2>1. CASE i \in DOMAIN embs[k][m] /\ t = embs[k][m][i]
    BY <2>1 DEF DataInv, EmbeddedTextWasImported, WasImported, Completed
  <2>2. CASE tx[w].pend[k][m] # None /\ t = tx[w].pend[k][m]
    BY <1>4, <2>2 DEF SessionData
  <2>3. tx[w].pend[k][m] \in Texts \cup {None} BY <1>2 DEF Contents
  <2>4. \/ i \in DOMAIN embs[k][m] /\ t = embs[k][m][i]
        \/ tx[w].pend[k][m] # None /\ t = tx[w].pend[k][m]
    BY <1>1, <1>2, <1>3, <1>5, <2>3
  <2>5. QED BY <2>1, <2>2, <2>4
<1>7. WasImported(k, m, t)' BY <1>6, ImportedKeeps
<1>8. QED BY <1>5, <1>7 DEF WasImported

\* The steps of a worker that leave its session outside the loop.
LEMMA OutsideData ==
  ASSUME Inv, Inv', NEW w \in Workers,
         \/ DeliverTask(w) \/ Crash(w) \/ StoreSuccess(w) \/ AckTask(w)
         \/ BeginImport(w) \/ ClaimFails(w) \/ DeadlockVictim(w) \/ ImportCommit(w)
         \/ PublishEmbed(w) \/ ReadConversations(w) \/ EmbedFails(w) \/ EmbedCommit(w)
  PROVE  SessionData(w)'
<1>1. pc \in [Workers -> WorkerStates] BY DEF Inv, TypeOK, PoolTypeOK
<1>2. pc'[w] \notin {"select", "claim", "messages", "skip", "embed"}
  BY <1>1 DEF DeliverTask, Deliver, Crash, KillWorker, LoseChild, StoreSuccess, AckTask,
    BeginImport, ClaimFails, DeadlockVictim, ImportCommit, PublishEmbed, ReadConversations,
    EmbedFails, EmbedCommit, Raise, To
<1>3. QED BY <1>2, OutsideLoop

LEMMA WorkerData ==
  ASSUME Inv, Inv', DataInv, NEW w \in Workers, DeliverTask(w) \/ TaskStep(w) \/ Crash(w)
  PROVE  SessionData(w)'
<1>1. SessionData(w) BY DEF DataInv
<1>2. CASE ImportStep(w)
  BY <1>1, <1>2, OutsideData, LockJobData, SkipConversationData, SelectConversationData,
    ClaimConversationData, WriteMessagesData DEF ImportStep
<1>3. CASE EmbedStep(w)
  BY <1>1, <1>3, OutsideData, ReadMessagesData, SkipExistingData DEF EmbedStep
<1>4. QED BY <1>2, <1>3, OutsideData DEF TaskStep

\* What only a commit writes.
LEMMA OnlyCommitsWrite ==
  ASSUME Inv, NEW w \in Workers, DeliverTask(w) \/ TaskStep(w) \/ Crash(w)
  PROVE  /\ \/ ImportCommit(w)
            \/ UNCHANGED <<convs, msgs>> /\ \A r \in Requests : Completed(r)' => Completed(r)
         /\ EmbedCommit(w) \/ UNCHANGED embs
<1> USE DEF storeVars, Completed
<1>1. CASE DeliverTask(w) \/ Crash(w) \/ StoreSuccess(w) \/ AckTask(w)
  BY <1>1 DEF DeliverTask, Deliver, Crash, KillWorker, LoseChild, StoreSuccess, AckTask
<1>2. CASE ImportStep(w)
  BY <1>2 DEF ImportStep, BeginImport, LockJob, SkipConversation, SelectConversation,
    ClaimConversation, ClaimFails, WriteMessages, DeadlockVictim, ImportCommit, PublishEmbed, Raise
<1>3. CASE EmbedStep(w)
  BY <1>3 DEF EmbedStep, ReadConversations, ReadMessages, SkipExisting, EmbedFails, EmbedCommit,
    Raise
<1>4. QED BY <1>1, <1>2, <1>3 DEF TaskStep

\* Only one worker moves.
LEMMA OneMoves ==
  ASSUME Inv, NEW w \in Workers, DeliverTask(w) \/ TaskStep(w) \/ Crash(w), NEW v \in Workers \ {w}
  PROVE  pc'[v] = pc[v] /\ task'[v] = task[v] /\ tx'[v] = tx[v]
<1>1. /\ pc \in [Workers -> WorkerStates] /\ task \in [Workers -> Messages \cup {None}]
      /\ tx \in [Workers -> Session]
  BY DEF Inv, TypeOK, PoolTypeOK
<1>2. CASE DeliverTask(w) \/ Crash(w) \/ StoreSuccess(w) \/ AckTask(w)
  BY <1>1, <1>2 DEF DeliverTask, Deliver, Crash, KillWorker, LoseChild, StoreSuccess, AckTask, To
<1>3. CASE ImportStep(w)
  BY <1>1, <1>3 DEF ImportStep, BeginImport, LockJob, SkipConversation, SelectConversation,
    ClaimConversation, ClaimFails, WriteMessages, DeadlockVictim, ImportCommit, PublishEmbed, Raise,
    To
<1>4. CASE EmbedStep(w)
  BY <1>1, <1>4 DEF EmbedStep, ReadConversations, ReadMessages, SkipExisting, EmbedFails,
    EmbedCommit, Raise, To
<1>5. QED BY <1>2, <1>3, <1>4 DEF TaskStep

LEMMA WorkerStepData ==
  ASSUME Inv, Inv', FlowInv, DataInv, Grows, NEW w \in Workers,
         DeliverTask(w) \/ TaskStep(w) \/ Crash(w)
  PROVE  DataInv'
<1>1. \A v \in Workers : SessionData(v)'
  <2>1. ASSUME NEW v \in Workers \ {w} PROVE SessionData(v)'
    BY OneMoves, SessionFrame DEF DataInv
  <2>2. QED BY <2>1, WorkerData
<1>2. OnlyCompletedIsVisible' /\ CompletedMeansImported' /\ CompletedIsReadable'
  BY OnlyCommitsWrite, TablesFrame, ImportCommitTables
<1>3. EmbeddedTextWasImported' BY OnlyCommitsWrite, RecordsFrame, EmbedCommitRecords
<1>4. QED BY <1>1, <1>2, <1>3 DEF DataInv

\* Requests, restored messages and the environment write nothing imported.
LEMMA OutsideStepData ==
  ASSUME Inv, FlowInv, DataInv, Grows, UNCHANGED <<convs, msgs, embs, poolVars>>,
         \A r \in Requests : Completed(r)' => Completed(r)
  PROVE  DataInv'
<1>1. \A v \in Workers : SessionData(v)' BY SessionFrame DEF DataInv, poolVars
<1>2. QED BY <1>1, TablesFrame, RecordsFrame DEF DataInv

LEMMA UploadData ==
  ASSUME Inv, NEW r \in Requests, Upload(r)
  PROVE  /\ UNCHANGED <<convs, msgs, embs, poolVars>>
         /\ \A s \in Requests : Completed(s)' => Completed(s)
<1>1. jobs \in [Requests -> JobRow \cup {None}] BY DEF Inv, TypeOK, StoreTypeOK
<1>2. UNCHANGED <<convs, msgs, embs, poolVars>>
  BY DEF Upload, UploadStep, StartUpload, InsertJob, SaveUpload, Enqueue, RequestDies, storeVars
<1>3. ASSUME NEW s \in Requests, Completed(s)' PROVE Completed(s)
  BY <1>1, <1>3 DEF Upload, UploadStep, StartUpload, InsertJob, SaveUpload, Enqueue, RequestDies,
    storeVars, Completed
<1>4. QED BY <1>2, <1>3

LEMMA NextData == Inv /\ FlowInv /\ DataInv /\ [Next]_vars => DataInv'
<1> SUFFICES ASSUME Inv, FlowInv, DataInv, [Next]_vars PROVE DataInv' OBVIOUS
<1>1. Inv' /\ Grows BY NextInv, NextGrows
<1>2. ASSUME NEW r \in Requests, Upload(r) PROVE DataInv'
  BY <1>1, <1>2, UploadData, OutsideStepData
<1>3. ASSUME NEW r \in Requests, Reembed(r) PROVE DataInv'
  BY <1>1, <1>3, OutsideStepData DEF Reembed, storeVars, Completed
<1>4. ASSUME NEW b \in Messages, Restore(b) \/ Expire(b) PROVE DataInv'
  BY <1>1, <1>4, OutsideStepData DEF Restore, RestoreOrphan, RestoreRunning, Expire, ExpireResult,
    storeVars, Completed
<1>5. ASSUME NEW u \in Users, MoveUser(u) PROVE DataInv'
  BY <1>1, <1>5, OutsideStepData DEF MoveUser, Completed
<1>6. CASE UNCHANGED vars
  BY <1>1, <1>6, OutsideStepData DEF vars, storeVars, Completed
<1>7. QED BY <1>1, <1>2, <1>3, <1>4, <1>5, <1>6, WorkerStepData DEF Next, Idle

LEMMA InitData == Init => DataInv
<1> SUFFICES ASSUME Init PROVE DataInv OBVIOUS
<1>1. /\ \A r \in Requests : ~Completed(r)
      /\ \A k \in ConvKeys : convs[k] = None
      /\ \A k \in ConvKeys, m \in MsgIds : msgs[k][m] = None /\ embs[k][m] = <<>>
  BY DEF Init, StoreInit, Completed, NoContents
<1>2. ASSUME NEW w \in Workers PROVE SessionData(w)
  <2>1. pc[w] = "idle" /\ tx[w] = NoTx BY DEF Init, PoolInit
  <2>2. \A k \in ConvKeys, m \in MsgIds : tx[w].pend[k][m] = None
    BY <2>1 DEF NoTx, NoContents
  <2>3. QED BY <2>1, <2>2 DEF SessionData, HoldsJob
<1>3. QED
  BY <1>1, <1>2 DEF DataInv, OnlyCompletedIsVisible, CompletedMeansImported, CompletedIsReadable,
    EmbeddedTextWasImported, Completed

LEMMA SafetyHolds == Spec => []SafetyInv
<1>1. Init => SafetyInv BY InitInv, InitFlow, InitData DEF SafetyInv
<1>2. SafetyInv /\ [Next]_vars => SafetyInv' BY NextInv, NextFlow, NextData DEF SafetyInv
<1>3. QED BY <1>1, <1>2, PTL DEF Spec

\* A conversation or message is there only when its import is completed, and has
\* the text of a completed import: what a session flushed is not seen outside it.
THEOREM NothingHalfImported == Spec => []OnlyCompletedIsVisible
<1>1. SafetyInv => OnlyCompletedIsVisible BY DEF SafetyInv, DataInv
<1>2. QED BY <1>1, SafetyHolds, PTL

\* A completed job has left every message of its file, whichever tasks ran when.
THEOREM ImportsAreWhole == Spec => []CompletedMeansImported
<1>1. SafetyInv => CompletedMeansImported BY DEF SafetyInv, DataInv
<1>2. QED BY <1>1, SafetyHolds, PTL

\* No record embeds a text that no completed import had.
THEOREM RecordsAreOfImports == Spec => []EmbeddedTextWasImported
<1>1. SafetyInv => EmbeddedTextWasImported BY DEF SafetyInv, DataInv
<1>2. QED BY <1>1, SafetyHolds, PTL

\* A step adds at most one record under a message.
LEMMA RecordsGrow ==
  ASSUME Inv, [Next]_vars, NEW k \in ConvKeys, NEW m \in MsgIds
  PROVE  Len(embs'[k][m]) \in {Len(embs[k][m]), Len(embs[k][m]) + 1}
<1>1. embs[k][m] \in Seq(Texts) BY DEF Inv, TypeOK, StoreTypeOK, Embeddings
<1>2. ASSUME NEW w \in Workers, EmbedCommit(w)
      PROVE  Len(embs'[k][m]) \in {Len(embs[k][m]), Len(embs[k][m]) + 1}
  <2>1. tx[w].pend[k][m] \in Texts \cup {None}
    BY DEF Inv, TypeOK, PoolTypeOK, Session, Contents
  <2>2. embs'[k][m] = IF tx[w].pend[k][m] = None THEN embs[k][m]
                      ELSE Append(embs[k][m], tx[w].pend[k][m])
    BY <1>2 DEF EmbedCommit
  <2>3. QED BY <1>1, <2>1, <2>2
<1>3. (\E w \in Workers : EmbedCommit(w)) \/ UNCHANGED embs
  BY OnlyCommitsWrite, UploadData DEF Next, Idle, vars, storeVars, Reembed, Restore, RestoreOrphan,
    RestoreRunning, Expire, ExpireResult, MoveUser
<1>4. QED BY <1>2, <1>3

\* Rows, statuses, owners and records are never taken back.
THEOREM HistoryIsKept == Spec => NothingIsTakenBack
<1> DEFINE Forward ==
      /\ \A r \in Requests :
           jobs[r] # None =>
             /\ jobs'[r] # None /\ jobs'[r].user = jobs[r].user /\ jobs'[r].file = jobs[r].file
             /\ jobs[r].status = "completed" => jobs'[r].status = "completed"
      /\ \A k \in ConvKeys :
           /\ convs[k] # None => convs'[k] # None /\ convs'[k].owner = convs[k].owner
           /\ \A m \in MsgIds :
                /\ msgs[k][m] # None => msgs'[k][m] # None
                /\ Len(embs'[k][m]) \in {Len(embs[k][m]), Len(embs[k][m]) + 1}
<1>1. Inv /\ [Next]_vars => [Forward]_vars
  <2>1. SUFFICES ASSUME Inv, [Next]_vars PROVE Forward OBVIOUS
  <2>2. Grows BY <2>1, NextGrows
  <2>3. QED BY <2>1, <2>2, RecordsGrow DEF Grows
<1>2. QED BY <1>1, InvHolds, PTL DEF Spec, NothingIsTakenBack

(***************************************************************************)
(* How often a message is embedded.                                        *)
(***************************************************************************)
\* The workers that will add a record under a message.
Awaiting(k, m) == PendingFor(k, m) \ {w \in Workers : pc[w] = "skip"}

\* Once a message has a record, no worker begins to wait with it.
LEMMA AwaitingShrinks ==
  ASSUME Inv, Inv', NEW w \in Workers, DeliverTask(w) \/ TaskStep(w) \/ Crash(w),
         NEW k \in ConvKeys, NEW m \in MsgIds, embs[k][m] # <<>> \/ EmbedCommit(w)
  PROVE  /\ Awaiting(k, m)' \subseteq Awaiting(k, m)
         /\ EmbedCommit(w) => w \notin Awaiting(k, m)'
<1>1. pc \in [Workers -> WorkerStates] /\ tx \in [Workers -> Session]
  BY DEF Inv, TypeOK, PoolTypeOK
<1>2. tx'[w].pend # NoContents => pc'[w] \in {"skip", "embed"}
  BY DEF Inv, SessionInv, SessionOK
<1>3. tx'[w].pend[k][m] # None => pc'[w] \in {"skip", "embed"}
  BY <1>2 DEF NoContents
<1>4. pc'[w] = "embed" => SkipExisting(w)
  <2>1. CASE DeliverTask(w) \/ Crash(w) \/ StoreSuccess(w) \/ AckTask(w)
    BY <1>1, <2>1 DEF DeliverTask, Deliver, Crash, KillWorker, LoseChild, StoreSuccess, AckTask, To
  <2>2. CASE ImportStep(w)
    BY <1>1, <2>2 DEF ImportStep, BeginImport, LockJob, SkipConversation, SelectConversation,
      ClaimConversation, ClaimFails, WriteMessages, DeadlockVictim, ImportCommit, PublishEmbed,
      MoreConversations, Raise, To
  <2>3. CASE EmbedStep(w)
    BY <1>1, <2>3 DEF EmbedStep, ReadConversations, ReadMessages, EmbedFails, EmbedCommit, Raise, To
  <2>4. QED BY <2>1, <2>2, <2>3 DEF TaskStep
<1>5. SkipExisting(w) => (tx'[w].pend[k][m] # None => embs[k][m] = <<>>) /\ ~EmbedCommit(w)
  BY <1>1 DEF SkipExisting, EmbedCommit, Session
<1>6. ~(tx'[w].pend[k][m] # None /\ pc'[w] # "skip") BY <1>3, <1>4, <1>5
<1>7. w \notin Awaiting(k, m)' BY <1>6 DEF Awaiting, PendingFor
<1>8. \A v \in Workers \ {w} : v \in Awaiting(k, m)' => v \in Awaiting(k, m)
  BY OneMoves DEF Awaiting, PendingFor
<1>9. Awaiting(k, m)' \subseteq Workers BY DEF Awaiting, PendingFor
<1>10. QED BY <1>7, <1>8, <1>9

LEMMA AwaitingFinite ==
  ASSUME NEW k, NEW m
  PROVE  /\ IsFiniteSet(Awaiting(k, m)) /\ Cardinality(Awaiting(k, m)) \in Nat
         /\ Cardinality(Workers) \in Nat /\ Awaiting(k, m) \subseteq Workers
<1>1. Awaiting(k, m) \subseteq Workers BY DEF Awaiting, PendingFor
<1>2. QED BY <1>1, WorkerAssumption, FS_Subset, FS_CardinalityType

\* A step that adds no record.
LEMMA SameRecords ==
  ASSUME NEW k \in ConvKeys, NEW m \in MsgIds, embs'[k][m] = embs[k][m],
         Awaiting(k, m)' \subseteq Awaiting(k, m), Len(embs[k][m]) \in Nat,
         Len(embs[k][m]) + Cardinality(Awaiting(k, m)) <= Cardinality(Workers)
  PROVE  (Len(embs[k][m]) + Cardinality(Awaiting(k, m)) <= Cardinality(Workers))'
<1>1. PICK A, B : A = Awaiting(k, m) /\ B = Awaiting(k, m)' OBVIOUS
<1>2. IsFiniteSet(A) /\ Cardinality(A) \in Nat /\ Cardinality(Workers) \in Nat
  BY <1>1, AwaitingFinite
<1>3. Cardinality(B) \in Nat /\ Cardinality(B) <= Cardinality(A)
  BY <1>1, <1>2, FS_Subset, FS_CardinalityType
<1>4. Len(embs[k][m]) + Cardinality(B) <= Cardinality(Workers)
  BY <1>1, <1>2, <1>3
<1>5. QED BY <1>1, <1>4

\* A commit takes its worker out of those that wait.
LEMMA OneMoreRecord ==
  ASSUME NEW k \in ConvKeys, NEW m \in MsgIds, NEW w \in Workers,
         Len(embs[k][m]) \in Nat, Len(embs'[k][m]) = Len(embs[k][m]) + 1,
         w \in Awaiting(k, m), Awaiting(k, m)' \subseteq Awaiting(k, m), w \notin Awaiting(k, m)',
         Len(embs[k][m]) > 0 =>
           Len(embs[k][m]) + Cardinality(Awaiting(k, m)) <= Cardinality(Workers)
  PROVE  (Len(embs[k][m]) + Cardinality(Awaiting(k, m)) <= Cardinality(Workers))'
<1>1. PICK A, B : A = Awaiting(k, m) /\ B = Awaiting(k, m)' OBVIOUS
<1>2. /\ IsFiniteSet(A) /\ Cardinality(A) \in Nat /\ Cardinality(Workers) \in Nat
      /\ A \subseteq Workers
  BY <1>1, AwaitingFinite
<1>3. IsFiniteSet(A \ {w}) /\ Cardinality(A \ {w}) = Cardinality(A) - 1
  BY <1>1, <1>2, FS_RemoveElement
<1>4. B \subseteq A \ {w} BY <1>1
<1>5. Cardinality(B) \in Nat /\ Cardinality(B) <= Cardinality(A) - 1
  BY <1>2, <1>3, <1>4, FS_Subset, FS_CardinalityType
<1>6. Cardinality(A) <= Cardinality(Workers) BY <1>2, WorkerAssumption, FS_Subset
<1>7. Len(embs[k][m]) + 1 + Cardinality(B) <= Cardinality(Workers)
  BY <1>1, <1>2, <1>5, <1>6
<1>8. QED BY <1>1, <1>7

LEMMA NextDuplicates ==
  Inv /\ Inv' /\ DuplicatesBoundedByWorkers /\ [Next]_vars => DuplicatesBoundedByWorkers'
<1> SUFFICES ASSUME Inv, Inv', DuplicatesBoundedByWorkers, [Next]_vars,
                    NEW k \in ConvKeys, NEW m \in MsgIds, Len(embs'[k][m]) > 0
             PROVE  (Len(embs[k][m]) + Cardinality(Awaiting(k, m)) <= Cardinality(Workers))'
  BY DEF DuplicatesBoundedByWorkers, Awaiting
<1>1. embs[k][m] \in Seq(Texts) /\ Len(embs[k][m]) \in Nat
  BY DEF Inv, TypeOK, StoreTypeOK, Embeddings
<1>2. Len(embs[k][m]) > 0 =>
        Len(embs[k][m]) + Cardinality(Awaiting(k, m)) <= Cardinality(Workers)
  BY DEF DuplicatesBoundedByWorkers, Awaiting
<1>3. ASSUME NEW w \in Workers, DeliverTask(w) \/ TaskStep(w) \/ Crash(w)
      PROVE  (Len(embs[k][m]) + Cardinality(Awaiting(k, m)) <= Cardinality(Workers))'
  <2>1. CASE EmbedCommit(w) /\ tx[w].pend[k][m] # None
    <3>1. tx[w].pend[k][m] \in Texts
      BY <2>1 DEF Inv, TypeOK, PoolTypeOK, Session, Contents
    <3>2. embs'[k][m] = Append(embs[k][m], tx[w].pend[k][m]) BY <2>1 DEF EmbedCommit
    <3>3. Len(embs'[k][m]) = Len(embs[k][m]) + 1 BY <1>1, <3>1, <3>2
    <3>4. w \in Awaiting(k, m) BY <2>1 DEF Awaiting, PendingFor, EmbedCommit
    <3>5. Awaiting(k, m)' \subseteq Awaiting(k, m) /\ w \notin Awaiting(k, m)'
      BY <1>3, <2>1, AwaitingShrinks
    <3>6. QED BY <1>1, <1>2, <3>3, <3>4, <3>5, OneMoreRecord
  <2>2. CASE ~(EmbedCommit(w) /\ tx[w].pend[k][m] # None)
    <3>1. embs'[k][m] = embs[k][m] BY <1>3, <2>2, OnlyCommitsWrite DEF EmbedCommit
    <3>2. embs[k][m] # <<>> BY <3>1
    <3>3. Len(embs[k][m]) > 0 BY <3>1
    <3>4. Awaiting(k, m)' \subseteq Awaiting(k, m) BY <1>3, <3>2, AwaitingShrinks
    <3>5. QED BY <1>1, <1>2, <3>1, <3>3, <3>4, SameRecords
  <2>3. QED BY <2>1, <2>2
<1>4. CASE UNCHANGED <<embs, poolVars>>
  <2>1. Awaiting(k, m)' = Awaiting(k, m) BY <1>4 DEF Awaiting, PendingFor, poolVars
  <2>2. QED BY <1>1, <1>2, <1>4, <2>1
<1>5. QED
  BY <1>3, <1>4, UploadData DEF Next, Idle, vars, storeVars, Reembed, Restore, RestoreOrphan,
    RestoreRunning, Expire, ExpireResult, MoveUser

\* However many tasks embed one job, a message has at most one record per worker.
THEOREM DuplicatesAreBounded == Spec => []DuplicatesBoundedByWorkers
<1>1. Init => DuplicatesBoundedByWorkers
  BY DEF Init, StoreInit, DuplicatesBoundedByWorkers
<1>2. Inv /\ Inv' /\ DuplicatesBoundedByWorkers /\ [Next]_vars => DuplicatesBoundedByWorkers'
  BY NextDuplicates
<1>3. QED BY <1>1, <1>2, InvHolds, PTL DEF Spec

(***************************************************************************)
(* What is stored will be searchable.                                      *)
(***************************************************************************)
\* Unless a running task timed out, each task has one worker, and its message is
\* unacked.
SoleInv ==
  timeouts = 0 =>
    \A w \in Workers :
      pc[w] # "idle" =>
        broker[task[w]] = "unacked" /\ \A v \in Workers \ {w} : task[v] # task[w]

\* What the SELECT found says whether the job was imported before, and only a job
\* that was writes messages of a conversation it does not claim: ones that exist.
SelectOK(w) ==
  /\ pc[w] = "claim" /\ tx[w].seen = "absent" => ~Completed(JobOf(w))
  /\ pc[w] \in {"claim", "messages"} /\ tx[w].seen = "mine" => Completed(JobOf(w))
  /\ pc[w] = "messages" /\ Key(w) \notin tx[w].moved => tx[w].seen = "mine"
  /\ \A k \in ConvKeys, m \in MsgIds :
       k \notin tx[w].moved /\ tx[w].write[k][m] # None => msgs[k][m] # None

SelectInv == \A w \in Workers : SelectOK(w)

\* An embed task that has not yet passed message m of conversation k.
WillEmbed(w, k, m) ==
  \/ pc[w] = "convs"
  \/ pc[w] = "read" /\ k \in tx[w].cids
  \/ pc[w] \in {"skip", "embed"} /\ tx[w].pend[k][m] # None

\* Who will see to it that message m of conversation k, of job j, is embedded.
Publishing(j) == \E w \in Workers : pc[w] = "publish" /\ task[w] = ImportMsg(j)

Waiting(b) == broker[b] = "queued" \/ (broker[b] = "unacked" /\ ~Running(b))

EmbedWaits(j) == \E t \in 1..MaxTag : Waiting(EmbedMsg(j, t))

EmbedRuns(j, k, m) ==
  \E t \in 1..MaxTag, w \in Workers : task[w] = EmbedMsg(j, t) /\ WillEmbed(w, k, m)

ImportReruns(j) ==
  /\ crashes.kills > 0
  /\ broker[ImportMsg(j)] \in {"queued", "unacked"}
  /\ \A w \in Workers : task[w] = ImportMsg(j) => pc[w] \notin {"store", "ack"}

Due(j, k, m) == Publishing(j) \/ EmbedWaits(j) \/ EmbedRuns(j, k, m) \/ ImportReruns(j)

DueInv ==
  Undisturbed =>
    \A k \in ConvKeys, m \in MsgIds :
      msgs[k][m] # None /\ embs[k][m] = <<>> => Due(convs[k].job, k, m)

IndexInv == SoleInv /\ SelectInv /\ DueInv

(***************************************************************************)
(* One worker per task.                                                    *)
(***************************************************************************)
\* A step that starts nothing and returns nothing to the queue.
LEMMA SoleFrame ==
  ASSUME Inv, SoleInv, UNCHANGED <<task, timeouts>>,
         \A w \in Workers : pc'[w] # "idle" => pc[w] # "idle",
         \A b \in Messages : broker[b] = "unacked" => broker'[b] = "unacked"
  PROVE  SoleInv'
<1>1. \A w \in Workers : pc[w] # "idle" => task[w] \in Messages BY DEF Inv, TypeOK, TaskOK
<1>2. QED BY <1>1 DEF SoleInv

\* A step that ends worker w's task.
LEMMA SoleEnd ==
  ASSUME Inv, SoleInv, NEW w \in Workers, UNCHANGED timeouts, pc'[w] = "idle",
         \A v \in Workers \ {w} : pc'[v] = pc[v] /\ task'[v] = task[v],
         task'[w] = None,
         \A b \in Messages : b # task[w] => broker'[b] = broker[b],
         pc[w] # "idle"
  PROVE  SoleInv'
<1> SUFFICES ASSUME timeouts' = 0, NEW v \in Workers, pc'[v] # "idle"
             PROVE  broker'[task'[v]] = "unacked" /\ \A x \in Workers \ {v} : task'[x] # task'[v]
  BY DEF SoleInv
<1>1. v # w /\ task'[v] = task[v] /\ pc[v] # "idle" OBVIOUS
<1>2. task[v] \in Messages BY <1>1 DEF Inv, TypeOK, TaskOK
<1>3. broker[task[v]] = "unacked" /\ \A x \in Workers \ {v} : task[x] # task[v]
  BY <1>1 DEF SoleInv
<1>4. QED BY <1>1, <1>2, <1>3, NoTaskAssumption

\* A message is delivered to one worker, whose task nobody else has.
LEMMA SoleDeliver ==
  ASSUME Inv, SoleInv, NEW w \in Workers, DeliverTask(w)
  PROVE  SoleInv'
<1>1. PICK b \in Messages : Deliver(w, b) BY DEF DeliverTask
<1> USE <1>1 DEF Deliver, To
<1>2. /\ pc \in [Workers -> WorkerStates] /\ task \in [Workers -> Messages \cup {None}]
      /\ broker \in [Messages -> MessageStates]
  BY DEF Inv, TypeOK, PoolTypeOK, BrokerTypeOK
<1> SUFFICES ASSUME timeouts = 0, NEW v \in Workers, pc'[v] # "idle"
             PROVE  broker'[task'[v]] = "unacked" /\ \A x \in Workers \ {v} : task'[x] # task'[v]
  BY DEF SoleInv
<1>3. \A x \in Workers \ {w} : task'[x] = task[x] /\ pc'[x] = pc[x] BY <1>2
<1>4. \A x \in Workers : task[x] # b
  <2>1. ASSUME NEW x \in Workers, task[x] = b PROVE FALSE
    <3>1. pc[x] # "idle" BY <2>1, NoTaskAssumption DEF Inv, TypeOK, TaskOK
    <3>2. QED BY <2>1, <3>1 DEF SoleInv
  <2>2. QED BY <2>1
<1>5. task'[w] = b /\ broker'[b] = "unacked" BY <1>2
<1>6. CASE v = w BY <1>3, <1>4, <1>5, <1>6
<1>7. CASE v # w
  <2>1. pc[v] # "idle" /\ task'[v] = task[v] BY <1>3, <1>7
  <2>2. task[v] \in Messages BY <2>1 DEF Inv, TypeOK, TaskOK
  <2>3. broker[task[v]] = "unacked" /\ \A x \in Workers \ {v} : task[x] # task[v]
    BY <2>1 DEF SoleInv
  <2>4. broker'[task[v]] = "unacked" BY <1>2, <1>4, <2>2, <2>3
  <2>5. QED BY <1>3, <1>4, <1>5, <2>1, <2>3, <2>4
<1>8. QED BY <1>6, <1>7

\* A task's steps start nothing; the last one clears the worker.
LEMMA SoleTaskStep ==
  ASSUME Inv, SoleInv, NEW w \in Workers, TaskStep(w)
  PROVE  SoleInv'
<1>1. /\ pc \in [Workers -> WorkerStates] /\ task \in [Workers -> Messages \cup {None}]
      /\ broker \in [Messages -> MessageStates]
  BY DEF Inv, TypeOK, PoolTypeOK, BrokerTypeOK
<1>2. CASE AckTask(w)
  <2> USE <1>2 DEF AckTask, Ack, To
  <2>1. \A v \in Workers \ {w} : pc'[v] = pc[v] /\ task'[v] = task[v] BY <1>1
  <2>2. \A b \in Messages : b # task[w] => broker'[b] = broker[b] BY <1>1
  <2>3. pc[w] # "idle" /\ pc'[w] = "idle" /\ task'[w] = None /\ timeouts' = timeouts
    BY <1>1
  <2>4. QED BY <2>1, <2>2, <2>3, SoleEnd
<1>3. CASE PublishEmbed(w)
  <2> USE <1>3 DEF PublishEmbed, Publish, To
  <2>1. \A v \in Workers : pc'[v] # "idle" => pc[v] # "idle" BY <1>1
  <2>2. \A b \in Messages : broker[b] = "unacked" => broker'[b] = "unacked" BY <1>1
  <2>3. QED BY <2>1, <2>2, SoleFrame
<1>4. CASE ImportStep(w) /\ ~PublishEmbed(w)
  <2>1. pc[w] # "idle"
    BY <1>4 DEF ImportStep, BeginImport, LockJob, SkipConversation, SelectConversation,
      MoreConversations, ClaimConversation, ClaimFails, WriteMessages, DeadlockVictim, Deadlocked,
      Blockers, ImportCommit
  <2>2. UNCHANGED <<task, timeouts, broker>> /\ \A v \in Workers \ {w} : pc'[v] = pc[v]
    BY <1>1, <1>4 DEF ImportStep, BeginImport, LockJob, SkipConversation, SelectConversation,
      MoreConversations, ClaimConversation, ClaimFails, WriteMessages, DeadlockVictim,
      ImportCommit, Raise, To, brokerVars
  <2>3. QED BY <2>1, <2>2, SoleFrame
<1>5. CASE EmbedStep(w) \/ StoreSuccess(w)
  <2>1. pc[w] # "idle"
    BY <1>5 DEF EmbedStep, ReadConversations, ReadMessages, SkipExisting, EmbedFails, EmbedCommit,
      StoreSuccess
  <2>2. UNCHANGED <<task, timeouts, broker>> /\ \A v \in Workers \ {w} : pc'[v] = pc[v]
    BY <1>1, <1>5 DEF EmbedStep, ReadConversations, ReadMessages, SkipExisting, EmbedFails,
      EmbedCommit, StoreSuccess, Raise, To, brokerVars
  <2>3. QED BY <2>1, <2>2, SoleFrame
<1>6. QED BY <1>2, <1>3, <1>4, <1>5 DEF TaskStep

\* A killed worker runs nothing, and neither does one that lost its child.
LEMMA SoleCrash ==
  ASSUME Inv, SoleInv, NEW w \in Workers, Crash(w)
  PROVE  SoleInv'
<1>1. /\ pc \in [Workers -> WorkerStates] /\ task \in [Workers -> Messages \cup {None}]
      /\ broker \in [Messages -> MessageStates]
  BY DEF Inv, TypeOK, PoolTypeOK, BrokerTypeOK
<1>2. \A v \in Workers \ {w} : pc'[v] = pc[v] /\ task'[v] = task[v]
  BY <1>1 DEF Crash, KillWorker, LoseChild, To
<1>3. \A b \in Messages : b # task[w] => broker'[b] = broker[b]
  BY <1>1 DEF Crash, KillWorker, LoseChild, Ack, brokerVars
<1>4. pc[w] # "idle" /\ pc'[w] = "idle" /\ task'[w] = None /\ timeouts' = timeouts
  BY <1>1 DEF Crash, KillWorker, LoseChild, To, brokerVars
<1>5. QED BY <1>2, <1>3, <1>4, SoleEnd

\* Every step of the pipeline keeps one worker per task.
LEMMA NextSole ==
  ASSUME Inv, SoleInv, [Next]_vars
  PROVE  SoleInv'
<1>1. broker \in [Messages -> MessageStates] /\ timeouts \in Nat
  BY BrokerAssumption DEF Inv, TypeOK, BrokerTypeOK
<1>2. ASSUME NEW r \in Requests, Upload(r) \/ Reembed(r) PROVE SoleInv'
  <2>1. UNCHANGED <<pc, task, timeouts>>
    BY <1>2 DEF Upload, StartUpload, UploadStep, InsertJob, SaveUpload, Enqueue, RequestDies, Reembed,
      brokerVars, poolVars
  <2>2. \A b \in Messages : broker[b] = "unacked" => broker'[b] = "unacked"
    BY <1>1, <1>2 DEF Upload, StartUpload, UploadStep, InsertJob, SaveUpload, Enqueue, RequestDies,
      Reembed, Publish, brokerVars
  <2>3. QED BY <2>1, <2>2, SoleFrame
<1>3. ASSUME NEW b \in Messages, Restore(b) \/ Expire(b) PROVE SoleInv'
  <2>1. CASE RestoreOrphan(b)
    <3>1. UNCHANGED <<pc, task, timeouts>> BY <2>1 DEF RestoreOrphan, poolVars
    <3>2. ASSUME NEW w \in Workers, broker[task[w]] = "unacked" PROVE broker'[task[w]] = "unacked"
      BY <1>1, <2>1, <3>2 DEF RestoreOrphan, Running
    <3>3. QED BY <3>1, <3>2 DEF SoleInv
  <2>2. CASE RestoreRunning(b)
    BY <1>1, <2>2 DEF RestoreRunning, SoleInv
  <2>3. CASE Expire(b)
    <3>1. UNCHANGED <<pc, task, timeouts, broker>> BY <2>3 DEF Expire, ExpireResult, poolVars
    <3>2. QED BY <3>1, SoleFrame
  <2>4. QED BY <1>3, <2>1, <2>2, <2>3 DEF Restore
<1>4. CASE (\E u \in Users : MoveUser(u)) \/ UNCHANGED vars
  BY <1>4 DEF MoveUser, SoleInv, vars, brokerVars, poolVars
<1>5. QED
  BY <1>2, <1>3, <1>4, SoleDeliver, SoleTaskStep, SoleCrash DEF Next, Idle

(***************************************************************************)
(* What an import takes the SELECT's answer for.                           *)
(***************************************************************************)
\* A worker that did not move, while nobody completed its job.
LEMMA SelectFrame ==
  ASSUME Inv, Grows, NEW v \in Workers, SelectOK(v),
         pc'[v] = pc[v], task'[v] = task[v], tx'[v] = tx[v],
         HoldsJob(v) => (Completed(JobOf(v))' => Completed(JobOf(v)))
  PROVE  SelectOK(v)'
<1>1. \A k \in ConvKeys, m \in MsgIds :
        k \notin tx'[v].moved /\ tx'[v].write[k][m] # None => msgs'[k][m] # None
  BY DEF SelectOK, Grows
<1>2. CASE HoldsJob(v)
  <2>1. /\ JobOf(v)' = JobOf(v) /\ JobOf(v) \in Requests
        /\ jobs'[JobOf(v)].file = jobs[JobOf(v)].file /\ account'[JobOf(v)] = account[JobOf(v)]
    BY <1>2, JobView
  <2>2. Key(v)' = Key(v) BY <2>1 DEF Key, Order
  <2>3. Completed(JobOf(v)) <=> Completed(JobOf(v))' BY <1>2, <2>1 DEF Grows, Completed
  <2>4. QED BY <1>1, <2>1, <2>2, <2>3 DEF SelectOK
<1>3. CASE ~HoldsJob(v) BY <1>1, <1>3 DEF SelectOK, HoldsJob
<1>4. QED BY <1>2, <1>3

\* A step out of the loop, or to its head, that writes nothing more.
LEMMA SelectOutside ==
  ASSUME Grows, NEW w \in Workers, SelectOK(w), pc'[w] \notin {"claim", "messages"},
         \A k \in ConvKeys, m \in MsgIds :
           k \notin tx'[w].moved /\ tx'[w].write[k][m] # None =>
             k \notin tx[w].moved /\ tx[w].write[k][m] # None
  PROVE  SelectOK(w)'
  BY DEF SelectOK, Grows

\* The conversation at hand of a completed job has all its messages.
LEMMA ImportedBefore ==
  ASSUME Inv, DataInv, NEW w \in Workers, HoldsJob(w), tx[w].next <= Len(Order(JobOf(w))),
         HasMessages(JobOf(w), Key(w)[1]), Completed(JobOf(w))
  PROVE  /\ convs[Key(w)] # None
         /\ \A m \in MsgIds : File(w)[m] # None => msgs[Key(w)][m] # None
<1>1. JobOf(w) \in Requests BY LoopFacts, ImportJobFacts
<1>2. tx[w].next \in DOMAIN Order(JobOf(w)) /\ Key(w) = <<Order(JobOf(w))[tx[w].next], account[JobOf(w)]>>
  BY AtHand
<1>3. Key(w)[1] = Order(JobOf(w))[tx[w].next] BY <1>2
<1>4. CompletedMeansImported BY DEF DataInv
<1>5. QED BY <1>1, <1>2, <1>3, <1>4 DEF CompletedMeansImported, Completed, File

\* A completed job finds each conversation of its file, and a conversation of a
\* job is there only after the job completed.
LEMMA SelectConversationSelect ==
  ASSUME Inv, DataInv, NEW w \in Workers, SelectConversation(w), SelectOK(w)
  PROVE  SelectOK(w)'
<1> USE DEF SelectConversation, MoreConversations, To, storeVars, brokerVars
<1>1. /\ pc[w] = "select" /\ HoldsJob(w) /\ tx \in [Workers -> Session]
      /\ pc \in [Workers -> WorkerStates]
  BY DEF Inv, TypeOK, PoolTypeOK, HoldsJob
<1>2. Key(w) \in ConvKeys /\ JobOf(w) \in Requests BY <1>1, LoopFacts, ImportJobFacts
<1>3. /\ tx'[w].moved = tx[w].moved /\ tx'[w].write = tx[w].write /\ pc'[w] = "claim"
      /\ tx'[w].seen = IF convs[Key(w)] = None THEN "absent"
                       ELSE IF convs[Key(w)].job = JobOf(w) THEN "mine" ELSE "other"
  BY <1>1 DEF Session
<1>4. JobOf(w)' = JobOf(w) BY DEF JobOf
<1>5. tx'[w].seen = "absent" => ~Completed(JobOf(w)) BY <1>1, <1>3, ImportedBefore
<1>6. tx'[w].seen = "mine" => Completed(JobOf(w))
  BY <1>2, <1>3 DEF DataInv, OnlyCompletedIsVisible, Completed
<1>7. Completed(JobOf(w))' <=> Completed(JobOf(w)) BY <1>4 DEF Completed
<1>8. QED BY <1>3, <1>4, <1>5, <1>6, <1>7 DEF SelectOK

\* Only a conversation the job imported before is not claimed.
LEMMA ClaimConversationSelect ==
  ASSUME Inv, NEW w \in Workers, ClaimConversation(w), SelectOK(w)
  PROVE  SelectOK(w)'
<1> USE DEF ClaimConversation, To, storeVars, brokerVars
<1>1. /\ pc[w] = "claim" /\ tx \in [Workers -> Session] /\ pc \in [Workers -> WorkerStates]
  BY DEF Inv, TypeOK, PoolTypeOK
<1>2. /\ tx'[w].moved = IF tx[w].seen = "mine" THEN tx[w].moved ELSE tx[w].moved \cup {Key(w)}
      /\ tx'[w].write = tx[w].write /\ tx'[w].seen = tx[w].seen /\ tx'[w].next = tx[w].next
      /\ pc'[w] = "messages"
  BY <1>1 DEF Session
<1>3. JobOf(w)' = JobOf(w) /\ (Completed(JobOf(w))' <=> Completed(JobOf(w))) /\ Key(w)' = Key(w)
  BY <1>2 DEF JobOf, Completed, Key, Order
<1>4. tx[w].seen = "mine" => Completed(JobOf(w)) BY <1>1 DEF SelectOK
<1>5. \A k \in ConvKeys, m \in MsgIds :
        k \notin tx'[w].moved /\ tx'[w].write[k][m] # None => msgs'[k][m] # None
  BY <1>2 DEF SelectOK
<1>6. Key(w) \notin tx'[w].moved => tx[w].seen = "mine" BY <1>2
<1>7. QED BY <1>2, <1>3, <1>4, <1>5, <1>6 DEF SelectOK

\* The messages of a conversation that is not claimed were imported before.
LEMMA WriteMessagesSelect ==
  ASSUME Inv, DataInv, NEW w \in Workers, WriteMessages(w), SelectOK(w)
  PROVE  SelectOK(w)'
<1> USE DEF WriteMessages, To, storeVars, brokerVars
<1>1. /\ pc[w] = "messages" /\ HoldsJob(w) /\ tx \in [Workers -> Session]
      /\ pc \in [Workers -> WorkerStates] /\ tx[w].write \in Contents
  BY DEF Inv, TypeOK, PoolTypeOK, HoldsJob, Session
<1>2. tx[w].next <= Len(Order(JobOf(w))) BY <1>1 DEF Inv, SessionInv, SessionOK
<1>3. Key(w) \in ConvKeys BY <1>1, <1>2, LoopFacts
<1>4. tx'[w].moved = tx[w].moved /\ pc'[w] = "select" /\ msgs' = msgs BY <1>1 DEF Session
<1>5. \A k \in ConvKeys : k # Key(w) => tx'[w].write[k] = tx[w].write[k]
  BY <1>1, <1>3 DEF Session, Contents
<1>6. \A m \in MsgIds :
        tx'[w].write[Key(w)][m] # None => m \in ToWrite(w) \/ tx[w].write[Key(w)][m] # None
  BY <1>1, <1>3 DEF Session, Contents
<1>7. ASSUME Key(w) \notin tx[w].moved, NEW m \in ToWrite(w) PROVE msgs[Key(w)][m] # None
  <2>1. Completed(JobOf(w)) BY <1>1, <1>7 DEF SelectOK
  <2>2. HasMessages(JobOf(w), Key(w)[1]) BY <1>1 DEF DataInv, SessionData
  <2>3. m \in MsgIds /\ File(w)[m] # None BY DEF ToWrite
  <2>4. QED BY <1>1, <1>2, <2>1, <2>2, <2>3, ImportedBefore
<1>8. QED BY <1>4, <1>5, <1>6, <1>7 DEF SelectOK

\* The worker that moves.
LEMMA SelectMover ==
  ASSUME Inv, DataInv, Grows, NEW w \in Workers, SelectOK(w),
         DeliverTask(w) \/ TaskStep(w) \/ Crash(w)
  PROVE  SelectOK(w)'
<1>1. /\ pc \in [Workers -> WorkerStates] /\ tx \in [Workers -> Session]
      /\ task \in [Workers -> Messages \cup {None}]
  BY DEF Inv, TypeOK, PoolTypeOK
<1>2. CASE SelectConversation(w) BY <1>2, SelectConversationSelect
<1>3. CASE ClaimConversation(w) BY <1>3, ClaimConversationSelect
<1>4. CASE WriteMessages(w) BY <1>4, WriteMessagesSelect
<1>5. CASE \/ DeliverTask(w) \/ StoreSuccess(w) \/ AckTask(w)
           \/ BeginImport(w) \/ SkipConversation(w) \/ PublishEmbed(w)
           \/ ReadConversations(w) \/ ReadMessages(w) \/ SkipExisting(w)
  <2>1. pc'[w] \notin {"claim", "messages"}
    BY <1>1, <1>5 DEF DeliverTask, Deliver, StoreSuccess, AckTask, BeginImport, SkipConversation,
      MoreConversations, PublishEmbed, ReadConversations, ReadMessages, SkipExisting, To
  <2>2. tx'[w].moved = tx[w].moved /\ tx'[w].write = tx[w].write
    BY <1>1, <1>5 DEF DeliverTask, Deliver, StoreSuccess, AckTask, BeginImport, SkipConversation,
      MoreConversations, PublishEmbed, ReadConversations, ReadMessages, SkipExisting, Session
  <2>3. QED BY <2>1, <2>2, SelectOutside
<1>6. CASE \/ Crash(w) \/ ClaimFails(w) \/ DeadlockVictim(w) \/ ImportCommit(w)
           \/ EmbedFails(w) \/ EmbedCommit(w) \/ LockJob(w)
  <2>1. pc'[w] \notin {"claim", "messages"}
    BY <1>1, <1>6 DEF Crash, KillWorker, LoseChild, LockJob, ClaimFails, DeadlockVictim,
      ImportCommit, EmbedFails, EmbedCommit, Raise, To
  <2>2. tx'[w] = NoTx \/ tx' = tx
    BY <1>1, <1>6 DEF Crash, KillWorker, LoseChild, LockJob, ClaimFails, DeadlockVictim,
      ImportCommit, EmbedFails, EmbedCommit, Raise
  <2>3. \A k \in ConvKeys, m \in MsgIds : NoTx.write[k][m] = None BY DEF NoTx, NoContents
  <2>4. QED BY <2>1, <2>2, <2>3, SelectOutside
<1>7. QED
  BY <1>2, <1>3, <1>4, <1>5, <1>6 DEF TaskStep, ImportStep, EmbedStep

\* The commit completes the job of a session that nobody shares.
LEMMA OthersJob ==
  ASSUME Inv, WritesAreExclusive, NEW w \in Workers, DeliverTask(w) \/ TaskStep(w) \/ Crash(w),
         NEW v \in Workers \ {w}, HoldsJob(v), Completed(JobOf(v))'
  PROVE  Completed(JobOf(v))
<1>1. JobOf(v)' = JobOf(v) BY OneMoves DEF JobOf
<1>2. JobOf(v) \in Requests BY LoopFacts, ImportJobFacts
<1>3. CASE ImportCommit(w)
  <2>1. HoldsJob(w) BY <1>3 DEF ImportCommit, HoldsJob
  <2>2. JobOf(v) # JobOf(w) BY <2>1 DEF WritesAreExclusive
  <2>3. jobs \in [Requests -> JobRow \cup {None}] BY DEF Inv, TypeOK, StoreTypeOK
  <2>4. jobs'[JobOf(v)] = jobs[JobOf(v)] BY <1>2, <1>3, <2>2, <2>3 DEF ImportCommit
  <2>5. QED BY <1>1, <2>4 DEF Completed
<1>4. CASE ~ImportCommit(w) BY <1>1, <1>2, <1>4, OnlyCommitsWrite
<1>5. QED BY <1>3, <1>4

\* Every step of the pipeline keeps what the SELECT's answer is taken for.
LEMMA NextSelect ==
  ASSUME Inv, DataInv, WritesAreExclusive, SelectInv, Grows, [Next]_vars
  PROVE  SelectInv'
<1>1. ASSUME NEW w \in Workers, DeliverTask(w) \/ TaskStep(w) \/ Crash(w) PROVE SelectInv'
  <2>1. SelectOK(w)' BY <1>1, SelectMover DEF SelectInv
  <2>2. ASSUME NEW v \in Workers \ {w} PROVE SelectOK(v)'
    BY <1>1, OneMoves, OthersJob, SelectFrame DEF SelectInv
  <2>3. QED BY <2>1, <2>2 DEF SelectInv
<1>2. ASSUME UNCHANGED poolVars, \A r \in Requests : Completed(r)' => Completed(r)
      PROVE  SelectInv'
  <2>1. ASSUME NEW v \in Workers PROVE SelectOK(v)'
    <3>1. HoldsJob(v) => JobOf(v) \in Requests /\ JobOf(v)' = JobOf(v)
      BY <1>2, LoopFacts, ImportJobFacts DEF JobOf, poolVars
    <3>2. HoldsJob(v) => (Completed(JobOf(v))' => Completed(JobOf(v))) BY <1>2, <3>1
    <3>3. QED BY <1>2, <3>2, SelectFrame DEF SelectInv, poolVars
  <2>2. QED BY <2>1 DEF SelectInv
<1>3. ASSUME NEW r \in Requests, Upload(r) PROVE SelectInv' BY <1>2, <1>3, UploadData
<1>4. CASE \/ \E r \in Requests : Reembed(r)
           \/ \E b \in Messages : Restore(b) \/ Expire(b)
           \/ \E u \in Users : MoveUser(u)
           \/ UNCHANGED vars
  BY <1>2, <1>4 DEF Reembed, Restore, RestoreOrphan, RestoreRunning, Expire, ExpireResult, MoveUser,
    vars, storeVars,
    poolVars, Completed
<1>5. QED BY <1>1, <1>3, <1>4 DEF Next, Idle

(***************************************************************************)
(* Every stored message is or will be embedded.                            *)
(***************************************************************************)
\* What disturbs the tasks is not undone.
LEMMA DisturbedStays ==
  ASSUME Inv, [Next]_vars, Undisturbed'
  PROVE  /\ Undisturbed
         /\ \A w \in Workers : ~LoseChild(w) /\ ~EmbedFails(w)
         /\ crashes'.kills > 0 => timeouts = 0 /\ \A w \in Workers : ~DeadlockVictim(w)
         /\ \A w \in Workers : KillWorker(w) => timeouts = 0
         /\ \A b \in Messages : RestoreRunning(b) => crashes.kills = 0
<1>1. crashes \in Crashes /\ timeouts \in Nat /\ MaxKills \in Nat /\ MaxLosses \in Nat /\ MaxOutages \in Nat
  BY WorkerAssumption, BrokerAssumption DEF Inv, TypeOK, PoolTypeOK, BrokerTypeOK
<1> USE DEF Crashes, Undisturbed
<1>2. ASSUME NEW w \in Workers
      PROVE  /\ ~LoseChild(w) /\ ~EmbedFails(w)
             /\ crashes'.kills > 0 => ~DeadlockVictim(w)
             /\ KillWorker(w) => timeouts = 0
             /\ KillWorker(w) \/ DeadlockVictim(w) => Undisturbed
  BY <1>1 DEF LoseChild, EmbedFails, DeadlockVictim, KillWorker, brokerVars, Raise
<1>3. ASSUME NEW b \in Messages, RestoreRunning(b)
      PROVE  Undisturbed /\ crashes.kills = 0 /\ crashes'.kills = 0
  BY <1>1, <1>3 DEF RestoreRunning, poolVars
<1>4. ASSUME NEW w \in Workers, DeliverTask(w) \/ TaskStep(w) \/ Crash(w)
      PROVE  UNCHANGED <<crashes, timeouts>> \/ KillWorker(w) \/ DeadlockVictim(w)
  BY <1>2, <1>4 DEF DeliverTask, Deliver, TaskStep, StoreSuccess, AckTask, Crash, ImportStep, BeginImport,
    LockJob, SkipConversation, SelectConversation, ClaimConversation, ClaimFails, WriteMessages,
    ImportCommit, PublishEmbed, EmbedStep, ReadConversations, ReadMessages, SkipExisting,
    EmbedCommit, Raise, brokerVars
<1>5. ASSUME NEW r \in Requests, Upload(r) \/ Reembed(r) PROVE UNCHANGED <<crashes, timeouts>>
  BY <1>5 DEF Upload, StartUpload, UploadStep, InsertJob, SaveUpload, Enqueue, RequestDies, Reembed,
    brokerVars, poolVars
<1>6. CASE UNCHANGED <<crashes, timeouts>>
  <2>1. Undisturbed /\ (crashes'.kills > 0 => timeouts = 0) BY <1>1, <1>6
  <2>2. QED BY <1>2, <1>3, <2>1
<1>7. ASSUME NEW w \in Workers, KillWorker(w) \/ DeadlockVictim(w)
      PROVE  Undisturbed /\ (crashes'.kills > 0 => timeouts = 0)
  BY <1>1, <1>2, <1>7 DEF KillWorker, DeadlockVictim, Raise, brokerVars
<1>8. ASSUME NEW b \in Messages, RestoreRunning(b)
      PROVE  Undisturbed /\ (crashes'.kills > 0 => timeouts = 0)
  BY <1>3, <1>8
<1>9. \/ UNCHANGED <<crashes, timeouts>>
      \/ \E w \in Workers : KillWorker(w) \/ DeadlockVictim(w)
      \/ \E b \in Messages : RestoreRunning(b)
  BY <1>4, <1>5 DEF Next, Restore, RestoreOrphan, Expire, ExpireResult, MoveUser, Idle, vars, brokerVars, poolVars
<1>10. Undisturbed /\ (crashes'.kills > 0 => timeouts = 0) BY <1>6, <1>7, <1>8, <1>9
<1>11. QED BY <1>2, <1>3, <1>10

\* A message that waits goes on waiting.
LEMMA WaitsKept ==
  ASSUME NEW j \in Requests, EmbedWaits(j),
         \A b \in Messages : Waiting(b) => Waiting(b)'
  PROVE  EmbedWaits(j)'
  BY MessageFacts DEF EmbedWaits

\* Enough for a step of worker w that neither delivers nor embeds nor publishes:
\* unless an import ends, whoever will embed the message still will.
LEMMA DueFrame ==
  ASSUME NEW j \in Requests, NEW k \in ConvKeys, NEW m \in MsgIds, NEW w \in Workers, Due(j, k, m),
         \A v \in Workers \ {w} : pc'[v] = pc[v] /\ task'[v] = task[v] /\ tx'[v] = tx[v],
         pc[w] # "publish" /\ ~WillEmbed(w, k, m),
         task'[w] \in {task[w], None},
         \A b \in Messages : Waiting(b) => Waiting(b)',
         crashes'.kills = crashes.kills,
         ImportReruns(j) =>
           /\ broker'[ImportMsg(j)] \in {"queued", "unacked"}
           /\ task'[w] = ImportMsg(j) => pc'[w] \notin {"store", "ack"}
  PROVE  Due(j, k, m)'
<1>1. CASE Publishing(j) BY <1>1 DEF Publishing, Due
<1>2. CASE EmbedWaits(j) BY <1>2, WaitsKept DEF Due
<1>3. CASE EmbedRuns(j, k, m)
  <2>1. PICK t \in 1..MaxTag, v \in Workers : task[v] = EmbedMsg(j, t) /\ WillEmbed(v, k, m)
    BY <1>3 DEF EmbedRuns
  <2>2. v # w BY <2>1
  <2>3. task'[v] = EmbedMsg(j, t) /\ WillEmbed(v, k, m)' BY <2>1, <2>2 DEF WillEmbed
  <2>4. QED BY <2>3 DEF EmbedRuns, Due
<1>4. CASE ImportReruns(j) BY <1>4 DEF ImportReruns, Due
<1>5. QED BY <1>1, <1>2, <1>3, <1>4 DEF Due

\* Steps outside the workers.
LEMMA DueOutside ==
  ASSUME NEW j \in Requests, NEW k \in ConvKeys, NEW m \in MsgIds, Due(j, k, m),
         UNCHANGED poolVars,
         \A b \in Messages :
           /\ broker[b] = "queued" => broker'[b] = "queued"
           /\ broker[b] = "unacked" => broker'[b] \in {"queued", "unacked"}
  PROVE  Due(j, k, m)'
<1>1. UNCHANGED <<pc, task, tx, crashes>> BY DEF poolVars
<1>2. \A b \in Messages : Waiting(b) => Waiting(b)' BY <1>1 DEF Waiting, Running
<1>3. CASE Publishing(j) BY <1>1, <1>3 DEF Publishing, Due
<1>4. CASE EmbedWaits(j) BY <1>2, <1>4, WaitsKept DEF Due
<1>5. CASE EmbedRuns(j, k, m) BY <1>1, <1>5 DEF EmbedRuns, WillEmbed, Due
<1>6. CASE ImportReruns(j) BY <1>1, <1>6, MessageFacts DEF ImportReruns, Due
<1>7. QED BY <1>3, <1>4, <1>5, <1>6 DEF Due

\* A delivered embed task has everything before it; a delivered import is not at its end.
LEMMA DueDeliver ==
  ASSUME Inv, NEW w \in Workers, DeliverTask(w),
         NEW j \in Requests, NEW k \in ConvKeys, NEW m \in MsgIds, Due(j, k, m)
  PROVE  Due(j, k, m)'
<1>1. PICK b \in Messages : Deliver(w, b) BY DEF DeliverTask
<1> USE <1>1 DEF Deliver, To
<1>2. /\ pc \in [Workers -> WorkerStates] /\ task \in [Workers -> Messages \cup {None}]
      /\ broker \in [Messages -> MessageStates]
  BY DEF Inv, TypeOK, PoolTypeOK, BrokerTypeOK
<1>3. /\ task'[w] = b /\ tx' = tx /\ crashes' = crashes /\ pc[w] = "idle"
      /\ pc'[w] = IF b.kind = "import" THEN "begin" ELSE "convs"
      /\ broker[b] = "queued" /\ broker'[b] = "unacked"
      /\ \A c \in Messages : c # b => broker'[c] = broker[c]
      /\ \A v \in Workers \ {w} : pc'[v] = pc[v] /\ task'[v] = task[v] /\ tx'[v] = tx[v]
  BY <1>2
<1>4. CASE Publishing(j) BY <1>3, <1>4 DEF Publishing, Due
<1>5. CASE EmbedWaits(j)
  <2>1. PICK t \in 1..MaxTag : Waiting(EmbedMsg(j, t)) BY <1>5 DEF EmbedWaits
  <2>2. EmbedMsg(j, t) \in Messages /\ EmbedMsg(j, t).kind = "embed" BY MessageFacts
  <2>3. CASE EmbedMsg(j, t) = b
    <3>1. task'[w] = EmbedMsg(j, t) /\ WillEmbed(w, k, m)' BY <1>3, <2>2, <2>3 DEF WillEmbed
    <3>2. QED BY <3>1 DEF EmbedRuns, Due
  <2>4. CASE EmbedMsg(j, t) # b
    <3>1. broker'[EmbedMsg(j, t)] = broker[EmbedMsg(j, t)] BY <1>3, <2>2, <2>4
    <3>2. Running(EmbedMsg(j, t))' => Running(EmbedMsg(j, t)) BY <1>3, <2>4 DEF Running
    <3>3. Waiting(EmbedMsg(j, t))' BY <2>1, <3>1, <3>2 DEF Waiting
    <3>4. QED BY <3>3 DEF EmbedWaits, Due
  <2>5. QED BY <2>3, <2>4
<1>6. CASE EmbedRuns(j, k, m) BY <1>3, <1>6 DEF EmbedRuns, WillEmbed, Due
<1>7. CASE ImportReruns(j)
  <2>1. ImportMsg(j) \in Messages BY MessageFacts
  <2>2. broker'[ImportMsg(j)] \in {"queued", "unacked"} BY <1>3, <1>7, <2>1 DEF ImportReruns
  <2>3. QED BY <1>3, <1>7, <2>2 DEF ImportReruns, Due
<1>8. QED BY <1>4, <1>5, <1>6, <1>7 DEF Due

\* A killed worker's message comes back, and nobody else runs it.
LEMMA DueKill ==
  ASSUME Inv, SoleInv, timeouts = 0, NEW w \in Workers, KillWorker(w),
         NEW j \in Requests, NEW k \in ConvKeys, NEW m \in MsgIds, Due(j, k, m)
  PROVE  Due(j, k, m)'
<1> USE DEF KillWorker, To, brokerVars
<1>1. /\ pc \in [Workers -> WorkerStates] /\ task \in [Workers -> Messages \cup {None}]
      /\ tx \in [Workers -> Session] /\ crashes \in Crashes /\ crashes.kills \in Nat
  BY WorkerAssumption DEF Inv, TypeOK, PoolTypeOK, Crashes
<1>2. /\ crashes'.kills > 0 /\ broker' = broker /\ pc'[w] = "idle" /\ task'[w] = None
      /\ \A v \in Workers \ {w} : pc'[v] = pc[v] /\ task'[v] = task[v] /\ tx'[v] = tx[v]
  BY <1>1 DEF Crashes
<1>3. broker[task[w]] = "unacked" /\ \A v \in Workers \ {w} : task[v] # task[w]
  BY DEF SoleInv
<1>4. \A b \in Messages : (Running(b))' => Running(b) BY <1>2, NoTaskAssumption DEF Running
<1>5. ASSUME NEW b \in Messages, b = task[w] PROVE ~(Running(b))'
  BY <1>2, <1>3, <1>5, NoTaskAssumption DEF Running
<1>6. CASE Publishing(j)
  <2>1. PICK v \in Workers : pc[v] = "publish" /\ task[v] = ImportMsg(j) BY <1>6 DEF Publishing
  <2>2. CASE v # w BY <1>2, <2>1, <2>2 DEF Publishing, Due
  <2>3. CASE v = w
    <3>1. broker'[ImportMsg(j)] = "unacked" BY <1>2, <1>3, <2>1, <2>3
    <3>2. \A x \in Workers : task'[x] # ImportMsg(j)
      BY <1>2, <1>3, <2>1, <2>3, MessageFacts, NoTaskAssumption
    <3>3. QED BY <1>2, <3>1, <3>2 DEF ImportReruns, Due
  <2>4. QED BY <2>2, <2>3
<1>7. CASE EmbedWaits(j)
  <2>1. \A b \in Messages : Waiting(b) => Waiting(b)' BY <1>2, <1>4 DEF Waiting
  <2>2. QED BY <1>7, <2>1, WaitsKept DEF Due
<1>8. CASE EmbedRuns(j, k, m)
  <2>1. PICK t \in 1..MaxTag, v \in Workers : task[v] = EmbedMsg(j, t) /\ WillEmbed(v, k, m)
    BY <1>8 DEF EmbedRuns
  <2>2. CASE v # w
    <3>1. task'[v] = EmbedMsg(j, t) /\ WillEmbed(v, k, m)' BY <1>2, <2>1, <2>2 DEF WillEmbed
    <3>2. QED BY <3>1 DEF EmbedRuns, Due
  <2>3. CASE v = w
    <3>1. EmbedMsg(j, t) \in Messages BY MessageFacts
    <3>2. Waiting(EmbedMsg(j, t))' BY <1>2, <1>3, <1>5, <2>1, <2>3, <3>1 DEF Waiting
    <3>3. QED BY <3>2 DEF EmbedWaits, Due
  <2>4. QED BY <2>2, <2>3
<1>9. CASE ImportReruns(j)
  <2>1. \A x \in Workers : task'[x] = ImportMsg(j) => pc'[x] \notin {"store", "ack"}
    BY <1>2, <1>9, MessageFacts, NoTaskAssumption DEF ImportReruns
  <2>2. QED BY <1>2, <1>9, <2>1 DEF ImportReruns, Due
<1>10. QED BY <1>6, <1>7, <1>8, <1>9 DEF Due

\* The rerun of a job that was imported does not raise.
LEMMA RerunSucceeds ==
  ASSUME Inv, DataInv, SelectInv, NEW w \in Workers, pc[w] \in ImportStates, Completed(JobOf(w))
  PROVE  /\ Loadable(JobOf(w))
         /\ ~ClaimFails(w)
<1>1. JobOf(w) \in Requests /\ JobOf(w) \in uploads BY ImportJobFacts
<1>2. Loadable(JobOf(w)) BY <1>1 DEF DataInv, CompletedIsReadable, Loadable
<1>3. ~ClaimFails(w) BY DEF ClaimFails, SelectInv, SelectOK
<1>4. QED BY <1>2, <1>3

\* An import's step before its commit.
LEMMA DueImportStep ==
  ASSUME Inv, DataInv, SelectInv, NEW w \in Workers, TaskStep(w), ImportStep(w),
         ~PublishEmbed(w),
         crashes'.kills > 0 => ~DeadlockVictim(w),
         NEW j \in Requests, Completed(j), NEW k \in ConvKeys, NEW m \in MsgIds, Due(j, k, m)
  PROVE  Due(j, k, m)'
<1>1. /\ pc \in [Workers -> WorkerStates] /\ task \in [Workers -> Messages \cup {None}]
      /\ tx \in [Workers -> Session] /\ crashes \in Crashes
  BY DEF Inv, TypeOK, PoolTypeOK
<1>2. pc[w] \in {"begin", "lock", "select", "claim", "messages"}
  <2>1. pc[w] \in {"lock", "claim", "messages"} \/ ~DeadlockVictim(w)
    BY DEF DeadlockVictim, Deadlocked, Blockers
  <2>2. QED
    BY <2>1 DEF ImportStep, BeginImport, LockJob, SkipConversation, SelectConversation,
      MoreConversations, ClaimConversation, ClaimFails, WriteMessages, ImportCommit
<1>3. pc[w] \in ImportStates BY <1>2 DEF ImportStates
<1>4. UNCHANGED <<broker, task>> /\ crashes'.kills = crashes.kills
  BY <1>1 DEF ImportStep, BeginImport, LockJob, SkipConversation, SelectConversation,
    MoreConversations, ClaimConversation, ClaimFails, WriteMessages, DeadlockVictim, ImportCommit,
    Raise, brokerVars, Crashes
<1>5. \A v \in Workers \ {w} : pc'[v] = pc[v] /\ task'[v] = task[v] /\ tx'[v] = tx[v]
  BY OneMoves DEF TaskStep
<1>6. pc[w] # "publish" /\ ~WillEmbed(w, k, m) BY <1>2 DEF WillEmbed
<1>7. \A b \in Messages : Waiting(b) => Waiting(b)' BY <1>4 DEF Waiting, Running
<1>8. ASSUME ImportReruns(j), task[w] = ImportMsg(j) PROVE pc'[w] \notin {"store", "ack"}
  <2>1. JobOf(w) = j BY <1>8, MessageFacts DEF JobOf
  <2>2. Loadable(JobOf(w)) /\ ~ClaimFails(w) BY <1>3, <2>1, RerunSucceeds
  <2>3. ~DeadlockVictim(w) BY <1>4, <1>8 DEF ImportReruns
  <2>4. QED
    BY <1>1, <2>2, <2>3 DEF ImportStep, BeginImport, LockJob, SkipConversation, SelectConversation,
      MoreConversations, ClaimConversation, WriteMessages, ImportCommit, To
<1>9. QED BY <1>4, <1>5, <1>6, <1>7, <1>8, DueFrame DEF ImportReruns

\* The embed message is published.
LEMMA DuePublish ==
  ASSUME Inv, NEW w \in Workers, PublishEmbed(w),
         NEW j \in Requests, NEW k \in ConvKeys, NEW m \in MsgIds, Due(j, k, m)
  PROVE  Due(j, k, m)'
<1>1. /\ pc \in [Workers -> WorkerStates] /\ broker \in [Messages -> MessageStates]
  BY DEF Inv, TypeOK, PoolTypeOK, BrokerTypeOK
<1>2. PICK t \in 1..MaxTag : Publish(EmbedMsg(JobOf(w), t)) BY DEF PublishEmbed
<1>3. pc[w] = "publish" /\ pc'[w] = "store" /\ UNCHANGED <<task, tx, crashes>>
  BY <1>1 DEF PublishEmbed, To
<1>4. \A v \in Workers \ {w} : pc'[v] = pc[v] BY <1>1 DEF PublishEmbed, To
<1>5. JobOf(w) \in Requests /\ task[w] = ImportMsg(JobOf(w))
  BY <1>3, ImportJobFacts DEF ImportStates
<1>6. CASE task[w] = ImportMsg(j)
  <2>1. JobOf(w) = j BY <1>6, MessageFacts DEF JobOf
  <2>2. EmbedMsg(j, t) \in Messages BY MessageFacts
  <2>3. broker'[EmbedMsg(j, t)] = "queued" BY <1>1, <1>2, <2>1, <2>2 DEF Publish
  <2>4. QED BY <2>3 DEF EmbedWaits, Waiting, Due
<1>7. CASE task[w] # ImportMsg(j)
  <2>1. \A b \in Messages : broker[b] # "unsent" => broker'[b] = broker[b]
    BY <1>1, <1>2 DEF Publish
  <2>2. \A b \in Messages : Waiting(b) => Waiting(b)' BY <1>3, <2>1 DEF Waiting, Running
  <2>3. CASE Publishing(j)
    <3>1. PICK v \in Workers : pc[v] = "publish" /\ task[v] = ImportMsg(j)
      BY <2>3 DEF Publishing
    <3>2. QED BY <1>3, <1>4, <1>7, <3>1 DEF Publishing, Due
  <2>4. CASE EmbedWaits(j) BY <2>2, <2>4, WaitsKept DEF Due
  <2>5. CASE EmbedRuns(j, k, m)
    <3>1. PICK s \in 1..MaxTag, v \in Workers : task[v] = EmbedMsg(j, s) /\ WillEmbed(v, k, m)
      BY <2>5 DEF EmbedRuns
    <3>2. v # w BY <1>3, <3>1 DEF WillEmbed
    <3>3. task'[v] = EmbedMsg(j, s) /\ WillEmbed(v, k, m)'
      BY <1>3, <1>4, <3>1, <3>2 DEF WillEmbed
    <3>4. QED BY <3>3 DEF EmbedRuns, Due
  <2>6. CASE ImportReruns(j)
    <3>1. broker'[ImportMsg(j)] = broker[ImportMsg(j)] BY <2>1, <2>6, MessageFacts DEF ImportReruns
    <3>2. QED BY <1>3, <1>4, <1>7, <2>6, <3>1 DEF ImportReruns, Due
  <2>7. QED BY <2>3, <2>4, <2>5, <2>6 DEF Due
<1>8. QED BY <1>6, <1>7

\* An embed task's step: it carries the message until it commits its embedding.
LEMMA EmbedCarries ==
  ASSUME Inv, NEW w \in Workers, EmbedStep(w), ~EmbedFails(w), JobOf(w) \in Requests,
         NEW k \in ConvKeys, NEW m \in MsgIds, convs[k] # None, convs[k].job = JobOf(w),
         msgs[k][m] # None, embs'[k][m] = <<>>, WillEmbed(w, k, m)
  PROVE  WillEmbed(w, k, m)'
<1>1. /\ pc \in [Workers -> WorkerStates] /\ tx \in [Workers -> Session]
      /\ embs \in Embeddings /\ tx[w].pend \in Contents
  BY DEF Inv, TypeOK, PoolTypeOK, StoreTypeOK, Session
<1>2. CASE ReadConversations(w)
  <2> DEFINE cids == {c \in ConvKeys : convs[c] # None /\ convs[c].job = JobOf(w)}
  <2>1. k \in cids OBVIOUS
  <2>2. tx'[w].cids = cids BY <1>1, <1>2 DEF ReadConversations, Session
  <2>3. pc'[w] = "read" BY <1>1, <1>2, <2>1 DEF ReadConversations, To
  <2>4. QED BY <2>1, <2>2, <2>3 DEF WillEmbed
<1>3. CASE ReadMessages(w)
  <2> USE <1>3 DEF ReadMessages, To
  <2>1. k \in tx[w].cids /\ pc'[w] = "skip" BY <1>1 DEF WillEmbed
  <2>2. tx'[w].pend[k] = msgs[k] BY <1>1, <2>1 DEF Session
  <2>3. QED BY <2>1, <2>2 DEF WillEmbed
<1>4. CASE SkipExisting(w)
  <2> USE <1>4 DEF SkipExisting, To
  <2>1. tx[w].pend[k][m] # None /\ pc'[w] = "embed" /\ embs[k][m] = <<>>
    BY <1>1 DEF WillEmbed, storeVars
  <2>2. tx'[w].pend[k][m] = tx[w].pend[k][m] BY <1>1, <2>1 DEF Session
  <2>3. QED BY <2>1, <2>2 DEF WillEmbed
<1>5. CASE EmbedCommit(w)
  <2>1. tx[w].pend[k][m] # None BY <1>5 DEF EmbedCommit, WillEmbed
  <2>2. embs'[k][m] = Append(embs[k][m], tx[w].pend[k][m]) BY <1>5, <2>1 DEF EmbedCommit
  <2>3. embs[k][m] \in Seq(Texts) BY <1>1 DEF Embeddings
  <2>4. Len(embs'[k][m]) = Len(embs[k][m]) + 1 /\ Len(embs[k][m]) \in Nat BY <2>2, <2>3
  <2>5. embs'[k][m] # <<>> BY <2>4
  <2>6. QED BY <2>5
<1>6. QED BY <1>2, <1>3, <1>4, <1>5 DEF EmbedStep

\* A step of an embed task, the one that carries the message or another.
LEMMA DueEmbedStep ==
  ASSUME Inv, NEW w \in Workers, TaskStep(w), EmbedStep(w), ~EmbedFails(w),
         NEW j \in Requests, NEW k \in ConvKeys, NEW m \in MsgIds, convs[k] # None, convs[k].job = j,
         msgs[k][m] # None, embs'[k][m] = <<>>, Due(j, k, m)
  PROVE  Due(j, k, m)'
<1>1. /\ pc \in [Workers -> WorkerStates] /\ task \in [Workers -> Messages \cup {None}]
      /\ tx \in [Workers -> Session]
  BY DEF Inv, TypeOK, PoolTypeOK
<1>2. pc[w] \in EmbedStates
  BY DEF EmbedStep, ReadConversations, ReadMessages, SkipExisting, EmbedCommit, EmbedStates
<1>3. UNCHANGED <<broker, task, crashes>>
  BY DEF EmbedStep, ReadConversations, ReadMessages, SkipExisting, EmbedCommit, brokerVars
<1>4. \A v \in Workers \ {w} : pc'[v] = pc[v] /\ task'[v] = task[v] /\ tx'[v] = tx[v]
  BY OneMoves DEF TaskStep
<1>5. \A b \in Messages : Waiting(b) => Waiting(b)' BY <1>3 DEF Waiting, Running
<1>6. CASE WillEmbed(w, k, m) /\ \E t \in 1..MaxTag : task[w] = EmbedMsg(j, t)
  <2>1. JobOf(w) = j BY <1>6, MessageFacts DEF JobOf
  <2>2. WillEmbed(w, k, m)' BY <1>6, <2>1, EmbedCarries
  <2>3. QED BY <1>3, <1>6, <2>2 DEF EmbedRuns, Due
<1>7. CASE ~(WillEmbed(w, k, m) /\ \E t \in 1..MaxTag : task[w] = EmbedMsg(j, t))
  <2>1. pc[w] # "publish" /\ task[w] # ImportMsg(j)
    BY <1>2, MessageFacts DEF EmbedStates, Inv, TypeOK, TaskOK
  <2>2. CASE Publishing(j) BY <1>3, <1>4, <2>1, <2>2 DEF Publishing, Due
  <2>3. CASE EmbedWaits(j) BY <1>5, <2>3, WaitsKept DEF Due
  <2>4. CASE EmbedRuns(j, k, m)
    <3>1. PICK t \in 1..MaxTag, v \in Workers : task[v] = EmbedMsg(j, t) /\ WillEmbed(v, k, m)
      BY <2>4 DEF EmbedRuns
    <3>2. v # w BY <1>7, <3>1
    <3>3. task'[v] = EmbedMsg(j, t) /\ WillEmbed(v, k, m)' BY <1>3, <1>4, <3>1, <3>2 DEF WillEmbed
    <3>4. QED BY <3>3 DEF EmbedRuns, Due
  <2>5. CASE ImportReruns(j) BY <1>3, <1>4, <2>1, <2>5 DEF ImportReruns, Due
  <2>6. QED BY <2>2, <2>3, <2>4, <2>5 DEF Due
<1>8. QED BY <1>6, <1>7

\* A result stored, or a task acknowledged, at its end.
LEMMA DueEnd ==
  ASSUME Inv, NEW w \in Workers, TaskStep(w), StoreSuccess(w) \/ AckTask(w),
         NEW j \in Requests, NEW k \in ConvKeys, NEW m \in MsgIds, Due(j, k, m)
  PROVE  Due(j, k, m)'
<1>1. /\ pc \in [Workers -> WorkerStates] /\ task \in [Workers -> Messages \cup {None}]
      /\ tx \in [Workers -> Session] /\ broker \in [Messages -> MessageStates]
  BY DEF Inv, TypeOK, PoolTypeOK, BrokerTypeOK
<1>2. pc[w] \in {"store", "ack"} /\ task'[w] \in {task[w], None} /\ crashes' = crashes
  BY <1>1 DEF StoreSuccess, AckTask
<1>3. \A v \in Workers \ {w} : pc'[v] = pc[v] /\ task'[v] = task[v] /\ tx'[v] = tx[v]
  BY OneMoves DEF TaskStep
<1>4. pc[w] # "publish" /\ ~WillEmbed(w, k, m) BY <1>2 DEF WillEmbed
<1>5. \A b \in Messages : b # task[w] \/ broker[b] = "queued" => broker'[b] = broker[b]
  BY <1>1 DEF StoreSuccess, AckTask, Ack
<1>6. ASSUME NEW b \in Messages, Waiting(b) PROVE Waiting(b)'
  <2>1. b = task[w] => broker[b] = "queued" BY <1>6 DEF Waiting, Running
  <2>2. broker'[b] = broker[b] BY <1>5, <2>1
  <2>3. (Running(b))' => Running(b) BY <1>2, <1>3, NoTaskAssumption DEF Running
  <2>4. QED BY <1>6, <2>2, <2>3 DEF Waiting
<1>7. ASSUME ImportReruns(j)
      PROVE  /\ broker'[ImportMsg(j)] \in {"queued", "unacked"}
             /\ task'[w] = ImportMsg(j) => pc'[w] \notin {"store", "ack"}
  <2>1. task[w] # ImportMsg(j) BY <1>2, <1>7 DEF ImportReruns
  <2>2. broker'[ImportMsg(j)] = broker[ImportMsg(j)] BY <1>5, <2>1, MessageFacts
  <2>3. task'[w] # ImportMsg(j) BY <1>2, <2>1, MessageFacts, NoTaskAssumption
  <2>4. QED BY <1>7, <2>2, <2>3 DEF ImportReruns
<1>8. QED BY <1>2, <1>3, <1>4, <1>6, <1>7, DueFrame

\* The commit leaves its worker to publish the embed task of what it claimed.
LEMMA ClaimedIsDue ==
  ASSUME Inv, NEW w \in Workers, ImportCommit(w), NEW k \in tx[w].moved, NEW m \in MsgIds
  PROVE  Due(convs[k].job, k, m)'
<1>1. /\ pc \in [Workers -> WorkerStates] /\ task' = task /\ convs' = ConvsAfter(w)
      /\ task[w] = ImportMsg(JobOf(w))
  BY ImportJobFacts DEF Inv, TypeOK, PoolTypeOK, ImportStates, ImportCommit
<1>2. tx[w].moved \subseteq ConvKeys BY DEF Inv, TypeOK, PoolTypeOK, Session
<1>3. convs'[k].job = JobOf(w) BY <1>1, <1>2 DEF ConvsAfter
<1>4. pc'[w] = "publish" BY <1>1 DEF ImportCommit, To
<1>5. Publishing(convs[k].job)' BY <1>1, <1>3, <1>4 DEF Publishing
<1>6. QED BY <1>5 DEF Due

\* What it wrote without a claim was there before.
LEMMA UnclaimedWasThere ==
  ASSUME SelectInv, NEW w \in Workers, ImportCommit(w), NEW k \in ConvKeys, k \notin tx[w].moved
  PROVE  /\ convs'[k] = convs[k]
         /\ \A m \in MsgIds : msgs'[k][m] # None => msgs[k][m] # None
<1>1. convs' = ConvsAfter(w) /\ msgs' = MsgsAfter(w) BY DEF ImportCommit
<1>2. convs'[k] = convs[k] BY <1>1 DEF ConvsAfter
<1>3. ASSUME NEW m \in MsgIds, msgs'[k][m] # None PROVE msgs[k][m] # None
  BY <1>1, <1>3 DEF MsgsAfter, SelectInv, SelectOK
<1>4. QED BY <1>2, <1>3

\* So a commit leaves no stored message without somebody to embed it.
LEMMA DueCommit ==
  ASSUME Inv, DataInv, SelectInv, NEW w \in Workers, TaskStep(w), ImportCommit(w),
         NEW k \in ConvKeys, NEW m \in MsgIds, msgs'[k][m] # None,
         msgs[k][m] # None => Due(convs[k].job, k, m)
  PROVE  Due(convs[k].job, k, m)'
<1>1. CASE k \in tx[w].moved BY <1>1, ClaimedIsDue
<1>2. CASE k \notin tx[w].moved
  <2>1. convs'[k] = convs[k] /\ msgs[k][m] # None BY <1>2, UnclaimedWasThere
  <2>2. convs[k].job \in Requests /\ Completed(convs[k].job)
    <3>1. convs[k] # None /\ Completed(convs[k].job)
      BY <2>1 DEF DataInv, OnlyCompletedIsVisible, Completed
    <3>2. QED BY <3>1 DEF Inv, TypeOK, StoreTypeOK, ConvRow
  <2>3. PICK j \in Requests : j = convs[k].job BY <2>2
  <2>4. pc[w] = "select" /\ Blockers(w) = {} BY DEF Blockers, ImportCommit
  <2>5. ~PublishEmbed(w) /\ ~DeadlockVictim(w) /\ ImportStep(w)
    BY <2>4 DEF PublishEmbed, DeadlockVictim, Deadlocked, ImportStep
  <2>6. Due(j, k, m)' BY <2>1, <2>2, <2>3, <2>5, DueImportStep
  <2>7. j = convs'[k].job BY <2>1, <2>3
  <2>8. QED BY <2>6, <2>7
<1>3. QED BY <1>1, <1>2

\* The conversation of a stored message, and its job.
LEMMA StoredFacts ==
  ASSUME Inv, DataInv, NEW k \in ConvKeys, NEW m \in MsgIds, msgs[k][m] # None
  PROVE  convs[k] # None /\ convs[k].job \in Requests /\ Completed(convs[k].job)
<1>1. convs[k] # None /\ Completed(convs[k].job) BY DEF DataInv, OnlyCompletedIsVisible, Completed
<1>2. QED BY <1>1 DEF Inv, TypeOK, StoreTypeOK, ConvRow

\* Every step of the pipeline leaves somebody to embed each stored message.
LEMMA NextDue ==
  ASSUME Inv, DataInv, IndexInv, [Next]_vars
  PROVE  DueInv'
<1> SUFFICES ASSUME Undisturbed', NEW k \in ConvKeys, NEW m \in MsgIds,
                    msgs'[k][m] # None, embs'[k][m] = <<>>
             PROVE  Due(convs[k].job, k, m)'
  BY DEF DueInv
<1>1. /\ Undisturbed
      /\ \A w \in Workers : ~LoseChild(w) /\ ~EmbedFails(w)
      /\ crashes'.kills > 0 => timeouts = 0 /\ \A w \in Workers : ~DeadlockVictim(w)
      /\ \A w \in Workers : KillWorker(w) => timeouts = 0
      /\ \A b \in Messages : RestoreRunning(b) => crashes.kills = 0
  BY DisturbedStays
<1>2. SoleInv /\ SelectInv /\ DueInv BY DEF IndexInv
<1>3. embs[k][m] = <<>>
  <2>1. embs \in Embeddings BY DEF Inv, TypeOK, StoreTypeOK
  <2>2. embs[k][m] \in Seq(Texts) BY <2>1 DEF Embeddings
  <2>3. Len(embs[k][m]) \in Nat /\ Len(embs'[k][m]) = 0 BY <2>2
  <2>4. Len(embs[k][m]) = 0 BY <2>3, RecordsGrow
  <2>5. QED BY <2>2, <2>4
<1>4. ASSUME UNCHANGED <<convs, msgs>>
      PROVE  /\ convs[k] # None /\ convs[k].job \in Requests /\ Completed(convs[k].job)
             /\ Due(convs[k].job, k, m) /\ convs'[k].job = convs[k].job
             /\ msgs[k][m] # None
  BY <1>1, <1>2, <1>3, <1>4, StoredFacts DEF DueInv
<1>5. ASSUME UNCHANGED <<convs, msgs>>, \A j \in Requests : j = convs[k].job => Due(j, k, m)'
      PROVE  Due(convs[k].job, k, m)'
  <2>1. PICK j \in Requests : j = convs[k].job BY <1>4, <1>5
  <2>2. j = convs'[k].job BY <1>5, <2>1
  <2>3. QED BY <1>5, <2>1, <2>2
<1>6. ASSUME UNCHANGED <<convs, msgs, poolVars>>,
             \A b \in Messages :
               /\ broker[b] = "queued" => broker'[b] = "queued"
               /\ broker[b] = "unacked" => broker'[b] \in {"queued", "unacked"}
      PROVE  Due(convs[k].job, k, m)'
  BY <1>4, <1>5, <1>6, DueOutside
<1>7. ASSUME NEW r \in Requests, Upload(r) \/ Reembed(r) PROVE Due(convs[k].job, k, m)'
  <2>1. broker \in [Messages -> MessageStates] BY DEF Inv, TypeOK, BrokerTypeOK
  <2>2. UNCHANGED <<convs, msgs, poolVars>> BY <1>7, UploadData DEF Reembed, storeVars
  <2>3. \A b \in Messages : broker[b] # "unsent" => broker'[b] = broker[b]
    BY <1>7, <2>1 DEF Upload, StartUpload, UploadStep, InsertJob, SaveUpload, Enqueue, RequestDies,
      Reembed, Publish, brokerVars
  <2>4. QED BY <1>6, <2>2, <2>3
<1>8. ASSUME NEW b \in Messages, Restore(b) \/ Expire(b) PROVE Due(convs[k].job, k, m)'
  <2>1. broker \in [Messages -> MessageStates] BY DEF Inv, TypeOK, BrokerTypeOK
  <2>2. QED
    BY <1>6, <1>8, <2>1 DEF Restore, RestoreOrphan, RestoreRunning, Expire, ExpireResult, storeVars
<1>9. CASE (\E u \in Users : MoveUser(u)) \/ UNCHANGED vars
  BY <1>6, <1>9 DEF MoveUser, vars, storeVars, brokerVars
<1>10. ASSUME NEW w \in Workers, DeliverTask(w) PROVE Due(convs[k].job, k, m)'
  <2>1. UNCHANGED <<convs, msgs>> BY <1>10 DEF DeliverTask, Deliver, storeVars
  <2>2. QED BY <1>4, <1>5, <1>10, <2>1, DueDeliver
<1>11. ASSUME NEW w \in Workers, Crash(w) PROVE Due(convs[k].job, k, m)'
  <2>1. KillWorker(w) /\ timeouts = 0 BY <1>1, <1>11 DEF Crash
  <2>2. UNCHANGED <<convs, msgs>> BY <2>1 DEF KillWorker, storeVars
  <2>3. QED BY <1>2, <1>4, <1>5, <2>1, <2>2, DueKill
<1>12. ASSUME NEW w \in Workers, TaskStep(w) PROVE Due(convs[k].job, k, m)'
  <2>1. CASE ImportCommit(w)
    <3>1. msgs[k][m] # None => Due(convs[k].job, k, m) BY <1>1, <1>2, <1>3 DEF DueInv
    <3>2. QED BY <1>2, <1>12, <2>1, <3>1, DueCommit
  <2>2. CASE ~ImportCommit(w)
    <3>1. UNCHANGED <<convs, msgs>> BY <1>12, <2>2, OnlyCommitsWrite
    <3>2. CASE PublishEmbed(w) BY <1>4, <1>5, <3>1, <3>2, DuePublish
    <3>3. CASE ImportStep(w) /\ ~PublishEmbed(w)
      BY <1>1, <1>2, <1>4, <1>5, <1>12, <3>1, <3>3, DueImportStep
    <3>4. CASE EmbedStep(w) BY <1>1, <1>4, <1>5, <1>12, <3>1, <3>4, DueEmbedStep
    <3>5. CASE StoreSuccess(w) \/ AckTask(w) BY <1>4, <1>5, <1>12, <3>1, <3>5, DueEnd
    <3>6. QED BY <1>12, <3>2, <3>3, <3>4, <3>5 DEF TaskStep
  <2>3. QED BY <2>1, <2>2
<1>13. QED
  BY <1>7, <1>8, <1>9, <1>10, <1>11, <1>12 DEF Next, Idle

\* At first nothing is stored.
LEMMA InitIndex == Init => IndexInv
<1> SUFFICES ASSUME Init PROVE IndexInv OBVIOUS
<1> USE DEF Init, StoreInit, BrokerInit, PoolInit
<1>1. SoleInv BY DEF SoleInv
<1>2. SelectInv BY DEF SelectInv, SelectOK, NoTx, NoContents
<1>3. DueInv BY DEF DueInv, NoContents
<1>4. QED BY <1>1, <1>2, <1>3 DEF IndexInv

\* The invariant that settles what a search finds.
LEMMA IndexHolds == Spec => [](SafetyInv /\ IndexInv)
<1>1. SafetyInv /\ WritesAreExclusive /\ IndexInv /\ [Next]_vars => IndexInv'
  <2> SUFFICES ASSUME Inv, FlowInv, DataInv, WritesAreExclusive, IndexInv, [Next]_vars PROVE IndexInv'
    BY DEF SafetyInv
  <2>1. Grows BY NextGrows
  <2>2. QED BY <2>1, NextSole, NextSelect, NextDue DEF IndexInv
<1>2. QED BY <1>1, InitIndex, SafetyHolds, ExclusiveWrites, PTL DEF Spec

(***************************************************************************)
(* When each task ran once, what is stored will be embedded unless the      *)
(* job's indexing is over.                                                 *)
(***************************************************************************)
\* The import of job j has returned, or its message is acknowledged.
ImportEnded(j) ==
  \/ broker[ImportMsg(j)] = "acked"
  \/ \E w \in Workers : task[w] = ImportMsg(j) /\ pc[w] \in {"store", "ack"}

\* The chain of job j publishes one message, when its import has ended.
OneEmbed(j) ==
  \A t \in 1..MaxTag : broker[EmbedMsg(j, t)] # "unsent" => t = 1 /\ ImportEnded(j)

\* An outcome is stored at the end of a task, and an unacked message is running.
Reported(b) ==
  TaskId(b) = b /\ result[b] # "PENDING" =>
    broker[b] = "acked" \/ \E w \in Workers : task[w] = b /\ pc[w] = "ack"

Held(b) == broker[b] = "unacked" => Running(b)

RanOnceInv ==
  RanOnce => (\A j \in Requests : OneEmbed(j)) /\ (\A b \in Messages : Reported(b) /\ Held(b))

\* The indexing of job j has come to its end: the embed message is acknowledged, it has
\* failed and will be, or the worker that was to publish it lost its child.
Over(j) ==
  LET b == EmbedMsg(j, 1) IN
    \/ broker[b] = "acked"
    \/ result[b] = "FAILURE" /\ \E w \in Workers : task[w] = b /\ pc[w] = "ack"
    \/ broker[b] = "unsent" /\ broker[ImportMsg(j)] = "acked"

FailureInv ==
  RanOnce =>
    \A k \in ConvKeys, m \in MsgIds :
      msgs[k][m] # None /\ embs[k][m] = <<>> => Due(convs[k].job, k, m) \/ Over(convs[k].job)

\* A task that ends with an outcome stored, whose message is not acknowledged yet.
Ends(w) ==
  /\ pc[w] \notin {"idle", "ack"} /\ pc' = [pc EXCEPT ![w] = "ack"]
  /\ UNCHANGED <<broker, task>>
  /\ \E outcome \in {"SUCCESS", "FAILURE"} : StoreResult(task[w], outcome)

\* A step inside a task.
Goes(w) ==
  /\ pc[w] \notin {"idle", "store", "ack"} /\ pc'[w] \notin {"idle", "ack"}
  /\ UNCHANGED <<broker, task, result>>

\* The steps of a task: inside it, the chain's next message, its end, and the
\* acknowledgement.
LEMMA TaskStepKinds ==
  ASSUME Inv, NEW w \in Workers, TaskStep(w)
  PROVE  AckTask(w) \/ PublishEmbed(w) \/ Ends(w) \/ Goes(w)
<1>1. pc \in [Workers -> WorkerStates] BY DEF Inv, TypeOK, PoolTypeOK
<1>2. CASE ImportStep(w) /\ ~PublishEmbed(w)
  BY <1>1, <1>2 DEF ImportStep, BeginImport, LockJob, SkipConversation, SelectConversation,
    MoreConversations, ClaimConversation, ClaimFails, WriteMessages, DeadlockVictim, Deadlocked,
    Blockers, ImportCommit, Raise, To, brokerVars, Ends, Goes
<1>3. CASE EmbedStep(w)
  BY <1>1, <1>3 DEF EmbedStep, ReadConversations, ReadMessages, SkipExisting, EmbedFails,
    EmbedCommit, Raise, To, brokerVars, Ends, Goes
<1>4. CASE StoreSuccess(w)
  BY <1>1, <1>4 DEF StoreSuccess, To, Ends
<1>5. QED BY <1>2, <1>3, <1>4 DEF TaskStep

\* Nothing that ran twice is made to have run once.
LEMMA RanOnceStays ==
  ASSUME Inv, [Next]_vars, RanOnce'
  PROVE  /\ RanOnce
         /\ \A w \in Workers : ~KillWorker(w)
         /\ \A b \in Messages : ~RestoreRunning(b)
<1>1. crashes \in Crashes /\ timeouts \in Nat /\ crashes.kills \in Nat
  BY WorkerAssumption, BrokerAssumption DEF Inv, TypeOK, PoolTypeOK, BrokerTypeOK, Crashes
<1>2. \A w \in Workers : ~KillWorker(w) BY <1>1 DEF KillWorker, RanOnce, Crashes
<1>3. \A b \in Messages : ~RestoreRunning(b) BY <1>1 DEF RestoreRunning, RanOnce
<1>4. ASSUME NEW w \in Workers, DeliverTask(w) \/ TaskStep(w) \/ Crash(w)
      PROVE  crashes'.kills = crashes.kills /\ timeouts' = timeouts
  BY <1>1, <1>2, <1>4 DEF DeliverTask, Deliver, TaskStep, StoreSuccess, AckTask, Crash, LoseChild,
    ImportStep, BeginImport, LockJob, SkipConversation, SelectConversation, ClaimConversation,
    ClaimFails, WriteMessages, DeadlockVictim, ImportCommit, PublishEmbed, EmbedStep,
    ReadConversations, ReadMessages, SkipExisting, EmbedFails, EmbedCommit, Raise, brokerVars, Crashes
<1>5. ASSUME NEW r \in Requests, Upload(r) \/ Reembed(r) PROVE UNCHANGED <<crashes, timeouts>>
  BY <1>5 DEF Upload, StartUpload, UploadStep, InsertJob, SaveUpload, Enqueue, RequestDies, Reembed,
    brokerVars, poolVars
<1>6. crashes'.kills = crashes.kills /\ timeouts' = timeouts
  BY <1>3, <1>4, <1>5 DEF Next, Restore, RestoreOrphan, Expire, ExpireResult, MoveUser, Idle, vars,
    brokerVars, poolVars
<1>7. RanOnce BY <1>6 DEF RanOnce
<1>8. QED BY <1>2, <1>3, <1>7

\* A running message has no other worker, its task id is its own, and nothing is
\* reported of it before its end.
LEMMA RunningOnce ==
  ASSUME Inv, SoleInv, RanOnceInv, RanOnce, NEW w \in Workers, pc[w] # "idle"
  PROVE  /\ task[w] \in Messages /\ broker[task[w]] = "unacked" /\ TaskId(task[w]) = task[w]
         /\ \A v \in Workers \ {w} : task[v] # task[w]
         /\ pc[w] # "ack" => result[task[w]] = "PENDING"
         /\ \A t \in 1..MaxTag, j \in Requests : task[w] = EmbedMsg(j, t) => t = 1
<1>1. task[w] \in Messages BY DEF Inv, TypeOK, TaskOK
<1>2. broker[task[w]] = "unacked" /\ \A v \in Workers \ {w} : task[v] # task[w]
  BY DEF SoleInv, RanOnce
<1>3. \A t \in 1..MaxTag, j \in Requests : task[w] = EmbedMsg(j, t) => t = 1
  BY <1>2 DEF RanOnceInv, OneEmbed
<1>4. TaskId(task[w]) = task[w]
  <2>1. CASE task[w].kind # "embed" BY <2>1 DEF TaskId
  <2>2. CASE task[w].kind = "embed"
    <3>1. PICK j \in Requests, t \in 1..MaxTag : task[w] = EmbedMsg(j, t)
      BY <1>1, <2>2 DEF Messages, ImportMessages, EmbedMessages, ReembedMessages, ImportMsg, ReembedMsg
    <3>2. t = 1 BY <1>3, <3>1
    <3>3. QED BY <3>1, <3>2 DEF TaskId, EmbedMsg
  <2>3. QED BY <2>1, <2>2
<1>5. ASSUME pc[w] # "ack" PROVE result[task[w]] = "PENDING"
  <2>1. Reported(task[w]) BY <1>1 DEF RanOnceInv
  <2>2. \A v \in Workers : task[v] = task[w] => pc[v] # "ack" BY <1>2, <1>5
  <2>3. QED BY <1>2, <1>4, <2>1, <2>2 DEF Reported
<1>6. QED BY <1>1, <1>2, <1>3, <1>4, <1>5

\* The messages a step of worker w, or none, does not touch stay in order.
LEMMA OnceFrame ==
  ASSUME Inv, SoleInv, RanOnceInv, RanOnce, NEW w \in Workers,
         \A v \in Workers \ {w} : pc'[v] = pc[v] /\ task'[v] = task[v],
         NEW b \in Messages, b # task[w], broker'[b] = broker[b] \/ broker[b] = "unsent",
         broker'[b] # "unacked" \/ broker[b] = "unacked", result'[b] \in {result[b], "PENDING"}
  PROVE  Reported(b)' /\ Held(b)'
<1>1. (TaskId(b) = b)' <=> TaskId(b) = b BY DEF TaskId
<1>2. Reported(b) /\ Held(b) BY DEF RanOnceInv
<1>3. \A v \in Workers : task[v] = b => v # w OBVIOUS
<1>4. Held(b)' BY <1>2, <1>3 DEF Held, Running
<1>5. Reported(b)' BY <1>1, <1>2, <1>3 DEF Reported
<1>6. QED BY <1>4, <1>5

\* An import that has ended stays so.
LEMMA EndedStays ==
  ASSUME Inv, SoleInv, RanOnceInv, RanOnce, NEW w \in Workers,
         DeliverTask(w) \/ TaskStep(w) \/ (Crash(w) /\ LoseChild(w)), NEW j \in Requests, ImportEnded(j)
  PROVE  ImportEnded(j)'
<1>1. /\ pc \in [Workers -> WorkerStates] /\ task \in [Workers -> Messages \cup {None}]
      /\ broker \in [Messages -> MessageStates] /\ ImportMsg(j) \in Messages
  BY MessageFacts DEF Inv, TypeOK, PoolTypeOK, BrokerTypeOK
<1>2. \A v \in Workers \ {w} : pc'[v] = pc[v] /\ task'[v] = task[v] BY OneMoves
<1>3. CASE broker[ImportMsg(j)] = "acked"
  <2>1. broker'[ImportMsg(j)] = "acked"
    BY <1>1, <1>3, TaskStepKinds DEF DeliverTask, Deliver, LoseChild, AckTask, Ack, PublishEmbed,
      Publish, Ends, Goes
  <2>2. QED BY <2>1 DEF ImportEnded
<1>4. ASSUME NEW v \in Workers, task[v] = ImportMsg(j), pc[v] \in {"store", "ack"}
      PROVE  ImportEnded(j)'
  <2>1. CASE v # w BY <1>2, <1>4, <2>1 DEF ImportEnded
  <2>2. CASE v = w
    <3>1. broker[task[w]] = "unacked" BY <1>4, <2>2, RunningOnce
    <3>2. CASE AckTask(w) \/ LoseChild(w)
      <4>1. broker'[ImportMsg(j)] = "acked"
        BY <1>1, <1>4, <2>2, <3>1, <3>2 DEF AckTask, LoseChild, Ack
      <4>2. QED BY <4>1 DEF ImportEnded
    <3>3. CASE Ends(w)
      <4>1. task'[w] = ImportMsg(j) /\ pc'[w] = "ack" BY <1>1, <1>4, <2>2, <3>3 DEF Ends
      <4>2. QED BY <4>1 DEF ImportEnded
    <3>4. QED
      BY <1>4, <2>2, <3>2, <3>3, TaskStepKinds DEF DeliverTask, Deliver, PublishEmbed, Goes
  <2>3. QED BY <2>1, <2>2
<1>5. QED BY <1>3, <1>4 DEF ImportEnded

\* An import publishes the first message of its job.
LEMMA PublishOnce ==
  ASSUME Inv, SoleInv, RanOnceInv, RanOnce, NEW w \in Workers, PublishEmbed(w),
         NEW j \in Requests, ImportEnded(j) => ImportEnded(j)'
  PROVE  OneEmbed(j)'
<1>1. /\ pc \in [Workers -> WorkerStates] /\ broker \in [Messages -> MessageStates]
  BY DEF Inv, TypeOK, PoolTypeOK, BrokerTypeOK
<1>2. pc[w] = "publish" /\ pc'[w] = "store" /\ task' = task BY <1>1 DEF PublishEmbed, To
<1>3. PICK r \in Requests : r = JobOf(w) /\ task[w] = ImportMsg(r)
  BY <1>2, ImportJobFacts DEF ImportStates
<1>4. PICK t \in 1..MaxTag :
        /\ Publish(EmbedMsg(r, t))
        /\ \A s \in 1..(t - 1) : broker[EmbedMsg(r, s)] # "unsent"
  BY <1>3 DEF PublishEmbed
<1>5. broker[EmbedMsg(r, 1)] = "unsent"
  <2>1. /\ broker[ImportMsg(r)] = "unacked"
        /\ \A v \in Workers : task[v] = ImportMsg(r) => v = w
    BY <1>2, <1>3, RunningOnce
  <2>2. ~ImportEnded(r) BY <1>2, <2>1 DEF ImportEnded
  <2>3. 1 \in 1..MaxTag BY BrokerAssumption
  <2>4. QED BY <2>2, <2>3 DEF RanOnceInv, OneEmbed
<1>6. t = 1
  <2>1. ~(1 \in 1..(t - 1)) BY <1>4, <1>5
  <2>2. QED BY <2>1
<1>7. ASSUME NEW s \in 1..MaxTag, broker'[EmbedMsg(j, s)] # "unsent"
      PROVE  s = 1 /\ ImportEnded(j)'
  <2>1. EmbedMsg(j, s) \in Messages BY MessageFacts
  <2>2. CASE broker[EmbedMsg(j, s)] # "unsent" BY <2>2 DEF RanOnceInv, OneEmbed
  <2>3. CASE broker[EmbedMsg(j, s)] = "unsent"
    <3>1. EmbedMsg(j, s) = EmbedMsg(r, t) BY <1>1, <1>4, <1>7, <2>1, <2>3 DEF Publish
    <3>2. s = t /\ j = r BY <3>1 DEF EmbedMsg
    <3>3. ImportEnded(r)' BY <1>2, <1>3 DEF ImportEnded
    <3>4. QED BY <1>6, <3>2, <3>3
  <2>4. QED BY <2>2, <2>3
<1>8. QED BY <1>7 DEF OneEmbed

\* A worker's step of a task that ran once.
LEMMA WorkerOnce ==
  ASSUME Inv, SoleInv, RanOnceInv, RanOnce, NEW w \in Workers,
         DeliverTask(w) \/ TaskStep(w) \/ (Crash(w) /\ LoseChild(w))
  PROVE  RanOnceInv'
<1>1. /\ pc \in [Workers -> WorkerStates] /\ task \in [Workers -> Messages \cup {None}]
      /\ broker \in [Messages -> MessageStates] /\ result \in [Messages -> Outcomes]
  BY DEF Inv, TypeOK, PoolTypeOK, BrokerTypeOK
<1>2. \A v \in Workers \ {w} : pc'[v] = pc[v] /\ task'[v] = task[v] BY OneMoves
<1>3. \A j \in Requests : ImportEnded(j) => ImportEnded(j)' BY EndedStays
<1>4. ASSUME \A j \in Requests, t \in 1..MaxTag :
               broker'[EmbedMsg(j, t)] # "unsent" => broker[EmbedMsg(j, t)] # "unsent",
             NEW j \in Requests
      PROVE  OneEmbed(j)'
  BY <1>3, <1>4 DEF RanOnceInv, OneEmbed
<1>5. CASE DeliverTask(w)
  <2>1. PICK c \in Messages : Deliver(w, c) BY <1>5 DEF DeliverTask
  <2> USE <2>1 DEF Deliver, To
  <2>2. \A j \in Requests, t \in 1..MaxTag :
          broker'[EmbedMsg(j, t)] # "unsent" => broker[EmbedMsg(j, t)] # "unsent"
    BY <1>1
  <2>3. task[w] = None BY DEF Inv, TypeOK, TaskOK
  <2>4. ASSUME NEW b \in Messages, b # c PROVE Reported(b)' /\ Held(b)'
    <3>1. b # task[w] /\ broker'[b] = broker[b] BY <1>1, <2>3, <2>4, NoTaskAssumption
    <3>2. result'[b] \in {result[b], "PENDING"} BY <1>1 DEF StoreResult
    <3>3. task'[w] # b BY <1>1, <2>4
    <3>4. QED BY <1>2, <3>1, <3>2, <3>3, OnceFrame
  <2>5. Reported(c)' /\ Held(c)'
    <3>1. Held(c)' BY <1>1 DEF Held, Running
    <3>2. Reported(c) /\ \A v \in Workers : task[v] = c => broker[task[v]] = "unacked"
      BY RunningOnce, NoTaskAssumption DEF RanOnceInv, Inv, TypeOK, TaskOK
    <3>3. (TaskId(c) = c)' <=> TaskId(c) = c BY DEF TaskId
    <3>4. result'[c] \in {result[c], "PENDING"} BY <1>1 DEF StoreResult
    <3>5. QED BY <3>1, <3>2, <3>3, <3>4 DEF Reported
  <2>6. QED BY <1>4, <2>2, <2>4, <2>5 DEF RanOnceInv
<1>6. CASE TaskStep(w) \/ LoseChild(w)
  <2>1. pc[w] # "idle"
    BY <1>6, TaskStepKinds DEF LoseChild, AckTask, PublishEmbed, Ends, Goes
  <2>2. PICK c \in Messages : c = task[w] BY <2>1, RunningOnce
  <2>3. /\ broker[c] = "unacked" /\ TaskId(c) = c
        /\ \A v \in Workers \ {w} : task[v] # c
        /\ pc[w] # "ack" => result[c] = "PENDING"
    BY <2>1, <2>2, RunningOnce
  <2>4. ASSUME NEW b \in Messages, b # c PROVE Reported(b)' /\ Held(b)'
    <3>1. broker'[b] = broker[b] \/ (broker[b] = "unsent" /\ broker'[b] = "queued")
      BY <1>1, <1>6, <2>2, <2>4, TaskStepKinds DEF LoseChild, AckTask, Ack, PublishEmbed, Publish,
        Ends, Goes
    <3>2. result'[b] \in {result[b], "PENDING"}
      BY <1>1, <1>6, <2>2, <2>3, <2>4, TaskStepKinds DEF LoseChild, AckTask, PublishEmbed,
        Ends, Goes, StoreResult
    <3>3. QED BY <1>2, <2>2, <2>4, <3>1, <3>2, OnceFrame
  <2>5. CASE AckTask(w) \/ LoseChild(w)
    <3>1. broker'[c] = "acked" BY <1>1, <2>2, <2>3, <2>5 DEF AckTask, LoseChild, Ack
    <3>2. Reported(c)' /\ Held(c)' BY <3>1 DEF Reported, Held
    <3>3. \A j \in Requests, t \in 1..MaxTag :
            broker'[EmbedMsg(j, t)] # "unsent" => broker[EmbedMsg(j, t)] # "unsent"
      BY <1>1, <2>5, MessageFacts DEF AckTask, LoseChild, Ack
    <3>4. QED BY <1>4, <2>4, <3>2, <3>3 DEF RanOnceInv
  <2>6. CASE Ends(w)
    <3>1. task'[w] = c /\ pc'[w] = "ack" /\ broker' = broker BY <1>1, <2>2, <2>6 DEF Ends
    <3>2. Reported(c)' /\ Held(c)' BY <3>1 DEF Reported, Held, Running
    <3>3. QED BY <1>4, <2>4, <3>1, <3>2 DEF RanOnceInv
  <2>7. CASE Goes(w)
    <3>1. task'[w] = c /\ broker' = broker /\ result'[c] = "PENDING"
      BY <2>2, <2>3, <2>7 DEF Goes
    <3>2. Reported(c)' /\ Held(c)' BY <3>1 DEF Reported, Held, Running
    <3>3. QED BY <1>4, <2>4, <3>1, <3>2 DEF RanOnceInv
  <2>8. CASE PublishEmbed(w)
    <3>1. /\ task' = task /\ result' = result /\ pc[w] = "publish" /\ pc'[w] = "store"
      BY <1>1, <2>8 DEF PublishEmbed, To
    <3>2. Reported(c)' /\ Held(c)' BY <2>2, <2>3, <3>1 DEF Reported, Held, Running
    <3>3. ASSUME NEW j \in Requests PROVE OneEmbed(j)' BY <1>3, <2>8, <3>3, PublishOnce
    <3>4. QED BY <2>4, <3>2, <3>3 DEF RanOnceInv
  <2>9. QED BY <1>6, <2>5, <2>6, <2>7, <2>8, TaskStepKinds
<1>7. QED BY <1>5, <1>6

\* A step outside the workers restores nothing that is running, publishes no embed
\* message of a chain and stores no outcome.
LEMMA OutsideOnce ==
  ASSUME Inv, RanOnceInv, RanOnce, UNCHANGED poolVars,
         \A b \in Messages : result'[b] \in {result[b], "PENDING"},
         \A b \in Messages :
           broker'[b] = broker[b] \/ (broker[b] = "unsent" /\ b.kind # "embed")
             \/ (broker[b] = "unacked" /\ ~Running(b)),
         \A b \in Messages : broker'[b] = "unacked" => broker[b] = "unacked"
  PROVE  RanOnceInv'
<1>1. \A b \in Messages : Reported(b) /\ Held(b) BY DEF RanOnceInv
<1>2. UNCHANGED <<pc, task>> BY DEF poolVars
<1>3. ASSUME NEW b \in Messages PROVE Reported(b)' /\ Held(b)'
  <2>1. Held(b)' BY <1>1, <1>2 DEF Held, Running
  <2>2. (TaskId(b) = b)' <=> TaskId(b) = b BY DEF TaskId
  <2>3. Reported(b)' BY <1>1, <1>2, <2>2 DEF Reported
  <2>4. QED BY <2>1, <2>3
<1>4. ASSUME NEW j \in Requests PROVE OneEmbed(j)'
  <2>1. ImportEnded(j) => ImportEnded(j)' BY <1>2, MessageFacts DEF ImportEnded
  <2>2. ASSUME NEW t \in 1..MaxTag, broker'[EmbedMsg(j, t)] # "unsent"
        PROVE  broker[EmbedMsg(j, t)] # "unsent"
    BY <2>2, MessageFacts
  <2>3. QED BY <2>1, <2>2 DEF RanOnceInv, OneEmbed
<1>5. QED BY <1>3, <1>4 DEF RanOnceInv

\* Every step keeps what holds of tasks that ran once.
LEMMA NextOnce ==
  ASSUME Inv, SoleInv, RanOnceInv, [Next]_vars
  PROVE  RanOnceInv'
<1> SUFFICES ASSUME RanOnce' PROVE RanOnceInv' BY DEF RanOnceInv
<1>1. /\ RanOnce
      /\ \A w \in Workers : ~KillWorker(w)
      /\ \A b \in Messages : ~RestoreRunning(b)
  BY RanOnceStays
<1>2. broker \in [Messages -> MessageStates] BY DEF Inv, TypeOK, BrokerTypeOK
<1>3. ASSUME NEW w \in Workers, DeliverTask(w) \/ TaskStep(w) \/ Crash(w) PROVE RanOnceInv'
  BY <1>1, <1>3, WorkerOnce DEF Crash
<1>4. ASSUME NEW r \in Requests, Upload(r) PROVE RanOnceInv'
  <2>1. UNCHANGED <<result, poolVars>> /\ (broker' = broker \/ Publish(ImportMsg(r)))
    BY <1>4 DEF Upload, StartUpload, UploadStep, InsertJob, SaveUpload, Enqueue, RequestDies,
      brokerVars
  <2>2. \A b \in Messages :
          broker'[b] = broker[b] \/ (broker[b] = "unsent" /\ broker'[b] = "queued" /\ b.kind # "embed")
    BY <1>2, <2>1, MessageFacts DEF Publish
  <2>3. QED BY <1>1, <2>1, <2>2, OutsideOnce
<1>5. ASSUME NEW r \in Requests, Reembed(r) PROVE RanOnceInv'
  <2>1. PICK t \in 1..MaxReembeds : Publish(ReembedMsg(r, t)) BY <1>5 DEF Reembed
  <2>2. UNCHANGED <<result, poolVars>> BY <1>5 DEF Reembed
  <2>3. ReembedMsg(r, t) \in Messages /\ ReembedMsg(r, t).kind = "reembed" BY MessageFacts
  <2>4. \A b \in Messages :
          broker'[b] = broker[b] \/ (broker[b] = "unsent" /\ broker'[b] = "queued" /\ b.kind # "embed")
    BY <1>2, <2>1, <2>3 DEF Publish
  <2>5. QED BY <1>1, <2>2, <2>4, OutsideOnce
<1>6. ASSUME NEW b \in Messages, Restore(b) \/ Expire(b) PROVE RanOnceInv'
  <2>1. RestoreOrphan(b) \/ Expire(b) BY <1>1, <1>6 DEF Restore
  <2>2. UNCHANGED poolVars BY <2>1 DEF RestoreOrphan, Expire, ExpireResult
  <2>3. \A c \in Messages :
          broker'[c] = broker[c]
            \/ (broker[c] = "unacked" /\ ~Running(c) /\ broker'[c] = "queued")
    BY <1>2, <2>1 DEF RestoreOrphan, Expire, ExpireResult
  <2>4. result \in [Messages -> Outcomes] BY DEF Inv, TypeOK, BrokerTypeOK
  <2>5. \A c \in Messages : result'[c] \in {result[c], "PENDING"}
    BY <2>1, <2>4 DEF RestoreOrphan, Expire, ExpireResult
  <2>6. QED BY <1>1, <2>2, <2>3, <2>5, OutsideOnce
<1>7. CASE (\E u \in Users : MoveUser(u)) \/ UNCHANGED vars
  BY <1>1, <1>7, OutsideOnce DEF MoveUser, vars, brokerVars
<1>8. QED BY <1>3, <1>4, <1>5, <1>6, <1>7 DEF Next, Idle

\* A task that ends with an outcome stores it under its own id.
LEMMA FailureStored ==
  ASSUME Inv, SoleInv, RanOnceInv, RanOnce, NEW w \in Workers, pc[w] \notin {"idle", "ack"},
         StoreResult(task[w], "FAILURE")
  PROVE  result'[task[w]] = "FAILURE"
<1>1. result \in [Messages -> Outcomes] BY DEF Inv, TypeOK, BrokerTypeOK
<1>2. /\ task[w] \in Messages /\ TaskId(task[w]) = task[w] /\ result[task[w]] = "PENDING"
  BY RunningOnce
<1>3. QED BY <1>1, <1>2 DEF StoreResult

\* A step outside the workers takes back nothing that was sent or acknowledged, and
\* no outcome of a task at its end.
LEMMA OutsideKeeps ==
  ASSUME Inv,
         \/ \E r \in Requests : Upload(r) \/ Reembed(r)
         \/ \E b \in Messages : Restore(b) \/ Expire(b)
         \/ \E u \in Users : MoveUser(u)
         \/ UNCHANGED vars
  PROVE  /\ UNCHANGED poolVars
         /\ \A b \in Messages :
              /\ broker'[b] = broker[b]
                   \/ (broker[b] = "unacked" /\ broker'[b] = "queued")
                   \/ (broker[b] = "unsent" /\ b.kind # "embed")
              /\ (\E w \in Workers : pc[w] = "ack" /\ TaskId(task[w]) = b) => result'[b] = result[b]
<1>1. broker \in [Messages -> MessageStates] /\ result \in [Messages -> Outcomes]
  BY DEF Inv, TypeOK, BrokerTypeOK
<1>2. ASSUME NEW r \in Requests, Upload(r)
      PROVE  UNCHANGED <<result, poolVars>> /\ (broker' = broker \/ Publish(ImportMsg(r)))
  BY <1>2 DEF Upload, StartUpload, UploadStep, InsertJob, SaveUpload, Enqueue, RequestDies,
    brokerVars
<1>3. ASSUME NEW r \in Requests, Reembed(r)
      PROVE  /\ UNCHANGED <<result, poolVars>>
             /\ \E t \in 1..MaxReembeds : Publish(ReembedMsg(r, t))
  BY <1>3 DEF Reembed
<1>4. ASSUME NEW b \in Messages, Restore(b)
      PROVE  /\ UNCHANGED <<result, poolVars>>
             /\ broker[b] = "unacked" /\ broker' = [broker EXCEPT ![b] = "queued"]
  BY <1>4 DEF Restore, RestoreOrphan, RestoreRunning, poolVars
<1>5. ASSUME NEW b \in Messages, Expire(b)
      PROVE  /\ UNCHANGED <<broker, poolVars>>
             /\ \A c \in Messages :
                  (\E w \in Workers : pc[w] = "ack" /\ TaskId(task[w]) = c) => result'[c] = result[c]
  BY <1>1, <1>5 DEF Expire, ExpireResult
<1>6. CASE (\E u \in Users : MoveUser(u)) \/ UNCHANGED vars
  BY <1>6 DEF MoveUser, vars, brokerVars
<1>7. QED BY <1>1, <1>2, <1>3, <1>4, <1>5, <1>6, MessageFacts DEF Publish

\* What is over stays so.
LEMMA OverStays ==
  ASSUME Inv, SoleInv, RanOnceInv, RanOnce, [Next]_vars, RanOnce', NEW j \in Requests, Over(j)
  PROVE  Over(j)'
<1>1. 1 \in 1..MaxTag BY BrokerAssumption
<1>2. PICK b \in Messages : b = EmbedMsg(j, 1) BY <1>1, MessageFacts
<1>3. PICK i \in Messages : i = ImportMsg(j) BY MessageFacts
<1>4. TaskId(b) = b /\ b.kind = "embed" BY <1>2 DEF TaskId, EmbedMsg
<1>5. /\ pc \in [Workers -> WorkerStates] /\ task \in [Workers -> Messages \cup {None}]
      /\ broker \in [Messages -> MessageStates] /\ result \in [Messages -> Outcomes]
  BY DEF Inv, TypeOK, PoolTypeOK, BrokerTypeOK
<1>6. ASSUME NEW w \in Workers, DeliverTask(w) \/ TaskStep(w) \/ Crash(w) PROVE Over(j)'
  <2>1. \A v \in Workers \ {w} : pc'[v] = pc[v] /\ task'[v] = task[v] BY <1>6, OneMoves
  <2>2. DeliverTask(w) \/ AckTask(w) \/ PublishEmbed(w) \/ Ends(w) \/ Goes(w) \/ LoseChild(w)
    BY <1>6, TaskStepKinds, RanOnceStays DEF Crash
  <2>3. \A c \in Messages : broker[c] = "acked" => broker'[c] = "acked"
    BY <1>5, <2>2 DEF DeliverTask, Deliver, AckTask, Ack, PublishEmbed, Publish, Ends, Goes, LoseChild
  <2>4. CASE broker[b] = "acked" BY <1>2, <2>3, <2>4 DEF Over
  <2>5. ASSUME NEW v \in Workers, result[b] = "FAILURE", task[v] = b, pc[v] = "ack" PROVE Over(j)'
    <3>1. broker[b] = "unacked" /\ \A x \in Workers \ {v} : task[x] # b BY <2>5, RunningOnce
    <3>2. CASE v = w
      <4>1. AckTask(w) BY <2>2, <2>5, <3>2 DEF DeliverTask, Deliver, PublishEmbed, Ends, Goes, LoseChild
      <4>2. broker'[b] = "acked" BY <1>5, <2>5, <3>1, <3>2, <4>1 DEF AckTask, Ack
      <4>3. QED BY <1>2, <4>2 DEF Over
    <3>3. CASE v # w
      <4>1. result'[b] = result[b]
        <5>1. ASSUME NEW c \in Messages, Deliver(w, c) PROVE result'[b] = result[b]
          <6>1. c # b /\ broker[c] = "queued" BY <3>1, <5>1 DEF Deliver
          <6>2. TaskId(c) # b
            <7>1. ASSUME TaskId(c) = b PROVE FALSE
              <8>1. c.kind = "embed" BY <1>4, <6>1, <7>1 DEF TaskId
              <8>2. PICK r \in Requests, t \in 1..MaxTag : c = EmbedMsg(r, t)
                BY <8>1 DEF Messages, ImportMessages, EmbedMessages, ReembedMessages, ImportMsg, ReembedMsg
              <8>3. t = 1 BY <6>1, <8>2 DEF RanOnceInv, OneEmbed
              <8>4. QED BY <6>1, <7>1, <8>2, <8>3 DEF TaskId, EmbedMsg
            <7>2. QED BY <7>1
          <6>3. QED BY <1>5, <5>1, <6>2 DEF Deliver, StoreResult
        <5>2. CASE pc[w] # "idle"
          <6>1. TaskId(task[w]) = task[w] /\ task[w] # b BY <3>1, <3>3, <5>2, RunningOnce
          <6>2. QED
            BY <1>5, <2>2, <5>1, <6>1 DEF DeliverTask, AckTask, PublishEmbed, Ends, Goes, LoseChild,
              StoreResult
        <5>3. CASE pc[w] = "idle"
          BY <2>2, <5>1, <5>3 DEF DeliverTask, AckTask, PublishEmbed, Ends, Goes, LoseChild
        <5>4. QED BY <5>2, <5>3
      <4>2. task'[v] = b /\ pc'[v] = "ack" BY <2>1, <2>5, <3>3
      <4>3. QED BY <1>2, <2>5, <4>1, <4>2 DEF Over
    <3>4. QED BY <3>2, <3>3
  <2>6. CASE broker[b] = "unsent" /\ broker[i] = "acked"
    <3>1. ASSUME PublishEmbed(w) PROVE broker'[b] = broker[b]
      <4>1. PICK r \in Requests : r = JobOf(w) /\ task[w] = ImportMsg(r) /\ pc[w] = "publish"
        BY <3>1, ImportJobFacts DEF ImportStates, PublishEmbed
      <4>2. broker[ImportMsg(r)] = "unacked" BY <4>1, RunningOnce
      <4>3. r # j BY <1>3, <2>6, <4>2
      <4>4. PICK t \in 1..MaxTag : Publish(EmbedMsg(r, t)) BY <3>1, <4>1 DEF PublishEmbed
      <4>5. EmbedMsg(r, t) # b BY <1>2, <4>3 DEF EmbedMsg
      <4>6. QED BY <1>5, <4>4, <4>5 DEF Publish
    <3>2. broker'[b] = "unsent"
      BY <1>5, <2>2, <2>6, <3>1 DEF DeliverTask, Deliver, AckTask, Ack, Ends, Goes, LoseChild
    <3>3. QED BY <1>2, <1>3, <2>3, <2>6, <3>2 DEF Over
  <2>7. QED BY <1>2, <1>3, <2>4, <2>5, <2>6 DEF Over
<1>7. ASSUME \/ \E r \in Requests : Upload(r) \/ Reembed(r)
             \/ \E c \in Messages : Restore(c) \/ Expire(c)
             \/ \E u \in Users : MoveUser(u)
             \/ UNCHANGED vars
      PROVE  Over(j)'
  <2>1. /\ UNCHANGED <<pc, task>>
        /\ broker[b] \in {"acked", "unsent"} => broker'[b] = broker[b]
        /\ broker[i] = "acked" => broker'[i] = "acked"
        /\ (\E w \in Workers : pc[w] = "ack" /\ task[w] = b) => result'[b] = result[b]
    BY <1>4, <1>7, OutsideKeeps DEF poolVars
  <2>2. QED BY <1>2, <1>3, <2>1 DEF Over
<1>8. QED BY <1>6, <1>7 DEF Next, Idle

\* A task that fails or is lost ends the indexing of its job, and leaves what the
\* others will embed to them.
LEMMA DueOrOver ==
  ASSUME Inv, SoleInv, RanOnceInv, RanOnce, NEW w \in Workers,
         \/ TaskStep(w) /\ EmbedFails(w)
         \/ Crash(w) /\ LoseChild(w),
         NEW j \in Requests, NEW k \in ConvKeys, NEW m \in MsgIds, Due(j, k, m)
  PROVE  (Due(j, k, m) \/ Over(j))'
<1>1. /\ pc \in [Workers -> WorkerStates] /\ task \in [Workers -> Messages \cup {None}]
      /\ tx \in [Workers -> Session] /\ broker \in [Messages -> MessageStates]
      /\ crashes \in Crashes
  BY DEF Inv, TypeOK, PoolTypeOK, BrokerTypeOK
<1>2. /\ pc[w] \notin {"idle", "ack"} /\ StoreResult(task[w], "FAILURE")
      /\ \A b \in Messages : broker[b] = "queued" => broker'[b] = "queued"
  BY <1>1 DEF EmbedFails, Raise, LoseChild, Ack
<1>3. \A v \in Workers \ {w} : pc'[v] = pc[v] /\ task'[v] = task[v] /\ tx'[v] = tx[v]
  BY OneMoves
<1>4. result'[task[w]] = "FAILURE" BY <1>2, FailureStored
<1>5. CASE Publishing(j)
  <2>1. PICK v \in Workers : pc[v] = "publish" /\ task[v] = ImportMsg(j) BY <1>5 DEF Publishing
  <2>2. CASE v = w
    <3>1. LoseChild(w) BY <2>1, <2>2 DEF EmbedFails
    <3>2. /\ task[w] = ImportMsg(j) /\ broker[ImportMsg(j)] = "unacked"
          /\ \A x \in Workers : task[x] = ImportMsg(j) => pc[x] = "publish"
      BY <2>1, <2>2, RunningOnce
    <3>3. ~ImportEnded(j) BY <3>2 DEF ImportEnded
    <3>4. 1 \in 1..MaxTag BY BrokerAssumption
    <3>5. broker[EmbedMsg(j, 1)] = "unsent" BY <3>3, <3>4 DEF RanOnceInv, OneEmbed
    <3>6. broker'[EmbedMsg(j, 1)] = "unsent" /\ broker'[ImportMsg(j)] = "acked"
      BY <1>1, <3>1, <3>2, <3>4, <3>5, MessageFacts DEF LoseChild, Ack
    <3>7. QED BY <3>6 DEF Over
  <2>3. CASE v # w BY <1>3, <2>1, <2>3 DEF Publishing, Due
  <2>4. QED BY <2>2, <2>3
<1>6. CASE EmbedWaits(j)
  <2>1. \A b \in Messages : Waiting(b) => broker[b] = "queued" BY DEF Waiting, RanOnceInv, Held
  <2>2. \A b \in Messages : Waiting(b) => Waiting(b)' BY <1>2, <2>1 DEF Waiting
  <2>3. QED BY <1>6, <2>2, WaitsKept DEF Due
<1>7. CASE EmbedRuns(j, k, m)
  <2>1. PICK t \in 1..MaxTag, v \in Workers : task[v] = EmbedMsg(j, t) /\ WillEmbed(v, k, m)
    BY <1>7 DEF EmbedRuns
  <2>2. CASE v = w
    <3>1. t = 1 BY <1>2, <2>1, <2>2, RunningOnce
    <3>2. task[w] = EmbedMsg(j, 1) /\ broker[task[w]] = "unacked" BY <1>2, <2>1, <2>2, <3>1, RunningOnce
    <3>3. CASE LoseChild(w)
      <4>1. broker'[EmbedMsg(j, 1)] = "acked"
        BY <1>1, <3>1, <3>2, <3>3, MessageFacts DEF LoseChild, Ack
      <4>2. QED BY <4>1 DEF Over
    <3>4. CASE EmbedFails(w)
      <4>1. task'[w] = task[w] /\ pc'[w] = "ack" BY <1>1, <3>4 DEF EmbedFails, Raise, To
      <4>2. QED BY <1>4, <3>2, <4>1 DEF Over
    <3>5. QED BY <3>3, <3>4
  <2>3. CASE v # w
    <3>1. task'[v] = EmbedMsg(j, t) /\ WillEmbed(v, k, m)' BY <1>3, <2>1, <2>3 DEF WillEmbed
    <3>2. QED BY <3>1 DEF EmbedRuns, Due
  <2>4. QED BY <2>2, <2>3
<1>8. ~ImportReruns(j)
  BY <1>1, WorkerAssumption DEF ImportReruns, RanOnce, Crashes
<1>9. QED BY <1>5, <1>6, <1>7, <1>8 DEF Due

\* Every step leaves each stored message to somebody who will embed it, unless its
\* job's indexing is over.
LEMMA NextFailure ==
  ASSUME Inv, DataInv, IndexInv, RanOnceInv, FailureInv, [Next]_vars
  PROVE  FailureInv'
<1> SUFFICES ASSUME RanOnce', NEW k \in ConvKeys, NEW m \in MsgIds,
                    msgs'[k][m] # None, embs'[k][m] = <<>>
             PROVE  (Due(convs[k].job, k, m) \/ Over(convs[k].job))'
  BY DEF FailureInv
<1>1. /\ RanOnce
      /\ \A w \in Workers : ~KillWorker(w)
      /\ \A b \in Messages : ~RestoreRunning(b)
  BY RanOnceStays
<1>2. SoleInv /\ SelectInv BY DEF IndexInv
<1>3. embs[k][m] = <<>>
  <2>1. embs \in Embeddings BY DEF Inv, TypeOK, StoreTypeOK
  <2>2. embs[k][m] \in Seq(Texts) BY <2>1 DEF Embeddings
  <2>3. Len(embs[k][m]) \in Nat /\ Len(embs'[k][m]) = 0 BY <2>2
  <2>4. Len(embs[k][m]) = 0 BY <2>3, RecordsGrow
  <2>5. QED BY <2>2, <2>4
<1>4. ASSUME msgs[k][m] # None
      PROVE  /\ convs[k] # None /\ convs[k].job \in Requests /\ Completed(convs[k].job)
             /\ Due(convs[k].job, k, m) \/ Over(convs[k].job)
  BY <1>1, <1>3, <1>4, StoredFacts DEF FailureInv
<1>5. ASSUME msgs[k][m] # None, convs'[k] = convs[k], Over(convs[k].job)
      PROVE  Over(convs[k].job)'
  <2>1. PICK j \in Requests : j = convs[k].job BY <1>4, <1>5
  <2>2. Over(j)' BY <1>1, <1>2, <1>5, <2>1, OverStays
  <2>3. j = convs'[k].job BY <1>5, <2>1
  <2>4. QED BY <2>2, <2>3
<1>6. ASSUME UNCHANGED <<convs, msgs>>,
             \A j \in Requests :
               j = convs[k].job /\ Due(j, k, m) => (Due(j, k, m) \/ Over(j))'
      PROVE  (Due(convs[k].job, k, m) \/ Over(convs[k].job))'
  <2>1. PICK j \in Requests : j = convs[k].job BY <1>4, <1>6
  <2>2. j = convs'[k].job BY <1>6, <2>1
  <2>3. CASE Due(j, k, m)
    <3>1. (Due(j, k, m) \/ Over(j))' BY <1>6, <2>1, <2>3
    <3>2. QED BY <2>2, <3>1
  <2>4. CASE ~Due(j, k, m) BY <1>4, <1>5, <1>6, <2>1, <2>4
  <2>5. QED BY <2>3, <2>4
<1>7. ASSUME UNCHANGED <<convs, msgs, poolVars>>,
             \A b \in Messages :
               /\ broker[b] = "queued" => broker'[b] = "queued"
               /\ broker[b] = "unacked" => broker'[b] \in {"queued", "unacked"}
      PROVE  (Due(convs[k].job, k, m) \/ Over(convs[k].job))'
  BY <1>6, <1>7, DueOutside
<1>8. ASSUME NEW r \in Requests, Upload(r) \/ Reembed(r)
      PROVE  (Due(convs[k].job, k, m) \/ Over(convs[k].job))'
  <2>1. broker \in [Messages -> MessageStates] BY DEF Inv, TypeOK, BrokerTypeOK
  <2>2. UNCHANGED <<convs, msgs, poolVars>> BY <1>8, UploadData DEF Reembed, storeVars
  <2>3. \A b \in Messages : broker[b] # "unsent" => broker'[b] = broker[b]
    BY <1>8, <2>1 DEF Upload, StartUpload, UploadStep, InsertJob, SaveUpload, Enqueue, RequestDies,
      Reembed, Publish, brokerVars
  <2>4. QED BY <1>7, <2>2, <2>3
<1>9. ASSUME NEW b \in Messages, Restore(b) \/ Expire(b)
      PROVE  (Due(convs[k].job, k, m) \/ Over(convs[k].job))'
  <2>1. broker \in [Messages -> MessageStates] BY DEF Inv, TypeOK, BrokerTypeOK
  <2>2. QED
    BY <1>7, <1>9, <2>1 DEF Restore, RestoreOrphan, RestoreRunning, Expire, ExpireResult, storeVars
<1>10. CASE (\E u \in Users : MoveUser(u)) \/ UNCHANGED vars
  BY <1>7, <1>10 DEF MoveUser, vars, storeVars, brokerVars
<1>11. ASSUME NEW w \in Workers, DeliverTask(w)
       PROVE  (Due(convs[k].job, k, m) \/ Over(convs[k].job))'
  <2>1. UNCHANGED <<convs, msgs>> BY <1>11 DEF DeliverTask, Deliver, storeVars
  <2>2. QED BY <1>6, <1>11, <2>1, DueDeliver
<1>12. ASSUME NEW w \in Workers, Crash(w)
       PROVE  (Due(convs[k].job, k, m) \/ Over(convs[k].job))'
  <2>1. LoseChild(w) BY <1>1, <1>12 DEF Crash
  <2>2. UNCHANGED <<convs, msgs>> BY <2>1 DEF LoseChild, storeVars
  <2>3. QED BY <1>1, <1>2, <1>6, <1>12, <2>1, <2>2, DueOrOver
<1>13. ASSUME NEW w \in Workers, TaskStep(w), ~ImportCommit(w)
       PROVE  (Due(convs[k].job, k, m) \/ Over(convs[k].job))'
  <2>1. UNCHANGED <<convs, msgs>> BY <1>13, OnlyCommitsWrite
  <2>2. ~(crashes'.kills > 0) BY DEF RanOnce
  <2>3. CASE PublishEmbed(w) BY <1>6, <2>1, <2>3, DuePublish
  <2>4. CASE ImportStep(w) /\ ~PublishEmbed(w)
    BY <1>2, <1>4, <1>6, <1>13, <2>1, <2>2, <2>4, DueImportStep
  <2>5. CASE EmbedFails(w) BY <1>1, <1>2, <1>6, <1>13, <2>1, <2>5, DueOrOver
  <2>6. CASE EmbedStep(w) /\ ~EmbedFails(w) BY <1>4, <1>6, <1>13, <2>1, <2>6, DueEmbedStep
  <2>7. CASE StoreSuccess(w) \/ AckTask(w) BY <1>6, <1>13, <2>1, <2>7, DueEnd
  <2>8. QED BY <1>13, <2>3, <2>4, <2>5, <2>6, <2>7 DEF TaskStep
<1>14. ASSUME NEW w \in Workers, TaskStep(w), ImportCommit(w)
       PROVE  (Due(convs[k].job, k, m) \/ Over(convs[k].job))'
  <2>1. CASE msgs[k][m] # None => Due(convs[k].job, k, m)
    BY <1>2, <1>14, <2>1, DueCommit
  <2>2. CASE k \in tx[w].moved BY <1>14, <2>2, ClaimedIsDue
  <2>3. CASE k \notin tx[w].moved /\ msgs[k][m] # None /\ ~Due(convs[k].job, k, m)
    <3>1. convs'[k] = convs[k] BY <1>2, <1>14, <2>3, UnclaimedWasThere
    <3>2. QED BY <1>4, <1>5, <2>3, <3>1
  <2>4. QED BY <2>1, <2>2, <2>3
<1>15. QED
  BY <1>8, <1>9, <1>10, <1>11, <1>12, <1>13, <1>14 DEF Next, Idle

\* The invariant that settles what becomes of the indexing of a job.
LEMMA FailureHolds == Spec => [](SafetyInv /\ IndexInv /\ RanOnceInv /\ FailureInv)
<1>1. Init => RanOnceInv /\ FailureInv
  <2> SUFFICES ASSUME Init PROVE RanOnceInv /\ FailureInv OBVIOUS
  <2> USE DEF Init, StoreInit, BrokerInit, PoolInit
  <2>1. RanOnceInv BY MessageFacts DEF RanOnceInv, OneEmbed, Reported, Held
  <2>2. FailureInv BY DEF FailureInv, NoContents
  <2>3. QED BY <2>1, <2>2
<1>2. SafetyInv /\ IndexInv /\ RanOnceInv /\ FailureInv /\ [Next]_vars => RanOnceInv' /\ FailureInv'
  BY NextOnce, NextFailure DEF SafetyInv, IndexInv
<1>3. QED BY <1>1, <1>2, IndexHolds, PTL DEF Spec

\* When nothing is under way, a search of its owner's history finds every message
\* stored, however often workers were killed, unless something disturbed the tasks.
THEOREM StoredIsSearchable == Spec => []SettledMeansSearchable
<1>1. SafetyInv /\ IndexInv => SettledMeansSearchable
  <2> SUFFICES ASSUME Inv, DataInv, DueInv, Quiet,
                      NEW k \in ConvKeys, NEW m \in MsgIds, msgs[k][m] # None,
                      <<k, m>> \notin Candidates(convs[k].owner)
               PROVE  ~Undisturbed
    BY DEF SafetyInv, IndexInv, SettledMeansSearchable
  <2>1. convs[k] # None /\ convs[k].job \in Requests BY StoredFacts
  <2>2. PICK j \in Requests : j = convs[k].job BY <2>1
  <2>3. ~Due(j, k, m)
    <3>1. /\ \A w \in Workers : pc[w] = "idle"
          /\ \A b \in Messages : broker[b] \in {"unsent", "acked"}
      BY DEF Quiet
    <3>2. ~Publishing(j) BY <3>1 DEF Publishing
    <3>3. ~EmbedWaits(j) BY <3>1, MessageFacts DEF EmbedWaits, Waiting
    <3>4. ~EmbedRuns(j, k, m) BY <3>1 DEF EmbedRuns, WillEmbed
    <3>5. ~ImportReruns(j) BY <3>1, MessageFacts DEF ImportReruns
    <3>6. QED BY <3>2, <3>3, <3>4, <3>5 DEF Due
  <2>4. embs[k][m] = <<>> BY <2>1 DEF Candidates, HasImports
  <2>5. QED BY <2>2, <2>3, <2>4 DEF DueInv
<1>2. QED BY <1>1, IndexHolds, PTL

\* At the end of an embed task that did not fail nobody else would embed for the job.
LEMMA NobodyElse ==
  ASSUME Inv, SoleInv, RanOnceInv, RanOnce, NEW w \in Workers, NEW j \in Requests,
         task[w] = EmbedMsg(j, 1), pc[w] = "ack", result[task[w]] # "FAILURE",
         NEW k \in ConvKeys, NEW m \in MsgIds
  PROVE  ~Due(j, k, m) /\ ~Over(j)
<1>1. 1 \in 1..MaxTag BY BrokerAssumption
<1>2. /\ broker[EmbedMsg(j, 1)] = "unacked"
      /\ \A v \in Workers \ {w} : task[v] # EmbedMsg(j, 1)
  BY RunningOnce
<1>3. ImportEnded(j) BY <1>1, <1>2 DEF RanOnceInv, OneEmbed
<1>4. ~Publishing(j)
  <2>1. ASSUME NEW v \in Workers, pc[v] = "publish", task[v] = ImportMsg(j) PROVE FALSE
    <3>1. broker[ImportMsg(j)] = "unacked" /\ \A x \in Workers \ {v} : task[x] # ImportMsg(j)
      BY <2>1, RunningOnce
    <3>2. QED BY <1>3, <2>1, <3>1 DEF ImportEnded
  <2>2. QED BY <2>1 DEF Publishing
<1>5. ~EmbedWaits(j)
  <2>1. ASSUME NEW t \in 1..MaxTag, Waiting(EmbedMsg(j, t)) PROVE FALSE
    <3>1. broker[EmbedMsg(j, t)] # "unsent" BY <2>1 DEF Waiting
    <3>2. t = 1 BY <3>1 DEF RanOnceInv, OneEmbed
    <3>3. QED BY <1>2, <2>1, <3>2 DEF Waiting, Running
  <2>2. QED BY <2>1 DEF EmbedWaits
<1>6. ~EmbedRuns(j, k, m)
  <2>1. ASSUME NEW t \in 1..MaxTag, NEW v \in Workers, task[v] = EmbedMsg(j, t), WillEmbed(v, k, m)
        PROVE  FALSE
    <3>1. pc[v] # "idle" BY <2>1 DEF WillEmbed
    <3>2. t = 1 BY <2>1, <3>1, RunningOnce
    <3>3. v = w BY <1>2, <2>1, <3>2
    <3>4. QED BY <2>1, <3>3 DEF WillEmbed
  <2>2. QED BY <2>1 DEF EmbedRuns
<1>7. ~ImportReruns(j)
  <2>1. crashes.kills = 0 BY DEF RanOnce
  <2>2. ~(crashes.kills > 0) BY <2>1
  <2>3. QED BY <2>2 DEF ImportReruns
<1>8. ~Over(j) BY <1>2 DEF Over
<1>9. QED BY <1>4, <1>5, <1>6, <1>7, <1>8 DEF Due

\* Only the end of its embed task gives up the indexing of a job.
LEMMA IndexingEnds ==
  ASSUME Inv, SoleInv, RanOnceInv, RanOnce, [Next]_vars, RanOnce',
         NEW j \in Requests, Indexing(j), ~Indexing(j)'
  PROVE  \E w \in Workers : task[w] = EmbedMsg(j, 1) /\ (AckTask(w) \/ LoseChild(w))
<1>1. PICK b \in Messages : b = EmbedMsg(j, 1)
  <2>1. 1 \in 1..MaxTag BY BrokerAssumption
  <2>2. QED BY <2>1, MessageFacts
<1>2. /\ pc \in [Workers -> WorkerStates] /\ task \in [Workers -> Messages \cup {None}]
      /\ broker \in [Messages -> MessageStates]
  BY DEF Inv, TypeOK, PoolTypeOK, BrokerTypeOK
<1>3. PICK w \in Workers : DeliverTask(w) \/ TaskStep(w) \/ Crash(w)
  <2>1. SUFFICES ASSUME \/ \E r \in Requests : Upload(r) \/ Reembed(r)
                        \/ \E c \in Messages : Restore(c) \/ Expire(c)
                        \/ \E u \in Users : MoveUser(u)
                        \/ UNCHANGED vars
                 PROVE  FALSE
    BY DEF Next, Idle
  <2>2. UNCHANGED task /\ (broker[b] \in {"queued", "unacked"} => broker'[b] \in {"queued", "unacked"})
    BY <2>1, OutsideKeeps DEF poolVars
  <2>3. QED BY <1>1, <2>2 DEF Indexing, Running
<1>4. \A v \in Workers \ {w} : task'[v] = task[v] BY <1>3, OneMoves
<1>5. DeliverTask(w) \/ AckTask(w) \/ PublishEmbed(w) \/ Ends(w) \/ Goes(w) \/ LoseChild(w)
  BY <1>3, TaskStepKinds, RanOnceStays DEF Crash
<1>6. ASSUME ~(task[w] = b /\ (AckTask(w) \/ LoseChild(w))) PROVE FALSE
  <2>1. task[w] = b => task'[w] = b
    BY <1>2, <1>5, <1>6, NoTaskAssumption DEF DeliverTask, Deliver, PublishEmbed, Ends, Goes, Inv,
      TypeOK, TaskOK
  <2>2. Running(b) => Running(b)' BY <1>4, <2>1 DEF Running
  <2>3. broker[b] \in {"queued", "unacked"} => broker'[b] \in {"queued", "unacked"}
    BY <1>2, <1>5, <1>6 DEF DeliverTask, Deliver, AckTask, Ack, PublishEmbed, Publish, Ends, Goes,
      LoseChild
  <2>4. QED BY <1>1, <2>2, <2>3 DEF Indexing
<1>7. QED BY <1>1, <1>6

\* The indexing of a job, whose conversations other jobs may take meanwhile, is given
\* up only when it has failed or when each message of the conversations that are the
\* job's is embedded, as long as each message was run once.
THEOREM IndexingIsKept == Spec => NoIndexingIsLost
<1> DEFINE GivenUp == RanOnce' => \A r \in Requests : Indexing(r) /\ ~Indexing(r)' => Indexed(r)'
<1>1. SafetyInv /\ IndexInv /\ RanOnceInv /\ FailureInv /\ [Next]_vars => [GivenUp]_vars
  <2> SUFFICES ASSUME Inv, SoleInv, RanOnceInv, FailureInv, [Next]_vars, RanOnce',
                      NEW r \in Requests, Indexing(r), ~Indexing(r)'
               PROVE  Indexed(r)'
    BY DEF SafetyInv, IndexInv
  <2>1. RanOnce BY RanOnceStays
  <2>2. PICK w \in Workers : task[w] = EmbedMsg(r, 1) /\ (AckTask(w) \/ LoseChild(w))
    BY <2>1, IndexingEnds
  <2>3. CASE LoseChild(w)
    <3>1. result'[EmbedMsg(r, 1)] = "FAILURE" BY <2>1, <2>2, <2>3, FailureStored DEF LoseChild
    <3>2. QED BY <3>1 DEF Indexed
  <2>4. CASE AckTask(w)
    <3>1. pc[w] = "ack" /\ UNCHANGED <<convs, msgs, embs, result>> BY <2>4 DEF AckTask, storeVars
    <3>2. CASE result[EmbedMsg(r, 1)] = "FAILURE" BY <3>1, <3>2 DEF Indexed
    <3>3. CASE result[EmbedMsg(r, 1)] # "FAILURE"
      <4>1. ASSUME NEW k \in ConvKeys, NEW m \in MsgIds, convs[k] # None, convs[k].job = r,
                   msgs[k][m] # None, embs[k][m] = <<>>
            PROVE  FALSE
        <5>1. ~Due(r, k, m) /\ ~Over(r) BY <2>1, <2>2, <3>1, <3>3, NobodyElse
        <5>2. QED BY <2>1, <4>1, <5>1 DEF FailureInv
      <4>2. QED BY <3>1, <4>1 DEF Indexed
    <3>4. QED BY <3>2, <3>3
  <2>5. QED BY <2>2, <2>3, <2>4
<1>2. QED BY <1>1, FailureHolds, PTL DEF Spec, NoIndexingIsLost

(***************************************************************************)
(* A job is given up only when its import is decided.                      *)
(***************************************************************************)
\* The outcome of the import a worker is about to acknowledge is stored, or another
\* worker runs the same message and will store one.
OutcomeOK(w) ==
  \/ result[task[w]] # "PENDING"
  \/ \E v \in Workers : task[v] = task[w] /\ pc[v] # "ack"

OutcomeInv ==
  timeouts = 0 \/ crashes.kills = 0 =>
    \A w \in Workers : pc[w] = "ack" /\ task[w].kind = "import" => OutcomeOK(w)

\* Kills and timeouts are not undone, and a kill is counted.
LEMMA RepeatsStay ==
  ASSUME Inv, [Next]_vars
  PROVE  /\ timeouts' = 0 => timeouts = 0
         /\ crashes'.kills = 0 => crashes.kills = 0
         /\ \A w \in Workers : KillWorker(w) => crashes'.kills > 0 /\ timeouts' = timeouts
<1>1. crashes \in Crashes /\ timeouts \in Nat /\ crashes.kills \in Nat
  BY WorkerAssumption, BrokerAssumption DEF Inv, TypeOK, PoolTypeOK, BrokerTypeOK, Crashes
<1>2. ASSUME NEW w \in Workers, KillWorker(w)
      PROVE  crashes'.kills = crashes.kills + 1 /\ timeouts' = timeouts
  BY <1>1, <1>2 DEF KillWorker, brokerVars, Crashes
<1>3. ASSUME NEW w \in Workers, DeliverTask(w) \/ TaskStep(w) \/ LoseChild(w)
      PROVE  crashes'.kills = crashes.kills /\ timeouts' = timeouts
  BY <1>1, <1>3 DEF DeliverTask, Deliver, TaskStep, StoreSuccess, AckTask, LoseChild,
    ImportStep, BeginImport, LockJob, SkipConversation, SelectConversation, ClaimConversation,
    ClaimFails, WriteMessages, DeadlockVictim, ImportCommit, PublishEmbed, EmbedStep,
    ReadConversations, ReadMessages, SkipExisting, EmbedFails, EmbedCommit, Raise, brokerVars, Crashes
<1>4. ASSUME NEW r \in Requests, Upload(r) \/ Reembed(r) PROVE UNCHANGED <<crashes, timeouts>>
  BY <1>4 DEF Upload, StartUpload, UploadStep, InsertJob, SaveUpload, Enqueue, RequestDies, Reembed,
    brokerVars, poolVars
<1>5. ASSUME NEW b \in Messages, RestoreRunning(b) PROVE crashes' = crashes /\ timeouts' = timeouts + 1
  BY <1>5 DEF RestoreRunning, poolVars
<1>6. \/ UNCHANGED <<crashes, timeouts>>
      \/ \E w \in Workers : DeliverTask(w) \/ TaskStep(w) \/ LoseChild(w) \/ KillWorker(w)
      \/ \E b \in Messages : RestoreRunning(b)
  BY <1>4 DEF Next, Restore, RestoreOrphan, Expire, ExpireResult, MoveUser, Idle, Crash, vars,
    brokerVars, poolVars
<1>7. QED BY <1>1, <1>2, <1>3, <1>5, <1>6

\* A worker's step keeps the outcome of an import that another has ended.
LEMMA OthersOutcome ==
  ASSUME Inv, NEW w \in Workers, DeliverTask(w) \/ TaskStep(w) \/ (Crash(w) /\ LoseChild(w)),
         NEW x \in Workers \ {w}, pc[x] = "ack", task[x].kind = "import", OutcomeOK(x)
  PROVE  OutcomeOK(x)'
<1>1. /\ pc \in [Workers -> WorkerStates] /\ task \in [Workers -> Messages \cup {None}]
      /\ broker \in [Messages -> MessageStates] /\ result \in [Messages -> Outcomes]
  BY DEF Inv, TypeOK, PoolTypeOK, BrokerTypeOK
<1>2. \A v \in Workers \ {w} : pc'[v] = pc[v] /\ task'[v] = task[v] BY OneMoves
<1>3. PICK c \in Messages : c = task[x] BY DEF Inv, TypeOK, TaskOK
<1>4. c.kind = "import" /\ TaskId(c) = c BY <1>3 DEF TaskId
<1>5. \A b : TaskId(b) = c => b = c BY <1>4 DEF TaskId, EmbedMsg
<1>6. CASE DeliverTask(w)
  <2>1. PICK b \in Messages : Deliver(w, b) BY <1>6 DEF DeliverTask
  <2> USE <2>1 DEF Deliver, To
  <2>2. task[w] = None BY DEF Inv, TypeOK, TaskOK
  <2>3. CASE b = c
    <3>1. task'[w] = c /\ pc'[w] # "ack" BY <1>1, <2>3
    <3>2. QED BY <1>2, <1>3, <3>1 DEF OutcomeOK
  <2>4. CASE b # c
    <3>1. TaskId(b) # c BY <1>5, <2>4
    <3>2. result'[c] = result[c] BY <1>1, <3>1 DEF StoreResult
    <3>3. \A v \in Workers : task[v] = c => v # w BY <2>2, NoTaskAssumption
    <3>4. QED BY <1>2, <1>3, <3>2, <3>3 DEF OutcomeOK
  <2>5. QED BY <2>3, <2>4
<1>7. CASE AckTask(w) \/ PublishEmbed(w) \/ Goes(w)
  <2>1. result' = result /\ (pc[w] # "ack" => task'[w] = task[w] /\ pc'[w] # "ack")
    BY <1>1, <1>7 DEF AckTask, PublishEmbed, Goes, To
  <2>2. QED BY <1>2, <1>3, <2>1 DEF OutcomeOK
<1>8. CASE Ends(w) \/ LoseChild(w)
  <2>1. PICK outcome \in {"SUCCESS", "FAILURE"} : StoreResult(task[w], outcome)
    BY <1>8 DEF Ends, LoseChild
  <2>2. CASE task[w] = c
    <3>1. result'[c] # "PENDING" BY <1>1, <1>4, <2>1, <2>2 DEF StoreResult
    <3>2. QED BY <1>2, <1>3, <3>1 DEF OutcomeOK
  <2>3. CASE task[w] # c
    <3>1. TaskId(task[w]) # c BY <1>5, <2>3
    <3>2. result'[c] = result[c] BY <1>1, <2>1, <3>1 DEF StoreResult
    <3>3. QED BY <1>2, <1>3, <2>3, <3>2 DEF OutcomeOK
  <2>4. QED BY <2>2, <2>3
<1>9. QED BY <1>6, <1>7, <1>8, TaskStepKinds

\* A worker that comes to the end of an import has stored its outcome.
LEMMA OwnOutcome ==
  ASSUME Inv, NEW w \in Workers, DeliverTask(w) \/ TaskStep(w) \/ (Crash(w) /\ LoseChild(w)),
         pc'[w] = "ack", task'[w].kind = "import"
  PROVE  OutcomeOK(w)'
<1>1. /\ pc \in [Workers -> WorkerStates] /\ task \in [Workers -> Messages \cup {None}]
      /\ result \in [Messages -> Outcomes]
  BY DEF Inv, TypeOK, PoolTypeOK, BrokerTypeOK
<1>2. Ends(w)
  BY <1>1, TaskStepKinds DEF DeliverTask, Deliver, LoseChild, AckTask, PublishEmbed, Goes, To
<1>3. PICK c \in Messages : c = task[w] /\ task'[w] = c BY <1>2 DEF Ends, Inv, TypeOK, TaskOK
<1>4. TaskId(c) = c BY <1>3 DEF TaskId
<1>5. result'[c] # "PENDING" BY <1>1, <1>2, <1>3, <1>4 DEF Ends, StoreResult
<1>6. QED BY <1>3, <1>5 DEF OutcomeOK

LEMMA NextOutcome ==
  ASSUME Inv, SoleInv, OutcomeInv, [Next]_vars
  PROVE  OutcomeInv'
<1> SUFFICES ASSUME timeouts' = 0 \/ crashes'.kills = 0,
                    NEW x \in Workers, pc'[x] = "ack", task'[x].kind = "import"
             PROVE  OutcomeOK(x)'
  BY DEF OutcomeInv
<1>1. timeouts = 0 \/ crashes.kills = 0 BY RepeatsStay
<1>2. pc[x] = "ack" /\ task[x].kind = "import" => OutcomeOK(x) BY <1>1 DEF OutcomeInv
<1>3. ASSUME NEW w \in Workers, DeliverTask(w) \/ TaskStep(w) \/ (Crash(w) /\ LoseChild(w))
      PROVE  OutcomeOK(x)'
  <2>1. CASE x = w BY <1>3, <2>1, OwnOutcome
  <2>2. CASE x # w
    <3>1. pc'[x] = pc[x] /\ task'[x] = task[x] BY <1>3, <2>2, OneMoves
    <3>2. QED BY <1>2, <1>3, <2>2, <3>1, OthersOutcome
  <2>3. QED BY <2>1, <2>2
<1>4. ASSUME NEW w \in Workers, KillWorker(w) PROVE OutcomeOK(x)'
  <2>1. /\ pc \in [Workers -> WorkerStates] /\ task \in [Workers -> Messages \cup {None}]
        /\ crashes.kills \in Nat
    BY WorkerAssumption DEF Inv, TypeOK, PoolTypeOK, Crashes
  <2>2. timeouts = 0 BY <1>4, RepeatsStay
  <2>3. /\ x # w /\ pc[x] = "ack" /\ task'[x] = task[x] /\ result' = result
        /\ \A v \in Workers \ {w} : pc'[v] = pc[v] /\ task'[v] = task[v]
    BY <1>4, <2>1 DEF KillWorker, To, brokerVars
  <2>4. \A v \in Workers \ {x} : task[v] # task[x] BY <2>2, <2>3 DEF SoleInv
  <2>5. result[task[x]] # "PENDING" BY <1>2, <2>3, <2>4 DEF OutcomeOK
  <2>6. QED BY <2>3, <2>5 DEF OutcomeOK
<1>5. ASSUME \/ \E r \in Requests : Upload(r) \/ Reembed(r)
             \/ \E c \in Messages : Restore(c) \/ Expire(c)
             \/ \E u \in Users : MoveUser(u)
             \/ UNCHANGED vars
      PROVE  OutcomeOK(x)'
  <2>1. UNCHANGED <<pc, task>> BY <1>5, OutsideKeeps DEF poolVars
  <2>2. task[x] \in Messages /\ TaskId(task[x]) = task[x]
    BY <2>1 DEF Inv, TypeOK, TaskOK, TaskId
  <2>3. result'[task[x]] = result[task[x]] BY <1>5, <2>1, <2>2, OutsideKeeps
  <2>4. QED BY <1>2, <2>1, <2>3 DEF OutcomeOK
<1>6. QED BY <1>3, <1>4, <1>5 DEF Next, Idle, Crash

\* Steps that touch neither the job's message nor its worker leave it attended to.
LEMMA AttendedStays ==
  ASSUME Inv, Grows, NEW r \in Requests, Attended(r),
         req[r].pc \in {"save", "enqueue"} =>
           req'[r].pc \in {"save", "enqueue"} \/ broker'[ImportMsg(r)] \in {"queued", "unacked"},
         broker[ImportMsg(r)] \in {"queued", "unacked"} =>
           broker'[ImportMsg(r)] \in {"queued", "unacked"},
         Running(ImportMsg(r)) => Running(ImportMsg(r))'
  PROVE  Attended(r)'
  BY DEF Attended, Grows

\* A worker gives up an import it ends when an outcome is stored, and one it is killed
\* with when the message was acknowledged by another run.
LEMMA WorkerGivesUp ==
  ASSUME Inv, FlowInv, SoleInv, OutcomeInv, [Next]_vars, Grows,
         NEW w \in Workers, DeliverTask(w) \/ TaskStep(w) \/ Crash(w),
         NEW r \in Requests, Attended(r), ~Attended(r)', timeouts' = 0 \/ crashes'.kills = 0
  PROVE  Decided(r)'
<1>1. /\ pc \in [Workers -> WorkerStates] /\ task \in [Workers -> Messages \cup {None}]
      /\ broker \in [Messages -> MessageStates] /\ result \in [Messages -> Outcomes]
  BY DEF Inv, TypeOK, PoolTypeOK, BrokerTypeOK
<1>2. PICK i \in Messages : i = ImportMsg(r) BY MessageFacts
<1>3. TaskId(i) = i /\ i.kind = "import" BY <1>2, MessageFacts DEF TaskId
<1>4. \A v \in Workers \ {w} : pc'[v] = pc[v] /\ task'[v] = task[v] BY OneMoves
<1>5. req' = req BY DEF DeliverTask, TaskStep, Crash
<1>6. timeouts = 0 \/ crashes.kills = 0 BY RepeatsStay
<1>7. \/ DeliverTask(w) \/ AckTask(w) \/ PublishEmbed(w) \/ Ends(w) \/ Goes(w)
      \/ LoseChild(w) \/ KillWorker(w)
  BY TaskStepKinds DEF Crash
<1>8. broker'[i] # broker[i] \/ task'[w] # task[w] => task[w] = i \/ DeliverTask(w)
  <2>1. CASE PublishEmbed(w)
    <3>1. PICK t \in 1..MaxTag : Publish(EmbedMsg(JobOf(w), t)) BY <2>1 DEF PublishEmbed
    <3>2. i # EmbedMsg(JobOf(w), t) BY <1>3 DEF EmbedMsg
    <3>3. broker'[i] = broker[i] BY <1>1, <3>1, <3>2 DEF Publish
    <3>4. QED BY <2>1, <3>3 DEF PublishEmbed
  <2>2. CASE AckTask(w) \/ LoseChild(w) \/ KillWorker(w)
    <3>1. ASSUME task[w] # i PROVE Attended(r)'
      <4>1. broker'[i] = broker[i] BY <1>1, <2>2, <3>1 DEF AckTask, LoseChild, KillWorker, Ack, brokerVars
      <4>2. Running(i) => Running(i)' BY <1>4, <3>1 DEF Running
      <4>3. QED BY <1>2, <1>5, <4>1, <4>2, AttendedStays
    <3>2. QED BY <3>1
  <2>3. QED BY <1>7, <2>1, <2>2 DEF Ends, Goes
<1>9. CASE DeliverTask(w) \/ (broker'[i] = broker[i] /\ task'[w] = task[w])
  <2>1. broker[i] \in {"queued", "unacked"} => broker'[i] \in {"queued", "unacked"}
    BY <1>1, <1>9 DEF DeliverTask, Deliver
  <2>2. task[w] = i => task'[w] = i
    BY <1>9, NoTaskAssumption DEF DeliverTask, Deliver, Inv, TypeOK, TaskOK
  <2>3. Running(i) => Running(i)' BY <1>4, <2>2 DEF Running
  <2>4. QED BY <1>2, <1>5, <2>1, <2>3, AttendedStays
<1>10. CASE task[w] = i /\ ~DeliverTask(w) /\ (broker'[i] # broker[i] \/ task'[w] # task[w])
  <2>1. AckTask(w) \/ LoseChild(w) \/ KillWorker(w)
    <3>1. CASE PublishEmbed(w)
      <4>1. PICK t \in 1..MaxTag : Publish(EmbedMsg(JobOf(w), t)) BY <3>1 DEF PublishEmbed
      <4>2. i # EmbedMsg(JobOf(w), t) BY <1>3 DEF EmbedMsg
      <4>3. broker'[i] = broker[i] BY <1>1, <4>1, <4>2 DEF Publish
      <4>4. QED BY <1>10, <3>1, <4>3 DEF PublishEmbed
    <3>2. QED BY <1>7, <1>10, <3>1 DEF Ends, Goes
  <2>2. ASSUME result'[i] \in {"SUCCESS", "FAILURE"}, jobs' = jobs,
               result[i] = "SUCCESS" \/ result'[i] = "FAILURE"
        PROVE  Decided(r)'
    <3>1. CASE result'[i] = "FAILURE" BY <1>2, <3>1 DEF Decided
    <3>2. CASE result[i] = "SUCCESS"
      <4>1. Completed(r) /\ Sent(EmbedMsg(r, 1)) BY <1>2, <3>2 DEF FlowInv, RequestFlow
      <4>2. EmbedMsg(r, 1) \in Messages
        <5>1. 1 \in 1..MaxTag BY BrokerAssumption
        <5>2. QED BY <5>1, MessageFacts
      <4>3. Sent(EmbedMsg(r, 1))' BY <4>1, <4>2 DEF Grows
      <4>4. QED BY <2>2, <4>1, <4>3 DEF Decided, Completed, Sent
    <3>3. QED BY <2>2, <3>1, <3>2
  <2>3. CASE AckTask(w)
    <3>1. pc[w] = "ack" /\ UNCHANGED <<jobs, result>> BY <2>3 DEF AckTask, storeVars
    <3>2. OutcomeOK(w) BY <1>3, <1>6, <1>10, <3>1 DEF OutcomeInv
    <3>3. ~Running(i)' BY <1>2 DEF Attended, Grows, Running
    <3>4. result[i] # "PENDING" BY <1>4, <1>10, <3>1, <3>2, <3>3 DEF OutcomeOK, Running
    <3>5. result[i] \in {"SUCCESS", "FAILURE"} BY <1>1, <3>4 DEF Outcomes
    <3>6. QED BY <2>2, <3>1, <3>5
  <2>4. CASE LoseChild(w)
    <3>1. jobs' = jobs /\ result'[i] = IF result[i] = "SUCCESS" THEN "SUCCESS" ELSE "FAILURE"
      BY <1>1, <1>3, <1>10, <2>4 DEF LoseChild, StoreResult, storeVars
    <3>2. QED BY <2>2, <3>1
  <2>5. CASE KillWorker(w)
    <3>1. timeouts = 0 BY <2>5, RepeatsStay
    <3>2. broker[i] = "unacked" BY <1>10, <2>5, <3>1 DEF SoleInv, KillWorker
    <3>3. broker'[i] = "unacked" /\ jobs' = jobs BY <2>5, <3>2 DEF KillWorker, storeVars, brokerVars
    <3>4. Attended(r)' BY <1>2, <3>3 DEF Attended
    <3>5. QED BY <3>4
  <2>6. QED BY <2>1, <2>3, <2>4, <2>5
<1>11. QED BY <1>8, <1>9, <1>10

\* A request goes on with its job until the broker has the message.
LEMMA RequestGivesUp ==
  ASSUME Inv, Grows, NEW s \in Requests, Upload(s),
         NEW r \in Requests, Attended(r), ~Attended(r)'
  PROVE  req'[r].pc = "died"
<1>1. /\ req \in [Requests -> Request] /\ broker \in [Messages -> MessageStates]
      /\ UNCHANGED <<pc, task>>
  BY DEF Inv, TypeOK, RequestTypeOK, BrokerTypeOK, Upload, poolVars
<1>2. req[r].pc \in {"idle", "insert"} => jobs[r] = None BY DEF Inv, RequestInv
<1>3. Running(ImportMsg(r)) => Running(ImportMsg(r))' BY <1>1 DEF Running
<1>4. broker[ImportMsg(r)] \in {"queued", "unacked"} =>
        broker'[ImportMsg(r)] \in {"queued", "unacked"}
  BY <1>1, MessageFacts DEF Upload, StartUpload, UploadStep, InsertJob, SaveUpload, Enqueue,
    RequestDies, Publish, brokerVars
<1>5. req[r].pc \in {"save", "enqueue"} /\ req'[r].pc # "died" =>
        req'[r].pc \in {"save", "enqueue"} \/ broker'[ImportMsg(r)] \in {"queued", "unacked"}
  BY <1>1, MessageFacts DEF Upload, StartUpload, UploadStep, InsertJob, SaveUpload, Enqueue,
    RequestDies, Publish, Goto, Request
<1>6. QED BY <1>3, <1>4, <1>5, AttendedStays

\* A job somebody sees to is given up only when its request dies, when its import has
\* failed, or when it is completed and its embedding is on the way: a kill beside the
\* timeout of a running import excepted.
THEOREM JobsAreKept == Spec => NoJobIsLost
<1> DEFINE GivenUp ==
      \A r \in Requests :
        Attended(r) /\ ~Attended(r)' =>
          \/ req'[r].pc = "died"
          \/ Decided(r)'
          \/ timeouts' > 0 /\ crashes'.kills > 0
<1>1. Inv /\ Inv' /\ FlowInv /\ SoleInv /\ OutcomeInv /\ [Next]_vars => [GivenUp]_vars
  <2> SUFFICES ASSUME Inv, Inv', FlowInv, SoleInv, OutcomeInv, [Next]_vars,
                      NEW r \in Requests, Attended(r), ~Attended(r)',
                      ~(timeouts' > 0 /\ crashes'.kills > 0)
               PROVE  req'[r].pc = "died" \/ Decided(r)'
    OBVIOUS
  <2>1. Grows BY NextGrows
  <2>2. timeouts' = 0 \/ crashes'.kills = 0
    <3>1. timeouts' \in Nat /\ crashes'.kills \in Nat
      BY WorkerAssumption, BrokerAssumption DEF Inv, TypeOK, PoolTypeOK, BrokerTypeOK, Crashes
    <3>2. QED BY <3>1
  <2>3. ASSUME NEW w \in Workers, DeliverTask(w) \/ TaskStep(w) \/ Crash(w) PROVE Decided(r)'
    BY <2>1, <2>2, <2>3, WorkerGivesUp
  <2>4. ASSUME NEW s \in Requests, Upload(s) PROVE req'[r].pc = "died"
    BY <2>1, <2>4, RequestGivesUp
  <2>5. ASSUME \/ \E s \in Requests : Reembed(s)
               \/ \E b \in Messages : Restore(b) \/ Expire(b)
               \/ \E u \in Users : MoveUser(u)
               \/ UNCHANGED vars
        PROVE  FALSE
    <3>1. UNCHANGED <<pc, task>> BY <2>5, OutsideKeeps DEF poolVars
    <3>2. req' = req
      BY <2>5 DEF Reembed, Restore, RestoreOrphan, RestoreRunning, Expire, ExpireResult, MoveUser,
        vars
    <3>3. broker[ImportMsg(r)] \in {"queued", "unacked"} =>
            broker'[ImportMsg(r)] \in {"queued", "unacked"}
      BY <2>5, OutsideKeeps, MessageFacts
    <3>4. QED BY <2>1, <3>1, <3>2, <3>3, AttendedStays DEF Running
  <2>6. QED BY <2>3, <2>4, <2>5 DEF Next, Idle
<1>2. Init => OutcomeInv BY DEF Init, PoolInit, OutcomeInv
<1>3. Inv /\ SoleInv /\ OutcomeInv /\ [Next]_vars => OutcomeInv' BY NextOutcome
<1>4. SafetyInv /\ IndexInv => Inv /\ FlowInv /\ SoleInv BY DEF SafetyInv, IndexInv
<1>5. QED BY <1>1, <1>2, <1>3, <1>4, IndexHolds, PTL DEF Spec, NoJobIsLost

(***************************************************************************)
(* How often the chain of a job publishes its embed task: the bound MaxTag *)
(* never keeps a worker from publishing.                                   *)
(***************************************************************************)
PublishedFor(r) == {t \in 1..MaxTag : broker[EmbedMsg(r, t)] # "unsent"}

ImportersOf(r) == {w \in Workers : task[w] = ImportMsg(r) /\ pc[w] \in ImportStates}

\* The import of the job is still to be delivered, for the first time or again.
ImportComes(r) == broker[ImportMsg(r)] = "unsent" \/ Waiting(ImportMsg(r))

\* What makes a task run again.
Repeats == crashes.kills + timeouts

\* A job's embed task is published once, and again at most once for each worker
\* that was killed and each timeout that hit a running task.
EmbedTasksBounded == \A r \in Requests : Cardinality(PublishedFor(r)) <= 1 + Repeats

\* An import that has committed finds a message to publish the embed task with.
TagIsLeft ==
  \A w \in Workers :
    pc[w] = "publish" =>
      \E t \in 1..MaxTag :
        /\ broker[EmbedMsg(JobOf(w), t)] = "unsent"
        /\ \A s \in 1..(t - 1) : broker[EmbedMsg(JobOf(w), s)] # "unsent"

\* What was published, what the imports under way will publish, and what one that is
\* still to be delivered will; the messages are used in the order of their tags.
TagSum(r) ==
  Cardinality(PublishedFor(r)) + Cardinality(ImportersOf(r)) + (IF ImportComes(r) THEN 1 ELSE 0)

TagInv ==
  \A r \in Requests :
    /\ TagSum(r) <= 1 + Repeats
    /\ \E n \in 0..MaxTag : PublishedFor(r) = 1..n

\* The sets that are counted are finite.
LEMMA TagFacts ==
  ASSUME NEW r \in Requests
  PROVE  /\ IsFiniteSet(PublishedFor(r)) /\ Cardinality(PublishedFor(r)) \in Nat
         /\ IsFiniteSet(ImportersOf(r)) /\ Cardinality(ImportersOf(r)) \in Nat
<1>1. IsFiniteSet(1..MaxTag) BY BrokerAssumption, FS_Interval
<1>2. IsFiniteSet(Workers) BY WorkerAssumption
<1>3. PublishedFor(r) \in SUBSET (1..MaxTag) /\ ImportersOf(r) \in SUBSET Workers
  BY DEF PublishedFor, ImportersOf
<1>4. IsFiniteSet(PublishedFor(r)) /\ IsFiniteSet(ImportersOf(r)) BY <1>1, <1>2, <1>3, FS_Subset
<1>5. QED BY <1>4, FS_CardinalityType

LEMMA RepeatsFacts ==
  ASSUME Inv
  PROVE  /\ Repeats \in 0..(MaxKills + MaxTimeouts)
         /\ MaxKills \in Nat /\ MaxTimeouts \in Nat /\ MaxTag = 1 + MaxKills + MaxTimeouts
<1>1. crashes.kills \in 0..MaxKills /\ timeouts \in 0..MaxTimeouts
  BY DEF Inv, TypeOK, PoolTypeOK, BrokerTypeOK, Crashes
<1>2. QED BY <1>1, WorkerAssumption, BrokerAssumption, TagAssumption DEF Repeats

\* A step that publishes nothing and starts nothing for the job, and sends its import
\* back only with a kill or a timeout.
LEMMA FewerTags ==
  ASSUME Inv, TagInv, NEW r \in Requests,
         PublishedFor(r)' = PublishedFor(r), ImportersOf(r)' \subseteq ImportersOf(r),
         \/ (ImportComes(r)' => ImportComes(r)) /\ Repeats' = Repeats
         \/ Repeats' = Repeats + 1
  PROVE  TagSum(r)' <= 1 + Repeats'
<1>1. PICK P, I, J :
        P = PublishedFor(r) /\ I = ImportersOf(r) /\ J = ImportersOf(r)'
  OBVIOUS
<1>2. Cardinality(P) \in Nat /\ IsFiniteSet(I) /\ Cardinality(I) \in Nat BY <1>1, TagFacts
<1>3. IsFiniteSet(J) /\ Cardinality(J) <= Cardinality(I) BY <1>1, <1>2, FS_Subset
<1>4. Cardinality(J) \in Nat BY <1>3, FS_CardinalityType
<1>5. PICK c \in {0, 1}, d \in {0, 1} :
        c = (IF ImportComes(r) THEN 1 ELSE 0) /\ d = (IF ImportComes(r) THEN 1 ELSE 0)'
  OBVIOUS
<1>6. Repeats \in Nat BY RepeatsFacts
<1>7. Cardinality(P) + Cardinality(I) + c <= 1 + Repeats BY <1>1, <1>5 DEF TagInv, TagSum
<1>8. (d <= c /\ Repeats' = Repeats) \/ Repeats' = Repeats + 1 BY <1>5
<1>9. Cardinality(P) + Cardinality(J) + d <= 1 + Repeats'
  BY <1>2, <1>3, <1>4, <1>6, <1>7, <1>8
<1>10. QED BY <1>1, <1>5, <1>9 DEF TagSum

\* The import is delivered.
LEMMA DeliveredTag ==
  ASSUME Inv, TagInv, NEW r \in Requests, NEW w \in Workers,
         PublishedFor(r)' = PublishedFor(r), ImportersOf(r)' \subseteq ImportersOf(r) \cup {w},
         ImportComes(r), ~ImportComes(r)', Repeats' = Repeats
  PROVE  TagSum(r)' <= 1 + Repeats'
<1>1. PICK P, I, J :
        P = PublishedFor(r) /\ I = ImportersOf(r) /\ J = ImportersOf(r)'
  OBVIOUS
<1>2. Cardinality(P) \in Nat /\ IsFiniteSet(I) /\ Cardinality(I) \in Nat BY <1>1, TagFacts
<1>3. IsFiniteSet(I \cup {w}) /\ Cardinality(I \cup {w}) <= Cardinality(I) + 1
  BY <1>2, FS_AddElement
<1>4. IsFiniteSet(J) /\ Cardinality(J) <= Cardinality(I \cup {w}) BY <1>1, <1>3, FS_Subset
<1>5. Cardinality(J) \in Nat /\ Cardinality(I \cup {w}) \in Nat BY <1>3, <1>4, FS_CardinalityType
<1>6. Repeats \in Nat BY RepeatsFacts
<1>7. Cardinality(P) + Cardinality(I) + 1 <= 1 + Repeats BY <1>1 DEF TagInv, TagSum
<1>8. Cardinality(P) + Cardinality(J) + 0 <= 1 + Repeats
  BY <1>2, <1>3, <1>4, <1>5, <1>6, <1>7
<1>9. QED BY <1>1, <1>8 DEF TagSum

\* The embed task is published.
LEMMA PublishedTag ==
  ASSUME Inv, TagInv, NEW r \in Requests, NEW w \in Workers, NEW t,
         PublishedFor(r)' = PublishedFor(r) \cup {t},
         ImportersOf(r)' \subseteq ImportersOf(r) \ {w}, w \in ImportersOf(r),
         ImportComes(r)' => ImportComes(r), Repeats' = Repeats
  PROVE  TagSum(r)' <= 1 + Repeats'
<1>1. PICK P, I, Q, J :
        /\ P = PublishedFor(r) /\ I = ImportersOf(r)
        /\ Q = PublishedFor(r)' /\ J = ImportersOf(r)'
  OBVIOUS
<1>2. /\ IsFiniteSet(P) /\ Cardinality(P) \in Nat
      /\ IsFiniteSet(I) /\ Cardinality(I) \in Nat
  BY <1>1, TagFacts
<1>3. IsFiniteSet(Q) /\ Cardinality(Q) <= Cardinality(P) + 1
  <2>1. IsFiniteSet(P \cup {t}) BY <1>2, FS_AddElement
  <2>2. Cardinality(P \cup {t}) = IF t \in P THEN Cardinality(P) ELSE Cardinality(P) + 1
    BY <1>2, FS_AddElement
  <2>3. Cardinality(P \cup {t}) <= Cardinality(P) + 1 BY <1>2, <2>2
  <2>4. Q = P \cup {t} BY <1>1
  <2>5. QED BY <2>1, <2>3, <2>4
<1>4. IsFiniteSet(I \ {w}) /\ Cardinality(I \ {w}) = Cardinality(I) - 1
  BY <1>1, <1>2, FS_RemoveElement
<1>5. IsFiniteSet(J) /\ Cardinality(J) <= Cardinality(I \ {w}) BY <1>1, <1>4, FS_Subset
<1>6. Cardinality(J) \in Nat /\ Cardinality(Q) \in Nat BY <1>3, <1>5, FS_CardinalityType
<1>7. PICK c \in {0, 1}, d \in {0, 1} :
        c = (IF ImportComes(r) THEN 1 ELSE 0) /\ d = (IF ImportComes(r) THEN 1 ELSE 0)'
  OBVIOUS
<1>8. Repeats \in Nat /\ d <= c BY <1>7, RepeatsFacts
<1>9. Cardinality(P) + Cardinality(I) + c <= 1 + Repeats BY <1>1, <1>7 DEF TagInv, TagSum
<1>10. Cardinality(Q) + Cardinality(J) + d <= 1 + Repeats
  BY <1>2, <1>3, <1>4, <1>5, <1>6, <1>8, <1>9
<1>11. QED BY <1>1, <1>7, <1>10 DEF TagSum

\* Kills and timeouts are counted, and a task's own steps count none.
LEMMA OwnStepsRepeatNothing ==
  ASSUME Inv, NEW w \in Workers, DeliverTask(w) \/ TaskStep(w) \/ LoseChild(w)
  PROVE  Repeats' = Repeats
<1>1. crashes \in Crashes BY DEF Inv, TypeOK, PoolTypeOK
<1>2. crashes'.kills = crashes.kills /\ timeouts' = timeouts
  BY <1>1 DEF DeliverTask, Deliver, TaskStep, StoreSuccess, AckTask, LoseChild,
    ImportStep, BeginImport, LockJob, SkipConversation, SelectConversation, ClaimConversation,
    ClaimFails, WriteMessages, DeadlockVictim, ImportCommit, PublishEmbed, EmbedStep,
    ReadConversations, ReadMessages, SkipExisting, EmbedFails, EmbedCommit, Raise, brokerVars, Crashes
<1>3. QED BY <1>2 DEF Repeats

\* A step that sends or ends no embed message for the first time publishes none.
LEMMA SamePublished ==
  ASSUME NEW r \in Requests,
         \A b \in Messages : b.kind = "embed" => (broker'[b] = "unsent" <=> broker[b] = "unsent")
  PROVE  PublishedFor(r)' = PublishedFor(r)
  BY MessageFacts DEF PublishedFor

\* A worker that ends or goes on imports what it imported.
LEMMA SameImporters ==
  ASSUME Inv, NEW r \in Requests, NEW w \in Workers,
         \A v \in Workers \ {w} : pc'[v] = pc[v] /\ task'[v] = task[v],
         task'[w] = task[w] => pc[w] \notin {"idle", "store", "ack"} \/ pc'[w] \notin ImportStates,
         task'[w] \in {task[w], None}
  PROVE  ImportersOf(r)' \subseteq ImportersOf(r)
<1>1. ASSUME NEW v \in Workers, task'[v] = ImportMsg(r), pc'[v] \in ImportStates
      PROVE  task[v] = ImportMsg(r) /\ pc[v] \in ImportStates
  <2>1. CASE v # w BY <1>1, <2>1
  <2>2. CASE v = w
    <3>1. task[w] = ImportMsg(r) /\ pc[w] \notin {"idle", "store", "ack"}
      BY <1>1, <2>2, MessageFacts, NoTaskAssumption
    <3>2. pc[w] \in WorkerStates /\ pc[w] \notin EmbedStates
      BY <3>1, MessageFacts DEF Inv, TypeOK, PoolTypeOK, TaskOK, EmbedStates
    <3>3. QED BY <2>2, <3>1, <3>2 DEF WorkerStates
  <2>3. QED BY <2>1, <2>2
<1>2. QED BY <1>1 DEF ImportersOf

\* A worker's step inside a task or at its end.
LEMMA TaskStepTags ==
  ASSUME Inv, TagInv, NEW r \in Requests, NEW w \in Workers,
         TaskStep(w) \/ (Crash(w) /\ LoseChild(w)), ~PublishEmbed(w)
  PROVE  TagSum(r)' <= 1 + Repeats' /\ PublishedFor(r)' = PublishedFor(r)
<1>1. /\ pc \in [Workers -> WorkerStates] /\ task \in [Workers -> Messages \cup {None}]
      /\ broker \in [Messages -> MessageStates]
  BY DEF Inv, TypeOK, PoolTypeOK, BrokerTypeOK
<1>2. \A v \in Workers \ {w} : pc'[v] = pc[v] /\ task'[v] = task[v] BY OneMoves
<1>3. AckTask(w) \/ LoseChild(w) \/ Ends(w) \/ Goes(w) BY TaskStepKinds
<1>4. \A b \in Messages :
        broker'[b] = broker[b] \/ (b = task[w] /\ broker[b] = "unacked" /\ broker'[b] = "acked")
  BY <1>1, <1>3 DEF AckTask, LoseChild, Ack, Ends, Goes
<1>5. PublishedFor(r)' = PublishedFor(r) BY <1>4, SamePublished
<1>6. ImportersOf(r)' \subseteq ImportersOf(r)
  <2>1. task'[w] \in {task[w], None} BY <1>1, <1>3 DEF AckTask, LoseChild, Ends, Goes
  <2>2. task'[w] = task[w] => pc[w] \notin {"idle", "store", "ack"} \/ pc'[w] \notin ImportStates
    BY <1>1, <1>3 DEF AckTask, LoseChild, Ends, Goes, To, ImportStates
  <2>3. QED BY <1>2, <2>1, <2>2, SameImporters
<1>7. ImportComes(r)' => ImportComes(r)
  <2>1. PICK b \in Messages : b = ImportMsg(r) BY MessageFacts
  <2>2. CASE broker'[b] = broker[b]
    <3>1. CASE task'[w] = task[w] \/ task[w] # b
      BY <1>2, <2>1, <2>2, <3>1 DEF ImportComes, Waiting, Running
    <3>2. CASE task'[w] # task[w] /\ task[w] = b
      <4>1. broker[b] # "unacked" BY <1>1, <1>3, <2>2, <3>2 DEF AckTask, LoseChild, Ack, Ends, Goes
      <4>2. QED BY <2>1, <2>2, <4>1 DEF ImportComes, Waiting
    <3>3. QED BY <3>1, <3>2
  <2>3. CASE broker'[b] = "acked" BY <2>1, <2>3 DEF ImportComes, Waiting
  <2>4. QED BY <1>4, <2>2, <2>3
<1>8. Repeats' = Repeats BY OwnStepsRepeatNothing
<1>9. QED BY <1>5, <1>6, <1>7, <1>8, FewerTags

\* A message is delivered.
LEMMA DeliverTags ==
  ASSUME Inv, TagInv, NEW r \in Requests, NEW w \in Workers, DeliverTask(w)
  PROVE  TagSum(r)' <= 1 + Repeats' /\ PublishedFor(r)' = PublishedFor(r)
<1>1. PICK b \in Messages : Deliver(w, b) BY DEF DeliverTask
<1> USE <1>1 DEF Deliver, To
<1>2. /\ pc \in [Workers -> WorkerStates] /\ task \in [Workers -> Messages \cup {None}]
      /\ broker \in [Messages -> MessageStates]
  BY DEF Inv, TypeOK, PoolTypeOK, BrokerTypeOK
<1>3. /\ task'[w] = b /\ task[w] = None /\ broker[b] = "queued" /\ broker'[b] = "unacked"
      /\ pc'[w] = IF b.kind = "import" THEN "begin" ELSE "convs"
      /\ \A c \in Messages : c # b => broker'[c] = broker[c]
      /\ \A v \in Workers \ {w} : pc'[v] = pc[v] /\ task'[v] = task[v]
  BY <1>2 DEF Inv, TypeOK, TaskOK
<1>4. PublishedFor(r)' = PublishedFor(r) BY <1>3, SamePublished
<1>5. Repeats' = Repeats BY OwnStepsRepeatNothing
<1>6. CASE b = ImportMsg(r)
  <2>1. ImportersOf(r)' \subseteq ImportersOf(r) \cup {w} BY <1>3 DEF ImportersOf
  <2>2. ImportComes(r) /\ ~ImportComes(r)' BY <1>3, <1>6 DEF ImportComes, Waiting, Running
  <2>3. QED BY <1>4, <1>5, <2>1, <2>2, DeliveredTag
<1>7. CASE b # ImportMsg(r)
  <2>1. ImportersOf(r)' \subseteq ImportersOf(r) BY <1>3, <1>7 DEF ImportersOf
  <2>2. broker'[ImportMsg(r)] = broker[ImportMsg(r)] BY <1>3, <1>7, MessageFacts
  <2>3. Running(ImportMsg(r)) => Running(ImportMsg(r))'
    BY <1>3, MessageFacts, NoTaskAssumption DEF Running
  <2>4. ImportComes(r)' => ImportComes(r) BY <2>2, <2>3 DEF ImportComes, Waiting
  <2>5. QED BY <1>4, <1>5, <2>1, <2>4, FewerTags
<1>8. QED BY <1>6, <1>7

\* A worker is killed: its import may come back.
LEMMA KillTags ==
  ASSUME Inv, TagInv, NEW r \in Requests, NEW w \in Workers, KillWorker(w)
  PROVE  TagSum(r)' <= 1 + Repeats' /\ PublishedFor(r)' = PublishedFor(r)
<1>1. /\ pc \in [Workers -> WorkerStates] /\ task \in [Workers -> Messages \cup {None}]
      /\ crashes \in Crashes /\ crashes.kills \in Nat /\ timeouts \in Nat
  BY WorkerAssumption, BrokerAssumption DEF Inv, TypeOK, PoolTypeOK, BrokerTypeOK, Crashes
<1>2. /\ crashes'.kills = crashes.kills + 1 /\ timeouts' = timeouts /\ broker' = broker
      /\ pc'[w] = "idle"
      /\ \A v \in Workers \ {w} : pc'[v] = pc[v] /\ task'[v] = task[v]
  BY <1>1 DEF KillWorker, To, brokerVars, Crashes
<1>3. Repeats' = Repeats + 1 BY <1>1, <1>2 DEF Repeats
<1>4. PublishedFor(r)' = PublishedFor(r) BY <1>2, SamePublished
<1>5. ImportersOf(r)' \subseteq ImportersOf(r) BY <1>2 DEF ImportersOf, ImportStates
<1>6. QED BY <1>3, <1>4, <1>5, FewerTags

\* A request, an administrator, the operator or the visibility timeout.
LEMMA OutsideTags ==
  ASSUME Inv, TagInv, NEW r \in Requests,
         \/ \E s \in Requests : Upload(s) \/ Reembed(s)
         \/ \E b \in Messages : Restore(b) \/ Expire(b)
         \/ \E u \in Users : MoveUser(u)
         \/ UNCHANGED vars
  PROVE  TagSum(r)' <= 1 + Repeats' /\ PublishedFor(r)' = PublishedFor(r)
<1>1. broker \in [Messages -> MessageStates] /\ timeouts \in Nat /\ crashes.kills \in Nat
  BY WorkerAssumption, BrokerAssumption DEF Inv, TypeOK, PoolTypeOK, BrokerTypeOK, Crashes
<1>2. UNCHANGED poolVars
  BY UploadData DEF Reembed, Restore, RestoreOrphan, RestoreRunning, Expire, ExpireResult, MoveUser, vars
<1>3. ImportersOf(r)' = ImportersOf(r) BY <1>2 DEF ImportersOf, poolVars
<1>4. \A b \in Messages : Running(b)' <=> Running(b) BY <1>2 DEF Running, poolVars
<1>5. ImportMsg(r) \in Messages BY MessageFacts
<1>6. ASSUME NEW b \in Messages, RestoreRunning(b)
      PROVE  TagSum(r)' <= 1 + Repeats' /\ PublishedFor(r)' = PublishedFor(r)
  <2>1. Repeats' = Repeats + 1 BY <1>1, <1>2, <1>6 DEF Repeats, RestoreRunning, poolVars
  <2>2. PublishedFor(r)' = PublishedFor(r) BY <1>1, <1>6, SamePublished DEF RestoreRunning
  <2>3. QED BY <1>3, <2>1, <2>2, FewerTags
<1>7. ASSUME timeouts' = timeouts,
             \A b \in Messages :
               \/ broker'[b] = broker[b]
               \/ broker[b] = "unsent" /\ broker'[b] = "queued" /\ b.kind # "embed"
               \/ broker[b] = "unacked" /\ broker'[b] = "queued" /\ ~Running(b)
      PROVE  TagSum(r)' <= 1 + Repeats' /\ PublishedFor(r)' = PublishedFor(r)
  <2>1. Repeats' = Repeats BY <1>2, <1>7 DEF Repeats, poolVars
  <2>2. PublishedFor(r)' = PublishedFor(r) BY <1>7, SamePublished
  <2>3. ImportComes(r)' => ImportComes(r) BY <1>4, <1>5, <1>7 DEF ImportComes, Waiting
  <2>4. QED BY <1>3, <2>1, <2>2, <2>3, FewerTags
<1>8. ASSUME NEW s \in Requests, Upload(s)
      PROVE  TagSum(r)' <= 1 + Repeats' /\ PublishedFor(r)' = PublishedFor(r)
  <2>1. timeouts' = timeouts /\ (broker' = broker \/ Publish(ImportMsg(s)))
    BY <1>8 DEF Upload, StartUpload, UploadStep, InsertJob, SaveUpload, Enqueue, RequestDies,
      brokerVars
  <2>2. QED BY <1>1, <1>7, <1>8, <2>1, MessageFacts DEF Publish
<1>9. ASSUME NEW s \in Requests, Reembed(s)
      PROVE  TagSum(r)' <= 1 + Repeats' /\ PublishedFor(r)' = PublishedFor(r)
  <2>1. PICK t \in 1..MaxReembeds : Publish(ReembedMsg(s, t)) BY <1>9 DEF Reembed
  <2>2. ReembedMsg(s, t) \in Messages /\ ReembedMsg(s, t).kind = "reembed" BY MessageFacts
  <2>3. timeouts' = timeouts BY <1>9 DEF Reembed
  <2>4. QED BY <1>1, <1>7, <2>1, <2>2, <2>3 DEF Publish
<1>10. ASSUME NEW b \in Messages, RestoreOrphan(b)
       PROVE  TagSum(r)' <= 1 + Repeats' /\ PublishedFor(r)' = PublishedFor(r)
  BY <1>1, <1>7, <1>10 DEF RestoreOrphan
<1>11. CASE (\E u \in Users : MoveUser(u)) \/ UNCHANGED vars
  BY <1>7, <1>11 DEF MoveUser, vars, brokerVars
<1>12. ASSUME NEW b \in Messages, Expire(b)
       PROVE  TagSum(r)' <= 1 + Repeats' /\ PublishedFor(r)' = PublishedFor(r)
  BY <1>7, <1>12 DEF Expire, ExpireResult
<1>13. QED BY <1>6, <1>8, <1>9, <1>10, <1>11, <1>12 DEF Restore

\* The first message that is left is published.
LEMMA PublishTags ==
  ASSUME Inv, TagInv, NEW r \in Requests, NEW w \in Workers, PublishEmbed(w)
  PROVE  TagSum(r)' <= 1 + Repeats' /\ \E n \in 0..MaxTag : PublishedFor(r)' = 1..n
<1>1. /\ pc \in [Workers -> WorkerStates] /\ broker \in [Messages -> MessageStates]
  BY DEF Inv, TypeOK, PoolTypeOK, BrokerTypeOK
<1>2. /\ pc[w] = "publish" /\ pc'[w] = "store" /\ UNCHANGED <<task, crashes, timeouts>>
      /\ \A v \in Workers \ {w} : pc'[v] = pc[v]
  BY <1>1 DEF PublishEmbed, To
<1>3. PICK j \in Requests : j = JobOf(w) /\ task[w] = ImportMsg(j)
  BY <1>2, ImportJobFacts DEF ImportStates
<1>4. PICK t \in 1..MaxTag :
        /\ Publish(EmbedMsg(j, t))
        /\ \A s \in 1..(t - 1) : broker[EmbedMsg(j, s)] # "unsent"
  BY <1>3 DEF PublishEmbed
<1>5. /\ EmbedMsg(j, t) \in Messages /\ broker[EmbedMsg(j, t)] = "unsent"
      /\ broker'[EmbedMsg(j, t)] = "queued"
      /\ \A b \in Messages : b # EmbedMsg(j, t) => broker'[b] = broker[b]
  BY <1>1, <1>4, MessageFacts DEF Publish
<1>6. Repeats' = Repeats BY <1>2 DEF Repeats
<1>7. ImportersOf(r)' \subseteq ImportersOf(r) \ {w} BY <1>2 DEF ImportersOf, ImportStates
<1>8. ImportComes(r)' => ImportComes(r)
  BY <1>2, <1>5, MessageFacts DEF ImportComes, Waiting, Running
<1>9. PICK n \in 0..MaxTag : PublishedFor(r) = 1..n BY DEF TagInv
<1>10. CASE r = j
  <2>1. \A s \in 1..MaxTag :
          EmbedMsg(j, s) \in Messages /\ (EmbedMsg(j, s) = EmbedMsg(j, t) => s = t)
    BY MessageFacts DEF EmbedMsg
  <2>2. PublishedFor(r)' = PublishedFor(r) \cup {t} BY <1>5, <1>10, <2>1 DEF PublishedFor
  <2>3. w \in ImportersOf(r) BY <1>2, <1>3, <1>10 DEF ImportersOf, ImportStates
  <2>4. TagSum(r)' <= 1 + Repeats' BY <1>6, <1>7, <1>8, <2>2, <2>3, PublishedTag
  <2>5. t \notin 1..n /\ \A s \in 1..(t - 1) : s \in 1..n
    <3>1. t \notin PublishedFor(r) BY <1>5, <1>10 DEF PublishedFor
    <3>2. \A s \in 1..(t - 1) : s \in 1..MaxTag BY BrokerAssumption
    <3>3. \A s \in 1..(t - 1) : s \in PublishedFor(r) BY <1>4, <1>10, <3>2 DEF PublishedFor
    <3>4. QED BY <1>9, <3>1, <3>3
  <2>6. t = n + 1
    <3>1. t > n BY <2>5
    <3>2. ~(t - 1 > n) BY <2>5
    <3>3. QED BY <3>1, <3>2
  <2>7. PublishedFor(r)' = 1..t BY <1>9, <2>2, <2>6
  <2>8. QED BY <2>4, <2>7
<1>11. CASE r # j
  <2>1. \A s \in 1..MaxTag : EmbedMsg(r, s) \in Messages /\ EmbedMsg(r, s) # EmbedMsg(j, t)
    BY <1>11, MessageFacts DEF EmbedMsg
  <2>2. PublishedFor(r)' = PublishedFor(r) BY <1>5, <2>1 DEF PublishedFor
  <2>3. TagSum(r)' <= 1 + Repeats' BY <1>6, <1>7, <1>8, <2>2, FewerTags
  <2>4. QED BY <1>9, <2>2, <2>3
<1>12. QED BY <1>10, <1>11

\* Every step keeps the count.
LEMMA NextTags ==
  ASSUME Inv, TagInv, [Next]_vars
  PROVE  TagInv'
<1> SUFFICES ASSUME NEW r \in Requests
             PROVE  TagSum(r)' <= 1 + Repeats' /\ \E n \in 0..MaxTag : PublishedFor(r)' = 1..n
  BY DEF TagInv
<1>1. \E n \in 0..MaxTag : PublishedFor(r) = 1..n BY DEF TagInv
<1>2. CASE \E w \in Workers : PublishEmbed(w) BY <1>2, PublishTags
<1>3. CASE \E w \in Workers : TaskStep(w) /\ ~PublishEmbed(w)
  <2>1. PICK w \in Workers : TaskStep(w) /\ ~PublishEmbed(w) BY <1>3
  <2>2. QED BY <1>1, <2>1, TaskStepTags
<1>4. CASE \E w \in Workers : DeliverTask(w)
  <2>1. PICK w \in Workers : DeliverTask(w) BY <1>4
  <2>2. QED BY <1>1, <2>1, DeliverTags
<1>5. CASE \E w \in Workers : Crash(w)
  <2>1. PICK w \in Workers : Crash(w) BY <1>5
  <2>2. CASE KillWorker(w) BY <1>1, <2>2, KillTags
  <2>3. CASE LoseChild(w)
    <3>1. CASE ~PublishEmbed(w) BY <1>1, <2>1, <2>3, <3>1, TaskStepTags
    <3>2. CASE PublishEmbed(w) BY <1>2, <3>2
    <3>3. QED BY <3>1, <3>2
  <2>4. QED BY <2>1, <2>2, <2>3 DEF Crash
<1>6. CASE \/ \E s \in Requests : Upload(s) \/ Reembed(s)
           \/ \E b \in Messages : Restore(b) \/ Expire(b)
           \/ \E u \in Users : MoveUser(u)
           \/ UNCHANGED vars
  BY <1>1, <1>6, OutsideTags
<1>7. QED BY <1>2, <1>3, <1>4, <1>5, <1>6 DEF Next, Idle

\* At first nothing is published, and nobody imports.
LEMMA InitTags == Init => TagInv
<1> SUFFICES ASSUME Init, NEW r \in Requests
             PROVE  TagSum(r) <= 1 + Repeats /\ \E n \in 0..MaxTag : PublishedFor(r) = 1..n
  BY DEF TagInv
<1> USE DEF Init, BrokerInit, PoolInit
<1>1. PublishedFor(r) = {} BY MessageFacts DEF PublishedFor
<1>2. ImportersOf(r) = {} BY DEF ImportersOf, ImportStates
<1>3. Repeats = 0 BY DEF Repeats
<1>4. TagSum(r) <= 1 + Repeats BY <1>1, <1>2, <1>3, FS_EmptySet DEF TagSum
<1>5. 1..0 = {} /\ 0 \in 0..MaxTag BY BrokerAssumption
<1>6. QED BY <1>1, <1>4, <1>5

LEMMA TagsHold == Spec => [](Inv /\ TagInv)
  BY InitTags, NextTags, InvHolds, PTL DEF Spec

\* A job's embed task is published once, and again at most once for each worker
\* that was killed and each timeout that hit a running task.
THEOREM FewEmbedTasks == Spec => []EmbedTasksBounded
<1>1. Inv /\ TagInv => EmbedTasksBounded
  <2> SUFFICES ASSUME Inv, TagInv, NEW r \in Requests
               PROVE  Cardinality(PublishedFor(r)) <= 1 + Repeats
    BY DEF EmbedTasksBounded
  <2>1. Cardinality(PublishedFor(r)) \in Nat /\ Cardinality(ImportersOf(r)) \in Nat BY TagFacts
  <2>2. Repeats \in Nat BY RepeatsFacts
  <2>3. TagSum(r) <= 1 + Repeats BY DEF TagInv
  <2>4. QED BY <2>1, <2>2, <2>3 DEF TagSum
<1>2. QED BY <1>1, TagsHold, PTL

\* An import that has committed finds a message to publish the embed task with: the
\* bound on those messages keeps no worker from going on.
THEOREM TagsSuffice == Spec => []TagIsLeft
<1>1. Inv /\ TagInv => TagIsLeft
  <2> SUFFICES ASSUME Inv, TagInv, NEW w \in Workers, pc[w] = "publish"
               PROVE  \E t \in 1..MaxTag :
                        /\ broker[EmbedMsg(JobOf(w), t)] = "unsent"
                        /\ \A s \in 1..(t - 1) : broker[EmbedMsg(JobOf(w), s)] # "unsent"
    BY DEF TagIsLeft
  <2>1. PICK r \in Requests : r = JobOf(w) /\ task[w] = ImportMsg(r)
    BY ImportJobFacts DEF ImportStates
  <2>2. PICK n \in 0..MaxTag : PublishedFor(r) = 1..n BY DEF TagInv
  <2>3. Cardinality(PublishedFor(r)) = n BY <2>2, FS_Interval
  <2>4. PICK i \in Nat : i = Cardinality(ImportersOf(r)) /\ i # 0
    <3>1. w \in ImportersOf(r) BY <2>1 DEF ImportersOf, ImportStates
    <3>2. QED BY <3>1, TagFacts, FS_EmptySet
  <2>5. n + i <= 1 + Repeats
    <3>1. PICK c \in {0, 1} : c = (IF ImportComes(r) THEN 1 ELSE 0) OBVIOUS
    <3>2. n + i + c <= 1 + Repeats BY <2>3, <2>4, <3>1 DEF TagInv, TagSum
    <3>3. Repeats \in Nat BY RepeatsFacts
    <3>4. QED BY <3>2, <3>3
  <2>6. n + 1 <= MaxTag BY <2>4, <2>5, RepeatsFacts
  <2>7. n + 1 \in 1..MaxTag BY <2>6
  <2>8. n + 1 \notin PublishedFor(r) /\ \A s \in 1..n : s \in PublishedFor(r) BY <2>2
  <2>9. broker[EmbedMsg(r, n + 1)] = "unsent" BY <2>7, <2>8 DEF PublishedFor
  <2>10. \A s \in 1..((n + 1) - 1) : broker[EmbedMsg(r, s)] # "unsent" BY <2>8 DEF PublishedFor
  <2>11. QED BY <2>1, <2>7, <2>9, <2>10
<1>2. QED BY <1>1, TagsHold, PTL

(***************************************************************************)
(* The pipeline is never stuck: while a request, a task or a message is    *)
(* under way, one of them has a next step that is possible.                *)
(***************************************************************************)
\* The next statement of the worker's task waits for nobody, Postgres finds it in a
\* circle, or there is a message to publish the embed task with.
CanGoOn(w) ==
  \/ pc[w] \in {"begin", "select", "convs", "read", "skip", "embed", "store", "ack"}
  \/ pc[w] \in {"lock", "claim", "messages"} /\ ~Blocked(w)
  \/ Deadlocked(w)
  \/ /\ pc[w] = "publish"
     /\ \E t \in 1..MaxTag :
          /\ broker[EmbedMsg(JobOf(w), t)] = "unsent"
          /\ \A s \in 1..(t - 1) : broker[EmbedMsg(JobOf(w), s)] # "unsent"

RequestCanGoOn(r) ==
  \/ req[r].pc \in {"insert", "save"}
  \/ req[r].pc = "enqueue" /\ broker[ImportMsg(r)] = "unsent"

\* A worker is free to take the message, or its visibility timeout passes.
MessageCanGoOn(b) ==
  \/ broker[b] = "queued" /\ \E w \in Workers : pc[w] = "idle"
  \/ broker[b] = "unacked" /\ ~Running(b)

NeverStuck ==
  /\ \A r \in Requests : req[r].pc \in {"insert", "save", "enqueue"} => RequestCanGoOn(r)
  /\ (\E w \in Workers : pc[w] # "idle") => \E w \in Workers : CanGoOn(w)
  /\ (\A w \in Workers : pc[w] = "idle") /\ Workers # {} =>
       \A b \in Messages : broker[b] \in {"queued", "unacked"} => MessageCanGoOn(b)

\* An import message is sent by the request that was accepted with it, and only by it.
SentByRequest == \A r \in Requests : broker[ImportMsg(r)] # "unsent" => req[r].pc = "accepted"

LEMMA NextSent == Inv /\ SentByRequest /\ [Next]_vars => SentByRequest'
<1> SUFFICES ASSUME Inv, SentByRequest, [Next]_vars, NEW r \in Requests,
                    broker'[ImportMsg(r)] # "unsent"
             PROVE  req'[r].pc = "accepted"
  BY DEF SentByRequest
<1> USE MessageFacts
<1>1. /\ broker \in [Messages -> MessageStates] /\ req \in [Requests -> Request]
      /\ task \in [Workers -> Messages \cup {None}]
  BY DEF Inv, TypeOK, BrokerTypeOK, RequestTypeOK, PoolTypeOK
<1>2. broker[ImportMsg(r)] # "unsent" => req[r].pc = "accepted" BY DEF SentByRequest
<1>3. CASE broker[ImportMsg(r)] # "unsent" /\ req' = req BY <1>2, <1>3
<1>4. ASSUME NEW s \in Requests, Upload(s) PROVE req'[r].pc = "accepted"
  <2>1. CASE Enqueue(s)
    <3>1. s # r => broker'[ImportMsg(r)] = broker[ImportMsg(r)]
      BY <1>1, <2>1 DEF Enqueue, Publish, ImportMsg
    <3>2. QED BY <1>1, <1>2, <2>1, <3>1 DEF Enqueue, Goto, Request
  <2>2. CASE ~Enqueue(s)
    <3>1. UNCHANGED broker /\ req[s].pc # "accepted" /\ \A x \in Requests \ {s} : req'[x] = req[x]
      BY <1>1, <1>4, <2>2 DEF Upload, StartUpload, UploadStep, InsertJob, SaveUpload, RequestDies,
        Goto, brokerVars
    <3>2. QED BY <1>2, <3>1
  <2>3. QED BY <2>1, <2>2
<1>5. ASSUME NEW s \in Requests, Reembed(s) PROVE broker[ImportMsg(r)] # "unsent" /\ req' = req
  BY <1>1, <1>5 DEF Reembed, Publish
<1>6. ASSUME NEW w \in Workers, DeliverTask(w) \/ TaskStep(w) \/ Crash(w)
      PROVE  broker[ImportMsg(r)] # "unsent" /\ req' = req
  <2>1. req' = req BY <1>6 DEF DeliverTask, TaskStep, Crash
  <2>2. CASE PublishEmbed(w)
    <3>1. PICK t \in 1..MaxTag : Publish(EmbedMsg(JobOf(w), t)) BY <2>2 DEF PublishEmbed
    <3>2. QED BY <1>1, <2>1, <3>1 DEF Publish, EmbedMsg, ImportMsg
  <2>3. CASE DeliverTask(w) BY <1>1, <2>1, <2>3 DEF DeliverTask, Deliver
  <2>4. CASE KillWorker(w) BY <2>1, <2>4 DEF KillWorker, brokerVars
  <2>5. CASE (TaskStep(w) \/ LoseChild(w)) /\ ~PublishEmbed(w)
    <3>1. AckTask(w) \/ LoseChild(w) \/ Ends(w) \/ Goes(w) BY <2>5, TaskStepKinds
    <3>2. QED BY <1>1, <2>1, <3>1 DEF AckTask, LoseChild, Ack, Ends, Goes
  <2>6. QED BY <1>6, <2>2, <2>3, <2>4, <2>5 DEF Crash
<1>7. ASSUME NEW b \in Messages, Restore(b) \/ Expire(b)
      PROVE  broker[ImportMsg(r)] # "unsent" /\ req' = req
  BY <1>1, <1>7 DEF Restore, RestoreOrphan, RestoreRunning, Expire, ExpireResult
<1>8. CASE (\E u \in Users : MoveUser(u)) \/ Idle \/ UNCHANGED vars
  BY <1>3, <1>8 DEF MoveUser, Idle, vars, brokerVars
<1>9. QED BY <1>3, <1>4, <1>5, <1>6, <1>7, <1>8 DEF Next

\* Who stands in the way of a session has its job's row and waits at most for others.
LEMMA WhoBlocks ==
  ASSUME Inv, NEW w \in Workers, NEW v \in Blockers(w)
  PROVE  v \in Workers \ {w} /\ pc[v] # "idle"
<1>1. v \in Workers \ {w} BY DEF Blockers
<1>2. CASE HoldsJob(v) BY <1>1, <1>2 DEF HoldsJob
<1>3. CASE ~HoldsJob(v)
  <2>1. tx[v].moved = {} /\ tx[v].write = NoContents BY <1>1, <1>3 DEF Inv, SessionInv, SessionOK
  <2>2. pc[w] = "messages" /\ \E m \in ToWrite(w) : tx[v].write[Key(w)][m] # None
    BY <1>3, <2>1 DEF Blockers
  <2>3. HoldsJob(w) BY <2>2 DEF HoldsJob
  <2>4. tx[w].next <= Len(Order(JobOf(w))) BY <2>2, <2>3 DEF Inv, SessionInv, SessionOK
  <2>5. Key(w) \in ConvKeys BY <2>2, <2>3, <2>4, LoopFacts
  <2>6. QED BY <2>1, <2>2, <2>5 DEF NoContents, ToWrite
<1>4. QED BY <1>1, <1>2, <1>3

\* Sessions that wait only for each other have a smallest group that does, in which
\* each waits for one and is waited for by one.
LEMMA SomeDeadlock ==
  ASSUME NEW W \in SUBSET Workers, W # {},
         \A w \in W : Blockers(w) # {} /\ Blockers(w) \subseteq W
  PROVE  \E w \in W : Deadlocked(w)
<1> DEFINE Closed == {T \in SUBSET W : T # {} /\ \A w \in T : Blockers(w) \subseteq T}
<1>1. PICK S \in Closed : \A T \in Closed : ~(<<T, S>> \in StrictSubsetOrdering(W))
  <2>1. W \in Closed OBVIOUS
  <2>2. Closed \subseteq FiniteSubsetsOf(W) BY WorkerAssumption, FS_Subset DEF FiniteSubsetsOf
  <2> HIDE DEF Closed
  <2>3. QED BY <2>1, <2>2, FS_StrictSubsetOrderingWellFounded, WFMin
<1>2. S \in SUBSET W /\ S # {} /\ \A w \in S : Blockers(w) \subseteq S BY <1>1
<1>3. ASSUME NEW v \in S PROVE Blockers(v) \cap S # {} /\ \E x \in S : v \in Blockers(x)
  <2>1. PICK b \in Blockers(v) : b \in S /\ b # v BY <1>2 DEF Blockers
  <2>2. ASSUME \A x \in S : v \notin Blockers(x) PROVE FALSE
    <3> DEFINE T == S \ {v}
    <3>1. T \in SUBSET W /\ T # {} /\ \A w \in T : Blockers(w) \subseteq T BY <1>2, <2>1, <2>2
    <3>2. <<T, S>> \in StrictSubsetOrdering(W) BY <1>2 DEF StrictSubsetOrdering
    <3>3. QED BY <1>1, <3>1, <3>2
  <2>3. QED BY <2>1, <2>2
<1>4. PICK w \in S : TRUE BY <1>2
<1>5. Deadlocked(w) BY <1>2, <1>3, <1>4 DEF Deadlocked
<1>6. QED BY <1>2, <1>4, <1>5

\* Where no task can go on, all of them wait for each other's rows.
LEMMA TasksGoOn ==
  ASSUME Inv, TagIsLeft, NEW a \in Workers, pc[a] # "idle"
  PROVE  \E w \in Workers : CanGoOn(w)
<1> SUFFICES ASSUME \A w \in Workers : ~CanGoOn(w) PROVE FALSE OBVIOUS
<1> DEFINE W == {w \in Workers : pc[w] # "idle"}
<1>1. \A w \in W : Blockers(w) # {}
  <2> SUFFICES ASSUME NEW w \in W PROVE Blocked(w) BY DEF Blocked
  <2>1. pc[w] \in WorkerStates BY DEF Inv, TypeOK, PoolTypeOK
  <2>2. pc[w] # "publish" BY DEF TagIsLeft, CanGoOn
  <2>3. QED BY <2>1, <2>2 DEF CanGoOn, WorkerStates, ImportStates, EmbedStates
<1>2. \A w \in W : Blockers(w) \subseteq W BY WhoBlocks
<1>3. W \in SUBSET Workers /\ W # {} OBVIOUS
<1> HIDE DEF W
<1>4. PICK w \in W : Deadlocked(w) BY <1>1, <1>2, <1>3, SomeDeadlock
<1>5. QED BY <1>3, <1>4 DEF CanGoOn

\* Whatever is under way goes on, as far as locks, messages and bounds are concerned:
\* a request can take its next step, of busy workers one can, and when all are idle every
\* message that is left can be delivered or restored.
THEOREM SomebodyGoesOn == Spec => []NeverStuck
<1>1. Init => SentByRequest BY MessageFacts DEF Init, BrokerInit, SentByRequest
<1>2. Inv /\ SentByRequest /\ TagIsLeft => NeverStuck
  <2> SUFFICES ASSUME Inv, SentByRequest, TagIsLeft PROVE NeverStuck OBVIOUS
  <2>1. ASSUME NEW r \in Requests, req[r].pc \in {"insert", "save", "enqueue"}
        PROVE  RequestCanGoOn(r)
    BY <2>1 DEF RequestCanGoOn, SentByRequest
  <2>2. (\E w \in Workers : pc[w] # "idle") => \E w \in Workers : CanGoOn(w) BY TasksGoOn
  <2>3. ASSUME \A w \in Workers : pc[w] = "idle", Workers # {},
               NEW b \in Messages, broker[b] \in {"queued", "unacked"}
        PROVE  MessageCanGoOn(b)
    <3>1. \A w \in Workers : task[w] = None BY <2>3 DEF Inv, TypeOK, TaskOK
    <3>2. ~Running(b) BY <3>1, NoTaskAssumption DEF Running
    <3>3. QED BY <2>3, <3>2 DEF MessageCanGoOn
  <2>4. QED BY <2>1, <2>2, <2>3 DEF NeverStuck
<1>3. QED BY <1>1, <1>2, NextSent, TagsSuffice, InvHolds, PTL DEF Spec

(***************************************************************************)
(* The ledger: whatever requests, workers, crashes and timeouts do, the     *)
(* tables change as ImportLedger says.                                      *)
(***************************************************************************)
\* The ledger is about the same tables and files.
LEMMA LedgerNames ==
  /\ Ledger!ConvKeys = ConvKeys
  /\ \A j, c : Ledger!FileText(j, c) = FileText(j, c)
  /\ \A j : Ledger!Order(j) = Order(j) /\ (Ledger!Loadable(j) <=> Loadable(j))
  /\ \A u, f : Ledger!JobExists(u, f) <=> JobExists(u, f)
  BY DEF Ledger!ConvKeys, ConvKeys, Ledger!FileText, FileText, Ledger!Order, Order,
    Ledger!Loadable, Loadable, Ledger!JobExists, JobExists

\* The first step of an upload that gets past the duplicate check, and its save.
LEMMA UploadIsLedger ==
  ASSUME Inv, NEW r \in Requests, Upload(r)
  PROVE  Ledger!LedgerNext \/ UNCHANGED storeVars
<1>1. /\ req \in [Requests -> Request]
      /\ req[r].pc = "insert" => jobs[r] = None /\ req[r].user \in Users /\ req[r].file \in Files
      /\ req[r].pc = "save" => jobs[r] # None
  BY DEF Inv, TypeOK, RequestTypeOK, RequestInv, Request
<1>2. CASE InsertJob(r)
  <2>1. CASE JobExists(req[r].user, req[r].file)
    BY <1>2, <2>1 DEF InsertJob, storeVars
  <2>2. CASE ~JobExists(req[r].user, req[r].file)
    <3>1. Ledger!Accept(r, req[r].user, req[r].file)
      BY <1>1, <1>2, <2>2, LedgerNames DEF InsertJob, Ledger!Accept
    <3>2. QED BY <1>1, <1>2, <3>1 DEF InsertJob, Ledger!LedgerNext
  <2>3. QED BY <2>1, <2>2
<1>3. CASE SaveUpload(r)
  <2>1. Ledger!Store(r) BY <1>1, <1>3 DEF SaveUpload, Ledger!Store
  <2>2. QED BY <2>1 DEF Ledger!LedgerNext
<1>4. CASE \/ Enqueue(r) \/ RequestDies(r)
           \/ \E u \in Users, f \in Files, a \in Accounts : StartUpload(r, u, f, a)
  BY <1>4 DEF Enqueue, RequestDies, StartUpload, storeVars
<1>5. QED BY <1>2, <1>3, <1>4 DEF Upload, UploadStep

\* The commit of an import applies its file as a whole.
LEMMA ImportCommitIsApply ==
  ASSUME SafetyInv, NEW w \in Workers, ImportCommit(w)
  PROVE  Ledger!Apply(JobOf(w), account[JobOf(w)]) /\ JobOf(w) \in Requests
           /\ account[JobOf(w)] \in Accounts
<1> USE DEF ImportCommit
<1>1. /\ Inv /\ pc[w] \in ImportStates /\ HoldsJob(w) /\ SessionData(w)
      /\ convs \in [ConvKeys -> ConvRow \cup {None}]
  BY DEF SafetyInv, Inv, TypeOK, StoreTypeOK, ImportStates, HoldsJob, DataInv
<1>2. PICK j \in Requests : j = JobOf(w) BY <1>1, ImportJobFacts
<1>3. PICK a \in Accounts : a = account[j] BY <1>1, <1>2, ImportJobFacts
<1>4. jobs[j] # None /\ Loadable(j)
  BY <1>1, <1>2, ImportJobFacts DEF SessionData, Loadable
<1>5. /\ Order(j) \in Seq(ConvIds)
      /\ \A c \in ConvIds : FileText(j, c) \in [MsgIds -> Texts \cup {None}]
  BY <1>1, <1>2, LoopFacts DEF ParsedFile, Order, FileText
<1>6. DOMAIN Order(j) \subseteq 1..(tx[w].next - 1)
  <2>1. Len(Order(j)) \in Nat /\ tx[w].next \in Nat /\ tx[w].next > Len(Order(j))
    BY <1>1, <1>2, LoopFacts
  <2>2. QED BY <1>5, <2>1
<1>7. ASSUME NEW k \in ConvKeys
      PROVE  LET text == IF k[2] = a /\ \E i \in DOMAIN Order(j) : Order(j)[i] = k[1]
                         THEN FileText(j, k[1]) ELSE [m \in MsgIds |-> None]
             IN  /\ \A m \in MsgIds :
                      /\ msgs'[k][m] \in {text[m], msgs[k][m]}
                      /\ msgs'[k][m] = None => text[m] = None /\ msgs[k][m] = None
                 /\ \/ convs'[k] = convs[k] /\ (convs[k] = None => text = [m \in MsgIds |-> None])
                    \/ /\ text # [m \in MsgIds |-> None]
                       /\ convs'[k] = [owner |-> IF convs[k] = None THEN jobs[j].user
                                                 ELSE convs[k].owner,
                                       job   |-> j]
  <2>1. PICK text : text = IF k[2] = a /\ \E i \in DOMAIN Order(j) : Order(j)[i] = k[1]
                           THEN FileText(j, k[1]) ELSE [m \in MsgIds |-> None]
    OBVIOUS
  <2>2. text \in [MsgIds -> Texts \cup {None}] /\ k = <<k[1], k[2]>> /\ k[1] \in ConvIds
    BY <1>5, <2>1 DEF ConvKeys
  <2>3. InFile(w, k) => text = FileText(j, k[1])
    BY <1>2, <1>3, <2>1 DEF InFile
  <2>4. ASSUME NEW m \in MsgIds, text[m] # None
        PROVE  Claimed(w, k) /\ (tx[w].write[k][m] # None \/ msgs[k][m] # None)
    <3>1. PICK i \in DOMAIN Order(j) : k[2] = a /\ Order(j)[i] = k[1] /\ text = FileText(j, k[1])
      BY <2>1, <2>4
    <3>2. i \in 1..(tx[w].next - 1) BY <1>6
    <3>3. Written(w, i) BY <1>1, <3>2 DEF SessionData
    <3>4. HasMessages(j, k[1]) BY <2>4, <3>1 DEF HasMessages
    <3>5. <<k[1], account[j]>> = k BY <1>3, <2>2, <3>1
    <3>6. Order(JobOf(w))[i] = k[1] /\ <<k[1], account[JobOf(w)]>> = k
      BY <1>2, <3>1, <3>5
    <3>7. QED BY <1>2, <2>4, <3>1, <3>3, <3>4, <3>6 DEF Written
  <2>5. ASSUME NEW m \in MsgIds
        PROVE  /\ msgs'[k][m] \in {text[m], msgs[k][m]}
               /\ msgs'[k][m] = None => text[m] = None /\ msgs[k][m] = None
    <3>1. msgs'[k][m] = IF tx[w].write[k][m] # None THEN tx[w].write[k][m] ELSE msgs[k][m]
      BY DEF MsgsAfter
    <3>2. tx[w].write[k][m] # None => tx[w].write[k][m] = text[m]
      BY <1>1, <1>2, <2>3 DEF SessionData
    <3>3. QED BY <2>4, <3>1, <3>2
  <2>6. CASE k \in tx[w].moved
    <3>1. HasMessages(j, k[1]) /\ text = FileText(j, k[1])
      BY <1>1, <1>2, <2>3, <2>6 DEF SessionData
    <3>2. text # [m \in MsgIds |-> None] BY <3>1 DEF HasMessages
    <3>3. convs'[k] = [owner |-> IF convs[k] = None THEN jobs[j].user ELSE convs[k].owner,
                       job |-> j]
      BY <1>2, <2>6 DEF ConvsAfter
    <3>4. QED BY <2>1, <2>5, <3>2, <3>3
  <2>7. CASE k \notin tx[w].moved
    <3>1. convs'[k] = convs[k] BY <2>7 DEF ConvsAfter
    <3>2. convs[k] = None => \A m \in MsgIds : text[m] = None BY <2>4, <2>7 DEF Claimed
    <3>3. convs[k] = None => text = [m \in MsgIds |-> None] BY <2>2, <3>2
    <3>4. QED BY <2>1, <2>5, <3>1, <3>3
  <2>8. QED BY <2>6, <2>7
<1>8. /\ jobs' = [jobs EXCEPT ![j].status = "completed"] /\ UNCHANGED <<embs, member, uploads>>
  BY <1>2
<1>9. Ledger!Apply(j, a) BY <1>4, <1>7, <1>8, LedgerNames DEF Ledger!Apply
<1>10. QED BY <1>2, <1>3, <1>9

\* The commit of an embed task indexes imported texts.
LEMMA EmbedCommitIsIndex ==
  ASSUME SafetyInv, NEW w \in Workers, EmbedCommit(w)
  PROVE  Ledger!Index
<1>1. tx[w].pend \in Contents /\ SessionData(w)
  BY DEF SafetyInv, Inv, TypeOK, PoolTypeOK, Session, DataInv
<1>2. ASSUME NEW k \in ConvKeys, NEW m \in MsgIds
      PROVE  \/ embs'[k][m] = embs[k][m]
             \/ \E t \in Texts : Ledger!Imported(k, m, t) /\ embs'[k][m] = Append(embs[k][m], t)
  <2>1. embs'[k][m] = IF tx[w].pend[k][m] = None THEN embs[k][m]
                      ELSE Append(embs[k][m], tx[w].pend[k][m])
    BY DEF EmbedCommit
  <2>2. CASE tx[w].pend[k][m] = None BY <2>1, <2>2
  <2>3. CASE tx[w].pend[k][m] # None
    <3>1. PICK t \in Texts : t = tx[w].pend[k][m] BY <1>1, <2>3 DEF Contents
    <3>2. WasImported(k, m, t) BY <1>1, <2>3, <3>1 DEF SessionData
    <3>3. Ledger!Imported(k, m, t)
      BY <3>2, LedgerNames DEF WasImported, Completed, Ledger!Imported
    <3>4. QED BY <2>1, <2>3, <3>1, <3>3
  <2>4. QED BY <2>2, <2>3
<1>3. QED BY <1>2, LedgerNames DEF Ledger!Index, EmbedCommit

LEMMA WorkerIsLedger ==
  ASSUME SafetyInv, NEW w \in Workers, DeliverTask(w) \/ TaskStep(w) \/ Crash(w)
  PROVE  Ledger!LedgerNext \/ UNCHANGED storeVars
<1>1. CASE ImportCommit(w) BY <1>1, ImportCommitIsApply DEF Ledger!LedgerNext
<1>2. CASE EmbedCommit(w) BY <1>2, EmbedCommitIsIndex DEF Ledger!LedgerNext
<1>3. CASE ~ImportCommit(w) /\ ImportStep(w)
  BY <1>3 DEF ImportStep, BeginImport, LockJob, SkipConversation, SelectConversation,
    ClaimConversation, ClaimFails, WriteMessages, DeadlockVictim, PublishEmbed, Raise, storeVars
<1>4. CASE ~EmbedCommit(w) /\ EmbedStep(w)
  BY <1>4 DEF EmbedStep, ReadConversations, ReadMessages, SkipExisting, EmbedFails, Raise,
    storeVars
<1>5. CASE DeliverTask(w) \/ Crash(w) \/ StoreSuccess(w) \/ AckTask(w)
  BY <1>5 DEF DeliverTask, Deliver, Crash, KillWorker, LoseChild, StoreSuccess, AckTask, storeVars
<1>6. QED BY <1>1, <1>2, <1>3, <1>4, <1>5 DEF TaskStep

\* The pipeline implements its ledger: a file is accepted once per user, applied
\* as a whole or not at all, and indexed from what was imported, whatever requests,
\* workers, crashes and timeouts do.
THEOREM PipelineIsLedger == Spec => ImplementsLedger
<1>1. Init => Ledger!LedgerInit
  BY DEF Init, StoreInit, Ledger!LedgerInit, Ledger!StoreInit, NoContents, Ledger!NoContents,
    ConvKeys, Ledger!ConvKeys
<1>2. SafetyInv /\ [Next]_vars => [Ledger!LedgerNext]_(Ledger!storeVars)
  <2> SUFFICES ASSUME SafetyInv, [Next]_vars
               PROVE  Ledger!LedgerNext \/ UNCHANGED storeVars
    BY DEF storeVars, Ledger!storeVars
  <2>1. ASSUME NEW r \in Requests, Upload(r) PROVE Ledger!LedgerNext \/ UNCHANGED storeVars
    BY <2>1, UploadIsLedger DEF SafetyInv
  <2>2. ASSUME NEW u \in Users, MoveUser(u) PROVE Ledger!LedgerNext
    <3>1. member' \in SUBSET Users BY <2>2 DEF SafetyInv, Inv, TypeOK, StoreTypeOK, MoveUser
    <3>2. Ledger!SetMembership BY <2>2, <3>1 DEF MoveUser, Ledger!SetMembership
    <3>3. QED BY <3>2 DEF Ledger!LedgerNext
  <2>3. QED
    BY <2>1, <2>2, WorkerIsLedger DEF Next, Idle, vars, storeVars, Reembed, Restore, RestoreOrphan,
      RestoreRunning, Expire, ExpireResult
<1>3. QED BY <1>1, <1>2, SafetyHolds, PTL DEF Spec, ImplementsLedger, Ledger!LedgerSpec
=============================================================================
