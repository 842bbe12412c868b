----------------------------- MODULE EmbedTask -----------------------------
(* embed_import_messages: EmbeddingPipelineService.embed_import_job, one    *)
(* action per query, then the call of the embedding provider and the        *)
(* commit.                                                                  *)
EXTENDS WorkerPool

\* The conversations whose import_job_id is this job now.
ReadConversations(w) ==
  /\ pc[w] = "convs"
  /\ LET cids == {k \in ConvKeys : convs[k] # None /\ convs[k].job = JobOf(w)} IN
       /\ tx' = [tx EXCEPT ![w].cids = cids]
       /\ To(w, IF cids = {} THEN "store" ELSE "read")
  /\ UNCHANGED <<storeVars, brokerVars, task, crashes>>

\* Their messages, with the content the session keeps until it commits.
ReadMessages(w) ==
  /\ pc[w] = "read"
  /\ tx' = [tx EXCEPT ![w].pend =
       [k \in ConvKeys |-> IF k \in tx[w].cids THEN msgs[k] ELSE [m \in MsgIds |-> None]]]
  /\ To(w, "skip")
  /\ UNCHANGED <<storeVars, brokerVars, task, crashes>>

\* Mutants: existing namespaces are not left out; the namespace is made of the
\* external_uuid; the texts are taken of messages that are left out.
SkipNone(w) ==
  /\ pc[w] = "skip"
  /\ To(w, "embed")
  /\ UNCHANGED <<storeVars, brokerVars, task, tx, crashes>>

SkipByUuid(w) ==
  /\ pc[w] = "skip"
  /\ tx' = [tx EXCEPT ![w].pend =
       [k \in ConvKeys |-> [m \in MsgIds |->
          IF \A c \in ConvKeys : embs[c][m] = <<>> THEN @[k][m] ELSE None]]]
  /\ To(w, "embed")
  /\ UNCHANGED <<storeVars, brokerVars, task, crashes>>

SkipMisaligned(w) ==
  /\ pc[w] = "skip"
  /\ \E n \in MsgIds :
       tx' = [tx EXCEPT ![w].pend =
         [k \in ConvKeys |-> [m \in MsgIds |->
            IF embs[k][m] = <<>> /\ @[k][m] # None THEN @[k][n] ELSE None]]]
  /\ To(w, "embed")
  /\ UNCHANGED <<storeVars, brokerVars, task, crashes>>

\* Messages whose namespace has a record are left out, whatever it embeds.
SkipExisting(w) ==
  /\ pc[w] = "skip"
  /\ tx' = [tx EXCEPT ![w].pend =
       [k \in ConvKeys |-> [m \in MsgIds |-> IF embs[k][m] = <<>> THEN @[k][m] ELSE None]]]
  /\ To(w, "embed")
  /\ UNCHANGED <<storeVars, brokerVars, task, crashes>>

\* embed_texts raises; nothing is called when no message is pending.
EmbedFails(w) ==
  /\ pc[w] = "embed"
  /\ tx[w].pend # NoContents
  /\ crashes.outages < MaxOutages
  /\ crashes' = [crashes EXCEPT !.outages = @ + 1]
  /\ Raise(w)

EmbedCommit(w) ==
  /\ pc[w] = "embed"
  /\ embs' = [k \in ConvKeys |-> [m \in MsgIds |->
       IF tx[w].pend[k][m] = None THEN embs[k][m]
       ELSE Append(embs[k][m], tx[w].pend[k][m])]]
  /\ tx' = [tx EXCEPT ![w] = NoTx]
  /\ To(w, "store")
  /\ UNCHANGED <<jobs, convs, msgs, member, uploads, brokerVars, task, crashes>>

EmbedStep(w) ==
  \/ ReadConversations(w) \/ ReadMessages(w) \/ SkipExisting(w)
  \/ EmbedFails(w) \/ EmbedCommit(w)
=============================================================================
