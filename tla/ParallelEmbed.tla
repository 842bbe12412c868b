--------------------------- MODULE ParallelEmbed ---------------------------
(* One call of embed_texts_parallel: the texts in batches, a pool of        *)
(* threads that sends them, and the caller that collects what they return.  *)
EXTENDS Naturals, SequencesExt

CONSTANTS
  MaxTexts,       \* bound on the texts of a call
  BatchSize,      \* settings.embedding_batch_size
  MaxParallel     \* bound on settings.embedding_max_parallel_batches

ASSUME EmbedAssumption ==
  MaxTexts \in Nat /\ BatchSize \in Nat \ {0} /\ MaxParallel \in Nat \ {0}

VARIABLES
  texts,     \* how many texts there are; text i has the vector i
  workers,   \* max_workers
  state,     \* the future of each batch
  value,     \* its result
  ordered,   \* the results collected, by batch
  result,    \* the list returned
  pc         \* where the caller is

vars == <<texts, workers, state, value, ordered, result, pc>>

\* _chunked: consecutive texts, the last batch shorter.
Batches == 1..((texts + BatchSize - 1) \div BatchSize)

Chunk(b) == [i \in 1..(IF b * BatchSize > texts THEN texts - (b - 1) * BatchSize ELSE BatchSize) |->
               (b - 1) * BatchSize + i]

Missing == <<0>>
In(s) == {b \in Batches : state[b] = s}
Done == In("ok") \cup In("failed")

TypeOK ==
  /\ texts \in 0..MaxTexts /\ workers \in 1..MaxParallel
  /\ state \in [Batches -> {"new", "queued", "running", "ok", "failed"}]
  /\ value \in [Batches -> Seq(0..texts)] /\ ordered \in [Batches -> Seq(0..texts)]
  /\ result \in Seq(1..texts)
  /\ pc \in {"call", "sequential", "submit", "collect", "shutdown", "error", "returned", "raised"}

Init ==
  /\ texts \in 0..MaxTexts /\ workers \in 1..MaxParallel
  /\ state = [b \in Batches |-> "new"]
  /\ value = [b \in Batches |-> Missing]
  /\ ordered = [b \in Batches |-> Missing]
  /\ result = <<>>
  /\ pc = "call"

(***************************************************************************)
(* The threads.                                                            *)
(***************************************************************************)
\* A response lists the vectors in any order, each with the index of its text.
Responses(b) ==
  LET n == Len(Chunk(b)) IN
    {[i \in 1..n |-> [index |-> p[i], embedding |-> Chunk(b)[p[i]]]] :
       p \in {q \in [1..n -> 1..n] : \A i, j \in 1..n : q[i] = q[j] => i = j}}

\* Mutant: the vectors as the response lists them.
EmbeddingsAsListed(r) == [i \in DOMAIN r |-> r[i].embedding]

\* sorted by index
Embeddings(r) ==
  [i \in DOMAIN r |-> (CHOOSE item \in {r[j] : j \in DOMAIN r} : item.index = i).embedding]

\* Mutant: a batch that failed is tried again, for ever.
RunBatchRetrying(b) ==
  \/ /\ \E r \in Responses(b) : value' = [value EXCEPT ![b] = Embeddings(r)]
     /\ state' = [state EXCEPT ![b] = "ok"]
  \/ /\ state' = [state EXCEPT ![b] = IF pc = "sequential" THEN "new" ELSE "queued"]
     /\ UNCHANGED value

\* _embed_openai_batch: an answer, or an error of the call or of the response's shape.
RunBatch(b) ==
  \/ /\ \E r \in Responses(b) : value' = [value EXCEPT ![b] = Embeddings(r)]
     /\ state' = [state EXCEPT ![b] = "ok"]
  \/ state' = [state EXCEPT ![b] = "failed"] /\ UNCHANGED value

\* The pool takes batches in the order of submission.
StartBatch(b) ==
  /\ state[b] = "queued"
  /\ \A c \in In("queued") : b <= c
  /\ Cardinality(In("running")) < workers
  /\ state' = [state EXCEPT ![b] = "running"]
  /\ UNCHANGED <<texts, workers, value, ordered, result, pc>>

FinishBatch(b) ==
  /\ state[b] = "running" /\ pc # "sequential"
  /\ RunBatch(b)
  /\ UNCHANGED <<texts, workers, ordered, result, pc>>

(***************************************************************************)
(* The caller.                                                             *)
(***************************************************************************)
Call ==
  /\ pc = "call"
  /\ pc' = IF texts = 0 THEN "returned"
           ELSE IF Cardinality(Batches) = 1 \/ workers <= 1 THEN "sequential" ELSE "submit"
  /\ UNCHANGED <<texts, workers, state, value, ordered, result>>

\* Without a pool, one batch after the other until one fails.
NextBatch ==
  /\ pc = "sequential"
  /\ \E b \in In("new") :
       /\ \A c \in In("new") : b <= c
       /\ RunBatch(b)
       /\ result' = IF state'[b] = "ok" THEN result \o value'[b] ELSE result
       /\ pc' = IF state'[b] = "failed" THEN "raised" ELSE pc
  /\ UNCHANGED <<texts, workers, ordered>>

EndSequential ==
  /\ pc = "sequential" /\ In("new") = {}
  /\ pc' = "returned"
  /\ UNCHANGED <<texts, workers, state, value, ordered, result>>

Submit ==
  /\ pc = "submit"
  /\ \E b \in In("new") :
       /\ \A c \in In("new") : b <= c
       /\ state' = [state EXCEPT ![b] = "queued"]
       /\ pc' = IF In("new") = {b} THEN "collect" ELSE pc
  /\ UNCHANGED <<texts, workers, value, ordered, result>>

\* Mutant: a failed batch is logged and skipped.
CollectSkipping ==
  /\ pc = "collect"
  /\ \E b \in {c \in Done : ordered[c] = Missing} :
       /\ ordered' = [ordered EXCEPT ![b] = IF state[b] = "failed" THEN <<>> ELSE value[b]]
       /\ pc' = IF \A c \in Batches \ {b} : ordered[c] # Missing THEN "shutdown" ELSE pc
  /\ UNCHANGED <<texts, workers, state, value, result>>

\* as_completed: any batch that is done and not yet collected, or the first error.
Collect ==
  /\ pc = "collect"
  /\ \E b \in {c \in Done : ordered[c] = Missing} :
       IF state[b] = "failed" THEN pc' = "error" /\ UNCHANGED ordered
       ELSE /\ ordered' = [ordered EXCEPT ![b] = value[b]]
            /\ pc' = IF \A c \in Batches \ {b} : ordered[c] # Missing THEN "shutdown" ELSE pc
  /\ UNCHANGED <<texts, workers, state, value, result>>

\* Mutant: shutdown(wait=False) on the way out.
JoinAtOnce ==
  /\ pc \in {"shutdown", "error"}
  /\ pc' = IF pc = "error" THEN "raised" ELSE "returned"
  /\ result' = IF pc = "error" THEN result ELSE FlattenSeq([b \in Batches |-> ordered[b]])
  /\ UNCHANGED <<texts, workers, state, value, ordered>>

\* Leaving the executor's block waits for the batches still queued or running, with
\* an error too; then the batches are put together, none of them missing.
Join ==
  /\ pc \in {"shutdown", "error"}
  /\ Done = Batches
  /\ IF pc = "error" \/ \E b \in Batches : ordered[b] = Missing
     THEN pc' = "raised" /\ UNCHANGED result
     ELSE pc' = "returned" /\ result' = FlattenSeq([b \in Batches |-> ordered[b]])
  /\ UNCHANGED <<texts, workers, state, value, ordered>>

Caller == Call \/ NextBatch \/ EndSequential \/ Submit \/ Collect \/ Join
Thread(b) == StartBatch(b) \/ FinishBatch(b)

Ended == pc \in {"returned", "raised"}
Return == Ended /\ UNCHANGED vars

Next == Caller \/ (\E b \in Batches : Thread(b)) \/ Return

Spec == Init /\ [][Next]_vars

\* Threads run, and a call of the provider ends by its timeout.
FairSpec ==
  Spec /\ WF_vars(Caller) /\ \A b \in 1..MaxTexts : WF_vars(b \in Batches /\ Thread(b))

(***************************************************************************)
(* Properties.                                                             *)
(***************************************************************************)
\* The vectors returned are those of the texts, in their order, whichever batch ends
\* first and however a response lists them: the pipeline zips them with its messages.
VectorsMatchTexts == pc = "returned" => result = [i \in 1..texts |-> i]

\* The call raises if and only if a batch failed: no vector is dropped or made up.
FailureIsRaised == Ended => (pc = "raised" <=> In("failed") # {})

\* When the call has ended, by an error too, no thread of it is at work or will be.
NothingLeftRunning == Ended => In("queued") \cup In("running") = {}

\* The call ends, with batches that fail while others wait for a thread.
CallEnds == <>Ended
=============================================================================
