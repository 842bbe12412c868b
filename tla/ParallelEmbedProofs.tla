------------------------ MODULE ParallelEmbedProofs ------------------------
(* Theorems about embed_texts_parallel, for any number of texts, size of a  *)
(* batch and number of threads.                                             *)
EXTENDS ParallelEmbed, FiniteSetTheorems, TLAPS

States == {"new", "queued", "running", "ok", "failed"}

(***************************************************************************)
(* The inductive invariant.                                                *)
(***************************************************************************)
\* What is collected of a batch is its answer, and an answer is never the mark of
\* a missing one.
CollectedInv ==
  \A b \in Batches :
    /\ ordered[b] # Missing => state[b] = "ok"
    /\ state[b] = "ok" => value[b] # Missing

\* Where the caller is bounds where the batches can be.
CallerInv ==
  /\ pc = "call" => \A b \in Batches : state[b] = "new"
  /\ pc = "sequential" => \A b \in Batches : state[b] \in {"new", "ok"}
  /\ pc \in {"collect", "shutdown", "error"} => \A b \in Batches : state[b] # "new"
  /\ pc = "shutdown" => \A b \in Batches : ordered[b] # Missing
  /\ pc = "error" => \E b \in Batches : state[b] = "failed"
  /\ pc = "returned" => \A b \in Batches : state[b] \in {"new", "ok"}
  /\ pc = "raised" => /\ \E b \in Batches : state[b] = "failed"
                      /\ \A b \in Batches : state[b] \notin {"queued", "running"}

EmbedInv ==
  /\ texts \in Nat
  /\ pc \in {"call", "sequential", "submit", "collect", "shutdown", "error", "returned", "raised"}
  /\ state \in [Batches -> States]
  /\ DOMAIN value = Batches /\ DOMAIN ordered = Batches
  /\ CollectedInv
  /\ CallerInv

(***************************************************************************)
(* Batches.                                                                *)
(***************************************************************************)
LastBatch == (texts + BatchSize - 1) \div BatchSize

\* How many texts the first k batches hold, and their vectors.
Extent(k) == IF k * BatchSize > texts THEN texts ELSE k * BatchSize
UpTo(k) == [i \in 1..Extent(k) |-> i]

\* The batches cover the texts, the last one what is left of them.
LEMMA BatchFacts ==
  ASSUME texts \in Nat
  PROVE  /\ LastBatch \in Nat /\ Batches = 1..LastBatch
         /\ Extent(0) = 0 /\ Extent(LastBatch) = texts
         /\ \A k \in Nat : Extent(k) \in Nat
         /\ \A b \in Batches : /\ b - 1 \in Nat /\ Extent(b) - Extent(b - 1) \in Nat \ {0}
                               /\ Extent(b - 1) = (b - 1) * BatchSize
                               /\ Chunk(b) = [i \in 1..(Extent(b) - Extent(b - 1)) |-> Extent(b - 1) + i]
<1>1. BatchSize \in Nat /\ BatchSize > 0 BY EmbedAssumption
<1> DEFINE n == (texts + BatchSize - 1) \div BatchSize
<1>2. /\ n \in Nat
      /\ n * BatchSize <= texts + BatchSize - 1
      /\ texts + BatchSize - 1 < (n + 1) * BatchSize
  BY <1>1
<1>3. n * BatchSize \in Nat /\ (n + 1) * BatchSize = n * BatchSize + BatchSize BY <1>1, <1>2
<1>4. LastBatch = n /\ Batches = 1..n BY DEF LastBatch, Batches
<1> HIDE DEF n
<1>5. texts <= n * BatchSize BY <1>1, <1>2, <1>3
<1>6. Extent(n) = texts BY <1>3, <1>5 DEF Extent
<1>7. Extent(0) = 0 BY <1>1 DEF Extent
<1>8. ASSUME NEW k \in Nat PROVE Extent(k) \in Nat
  <2>1. k * BatchSize \in Nat BY <1>1
  <2>2. QED BY <2>1 DEF Extent
<1>9. ASSUME NEW b \in 1..n
      PROVE  /\ b - 1 \in Nat /\ Extent(b) - Extent(b - 1) \in Nat \ {0}
             /\ Extent(b - 1) = (b - 1) * BatchSize
             /\ Chunk(b) = [i \in 1..(Extent(b) - Extent(b - 1)) |-> Extent(b - 1) + i]
  <2>1. b \in Nat /\ b - 1 \in Nat /\ b <= n BY <1>2
  <2> DEFINE start == (b - 1) * BatchSize
  <2>2. start \in Nat /\ b * BatchSize = start + BatchSize BY <1>1, <2>1
  <2>3. b * BatchSize <= n * BatchSize BY <1>1, <1>2, <2>1
  <2> HIDE DEF start
  <2>4. start < texts BY <1>1, <1>2, <1>3, <2>2, <2>3
  <2>5. Extent(b - 1) = start BY <2>2, <2>4 DEF Extent, start
  <2>6. Extent(b) - start = IF b * BatchSize > texts THEN texts - start ELSE BatchSize
    BY <1>1, <2>2 DEF Extent
  <2>7. Extent(b) - Extent(b - 1) \in Nat \ {0} BY <1>1, <2>2, <2>4, <2>5, <2>6
  <2>8. Chunk(b) = [i \in 1..(Extent(b) - start) |-> start + i] BY <2>6 DEF Chunk, start
  <2>9. QED BY <2>1, <2>5, <2>7, <2>8 DEF start
<1>10. QED BY <1>2, <1>4, <1>6, <1>7, <1>8, <1>9

\* One batch more is the vectors of its texts more.
LEMMA OneBatchMore ==
  ASSUME texts \in Nat, NEW b \in Batches
  PROVE  UpTo(b - 1) \o Chunk(b) = UpTo(b)
<1>1. PICK m, n : m = Extent(b - 1) /\ n = Extent(b) OBVIOUS
<1>2. m \in Nat /\ n \in Nat /\ n - m \in Nat \ {0}
      /\ Chunk(b) = [i \in 1..(n - m) |-> m + i]
  <2>1. b \in Nat /\ b - 1 \in Nat BY BatchFacts
  <2>2. QED BY <1>1, <2>1, BatchFacts
<1>3. UpTo(b - 1) = [i \in 1..m |-> i] /\ UpTo(b) = [i \in 1..n |-> i] BY <1>1 DEF UpTo
<1> DEFINE s == [i \in 1..m |-> i]
           t == [i \in 1..(n - m) |-> m + i]
<1>4. s \in Seq(Nat) /\ Len(s) = m /\ t \in Seq(Nat) /\ Len(t) = n - m BY <1>2
<1>5. s \o t \in Seq(Nat) /\ Len(s \o t) = n BY <1>2, <1>4
<1>6. \A i \in 1..n : (s \o t)[i] = i
  <2> SUFFICES ASSUME NEW i \in 1..n PROVE (s \o t)[i] = i OBVIOUS
  <2>1. CASE i <= m
    <3>1. (s \o t)[i] = s[i] BY <1>2, <1>4, <2>1
    <3>2. QED BY <1>2, <2>1, <3>1
  <2>2. CASE i > m
    <3>1. (s \o t)[i] = t[i - m] BY <1>2, <1>4, <2>2
    <3>2. i - m \in 1..(n - m) BY <1>2, <2>2
    <3>3. t[i - m] = m + (i - m) BY <3>2
    <3>4. QED BY <1>2, <3>1, <3>3
  <2>3. QED BY <1>2, <2>1, <2>2
<1>7. s \o t = [i \in 1..n |-> i]
  <2>1. PICK q : q = s \o t OBVIOUS
  <2> HIDE DEF s, t
  <2>2. q \in Seq(Nat) /\ Len(q) = n /\ \A i \in 1..n : q[i] = i BY <1>5, <1>6, <2>1
  <2>3. q = [i \in 1..n |-> q[i]] BY <2>2
  <2>4. q = [i \in 1..n |-> i] BY <2>2, <2>3
  <2>5. QED BY <2>1, <2>4
<1>8. QED BY <1>2, <1>3, <1>7

\* Sorted by index, the answer to a batch is the vectors of its texts in their order,
\* however the response lists them.
LEMMA AnswerIsChunk ==
  ASSUME texts \in Nat, NEW b \in Batches, NEW r \in Responses(b)
  PROVE  Embeddings(r) = Chunk(b)
<1>1. PICK c, n : c = Chunk(b) /\ n = Extent(b) - Extent(b - 1) OBVIOUS
<1>2. n \in Nat /\ DOMAIN c = 1..n /\ Len(c) = n /\ c = [i \in 1..n |-> c[i]]
  <2>1. n \in Nat /\ c = [i \in 1..n |-> Extent(b - 1) + i] BY <1>1, BatchFacts
  <2>2. QED BY <2>1
<1>3. PICK p \in [1..n -> 1..n] :
        /\ \A i, j \in 1..n : p[i] = p[j] => i = j
        /\ r = [i \in 1..n |-> [index |-> p[i], embedding |-> c[p[i]]]]
  BY <1>1, <1>2 DEF Responses
<1>4. \A i \in 1..n : \E j \in 1..n : p[j] = i
  <2>1. p \in Injection(1..n, 1..n) BY <1>3 DEF Injection, IsInjective
  <2>2. IsFiniteSet(1..n) BY <1>2, FS_Interval
  <2>3. p \in Surjection(1..n, 1..n) BY <2>1, <2>2, FS_Injection
  <2>4. QED BY <2>3 DEF Surjection
<1> DEFINE items == {r[j] : j \in DOMAIN r}
<1>5. \A i \in 1..n : (CHOOSE item \in items : item.index = i).embedding = c[i]
  <2> SUFFICES ASSUME NEW i \in 1..n
               PROVE  (CHOOSE item \in items : item.index = i).embedding = c[i]
    OBVIOUS
  <2>1. \E item \in items : item.index = i
    <3>1. PICK j \in 1..n : p[j] = i BY <1>4
    <3>2. r[j] \in items /\ r[j].index = i BY <1>3, <3>1
    <3>3. QED BY <3>2
  <2>2. \A item \in items : item.index = i => item.embedding = c[i] BY <1>3
  <2> HIDE DEF items
  <2>3. QED BY <2>1, <2>2
<1>6. Embeddings(r) = [i \in 1..n |-> (CHOOSE item \in items : item.index = i).embedding]
  BY <1>3 DEF Embeddings
<1>7. Embeddings(r) = [i \in 1..n |-> c[i]]
  <2> HIDE DEF items
  <2>1. QED BY <1>5, <1>6
<1>8. QED BY <1>1, <1>2, <1>7

\* The vectors of a batch are not the mark of a missing answer.
LEMMA ChunkIsThere ==
  ASSUME texts \in Nat, NEW b \in Batches
  PROVE  Chunk(b) # Missing
<1>1. PICK m, n : m = Extent(b - 1) /\ n = Extent(b) - Extent(b - 1) OBVIOUS
<1>2. m \in Nat /\ n \in Nat \ {0} /\ Chunk(b) = [i \in 1..n |-> m + i]
  BY <1>1, BatchFacts
<1>3. Chunk(b)[1] = m + 1 BY <1>2
<1>4. Missing[1] = 0 BY DEF Missing
<1>5. QED BY <1>2, <1>3, <1>4

\* A set of numbers has a least one: of the intervals up to each, one holds no other.
LEMMA LeastNumber ==
  ASSUME NEW T \in SUBSET Nat, T # {}
  PROVE  \E m \in T : \A k \in T : m <= k
<1> DEFINE upTo == {1..m : m \in T}
<1>1. upTo \subseteq FiniteSubsetsOf(Nat) /\ upTo # {}
  <2>1. \A m \in T : IsFiniteSet(1..m) /\ 1..m \subseteq Nat BY FS_Interval
  <2>2. QED BY <2>1 DEF FiniteSubsetsOf
<1>2. IsWellFoundedOn(StrictSubsetOrdering(Nat), FiniteSubsetsOf(Nat))
  BY FS_StrictSubsetOrderingWellFounded
<1>3. PICK least \in upTo : \A x \in upTo : ~(<<x, least>> \in StrictSubsetOrdering(Nat))
  <2> HIDE DEF upTo
  <2>1. QED BY <1>1, <1>2, WFMin
<1>4. PICK m \in T : least = 1..m OBVIOUS
<1>5. ASSUME NEW k \in T, k < m PROVE FALSE
  <2>1. 1..k \subseteq 1..m /\ m \in 1..m /\ m \notin 1..k BY <1>5
  <2>2. <<1..k, 1..m>> \in StrictSubsetOrdering(Nat)
    <3>1. 1..k \in SUBSET Nat /\ 1..m \in SUBSET Nat OBVIOUS
    <3>2. QED BY <2>1, <3>1 DEF StrictSubsetOrdering
  <2>3. QED BY <1>3, <1>4, <2>2
<1>6. QED BY <1>5

\* Before the first batch there are no vectors.
LEMMA NoBatchYet == ASSUME texts \in Nat PROVE UpTo(0) = <<>>
<1>1. UpTo(0) = [i \in 1..0 |-> i] BY BatchFacts DEF UpTo
<1>2. 1..0 = {} /\ DOMAIN UpTo(0) = 1..0 BY <1>1
<1>3. QED BY <1>1, <1>2

\* Put together in the order of the batches, the answers are the vectors of the texts.
LEMMA BatchesTogether ==
  ASSUME texts \in Nat
  PROVE  FlattenSeq([b \in Batches |-> Chunk(b)]) = [i \in 1..texts |-> i]
<1> DEFINE chunks == [b \in Batches |-> Chunk(b)]
           n == LastBatch
           flatten == CHOOSE f : f = [i \in 1..Len(chunks) |->
                                        IF i = 1 THEN chunks[i] ELSE f[i - 1] \o chunks[i]]
           known == [i \in 1..n |-> UpTo(i)]
<1>1. /\ n \in Nat /\ Batches = 1..n /\ Extent(0) = 0 /\ Extent(n) = texts
  BY BatchFacts
<1>2. Len(chunks) = n /\ chunks = [i \in 1..n |-> Chunk(i)] BY <1>1
<1>3. CASE n = 0
  <2>1. FlattenSeq(chunks) = chunks BY <1>2, <1>3 DEF FlattenSeq
  <2>2. chunks = [i \in 1..0 |-> Chunk(i)] /\ texts = 0 BY <1>1, <1>2, <1>3
  <2>3. [i \in 1..0 |-> Chunk(i)] = [i \in 1..0 |-> i]
    <3>1. \A i \in 1..0 : Chunk(i) = i OBVIOUS
    <3>2. QED BY <3>1
  <2>4. QED BY <2>1, <2>2, <2>3
<1>4. CASE n > 0
  <2>1. FlattenSeq(chunks) = flatten[n] BY <1>1, <1>2, <1>4 DEF FlattenSeq
  <2>2. \A i \in 1..n : UpTo(i) = IF i = 1 THEN Chunk(i) ELSE UpTo(i - 1) \o Chunk(i)
    <3> SUFFICES ASSUME NEW i \in 1..n
                 PROVE  UpTo(i) = IF i = 1 THEN Chunk(i) ELSE UpTo(i - 1) \o Chunk(i)
      OBVIOUS
    <3>1. UpTo(i - 1) \o Chunk(i) = UpTo(i) BY <1>1, OneBatchMore
    <3>2. i = 1 => UpTo(i) = Chunk(i)
      <4> SUFFICES ASSUME i = 1 PROVE UpTo(1) = Chunk(1) OBVIOUS
      <4>1. UpTo(1) = [j \in 1..Extent(1) |-> j] BY DEF UpTo
      <4>2. 1 - 1 = 0 /\ 1 \in Batches BY <1>1, <1>4
      <4>3. Chunk(1) = [j \in 1..(Extent(1) - Extent(0)) |-> Extent(0) + j]
        BY <4>2, BatchFacts
      <4>4. Extent(1) \in Nat BY BatchFacts
      <4>5. Extent(1) - Extent(0) = Extent(1) BY <1>1, <4>4
      <4>6. Chunk(1) = [j \in 1..Extent(1) |-> j] BY <1>1, <4>3, <4>5
      <4>7. QED BY <4>1, <4>6
    <3>3. QED BY <3>1, <3>2
  <2>3. known = [i \in 1..n |-> IF i = 1 THEN chunks[i] ELSE known[i - 1] \o chunks[i]]
    <3>1. \A i \in 1..n : UpTo(i) = IF i = 1 THEN chunks[i] ELSE known[i - 1] \o chunks[i]
      BY <1>1, <1>2, <2>2
    <3> HIDE DEF chunks
    <3>2. QED BY <3>1
  <2>4. flatten = [i \in 1..n |-> IF i = 1 THEN chunks[i] ELSE flatten[i - 1] \o chunks[i]]
    <3> HIDE DEF known, chunks, n
    <3>1. \E f : f = [i \in 1..Len(chunks) |-> IF i = 1 THEN chunks[i] ELSE f[i - 1] \o chunks[i]]
      BY <1>2, <2>3
    <3>2. QED BY <1>2, <3>1
  <2> HIDE DEF flatten
  <2>5. \A i \in 1..n : flatten[i] = UpTo(i)
    <3> DEFINE wrong == {i \in 1..n : flatten[i] # UpTo(i)}
    <3>1. SUFFICES ASSUME wrong # {} PROVE FALSE OBVIOUS
    <3>2. wrong \in SUBSET Nat BY <1>1
    <3>3. PICK i \in wrong : \A k \in wrong : i <= k
      <4> HIDE DEF wrong
      <4>1. QED BY <3>1, <3>2, LeastNumber
    <3>4. i \in 1..n /\ flatten[i] # UpTo(i) OBVIOUS
    <3>5. flatten[i] = IF i = 1 THEN Chunk(i) ELSE flatten[i - 1] \o Chunk(i)
      BY <1>2, <2>4, <3>4
    <3>6. CASE i = 1 BY <2>2, <3>4, <3>5, <3>6
    <3>7. CASE i # 1
      <4>1. i - 1 \in 1..n /\ i - 1 < i BY <1>1, <3>4, <3>7
      <4>2. flatten[i - 1] = UpTo(i - 1) BY <1>1, <3>3, <3>4, <4>1
      <4>3. QED BY <2>2, <3>4, <3>5, <3>7, <4>2
    <3>8. QED BY <3>6, <3>7
  <2>6. flatten[n] = UpTo(n) BY <1>1, <1>4, <2>5
  <2>7. QED BY <1>1, <2>1, <2>6 DEF UpTo
<1>5. QED BY <1>1, <1>3, <1>4

\* Running a batch leaves it with its answer or failed.
LEMMA RunBatchFacts ==
  ASSUME EmbedInv, NEW b \in Batches, RunBatch(b)
  PROVE  /\ \/ /\ state' = [state EXCEPT ![b] = "ok"]
               /\ value'[b] = Chunk(b) /\ value'[b] # Missing
            \/ state' = [state EXCEPT ![b] = "failed"]
         /\ DOMAIN value' = Batches
         /\ \A c \in Batches \ {b} : value'[c] = value[c]
<1>1. DOMAIN value = Batches /\ texts \in Nat BY DEF EmbedInv
<1>2. CASE /\ \E r \in Responses(b) : value' = [value EXCEPT ![b] = Embeddings(r)]
           /\ state' = [state EXCEPT ![b] = "ok"]
  <2>1. PICK r \in Responses(b) : value' = [value EXCEPT ![b] = Embeddings(r)] BY <1>2
  <2>2. Embeddings(r) = Chunk(b) /\ Chunk(b) # Missing BY <1>1, AnswerIsChunk, ChunkIsThere
  <2>3. QED BY <1>1, <1>2, <2>1, <2>2
<1>3. CASE state' = [state EXCEPT ![b] = "failed"] /\ UNCHANGED value
  BY <1>1, <1>3
<1>4. QED BY <1>2, <1>3 DEF RunBatch

(***************************************************************************)
(* The steps.                                                              *)
(***************************************************************************)
LEMMA InitEmbed == Init => EmbedInv
<1> SUFFICES ASSUME Init PROVE EmbedInv OBVIOUS
<1>1. texts \in Nat BY EmbedAssumption DEF Init
<1>2. QED BY <1>1 DEF Init, EmbedInv, CollectedInv, CallerInv, States

\* A thread takes up a batch or ends it; the caller has submitted some by then.
LEMMA ThreadEmbed ==
  ASSUME EmbedInv, NEW b \in Batches, Thread(b)
  PROVE  EmbedInv'
<1>1. state \in [Batches -> States] /\ Batches' = Batches
  BY DEF EmbedInv, Thread, StartBatch, FinishBatch, Batches
<1>2. CASE StartBatch(b)
  <2>1. state'[b] = "running" /\ \A c \in Batches \ {b} : state'[c] = state[c]
    BY <1>1, <1>2 DEF StartBatch
  <2>2. state[b] = "queued" BY <1>2 DEF StartBatch
  <2>3. state' \in [Batches -> States] BY <1>1, <1>2 DEF StartBatch, States
  <2>4. CollectedInv' BY <1>1, <1>2, <2>1, <2>2 DEF EmbedInv, CollectedInv, StartBatch, Missing
  <2>5. CallerInv' BY <1>1, <1>2, <2>1, <2>2 DEF EmbedInv, CallerInv, StartBatch, Missing
  <2>6. QED BY <1>1, <1>2, <2>3, <2>4, <2>5 DEF EmbedInv, StartBatch
<1>3. CASE FinishBatch(b)
  <2>1. RunBatch(b) /\ state[b] = "running" /\ UNCHANGED <<texts, workers, ordered, result, pc>>
    BY <1>3 DEF FinishBatch
  <2>2. /\ (state'[b] = "ok" /\ value'[b] # Missing) \/ state'[b] = "failed"
        /\ \A c \in Batches \ {b} : state'[c] = state[c] /\ value'[c] = value[c]
        /\ state' \in [Batches -> States] /\ DOMAIN value' = Batches
    BY <1>1, <2>1, RunBatchFacts DEF States
  <2>3. CollectedInv' BY <1>1, <2>1, <2>2 DEF EmbedInv, CollectedInv, Missing
  <2>4. CallerInv' BY <1>1, <2>1, <2>2 DEF EmbedInv, CallerInv, Missing
  <2>5. QED BY <1>1, <2>1, <2>2, <2>3, <2>4 DEF EmbedInv
<1>4. QED BY <1>2, <1>3 DEF Thread

\* Without a pool, a batch that fails ends the call.
LEMMA NextBatchEmbed ==
  ASSUME EmbedInv, NextBatch
  PROVE  EmbedInv'
<1>1. PICK b \in In("new") :
        /\ RunBatch(b)
        /\ pc' = IF state'[b] = "failed" THEN "raised" ELSE pc
  BY DEF NextBatch
<1>2. /\ state \in [Batches -> States] /\ Batches' = Batches /\ b \in Batches
      /\ UNCHANGED <<texts, ordered>> /\ pc = "sequential"
  BY <1>1 DEF EmbedInv, NextBatch, Batches, In
<1>3. /\ (state'[b] = "ok" /\ value'[b] # Missing) \/ state'[b] = "failed"
      /\ \A c \in Batches \ {b} : state'[c] = state[c] /\ value'[c] = value[c]
      /\ state' \in [Batches -> States] /\ DOMAIN value' = Batches
  BY <1>1, <1>2, RunBatchFacts DEF States
<1>4. state[b] = "new" BY <1>1 DEF In
<1>5. CollectedInv' BY <1>2, <1>3, <1>4 DEF EmbedInv, CollectedInv, Missing
<1>6. CallerInv' BY <1>1, <1>2, <1>3, <1>4 DEF EmbedInv, CallerInv, Missing
<1>7. QED BY <1>1, <1>2, <1>3, <1>5, <1>6 DEF EmbedInv

LEMMA SubmitEmbed ==
  ASSUME EmbedInv, Submit
  PROVE  EmbedInv'
<1>1. PICK b \in In("new") :
        /\ state' = [state EXCEPT ![b] = "queued"]
        /\ pc' = IF In("new") = {b} THEN "collect" ELSE pc
  BY DEF Submit
<1>2. /\ state \in [Batches -> States] /\ Batches' = Batches /\ b \in Batches
      /\ UNCHANGED <<texts, value, ordered>> /\ pc = "submit" /\ state[b] = "new"
  BY <1>1 DEF EmbedInv, Submit, Batches, In
<1>3. /\ state'[b] = "queued" /\ \A c \in Batches \ {b} : state'[c] = state[c]
      /\ state' \in [Batches -> States]
  BY <1>1, <1>2 DEF States
<1>4. pc' = "collect" => \A c \in Batches : state'[c] # "new"
  BY <1>1, <1>2, <1>3 DEF In
<1>5. CollectedInv' BY <1>2, <1>3 DEF EmbedInv, CollectedInv, Missing
<1>6. CallerInv' BY <1>1, <1>2, <1>4 DEF CallerInv
<1>7. QED BY <1>1, <1>2, <1>3, <1>5, <1>6 DEF EmbedInv

\* The first error ends the collection; without one every batch is collected.
LEMMA CollectEmbed ==
  ASSUME EmbedInv, Collect
  PROVE  EmbedInv'
<1>1. PICK b \in {c \in Done : ordered[c] = Missing} :
        IF state[b] = "failed" THEN pc' = "error" /\ UNCHANGED ordered
        ELSE /\ ordered' = [ordered EXCEPT ![b] = value[b]]
             /\ pc' = IF \A c \in Batches \ {b} : ordered[c] # Missing THEN "shutdown" ELSE pc
  BY DEF Collect
<1>2. /\ Batches' = Batches /\ b \in Batches /\ state[b] \in {"ok", "failed"}
      /\ UNCHANGED <<texts, state, value>> /\ pc = "collect" /\ DOMAIN ordered = Batches
  BY <1>1 DEF EmbedInv, Collect, Batches, In, Done
<1>3. CASE state[b] = "failed"
  <2>1. CollectedInv' BY <1>1, <1>2, <1>3 DEF EmbedInv, CollectedInv, Missing
  <2>2. CallerInv' BY <1>1, <1>2, <1>3 DEF EmbedInv, CallerInv, Missing
  <2>3. QED BY <1>1, <1>2, <1>3, <2>1, <2>2 DEF EmbedInv
<1>4. CASE state[b] # "failed"
  <2>1. /\ ordered'[b] = value[b] /\ \A c \in Batches \ {b} : ordered'[c] = ordered[c]
        /\ DOMAIN ordered' = Batches /\ state[b] = "ok" /\ value[b] # Missing
        /\ pc' \in {"collect", "shutdown"}
        /\ pc' = "shutdown" => \A c \in Batches \ {b} : ordered[c] # Missing
    BY <1>1, <1>2, <1>4 DEF EmbedInv, CollectedInv
  <2>2. CollectedInv' BY <1>2, <2>1 DEF EmbedInv, CollectedInv, Missing
  <2>3. pc' = "shutdown" => \A c \in Batches : ordered'[c] # Missing BY <2>1
  <2>4. CallerInv' BY <1>2, <2>1, <2>3 DEF EmbedInv, CallerInv, Missing
  <2>5. QED BY <1>2, <2>1, <2>2, <2>4 DEF EmbedInv
<1>5. QED BY <1>3, <1>4

LEMMA JoinEmbed ==
  ASSUME EmbedInv, Join
  PROVE  EmbedInv'
<1>1. /\ Batches' = Batches /\ UNCHANGED <<texts, state, value, ordered>>
      /\ \A b \in Batches : state[b] \in {"ok", "failed"}
      /\ pc \in {"shutdown", "error"}
  BY DEF Join, Batches, Done, In
<1>2. /\ pc = "error" => pc' = "raised"
      /\ pc = "shutdown" => pc' = "returned"
  BY DEF Join, EmbedInv, CallerInv
<1>3. pc = "shutdown" => \A b \in Batches : state[b] = "ok"
  BY DEF EmbedInv, CallerInv, CollectedInv
<1>4. CollectedInv' BY <1>1 DEF EmbedInv, CollectedInv, Missing
<1>5. CallerInv' BY <1>1, <1>2, <1>3 DEF EmbedInv, CallerInv
<1>6. QED BY <1>1, <1>2, <1>4, <1>5 DEF EmbedInv

LEMMA NextEmbed == EmbedInv /\ [Next]_vars => EmbedInv'
<1> SUFFICES ASSUME EmbedInv, [Next]_vars PROVE EmbedInv' OBVIOUS
<1>1. CASE Call
  BY <1>1 DEF Call, EmbedInv, CollectedInv, CallerInv, Batches, Missing
<1>2. CASE EndSequential
  BY <1>2 DEF EndSequential, EmbedInv, CollectedInv, CallerInv, Batches, Missing
<1>3. CASE UNCHANGED vars
  BY <1>3 DEF vars, EmbedInv, CollectedInv, CallerInv, Batches, Missing
<1>4. QED
  BY <1>1, <1>2, <1>3, ThreadEmbed, NextBatchEmbed, SubmitEmbed, CollectEmbed, JoinEmbed
  DEF Next, Caller, Return

LEMMA EmbedInvHolds == Spec => []EmbedInv
  BY InitEmbed, NextEmbed, PTL DEF Spec

(***************************************************************************)
(* What the answers hold.                                                  *)
(***************************************************************************)
\* Every answer is its batch's vectors, collected where the batch belongs; without a
\* pool the result holds those of the batches up to the one at hand.
MatchInv ==
  /\ \A b \in Batches : /\ state[b] = "ok" => value[b] = Chunk(b)
                        /\ ordered[b] # Missing => ordered[b] = Chunk(b)
  /\ pc = "call" => result = <<>>
  /\ pc = "sequential" => \E k \in 0..LastBatch : /\ In("new") = (k + 1)..LastBatch
                                                  /\ result = UpTo(k)
  /\ VectorsMatchTexts

\* A call starts with no answer.
LEMMA InitMatch == Init => MatchInv
  BY DEF Init, MatchInv, VectorsMatchTexts

\* A thread's answer is that of its batch.
LEMMA ThreadMatch ==
  ASSUME EmbedInv, MatchInv, NEW b \in Batches, Thread(b)
  PROVE  MatchInv'
<1>1. /\ Batches' = Batches /\ LastBatch' = LastBatch
      /\ UNCHANGED <<texts, ordered, result, pc>>
      /\ \A c : Chunk(c)' = Chunk(c)
      /\ state \in [Batches -> States] /\ DOMAIN value = Batches
  BY DEF EmbedInv, Thread, StartBatch, FinishBatch, Batches, LastBatch, Chunk
<1>2. pc # "sequential"
  BY DEF EmbedInv, CallerInv, Thread, StartBatch, FinishBatch
<1>3. \A c \in Batches : state'[c] = "ok" => value'[c] = Chunk(c)
  <2>1. CASE StartBatch(b) BY <1>1, <2>1 DEF StartBatch, MatchInv
  <2>2. CASE FinishBatch(b)
    <3>1. RunBatch(b) BY <2>2 DEF FinishBatch
    <3>2. /\ \/ state' = [state EXCEPT ![b] = "ok"] /\ value'[b] = Chunk(b)
             \/ state' = [state EXCEPT ![b] = "failed"]
          /\ \A c \in Batches \ {b} : value'[c] = value[c]
      BY <3>1, RunBatchFacts
    <3>3. QED BY <1>1, <3>2 DEF MatchInv
  <2>3. QED BY <2>1, <2>2 DEF Thread
<1>4. VectorsMatchTexts' BY <1>1 DEF MatchInv, VectorsMatchTexts
<1>5. QED BY <1>1, <1>2, <1>3, <1>4 DEF MatchInv, Missing

\* Without a pool the result grows by the vectors of the next batch.
LEMMA NextBatchMatch ==
  ASSUME EmbedInv, MatchInv, NextBatch
  PROVE  MatchInv'
<1>1. PICK b \in In("new") :
        /\ \A c \in In("new") : b <= c
        /\ RunBatch(b)
        /\ result' = IF state'[b] = "ok" THEN result \o value'[b] ELSE result
        /\ pc' = IF state'[b] = "failed" THEN "raised" ELSE pc
  BY DEF NextBatch
<1>2. /\ Batches' = Batches /\ LastBatch' = LastBatch /\ b \in Batches
      /\ UNCHANGED <<texts, ordered>> /\ pc = "sequential"
      /\ \A c : Chunk(c)' = Chunk(c) /\ UpTo(c)' = UpTo(c)
      /\ state \in [Batches -> States] /\ texts \in Nat
  BY <1>1 DEF EmbedInv, NextBatch, Batches, LastBatch, In, Chunk, UpTo, Extent
<1>3. /\ \/ state' = [state EXCEPT ![b] = "ok"] /\ value'[b] = Chunk(b)
         \/ state' = [state EXCEPT ![b] = "failed"]
      /\ \A c \in Batches \ {b} : value'[c] = value[c]
  BY <1>1, <1>2, RunBatchFacts
<1>4. \A c \in Batches : /\ state'[c] = "ok" => value'[c] = Chunk(c)
                         /\ ordered'[c] # Missing => ordered'[c] = Chunk(c)
  BY <1>2, <1>3 DEF MatchInv
<1>5. CASE state'[b] = "failed"
  <2>1. pc' = "raised" BY <1>1, <1>5
  <2>2. QED BY <1>2, <1>4, <2>1 DEF MatchInv, VectorsMatchTexts, Missing
<1>6. CASE state'[b] = "ok"
  <2>1. PICK k \in 0..LastBatch : In("new") = (k + 1)..LastBatch /\ result = UpTo(k)
    BY <1>2 DEF MatchInv
  <2>2. LastBatch \in Nat BY <1>2, BatchFacts
  <2>3. b = k + 1 /\ b \in 0..LastBatch
    <3>1. k + 1 \in In("new") BY <1>1, <2>1, <2>2
    <3>2. b \in (k + 1)..LastBatch BY <1>1, <2>1
    <3>3. QED BY <1>1, <2>1, <2>2, <3>1, <3>2
  <2>4. result' = UpTo(b)
    <3>1. value'[b] = Chunk(b) BY <1>2, <1>3, <1>6
    <3>2. UpTo(b - 1) \o Chunk(b) = UpTo(b) BY <1>2, OneBatchMore
    <3>3. k = b - 1 BY <2>1, <2>3
    <3>4. QED BY <1>1, <1>6, <2>1, <3>1, <3>2, <3>3
  <2>5. In("new")' = (b + 1)..LastBatch
    <3>1. In("new")' = In("new") \ {b}
      BY <1>2, <1>3, <1>6 DEF In
    <3>2. \A c : c \in ((k + 1)..LastBatch) \ {k + 1} <=> c \in (k + 2)..LastBatch
      BY <2>1, <2>2
    <3>3. b + 1 = k + 2 BY <2>1, <2>3
    <3>4. QED BY <2>1, <2>3, <3>1, <3>2, <3>3
  <2>6. pc' = "sequential" BY <1>1, <1>2, <1>6
  <2>7. QED BY <1>2, <1>4, <2>3, <2>4, <2>5, <2>6 DEF MatchInv, VectorsMatchTexts, Missing
<1>7. state'[b] \in {"ok", "failed"} BY <1>2, <1>3
<1>8. QED BY <1>5, <1>6, <1>7

\* A call without texts returns no vectors.
LEMMA CallMatch ==
  ASSUME EmbedInv, MatchInv, Call
  PROVE  MatchInv'
<1>1. /\ Batches' = Batches /\ LastBatch' = LastBatch
      /\ UNCHANGED <<texts, state, value, ordered, result>> /\ pc = "call"
      /\ \A c : Chunk(c)' = Chunk(c) /\ UpTo(c)' = UpTo(c)
      /\ texts \in Nat
  BY DEF EmbedInv, Call, Batches, LastBatch, Chunk, UpTo, Extent
<1>2. /\ result = <<>> /\ UpTo(0) = <<>> /\ LastBatch \in Nat
      /\ In("new") = 1..LastBatch /\ In("new")' = In("new")
  BY <1>1, NoBatchYet, BatchFacts DEF EmbedInv, CallerInv, MatchInv, In
<1>3. pc' = "returned" => texts = 0 BY DEF Call
<1>4. texts = 0 => [i \in 1..texts |-> i] = <<>>
  <2>1. ASSUME texts = 0 PROVE UpTo(0) = [i \in 1..texts |-> i] BY <2>1, BatchFacts DEF UpTo
  <2>2. QED BY <1>2, <2>1
<1>5. VectorsMatchTexts' BY <1>1, <1>2, <1>3, <1>4 DEF VectorsMatchTexts
<1>6. pc' # "call" BY DEF Call
<1>7. \E k \in 0..LastBatch : In("new")' = (k + 1)..LastBatch /\ result' = UpTo(k)
  <2>1. 0 \in 0..LastBatch /\ In("new")' = (0 + 1)..LastBatch /\ result' = UpTo(0)
    BY <1>1, <1>2
  <2>2. QED BY <2>1
<1>8. QED BY <1>1, <1>5, <1>6, <1>7 DEF MatchInv, Missing

\* The answers put together, in a pool or without, are the vectors of the texts.
LEMMA EndMatch ==
  ASSUME EmbedInv, MatchInv, EndSequential \/ Join
  PROVE  MatchInv'
<1>1. /\ Batches' = Batches /\ UNCHANGED <<texts, state, value, ordered>>
      /\ \A c : Chunk(c)' = Chunk(c)
      /\ texts \in Nat /\ LastBatch \in Nat /\ Extent(LastBatch) = texts
      /\ DOMAIN ordered = Batches
      /\ pc' \in {"returned", "raised"}
  BY BatchFacts DEF EmbedInv, EndSequential, Join, Batches, Chunk
<1>2. ASSUME pc' = "returned" PROVE result' = [i \in 1..texts |-> i]
  <2>1. CASE EndSequential
    <3>1. PICK k \in 0..LastBatch : In("new") = (k + 1)..LastBatch /\ result = UpTo(k)
      BY <2>1 DEF EndSequential, MatchInv
    <3>2. k = LastBatch
      <4>1. (k + 1)..LastBatch = {} BY <2>1, <3>1 DEF EndSequential
      <4>2. ~(k + 1 <= LastBatch)
        <5>1. k + 1 <= LastBatch => k + 1 \in (k + 1)..LastBatch BY <1>1
        <5>2. QED BY <4>1, <5>1
      <4>3. QED BY <1>1, <4>2
    <3>3. result' = UpTo(LastBatch) BY <2>1, <3>1, <3>2 DEF EndSequential
    <3>4. QED BY <1>1, <3>3 DEF UpTo
  <2>2. CASE Join
    <3>1. /\ \A b \in Batches : ordered[b] # Missing
          /\ result' = FlattenSeq([b \in Batches |-> ordered[b]])
      BY <1>2, <2>2 DEF Join
    <3>2. [b \in Batches |-> ordered[b]] = [b \in Batches |-> Chunk(b)]
      BY <3>1 DEF MatchInv
    <3>3. QED BY <1>1, <3>1, <3>2, BatchesTogether
  <2>3. QED BY <2>1, <2>2
<1>3. VectorsMatchTexts'
  <2>1. texts' = texts BY <1>1
  <2>2. QED BY <1>2, <2>1 DEF VectorsMatchTexts
<1>4. QED BY <1>1, <1>3 DEF MatchInv, Missing

\* Every step keeps it: submitting changes no answer, collecting takes a batch's own.
LEMMA NextMatch == EmbedInv /\ MatchInv /\ [Next]_vars => MatchInv'
<1> SUFFICES ASSUME EmbedInv, MatchInv, [Next]_vars PROVE MatchInv' OBVIOUS
<1>1. CASE Submit
  <2>1. /\ Batches' = Batches /\ UNCHANGED <<texts, value, ordered, result>>
        /\ \A c : Chunk(c)' = Chunk(c)
        /\ pc' \in {"submit", "collect"}
        /\ \A b \in Batches : state'[b] = "ok" => state[b] = "ok"
    <3>1. PICK b \in Batches : /\ state' = [state EXCEPT ![b] = "queued"]
                               /\ pc' = IF In("new") = {b} THEN "collect" ELSE pc
      BY <1>1 DEF Submit, In
    <3>2. state \in [Batches -> States] BY DEF EmbedInv
    <3>3. QED BY <1>1, <3>1, <3>2 DEF Submit, Batches, Chunk
  <2>2. QED BY <2>1 DEF MatchInv, VectorsMatchTexts, Missing
<1>2. CASE Collect
  <2>1. /\ Batches' = Batches /\ UNCHANGED <<texts, state, value, result>>
        /\ \A c : Chunk(c)' = Chunk(c)
    BY <1>2 DEF Collect, Batches, Chunk
  <2>2. PICK b \in {c \in Done : ordered[c] = Missing} :
          IF state[b] = "failed" THEN pc' = "error" /\ UNCHANGED ordered
          ELSE /\ ordered' = [ordered EXCEPT ![b] = value[b]]
               /\ pc' = IF \A c \in Batches \ {b} : ordered[c] # Missing THEN "shutdown" ELSE pc
    BY <1>2 DEF Collect
  <2>3. b \in Batches /\ state[b] \in {"ok", "failed"} /\ pc = "collect"
        /\ DOMAIN ordered = Batches
    BY <1>2, <2>2 DEF Collect, Done, In, EmbedInv
  <2>4. pc' \in {"collect", "shutdown", "error"} BY <2>2, <2>3
  <2>5. \A c \in Batches : ordered'[c] # Missing => ordered'[c] = Chunk(c)
    <3>1. CASE state[b] = "failed" BY <2>2, <3>1 DEF MatchInv
    <3>2. CASE state[b] = "ok"
      <4>1. ordered' = [ordered EXCEPT ![b] = value[b]] /\ value[b] = Chunk(b)
        BY <2>2, <2>3, <3>2 DEF MatchInv
      <4>2. QED BY <2>3, <4>1 DEF MatchInv
    <3>3. QED BY <2>3, <3>1, <3>2
  <2>6. QED BY <2>1, <2>4, <2>5 DEF MatchInv, VectorsMatchTexts, Missing
<1>3. CASE UNCHANGED vars
  <2>1. /\ Batches' = Batches /\ LastBatch' = LastBatch /\ In("new")' = In("new")
        /\ \A c : Chunk(c)' = Chunk(c) /\ UpTo(c)' = UpTo(c)
    BY <1>3 DEF vars, Batches, LastBatch, In, Chunk, UpTo, Extent
  <2>2. QED BY <1>3, <2>1 DEF vars, MatchInv, VectorsMatchTexts, Missing
<1>4. QED
  BY <1>1, <1>2, <1>3, CallMatch, NextBatchMatch, EndMatch, ThreadMatch
  DEF Next, Caller, Return

(***************************************************************************)
(* The theorems.                                                           *)
(***************************************************************************)
\* The call raises if and only if a batch failed.
THEOREM NoFailureIsSwallowed == Spec => []FailureIsRaised
<1>1. EmbedInv => FailureIsRaised BY DEF EmbedInv, CallerInv, FailureIsRaised, Ended, In
<1>2. QED BY <1>1, EmbedInvHolds, PTL

\* When the call has ended, no thread of it is at work or will be.
THEOREM NoThreadOutlivesTheCall == Spec => []NothingLeftRunning
<1>1. EmbedInv => NothingLeftRunning BY DEF EmbedInv, CallerInv, NothingLeftRunning, Ended, In
<1>2. QED BY <1>1, EmbedInvHolds, PTL

\* The vectors returned are those of the texts, in their order.
THEOREM VectorsAreInOrder == Spec => []VectorsMatchTexts
<1>1. Init => EmbedInv /\ MatchInv BY InitEmbed, InitMatch
<1>2. EmbedInv /\ MatchInv /\ [Next]_vars => (EmbedInv /\ MatchInv)'
  BY NextEmbed, NextMatch
<1>3. EmbedInv /\ MatchInv => VectorsMatchTexts BY DEF MatchInv
<1>4. QED BY <1>1, <1>2, <1>3, PTL DEF Spec

(***************************************************************************)
(* The call is finite: each step of the caller or of a thread leaves less  *)
(* to do, and until the call has ended one of them is possible.            *)
(***************************************************************************)
\* What the caller has ahead of it, whatever the batches do.
Stages ==
  CASE pc = "call"                     -> 1..4
    [] pc \in {"sequential", "submit"} -> 1..3
    [] pc = "collect"                  -> 1..2
    [] pc \in {"shutdown", "error"}    -> {1}
    [] OTHER                           -> {}

\* What is left to do: batches to submit, to start, to end and to collect, and stages
\* of the caller.
StepsLeft ==
  {x \in {"submit", "start", "end", "collect", "go"} \X (1..(LastBatch + 4)) :
     \/ x[1] = "submit" /\ x[2] \in In("new")
     \/ x[1] = "start" /\ x[2] \in In("new") \cup In("queued")
     \/ x[1] = "end" /\ x[2] \in Batches \ Done
     \/ x[1] = "collect" /\ x[2] \in {b \in Batches : ordered[b] = Missing}
     \/ x[1] = "go" /\ x[2] \in Stages}

\* It is finite.
LEMMA FiniteLeft ==
  ASSUME texts \in Nat
  PROVE  IsFiniteSet(StepsLeft)
<1> DEFINE Kinds == {"submit", "start", "end", "collect", "go"}
           Places == 1..(LastBatch + 4)
<1>1. LastBatch \in Nat BY BatchFacts
<1>2. IsFiniteSet(Places) BY <1>1, FS_Interval
<1>3. IsFiniteSet(Kinds)
  <2>1. IsFiniteSet({}) BY FS_EmptySet
  <2>2. IsFiniteSet({"submit"}) BY FS_Singleton
  <2>3. IsFiniteSet({"submit"} \cup {"start"}) BY <2>2, FS_AddElement
  <2>4. IsFiniteSet(({"submit"} \cup {"start"}) \cup {"end"}) BY <2>3, FS_AddElement
  <2>5. IsFiniteSet((({"submit"} \cup {"start"}) \cup {"end"}) \cup {"collect"}) BY <2>4, FS_AddElement
  <2>6. IsFiniteSet(((({"submit"} \cup {"start"}) \cup {"end"}) \cup {"collect"}) \cup {"go"})
    BY <2>5, FS_AddElement
  <2>7. Kinds = ((({"submit"} \cup {"start"}) \cup {"end"}) \cup {"collect"}) \cup {"go"} OBVIOUS
  <2>8. QED BY <2>6, <2>7
<1>4. StepsLeft \in SUBSET (Kinds \X Places) BY DEF StepsLeft
<1> HIDE DEF Kinds, Places
<1>5. IsFiniteSet(Kinds \X Places) BY <1>2, <1>3, FS_Product
<1>6. QED BY <1>4, <1>5, FS_Subset

\* A step that takes one thing off the list and adds nothing.
LEMMA OneLess ==
  ASSUME texts \in Nat, texts' = texts,
         In("new")' \subseteq In("new"),
         In("queued")' \subseteq In("new") \cup In("queued"),
         Done \subseteq Done',
         \A b \in Batches : ordered[b] # Missing => ordered'[b] # Missing,
         Stages' \subseteq Stages,
         \/ In("new")' # In("new")
         \/ (In("new") \cup In("queued"))' # In("new") \cup In("queued")
         \/ Done' # Done
         \/ \E b \in Batches : ordered[b] = Missing /\ ordered'[b] # Missing
         \/ Stages' # Stages
  PROVE  StepsLeft' \subseteq StepsLeft /\ StepsLeft' # StepsLeft
<1>1. Batches' = Batches /\ LastBatch' = LastBatch /\ LastBatch \in Nat /\ Batches = 1..LastBatch
  BY BatchFacts DEF Batches, LastBatch
<1>2. StepsLeft' \subseteq StepsLeft BY <1>1 DEF StepsLeft
<1>3. \A b \in Batches : b \in 1..(LastBatch + 4) BY <1>1
<1>4. Stages \subseteq 1..(LastBatch + 4)
  <2>1. Stages \subseteq 1..4 BY DEF Stages
  <2>2. QED BY <1>1, <2>1
<1>5. CASE In("new")' # In("new")
  <2>1. PICK b \in In("new") : b \notin In("new")' BY <1>5
  <2>2. b \in Batches BY <2>1 DEF In
  <2>3. <<"submit", b>> \in StepsLeft /\ <<"submit", b>> \notin StepsLeft'
    BY <1>1, <1>3, <2>1, <2>2 DEF StepsLeft
  <2>4. QED BY <1>2, <2>3
<1>6. CASE (In("new") \cup In("queued"))' # In("new") \cup In("queued")
  <2>1. PICK b \in In("new") \cup In("queued") : b \notin (In("new") \cup In("queued"))' BY <1>6
  <2>2. b \in Batches BY <2>1 DEF In
  <2>3. <<"start", b>> \in StepsLeft /\ <<"start", b>> \notin StepsLeft'
    BY <1>1, <1>3, <2>1, <2>2 DEF StepsLeft
  <2>4. QED BY <1>2, <2>3
<1>7. CASE Done' # Done
  <2>1. PICK b \in Done' : b \notin Done BY <1>7
  <2>2. b \in Batches BY <1>1, <2>1 DEF Done, In
  <2>3. <<"end", b>> \in StepsLeft /\ <<"end", b>> \notin StepsLeft'
    BY <1>1, <1>3, <2>1, <2>2 DEF StepsLeft
  <2>4. QED BY <1>2, <2>3
<1>8. CASE \E b \in Batches : ordered[b] = Missing /\ ordered'[b] # Missing
  <2>1. PICK b \in Batches : ordered[b] = Missing /\ ordered'[b] # Missing BY <1>8
  <2>2. <<"collect", b>> \in StepsLeft /\ <<"collect", b>> \notin StepsLeft'
    BY <1>1, <1>3, <2>1 DEF StepsLeft, Missing
  <2>3. QED BY <1>2, <2>2
<1>9. CASE Stages' # Stages
  <2>1. PICK n \in Stages : n \notin Stages' BY <1>9
  <2>2. <<"go", n>> \in StepsLeft /\ <<"go", n>> \notin StepsLeft'
    BY <1>1, <1>4, <2>1 DEF StepsLeft
  <2>3. QED BY <1>2, <2>2
<1>10. QED BY <1>2, <1>5, <1>6, <1>7, <1>8, <1>9

\* What a batch leaves and enters when its future changes.
LEMMA FutureChanges ==
  ASSUME EmbedInv, UNCHANGED texts, NEW b \in Batches,
         NEW s \in States, state' = [state EXCEPT ![b] = s]
  PROVE  /\ In("new")' = IF s = "new" THEN In("new") \cup {b} ELSE In("new") \ {b}
         /\ In("queued")' = IF s = "queued" THEN In("queued") \cup {b} ELSE In("queued") \ {b}
         /\ In("ok")' = IF s = "ok" THEN In("ok") \cup {b} ELSE In("ok") \ {b}
         /\ In("failed")' = IF s = "failed" THEN In("failed") \cup {b} ELSE In("failed") \ {b}
<1>1. Batches' = Batches /\ state \in [Batches -> States] BY DEF Batches, EmbedInv
<1>2. state'[b] = s /\ \A c \in Batches \ {b} : state'[c] = state[c] BY <1>1
<1>3. QED BY <1>1, <1>2 DEF In

\* A thread that takes up a batch or ends it has one thing less to do.
LEMMA ThreadCounts ==
  ASSUME EmbedInv, NEW b \in Batches, Thread(b)
  PROVE  StepsLeft' \subseteq StepsLeft /\ StepsLeft' # StepsLeft
<1>1. texts \in Nat /\ UNCHANGED <<texts, ordered, pc>> /\ Stages' = Stages
  BY DEF EmbedInv, Thread, StartBatch, FinishBatch, Stages
<1>2. CASE StartBatch(b)
  <2>1. state' = [state EXCEPT ![b] = "running"] /\ b \in In("queued") /\ b \notin In("new")
    BY <1>2 DEF StartBatch, In
  <2>2. /\ In("new")' = In("new") \ {b} /\ In("queued")' = In("queued") \ {b}
        /\ In("ok")' = In("ok") \ {b} /\ In("failed")' = In("failed") \ {b}
    BY <1>1, <2>1, FutureChanges DEF States
  <2>3. b \notin In("ok") /\ b \notin In("failed") BY <2>1 DEF In
  <2>4. Done' = Done BY <2>2, <2>3 DEF Done
  <2>5. QED BY <1>1, <2>1, <2>2, <2>4, OneLess
<1>3. CASE FinishBatch(b)
  <2>1. PICK s \in {"ok", "failed"} : state' = [state EXCEPT ![b] = s]
    BY <1>3, RunBatchFacts DEF FinishBatch
  <2>2. b \in In("running") /\ b \notin In("new") /\ b \notin In("queued")
        /\ b \notin In("ok") /\ b \notin In("failed")
    BY <1>3 DEF FinishBatch, In
  <2>3. /\ In("new")' = In("new") /\ In("queued")' = In("queued")
        /\ In("ok") \subseteq In("ok")' /\ In("failed") \subseteq In("failed")'
        /\ b \in In("ok")' \cup In("failed")'
    <3>1. s \in States BY DEF States
    <3>2. /\ In("new")' = In("new") \ {b} /\ In("queued")' = In("queued") \ {b}
          /\ In("ok")' = IF s = "ok" THEN In("ok") \cup {b} ELSE In("ok") \ {b}
          /\ In("failed")' = IF s = "failed" THEN In("failed") \cup {b} ELSE In("failed") \ {b}
      BY <1>1, <2>1, <3>1, FutureChanges
    <3>3. QED BY <2>2, <3>2
  <2>4. Done \subseteq Done' /\ Done' # Done BY <2>2, <2>3 DEF Done
  <2>5. QED BY <1>1, <2>3, <2>4, OneLess
<1>4. QED BY <1>2, <1>3 DEF Thread

\* So has the caller after each of its steps.
LEMMA CallerCounts ==
  ASSUME EmbedInv, Caller
  PROVE  StepsLeft' \subseteq StepsLeft /\ StepsLeft' # StepsLeft
<1>1. texts \in Nat /\ UNCHANGED texts /\ Batches' = Batches /\ DOMAIN ordered = Batches
  BY DEF EmbedInv, Caller, Call, NextBatch, EndSequential, Submit, Collect, Join, Batches
<1>2. ASSUME UNCHANGED <<state, ordered>>, Stages' \subseteq Stages, Stages' # Stages
      PROVE  StepsLeft' \subseteq StepsLeft /\ StepsLeft' # StepsLeft
  <2>1. In("new")' = In("new") /\ In("queued")' = In("queued") /\ Done' = Done
    BY <1>1, <1>2 DEF In, Done
  <2>2. QED BY <1>1, <1>2, <2>1, OneLess
<1>3. CASE Call
  <2>1. pc = "call" /\ pc' \in {"returned", "sequential", "submit"} BY <1>3 DEF Call
  <2>2. Stages = 1..4 /\ Stages' \subseteq 1..3 BY <2>1 DEF Stages
  <2>3. 4 \in Stages /\ 4 \notin Stages' BY <2>2
  <2>4. QED BY <1>2, <1>3, <2>2, <2>3 DEF Call
<1>4. CASE EndSequential
  <2>1. Stages = 1..3 /\ Stages' = {} BY <1>4 DEF EndSequential, Stages
  <2>2. QED BY <1>2, <1>4, <2>1 DEF EndSequential
<1>5. CASE Join
  <2>1. Stages = {1} /\ Stages' = {} BY <1>5 DEF Join, Stages
  <2>2. QED BY <1>2, <1>5, <2>1 DEF Join
<1>6. CASE NextBatch
  <2>1. PICK b \in In("new") :
          /\ RunBatch(b)
          /\ pc' = IF state'[b] = "failed" THEN "raised" ELSE pc
    BY <1>6 DEF NextBatch
  <2>2. b \in Batches /\ b \notin In("queued") /\ b \notin In("ok") /\ b \notin In("failed")
    BY <2>1 DEF In
  <2>3. PICK s \in {"ok", "failed"} : state' = [state EXCEPT ![b] = s]
    BY <2>1, <2>2, RunBatchFacts
  <2>4. /\ In("new")' = In("new") \ {b} /\ In("queued")' = In("queued")
        /\ In("ok") \subseteq In("ok")' /\ In("failed") \subseteq In("failed")'
    <3>1. s \in States BY DEF States
    <3>2. /\ In("new")' = In("new") \ {b} /\ In("queued")' = In("queued") \ {b}
          /\ In("ok")' = IF s = "ok" THEN In("ok") \cup {b} ELSE In("ok") \ {b}
          /\ In("failed")' = IF s = "failed" THEN In("failed") \cup {b} ELSE In("failed") \ {b}
      BY <1>1, <2>2, <2>3, <3>1, FutureChanges
    <3>3. QED BY <2>2, <3>2
  <2>5. UNCHANGED ordered /\ Stages' \subseteq Stages BY <1>6, <2>1 DEF NextBatch, Stages
  <2>6. Done \subseteq Done' BY <2>4 DEF Done
  <2>7. QED BY <1>1, <2>1, <2>4, <2>5, <2>6, OneLess
<1>7. CASE Submit
  <2>1. PICK b \in In("new") :
          /\ state' = [state EXCEPT ![b] = "queued"]
          /\ pc' = IF In("new") = {b} THEN "collect" ELSE pc
    BY <1>7 DEF Submit
  <2>2. b \in Batches /\ b \notin In("ok") /\ b \notin In("failed") BY <2>1 DEF In
  <2>3. /\ In("new")' = In("new") \ {b} /\ In("queued")' = In("queued") \cup {b}
        /\ In("ok")' = In("ok") /\ In("failed")' = In("failed")
    <3>1. "queued" \in States BY DEF States
    <3>2. /\ In("new")' = In("new") \ {b} /\ In("queued")' = In("queued") \cup {b}
          /\ In("ok")' = In("ok") \ {b} /\ In("failed")' = In("failed") \ {b}
      BY <1>1, <2>1, <2>2, <3>1, FutureChanges
    <3>3. QED BY <2>2, <3>2
  <2>4. UNCHANGED ordered /\ Stages' \subseteq Stages BY <1>7, <2>1 DEF Submit, Stages
  <2>5. Done' = Done BY <2>3 DEF Done
  <2>6. QED BY <1>1, <2>1, <2>3, <2>4, <2>5, OneLess
<1>8. CASE Collect
  <2>1. PICK b \in {c \in Done : ordered[c] = Missing} :
          IF state[b] = "failed" THEN pc' = "error" /\ UNCHANGED ordered
          ELSE /\ ordered' = [ordered EXCEPT ![b] = value[b]]
               /\ pc' = IF \A c \in Batches \ {b} : ordered[c] # Missing THEN "shutdown" ELSE pc
    BY <1>8 DEF Collect
  <2>2. pc = "collect" /\ UNCHANGED state /\ b \in Batches /\ state[b] \in {"ok", "failed"}
    BY <1>8, <2>1 DEF Collect, Done, In
  <2>3. Stages = 1..2 /\ Stages' \subseteq Stages /\ (pc' = "error" => Stages' = {1})
    BY <2>1, <2>2 DEF Stages
  <2>4. CASE state[b] = "failed"
    <3>1. Stages' # Stages /\ UNCHANGED ordered BY <2>1, <2>3, <2>4
    <3>2. QED BY <1>2, <2>2, <2>3, <3>1
  <2>5. CASE state[b] # "failed"
    <3>1. value[b] # Missing BY <2>2, <2>5 DEF EmbedInv, CollectedInv
    <3>2. /\ ordered[b] = Missing /\ ordered'[b] # Missing
          /\ \A c \in Batches \ {b} : ordered'[c] = ordered[c]
      BY <1>1, <2>1, <2>2, <2>5, <3>1
    <3>3. In("new")' = In("new") /\ In("queued")' = In("queued") /\ Done' = Done
      BY <1>1, <2>2 DEF In, Done
    <3>4. \A c \in Batches : ordered[c] # Missing => ordered'[c] # Missing BY <3>2
    <3>5. QED BY <1>1, <2>2, <2>3, <3>2, <3>3, <3>4, OneLess
  <2>6. QED BY <2>4, <2>5
<1>9. QED BY <1>3, <1>4, <1>5, <1>6, <1>7, <1>8 DEF Caller

Counts == Cardinality(StepsLeft') < Cardinality(StepsLeft)

\* However the threads and the caller interleave, and whichever batches fail, each of
\* their steps leaves less to do: a call takes at most as many steps as it has left when
\* it begins.
THEOREM EveryStepCounts == Spec => [](IsFiniteSet(StepsLeft)) /\ [][Counts]_vars
<1>1. EmbedInv => IsFiniteSet(StepsLeft) BY FiniteLeft DEF EmbedInv
<1>2. EmbedInv /\ [Next]_vars => [Counts]_vars
  <2> SUFFICES ASSUME EmbedInv, Next PROVE Counts \/ UNCHANGED vars OBVIOUS
  <2>1. ASSUME StepsLeft' \subseteq StepsLeft, StepsLeft' # StepsLeft PROVE Counts
    <3>1. IsFiniteSet(StepsLeft) BY <1>1
    <3>2. PICK S, T : S = StepsLeft /\ T = StepsLeft' OBVIOUS
    <3>3. Cardinality(T) <= Cardinality(S) /\ Cardinality(T) # Cardinality(S)
      BY <2>1, <3>1, <3>2, FS_Subset
    <3>4. Cardinality(S) \in Nat /\ Cardinality(T) \in Nat
      BY <2>1, <3>1, <3>2, FS_Subset, FS_CardinalityType
    <3>5. QED BY <3>2, <3>3, <3>4 DEF Counts
  <2>2. QED BY <2>1, ThreadCounts, CallerCounts DEF Next, Return
<1>3. QED BY <1>1, <1>2, EmbedInvHolds, PTL DEF Spec

\* A step of the caller, and one of a thread, has its guard true.
CallerCanGoOn ==
  \/ pc = "call"
  \/ pc = "sequential" /\ (In("new") # {} => \E b \in In("new") : \A c \in In("new") : b <= c)
  \/ pc = "submit" /\ \E b \in In("new") : \A c \in In("new") : b <= c
  \/ pc = "collect" /\ \E b \in Done : ordered[b] = Missing
  \/ pc \in {"shutdown", "error"} /\ Done = Batches

ThreadCanGoOn(b) ==
  \/ state[b] = "queued" /\ (\A c \in In("queued") : b <= c) /\ Cardinality(In("running")) < workers
  \/ state[b] = "running" /\ pc # "sequential"

NeverStuck == Ended \/ CallerCanGoOn \/ \E b \in Batches : ThreadCanGoOn(b)

\* A caller that submits has a batch to submit, one that collects one to collect, and
\* there is a thread to run them.
GoInv ==
  /\ workers \in Nat \ {0}
  /\ pc \in {"sequential", "submit"} => Batches # {}
  /\ pc \in {"call", "sequential", "submit"} => \A b \in Batches : ordered[b] = Missing
  /\ pc = "submit" => In("new") # {}
  /\ pc = "collect" => \E b \in Batches : ordered[b] = Missing

LEMMA NextGo == EmbedInv /\ GoInv /\ [Next]_vars => GoInv'
<1> SUFFICES ASSUME EmbedInv, GoInv, [Next]_vars PROVE GoInv' OBVIOUS
<1>1. UNCHANGED <<texts, workers, Batches>>
  BY DEF Next, Caller, Thread, Call, NextBatch, EndSequential, Submit, Collect, Join, StartBatch,
     FinishBatch, Return, vars, Batches
<1>2. CASE UNCHANGED <<state, ordered, pc>> BY <1>1, <1>2 DEF GoInv, In, Missing
<1>3. CASE Call
  <2>1. UNCHANGED <<state, ordered>> /\ pc = "call" /\ pc' \in {"returned", "sequential", "submit"}
        /\ (texts = 0 => pc' = "returned")
    BY <1>3 DEF Call
  <2>2. texts # 0 => Batches # {}
    <3>1. LastBatch = 0 => texts = 0 BY BatchFacts DEF EmbedInv
    <3>2. LastBatch # 0 => 1 \in Batches BY BatchFacts DEF EmbedInv
    <3>3. QED BY <3>1, <3>2
  <2>3. In("new") = Batches BY <2>1 DEF EmbedInv, CallerInv, In
  <2>4. In("new")' = In("new") BY <1>1, <2>1 DEF In
  <2>5. QED BY <1>1, <2>1, <2>2, <2>3, <2>4 DEF GoInv, Missing
<1>4. CASE EndSequential \/ Join
  BY <1>1, <1>4 DEF EndSequential, Join, GoInv
<1>5. CASE NextBatch BY <1>1, <1>5 DEF NextBatch, GoInv, Missing
<1>6. CASE Submit
  <2>1. PICK b \in In("new") :
          /\ state' = [state EXCEPT ![b] = "queued"]
          /\ pc' = IF In("new") = {b} THEN "collect" ELSE pc
    BY <1>6 DEF Submit
  <2>2. UNCHANGED ordered /\ pc = "submit" BY <1>6 DEF Submit
  <2>3. b \in Batches /\ "queued" \in States BY <2>1 DEF In, States
  <2>4. In("new")' = In("new") \ {b} BY <1>1, <2>1, <2>3, FutureChanges
  <2>5. QED BY <1>1, <2>1, <2>2, <2>3, <2>4 DEF GoInv, Missing
<1>7. CASE Collect
  <2>1. PICK b \in {c \in Done : ordered[c] = Missing} :
          IF state[b] = "failed" THEN pc' = "error" /\ UNCHANGED ordered
          ELSE /\ ordered' = [ordered EXCEPT ![b] = value[b]]
               /\ pc' = IF \A c \in Batches \ {b} : ordered[c] # Missing THEN "shutdown" ELSE pc
    BY <1>7 DEF Collect
  <2>2. pc = "collect" BY <1>7 DEF Collect
  <2>3. CASE pc' = "collect"
    <3>1. PICK c \in Batches \ {b} : ordered[c] = Missing BY <2>1, <2>3
    <3>2. ordered'[c] = Missing BY <2>1, <2>3, <3>1 DEF EmbedInv
    <3>3. QED BY <1>1, <2>2, <2>3, <3>1, <3>2 DEF GoInv, Missing
  <2>4. CASE pc' # "collect"
    <3>1. pc' \in {"error", "shutdown"} BY <2>1, <2>2, <2>4
    <3>2. QED BY <1>1, <3>1 DEF GoInv
  <2>5. QED BY <2>3, <2>4
<1>8. ASSUME NEW b \in Batches, Thread(b) PROVE GoInv'
  <2>1. UNCHANGED <<ordered, pc>> BY <1>8 DEF Thread, StartBatch, FinishBatch
  <2>2. state[b] # "new" BY <1>8 DEF Thread, StartBatch, FinishBatch
  <2>3. In("new") \subseteq In("new")'
    <3>1. \A c \in Batches \ {b} : state'[c] = state[c]
      BY <1>8, RunBatchFacts DEF Thread, StartBatch, FinishBatch, EmbedInv
    <3>2. QED BY <1>1, <2>2, <3>1 DEF In
  <2>4. QED BY <1>1, <2>1, <2>3 DEF GoInv, Missing
<1>9. QED
  BY <1>2, <1>3, <1>4, <1>5, <1>6, <1>7, <1>8 DEF Next, Caller, Return, vars

\* Where a batch waits or runs, a thread is at work or takes the first that waits.
LEMMA ThreadsGoOn ==
  ASSUME EmbedInv, GoInv, pc # "sequential", NEW c \in Batches, state[c] \in {"queued", "running"}
  PROVE  \E b \in Batches : ThreadCanGoOn(b)
<1>1. CASE In("running") # {}
  <2>1. PICK b \in Batches : state[b] = "running" BY <1>1 DEF In
  <2>2. QED BY <2>1 DEF ThreadCanGoOn
<1>2. CASE In("running") = {}
  <2>1. c \in In("queued") BY <1>2 DEF In
  <2>2. In("queued") \in SUBSET Nat BY BatchFacts DEF In, EmbedInv
  <2>3. PICK b \in In("queued") : \A k \in In("queued") : b <= k BY <2>1, <2>2, LeastNumber
  <2>4. Cardinality(In("running")) = 0 BY <1>2, FS_EmptySet
  <2>5. Cardinality(In("running")) < workers BY <2>4 DEF GoInv
  <2>6. b \in Batches /\ state[b] = "queued" BY <2>3 DEF In
  <2>7. QED BY <2>3, <2>5, <2>6 DEF ThreadCanGoOn
<1>3. QED BY <1>1, <1>2

LEMMA SomeoneGoesOn == EmbedInv /\ GoInv => NeverStuck
<1> SUFFICES ASSUME EmbedInv, GoInv, ~Ended
             PROVE  CallerCanGoOn \/ \E b \in Batches : ThreadCanGoOn(b)
  BY DEF NeverStuck
<1>1. In("new") # {} => \E b \in In("new") : \A c \in In("new") : b <= c
  <2>1. In("new") \in SUBSET Nat BY BatchFacts DEF In, EmbedInv
  <2>2. QED BY <2>1, LeastNumber
<1>2. CASE pc \in {"call", "sequential", "submit"} BY <1>1, <1>2 DEF CallerCanGoOn, GoInv
<1>3. CASE pc = "collect"
  <2>1. PICK b \in Batches : ordered[b] = Missing BY <1>3 DEF GoInv
  <2>2. CASE b \in Done BY <1>3, <2>1, <2>2 DEF CallerCanGoOn
  <2>3. CASE b \notin Done
    <3>1. state[b] \in {"queued", "running"} BY <1>3, <2>3 DEF EmbedInv, CallerInv, States, Done, In
    <3>2. QED BY <1>3, <3>1, ThreadsGoOn
  <2>4. QED BY <2>2, <2>3
<1>4. CASE pc \in {"shutdown", "error"}
  <2>1. CASE Done = Batches BY <1>4, <2>1 DEF CallerCanGoOn
  <2>2. CASE Done # Batches
    <3>1. PICK b \in Batches : b \notin Done BY <2>2 DEF Done, In
    <3>2. state[b] \in {"queued", "running"} BY <1>4, <3>1 DEF EmbedInv, CallerInv, States, Done, In
    <3>3. QED BY <1>4, <3>2, ThreadsGoOn
  <2>3. QED BY <2>1, <2>2
<1>5. QED BY <1>2, <1>3, <1>4 DEF EmbedInv, Ended

\* Until the call has ended, the caller or a thread can take a step, for any number of
\* batches and threads: with EveryStepCounts, a call whose steps are taken ends.
THEOREM CallIsNeverStuck == Spec => []NeverStuck
<1>1. Init => GoInv
  <2> SUFFICES ASSUME Init PROVE GoInv OBVIOUS
  <2>1. workers \in Nat \ {0} BY EmbedAssumption DEF Init
  <2>2. QED BY <2>1 DEF Init, GoInv
<1>2. QED BY <1>1, NextGo, SomeoneGoesOn, EmbedInvHolds, PTL DEF Spec
=============================================================================
