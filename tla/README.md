# Verification of human_context

human_context imports a user's Claude export, embeds its messages, and answers
questions over them: one-shot (`/query`), by search (`/search`) or in chat threads
(`/chats`).  It is a FastAPI application on Postgres (pgvector), with Celery workers
on Redis for imports.  Users belong to organizations and log in with a password or
with Google or GitHub.

This directory holds TLA+ specifications of the parts of it that keep state, TLC
configurations that check them on small instances, and TLAPS proofs of the most
important results for every instance.  `PROJECT.json` is the machine-readable index:
components, runs, the source lines each definition stands for (`map`), the mutations
of the code each property detects, findings, hazards and theorems.

    tlasany M.tla                                # parse
    tlc -workers 2 -config ImportFaults.cfg MCImport
    tlapm ImportPipelineProofs.tla

Paths below are relative to `src/app` unless they start with `src/`.

## 1. The system

| Component | Code | State it keeps | Operations that change it |
|---|---|---|---|
| upload API | `api/v1/endpoints/imports.py`, `services/import_api_service.py`, `save_upload` | `import_jobs` rows, `<job id>.bin` files | `POST /imports`: look-up, insert + commit, save file, enqueue |
| import worker | `services/import_service.py` | jobs' status, `conversations`, `messages` | `process_import_job`, `upsert_conversation`, one transaction per task |
| embedding pipeline | `services/embedding_pipeline.py` | `embedding_records` | `embed_import_job`: reads, call of the provider, inserts |
| embedding service | `services/embedding_service.py` | none (a thread pool per call) | `embed_texts`, `embed_texts_parallel` |
| Celery app and tasks | `workers/` | the broker's queue and unacked hash, the result backend | chain import → embed, late ack, redelivery, expiry of results |
| chat | `services/chat_service.py`, `api/v1/endpoints/chats.py` | `chat_threads`, `chat_messages` | create, send, patch, delete |
| context access | `services/context_access_service.py` | none | who may use whose imported history |
| users | `services/user_service.py` | `users` | register, create, edit, join, assign, delete |
| organizations | `services/organization_service.py` | `organizations` | create, update, delete |
| OAuth login | `services/oauth_service.py` | `oauth_accounts`, `users` | find or create the user of an identity, link it |
| authentication | `api/deps.py`, `core/security.py` | none (the caller as loaded by the request's session) | — |
| models | `models/` | the constraints | unique keys, foreign keys, relationships without cascade |
| migrations | `src/alembic/`, `src/docker/entrypoint.sh` | the schema's version, and every row | seven revisions up and down, at the start of every api container |
| Claude parser | `services/claude_parser.py` | none | bytes → conversations with keyed messages |
| listing and pagination | `core/listing.py` | none | count and page, as two statements |
| query and search | `services/search_service.py`, `services/query_service.py` | none | the records a user's question is answered from |
| LLM client, configuration, error mapping, task demonstration | | none | — |

How they interact.  An upload request writes Postgres, then the disk, then Redis: three
stores and no transaction over them.  A worker takes one message at a time
(`worker_prefetch_multiplier = 1`), runs it in one database session
(`core/sync_database.get_sync_session`: commit at the end, rollback on any exception) and
acknowledges only afterwards (`task_acks_late`).  When an import returns, Celery publishes
the embed task of the chain and then stores the result, which is gone after an hour
(`result_expires`): what became of a failed task is nowhere to be read from then on.  Each HTTP request has one
`AsyncSession` for everything, its caller's row included; the endpoint commits, then
refreshes.  What the sessions share, they share through Postgres under READ COMMITTED: what
another session has not committed is invisible, and row locks, unique keys and foreign keys
make sessions wait for each other, or deadlock.

What is hard.  Requests overlap between any two queries; sessions keep values they loaded
before an await (the caller's organization, the maximum sequence number, the conversation
a SELECT found); the model and the embedding provider are called inside open
transactions; containers migrate at once while requests write; workers, pool children and requests die
between two stores; the broker delivers twice, also while the first delivery runs; two imports
of one conversation meet, and two that meet in opposite orders deadlock.  `PROJECT.json` lists these hazards line by
line, each with the properties that cover it or the reason none does.

What makes each component correct:

* upload API — a user has one job per file; no job is accepted and then forgotten; no task
  is published before its row and file are there.
* import worker — a file is applied as a whole or not at all; `completed` means its
  conversations and messages are in the database; nothing of a job that is not completed is
  visible; nothing is taken back.
* embedding pipeline — embedded text was imported; what was imported becomes
  searchable; concurrent tasks embed a message only so often.
* Celery — what is taken from the queue is given up only with an outcome; a crash
  loses neither job nor indexing.
* chat — whole exchanges in a consistent order; answers that tell what was stored; nothing
  left of a deleted thread; no deadlock.
* organizations, users — references resolve whatever is deleted meanwhile.
* OAuth login — an identity logs in one user; nobody gets an account without a way in.
* migrations — rows fit the schema they are stored under; no user, import or thread is lost on
  the way; containers come up.
* listing — a client that walks the pages sees what was there all along.
* embedding service — the vectors are those of the texts, in their order; an error is
  raised and leaves nothing running.

## 2. The modules

    ClaudeParser ─ ImportStore ─┬─ Broker ─┬─ UploadApi ─────────────────┐
                      │         │          └─ WorkerPool ─┬─ ImportTask ─┼─ ImportPipeline ─ MCImport
                      │         └─ SearchService ─────────┴─ EmbedTask ──┘        │
                      └─ ImportLedger (abstract) ◄─ INSTANCE ──────────────────────┤
                              ImportPipelineProofs ─ ImportSafetyProofs
    ChatLog (abstract) ◄─ INSTANCE ─ ChatThread ─┬─ MCChat
                                                 └─ ChatThreadProofs
    Tenancy ─┬─ MCTenancy        Accounts ─┬─ MCAccounts        Migrations ── MigrationsProofs
             └─ TenancyProofs              └─ AccountsProofs
    Listing ─┬─ MCListing        ParallelEmbed ── ParallelEmbedProofs
             └─ ListingProofs

Every concurrent actor has a program counter (`pc`, or the `pc` of its session) and one
action per statement that reads what others may change or waits for a lock.  Statements
between which nothing of another session can be seen are one action.  Comments that start
with *Mutant* mark variants of an action with a plausible bug; no specification uses them,
they are how each property is shown to depend on the code.

### Imports

| Module | Stands for | State |
|---|---|---|
| `ClaudeParser` | `load_conversations_from_bytes`: archive or payload, what is left out, keys, what fails the file | — |
| `ImportStore` | the tables and the upload directory | `jobs`, `convs` (by external uuid and account), `msgs`, `embs` (texts embedded under `message:<id>`), `member`, `uploads`; only committed rows |
| `Broker` | Redis: queue, unacked hash, results | `broker` (state of each message), `account` (argument), `result` (by task id), `timeouts` |
| `UploadApi` | `upload_claude_export` | `req`: where each request is |
| `WorkerPool` | `get_sync_session`, worker life cycle | `pc`, `task`, `tx` (what the session read and flushed), `crashes` (how many there were, and whether the database ever aborted a deadlock's victim: history that only `Undisturbed` reads) |
| `ImportTask` | `process_import_job`, `upsert_conversation` | — |
| `EmbedTask` | `embed_import_job` | — |
| `SearchService` | who has imports, and the records a search ranks for a user | — |
| `ImportPipeline` | all of it with operators and administrators | `moves` |
| `ImportLedger` | what the tables promise, without workers, broker and locks | the variables of `ImportStore` |

Correspondence worth knowing:

* `StartUpload` is the loading of the user and the duplicate check; `InsertJob` is
  `create_import_job` up to the commit, where `uq_import_jobs_user_file_hash` decides.
  `RequestDies` may come before each step: the job row stays.
* A job turns PROCESSING by a flush, which is never committed on its own: other sessions see
  `pending` until `completed`.  The flush locks the job row: between `lock` and the commit
  there is one import per job.
* `Raise` is an exception that leaves the session's block.  The `except` branch's FAILED
  status and message are written in the session that is rolled back, so they do not appear.
* `Blockers` is who waits for whom: the job row, conversation rows inserted or updated,
  messages inserted or updated.  `Deadlocked` is a circle; the database aborts one
  (`DeadlockVictim`).
* An embed task reads conversations, messages and namespaces in three statements,
  then calls the provider, then inserts what was missing: three places for others to
  come in between.
* A file of the pipeline is what the parser makes of it.  `MCImport` writes the uploads as
  they are sent (payloads and archives, messages without uuid or text, a message twice) and
  TLC evaluates that `LoadConversations` makes of them what the run works on.  A message
  without uuid is keyed by its place, so in `ImportOverlap` the second export puts another
  text under the key of the first export's message, as the code does.
* Celery fixes the task ids of a chain when it is built, so the embed messages published by
  two executions of one import share a task id (`TaskId`), and a stored SUCCESS is not
  overwritten.  A task that starts overwrites a failure (`task_track_started`); STARTED and nothing
  at all are both `PENDING`, since neither is an outcome.
* `ExpireResult` takes a result away (`result_expires`), a SUCCESS too, at any time but while the worker
  that stored it is about to acknowledge: the acknowledgement follows at once, the expiry an hour
  later.  No property relies on a result that is still there; the two that mention one
  are about the step at which a job, or its embedding, is given up.
* `Ack` deletes the delivery tag from the unacked hash, and does nothing to a message that
  was restored to the queue.

### Chat

`ChatThread` is one thread with any number of sends, patches and deletes.  A send is nine
steps from `get_current_user` to the refresh after the commit.  Row locks are
derived from where a session is: `Sharers` have inserted a message and hold the foreign
key's KEY SHARE lock, `Updaters` hold the row for `updated_at`, `Deleters` hold it
exclusively.  A send that has the KEY SHARE lock skips the queue of waiting deletes, as
Postgres lets it; otherwise a send and a delete would wait for each other.  `Blockers` is who
waits for whom.  `ChatLog` is the
abstract thread: an append-only set of exchanges in slots, where overlapping exchanges may
share a slot.

### Tenancy and accounts

`Tenancy` is joins, assignments, deletions of organizations and users, and inserts of rows
that refer to both.  `delete_organization` counts users, counts jobs, loads the children
(the relationships have no cascade, so the flush sets their `organization_id` to null) and
deletes; each may see more than the one before.  Who waits for whom is `Blockers`; the updates
of members go by ascending id, as SQLAlchemy sorts them.  `Accounts` is registrations, OAuth logins,
changes of address and deletions; `Blockers` is again one relation, over addresses,
links and user rows, and deadlocks of two and three sessions do occur.

### Migrations

`Migrations` has the committed rows under their schema version (`db`) and the one transaction
that may have run revisions (`work`).  Each revision, up and down, is a function of the rows
with the guard its statements and constraints impose: 004 meets the unique address, 006 sets
the context user of the threads there are, 003 down puts everyone into an organization,
whichever the query returns first.  alembic reads the version before it begins, and the update
of `alembic_version` fails when another has changed it since (`Current`); who has run a
revision holds that row, so the others wait (`MayRevise`).

Requests go on meanwhile, and each write commits.  What keeps one waiting is what the open
transaction has locked so far, table by table.  `Altered` are the tables a revision (`Ran`) takes for
itself: 003 `users`, 006 `chat_threads`, and what a downgrade drops, with `users` when a foreign key to it goes.
`Referenced` are those a new foreign key refers to (005, 006, 007 up): SHARE ROW EXCLUSIVE keeps them from being
written, but other foreign keys are still checked against them.  So imports are inserted beside 005, 006 and 007,
threads are inserted and deleted beside 007, organizations are inserted beside 003, 006 and 007 and deleted beside
007.  Beside 004, which locks no table, everything is written but the rows it has updated
(`Free`) and the addresses it has taken or given up (`Unused`).  Every write goes to `db` and to
`work.db`, where the open transaction will find it.  Most requests first read their caller, which an
ALTER TABLE of `users` would hold up as well; the model does not require it, and so has more
interleavings than the program.

### Listing and the embedding service

`Listing` is one client who walks the pages of a list, with count and page as two statements
and rows that enter and leave between any two.  A row's place is its `created_at`, the start
of its transaction, so it may enter anywhere; rows with equal stamps come in any order.
`ParallelEmbed` is one call of `embed_texts_parallel`: chunks, `ThreadPoolExecutor`,
`as_completed`, the first error, and the wait for the other batches when the executor's
block is left.

## 3. What is checked

State counts are distinct states.  Runs with symmetry permute interchangeable requests,
workers and identifiers, only without liveness properties.

| Run | Shows | States |
|---|---|---|
| `ImportOverlap` | two users upload exports that share a conversation whose messages have no uuid; two workers, a re-embed, an outage, a change of organization: `OneJobPerUpload`, `CompletedMeansImported`, `OnlyCompletedIsVisible`, `EmbeddedTextWasImported`, `DuplicatesBoundedByWorkers`, `NothingIsTakenBack`, and `ImplementsLedger` | 1,377,132 |
| `ImportFaults` | a worker killed anywhere, and results that expire: `Inv` (the invariant the proofs are made of), `NoJobIsLost`; under fairness `AcceptedIsDecided`, `ImportedIsIndexed` | 487,717 |
| `ImportTimeouts` | a task redelivered while it runs, a lost pool child, and two files with the same conversations in opposite orders, which deadlock, and results that expire: `WritesAreExclusive`, `SettledMeansSearchable`, `NoJobIsLost`, `NoIndexingIsLost` | 2,148,515 |
| `ChatRequests` | two sends, a patch, two deletes, a user who moves, a failing model: `ChatInv`, `WholeExchanges`, `SequencesAlternate`, `NoOrphans`, `OutcomeIsTrue`, `HistoryIsClosed`, `NoCircle`, and `ImplementsLog` | 879,208 |
| `TenancyRaces` | a join, an assignment, two deletions and an insert: `TenancyInv`, `ReferencesResolve`, `NoCircle` | 1,489,484 |
| `AccountsLogins` | a registration, two logins, an edit: `AccountsInv`, `LoginIsLinked`, `NobodyIsLockedOut` | 642,232 |
| `AccountsDeletes` | two logins, an edit and a deletion, with their deadlocks; under fairness `RequestsEnd` | 352,594 |
| `Upgrades` | two containers start together on a database of any version, the operator downgrades once, rows are inserted, edited and deleted, one crash or restart: `RowsFitSchema`, `AccountsSurvive`; under fairness `ContainersComeUp` | 1,140,218 |
| `ListingWalks` | a walk over a list of up to five rows, two of which enter and two leave, with equal and different stamps: `MissedAreAccounted`, `RepeatedAreAccounted` | 873,493 |
| `EmbedBatches` | up to seven texts in batches of two on up to three threads: `VectorsMatchTexts`, `FailureIsRaised`, `NothingLeftRunning`, and under fairness `CallEnds` | 2,209 |

Notes on what the properties do and do not say:

* `SettledMeansSearchable` and `ImportedIsIndexed` are claimed for `Undisturbed` tasks.  A failed
  embedding is not tried again by anyone but the operator (`make re-embed`), and neither is one
  whose pool child was lost.  With kills two more things can lose an indexing step.  A timeout:
  the late acknowledgement of a slow first run deletes the delivery tag under which the second
  run is unacked.  A deadlock: an import killed between its commit and the publication of its
  embed message runs again from the start (`process_import_job` does not look at the status),
  meets another import of the same conversations in the opposite order, and is the victim; the
  failure of the second run is acknowledged, and what the first run stored is never embedded.
  This case takes three jobs, two workers and a kill (74 steps), more than a run holds; the
  proof that failed without the condition led to it.
* What is on record afterwards is not claimed.  The database says nothing of a failure
  (`FailureIsPersisted` below), and the result backend forgets it after an hour: then a failed import is
  a pending job, and a failed embedding a completed job with unsearchable messages, with neither message nor
  worker nor result.  `NoJobIsLost` and `NoIndexingIsLost` are therefore about steps: the one
  after which nobody attends to a job (`Attended`), or to its embedding (`Indexing`), is the end of a run that
  has just stored why, or leaves nothing undone.  They make exceptions of
  what the code does not provide.  A request that dies after the commit of its row leaves a job pending for
  ever, and a second upload is told it is a duplicate.  With a kill beside a timeout, the second
  run of an import takes the failure of the first off the record when it starts, the first acknowledges the
  message they share, and the second is killed.  And where tasks ran more than once, the embed messages of
  two executions of an import share a task id, and a SUCCESS stored first stays: when a job was
  embedded, another job took over its conversation and added a message, and a rerun of the
  first import took the conversation back, a lost embed task of the rerun leaves
  that message unsearchable without a failure (`RanOnce` excludes it).
* `AcceptedIsDecided` says of an accepted upload whose import is not acknowledged that its import comes
  to an outcome; that it is not acknowledged without one is `NoJobIsLost`.
* `ImplementsLedger` is checked in `ImportOverlap` only, `SettledMeansSearchable` and `NoIndexingIsLost` in
  `ImportTimeouts`; with the other faults, and all at once, they are proved (section 4).
* `DuplicatesBoundedByWorkers` is the bound that holds: nothing in the code or the schema
  prevents two concurrent embed tasks from embedding a message twice.
* `EmbeddedTextWasImported` says that a text was imported once; a message whose text
  changed keeps the embedding of its old text.
* `SequencesAlternate` and `ImplementsLog` allow two exchanges to share a sequence number,
  which the code does not exclude; that no number below a stored one is free they do not allow.
* `HistoryIsClosed` is about a prompt's history, which is read one query after the question got
  its number: each question in it has its answer, between its first message and the new question
  no number is left out, and it is there when anything came before.  What was committed
  since, with the question's own number or a later one, it lacks.
* `NoCircle` is about who waits for whom: in every group of requests that wait for row locks,
  one waits for nobody in the group.  That the locks are all a request waits for is proved
  (`SomebodyGoesOn`): one that is not in `Waiting` has what its next step takes (`CanGoOn`: a query has a result, a
  deletion a next member).
  Together they exclude deadlock.  In chat, two deletes that hold different messages of the
  thread are the exception, and Postgres breaks them up (`DeleteDeadlock`).
* `AccountsSurvive` says of the commit of a migration that the rows just before it, with everything
  requests wrote until then, are kept.  It allows what the revisions do on purpose: the default user's address
  changes, members of no organization are put into one below 003, super admins are demoted
  there, threads and links are dropped with their tables.
* `ContainersComeUp` makes one exception, in which the code cannot do otherwise: while both
  default users' addresses are taken, revision 004 fails at every start.
* `MissedAreAccounted` and `RepeatedAreAccounted` are about rows with a stamp of their own;
  rows of one `created_at` have no order, and a walk may miss them or show them twice although
  nothing changes.  A walk that ends stops, hence `CHECK_DEADLOCK FALSE` in its configuration.
* `OutcomeIsTrue`: with an error nothing of the request is stored.  `RefreshSend` may fail
  after the commit, but only when the thread was deleted, which took the messages with it.

### Disagreements between the code and what the repository says

Each of two is a run whose property TLC must find violated.

| Run and property | The repository says | The code does |
|---|---|---|
| `ImportFailure`: `FailureIsPersisted` | `src/.cursor/rules/error-handling.mdc:15`: a task that catches an `AppError` persists it on the job | the status is written in the session that is rolled back; the job stays pending |
| `TenancyDeletion`: `MembersBlockDeletion` | `src/docs/API.md:349`: 409 if users still reference the organization | a member who joins after the count is set to null |

The models also show cases that no run checks, because one reading of the code settles them:

* Chat searches the context user's imported history (`src/docs/API.md:448`): a conversation
  another user imported first stays that user's (`SelectConversation` keeps the owner it finds),
  and the search of who imported it later never finds it (`Candidates`).
* Unexpected exceptions become an `AppError` (`src/.cursor/rules/error-handling.mdc:13`): the
  flush of a new OAuth user is in no `try` (`services/oauth_service.py:239`), so the loser of a
  race for an address gets an internal error.
* Uploads are called temporary (`src/.env.example:29`), and no code removes one: no action
  takes a file out of `uploads`.
* A reply includes the last messages of the thread (`src/docs/API.md:449`): `ReadHistory` cuts
  at a sequence `ReadMax` chose before, so an exchange committed in between is missing.
* Who may use whose history is decided once, before history, search and model: a reply may
  still use what its author could use when the request began.
* Joining is one-time (`src/docs/API.md:160`): `StartJoin` decides on the organization loaded
  with the caller, so two concurrent joins both succeed and the last one stays.
* `delete_organization` sets `organization_id` to null for the members its session loaded, also
  for one who has moved to another organization meanwhile (`services/organization_service.py:98`).
* A login with a user's address is that user's (`src/tests/test_oauth.py:171`): `StartLogin`
  lower-cases the profile's address, while registered addresses keep their spelling, so a
  user who registered with a capital letter gets a second account.

### Bounds

`MaxTag`, `MaxReembeds`, `MaxTimeouts`, `MaxKills`, `MaxLosses`, `MaxOutages` (imports),
`MaxMoves` (imports, chat), `MaxFailures` (chat, migrations), `MaxDowngrades` (migrations),
`MaxEntered` and `MaxLeft` (listing), `MaxTexts` and `MaxParallel` (embedding)
cap what would be unbounded; each is a guard of the action that counts.
`TagAssumption` ties `MaxTag` to the number of executions an import can have, so that
publishing never meets its bound (`TagsSuffice` proves it).  `HistoryLimit` is a setting of the code; one, an odd
number, cuts an exchange in two.  `Stamps` and `PageSize` of a listing are parameters of its
instances.

Two workers are enough for every conflict of two sessions, and the two jobs' embed tasks with
a re-embed are one more than the workers `DuplicatesBoundedByWorkers` counts.  Two files
with one edited and one added message make an insert, an update and a no-change of a
message; three conversations, one of them without messages, make the deadlock and the skip.
One fault of each kind reaches each crash point, since it may strike at any step: an outage in
`ImportOverlap`, a kill in `ImportFaults`, a timeout with a lost child in `ImportTimeouts`.  `Expires` turns
the expiry of results on: in the last two runs every stored result may go at any time, in the others,
whose properties do not read results, none does.  Two sends, a patch and two
deletes hold every pair of locks on a thread's row.  In `TenancyRaces` one request of each
kind covers each pair of statements that wait for each other; the insert of a conversation, which
needs a job committed before it, and so a second insert, and two deletions of organizations that meet in
the members they update, are left to the theorems.  `AccountsLogins` has two
subjects, so that logins share an identity or not, and `AccountsDeletes` one subject and one
of each other kind, because liveness is checked without symmetry.
In `Upgrades` the two addresses are the default ones, old and new, so that both are taken by two
users or one user changes from one to the other; one organization is there or not, and a
thread made before 006 meets the downgrade and the upgrade after it; a third address or a second
organization multiplies the states beyond what liveness is checked on, and the proofs cover
the safety of every number.  Two containers
are enough for a version read before the other commits.  In `ListingWalks` five rows on pages
of two make three pages, the last short, and four stamps give five rows at least one tie.
Seven texts in batches of two make four batches, the last short, more than the threads.

### Fairness

`ImportFaults`, `AccountsDeletes`, `Upgrades` and `EmbedBatches` assume weak fairness of the
steps of a request, worker, container or call that has begun.  Workers consume as long as the
deployment keeps them up (`restart: unless-stopped`, `src/docker-compose.prod.yml`), the broker
restores an unacked message after its visibility timeout, queries end, Postgres grants a lock
once its holder ends and detects deadlocks, and the provider's HTTP calls have timeouts
(`post_openai`).  A container whose migration fails ends (`set -e` in
`src/docker/entrypoint.sh`) and is restarted, so `Start` is fair too, and so is the operator's
call of alembic once begun.  Nothing else is assumed to begin, to crash, to fail or to be
retried: uploads, requests that die, kills, outages and re-embeds are not fair.  `ImportFaults`
holds although a kill may come at any moment because it comes at most `MaxKills` times; without
that bound no task would have to end; `Upgrades` has `MaxFailures` for the same reason.  Chat
and tenancy need no fairness: `NoCircle` is an invariant.

## 4. What is proved

TLAPS proves, for every value of the constants that satisfies the named assumptions:

| Theorem | Statement |
|---|---|
| `ImportPipelineProofs!InvHolds` | `Spec => []Inv` |
| `ImportPipelineProofs!TypeCorrect` | `Spec => []TypeOK` |
| `ImportPipelineProofs!UploadPrecedesTask` | `Spec => []UploadBeforeTask` |
| `ImportPipelineProofs!OneJob` | `Spec => []OneJobPerUpload` |
| `ImportPipelineProofs!ExclusiveWrites` | `Spec => []WritesAreExclusive` |
| `ImportSafetyProofs!NothingHalfImported`, `ImportsAreWhole`, `RecordsAreOfImports` | `Spec => []OnlyCompletedIsVisible`, `CompletedMeansImported`, `EmbeddedTextWasImported` |
| `ImportSafetyProofs!HistoryIsKept` | `Spec => NothingIsTakenBack` |
| `ImportSafetyProofs!DuplicatesAreBounded` | `Spec => []DuplicatesBoundedByWorkers` |
| `ImportSafetyProofs!StoredIsSearchable` | `Spec => []SettledMeansSearchable` |
| `ImportSafetyProofs!JobsAreKept`, `IndexingIsKept` | `Spec => NoJobIsLost`, `Spec => NoIndexingIsLost` |
| `ImportSafetyProofs!FewEmbedTasks`, `TagsSuffice` | `Spec => []EmbedTasksBounded`: a job's embed task is published at most `1 + kills + timeouts` times; `Spec => []TagIsLeft`: a committed import finds a message to publish it with |
| `ImportSafetyProofs!SomebodyGoesOn` | `Spec => []NeverStuck`: a busy request has its next step, of busy workers one has, and when all are idle each message comes to one |
| `ImportSafetyProofs!PipelineIsLedger` | `Spec => ImplementsLedger`, the refinement of `ImportLedger` |
| `ChatThreadProofs!ChatInvHolds` | `Spec => []ChatInv` |
| `ChatThreadProofs!Whole`, `Alternation`, `Orphans`, `Outcome`, `ClosedHistory` | `Spec => []WholeExchanges`, `SequencesAlternate`, `NoOrphans`, `OutcomeIsTrue`, `HistoryIsClosed` |
| `ChatThreadProofs!NoDeadlock` | `Spec => []NoCircle` |
| `ChatThreadProofs!SomebodyGoesOn` | `Spec => [](FreeGoOn /\ NeverStuck)`: who waits for no row can go on, and while requests are under way one of them can |
| `ChatThreadProofs!ThreadIsLog` | `Spec => ImplementsLog`, the refinement of `ChatLog` |
| `TenancyProofs!TenancyInvHolds`, `References` | `Spec => []TenancyInv`, `Spec => []ReferencesResolve` |
| `TenancyProofs!NoDeadlock` | `Spec => []NoCircle` |
| `TenancyProofs!SomebodyGoesOn` | `Spec => [](FreeGoOn /\ NeverStuck)`, likewise |
| `AccountsProofs!AccountsInvHolds`, `RowsAlwaysFit` | `Spec => []AccountsInv`, `Spec => []RowsFit` |
| `AccountsProofs!LoginsLinked`, `NobodyLockedOut` | `Spec => []LoginIsLinked`, `Spec => []NobodyIsLockedOut` |
| `AccountsProofs!EveryStepCounts` | `Spec => [][Counts]_vars`: a request ends after at most eight steps of its own |
| `AccountsProofs!SomebodyGoesOn` | `Spec => []NeverStuck`: while requests are under way one of them can go on, the victim of a deadlock at the latest |
| `MigrationsProofs!SchemaHolds`, `AccountsAreKept` | `Spec => []RowsFitSchema`, `Spec => AccountsSurvive` |
| `MigrationsProofs!UpgradesGoOn` | `Spec => [](NeverStuck /\ OnlyAddressesFail)`: of calls of alembic under way one has a next step, and on the version it read a container's revision fails only while both default users' addresses are taken |
| `ParallelEmbedProofs!NoFailureIsSwallowed`, `NoThreadOutlivesTheCall` | `Spec => []FailureIsRaised`, `Spec => []NothingLeftRunning` |
| `ParallelEmbedProofs!VectorsAreInOrder` | `Spec => []VectorsMatchTexts` |
| `ParallelEmbedProofs!EveryStepCounts` | `Spec => [](IsFiniteSet(StepsLeft)) /\ [][Counts]_vars`: each step leaves fewer steps to do |
| `ParallelEmbedProofs!CallIsNeverStuck` | `Spec => []NeverStuck`: until the call has ended, the caller or a thread can take a step |
| `ListingProofs!WalkMissesFew`, `WalkRepeatsFew` | `Spec => []MissedAreAccounted`, `Spec => []RepeatedAreAccounted` |

*Imports.*  `TypeOK` alone is not inductive: a step of a worker looks up the job of its
task, the conversation at its index and the account of the message.  `Inv` adds what makes
these exist: `RequestInv` (a request past its insert has a row, past its save a file),
`SentInv` (a published message is about a job that exists and has an account and a
file) and `SessionInv` (a session in the loop has a readable file and an index within
it; any other has written nothing).  `OneJob` is inductive with `Inv`; `ExclusiveWrites`
follows from the locks in `Blockers`: a session adds to what it wrote only when no other
session stands in its way.

*Imports: what messages and results say.*  `FlowInv` follows a job from its request to its import's end:
`RequestFlow` (an accepted request has sent its message, a completed job's message was sent,
a SUCCESS means the job is completed and its embed message published) and `WorkerFlow` (what a
worker past the commit of an import, or past its task, has already left behind).  Steps of
requests and of the environment cannot disturb a worker's part, and a step of one worker not
another's, so each action has to show only the part of who moves.

*Imports: what is stored is right.*  `SafetyInv` is `Inv`, `FlowInv` and `DataInv`, which
adds `SessionData`: what an open session has written is what its file says, for every
conversation it has passed, and the conversations it passed over exist; what an embed task is
going to insert is a text some completed import had.  `CompletedMeansImported` does not follow
from the commit alone: a conversation another import wrote before is not written again, and
must not go away until the commit, which is `Grows` (no step removes a row of the imported
tables).  `DuplicatesAreBounded` counts the workers that will still add a record under a
message (`Awaiting`): once there is one record nobody new begins to wait, and each commit
takes its worker out of them.

*Imports: what is stored can be searched.*  The property is about a moment when nothing is under
way; what holds at every moment is `IndexInv`.  Its part `DueInv` says, for each stored message
without a record, who will still see to it (`Due`): a worker that is about to publish the embed
message of the conversation's job, an embed message that is queued or comes back, an embed task
that has not passed the message yet, or, after a kill, an import that will run again and publish.
That makes two more parts necessary.  `SoleInv`: as long as no running task timed out, no
two workers run one task, so none can acknowledge what another still works on.  `SelectInv`:
what the SELECT of an import found says whether its job was imported before, so a run
that writes messages without claiming their conversation (the code does so when the conversation
is its own job's) writes only ones that were there.  Each action shows that the messages whose
care it drops are in other hands, or embedded.

*Imports: nothing is lost.*  A job is given up by the acknowledgement of its import, so `JobsAreKept` has to
know that a worker about to acknowledge finds an outcome stored (`OutcomeInv`): by itself, since it does not
expire that soon, or later by another worker that runs the same message, which then attends to
the job.  The start of that other run takes a failure away, which is why a kill beside a timeout is excepted.  A SUCCESS
means the job is completed and its embed message sent, by `RequestFlow`.
`IndexingIsKept` is about the embed message, of which there is one per job where each task ran once.  There
an unacknowledged message is some worker's task, and an outcome is stored only by the run that acknowledges
it (`RanOnceInv`).  So each stored message without a record is one that somebody will still see to (`Due`),
or belongs to a job whose embedding has come to its end (`FailureInv`, `Over`): acknowledged, failed and about
to be, or never published because a pool child was lost.  The step that acknowledges the embed message finds the failure
stored, or no such message left.

*Imports: how often.*  Both theorems count, for each job, the embed messages published, the
workers that execute its import, and the delivery of it still to come.  Only a kill or a timeout
raises the sum, because only these bring an import message back that a worker has taken; it begins
at one.  Since messages are published in the order of their tags, as many as there are kills and
timeouts and one more are enough.

*Imports: never stuck.*  A worker that stands still waits for rows other sessions have written, and
those sessions wait too, or one of them can go on.  Take a smallest non-empty group of workers that
wait only for its own members: each waits for one of them and one of them for it, which is
what `Deadlocked` asks, so the database finds a victim.  Publishing always succeeds by `TagsSuffice`, and a request that has yet to
enqueue finds its message unsent, because an import message is sent only by the request accepted
with it (`SentByRequest`).  When no worker is busy, a queued message is delivered, and an
unacknowledged one comes back.

*Imports: the ledger.*  The pipeline has the variables of `ImportLedger`, so the mapping is
the identity, and each step of a request, of a worker and of the environment is a step of the
ledger or leaves the tables alone.  The commit of an import is the ledger's `Apply`, which
writes a file as a whole: that the rows flushed conversation by conversation, by a session
that waited for others in between, amount to that is what `SessionData` gives.

*Chat.*  `ChatInv` says what a session that waits still relies on: `LockInv` (shared and
exclusive locks of the thread's row exclude each other), `SequenceInv` (a sequence number
that was computed is odd, and follows a committed message as long as the thread lives),
`RowsInv` and `StoredInv` (stored are exactly both messages of sends that have committed).
`ClosedHistory` needs more than an invariant of the rows: a history cut at an odd
sequence number by a limit contains the answer of each question in it, because the answer's
number is greater and still below the cut; and it contains the number after each of its own,
because the thread has one, by `SequencesAlternate`, and the limit drops the lowest first.  A row
committed later never has a number below the question's, so `HistoryInv` stays true of what was
read.  `NoDeadlock` needs no reachable state, only the levels of the
locks: sessions about to commit wait for nobody, a send that holds the row shared waits for
those alone, and everything else waits only for sessions that hold the row.  From it
`SomebodyGoesOn` follows in two steps: a request that waits for nobody can go on, since the
committed rows are finitely many and so have a greatest number and a latest part of any length;
and among those that wait one waits only for holders of locks that do not, who are under way.

*Tenancy.*  `ReferencesResolve` is made inductive by what locks pin: when a session is
about to commit a reference, no session is about to commit the deletion of what it refers
to, and the other way round (`InsertInv`, `ChangeInv`, `OrgDeleteInv`, `UserDeleteInv`).  One
lemma covers each step that only moves a session's program counter, one each statement that
takes a lock, one each commit.  `NoDeadlock` rests on `OrderInv`: a deletion of an organization has
updated the members below those it has yet to update.  In a group of waiting sessions, one that
checks a key, or a deletion that has updated its members, waits only for sessions about to commit;
of deletions still at their updates, the one whose next member has the highest id waits for nobody
in the group; and all other sessions wait only for these.  `SomebodyGoesOn` follows as in
chat; what a free session needs besides is `WorkInv`: a deletion at its updates has members left, the
first of which exists because ids are numbers.

*Accounts.*  `RowsFit` and `NobodyIsLockedOut` are about what is committed, and most checks
are stale when the session that made them commits.  `AccountsInv` adds what a session still
has then: `SessionInv` and `FreshInv` (the values it loaded; what it inserts is not there
yet), `AddressInv` (an address it has written is no one else's), `RowInv` (a user's row is
updated or deleted by one session, without a link to it under way), `LinkInv` (a link that
has passed its unique keys shares none with another) and `FoundInv`, which is
`LoginIsLinked` from the look-up on.  Links are never removed, which `FoundInv` needs.  A
step that takes no lock is covered by `LocalStep`, one that takes a lock by `SessionStep` —
what two sessions rely on is symmetric, so only the one that moves has to be looked at — and
a commit by `AfterCommit`.

`EveryStepCounts` rests on where a step may take a request (`Ways`): `StepsLeft`, the most
steps it can have from there, is eight at first, each of its own steps makes it smaller, and no
step of another request changes it.  `SomebodyGoesOn` cannot rest on an order of the locks: there is
none, and the runs take `DeadlockVictim`.  But requests under way are finitely many, so if
each waited for another, some part of them would wait only for itself, and a smallest such part
is a `Circle`, of which the database ends one.

*Migrations.*  One lemma for each revision, up and down, shows that rows that fit still fit
and which accounts it keeps; `KeptTogether` composes them.  It needs a direction: an
organization given below 003 and threads dropped below 005 do not come back, so revisions up
and down in one transaction would not compose.  `MigrationsInv` therefore says that the open
transaction is on its way from the committed version to its target and has kept the accounts of the rows
that are committed now.  A request changes both, and has to leave both fitting and the one kept in the
other.  What it relies on is what the open transaction cannot have done while the table is free.
`RanEnds` says that, if it is anywhere else than at the committed version, it has run the first revision after that
and the last one it is at; so the table locks of these two tell
which versions it can be at: with `users` writable only 004 was run, up or down (`OnlyAddresses`), and
whatever can be written at all is there in both (`TablesStand`).
An address is written only if it is used in neither (`UnusedByOthers`), and a row only
if both have the same (`Free`), so one lemma for each row changed in the same way on both sides
(`UserWritten`, `OrgKeeps`, `ImportKeeps`, `ThreadWritten`) covers them.
`UpgradesGoOn`: whoever holds the open transaction goes on, to its next revision, its commit or,
if a revision fails or the version changed since it was read, to its end; if nobody holds it anybody may.
Rows that fit let the next revision run: 006 finds an owner for every thread by `RowsFit`,
and only 004 asks for an address that may be taken.

*Embedding.*  `EmbedInv` ties the caller's place to the batches: a call that collects has
submitted them all, one that is about to return has the answer of each, one that raises has a
failed batch and none that runs.  An answer is never the mark of a missing one, because a
chunk is not empty.  For `VectorsAreInOrder`, `MatchInv` says that each answer is the chunk of its
batch, and that the sequential call has put together the batches so far; that the chunks
of all batches are the texts is an induction over the batches, done as a least counterexample
(`LeastNumber`, from the library's well-founded minimum), since the induction theorem itself
is out of reach.  `CallEnds` is about fairness and stays with TLC, but all of it that is not fairness
is proved: `StepsLeft` is a finite set of submissions, starts, ends and collections of batches and
stages of the caller, each step takes something out of it and puts nothing in, and until the call
has ended there is a step to take (`GoInv`: batches to submit or to collect, and a thread to run them,
as long as the caller is about to).  What fairness adds is only that steps which are possible
are taken.

*Listing.*  The two bounds hold at the end of a walk; `WalkInv` is what holds on the way.  The rows
that were there all along and have a stamp of their own have a rank, how many listed rows come
before them in any order the database may choose.  Missed are those not shown whose rank is below
the places already asked for; repeated, those shown twice, or shown and in the places to come.  A
row that enters raises each rank by at most one, and at most one row is at the edge; a row that
leaves lowers it, and again one row crosses; a page shows exactly the ranks it asks for.  `CountInv`
relates the list to the last count.

The assumptions are `ParsedAssumption`, `NoneAssumption`, `BrokerAssumption`,
`WorkerAssumption` and `TagAssumption` (imports), `ChatAssumption`, `TenancyAssumption`,
`AccountsAssumption`, `MigrationsAssumption`, `EmbedAssumption`, `ListingAssumption`, and
`NoTaskAssumption`: constants are sets of the right kind, users and the rows of a list are
finitely many, the null value is none of them and no message, bounds are natural numbers, kinds of
requests do not overlap, and no conversation occurs twice in one file.  TLC evaluates each in the runs of its module.

Only model-checked, because the prover cannot do it: all liveness (`AcceptedIsDecided`,
`ImportedIsIndexed`, `RequestsEnd`, `CallEnds`, `ContainersComeUp`).
Proved is what liveness rests on without fairness: no component is ever stuck, and calls for vectors
and requests of accounts take boundedly many steps.  For workers and containers, which are killed and
restarted, no such bound is proved.  The parser is only model-checked too: which conversations
`LoadConversations` keeps of a file goes through `SelectSeq`, a recursive definition, and is
checked on the files of the runs.

## 5. Abstractions, and what is not modelled

* Imports: the messages of one conversation are written in one step (their flushes are
  merged); a file does not repeat a conversation; statistics, error messages, timestamps
  and logging are left out; failures of the database connection are not modelled; a lost
  pool child is acknowledged and stored as `WorkerLostError` in one step; the commit of an embed task does
  not wait for the job row it updates with statistics, which an import of the job may hold; no result expires
  between being stored and the acknowledgement that follows; the demonstration task `process_message` is
  left out.
* Parser: an item's text, sender and dates are there and of the right type, or not; how text is
  put together from content blocks, and how dates are read, is left out.  Of messages
  that repeat a key `LoadConversations` keeps the last, which is what the import does with them.
* Search: the candidates a search ranks, not their order, the limit, or the answer made of them.
* Chat: one thread, whose creation merges its reads; each patch also changes the title; the
  row locks a delete takes on messages appear only as the deadlock of two deletes
  (`DeleteDeadlock`).  Search and model are one step that succeeds or fails.
* Tenancy: a thread's `context_user_id` and OAuth links are not rows of this model (links
  are in `Accounts`); creating and renaming an organization change no reference; a deletion of an
  organization loads its four relations in one step (`LoadChildren`), and the row locks of threads it
  sets to null are left out.
* Accounts: changes of name and password are left out; the exchange of an OAuth code yields
  a profile or an `AuthenticationError`; a deletion loads children and deletes in one step;
  other rows of a user are in `Tenancy`.
* Migrations: indexes, server defaults and alembic's offline mode are left out; a revision's
  statements are one step, since its transaction holds what they lock until the end; of the
  imported tables only whose they are is kept, of a thread not its organization; each write of a request is one
  step with its commit, checks included (what can come in between them is the subject of `Tenancy` and
  `Accounts`), and what it makes a migration wait for or fail with is `Abort`; names, passwords
  and titles are left out.
* Listing: one client, a filter that rows pass or do not, and no change of a page size during
  the walk.
* Embedding service: the check of a response's length and the vectors' contents are data.
* Not modelled: the LLM client (a function of its prompt behind one call; its callers have it
  answer or fail), the task demonstration (it forwards a string to Celery), configuration and
  the mapping of errors to status codes (no state), and the set-up scripts.

## 6. Plan

Order of work, most important first; done but for the end of the last.

1. Import pipeline, with broker, workers, faults and ledger; its safety properties and the
   refinement of the ledger proved, `SettledMeansSearchable` last.
2. Chat threads against the abstract log; all safety properties and the refinement proved.
3. Tenancy; references and the absence of deadlock proved.
4. Accounts; unique addresses and identities, linked logins and `NobodyIsLockedOut` proved.
5. Migrations; rows fit their schema and accounts survive, proved.
6. The embedding service; its safety properties proved.
7. Parser and search, as operators the imports are composed with.
8. Listing; its two bounds proved.
9. Everywhere, that nobody is stuck, and for accounts and embedding how many steps are left; proved.
    A bound on the steps of workers and containers, in which kills and restarts count,
    is what is left.
