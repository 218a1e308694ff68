# KvEn: verification project

TLA+ specifications of the parts of this repository whose correctness depends
on orders of events: what is stored before what is sent, what a restart finds,
which of two loops comes first, which file a crash leaves behind. Line numbers
and names refer to the sources of the repository; `PROJECT.json` maps every
definition of a module to the lines it stands for.

Run a model:      tlc -config gateway_safety.cfg MCTelegramGateway
Check the proofs: tlapm TelegramGateway_proofs.tla

## 1. The system

| Component | Sources | State | Operations | Talks to |
|---|---|---|---|---|
| Telegram job store | `telegram_store.py` | SQLite: streams, updates, media, messages, jobs, job batches, delivery chunks, next offset | enqueue, advance offset, complete media, claim job, save response, claim delivery, mark delivered, recover | the three gateway loops |
| Compaction | `telegram_store.py`, `telegram_compaction.py` | checkpoints per stream | build context, claim, complete, fail compaction | generation loop, model |
| Gateway loops | `telegram_workers.py`, `telegram_runtime.py`, `telegram_updates.py` | three asyncio tasks with local variables | poll/ingest/download, claim/generate/save, claim/send/mark | store, Bot API, Kven |
| Bot API, chat client | `telegram_bot_api.py`, `telegram_kven_client.py` | none | getUpdates, getFile, sendMessage; chat stream | Telegram, `routes.py` |
| Chat route | `routes.py`, `speculative_stream.py` | per request: the body, the handler, one or two generations, producer task, bounded queue, completion gate | classify, plan, speculate, stream, release, cancel, continue, fall back, schedule the memory write | planner, context, memory, model backends |
| Planner and tools | `planner_router.py`, `tool_loop.py`, `tool_directives.py`, `tool_registry.py` | none | remove tools, parse, decide, validate calls | chat route |
| Context window | `context_window.py` | none | find the boundaries of a conversation, summarize, omit media and old tool results | chat route |
| Text summaries | `text_summary_*.py` | SQLite table with an LRU limit, one asyncio lock | load, match, generate, save, apply, mark | chat route, planner model |
| Long-term memory | `write_path.py`, `consolidation.py`, `sqlite.py`, `retrieval.py`, `memory_reranker.py`, `decay.py` | SQLite rows, background tasks | extract, filter, insert, consolidate, retrieve | chat route, vector index, model |
| Vector index | `hnsw.py` | index in memory and file, id map in memory and file | add, save, load, reset | memory |
| Integration | `scripts/kven-integrate-task` | run state file, active marker, lock, repository, backups, services | stage, rollback, finalize | git, systemd, the operator |
| Task script | `scripts/kven-codex-task`, `kven_handoff.py` | result directory | run, validate, package | git, an external program |
| Mail courier | `infra/mail/*` | mailbox, incoming files, receipts, seen ids | poll, store, receipt | runner |
| QwenII runner | `infra/qwenii/runner.py` | task state files, outputs | recover, validate, run, render, return | courier, mail |
| Human notifier | `infra/notify/*` | spool, sent markers, lock | request, dispatch | SMS |
| Telegram user account | `telegram_user_*.py` | none kept | control requests | third-party client |
| Sandbox, client gateway, adapters, configuration | the remaining modules | none that matters | stateless translation | |

The gateway is the part that promises most (README.md:47: "persistent jobs,
restart recovery, and reliable long-answer delivery") with the most
concurrency: three loops that interleave at every `await`, calls that fail
after they took effect, restarts anywhere. It is modelled first, then the two
parts that act on the machine and must survive being killed: the integration
script and the mail tasks. The chat backend behind them has its own races: the
planner against a speculative answer, the guards against a stream that has
been half sent, background memory writes against each other and against the
index files, and requests that share stored summaries. The hard
behaviours of each component are listed one by one, at their lines, under
`hazards` in `PROJECT.json`.

## 2. Modules

| Module | Models |
|---|---|
| `TelegramStore` | the tables of the gateway; one action per store call, which is one SQLite transaction |
| `TelegramCheckpoints` | checkpoints and the prompt projection; extends the store |
| `TelegramGateway` | the three loops, Telegram, the model, crashes; extends the checkpoints |
| `TelegramPromise` | what the gateway promises: an abstract specification per conversation |
| `TelegramRefinement` | the mapping under which the gateway implements the promise |
| `Integration` | stage, finalize and rollback of `scripts/kven-integrate-task` |
| `MailCourier` | the polling process that files attachments with receipts |
| `QweniiRunner` | the process that runs authorized tasks; extends the courier |
| `ChatText` | what the route and the adapter do to the text of an answer: guards, markers, normalizer |
| `ToolPolicy` | the pure decisions about a request: policies, directive, planner result, validation of calls |
| `SpeculativeStream` | the producer, the bounded queue, the release gate and the consumer |
| `ChatTurn` | one request from arrival to end; extends the three above |
| `HnswIndex` | the vector index, its id map and their two files |
| `MemoryText` | which part of a turn may be remembered, which extracted lines are kept |
| `Memory` | memory writes, consolidations and retrieval; extends the two above |
| `ContextWindow` | boundaries of a conversation and the three compactions |
| `SummaryCheckpoints` | stored summaries and the requests that make and use them; extends `ContextWindow` |
| `*_proofs` | theorems and their proofs, for the module they are named after; `Memory_proofs` also those of `HnswIndex`, `ChatTurn_proofs` also those of `SpeculativeStream` |
| `FoldLemmas` | what the library's `FoldLeft` computes, the starting point of every induction over a fold |
| `MC*` | values of the constants for TLC |

### Correspondence: the gateway

* *Tables.* Rows are never deleted and ids are AUTOINCREMENT, so `jobs`,
  `transcript` and `checkpoints` are sequences whose index is the row id.
  `telegram_job_messages` is the field `batch` of a job, `telegram_delivery_chunks`
  the field `chunks`, `telegram_updates` with `telegram_media` is `inbox`.
* *Transactions.* Every store method runs one `BEGIN IMMEDIATE` transaction in
  a worker thread, so it is one action. A method that raises rolls back: it is
  an action that is not enabled.
* *Loops.* `poll`, `gen` and `delivery` hold what the local variables of
  `run_polling_once`, `run_generation_once` and `run_delivery_once` hold while
  the function waits. One await is one step; between two of them anything may
  happen. An exception ends the iteration and drops the variable
  (`PollAborted`, `GenFails`, `DeliverSendFails`). The generation loop asks for
  a job and then for a compaction, in two transactions, and what it was told of
  jobs may be out of date by the second (`GenFindsNoJob`, then
  `GenClaimCompaction` or `GenFindsNothing`). `error_delay` is a stuttering
  step, and so is an iteration of the other loops that finds nothing.
* *Telegram* is external: `updates` is its queue (getUpdates returns all from
  the offset), `shown` the messages it displayed. A failing `sendMessage` may
  have taken effect. A user may reply to any of their messages and to any piece
  they were shown (`Repliable`).
* *Prompt.* `GenerationContext` is what `build_generation_context` makes of the
  tables: the checkpoint, the newest rows that fit, the batch, and the rows the
  batch replies to, however old (`References`). A reply to a piece is found by
  the message id its confirmation wrote.
* *Time.* `ready_at` is a flag that `Debounce` sets; a message that joins a
  batch clears it.
* *Restart.* `Crash` loses the loops; `Start` is `init` plus
  `recover_incomplete_jobs`, which precede the loops, and may read another
  `TELEGRAM_ALLOWED_USER_ID`.
* *Left out.* Message texts, attempts, timestamps, last_error, vision payloads.
  A transcript entry weighs one token.

### Correspondence: integration

* *Commands.* `op[o]` is a process an operator started, with `mem` its copy of
  `integration-manifest.json`; `file` is that file on disk. Every change of the
  world, and every look at the checkout or at origin that a record rests on, is
  an action of its own; where other code runs between the look and the record
  (the evidence files after the last guard of `stage` and of a rollback) the
  record is an action too (`StageComplete`, `RollbackComplete`), so edits and
  fetches may come in between.
* *Failures.* Whatever raises in a stage, or in the rollback a stage starts,
  goes to its handler (`StageFails`, `RollbackFails`): at every step, writes
  included, so that the memory the handler persists may be ahead of the file.
  Whatever raises elsewhere ends the command with the lock released and the
  files as they are, which is what a kill does: both are `Crash`, at every step
  and without a bound.
* *Lock and marker.* The repository lock is held exactly while a command's `pc`
  is neither `idle` nor `loaded`: `load_run` reads the file before the lock.
  `marker` is `kven-integration-active.json`.
* *Origin.* `origin.main` is the history of main on the server, `origin.seen`
  how much of it `refs/remotes/origin/main` knows; the commands read only the
  latter. A push may succeed, fail, or be lost after it took effect.
* *Abstractions.* One service stands for all; a commit stands for its code,
  schema and data, and a service that starts with merged code migrates the
  data of its baseline (`Migrated`). Phases that differ only in their name are
  merged. The run's contents that no decision reads (test evidence, hashes of
  the contract, timestamps) are left out.
* *Environment.* Edits of the checkout, pushes of others, fetches and restarts
  by systemd may come between any two steps, as far as the constants allow.

### Correspondence: mail tasks

* *Courier.* One step per file it replaces: the attachment, the receipt,
  `seen.json`. `seen` is the set of the poll under way, `known` the list in
  memory between polls, `saved` the list on disk. A mail that is listed as
  seen is not read again; `list(seen)[-5000:]` may drop any of them (`Kept`).
* *Runner.* One step per record that is written (`record`), file that is
  rendered (`result`) and effect (`launched`, `outbox`). `runner` holds the
  place in the code and the task being processed; it is lost in `RunnerCrash`.
  `TaskFails` is the exception handler of `process_auth`, at every place where
  a file cannot be read, written or opened.
* *Left out.* A mail whose text names a charset Python does not know:
  `plain_body` raises on it (`receiver.py:89`), the poll ends before it saves
  what it has seen, and every later poll ends there again. The mails of the runs
  can be read, and `TasksEnd` speaks of such mailboxes only.
* *Scripts.* `ScriptExits` is external. systemd kills the script with the
  runner (`KillMode=control-group`).
* `launched` and `outbox` are history: nothing reads them but the properties.

### Correspondence: a chat turn

* *Steps.* `phase` is the await at which `handle_chat` waits, or how the request
  ended; the model, the planner, the database and the client decide what
  happens there. `gen` is the generator of `_stream_main_chat_response`, whether
  a client or a speculation iterates it; its `stage` is the last yield or await
  it has passed. `settings` are the environment flags that choose a route.
* *Requests* are records of messages, exposed tools, `tool_choice` and `stream`.
  A message's text is its kind (a knowledge-base wrapper, a task heading, a
  directive, tool calls, a result), since only kinds are looked at.
* *Texts* are sequences of tokens: words, a repeated phrase, the two halves of a
  tool tag, an empty thinking wrapper. That is what the guards tell apart, and
  it lets a marker arrive in two pieces.
* *Speculation.* `StreamSpec`, the stream alone with a body that may yield
  anything, is the abstract specification; `ChatTurn` gives it the real body and
  the run checks that it implements it. `CancelStream` is one step: the
  caller awaits the cancelled producer.
* *Memory.* `remembered` records each `process_episodic` task with the rows and
  the reply it is given: the start of `Memory`.
* *History.* `produced`, `delivered`, `shown` and `remembered` are read by
  properties only.

### Correspondence: long-term memory

* *Steps.* `turn[t]` is the `process_episodic` of a turn, `task[t]` the
  `consolidate` it created. One await is one step, one statement on the database
  a transaction. A statement that fails is an alternative of its action, with
  what the code makes of it: `query` turns an exception into no rows, so a
  duplicate check that raises finds none, and a lookup of a semantic row that
  raises falls to the episodic row of the same number.
* *Text* is the set of its meaningful words. `Grounded` and `NearDuplicate`
  compute with the thresholds of the code.
* *Index.* A vector is known by the row it embeds, so the index is a function
  from labels to rows; `indexFile` and `mapFile` are the two files, written one
  after the other in the order of the code, each write failing, with the file as
  it was or emptied, or, in `Crash`, leaving a file that does not load. A resize
  may raise before the label is taken, an insertion after it. `hnsw_lock` is `step # "idle"`.
* *Retrieval* changes nothing, so it is an operator (`Retrievals`) that
  properties evaluate in every state, for every distance and planner answer.

### Correspondence: summaries and the context window

* *Messages* are records; a text is its name. A summary's text is the sequence
  of messages it tells of (`covers`), and a checkpoint's hash the messages
  themselves, so a property can compare the two.
* *Store.* `store` is the table in the order of use: `Saved`, `Touched` and
  `Loaded` are the three statements. `lock` is `_GENERATION_LOCK`.
* *Sizes.* Whether there are enough characters, and whether a compaction makes
  the request shorter, is a choice.
* *Features.* Generation, application and both historical compactions are
  opt-in; the model has them switched on.
* *Cancellation.* A save runs in a thread that a cancelled request leaves
  behind: `late`.
* *`sent`* is what leaves the compactions, not literally what the backend gets:
  on a tool continuation `_build_clean_tool_continuation_messages`
  (`routes.py:2382`) then drops the calls and moves the results into the system
  message.

## 3. Runs

| Run | Question | Bounds |
|---|---|---|
| `gateway_safety` | Is anything lost, answered twice, out of order, sent before it is saved, twice in one run, or regenerated? | 1 stream, 3 updates (text, image or malformed), replies of 1 and 2 pieces, faults in the first of 2 process runs |
| `gateway_checkpoints` | Do checkpoints stay away from open turns, from each other and from the exact reserve, and cover ever more; does the context of an answer depend on when it is read? | 1 stream, 2 updates (text, image or malformed; replies to messages and to pieces), 2-piece reply, trigger 2, reserve 1, faults in the first run, 1 restart |
| `gateway_answered` | Is everything answered in the end that a malformed message does not cut off? | the same, without replies |
| `gateway_promise` | Does the gateway implement `TelegramPromise`, which answers each conversation in order, when streams alternate and jobs are stranded? | 2 streams, 2 updates (text or malformed), replies of 1 and 2 pieces, 3 process runs, faults in the first |
| `gateway_stranded` | Does the loop's retry reach a job whose generation failed? (violated) | 1 update, no restart |
| `integration_safety` | Do the marker, the publication, the record of what is deployed and the push survive failing and killed commands, flapping services, edits and pushes of others? | 1 operator, 2 runs, 1 flap |
| `integration_interrupted` | Can an interrupted rollback be resumed? (violated) | 1 run |
| `tasks` | What is run, how often, on whose authority, and what is reported of it? | 3 of 5 mails, a seen list of 2, 2 faults, a disk that may be full |
| `tasks_end` | Is every task that was mailed completely returned or rejected? | 2 of 5 mails, a seen list of 1, 3 faults, writes succeed |
| `chat` | What does a client see, which calls is it given, what is remembered of a turn, does the stream keep its contract, and does the turn end? | 41 requests of every kind, 9 settings, 2 pieces, 1 thought, a queue of 1, decisions of up to 3 calls |
| `memory` | What is remembered, what can be found again, what is a query given? | 2 turns of 3 conversations, 3 extractions, 3 consolidations, 2 rows, capacities 1 and 2, 1 crash or exit, 1 failure of the index |
| `context` | What does a summary cover, what do the compactions leave of a conversation, is the tool protocol intact? | 2 requests of 6 conversations, tail 2, store and load limit 2, 1 late save |

Why the bounds are enough. *Gateway.* Three updates give a batch of two beside
a later job, a batch that grows after a recovery, and an image between two
texts. Two pieces give every prefix of a delivery. One restart shows each loop
dying at each await, a second one (`gateway_promise`) a recovery of a recovered
job. Two updates are enough for a message that replies to a piece of the answer
to the one before it while that piece is shown and not yet confirmed. Replies
change nothing but the prompt, so the other runs have none (`ReplyKinds`), and
images nothing but when a job is claimable, so `gateway_promise` has none. The
proofs lift the store's and the central gateway properties, of replies and
images too, to any number of updates, streams, pieces and restarts. *Integration.* A run only
meets others through the marker, the checkout and origin, so the second run
stands for all later ones. Commands can be given, fail and be killed without
bound. The run has one operator; what a second one can do by loading a run before the lock is shown by
`integration_stale` and `integration_accepted` below, and what no number of
operators can do is proved. *Tasks.* A task has two mails;
the third is a rival for either, or one that is turned down. The second fault
hits the recovery from the first. *Chat.* A request meets no other one, so one
is enough; the requests tell every route and policy apart, two pieces split a
marker or repeat a phrase, and a queue of one makes the producer wait at every
chunk. *Memory.* Two turns interleave every await of one with every await of
the other; capacity 1 makes the second row grow the index; the proof of
`PairMatches` covers any number of rows and crashes. *Context.* The
conversations grow from each other, branch, are edited, and end in a question,
a draft or a tool result; two rows of the store are one fewer than can match.

Five properties join several statements about one hazard. `CheckpointsKeepApart`:
a pending or active checkpoint covers no message still to be answered, and a
stream has at most one of each. `PublicationIsSeen`:
a run is built on, and finalized as, a commit that origin/main was seen to have.
`RecordedIsDeployed`: when a run is recorded as rolled back, or as awaiting
acceptance, the head of the checkout, the data and the service are those of its
baseline, or of its merge; uncommitted edits and origin are not part of it,
since they may change between the last check and the record. `AcceptedIsPushed`: only an accepted run is pushed,
onto the baseline it was tested on, and on record first. `ShownIsSaved`: what
is shown is the saved answer, piece by piece in order, each at most once per
process run.

The instances are finite because `MaxUpdates`, `MaxRestarts`, `MaxCrashes`,
`MaxFlaps`, `MaxMail` and `MaxFaults` bound the counters; when they are used up
the system rests, and since the loops still step (an empty poll, a command
that is refused), these runs check for deadlock. `chat` does too: a request
that is over stutters in `Finished`, and any other state without a step is an
error. So does `context`, whose requests come back for ever. `memory` switches
it off: turns are over and the process may be stopped for good. Turns and
requests are symmetric in `memory` and `context`, where nothing compares them
and no liveness is checked.

### Fairness

`gateway_answered` assumes weak fairness of each loop, which `while not
stop_event` with bounded delays justifies, of the clock, and of `Start`
(systemd restarts the service). `RestartedSpec` adds that a process whose
calls may have failed is restarted sooner or later, and lets calls fail only
in runs before that: without it `gateway_stranded` shows what happens. Fairness
does not help against a malformed message of the owner, an image over the size
limit for instance: it raises on every poll, before its offset is stored and
before pending images are downloaded. `EveryMessageAnswered` excepts what comes
after it, and an image that is still to be downloaded (`Unreachable`).
`tasks_end` assumes weak fairness of the courier's and of the runner's steps:
both are `while True` loops with `Restart=always`. A script need not end;
`proc.wait` has a timeout. `chat` assumes it of the handler, the generator, the
queue and the server: every call they await has a timeout, and a task that can
run is run. Nothing is assumed of disconnects and errors. `memory` and
`context` check safety only. Integration commands are given by hand and nothing
is assumed of them.

### Findings

* `gateway_stranded`: an exception between claim and save leaves the job
  `processing`; only a restart releases it, and it blocks its stream.
* `integration_interrupted`: a rollback that is killed or raises after
  `git reset --hard` and before its milestone is persisted finds the baseline
  where it expects the merge, and refuses every retry with the services stopped.

### Further counterexamples

These configurations are kept beside the runs. Each violates its property in a
few steps, and shows a limit of the code that the properties above respect.
Other limits that `memory` and `chat` respect: the map is written before the
index, so a crash between the two makes the next start drop both and every
vector with them, and nothing embeds the rows again (`NoOrphanMap` is violated
in the bounds of `memory`); a failing SELECT on `semantic_memory` is taken for
"no such row", and the episodic row of the same number, which has nothing to do
with the query, is given instead (`RetrievedIsRelevant` excepts rows whose
SELECT raised); a message with a request to remember is taken whole, so what it
only asks may be remembered, although the docstring of
`should_skip_memory_extraction` (`write_path.py:390`) says that questions create
no new durable memory (`RememberedIsOwn` lets it); a request cancelled in
`wait_started`, and a released response that the server never
iterates, leave a producer that nobody stops (`Deserted` in `TurnEnds`).

| Configuration | Module | Shows |
|---|---|---|
| `gateway_reference.cfg` | `MCTelegramGateway` | a message that replies to a piece shown but not yet confirmed is answered with or without the reference, depending on when its prompt is read (`ContextFixed`) |
| `gateway_duplicate.cfg` | `MCTelegramGateway` | a restart between send and confirmation shows a piece twice; the owner checklist says "no duplicate answer" |
| `gateway_reserve.cfg` | `MCTelegramGateway` | thresholds are not checked against each other: with a trigger below the reserve a checkpoint covers the reserve (`ReserveStaysExact`), and a later one may cover less than the one it replaces |
| `integration_stale.cfg` | `MCIntegration` | the run is loaded before the lock: a rollback based on an old copy records ROLLED_BACK while the service is stopped |
| `integration_accepted.cfg` | `MCIntegration` | the same race with a finalize: a run is pushed though its record does not say that it was accepted (`AcceptedIsPushed`) |
| `integration_marker.cfg` | `MCIntegration` | a second rollback of a rolled back run leaves the marker, which keeps later runs out |
| `integration_published.cfg` | `MCIntegration` | a finalize killed after its push may be rolled back, though its commit is on origin/main |
| `integration_services.cfg` | `MCIntegration` | a stage killed before it recorded the services is rolled back by stopping what nothing starts again |
| `integration_edits.cfg` | `MCIntegration` | edits made while the services stop are lost in the reset |
| `memory_duplicates.cfg` | `MCMemory` | two consolidations store the same content: both look before either inserts |
| `memory_pair.cfg` | `HnswIndex` | the pair of files is compared by size only: a reset that could not save the empty index, between two crashes, leaves a map and an index of other rows (`PairAlwaysMatches`) |
| `context_missed.cfg` | `MCSummaryCheckpoints` | the longest checkpoints of all conversations are loaded first, so with a load limit below the store's (64 and 256 by default) the one that fits is not loaded |
| `context_late_result.cfg` | `MCSummaryCheckpoints` | a result that comes after another message is separated from its call by a checkpoint that was made before it came |
| `context_turn.cfg` | `MCSummaryCheckpoints` | of a tool turn with several exchanges only the last one is protected |
| `tasks_unbounded.cfg` | `MCQweniiRunner` | when `launcher_pid` cannot be written the script runs on without its timeout |

## 4. Proofs

`TelegramStore_proofs` proves `StoreInvariant`: the store, called in any order,
keeps `StoreInv`. Properties such as `AnsweredInOrder` are not inductive. The
strengthening says that a batch holds only stored updates, that a job has an
answer exactly when its status is past `processing`, that chunks exist only
for answered jobs, and that a claimed job, and every job that is not the
newest of its stream, is settled: its debounce has passed and its images are
there. The last part is what makes the lowest claimable job the oldest
unanswered one. One lemma per store call
shows that it keeps the conjunction; `StoreTypes` and `StoreConfirmed` follow.

`TelegramGateway_proofs` lifts it: every gateway step is a store call or leaves
the tables alone (`GatewayStore`), and `GatewayInv` adds what each loop may
hold while it waits: the generation loop a claimed job or a pending
checkpoint, the delivery loop a chunk in `sending`, nothing while the process
is down. `GatewayTypes`, `GatewayBatches`, `GatewayAnswersInOrder` and
`GatewayAnswersFinal` follow, for any number of streams, updates, restarts and
failing calls. `HistoryInv` then relates what is stored to what happened
outside, and gives every other safety property of the gateway's runs:

* `PollOrdered`: the batch in the polling loop is everything from the offset to
  its last update, and what is stored lies before the offset. So nothing is
  acknowledged unstored (`GatewaySkipsNothing`) and a stream's batches are in
  order of arrival, whichever job an update joins (`GatewayBatchesInOrder`).
* `RowsInv`: one user row per stored update, one assistant row per answered job,
  the second after the first (`GatewayTranscript`).
* `ShownInv`: a chunk is shown only when the chunks before it are confirmed, and
  has at most as many copies as there were restarts, plus one once this process
  has taken it. The loop's local variable is part of it: between send and
  confirmation it holds a message that is among the copies (`GatewayShowsSaved`).
* `CheckpointsUnique`, `CheckpointSparesOpenTurns`, `CoverageInStream`: a
  checkpoint ends at a row of its own stream, before every unanswered one
  (`GatewayCheckpointsApart`).
* `RepliesBack`: a message replies to one before it. `GatewayContextStable` then
  takes the prompt of a claimed job apart: the checkpoint and the batch are kept
  by whatever the other loops do (`TurnKept`), the rows after the batch do not
  count, and a reply reaches what it reached before (`ReferencesKept`), unless
  the delivery loop confirms the piece it is to, which adds the one row of that
  answer (`ReferenceConfirmed`).
* `GatewayReserve` and `GatewayCoverageGrows` assume `Reserved`: the trigger is
  at least the exact reserve, as in the defaults (8192 and 4096,
  `telegram_store.py:99`). The code does not check it; `gateway_reserve` shows
  both properties' premise is needed.

`GatewayKeepsPromise` is the refinement: the gateway implements
`TelegramPromise`. The promise speaks of what a user sees, per stream: texts
accepted in order, answered one by one, each answer shown piece by piece and
confirmed. Its variables are sequences put together from the jobs (`FlattenSeq`
over the stream's jobs), so a step of one job has to be found again in the
whole:

* `JobParts` and the `FlattenSeq` lemmas of `FoldLemmas` say what the whole
  becomes when one part is replaced, or one added at the end.
* `Numbered`: the number of a job's answer, by which the promise knows it, leads
  back to that job, whatever other streams did in between. With
  `AnsweredInOrder` a saved answer takes the oldest waiting messages and comes
  last (`SavedPromise`); what a stream has taken lies before what is accepted
  next (`TakenBefore`), and the piece the delivery loop holds is the first
  unconfirmed one (`HeldAnswer`).
* One lemma per kind of step: `AcceptKept`, `AnswerKept`, `ShowKept`,
  `ConfirmKept`, and `QuietKept` for every step the promise does not see:
  claims, failures, checkpoints, crashes and the recovery.

`Integration_proofs` proves all properties of `integration_safety`. `Inv` says of
any number of operators and runs that every copy of a run's state, in a file or
in the memory of a command, however old, is `Credible` (its baseline was seen on
origin/main, and so was the run itself if it is handed over), that the lock has
one holder (`Exclusive`) whose run is the marker (`HoldsMarker`), and what the
file and the memory of a command agree on at each place of the code
(`CommandsAtPlace`). It gives `MarkerHeld`, `PublishedIsSeen` and
`MilestonesResume` with failing and killed commands, flapping services, edits and
pushes of others. The last rests on `HeadRecorded`: while a run is being rolled
back its record names the head of the checkout, but for a reset whose milestone
is not written. `AcceptedPushed` and `RecordedDeployed` assume `Solo`, one operator:
`load_run` reads the file before the lock is taken, so that with two of them a
command may act on a copy that another command has overtaken
(`integration_stale`, `integration_accepted`). With one, memory and file agree
(`MemoryCurrent`), the checkout is what milestones and guards say
(`CheckoutKnown`), and the service is in one of two worlds: it was stopped from
the start and nothing touches the data (`Unserved`), or it runs on the data of
the checkout unless the run that holds the marker is merged and not restarted
or is being undone (`Served`). A killed command leaves any of these and a later
one must be able to take it up, which is why the invariant speaks of the file
rather than of the command.

`QweniiRunner_proofs` proves every invariant of `tasks` for any number of
tasks, mails and faults. `CourierInv` adds to the courier's properties that the
poll stays within the mails it found and that what is on record as seen is in
the mailbox. `RunnerInv` says for each task what its record holds wherever the
runner is (`RecordAtPlace`), that nothing was launched before `RUNNING` was
written (`NotYetLaunched`: the reason a recovered task is not launched again),
that the recorded outcome is what was rendered (`OutcomeRecorded`), and that
success is only ever the script's own (`SuccessReported`). `AuthorizedAtPlace`
connects the two: from the validation to the launch the files are those that
were validated, because the courier never replaces a file. A step changes one
task (`Framed`), or none (`BetweenTasks`), so each action has to keep only that
task's part. The assumptions are `CourierAssumption` and `RunnerAssumption`.

`ChatTurn_proofs` begins with the stream alone, for any body, any bound and any
set of chunks. `StreamInv` adds to the properties that the sentinel is the last
thing put (`EndIsLast`: a chunk behind it would be lost) and that only a released
response is read and only an open gate passed (`ReadersReleased`). Then the turn,
for any requests, tools, settings, numbers of pieces and proposals of a model:

* `TurnInv` says in which phases of the handler a speculation may exist, that
  while the turn is open nothing has been shown, returned or remembered and the
  gate is closed, and that a producer runs only for a speculation. It gives
  `TurnHasOneGeneration`.
* `TurnCallsAnswer` is an induction over the proposals that
  `_validate_and_limit_native_tool_calls` goes through (`ValidatedCalls`), and
  `CallsInv`, which carries what it says of the returned calls through the rest
  of the turn.
* `TurnShowsNoMarkup` is about the two halves of a marker. `MarkupInv` says that
  a continuation has sent a beginning of its text that ends where no marker can
  be under way (`SafeEmitEnd`), so a marker that the next piece completes begins
  behind what was sent (`MarkerUnsent`); and that the final cleaning, a fold over
  the text, leaves no marker (`CleanHasNoMarkers`).
* `TurnImplementsStream`: every step of a turn is a step of the stream or leaves
  it alone. The yields of a speculation are the part that needs an argument: its
  text, its events and the diagnostics fit what the stream may carry
  (`SpeechInv`). With it the stream's promises hold of a turn
  (`TurnDeliversInOrder`).
* `TurnRemembersTheAnswer` compares two texts that are made in different places:
  the reply a turn gives to its memory task, and the content of the events its
  client was sent. `GeneratorTells` relates them while the generator runs: until
  a guard intervenes, what was said (`Said`: the yielded events put together, or
  what was shown) is the text up to `gen.sent`. A live answer sends everything as
  it comes, a continuation the rest at its end (`RestTells`), so at the gate the
  text is what was said, cleaned, or nothing has been said yet and the text is
  sent whole (`GateTells`). `MemoryInv` says that the task was given that reply.
  The answers that are not streamed are compared one by one (`CollectedTells`,
  `FinalTells`, `LoopFinalTells`, `DraftTells`), and the conversation that goes
  with the reply is what `WritePathClean` says. What a released stream has
  yielded is what the client has read once the stream is read to its end
  (`StreamIsPast`), which is when the turn counts as answered (`PhaseInv`).

The assumptions are those of the four modules: requests are records of messages,
a proposal is a finite sequence, an answer has at least one piece, and the
chunks of the stream include everything one event may carry.

`Memory_proofs` proves every property of `memory`. First the index
(`IndexPairMatches`), for any rows, capacities and number of crashes.
`FilesAgree` says that two files that load are either an empty map beside any
index, or an index all of whose labels the map names: while the map runs one row
ahead it has one entry more, so the comparison of sizes that a start makes is a
comparison of contents (`SameCountSamePair`). `StepInv` says what memory and
files hold before each write. A failure breaks the chain between memory and
files, so all this is claimed through any crashes as long as nothing has failed;
`IndexFirstLife` claims through any failures, until the first crash, that what a
search finds is the row that was embedded. Both are parts of `PairMatches`;
after a failure and a restart nothing is claimed (`memory_pair`). Then the memory, each step of which is a
step of the index or leaves it alone (`IndexInMemory`):

* `EpisodicInv`: what a turn still has to save and what it has saved are at most
  two lines together, none repeats another, and each is the user's own
  (`TurnPart`, `RowsStated`): three words in ten and every identifier stand in
  the user's message, and in its statements unless the message asks to remember. That the parser keeps only such lines is an
  induction over the extraction, which `ParseMemoryText` folds (`ParseKeeps`).
  `RowsAreOwn` and `RememberedOnce` follow.
* `SemanticInv`: what each consolidation has under way (`TaskPart`), that none
  runs before its turn has saved (`TurnsFirst`), that the map names rows of the
  database (`MapOfRows`), and for the first life of the process that each row is
  indexed, under way or known not to be embedded, as long as nothing of the index
  has failed (`FirstLife`; a resize that raises leaves the row out of the map).
  `RowsSearchable` follows, under the same two provisos.
* `RetrievalIsRelevant` combines the two parts: a hit is a row of the map with
  its own vector, hence semantic memory unless its SELECT raised, and few are
  chosen. It has the provisos of `PairMatches`.

`TextAssumption` has `Words` finite: a text has finitely many words.

`SummaryCheckpoints_proofs` proves the properties of `context` for any set of
conversations, limits and requests. `TypeInv` says that every checkpoint,
wherever it is (stored, loaded, being made, late), is `Sound`: it covers the
messages it is known by. `GenerationInv` says that a generation continues a
checkpoint that begins its own conversation (`Begins`), so the messages that
are added follow on those that are covered (`CheckpointsCoverPrefix`).
`LongestIsApplied`: rows are loaded longest first, so whatever the load limit
leaves out is no longer than what was loaded; the store is finite, so among
those that fit there is a longest, and nothing that another request saves in
between changes what was loaded. `ContextTellsAll`: what is applied fits the
request's messages, which stay what they were on arrival (`ServedInv`), so the
summary with the messages behind it tells the whole conversation, and the
omission of media and old exchanges keeps what each message is. It needs that a
client's own messages summarize and omit nothing, which `CheckpointAssumption`
states.

`ToolProtocolIntact` (`ProtocolIntact`) is about a checkpoint made from one
conversation and put into another one with the same beginning. Its hypothesis
is `ResultsFollowCalls`: in every conversation the results of a call directly
follow it, one for each of its tools at most and all of them unless the
conversation ends before. `MCSummaryCheckpoints` has TLC check that it holds of
the conversations of the run; `context_late_result` shows that the property
fails without it. `BoundaryUncut` says that the safe boundary cuts no exchange of
its own conversation and lies before the end; `BoundaryCuttable`, that it then
cuts none of any other conversation, since the call says how many results
follow. `CutInv` carries this through store, refreshes and late saves. For the
rest, an exchange behind the boundary goes on in what is sent as it was
(`GoesOn`), a compaction keeps calls and their order (`CompactionSame`), and it
leaves alone the exchange that ends the conversation and the message it answers
(`CompactionKeeps`), both of which are behind the boundary (`ProtectsExchange`).

`FoldLemmas` makes the inductions over folds possible: `FoldLeft` is a recursive
function over sets of positions, and the lemmas give its value on the empty
sequence and after one more element. `FlattenSeq` is a recursive function that
is local to a definition; the lemmas show that it exists, and what it makes of
a sequence that grows, shrinks or changes in one place.

The assumptions of the theorems are those the modules state as `ASSUME`, and the
hypotheses `Reserved`, `Solo` and `ResultsFollowCalls` where the text says so.

### Model-checked only

Liveness: `EveryMessageAnswered`, `TasksEnd`, `TurnEnds`. The prover handles
neither fairness nor `ENABLED`. Every other property of the passing runs, each
invariant, action property and refinement, is a theorem.

## 5. Not modelled, and what is left

`components` in `PROJECT.json` gives the reason for every part. Stateless
translations, wiring, one-shot reports and formats stay out. So do, in the
modelled parts, prompts and their budgets, marker tables and regular
expressions beyond what they tell apart, the request log and telemetry, the
budget report of the context window, `run_decay` and the scores, and retries
inside HTTP libraries.

Left, in this order: the human notifier (the spool, the duplicate markers, the
send), `kven-codex-task` and the hand-off, the user-account control socket.
