# Agenthropic: a TLA+ verification project

Agenthropic is a local dashboard for Claude Code. A server follows the session
transcripts Claude Code writes under a projects directory, projects them into
SQLite, receives hooks, and serves a read API and an event stream to a web
client. This directory holds the models of its stateful core, the TLC runs that
check them and the TLAPS proofs about them. Paths below are under
`apps/server/src/` unless they say otherwise.

## 1. Inventory

| Component | State it keeps | Operations | Correct when |
| --- | --- | --- | --- |
| Corpus watcher (`ingest/corpus-watcher.ts`, `corpus/*`, `db/replay-checkpoints.ts`) | fingerprints, retry budgets, re-read schedules, the sweep in progress; the checkpoint table | one poll `tick`: enumerate, diff, admit, read, settle; stop, restart | content is never taken as read when it was not; nothing is re-read for ever |
| Startup replay (`index.ts`) | ingest phase | capped ticks until drained | the phase ends |
| Liveness (`db/agents.ts`, `db/sessions.ts`, `ingest/project-session.ts`, `hooks/*`, `ingest/watchdog.ts`) | status and anchor columns of `agents` and `sessions`; `events_raw`, `events` | project a session, receive a hook, sweep, prune | endings are observed, sticky and never lost; inferred states yield to evidence |
| Alerting (`alerts/*`, `db/alerts.ts`) | rules, targets, alert events, deliveries; the pass in flight | sync, evaluate, deliver, retry, stop | one message per subject, throttled, no flood, nothing dropped |
| Realtime hub and stream (`realtime/hub.ts`, `server.ts`) | replay buffer, subscribers, per-stream backlog | publish, subscribe with a last id, reap, close | a frame arrives once or its loss is reported |
| Web client (`apps/web/src/sse.ts`, `views/LiveView.tsx`, `views/live-model.ts`) | last frame id, board, fetch in flight | frame, gap, reconnect, snapshot | the board agrees with the database once quiet |
| Token usage (`db/token-usage.ts`, `packages/core/src/usage`, `cost`) | five rows per message, the rollup, the price table, a memo | collapse, upsert a batch, reprice, prune, summarise | totals do not depend on the order of reads; the rollup and the memo are the ledger |
| Agents and edges (`ingest/normalize-session.ts`, `db/agents.ts`, `db/edges.ts`, core's parser) | parent, outcome cause, edges | normalise what a pass could read, order it, store it | a reading can always be stored, and never forgets |
| Agent graph (`apps/web/src/views/layout/layered.ts`) | none | rank, cycles, places | every agent once, cycles told apart |
| Change feed (`api/queries.ts`, migration 22) | `ingest_seq` stamps, a clock; the client's cursor | stamp, answer a page, chain | nothing is named zero times |
| Tail cache (`corpus/tail-cache.ts`) | an LRU of complete lines per file | read | a cached read equals a full read |
| Retention and backup (`retention/*`, `db/backup.ts`) | the tables, a journal, backup files | back up, prune, receipt, expire, restore | no deletion without a backup and a receipt; a restore is one backup |
| Composition root (`index.ts`) | what is open, armed and awaited; the phase, the trouble and the skips it last logged | boot, replay, poll, close, exit | nothing outlives the database; the log's last word on the corpus is so |
| Reading a session (`corpus/disk-substrate.ts`, `corpus/ingest-corpus.ts`, core's parser) | the reading in progress; the session's rows | list, choose a copy, read its files, refuse or store | what is stored is what the session's own files say, and is not taken back |
| Analysis of a session (`api/substrate-provider.ts`, `api/routes.ts`, core's `cost/*`) | none; the slug stored with a session as a hint, the rejections the watcher holds | find, read, cut by compactions, reprice; the same from stored rows | an answer is true, and both accounts agree |
| Read API and its readers (`api/queries.ts`, `api/routes.ts`, `apps/web/src/views/*`) | none: an answer is one read of the tables | list, detail, tree, events, graph, window; captions and text alternatives | figures sum each message once and agree, a cut answer is called one |
| Migrations (`db/migrations.ts`) | `schema_version` with checksums; the tables they make, the rows they rewrite | open, verify, apply what is pending, serve or refuse | an upgraded database is what a fresh install of its version would be |
| Page (`apps/web/src/token.ts`, `App.tsx`, `TokenScreen.tsx`, `Shell.tsx`, `api.ts`) | the stored token, the session, a wait for a replay, the shell's health and stream state, one view's figures | enter, lock, probe, re-probe, end a session on 401, re-read | a token left behind is announced; no late answer ends another session; a wait ends and is for what the field holds |
| Hook installer (`hooks/install.mjs`) | a settings file that belongs to somebody else | read, merge or remove, back up, replace | foreign entries are kept, ours are there once, what was replaced can be had back |

The server is one Node process: JavaScript runs to completion, and SQLite
commits one transaction at a time, so the concurrency is elsewhere. Transcripts
are written by other processes *while* a tick looks at them; hooks arrive from
background `curl` processes in any order, late, twice or never; a delivery pass
awaits the network between two writes; a request of the page is answered by one
server process and may land after the next has started; an online backup yields between pages;
the operator's `sqlite3` shell commits beside the server; the installer is run by
hand, twice at once if need be; the process may die between any two of these
steps; the browser receives frames and snapshots on two channels. These are the
interleavings the models keep. Components interact through the database
(projection, then rules, rollup and stamps, by triggers), through callbacks
(`onTickOutcome`, `onIngestFailure`), and through the hub's frames.

## 2. Modules

| Module | Models | Checked by | Proved in |
| --- | --- | --- | --- |
| `CorpusWatcher` | watcher, runner, fingerprint, checkpoint, startup replay | `sweep`, `missed` | `CorpusWatcherProofs` |
| `AgentLiveness` | the three writers of the status columns and retention of the hook timeline | `liveness` | `AgentLivenessProofs` |
| `AlertOutbox` | alerting from the config sync to the delivered message | `outbox` | `AlertOutboxProofs` |
| `FrameFeed` | abstract: what the event stream promises a browser tab | `stream` | `EventStreamProofs` |
| `EventStream` | hub, stream route and the tab's event client; implements `FrameFeed` | `stream` | `EventStreamProofs` |
| `LiveBoard` | the live board of the web client over such a feed | `board` | `LiveBoardProofs` |
| `UsageLedger` | usage rows, prices, halt gate, rollup triggers, cost summary and its memo | `ingested`, `reshaped` | `IngestedDataProofs` |
| `RetentionCycle` | backup, prune, receipt, expiry, shutdown, crash, restore | `retention` | `RetentionCycleProofs` |
| `TailCache` | the cache of transcript lines, against a plain full read | `board` | `LiveBoardProofs` |
| `HookInstaller` | the command that edits a shared settings file | `board` | `LiveBoardProofs` |
| `Selection` | pure: what a filter leaves of a list, by rank and without recursion | `board`, `ingested` | `LiveBoardProofs`, `IngestedDataProofs` |
| `ServerLifecycle` | one process: boot, replay, polls, log, close | `outbox` | `AlertOutboxProofs` |
| `TranscriptReading` | from the files of a session to its rows, while they change | `ingested` | `IngestedDataProofs` |
| `CostAnalysis` | the analysis of one session, from its transcripts and from its rows | `sweep`, `hinted` | `CorpusWatcherProofs` |
| `ReadAnswers` | the stored rows, the answers of the read API about them, and what the page says of these | `ingested` | `IngestedDataProofs` |
| `SchemaMigrations` | boots that migrate what earlier builds and the operator left | `liveness` | `AgentLivenessProofs` |
| `ChangeFeed` | ingest stamps, windows, the late list and a chaining client | `changes` | |
| `AgentTree` | from evidence of spawns to parents, edges and causes | `ingested` | `IngestedDataProofs` |
| `DagLayout` | pure: the layered placement of the agent graph | `ingested` | |
| `Dashboard` | the page around the views: token, entry screen, shell, a view that reads once | `dashboard` | `DashboardProofs` |

`MC*` modules give the constants their finite values. Some of them host two
to four models, `MCIngestedData` the ledger, the tree, the reading and the answers, `MCLiveBoard`
the board, the tail cache and the installer, `MCAlertOutbox` the outbox and the life
of the process, `MCCorpusSweep` the watcher and the analysis, `MCAgentLiveness` the
statuses and the migrations of the tables they are in: a behaviour is one of one of
them, chosen initially (`subject`), and the others' variables stand still. Definitions whose comment
ends in "a mutant" are plausible bugs of the definition that follows them: each
property is shown to fail with one of them in place. Type invariants of the
first five state machines and of `Dashboard` are theorems rather than runs. A proof
about a hosted model is in the proof module of its host, over the same `MC*`
module, so that both speak of one formula.

### CorpusWatcher

A tick is synchronous, but it looks at the disk several times, so it is cut
there: `Look` (or `LookNoRoot`, `LookUnreadableRoot`) is `ingestChanged` up to
the runner call; `EnumerateAgain` and `EnumerateAgainFails` are the second
resolution of the root inside `runCorpusIngest`; `ReadWhole`, `ReadFaulted` and
`ProjectionFails` are one session of its loop; `Settle` is `settlePass`, the
re-read schedule, the checkpoint commit and `settleSweep`. Writes, faults,
price edits, lost or replaced roots, a containment halt and a crash may fall
between any two of them.

A transcript is the number of its last write. A fingerprint is that number and
whether every file could be probed, since an unprobeable entry is left out of
the code's string. The pass clock is only ever compared with `dueAt`, so an
entry keeps how many passes are left. `carried` is what the database holds.

Properties: `CheckpointBacked`, `NothingLost`, `FaultForgetsNothing`, and under
fairness `Recovers` and `ComesToRest` (no file costs a full re-read on every
poll, and the replay phase ends; a run states both as `WatcherSettles`); `ExclusionsTruthful` is proved. `crossed`
sets apart sessions a pass checkpointed although its two looks at the root
resolved to two directories, the one way a row can be written for content read
elsewhere.

### AgentLiveness

An action is one transaction, or a handler cut by a crash after one.
`Ingest(m)` is `normalizeSession` and `projectSession` over whatever subset and
prefix of the session's transcripts the pass could read, including the replay
of stored stops for agents it inserted. `ReceiveSubagentStop` is append and
apply; `ReceiveSubagentStopCut` is the same handler dead in between.
`ReceiveStop`, `Sweep`, `SweepCut` and `Prune` are the rest. A firing may name
no session, another session, or the main agent.

Two facts worth knowing when reading the code beside it. The parser always
fills `endedAt`, so the watchdog's arm for a missing stamp is never taken and
is not modelled. And a `Stop` that is delivered before the poll that reads the
last records of its turn is overwritten by 'working' when that poll advances
the anchor; the watchdog resolves the row later (`HonestAtLast`).

### AlertOutbox

`Tick` evaluates the rules and starts a pass unless one is in flight; the pass
takes one row per step, and the send it awaits is a state of its own
(`sending`), so ticks, time, edits and a crash fall in between. `Shutdown`
waits for the pass, `Crash` does not; both boot with an alerts file or without
one. `seen` counts what Telegram took, `ambiguous` those whose answer was lost:
a message accepted but answered by a timeout is retried and arrives twice, a
limit of any sender without an idempotency key, so `ToldOnce` counts it apart.
Every condition on a subject is a member of `met`; `fresh` is "active since
`armed_at`" and `stirred`, which no guard reads, is "active since the rule came
into force". The two part at a boot without a file, which leaves the rule rows as they
are: `NoHistoryFlood` holds while every boot names one, as the boots of the run do; section 5
says what the other boot does. `maxPerMinute` is a constant here, and it bounds rows marked sent.

### EventStream

A frame is its number. `newest`, `subscribers` and `stream` are the server: the
replay buffer is the last `Capacity` numbers, and a stream carries the frames
`next..written`, of which those up to `sent` have left the process, so
`written - sent` and the unsent heartbeats are `raw.writableLength`, counted in
chunks. `link`, `client` and `known` are the tab (`known` is both `lastFrameId`
and the number EventSource sends back). `Publish` and `Subscribe` are one step
each, as the hub's methods are synchronous; a replay goes out in one write, so
nothing of one that overloads its stream leaves. `Breaks` cuts a connection the
server does not notice: the stream stays subscribed until `HangUp` or the
heartbeat removes it. `Restart` begins a new numbering, and the tab may still
read what the old process had sent (`outlived`).

`FrameFeed` is the promise: a frame is heard at most once and in order, and
from the first frame heard of a process, whatever is passed over is reported.
The mapping is `published <- newest`; `heard`, `received` and `reported` are
history variables of the tab, kept for the current process, because a frame
number means nothing across a restart.

With a bound smaller than the replay, a tab would be reaped on every attempt to
resume; `CatchesUp` therefore asks only for tails that fit (`ReplayFits`), as the
default 256 frames do in the default 1 MiB. The run has bounds of that kind, so
that gaps happen; reaping from inside a replay is left to the proof.

### LiveBoard

The board keeps the bucket counts of a session and two sources for them: frames
(`Takes`, the stream handlers of `LiveView` with `applyAgentStatusChange`) and
snapshot reads (`Fetches`, `Answers`, `Lands`, `FetchFails`). They travel on two
connections, so a read may be answered before a transition and land after its
frame, or the other way round. The stream below is `EventStream` reduced to what
it is shown to provide: frames in order, each once, and on reconnecting a start
anywhere after the last one taken, with a gap reported, or, across a restart,
not. `Moves` is a row and its frame in one step: hook handler, sweep and
projection publish before the event loop turns, so no request is answered in
between. `Projected` is a session read again: any agent may change with no
frame but `session-ingested`.

`BoardCurrent` says that when nothing is under way any more, the counts are the
database's. It sets two states apart. A frame whose transition the snapshot had
already counted is applied twice (`restated`), which `live-model.ts` documents
and leaves to the next read. And frames from before the tab's first connection
(`unheard`) are a known limit (section 5). `NoticeTruthful` is about the banner:
a read said to cover a gap contains every frame of it.

### UsageLedger

`AppendRecord` grows a transcript; `IngestSession` is one pass over it: `dedupe` collapses
the records of a message (an independent maximum per bucket, the two cache-write
buckets as a pair, the label of the record that settled last), the halt gate
prices the session before anything is stored, and the upsert writes five rows per
message or, when another session owns the message, none. The triggers of
migration 16 run inside `IngestSession`, the retention delete and the operator's price
edits, in the order their bodies have, so `RollupExact` compares what they leave
with a grouped scan. A summary read is `ReadSummary`: it may be answered from the memo,
whose key is the connection's own changes, other connections' commits and the
price table. An instant is the pair of wall clock and zone it is spelled with,
since SQLite compares spellings and core compares instants.

`ReproducesDedupe`, `RollupExact` and `SummaryFresh` chain (`ReproducesMessages` and
`ServedFresh` in the run): the five rows of a
message are what a single read of the whole transcript would give, the rollup is their sum under the prices of now, and what
the API answers is that sum.

### RetentionCycle

A row of `events` is its day, a backup file the day its cycle began, and a
database an image with a write-ahead log that is replayed into whatever image
lies beside it. `StartBackup` to `EndCycle` are the cycle; only a backup in
progress yields to the event loop, so only it is interleaved with inserts and
with `Stop`. A failing write, commit or death falls between any two steps.
`ClearStaged` to `Swap` are `restoreDatabase`, run by hand while the server is
down and killed anywhere.

The properties are what an operator relies on: a row goes only when the backup of
the same cycle holds it (`PrunedIsKept`) and after its receipt (`ReceiptWritten`),
one complete backup survives every expiry (`BackupSurvives`, proved only), and the database is
the old one until it is exactly one backup (`RestoreExact`).

### TailCache

A file is a sequence of bytes with a modification time; a wide character is two
of them, because the promise is about decoded text. `BeginRead` opens a file from the
cached offset, `ReadTail` compares the overlap and returns, `StartOver` diverges
and opens again, `ReadWhole` is a read from the first byte; `Change` is the writer
of the file, between calls and inside one.
`ReadsTheFile` is the refinement of a full read, stated for calls whose file
stood still (`calm`), with every earlier change, eviction and fault behind them.
Three blind spots are set apart (`Excused`): a rewrite that also grew the file,
one of the same size in the same granule of the clock, both named by the code,
and one it does not name, a rewrite of the complete lines that also shrinks the
file, but only inside its torn last line.

### HookInstaller

A run is a process that reads the settings, computes them anew, compares, copies
a backup, writes a temporary sibling and renames it; the owner of the file and
other runs come between any two steps. A command is one of two generated values,
a foreign one, or one that is ambiguous and makes the run refuse. `Recoverable`
is about the backups, `LeftAsAsked` about what a run leaves: the hooks asked for
once each, and everything foreign as it was. A run that replaces a file somebody wrote after it was copied loses
that write: the installer takes no lock, and the properties speak of what the
run read. `PruneEventEntries` filters the entries of an event and then the commands of each
(`Kept` of `Selection`).

### ServerLifecycle

A step is what runs between two awaits. `Configure` to `Listen` are `start` in its
order, `BootThrows` a throw with nothing to close yet, `BootFails` one that closes
what was opened; `BeginClose`, `StopTimers` and `CloseDatabase` are `close`. Ticks of
the alerts and the send they await, backups and streams come between any two.
`ClosedQuietly`: nothing is armed or awaited that would use a closed database, a
backup apart, which is told so and ends (`RetentionCycle`).

A pass over the corpus is one step with its outcome. Only changes are logged, and by
three writers: the replay (`ReplayPass`), the polls (`Poll`) and the end of a phase
that a read error left open. `OperatorTold`: the last line is what the last pass
found, and a transcript that is declined was named not long ago.

### TranscriptReading

A reading is `Begin`, `ReadMain`, `ListDir` and one `ReadPart` per file, then `Store`,
`Refuse` or `Nothing`; the writer appends, and the user copies, removes and hides
files, between any two of them. A line is what the parser makes of it: whether it
is JSON, the session and agent it names, its instant, its usage. `ReadTruly` compares
what a session that was left alone since its reading began is stored as with a
definition over its files; its part of `NothingTakenBack` says a later reading, of
another copy or of less of it, only adds.

### CostAnalysis

`Ask` is the route up to the choice of a copy: by the slug stored with the session
(`Hinted`), then by a listing (`Enumerated`); `Analyse` reads and answers. `Ingest`
stores what a pass over the copy a listing chooses would. `AnswerHonest`: an answer is
true of the corpus as it is, in particular "not found". `FiguresAgree`: the segments
cut by compactions hold every message once and add up to the session's cost, and the
sums from stored rows are those of the transcripts. Two messages of one agent
that share its largest output and name two models are set apart (`Tied`):
`settledModel` takes the first of them, in the order of the transcript there and of
their ids here.

### ReadAnswers

`ProjectSession`, `Prune` and `Hook` are the writers, cut down to the columns the
queries read: a session or an agent widens its span by `earlierInstantSql` and
`laterInstantSql`, which prefer anything to NULL and an instant to a text that is none;
an agent and a message stay with the session that was first to store them, so a
message may name an agent of another session, and an edge one that is not stored.
`Stored` holds the databases of earlier versions, whose texts need not be instants.
The queries are functions of these tables. A figure is the set of messages
it sums, so that two figures agree when the sets do. `Page` is ORDER BY, LIMIT and
OFFSET by the number of rows ahead; `Boundary`, `Within` and `ChangeKind` are the
window of `computeChanges`, `Possible` what `assertChangesInvariants` refuses
with a 500. `ListCaption`, `TreePanel`, `DagCaption`, `Burners`,
`ChangesResult` and `Description` are what the views say, and leave unsaid, of an
answer; the data guards and the counts that no server sends are left out.

`ReadsAgree` has five parts. `FiguresAddUp`: sessions, models and agents with the
unattributed rest each split what was spent. `GraphAgrees`: a node shows what the
tree of its session shows; a graph, or a ranking made from it, passes for whole
only when it is. `WindowAgrees`: no window is refused, its rows and what lies
outside them split what was added, and over all time nothing but what is counted as
undated is missing. `PagesTurn`: pages of a list at rest overlap nowhere and go back
in time nowhere. `PageTruthful`: a caption that claims no cut is right, the text alternative of
a picture tells of each gap its caption tells of, and a window whose rows are let to
add up does so. Pages of a list that changes between two requests do overlap;
nothing in the code says otherwise.

### ChangeFeed

`Learn` is any transaction that makes the database know something new of a
session; migration 22's triggers give the session the next stamp in it. `Ask` and
`Turn` are one answer each, computed in one read transaction, to the client the
schema describes: it pages a window of instants and chains with the cursor it was
handed. `ToldAtLast` says a client that keeps asking misses nothing, whatever
was ingested, of whatever age, between and during its requests.
A restore turns the clock back. The next answer hands out the smaller clock, so
everything stamped afterwards is found; what is stamped between the restore and
that answer, at or below the old cursor, is named to nobody (`Hidden`).

### SchemaMigrations

A boot is cut where another process can come between: after the recorded rows
were read (`Boot`), after each checksum that is compared or, for a row from before
checksums, adopted (`Verify`), after the pending ones were listed (`Plan`), and
after every migration, which is one transaction with its record (`Apply`). `Throw`
ends the boot: a changed text, rows a migration refuses to guess about, or a
record another process wrote first. `Up` is what a migration does to rows; those
that only make tables are kept as the fact that each is made once
(`Structural`). The operator writes and mends the price table throughout, and
`asked` remembers the rates that no migration has taken over since.

`UpgradedAsFresh` says the way does not matter: wherever a database came from,
the rates from the floor on are those of the last migration that shipped them or the
operator's later ones, every instant has one spelling, usage belongs to its main
agent, stamps are distinct and the clock is ahead of them, and a process serves
only on migrations that still read as they did when they were applied. `Install`
waits for boots to end: a build that lists more than the running one is always
met by a fresh boot. That a second process also adds the checksum column is a
death of the one that loses.

`Configured` is what an instance has to satisfy. The list grows at its end
(`assertOrdered`), so what a build lists and what a database has are beginnings of it
(`Beginning`); an instance may leave out migrations, never 7, 11 or 14, on whose rows
later ones rest. The checksums came with migration 11 (`docs/analysis/impl-review-2026-08-09.md:77`),
so what a build without them left ends before it and holds what migration 7 seeded in one of
its two texts. Rates the operator wrote before are not in what is left; he writes
them from migration 7 on while the processes boot.

### AgentTree and DagLayout

`shape` is how each subagent was spawned and `evidence` what transcripts still
tell of it: lines are written and evicted, and a pass reads any subset of the
transcripts. `Normalized` resolves spawners the way the parser does, cuts cycles
and orders the rows so that the self-referencing key holds; `Pass` stores what
one reading gave by `Upserted`, the upsert with its COALESCE: a reading has one row of
each agent (a part of `TreeKept`), so the statements that follow one another are one
function of the rows. `TreeKept` speaks of every subset of the transcripts in every
state, and `Remembered`, the tree's part of `NothingTakenBack`, of the rows over passes. The queue of `TopoOrder` is the function
of how many of its members were taken. `DagLayout` is the placement the web client
computes of what is served, and `DrawnTruly` compares it with the definition: a cycle
is mutual reachability, below a cycle is reachability from one.

### Dashboard

The page has one thread, so an event handler, an effect and the code after an
`await` are one step each. Between them come the user (`Edit`, `Submit`, `Lock`,
`Recheck`, `ViewReads`, `Reload`), the server (`Crash`, `Boot` into a replay and
perhaps with another token, `Drained`), the stream, and the storage, which may
begin to refuse reads, deletes or writes, or to ignore writes (`StoreTurns`).
`Answer` is the server's side of one request and fixes what it will say;
`SubmitLands`, `ProbeLands` and `ReadLands` are the code after the await, later. An
effect's cleanup aborts its request, which is `Superseded`. `store`, `session`,
`screen` and `shell` are the states of `token.ts`, `App`, `TokenScreen` and `Shell`;
`submits` are the calls of `handleSubmit` that have not returned, each with the
`waitRef` it captured. `figures` names the start of the server whose data a view
that fetches once shows, and whether it was replaying; `heard`, a history
variable, the replays this shell was told of.

`ScreenTruthful` has three parts, of which `EraseTold` says that a token that outlives
its session is announced; `WaitForField`, that busy means that one live call will
answer for what the field holds; `NothingHidden`, that a dead stream stays in the chip
whatever the probe says, and figures of a replay the shell heard of are either excused
or being read again. `EndedForCause`: a session is rejected only by a 401 to a request
that carried its token.
`WaitEnds`: a wait ends. A replay that began and ended between two probes is never
heard of, and figures read meanwhile stay partial without a word; the property
leaves that case out, as nothing in the page can know it. The stream is refused for good
(`StreamFatal`) by the 401 of a changed token, or by any other answer than 200, which is
a fault. Left out besides: the
wording of a verdict, the count of failed attempts, and the views' own
parameters; tokens differ in nothing but their names, so the server's first is
fixed.

## 3. Runs

| Run | Bounds | Shows |
| --- | --- | --- |
| `sweep` | watcher: 1 root, 2 sessions in 2 slugs, 2 prices, cap 1, budget 2, back-off cap 2, 2 writes each, 2 disturbances; analysis: 2 slugs, 6 transcripts, 2 models named or none, 5 moves | safety and liveness of sweeps that span passes; answers are true and both accounts agree |
| `hinted` | the analysis of `sweep` | **finding**: a hint decides the answer |
| `missed` | as `sweep` | **finding**: content lost behind a committed fingerprint |
| `liveness` | statuses: 1 session, main agent and subagent, 3 instants, 2 hooks; migrations: 3 builds, 3 earlier databases, 9 migrations, 2 processes, 2 boots, 2 edits, 1 ingest | every order of projection, hooks, sweep, prune, crash; every way to a version ends in the same database |
| `outbox` | 1 rule, 2 subjects, 2 targets, 3 files, 3 attempts, 1 message per window, 1 event per pass, batch 2, 3 disturbances; process: 2 transcripts, silence of 3 passes | exactly-once, throttle, settlement, reporting; nothing outlives the database, the log is so |
| `stream` | 2 connections, 4 frames, buffer 2, backlog 2, 2 stalls or cuts, 1 restart | refinement of `FrameFeed`, backlog bound, abandoned peers dropped, tabs catch up |
| `board` | board: 2 agents, 2 statuses, 3 frames, 1 cut connection or failed read; cache: 2 files, 8 contents, overlap 2, 2 entries, 16 bytes, 2 changes; installer: 2 processes, 3 runs, 1 edit, 5 contents, 1 millisecond | a settled board is current, notices are truthful; cached read = full read; nothing foreign lost, nothing installed twice, everything recoverable |
| `ingested` | ledger: 2 sessions sharing a message, 2 messages, 2 models, 2 edits; reading: 2 slugs, 2 sessions, 1 subagent, 3 changes, a cap of 2 lines; tree: 3 subagents in 3 shapes, 2 lines written or evicted; answers: 2 sessions that share an agent and a message, 3 agents, 4 messages, 3 instants, 3 writes, pages of 1 and 3 | rows, rollup and summary are what a scan of the records gives; readings can be stored and are remembered, the drawing is true; the answers agree and are captioned truly |
| `retention` | 3 days, 1 row per pass, 2 restores, 1 fault | deletions are receipted and backed up, a restore is exact |
| `changes` | 2 sessions, pages of 1, 2 instants, 4 stamps, 1 restore | nothing is named zero times |
| `dashboard` | 2 tokens, 2 starts of the server, 4 acts, 1 turn of the storage, 1 fault | the page tells of what it could not erase, ends no wrong session, and its waits end |
| `reshaped` | the ledger of `ingested`, 1 message whose second record splits the cache write | **finding**: a re-read adds a second account of one write |

Why the bounds suffice: a cap of one over two sessions is the smallest sweep
that needs a continuation, a budget of two the smallest with a failure that is
not yet quarantine, a back-off cap of two the smallest that doubles and stops.
Two disturbances let a fault come and go. Three attempts separate the first
back-off, the doubled one and the give-up. Four frames over a buffer of two are
the fewest that leave it while a tab is away and still make a gap, and two
connections let one be left behind while the other resumes. Three frames let a
transition fall before a read, one during it and one during the read that
follows; two agents can trade buckets, which counts alone do not show. Two
sessions and a message with a transient label before its settled record are the
fewest that collide and that re-label a row; two edits let a price come and be
corrected, or a row be pruned between. One row and one file per pass over three
days make every limit bite. An overlap of two is shorter than a line, and sixteen
bytes hold one large entry or two small ones. Two runs of three may overlap in
one millisecond and take the same backup name. Pages of one over two sessions cap
both lists. Nine migrations are the eight that change rows, or ship prices in each of
the ways they are shipped, and one that only makes tables; two boots are the fewest that overlap, or
that upgrade after a death. Three subagents are the fewest with a cycle and one below it.
A page of one cuts every list of two and a page of three none, for sessions as for agents; three writes let
two sessions claim one agent and one message and the first re-label its own. Four acts
enter a token, lock, and enter another; two starts put a replay after a session
that began before it.
Disturbances are bounded because a liveness property speaks of what happens once
they stop; the theorems below hold for any bound.

Deadlock is checked except in `liveness`, where the clock reaches its bound with
nothing left to read, in `board`, where frames, changes and runs run out, in
`hinted`, where the user's moves do, and in `dashboard`, where the user's acts
do: the model ends there, not the program. `board` declares the agents, files and
processes symmetric: no property of it names one, and none is under fairness.

### Fairness

- `CorpusWatcher`: `WF(Tick)`. The interval timer keeps firing and a tick, once
  begun, is synchronous. Nothing is assumed of writers, faults or restarts.
- `AgentLiveness`: `WF(ClockTicks)` and `WF(Sweep)`. Time passes and the sweep
  ends every tick. No hook is assumed to arrive, no transcript to be read.
- `AlertOutbox`: `WF(Tick)`, `WF(Pass)`, `WF(TimePasses)`. The timer fires, and
  the sink bounds every send with a timeout, so an awaited send is answered.
- `EventStream`: `WF` on the heartbeat and the flush of every stream, on
  subscribing (EventSource retries by itself), on opening, on taking a frame and
  on noticing a connection the server has closed. No close event is assumed to
  reach the server, and a stalled tab is not assumed to read again.
- `LiveBoard`: `WF` on starting, answering and landing a read, on connecting,
  opening and taking a frame. Nobody is assumed to press Retry.
- `Dashboard`: `WF` of `Boot`, `Drained`, `Answer` and the page's own
  continuations and timers. A server that is down is started again, a replay ends
  (`ComesToRest` above), a request is answered or fails. Nothing is assumed of the
  user, and no stream is assumed to open.
- `ChangeFeed`: `WF(Ask \/ Turn)`. A client that chains keeps asking; nothing is
  assumed of the database.
- The other modules are checked for safety only and assume nothing.

### Findings

`missed`: `corpus/fingerprint.ts:23-24` says an unreadable entry costs a
re-ingest, never content. If the main transcript's probe fails only while the
runner enumerates for itself, the session is admitted, not returned, not failed
and not incomplete; `settlePass` commits its fingerprint and nothing re-reads it
until its bytes change. It is not checkpointed, so a restart repairs it.

`hinted`: `api/substrate-provider.ts:283-284` says "the hint can only ever cost a
lookup its speed, never its answer". A session stored under a directory that cannot
be probed any more is answered 503 without a listing, although another directory
holds a copy a listing finds; and a copy at the hint is analysed although a listing
would choose another, which the next pass stores.

`reshaped`: `db/token-usage.ts:13-16` says the upsert "reproduces, in storage, exactly
what `dedupeUsageByMessageId` computes in memory over the complete file". The upsert
takes the maximum of every bucket (`token-usage.ts:212`), dedupe moves the two
cache-write buckets as a pair (`packages/core/src/usage/dedupe.ts:157-165`). A message
read while it reports a flat cache write, and again once a record splits that write
between the two buckets, keeps the old 5m count beside the new 1h one: more
written than any record reports, and priced so. The `ingested` run therefore has
records of one message agree on the split, the hypothesis `SplitSteady` of the
theorem below.

## 4. Proofs

All theorems hold for every value of the constants that satisfies the named
assumption of the module (`ConstantsAssumption`, `LivenessAssumption`,
`OutboxAssumption`, `StreamAssumption`,
`BoardAssumption`, `PolicyAssumption`, `PageAssumption`, `ProjectsAssumption`,
`LedgerAssumption`, `ReadingAssumption`, `AnswersAssumption`, `TranscriptsAssumption`), which
TLC evaluates in the runs. The last says what parsing leaves of a transcript: each message
once, of the main agent or of one that has a row, and rates that are whole numbers or none.

`CorpusWatcherProofs` proves `TypeOK`. It is inductive only with the bounds of
the fields of budgets and schedules, and with `refs`, `todo`, `projected`,
`failures` and `incomplete` inside `changed`. The safety proof strengthens
it: the database never holds a later write than the disk saw (`DiskOrdered`);
a pass in flight belongs to the root the watcher hydrated from and captured
fingerprints no newer than the disk (`PassBacked`); a session the pass has read
without failure or hole is carried at least up to its captured fingerprint, or
that write left nothing to ingest (`ReadBacked`); and a committed fingerprint
with neither a budget nor a schedule is covered the same way (`MemoryBacked`).
The delicate step is `Settle`, where
every combination of failed, incomplete, projected and missed has to land on
the right side; `Restart` is next, since what was persisted must justify what
the next process adopts. `CheckpointBacked`, `NothingLost`,
`ExclusionsTruthful` and `FaultForgetsNothing` follow. `WatchesAlone` carries them to
the run's specification, in which the watcher shares its variables with the analysis.
`AnswersAreHonest` proves `AnswerHonest` of the analysis for any corpus: an answer is
fixed in the step that reads, so what has to be kept until then is that a slug
chosen in an undisturbed lookup is still readable (`LookupStands`).
`AccountsAgree` proves `FiguresAgree`, for any transcripts, rates and moves. A sum over a
finite set does not depend on the order it is taken in (`SumsSay`), so it can be taken part
by part (`SplitSum`) or over other names of the same things (`Renamed`), by complete
induction on the size of the set (`SizeInduction`, of which the set is the parameter and
no operator is). Ranks in a total order list a finite set (`Ranking`), which says what
`Kept`, `Nth` and `ByTime` hold. A message is in the segment of as many resets as its
transcript has at or before it (`SegmentIs`), so each is in one segment, and the parts
reconcile (`PartsReconcile`). For the rows, the invariant is that what is stored of a session that
only grew is the version last read (`RowTold`); `Reconstructed` then retells every message
(`ToldAgain`), and two lists of the same messages have one cost, one settled model unless
`Tied`, one top tier and one saving (`SameCost`, `SameSettled`, `SameTier`, `SameSavings`).

`AgentLivenessProofs` proves `TypeOK`, `StopHeard`, `CompletedObserved`,
`UnknownMeansSilent` and `AnchorsAgree` of one inductive invariant, and
`EndingsStick` as an action property. `StopHeard` needs that a stop which is
stored, not pruned and whose agent has no row is still in the timeline.

`UpgradedIsFresh` of the same module is `UpgradedAsFresh`, for any builds, databases,
processes and rates that are `Configured`, any number of boots, edits and ingests. That
recorded migrations are a beginning of the list (`Recorded`) is what makes a pending one the next:
the smallest a process has yet to apply comes after all that are recorded, or is
recorded and its insert fails (`AppliedInOrder`), so each migration is proved to keep the
invariant only of rows its predecessors left. A process that verified may be overtaken by
one that adopts a checksum or applies a migration, but both are of the build installed
(`Booting`), so what it verified still reads as its own text; once it is up that stays
so when the build on disk changes (`Serving`). A rate at the floor is one the operator asked
for or the last that was shipped, before migration 11 the seed's (`Priced`): the clause for the
time before is what 11 needs to know which rows it may take over, and from 14 on a spelling is the
canonical one, so that no second row stands at an instant. From 22 on
the stamps are distinct and at most the clock (`Stamps`).

`AlertOutboxProofs` proves `TypeOK`, `ToldOnce` and `PassHoldsPending` of an
invariant that adds `Tries`: a pending row has been tried fewer than
`MaxAttempts` times, which is what keeps `RetryDelay` inside its domain.
`WindowIsKept` proves `WindowKept` with no more than that invariant, that the rows
sent in the window and those the pass in flight may still send are together within
the limit (`WindowClaimed`: the budget is counted once a pass, and one pass at a time
spends it), and that what is being sent is of a target served (`SendsServed`).
`WindowIsKeptBeside` is the same of the outbox inside its process, and
`ClosesQuietly` and `OperatorIsTold` are of that process. For the first, what is
armed or awaited is listed against the phase that armed it (`Armed`), whichever step of
a boot throws; for the second, the trouble remembered is the one the last
pass found (`Remembers`), and what is remembered of a declined transcript is the
age of the line that was printed, below a silence (`Named`).
`NoFloodWhileNamed` proves `NoHistoryFlood` under `AlertingNamed` (no boot
without a file), which is also the run's instance; section 5 says what the other
boot does.

`EventStreamProofs` proves `TypeOK` and `BacklogBounded`, that `Spec` implements
`FrameFeed` (`StreamKeepsFeed`), and what that is worth (`ReportsAreExact`:
nothing reported missing is ever heard, and nothing between the first frame
accounted for and the last is unaccounted for). The invariant behind the
refinement is `LinkAhead`: what the tab will take next on a stream of this
process was published by it and lies after everything heard. A `Subscribe`
keeps it because the number the browser sends is the last one heard whenever
this process was heard at all (`HeardIsKnown`).

`LiveBoardProofs` proves `TypeOK`, whose content is that a patch never makes a
bucket negative (`Supports` is what it takes), and `NoticeTruthful`. The latter
needs that no snapshot, on screen or in flight, claims an observation that has
not been made (`CoversBacked`): a new gap is then covered by nothing there is.
`BoardIsCurrent` proves `BoardCurrent`. Its invariant says what a board that has taken
the frames up to k shows: for each agent, where the *next* frame about it says it
comes from, or its row if there is none (`At`). So a board under way is described
by the rest of the log, and a settled one by the database. The log is consistent
in this sense (`Chained`) and an answer still on its way is (`AnswerAccurate`),
until a session is projected again, whose frame is then among the rest.
`ReplacedIsRecoverable` proves `Recoverable` of the installer, for any number of runs and
any edits between their steps: a run past its copy whose input is still the file
has that file among the backups (`CopiedFirst`).
`HooksLeftAsAsked` proves `LeftAsAsked`. A run past its comparison carries what its transform
makes of what it read, and so does its temporary file from `Fill` to `Rename`, as nobody
else writes that name (`AskedInv`); the rest is about the transform. Filtering keeps order,
since a place is found by its rank among those kept (`NthPlace`, `PlaceOfRank`), so
that pruning leaves a list with none of our commands alone (`PrunedClean`), takes an
entry of ours off its end (`PrunedWithOurs`) and does nothing the second time
(`PrunedAgain`). It holds for any commands and events; what the owner
writes is a member of `Written`.

`CachedReadIsFullRead` proves `ReadsTheFile` of the tail cache for any files, bytes, budgets
and overlap window, and any interleaving of writers, faults and evictions. Its inductive
invariant (`CacheInv`) ties every entry to the bytes the last answer for its file
was made of: it is the decoded complete lines of these, with their length and their last bytes
(`HoldsLines`). Decoding may be cut behind a line's end, since no character spans it
(`DecodeSplit`), complete lines joined to complete lines are complete (`LinesJoin`), and the
window of a window with more behind it is the window of the whole (`WindowAgain`), so
`ReadTail` keeps it whatever the file was meanwhile. A file that stood still and gave
no signal begins with the known lines (`NotRewritten`, where the three blind spots
are needed and no other), so the old lines and the new bytes are the file (`CalmTail`).
That eviction keeps an end of the list is `StoreHolds`; how much goes does not matter.
That a line's end is no part of a wide character is an assumption on the constants
(`Configured`; in UTF-8 a byte below 0x80 is a character).

`IngestedDataProofs` proves `DedupeGrows` (reading more of a transcript names the same
messages or more, and takes no bucket of any of them down, provided that no record counts
less in a cache-write bucket than an earlier one of its message) and
`UpsertConverges`: `ReproducesMessages` for any
transcripts, forks, orders of reading and repeated readings. Its hypotheses are
`SplitSteady`, that proviso, without which it is false (`reshaped`), and `NeverPruned`:
`signedRetentionPolicy` has no rule on `token_usage` (`retention/policy.ts:4-11`).
A rule that cut a message between its rows would refute it too: the rows that are left
would be raised by the next reading, the others owned by whichever session came first.
The invariant adds that a session is read up to a point of what was written, and that
a message is stored in its five rows by one session (`StoredWhole`). `dedupe` is
defined over sets of line numbers, so the greatest and the first of
them are reached by the well-foundedness of the numbers (`LeastNumber`), not by an
induction over the transcript.

`ServedExactly` of the same module is `ServedFresh`, for any transcripts, any edits of
prices and any retention runs: the rollup is the grouped scan of the ledger, and the answer,
from the memo or not, is the summary of a scan. The inductive invariant (`FreshBody`)
adds to the two that rows are finitely many, counted and dated in UTC (`LedgerTyped`),
that rates are dated in their canonical spelling (`PricesTyped`; this is what makes order by text
and order by instant one, `RateOfGroup`), and that a memo nothing moved since is the scan
(`MemoFresh`). While a trigger body runs, the rollup is the scan but for a group that may have no
rows left (`Loose`); `LooseInsert`, `LooseDelete` and `LooseEmptied` are its three
statements, and `TriggeredExactly` and `PrunedExactly` add up those of a whole write or
retention run. A rebuild needs the rollup to be right outside its slice only
(`RecomputedExactly`), so the order of the trigger that rewrites a date and of
the one that rebuilds does not matter. That a summary of groups is a summary of
rows (`SummariesAgree`) is that a sum can be taken group by group (`WeighedByGroup`), since
what one token adds depends on the group alone. A fold over a set is defined by a
choice, so what it yields is first shown to exist and then, by complete
induction on the size of the parts of the set (`SizeInduction`, on the well-foundedness of the
numbers), to be the only one (`SumsSay`). No hypothesis is needed beyond
`LedgerAssumption`: rates an operator writes are numbers, usable or not, the dates he
writes have a wall clock and a zone, and `None` is no number.

The same module proves `ReadsTruly` and `ReadingsOnlyWiden` of `TranscriptReading`,
for any sessions, directories, agents, cap and lines. The invariant of the first
(`RBody`) says what a reading under way has got from files that rested since it began:
of the parts it looked at, exactly those that can be read now (`ReadingFaithful`);
its end then compares what was parsed with the same files (`RefusedIs` in both
directions: what is refused contradicts itself or its file's name, and what is not does not;
`ToldIs`: every line is within what is stored). Whatever happens to the files
of other sessions leaves those of this one resting (`Rests`). For the second, that merging
only widens is the lemma `MergedIsKept`. The number of lines left out is no maximum
when a reading is not partial: it is what that reading met. So the invariant (`GBody`) keeps,
behind every stored row, a set of as many lines that are still in the files
(`Counted`), and of which a reading under way has met those in the parts it looked
at, unless the cap kept it from them (`Reread`): its own count is no smaller. Both assume
that `None` is no record (`NoneIsNoReading`, `NoneIsNoRow`), which for a model value is so.

`NothingIsForgotten` of the same module is `Remembered`, for any spawns, lines and
readings: a row of agents is only ever coalesced with what a reading says, whatever
the order and the parents that reading came to, and an outcome has one value
(`Ended`), so a later one cannot differ from it. With `ReadingsOnlyWiden` it makes
`NothingIsTakenBack`, which is `NothingTakenBack`.

`ReadingsAreStored` of the same module is `TreeKept`, for any number of agents, however they
were spawned and whichever of their transcripts a reading has. What it needs of a state is
its type; the argument is about the order of the rows. A queue that has taken k of its members
lists nobody twice, has everybody who hangs on one of these and nobody ahead of his own
spawner (`IsQueue`, kept by `QueueTakes`). At its end it is followed by those it did not
reach, and the spawner of each of these is one of them (`Ordered`). Hence an
agent whose line of spawners ends was reached, and its spawner before it (`CyclesClimb`:
the line of the others never ends); and the member of a cycle that is listed last
has its spawner ahead of it, so that this link is kept (`CyclesLink`). That no agent is
its own spawner (`SpawnerIs`) is `foreignOwner` of the parser: without it a ring of one would
lose its only link. `TopoOrder` and `Climb` are functions of a count, and that
there are such functions is `StepsUp`.

`AnswersAgree` of the same module is `ReadsAgree`, for any tables that are well formed, any
passes over them, any page sizes and offsets. The answers are functions of the
state, so the inductive invariant is its `TypeOK` (an agent and a message name a
stored session, edges name anything) and the rest is about the queries: the rows
ahead of a row number its place, so that places are distinct and a page holds no
more rows than it has places (`Placed`, `Paged`, by an injection into an interval); a graph of
as many nodes as there are agents has them all, since one set lies within the other
(`GraphIs`); no instant lies beyond the upper end of the window (`Newest`); and what a
caption concludes from two counts follows from the same inclusions (`ListSaid`,
`TreeSaid`, `GraphSaid`, `WindowSaid`).

`RetentionCycleProofs` proves `TypeOK`, `ReceiptWritten`, `BackupSurvives`,
`PrunedIsKept` and `RestoreExact` for any policy, days, faults and restores. The
argument is who may touch what: a cycle needs a live server and a restore a dead
one (`Apart`), so the database a backup copied stands still until the rows are
gone (`CycleBacked`), and the backup a restore copied stands still until the swap
(`StagedBacked`). The file of a cycle is no older than the cycle and a rule is a
day at least, so no pass unlinks its own backup (`JobSpared`), which is what
`BackupSurvives` rests on; `KeepMinimum` alone would not do, as it counts files of
cycles that died.

`DashboardProofs` proves `TypeOK`, the three parts of `ScreenTruthful` (`EraseTold`,
`WaitForField`, `NothingHidden`) and the action property `EndedForCause` of one invariant in four parts beside the
types: every request of a shell carries its session's token and there is none without
a session (`Pages`); a session with a token carries no notice (`Notices`); no call of
`handleSubmit` is of a wait that has not begun (`Waits`); and the one probe that is out
speaks of a start of the server no later than the present one, so that once the
shell says anything but 'replaying', every replay it heard of is over (`Replays`).
`ScreenIsTruthful` is the three parts as the run states them.

Model-checked only:

- what is under fairness (`WatcherSettles`, `HonestAtLast`, `AllTold`, `PeersServed`,
  `ToldAtLast`, `WaitEnds`), since the prover has no rule for `ENABLED`;
- `DrawnTruly`, whose layout ranks by a queue and finds cycles by a recursive depth-first
  search: its reference is a closure, and that the search comes to it is an induction over
  the graph it walks.

## 5. Not modelled, and known limits

Not modelled: the text of a transcript and what the parser makes of it beyond
spawns and usage records; the wording of reasons, receipts and log lines; the
lexer that drops comments and layout before a migration's checksum; the status of an agent id shared by two sessions (its figures are in `ReadAnswers`); a rule whose `kind` changes
and an unresolvable token (both refuse to boot); waves, which read and store nothing; authentication, static
files, configuration, rendering beyond what `ReadAnswers` and `DagLayout` say of it,
redaction, the groupings of the cost summary, the
test fixtures, the benchmark and the repository's scripts, which keep no protocol
state.

Limits of the program met while modelling, which no run asks about:

- A session committed earlier whose scheduled re-read fails keeps its committed
  fingerprint and loses its schedule, so it waits for its next write, although
  `ingest/corpus-watcher.ts:36-37` has a failed session retried on the next tick.
  `Recovers` sets this state apart (`Parked`).
- A subagent's activity sets its session to 'working' after the main agent was
  aged to 'unknown', and nothing resolves that session again; compare
  `db/sessions.ts:109-110`.
- A process that boots with no alerts file leaves the rules of the earlier one enabled, and
  the file, once named again, finds none to re-arm (`db/alerts.ts:100-103`): a subject
  active only while alerting was off is reported; compare `alerts/rules-engine.ts:17-22`.
- A tab that resumes over a restart with a number the new process has passed
  misses frames without a reported gap (`realtime/hub.ts:96-103` describes it;
  `apps/web/src/sse.ts:27-28` expects the report).
- A transition published after the first snapshot and before the first
  connection is shown by neither (`LiveView.tsx:414`).
- Readings that each skip transcripts can store a cycle of parents, since
  COALESCE keeps what earlier ones found: a ring of three read pairwise. The
  estimator's walk has a guard and the layout names cycles.
- In one reading, `ingest/normalize-session.ts:195-196` says a cycle is cut "at exactly one
  point". The loop that follows (`:294-298`) leaves out every parent that has no row yet, so
  of three agents that name each other in the order they are listed only the last keeps its
  parent. The pair of the unit test loses one. No agent is lost and the edges keep all three;
  `TreeKept` asks that a part of every cycle is kept.
- A reading that finds a transcript of a subagent over the cap counts fewer lines as
  left out than an earlier one did, although the session is not marked partial
  (`NothingTakenBack` asks for it only under the cap).
- A project directory that is renamed, with its files' bytes and times kept, leaves
  the old slug stored until a transcript is written again; the analysis then falls
  back to a listing.

## 6. What could follow

1. A proof of what the search for cycles of `DagLayout` finds.
2. The web client's cost tables against the summary they are given.
3. Compositions: the watcher's settled projection feeding the alert rules, and
   the tail cache under the watcher's second look.
