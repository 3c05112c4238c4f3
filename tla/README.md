# semidx in TLA+

semidx indexes source trees for semantic search.  It runs as a standalone command line tool on
a SQLite file, or as a server on PostgreSQL that takes pushed files, clones repositories and
runs durable indexing jobs; both chunk and embed the same way and keep the same tables.  This
directory holds TLA+ specifications of the parts whose correctness depends on the order in
which things happen or on boundaries a test hardly reaches, the TLC configurations that check
small instances of them, and proofs that TLAPS checks for every instance.

    tlc -config MCIndexJobs_queue.cfg MCIndexJobs        # one run
    tlapm Indexing_proofs.tla                             # one proof module

## Inventory

| Part | State | Operations | What is hard | What makes it correct |
|---|---|---|---|---|
| Indexing jobs: `internal/server/jobs.go`, `internal/store/jobs.go` | rows of `index_jobs`, `projects.status`, the LISTEN connection, the worker goroutines | enqueue, claim (`FOR UPDATE SKIP LOCKED`), load, run, complete, fail, mark the project, wait, requeue at start, shut down | several workers, crash and restart, failing statements, lost notifications, deletion of a project under a running job | one runner per job, final outcomes, every job decided |
| Worktree index: `internal/indexing/indexer.go` over `files`, `chunks_*`, `worktree_files`, `file_dependencies` | content-addressed versions shared by worktrees, a manifest per worktree, the run's collected units | index (plain or forced), per-file steps, rollback, manifest, prune | parallel file workers, prune against unreferenced new versions, partial batches, edits during a run | manifests reference whole versions, nothing leaks, worktrees do not disturb each other |
| Pending registry and unlock: `internal/pending`, `cmd/semidx/unlock.go` | the JSON list of password-protected files | record after a run, try passwords, index, drop what was unlocked | list shared by worktrees and replaced by each run; decoders that report every failure alike | what was skipped is listed until its password opens it |
| Chunking: `internal/chunker` | the pending chunk, the scan position | code, prose and symbol chunks, splitting, overlap, limits | boundaries of bytes, runes and lines | no text lost, sizes kept, lines point at the text |
| Extraction: `internal/extract` | open archives, budgets | decoders, archives in archives, passwords | hidden text, nesting, truncation | shows what the author wrote and no more |
| Dependency graph: `internal/imports`, `codeintel`, `deadcode`, `graph` | `file_dependencies` | extract references, callers, impact, dead code, paths, neighbourhoods | resolution done twice, cyclic graphs, budgets | references are found again; answers exact or marked as cut |
| Embedding chain: `internal/embed/circuit.go`, `embed.go`, `chain.go` | per provider: failures, openUntil, probing | Embed, EmbedSingle, ModelInfo | results that arrive late, timeouts, cancellation, half-open probes, force-local | coherent breakers, probes that are resolved, no remote call under force-local, recovery |
| Embedding pool and clients: `parallel.go`, `ollama.go`, `openai.go` | the round-robin index | nested breakers and chains | failures counted twice | as above |
| File watcher: `internal/indexing/watcher.go` | debounce timers, running callbacks | create, write, remove and rename events | callbacks run beside the event loop and beside each other | the index follows the tree |
| Push: `internal/server/files.go`, `cmd/semidx/push.go` | pushed versions, the diff, batch jobs | diff, upload, index or take over embedded chunks, prune older versions | re-push of older content, retries, failing files in a batch | a push that ends well leaves the pushed tree, searchable meanwhile |
| Search: `internal/search` | two goroutines and their channels | route, embed, fall back to keywords, fuse, rerank, expand, flag stale hits, several scopes | every query sees the store of its own moment | one hit per chunk, honest flags, exact expansion, no goroutine left behind |
| SQLite store: `internal/localstore` | files, chunks, full-text rows, dictionary of vectors, one connection | insert, delete, collect, search | one connection per process, several processes, shared vectors | the dictionary covers the chunks, nobody is stuck |
| PostgreSQL store: `internal/store` | all tables | the statements behind everything else | atomicity of operations of several statements | see the parts that use it |
| Accounts and limits: `internal/server/auth.go`, `server.go`, `internal/webadmin` | sessions, tokens, log-in attempts, request buckets | log in, use, revoke, disable, expire | requests that overlap an administrator's change | what ended stays ended, failures are limited |
| Tenants: `internal/store/tenants.go`, `runtime.go`, `internal/server` | tenants, workspaces, members, keys, projects, quotas, runtime edges | found, select, create, report edges | headers resolved once, statements without a transaction | tenants stay apart, quotas hold but for racers |
| Git sync: `internal/gitsync`, `gitcredmgr` | clones and key files on disk, credentials | clone, fetch, rotate and delete credentials | crash in a clone, key files that outlive a process, edits under a job | a job indexes what is current, keys are swept |
| Agent and conversations: `internal/agent`, `webadmin/chat_api.go`, `webchat`, `cmd/chatrag` | the loop, its channel, the handler, conversations, memories | tools, actions, events, saving, trimming | slow or absent clients, a second attempt after a failure | events match, memories stay whole, turns end |
| Project resolution and tools: `internal/projectref`, `searchtargets`, `mcpserver`, `pkg/client` | the catalog, the wrapped backends | choose a project on seven surfaces, hand it on by name | the choice is looked up twice | a question is answered for the project it means |
| Files of the user: `cmd/semidx/alerts.go`, `insights.go`, `internal/config`, `mcpinstall`, `skills`, `cmd/semidx/upgrade.go`, `migrate.go` | lists, settings, other programs' configurations, the binary, two stores | add, check, set, install, upgrade, choose the store, migrate | no locks, kills between two writes, precedence asked in three places | nothing is swallowed, lost or reported wrongly |
| Embedding and language model clients, SBOM, licences, secrets, evaluation, web interface | none, or a page | requests, pure functions | streams that break off | see *Not modelled* |

`PROJECT.json` lists every part with its sources and its status, and the hazards with the line
at which each bites.

How the parts meet: a server worker claims a job, synchronises the repository and calls the
indexer with the project's worktree, or indexes a pushed batch; the indexer reads the
checkout, extracts and chunks each file, embeds through the chain and writes versions, then the
manifest, then prunes; at the end it writes `projects.status`, which the job's failure path
writes too.  The command line runs the indexer in its own process on the same tables, records
the pending list, and may go on as a watcher.  A search joins `worktree_files` with the versions,
so it sees what the manifest of its worktree references, and follows the dependency edges of
the project from there.  Commands, MCP tools and the agent's tools resolve a project first and
search afterwards; every request of the server passes authentication and the choice of a tenant
before either.

## Modules

| Module | What it is |
|---|---|
| `JobLedger` | abstract: what a durable job queue promises |
| `IndexJobs` | the queue and its workers; implements `JobLedger` |
| `WorktreeView` | abstract: a view per worktree, replaced only by its own runs |
| `WorktreeIndex` | runs, file workers, store calls, unlock; implements `WorktreeView` |
| `Chunker` | the chunks of one file |
| `Extract` | the documents of one file, archives and passwords |
| `DepGraph` | references, and the questions asked of them |
| `EmbedChain` | providers, breakers and callers |
| `Watcher` | the event loop and the timers of `index --watch` |
| `BatchPush` | a push client, the diff, batch jobs and their store calls |
| `GraphExpand`, `Search` | the graph expansion, and the search that `EXTENDS` it |
| `MultiScope` | a search over several projects |
| `LocalStore` | the SQLite store: statements, locks, processes |
| `Access` | log-ins, sessions, tokens, request limits |
| `Tenants` | tenants, workspaces, projects, quotas, runtime edges |
| `GitSync` | credentials, key files, checkouts |
| `AgentTurn`, `ChatThreads` | one turn of the agent, and the conversations around it (`EXTENDS`) |
| `ProjectRefs`, `ToolCalls` | the look-ups of a project, and the tools and commands that use them (`EXTENDS`) |
| `UserLists`, `ClientSetup`, `SelfUpgrade`, `Backend`, `Migrate` | what commands do to the user's files and stores |
| `Indexing_proofs` | proofs about `IndexJobs` and `DepGraph` |
| `WorktreeIndex_proofs` | proofs about `WorktreeIndex` |
| `Pipeline_proofs` | proofs about `EmbedChain`, `Watcher`, `Chunker` and `Extract` |
| `GitStore_proofs` | proofs about `GitSync` and `LocalStore` |
| `Server_proofs` | proofs about `Access` and `Tenants` |
| `Search_proofs` | proofs about `Search` and the `GraphExpand` it extends, and about `ToolCalls` |
| `Conversations_proofs` | proofs about `ChatThreads` |
| `Commands_proofs` | proofs about `BatchPush`, `UserLists`, `ClientSetup`, `SelfUpgrade`, `Backend` and `Migrate` |
| `MC...` | instances for TLC; each `.cfg` gives the constants of one run |

`MCPipeline`, `MCCommands`, `MCGitStore`, `MCSearch` and `MCServer` check several modules that
share no state in one run: a variable `part` (in `MCSearch` the guards) says which of them a
behaviour is about, and the others rest.  Their state spaces add up and do not multiply.

**IndexJobs.**  `status`, `proj` and `projStatus` are the rows; `fresh[j]` says that
`started_at` is less than `staleJobAge` (30 minutes) old; `srv` is the state of a server
process, `listen` that of its LISTEN connection, `nudge` a notification in the channel, `tick`
the elapsed ticker; `pc[w]` is the place of a worker in `worker` / `runJob`: *claim*, *load*,
*work*, *complete*, *fail*, *mark* (the second half of the `fail` closure), *wait*, *off*.  One
action is one SQL statement or one wait, since anything may happen between two statements.
A job's work is one action, which succeeds with a project status or fails; what the work does
is `WorktreeIndex`, `BatchPush` or `GitSync`.

**WorktreeIndex.**  `files` and `chunks` are the version rows and what their `chunk_index`
positions hold, `deps` the dependency edges by path, `manifest` the `worktree_files` rows,
`pend` the pending list.  A run is a `phase` and a record per file in `task`: *todo*, *check*
(`FileUpToDate`), *upsert*, *clear*, *insert* (one turn of `embedAndInsert`), then the rollback
*unchunk*, *unfile*, or for a blank file *unlist*, *sweep* (`removeFile`).  `live` remembers
whether the row whose id the task holds still exists: an insert for a row that is gone fails on
its foreign key.  `failed` is `stats.Errors > 0`.  `current`, `unseen` and `skipped` are history
variables that the properties use and no guard reads.

**Chunker.**  A text is a sequence of bytes of six classes (a blank, a line end, a plain byte,
the bytes of longer runes, ...); a chunk is the interval of the text it shows with the size of
its content and the lines it names.  A step takes a line, a piece of a line that is too long, a
gap, a piece of a symbol or a window, as `chunkCode`, `chunkLines`, `appendSymbolChunks` and their
helpers do; `Cap` is the limit of chunks per file in the indexer.  The outline of symbols comes from
the parser and is chosen among those a text may have.

**Extract.**  A document is a sequence of parts, of which a decoder shows some (hidden RTF
groups, the style of a Vue file, a mail's alternatives, the entries of a lock file, ...); an
archive is a list of entries, some of which are archives again, walked with a stack of frames
and their budgets.  `Opens` says which decoder and cipher a password is right for; `guesses` are
the passwords `semidx unlock` tries.

**DepGraph.**  `project` has files with a language, a directory and a stem, the Go modules, and
the references each file's text makes; `stored` is what the extractor of its language makes of
them.  A question is asked of that: callers, dead code and impact by levels, a path or a
neighbourhood by a breadth-first walk, one visit a step, with the budgets of `graph.go`.

**EmbedChain.**  `failures`, `open` (openUntil in the future) and `probing` are the fields of
`circuitBreaker`, each of whose methods holds the mutex and is one step.  A caller *asks* a
breaker and then *calls* the provider behind it; between the two, and during the call,
everything else may happen.  A call ends as a counted success, a counted failure, or
uncounted: `circuitEmbedder` records nothing once its context is done, and `tryEach` gives each
provider a context with a deadline of its own.  Failures beyond the threshold are not counted
on, since the code only compares the count with the threshold.

**Watcher.**  `events` is the channel of fsnotify, `watchRoot` and `watchSub` the directories
it reports on (one is there from the start, one is made while the watcher runs), `armed` the
keys of `debounceTimers`.  `task` holds the steps of the event loop and of each timer callback:
*fired* (waiting for the mutex, `latest` if its timer is still the one in the map), *open*
(`indexFile` reads the file), *store*, *drop* and *sweep* (`removeFile`, in a worktree followed
by the prune).  Whether the project is a worktree is chosen in `Init`.  Two history variables
say what the code cannot promise: `missed`, a file whose last change fsnotify did not report,
and `raced`, a file whose last re-index or removal ran beside another one.

**BatchPush.**  `push` is the client's place in `raw` / `embedded`: it hashes its files
(*idle* to *diff*), asks for the diff, *sends* a batch and *waits* for its job; `reported` is the
tree it pushed, once it has ended without an error.  `jobs` is the queue, in which a job holds
the hashed tree, the files and deletions of its batch and whether the client has embedded them.
`rows[p]` lists the versions of a path by `indexed_at`, so that its last entry is what
`ListFileHashes` answers; `some` and `whole` say which have chunks, since `FileUpToDate` is
content with one.  `task` walks `processBatchFiles`: *delete*, *files*, then per file *check*,
*upsert*, *clear*, *insert*, *rollback*, *prune*, or *remove* for an empty one.  `Docs` are paths
whose stored hash is that of an extracted text.  `excused` is a history variable: the paths
about which the last diff, or a call that failed since, makes no promise.

**Search, GraphExpand, MultiScope.**  `files`, `manifest` and `disk` are a project of two
worktrees that index runs change while a search is under way.  `pc` walks the service: resolve
the model, embed, start the legs of `hybridFuseRoute` (each a goroutine in `leg` that queries and
then sends to its channel), receive, fuse, rerank, expand, read the hashes, compare with the disk.
`GraphExpand` has both implementations of the expansion: the store's recursive query as one
definition, and the walk of `service.go` as a state machine with the score, depth and file limits.
A score is its level, the number of times it can still be decayed.  `unraced` is history.
`MultiScope` asks scope after scope, skips those that fail and fuses by rank under the limits per
file and per project.

**LocalStore.**  A client's `task` is the statement it is at; `conn` is the one connection of
each process, `mu` the mutex `fillMu`, `writer` the transaction that holds the file.  The tables
are `files`, `chunks`, `fts`, `dict` (`unique_embeddings`) and `manifest`; ids come from
AUTOINCREMENT counters.  A text, and with it vector and words, belongs to a version.

**Access.**  A worker serves a request with one step per store call.  `sessions`, `tokens`,
`revoked` and `disabled` are rows, `tries` and `buckets` the two limiters in memory with their
reapers, `now` the clock.  Disabling is two statements (`Update`, `DropSessions`).  The ghosts
`failures`, `eras` and `unfinished` record when attempts began and which disablings answered.

**Tenants.**  A handler resolves the two headers of a request (`Select`, `CheckMember`,
`FindSpace`), keeps the outcome and takes one step per statement after it: `CreateTenant` is
three statements, a project is a quota check, a look, an insert, a credential and a policy, a report
of edges a quota check, two look-ups and a transaction.  A project row carries the number of the
request that made it, and its author (`by`), for the properties.

**GitSync.**  `projects` and `creds` are rows that administrators change in steps; `remote` is a
history with pushes and forced pushes, `repos` the checkouts, `temp` the key files, `up` and `key`
the process and its master key.  `job` walks `resolveJobIndexPath`, `resolveGitOptions` and
`SyncWithOptions`; a crash leaves the disk as it was.

**AgentTurn, ChatThreads.**  `loop`, `steps` and `calls` are the runner with its concurrent
tools, gated actions and stops; `queue` the bounded channel; `handler` and `page` what reads and
what was shown; `cancelled` and `away` the ends a client can cause.  `ChatThreads` puts the three
surfaces around it: the second attempt when streaming fails, the requests that save a turn to a
conversation, and the terminal's two memories with their trimming.

**ProjectRefs, ToolCalls.**  Each look-up (identity, place, name, indexed path, enclosing
directory) is an operator from a list of projects to the set it may answer with; a surface is the
order in which it tries them.  `ToolCalls` chooses a project for one question, hands it on as a
reference through the wrapped backends of the process, and looks it up again in a catalog that
may have changed.

**UserLists.**  `file` holds the lists, `cmd` the step of each command line: read, search or
ask, empty, write.  **ClientSetup.**  An install reads, merges, backs up under a name of one
second, writes and renames; the agent writes its own configuration meanwhile.  **SelfUpgrade.**
The choice of a release and the steps that replace the binary, on Unix and on Windows.
**Backend.**  The layers of settings, the flags and the login, what the root command makes of
them and what `config list` prints.  **Migrate.**  Groups of rows copied in statements, runs
that break off and are repeated over a source that changes.

## Runs

| Run | Instance | Shows |
|---|---|---|
| `MCIndexJobs_queue` | 1 server process at a time, 2 workers, 1 project, 2 jobs, 1 end of the process, 1 failing statement | one runner per job; implements `JobLedger`; every queued job is decided |
| `MCWorktreeIndex_sequential` | 2 worktrees, 2 paths, 2 texts, 2 file workers, 2 chunks in 1 batch, 1 run at a time, 1 edit, 1 failing call, 1 run cut short | manifests are complete, edges current; implements `WorktreeView` |
| `MCWorktreeIndex_overlap` | 1 worktree, 1 path, 2 runs at a time, blank, sealed and absent contents, `--force`, 2 failing calls, 1 edit | nothing leaks; the pending list knows what was skipped |
| `MCPipeline` | content: texts of up to three lines and some long ones with chunks of 8, archives to depth 2, a small project of every language and every question; chain: 2 callers, a remote and a local provider, threshold 2, 1 quick retry, 2 changes of availability; watch: 2 files (1 in a later directory), 2 callbacks, 3 changes | chunks are faithful, units show what was written, references are found and answers exact; breakers that wait for a probe have one, service resumes; reported changes are not lost, the watcher catches up |
| `MCCommands` | pushes: 2 files, 2 texts, 2 workers, batches of 1, both modes, 2 pushes, 1 change, 1 failing call or crash; lists: 3 runs, 2 at a time; installs: 2 and the agent, 3 edits; 2 upgrades over 3 releases; every combination of settings; migration: 2 documents of 2 revisions, 5 moves | a good push leaves the server in sync and files searchable meanwhile; lists are honest; entries of a configuration and the binary are kept; the report is true; the copy is what was there |
| `MCGitStore` | git: 2 workers, 2 administrators, 2 jobs, 2 pushes, 3 edits, 1 crash; store: 3 clients in 2 processes, 2 versions that share a vector, 3 operations, 1 error | a synchronised checkout is current, keys are swept; the dictionary covers the chunks, nobody is stuck |
| `MCSearch_answers` | search: 2 worktrees, 3 files, 2 contents, 4 modes, 1 change, 1 error, the best 2; scopes: 2 lists of 2; tools: catalogs of up to 2 projects in a small world of directories, all surfaces | one hit per chunk, honest flags, exact expansion; a question is answered for the project around the caller or the one it names; everything ends |
| `MCServer` | access: 2 requests at a time, 4 in all, 1 user, 1 token, times 0 to 3, 1 failing statement; tenants: 3 tenants of which 2 exist, 2 users, 2 names, 3 requests, 1 failing statement | log-in failures are limited, disabled sessions gone, what ended stays ended; tenants are apart, only racers exceed a quota |
| `MCChatThreads_turns` | a user on each surface, a plan of a search and an action at once, at most 3 steps, 1 failure of the provider, 2 turns (1 on the admin page), 1 switch of conversation (none on the admin page), a channel of 1 | events match, memories are whole, turns end |
| `MCWatcher_worktree` | 1 callback, 2 changes | **violated**: the new version of a watched file is in no manifest |
| `MCBackend_configured` | every combination of settings | **violated**: a DSN from a `.env` does not count as configured |
| `MCMigrate_worktrees` | 1 document with 2 versions at once | **violated**: the chunks of two versions are mixed |

*Why the bounds are enough.*  Two workers and two jobs let a worker be overtaken by another one
on its own job; with three nothing new can meet on a row.  Two file workers, two paths and two
texts let a version appear, be shared and be dropped while another file of the run is between
any two of its store calls; the failure and the end of the run may fall at any of them.  Two
callers let a call be overtaken by a whole failure, cooldown and probe; threshold 2 separates
"one failure" from "open", and the second provider gives the chain a place to go.
Two callbacks and the event loop are three tasks on one file, more than any property relates;
three changes are a write that overtakes another one and a removal.  Two pushes and two workers
let an abandoned job of the first push meet the second one on a file while the other file is
untouched.  A chunk of 8 bytes with an overlap of 2 and a prefix of 3 lets a line, a piece and a
rune straddle each limit; three lines give a symbol a line before, in and after it.  Archives of
depth 2 with the limit at depth 2 have an archive that is opened and one that is not.  The
projects of `DepGraph` have a cycle, a file nobody imports and, per language, each form of
reference its extractor knows; the budgets end walks in the middle.  In `LocalStore` two clients
of one process meet on the connection while a third one writes from another process.  In `Access`
two requests and an administrator's switch can lie between any two steps of each other; the
sessions live shorter than the clock runs.  In `Tenants` two requests race for the last place of
a quota of 1 while the third one founds, selects or deletes.  One crash in `GitSync` can fall
into the clone, the key file's life or between two jobs; three edits are create, rotate and
delete.

*Symmetry* is used for workers, handlers, texts, names, paths and runs, in runs without liveness
only (`MCWorktreeIndex_*`, `MCCommands`, `MCGitStore`, `MCServer`); providers are ordered and not
symmetric.  `CHECK_DEADLOCK` is off where the bounded requests, commands and changes come to an
end and the system rests: all runs but those of `IndexJobs` and `WorktreeIndex`.

## Fairness

`IndexJobs`: weak fairness of each worker's step (goroutines run and database calls return), of
the ticker and of time passing, of the end of a process that is shutting down, and of its
restart (`restart: unless-stopped` in `docker-compose.yml`).  Crashes, failing statements,
notifications and deletions are never fair: the runs must be right without notifications,
whatever fails.  `EmbedChain`: cooldowns elapse and a call that is let through returns, since
each has a deadline; cancellation and the availability of providers are not fair.  `Watcher`:
the loop and the callbacks run, timers fire, calls return; changes to the tree are not fair.
`Search`: the request's goroutine and each leg run, since queries carry the request's context;
index runs are not fair.  `ChatThreads`: the loop and the handler run, tools and the provider
return, the user answers a request for approval in the terminal, the page asks again; whether the
user asks, stops or leaves is not fair.
`Chunker`, `Extract` and `DepGraph` are loops that run.  The other modules state no liveness;
`NobodyStuck` of `LocalStore` says in a state what would be a deadlock.

## What is proved

Every theorem holds for every value of the constants that the modules' assumptions allow: any
number of workers, handlers, clients, paths, rows, edits, failures and crashes.  The bounds of
the runs are constants too, any natural number.  Each proof has the same shape: an inductive
invariant, one lemma per action, and the property as a consequence.  A property of the runs is
named where the theorem has another name.

*Jobs* (`Indexing_proofs`):

* `TypeCorrect`: `TypeOK`.  It needs that a worker holds a job exactly at the places of `runJob`
  and that the workers of a process that is down are off (`TypeInv`).
* `ExclusiveRunners`: `~AllowReplicas /\ Spec => [](OneRunner /\ HeldJobRunning)`.  `OneRunner`
  alone is not inductive: the startup requeue could hand out a row that is held.  `OwnerInv` adds
  that a held row is *running* or *gone*, and that at a start no worker is alive, because
  processes do not overlap; that is the assumption `~AllowReplicas`.
* `OutcomesAreFinal`: from the same invariant, since the statements that write an outcome do
  not look at the status they replace.
* `QueueImplementsLedger`: the refinement of `JobLedger`, step by step under `OwnerInv`.  A claim
  is a claim of the ledger because nobody owns the row; what a worker writes decides a job of its
  own; the end of a process and a requeue are the ledger's losses.

*The graph of references* (`Indexing_proofs`), for any finite projects, any references in their files,
any questions and any budgets:

* `AnswersAreExact` (the half of `GraphTrue` that is `AnswersExact`): impact names exactly the files
  within the depth, at their least distance, and callers its first two levels; a path is a shortest
  one; a neighbourhood is whole or says that it was cut.  What a number of steps leads to (`Near`) is
  what a search by levels has to find, and `GraphInv` says of an open question how far that is done.
  Impact after some levels has found each file within them at its level, and its last level is what
  the next one starts from (`Levels`).  A breadth-first search has found only what is as near as its
  depth says (`Visited`); and nothing it has found is nearer than that, its queue is in the order of the
  depths, and what it has visited has all its neighbours found (`Exhaustive`), so that an empty queue
  means that all is found (`AllFound`).  A walk loses `Exhaustive` only where a budget cuts it, and then
  `cut` is set.  A path also keeps that each node was reached from one a step nearer (`Traced`), so that the
  way back (`HopsAre`) is a path as long as the depth.  `DirsFinite` and `PyDirsFinite` show that what
  each extractor stores is finite, for `SetToSeq` and the counting of edges.  The theorem assumes
  that files and references are finite (`ProjectsAreSound`) and that a question is about a file of the
  project or a package (`QueriesAreSound`).

*The worktree index* (`WorktreeIndex_proofs`), whatever calls fail and wherever runs are cut short:

* `IndexTypeCorrect`: `IndexInv` adds to the types that a task has a version where it needs one,
  that its counters agree, and which phase of a run allows what.
* `OldVersionsGo` (`NothingLeaks`), for any number of runs that overlap: some run is still to prune,
  or every stored version is referenced (`LeakInv`).
* `SkippedIsPending` (`PendingKnowsSkipped`), in a project with one worktree: every run that has
  skipped a file either has it in its own list or has written the list (`SkippedListed`).
* `ManifestsWhole` (`ManifestComplete`), `IndexImplementsView` (the refinement of `WorktreeView`) and
  `EdgesFollow` (`DependenciesCurrent`) under `Sequential`: one run at a time, a text is one batch,
  no blank files, nothing up to date is stored again.  The table below has the counterexample for
  each of these.  `SeqInv` says, per path, what the task at that path may still undo: a version
  that is referenced is whole unless it is the one being stored, and that one was not referenced
  before; `DepsInv` ties the edges to the content while nobody edits.

*From a file to its embedding* (`Pipeline_proofs`):

* `TypeCorrect`: `TypeOK` of `EmbedChain`; a caller never walks past the last provider.
* `BreakersAgree`: `BreakerCoherent`, inductive with `TypeOK`.
* `ProbesResolve`: `~AllowLostProbes /\ Spec => []ProbeInFlight`.  The lemma `ProbeKept` carries
  the argument: a caller leaves its call either uncounted, and then it was no probe, or through
  `RecordSuccess` or `RecordFailure`, which clear `probing`.
* `ForceLocalHolds`: `LocalStaysLocal`.
* `ReportsAreHandled` (`NoChangeLost`): `WatchInv` says of each file that differs from the store who
  will put that right: an event in the queue, an armed timer, a callback that goes on, or the only
  task at the file; or the change was missed or raced in a way the property names.
* `ChunksAreFaithful` (`ChunksFaithful`), for any texts made of whole runes of at most four bytes, any
  finite sets of symbols found in them and any sizes with `MaxChars >= 4`, so that a rune fits into a
  chunk.  `ChunkInv` says of each stage what the chunks hold so far: all of the text before a line
  (`ShownLines`) or from one byte to another (`ShownBytes`), but for what is pending (`PendSound`, whose
  equation between the size of the pending chunk and the lines in it, with the ends `chunkCode` adds,
  keeps it within the limit); and that the chunks are cut well (`FineList`).  Where lines begin and end
  is had from counting line ends, with `LeastIs` for "the first one"; that cuts fall between runes from
  `RuneWithin` (a rune begins in any four bytes).  The invariant is stated over names for the values of
  the state, so that a step is proved for the values it leaves and the whole is moved to the next state
  once (`SoundKept`: the text stays).
* `UnitsAreFaithful` (`UnitsFaithful`), for any documents that consist of the parts of their form, any
  finite set of archives nested as deep as one likes, any limits and any depth.  A document
  (`DocumentsInv`): what each decoder shows is what its form calls written (`ShownKeeps`); for RTF the
  state of the parser after each part says which groups with a destination are still open and the depth
  of the outermost (`RTFRight`).  An archive (`ArchivesInv`): the open archives are a chain that leads
  from the file to the innermost (`Linked`), and each has given documents that are entries of it or of
  archives in it before the next entry (`Placed`), no more of its own than its limits say, which its
  counters count (`Tallied`), and of a small file all of them (`Whole`).  Taking an entry keeps this
  (`TookKeeps`) whatever it gives (`TextGives`, `NothingGives`, `NestedGives`); a small file spends no
  budget before the end (`SmallEntry`, which counts the ways through the file and adds up their sizes).
  The recursions are unrolled by `StepByStep`, which shows that a function with given first value and
  steps exists, and by least counterexamples for its being the one the definition names.  The theorem
  assumes what files are written like (`DocumentsAreWritten`): in an RTF no group ends that did not begin.

*The state beside the index* (`GitStore_proofs`):

* `SecretsFitKinds`: the secret of a credential is of its kind, whatever edits overlap (`CredInv`).
* `CheckoutsAreCurrent`: `SyncedIsCurrent`, from `BaseInv`, which adds the types and `CheckoutInv`:
  one clone at a time fills a project's directory, and no job remembers more of a remote than the
  remote has, so that what git brings is at least as recent.
* `KeysAreSwept`: `~AllowReplicas /\ Spec => []KeysSwept` (`KeyInv`): a key file belongs to a
  worker that is in the middle of git, or was left by a process that has ended; the sweep at start
  takes the latter, which a second process would take from the first one.
* `NobodyWaitsForEver` (`NobodyStuck`): `LockInv` says who holds the connection, the write lock and
  the fill lock, and where such a client is; one who waits waits for
  a client that can go on, or that waits for one that can.
* `EmbeddedStaysFound` (`DictionaryCovers`): inductive as it stands, since a chunk and
  its vector are written by one transaction and the collection of orphans takes no vector in use.

*The server* (`Server_proofs`):

* `DisabledSessionsAreGone`: inductive with the types, since a session carries the count of
  disablings (`era`) it was opened under: the second statement of a disabling deletes every older
  one, or the user is in `unfinished`.
* `WhatEndedStaysEnded` (`EndedStaysEnded`) needs `TokensType`, `Fresh` (the sessions that log-ins
  under way will open are new ones) and, per worker, `Served`: what a request still under way has
  read was not ended when it arrived.
* `FailedLoginsAreLimited` (`FailuresLimited`): the recent failures of a name are recorded or held by
  a worker about to record one; whoever passes the check saw fewer than `LoginTries` recorded, so
  each of the finitely many workers adds at most one beyond the limit (`LimitInv`).
* `TenantsTypeCorrect`, `TenantsStayApart` (`TenantsApart`): `TenantsInv` follows a request from the
  selection of its tenant to its last statement: who was admitted (`Admitted`), in which workspace
  a row is (`Housed`), that numbers are used once (`Numbered`), what a request remembers of a row that
  may be gone (`Remembered`), and that the two projects of an edge were read in one workspace
  (`EdgesJoin`).
* `QuotasRaceOnly` (`OnlyRacersExceed`): rows and requests past their check together exceed a quota by
  no more than the handlers but one, by counting finite sets.

*Search* (`Search_proofs`), for any import graph, number of contents and limits, and whatever runs, edits
and failures fall into a search (`SearchInv`):

* `ExpansionIsExact` (`ExpansionExact`).  The walk takes its nodes in the order of their depth
  (`Sorted`); a node's path and score are those of a walk from a hit (`Sound`); every node was noted
  as seen with its score (`Noted`); and while the walk is at depth d, every file within d edges of a
  hit has been seen with a score no worse than that walk's, and what was seen waits in the queue or
  has been expanded (`Thorough`).  That a walk of n edges was found is shown by the least n for which
  it was not, with `WFMin` of the library, so no induction over data is needed.  The same argument
  relates the walk to the levels of the store's recursive query (`QueryLinked`).
* `ChunksShownOnce` (`OneHitPerChunk`): the two legs, their fusion, the reranking and the merge with
  the graph's hits each keep hits apart that the manifest's versions keep apart (`Good`).
* `FlagsAreRight` (`StaleHonest`): while nothing changes during a search, the hash the flags compare
  with is the one in the store.
* `RoutesAreDisclosed` (`RouteDisclosed`): nothing is told before the legs are received; what is told
  then agrees with how they ended (`RouteTold`), and from then on no leg is at work and no step changes
  the source of a hit (`RouteInv`, `RouteStays`).  No run checks it on its own.
* `HereIsAnswered` (`HereIsHere`) and `NamesAreKept` (`NamedIsMeant`), for any directories,
  repositories, catalogs, references and defaults, every surface and wrapping.  `ToolsInv` says of a
  question under way that each target was given by the caller or stands, by identity or by name, for a
  project the reference was looked up as (`Stands`), that inside an indexed repository it stands for
  that one (`TargetHere`), and that at most one row has come or gone, which leaves an identity to one
  project (`OneRow`).  What a name that is handed on may mean besides (`WordMeans`) is `Blurred`.
  Assumed of a catalog (`CatalogsAreRows`): an identity has one row, as the unique index on it says,
  and the identity of a registered project is its name (`CreateProject`).

*Conversations* (`Conversations_proofs`):

* `EventsAreShown` (`EventsMatch`), for any capacity of the channel, any plans of the model and
  whatever the client does.  `ThreadsInv` has four parts: the types; `Stages`, how far the loop and
  the handler may be apart; `EventsInv`, that for a client that stays every call that was said is
  on the page or in the channel before its result, and that only a call still to be reported is
  without one; and `SourcesInv`, the same for the sources.
* `MemoryStaysWhole` (`MemoryWhole`), for any number of turns, of calls and of turns kept.  `MemoryInv`
  says of the messages with tool calls that each result follows its call with no question in between
  (`Paired`), of the history that questions and answers alternate (`InTurns`), and of both that they have
  no more questions than turns are kept (`Fits`).  The messages of a turn are put together by a fold
  (`FlattenSeq`): that each prefix of it is paired is shown by the least one that would not be.  A cut is
  one question too many at most, so that it falls on the second one (`FirstOf`, `OpeningExists`).

*The user's files* (`Commands_proofs`):

* `InstallsKeepEntries` (`EntriesKept`): when an install replaces the file, what it has read of it is
  in a backup, or was forgone in a way the property names (`SetupInv`, `ReadIsBacked`).
* `UpgradesKeepTheBinary` (`BinaryKept`): per place of the upgrade, which of the path, the old and the
  new file hold a whole binary (`UpgradeInv`).
* `ReportsAreTrue` (`ReportIsTrue`) for any settings in any layer, without the bound that the run puts
  on the initial states (`AnySettings`).
* `ListsAreHonest` (`ListsHonest`), for any number of commands side by side: what is in a file or about
  to be written is told and each of its names is taken once, whatever overlaps (`UserTypes`, `AllTold`);
  while nothing has overlapped, one command is at work at most, it holds with its copy what its message
  will say, and the other files are what was said (`OneByOne`).

*Pushes and migrations* (`Commands_proofs`):

* `PushesAreInSync` (`InSync`) and `FilesStaySearchable` (`StaysSearchable`), for any files, texts,
  workers and batch size, with crashes, lost replies and files that change during a push.  `PushInv`
  has the types, that a job puts files the pushed tree has and deletes those it lacks (`JobsSound`),
  that a worker has a running job of its own (`WorkersSound`), that a row a worker holds is there
  (`RowsHeld`), and for each path that is not excused (`OnCourse`): no two jobs under way are about it,
  a job can start over with it, a worker has left or prepared what its step needs, and what the client
  counts on is in the server or with the job it waits for.  The hypothesis
  `HashesAgree` is that there is no file with an extractor or that every push is embedded locally; the
  case it leaves out is the one that fails below.
* `MigrationsCopyAsIs` (`CopiedAsIs`), for any paths, versions and numbers of chunks, as long as versions
  of a path do not stand beside one another (`Beside = FALSE`; the other case is the run
  `MCMigrate_worktrees`).  An export lists every chunk, by the count of finite sets; a path is in one
  piece and its chunks ascend (`InOrder`), and of a version whose rows are still to come all are
  (`Uncut`), so that the group in front is one version, whose i-th row is chunk i - 1; a version of the
  run is in the target, in the group in hand or still to come (`RunSound`).

What the assumptions ask is what the code gives: workers and handlers are finitely many, special
values (a blank content, no slug, no version, a directory's event) are none of the ordinary ones,
the operations of the local store are those of its interface, and the web chat's turns have no
tools (`internal/webchat` configures none).

*Only model-checked.*  All liveness (fairness and ENABLED are beyond the prover).  `ReferencesFound`, the
other half of `GraphTrue`: what the extractors make of a reference is compared with what it means on
the projects of `MCPipeline`, which have each form the extractors know; its exceptions are worded for
projects that do not mix those forms, so it is no statement about every project.

## Where code and documents disagree

Three runs end in a counterexample; `PROJECT.json` quotes the lines.

* `MCWatcher_worktree`: `handleCreate` drops the units of the manifest, so what the watcher
  stores in a git project is found by no search in its worktree.
* `MCMigrate_worktrees`: the rows of a migration are grouped by path without the hash, so two
  versions of one path become one file with the chunks of both.
* `MCBackend_configured`: whether a database is configured is asked of the environment alone.

The passing runs stay within constants under which the properties hold.  Leaving them shows
what the code relies on:

| Change | Violates | Because |
|---|---|---|
| `AllowReplicas = TRUE` with two servers (`IndexJobs`) | `OneRunner` | a process that starts requeues jobs that another one has been running for 30 minutes |
| `Runners = {r1, r2}` with two paths, or blank files in a run of its own (`WorktreeIndex`) | `SettledManifestComplete` | a prune, also the one of `removeFile` in the middle of a run, deletes what is stored and not yet referenced |
| `AllowRework = TRUE` (sequential) | `ManifestComplete` | a forced or repeated store clears and may roll back a version that is referenced |
| `NoFileVanishes` without `errs' = 0` (sequential) | `NoFileVanishes` | a file whose new version is rolled back drops out of the manifest, and the old version is pruned |
| `BatchSize = 1` with `NChunks = 2` (sequential) | `CreatedIsStored` | each sub-batch numbers its chunks from 0 and overwrites the one before |
| two worktrees (overlap) | `PendingKnowsSkipped` | the pending list is the project's and every run replaces it |
| `AllowLostProbes = TRUE` (`EmbedChain`) | `ProbeInFlight` | a half-open probe that times out is never resolved |
| `NoChangeLost` without `missed` (`Watcher`) | `NoChangeLost` | changes between the first index and `addDirs`, and files made in a new directory before `watcher.Add`, are never reported |
| `NoChangeLost` without `raced` | `NoChangeLost` | a re-index that has read a file stores it after a newer one, or after the file's removal, was handled |
| `Docs` not empty (`BatchPush`) | `InSync` | a raw push of a file with an extractor is stored under the hash of its text, and the prune keeps only the hash of the file: everything goes |
| `Diff` excuses no file of an unfinished job | `StaysSearchable`, `InSync` | a client that gave up pushes again while its job is queued; two jobs each prune the version the other has stored |
| `Diff` excuses no version that was already there | `InSync` | a row whose chunks were never stored is current for the diff, so no later push repairs it; an old version that a crash left is up to date, so pushing it again prunes nothing |
| `StaysSearchable` without `excused` | `StaysSearchable` | chunks that were rolled back count as created, and the older version is pruned |
| `Beside = TRUE` (`Migrate`) | `CopiedAsIs` | see above |
| `AllowReuse = TRUE` (`GitSync`) | `CheckoutOfProject` | the directory is the project's name, whatever repository it held before |
| `AllowReplicas = TRUE` (`GitSync`) | `KeysSwept` | the sweep at start does not ask whose file it is |
| `CurrentNotStale` as an invariant (`Search`) | itself | the stored hash of a path is that of the version indexed last, in whichever worktree |
| `ScopedToWorktree` as an invariant (`Search`) | itself | the files that the expansion adds are read without the worktree |
| `NamedIsMeant` without `SharesName` (`ToolCalls`) | `NamedIsMeant` | the local `status` of a place that is not indexed falls back to any project with the name the place would get |
| `Blurred` for other names only (`ToolCalls`) | `HereIsHere`, outside the run's world | a name handed on is looked up as a place first and last: a directory of that name under the caller's or the server's may be indexed |
| `AsTold` without `alone` (`UserLists`) | `AsTold` | two commands each write the list they have read; a kill between emptying and writing leaves nothing |

Behaviour that the models keep and that no property above forbids; worth knowing when the code
is changed:

* Jobs: the requeue at startup skips rows claimed less than 30 minutes ago, which stay *running*
  if nothing starts again later.
* Content: a comment promises the lines of a split symbol (`chunker.go:14-16`), of which later
  pieces may begin too early; the line scanner ends at a line of 64 KiB; blank chunks count towards
  the limit per file; nested symbols are indexed twice.  `package-lock.json` gives only the name of
  the root; OpenAPI in JSON never meets the header test; a mail shows the first plain part it meets,
  and an HTML part of an inner multipart as if it were plain; nested archives have fresh budgets;
  some pending files can be opened by no decoder and stay for ever.
* Graph: Go packages imported with a dot or from a module's root, Java and C# packages below a
  source root, TypeScript imports by extension or alias and Python modules that two directories
  define find no importer; a module path is compared as a prefix without its "/".
* Tenants: `tenant_quotas` has rows only for tenants older than migration 00023, so that a tenant
  founded later cannot create projects (500); three statements found a tenant, without a
  transaction; the REST API writes the policy last, and a retry after a failure answers 409; every
  reported edge counts as new.
* Git: a clone that is killed leaves a `.git` with which every later pull fails; so does a forced
  push.
* Chat: the web chat drops an error of the stream, and its two minutes end it without an event;
  a second attempt may run an action again; the admin page may put question and answer into
  different conversations when the user switches in between.
* Projects: a choice is handed on by name and looked up again, which is ambiguous among projects
  of one name.
* The query cache (`internal/search/cache.go`) is built by no production code.

## Not modelled

Within the modelled parts: `UpdateJobProgress`; git history, secret scanning and documents without
worktrees in the indexer; `ListModels`; shutdown, queue overflow and failing re-indexes in the
watcher; `--sync` pushes and size limits in a push; prefixes longer than a chunk and invalid UTF-8
in the chunker; the layout of binary formats; query classification and text scores in the search;
usage, conversations and the schema of the SQLite store; scopes, CSRF tokens and password changes;
CA bundles and known hosts; compaction of long histories.  A version's text, its embedding and its
symbols are one model value; a store statement is atomic, as in the database; `retryPing` and the
connection pool are not there; symbolic links have no second name.

Whole parts: the clients of embedding and language model services are HTTP calls, and what can go
wrong in them is the outcome of a call in `EmbedChain` and `AgentTurn`; HTTP handlers that only read,
prompt assembly, the MCP session and the web interface are input and output; SBOM, licence and
secret matching, encryption and tokens are pure functions; the semantic diff and the search for
tests compare texts; evaluation runs offline.  The embedding pool is a round robin over breakers and
chains; it has no state that the breakers do not have but the index of the next one, and waits in
the plan.

## Plan

1. `EmbedPool`: the round robin over breakers around chains, composing `EmbedChain`.
2. `Watcher`: failing re-indexes, shutdown, removal of directories, and several store calls per
   file, composing `WorktreeIndex`.
3. `BatchPush`: an abstract "the server holds the pushed tree" it refines, two clients of one
   project.
4. Compositions: `GitSync` as the work of a job of `IndexJobs`, `Search` as a tool of `AgentTurn`.
5. Proofs: `ReferencesFound`, language by language, each with the conditions on a project under which
   its extractor loses nothing.
