# memory-spine in TLA+

memory-spine is a file- and SQLite-based long-term memory for a coding
assistant. It has no server: its code runs in short-lived processes (hooks of the
editor, session starts and ends, cron jobs, commands a person types) that share
files under `memory/` and `_meta/`. Almost nothing is locked. What makes it
hard is therefore what happens *between* those processes: a queue file that
several drainers walk, counters read in one step and written in another, a
chain of file moves a killed process leaves half done. That is what this
directory models, checks with TLC and proves with TLAPS.

Contents: [inventory](#inventory), [modules](#modules-and-the-code),
[runs](#runs), [fairness](#fairness), [proofs](#what-is-proved),
[disagreements found](#where-the-code-and-its-documentation-disagree),
[limits](#what-is-only-model-checked-and-what-is-left-out), [plan](#plan).

## Inventory

Each component with the state it keeps, its operations, what it talks to, what
is hard about it and what makes it correct. The module that models it
is named at the end of an entry.

**Event bus** (`event_bus.py`). State: `events.jsonl`, `jobs.jsonl`, both
append-only; a reader collapses the jobs to the latest row per event id.
Operations: `emit_event` (two appends), `read_jobs`, `update_job` (read the
attempts, then append), `compact_jobs` (read, filter, `os.replace`; at every
session start). Everything below goes through it. Hard: none of these is atomic
with respect to another process. Correct when no open job is forgotten and each
listed job has its event. `EventBus`.

**Outbox worker** (`outbox_worker.py`). State: that of the bus, plus what each
running drain holds in memory. `drain()` reaps stuck jobs, takes a snapshot of
the pending ones, and for each marks it processing, runs the handler and writes
done, pending or dead. Run by a PostToolUse hook (few jobs, heavy kinds skipped,
may be killed) and by cron every 15 minutes. Hard: stale snapshots, reaping of
live jobs, crashes anywhere. Correct when a job is settled, is dead only after
`MAX_ATTEMPTS` failures, and is done only if processed. `Outbox`, with the
queue its documentation draws as `JobLifecycle`.

**Importance scoring** (`importance.py`, the `importance_score` and `reflection`
jobs). State: scores cached by content hash and an accumulator per memory type
in `memory.db`. A score is added to the accumulator; one that reaches the
threshold is reset and a `reflection` event is emitted. Hard: the SELECT is
outside the transaction that writes; the event is emitted inside it. Correct
when importance is not invented and each reset is announced and paid for.
`Importance`.

**Sleep cycle** (`session_end.py`'s last block, `consolidate_worker.py`, the
weekly cron). State: two marker files, of which only the time counts; the
memories and `MEMORY.md`. A session end queues a consolidate job when none was
queued for a while; a worker runs the chain of passes unless one ended within
the coalesce window; the last pass regenerates the index. Hard: check and mark
are far apart, a pass may raise, clocks and backups move markers. Correct when a
backlog does not run the chain again and again, nothing switches it off for
good, and what a cycle wrote is in the index. `SleepCycle`.

**Observer promotion lane** (`promotion_candidate_generator.py`). State: rows of
`observations.db`, candidate files in four directories, `memory/`. A pass writes
a candidate for each session with reused observations and graduates those that
clear the gates; a person accepts, rejects or asks for suggestions. Hard: a
graduation touches four stores one after the other. Correct when nothing is
lost on the way, nothing graduates twice for free, and what qualifies surfaces.
`Promotion`.

**Candidate queue** (`auto_promote.py`, `candidate_dedup.py`, `genesis.py`,
`triage_candidates.py`, the reflection pass of `consolidate_worker.py`). State:
`promotion_candidates/`, `reflection_candidates/`, `.genesis` markers. Lanes
draft candidates with a language model, corroborate a waiting one instead of
writing a duplicate, write an opinion into it; a person drains it. Hard: long
model calls between a look and a write; whole-file rewrites by several lanes.
Correct when the count on a file is the number of times its theme was derived,
and an epilogue costs one model call. `CandidateQueue`.

**Memory files and what hangs on them.** The memories are Markdown files,
written by tool calls between two hooks, or by anybody without hooks
(`MemoryFiles`). Four stores follow them:
*provenance* (`provenance.py`), snapshots of replaced texts, named by the
second; correct when a replaced text can be found again (`Provenance`);
the *read gate* (`read_gate.py`, `read_gate_record.py`), which serves a preview
in place of a file, preview and mtime being read at two moments; correct when
only the current text is served (`ReadGate`);
the *embedding index* (`memory_engine.py`, `reindex.py`,
`memory_write_postprocess.py`), whose rows take seconds to compute; correct when
the row ends up that of the text on disk (`MemoryIndex`);
the *knowledge graph* (`kg.py`, `bitemporal.py`, `kg_bootstrap.py`), asserted
again and again by several processes; correct when a functional fact has one
current object (`KnowledgeGraph`). `MemorySystem` composes them.

**Retrieval and reranker** (`memory_engine.py`'s search, `prefetch.py`,
`recall.py`; `reranker.py`, `rerank_daemon.py`). State: a port, a spawn marker,
a circuit-breaker file, a process that holds a model. Hard: check-then-spawn by
many hooks, an idle stop against a request, floors and fallbacks. Correct when
one process holds the model, and a failing back end degrades an answer and never
empties it. `Rerank`, `Retrieval`.

**Local model and routing** (`tier_router.py`, `providers/`, `e2b_daemon.py`,
`hyde.py`). State: a lock file, a heartbeat, a child server. Hard: calls that
land while the weights load, a supervisor that dies before its child. Correct
when the weights are in memory once. `LocalModel`.

**Observer sessions** (`observer_session_start.py`, `observation_capture.py`,
`observer_lib.py`, `session_summarize.py`, `compress_sessions.py`,
`maintenance.py`). State: session rows and summaries, the `.session_id` file.
Hard: two windows at once, each of which takes the other's row for a crash's;
observations that arrive while a summary is made. Correct when row and summary
tell what the session is. `ObserverSessions`.

**Session log and end** (`session_log.py`, `session_end.py`, `epilogue.py`).
State: one active log that is appended to and archived by rename; drafts
and a flag. Hard: windows share the log without a lock. Correct when no line is
lost and a significant session's lines are in a draft. `SessionEnd`.

**Weekly digests** (`weekly_digest.py`, the draft triage of
`consolidate_worker.py`). State: drafts, their archive, a digest per week. Hard:
forty minutes between reading the papers and writing the chapter, while the sleep cycle
files drafts. Correct when what was filed is told. `Digests`.

**Procedural memory** (`procedural_lib.py`, and the boot's review). State:
habits with importance, `.reviewed` markers. Hard: votes are committed before
the marker; sources must not vote twice. `Procedural`.

**Upkeep of the memories** (`reconsolidate.py`, `backlink.py`,
`conflict_recorder.py`). State: the memories, snapshots, conflict rows. Hard: a
pass writes over a text it read long before, while the user edits. `Upkeep`.

**Threads, flags, migrations** (`threads.py`, `feature_flags.py`,
`migrations/runner.py`). Three small files that are read whole, changed and
rewritten in place by any command. `MetaFiles`.

The rest keeps no state that several processes race for, or computes over
floating-point numbers, or renders: decay and association (`decay.py`,
`hebbian.py`), `consolidate.py` and `db_snapshot.py`, the health sentinel,
reports, visualisation, installation. `PROJECT.json` lists each of them with the
reason it is left out or where its effects appear.

### How they interact

    memory write --PostToolUse--> emit_event ----> events.jsonl / jobs.jsonl
    session end  ---------------> emit_event ---->        |        ^
    session start --------------> compact_jobs -----------+        |
                                                          v        |
    hook / cron ------------------------------------> drain()      |
                                   |          |                    |
                     importance_score         consolidate          |
                                   v          v                    |
                     accumulator: reset    passes: generate, graduate,
                     -> reflection event   auto_promote, ..., MEMORY.md
                                   |          |                    |
                                   +----------+--- reindex --------+

    prompt --> prefetch: lanes -> fusion -> reranker (daemon) -> answer
    window --> session row, log lines --> draft, flag --> boot; weekly digest
    sleep cycle --> candidates --> person; habits; redrafts, links, conflicts

`Outbox` is checked against any behaviour of the handlers (return or raise, at
any time). The modules of the handlers take from it what it guarantees: a job is
handed to workers *at least once*, possibly to two at the same time, and stays
open when its worker dies.

Beyond the outbox the parts meet only in files that one of them writes and the
others read. Where one part's property depends on another's steps they are composed
(`Outbox` over `EventBus`, the stores over `MemoryFiles`, `Retrieval` over
`Rerank`); where it does not, a composition would only multiply the states. Two
modules say so in their form. In `MemorySystem`, `watched` chooses the
store whose hooks do something in this behaviour: no store writes the files, so
each sees exactly the file behaviour it would see in the full product. In
`MCServices`, `part` chooses one of nine parts that share no variable; a
property of one part holds of the product exactly when it holds of the part.

## Modules and the code

| Module | Models | Lines of code it stands for |
|---|---|---|
| `EventBus` | the two files, `emit_event`, `read_jobs`, the append of `update_job`, `compact_jobs` | `event_bus.py` |
| `Outbox` | `drain()`, `reap_stuck`, the kind gate, the verdict | `outbox_worker.py`, over `EventBus` |
| `JobLifecycle` | the abstract queue `Outbox` is held against | - |
| `Importance` | `score_memory`, `accumulate`, the job around them | `importance.py` |
| `SleepCycle` | producer, coalescing, chain of passes, index | `session_end.py`, `consolidate_worker.py` |
| `Promotion` | generation, graduation, curator | `promotion_candidate_generator.py` |
| `MemoryFiles` | the memory files, tool calls, foreign writes, the clock | the dispatchers' hooks |
| `Provenance`, `ReadGate`, `MemoryIndex` | three stores that follow the files | `provenance.py`, `read_gate*.py`, `memory_engine.py`, `reindex.py` |
| `KnowledgeGraph` | `upsert_relationship` and supersession | `kg.py`, `bitemporal.py` |
| `MemorySystem` | the composition of these five | `*_dispatcher.py`, `memory_write_postprocess.py` |
| `Rerank`, `Retrieval` | the reranker's client and daemon; `search_hybrid` over them | `reranker.py`, `rerank_daemon.py`, `memory_engine.py`, `prefetch.py` |
| `LocalModel` | routing, the local server, its supervisor | `tier_router.py`, `providers/`, `e2b_daemon.py` |
| `ObserverSessions`, `SessionEnd` | session rows and summaries; log, archive, draft, flag | `observer_*.py`, `session_*.py` |
| `Digests` | drafts to digests | `weekly_digest.py` |
| `CandidateQueue` | the lanes that draft, count, triage, drain | `auto_promote.py`, `candidate_dedup.py`, `genesis.py` |
| `Procedural` | designer, injection, review, votes | `procedural_lib.py` |
| `Upkeep` | redrafts, backlinks, conflicts | `reconsolidate.py`, `backlink.py`, `conflict_recorder.py` |
| `MetaFiles` | threads, flags, migrations | `threads.py`, `feature_flags.py`, `migrations/runner.py` |
| `MC...` | values of the constants for TLC | - |
| `OutboxProofs`, `ImportanceProofs`, `SleepProofs`, `PromotionProofs` | theorems and proofs about `Outbox`, `Importance`, `SleepCycle`, `Promotion` | - |
| `MemoryProofs` | about `MemorySystem` and its four stores | - |
| `ServingProofs`, `SessionProofs`, `UpkeepProofs` | about the parts of the run `services` | - |

`PROJECT.json` maps each definition to its lines. The conventions:

- *Atomicity.* An action is what no other process can see the middle of: one
  append, one rename, one SQL transaction, one read. A function of the code that
  does three of these is three actions, and a field `step` of the process's
  record says where it is. `update_job` reads and appends, so `Outbox` has
  `Take`/`Mark` and `Succeed`, `Fail` or `NotFound`/`Settle`; `compact_jobs` is
  `CompactRead`/`CompactReplace`; `accumulate` is `ReadSum`/`UpdateSum`/
  `EmitReflection`/`Commit`; `_graduate` is `Consider`/`WriteMemory`/
  `CommitRows`/`Archive`/`EmitReindex`.
- *Locals.* What a process holds in memory is a record per process
  (`drainer[w]`, `worker[w]`, `pass[p]`); a crash throws it away and nothing else.
  Locals that are not read again are reset, so that equal futures are equal states.
- *Files.* `jobs.jsonl` is its meaning to every reader: the latest row per id
  (`job`) and the order of first appearance (`ahead`). A directory of candidates
  is a function from names to what the text of the file says. `MEMORY.md` is the
  set it lists.
- *Time.* An age per row or marker, which saturates at a bound above each age
  the code compares with. Thresholds are constants; the runs use small ones.
- *Outside.* The language model answers any of `Answers`; handlers return or
  raise; a file system operation the code guards with `try` may fail. Each kind
  of fault has a bound.
- *History.* Variables (and two record fields) marked "history" record what
  happened for a property to speak about. No guard reads them, except where a
  bound counts them (`fails`, `misses`).

### Outbox

`job[e]` is the row a reader would get. `drainer[w].batch` is the list `drain()`
still has to walk, `.snap` the attempts in that list, `.row` what `update_job`
is about to append. The verdict (`Verdict`, lines 249-261) uses the attempts of
the snapshot and the row the attempts in the file, as in the code. `runs`,
`fails`, `misses` and `owed` are history: how often an event's handler
returned, raised, or its lookup failed, and which ids were emitted and not
processed since.

The properties do not claim mutual exclusion, because there is none: two
drainers may process one event. They claim what must survive that.
`DeadMeansExhausted`: no job is dead with fewer than `MAX_ATTEMPTS` real
failures (or a lookup that failed). `AttemptsAreHonest`: lost updates may make
a job tried too often, never too seldom. `DoneMeansProcessed`: done was earned
since the last emission. `OpenJobsSurvive`: compaction forgets only what it
could not have seen. `JobsHaveEvents`: what is listed can be looked up.
`Ledger` is the invariant behind the first two, checked because the proof needs
it. `EveryJobSettles` is the liveness of reaping and retrying, and
`RefinesLifecycle` says that *with one drainer* the whole machinery of rows,
snapshots, reaping and crashes implements `JobLifecycle`, in which a job has a
state and a number of tries and nothing else.

### Importance

One tracked type, `total` its committed sum; `writer` is SQLite's write lock.
The SELECT of `accumulate` runs outside the transaction (Python's `sqlite3` opens
it at the first UPDATE), so `ReadSum` does not take the lock. `granted` counts the scores
whose addition was committed, `stale` the commits whose sum was no longer the
current one plus the score. `ReflectionsEarned` is the exact price of the race:
`Threshold * resets + total <= granted + (Threshold - 1) * stale`.

### SleepCycle

Marker files are ages; `FarFuture` is a time stamp ahead of the clock, as a
restored backup or a jumping clock leaves it. The passes before the promotion
lanes can raise (they have no `try`), which skips the rest and still stamps the
marker. `worker[w].alone` is history: no other chain ran beside this one.
`Coalesced` is an action property over the time since the last chain *ended*;
`CycleIsIndexed` holds for a chain that was alone; `NeverWedged` is liveness
against any marker.

### Promotion

A candidate file is named by its second and session; its content is the set of
observations it cites and the score that was written into it. A memory is named
by lane, topic and the suffix `_uniquify` gave it. `torn` is history: passes
killed between a memory and its rows, the one window in which a candidate
graduates twice.

### MemorySystem: the files and four stores

`MemoryFiles` numbers texts as they are written, so a store's copy says which
writing it is of. A tool call is three steps (its hook before, the write, its hook
after), and foreign writes, which may restore an old mtime, run no hook. A tick is the tenth of a second
the gate's comparison tolerates; a second is what snapshot names and event ids
are cut to.

- `GateServesCurrent` (preview, mtime and file): a refused read is served the
  text on disk, save for a preview that was torn (read before an edit, stored after
  it) and a write that left the file no newer.
- `HistoryKeepsReplaced`: a text a hooked edit replaced, or an older root of it,
  is among the snapshots; the losses are overwrites within a second and
  writes between snapshot and tool.
- `IndexReflectsDisk`: at rest (no open job, no embedding, no due emission) the
  row is of the text on disk, or its staleness has one of four named causes.
  `excuse` is removed again when a later job mends the row.
- `OneCurrentFact`: with one asserter at a time a functional fact has one current row, the
  last inserted, and each closed row leads to it through `superseded_by`; with
  overlapping insertions it still has at least one.

### Rerank, Retrieval

A daemon goes from `CheckSibling` over `Bind` and `Load` to serving; the port is the only mutex.
Clients are processes with one call: connect, fall back, spawn, load the model
themselves. The code's times are markers that become stale by `RerankTime`.
`OneResidentModel` is the promise of the daemon's header. `Retrieval` keeps of
the scores which memories would pass the floor, so that
`EmptyOnlyByFloor` can tell an empty answer that the floor decided from one that
a failure caused.

### LocalModel

Supervisors and server processes are separate: a supervisor that dies leaves its
server (`owner` becomes "orphan"), whose port makes the next supervisor's server
exit. `ExtraServersAreOrphans` bounds the copies of the weights by the
supervisors that were killed.

### ObserverSessions, SessionEnd, Digests

`ObserverSessions` has one row per session and the windows' start as three
fail-soft steps. `digest[s]` holds the counts that summarisers have read and not written.
`excused` names the open windows whose row another process closed, `late` the
sessions with observations after the summariser's read; `RowsTellTheTruth`
allows these and nothing else. `SessionEnd` has the log as a set of lines; an
archive is a rename whose footer may re-create the log (`RenameLog`).
`LinesAreKept` and `DraftsTellTheSession` follow a line from log to archive to
draft. `Digests` follows the draft: `FiledIsTold` says that a filed draft is in
the chapter of its week, or that the week had only a skeleton, a failed run, or
a digest by hand.

### CandidateQueue, Procedural, Upkeep, MetaFiles

In `CandidateQueue` a lane that looked at the queue holds what it saw over its
model call. `made` counts derivations, and `QueueIsHonest` balances them against
the counts on files, what the human drained, and what a rewriting of an unread
file destroyed (`raced`). In `Procedural` the table is a sequence of rows by id;
`costs` is what an epilogue's flags have cost each habit (`FlagsCostOnce`), and
`votes` how often a source was credited. In `Upkeep` a text knows its type, for
the code never redrafts some types, and `kept` holds the snapshots:
`UpkeepIsSound` says that what a pass wrote over is in one. In `MetaFiles` a
writer empties the file before it fills it; `mangled` names the entries that a
kill or an overlap in that window cost, and `MetaFilesAreKept` says that nothing
else does.

## Runs

Twelve runs; each passing one is exhaustive for its bounds.

| Run | Instance | Shows |
|---|---|---|
| `outbox_races` | 1 event, emitted up to twice in its second, 2 drainers, compaction, 1 crash, 2 exceptions, `MAX_ATTEMPTS` 2 | `TypeOK Ledger DeadMeansExhausted AttemptsAreHonest DoneMeansProcessed JobsHaveEvents OpenJobsSurvive` |
| `outbox_serial` | 2 events of two kinds, 1 drainer, 2 crashes, 2 exceptions | `RefinesLifecycle` |
| `outbox_liveness` | 1 heavy event, a hook and cron, 2 crashes, 4 exceptions, 1 failed lookup, `MAX_ATTEMPTS` 3 | `EveryJobSettles` |
| `outbox_compaction_loses` | 2 events, 1 drainer, compaction | `CompactionPreserves` is violated |
| `importance` | 3 jobs (2 of one memory, 1 of an untracked type), 2 workers, 1 crash, 1 fault, each job delivered up to twice | `TypeOK NeverOvercounts BelowThreshold ResetsAnnounced ReflectionsEarned` |
| `sleep` | 1 session, 2 workers, 1 memory, any two of: forced run, raise, crash, unwritten marker, restored marker | `CycleIsIndexed Coalesced NeverWedged` |
| `promotion_races` | 1 session, 2 passes, curator, 1 crash | `TypeOK NothingLost` |
| `promotion_single` | 2 sessions of one topic, 1 recurring pass, curator, 1 crash | `ResolvedIsRecorded RegraduationIsCharged OneFilePerSession NeverOverwritten QualifiedGraduates SurfacesUndisturbed` |
| `promotion_stuck` | 1 session, 1 pass, 1 crash | `Surfaces` is violated |
| `memory` | 1 memory, 2 editors and everybody else, 3 texts, 3 ticks, 2 readers, 2 drainers, 2 asserters, 3 objects, 4 facts | `GateServesCurrent HistoryKeepsReplaced IndexReflectsDisk OneCurrentFact` |
| `services` | nine parts, below | `OneResidentModel EmptyOnlyByFloor ExtraServersAreOrphans RowsTellTheTruth LinesAreKept DraftsTellTheSession QueueIsHonest FlagsCostOnce UpkeepIsSound MetaFilesAreKept FiledIsTold` |
| `habits_revote` | 2 sources of one lesson, 1 designer | `OneVotePerSource` is violated |

Why the bounds are enough. The races of the outbox are about *one* row: two
ids interact only through the order of the list, which `outbox_serial` has; two
drainers give every stale-snapshot race (a third only repeats the part of the
second), and there are as many exceptions as `MAX_ATTEMPTS`, so a job can die,
and be reopened by a stale reaper. The proofs below remove the bounds for every
safety property of this run. In `importance` the threshold is 4 and ratings are 2
(11 is an answer the parser must refuse), so a reset takes two additions and a
stale one can undo it. In `sleep` the window is two units and ages saturate
there; two workers may take the same job, so one session is enough for an
overlap. In `promotion_single` a cluster needs one observation, which lets a
session with two observations be served, and then wait again. `MaxClock` 1
gives each candidate one age below and one at the limit; with 2 the same run
passes on 546,184 states but takes four minutes.

In `memory` one file is enough: no store relates two files, but for a batch of
the index, whose rows are independent. Three texts allow an edit, an edit while
the first is being processed, and an edit after it; the index's properties need
two seconds (`IndexBound`), the others three ticks. `services` has, per part:

- retrieval: a hook and a command, two daemons, two memories of which one passes the floor;
- local model: two supervisors, two server processes, one caller, a task of each kind;
- sessions: two windows, up to two observations each, summaries from one on,
  one session within the compression's cap, two summaries in the making at a time;
- end of sessions: two windows, two minutes, one line each, both behaviours of
  `rename` onto an existing file;
- queue: one theme, one process per lane, two of them at work at a time, one
  corroboration recorded;
- habits: two sources of one lesson, a designer, two reviewers, one flagged epilogue;
- upkeep: one memory, two cycles, two texts, two conflicts;
- small files: two commands at a time, four in all, two threads, a flag, a migration;
- digests: two weeks with a draft and a finalized epilogue each, the scheduled run and a person.

Each has two actors that can overlap in any step and may be killed anywhere,
which is the shape of every hazard listed for these parts; the violations that
the mutants cause all need two actors or two rounds at most. The run takes
about two and a half minutes on two workers.

Runs that may really stop (bounds on what the world still does) set
`CHECK_DEADLOCK FALSE`.

Each property has a mutant in `PROJECT.json`: a definition of the model changed
as a plausible bug would change the code, under which TLC finds the property
violated. The mutated forms stand in the modules next to the definition
(`Verdict_Hasty` next to `Verdict`).

## Fairness

Only the system's own recurring work is fair, and weakly so.

- `Outbox!FairSpec`: the cron drainer takes steps while it can (`drain_cron.cmd`
  starts it every 15 minutes, and a drain that runs has nothing to wait for) and
  time passes. Hooks, emissions, compactions and crashes are not fair. Crashes and
  exceptions are bounded, which is the assumption that faults do not go on for
  ever.
- `SleepCycle!FairSpec`: time, the workers' steps (again the cron drain), and the end of a
  session that has begun its block. Nobody has to end a session: `NeverWedged`
  assumes in its formula that jobs keep being there.
- The modules of `memory` and `services` state no fairness: they have safety properties only.
- `Promotion!FairSpec`: consolidation passes recur (weekly cron and session
  ends), a command that was started is carried through, the clock goes on.
  References and reviews are not fair.

## What is proved

Every safety property that a passing run checks, its invariants, its action
properties and the refinement, is also a theorem: it holds for all values of the
constants that satisfy the `ASSUME`s, for any number of events, drainers, jobs,
workers, sessions, windows, memories, lanes and commands, and without a bound on
crashes, faults, emissions or deliveries. The bounds that stand as constants in
guards are arbitrary there.

| Module | Theorem | Statement |
|---|---|---|
| `OutboxProofs` | `TypeCorrect` | `Spec => [](TypeOK /\ BatchHeld)` |
| | `LedgerBalances` | `Spec => []Ledger` |
| | `NoEarlyDeath` | `Spec => []DeadMeansExhausted` |
| | `NoRetryIsLost` | `Spec => []AttemptsAreHonest` |
| | `EventsBeforeJobs` | `Spec => []JobsHaveEvents` |
| | `DoneWasProcessed` | `Spec => []DoneMeansProcessed` |
| | `OpenJobsAreKept` | `Spec => OpenJobsSurvive` |
| | `OutboxRefinesLifecycle` | `OneQueue`: `Spec => RefinesLifecycle` |
| `ImportanceProofs` | `ImportanceTypeCorrect` | `Spec => []TypeOK` |
| | `ImportanceNeverOvercounts` | `Spec => []NeverOvercounts` |
| | `ImportanceResetsAnnounced` | `Spec => []ResetsAnnounced` |
| | `ImportanceBelowThreshold` | `Spec => []BelowThreshold` |
| | `ImportanceReflectionsEarned` | `Spec => []ReflectionsEarned` |
| `SleepProofs` | `SleepTypeCorrect` | `Spec => []TypeOK` |
| | `CyclesAreIndexed` | `Spec => []CycleIsIndexed` |
| | `JobsCoalesce` | `Spec => Coalesced` |
| `PromotionProofs` | `PromotionTypeCorrect` | `Spec => []TypeOK` |
| | `NothingIsLost` | `Spec => []NothingLost` |
| | `MemoriesAreRecorded` | `OnePass`: `Spec => []ResolvedIsRecorded` |
| | `MemoriesAreKept` | `OnePass`: `Spec => NeverOverwritten` |
| | `OneCandidateEach` | `OnePass`: `Spec => []OneFilePerSession` |
| | `GraduationsAreCharged` | `OnePass`: `Spec => []RegraduationIsCharged` |
| `MemoryProofs` | `DeniedReadsAreCurrent` | `MemorySpec => []GateServesCurrent` |
| | `EditsAreTraced` | `MemorySpec => []HistoryKeepsReplaced` |
| | `IndexCatchesUpWithDisk` | `MemorySpec => []IndexReflectsDisk` |
| | `FactsAreSuperseded` | `MemorySpec => []OneCurrentFact` |
| `ServingProofs` | `OneModelIsResident` | `RetrievalSpec => []OneResidentModel` |
| | `EmptinessIsTheFloors` | `RetrievalSpec => []EmptyOnlyByFloor` |
| | `OneServerIsSupervised` | `LocalSpec => []ExtraServersAreOrphans` |
| `SessionProofs` | `RowsAreTruthful` | `SessionsSpec => []RowsTellTheTruth` |
| | `NoLineIsLost` | `EndSpec => []LinesAreKept` |
| | `SessionsAreTold` | `EndSpec => []DraftsTellTheSession` |
| | `FiledDraftsAreTold` | `DigestSpec => []FiledIsTold` |
| `UpkeepProofs` | `UnaskedWritesAreSound` | `UpkeepSpec => []UpkeepIsSound` |
| | `SmallFilesAreKept` | `MetaSpec => []MetaFilesAreKept` |
| | `FlagsAreCheap` | `HabitsSpec => []FlagsCostOnce` |
| | `TheQueueIsHonest` | `QueueSpec => []QueueIsHonest` |

*Assumptions.* The named `ASSUME`s of the modules (`BusAssumption`,
`OutboxAssumption`, `SleepAssumption`, `GateAssumption`, ...), which TLC evaluates
in the runs: finitely many events, natural bounds, positive thresholds, a
collection of names that does not meet the markers the code puts in their place.
Two hypotheses stand in the theorems themselves, because the property is false
without them:

- `OnePass` (`PromotionProofs`): promotion passes do not overlap. Two that do
  choose a memory's name from the same directory listing, `_uniquify` being
  called long before the write, and the second overwrites the first's memory; and
  each may write a candidate for one session. `promotion_races` runs two passes
  and checks what survives them; the theorems `PromotionTypeCorrect` and
  `NothingIsLost` have no such hypothesis.
- `OneQueue` (`OutboxProofs`): one drainer, no compaction, no second emission of
  an id, and an `events.jsonl` that can be read. Each of the four makes the file
  take steps that `JobLifecycle` does not have: a stale drainer processes a job
  that is done, a compaction drops a fresh row, a second emission starts a
  settled job again, a failed lookup kills one at once.

*From a part to its run.* `MCServices` runs nine parts that share no variable
and takes steps of the part that `part` names. A behaviour of the run in which
`part` is, say, "queue" is a behaviour of `QueueSpec` in its variables, and one in which
it is something else leaves them at `QueueInit`; so what the theorem says of
`QueueSpec` is what the run says. `RetrievalSpec`, `LocalSpec`, `SessionsSpec`, `EndSpec`,
`DigestSpec`, `UpkeepSpec`, `MetaSpec` and `HabitsSpec` stand in their modules
for the same purpose. `MemorySpec` is the composition itself, with the store that
`watched` names.

*The outbox argument.* `DeadMeansExhausted` is not inductive: the dead row a
drainer is about to append was decided earlier, on attempts read earlier still.
`Ledger` says that every *copy* of the truth is covered by failures that really happened: the row in
the file, the row in a compaction's memory, the row a drainer is about to
append, and each entry of each snapshot a verdict will be taken from
(`Covered`). `fails` and `misses` only grow (`FailuresGrow`), so covered stays
covered (`CoverGrows`); an append or an `os.replace` moves a covered copy into
the file; and `Fail` charges exactly the failure it counts. Racing writers can
only lose increments, so the stale snapshot errs on the safe side.

*The order of the writes.* `JobsHaveEvents` and `DoneMeansProcessed` rest on the
same strengthening. An id is `Quiet` while nobody can have seen it: never
emitted, or emitted once and still between the two appends of `emit_event`.
`Announced` says that a quiet id has no row, neither in the file nor in a
compaction's memory, is not owed, and is in no drainer's list; every other id
was logged. So listed ids are loud (`EventsBeforeJobs`), and the first row of an
id finds no earlier "done" anywhere. `AllPaid` then follows every copy of a
"done" row: the file, the compaction, the row a drainer holds between its
handler's return and its append. Only `Succeed` makes one, and it has just
processed the event; a second emission of the id is the stated exception. For
`OpenJobsAreKept` no append can write "absent", and `SawKept` says that a
compaction's rows still list all it saw open.

*The importance argument.* A worker between its UPDATE and its commit holds the
lock (`OneWriter`), so `total` does not move under it; outside, its `sum` is
bounded by what was granted when it was read, and `granted` only grows.
`ResetsAnnounced` counts the one transaction that may be announced and not
committed (`Pending`). For `ReflectionsEarned` a worker's decision is tied to
its sum (`Decided`: tripped iff the sum reached the threshold), a commit of the
current sum pays in full, and a stale commit without a trip leaves at most
`Threshold - 1`, with a trip costs at most a `Threshold`, for which a score of
at least one was granted (`CommitPays`).

*The queue as its documentation draws it.* Under `OneQueue` the row in the file and
the one drainer's locals go together (`InStep`): what it reaps is "processing", what
it walks is pending with the attempts of its snapshot, the job it holds is
"processing", and the row it is about to append carries the attempts of the
file. From there each append is one abstract step: a reaper's is `Abandon`, a take is
`Begin`, a verdict `Retry`, `Bury` or `Complete`; the handler's return is
`Apply`, a crash is none (`StepsSimulate`). The lists have no duplicates
(`Once`), which is why a job is not taken again while it is held.

*The sleep argument.* For `CycleIsIndexed`, beside a chain that is still
`alone` no other is at work (`OnlyOne`: one that begins ends the claim of those it
meets); so nobody writes an older listing over its own, and what it wrote is
on disk, in its list and then in `MEMORY.md` (`OnDisk`, `InList`). For
`Coalesced` the marker is exactly the time since the last end, as long as none
went unwritten and none was restored (`MarkIsTrue`).

*The promotion argument.* Files and locals cite observations of the session
their name says (`FilesCite`, `PassesCite`, `CuratorCites`), without which an
archived candidate could settle somebody else's rows. `NamesInv` adds, for one pass, that the
name held between `_uniquify` and the write is free, and that a memory is as the
pass remembers it until its rows are committed. `ChargedInv` is the price of
a crash: a candidate that could still graduate has done so at most `torn` times
(`OpenIsCharged`), one whose rows are being committed is no longer such a
candidate, and a name is not used again once the clock has passed it (`Past`).

*The memory arguments.* Each store is proved over any behaviour of `MemoryFiles`
(`FilesMove`: texts are numbered upwards, a file's only grows). A preview that was
not torn is no newer than its file, and has its text when it is as new
(`Honest`). Snapshots are ordered like their slots (`InOrder`), so a slot a later
edit overwrites costs a text that an older root still stands for (`Traced`). The index needs a
case for every hand that still owes work: a stale row is excused, due, or of an
open job (`Covered`), and a worker with an outdated text is followed by
somebody (`Outdated`); the excuses are the code's four ways to stay behind. In the graph
a closed row's `superseded_by` points to a later row of its type, so the last
row of a type holds (`Ordered`).

*The serving arguments.* The port is the mutex: a daemon past `Bind` holds it and
gives it up last (`PortInv`). An answer is empty only in stages where the
process has scored it (`Judged`). A supervised server is that of the lock's
holder, and there is one (`LockInv`), so all others are orphans.

*The session arguments.* `RowsInv` counts what a summariser has read: all there is
unless the session is `late`. Lines are numbered per window (`Numbered`), so a
new line is none of those logged before; a hook's text covers the log it read
(`ReadsTheLog`), a line is in log, archive or `lostLines` (`AllKept`), and an
archived one of a told archive is in a draft or in the hand of the hook that is
about to write one (`AllTold`). A chapter is written once per week, after its
papers are there, except by hand (`WrittenOnce`).

*The upkeep arguments.* A pass's `safe` texts are in the snapshots before it writes
(`SafeIsKept`). What a command promised is in the file, hidden in a truncated
one whose writer still holds it, or mangled (`Promises`); what a migration run
takes for undone had been excused as often as it ran (`RerunsExcused`). What a
flag has cost, and may still cost by the reviews under way, is one vote and the
excuses (`ChargesAdd`). `QueueInv` adds up the candidates' counts as the
cardinality of the set of marks on the files: a write changes it by the
difference of old and new count (`WrittenCounts`), a drain by what the file
said. The lanes hold what they need for that (`LanesHold`): a drafter has
found no file of its name, and `GenesisOnce` makes an epilogue's file absent while its one
uncharged pass is at the model.

## Where the code and its documentation disagree

Three of them have a run, and a finding in `PROJECT.json`:

- `outbox_compaction_loses`: rows appended between `compact_jobs`' read and its
  `os.replace` (`event_bus.py:265`) are gone, a freshly emitted job among them;
  lines 229-230 call compaction behaviour-preserving.
- `promotion_stuck`: a pass killed between `conn.commit()` and the rename
  (`promotion_candidate_generator.py:677`) leaves a resolved candidate in the
  queue that no cycle graduates and that keeps generation away from its session.
- `habits_revote`: a source whose lesson upvotes a habit that another source had
  taught is recorded nowhere (`procedural_lib.py:284`), so every cycle asks the
  model again and votes again; lines 644-645 call the designer idempotent per source.

Others came up while the properties were stated, and shaped them; each follows
from the same models when the property is stated without its qualification:

- Two drainers with one snapshot both process an event (`outbox_worker.py:236`;
  `event_bus.py:4-5` promises the opposite). A job can be pending with
  `MAX_ATTEMPTS` attempts, since the verdict uses the snapshot and the row the
  file (`:249`). A reaper with a stale list reopens a dead job (`:70`). A read
  error of `events.jsonl` dead-letters a job whose event is there
  (`event_bus.py:163`). The header of `outbox_worker.py` (lines 11-13) says the
  reaper waits 5 minutes, line 38 says 60.
- A cached score is added again when its job is delivered again
  (`outbox_worker.py:170`); a stale sum undoes a reset (`importance.py:271`);
  `emit_event` does not raise, so a failed emission still resets the sum (`:309`).
- Two drainers overlap two consolidation chains, for the marker is written at
  the end (`consolidate_worker.py:960`), and then the older listing of memories
  may be the last to be written to `MEMORY.md` (`:1148`). Two sessions that end
  together both queue a job (`session_end.py:435`).
- In the promotion lane: the score gate reads the score of the day the file was
  written, so "another shot next cycle" never comes out differently
  (`promotion_candidate_generator.py:718`); a rejection made after the gate is
  overwritten (`:670`); two overlapping passes write two candidates for a
  session (`:258`), and may overwrite each other's memory (`:625`).

- `provenance.snapshot` means to skip a file whose last snapshot is equal, but
  compares hashes of different things (`provenance.py:112-114`): it never skips.
- A superseded fact that is asserted again stays closed (`kg.py:205-211`).
- A draft is filed on the strength of a mere skeleton, and the retry that
  replaces the skeleton looks only at `epilogues/*.md`; `consolidate_worker.py:308-309`
  says its signal lives in the digest.
- A compressed session that is resumed gets a plain summary and keeps its
  `compressed_at` (`session_summarize.py:267-292`), so it is not compressed again.
- A memory retyped to a protected type during a cycle is still redrafted, since
  the type is read at selection (`consolidate_worker.py:1043-1045` says never).
- The comment at `consolidate_worker.py:552-557` expects a reflection event to
  stay in the outbox when the provider is down; "skipped" settles the job. Genesis,
  too, marks an epilogue before its only model call (`genesis.py:106`).
- `designer`: a source the model declines is not recorded, so the
  declined ones at the head of the order use up each run's calls.
- The hot path never loads the reranker, except when the daemon is disabled
  (`reranker.py:533-535`); `hyde.py:191-197` falls back to the cloud provider with the
  local model's name; a failing decay step in `search_hybrid` keeps the scores it
  has changed so far; the id of a removed last thread is used again.

## What is only model-checked, and what is left out

Only model-checked: liveness, that is `EveryJobSettles`, `NeverWedged`,
`QualifiedGraduates` and `SurfacesUndisturbed`. Liveness under fairness, with its
ENABLED, is out of the prover's reach. So are the three violations, which are
counterexamples and need no proof. The proof modules hold no RECURSIVE operator
and no induction over data: the sums of the model are stated as cardinalities
(`CountsAddUp` over the marks on the files, `Score` by the number of
references), and a memory's name is free by its suffix rather than by a count.

Abstracted: the text of memories and candidates, prompts and model answers
beyond the rating, embeddings and similarities, telemetry, the rendering of
reports. Left out of the modelled components: the CLI reports of `event_bus`
and `importance`; the hook's wall-clock budget is the choice to `Finish` at any
time; the tolerance of one minute for markers ahead of the clock is below
`SleepCycle`'s unit of time; the passes of a cycle that write no memory appear
only as steps that may raise.

Not modelled:

- *Renderings and reports* (`health_sentinel.py`, `obsidian_sync.py`,
  `brain_viz.py`, `graph_viz.py`, `whoami.py`, `audit.py`, `probe.py`,
  `verification.py`, `regenerate_memory_index.py`'s layout, most of
  `boot_ritual.py`): they read the stores and write a page. Nothing reads
  that page back.
- *Floating-point curves* (`decay.py`, `hebbian.py`, the scores of the lanes,
  PageRank): TLC has no reals, and the properties would be about the formulas.
- *Sequential batch jobs by hand* (`consolidate.py`, `db_snapshot.py`).
- *Text work*: redaction, slugs, frontmatter, prompt assembly, search syntax.
- *Set-up*: installation, schemas, paths, platform workarounds.

## Plan

All modules of the plan are written, and every safety property of their runs is
a theorem. What is left:

1. `PromotionProofs`: what two overlapping passes keep. `OneFilePerSession` and
   `RegraduationIsCharged` need a count of the overlaps, as `Importance` counts
   its stale commits; the model would need that history first.
2. `OutboxProofs`: `OneQueue` without "no second emission", against a
   `JobLifecycle` that may be submitted again; and two drainers against an
   abstract queue that may process a job twice, which is what the outbox promises
   to its handlers.
3. A theorem of the product for `MCServices`, should the parts come to share state.
