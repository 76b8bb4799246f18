------------------------------- MODULE Outbox -------------------------------
(***************************************************************************)
(* outbox_worker.py over the event bus: any number of drainers, each a     *)
(* process that runs drain() once and exits.  Hot drainers are PostToolUse *)
(* hooks (at most HotMax jobs, heavy kinds skipped, a wall-clock budget);  *)
(* the others are the cron or manual drainer.                              *)
(*                                                                         *)
(* drain() takes a snapshot of the pending jobs and walks it; update_job   *)
(* reads the current attempts and then appends a row.  Between any two of  *)
(* these the other processes run, and a process may be killed.             *)
(***************************************************************************)
EXTENDS EventBus, Functions

CONSTANTS
    Drainers, HotDrainers,  \* processes that call drain(), with hot_path=True
    KindOf,                 \* KindOf[e]: event["kind"]
    SourceOf,               \* SourceOf[e]: event["platform_source"]
    HotMax, HotWindow,      \* max_jobs of a hook tick; what it looks at (50)
    CronMax,                \* max_jobs of the cron drainer
    MaxAttempts,            \* event_bus.MAX_ATTEMPTS
    StuckAge,               \* STUCK_PROCESSING_TIMEOUT_SEC
    MaxCrashes, MaxFails,   \* bounds: killed drainers, exceptions per event,
    MaxMisses               \* "event-not-found" verdicts per event

HEAVY_KINDS       == {"consolidate", "reflection", "importance_score"}
OBSERVATION_KINDS == {"agent_activity", "duck_signal", "dartagnan_task"}
PROCESSED_KINDS   == HEAVY_KINDS \cup {"memory_write", "reindex"}

ASSUME OutboxAssumption ==
    /\ HotDrainers \subseteq Drainers
    /\ KindOf \in [Events -> STRING]
    /\ SourceOf \in [Events -> STRING]
    /\ HotMax \in Nat /\ HotWindow \in Nat /\ CronMax \in Nat
    /\ MaxAttempts \in Nat \ {0}
    /\ StuckAge \in Nat
    /\ MaxCrashes \in Nat /\ MaxFails \in Nat /\ MaxMisses \in Nat

VARIABLES
    drainer,   \* drainer[w]: what the process w holds in memory
    crashes,   \* how many drainers were killed so far
    runs,      \* history: runs[e], times process_event(e) returned (0, 1, many)
    fails,     \* history: fails[e], times process_event(e) raised
    misses,    \* history: misses[e], times lookup_event(e) returned None
    owed       \* history: ids emitted and not processed since

outVars == <<drainer, crashes, runs, fails, misses, owed>>
vars    == <<busVars, outVars>>

Steps == {"idle", "reap", "requeue", "loop", "mark", "run", "settle"}
OutRow == [status : Statuses, attempts : Nat]

\* The locals of drain(): batch is the list still to walk, snap the attempts of
\* its jobs when it was read, row what update_job is about to append.  What is
\* not read again is reset, so that equal futures are equal states.
NoOutRow == [status |-> "pending", attempts |-> 0]
Idle == [step  |-> "idle", batch |-> <<>>, snap |-> [e \in Events |-> 0],
         count |-> 0, found |-> FALSE, row |-> NoOutRow]

Drainer == [step  : Steps, batch : Seq(Events), snap : [Events -> Nat],
            count : Nat, found : BOOLEAN, row : OutRow]

TypeOK ==
    /\ BusTypeOK
    /\ drainer \in [Drainers -> Drainer]
    /\ crashes \in Nat
    /\ runs \in [Events -> 0..2]
    /\ fails \in [Events -> Nat]
    /\ misses \in [Events -> Nat]
    /\ owed \subseteq Events

Init ==
    /\ BusInit
    /\ drainer = [w \in Drainers |-> Idle]
    /\ crashes = 0
    /\ runs = [e \in Events |-> 0]
    /\ fails = [e \in Events |-> 0]
    /\ misses = [e \in Events |-> 0]
    /\ owed = {}

-----------------------------------------------------------------------------
(* The bus seen from here. *)

Emit(e) ==
    \/ EmitEvent(e) /\ UNCHANGED outVars
    \/ EmitJob(e) /\ owed' = owed \cup {e} /\ UNCHANGED <<drainer, crashes, runs, fails, misses>>
    \/ EmitCut(e) /\ UNCHANGED outVars

Compact == (CompactRead \/ CompactReplace \/ CompactFail) /\ UNCHANGED outVars

Tick == TimePasses /\ UNCHANGED outVars

-----------------------------------------------------------------------------
(* drain(). *)

MaxJobs(w) == IF w \in HotDrainers THEN HotMax ELSE CronMax
Fetch(w)   == IF w \notin HotDrainers THEN CronMax
              ELSE IF HotMax > HotWindow THEN HotMax ELSE HotWindow

Current(w) == Head(drainer[w].batch)

Local(w, locals) == drainer' = [drainer EXCEPT ![w] = locals]

\* update_job's read: attempts of the row now in the file, plus the delta.
\* (Mutant: the attempt is charged whenever a row is written.)
RowFor_AlwaysCharged(e, st, delta) == [status |-> st, attempts |-> job[e].attempts + 1]
RowFor(e, st, delta) == [status |-> st, attempts |-> job[e].attempts + delta]

HistoryUnchanged == UNCHANGED <<crashes, runs, fails, misses, owed>>
FilesUnchanged   == UNCHANGED busVars

\* (Mutant: the timeout is longer than anything ever gets.)
Stuck_Never(e) == job[e].status = "processing" /\ job[e].age > MaxAge
Stuck(e) == job[e].status = "processing" /\ job[e].age > StuckAge

\* reap_stuck: the list of rows left "processing" for too long.
Start(w) ==
    /\ drainer[w].step = "idle"
    /\ \E s \in InFileOrder({e \in Events : Stuck(e)}) :
           Local(w, [drainer[w] EXCEPT !.step = "reap", !.batch = s])
    /\ HistoryUnchanged /\ FilesUnchanged

\* Its update_job(eid, "pending", "reaped-stuck"): read, then append.
ReapRead(w) ==
    /\ drainer[w].step = "reap"
    /\ drainer[w].batch # <<>>
    /\ Local(w, [drainer[w] EXCEPT !.step = "requeue",
                                  !.row = RowFor(Current(w), "pending", 0)])
    /\ HistoryUnchanged /\ FilesUnchanged

ReapAppend(w) ==
    /\ drainer[w].step = "requeue"
    /\ AppendRow(Current(w), drainer[w].row.status, drainer[w].row.attempts)
    /\ Local(w, [drainer[w] EXCEPT !.step = "reap", !.batch = Tail(@), !.row = NoOutRow])
    /\ HistoryUnchanged
    /\ UNCHANGED <<logged, emitting, emits, thisSecond, compaction>>

\* pending = read_jobs("pending", limit=fetch)
ReadPending(w) ==
    /\ drainer[w].step = "reap"
    /\ drainer[w].batch = <<>>
    /\ \E s \in InFileOrder(WithStatus("pending")) :
           LET batch == Limit(s, Fetch(w)) IN
           Local(w, [Idle EXCEPT !.step  = "loop",
                           !.batch = batch,
                           !.snap  = [e \in Events |-> IF e \in Range(batch)
                                                      THEN job[e].attempts ELSE 0]])
    /\ HistoryUnchanged /\ FilesUnchanged

\* The loop is over, max_jobs were processed, or the hot budget is spent.
Finish(w) ==
    /\ drainer[w].step = "loop"
    /\ \/ drainer[w].batch = <<>>
       \/ drainer[w].count >= MaxJobs(w)
       \/ w \in HotDrainers
    /\ Local(w, Idle)
    /\ HistoryUnchanged /\ FilesUnchanged

\* lookup_event: a missing event and a file that cannot be read both give None.
Lookups(e) ==
    IF e \notin logged THEN {FALSE}
    ELSE IF misses[e] < MaxMisses THEN BOOLEAN ELSE {TRUE}

HasWork(w) ==
    /\ drainer[w].step = "loop"
    /\ drainer[w].batch # <<>>
    /\ drainer[w].count < MaxJobs(w)

SkipHeavy(w) ==
    /\ HasWork(w)
    /\ w \in HotDrainers
    /\ KindOf[Current(w)] \in HEAVY_KINDS
    /\ TRUE \in Lookups(Current(w))
    /\ Local(w, [drainer[w] EXCEPT !.batch = Tail(@)])
    /\ HistoryUnchanged /\ FilesUnchanged

Take(w) ==
    /\ HasWork(w)
    /\ \E found \in Lookups(Current(w)) :
         /\ ~(w \in HotDrainers /\ found /\ KindOf[Current(w)] \in HEAVY_KINDS)
         /\ Local(w, [drainer[w] EXCEPT !.step  = "mark",
                                       !.found = found,
                                       !.row   = RowFor(Current(w), "processing", 0)])
    /\ HistoryUnchanged /\ FilesUnchanged

Mark(w) ==
    /\ drainer[w].step = "mark"
    /\ AppendRow(Current(w), drainer[w].row.status, drainer[w].row.attempts)
    /\ Local(w, [drainer[w] EXCEPT !.step = "run", !.row = NoOutRow])
    /\ HistoryUnchanged
    /\ UNCHANGED <<logged, emitting, emits, thisSecond, compaction>>

Settling(w, row) ==
    Local(w, [drainer[w] EXCEPT !.step = "settle", !.row = row])

\* "event-not-found": dead at once, whatever the attempts.
NotFound(w) ==
    /\ drainer[w].step = "run"
    /\ ~drainer[w].found
    /\ misses' = [misses EXCEPT ![Current(w)] = @ + 1]
    /\ Settling(w, RowFor(Current(w), "dead", 1))
    /\ UNCHANGED <<crashes, runs, fails, owed>> /\ FilesUnchanged

\* The kind gate: an untrusted source may only send observations.
Quarantined(e) == SourceOf[e] # "claude_code" /\ KindOf[e] \notin OBSERVATION_KINDS

\* process_event returned: processed, quarantined, or nothing to do.
Succeed(w) ==
    LET e == Current(w) IN
    /\ drainer[w].step = "run"
    /\ drainer[w].found
    /\ runs' = [runs EXCEPT ![e] = IF @ < 2 THEN @ + 1 ELSE @]
    /\ owed' = owed \ {e}
    /\ Settling(w, RowFor(e, "done", 0))
    /\ UNCHANGED <<crashes, fails, misses>> /\ FilesUnchanged

\* The status after one more failure on top of n attempts.  (Mutants: the
\* status the old worker used; one retry too many; one too few; the exception
\* is swallowed.)
Verdict_Failed(n)    == IF n + 1 >= MaxAttempts THEN "dead" ELSE "failed"
Verdict_LastRetry(n) == IF n + 1 > MaxAttempts THEN "dead" ELSE "pending"
Verdict_Hasty(n)     == IF n + 2 >= MaxAttempts THEN "dead" ELSE "pending"
Verdict_Swallow(n)   == IF n + 1 >= MaxAttempts THEN "done" ELSE "pending"
Verdict(n)           == IF n + 1 >= MaxAttempts THEN "dead" ELSE "pending"

\* process_event raised: the verdict uses the attempts of the SNAPSHOT, the
\* row that is appended the attempts now in the file.
Fail(w) ==
    LET e == Current(w) IN
    /\ drainer[w].step = "run"
    /\ drainer[w].found
    /\ ~Quarantined(e)
    /\ KindOf[e] \in PROCESSED_KINDS
    /\ fails[e] < MaxFails
    /\ fails' = [fails EXCEPT ![e] = @ + 1]
    /\ Settling(w, RowFor(e, Verdict(drainer[w].snap[e]), 1))
    /\ UNCHANGED <<crashes, runs, misses, owed>> /\ FilesUnchanged

Settle(w) ==
    /\ drainer[w].step = "settle"
    /\ AppendRow(Current(w), drainer[w].row.status, drainer[w].row.attempts)
    /\ Local(w, [Idle EXCEPT !.step  = "loop",
                             !.batch = Tail(drainer[w].batch),
                             !.snap  = [drainer[w].snap EXCEPT ![Current(w)] = 0],
                             !.count = drainer[w].count + 1])
    /\ HistoryUnchanged
    /\ UNCHANGED <<logged, emitting, emits, thisSecond, compaction>>

\* The process is killed: a hook over its budget, a closed terminal, a reboot.
Crash(w) ==
    /\ drainer[w].step # "idle"
    /\ crashes < MaxCrashes
    /\ crashes' = crashes + 1
    /\ Local(w, Idle)
    /\ UNCHANGED <<runs, fails, misses, owed>> /\ FilesUnchanged

DrainStep(w) ==
    \/ Start(w) \/ ReapRead(w) \/ ReapAppend(w) \/ ReadPending(w)
    \/ SkipHeavy(w) \/ Take(w) \/ Mark(w)
    \/ NotFound(w) \/ Succeed(w) \/ Fail(w) \/ Settle(w) \/ Finish(w)

Next ==
    \/ \E e \in Events : Emit(e)
    \/ Compact
    \/ Tick
    \/ \E w \in Drainers : DrainStep(w) \/ Crash(w)

\* A drain that began keeps running and cron starts it again; time goes on.
\* Nobody owes an emission, a compaction or a crash.
Fairness ==
    /\ \A w \in Drainers \ HotDrainers : WF_vars(DrainStep(w))
    /\ WF_vars(Tick)

Spec     == Init /\ [][Next]_vars
FairSpec == Spec /\ Fairness

-----------------------------------------------------------------------------
(* What the outbox promises. *)

\* A job is dead-lettered only after MAX_ATTEMPTS real failures of
\* process_event, whatever stale snapshots, reaping and lost updates do to
\* the counter; the one exception is a lookup that could not read the event.
DeadMeansExhausted ==
    \A e \in Events :
        job[e].status = "dead" => fails[e] >= MaxAttempts \/ misses[e] > 0

\* attempts never runs ahead of the failures that really happened, so no event
\* loses one of its retries.
AttemptsAreHonest ==
    \A e \in Events : job[e].attempts <= fails[e] + misses[e]

\* A job marked done has been processed since it was emitted.  (Emitted twice
\* in its second, it may have been processed before the second time.)
DoneMeansProcessed ==
    \A e \in Events : job[e].status = "done" => e \notin owed \/ emits[e] > 1

\* Every id in jobs.jsonl can be looked up: emit_event writes the event first.
JobsHaveEvents == Listed \subseteq logged

\* A job that is not done leaves jobs.jsonl only when compact_jobs overwrites
\* the file with what it read before the job was open: a job it saw open, of
\* whatever age, is never dropped.
OpenJobsSurvive ==
    [][\A e \in Open :
         job'[e].status = "absent" => compaction.on /\ e \notin compaction.saw]_vars

\* A drainer inside the treatment of a job still has that job in its batch.
BatchHeld ==
    \A w \in Drainers :
        drainer[w].step \in {"requeue", "mark", "run", "settle"} => drainer[w].batch # <<>>

\* Why the first two hold at any interleaving: every row, in the file, in a
\* compaction's memory or about to be appended by a drainer, is covered by
\* failures that happened, and so is every snapshot a verdict is taken from.
Covered(e, row) ==
    /\ row.attempts <= fails[e] + misses[e]
    /\ row.status = "dead" => fails[e] >= MaxAttempts \/ misses[e] > 0

RowsCovered ==
    \A e \in Events : Covered(e, job[e]) /\ Covered(e, compaction.rows[e])

DrainersCovered ==
    \A w \in Drainers :
        /\ \A e \in Events : drainer[w].snap[e] <= fails[e] + misses[e]
        /\ drainer[w].step \in {"requeue", "mark", "settle"} => Covered(Current(w), drainer[w].row)

Ledger == BatchHeld /\ RowsCovered /\ DrainersCovered

\* compact_jobs "is behavior-preserving" (event_bus.py:229): it changes what
\* read_jobs returns for no job but an old done one.
CompactionPreserves ==
    [][CompactReplace =>
         \A e \in Events : job'[e] = job[e] \/ e \in Expired]_vars

\* Every job that reaches the file is settled (again and again, if a stale
\* writer reopens it): the worker retries, reaps and dead-letters.
EveryJobSettles ==
    \A e \in Events :
        job[e].status \in {"pending", "processing"} ~> job[e].status \in {"done", "dead"}

\* With one drainer the jobs file is the retry queue its documentation draws.
Lifecycle == INSTANCE JobLifecycle WITH
    Jobs    <- Events,
    state   <- [e \in Events |-> job[e].status],
    tries   <- [e \in Events |-> job[e].attempts],
    applied <- {e \in Events : runs[e] > 0}

RefinesLifecycle == Lifecycle!Spec
=============================================================================
