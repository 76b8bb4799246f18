----------------------------- MODULE SleepCycle -----------------------------
(***************************************************************************)
(* The sleep cycle: session_end.py queues a consolidate job when none was  *)
(* queued for a while, outbox workers and the weekly cron run it with      *)
(* consolidate_worker.process_consolidate, which skips the heavy chain of  *)
(* passes when one ended within the coalesce window.                       *)
(*                                                                         *)
(* Two marker files, each only an mtime, do all the coordination: one of   *)
(* the producers, one of the workers.  Mtimes are ages here.  FarFuture is *)
(* an mtime a backup or a clock jump left far ahead of the clock; a        *)
(* missing marker behaves as one of age MaxAge.  The tolerance of a minute for     *)
(* markers a hair ahead of the clock is below the unit of time here.       *)
(***************************************************************************)
EXTENDS Integers, FiniteSets

CONSTANTS
    Sessions,    \* session_end processes; each queues at most one job at a time
    Workers,     \* processes that run process_consolidate
    Interval,    \* session_end.CONSOLIDATE_MIN_INTERVAL_SEC
    Window,      \* CONSOLIDATE_COALESCE_SEC
    Memories,    \* memories the passes of a cycle may promote
    MaxAge,      \* bound: ages saturate here
    MaxRestores, \* bound: backups restored
    MaxForced,   \* bound: manual or weekly `run`s
    MaxRaises,   \* bound: unwrapped passes that raise
    MaxCrashes,  \* bound: killed workers, and unwritten producer markers
    MaxUnstamped,\* bound: worker markers that could not be written
    MaxTogether  \* bound: how many of these in one behavior

FarFuture == -1
NoJob     == "none"

ASSUME SleepAssumption ==
    /\ Interval \in Nat /\ Window \in Nat \ {0}
    /\ MaxAge \in Nat /\ MaxAge >= Interval /\ MaxAge >= Window
    /\ NoJob \notin Sessions
    /\ MaxRestores \in Nat /\ MaxForced \in Nat
    /\ MaxRaises \in Nat /\ MaxCrashes \in Nat /\ MaxUnstamped \in Nat /\ MaxTogether \in Nat

VARIABLES
    queuedMark,  \* age of .last_consolidate, the producers' marker
    doneMark,    \* age of .last_worker_consolidate, the workers' marker
    ending,      \* ending[s]: where session_end of s is
    open,        \* consolidate jobs not settled in the outbox
    worker,      \* worker[w]: where process_consolidate of w is; its field
                 \*   alone is history: no other chain ran since it began
    spine,       \* memories on disk
    index,       \* memories listed in MEMORY.md
    used,        \* how often each bounded event happened
    sinceDone    \* history: age of the end of the last chain of passes

marks == <<queuedMark, doneMark>>
files == <<spine, index>>
vars  == <<marks, ending, open, worker, files, used, sinceDone>>

Ages  == 0..MaxAge
Steps == {"idle", "legacy", "promote", "list", "write", "stamp", "settle"}
Idle  == [step |-> "idle", job |-> NoJob, forced |-> FALSE, raised |-> FALSE,
          wrote |-> {}, listed |-> {}, alone |-> FALSE]
Nothing == [restores |-> 0, forced |-> 0, raises |-> 0, crashes |-> 0, unstamped |-> 0]

TypeOK ==
    /\ queuedMark \in Ages \cup {FarFuture} /\ doneMark \in Ages \cup {FarFuture}
    /\ ending \in [Sessions -> {"idle", "due", "queued"}]
    /\ open \subseteq Sessions
    /\ worker \in [Workers -> [step : Steps, job : Sessions \cup {NoJob}, forced : BOOLEAN,
                               raised : BOOLEAN, wrote : SUBSET Memories,
                               listed : SUBSET Memories, alone : BOOLEAN]]
    /\ spine \subseteq Memories /\ index \subseteq Memories
    /\ used \in [restores : 0..MaxRestores, forced : 0..MaxForced,
                 raises : 0..MaxRaises, crashes : 0..MaxCrashes,
                 unstamped : 0..MaxUnstamped]
    /\ sinceDone \in Ages

Init ==
    /\ queuedMark = MaxAge /\ doneMark = MaxAge
    /\ ending = [s \in Sessions |-> "idle"]
    /\ open = {}
    /\ worker = [w \in Workers |-> Idle]
    /\ spine = {} /\ index = {}
    /\ used = Nothing
    /\ sinceDone = MaxAge

At(w, step)   == worker[w].step = step
Go(w, locals) == worker' = [worker EXCEPT ![w] = locals]
Together == used.restores + used.forced + used.raises + used.crashes + used.unstamped
Spend(what, bound) ==
    /\ used[what] < bound
    /\ Together < MaxTogether
    /\ used' = [used EXCEPT ![what] = @ + 1]

-----------------------------------------------------------------------------
(* The producer: session_end.main, its last block. *)

\* _consolidate_due.
Due == queuedMark = FarFuture \/ queuedMark >= Interval

CheckDue(s) ==
    /\ ending[s] = "idle"
    /\ s \notin open
    /\ Due
    /\ ending' = [ending EXCEPT ![s] = "due"]
    /\ UNCHANGED <<marks, open, worker, files, used, sinceDone>>

Emit(s) ==
    /\ ending[s] = "due"
    /\ ending' = [ending EXCEPT ![s] = "queued"]
    /\ open' = open \cup {s}
    /\ UNCHANGED <<marks, worker, files, used, sinceDone>>

\* The marker is written, or its writing fails and is ignored.
MarkQueued(s) ==
    /\ ending[s] = "queued"
    /\ ending' = [ending EXCEPT ![s] = "idle"]
    /\ \/ queuedMark' = 0 /\ UNCHANGED used
       \/ Spend("crashes", MaxCrashes) /\ UNCHANGED queuedMark
    /\ UNCHANGED <<doneMark, open, worker, files, sinceDone>>

-----------------------------------------------------------------------------
(* The worker: process_consolidate. *)

\* _consolidate_recently_done.  (Mutants: a marker from the future counts as
\* recent; the window is one unit short.)
RecentlyDone_Future == doneMark < Window
RecentlyDone_Short  == doneMark \in 0..(Window - 2)
RecentlyDone        == doneMark \in 0..(Window - 1)

InPass(w) == worker[w].step \in {"legacy", "promote", "list", "write", "stamp"}

Begin(w, job, forced) ==
    worker' = [v \in Workers |->
        IF v = w
        THEN [step |-> "legacy", job |-> job, forced |-> forced, raised |-> FALSE,
              wrote |-> {}, listed |-> {}, alone |-> \A u \in Workers : ~InPass(u)]
        ELSE [worker[v] EXCEPT !.alone = FALSE]]

StartPass(w, s) ==
    /\ At(w, "idle")
    /\ s \in open
    /\ ~RecentlyDone
    /\ Begin(w, s, FALSE)
    /\ UNCHANGED <<marks, ending, open, files, used, sinceDone>>

\* "skipped: coalesced": the handler returns and the job is done.
Coalesce(w, s) ==
    /\ At(w, "idle")
    /\ s \in open
    /\ RecentlyDone
    /\ open' = open \ {s}
    /\ UNCHANGED <<marks, ending, worker, files, used, sinceDone>>

\* `consolidate_worker.py run`: no job, no guard.
StartForced(w) ==
    /\ At(w, "idle")
    /\ Spend("forced", MaxForced)
    /\ Begin(w, NoJob, TRUE)
    /\ UNCHANGED <<marks, ending, open, files, sinceDone>>

\* near_dup, weight_rerank, stale_functional, expiry, draft_triage: the passes
\* without a try of their own.  One that raises ends the chain.
LegacyPasses(w) ==
    /\ At(w, "legacy")
    /\ \/ Go(w, [worker[w] EXCEPT !.step = "promote"]) /\ UNCHANGED used
       \/ /\ Spend("raises", MaxRaises)
          /\ Go(w, [worker[w] EXCEPT !.step = "stamp", !.raised = TRUE])
    /\ UNCHANGED <<marks, ending, open, files, sinceDone>>

\* The fail-soft passes; those that write memories are auto_accept and
\* auto_promote (observer candidates, clustered epilogues).
Promote(w) ==
    /\ At(w, "promote")
    /\ \E new \in SUBSET (Memories \ spine) :
         /\ spine' = spine \cup new
         /\ Go(w, [worker[w] EXCEPT !.step = "list", !.wrote = new])
    /\ UNCHANGED <<marks, ending, open, index, used, sinceDone>>

\* The last pass regenerates MEMORY.md: list the memories, render, write.
\* (Mutant: the list is taken before the cycle's own memories.)
Listing_BeforePasses(w) == spine \ worker[w].wrote
Listing(w)              == spine

ListMemories(w) ==
    /\ At(w, "list")
    /\ Go(w, [worker[w] EXCEPT !.step = "write", !.listed = Listing(w)])
    /\ UNCHANGED <<marks, ending, open, files, used, sinceDone>>

WriteIndex(w) ==
    /\ At(w, "write")
    /\ index' = worker[w].listed
    /\ Go(w, [worker[w] EXCEPT !.step = "stamp", !.listed = {}])
    /\ UNCHANGED <<marks, ending, open, spine, used, sinceDone>>

\* finally: _mark_consolidate_done, whose failure is ignored.
Stamp(w) ==
    /\ At(w, "stamp")
    /\ \/ doneMark' = 0 /\ UNCHANGED used
       \/ Spend("unstamped", MaxUnstamped) /\ UNCHANGED doneMark
    /\ sinceDone' = 0
    /\ Go(w, [worker[w] EXCEPT !.step = "settle", !.wrote = {}, !.alone = FALSE])
    /\ UNCHANGED <<queuedMark, ending, open, files>>

\* The job is done, or put back to pending when the chain raised; a forced run
\* has none.
Requeued(w) == IF worker[w].raised THEN open ELSE open \ {worker[w].job}

Settle(w) ==
    /\ At(w, "settle")
    /\ open' = Requeued(w)
    /\ Go(w, Idle)
    /\ UNCHANGED <<marks, ending, files, used, sinceDone>>

\* A killed worker: no finally, the job stays open until it is reaped.
Crash(w) ==
    /\ ~At(w, "idle")
    /\ Spend("crashes", MaxCrashes)
    /\ Go(w, Idle)
    /\ UNCHANGED <<marks, ending, open, files, sinceDone>>

-----------------------------------------------------------------------------
\* A backup is restored, or the clock jumps: a marker is far ahead, or gone.
Restore ==
    /\ Spend("restores", MaxRestores)
    /\ \/ doneMark' \in {FarFuture, MaxAge} /\ UNCHANGED queuedMark
       \/ queuedMark' \in {FarFuture, MaxAge} /\ UNCHANGED doneMark
    /\ UNCHANGED <<ending, open, worker, files, sinceDone>>

Older(a) == IF a = FarFuture \/ a = MaxAge THEN a ELSE a + 1

TimePasses ==
    /\ queuedMark' = Older(queuedMark) /\ doneMark' = Older(doneMark)
    /\ sinceDone' = Older(sinceDone)
    /\ UNCHANGED <<ending, open, worker, files, used>>

WorkerStep(w) ==
    \/ \E s \in Sessions : StartPass(w, s) \/ Coalesce(w, s)
    \/ LegacyPasses(w) \/ Promote(w) \/ ListMemories(w) \/ WriteIndex(w)
    \/ Stamp(w) \/ Settle(w)

Next ==
    \/ \E s \in Sessions : CheckDue(s) \/ Emit(s) \/ MarkQueued(s)
    \/ \E w \in Workers : WorkerStep(w) \/ StartForced(w) \/ Crash(w)
    \/ Restore
    \/ TimePasses

\* Time goes on and the drain cron keeps working; nobody has to end a session.
Fairness ==
    /\ WF_vars(TimePasses)
    /\ \A w \in Workers : WF_vars(WorkerStep(w))
    /\ \A s \in Sessions : WF_vars(Emit(s) \/ MarkQueued(s))

Spec     == Init /\ [][Next]_vars
FairSpec == Spec /\ Fairness

-----------------------------------------------------------------------------
(* What the sleep cycle promises. *)

\* No queued job starts the heavy chain within the window of the end of one,
\* whether that one ended well or raised (unless its marker could not be written,
\* or was lost to a backup): a backlog or a retry never runs it again and again.
Coalesced ==
    [][\A w \in Workers :
         ~InPass(w) /\ InPass(w)' /\ ~worker'[w].forced
            => sinceDone >= Window \/ used.unstamped + used.restores > 0]_vars

\* A chain that ran to its end, with no other chain beside it, leaves what it
\* wrote listed in MEMORY.md.  (Beside another one it may not: the chain that
\* listed the memories earlier may write the index later.)
CycleIsIndexed ==
    \A w \in Workers :
        At(w, "stamp") /\ ~worker[w].raised /\ worker[w].alone => worker[w].wrote \subseteq index

\* No marker, however wrong its time, switches consolidation off for good:
\* while jobs keep coming, chains keep starting.
NeverWedged ==
    ([]<>(open # {})) => []<>(\E w \in Workers : InPass(w))
=============================================================================
