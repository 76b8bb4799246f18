----------------------------- MODULE Importance -----------------------------
(***************************************************************************)
(* importance.py as the outbox runs it: importance_score jobs are handed   *)
(* to workers at least once (Outbox), each rates the memory as it is on    *)
(* disk NOW, stores the rating under the content's hash, and adds it to    *)
(* the running sum of the memory's type; a sum that reaches the threshold  *)
(* is reset and a reflection event is emitted.                             *)
(*                                                                         *)
(* memory.db is shared.  Python's sqlite3 runs the SELECT of accumulate()  *)
(* in autocommit and opens the transaction at the first UPDATE, so the     *)
(* read is outside the transaction; the event is emitted inside it.        *)
(***************************************************************************)
EXTENDS Naturals

CONSTANTS
    Jobs,          \* importance_score jobs, one per memory write
    Memories,      \* memory files
    FileOf,        \* FileOf[j]: the file the job's payload names
    Tracked,       \* memories whose type is in TRACKED_CATEGORIES (one type here)
    Workers,       \* processes that drain the outbox
    Answers,       \* the integers the model may answer
    Threshold,     \* reflection_state.threshold
    MaxWrites,     \* bound: how often one file is written
    MaxDeliveries, \* bound: how often one job is handed out
    MaxCrashes,    \* bound: killed workers
    MaxFaults      \* bound: failed database and file operations

NoOne == "no one"

ASSUME ImportanceAssumption ==
    /\ NoOne \notin Workers /\ NoOne \notin Jobs
    /\ FileOf \in [Jobs -> Memories]
    /\ Tracked \subseteq Memories
    /\ Answers \subseteq Nat
    /\ Threshold \in Nat \ {0}
    /\ MaxWrites \in Nat /\ MaxDeliveries \in Nat /\ MaxCrashes \in Nat
    /\ MaxFaults \in Nat

VARIABLES
    content,     \* content[m]: version of the file, its content hash
    open,        \* jobs in the outbox that are not settled
    deliveries,  \* deliveries[j]: how often j was handed to a worker
    scores,      \* scores[m][v]: cached rating of version v of m, 0 if none
    total,       \* committed accumulated_score of the tracked type
    writer,      \* who holds memory.db's write lock
    worker,      \* worker[w]: what w holds while it handles its job
    crashes, faults,
    granted,     \* history: sum of all scores whose addition was committed
    stale,       \* history: commits of a sum another worker had changed since it was read
    fired,       \* history: reflection events on file
    resets,      \* history: committed resets of the sum
    swallowed    \* history: reflection events emit_event failed to write

dbVars   == <<scores, total, writer>>
busVars  == <<content, open, deliveries>>
histVars == <<granted, stale, fired, resets, swallowed>>
vars     == <<dbVars, busVars, worker, crashes, faults, histVars>>

Versions == 0..MaxWrites
Ratings  == 1..10
Steps == {"idle", "lookup", "rate", "store", "read", "update", "emit", "commit", "settle"}
Idle  == [step |-> "idle", job |-> NoOne, version |-> 0, score |-> 0, sum |-> 0, tripped |-> FALSE]

TypeOK ==
    /\ content \in [Memories -> Versions]
    /\ open \subseteq Jobs
    /\ deliveries \in [Jobs -> Nat]
    /\ scores \in [Memories -> [Versions -> {0} \cup Ratings]]
    /\ total \in Nat
    /\ writer \in Workers \cup {NoOne}
    /\ worker \in [Workers -> [step : Steps, job : Jobs \cup {NoOne}, version : Versions,
                               score : {0} \cup Ratings, sum : Nat, tripped : BOOLEAN]]
    /\ crashes \in Nat /\ faults \in Nat
    /\ granted \in Nat
    /\ stale \in Nat
    /\ fired \in Nat /\ resets \in Nat /\ swallowed \in Nat

Init ==
    /\ content = [m \in Memories |-> 0]
    /\ open = {}
    /\ deliveries = [j \in Jobs |-> 0]
    /\ scores = [m \in Memories |-> [v \in Versions |-> 0]]
    /\ total = 0
    /\ writer = NoOne
    /\ worker = [w \in Workers |-> Idle]
    /\ crashes = 0 /\ faults = 0
    /\ granted = 0
    /\ stale = 0
    /\ fired = 0 /\ resets = 0 /\ swallowed = 0

-----------------------------------------------------------------------------
File(w) == FileOf[worker[w].job]
At(w, step) == worker[w].step = step
Go(w, locals) == worker' = [worker EXCEPT ![w] = locals]
Fault == faults < MaxFaults /\ faults' = faults + 1

\* A memory is written: the PostToolUse hook emits importance_score for it.
WriteMemory(j) ==
    /\ j \notin open
    /\ deliveries[j] = 0
    /\ content[FileOf[j]] < MaxWrites
    /\ content' = [content EXCEPT ![FileOf[j]] = @ + 1]
    /\ open' = open \cup {j}
    /\ UNCHANGED <<dbVars, deliveries, worker, crashes, faults, histVars>>

\* A worker is handed the job and loads the file.  An open job may be handed
\* to a second worker, and again after a crash.
Load(w, j) ==
    /\ At(w, "idle")
    /\ j \in open
    /\ deliveries[j] < MaxDeliveries
    /\ deliveries' = [deliveries EXCEPT ![j] = @ + 1]
    /\ Go(w, [Idle EXCEPT !.step = "lookup", !.job = j, !.version = content[FileOf[j]]])
    /\ UNCHANGED <<dbVars, content, open, crashes, faults, histVars>>

\* _get_cached_score: a hit returns the stored rating; a miss, or an error,
\* asks the model.
Lookup(w) ==
    /\ At(w, "lookup")
    /\ LET hit == scores[File(w)][worker[w].version] IN
         \/ /\ hit # 0
            /\ Go(w, [worker[w] EXCEPT !.score = hit,
                        !.step = IF File(w) \in Tracked THEN "read" ELSE "settle"])
            /\ UNCHANGED faults
         \/ /\ hit = 0
            /\ Go(w, [worker[w] EXCEPT !.step = "rate"])
            /\ UNCHANGED faults
         \/ /\ hit # 0 /\ Fault
            /\ Go(w, [worker[w] EXCEPT !.step = "rate"])
    /\ UNCHANGED <<dbVars, busVars, crashes, histVars>>

\* _parse_score_response keeps a rating in 1..10.  (Mutant: any integer.)
Valid_Any(a) == a \in Nat
Valid(a)     == a \in Ratings

\* The provider rates the memory; when anything on the way fails, or the
\* answer is not a rating, score_memory returns None and nothing is added.
Rate(w) ==
    /\ At(w, "rate")
    /\ \/ \E a \in Answers :
             Valid(a) /\ Go(w, [worker[w] EXCEPT !.score = a, !.step = "store"])
       \/ Go(w, [worker[w] EXCEPT !.step = "settle"])
    /\ UNCHANGED <<dbVars, busVars, crashes, faults, histVars>>

\* _store_score: INSERT OR REPLACE, whose failure is swallowed.
Store(w) ==
    /\ At(w, "store")
    /\ \/ /\ writer = NoOne
          /\ scores' = [scores EXCEPT ![File(w)][worker[w].version] = worker[w].score]
          /\ UNCHANGED faults
       \/ Fault /\ UNCHANGED scores
    /\ Go(w, [worker[w] EXCEPT !.step = IF File(w) \in Tracked THEN "read" ELSE "settle"])
    /\ UNCHANGED <<total, writer, busVars, crashes, histVars>>

\* accumulate(): SELECT accumulated_score.
ReadSum(w) ==
    /\ At(w, "read")
    /\ Go(w, [worker[w] EXCEPT !.step = "update", !.sum = total + worker[w].score])
    /\ UNCHANGED <<dbVars, busVars, crashes, faults, histVars>>

\* The first UPDATE opens the transaction; a sum at the threshold is reset in
\* the same transaction, and announced before it is committed.  (Mutants: the
\* sum has to exceed the threshold; the reset is committed without the event.)
Trips_Exceeds(sum) == sum > Threshold
Trips(sum) == sum >= Threshold

AfterUpdate_CommitFirst(sum) == "commit"
AfterUpdate(sum) == IF Trips(sum) THEN "emit" ELSE "commit"

UpdateSum(w) ==
    /\ At(w, "update")
    /\ writer = NoOne
    /\ writer' = w
    /\ Go(w, [worker[w] EXCEPT !.tripped = Trips(worker[w].sum),
                               !.step = AfterUpdate(worker[w].sum)])
    /\ UNCHANGED <<scores, total, busVars, crashes, faults, histVars>>

\* The lock is not free within busy_timeout: accumulate() returns an error
\* dict, the score is not added and the job is done.
LockTimeout(w) ==
    /\ At(w, "update")
    /\ writer # NoOne
    /\ Fault
    /\ Go(w, [worker[w] EXCEPT !.step = "settle"])
    /\ UNCHANGED <<dbVars, busVars, crashes, histVars>>

\* emit_event("reflection"): it never raises, a failed append returns None.
EmitReflection(w) ==
    /\ At(w, "emit")
    /\ \/ fired' = fired + 1 /\ UNCHANGED <<faults, swallowed>>
       \/ Fault /\ swallowed' = swallowed + 1 /\ UNCHANGED fired
    /\ Go(w, [worker[w] EXCEPT !.step = "commit"])
    /\ UNCHANGED <<dbVars, busVars, crashes, granted, stale, resets>>

\* What the transaction leaves in the row.  (Mutants: the score is added
\* twice; the reset keeps the addition that tripped it.)
NewTotal_Twice(w) == IF worker[w].tripped THEN 0 ELSE worker[w].sum + worker[w].score
NewTotal_KeepsLast(w) == IF worker[w].tripped THEN worker[w].score ELSE worker[w].sum
NewTotal(w) == IF worker[w].tripped THEN 0 ELSE worker[w].sum

Commit(w) ==
    /\ At(w, "commit")
    /\ writer' = NoOne
    /\ total' = NewTotal(w)
    /\ granted' = granted + worker[w].score
    /\ stale' = IF worker[w].sum = total + worker[w].score THEN stale ELSE stale + 1
    /\ resets' = IF worker[w].tripped THEN resets + 1 ELSE resets
    /\ Go(w, [worker[w] EXCEPT !.step = "settle"])
    /\ UNCHANGED <<scores, busVars, crashes, faults, fired, swallowed>>

CommitFails(w) ==
    /\ At(w, "commit")
    /\ Fault
    /\ writer' = NoOne
    /\ Go(w, [worker[w] EXCEPT !.step = "settle"])
    /\ UNCHANGED <<scores, total, busVars, crashes, histVars>>

\* The handler returned, whatever it returned: drain() writes "done".
Settle(w) ==
    /\ At(w, "settle")
    /\ open' = open \ {worker[w].job}
    /\ Go(w, Idle)
    /\ UNCHANGED <<dbVars, content, deliveries, crashes, faults, histVars>>

\* The worker is killed: its transaction is rolled back, its job stays open.
Crash(w) ==
    /\ ~At(w, "idle")
    /\ crashes < MaxCrashes
    /\ crashes' = crashes + 1
    /\ writer' = IF writer = w THEN NoOne ELSE writer
    /\ Go(w, Idle)
    /\ UNCHANGED <<scores, total, busVars, faults, histVars>>

WorkerStep(w) ==
    \/ \E j \in Jobs : Load(w, j)
    \/ Lookup(w) \/ Rate(w) \/ Store(w) \/ ReadSum(w) \/ UpdateSum(w) \/ LockTimeout(w)
    \/ EmitReflection(w) \/ Commit(w) \/ CommitFails(w) \/ Settle(w)

Next ==
    \/ \E j \in Jobs : WriteMemory(j)
    \/ \E w \in Workers : WorkerStep(w) \/ Crash(w)

Spec == Init /\ [][Next]_vars

-----------------------------------------------------------------------------
(* What the accumulator promises. *)

\* Only the process with an open transaction is between its UPDATE and its
\* commit, so the reset and the addition of two workers never mix.
OneWriter ==
    \A w \in Workers : worker[w].step \in {"emit", "commit"} => writer = w

\* Whatever workers interleave, crash or fail, the sum never exceeds what was
\* really added: a lost update loses importance, it never invents any.
NeverOvercounts ==
    /\ total <= granted
    /\ \A w \in Workers :
           worker[w].step \in {"update", "emit", "commit"} =>
               worker[w].sum <= granted + worker[w].score

\* The committed sum stays under the threshold: no trip is left for a next
\* write that may never come.
BelowThreshold == total < Threshold

\* Every committed reset was announced before (or its event was refused by
\* the disk): a crash can repeat a reflection but never loses one.
Pending == IF \E w \in Workers : At(w, "commit") /\ worker[w].tripped THEN 1 ELSE 0
ResetsAnnounced == resets + Pending <= fired + swallowed

\* Each reflection is paid for by a threshold's worth of added scores.  Only a
\* commit of a stale sum can credit something twice, and never a threshold's
\* worth: at most what the sum was before the reset it undoes.
ReflectionsEarned ==
    Threshold * resets + total <= granted + (Threshold - 1) * stale
=============================================================================
