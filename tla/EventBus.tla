------------------------------ MODULE EventBus ------------------------------
(***************************************************************************)
(* event_bus.py: the two append-only files every other part talks through. *)
(*                                                                         *)
(*   events.jsonl  the events ever emitted            (variable logged)    *)
(*   jobs.jsonl    rows {event_id, status, attempts, updated_at}; readers  *)
(*                 collapse it to the LATEST row per event_id, in the      *)
(*                 order the ids first appear  (variables job and ahead)   *)
(*                                                                         *)
(* Files are shared by every hook, session and cron process; there is no   *)
(* lock.  One append is atomic, a read-then-append or read-then-replace is *)
(* not: those are two actions.                                             *)
(***************************************************************************)
EXTENDS Naturals, Sequences, FiniteSets

CONSTANTS
    Events,      \* the event ids: content hashes of (second, session, kind, payload)
    KeepAge,     \* compact_jobs: a "done" row older than this is dropped
    MaxAge,      \* bound: ages saturate here, above every age the code compares with
    MaxEmits,    \* bound: how often one id is emitted within its second
    Compacting   \* whether sessions start (and compact) while the rest runs

ASSUME BusAssumption ==
    /\ IsFiniteSet(Events)
    /\ KeepAge \in Nat /\ MaxAge \in Nat /\ KeepAge < MaxAge
    /\ MaxEmits \in Nat
    /\ Compacting \in BOOLEAN

VARIABLES
    logged,      \* ids with a line in events.jsonl
    job,         \* job[e]: the latest row of e in jobs.jsonl, or NoRow
    ahead,       \* ahead[e]: the ids listed before e, the order read_jobs yields
    emitting,    \* ids whose emit_event has written the event but not the job
    emits,       \* emits[e]: how many emit_event calls produced the id e
    thisSecond,  \* ids whose timestamp is the current second: still emittable
    compaction   \* a compact_jobs call between its read and its os.replace;
                 \*   compaction.saw is history: the open jobs when it read

busVars == <<logged, job, ahead, emitting, emits, thisSecond, compaction>>

Statuses == {"pending", "processing", "done", "dead"}
NoRow    == [status |-> "absent", attempts |-> 0, age |-> 0]
Rows     == [status : Statuses \cup {"absent"}, attempts : Nat, age : 0..MaxAge]

NoCompaction == [on    |-> FALSE,
                 rows  |-> [e \in Events |-> NoRow],
                 ahead |-> [e \in Events |-> {}],
                 saw   |-> {}]

BusTypeOK ==
    /\ logged \subseteq Events
    /\ job \in [Events -> Rows]
    /\ ahead \in [Events -> SUBSET Events]
    /\ emitting \subseteq Events
    /\ emits \in [Events -> Nat]
    /\ thisSecond \subseteq Events
    /\ compaction \in [on    : BOOLEAN,
                       rows  : [Events -> Rows],
                       ahead : [Events -> SUBSET Events],
                       saw   : SUBSET Events]

BusInit ==
    /\ logged = {}
    /\ job = [e \in Events |-> NoRow]
    /\ ahead = [e \in Events |-> {}]
    /\ emitting = {}
    /\ emits = [e \in Events |-> 0]
    /\ thisSecond = Events
    /\ compaction = NoCompaction

-----------------------------------------------------------------------------
(* Reading jobs.jsonl. *)

Listed == {e \in Events : job[e].status # "absent"}

\* Jobs somebody still has to settle, or that are dead-lettered on record.
Open == {e \in Events : job[e].status \notin {"absent", "done"}}

\* read_jobs(status_filter)
WithStatus(st) == {e \in Events : job[e].status = st}

\* The list read_jobs returns for a set of ids: file order, each id once.
InFileOrder(S) ==
    {s \in [1..Cardinality(S) -> S] :
        \A i, j \in 1..Cardinality(S) : i < j => s[i] \in ahead[s[j]] /\ s[i] # s[j]}

\* jobs[:limit]
Limit(s, n) == IF Len(s) > n THEN SubSeq(s, 1, n) ELSE s

\* Appending one row: the id keeps its place, or goes to the end.
AppendRow(e, st, n) ==
    /\ job' = [job EXCEPT ![e] = [status |-> st, attempts |-> n, age |-> 0]]
    /\ ahead' = IF job[e].status = "absent"
                THEN [ahead EXCEPT ![e] = Listed]
                ELSE ahead

-----------------------------------------------------------------------------
(* emit_event: two appends.  A second call with the same session, kind and *)
(* payload in the same second computes the same id and appends again.      *)

\* (Mutant: the job is queued before the event it names is on file.)
EmitEvent_JobFirst(e) ==
    /\ emits[e] < MaxEmits
    /\ e \notin emitting
    /\ AppendRow(e, "pending", 0)
    /\ emitting' = emitting \cup {e}
    /\ emits' = [emits EXCEPT ![e] = @ + 1]
    /\ UNCHANGED <<logged, thisSecond, compaction>>

EmitEvent(e) ==
    /\ e \in thisSecond
    /\ e \notin emitting
    /\ emits[e] < MaxEmits
    /\ logged' = logged \cup {e}
    /\ emitting' = emitting \cup {e}
    /\ emits' = [emits EXCEPT ![e] = @ + 1]
    /\ UNCHANGED <<job, ahead, thisSecond, compaction>>

EmitJob(e) ==
    /\ e \in emitting
    /\ AppendRow(e, "pending", 0)
    /\ emitting' = emitting \ {e}
    /\ UNCHANGED <<logged, emits, thisSecond, compaction>>

\* The process dies, or the second append raises and emit_event returns None.
EmitCut(e) ==
    /\ e \in emitting
    /\ emitting' = emitting \ {e}
    /\ UNCHANGED <<logged, job, ahead, emits, thisSecond, compaction>>

-----------------------------------------------------------------------------
(* compact_jobs, run by every session start: read, filter, os.replace.     *)

\* (Mutant: any old row is dropped, settled or not.)
Expired_AnyStatus == {e \in Listed : job[e].age > KeepAge}
Expired == {e \in Events : job[e].status = "done" /\ job[e].age > KeepAge}

CompactRead ==
    /\ Compacting
    /\ ~compaction.on
    /\ Listed # {}
    /\ compaction' =
         [on    |-> TRUE,
          rows  |-> [e \in Events |-> IF e \in Expired THEN NoRow ELSE job[e]],
          ahead |-> [e \in Events |-> IF e \in Expired THEN {} ELSE ahead[e] \ Expired],
          saw   |-> Open]
    /\ UNCHANGED <<logged, job, ahead, emitting, emits, thisSecond>>

CompactReplace ==
    /\ compaction.on
    /\ job' = compaction.rows
    /\ ahead' = compaction.ahead
    /\ compaction' = NoCompaction
    /\ UNCHANGED <<logged, emitting, emits, thisSecond>>

\* The replace fails or the process dies: the original file stays.
CompactFail ==
    /\ compaction.on
    /\ compaction' = NoCompaction
    /\ UNCHANGED <<logged, job, ahead, emitting, emits, thisSecond>>

-----------------------------------------------------------------------------
(* Time: every row in the file, and in a compaction's memory, gets older.  *)

Older(r) == IF r.status = "absent" \/ r.age = MaxAge
            THEN r ELSE [r EXCEPT !.age = @ + 1]

TimePasses ==
    /\ job' = [e \in Events |-> Older(job[e])]
    /\ compaction' = [compaction EXCEPT !.rows = [e \in Events |-> Older(compaction.rows[e])]]
    /\ thisSecond' = {e \in thisSecond : emits[e] = 0}
    /\ UNCHANGED <<logged, ahead, emitting, emits>>
=============================================================================
