---------------------------- MODULE MemoryIndex ----------------------------
(***************************************************************************)
(* The embedding index (table embeddings) against the files.  A hooked     *)
(* write emits a `reindex` job (memory_write_postprocess.main); a drainer  *)
(* loads the file, embeds it for seconds and replaces the row, while the   *)
(* file may be written again; reindex.py does the same for all files in    *)
(* one transaction.                                                        *)
(*                                                                         *)
(* Of the job queue only what module Outbox shows of it is kept: a job is  *)
(* one per file and second, may be processed by several drainers at once,  *)
(* stays open when its drainer dies or its handler raises, and is closed   *)
(* by the first drainer that finishes.                                     *)
(***************************************************************************)
EXTENDS MemoryFiles

CONSTANTS Workers    \* drainers and reindex.py runs

VARIABLES
    row,         \* row[f]: the text whose vector and hash the index holds, 0: none
    jobs,        \* jobs[f][s]: the reindex job emitted in second s
    worker,      \* worker[w]: the job or batch w is embedding
    excuse       \* history: files whose row may stay old, and no job is left to mend it

indexVars == <<row, jobs, worker, excuse>>

JobStates == {"none", "open", "done", "dead"}
Resting   == [on |-> FALSE]

IndexInit ==
    /\ row = [f \in Mems |-> 0]
    /\ jobs = [f \in Mems |-> [s \in Seconds |-> "none"]]
    /\ worker = [w \in Workers |-> Resting]
    /\ excuse = {}

Busy(w)    == worker[w].on
Batch(w)   == {f \in Mems : worker[w].load[f] # 0}
HasJob(w)  == worker[w].job # <<>>

\* emit_event("reindex"): one id per file and second; a drainer that already
\* loaded the file for this id will close it.
\* (Mutant: a second emission of an id is dropped by the bus.)
Emitted_Once(f, s) == IF jobs[f][s] = "none" THEN "open" ELSE jobs[f][s]
Emitted(f, s) == "open"

EmitReindex(f) ==
    LET s == Second(now) IN
    /\ jobs' = [jobs EXCEPT ![f][s] = Emitted(f, s)]
    /\ worker' = [w \in Workers |->
           IF Busy(w) /\ HasJob(w) /\ worker[w].job = <<f, s>>
           THEN [on |-> TRUE, job |-> <<f, s>>, load |-> worker[w].load, again |-> TRUE]
           ELSE worker[w]]
    /\ UNCHANGED <<row, excuse>>

\* The emission fails and main() falls back to _process, which does not index;
\* a write without hooks emits nothing at all.
NotEmitted(f) ==
    /\ excuse' = excuse \cup {f}
    /\ UNCHANGED <<row, jobs, worker>>

-----------------------------------------------------------------------------
(* process_event("reindex") and reindex_embeddings. *)

\* What is embedded: texts that differ from their row, or all by force.
ToEmbed(S, force) ==
    [f \in Mems |-> IF f \in S /\ Exists(f) /\ (force \/ row[f] # text[f])
                    THEN text[f] ELSE 0]

\* A drainer takes a job of its snapshot; it may have been settled since.
\* Nothing to embed (no file, or its row is current): done at once.
TakeJob(w, f, s) ==
    /\ ~Busy(w)
    /\ jobs[f][s] # "none"
    /\ LET load == ToEmbed({f}, FALSE) IN
       IF load[f] = 0
       THEN /\ jobs' = [jobs EXCEPT ![f][s] = "done"]
            /\ UNCHANGED worker
       ELSE /\ worker' = [worker EXCEPT ![w] =
                   [on |-> TRUE, job |-> <<f, s>>, load |-> load, again |-> FALSE]]
            /\ UNCHANGED jobs
    /\ UNCHANGED <<row, excuse>>

\* `reindex.py [--force]`
ReindexAll(w, force) ==
    /\ ~Busy(w)
    /\ LET load == ToEmbed(Mems, force) IN
       /\ \E f \in Mems : load[f] # 0
       /\ worker' = [worker EXCEPT ![w] =
              [on |-> TRUE, job |-> <<>>, load |-> load, again |-> FALSE]]
    /\ UNCHANGED <<row, jobs, excuse>>

Settled(w, st) == IF HasJob(w)
                  THEN [jobs EXCEPT ![worker[w].job[1]][worker[w].job[2]] = st]
                  ELSE jobs

\* One transaction for the whole batch, be the rows newer or not, then "done".
\* Files it leaves stale with no job to mend them: an emission since the load
\* was closed with this one, or a newer row was replaced by an older one.
Commit(w) ==
    /\ Busy(w)
    /\ \A f \in Batch(w) : Exists(f)
    /\ row' = [f \in Mems |-> IF f \in Batch(w) THEN worker[w].load[f] ELSE row[f]]
    /\ jobs' = Settled(w, "done")
    /\ excuse' = (excuse \ {f \in Batch(w) : worker[w].load[f] = text[f]})
                 \cup {f \in Batch(w) : worker[w].load[f] # text[f]
                           /\ (worker[w].again \/ worker[w].load[f] < row[f])}
    /\ worker' = [worker EXCEPT ![w] = Resting]

\* A file of the batch is gone when its mtime is read (INSERT's mem.mtime), the
\* database is locked, or the process dies: nothing of the batch is stored.  A
\* job stays open; one that used up its attempts is dead.
CommitFails(w) ==
    /\ Busy(w)
    /\ worker' = [worker EXCEPT ![w] = Resting]
    /\ \/ UNCHANGED <<jobs, excuse>>
       \/ /\ HasJob(w)
          /\ jobs' = Settled(w, "dead")
          /\ excuse' = excuse \cup {worker[w].job[1]}
    /\ UNCHANGED row

IndexNext ==
    \E w \in Workers :
        \/ \E f \in Mems, s \in Seconds : TakeJob(w, f, s)
        \/ \E force \in BOOLEAN : ReindexAll(w, force)
        \/ Commit(w)
        \/ CommitFails(w)

-----------------------------------------------------------------------------
\* Once nothing is left to do for a memory (no open job, nobody embedding it,
\* no hooked write whose emission is due), its row is current or excused.
IndexCatchesUp ==
    \A f \in Mems :
        (/\ Exists(f)
         /\ \A s \in Seconds : jobs[f][s] # "open"
         /\ \A w \in Workers : ~(Busy(w) /\ f \in Batch(w))
         /\ \A e \in Editors : ~(editing[e].stage = "written" /\ editing[e].file = f))
        => row[f] = text[f] \/ f \in excuse
=============================================================================
