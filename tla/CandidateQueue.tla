--------------------------- MODULE CandidateQueue ---------------------------
(***************************************************************************)
(* The candidates that wait for a human: files under promotion_candidates/ *)
(* and reflection_candidates/.  auto_promote drafts one from a cluster of  *)
(* epilogues, the reflection pass from the memories of a category, genesis *)
(* from one epilogue; a theme derived again is counted on the file that    *)
(* waits (candidate_dedup.record_corroboration), triage_candidates writes  *)
(* an opinion into it, and the human drains it.                            *)
(*                                                                         *)
(* The lanes run in different processes and share nothing but the files.   *)
(* Between a lane's look at the queue and its write there is a call to a   *)
(* model.  A file's own read and write are two steps, the choice of a free *)
(* name and its opening are one.  The day in the names is one day: files   *)
(* of different days never meet.  A theme stands for the name a model      *)
(* gives it and for the episodes a cluster of it cites.                    *)
(***************************************************************************)
EXTENDS Integers, FiniteSets

CONSTANTS
    Themes,                          \* what there is to notice
    Drafters, Reflectors, Seers,     \* processes: auto_promote, reflection, genesis
    Triagers,                        \* processes: triage_candidates
    MaxDerived,                      \* bound: corroborations recorded per theme
    MaxBusy                          \* bound: processes at work at a time

ASSUME CandidateQueueAssumption == MaxDerived \in Nat /\ MaxBusy \in Nat

VARIABLES
    queue,      \* the waiting files: name -> [theme, cites, count, triaged]
    themesKept, \* themes of durable memories
    seen,       \* epilogues with a .genesis marker
    lane,       \* lane[p]: where process p is
    made, drained, \* history, per theme: corroborations recorded, taken away by the human
    raced,      \* history: what writes over an unread file took from (or gave to) the counts
    spent,      \* history: model calls per epilogue
    charged     \* history: epilogues that two overlapping genesis passes both took

queueVars == <<queue, themesKept, seen, lane, made, drained, raced, spent, charged>>

Rest  == [stage |-> "rest"]
Lanes == Drafters \cup Reflectors \cup Seers \cup Triagers
Zero  == [t \in Themes |-> 0]

QueueInit ==
    /\ queue = << >> /\ themesKept = {} /\ seen = {}
    /\ lane = [p \in Lanes |-> Rest]
    /\ made = Zero /\ drained = Zero /\ raced = Zero /\ spent = Zero
    /\ charged = {}

\* p may start.
Idle(p) == lane[p] = Rest /\ Cardinality({q \in Lanes : lane[q] # Rest}) < MaxBusy

LaneTo(p, l) == lane' = [lane EXCEPT ![p] = l]
Ledger       == <<made, drained, raced, spent, charged>>

\* Names as the lanes form them; n is reflection's _vN suffix.
NameOf(kind, t, n) == <<kind, t, n>>
Waiting(t) == {f \in DOMAIN queue : queue[f].theme = t}
Fresh(kind, t) == [theme |-> t, cites |-> kind = "auto", count |-> 0, triaged |-> FALSE]
WithFile(f, c) == [g \in DOMAIN queue \cup {f} |-> IF g = f THEN c ELSE queue[g]]
CountOf(f) == IF f \in DOMAIN queue THEN queue[f].count ELSE 0

-----------------------------------------------------------------------------
(* Looking for the theme in the queue. *)

\* cluster_overlaps_pending: a file that cites the cluster's episodes.
\* (Mutant: only the similarity is asked.)
Overlaps_Never(t) == {}
Overlaps(t) == {f \in Waiting(t) : queue[f].cites}

\* The pass corroborates a file it takes for the same theme.
Corroborate(p, f) ==
    /\ made[queue[f].theme] < MaxDerived
    /\ LaneTo(p, [stage |-> "put", file |-> f, text |-> queue[f], change |-> "count"])

\* auto_promote.find_candidates: nothing for a covered theme, a corroboration for
\* a pending one, else a draft.  The likeness to a memory or to a waiting file may
\* or may not be seen (registers differ, embeddings fail, the index lags).  The
\* model is asked after the queue was read.
LookBeforeDraft(p, t) ==
    /\ p \in Drafters /\ Idle(p)
    /\ \/ \E f \in Overlaps(t) : Corroborate(p, f)
       \/ Overlaps(t) = {} /\ \E f \in Waiting(t) : Corroborate(p, f)
       \/ /\ Overlaps(t) = {}
          /\ \E high \in BOOLEAN :
                LaneTo(p, [stage |-> "draft", theme |-> t, high |-> high,
                           before |-> CountOf(NameOf("auto", t, 1))])
    /\ UNCHANGED <<queue, themesKept, seen, Ledger>>

\* The model declines, is down, or drafts; a HIGH draft becomes a memory at once
\* when the flag allows, unless one of its name exists.  The candidate is opened
\* for writing without asking whether its name exists.
WriteDraft(p) ==
    /\ p \in Drafters /\ lane[p].stage = "draft"
    /\ LET t == lane[p].theme
           f == NameOf("auto", t, 1)
       IN  \/ UNCHANGED <<queue, themesKept, raced>>
           \/ /\ lane[p].high /\ t \notin themesKept
              /\ themesKept' = themesKept \cup {t}
              /\ UNCHANGED <<queue, raced>>
           \/ /\ queue' = WithFile(f, Fresh("auto", t))
              /\ raced' = [raced EXCEPT ![t] = @ + CountOf(f) - lane[p].before]
              /\ UNCHANGED themesKept
    /\ LaneTo(p, Rest)
    /\ UNCHANGED <<seen, made, drained, spent, charged>>

\* _reflection_synthesis_pass: an insight is there before the queue is read; a
\* free name is chosen for it.
Reflect(p, t) ==
    /\ p \in Reflectors /\ Idle(p)
    /\ \/ \E f \in Waiting(t) : Corroborate(p, f) /\ UNCHANGED queue
       \/ LET taken == {g[3] : g \in {h \in DOMAIN queue :
                                         h[1] = "reflect" /\ h[2] = t}}
              f == NameOf("reflect", t, CHOOSE n \in 1..2 : n \notin taken)
          IN  /\ taken # 1..2
              /\ queue' = WithFile(f, Fresh("reflect", t))
              /\ LaneTo(p, Rest)
    /\ UNCHANGED <<themesKept, seen, Ledger>>

\* write_text of what record_corroboration or _write_triage read and changed.
PutBack(p) ==
    /\ lane[p].stage = "put"
    /\ LET f == lane[p].file
           text == lane[p].text
           counts == lane[p].change = "count"
       IN  /\ queue' = WithFile(f, IF counts THEN [text EXCEPT !.count = @ + 1]
                                             ELSE [text EXCEPT !.triaged = TRUE])
           /\ made' = [made EXCEPT ![text.theme] = @ + IF counts THEN 1 ELSE 0]
           /\ raced' = [raced EXCEPT ![text.theme] = @ + CountOf(f) - text.count]
    /\ LaneTo(p, Rest)
    /\ UNCHANGED <<themesKept, seen, drained, spent, charged>>

-----------------------------------------------------------------------------
(* triage_candidates.triage_all, one file of its list after the other. *)

\* A file that has an opinion is skipped; for another dart2 is asked.
PickForTriage(p) ==
    /\ p \in Triagers /\ Idle(p)
    /\ \E f \in DOMAIN queue : ~queue[f].triaged /\ LaneTo(p, [stage |-> "ask", file |-> f])
    /\ UNCHANGED <<queue, themesKept, seen, Ledger>>

\* _write_triage reads the file again once the opinion is there.  dart2 may fail
\* or talk off-script twice, and the file may be gone.
ReadForTriage(p) ==
    /\ lane[p].stage = "ask"
    /\ \/ LaneTo(p, Rest)
       \/ /\ lane[p].file \in DOMAIN queue
          /\ LaneTo(p, [stage |-> "put", file |-> lane[p].file, change |-> "triage",
                        text |-> queue[lane[p].file]])
    /\ UNCHANGED <<queue, themesKept, seen, Ledger>>

-----------------------------------------------------------------------------
(* genesis.run over the finalized epilogues, one theme each. *)

Assess(p, t) ==
    /\ p \in Seers /\ Idle(p) /\ t \notin seen
    /\ LaneTo(p, [stage |-> "assess", theme |-> t])
    /\ UNCHANGED <<queue, themesKept, seen, Ledger>>

\* Which verdicts are marked.
MarkedAt(verdict) == verdict # "unassessable"

\* Trivial, unreadable or covered: marked.  Embeddings not readable: not marked.
\* Novel: marked, then the model is asked.
Verdict(p) ==
    /\ lane[p].stage = "assess"
    /\ LET t == lane[p].theme IN
       \E v \in {"stable", "unassessable", "novel"} :
          /\ seen' = IF MarkedAt(v) THEN seen \cup {t} ELSE seen
          /\ IF v = "novel"
             THEN /\ spent' = [spent EXCEPT ![t] = @ + 1]
                  /\ charged' = IF t \in seen THEN charged \cup {t} ELSE charged
                  /\ LaneTo(p, [stage |-> "seer", theme |-> t])
             ELSE LaneTo(p, Rest) /\ UNCHANGED <<spent, charged>>
    /\ UNCHANGED <<queue, themesKept, made, drained, raced>>

\* The model declines or the write fails, or the epilogue's one candidate is
\* written, over an earlier one if that is still there.
Conclude(p) ==
    /\ lane[p].stage = "seer"
    /\ LET t == lane[p].theme
           f == NameOf("genesis", t, 1)
       IN  \/ UNCHANGED <<queue, raced>>
           \/ /\ queue' = WithFile(f, Fresh("genesis", t))
              /\ raced' = [raced EXCEPT ![t] = @ + IF t \in charged THEN CountOf(f) ELSE 0]
    /\ LaneTo(p, Rest)
    /\ UNCHANGED <<themesKept, seen, made, drained, spent, charged>>

-----------------------------------------------------------------------------
(* The human and the crash. *)

\* A file is accepted, or rejected, and leaves the queue.
Drain(f) ==
    /\ LET t == queue[f].theme IN
       /\ \/ themesKept' = themesKept \cup {t}
          \/ UNCHANGED themesKept
       /\ drained' = [drained EXCEPT ![t] = @ + queue[f].count]
    /\ queue' = [g \in DOMAIN queue \ {f} |-> queue[g]]
    /\ UNCHANGED <<seen, lane, made, raced, spent, charged>>

LaneKilled(p) ==
    /\ lane[p] # Rest
    /\ LaneTo(p, Rest)
    /\ UNCHANGED <<queue, themesKept, seen, Ledger>>

QueueNext ==
    \/ \E p \in Lanes :
          \/ \E t \in Themes : LookBeforeDraft(p, t) \/ Reflect(p, t) \/ Assess(p, t)
          \/ WriteDraft(p) \/ PutBack(p) \/ PickForTriage(p)
          \/ ReadForTriage(p) \/ Verdict(p) \/ Conclude(p) \/ LaneKilled(p)
    \/ \E f \in DOMAIN queue : Drain(f)

QueueSpec == QueueInit /\ [][QueueNext]_queueVars

-----------------------------------------------------------------------------
\* The corroborations that the waiting files of a theme count.
Counted(t) == UNION {{f} \X (1..queue[f].count) : f \in Waiting(t)}

\* Every corroboration recorded is on a waiting file or left with one that was
\* drained, up to what overlapping writers did to each other.
CountsAddUp(t) ==
    made[t] = drained[t] + raced[t] + Cardinality(Counted(t))

(* The number a reviewer sees is the number of times the brain arrived     *)
(* there ("as a number on one file, not as 38 files", candidate_dedup.py): *)
(* no lane drafts over a counted file it could have recognised, no count   *)
(* is lost but to a writer that had read the file before; and genesis asks *)
(* the model once per epilogue, killed or not, unless two passes overlap.  *)
QueueIsHonest ==
    \A t \in Themes : CountsAddUp(t) /\ (spent[t] > 1 => t \in charged)
=============================================================================
