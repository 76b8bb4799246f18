---------------------------- MODULE OutboxProofs ----------------------------
(***************************************************************************)
(* The outbox, for every set of events and drainers and every              *)
(* interleaving, crash, reaping and compaction the specification allows:   *)
(* its types; why no job is dead-lettered early; why a listed job has its  *)
(* event and a done one was processed; why no open job is compacted away;  *)
(* and how one drainer implements JobLifecycle, step by step.              *)
(***************************************************************************)
EXTENDS Outbox, FiniteSetTheorems, SequenceTheorems, TLAPS

-----------------------------------------------------------------------------
(* What the helpers return. *)

\* The list read_jobs gives for a set of ids is a sequence of those ids.
LEMMA InFileOrderType ==
    ASSUME NEW S \in SUBSET Events, NEW s \in InFileOrder(S)
    PROVE  s \in Seq(Events)
  <1>1. IsFiniteSet(S)
    BY BusAssumption, FS_Subset
  <1>2. Cardinality(S) \in Nat
    BY <1>1, FS_CardinalityType
  <1>3. s \in [1..Cardinality(S) -> S]
    BY DEF InFileOrder
  <1> QED
    BY <1>2, <1>3, SeqDef

\* Cutting the list to its limit keeps it a list of ids.
LEMMA LimitType ==
    ASSUME NEW s \in Seq(Events), NEW n \in Nat
    PROVE  Limit(s, n) \in Seq(Events)
  BY SubSeqProperties DEF Limit

LEMMA FetchType == \A w \in Drainers : Fetch(w) \in Nat
  BY OutboxAssumption DEF Fetch

\* Appending a row keeps the files well typed.
LEMMA AppendRowType ==
    ASSUME BusTypeOK, NEW e \in Events, NEW st \in Statuses, NEW n \in Nat,
           AppendRow(e, st, n)
    PROVE  /\ job' \in [Events -> Rows]
           /\ ahead' \in [Events -> SUBSET Events]
  <1>1. [status |-> st, attempts |-> n, age |-> 0] \in Rows
    BY BusAssumption DEF Rows
  <1>2. Listed \in SUBSET Events
    BY DEF Listed
  <1> QED
    BY <1>1, <1>2 DEF AppendRow, BusTypeOK

\* Getting older keeps a row well typed.
LEMMA OlderType ==
    ASSUME NEW r \in Rows
    PROVE  /\ Older(r) \in Rows
           /\ Older(r).status = r.status
           /\ Older(r).attempts = r.attempts
  BY BusAssumption DEF Older, Rows
-----------------------------------------------------------------------------
(* Type correctness. *)

LEMMA InitType == Init => TypeOK
  <1> SUFFICES ASSUME Init PROVE TypeOK
    OBVIOUS
  <1>1. NoRow \in Rows
    BY BusAssumption DEF NoRow, Rows
  <1>2. BusTypeOK
    BY <1>1 DEF Init, BusInit, BusTypeOK, NoCompaction
  <1>3. Idle \in Drainer
    BY DEF Idle, Drainer, NoOutRow, OutRow, Statuses, Steps
  <1> QED
    BY <1>2, <1>3 DEF Init, TypeOK

\* Every action of the bus, taken by whoever, keeps the files well typed.
LEMMA EmitType ==
    ASSUME TypeOK, NEW e \in Events, Emit(e)
    PROVE  TypeOK'
  <1> USE DEF TypeOK, BusTypeOK
  <1>1. CASE EmitEvent(e) /\ UNCHANGED outVars
    BY <1>1 DEF EmitEvent, outVars
  <1>2. CASE EmitJob(e) /\ owed' = owed \cup {e}
               /\ UNCHANGED <<drainer, crashes, runs, fails, misses>>
    <2>1. AppendRow(e, "pending", 0)
      BY <1>2 DEF EmitJob
    <2>2. job' \in [Events -> Rows] /\ ahead' \in [Events -> SUBSET Events]
      BY <2>1, AppendRowType DEF Statuses
    <2> QED
      BY <1>2, <2>2 DEF EmitJob
  <1>3. CASE EmitCut(e) /\ UNCHANGED outVars
    BY <1>3 DEF EmitCut, outVars
  <1> QED
    BY <1>1, <1>2, <1>3 DEF Emit

LEMMA CompactType ==
    ASSUME TypeOK, Compact
    PROVE  TypeOK'
  <1> USE DEF TypeOK, BusTypeOK
  <1>1. NoRow \in Rows
    BY BusAssumption DEF NoRow, Rows
  <1>2. NoCompaction \in [on : BOOLEAN, rows : [Events -> Rows],
                          ahead : [Events -> SUBSET Events], saw : SUBSET Events]
    BY <1>1 DEF NoCompaction
  <1>3. CASE CompactRead
    <2>1. [e \in Events |-> IF e \in Expired THEN NoRow ELSE job[e]] \in [Events -> Rows]
      BY <1>1
    <2>2. [e \in Events |-> IF e \in Expired THEN {} ELSE ahead[e] \ Expired]
            \in [Events -> SUBSET Events]
      OBVIOUS
    <2> QED
      BY <1>3, <2>1, <2>2 DEF CompactRead, Compact, outVars, Open
  <1>4. CASE CompactReplace
    BY <1>2, <1>4 DEF CompactReplace, Compact, outVars
  <1>5. CASE CompactFail
    BY <1>2, <1>5 DEF CompactFail, Compact, outVars
  <1> QED
    BY <1>3, <1>4, <1>5 DEF Compact

LEMMA TickType ==
    ASSUME TypeOK, Tick
    PROVE  TypeOK'
  <1> USE DEF TypeOK, BusTypeOK
  <1>1. job' \in [Events -> Rows]
    BY OlderType DEF Tick, TimePasses
  <1>2. [e \in Events |-> Older(compaction.rows[e])] \in [Events -> Rows]
    BY OlderType
  <1> QED
    BY <1>1, <1>2 DEF Tick, TimePasses, outVars

\* The local state a drainer moves to decides the type and BatchHeld.
LEMMA LocalType ==
    ASSUME drainer \in [Drainers -> Drainer], BatchHeld,
           NEW w \in Drainers, NEW r \in Drainer, Local(w, r),
           r.step \in {"requeue", "mark", "run", "settle"} => r.batch # <<>>
    PROVE  drainer' \in [Drainers -> Drainer] /\ BatchHeld'
  BY DEF Local, BatchHeld

\* A step of a drainer keeps every variable well typed.
LEMMA DrainStepType ==
    ASSUME TypeOK, BatchHeld, NEW w \in Drainers, DrainStep(w)
    PROVE  TypeOK' /\ BatchHeld'
  <1> DEFINE d == drainer[w]
  <1>0. d \in Drainer /\ job \in [Events -> Rows] /\ drainer \in [Drainers -> Drainer]
    BY DEF TypeOK, BusTypeOK
  <1>1. d.batch \in Seq(Events) /\ d.row \in OutRow /\ d.snap \in [Events -> Nat]
        /\ d.count \in Nat
    BY <1>0 DEF Drainer
  <1>2. Idle \in Drainer /\ NoOutRow \in OutRow
    BY DEF Idle, Drainer, NoOutRow, OutRow, Statuses, Steps
  <1>3. ASSUME NEW e \in Events, NEW st \in Statuses, NEW k \in {0, 1}
        PROVE  RowFor(e, st, k) \in OutRow
    BY <1>0 DEF RowFor, OutRow, Rows
  <1>4. d.batch # <<>> => Current(w) \in Events /\ Tail(d.batch) \in Seq(Events)
    BY <1>1 DEF Current
  <1>5. ASSUME NEW r \in Drainer, Local(w, r),
               r.step \in {"requeue", "mark", "run", "settle"} => r.batch # <<>>,
               HistoryUnchanged, FilesUnchanged
        PROVE  TypeOK' /\ BatchHeld'
    <2>1. drainer' \in [Drainers -> Drainer] /\ BatchHeld'
      BY <1>0, <1>5, LocalType
    <2> QED
      BY <1>5, <2>1 DEF HistoryUnchanged, FilesUnchanged, busVars, TypeOK, BusTypeOK
  <1>6. ASSUME NEW r \in Drainer, Local(w, r),
               r.step \in {"requeue", "mark", "run", "settle"} => r.batch # <<>>,
               d.batch # <<>>,
               AppendRow(Current(w), d.row.status, d.row.attempts), HistoryUnchanged,
               UNCHANGED <<logged, emitting, emits, thisSecond, compaction>>
        PROVE  TypeOK' /\ BatchHeld'
    <2>1. drainer' \in [Drainers -> Drainer] /\ BatchHeld'
      BY <1>0, <1>6, LocalType
    <2>2. d.row.status \in Statuses /\ d.row.attempts \in Nat
      BY <1>1 DEF OutRow
    <2>3. job' \in [Events -> Rows] /\ ahead' \in [Events -> SUBSET Events]
      BY <1>4, <1>6, <2>2, AppendRowType DEF TypeOK
    <2> QED
      BY <1>6, <2>1, <2>3 DEF HistoryUnchanged, TypeOK, BusTypeOK
  <1>7. CASE Start(w)
    <2>1. PICK s \in InFileOrder({e \in Events : Stuck(e)}) :
            Local(w, [d EXCEPT !.step = "reap", !.batch = s])
      BY <1>7 DEF Start
    <2>2. s \in Seq(Events)
      BY InFileOrderType
    <2>3. [d EXCEPT !.step = "reap", !.batch = s] \in Drainer
      BY <1>0, <2>2 DEF Drainer, Steps
    <2> QED
      BY <1>0, <1>5, <1>7, <2>1, <2>3 DEF Start, Drainer
  <1>8. CASE ReapRead(w)
    <2> DEFINE r == [d EXCEPT !.step = "requeue", !.row = RowFor(Current(w), "pending", 0)]
    <2>1. r \in Drainer /\ r.batch # <<>>
      BY <1>0, <1>3, <1>4, <1>8 DEF ReapRead, Drainer, Steps, Statuses
    <2> QED
      BY <1>5, <1>8, <2>1 DEF ReapRead
  <1>9. CASE ReapAppend(w)
    <2> DEFINE r == [d EXCEPT !.step = "reap", !.batch = Tail(@), !.row = NoOutRow]
    <2>1. d.batch # <<>>
      BY <1>9 DEF ReapAppend, BatchHeld
    <2>2. r \in Drainer /\ r.step = "reap"
      BY <1>0, <1>2, <1>4, <2>1 DEF Drainer, Steps
    <2> QED
      BY <1>6, <1>9, <2>1, <2>2 DEF ReapAppend
  <1>10. CASE ReadPending(w)
    <2>1. PICK s \in InFileOrder(WithStatus("pending")) :
            Local(w, [Idle EXCEPT !.step = "loop",
                                  !.batch = Limit(s, Fetch(w)),
                                  !.snap = [e \in Events |-> IF e \in Range(Limit(s, Fetch(w)))
                                                            THEN job[e].attempts ELSE 0]])
      BY <1>10 DEF ReadPending
    <2> DEFINE snap == [e \in Events |-> IF e \in Range(Limit(s, Fetch(w)))
                                        THEN job[e].attempts ELSE 0]
               r == [Idle EXCEPT !.step = "loop", !.batch = Limit(s, Fetch(w)), !.snap = snap]
    <2>2. Limit(s, Fetch(w)) \in Seq(Events)
      <3>1. s \in Seq(Events)
        BY InFileOrderType DEF WithStatus
      <3> QED
        BY <3>1, LimitType, FetchType
    <2>3. snap \in [Events -> Nat]
      BY <1>0 DEF Rows
    <2>4. r \in Drainer /\ r.step = "loop"
      <3> HIDE DEF snap
      <3> QED
        BY <1>2, <2>2, <2>3 DEF Idle, Drainer, Steps
    <2> QED
      BY <1>5, <1>10, <2>1, <2>4 DEF ReadPending
  <1>11. CASE SkipHeavy(w)
    <2> DEFINE r == [d EXCEPT !.batch = Tail(@)]
    <2>1. r \in Drainer /\ r.step = "loop"
      BY <1>0, <1>4, <1>11 DEF SkipHeavy, HasWork, Drainer
    <2> QED
      BY <1>5, <1>11, <2>1 DEF SkipHeavy
  <1>12. CASE Take(w)
    <2>1. PICK found \in BOOLEAN :
            Local(w, [d EXCEPT !.step = "mark", !.found = found,
                               !.row = RowFor(Current(w), "processing", 0)])
      BY <1>12 DEF Take, Lookups
    <2> DEFINE r == [d EXCEPT !.step = "mark", !.found = found,
                              !.row = RowFor(Current(w), "processing", 0)]
    <2>2. r \in Drainer /\ r.batch # <<>>
      BY <1>0, <1>3, <1>4, <1>12 DEF Take, HasWork, Drainer, Steps, Statuses
    <2> QED
      BY <1>5, <1>12, <2>1, <2>2 DEF Take
  <1>13. CASE Mark(w)
    <2> DEFINE r == [d EXCEPT !.step = "run", !.row = NoOutRow]
    <2>1. d.batch # <<>>
      BY <1>13 DEF Mark, BatchHeld
    <2>2. r \in Drainer /\ r.batch # <<>>
      BY <1>0, <1>2, <2>1 DEF Drainer, Steps
    <2> QED
      BY <1>6, <1>13, <2>1, <2>2 DEF Mark
  <1>14. ASSUME NEW row \in OutRow, d.step = "run", Settling(w, row)
         PROVE  drainer' \in [Drainers -> Drainer] /\ BatchHeld'
    <2> DEFINE r == [d EXCEPT !.step = "settle", !.row = row]
    <2>1. d.batch # <<>>
      BY <1>14 DEF BatchHeld
    <2>2. r \in Drainer /\ r.batch # <<>>
      BY <1>0, <1>14, <2>1 DEF Drainer, Steps
    <2> QED
      BY <1>0, <1>14, <2>2, LocalType DEF Settling
  <1>15. d.step = "run" => Current(w) \in Events
    BY <1>4 DEF BatchHeld
  <1>16. CASE NotFound(w)
    <2>1. RowFor(Current(w), "dead", 1) \in OutRow
      BY <1>3, <1>15, <1>16 DEF NotFound, Statuses
    <2>2. drainer' \in [Drainers -> Drainer] /\ BatchHeld'
      BY <1>14, <1>16, <2>1 DEF NotFound
    <2> QED
      BY <1>15, <1>16, <2>2 DEF NotFound, FilesUnchanged, busVars, TypeOK, BusTypeOK
  <1>17. CASE Succeed(w)
    <2>1. RowFor(Current(w), "done", 0) \in OutRow
      BY <1>3, <1>15, <1>17 DEF Succeed, Statuses
    <2>2. drainer' \in [Drainers -> Drainer] /\ BatchHeld'
      BY <1>14, <1>17, <2>1 DEF Succeed
    <2>3. runs' \in [Events -> 0..2]
      BY <1>15, <1>17 DEF Succeed, TypeOK
    <2> QED
      BY <1>17, <2>2, <2>3 DEF Succeed, FilesUnchanged, busVars, TypeOK, BusTypeOK
  <1>18. CASE Fail(w)
    <2>1. PICK verdict \in {"dead", "pending"} : Settling(w, RowFor(Current(w), verdict, 1))
      BY <1>18 DEF Fail, Verdict
    <2>2. RowFor(Current(w), verdict, 1) \in OutRow
      BY <1>3, <1>15, <1>18 DEF Fail, Statuses
    <2>3. drainer' \in [Drainers -> Drainer] /\ BatchHeld'
      BY <1>14, <1>18, <2>1, <2>2 DEF Fail
    <2> QED
      BY <1>15, <1>18, <2>3 DEF Fail, FilesUnchanged, busVars, TypeOK, BusTypeOK
  <1>19. CASE Settle(w)
    <2> DEFINE snap == [d.snap EXCEPT ![Current(w)] = 0]
               r == [Idle EXCEPT !.step = "loop", !.batch = Tail(d.batch), !.snap = snap,
                                 !.count = d.count + 1]
    <2>1. d.batch # <<>>
      BY <1>19 DEF Settle, BatchHeld
    <2>2. snap \in [Events -> Nat]
      BY <1>1
    <2>3. r \in Drainer /\ r.step = "loop"
      <3> HIDE DEF snap
      <3>1. Tail(d.batch) \in Seq(Events) /\ d.count + 1 \in Nat
        BY <1>1, <1>4, <2>1
      <3> QED
        BY <1>2, <2>2, <3>1 DEF Idle, Drainer, Steps
    <2> QED
      BY <1>6, <1>19, <2>1, <2>3 DEF Settle
  <1>20. CASE Finish(w)
    BY <1>2, <1>5, <1>20 DEF Finish, Idle
  <1> QED
    BY <1>7, <1>8, <1>9, <1>10, <1>11, <1>12, <1>13, <1>16, <1>17, <1>18, <1>19, <1>20
       DEF DrainStep

LEMMA CrashType ==
    ASSUME TypeOK, BatchHeld, NEW w \in Drainers, Crash(w)
    PROVE  TypeOK' /\ BatchHeld'
  <1>1. Idle \in Drainer /\ Idle.step = "idle"
    BY DEF Idle, Drainer, NoOutRow, OutRow, Statuses, Steps
  <1>2. drainer' \in [Drainers -> Drainer] /\ BatchHeld'
    BY <1>1, LocalType DEF Crash, TypeOK
  <1> QED
    BY <1>2 DEF Crash, FilesUnchanged, busVars, TypeOK, BusTypeOK

\* The state of the outbox is well typed in every behaviour: in particular a
\* drainer never asks for the current job of an empty batch.
THEOREM TypeCorrect == Spec => [](TypeOK /\ BatchHeld)
  <1>1. Init => TypeOK /\ BatchHeld
    BY InitType DEF Init, BatchHeld, Idle
  <1>2. TypeOK /\ BatchHeld /\ [Next]_vars => (TypeOK /\ BatchHeld)'
    <2> SUFFICES ASSUME TypeOK, BatchHeld, [Next]_vars
                 PROVE  TypeOK' /\ BatchHeld'
      OBVIOUS
    <2>1. ASSUME NEW e \in Events, Emit(e) PROVE TypeOK' /\ BatchHeld'
      <3>1. UNCHANGED drainer
        BY <2>1 DEF Emit, outVars
      <3> QED
        BY <2>1, <3>1, EmitType DEF BatchHeld
    <2>2. CASE Compact
      BY <2>2, CompactType DEF Compact, outVars, BatchHeld
    <2>3. CASE Tick
      BY <2>3, TickType DEF Tick, outVars, BatchHeld
    <2>4. ASSUME NEW w \in Drainers, DrainStep(w) PROVE TypeOK' /\ BatchHeld'
      BY <2>4, DrainStepType
    <2>5. ASSUME NEW w \in Drainers, Crash(w) PROVE TypeOK' /\ BatchHeld'
      BY <2>5, CrashType
    <2>6. CASE UNCHANGED vars
      BY <2>6 DEF vars, busVars, outVars, TypeOK, BusTypeOK, BatchHeld
    <2> QED
      BY <2>1, <2>2, <2>3, <2>4, <2>5, <2>6 DEF Next
  <1> QED
    BY <1>1, <1>2, PTL DEF Spec

-----------------------------------------------------------------------------
(* No job dies early: every row and every snapshot is covered by failures. *)

\* Covered, by the failures counted after the step.
CoveredThen(e, row) ==
    /\ row.attempts <= fails'[e] + misses'[e]
    /\ row.status = "dead" => fails'[e] >= MaxAttempts \/ misses'[e] > 0

FailuresGrow == \A e \in Events : fails'[e] >= fails[e] /\ misses'[e] >= misses[e]

\* Failures only accumulate, so what is covered stays covered.
LEMMA CoverGrows ==
    ASSUME TypeOK, TypeOK', FailuresGrow, NEW e \in Events
    PROVE  /\ \A row : row.attempts \in Nat /\ Covered(e, row) => CoveredThen(e, row)
           /\ \A n \in Nat : n <= fails[e] + misses[e] => n <= fails'[e] + misses'[e]
  BY OutboxAssumption DEF Covered, CoveredThen, FailuresGrow, TypeOK

\* A step that appends one covered row, or none, and changes no failure count.
LEMMA AppendCovered ==
    ASSUME TypeOK, RowsCovered, NEW e \in Events, NEW st \in Statuses, NEW n \in Nat,
           AppendRow(e, st, n), UNCHANGED <<compaction, fails, misses>>,
           n <= fails[e] + misses[e],
           st = "dead" => fails[e] >= MaxAttempts \/ misses[e] > 0
    PROVE  RowsCovered'
  BY DEF AppendRow, RowsCovered, Covered, TypeOK, BusTypeOK

\* The bus never appends, keeps or restores an uncovered row.
LEMMA BusCovered ==
    ASSUME TypeOK, RowsCovered, (\E e \in Events : Emit(e)) \/ Compact \/ Tick
    PROVE  RowsCovered' /\ UNCHANGED <<drainer, fails, misses>>
  <1>1. ASSUME NEW e \in Events, Emit(e)
        PROVE  RowsCovered' /\ UNCHANGED <<drainer, fails, misses>>
    <2>1. UNCHANGED <<drainer, fails, misses, compaction>>
      BY <1>1 DEF Emit, EmitEvent, EmitJob, EmitCut, outVars
    <2>2. CASE UNCHANGED job
      BY <2>1, <2>2 DEF RowsCovered, Covered
    <2>3. CASE AppendRow(e, "pending", 0)
      <3>1. 0 <= fails[e] + misses[e]
        BY DEF TypeOK
      <3> QED
        BY <2>1, <2>3, <3>1, AppendCovered DEF Statuses
    <2> QED
      BY <1>1, <2>1, <2>2, <2>3 DEF Emit, EmitEvent, EmitJob, EmitCut
  <1>2. ASSUME NEW e \in Events PROVE Covered(e, NoRow)
    BY DEF Covered, NoRow, TypeOK
  <1>3. CASE Compact
    <2>1. UNCHANGED <<drainer, fails, misses>>
      BY <1>3 DEF Compact, outVars
    <2>2. CASE CompactRead
      BY <1>2, <2>1, <2>2 DEF CompactRead, RowsCovered, Covered, TypeOK, BusTypeOK
    <2>3. CASE CompactReplace
      BY <1>2, <2>1, <2>3 DEF CompactReplace, NoCompaction, RowsCovered, Covered, TypeOK, BusTypeOK
    <2>4. CASE CompactFail
      BY <1>2, <2>1, <2>4 DEF CompactFail, NoCompaction, RowsCovered, Covered, TypeOK, BusTypeOK
    <2> QED
      BY <1>3, <2>1, <2>2, <2>3, <2>4 DEF Compact
  <1>4. CASE Tick
    <2>1. UNCHANGED <<drainer, fails, misses>>
      BY <1>4 DEF Tick, outVars
    <2>2. ASSUME NEW e \in Events
          PROVE  /\ job'[e].status = job[e].status
                 /\ job'[e].attempts = job[e].attempts
                 /\ compaction'.rows[e].status = compaction.rows[e].status
                 /\ compaction'.rows[e].attempts = compaction.rows[e].attempts
      <3>1. job'[e] = Older(job[e]) /\ compaction'.rows[e] = Older(compaction.rows[e])
        BY <1>4 DEF Tick, TimePasses, TypeOK, BusTypeOK
      <3>2. job[e] \in Rows /\ compaction.rows[e] \in Rows
        BY DEF TypeOK, BusTypeOK
      <3> QED
        BY <3>1, <3>2, OlderType
    <2> QED
      BY <2>1, <2>2 DEF RowsCovered, Covered
  <1> QED
    BY <1>1, <1>3, <1>4

\* The step of one drainer keeps every drainer covered when its own new
\* locals are, and when failures only grew.
LEMMA LocalCovered ==
    ASSUME TypeOK, TypeOK', BatchHeld, DrainersCovered, FailuresGrow,
           NEW w \in Drainers, NEW r, Local(w, r),
           \A e \in Events : r.snap[e] <= fails'[e] + misses'[e],
           r.step \in {"requeue", "mark", "settle"} => CoveredThen(Head(r.batch), r.row)
    PROVE  DrainersCovered'
  <1> DEFINE Good(d) == /\ \A e \in Events : d.snap[e] <= fails'[e] + misses'[e]
                        /\ d.step \in {"requeue", "mark", "settle"}
                             => CoveredThen(Head(d.batch), d.row)
  <1>1. drainer'[w] = r /\ \A v \in Drainers \ {w} : drainer'[v] = drainer[v]
    BY DEF Local, TypeOK
  <1>2. ASSUME NEW v \in Drainers PROVE Good(drainer[v])
    <2>1. drainer[v] \in Drainer
      BY DEF TypeOK
    <2>2. ASSUME NEW e \in Events PROVE drainer[v].snap[e] <= fails'[e] + misses'[e]
      <3>1. drainer[v].snap[e] \in Nat /\ drainer[v].snap[e] <= fails[e] + misses[e]
        BY <2>1 DEF Drainer, DrainersCovered
      <3> QED
        BY <3>1, CoverGrows
    <2>3. ASSUME drainer[v].step \in {"requeue", "mark", "settle"}
          PROVE  CoveredThen(Head(drainer[v].batch), drainer[v].row)
      <3>1. drainer[v].batch # <<>> /\ drainer[v].batch \in Seq(Events)
        BY <2>1, <2>3 DEF BatchHeld, Drainer
      <3>2. Current(v) \in Events /\ drainer[v].row.attempts \in Nat
        BY <2>1, <3>1 DEF Current, Drainer, OutRow
      <3>3. Covered(Current(v), drainer[v].row)
        BY <2>3 DEF DrainersCovered
      <3> QED
        BY <3>2, <3>3, CoverGrows DEF Current
    <2> QED
      BY <2>2, <2>3
  <1>3. Good(r)
    OBVIOUS
  <1>4. \A v \in Drainers : Good(drainer'[v])
    BY <1>1, <1>2, <1>3
  <1> QED
    BY <1>4 DEF DrainersCovered, Covered, CoveredThen, Current

\* A drainer appends, remembers and decides on covered rows only.
LEMMA DrainStepCovered ==
    ASSUME TypeOK, TypeOK', BatchHeld, RowsCovered, DrainersCovered,
           NEW w \in Drainers, DrainStep(w) \/ Crash(w)
    PROVE  RowsCovered' /\ DrainersCovered'
  <1> DEFINE d == drainer[w]
             e == Current(w)
             Holding == {"requeue", "mark", "settle"}
  <1>1. d \in Drainer /\ job \in [Events -> Rows]
        /\ fails \in [Events -> Nat] /\ misses \in [Events -> Nat]
    BY DEF TypeOK, BusTypeOK
  <1>2. d.batch \in Seq(Events) /\ d.row \in OutRow /\ d.snap \in [Events -> Nat]
    BY <1>1 DEF Drainer
  <1>3. d.batch # <<>> => e \in Events
    BY <1>2 DEF Current
  <1>4. \A x \in Events : d.snap[x] <= fails[x] + misses[x]
    BY DEF DrainersCovered
  <1>5. \A x \in Events : Idle.snap[x] <= fails'[x] + misses'[x]
    BY DEF Idle, TypeOK
  <1>6. ASSUME UNCHANGED <<fails, misses>> PROVE FailuresGrow
    BY <1>1, <1>6 DEF FailuresGrow
  <1>7. ASSUME UNCHANGED <<job, compaction, fails, misses>> PROVE RowsCovered'
    BY <1>7 DEF RowsCovered, Covered
  \* A step that only moves the drainer, to a state where it holds no row.
  <1>8. ASSUME NEW r, Local(w, r), r.snap = d.snap \/ r.snap = Idle.snap,
               r.step \notin Holding, UNCHANGED <<job, compaction, fails, misses>>
        PROVE  RowsCovered' /\ DrainersCovered'
    <2>1. \A x \in Events : r.snap[x] <= fails'[x] + misses'[x]
      BY <1>4, <1>5, <1>8
    <2> QED
      BY <1>6, <1>7, <1>8, <2>1, LocalCovered
  \* A step that appends the row it holds.
  <1>9. ASSUME NEW r, Local(w, r), \A x \in Events : r.snap[x] <= d.snap[x],
               r.snap \in [Events -> Nat], r.step \notin Holding, d.step \in Holding,
               AppendRow(e, d.row.status, d.row.attempts),
               UNCHANGED <<compaction, fails, misses>>
        PROVE  RowsCovered' /\ DrainersCovered'
    <2>1. e \in Events /\ d.row.status \in Statuses /\ d.row.attempts \in Nat
      BY <1>2, <1>3, <1>9 DEF BatchHeld, OutRow
    <2>2. Covered(e, d.row)
      BY <1>9 DEF DrainersCovered
    <2>3. RowsCovered'
      BY <1>9, <2>1, <2>2, AppendCovered DEF Covered
    <2>4. \A x \in Events : r.snap[x] <= fails'[x] + misses'[x]
      BY <1>1, <1>2, <1>4, <1>9
    <2> QED
      BY <1>6, <1>9, <2>3, <2>4, LocalCovered
  \* A step that prepares a row for the current job.
  <1>10. ASSUME NEW r, Local(w, r), r.snap = d.snap, r.batch = d.batch, FailuresGrow,
                CoveredThen(e, r.row), UNCHANGED <<job, compaction>>
         PROVE  RowsCovered' /\ DrainersCovered'
    <2>1. RowsCovered'
      <3>1. ASSUME NEW x \in Events
            PROVE  CoveredThen(x, job[x]) /\ CoveredThen(x, compaction.rows[x])
        <4>1. job[x].attempts \in Nat /\ compaction.rows[x].attempts \in Nat
          BY DEF TypeOK, BusTypeOK, Rows
        <4> QED
          BY <1>10, <4>1, CoverGrows DEF RowsCovered
      <3> QED
        BY <1>10, <3>1 DEF RowsCovered, Covered, CoveredThen
    <2>2. \A x \in Events : r.snap[x] <= fails'[x] + misses'[x]
      BY <1>2, <1>4, <1>10, CoverGrows
    <2> QED
      BY <1>10, <2>1, <2>2, LocalCovered DEF Current
  <1>11. CASE Start(w)
    <2>1. PICK s \in InFileOrder({x \in Events : Stuck(x)}) :
            Local(w, [d EXCEPT !.step = "reap", !.batch = s])
      BY <1>11 DEF Start
    <2> DEFINE r == [d EXCEPT !.step = "reap", !.batch = s]
    <2>2. r.snap = d.snap /\ r.step = "reap"
      BY <1>1 DEF Drainer
    <2> QED
      BY <1>8, <1>11, <2>1, <2>2 DEF Start, HistoryUnchanged, FilesUnchanged, busVars
  <1>12. CASE ReapRead(w)
    <2> DEFINE row == RowFor(e, "pending", 0)
               r == [d EXCEPT !.step = "requeue", !.row = row]
    <2>1. r.snap = d.snap /\ r.batch = d.batch /\ r.row = row
      BY <1>1 DEF Drainer
    <2>2. e \in Events /\ UNCHANGED <<job, compaction, fails, misses>> /\ Local(w, r)
      BY <1>3, <1>12 DEF ReapRead, HistoryUnchanged, FilesUnchanged, busVars
    <2>3. CoveredThen(e, row)
      BY <1>1, <2>2 DEF RowFor, RowsCovered, Covered, CoveredThen, Rows
    <2> QED
      BY <1>6, <1>10, <2>1, <2>2, <2>3
  <1>13. CASE ReapAppend(w)
    <2> DEFINE r == [d EXCEPT !.step = "reap", !.batch = Tail(@), !.row = NoOutRow]
    <2>1. r.snap = d.snap /\ r.step = "reap"
      BY <1>1 DEF Drainer
    <2>2. r.snap \in [Events -> Nat] /\ \A x \in Events : r.snap[x] <= d.snap[x]
      BY <1>2, <2>1
    <2>3. d.step \in Holding /\ r.step \notin Holding
      BY <1>13, <2>1 DEF ReapAppend
    <2> QED
      BY <1>9, <1>13, <2>2, <2>3 DEF ReapAppend, HistoryUnchanged
  <1>14. CASE ReadPending(w)
    <2>1. PICK batch \in {Limit(s, Fetch(w)) : s \in InFileOrder(WithStatus("pending"))} :
            Local(w, [Idle EXCEPT !.step = "loop", !.batch = batch,
                                  !.snap = [x \in Events |-> IF x \in Range(batch)
                                                            THEN job[x].attempts ELSE 0]])
      BY <1>14 DEF ReadPending
    <2> DEFINE snap == [x \in Events |-> IF x \in Range(batch) THEN job[x].attempts ELSE 0]
               r == [Idle EXCEPT !.step = "loop", !.batch = batch, !.snap = snap]
    <2>2. r.snap = snap /\ r.step = "loop"
      BY DEF Idle
    <2>3. UNCHANGED <<job, compaction, fails, misses>>
      BY <1>14 DEF ReadPending, HistoryUnchanged, FilesUnchanged, busVars
    <2>4. ASSUME NEW x \in Events PROVE snap[x] <= fails'[x] + misses'[x]
      BY <1>1, <2>3 DEF RowsCovered, Covered, Rows
    <2> HIDE DEF snap
    <2> QED
      BY <1>6, <1>7, <2>1, <2>2, <2>3, <2>4, LocalCovered DEF snap
  <1>15. CASE SkipHeavy(w)
    <2> DEFINE r == [d EXCEPT !.batch = Tail(@)]
    <2>1. r.snap = d.snap /\ r.step = "loop"
      BY <1>1, <1>15 DEF SkipHeavy, HasWork, Drainer
    <2> QED
      BY <1>8, <1>15, <2>1 DEF SkipHeavy, HistoryUnchanged, FilesUnchanged, busVars
  <1>16. CASE Take(w)
    <2> DEFINE row == RowFor(e, "processing", 0)
    <2>1. PICK found \in BOOLEAN :
            Local(w, [d EXCEPT !.step = "mark", !.found = found, !.row = row])
      BY <1>16 DEF Take, Lookups
    <2> DEFINE r == [d EXCEPT !.step = "mark", !.found = found, !.row = row]
    <2>2. r.snap = d.snap /\ r.batch = d.batch /\ r.row = row
      BY <1>1 DEF Drainer
    <2>3. e \in Events /\ UNCHANGED <<job, compaction, fails, misses>>
      BY <1>3, <1>16 DEF Take, HasWork, HistoryUnchanged, FilesUnchanged, busVars
    <2>4. CoveredThen(e, row)
      BY <1>1, <2>3 DEF RowFor, RowsCovered, Covered, CoveredThen, Rows
    <2> QED
      BY <1>6, <1>10, <2>1, <2>2, <2>3, <2>4
  <1>17. CASE Mark(w)
    <2> DEFINE r == [d EXCEPT !.step = "run", !.row = NoOutRow]
    <2>1. r.snap = d.snap /\ r.step = "run"
      BY <1>1 DEF Drainer
    <2>2. r.snap \in [Events -> Nat] /\ \A x \in Events : r.snap[x] <= d.snap[x]
      BY <1>2, <2>1
    <2>3. d.step \in Holding /\ r.step \notin Holding
      BY <1>17, <2>1 DEF Mark
    <2> QED
      BY <1>9, <1>17, <2>2, <2>3 DEF Mark, HistoryUnchanged
  <1>18. CASE NotFound(w)
    <2> DEFINE row == RowFor(e, "dead", 1)
               r == [d EXCEPT !.step = "settle", !.row = row]
    <2>1. r.snap = d.snap /\ r.batch = d.batch /\ r.row = row
      BY <1>1 DEF Drainer
    <2>2. e \in Events /\ UNCHANGED <<job, compaction, fails>> /\ Local(w, r)
          /\ misses' = [misses EXCEPT ![e] = @ + 1]
      BY <1>3, <1>18 DEF NotFound, BatchHeld, Settling, FilesUnchanged, busVars
    <2>3. FailuresGrow
      BY <1>1, <2>2 DEF FailuresGrow
    <2>4. CoveredThen(e, row)
      BY <1>1, <2>2 DEF RowFor, RowsCovered, Covered, CoveredThen, Rows
    <2> QED
      BY <1>10, <2>1, <2>2, <2>3, <2>4
  <1>19. CASE Succeed(w)
    <2> DEFINE row == RowFor(e, "done", 0)
               r == [d EXCEPT !.step = "settle", !.row = row]
    <2>1. r.snap = d.snap /\ r.batch = d.batch /\ r.row = row
      BY <1>1 DEF Drainer
    <2>2. e \in Events /\ UNCHANGED <<job, compaction, fails, misses>> /\ Local(w, r)
      BY <1>3, <1>19 DEF Succeed, BatchHeld, Settling, FilesUnchanged, busVars
    <2>3. CoveredThen(e, row)
      BY <1>1, <2>2 DEF RowFor, RowsCovered, Covered, CoveredThen, Rows
    <2> QED
      BY <1>6, <1>10, <2>1, <2>2, <2>3
  <1>20. CASE Fail(w)
    <2> DEFINE verdict == Verdict(d.snap[e])
               row == RowFor(e, verdict, 1)
               r == [d EXCEPT !.step = "settle", !.row = row]
    <2>1. r.snap = d.snap /\ r.batch = d.batch /\ r.row = row
      BY <1>1 DEF Drainer
    <2>2. e \in Events /\ UNCHANGED <<job, compaction, misses>> /\ Local(w, r)
          /\ fails' = [fails EXCEPT ![e] = @ + 1]
      BY <1>3, <1>20 DEF Fail, BatchHeld, Settling, FilesUnchanged, busVars
    <2>3. FailuresGrow
      BY <1>1, <2>2 DEF FailuresGrow
    <2>4. row.attempts <= fails'[e] + misses'[e]
      BY <1>1, <2>2 DEF RowFor, RowsCovered, Covered, Rows
    <2>5. d.snap[e] + 1 >= MaxAttempts => fails'[e] >= MaxAttempts \/ misses'[e] > 0
      BY <1>1, <1>2, <1>4, <2>2, OutboxAssumption
    <2>6. row.status = "dead" => d.snap[e] + 1 >= MaxAttempts
      BY DEF RowFor, Verdict
    <2> QED
      BY <1>10, <2>1, <2>2, <2>3, <2>4, <2>5, <2>6 DEF CoveredThen
  <1>21. CASE Settle(w)
    <2> DEFINE snap == [d.snap EXCEPT ![e] = 0]
               r == [Idle EXCEPT !.step = "loop", !.batch = Tail(d.batch), !.snap = snap,
                                 !.count = d.count + 1]
    <2>1. r.snap = snap /\ r.step = "loop"
      BY DEF Idle
    <2>2. snap \in [Events -> Nat] /\ \A x \in Events : snap[x] <= d.snap[x]
      <3>1. ASSUME NEW x \in Events PROVE snap[x] = d.snap[x] \/ snap[x] = 0
        BY <1>2
      <3>2. snap \in [Events -> Nat]
        BY <1>2
      <3>3. \A x \in Events : d.snap[x] \in Nat
        BY <1>2
      <3> HIDE DEF snap, d
      <3> QED
        BY <3>1, <3>2, <3>3
    <2> HIDE DEF snap
    <2> QED
      BY <1>9, <1>21, <2>1, <2>2 DEF Settle, HistoryUnchanged, snap
  <1>22. CASE Finish(w) \/ Crash(w)
    <2>1. Idle.step = "idle"
      BY DEF Idle
    <2> QED
      BY <1>8, <1>22, <2>1 DEF Finish, Crash, HistoryUnchanged, FilesUnchanged, busVars
  <1> QED
    BY <1>11, <1>12, <1>13, <1>14, <1>15, <1>16, <1>17, <1>18, <1>19, <1>20, <1>21, <1>22
       DEF DrainStep

\* Every row of a job, in the file, in a compaction or in a drainer's hand, is
\* covered by failures that happened: the ledger of drain(), _reap and compact_jobs.
THEOREM LedgerBalances == Spec => []Ledger
  <1>1. Init => Ledger
    BY DEF Init, BusInit, NoCompaction, NoRow, Idle, Ledger, BatchHeld, RowsCovered,
           DrainersCovered, Covered
  <1>2. TypeOK /\ BatchHeld /\ TypeOK' /\ BatchHeld' /\ Ledger /\ [Next]_vars => Ledger'
    <2> SUFFICES ASSUME TypeOK, BatchHeld, TypeOK', BatchHeld', RowsCovered, DrainersCovered,
                        [Next]_vars
                 PROVE  RowsCovered' /\ DrainersCovered'
      BY DEF Ledger
    <2>1. CASE (\E e \in Events : Emit(e)) \/ Compact \/ Tick
      BY <2>1, BusCovered DEF DrainersCovered, Covered, Current
    <2>2. ASSUME NEW w \in Drainers, DrainStep(w) \/ Crash(w)
          PROVE  RowsCovered' /\ DrainersCovered'
      BY <2>2, DrainStepCovered
    <2>3. CASE UNCHANGED vars
      BY <2>3 DEF vars, busVars, outVars, RowsCovered, DrainersCovered, Covered, Current
    <2> QED
      BY <2>1, <2>2, <2>3 DEF Next
  <1> QED
    BY <1>1, <1>2, TypeCorrect, PTL DEF Spec

\* Whatever drainers, crashes, reaping, compaction and repeated emissions do,
\* a job is dead only after MAX_ATTEMPTS exceptions or a failed lookup.
THEOREM NoEarlyDeath == Spec => []DeadMeansExhausted
  <1>1. Ledger => DeadMeansExhausted
    BY DEF Ledger, RowsCovered, Covered, DeadMeansExhausted
  <1> QED
    BY <1>1, LedgerBalances, PTL

\* A job's attempts never exceed the failures that really happened: no stale row,
\* no reaping and no compaction takes a retry from it.
THEOREM NoRetryIsLost == Spec => []AttemptsAreHonest
  <1>1. Ledger => AttemptsAreHonest
    BY DEF Ledger, RowsCovered, Covered, AttemptsAreHonest
  <1> QED
    BY <1>1, LedgerBalances, PTL

-----------------------------------------------------------------------------
(***************************************************************************)
(* What the order of two writes buys: emit_event writes the event before   *)
(* the job, drain() runs the handler before it writes "done", and          *)
(* compact_jobs keeps what it saw open.                                    *)
(***************************************************************************)

Holding == {"requeue", "mark", "settle"}

\* Ids nobody can have seen in jobs.jsonl: never emitted, or emitted once and
\* still between the two appends of emit_event.
Quiet(e) == emits[e] = 0 \/ (e \in emitting /\ emits[e] = 1)
Loud     == {e \in Events : ~Quiet(e)}

Announced ==
    /\ \A e \in Events : emits[e] > 0 => e \in logged
    /\ \A e \in emitting : emits[e] > 0
    /\ \A e \in Events : Quiet(e) => /\ job[e].status = "absent"
                                     /\ compaction.rows[e].status = "absent"
                                     /\ e \notin owed
    /\ \A w \in Drainers : drainer[w].batch \in Seq(Loud)

\* A copy of a "done" row, in the file, in a compaction or about to be
\* appended, of an id emitted once: the handler has returned.
Paid(e, row) == row.status = "done" /\ emits[e] <= 1 => e \notin owed

AllPaid ==
    /\ \A e \in Events : Paid(e, job[e]) /\ Paid(e, compaction.rows[e])
    /\ \A w \in Drainers :
           drainer[w].step \in Holding => Paid(Current(w), drainer[w].row)

\* The rows a compaction is about to write list all the jobs it saw open.
SawKept == \A e \in compaction.saw : compaction.rows[e].status # "absent"

-----------------------------------------------------------------------------
(* The steps of a drainer, as far as these invariants see them. *)

\* The list read_jobs gives for listed ids, and its cuts, hold listed ids.
LEMMA InFileOrderOf ==
    ASSUME NEW S \in SUBSET Events, NEW s \in InFileOrder(S), NEW L, S \subseteq L
    PROVE  s \in Seq(L)
  <1>1. IsFiniteSet(S)
    BY BusAssumption, FS_Subset
  <1>2. Cardinality(S) \in Nat
    BY <1>1, FS_CardinalityType
  <1>3. s \in [1..Cardinality(S) -> S]
    BY DEF InFileOrder
  <1>4. s \in [1..Cardinality(S) -> L]
    BY <1>3
  <1> QED
    BY <1>2, <1>4, SeqDef

LEMMA LimitOf ==
    ASSUME NEW L, NEW s \in Seq(L), NEW n \in Nat
    PROVE  Limit(s, n) \in Seq(L)
  BY SubSeqProperties DEF Limit

\* A drainer's list only ever holds ids that were in the file.
LEMMA BatchOf ==
    ASSUME TypeOK, BatchHeld, NEW w \in Drainers, DrainStep(w) \/ Crash(w),
           NEW L, Listed \subseteq L, drainer[w].batch \in Seq(L)
    PROVE  drainer'[w].batch \in Seq(L)
  <1> DEFINE d == drainer[w]
  <1>1. d \in Drainer /\ drainer \in [Drainers -> Drainer]
    BY DEF TypeOK
  <1>2. ASSUME NEW r, Local(w, r) PROVE drainer'[w] = r
    BY <1>1, <1>2 DEF Local
  <1>3. d.batch # <<>> => Tail(d.batch) \in Seq(L)
    OBVIOUS
  <1>4. <<>> \in Seq(L)
    OBVIOUS
  <1>5. CASE Start(w)
    <2>1. PICK s \in InFileOrder({e \in Events : Stuck(e)}) :
            Local(w, [d EXCEPT !.step = "reap", !.batch = s])
      BY <1>5 DEF Start
    <2>2. {e \in Events : Stuck(e)} \subseteq L
      BY DEF Stuck, Listed
    <2>3. s \in Seq(L)
      BY <2>2, InFileOrderOf
    <2> QED
      BY <1>1, <1>2, <2>1, <2>3 DEF Drainer
  <1>6. CASE ReadPending(w)
    <2>1. PICK s \in InFileOrder(WithStatus("pending")) :
            Local(w, [Idle EXCEPT !.step = "loop",
                                  !.batch = Limit(s, Fetch(w)),
                                  !.snap = [e \in Events |-> IF e \in Range(Limit(s, Fetch(w)))
                                                            THEN job[e].attempts ELSE 0]])
      BY <1>6 DEF ReadPending
    <2>2. WithStatus("pending") \subseteq L /\ WithStatus("pending") \subseteq Events
      BY DEF WithStatus, Listed
    <2>3. Limit(s, Fetch(w)) \in Seq(L)
      <3>1. s \in Seq(L)
        BY <2>2, InFileOrderOf
      <3> QED
        BY <3>1, LimitOf, FetchType
    <2>4. drainer'[w].batch = Limit(s, Fetch(w))
      BY <1>2, <2>1 DEF Idle
    <2> QED
      BY <2>3, <2>4
  <1>7. CASE ReapRead(w)
    BY <1>1, <1>2, <1>7 DEF ReapRead, Drainer
  <1>8. CASE ReapAppend(w)
    <2>1. d.batch # <<>>
      BY <1>8 DEF ReapAppend, BatchHeld
    <2> QED
      BY <1>1, <1>2, <1>3, <1>8, <2>1 DEF ReapAppend, Drainer
  <1>9. CASE SkipHeavy(w)
    BY <1>1, <1>2, <1>3, <1>9 DEF SkipHeavy, HasWork, Drainer
  <1>10. CASE Take(w)
    BY <1>1, <1>2, <1>10 DEF Take, Drainer
  <1>11. CASE Mark(w)
    BY <1>1, <1>2, <1>11 DEF Mark, Drainer
  <1>12. CASE NotFound(w)
    BY <1>1, <1>2, <1>12 DEF NotFound, Settling, Drainer
  <1>13. CASE Succeed(w)
    BY <1>1, <1>2, <1>13 DEF Succeed, Settling, Drainer
  <1>14. CASE Fail(w)
    BY <1>1, <1>2, <1>14 DEF Fail, Settling, Drainer
  <1>15. CASE Settle(w)
    <2>1. d.batch # <<>>
      BY <1>15 DEF Settle, BatchHeld
    <2>2. drainer'[w].batch = Tail(d.batch)
      BY <1>2, <1>15 DEF Settle, Idle
    <2> QED
      BY <1>3, <2>1, <2>2
  <1>16. CASE Finish(w) \/ Crash(w)
    <2>1. drainer'[w] = Idle
      BY <1>2, <1>16 DEF Finish, Crash
    <2>2. Idle.batch = <<>>
      BY DEF Idle
    <2> QED
      BY <1>4, <2>1, <2>2
  <1> QED
    BY <1>5, <1>6, <1>7, <1>8, <1>9, <1>10, <1>11, <1>12, <1>13, <1>14, <1>15, <1>16 DEF DrainStep

\* A drainer leaves the emissions and the compaction alone, moves only itself,
\* forgives only what it processed, and appends only the row it holds.
LEMMA DrainFrame ==
    ASSUME TypeOK, NEW w \in Drainers, DrainStep(w) \/ Crash(w)
    PROVE  /\ UNCHANGED <<logged, emitting, emits, compaction>>
           /\ \A v \in Drainers \ {w} : drainer'[v] = drainer[v]
           /\ owed' \subseteq owed
           /\ \/ UNCHANGED job
              \/ /\ drainer[w].step \in Holding
                 /\ AppendRow(Current(w), drainer[w].row.status, drainer[w].row.attempts)
  <1>1. ASSUME NEW r, Local(w, r) PROVE \A v \in Drainers \ {w} : drainer'[v] = drainer[v]
    BY <1>1 DEF Local, TypeOK
  <1>2. UNCHANGED <<logged, emitting, emits, compaction>>
    BY DEF DrainStep, Start, ReapRead, ReapAppend, ReadPending, SkipHeavy, Take, Mark, NotFound,
       Succeed, Fail, Settle, Finish, Crash, FilesUnchanged, busVars
  <1>3. \A v \in Drainers \ {w} : drainer'[v] = drainer[v]
    BY <1>1 DEF DrainStep, Start, ReapRead, ReapAppend, ReadPending, SkipHeavy, Take, Mark, NotFound,
       Succeed, Fail, Settle, Finish, Crash, Settling
  <1>4. owed' \subseteq owed
    BY DEF DrainStep, Start, ReapRead, ReapAppend, ReadPending, SkipHeavy, Take, Mark, NotFound,
       Succeed, Fail, Settle, Finish, Crash, HistoryUnchanged
  <1>5. \/ UNCHANGED job
        \/ /\ drainer[w].step \in Holding
           /\ AppendRow(Current(w), drainer[w].row.status, drainer[w].row.attempts)
    BY DEF DrainStep, Start, ReapRead, ReapAppend, ReadPending, SkipHeavy, Take, Mark, NotFound,
       Succeed, Fail, Settle, Finish, Crash, FilesUnchanged, busVars, Holding
  <1> QED
    BY <1>2, <1>3, <1>4, <1>5
-----------------------------------------------------------------------------
(* The event is on file before anybody can find its job. *)

\* What is listed was announced.
LEMMA ListedLoud == Announced => Listed \subseteq Loud
  BY DEF Announced, Listed, Loud

LEMMA DrainAnnounced ==
    ASSUME TypeOK, BatchHeld, Announced, NEW w \in Drainers, DrainStep(w) \/ Crash(w)
    PROVE  Announced'
  <1>1. /\ UNCHANGED <<logged, emitting, emits, compaction>>
        /\ \A v \in Drainers \ {w} : drainer'[v] = drainer[v]
        /\ owed' \subseteq owed
        /\ \/ UNCHANGED job
           \/ /\ drainer[w].step \in Holding
              /\ AppendRow(Current(w), drainer[w].row.status, drainer[w].row.attempts)
    BY DrainFrame
  <1>2. \A e : Quiet(e)' <=> Quiet(e)
    BY <1>1 DEF Quiet
  <1>3. Loud' = Loud
    BY <1>2 DEF Loud
  <1>4. drainer'[w].batch \in Seq(Loud)
    BY ListedLoud, BatchOf DEF Announced
  <1>5. ASSUME drainer[w].step \in Holding PROVE Current(w) \in Loud
    BY <1>5 DEF Holding, BatchHeld, Current, Announced
  <1>6. ASSUME NEW e \in Events, Quiet(e) PROVE job'[e].status = "absent"
    <2>1. job[e].status = "absent"
      BY <1>6 DEF Announced
    <2>2. drainer[w].step \in Holding => e # Current(w)
      BY <1>5, <1>6 DEF Loud
    <2> QED
      BY <1>1, <2>1, <2>2 DEF AppendRow, TypeOK, BusTypeOK
  <1> QED
    BY <1>1, <1>2, <1>3, <1>4, <1>6 DEF Announced

LEMMA BusAnnounced ==
    ASSUME TypeOK, Announced, (\E e \in Events : Emit(e)) \/ Compact \/ Tick
    PROVE  Announced'
  <1>1. UNCHANGED drainer
    BY DEF Emit, Compact, Tick, outVars
  \* Ids only become loud, so what a drainer holds stays among the loud ones.
  <1>2. ASSUME Loud \subseteq Loud' PROVE \A w \in Drainers : drainer'[w].batch \in Seq(Loud')
    <2>1. \A s \in Seq(Loud) : s \in Seq(Loud')
      BY <1>2
    <2> QED
      BY <1>1, <2>1 DEF Announced
  <1>3. emits \in [Events -> Nat] /\ job \in [Events -> Rows] /\ emitting \subseteq Events
        /\ compaction.rows \in [Events -> Rows]
    BY DEF TypeOK, BusTypeOK
  <1>4. ASSUME NEW e \in Events, EmitEvent(e), UNCHANGED outVars PROVE Announced'
    <2>1. /\ emits' = [emits EXCEPT ![e] = @ + 1] /\ emitting' = emitting \cup {e}
          /\ logged' = logged \cup {e} /\ e \notin emitting
          /\ UNCHANGED <<job, compaction, owed>>
      BY <1>4 DEF EmitEvent, outVars
    <2>2. \A x \in Events : Quiet(x)' => Quiet(x)
      BY <1>3, <2>1 DEF Quiet
    <2>3. Loud \subseteq Loud'
      BY <2>2 DEF Loud
    <2>4. (\A x \in Events : emits[x] > 0 => x \in logged)'
      BY <1>3, <2>1 DEF Announced
    <2>5. (\A x \in emitting : emits[x] > 0)'
      BY <1>3, <2>1 DEF Announced
    <2> QED
      BY <1>2, <2>1, <2>2, <2>3, <2>4, <2>5 DEF Announced
  <1>5. ASSUME NEW e \in Events, EmitJob(e), owed' = owed \cup {e} PROVE Announced'
    <2>1. /\ emitting' = emitting \ {e} /\ e \in emitting
          /\ AppendRow(e, "pending", 0)
          /\ UNCHANGED <<logged, emits, compaction>>
      BY <1>5 DEF EmitJob
    <2>2. emits[e] > 0
      BY <2>1 DEF Announced
    <2>3. \A x \in Events : Quiet(x)' => Quiet(x) /\ x # e
      BY <1>3, <2>1, <2>2 DEF Quiet
    <2>4. Loud \subseteq Loud'
      BY <2>3 DEF Loud
    <2>5. \A x \in Events : x # e => job'[x] = job[x]
      BY <1>3, <2>1 DEF AppendRow
    <2> QED
      BY <1>2, <1>5, <2>1, <2>3, <2>4, <2>5 DEF Announced
  <1>6. ASSUME NEW e \in Events, EmitCut(e), UNCHANGED outVars PROVE Announced'
    <2>1. /\ emitting' = emitting \ {e} /\ e \in emitting
          /\ UNCHANGED <<logged, emits, job, compaction, owed>>
      BY <1>6 DEF EmitCut, outVars
    <2>2. \A x \in Events : Quiet(x)' => Quiet(x)
      BY <1>3, <2>1 DEF Quiet
    <2>3. Loud \subseteq Loud'
      BY <2>2 DEF Loud
    <2> QED
      BY <1>2, <2>1, <2>2, <2>3 DEF Announced
  <1>7. ASSUME UNCHANGED <<logged, emitting, emits, owed>>,
               \A x \in Events : Quiet(x) => /\ job'[x].status = "absent"
                                            /\ compaction'.rows[x].status = "absent"
        PROVE  Announced'
    <2>1. \A x : Quiet(x)' <=> Quiet(x)
      BY <1>7 DEF Quiet
    <2>2. Loud \subseteq Loud'
      BY <2>1 DEF Loud
    <2> QED
      BY <1>2, <1>7, <2>1, <2>2 DEF Announced
  <1>8. CASE Compact
    <2>1. UNCHANGED <<logged, emitting, emits, owed>>
      BY <1>8 DEF Compact, CompactRead, CompactReplace, CompactFail, outVars
    <2>2. NoRow.status = "absent" /\ \A x \in Events : NoCompaction.rows[x] = NoRow
      BY DEF NoRow, NoCompaction
    <2>3. \A x \in Events : Quiet(x) => /\ job'[x].status = "absent"
                                        /\ compaction'.rows[x].status = "absent"
      <3>1. CASE CompactRead
        BY <2>2, <3>1 DEF CompactRead, Announced
      <3>2. CASE CompactReplace
        BY <2>2, <3>2 DEF CompactReplace, Announced
      <3>3. CASE CompactFail
        BY <2>2, <3>3 DEF CompactFail, Announced
      <3> QED
        BY <1>8, <3>1, <3>2, <3>3 DEF Compact
    <2> QED
      BY <1>7, <2>1, <2>3
  <1>9. CASE Tick
    <2>1. UNCHANGED <<logged, emitting, emits, owed>>
      BY <1>9 DEF Tick, TimePasses, outVars
    <2>2. ASSUME NEW x \in Events
          PROVE  /\ job'[x].status = job[x].status
                 /\ compaction'.rows[x].status = compaction.rows[x].status
      <3>1. job'[x] = Older(job[x]) /\ compaction'.rows[x] = Older(compaction.rows[x])
        BY <1>9 DEF Tick, TimePasses, TypeOK, BusTypeOK
      <3>2. job[x] \in Rows /\ compaction.rows[x] \in Rows
        BY <1>3
      <3> QED
        BY <3>1, <3>2, OlderType
    <2> QED
      BY <1>7, <2>1, <2>2 DEF Announced
  <1> QED
    BY <1>4, <1>5, <1>6, <1>8, <1>9 DEF Emit

LEMMA AnnouncedInvariant == Spec => []Announced
  <1>1. Init => Announced
    <2> SUFFICES ASSUME Init PROVE Announced
      OBVIOUS
    <2>1. \A w \in Drainers : drainer[w].batch = <<>>
      BY DEF Init, Idle
    <2>2. <<>> \in Seq(Loud)
      OBVIOUS
    <2>3. \A e \in Events : /\ emits[e] = 0
                            /\ job[e].status = "absent"
                            /\ compaction.rows[e].status = "absent"
      BY DEF Init, BusInit, NoRow, NoCompaction
    <2>4. emitting = {} /\ owed = {}
      BY DEF Init, BusInit
    <2>5. \A e \in Events : ~(emits[e] > 0)
      BY <2>3
    <2>6. \A w \in Drainers : drainer[w].batch \in Seq(Loud)
      BY <2>1, <2>2
    <2> HIDE DEF Loud, Quiet
    <2> QED
      BY <2>3, <2>4, <2>5, <2>6 DEF Announced
  <1>2. TypeOK /\ BatchHeld /\ Announced /\ [Next]_vars => Announced'
    <2> SUFFICES ASSUME TypeOK, BatchHeld, Announced, [Next]_vars PROVE Announced'
      OBVIOUS
    <2>1. CASE (\E e \in Events : Emit(e)) \/ Compact \/ Tick
      BY <2>1, BusAnnounced
    <2>2. ASSUME NEW w \in Drainers, DrainStep(w) \/ Crash(w) PROVE Announced'
      BY <2>2, DrainAnnounced
    <2>3. CASE UNCHANGED vars
      BY <2>3 DEF vars, busVars, outVars, Announced, Quiet, Loud
    <2> QED
      BY <2>1, <2>2, <2>3 DEF Next
  <1> QED
    BY <1>1, <1>2, TypeCorrect, PTL DEF Spec

\* Every id in jobs.jsonl, and in every list a drainer walks, can be looked
\* up: emit_event writes the event before the job, and nobody else adds ids.
THEOREM EventsBeforeJobs == Spec => []JobsHaveEvents
  <1>1. TypeOK /\ Announced => JobsHaveEvents
    BY DEF Announced, Quiet, JobsHaveEvents, Listed, TypeOK, BusTypeOK
  <1> QED
    BY <1>1, TypeCorrect, AnnouncedInvariant, PTL
-----------------------------------------------------------------------------
(* Done means processed. *)

\* The locals of a drainer that may append next hold no unpaid "done" row.
LEMMA HeldPaid ==
    ASSUME TypeOK, BatchHeld, AllPaid, NEW w \in Drainers, DrainStep(w) \/ Crash(w)
    PROVE  drainer'[w].step \in Holding
             => drainer'[w].row.status # "done" \/ Head(drainer'[w].batch) \notin owed'
  <1> DEFINE d == drainer[w]
             e == Current(w)
  <1>1. d \in Drainer /\ drainer \in [Drainers -> Drainer]
    BY DEF TypeOK
  <1>2. ASSUME NEW r, Local(w, r) PROVE drainer'[w] = r
    BY <1>1, <1>2 DEF Local
  <1>4. Idle.step = "idle"
    BY DEF Idle
  \* The steps after which the drainer holds no row.
  <1>5. CASE Start(w) \/ ReapAppend(w) \/ ReadPending(w) \/ SkipHeavy(w) \/ Mark(w)
             \/ Settle(w) \/ Finish(w) \/ Crash(w)
    <2>1. drainer'[w].step \in {"idle", "reap", "loop", "run"}
      <3>1. CASE Start(w)
        BY <1>1, <1>2, <3>1 DEF Start, Drainer
      <3>2. CASE ReapAppend(w)
        BY <1>1, <1>2, <3>2 DEF ReapAppend, Drainer
      <3>3. CASE ReadPending(w)
        <4>1. PICK s \in InFileOrder(WithStatus("pending")) :
                Local(w, [Idle EXCEPT !.step = "loop",
                                      !.batch = Limit(s, Fetch(w)),
                                      !.snap = [x \in Events |-> IF x \in Range(Limit(s, Fetch(w)))
                                                                THEN job[x].attempts ELSE 0]])
          BY <3>3 DEF ReadPending
        <4> QED
          BY <1>2, <4>1 DEF Idle
      <3>4. CASE SkipHeavy(w)
        BY <1>1, <1>2, <3>4 DEF SkipHeavy, HasWork, Drainer
      <3>5. CASE Mark(w)
        BY <1>1, <1>2, <3>5 DEF Mark, Drainer
      <3>6. CASE Settle(w)
        BY <1>2, <3>6 DEF Settle, Idle
      <3>7. CASE Finish(w) \/ Crash(w)
        BY <1>2, <1>4, <3>7 DEF Finish, Crash
      <3> QED
        BY <1>5, <3>1, <3>2, <3>3, <3>4, <3>5, <3>6, <3>7
    <2> QED
      BY <2>1 DEF Holding
  \* The steps that prepare a row.
  <1>6. CASE ReapRead(w)
    <2>1. drainer'[w] = [d EXCEPT !.step = "requeue", !.row = RowFor(e, "pending", 0)]
      BY <1>2, <1>6 DEF ReapRead
    <2>2. drainer'[w].row.status = "pending"
      BY <1>1, <2>1 DEF Drainer, RowFor
    <2> QED
      BY <2>2
  <1>7. CASE Take(w)
    <2>1. PICK found \in BOOLEAN :
            drainer'[w] = [d EXCEPT !.step = "mark", !.found = found,
                                    !.row = RowFor(e, "processing", 0)]
      BY <1>2, <1>7 DEF Take, Lookups
    <2>2. drainer'[w].row.status = "processing"
      BY <1>1, <2>1 DEF Drainer, RowFor
    <2> QED
      BY <2>2
  <1>8. CASE NotFound(w)
    <2>1. drainer'[w] = [d EXCEPT !.step = "settle", !.row = RowFor(e, "dead", 1)]
      BY <1>2, <1>8 DEF NotFound, Settling
    <2>2. drainer'[w].row.status = "dead"
      BY <1>1, <2>1 DEF Drainer, RowFor
    <2> QED
      BY <2>2
  <1>9. CASE Fail(w)
    <2>1. drainer'[w] = [d EXCEPT !.step = "settle", !.row = RowFor(e, Verdict(d.snap[e]), 1)]
      BY <1>2, <1>9 DEF Fail, Settling
    <2>2. drainer'[w].row.status = Verdict(d.snap[e])
      BY <1>1, <2>1 DEF Drainer, RowFor
    <2>3. drainer'[w].row.status # "done"
      BY <2>2 DEF Verdict
    <2> QED
      BY <2>3
  <1>10. CASE Succeed(w)
    <2>1. drainer'[w] = [d EXCEPT !.step = "settle", !.row = RowFor(e, "done", 0)]
      BY <1>2, <1>10 DEF Succeed, Settling
    <2>2. drainer'[w].batch = d.batch
      BY <1>1, <2>1 DEF Drainer
    <2>3. Head(drainer'[w].batch) \notin owed'
      BY <1>10, <2>2 DEF Succeed, Current
    <2> QED
      BY <2>3
  <1> QED
    BY <1>5, <1>6, <1>7, <1>8, <1>9, <1>10 DEF DrainStep

LEMMA DrainPaid ==
    ASSUME TypeOK, BatchHeld, AllPaid, NEW w \in Drainers, DrainStep(w) \/ Crash(w)
    PROVE  AllPaid'
  <1>1. /\ UNCHANGED <<logged, emitting, emits, compaction>>
        /\ \A v \in Drainers \ {w} : drainer'[v] = drainer[v]
        /\ owed' \subseteq owed
        /\ \/ UNCHANGED job
           \/ /\ drainer[w].step \in Holding
              /\ AppendRow(Current(w), drainer[w].row.status, drainer[w].row.attempts)
    BY DrainFrame
  <1>2. ASSUME NEW x, x \notin owed PROVE x \notin owed'
    BY <1>1, <1>2
  <1>3. ASSUME NEW x \in Events, job'[x].status = "done", emits'[x] <= 1 PROVE x \notin owed'
    <2>1. CASE job'[x] = job[x]
      BY <1>1, <1>2, <1>3, <2>1 DEF AllPaid, Paid
    <2>2. CASE job'[x] # job[x]
      <3>1. /\ drainer[w].step \in Holding /\ x = Current(w)
            /\ job'[x].status = drainer[w].row.status
        BY <1>1, <2>2 DEF AppendRow, TypeOK, BusTypeOK
      <3> QED
        BY <1>1, <1>2, <1>3, <3>1 DEF AllPaid, Paid
    <2> QED
      BY <2>1, <2>2
  <1>4. ASSUME NEW x \in Events, compaction'.rows[x].status = "done", emits'[x] <= 1
        PROVE  x \notin owed'
    BY <1>1, <1>2, <1>4 DEF AllPaid, Paid
  <1>5. ASSUME NEW v \in Drainers, drainer'[v].step \in Holding,
               drainer'[v].row.status = "done", emits'[Head(drainer'[v].batch)] <= 1
        PROVE  Head(drainer'[v].batch) \notin owed'
    <2>1. CASE v = w
      BY <1>5, <2>1, HeldPaid
    <2>2. CASE v # w
      <3>1. drainer'[v] = drainer[v] /\ Head(drainer'[v].batch) = Current(v)
        BY <1>1, <2>2 DEF Current
      <3> QED
        BY <1>1, <1>2, <1>5, <3>1 DEF AllPaid, Paid
    <2> QED
      BY <2>1, <2>2
  <1> QED
    BY <1>3, <1>4, <1>5 DEF AllPaid, Paid, Current

\* The bus only owes a job whose id nobody has a row of, or one emitted again.
LEMMA BusPaid ==
    ASSUME TypeOK, BatchHeld, Announced, AllPaid,
           (\E e \in Events : Emit(e)) \/ Compact \/ Tick
    PROVE  AllPaid'
  <1>1. UNCHANGED drainer
    BY DEF Emit, Compact, Tick, outVars
  <1>2. emits \in [Events -> Nat] /\ job \in [Events -> Rows]
        /\ compaction.rows \in [Events -> Rows]
    BY DEF TypeOK, BusTypeOK
  <1>3. \A w \in Drainers : drainer[w].step \in Holding => Current(w) \in Loud
    BY DEF Holding, BatchHeld, Current, Announced
  \* Nothing new is owed, and no row becomes "done" but a copy of a paid one.
  <1>4. ASSUME owed' \subseteq owed,
               \A x \in Events : emits'[x] <= 1 => emits[x] <= 1,
               \A x \in Events : job'[x].status = "done" => job[x].status = "done"
                                                      \/ compaction.rows[x].status = "done",
               \A x \in Events : compaction'.rows[x].status = "done"
                                  => job[x].status = "done" \/ compaction.rows[x].status = "done"
        PROVE  AllPaid'
    <2>1. ASSUME NEW x \in Events, job'[x].status = "done", emits'[x] <= 1 PROVE x \notin owed'
      BY <1>4, <2>1 DEF AllPaid, Paid
    <2>2. ASSUME NEW x \in Events, compaction'.rows[x].status = "done", emits'[x] <= 1
          PROVE  x \notin owed'
      BY <1>4, <2>2 DEF AllPaid, Paid
    <2>3. ASSUME NEW w \in Drainers, drainer[w].step \in Holding, drainer[w].row.status = "done",
                 emits'[Current(w)] <= 1
          PROVE  Current(w) \notin owed'
      <3>1. Current(w) \in Events
        BY <1>3, <2>3 DEF Loud
      <3> QED
        BY <1>4, <2>3, <3>1 DEF AllPaid, Paid
    <2> QED
      BY <1>1, <2>1, <2>2, <2>3 DEF AllPaid, Paid, Current
  <1>5. ASSUME NEW e \in Events, EmitEvent(e) \/ EmitCut(e), UNCHANGED outVars PROVE AllPaid'
    <2>1. UNCHANGED <<job, compaction, owed>>
      BY <1>5 DEF EmitEvent, EmitCut, outVars
    <2>2. \A x \in Events : emits'[x] <= 1 => emits[x] <= 1
      BY <1>2, <1>5 DEF EmitEvent, EmitCut
    <2> QED
      BY <1>4, <2>1, <2>2
  <1>6. ASSUME NEW e \in Events, EmitJob(e), owed' = owed \cup {e} PROVE AllPaid'
    <2>1. e \in emitting /\ AppendRow(e, "pending", 0) /\ UNCHANGED <<emits, compaction>>
      BY <1>6 DEF EmitJob
    <2>2. job'[e].status = "pending" /\ \A x \in Events \ {e} : job'[x] = job[x]
      BY <1>2, <2>1 DEF AppendRow
    <2>3. emits[e] <= 1 => Quiet(e)
      BY <1>2, <2>1 DEF Quiet
    <2>4. ASSUME NEW x \in Events, job'[x].status = "done", emits'[x] <= 1 PROVE x \notin owed'
      BY <1>6, <2>1, <2>2, <2>4 DEF AllPaid, Paid
    <2>5. ASSUME NEW x \in Events, compaction'.rows[x].status = "done", emits'[x] <= 1
          PROVE  x \notin owed'
      BY <1>6, <2>1, <2>3, <2>5 DEF AllPaid, Paid, Announced
    <2>6. ASSUME NEW w \in Drainers, drainer[w].step \in Holding, drainer[w].row.status = "done",
                 emits'[Current(w)] <= 1
          PROVE  Current(w) \notin owed'
      <3>1. Current(w) \in Loud
        BY <1>3, <2>6
      <3> QED
        BY <1>6, <2>1, <2>3, <2>6, <3>1 DEF AllPaid, Paid, Loud
    <2> QED
      BY <1>1, <2>4, <2>5, <2>6 DEF AllPaid, Paid, Current
  <1>7. CASE Compact
    <2>1. UNCHANGED <<emits, owed>>
      BY <1>7 DEF Compact, CompactRead, CompactReplace, CompactFail, outVars
    <2>2. \A x \in Events : NoCompaction.rows[x].status = "absent"
      BY DEF NoRow, NoCompaction
    <2>3. CASE CompactRead
      <3>1. NoRow.status = "absent"
        BY DEF NoRow
      <3> QED
        BY <1>4, <2>1, <2>3, <3>1 DEF CompactRead
    <2>4. CASE CompactReplace
      BY <1>4, <2>1, <2>2, <2>4 DEF CompactReplace
    <2>5. CASE CompactFail
      BY <1>4, <2>1, <2>2, <2>5 DEF CompactFail
    <2> QED
      BY <1>7, <2>3, <2>4, <2>5 DEF Compact
  <1>8. CASE Tick
    <2>1. UNCHANGED <<emits, owed>>
      BY <1>8 DEF Tick, TimePasses, outVars
    <2>2. \A x \in Events : /\ job'[x] = Older(job[x])
                             /\ compaction'.rows[x] = Older(compaction.rows[x])
      BY <1>8 DEF Tick, TimePasses, TypeOK, BusTypeOK
    <2>3. \A x \in Events : /\ job'[x].status = job[x].status
                             /\ compaction'.rows[x].status = compaction.rows[x].status
      BY <1>2, <2>2, OlderType
    <2> QED
      BY <1>4, <2>1, <2>3
  <1> QED
    BY <1>5, <1>6, <1>7, <1>8 DEF Emit

\* A job marked done has been processed since it was emitted, unless the same
\* id was emitted again: whatever drainers, crashes, reaping and compactions
\* do, "done" is only ever appended by a drainer whose handler returned.
THEOREM DoneWasProcessed == Spec => []DoneMeansProcessed
  <1>1. Init => AllPaid
    <2> SUFFICES ASSUME Init PROVE AllPaid
      OBVIOUS
    <2>1. owed = {}
      BY DEF Init
    <2> QED
      BY <2>1 DEF AllPaid, Paid
  <1>2. TypeOK /\ BatchHeld /\ Announced /\ AllPaid /\ [Next]_vars => AllPaid'
    <2> SUFFICES ASSUME TypeOK, BatchHeld, Announced, AllPaid, [Next]_vars PROVE AllPaid'
      OBVIOUS
    <2>1. CASE (\E e \in Events : Emit(e)) \/ Compact \/ Tick
      BY <2>1, BusPaid
    <2>2. ASSUME NEW w \in Drainers, DrainStep(w) \/ Crash(w) PROVE AllPaid'
      BY <2>2, DrainPaid
    <2>3. CASE UNCHANGED vars
      BY <2>3 DEF vars, busVars, outVars, AllPaid, Paid, Current
    <2> QED
      BY <2>1, <2>2, <2>3 DEF Next
  <1>3. TypeOK /\ AllPaid => DoneMeansProcessed
    <2> SUFFICES ASSUME TypeOK, AllPaid, NEW e \in Events, job[e].status = "done", e \in owed
                 PROVE  emits[e] > 1
      BY DEF DoneMeansProcessed
    <2>1. emits[e] \in Nat
      BY DEF TypeOK, BusTypeOK
    <2> QED
      BY <2>1 DEF AllPaid, Paid
  <1> QED
    BY <1>1, <1>2, <1>3, TypeCorrect, AnnouncedInvariant, PTL DEF Spec
-----------------------------------------------------------------------------
(* A compaction keeps what it saw open. *)

LEMMA SawKeptInvariant == Spec => []SawKept
  <1>1. Init => SawKept
    BY DEF Init, BusInit, NoCompaction, SawKept
  <1>2. TypeOK /\ SawKept /\ [Next]_vars => SawKept'
    <2> SUFFICES ASSUME TypeOK, SawKept, [Next]_vars PROVE SawKept'
      OBVIOUS
    <2>1. CASE UNCHANGED compaction
      BY <2>1 DEF SawKept
    <2>2. CASE CompactRead
      BY <2>2 DEF CompactRead, SawKept, Open, Expired
    <2>3. CASE CompactReplace \/ CompactFail
      BY <2>3 DEF CompactReplace, CompactFail, NoCompaction, SawKept
    <2>4. CASE Tick
      <3>1. /\ compaction'.saw = compaction.saw /\ compaction.saw \subseteq Events
            /\ compaction.rows \in [Events -> Rows]
            /\ \A x \in Events : compaction'.rows[x] = Older(compaction.rows[x])
        BY <2>4 DEF Tick, TimePasses, TypeOK, BusTypeOK
      <3>2. \A x \in Events : compaction'.rows[x].status = compaction.rows[x].status
        BY <3>1, OlderType
      <3> QED
        BY <3>1, <3>2 DEF SawKept
    <2>5. ASSUME NEW w \in Drainers, DrainStep(w) \/ Crash(w) PROVE SawKept'
      BY <2>1, <2>5, DrainFrame
    <2>6. ASSUME NEW e \in Events, Emit(e) PROVE SawKept'
      BY <2>1, <2>6 DEF Emit, EmitEvent, EmitJob, EmitCut
    <2>7. UNCHANGED vars => UNCHANGED compaction
      BY DEF vars, busVars
    <2> QED
      BY <2>1, <2>2, <2>3, <2>4, <2>5, <2>6, <2>7 DEF Next, Compact
  <1> QED
    BY <1>1, <1>2, TypeCorrect, PTL DEF Spec

\* Whoever else writes, an open job leaves jobs.jsonl in one way only: a
\* compaction replaces the file with what it read before the job was open.
THEOREM OpenJobsAreKept == Spec => OpenJobsSurvive
  <1> DEFINE Loss == \A e \in Open :
                 job'[e].status = "absent" => compaction.on /\ e \notin compaction.saw
  <1>1. TypeOK /\ TypeOK' /\ BatchHeld /\ SawKept /\ [Next]_vars => [Loss]_vars
    <2> SUFFICES ASSUME TypeOK, BatchHeld, SawKept, Next,
                        NEW x \in Open, job'[x].status = "absent"
                 PROVE  compaction.on /\ x \notin compaction.saw
      OBVIOUS
    <2>1. x \in Events /\ job[x].status # "absent" /\ job \in [Events -> Rows]
      BY DEF Open, TypeOK, BusTypeOK
    <2>2. ~UNCHANGED job
      BY <2>1
    <2>3. ASSUME NEW e, NEW st, NEW n, AppendRow(e, st, n), st # "absent" PROVE FALSE
      BY <2>1, <2>3 DEF AppendRow
    <2>4. CASE CompactReplace
      BY <2>1, <2>4 DEF CompactReplace, SawKept
    <2>5. CASE CompactRead \/ CompactFail
      BY <2>2, <2>5 DEF CompactRead, CompactFail
    <2>6. CASE Tick
      <3>1. job'[x] = Older(job[x])
        BY <2>1, <2>6 DEF Tick, TimePasses
      <3> QED
        BY <2>1, <3>1, OlderType
    <2>7. ASSUME NEW e \in Events, Emit(e) PROVE FALSE
      BY <2>2, <2>3, <2>7 DEF Emit, EmitEvent, EmitJob, EmitCut
    <2>8. ASSUME NEW w \in Drainers, DrainStep(w) \/ Crash(w) PROVE FALSE
      <3>1. drainer[w].row.status # "absent"
        BY DEF TypeOK, Drainer, OutRow, Statuses
      <3> QED
        BY <2>2, <2>3, <2>8, <3>1, DrainFrame
    <2> QED
      BY <2>4, <2>5, <2>6, <2>7, <2>8 DEF Next, Compact
  <1> QED
    BY <1>1, TypeCorrect, SawKeptInvariant, PTL DEF Spec, OpenJobsSurvive
-----------------------------------------------------------------------------
(***************************************************************************)
(* One drainer that nobody disturbs implements JobLifecycle.               *)
(***************************************************************************)

\* One drainer at a time, no session start that compacts, no id emitted twice in
\* its second, and an events.jsonl that can be read.  Without any one of these the
\* jobs file does take steps that its documentation does not draw.
OneQueue ==
    /\ \A v, w \in Drainers : v = w
    /\ ~Compacting
    /\ MaxEmits <= 1
    /\ MaxMisses = 0

Once(b) == \A i, j \in 1..Len(b) : b[i] = b[j] => i = j

\* The job is as the snapshot says.
Waits(d, e) == job[e].status = "pending" /\ job[e].attempts = d.snap[e]

\* What the locals d of the one drainer say of the file: the list it reaps is
\* stuck, the list it walks waits, the job it holds is processing, and the row it
\* is about to append carries on from the row in the file.
InStep(d) ==
    LET e == Head(d.batch) IN
    /\ Once(d.batch)
    /\ d.step = "idle"                => d.batch = <<>>
    /\ d.step \in {"reap", "requeue"} => \A x \in Range(d.batch) : job[x].status = "processing"
    /\ d.step \in {"loop", "mark"}    => \A x \in Range(d.batch) : Waits(d, x)
    /\ d.step \in {"run", "settle"}   => /\ job[e].status = "processing"
                                         /\ \A x \in Range(d.batch) \ {e} : Waits(d, x)
    /\ d.step = "run"                 => job[e].attempts = d.snap[e]
    /\ d.step \in {"mark", "run"}     => d.found
    /\ d.step = "requeue"             => d.row = RowFor(e, "pending", 0)
    /\ d.step = "mark"                => d.row = RowFor(e, "processing", 0)
    /\ d.step = "settle"              => \/ d.row = RowFor(e, "done", 0) /\ runs[e] > 0
                                         \/ d.row = RowFor(e, Verdict(job[e].attempts), 1)

InSteps ==
    /\ ~compaction.on
    /\ \A e \in Events : emits[e] <= 1
    /\ \A e \in Events : job[e].status = "absent" => job[e].attempts = 0
    /\ \A w \in Drainers : InStep(drainer[w])

\* A list without duplicates loses its head for good.
LEMMA TailOnce ==
    ASSUME NEW b \in Seq(Events), b # <<>>, Once(b)
    PROVE  /\ Head(b) \in Range(b)
           /\ Once(Tail(b))
           /\ Range(Tail(b)) \subseteq Range(b) \ {Head(b)}
  <1>1. Len(b) \in Nat /\ Len(b) # 0 /\ DOMAIN b = 1..Len(b) /\ Head(b) = b[1]
    OBVIOUS
  <1>2. /\ Tail(b) \in Seq(Events) /\ Len(Tail(b)) = Len(b) - 1
        /\ \A i \in 1..Len(Tail(b)) : Tail(b)[i] = b[i + 1]
    BY HeadTailProperties
  <1>3. DOMAIN Tail(b) = 1..Len(Tail(b))
    BY <1>2
  <1>4. Once(Tail(b))
    BY <1>1, <1>2 DEF Once
  <1>5. ASSUME NEW i \in 1..Len(Tail(b)) PROVE Tail(b)[i] \in Range(b) \ {Head(b)}
    <2>1. i + 1 \in 1..Len(b) /\ i + 1 # 1 /\ Tail(b)[i] = b[i + 1]
      BY <1>1, <1>2
    <2> QED
      BY <1>1, <2>1 DEF Once, Range
  <1> QED
    BY <1>1, <1>3, <1>4, <1>5 DEF Range

\* read_jobs yields each id once, and a limit only cuts.
LEMMA ListOnce ==
    ASSUME NEW S \in SUBSET Events, NEW s \in InFileOrder(S), NEW n \in Nat
    PROVE  /\ Once(s) /\ Range(s) \subseteq S
           /\ Once(Limit(s, n)) /\ Range(Limit(s, n)) \subseteq S
  <1>1. Cardinality(S) \in Nat
    BY BusAssumption, FS_Subset, FS_CardinalityType
  <1>2. s \in [1..Cardinality(S) -> S] /\ s \in Seq(S)
    BY InFileOrderOf DEF InFileOrder
  <1>3. Len(s) = Cardinality(S) /\ DOMAIN s = 1..Len(s)
    BY <1>1, <1>2
  <1>4. Once(s)
    <2> SUFFICES ASSUME NEW i \in 1..Cardinality(S), NEW j \in 1..Cardinality(S), i < j
                 PROVE  s[i] # s[j]
      BY <1>1, <1>3 DEF Once
    <2> QED
      BY DEF InFileOrder
  <1>5. Range(s) \subseteq S
    BY <1>2 DEF Range
  <1>6. CASE Len(s) > n
    <2> DEFINE t == SubSeq(s, 1, n)
    <2>1. /\ t \in Seq(S) /\ Len(t) = n /\ \A i \in 1..n : t[i] = s[i]
      <3>1. \A i \in 1..n : s[i] \in S
        BY <1>2, <1>3, <1>6
      <3>2. /\ t \in Seq(S) /\ Len(t) = IF 1 <= n THEN n - 1 + 1 ELSE 0
            /\ \A i \in 1..n - 1 + 1 : t[i] = s[1 + i - 1]
        BY <3>1, SubSeqProperties
      <3> QED
        BY <3>2
    <2>2. Once(t)
      BY <1>3, <1>4, <1>6, <2>1 DEF Once
    <2>3. Range(t) \subseteq S
      BY <2>1, RangeOfSeq
    <2> QED
      BY <1>4, <1>5, <1>6, <2>2, <2>3 DEF Limit
  <1> QED
    BY <1>4, <1>5, <1>6 DEF Limit

\* Who writes other rows, or only an age, leaves a drainer in step.
LEMMA StaysInStep ==
    ASSUME NEW d \in Drainer, InStep(d),
           d.step \in {"requeue", "mark", "run", "settle"} => d.batch # <<>>,
           \A x \in Range(d.batch) : /\ job'[x].status = job[x].status
                                     /\ job'[x].attempts = job[x].attempts
                                     /\ runs[x] > 0 => runs'[x] > 0
    PROVE  InStep(d)'
  <1>1. d.batch # <<>> => Head(d.batch) \in Range(d.batch)
    BY DEF Drainer, Range
  <1> QED
    BY <1>1 DEF InStep, Waits, RowFor, Once

\* The steps of a drainer that append no row keep it in step.
LEMMA StepsInStep ==
    ASSUME TypeOK, BatchHeld, JobsHaveEvents, OneQueue, InSteps,
           NEW w \in Drainers, DrainStep(w) \/ Crash(w)
    PROVE  \/ UNCHANGED job /\ InStep(drainer[w])'
           \/ ReapAppend(w) \/ Mark(w) \/ Settle(w)
  <1> DEFINE d == drainer[w]
             e == Current(w)
  <1>0. /\ d \in Drainer /\ InStep(d) /\ d.batch \in Seq(Events) /\ d.row \in OutRow
        /\ d.snap \in [Events -> Nat] /\ job \in [Events -> Rows]
        /\ runs \in [Events -> 0..2] /\ misses \in [Events -> Nat]
    BY DEF TypeOK, BusTypeOK, InSteps, Drainer
  <1>1. ASSUME NEW r, Local(w, r) PROVE drainer'[w] = r
    BY <1>1 DEF Local, TypeOK
  <1>2. d.batch # <<>> => /\ e = Head(d.batch) /\ e \in Events
                          /\ e \in Range(d.batch)
                          /\ Once(Tail(d.batch)) /\ Tail(d.batch) \in Seq(Events)
                          /\ Range(Tail(d.batch)) \subseteq Range(d.batch) \ {e}
    BY <1>0, TailOnce, HeadTailProperties DEF Current, InStep
  <1>3. ASSUME NEW r \in Drainer, Local(w, r), InStep(r), UNCHANGED <<job, runs>>
        PROVE  InStep(drainer[w])'
    <2>1. InStep(r)'
      BY <1>3 DEF InStep, Waits, RowFor, Once
    <2> QED
      BY <1>1, <1>3, <2>1
  <1>4. Once(<<>>) /\ Range(<<>>) = {}
    BY DEF Once, Range
  <1>5. InStep(Idle) /\ Idle \in Drainer
    BY <1>4 DEF InStep, Idle, Drainer, NoOutRow, OutRow, Statuses, Steps
  <1>6. CASE Start(w)
    <2>1. PICK s \in InFileOrder({x \in Events : Stuck(x)}) :
            Local(w, [d EXCEPT !.step = "reap", !.batch = s])
      BY <1>6 DEF Start
    <2> DEFINE r == [d EXCEPT !.step = "reap", !.batch = s]
    <2>2. s \in Seq(Events) /\ Once(s) /\ Range(s) \subseteq {x \in Events : Stuck(x)}
      BY InFileOrderType, ListOnce
    <2>3. r \in Drainer /\ r.step = "reap" /\ r.batch = s
      BY <1>0, <2>2 DEF Drainer, Steps
    <2>4. InStep(r)
      BY <2>2, <2>3 DEF InStep, Stuck
    <2> QED
      BY <1>3, <1>6, <2>1, <2>3, <2>4 DEF Start, HistoryUnchanged, FilesUnchanged, busVars
  <1>7. CASE ReapRead(w)
    <2> DEFINE r == [d EXCEPT !.step = "requeue", !.row = RowFor(e, "pending", 0)]
    <2>1. RowFor(e, "pending", 0) \in OutRow
      BY <1>0, <1>2, <1>7 DEF ReapRead, RowFor, OutRow, Rows, Statuses
    <2>2. /\ r \in Drainer /\ r.step = "requeue" /\ r.batch = d.batch
          /\ r.row = RowFor(e, "pending", 0)
      BY <1>0, <2>1 DEF Drainer, Steps
    <2>3. InStep(r)
      <3>1. d.step = "reap" /\ d.batch # <<>>
        BY <1>7 DEF ReapRead
      <3> HIDE DEF r
      <3> QED
        BY <1>0, <1>2, <2>2, <3>1 DEF InStep
    <2> QED
      BY <1>3, <1>7, <2>2, <2>3 DEF ReapRead, HistoryUnchanged, FilesUnchanged, busVars
  <1>8. CASE ReadPending(w)
    <2>1. PICK s \in InFileOrder(WithStatus("pending")) :
            Local(w, [Idle EXCEPT !.step = "loop",
                                  !.batch = Limit(s, Fetch(w)),
                                  !.snap = [x \in Events |-> IF x \in Range(Limit(s, Fetch(w)))
                                                            THEN job[x].attempts ELSE 0]])
      BY <1>8 DEF ReadPending
    <2> DEFINE b == Limit(s, Fetch(w))
               snap == [x \in Events |-> IF x \in Range(b) THEN job[x].attempts ELSE 0]
               r == [Idle EXCEPT !.step = "loop", !.batch = b, !.snap = snap]
    <2>2. b \in Seq(Events) /\ Once(b) /\ Range(b) \subseteq WithStatus("pending")
      <3>1. WithStatus("pending") \subseteq Events
        BY DEF WithStatus
      <3>2. s \in Seq(Events) /\ Fetch(w) \in Nat
        BY <3>1, InFileOrderType, FetchType
      <3> QED
        BY <3>1, <3>2, LimitType, ListOnce
    <2>3. snap \in [Events -> Nat] /\ \A x \in Range(b) : snap[x] = job[x].attempts
      BY <1>0, <2>2 DEF Rows, WithStatus
    <2>4. r \in Drainer /\ r.step = "loop" /\ r.batch = b /\ r.snap = snap
      <3> HIDE DEF b, snap
      <3> QED
        BY <1>5, <2>2, <2>3 DEF Idle, Drainer, Steps
    <2>5. InStep(r)
      <3> HIDE DEF b, snap, r
      <3> QED
        BY <2>2, <2>3, <2>4 DEF InStep, Waits, WithStatus
    <2> QED
      BY <1>3, <1>8, <2>1, <2>4, <2>5 DEF ReadPending, HistoryUnchanged, FilesUnchanged, busVars
  <1>9. CASE SkipHeavy(w)
    <2> DEFINE r == [d EXCEPT !.batch = Tail(@)]
    <2>1. d.step = "loop" /\ d.batch # <<>>
      BY <1>9 DEF SkipHeavy, HasWork
    <2>2. /\ r \in Drainer /\ r.step = "loop" /\ r.batch = Tail(d.batch) /\ r.snap = d.snap
      <3>1. d \in Drainer /\ Tail(d.batch) \in Seq(Events)
        BY <1>0, <1>2, <2>1
      <3> QED
        BY <2>1, <3>1 DEF Drainer
    <2>3. InStep(r)
      <3> HIDE DEF r
      <3> QED
        BY <1>0, <1>2, <2>1, <2>2 DEF InStep, Waits
    <2> QED
      BY <1>3, <1>9, <2>2, <2>3 DEF SkipHeavy, HistoryUnchanged, FilesUnchanged, busVars
  <1>10. CASE Take(w)
    <2>1. PICK found \in Lookups(e) :
            Local(w, [d EXCEPT !.step = "mark", !.found = found,
                               !.row = RowFor(e, "processing", 0)])
      BY <1>10 DEF Take
    <2> DEFINE r == [d EXCEPT !.step = "mark", !.found = found,
                              !.row = RowFor(e, "processing", 0)]
    <2>2. d.step = "loop" /\ d.batch # <<>>
      BY <1>10 DEF Take, HasWork
    <2>3. e \in logged
      BY <1>0, <1>2, <2>2 DEF InStep, Waits, JobsHaveEvents, Listed
    <2>4. found = TRUE
      <3>1. ~(misses[e] < MaxMisses)
        BY <1>0, <1>2, <2>2 DEF OneQueue
      <3> QED
        BY <2>1, <2>3, <3>1 DEF Lookups
    <2>5. RowFor(e, "processing", 0) \in OutRow
      BY <1>0, <1>2, <2>2 DEF RowFor, OutRow, Rows, Statuses
    <2>6. /\ r \in Drainer /\ r.step = "mark" /\ r.batch = d.batch /\ r.snap = d.snap
          /\ r.found = TRUE /\ r.row = RowFor(e, "processing", 0)
      BY <1>0, <2>4, <2>5 DEF Drainer, Steps
    <2>7. InStep(r)
      <3> HIDE DEF r
      <3> QED
        BY <1>0, <1>2, <2>2, <2>6 DEF InStep, Waits
    <2> QED
      BY <1>3, <1>10, <2>1, <2>6, <2>7 DEF Take, HistoryUnchanged, FilesUnchanged, busVars
  <1>11. CASE NotFound(w)
    BY <1>0, <1>11 DEF NotFound, InStep
  <1>12. CASE Succeed(w)
    <2> DEFINE r == [d EXCEPT !.step = "settle", !.row = RowFor(e, "done", 0)]
    <2>1. d.step = "run" /\ d.batch # <<>>
      BY <1>12 DEF Succeed, BatchHeld
    <2>2. RowFor(e, "done", 0) \in OutRow
      BY <1>0, <1>2, <2>1 DEF RowFor, OutRow, Rows, Statuses
    <2>3. /\ r \in Drainer /\ r.step = "settle" /\ r.batch = d.batch /\ r.snap = d.snap
          /\ r.row = RowFor(e, "done", 0)
      BY <1>0, <2>2 DEF Drainer, Steps
    <2>4. drainer'[w] = r /\ UNCHANGED job
      BY <1>1, <1>12 DEF Succeed, Settling, FilesUnchanged, busVars
    <2>5. runs'[e] > 0
      <3>1. e \in Events /\ runs[e] \in 0..2
        BY <1>0, <1>2, <2>1
      <3>2. runs' = [runs EXCEPT ![e] = IF @ < 2 THEN @ + 1 ELSE @]
        BY <1>12 DEF Succeed
      <3> HIDE DEF e
      <3> QED
        BY <1>0, <3>1, <3>2
    <2>6. ASSUME NEW q \in Drainer, q.step = "settle", q.batch = d.batch, q.snap = d.snap,
                 q.row = RowFor(e, "done", 0), drainer'[w] = q
          PROVE  InStep(q)'
      <3>1. e = Head(q.batch)
        BY <1>2, <2>1, <2>6
      <3> QED
        BY <1>0, <2>1, <2>4, <2>5, <2>6, <3>1 DEF InStep, Waits, RowFor, Once
    <2> HIDE DEF r
    <2> QED
      BY <2>3, <2>4, <2>6
  <1>13. CASE Fail(w)
    <2> DEFINE row == RowFor(e, Verdict(d.snap[e]), 1)
               r == [d EXCEPT !.step = "settle", !.row = row]
    <2>1. d.step = "run" /\ d.batch # <<>>
      BY <1>13 DEF Fail, BatchHeld
    <2>2. row \in OutRow
      BY <1>0, <1>2, <2>1 DEF RowFor, OutRow, Rows, Statuses, Verdict
    <2>3. row = RowFor(e, Verdict(job[e].attempts), 1)
      BY <1>0, <1>2, <2>1 DEF InStep
    <2>4. /\ r \in Drainer /\ r.step = "settle" /\ r.batch = d.batch /\ r.snap = d.snap
          /\ r.row = RowFor(e, Verdict(job[e].attempts), 1)
      <3> HIDE DEF row
      <3> QED
        BY <1>0, <2>2, <2>3 DEF Drainer, Steps
    <2>5. InStep(r)
      <3> HIDE DEF r
      <3> QED
        BY <1>0, <1>2, <2>1, <2>4 DEF InStep, Waits
    <2> QED
      BY <1>3, <1>13, <2>4, <2>5 DEF Fail, Settling, FilesUnchanged, busVars
  <1>14. CASE Finish(w) \/ Crash(w)
    BY <1>3, <1>5, <1>14 DEF Finish, Crash, HistoryUnchanged, FilesUnchanged, busVars
  <1> QED
    BY <1>6, <1>7, <1>8, <1>9, <1>10, <1>11, <1>12, <1>13, <1>14 DEF DrainStep

\* An appended row moves one job of the abstract queue, and may charge it.
LEMMA AppendMoves ==
    ASSUME job \in [Events -> Rows], NEW e \in Events, NEW st, NEW n, AppendRow(e, st, n)
    PROVE  /\ Lifecycle!Move(e, job[e].status, st)
           /\ n = job[e].attempts => UNCHANGED [x \in Events |-> job[x].attempts]
           /\ n = job[e].attempts + 1 =>
                [x \in Events |-> job[x].attempts]'
                  = [[x \in Events |-> job[x].attempts] EXCEPT ![e] = @ + 1]
           /\ job'[e].status = st /\ job'[e].attempts = n
           /\ \A x \in Events \ {e} : job'[x] = job[x]
  <1>1. /\ job'[e].status = st /\ job'[e].attempts = n
        /\ \A x \in Events \ {e} : job'[x] = job[x]
    BY DEF AppendRow
  <1>2. [x \in Events |-> job'[x].status] = [[x \in Events |-> job[x].status] EXCEPT ![e] = st]
    BY <1>1
  <1>3. [x \in Events |-> job'[x].attempts] = [[x \in Events |-> job[x].attempts] EXCEPT ![e] = n]
    BY <1>1
  <1>4. ASSUME n = job[e].attempts
        PROVE  [x \in Events |-> job'[x].attempts] = [x \in Events |-> job[x].attempts]
    BY <1>1, <1>4
  <1>5. ASSUME n = job[e].attempts + 1
        PROVE  [x \in Events |-> job'[x].attempts]
                 = [[x \in Events |-> job[x].attempts] EXCEPT ![e] = @ + 1]
    BY <1>3, <1>5
  <1> QED
    BY <1>1, <1>2, <1>4, <1>5 DEF Lifecycle!Move

\* The three appends of a drainer are the abstract steps Abandon, Begin, and
\* Complete, Retry or Bury.
LEMMA AppendsMove ==
    ASSUME TypeOK, BatchHeld, InSteps, NEW w \in Drainers,
           ReapAppend(w) \/ Mark(w) \/ Settle(w)
    PROVE  Lifecycle!Next
  <1> DEFINE d == drainer[w]
  <1>0. /\ d \in Drainer /\ InStep(d) /\ d.batch \in Seq(Events) /\ job \in [Events -> Rows]
        /\ d.batch # <<>>
    BY DEF TypeOK, BusTypeOK, InSteps, Drainer, BatchHeld, ReapAppend, Mark, Settle
  <1>1. PICK e \in Events : e = Current(w) /\ e = Head(d.batch) /\ e \in Range(d.batch)
    BY <1>0, TailOnce, HeadTailProperties DEF Current, InStep
  <1>2. AppendRow(e, d.row.status, d.row.attempts) /\ UNCHANGED runs
    BY <1>1 DEF ReapAppend, Mark, Settle, HistoryUnchanged
  <1>3. UNCHANGED {x \in Events : runs[x] > 0}
    BY <1>2
  <1>4. job[e].attempts \in Nat
    BY <1>0 DEF Rows
  <1>a. PICK from, st, n : from = job[e].status /\ st = d.row.status /\ n = d.row.attempts
    OBVIOUS
  <1>5. /\ Lifecycle!Move(e, from, st)
        /\ n = job[e].attempts => UNCHANGED [x \in Events |-> job[x].attempts]
        /\ n = job[e].attempts + 1 =>
             [x \in Events |-> job[x].attempts]'
               = [[x \in Events |-> job[x].attempts] EXCEPT ![e] = @ + 1]
    BY <1>0, <1>2, <1>a, AppendMoves
  <1>6. [x \in Events |-> job[x].attempts][e] = job[e].attempts
    OBVIOUS
  <1>7. CASE ReapAppend(w)
    <2>1. from = "processing" /\ st = "pending" /\ n = job[e].attempts
      BY <1>0, <1>1, <1>4, <1>a, <1>7 DEF ReapAppend, InStep, RowFor
    <2>2. Lifecycle!Abandon(e)
      BY <1>3, <1>5, <2>1 DEF Lifecycle!Abandon
    <2> QED
      BY <2>2 DEF Lifecycle!Next
  <1>8. CASE Mark(w)
    <2>1. from = "pending" /\ st = "processing" /\ n = job[e].attempts
      BY <1>0, <1>1, <1>4, <1>a, <1>8 DEF Mark, InStep, RowFor, Waits
    <2>2. Lifecycle!Begin(e)
      BY <1>3, <1>5, <2>1 DEF Lifecycle!Begin
    <2> QED
      BY <2>2 DEF Lifecycle!Next
  <1>9. CASE Settle(w)
    <2>1. /\ from = "processing"
          /\ \/ d.row = RowFor(e, "done", 0) /\ runs[e] > 0
             \/ d.row = RowFor(e, Verdict(job[e].attempts), 1)
      BY <1>0, <1>1, <1>9, <1>a DEF Settle, InStep
    <2>2. CASE d.row = RowFor(e, "done", 0) /\ runs[e] > 0
      <3>1. st = "done" /\ n = job[e].attempts
        BY <1>4, <1>a, <2>2 DEF RowFor
      <3>2. Lifecycle!Complete(e)
        BY <1>3, <1>5, <2>1, <2>2, <3>1 DEF Lifecycle!Complete
      <3> QED
        BY <3>2 DEF Lifecycle!Next
    <2>3. CASE d.row = RowFor(e, Verdict(job[e].attempts), 1)
      <3>1. st = Verdict(job[e].attempts) /\ n = job[e].attempts + 1
        BY <1>a, <2>3 DEF RowFor
      <3>2. CASE job[e].attempts + 1 >= MaxAttempts
        <4>1. Lifecycle!Bury(e)
          BY <1>3, <1>5, <1>6, <2>1, <3>1, <3>2 DEF Lifecycle!Bury, Verdict
        <4> QED
          BY <4>1 DEF Lifecycle!Next
      <3>3. CASE ~(job[e].attempts + 1 >= MaxAttempts)
        <4>1. job[e].attempts + 1 < MaxAttempts
          BY <1>4, <3>3, OutboxAssumption
        <4>2. Lifecycle!Retry(e)
          BY <1>3, <1>5, <1>6, <2>1, <3>1, <3>3, <4>1 DEF Lifecycle!Retry, Verdict
        <4> QED
          BY <4>2 DEF Lifecycle!Next
      <3> QED
        BY <3>2, <3>3
    <2> QED
      BY <2>1, <2>2, <2>3
  <1> QED
    BY <1>7, <1>8, <1>9

\* After each of them the drainer is in step again.
LEMMA AppendsInStep ==
    ASSUME TypeOK, BatchHeld, InSteps, NEW w \in Drainers,
           ReapAppend(w) \/ Mark(w) \/ Settle(w)
    PROVE  /\ InStep(drainer[w])'
           /\ \A x \in Events : job'[x].status # "absent" \/ job'[x] = job[x]
  <1> DEFINE d == drainer[w]
  <1>0. /\ d \in Drainer /\ InStep(d) /\ d.batch \in Seq(Events) /\ d.row \in OutRow
        /\ d.snap \in [Events -> Nat] /\ job \in [Events -> Rows] /\ d.batch # <<>>
    BY DEF TypeOK, BusTypeOK, InSteps, Drainer, BatchHeld, ReapAppend, Mark, Settle
  <1>1. PICK e \in Events : /\ e = Current(w) /\ e = Head(d.batch) /\ e \in Range(d.batch)
                            /\ Once(Tail(d.batch))
                            /\ Range(Tail(d.batch)) \subseteq Range(d.batch) \ {e}
    BY <1>0, TailOnce, HeadTailProperties DEF Current, InStep
  <1>2. Range(d.batch) \subseteq Events
    BY <1>0, RangeOfSeq
  <1>3. AppendRow(e, d.row.status, d.row.attempts)
    BY <1>1 DEF ReapAppend, Mark, Settle
  <1>4. PICK st, n : st = d.row.status /\ n = d.row.attempts
    OBVIOUS
  <1>5. /\ job'[e].status = st /\ job'[e].attempts = n
        /\ \A x \in Events \ {e} : job'[x] = job[x]
    BY <1>0, <1>3, <1>4 DEF AppendRow
  <1>6. \A x \in Events : job'[x].status # "absent" \/ job'[x] = job[x]
    BY <1>0, <1>4, <1>5 DEF OutRow, Statuses
  <1>7. ASSUME NEW r, Local(w, r) PROVE drainer'[w] = r
    BY <1>7 DEF Local, TypeOK
  <1>8. CASE ReapAppend(w)
    <2>1. /\ d.step = "requeue"
          /\ \A x \in Range(Tail(d.batch)) : job[x].status = "processing" /\ x # e /\ x \in Events
      BY <1>0, <1>1, <1>2, <1>8 DEF ReapAppend, InStep
    <2>2. PICK r : /\ drainer'[w] = r /\ r.step = "reap" /\ r.batch = Tail(d.batch)
      BY <1>0, <1>7, <1>8 DEF ReapAppend, Drainer
    <2>3. Once(r.batch) /\ \A x \in Range(r.batch) : job'[x].status = "processing"
      BY <1>1, <1>5, <2>1, <2>2
    <2>4. InStep(r)'
      BY <2>2, <2>3 DEF InStep
    <2> QED
      BY <1>6, <2>2, <2>4
  <1>9. CASE Mark(w)
    <2>1. /\ d.step = "mark" /\ d.found /\ Once(d.batch)
          /\ \A x \in Range(d.batch) : Waits(d, x) /\ x \in Events
          /\ st = "processing" /\ n = job[e].attempts
      <3>1. job[e].attempts \in Nat
        BY <1>0 DEF Rows
      <3> QED
        BY <1>0, <1>1, <1>2, <1>4, <1>9, <3>1 DEF Mark, InStep, RowFor
    <2>2. PICK r : /\ drainer'[w] = r /\ r.step = "run" /\ r.batch = d.batch
                   /\ r.snap = d.snap /\ r.found = d.found
      BY <1>0, <1>7, <1>9 DEF Mark, Drainer
    <2>3. /\ Once(r.batch) /\ r.found /\ e = Head(r.batch)
          /\ job'[e].status = "processing" /\ job'[e].attempts = r.snap[e]
          /\ \A x \in Range(r.batch) \ {e} :
                 job'[x].status = "pending" /\ job'[x].attempts = r.snap[x]
      BY <1>1, <1>5, <2>1, <2>2 DEF Waits
    <2>4. InStep(r)'
      BY <2>2, <2>3 DEF InStep, Waits
    <2> QED
      BY <1>6, <2>2, <2>4
  <1>10. CASE Settle(w)
    <2>1. /\ d.step = "settle"
          /\ \A x \in Range(Tail(d.batch)) : Waits(d, x) /\ x # e /\ x \in Events
      BY <1>0, <1>1, <1>2, <1>10 DEF Settle, InStep
    <2>2. PICK r : /\ drainer'[w] = r /\ r.step = "loop" /\ r.batch = Tail(d.batch)
                   /\ r.snap = [d.snap EXCEPT ![e] = 0]
      <3>1. Local(w, [Idle EXCEPT !.step  = "loop",
                                  !.batch = Tail(d.batch),
                                  !.snap  = [d.snap EXCEPT ![e] = 0],
                                  !.count = d.count + 1])
        BY <1>1, <1>10 DEF Settle
      <3> QED
        BY <1>7, <3>1 DEF Idle
    <2>3. /\ Once(r.batch)
          /\ \A x \in Range(r.batch) :
                 job'[x].status = "pending" /\ job'[x].attempts = r.snap[x]
      BY <1>0, <1>1, <1>5, <2>1, <2>2 DEF Waits
    <2>4. InStep(r)'
      BY <2>2, <2>3 DEF InStep, Waits
    <2> QED
      BY <1>6, <2>2, <2>4
  <1> QED
    BY <1>8, <1>9, <1>10

\* What the abstract queue sees.
Seen == <<[e \in Events |-> job[e].status], [e \in Events |-> job[e].attempts],
          {e \in Events : runs[e] > 0}>>

\* Whatever the bus or the drainer does is a step of the abstract queue or none.
LEMMA StepsSimulate ==
    ASSUME TypeOK, BatchHeld, JobsHaveEvents, Announced, OneQueue, InSteps, [Next]_vars
    PROVE  InSteps' /\ (Lifecycle!Next \/ UNCHANGED Seen)
  <1>0. /\ job \in [Events -> Rows] /\ emits \in [Events -> Nat] /\ emitting \subseteq Events
        /\ runs \in [Events -> 0..2] /\ drainer \in [Drainers -> Drainer]
        /\ ~compaction.on /\ (\A e \in Events : emits[e] <= 1)
        /\ \A e \in Events : job[e].status = "absent" => job[e].attempts = 0
    BY DEF TypeOK, BusTypeOK, InSteps
  <1>1. ASSUME NEW w \in Drainers
        PROVE  /\ drainer[w] \in Drainer /\ InStep(drainer[w])
               /\ drainer[w].step \in {"requeue", "mark", "run", "settle"}
                    => drainer[w].batch # <<>>
               /\ Range(drainer[w].batch) \subseteq {e \in Events : job[e].status # "absent"}
    <2>1. drainer[w] \in Drainer /\ InStep(drainer[w])
          /\ (drainer[w].step \in {"requeue", "mark", "run", "settle"}
                => drainer[w].batch # <<>>)
      BY <1>0 DEF InSteps, BatchHeld
    <2>2. Range(drainer[w].batch) \subseteq Events
      BY <2>1, RangeOfSeq DEF Drainer
    <2>3. drainer[w].step \in Steps
      BY <2>1 DEF Drainer
    <2>4. \A x \in Range(drainer[w].batch) : job[x].status # "absent"
      <3>1. drainer[w].batch # <<>> => Head(drainer[w].batch) \in Range(drainer[w].batch)
        BY <2>1 DEF Drainer, Range
      <3>2. Range(<<>>) = {}
        BY DEF Range
      <3> QED
        BY <2>1, <2>3, <3>1, <3>2 DEF InStep, Waits, Steps
    <2> QED
      BY <2>1, <2>2, <2>4
  \* Nobody but the drainer takes a job the drainer holds.
  <1>2. ASSUME UNCHANGED <<drainer, runs>>, ~compaction'.on,
               \A e \in Events : emits'[e] <= 1,
               \A e \in Events : job[e].status # "absent" =>
                   job'[e].status = job[e].status /\ job'[e].attempts = job[e].attempts,
               \A e \in Events : job'[e].status = "absent" => job'[e].attempts = 0
        PROVE  InSteps'
    <2>1. ASSUME NEW w \in Drainers PROVE InStep(drainer[w])'
      <3>1. PICK d \in Drainer : d = drainer[w]
        BY <1>1
      <3>2. InStep(d)'
        BY <1>1, <1>2, <3>1, StaysInStep
      <3> QED
        BY <1>2, <3>1, <3>2
    <2> QED
      BY <1>2, <2>1 DEF InSteps
  <1>3. ASSUME NEW e \in Events, Emit(e) PROVE InSteps' /\ (Lifecycle!Next \/ UNCHANGED Seen)
    <2>1. UNCHANGED <<drainer, runs, compaction>>
      BY <1>3 DEF Emit, EmitEvent, EmitJob, EmitCut, outVars
    <2>2. \A x \in Events : emits'[x] <= 1
      <3>1. EmitEvent(e) => emits' = [emits EXCEPT ![e] = @ + 1] /\ emits[e] + 1 <= 1
        BY <1>0, BusAssumption DEF EmitEvent, OneQueue
      <3> QED
        BY <1>0, <1>3, <3>1 DEF Emit, EmitJob, EmitCut
    <2>3. CASE UNCHANGED job
      BY <1>0, <1>2, <2>1, <2>2, <2>3 DEF Seen
    <2>4. CASE EmitJob(e)
      <3>1. job[e].status = "absent" /\ job[e].attempts = 0
        <4>1. emits[e] = 1 /\ e \in emitting
          BY <1>0, <2>4 DEF EmitJob, Announced
        <4> QED
          BY <1>0, <4>1 DEF Announced, Quiet
      <3>2. AppendRow(e, "pending", 0)
        BY <2>4 DEF EmitJob
      <3>3. /\ Lifecycle!Move(e, job[e].status, "pending")
            /\ 0 = job[e].attempts => UNCHANGED [x \in Events |-> job[x].attempts]
            /\ job'[e].status = "pending"
            /\ \A x \in Events \ {e} : job'[x] = job[x]
        BY <1>0, <3>2, AppendMoves
      <3>4. Lifecycle!Submit(e)
        BY <2>1, <3>1, <3>3 DEF Lifecycle!Submit
      <3>5. InSteps'
        BY <1>0, <1>2, <2>1, <2>2, <3>1, <3>3
      <3> QED
        BY <3>4, <3>5 DEF Lifecycle!Next
    <2> QED
      BY <1>3, <2>3, <2>4 DEF Emit, EmitEvent, EmitCut
  <1>4. ~Compact
    BY <1>0 DEF Compact, CompactRead, CompactReplace, CompactFail, OneQueue
  <1>5. CASE Tick
    <2>1. UNCHANGED <<drainer, runs, emits>> /\ ~compaction'.on
      BY <1>0, <1>5 DEF Tick, TimePasses, outVars, TypeOK, BusTypeOK
    <2>2. \A e \in Events : job'[e].status = job[e].status /\ job'[e].attempts = job[e].attempts
      BY <1>0, <1>5, OlderType DEF Tick, TimePasses
    <2>3. InSteps'
      BY <1>0, <1>2, <2>1, <2>2
    <2> QED
      BY <2>1, <2>2, <2>3 DEF Seen
  <1>6. ASSUME NEW w \in Drainers, DrainStep(w) \/ Crash(w)
        PROVE  InSteps' /\ (Lifecycle!Next \/ UNCHANGED Seen)
    <2>1. /\ UNCHANGED <<emits, compaction>>
          /\ \A v \in Drainers : v = w
      BY <1>6, DrainFrame DEF OneQueue
    <2>2. CASE ReapAppend(w) \/ Mark(w) \/ Settle(w)
      <3>1. /\ InStep(drainer[w])'
            /\ \A x \in Events : job'[x].status # "absent" \/ job'[x] = job[x]
        BY <2>2, AppendsInStep
      <3>2. Lifecycle!Next
        BY <2>2, AppendsMove
      <3> QED
        BY <1>0, <2>1, <3>1, <3>2 DEF InSteps
    <2>3. CASE UNCHANGED job /\ InStep(drainer[w])'
      <3>1. InSteps'
        BY <1>0, <2>1, <2>3 DEF InSteps
      <3>2. Lifecycle!Next \/ UNCHANGED {x \in Events : runs[x] > 0}
        <4>1. CASE Succeed(w)
          <5>1. /\ drainer[w].batch \in Seq(Events) /\ drainer[w].batch # <<>>
                /\ drainer[w].step = "run"
            BY <1>1, <4>1 DEF Succeed, Drainer
          <5>2. PICK e \in Events : e = Current(w) /\ e = Head(drainer[w].batch)
            BY <5>1, HeadTailProperties DEF Current
          <5>3. job[e].status = "processing"
            BY <1>1, <5>1, <5>2 DEF InStep
          <5>4. runs' = [runs EXCEPT ![e] = IF @ < 2 THEN @ + 1 ELSE @]
            BY <4>1, <5>2 DEF Succeed
          <5>5. {x \in Events : runs'[x] > 0} = {x \in Events : runs[x] > 0} \cup {e}
            BY <1>0, <5>4
          <5>6. Lifecycle!Apply(e)
            BY <2>3, <5>3, <5>5 DEF Lifecycle!Apply
          <5> QED
            BY <5>6 DEF Lifecycle!Next
        <4>2. CASE ~Succeed(w)
          <5>1. UNCHANGED runs
            BY <1>6, <4>2 DEF DrainStep, Start, ReapRead, ReapAppend, ReadPending, SkipHeavy, Take,
               Mark, NotFound, Fail, Settle, Finish, Crash, HistoryUnchanged
          <5> QED
            BY <5>1
        <4> QED
          BY <4>1, <4>2
      <3> QED
        BY <2>3, <3>1, <3>2 DEF Seen
    <2> QED
      BY <1>6, <2>2, <2>3, StepsInStep
  <1>7. CASE UNCHANGED vars
    BY <1>0, <1>2, <1>7 DEF vars, busVars, outVars, Seen
  <1> QED
    BY <1>3, <1>4, <1>5, <1>6, <1>7 DEF Next

\* One drainer that no session start and no second emission disturbs implements the
\* retry queue of JobLifecycle, whatever crashes, exceptions and reaping do: every
\* append, emission and handler's return is an abstract step, anything else none.
THEOREM OutboxRefinesLifecycle ==
    ASSUME OneQueue
    PROVE  Spec => RefinesLifecycle
  <1>1. Init => Lifecycle!Init /\ InSteps
    <2> SUFFICES ASSUME Init PROVE Lifecycle!Init /\ InSteps
      OBVIOUS
    <2>1. /\ \A e \in Events : job[e] = NoRow /\ runs[e] = 0 /\ emits[e] = 0
          /\ \A w \in Drainers : drainer[w] = Idle
          /\ ~compaction.on
      BY DEF Init, BusInit, NoCompaction
    <2>2. Lifecycle!Init
      BY <2>1 DEF Lifecycle!Init, NoRow
    <2>3. InStep(Idle)
      BY DEF InStep, Idle, Once, Range
    <2> QED
      BY <2>1, <2>2, <2>3 DEF InSteps, NoRow
  <1>2. TypeOK /\ BatchHeld /\ JobsHaveEvents /\ Announced /\ InSteps /\ [Next]_vars => InSteps'
    BY StepsSimulate
  <1>3. TypeOK /\ BatchHeld /\ JobsHaveEvents /\ Announced /\ InSteps /\ [Next]_vars
          => [Lifecycle!Next]_(Lifecycle!vars)
    BY StepsSimulate DEF Lifecycle!vars, Seen
  <1> QED
    BY <1>1, <1>2, <1>3, TypeCorrect, EventsBeforeJobs, AnnouncedInvariant, PTL
       DEF Spec, RefinesLifecycle, Lifecycle!Spec
=============================================================================
