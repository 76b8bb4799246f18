-------------------------- MODULE ImportanceProofs --------------------------
(***************************************************************************)
(* What Importance promises with any number of workers, jobs, crashes and  *)
(* failed commits: type correctness, one open transaction at a time, a sum *)
(* that never overcounts, and no reset without its reflection event.       *)
(***************************************************************************)
EXTENDS Importance, TLAPS, Integers

Local == [step : Steps, job : Jobs \cup {NoOne}, version : Versions,
          score : {0} \cup Ratings, sum : Nat, tripped : BOOLEAN]

\* A worker that holds a job holds one of Jobs, so File(w) is a memory.
HoldsJob == \A w \in Workers : ~At(w, "idle") => worker[w].job \in Jobs

IInv == TypeOK /\ HoldsJob /\ OneWriter /\ NeverOvercounts /\ ResetsAnnounced

LEMMA InitInv == Init => IInv
  <1> SUFFICES ASSUME Init PROVE IInv
    OBVIOUS
  <1>1. 0 \in Versions
    BY ImportanceAssumption DEF Versions
  <1>2. TypeOK
    BY <1>1 DEF Init, TypeOK, Idle, Steps
  <1>3. HoldsJob /\ OneWriter /\ NeverOvercounts
    BY DEF Init, HoldsJob, OneWriter, NeverOvercounts, Idle, At
  <1>4. Pending = 0
    BY DEF Init, Pending, Idle, At
  <1>5. ResetsAnnounced
    BY <1>4 DEF Init, ResetsAnnounced
  <1> QED
    BY <1>2, <1>3, <1>5 DEF IInv

\* What a step of one worker does to the invariant is decided by the locals it
\* moves to, as long as it leaves the sums and the lock alone.
LEMMA QuietStep ==
    ASSUME IInv, NEW w \in Workers, NEW r \in Local, Go(w, r),
           r.step # "idle" => r.job \in Jobs,
           r.step \notin {"emit", "commit"},
           r.step = "update" => r.sum <= granted + r.score,
           worker[w].step \notin {"emit", "commit"},
           UNCHANGED <<total, writer, granted, resets, fired, swallowed>>
    PROVE  /\ worker' \in [Workers -> Local]
           /\ (HoldsJob /\ OneWriter /\ NeverOvercounts /\ ResetsAnnounced)'
  <1> USE DEF IInv, TypeOK, Local
  <1>1. worker' \in [Workers -> Local]
    BY DEF Go
  <1>2. HoldsJob'
    BY DEF Go, HoldsJob, At
  <1>3. OneWriter'
    BY DEF Go, OneWriter
  <1>4. NeverOvercounts'
    BY DEF Go, NeverOvercounts
  <1>5. Pending' = Pending
    BY DEF Go, Pending, At
  <1>6. ResetsAnnounced'
    BY <1>5 DEF ResetsAnnounced
  <1> QED
    BY <1>1, <1>2, <1>3, <1>4, <1>6

LEMMA WriteMemoryInv ==
    ASSUME IInv, NEW j \in Jobs, WriteMemory(j)
    PROVE  IInv'
  <1> USE DEF WriteMemory, dbVars, histVars
  <1>1. FileOf[j] \in Memories /\ content[FileOf[j]] \in Versions
    BY ImportanceAssumption DEF IInv, TypeOK
  <1>2. content[FileOf[j]] + 1 \in Versions
    BY <1>1, ImportanceAssumption DEF Versions
  <1>3. TypeOK'
    BY <1>1, <1>2 DEF IInv, TypeOK
  <1>4. Pending' = Pending
    BY DEF Pending, At
  <1>5. (HoldsJob /\ OneWriter /\ NeverOvercounts /\ ResetsAnnounced)'
    BY <1>4 DEF IInv, HoldsJob, At, OneWriter, NeverOvercounts, ResetsAnnounced
  <1> QED
    BY <1>3, <1>5 DEF IInv

\* The steps before the transaction, and the settlement after it.
LEMMA OutsideInv ==
    ASSUME IInv, NEW w \in Workers,
           \/ \E j \in Jobs : Load(w, j)
           \/ Lookup(w) \/ Rate(w) \/ Store(w) \/ ReadSum(w) \/ LockTimeout(w) \/ Settle(w)
    PROVE  IInv'
  <1> DEFINE d == worker[w]
  <1>0. TypeOK /\ d \in Local /\ worker \in [Workers -> Local]
    BY DEF IInv, TypeOK, Local
  <1>1. ~At(w, "idle") => d.job \in Jobs /\ File(w) \in Memories
    BY ImportanceAssumption DEF IInv, HoldsJob, File
  <1>2. CASE \E j \in Jobs : Load(w, j)
    <2>1. PICK j \in Jobs : Load(w, j)
      BY <1>2
    <2> DEFINE r == [Idle EXCEPT !.step = "lookup", !.job = j, !.version = content[FileOf[j]]]
    <2>2. r \in Local
      BY <1>0, ImportanceAssumption DEF Idle, Local, Steps, TypeOK, Versions
    <2>3. r.step = "lookup" /\ r.job = j
      BY DEF Idle
    <2>4. worker' \in [Workers -> Local]
          /\ (HoldsJob /\ OneWriter /\ NeverOvercounts /\ ResetsAnnounced)'
      BY <1>0, <2>1, <2>2, <2>3, QuietStep DEF Load, At, dbVars, histVars
    <2>5. deliveries' \in [Jobs -> Nat]
      <3>1. deliveries' = [deliveries EXCEPT ![j] = deliveries[j] + 1]
        BY <2>1 DEF Load
      <3>2. deliveries \in [Jobs -> Nat]
        BY <1>0 DEF TypeOK
      <3> QED
        BY <3>1, <3>2
    <2>6. TypeOK'
      BY <1>0, <2>1, <2>4, <2>5 DEF Load, dbVars, histVars, TypeOK, Local
    <2> QED
      BY <2>4, <2>6 DEF IInv
  <1>3. CASE Lookup(w)
    <2>1. scores[File(w)][d.version] \in {0} \cup Ratings
      BY <1>0, <1>1, <1>3 DEF Lookup, TypeOK, Local, At
    <2>2. PICK r \in {[d EXCEPT !.score = scores[File(w)][d.version], !.step = "read"],
                      [d EXCEPT !.score = scores[File(w)][d.version], !.step = "settle"],
                      [d EXCEPT !.step = "rate"]} : Go(w, r)
      BY <1>3 DEF Lookup
    <2>3. r \in Local /\ r.job = d.job /\ r.step \in {"read", "settle", "rate"}
      BY <1>0, <2>1 DEF Local, Steps
    <2>4. worker' \in [Workers -> Local]
          /\ (HoldsJob /\ OneWriter /\ NeverOvercounts /\ ResetsAnnounced)'
      BY <1>1, <1>3, <2>2, <2>3, QuietStep DEF Lookup, At, dbVars, histVars
    <2> QED
      BY <1>0, <1>3, <2>4 DEF Lookup, Fault, dbVars, busVars, histVars, IInv, TypeOK, Local
  <1>4. CASE Rate(w)
    <2>1. \A a \in Ratings : [d EXCEPT !.score = a, !.step = "store"] \in Local
      BY <1>0 DEF Local, Steps
    <2>2. [d EXCEPT !.step = "settle"] \in Local
      BY <1>0 DEF Local, Steps
    <2>3. PICK r \in Local : Go(w, r) /\ r.job = d.job /\ r.step \in {"store", "settle"}
      <3>1. CASE Go(w, [d EXCEPT !.step = "settle"])
        BY <1>0, <2>2, <3>1 DEF Local
      <3>2. CASE \E a \in Answers : Valid(a) /\ Go(w, [d EXCEPT !.score = a, !.step = "store"])
        BY <1>0, <2>1, <3>2 DEF Local, Valid
      <3> QED
        BY <1>4, <3>1, <3>2 DEF Rate
    <2>4. worker' \in [Workers -> Local]
          /\ (HoldsJob /\ OneWriter /\ NeverOvercounts /\ ResetsAnnounced)'
      BY <1>1, <1>4, <2>3, QuietStep DEF Rate, At, dbVars, histVars
    <2> QED
      BY <1>0, <1>4, <2>4 DEF Rate, dbVars, busVars, histVars, IInv, TypeOK, Local
  <1>5. CASE Store(w)
    <2>1. PICK r \in {[d EXCEPT !.step = "read"], [d EXCEPT !.step = "settle"]} : Go(w, r)
      BY <1>5 DEF Store
    <2>2. r \in Local /\ r.job = d.job /\ r.step \in {"read", "settle"}
      BY <1>0 DEF Local, Steps
    <2>3. worker' \in [Workers -> Local]
          /\ (HoldsJob /\ OneWriter /\ NeverOvercounts /\ ResetsAnnounced)'
      BY <1>1, <1>5, <2>1, <2>2, QuietStep DEF Store, At, histVars
    <2>4. scores' \in [Memories -> [Versions -> {0} \cup Ratings]]
      <3>1. d.version \in Versions /\ d.score \in {0} \cup Ratings /\ File(w) \in Memories
        BY <1>0, <1>1, <1>5 DEF Store, Local, At
      <3>2. [scores[File(w)] EXCEPT ![d.version] = d.score] \in [Versions -> {0} \cup Ratings]
        BY <1>0, <3>1 DEF TypeOK
      <3>3. CASE scores' = [scores EXCEPT ![File(w)] = [scores[File(w)] EXCEPT ![d.version] = d.score]]
        BY <1>0, <3>1, <3>2, <3>3 DEF TypeOK
      <3>4. CASE scores' = scores
        BY <1>0, <3>4 DEF TypeOK
      <3> QED
        BY <1>5, <3>3, <3>4 DEF Store
    <2>5. TypeOK'
      BY <1>0, <1>5, <2>3, <2>4 DEF Store, Fault, busVars, histVars, TypeOK, Local
    <2> QED
      BY <2>3, <2>5 DEF IInv
  <1>6. CASE ReadSum(w)
    <2> DEFINE r == [d EXCEPT !.step = "update", !.sum = total + d.score]
    <2>0. total + d.score \in Nat
      BY <1>0 DEF Local, TypeOK, Ratings
    <2>1. r \in Local /\ r.job = d.job /\ r.step = "update"
          /\ r.sum = total + d.score /\ r.score = d.score
      BY <1>0, <2>0 DEF Local, Steps
    <2>2. r.sum <= granted + r.score
      BY <1>0, <2>1 DEF IInv, NeverOvercounts, TypeOK, Local, Ratings
    <2>3. worker' \in [Workers -> Local]
          /\ (HoldsJob /\ OneWriter /\ NeverOvercounts /\ ResetsAnnounced)'
      BY <1>1, <1>6, <2>1, <2>2, QuietStep DEF ReadSum, At, dbVars, histVars
    <2> QED
      BY <1>0, <1>6, <2>3 DEF ReadSum, dbVars, busVars, histVars, IInv, TypeOK, Local
  <1>7. CASE LockTimeout(w)
    <2> DEFINE r == [d EXCEPT !.step = "settle"]
    <2>1. r \in Local /\ r.job = d.job /\ r.step = "settle"
      BY <1>0 DEF Local, Steps
    <2>2. worker' \in [Workers -> Local]
          /\ (HoldsJob /\ OneWriter /\ NeverOvercounts /\ ResetsAnnounced)'
      BY <1>1, <1>7, <2>1, QuietStep DEF LockTimeout, At, dbVars, histVars
    <2> QED
      BY <1>0, <1>7, <2>2 DEF LockTimeout, Fault, dbVars, busVars, histVars, IInv, TypeOK, Local
  <1>8. CASE Settle(w)
    <2>1. Idle \in Local /\ Idle.step = "idle"
      BY ImportanceAssumption DEF Idle, Local, Steps, Versions
    <2>2. worker' \in [Workers -> Local]
          /\ (HoldsJob /\ OneWriter /\ NeverOvercounts /\ ResetsAnnounced)'
      BY <1>8, <2>1, QuietStep DEF Settle, At, dbVars, histVars
    <2> QED
      BY <1>0, <1>8, <2>2 DEF Settle, dbVars, histVars, IInv, TypeOK, Local
  <1> QED
    BY <1>2, <1>3, <1>4, <1>5, <1>6, <1>7, <1>8
-----------------------------------------------------------------------------
(* The transaction: from the UPDATE to the end of the with block. *)

\* Nobody else is inside a transaction, so only w decides what is pending.
LEMMA PendingOfWriter ==
    ASSUME IInv, NEW w \in Workers, At(w, "commit")
    PROVE  Pending = IF worker[w].tripped THEN 1 ELSE 0
  <1>1. \A v \in Workers : At(v, "commit") => v = w
    BY DEF IInv, OneWriter, At
  <1> QED
    BY <1>1 DEF Pending

LEMMA NothingPending ==
    ASSUME IInv, NEW w \in Workers, writer = w \/ writer = NoOne, ~At(w, "commit")
    PROVE  Pending = 0
  BY ImportanceAssumption DEF IInv, OneWriter, Pending, At

LEMMA PendingRange == Pending = 0 \/ Pending = 1
  BY DEF Pending

LEMMA UpdateSumInv ==
    ASSUME IInv, NEW w \in Workers, UpdateSum(w)
    PROVE  IInv'
  <1> DEFINE d == worker[w]
             r == [d EXCEPT !.tripped = Trips(d.sum), !.step = AfterUpdate(d.sum)]
  <1>0. TypeOK /\ d \in Local /\ worker \in [Workers -> Local] /\ d.job \in Jobs
    BY DEF IInv, TypeOK, Local, UpdateSum, HoldsJob, At
  <1>1. Trips(d.sum) \in BOOLEAN /\ AfterUpdate(d.sum) \in {"emit", "commit"}
    BY DEF Trips, AfterUpdate
  <1>2. r \in Local /\ r.step \in {"emit", "commit"} /\ r.job = d.job /\ r.sum = d.sum
        /\ r.score = d.score
    BY <1>0, <1>1 DEF Local, Steps
  <1>3. worker' = [worker EXCEPT ![w] = r]
    BY DEF UpdateSum, Go
  <1>4. TypeOK'
    BY <1>0, <1>2, <1>3 DEF UpdateSum, busVars, histVars, TypeOK, Local
  <1>5. HoldsJob'
    BY <1>0, <1>2, <1>3 DEF IInv, HoldsJob, At
  <1>6. OneWriter'
    <2>1. \A v \in Workers : worker[v].step \notin {"emit", "commit"}
      BY ImportanceAssumption DEF UpdateSum, IInv, OneWriter
    <2> QED
      BY <1>0, <1>2, <1>3, <2>1 DEF UpdateSum, OneWriter
  <1>7. NeverOvercounts'
    BY <1>0, <1>2, <1>3 DEF UpdateSum, At, IInv, NeverOvercounts, histVars
  <1>8. ResetsAnnounced'
    <2>1. r.step = "commit" => ~r.tripped
      BY <1>0, <1>1 DEF Local, AfterUpdate, Trips
    <2>2. Pending = 0
      BY NothingPending DEF UpdateSum, At
    <2>3. Pending' = 0
      BY <1>0, <1>2, <1>3, <2>1, <2>2 DEF Pending, At
    <2> QED
      BY <2>2, <2>3 DEF IInv, ResetsAnnounced, UpdateSum, histVars
  <1> QED
    BY <1>4, <1>5, <1>6, <1>7, <1>8 DEF IInv

LEMMA EmitReflectionInv ==
    ASSUME IInv, NEW w \in Workers, EmitReflection(w)
    PROVE  IInv'
  <1> DEFINE d == worker[w]
             r == [d EXCEPT !.step = "commit"]
  <1>0. TypeOK /\ d \in Local /\ worker \in [Workers -> Local] /\ d.job \in Jobs
        /\ writer = w /\ d.step = "emit"
    BY DEF IInv, TypeOK, Local, EmitReflection, HoldsJob, At, OneWriter
  <1>1. r \in Local /\ r.step = "commit" /\ r.job = d.job /\ r.sum = d.sum /\ r.score = d.score
    BY <1>0 DEF Local, Steps
  <1>2. worker' = [worker EXCEPT ![w] = r]
    BY DEF EmitReflection, Go
  <1>3. /\ fired' \in Nat /\ swallowed' \in Nat /\ faults' \in Nat
        /\ \/ fired' = fired + 1 /\ swallowed' = swallowed
           \/ fired' = fired /\ swallowed' = swallowed + 1
    BY <1>0 DEF EmitReflection, Fault, TypeOK
  <1>4. TypeOK'
    BY <1>0, <1>1, <1>2, <1>3 DEF EmitReflection, dbVars, busVars, TypeOK, Local
  <1>5. HoldsJob' /\ OneWriter' /\ NeverOvercounts'
    BY <1>0, <1>1, <1>2
       DEF EmitReflection, dbVars, IInv, HoldsJob, At, OneWriter, NeverOvercounts
  <1>6. ResetsAnnounced'
    <2>1. Pending = 0
      BY <1>0, NothingPending DEF At
    <2>2. Pending' = 0 \/ Pending' = 1
      BY DEF Pending
    <2>3. resets <= fired + swallowed /\ resets' = resets /\ resets \in Nat
          /\ fired \in Nat /\ swallowed \in Nat
      BY <1>0, <2>1 DEF IInv, ResetsAnnounced, EmitReflection, TypeOK
    <2> QED
      BY <1>3, <2>2, <2>3 DEF ResetsAnnounced
  <1> QED
    BY <1>4, <1>5, <1>6 DEF IInv

LEMMA CommitInv ==
    ASSUME IInv, NEW w \in Workers, Commit(w)
    PROVE  IInv'
  <1> DEFINE d == worker[w]
             r == [d EXCEPT !.step = "settle"]
  <1>0. TypeOK /\ d \in Local /\ worker \in [Workers -> Local] /\ d.job \in Jobs
        /\ writer = w /\ d.step = "commit"
    BY DEF IInv, TypeOK, Local, Commit, HoldsJob, At, OneWriter
  <1>1. r \in Local /\ r.step = "settle" /\ r.job = d.job
    BY <1>0 DEF Local, Steps
  <1>2. worker' = [worker EXCEPT ![w] = r]
    BY DEF Commit, Go
  <1>3. d.score \in Nat /\ d.sum \in Nat /\ d.sum <= granted + d.score
    BY <1>0 DEF Local, Ratings, IInv, NeverOvercounts
  <1>4. granted' = granted + d.score /\ total' \in Nat /\ total' <= granted'
    BY <1>0, <1>3 DEF Commit, NewTotal, TypeOK
  <1>5. stale' \in Nat
    <2>1. stale' = stale \/ stale' = stale + 1
      BY DEF Commit
    <2>2. stale \in Nat
      BY <1>0 DEF TypeOK
    <2> QED
      BY <2>1, <2>2
  <1>6. TypeOK'
    <2>1. resets' \in Nat /\ granted' \in Nat
      BY <1>0, <1>3 DEF Commit, TypeOK
    <2> QED
      BY <1>0, <1>1, <1>2, <1>4, <1>5, <2>1 DEF Commit, busVars, TypeOK, Local
  <1>7. HoldsJob' /\ OneWriter'
    BY <1>0, <1>1, <1>2 DEF Commit, IInv, HoldsJob, At, OneWriter
  <1>8. NeverOvercounts'
    <2>1. \A v \in Workers : worker[v].score \in Nat /\ worker[v].sum \in Nat
      BY <1>0 DEF Local, Ratings
    <2>2. granted \in Nat
      BY <1>0 DEF TypeOK
    <2>3. ASSUME NEW v \in Workers, worker'[v].step \in {"update", "emit", "commit"}
          PROVE  worker'[v].sum <= granted' + worker'[v].score
      <3>1. v # w /\ worker'[v] = worker[v]
        BY <1>0, <1>1, <1>2, <2>3
      <3>2. worker[v].sum <= granted + worker[v].score
        BY <2>3, <3>1 DEF IInv, NeverOvercounts
      <3> QED
        BY <1>3, <1>4, <2>1, <2>2, <3>1, <3>2
    <2> QED
      BY <1>4, <2>3 DEF NeverOvercounts
  <1>9. ResetsAnnounced'
    <2>1. Pending = IF d.tripped THEN 1 ELSE 0
      BY <1>0, PendingOfWriter DEF At
    <2>2. Pending' = 0
      BY <1>0, <1>1, <1>2 DEF Pending, At, IInv, OneWriter
    <2>3. resets' = resets + Pending /\ fired' = fired /\ swallowed' = swallowed
      BY <1>0, <2>1 DEF Commit, TypeOK
    <2> QED
      BY <1>0, <2>2, <2>3, PendingRange DEF IInv, ResetsAnnounced, TypeOK
  <1> QED
    BY <1>6, <1>7, <1>8, <1>9 DEF IInv

\* A rollback: a failed commit, or the death of the worker.
LEMMA RollbackInv ==
    ASSUME IInv, NEW w \in Workers, CommitFails(w) \/ Crash(w)
    PROVE  IInv'
  <1> DEFINE d == worker[w]
             s == [d EXCEPT !.step = "settle"]
  <1>0. TypeOK /\ d \in Local /\ worker \in [Workers -> Local]
    BY DEF IInv, TypeOK, Local
  <1>1. Idle \in Local /\ Idle.step = "idle"
    BY ImportanceAssumption DEF Idle, Local, Steps, Versions
  <1>2. s \in Local /\ s.step = "settle" /\ s.job = d.job
    BY <1>0 DEF Local, Steps
  <1>3. PICK r \in Local : /\ worker' = [worker EXCEPT ![w] = r]
                           /\ r.step \in {"idle", "settle"}
                           /\ r.step # "idle" => d.step # "idle" /\ r.job = d.job
    BY <1>1, <1>2 DEF CommitFails, Crash, Go, At
  <1>4. UNCHANGED <<scores, total, busVars, histVars>>
        /\ (writer' = IF writer = w THEN NoOne ELSE writer)
    BY DEF CommitFails, Crash, IInv, OneWriter, At
  <1>5. faults' \in Nat /\ crashes' \in Nat
    BY <1>0 DEF CommitFails, Crash, Fault, TypeOK
  <1>6. TypeOK'
    BY <1>0, <1>3, <1>4, <1>5 DEF busVars, histVars, TypeOK, Local
  <1>7. HoldsJob'
    BY <1>0, <1>3 DEF IInv, HoldsJob, At
  <1>8. OneWriter'
    BY <1>0, <1>3, <1>4 DEF IInv, OneWriter
  <1>9. NeverOvercounts'
    BY <1>0, <1>3, <1>4 DEF histVars, IInv, NeverOvercounts
  <1>10. ResetsAnnounced'
    <2>1. Pending' = 1 => Pending = 1
      BY <1>0, <1>3 DEF Pending, At
    <2>2. Pending' = 0 \/ Pending' = 1
      BY DEF Pending
    <2>3. resets \in Nat /\ fired \in Nat /\ swallowed \in Nat
          /\ resets + Pending <= fired + swallowed /\ (Pending = 0 \/ Pending = 1)
      BY <1>0, PendingRange DEF IInv, ResetsAnnounced, TypeOK
    <2>4. resets' = resets /\ fired' = fired /\ swallowed' = swallowed
      BY <1>4 DEF histVars
    <2> QED
      BY <2>1, <2>2, <2>3, <2>4 DEF ResetsAnnounced
  <1> QED
    BY <1>6, <1>7, <1>8, <1>9, <1>10 DEF IInv

LEMMA NextInv == IInv /\ [Next]_vars => IInv'
  <1> SUFFICES ASSUME IInv, [Next]_vars PROVE IInv'
    OBVIOUS
  <1>1. ASSUME NEW j \in Jobs, WriteMemory(j) PROVE IInv'
    BY <1>1, WriteMemoryInv
  <1>2. ASSUME NEW w \in Workers, WorkerStep(w) PROVE IInv'
    BY <1>2, OutsideInv, UpdateSumInv, EmitReflectionInv, CommitInv, RollbackInv DEF WorkerStep
  <1>3. ASSUME NEW w \in Workers, Crash(w) PROVE IInv'
    BY <1>3, RollbackInv
  <1>4. CASE UNCHANGED vars
    <2>1. Pending' = Pending
      BY <1>4 DEF vars, Pending, At
    <2> QED
      BY <1>4, <2>1 DEF vars, dbVars, busVars, histVars, IInv, TypeOK, HoldsJob, At,
                        OneWriter, NeverOvercounts, ResetsAnnounced
  <1> QED
    BY <1>1, <1>2, <1>3, <1>4 DEF Next

LEMMA Invariance == Spec => []IInv
  BY InitInv, NextInv, PTL DEF Spec

\* The files, the tables and every worker's locals stay well typed; in
\* particular only ratings in 1..10 are ever stored or added.
THEOREM ImportanceTypeCorrect == Spec => []TypeOK
  <1>1. IInv => TypeOK
    BY DEF IInv
  <1> QED
    BY <1>1, Invariance, PTL

\* However many workers race on accumulate(), the sum never overcounts.
THEOREM ImportanceNeverOvercounts == Spec => []NeverOvercounts
  <1>1. IInv => NeverOvercounts
    BY DEF IInv
  <1> QED
    BY <1>1, Invariance, PTL

\* No committed reset whose reflection was not announced first.
THEOREM ImportanceResetsAnnounced == Spec => []ResetsAnnounced
  <1>1. IInv => ResetsAnnounced
    BY DEF IInv
  <1> QED
    BY <1>1, Invariance, PTL

-----------------------------------------------------------------------------
(* Reflections are paid for.  What a commit adds is decided when the score  *)
(* is found and when the UPDATE compares the sum with the threshold.        *)

Scored == \A w \in Workers :
    worker[w].step \in {"store", "read", "update", "emit", "commit"} => worker[w].score \in Ratings

Decided == \A w \in Workers :
    worker[w].step \in {"emit", "commit"} => (worker[w].tripped <=> worker[w].sum >= Threshold)

Earned == Scored /\ Decided /\ ReflectionsEarned

\* A step of one worker that leaves the sums alone, from the locals it moves to.
LEMMA UnpaidStep ==
    ASSUME TypeOK, Scored, Decided, NEW w \in Workers, NEW r \in Local, Go(w, r),
           r.step \in {"store", "read", "update", "emit", "commit"} => r.score \in Ratings,
           r.step \in {"emit", "commit"} => (r.tripped <=> r.sum >= Threshold)
    PROVE  Scored' /\ Decided'
  <1>1. \A v \in Workers : worker'[v] = IF v = w THEN r ELSE worker[v]
    BY DEF Go, TypeOK
  <1>2. Scored'
    BY <1>1 DEF Scored
  <1>3. Decided'
    BY <1>1 DEF Decided
  <1> QED
    BY <1>2, <1>3

LEMMA WorkerStepDecided ==
    ASSUME IInv, Scored, Decided, NEW w \in Workers, WorkerStep(w) \/ Crash(w)
    PROVE  Scored' /\ Decided'
  <1> DEFINE d == worker[w]
  <1>0. TypeOK /\ d \in Local
    BY DEF IInv, TypeOK, Local
  <1>1. d.step \in {"store", "read", "update", "emit", "commit"} => d.score \in Ratings
    BY DEF Scored
  <1>2. \A r \in Local : Go(w, r) /\ r.step \in {"idle", "lookup", "rate", "settle"}
                            => Scored' /\ Decided'
    BY <1>0, UnpaidStep
  <1>3. CASE Crash(w) \/ Settle(w)
    <2>1. Idle \in Local /\ Idle.step = "idle"
      BY ImportanceAssumption DEF Idle, Local, Steps, Versions
    <2> QED
      BY <1>2, <1>3, <2>1 DEF Crash, Settle
  <1>4. CASE LockTimeout(w) \/ Commit(w) \/ CommitFails(w)
    <2>1. [d EXCEPT !.step = "settle"] \in Local /\ [d EXCEPT !.step = "settle"].step = "settle"
      BY <1>0 DEF Local, Steps
    <2> QED
      BY <1>2, <1>4, <2>1 DEF LockTimeout, Commit, CommitFails
  <1>5. CASE \E j \in Jobs : Load(w, j)
    <2>1. PICK j \in Jobs : Load(w, j)
      BY <1>5
    <2> DEFINE r == [Idle EXCEPT !.step = "lookup", !.job = j, !.version = content[FileOf[j]]]
    <2>2. r \in Local /\ r.step = "lookup"
      BY <1>0, ImportanceAssumption DEF Idle, Local, Steps, TypeOK, Versions
    <2> QED
      BY <1>2, <2>1, <2>2 DEF Load
  <1>6. CASE Lookup(w)
    <2> DEFINE hit == scores[File(w)][d.version]
    <2>1. d.step = "lookup" /\ d.job \in Jobs
      BY <1>6 DEF Lookup, At, IInv, HoldsJob
    <2>2. hit \in {0} \cup Ratings
      BY <1>0, <2>1, ImportanceAssumption DEF File, TypeOK, Local
    <2>3. CASE Go(w, [d EXCEPT !.step = "rate"])
      <3>1. [d EXCEPT !.step = "rate"] \in Local /\ [d EXCEPT !.step = "rate"].step = "rate"
        BY <1>0 DEF Local, Steps
      <3> QED
        BY <1>2, <2>3, <3>1
    <2>4. CASE hit # 0 /\ \E st \in {"read", "settle"} : Go(w, [d EXCEPT !.score = hit, !.step = st])
      <3>1. PICK st \in {"read", "settle"} : Go(w, [d EXCEPT !.score = hit, !.step = st])
        BY <2>4
      <3> DEFINE r == [d EXCEPT !.score = hit, !.step = st]
      <3>2. r \in Local /\ r.step = st /\ r.score \in Ratings
        BY <1>0, <2>2, <2>4 DEF Local, Steps
      <3> QED
        BY <1>0, <3>1, <3>2, UnpaidStep
    <2> QED
      BY <1>6, <2>3, <2>4 DEF Lookup
  <1>7. CASE Rate(w)
    <2>1. CASE Go(w, [d EXCEPT !.step = "settle"])
      <3>1. [d EXCEPT !.step = "settle"] \in Local /\ [d EXCEPT !.step = "settle"].step = "settle"
        BY <1>0 DEF Local, Steps
      <3> QED
        BY <1>2, <2>1, <3>1
    <2>2. CASE \E a \in Answers : Valid(a) /\ Go(w, [d EXCEPT !.score = a, !.step = "store"])
      <3>1. PICK a \in Ratings : Go(w, [d EXCEPT !.score = a, !.step = "store"])
        BY <2>2 DEF Valid
      <3> DEFINE r == [d EXCEPT !.score = a, !.step = "store"]
      <3>2. r \in Local /\ r.step = "store" /\ r.score \in Ratings
        BY <1>0 DEF Local, Steps
      <3> QED
        BY <1>0, <3>1, <3>2, UnpaidStep
    <2> QED
      BY <1>7, <2>1, <2>2 DEF Rate
  <1>8. CASE Store(w)
    <2>1. PICK st \in {"read", "settle"} : Go(w, [d EXCEPT !.step = st])
      BY <1>8 DEF Store
    <2> DEFINE r == [d EXCEPT !.step = st]
    <2>2. r \in Local /\ r.step = st /\ r.score \in Ratings
      BY <1>0, <1>1, <1>8 DEF Store, At, Local, Steps
    <2> QED
      BY <1>0, <2>1, <2>2, UnpaidStep
  <1>9. CASE ReadSum(w)
    <2> DEFINE r == [d EXCEPT !.step = "update", !.sum = total + d.score]
    <2>1. total + d.score \in Nat
      BY <1>0 DEF Local, TypeOK, Ratings
    <2>2. r \in Local /\ r.step = "update" /\ r.score \in Ratings
      BY <1>0, <1>1, <1>9, <2>1 DEF ReadSum, At, Local, Steps
    <2> QED
      BY <1>0, <1>9, <2>2, UnpaidStep DEF ReadSum
  <1>10. CASE UpdateSum(w)
    <2> DEFINE r == [d EXCEPT !.tripped = Trips(d.sum), !.step = AfterUpdate(d.sum)]
    <2>1. Trips(d.sum) \in BOOLEAN /\ AfterUpdate(d.sum) \in {"emit", "commit"}
      BY DEF Trips, AfterUpdate
    <2>2. r \in Local /\ r.score \in Ratings /\ r.sum = d.sum /\ r.tripped = Trips(d.sum)
      BY <1>0, <1>1, <1>10, <2>1 DEF UpdateSum, At, Local, Steps
    <2> QED
      BY <1>0, <1>10, <2>2, UnpaidStep DEF UpdateSum, Trips
  <1>11. CASE EmitReflection(w)
    <2> DEFINE r == [d EXCEPT !.step = "commit"]
    <2>1. d.step = "emit" /\ (d.tripped <=> d.sum >= Threshold)
      BY <1>11 DEF EmitReflection, At, Decided
    <2>2. r \in Local /\ r.score \in Ratings /\ r.sum = d.sum /\ r.tripped = d.tripped
      BY <1>0, <1>1, <2>1 DEF Local, Steps
    <2> QED
      BY <1>0, <1>11, <2>1, <2>2, UnpaidStep DEF EmitReflection
  <1> QED
    BY <1>3, <1>4, <1>5, <1>6, <1>7, <1>8, <1>9, <1>10, <1>11 DEF WorkerStep

\* The arithmetic of a commit: n scores pay for k resets.
LEMMA CommitPays ==
    ASSUME NEW T \in Nat \ {0}, NEW k \in Nat, NEW t \in Nat, NEW g \in Nat, NEW z \in Nat,
           NEW score \in Ratings, NEW sum \in Nat, T * k + t <= g + (T - 1) * z
    PROVE  /\ sum = t + score => T * k + sum <= (g + score) + (T - 1) * z
           /\ sum = t + score /\ sum >= T => T * (k + 1) + 0 <= (g + score) + (T - 1) * z
           /\ sum < T => T * k + sum <= (g + score) + (T - 1) * (z + 1)
           /\ T * (k + 1) + 0 <= (g + score) + (T - 1) * (z + 1)
  <1> DEFINE a == T * k
             b == (T - 1) * z
  <1>a. a \in Int
    <2>1. T \in Int /\ k \in Int
      OBVIOUS
    <2> QED
      BY <2>1
  <1>b. b \in Int
    <2>1. T - 1 \in Int /\ z \in Int
      OBVIOUS
    <2> QED
      BY <2>1
  <1>s. score \in Int /\ score >= 1
    BY DEF Ratings
  <1>1. a \in Int /\ b \in Int /\ score \in Int /\ score >= 1
    BY <1>a, <1>b, <1>s
  <1>2. T * (k + 1) = a + T /\ (T - 1) * (z + 1) = b + (T - 1)
    OBVIOUS
  <1> HIDE DEF a, b
  <1>3. a + t <= g + b
    BY DEF a, b
  <1>4. /\ sum = t + score => a + sum <= (g + score) + b
        /\ sum = t + score /\ sum >= T => a + T + 0 <= (g + score) + b
        /\ sum < T => a + sum <= (g + score) + (b + (T - 1))
        /\ a + T + 0 <= (g + score) + (b + (T - 1))
    BY <1>1, <1>3
  <1> QED
    BY <1>2, <1>4 DEF a, b

LEMMA CommitEarned ==
    ASSUME IInv, Earned, NEW w \in Workers, Commit(w)
    PROVE  ReflectionsEarned'
  <1> DEFINE d == worker[w]
  <1>1. d.score \in Ratings /\ (d.tripped <=> d.sum >= Threshold)
    BY DEF Commit, At, Earned, Scored, Decided
  <1>2. d.sum \in Nat /\ resets \in Nat /\ total \in Nat /\ granted \in Nat /\ stale \in Nat
    BY DEF IInv, TypeOK
  <1>3. Threshold \in Nat \ {0}
    BY ImportanceAssumption
  <1>4. Threshold * resets + total <= granted + (Threshold - 1) * stale
    BY DEF Earned, ReflectionsEarned
  <1>5. granted' = granted + d.score
        /\ stale' = (IF d.sum = total + d.score THEN stale ELSE stale + 1)
        /\ resets' = (IF d.tripped THEN resets + 1 ELSE resets)
        /\ total' = (IF d.tripped THEN 0 ELSE d.sum)
    BY DEF Commit, NewTotal
  <1>6. /\ d.sum = total + d.score =>
              Threshold * resets + d.sum <= (granted + d.score) + (Threshold - 1) * stale
        /\ d.sum = total + d.score /\ d.sum >= Threshold =>
              Threshold * (resets + 1) + 0 <= (granted + d.score) + (Threshold - 1) * stale
        /\ d.sum < Threshold =>
              Threshold * resets + d.sum <= (granted + d.score) + (Threshold - 1) * (stale + 1)
        /\ Threshold * (resets + 1) + 0 <= (granted + d.score) + (Threshold - 1) * (stale + 1)
    BY <1>1, <1>2, <1>3, <1>4, CommitPays
  <1>7. CASE d.tripped /\ d.sum = total + d.score
    BY <1>1, <1>5, <1>6, <1>7 DEF ReflectionsEarned
  <1>8. CASE ~d.tripped /\ d.sum = total + d.score
    BY <1>5, <1>6, <1>8 DEF ReflectionsEarned
  <1>9. CASE d.tripped /\ d.sum # total + d.score
    BY <1>5, <1>6, <1>9 DEF ReflectionsEarned
  <1>10. CASE ~d.tripped /\ d.sum # total + d.score
    <2>1. d.sum < Threshold
      BY <1>1, <1>2, <1>3, <1>10
    <2> QED
      BY <1>5, <1>6, <1>10, <2>1 DEF ReflectionsEarned
  <1> QED
    BY <1>7, <1>8, <1>9, <1>10

LEMMA EarnedInductive == IInv /\ Earned /\ [Next]_vars => Earned'
  <1> SUFFICES ASSUME IInv, Earned, [Next]_vars PROVE Earned'
    OBVIOUS
  <1>1. ASSUME NEW j \in Jobs, WriteMemory(j) PROVE Earned'
    BY <1>1 DEF WriteMemory, dbVars, histVars, Earned, Scored, Decided, ReflectionsEarned
  <1>2. ASSUME NEW w \in Workers, WorkerStep(w) \/ Crash(w) PROVE Earned'
    <2>1. Scored' /\ Decided'
      BY <1>2, WorkerStepDecided DEF Earned
    <2>2. ReflectionsEarned'
      <3>1. CASE Commit(w)
        BY <3>1, CommitEarned
      <3>2. CASE ~Commit(w)
        <4>1. UNCHANGED <<total, granted, resets, stale>>
          BY <1>2, <3>2 DEF WorkerStep, Load, Lookup, Rate, Store, ReadSum, UpdateSum, LockTimeout,
             EmitReflection, CommitFails, Settle, Crash, dbVars, busVars, histVars
        <4> QED
          BY <4>1 DEF Earned, ReflectionsEarned
      <3> QED
        BY <3>1, <3>2
    <2> QED
      BY <2>1, <2>2 DEF Earned
  <1>3. CASE UNCHANGED vars
    BY <1>3 DEF vars, dbVars, histVars, Earned, Scored, Decided, ReflectionsEarned
  <1> QED
    BY <1>1, <1>2, <1>3 DEF Next

\* Every reflection is paid for by a threshold's worth of scores; a sum that
\* was stale when it was committed excuses less than one threshold.
THEOREM ImportanceReflectionsEarned == Spec => []ReflectionsEarned
  <1>1. Init => Earned
    BY ImportanceAssumption DEF Init, Idle, Earned, Scored, Decided, ReflectionsEarned
  <1>2. Earned => ReflectionsEarned
    BY DEF Earned
  <1> QED
    BY <1>1, <1>2, EarnedInductive, Invariance, PTL DEF Spec
\* The committed sum never reaches the threshold: a transaction that does not
\* trip leaves less, one that trips leaves nothing.
THEOREM ImportanceBelowThreshold == Spec => []BelowThreshold
  <1>1. Init => Earned /\ BelowThreshold
    BY ImportanceAssumption
       DEF Init, Idle, Earned, Scored, Decided, ReflectionsEarned, BelowThreshold
  <1>2. IInv /\ Earned /\ BelowThreshold /\ [Next]_vars => BelowThreshold'
    <2> SUFFICES ASSUME IInv, Earned, BelowThreshold, [Next]_vars PROVE BelowThreshold'
      OBVIOUS
    <2>1. ASSUME NEW w \in Workers, Commit(w) PROVE BelowThreshold'
      <3>1. worker[w].sum \in Nat /\ Threshold \in Nat \ {0}
        BY ImportanceAssumption DEF IInv, TypeOK
      <3>2. worker[w].tripped <=> worker[w].sum >= Threshold
        BY <2>1 DEF Commit, At, Earned, Decided
      <3>3. total' = (IF worker[w].tripped THEN 0 ELSE worker[w].sum)
        BY <2>1 DEF Commit, NewTotal
      <3> QED
        BY <3>1, <3>2, <3>3 DEF BelowThreshold
    <2>2. CASE ~ \E w \in Workers : Commit(w)
      <3>1. UNCHANGED total
        BY <2>2 DEF Next, WriteMemory, WorkerStep, Load, Lookup, Rate, Store, ReadSum, UpdateSum,
           LockTimeout, EmitReflection, CommitFails, Settle, Crash, dbVars, busVars, histVars, vars
      <3> QED
        BY <3>1 DEF BelowThreshold
    <2> QED
      BY <2>1, <2>2
  <1> QED
    BY <1>1, <1>2, EarnedInductive, Invariance, PTL DEF Spec
=============================================================================
