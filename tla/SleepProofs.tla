---------------------------- MODULE SleepProofs ----------------------------
(***************************************************************************)
(* The sleep cycle, proved for every set of sessions, workers and          *)
(* memories, and for every bound on what is restored, forced, raised,      *)
(* killed or left unstamped: queued jobs coalesce, and a chain of passes   *)
(* that ran alone leaves its memories in MEMORY.md.                        *)
(***************************************************************************)
EXTENDS SleepCycle, TLAPS

-----------------------------------------------------------------------------
(* What the helpers do. *)

Locals == [step : Steps, job : Sessions \cup {NoJob}, forced : BOOLEAN,
           raised : BOOLEAN, wrote : SUBSET Memories,
           listed : SUBSET Memories, alone : BOOLEAN]

Counts == [restores : 0..MaxRestores, forced : 0..MaxForced,
           raises : 0..MaxRaises, crashes : 0..MaxCrashes,
           unstamped : 0..MaxUnstamped]

\* A worker's locals, moved on.
LEMMA MovesOn ==
    ASSUME NEW r \in Locals, NEW st \in Steps, NEW new \in SUBSET Memories
    PROVE  /\ [r EXCEPT !.step = st] \in Locals
           /\ [r EXCEPT !.step = st].step = st
           /\ [r EXCEPT !.step = st, !.raised = TRUE] \in Locals
           /\ [r EXCEPT !.step = st, !.raised = TRUE].step = st
           /\ [r EXCEPT !.step = st, !.wrote = new] \in Locals
           /\ [r EXCEPT !.step = st, !.wrote = new].step = st
           /\ [r EXCEPT !.step = st, !.wrote = new].wrote = new
           /\ [r EXCEPT !.step = st, !.listed = new] \in Locals
           /\ [r EXCEPT !.step = st, !.listed = new].step = st
           /\ [r EXCEPT !.step = st, !.listed = new].wrote = r.wrote
           /\ [r EXCEPT !.step = st, !.listed = new].listed = new
           /\ [r EXCEPT !.step = st, !.wrote = {}, !.alone = FALSE] \in Locals
           /\ [r EXCEPT !.step = st, !.wrote = {}, !.alone = FALSE].step = st
           /\ [r EXCEPT !.step = st, !.wrote = {}, !.alone = FALSE].wrote = {}
           /\ [r EXCEPT !.step = st, !.wrote = {}, !.alone = FALSE].alone = FALSE
  BY DEF Locals

\* A worker beside which another chain began.
LEMMA Joined ==
    ASSUME NEW r \in Locals
    PROVE  /\ [r EXCEPT !.alone = FALSE] \in Locals
           /\ [r EXCEPT !.alone = FALSE].step = r.step
           /\ [r EXCEPT !.alone = FALSE].wrote = r.wrote
           /\ [r EXCEPT !.alone = FALSE].alone = FALSE
  BY DEF Locals

\* A spent bound: its counter and no other goes up, within the bound.
LEMMA Spending ==
    ASSUME used \in Counts,
           \/ Spend("restores", MaxRestores)
           \/ Spend("forced", MaxForced)
           \/ Spend("raises", MaxRaises)
           \/ Spend("crashes", MaxCrashes)
           \/ Spend("unstamped", MaxUnstamped)
    PROVE  /\ used' \in Counts
           /\ used'.restores >= used.restores /\ used'.unstamped >= used.unstamped
           /\ Spend("restores", MaxRestores) => used'.restores > 0
           /\ Spend("unstamped", MaxUnstamped) => used'.unstamped > 0
  BY SleepAssumption DEF Counts, Spend

LEMMA Ageing ==
    ASSUME NEW a \in Ages \cup {FarFuture}
    PROVE  /\ Older(a) \in Ages \cup {FarFuture}
           /\ a \in Ages => Older(a) \in Ages
  BY SleepAssumption DEF Ages, FarFuture, Older

\* The locals a chain of passes begins with.
LEMMA IdleLocals ==
    /\ Idle \in Locals
    /\ Idle.step = "idle"
    /\ Idle.wrote = {}
    /\ Idle.alone = FALSE
  BY DEF Idle, Locals, Steps

LEMMA Beginning ==
    ASSUME worker \in [Workers -> Locals],
           NEW w \in Workers, NEW job \in Sessions \cup {NoJob}, NEW forced \in BOOLEAN,
           Begin(w, job, forced)
    PROVE  /\ worker' \in [Workers -> Locals]
           /\ worker'[w].step = "legacy"
           /\ worker'[w].forced = forced
           /\ worker'[w].wrote = {}
           /\ worker'[w].alone => \A u \in Workers : ~InPass(u)
           /\ \A v \in Workers \ {w} : /\ worker'[v].step = worker[v].step
                                       /\ worker'[v].wrote = worker[v].wrote
                                       /\ worker'[v].alone = FALSE
<1>. DEFINE none == \A u \in Workers : ~InPass(u)
            q    == [step |-> "legacy", job |-> job, forced |-> forced, raised |-> FALSE,
                     wrote |-> {}, listed |-> {}, alone |-> none]
<1>4. /\ q \in Locals /\ q.step = "legacy" /\ q.forced = forced /\ q.wrote = {}
  BY DEF Locals, Steps
<1>5. q.alone => none
  OBVIOUS
<1>6. worker' = [v \in Workers |-> IF v = w THEN q ELSE [worker[v] EXCEPT !.alone = FALSE]]
  BY DEF Begin
<1>7. worker'[w] = q
  BY <1>6
<1>8. \A v \in Workers \ {w} : worker'[v] = [worker[v] EXCEPT !.alone = FALSE]
  BY <1>6
<1>9. \A v \in Workers \ {w} : /\ worker'[v] \in Locals
                               /\ worker'[v].step = worker[v].step
                               /\ worker'[v].wrote = worker[v].wrote
                               /\ worker'[v].alone = FALSE
  <2>. SUFFICES ASSUME NEW v \in Workers \ {w}
                PROVE  /\ worker'[v] \in Locals
                       /\ worker'[v].step = worker[v].step
                       /\ worker'[v].wrote = worker[v].wrote
                       /\ worker'[v].alone = FALSE
    OBVIOUS
  <2>1. worker[v] \in Locals
    OBVIOUS
  <2>. QED
    BY <2>1, <1>8, Joined
<1>10. worker' \in [Workers -> Locals]
  BY <1>4, <1>6, <1>7, <1>9
<1>. QED
  BY <1>4, <1>5, <1>7, <1>9, <1>10

-----------------------------------------------------------------------------
(* Type correctness. *)

LEMMA TypeInit == Init => TypeOK
<1>. SUFFICES ASSUME Init PROVE TypeOK
  OBVIOUS
<1>1. used \in Counts
  BY SleepAssumption DEF Init, Nothing, Counts
<1>2. worker \in [Workers -> Locals]
  BY IdleLocals DEF Init
<1>. QED
  BY <1>1, <1>2, SleepAssumption DEF Init, TypeOK, Counts, Locals, Ages

\* The parts of TypeOK, under the names the lemmas use.
LEMMA TypeParts ==
    TypeOK <=> /\ queuedMark \in Ages \cup {FarFuture} /\ doneMark \in Ages \cup {FarFuture}
               /\ ending \in [Sessions -> {"idle", "due", "queued"}]
               /\ open \subseteq Sessions
               /\ worker \in [Workers -> Locals]
               /\ spine \subseteq Memories /\ index \subseteq Memories
               /\ used \in Counts
               /\ sinceDone \in Ages
  BY DEF TypeOK, Counts, Locals

LEMMA TypeNext == TypeOK /\ [Next]_vars => TypeOK'
<1>. SUFFICES ASSUME TypeOK, [Next]_vars PROVE TypeOK'
  OBVIOUS
<1>. USE TypeParts
<1>y. TypeOK' <=> /\ queuedMark' \in Ages \cup {FarFuture} /\ doneMark' \in Ages \cup {FarFuture}
                  /\ ending' \in [Sessions -> {"idle", "due", "queued"}]
                  /\ open' \subseteq Sessions
                  /\ worker' \in [Workers -> Locals]
                  /\ spine' \subseteq Memories /\ index' \subseteq Memories
                  /\ used' \in Counts
                  /\ sinceDone' \in Ages
  BY DEF TypeOK, Counts, Locals
<1>z. 0 \in Ages /\ Ages \subseteq Nat
  BY SleepAssumption DEF Ages
<1>1. CASE UNCHANGED vars
  BY <1>1, <1>y DEF vars, marks, files, TypeOK, Counts, Locals
<1>2. ASSUME NEW s \in Sessions, CheckDue(s) \/ Emit(s) \/ MarkQueued(s)
      PROVE  TypeOK'
  <2>1. used' \in Counts
    BY <1>2, Spending DEF CheckDue, Emit, MarkQueued
  <2>2. /\ ending' \in [Sessions -> {"idle", "due", "queued"}]
        /\ open' \subseteq Sessions
        /\ queuedMark' \in Ages \cup {FarFuture}
    BY <1>2, <1>z DEF CheckDue, Emit, MarkQueued, marks
  <2>. QED
    BY <1>2, <2>1, <2>2, <1>y DEF CheckDue, Emit, MarkQueued, marks, files
<1>3. ASSUME NEW w \in Workers, NEW s \in Sessions, StartPass(w, s)
      PROVE  TypeOK'
  <2>1. worker' \in [Workers -> Locals]
    BY <1>3, Beginning DEF StartPass
  <2>. QED
    BY <1>3, <2>1, <1>y DEF StartPass, marks, files
<1>4. ASSUME NEW w \in Workers, StartForced(w)
      PROVE  TypeOK'
  <2>1. worker' \in [Workers -> Locals]
    BY <1>4, Beginning DEF StartForced
  <2>2. used' \in Counts
    BY <1>4, Spending DEF StartForced
  <2>. QED
    BY <1>4, <2>1, <2>2, <1>y DEF StartForced, marks, files
<1>5. ASSUME NEW w \in Workers, NEW s \in Sessions, Coalesce(w, s)
      PROVE  TypeOK'
  BY <1>5, <1>y DEF Coalesce, marks, files
<1>6. ASSUME NEW w \in Workers, LegacyPasses(w)
      PROVE  TypeOK'
  <2>1. used' \in Counts
    BY <1>6, Spending DEF LegacyPasses
  <2>2. worker[w] \in Locals /\ "promote" \in Steps /\ "stamp" \in Steps /\ {} \in SUBSET Memories
    BY DEF Steps
  <2>3. /\ [worker[w] EXCEPT !.step = "promote"] \in Locals
        /\ [worker[w] EXCEPT !.step = "stamp", !.raised = TRUE] \in Locals
    BY <2>2, MovesOn
  <2>4. worker' \in [Workers -> Locals]
    BY <1>6, <2>3 DEF LegacyPasses, Go
  <2>. QED
    BY <1>6, <2>1, <2>4, <1>y DEF LegacyPasses, marks, files
<1>7. ASSUME NEW w \in Workers, Promote(w)
      PROVE  TypeOK'
  <2>1. PICK new \in SUBSET (Memories \ spine) :
          /\ spine' = spine \cup new
          /\ Go(w, [worker[w] EXCEPT !.step = "list", !.wrote = new])
    BY <1>7 DEF Promote
  <2>2. worker[w] \in Locals /\ "list" \in Steps /\ new \in SUBSET Memories
    BY DEF Steps
  <2>3. [worker[w] EXCEPT !.step = "list", !.wrote = new] \in Locals
    BY <2>2, MovesOn
  <2>4. worker' \in [Workers -> Locals]
    BY <2>1, <2>3 DEF Go
  <2>. QED
    BY <1>7, <2>1, <2>2, <2>4, <1>y DEF Promote, marks, files
<1>8. ASSUME NEW w \in Workers, ListMemories(w)
      PROVE  TypeOK'
  <2>1. worker[w] \in Locals /\ "write" \in Steps /\ Listing(w) \in SUBSET Memories
    BY DEF Steps, Listing
  <2>2. [worker[w] EXCEPT !.step = "write", !.listed = Listing(w)] \in Locals
    BY <2>1, MovesOn
  <2>3. worker' \in [Workers -> Locals]
    BY <1>8, <2>2 DEF ListMemories, Go
  <2>. QED
    BY <1>8, <2>3, <1>y DEF ListMemories, marks, files
<1>9. ASSUME NEW w \in Workers, WriteIndex(w)
      PROVE  TypeOK'
  <2>1. worker[w] \in Locals /\ "stamp" \in Steps /\ {} \in SUBSET Memories
    BY DEF Steps
  <2>2. [worker[w] EXCEPT !.step = "stamp", !.listed = {}] \in Locals
    BY <2>1, MovesOn
  <2>3. worker' \in [Workers -> Locals]
    BY <1>9, <2>2 DEF WriteIndex, Go
  <2>4. index' \subseteq Memories
    BY <1>9, <2>1 DEF WriteIndex, Locals
  <2>. QED
    BY <1>9, <2>3, <2>4, <1>y DEF WriteIndex, marks, files
<1>10. ASSUME NEW w \in Workers, Stamp(w)
       PROVE  TypeOK'
  <2>1. worker[w] \in Locals /\ "settle" \in Steps /\ {} \in SUBSET Memories
    BY DEF Steps
  <2>2. [worker[w] EXCEPT !.step = "settle", !.wrote = {}, !.alone = FALSE] \in Locals
    BY <2>1, MovesOn
  <2>3. worker' \in [Workers -> Locals]
    BY <1>10, <2>2 DEF Stamp, Go
  <2>4. used' \in Counts
    BY <1>10, Spending DEF Stamp
  <2>. QED
    BY <1>10, <1>z, <2>3, <2>4, <1>y DEF Stamp, marks, files
<1>11. ASSUME NEW w \in Workers, Settle(w)
       PROVE  TypeOK'
  <2>1. worker' \in [Workers -> Locals]
    BY <1>11, IdleLocals DEF Settle, Go
  <2>. QED
    BY <1>11, <2>1, <1>y DEF Settle, Requeued, marks, files
<1>12. ASSUME NEW w \in Workers, Crash(w)
       PROVE  TypeOK'
  <2>1. worker' \in [Workers -> Locals]
    BY <1>12, IdleLocals DEF Crash, Go
  <2>2. used' \in Counts
    BY <1>12, Spending DEF Crash
  <2>. QED
    BY <1>12, <2>1, <2>2, <1>y DEF Crash, marks, files
<1>13. ASSUME Restore
       PROVE  TypeOK'
  <2>1. used' \in Counts
    BY <1>13, Spending DEF Restore
  <2>2. MaxAge \in Ages
    BY SleepAssumption DEF Ages
  <2>. QED
    BY <1>13, <2>1, <2>2, <1>y DEF Restore, marks, files
<1>14. ASSUME TimePasses
       PROVE  TypeOK'
  <2>1. /\ queuedMark' \in Ages \cup {FarFuture} /\ doneMark' \in Ages \cup {FarFuture}
        /\ sinceDone' \in Ages
    BY <1>14, Ageing DEF TimePasses
  <2>. QED
    BY <1>14, <2>1, <1>y DEF TimePasses, files
<1>. QED
  BY <1>1, <1>2, <1>3, <1>4, <1>5, <1>6, <1>7, <1>8, <1>9, <1>10, <1>11, <1>12, <1>13, <1>14
  DEF Next, WorkerStep

\* Every variable of the sleep cycle keeps its type, and every counter its bound.
THEOREM SleepTypeCorrect == Spec => []TypeOK
<1>. QED
  BY TypeInit, TypeNext, PTL DEF Spec

-----------------------------------------------------------------------------
(* What a chain of passes that ran alone wrote is listed. *)

\* Beside a chain that is still alone there is no other.
OnlyOne == \A w, u \in Workers : worker[w].alone /\ u # w => ~InPass(u)

\* What a chain wrote is on disk, and in its list when it ran alone.
OnDisk == \A w \in Workers : worker[w].wrote \subseteq spine

InList ==
    \A w \in Workers : At(w, "write") /\ worker[w].alone => worker[w].wrote \subseteq worker[w].listed

CycleInv == TypeOK /\ OnlyOne /\ OnDisk /\ InList /\ CycleIsIndexed

LEMMA CycleInit == Init => CycleInv
  BY TypeInit, IdleLocals
  DEF Init, CycleInv, OnlyOne, OnDisk, InList, CycleIsIndexed, At, InPass

\* A chain that moves on and is alone stays alone; no other one is.
LEMMA PassMoves ==
    ASSUME worker \in [Workers -> Locals], OnlyOne,
           NEW w \in Workers, NEW r \in Locals,
           Go(w, r), InPass(w), r.alone => worker[w].alone
    PROVE  /\ worker'[w] = r
           /\ \A v \in Workers \ {w} : worker'[v] = worker[v] /\ ~worker[v].alone
           /\ OnlyOne'
<1>1. worker'[w] = r /\ \A v \in Workers \ {w} : worker'[v] = worker[v]
  BY DEF Go
<1>2. \A v \in Workers \ {w} : ~worker[v].alone
  BY DEF OnlyOne
<1>3. OnlyOne'
  BY <1>1, <1>2 DEF OnlyOne, InPass
<1>. QED
  BY <1>1, <1>2, <1>3

\* A worker that goes idle disturbs nobody.
LEMMA GoesIdle ==
    ASSUME CycleInv, NEW w \in Workers, Go(w, Idle), UNCHANGED files
    PROVE  OnlyOne' /\ OnDisk' /\ InList' /\ CycleIsIndexed'
<1>1. worker'[w] = Idle /\ \A v \in Workers \ {w} : worker'[v] = worker[v]
  BY TypeParts DEF Go, CycleInv
<1>2. OnlyOne'
  BY <1>1, IdleLocals DEF OnlyOne, InPass, CycleInv
<1>3. OnDisk'
  BY <1>1, IdleLocals DEF OnDisk, CycleInv, files
<1>4. InList'
  BY <1>1, IdleLocals DEF InList, CycleInv, At
<1>5. CycleIsIndexed'
  BY <1>1, IdleLocals DEF CycleIsIndexed, CycleInv, At, files
<1>. QED
  BY <1>2, <1>3, <1>4, <1>5

\* So does one that begins: the others are not alone any more.
LEMMA Begins ==
    ASSUME CycleInv, NEW w \in Workers, At(w, "idle"),
           NEW job \in Sessions \cup {NoJob}, NEW forced \in BOOLEAN,
           Begin(w, job, forced), UNCHANGED files
    PROVE  OnlyOne' /\ OnDisk' /\ InList' /\ CycleIsIndexed'
<1>1. worker \in [Workers -> Locals]
  BY TypeParts DEF CycleInv
<1>2. /\ worker'[w].step = "legacy"
      /\ worker'[w].wrote = {}
      /\ worker'[w].alone => \A u \in Workers : ~InPass(u)
      /\ \A v \in Workers \ {w} : /\ worker'[v].step = worker[v].step
                                  /\ worker'[v].wrote = worker[v].wrote
                                  /\ worker'[v].alone = FALSE
  BY <1>1, Beginning
<1>3. OnlyOne'
  BY <1>2 DEF OnlyOne, InPass
<1>4. OnDisk'
  BY <1>2 DEF OnDisk, CycleInv, files
<1>5. InList'
  BY <1>2 DEF InList, At
<1>6. CycleIsIndexed'
  BY <1>2 DEF CycleIsIndexed, At
<1>. QED
  BY <1>3, <1>4, <1>5, <1>6

LEMMA CycleNext == CycleInv /\ [Next]_vars => CycleInv'
<1>. SUFFICES ASSUME CycleInv, [Next]_vars
              PROVE  OnlyOne' /\ OnDisk' /\ InList' /\ CycleIsIndexed'
  BY TypeNext DEF CycleInv
<1>. DEFINE Kept == OnlyOne' /\ OnDisk' /\ InList' /\ CycleIsIndexed'
<1>t. worker \in [Workers -> Locals]
  BY TypeParts DEF CycleInv
<1>1. ASSUME UNCHANGED <<worker, files>>
      PROVE  Kept
  BY <1>1 DEF CycleInv, OnlyOne, OnDisk, InList, CycleIsIndexed, InPass, At, files
<1>2. ASSUME NEW w \in Workers, NEW s \in Sessions, StartPass(w, s)
      PROVE  Kept
  BY <1>2, Begins DEF StartPass
<1>3. ASSUME NEW w \in Workers, StartForced(w)
      PROVE  Kept
  BY <1>3, Begins DEF StartForced
<1>4. ASSUME NEW w \in Workers, LegacyPasses(w)
      PROVE  Kept
  <2>1. worker[w] \in Locals /\ "promote" \in Steps /\ "stamp" \in Steps /\ {} \in SUBSET Memories
    BY <1>t DEF Steps
  <2>2. PICK r \in Locals : /\ Go(w, r) /\ r.alone = worker[w].alone /\ r.wrote = worker[w].wrote
                            /\ r.step = "promote" \/ (r.step = "stamp" /\ r.raised)
    <3>. DEFINE q1 == [worker[w] EXCEPT !.step = "promote"]
                q2 == [worker[w] EXCEPT !.step = "stamp", !.raised = TRUE]
    <3>1. /\ q1 \in Locals /\ q1.alone = worker[w].alone /\ q1.wrote = worker[w].wrote
          /\ q1.step = "promote"
      BY <2>1 DEF Locals
    <3>2. /\ q2 \in Locals /\ q2.alone = worker[w].alone /\ q2.wrote = worker[w].wrote
          /\ q2.step = "stamp" /\ q2.raised = TRUE
      BY <2>1 DEF Locals
    <3>3. Go(w, q1) \/ Go(w, q2)
      BY <1>4 DEF LegacyPasses
    <3>. QED
      BY <3>1, <3>2, <3>3
  <2>3. InPass(w)
    BY <1>4 DEF LegacyPasses, At, InPass
  <2>4. /\ worker'[w] = r /\ OnlyOne'
        /\ \A v \in Workers \ {w} : worker'[v] = worker[v] /\ ~worker[v].alone
    BY <1>t, <2>2, <2>3, PassMoves DEF CycleInv
  <2>5. OnDisk' /\ InList' /\ CycleIsIndexed'
    BY <1>4, <2>2, <2>4 DEF LegacyPasses, CycleInv, OnDisk, InList, CycleIsIndexed, At, files
  <2>. QED
    BY <2>4, <2>5
<1>5. ASSUME NEW w \in Workers, Promote(w)
      PROVE  Kept
  <2>1. PICK new \in SUBSET (Memories \ spine) :
          /\ spine' = spine \cup new
          /\ Go(w, [worker[w] EXCEPT !.step = "list", !.wrote = new])
    BY <1>5 DEF Promote
  <2>2. worker[w] \in Locals /\ "list" \in Steps /\ new \in SUBSET Memories
    BY <1>t DEF Steps
  <2>3. PICK r \in Locals : /\ Go(w, r) /\ r.alone = worker[w].alone /\ r.wrote = new
                            /\ r.step = "list"
    <3>. DEFINE q == [worker[w] EXCEPT !.step = "list", !.wrote = new]
    <3>1. q \in Locals /\ q.alone = worker[w].alone /\ q.wrote = new /\ q.step = "list"
      BY <2>2 DEF Locals
    <3>. QED
      BY <2>1, <3>1
  <2>4. InPass(w)
    BY <1>5 DEF Promote, At, InPass
  <2>5. /\ worker'[w] = r /\ OnlyOne'
        /\ \A v \in Workers \ {w} : worker'[v] = worker[v] /\ ~worker[v].alone
    BY <1>t, <2>3, <2>4, PassMoves DEF CycleInv
  <2>6. OnDisk' /\ InList' /\ CycleIsIndexed'
    BY <1>5, <2>1, <2>3, <2>5 DEF Promote, CycleInv, OnDisk, InList, CycleIsIndexed, At
  <2>. QED
    BY <2>5, <2>6
<1>6. ASSUME NEW w \in Workers, ListMemories(w)
      PROVE  Kept
  <2>1. worker[w] \in Locals /\ "write" \in Steps /\ spine \in SUBSET Memories
    BY <1>t, TypeParts DEF Steps, CycleInv
  <2>2. PICK r \in Locals : /\ Go(w, r) /\ r.alone = worker[w].alone /\ r.wrote = worker[w].wrote
                            /\ r.step = "write" /\ r.listed = spine
    <3>. DEFINE q == [worker[w] EXCEPT !.step = "write", !.listed = spine]
    <3>1. /\ q \in Locals /\ q.alone = worker[w].alone /\ q.wrote = worker[w].wrote
          /\ q.step = "write" /\ q.listed = spine
      BY <2>1 DEF Locals
    <3>2. Go(w, q)
      BY <1>6 DEF ListMemories, Listing
    <3>. QED
      BY <3>1, <3>2
  <2>3. InPass(w)
    BY <1>6 DEF ListMemories, At, InPass
  <2>4. /\ worker'[w] = r /\ OnlyOne'
        /\ \A v \in Workers \ {w} : worker'[v] = worker[v] /\ ~worker[v].alone
    BY <1>t, <2>2, <2>3, PassMoves DEF CycleInv
  <2>5. OnDisk' /\ InList' /\ CycleIsIndexed'
    BY <1>6, <2>2, <2>4 DEF ListMemories, CycleInv, OnDisk, InList, CycleIsIndexed, At, files
  <2>. QED
    BY <2>4, <2>5
<1>7. ASSUME NEW w \in Workers, WriteIndex(w)
      PROVE  Kept
  <2>1. worker[w] \in Locals /\ "stamp" \in Steps /\ {} \in SUBSET Memories
    BY <1>t DEF Steps
  <2>2. PICK r \in Locals : /\ Go(w, r) /\ r.alone = worker[w].alone /\ r.wrote = worker[w].wrote
                            /\ r.step = "stamp"
    <3>. DEFINE q == [worker[w] EXCEPT !.step = "stamp", !.listed = {}]
    <3>1. /\ q \in Locals /\ q.alone = worker[w].alone /\ q.wrote = worker[w].wrote
          /\ q.step = "stamp"
      BY <2>1 DEF Locals
    <3>2. Go(w, q)
      BY <1>7 DEF WriteIndex
    <3>. QED
      BY <3>1, <3>2
  <2>3. InPass(w)
    BY <1>7 DEF WriteIndex, At, InPass
  <2>4. /\ worker'[w] = r /\ OnlyOne'
        /\ \A v \in Workers \ {w} : worker'[v] = worker[v] /\ ~worker[v].alone
    BY <1>t, <2>2, <2>3, PassMoves DEF CycleInv
  <2>5. worker[w].alone => worker[w].wrote \subseteq index'
    BY <1>7 DEF WriteIndex, CycleInv, InList
  <2>6. OnDisk' /\ InList' /\ CycleIsIndexed'
    BY <1>7, <2>2, <2>4, <2>5 DEF WriteIndex, CycleInv, OnDisk, InList, CycleIsIndexed, At
  <2>. QED
    BY <2>4, <2>6
<1>8. ASSUME NEW w \in Workers, Stamp(w)
      PROVE  Kept
  <2>1. worker[w] \in Locals /\ "settle" \in Steps /\ {} \in SUBSET Memories
    BY <1>t DEF Steps
  <2>2. PICK r \in Locals : Go(w, r) /\ r.alone = FALSE /\ r.wrote = {} /\ r.step = "settle"
    <3>. DEFINE q == [worker[w] EXCEPT !.step = "settle", !.wrote = {}, !.alone = FALSE]
    <3>1. q \in Locals /\ q.alone = FALSE /\ q.wrote = {} /\ q.step = "settle"
      BY <2>1 DEF Locals
    <3>2. Go(w, q)
      BY <1>8 DEF Stamp
    <3>. QED
      BY <3>1, <3>2
  <2>3. InPass(w)
    BY <1>8 DEF Stamp, At, InPass
  <2>4. /\ worker'[w] = r /\ OnlyOne'
        /\ \A v \in Workers \ {w} : worker'[v] = worker[v] /\ ~worker[v].alone
    BY <1>t, <2>2, <2>3, PassMoves DEF CycleInv
  <2>5. OnDisk' /\ InList' /\ CycleIsIndexed'
    BY <1>8, <2>2, <2>4 DEF Stamp, CycleInv, OnDisk, InList, CycleIsIndexed, At, files
  <2>. QED
    BY <2>4, <2>5
<1>9. ASSUME NEW w \in Workers, Settle(w) \/ Crash(w)
      PROVE  Kept
  BY <1>9, GoesIdle DEF Settle, Crash
<1>10. UNCHANGED vars \/ TimePasses \/ Restore => Kept
  BY <1>1 DEF vars, TimePasses, Restore
<1>11. ASSUME NEW s \in Sessions, CheckDue(s) \/ Emit(s) \/ MarkQueued(s)
       PROVE  Kept
  BY <1>11, <1>1 DEF CheckDue, Emit, MarkQueued
<1>12. ASSUME NEW w \in Workers, NEW s \in Sessions, Coalesce(w, s)
       PROVE  Kept
  BY <1>12, <1>1 DEF Coalesce
<1>. QED
  BY <1>2, <1>3, <1>4, <1>5, <1>6, <1>7, <1>8, <1>9, <1>10, <1>11, <1>12
  DEF Next, WorkerStep

\* Whoever else runs a chain of passes, is killed or raises: a chain that reached
\* the end of the last pass with no other one beside it has what it wrote in
\* MEMORY.md (regenerate_index is the last pass, consolidate_worker.py).
THEOREM CyclesAreIndexed == Spec => []CycleIsIndexed
<1>1. CycleInv => CycleIsIndexed
  BY DEF CycleInv
<1>. QED
  BY <1>1, CycleInit, CycleNext, PTL DEF Spec

-----------------------------------------------------------------------------
(* A backlog of jobs starts the heavy chain once in a window. *)

\* The marker tells when the last chain ended, unless it was not written or lost.
MarkIsTrue == used.unstamped + used.restores = 0 => doneMark = sinceDone

MarkInv == TypeOK /\ MarkIsTrue

LEMMA MarkInit == Init => MarkInv
  BY TypeInit DEF Init, MarkInv, MarkIsTrue

LEMMA MarkNext == MarkInv /\ [Next]_vars => MarkInv'
<1>. SUFFICES ASSUME MarkInv, [Next]_vars PROVE MarkIsTrue'
  BY TypeNext DEF MarkInv
<1>t. /\ used \in Counts
      /\ used.unstamped \in Nat /\ used.restores \in Nat
  BY TypeParts, SleepAssumption DEF MarkInv, Counts
<1>1. ASSUME UNCHANGED <<doneMark, sinceDone>>,
             UNCHANGED used \/ Spend("forced", MaxForced) \/ Spend("raises", MaxRaises)
                            \/ Spend("crashes", MaxCrashes)
      PROVE  MarkIsTrue'
  <2>1. used'.unstamped \in Nat /\ used'.restores \in Nat
    BY TypeNext, SleepAssumption DEF MarkInv, TypeOK
  <2>2. used'.unstamped >= used.unstamped /\ used'.restores >= used.restores
    BY <1>1, <1>t, Spending
  <2>. QED
    BY <1>1, <1>t, <2>1, <2>2 DEF MarkInv, MarkIsTrue
<1>2. ASSUME NEW w \in Workers, Stamp(w)
      PROVE  MarkIsTrue'
  <2>1. CASE doneMark' = 0 /\ UNCHANGED used
    BY <1>2, <2>1 DEF Stamp, MarkIsTrue
  <2>2. CASE Spend("unstamped", MaxUnstamped)
    <3>1. used'.unstamped > 0 /\ used'.restores >= used.restores /\ used' \in Counts
      BY <1>t, <2>2, Spending
    <3>2. used'.unstamped \in Nat /\ used'.restores \in Nat
      BY <3>1, SleepAssumption DEF Counts
    <3>. QED
      BY <3>1, <3>2 DEF MarkIsTrue
  <2>. QED
    BY <1>2, <2>1, <2>2 DEF Stamp
<1>3. ASSUME Restore
      PROVE  MarkIsTrue'
  <2>1. used'.restores > 0 /\ used' \in Counts
    BY <1>t, <1>3, Spending DEF Restore
  <2>2. used'.unstamped \in Nat /\ used'.restores \in Nat
    BY <2>1, SleepAssumption DEF Counts
  <2>. QED
    BY <2>1, <2>2 DEF MarkIsTrue
<1>4. ASSUME TimePasses
      PROVE  MarkIsTrue'
  BY <1>4 DEF TimePasses, MarkInv, MarkIsTrue
<1>5. ASSUME UNCHANGED vars
      PROVE  MarkIsTrue'
  BY <1>5, <1>1 DEF vars, marks
<1>6. ASSUME NEW s \in Sessions, CheckDue(s) \/ Emit(s) \/ MarkQueued(s)
      PROVE  MarkIsTrue'
  BY <1>6, <1>1 DEF CheckDue, Emit, MarkQueued, marks
<1>7. ASSUME NEW w \in Workers,
             (\E s \in Sessions : StartPass(w, s) \/ Coalesce(w, s)) \/ StartForced(w)
      PROVE  MarkIsTrue'
  BY <1>7, <1>1 DEF StartPass, Coalesce, StartForced, marks
<1>8. ASSUME NEW w \in Workers,
             LegacyPasses(w) \/ Promote(w) \/ ListMemories(w) \/ WriteIndex(w)
             \/ Settle(w) \/ Crash(w)
      PROVE  MarkIsTrue'
  BY <1>8, <1>1 DEF LegacyPasses, Promote, ListMemories, WriteIndex, Settle, Crash, marks
<1>. QED
  BY <1>2, <1>3, <1>4, <1>5, <1>6, <1>7, <1>8 DEF Next, WorkerStep

\* A step that takes a worker into a chain of passes starts it.
LEMMA OnlyStartsEnter ==
    ASSUME TypeOK, Next, NEW w \in Workers, ~InPass(w), InPass(w)'
    PROVE  (\E s \in Sessions : StartPass(w, s)) \/ StartForced(w)
<1>t. worker \in [Workers -> Locals]
  BY TypeParts
<1>1. ASSUME UNCHANGED worker
      PROVE  FALSE
  BY <1>1 DEF InPass
<1>2. ASSUME NEW u \in Workers, NEW r, Go(u, r), InPass(u) \/ r.step = "idle"
      PROVE  FALSE
  <2>1. worker'[u] = r /\ \A v \in Workers \ {u} : worker'[v] = worker[v]
    BY <1>t, <1>2 DEF Go
  <2>2. CASE u = w
    BY <1>2, <2>1, <2>2 DEF InPass
  <2>3. CASE u # w
    BY <2>1, <2>3 DEF InPass
  <2>. QED
    BY <2>2, <2>3
<1>3. ASSUME NEW u \in Workers, u # w, NEW job \in Sessions \cup {NoJob},
             NEW forced \in BOOLEAN, Begin(u, job, forced)
      PROVE  FALSE
  BY <1>t, <1>3, Beginning DEF InPass
<1>4. ASSUME NEW u \in Workers,
             LegacyPasses(u) \/ Promote(u) \/ ListMemories(u) \/ WriteIndex(u) \/ Stamp(u)
             \/ Settle(u) \/ Crash(u)
      PROVE  FALSE
  <2>1. CASE Settle(u) \/ Crash(u)
    BY <1>2, <2>1, IdleLocals DEF Settle, Crash
  <2>2. CASE LegacyPasses(u) \/ Promote(u) \/ ListMemories(u) \/ WriteIndex(u) \/ Stamp(u)
    <3>1. InPass(u)
      BY <2>2 DEF LegacyPasses, Promote, ListMemories, WriteIndex, Stamp, At, InPass
    <3>2. \E r : Go(u, r)
      BY <2>2 DEF LegacyPasses, Promote, ListMemories, WriteIndex, Stamp
    <3>. QED
      BY <1>2, <3>1, <3>2
  <2>. QED
    BY <1>4, <2>1, <2>2
<1>5. ASSUME NEW u \in Workers, NEW s \in Sessions, Coalesce(u, s)
      PROVE  FALSE
  BY <1>5, <1>1 DEF Coalesce
<1>6. ASSUME NEW s \in Sessions, CheckDue(s) \/ Emit(s) \/ MarkQueued(s)
      PROVE  FALSE
  BY <1>6, <1>1 DEF CheckDue, Emit, MarkQueued
<1>7. ASSUME Restore \/ TimePasses
      PROVE  FALSE
  BY <1>7, <1>1 DEF Restore, TimePasses
<1>8. ASSUME NEW u \in Workers, NEW s \in Sessions, StartPass(u, s)
      PROVE  u = w
  BY <1>8, <1>3 DEF StartPass
<1>9. ASSUME NEW u \in Workers, StartForced(u)
      PROVE  u = w
  BY <1>9, <1>3 DEF StartForced
<1>. QED
  BY <1>4, <1>5, <1>6, <1>7, <1>8, <1>9 DEF Next, WorkerStep

LEMMA EntersRested ==
    ASSUME MarkInv, Next, NEW w \in Workers, ~InPass(w), InPass(w)', ~worker'[w].forced
    PROVE  sinceDone >= Window \/ used.unstamped + used.restores > 0
<1>t. /\ worker \in [Workers -> Locals]
      /\ used.unstamped \in Nat /\ used.restores \in Nat
      /\ doneMark \in Ages \cup {FarFuture} /\ sinceDone \in Ages
      /\ Ages \subseteq Nat /\ Window \in Nat
  BY TypeParts, SleepAssumption DEF MarkInv, Counts, Ages
<1>1. CASE StartForced(w)
  <2>1. worker'[w].forced = TRUE
    BY <1>t, <1>1, Beginning DEF StartForced
  <2>. QED
    BY <2>1
<1>2. CASE \E s \in Sessions : StartPass(w, s)
  <2>1. doneMark \notin 0..(Window - 1)
    BY <1>2 DEF StartPass, RecentlyDone
  <2>2. CASE used.unstamped + used.restores = 0
    <3>1. doneMark = sinceDone
      BY <2>2 DEF MarkInv, MarkIsTrue
    <3>. QED
      BY <1>t, <2>1, <3>1
  <2>3. CASE used.unstamped + used.restores # 0
    BY <1>t, <2>3
  <2>. QED
    BY <2>2, <2>3
<1>. QED
  BY <1>1, <1>2, OnlyStartsEnter DEF MarkInv

\* However many consolidate jobs pile up, are retried after a raise, or are picked
\* up by several workers: one that starts the heavy chain starts it a whole window
\* after the last chain ended (_consolidate_recently_done).
THEOREM JobsCoalesce == Spec => Coalesced
<1>1. MarkInv /\ [Next]_vars =>
        [\A w \in Workers :
           ~InPass(w) /\ InPass(w)' /\ ~worker'[w].forced
             => sinceDone >= Window \/ used.unstamped + used.restores > 0]_vars
  BY EntersRested
<1>. QED
  BY <1>1, MarkInit, MarkNext, PTL DEF Spec, Coalesced
=============================================================================
