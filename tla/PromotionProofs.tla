-------------------------- MODULE PromotionProofs --------------------------
(***************************************************************************)
(* The promotion lane, proved for every set of sessions and observations   *)
(* and every value of the gates: first what holds however many passes      *)
(* overlap with a curator and wherever one of them is killed, then what    *)
(* holds while passes do not overlap each other.                           *)
(***************************************************************************)
EXTENDS Promotion, FiniteSetTheorems, WellFoundedInduction, TLAPS

-----------------------------------------------------------------------------
(* The types the proofs use: TypeOK, with the files as functions. *)

PassSteps   == {"idle", "scan", "write", "accept", "graduate", "commit", "archive", "announce"}
Clusterings == UNION {[S -> Cluster] : S \in SUBSET Sessions}
MemoryText  == [ids : SUBSET Obs, from : Names]
Counts      == [reviews : 0..MaxReviews, crashes : 0..MaxCrashes]

PassLocals == [step : PassSteps, clusters : Clusterings, todo : SUBSET Names,
               file : Names \cup {NULL}, meta : Cluster, target : Memories \cup {NULL}]

CuratorLocals == [step : {"idle", "suggest", "write", "mark", "move"},
                  verdict : {"none", "accept", "reject"}, dir : {"none", "queue", "auto"},
                  file : Names \cup {NULL}, meta : Cluster]

Filed(dir) == DOMAIN dir \subseteq Names /\ \A f \in DOMAIN dir : dir[f] \in Cluster

\* A pass that took a file from the queue has it in hand, and a name for its memory.
Graduating == {"graduate", "commit", "archive", "announce"}

DbTyped    == refs \in [Obs -> 0..MaxRefs] /\ resolved \in [Obs -> {NULL, REJECTED} \cup Memories]
FilesTyped == Filed(queue) /\ Filed(auto) /\ accepted \subseteq Names /\ refused \subseteq Names
MemoryTyped ==
    /\ DOMAIN memory \subseteq Memories
    /\ \A m \in DOMAIN memory : memory[m] \in MemoryText
    /\ announced \subseteq DOMAIN memory
CountsTyped ==
    /\ clock \in 0..MaxClock /\ used \in Counts
    /\ torn \in Nat /\ torn <= used.crashes
PassesTyped ==
    /\ pass \in [Passes -> PassLocals]
    /\ \A p \in Passes : pass[p].step \in Graduating =>
          pass[p].file \in Names /\ pass[p].target \in Memories
    /\ \A p \in Passes : pass[p].step \in Graduating \ {"graduate"} =>
          pass[p].target \in DOMAIN memory
CuratorTyped ==
    /\ curator \in CuratorLocals
    /\ curator.step # "idle" => curator.file \in Names

Typed == DbTyped /\ FilesTyped /\ MemoryTyped /\ CountsTyped /\ PassesTyped /\ CuratorTyped

-----------------------------------------------------------------------------
(* What the helpers return. *)

LEMMA NamesDiffer ==
    /\ NULL \notin Memories /\ REJECTED \notin Memories /\ REJECTED # NULL
    /\ \A m \in Memories : m # NULL /\ m # REJECTED
  BY DEF NULL, REJECTED, Memories

LEMMA NoClusters == << >> \in Clusterings /\ DOMAIN << >> = {}
  BY DEF Clusterings

LEMMA Restricting ==
    ASSUME NEW c \in Clusterings, NEW S
    PROVE  /\ Restrict(c, DOMAIN c \ S) \in Clusterings
           /\ DOMAIN Restrict(c, DOMAIN c \ S) = DOMAIN c \ S
           /\ \A s \in DOMAIN c \ S : Restrict(c, DOMAIN c \ S)[s] = c[s]
<1>. DEFINE T == DOMAIN c \ S
            r == [s \in T |-> c[s]]
<1>1. DOMAIN c \in SUBSET Sessions /\ \A s \in DOMAIN c : c[s] \in Cluster
  BY DEF Clusterings
<1>2. r \in [T -> Cluster] /\ T \in SUBSET Sessions
  BY <1>1
<1>3. r \in Clusterings
  <2>. HIDE DEF r, T
  <2>. QED
    BY <1>2 DEF Clusterings
<1>. QED
  BY <1>3 DEF Restrict

LEMMA Idles ==
    /\ NoCluster \in Cluster
    /\ NoPass \in PassLocals /\ NoPass.step = "idle" /\ NoPass.clusters = << >>
    /\ NoCommand \in CuratorLocals /\ NoCommand.step = "idle"
  BY NoClusters DEF NoCluster, Cluster, NoPass, PassLocals, PassSteps, NoCommand, CuratorLocals

LEMMA LeastOf ==
    ASSUME NEW S \in SUBSET Nat, S # {}
    PROVE  Min(S) \in S
<1>. DEFINE R == OpToRel(<, Nat)
<1>1. \A x, y \in Nat : x < y => <<x, y>> \in R
  BY DEF OpToRel
<1>2. IsWellFoundedOn(R, Nat)
  BY NatLessThanWellFounded
<1>. HIDE DEF R
<1>3. PICK x \in S : \A y \in S : ~(<<y, x>> \in R)
  BY <1>2, WFMin
<1>4. \A y \in S : ~(y < x)
  BY <1>1, <1>3
<1>5. \A y \in S : x <= y
  BY <1>4
<1>. QED
  BY <1>5 DEF Min

\* The name _uniquify returns is free.
LEMMA UniquifyIsFree ==
    ASSUME NEW t \in Topics, FreeSuffixes(t) # {}
    PROVE  /\ Uniquify(t) \in Memories
           /\ Uniquify(t) \notin DOMAIN memory
           /\ Uniquify(t)[1] = "observer"
<1>1. Min(FreeSuffixes(t)) \in FreeSuffixes(t)
  <2>1. FreeSuffixes(t) \in SUBSET Nat
    BY DEF FreeSuffixes
  <2>. QED
    BY <2>1, LeastOf
<1>2. PICK n \in FreeSuffixes(t) : n = Min(FreeSuffixes(t))
  BY <1>1
<1>. QED
  BY <1>2 DEF Uniquify, FreeSuffixes, Memories

LEMMA TopicOfName ==
    ASSUME NEW f \in Names
    PROVE  /\ f[2] \in Sessions /\ Topic[f[2]] \in Topics /\ f[1] \in 0..MaxClock
           /\ Recommended(f) \in Memories /\ Recommended(f)[1] = "observer_promoted"
  BY PromotionAssumption DEF Names, Topics, Range, Recommended, Memories

LEMMA ObsAreFinite ==
    ASSUME NEW ids \in SUBSET Obs
    PROVE  IsFiniteSet(ids) /\ Cardinality(ids) \in Nat /\ Cardinality(References(ids)) \in Nat
<1>1. IsFiniteSet(ids) /\ Cardinality(ids) \in Nat
  BY PromotionAssumption, FS_Subset, FS_CardinalityType
<1>2. IsFiniteSet(1..MaxRefs)
  BY PromotionAssumption, FS_Interval
<1>3. IsFiniteSet(ids \X (1..MaxRefs))
  BY <1>1, <1>2, FS_Product
<1>4. IsFiniteSet(References(ids))
  <2>1. References(ids) \subseteq ids \X (1..MaxRefs)
    BY DEF References
  <2>. QED
    BY <1>3, <2>1, FS_Subset
<1>. QED
  BY <1>1, <1>4, FS_CardinalityType

LEMMA ScoreInRange ==
    ASSUME NEW ids \in SUBSET Obs
    PROVE  Score(ids) \in 0..20
  BY ObsAreFinite DEF Score

\* The clusters find_candidates returns are about their sessions, unresolved, not empty.
LEMMA FoundCandidates ==
    ASSUME NEW threshold
    PROVE  /\ find_candidates(threshold) \in Clusterings
           /\ \A s \in DOMAIN find_candidates(threshold) :
                find_candidates(threshold)[s].ids = Eligible(s, threshold)
           /\ \A s \in DOMAIN find_candidates(threshold) : Eligible(s, threshold) # {}
<1>. DEFINE big == {s \in Sessions : Cardinality(Eligible(s, threshold)) >= MinPerSession}
            c(s) == [ids |-> Eligible(s, threshold), score |-> Score(Eligible(s, threshold))]
<1>1. \A s \in big : c(s) \in Cluster
  <2>. SUFFICES ASSUME NEW s \in big PROVE c(s) \in Cluster
    OBVIOUS
  <2>1. Eligible(s, threshold) \in SUBSET Obs
    BY DEF Eligible
  <2>2. Score(Eligible(s, threshold)) \in 0..20
    BY <2>1, ScoreInRange
  <2>. QED
    BY <2>1, <2>2 DEF Cluster
<1>2. find_candidates(threshold) = [s \in big |-> c(s)]
  BY DEF find_candidates
<1>3. \A s \in big : Eligible(s, threshold) # {}
  BY FS_EmptySet, PromotionAssumption
<1>4. big \in SUBSET Sessions
  OBVIOUS
<1>5. [s \in big |-> c(s)] \in [big -> Cluster]
  BY <1>1
<1>6. find_candidates(threshold) \in Clusterings
  <2>. HIDE DEF big, c
  <2>. QED
    BY <1>2, <1>4, <1>5 DEF Clusterings
<1>. QED
  BY <1>2, <1>3, <1>6

-----------------------------------------------------------------------------
(* Type correctness. *)

LEMMA TypedInit == Init => Typed
<1>. SUFFICES ASSUME Init PROVE Typed
  OBVIOUS
<1>1. DbTyped /\ FilesTyped /\ MemoryTyped /\ CountsTyped
  BY PromotionAssumption, NoClusters
  DEF Init, DbTyped, FilesTyped, Filed, MemoryTyped, CountsTyped, Counts
<1>2. PassesTyped /\ CuratorTyped
  BY Idles DEF Init, PassesTyped, CuratorTyped, Graduating
<1>. QED
  BY <1>1, <1>2 DEF Typed

OthersStay(p) == \A q \in Passes \ {p} : pass'[q] = pass[q]

\* What a pass is after its step, and whichever other fields, changed.
LEMMA PassGoes ==
    ASSUME PassesTyped, NEW p \in Passes,
           NEW st \in PassSteps,
           pass' = [pass EXCEPT ![p].step = st]
    PROVE  /\ pass' \in [Passes -> PassLocals] /\ OthersStay(p)
           /\ pass'[p].step = st
           /\ pass'[p].clusters = pass[p].clusters
           /\ pass'[p].todo = pass[p].todo
           /\ pass'[p].file = pass[p].file
           /\ pass'[p].meta = pass[p].meta
           /\ pass'[p].target = pass[p].target
  BY DEF PassesTyped, PassLocals, OthersStay

\* With new clusters.
LEMMA PassFinds ==
    ASSUME PassesTyped, NEW p \in Passes,
           NEW st \in PassSteps, NEW c \in Clusterings,
           pass' = [pass EXCEPT ![p].step = st, ![p].clusters = c]
    PROVE  /\ pass' \in [Passes -> PassLocals] /\ OthersStay(p)
           /\ pass'[p].step = st
           /\ pass'[p].clusters = c
           /\ pass'[p].todo = pass[p].todo
           /\ pass'[p].file = pass[p].file
           /\ pass'[p].meta = pass[p].meta
           /\ pass'[p].target = pass[p].target
  BY DEF PassesTyped, PassLocals, OthersStay

\* With other clusters, in the same step.
LEMMA PassDrops ==
    ASSUME PassesTyped, NEW p \in Passes,
           NEW c \in Clusterings,
           pass' = [pass EXCEPT ![p].clusters = c]
    PROVE  /\ pass' \in [Passes -> PassLocals] /\ OthersStay(p)
           /\ pass'[p].step = pass[p].step
           /\ pass'[p].clusters = c
           /\ pass'[p].todo = pass[p].todo
           /\ pass'[p].file = pass[p].file
           /\ pass'[p].meta = pass[p].meta
           /\ pass'[p].target = pass[p].target
  BY DEF PassesTyped, PassLocals, OthersStay

\* With a list to go through.
LEMMA PassLists ==
    ASSUME PassesTyped, NEW p \in Passes,
           NEW st \in PassSteps, NEW l \in SUBSET Names,
           pass' = [pass EXCEPT ![p].step = st, ![p].todo = l]
    PROVE  /\ pass' \in [Passes -> PassLocals] /\ OthersStay(p)
           /\ pass'[p].step = st
           /\ pass'[p].clusters = pass[p].clusters
           /\ pass'[p].todo = l
           /\ pass'[p].file = pass[p].file
           /\ pass'[p].meta = pass[p].meta
           /\ pass'[p].target = pass[p].target
  BY DEF PassesTyped, PassLocals, OthersStay

\* With a shorter list.
LEMMA PassSkips ==
    ASSUME PassesTyped, NEW p \in Passes,
           NEW l \in SUBSET Names,
           pass' = [pass EXCEPT ![p].todo = l]
    PROVE  /\ pass' \in [Passes -> PassLocals] /\ OthersStay(p)
           /\ pass'[p].step = pass[p].step
           /\ pass'[p].clusters = pass[p].clusters
           /\ pass'[p].todo = l
           /\ pass'[p].file = pass[p].file
           /\ pass'[p].meta = pass[p].meta
           /\ pass'[p].target = pass[p].target
  BY DEF PassesTyped, PassLocals, OthersStay

\* With a file in hand.
LEMMA PassTakes ==
    ASSUME PassesTyped, NEW p \in Passes, NEW st \in PassSteps, NEW l \in SUBSET Names,
           NEW f \in Names, NEW m \in Cluster, NEW t \in Memories,
           pass' = [pass EXCEPT ![p] =
                     [step |-> st, clusters |-> @.clusters, todo |-> l, file |-> f,
                      meta |-> m, target |-> t]]
    PROVE  /\ pass' \in [Passes -> PassLocals] /\ OthersStay(p)
           /\ pass'[p].step = st /\ pass'[p].clusters = pass[p].clusters
           /\ pass'[p].todo = l /\ pass'[p].file = f /\ pass'[p].meta = m
           /\ pass'[p].target = t
  BY DEF PassesTyped, PassLocals, OthersStay

\* With nothing any more.
LEMMA PassEnds ==
    ASSUME PassesTyped, NEW p \in Passes, pass' = [pass EXCEPT ![p] = NoPass]
    PROVE  /\ pass' \in [Passes -> PassLocals] /\ OthersStay(p)
           /\ pass'[p] = NoPass /\ pass'[p].step = "idle"
  BY Idles DEF PassesTyped, OthersStay

LEMMA PutFiled ==
    ASSUME NEW d, Filed(d), NEW name \in Names, NEW value \in Cluster
    PROVE  Filed(Put(d, name, value))
  BY DEF Filed, Put

LEMMA RemoveFiled ==
    ASSUME NEW d, Filed(d), NEW name
    PROVE  Filed(Without(d, name))
  BY DEF Filed, Without, Restrict

LEMMA PutMemory ==
    ASSUME MemoryTyped, NEW m \in Memories, NEW text \in MemoryText,
           memory' = Put(memory, m, text), UNCHANGED announced
    PROVE  MemoryTyped' /\ DOMAIN memory' = DOMAIN memory \cup {m}
  BY DEF MemoryTyped, Put

LEMMA TypedNext == Typed /\ [Next]_vars => Typed'
<1>. SUFFICES ASSUME Typed, [Next]_vars PROVE Typed'
  OBVIOUS
<1>. USE DEF Typed
<1>n. clock \in 0..MaxClock /\ \A s \in Sessions : <<clock, s>> \in Names
  BY DEF CountsTyped, Names
<1>1. ASSUME UNCHANGED vars
      PROVE  Typed'
  BY <1>1 DEF vars, db, files, DbTyped, FilesTyped, Filed, MemoryTyped, CountsTyped,
              PassesTyped, CuratorTyped
<1>2. ASSUME NEW p \in Passes, FindClusters(p)
      PROVE  Typed'
  <2>1. PassesTyped'
    <3>1. find_candidates(RefThreshold) \in Clusterings /\ "scan" \in PassSteps
      BY FoundCandidates DEF PassSteps
    <3>2. pass' \in [Passes -> PassLocals] /\ OthersStay(p) /\ pass'[p].step = "scan"
      BY <1>2, <3>1, PassFinds DEF FindClusters
    <3>. QED
      BY <1>2, <3>2 DEF FindClusters, PassesTyped, Graduating, OthersStay
  <2>. QED
    BY <1>2, <2>1 DEF FindClusters, DbTyped, db, FilesTyped, Filed, files, MemoryTyped, CountsTyped, CuratorTyped
<1>3. ASSUME NEW p \in Passes, ScanPending(p)
      PROVE  Typed'
  <2>1. PassesTyped'
    <3>. DEFINE c == Restrict(pass[p].clusters, DOMAIN pass[p].clusters \ PendingSessions)
    <3>1. c \in Clusterings /\ "write" \in PassSteps
      BY Restricting DEF PassSteps, PassesTyped, PassLocals
    <3>2. pass' = [pass EXCEPT ![p].step = "write", ![p].clusters = c]
      BY <1>3 DEF ScanPending
    <3>. HIDE DEF c
    <3>3. pass' \in [Passes -> PassLocals] /\ OthersStay(p) /\ pass'[p].step = "write"
      BY <3>1, <3>2, PassFinds
    <3>. QED
      BY <1>3, <3>3 DEF ScanPending, PassesTyped, Graduating, OthersStay
  <2>. QED
    BY <1>3, <2>1 DEF ScanPending, DbTyped, db, FilesTyped, Filed, files, MemoryTyped, CountsTyped, CuratorTyped
<1>4. ASSUME NEW p \in Passes, NEW s \in Sessions, write_candidate(p, s)
      PROVE  Typed'
  <2>1. PassesTyped'
    <3>. DEFINE c == Without(pass[p].clusters, s)
    <3>1. c \in Clusterings
      BY Restricting DEF Without, PassesTyped, PassLocals
    <3>2. pass' = [pass EXCEPT ![p].clusters = c]
      BY <1>4 DEF write_candidate
    <3>. HIDE DEF c
    <3>3. pass' \in [Passes -> PassLocals] /\ OthersStay(p) /\ pass'[p].step = "write"
      BY <1>4, <3>1, <3>2, PassDrops DEF write_candidate
    <3>. QED
      BY <1>4, <3>3 DEF write_candidate, PassesTyped, Graduating, OthersStay
  <2>2. Filed(queue)'
    <3>1. pass[p].clusters[s] \in Cluster
      BY <1>4 DEF write_candidate, PassesTyped, PassLocals, Clusterings
    <3>. QED
      BY <1>4, <1>n, <3>1, PutFiled DEF write_candidate, FilesTyped
  <2>. QED
    BY <1>4, <2>1, <2>2 DEF write_candidate, DbTyped, db, FilesTyped, Filed, files, MemoryTyped, CountsTyped, CuratorTyped
<1>5. ASSUME NEW p \in Passes, ListQueue(p)
      PROVE  Typed'
  <2>1. PassesTyped'
    <3>1. DOMAIN queue \in SUBSET Names /\ "accept" \in PassSteps
      BY DEF PassSteps, FilesTyped, Filed
    <3>2. pass' \in [Passes -> PassLocals] /\ OthersStay(p) /\ pass'[p].step = "accept"
      BY <1>5, <3>1, PassLists DEF ListQueue
    <3>. QED
      BY <1>5, <3>2 DEF ListQueue, PassesTyped, Graduating, OthersStay
  <2>. QED
    BY <1>5, <2>1 DEF ListQueue, DbTyped, db, FilesTyped, Filed, files, MemoryTyped, CountsTyped, CuratorTyped
<1>6. ASSUME NEW p \in Passes, NEW f \in pass[p].todo, Skip(p, f)
      PROVE  Typed'
  <2>1. PassesTyped'
    <3>1. pass[p].todo \ {f} \in SUBSET Names
      BY DEF PassesTyped, PassLocals
    <3>2. pass' \in [Passes -> PassLocals] /\ OthersStay(p) /\ pass'[p].step = "accept"
      BY <1>6, <3>1, PassSkips DEF Skip
    <3>. QED
      BY <1>6, <3>2 DEF Skip, PassesTyped, Graduating, OthersStay
  <2>. QED
    BY <1>6, <2>1 DEF Skip, DbTyped, db, FilesTyped, Filed, files, MemoryTyped, CountsTyped, CuratorTyped
<1>7. ASSUME NEW p \in Passes, NEW f \in pass[p].todo, Consider(p, f)
      PROVE  Typed'
  <2>1. PassesTyped'
    <3>1. pass[p].todo \ {f} \in SUBSET Names /\ f \in Names /\ "graduate" \in PassSteps
      BY DEF PassesTyped, PassLocals, PassSteps
    <3>2. queue[f] \in Cluster
      BY <1>7 DEF Consider, FilesTyped, Filed
    <3>3. Uniquify(Topic[f[2]]) \in Memories
      BY <1>7, <3>1, TopicOfName, UniquifyIsFree DEF Consider
    <3>4. /\ pass' \in [Passes -> PassLocals] /\ OthersStay(p)
          /\ pass'[p].step = "graduate" /\ pass'[p].file = f
          /\ pass'[p].target = Uniquify(Topic[f[2]])
      <4>1. pass' = [pass EXCEPT ![p] =
                      [step |-> "graduate", clusters |-> @.clusters, todo |-> pass[p].todo \ {f},
                       file |-> f, meta |-> queue[f], target |-> Uniquify(Topic[f[2]])]]
        BY <1>7 DEF Consider
      <4>. QED
        BY <3>1, <3>2, <3>3, <4>1, PassTakes
    <3>. QED
      BY <1>7, <3>1, <3>3, <3>4 DEF Consider, PassesTyped, Graduating, OthersStay
  <2>. QED
    BY <1>7, <2>1 DEF Consider, DbTyped, db, FilesTyped, Filed, files, MemoryTyped, CountsTyped, CuratorTyped
<1>8. ASSUME NEW p \in Passes, WriteMemory(p)
      PROVE  Typed'
  <2>1. pass[p].file \in Names /\ pass[p].target \in Memories /\ pass[p].meta \in Cluster
    BY <1>8 DEF WriteMemory, PassesTyped, PassLocals, Graduating
  <2>2. MemoryTyped' /\ DOMAIN memory' = DOMAIN memory \cup {pass[p].target}
    <3>. DEFINE text == [ids |-> pass[p].meta.ids, from |-> pass[p].file]
    <3>1. text \in MemoryText
      BY <2>1 DEF MemoryText, Cluster
    <3>2. memory' = Put(memory, pass[p].target, text)
      BY <1>8 DEF WriteMemory
    <3>. HIDE DEF text
    <3>. QED
      BY <1>8, <2>1, <3>1, <3>2, PutMemory DEF WriteMemory
  <2>3. PassesTyped'
    <3>1. "commit" \in PassSteps
      BY DEF PassSteps
    <3>2. /\ pass' \in [Passes -> PassLocals] /\ OthersStay(p) /\ pass'[p].step = "commit"
          /\ pass'[p].file = pass[p].file /\ pass'[p].target = pass[p].target
      BY <1>8, <3>1, PassGoes DEF WriteMemory, Goto
    <3>. QED
      BY <1>8, <2>1, <2>2, <3>2 DEF WriteMemory, PassesTyped, Graduating, OthersStay
  <2>. QED
    BY <1>8, <2>2, <2>3 DEF WriteMemory, DbTyped, db, FilesTyped, Filed, files, CountsTyped, CuratorTyped
<1>9. ASSUME NEW p \in Passes, CommitRows(p)
      PROVE  Typed'
  <2>1. pass[p].target \in Memories /\ pass[p].target \in DOMAIN memory
    BY <1>9 DEF CommitRows, PassesTyped, Graduating
  <2>2. DbTyped'
    BY <1>9, <2>1 DEF CommitRows, DbTyped, Resolve
  <2>3. PassesTyped'
    <3>1. "archive" \in PassSteps
      BY DEF PassSteps
    <3>2. /\ pass' \in [Passes -> PassLocals] /\ OthersStay(p) /\ pass'[p].step = "archive"
          /\ pass'[p].file = pass[p].file /\ pass'[p].target = pass[p].target
      BY <1>9, <3>1, PassGoes DEF CommitRows, Goto
    <3>. QED
      BY <1>9, <2>1, <3>2 DEF CommitRows, PassesTyped, Graduating, OthersStay
  <2>. QED
    BY <1>9, <2>2, <2>3 DEF CommitRows, FilesTyped, Filed, files, MemoryTyped, CountsTyped, CuratorTyped
<1>10. ASSUME NEW p \in Passes, Archive(p)
      PROVE  Typed'
  <2>1. pass[p].file \in Names /\ pass[p].target \in DOMAIN memory
    BY <1>10 DEF Archive, PassesTyped, Graduating
  <2>2. FilesTyped'
    <3>1. Filed(Without(queue, pass[p].file))
      BY RemoveFiled DEF FilesTyped
    <3>. QED
      BY <1>10, <2>1, <3>1 DEF Archive, FilesTyped, Filed
  <2>3. PassesTyped'
    <3>1. "announce" \in PassSteps /\ "accept" \in PassSteps
      BY DEF PassSteps
    <3>2. UNCHANGED memory /\ (Goto(p, "announce") \/ Goto(p, "accept"))
      BY <1>10 DEF Archive
    <3>3. PICK st \in {"announce", "accept"} : Goto(p, st)
      BY <3>2
    <3>4. /\ pass' \in [Passes -> PassLocals] /\ OthersStay(p) /\ pass'[p].step = st
          /\ pass'[p].file = pass[p].file /\ pass'[p].target = pass[p].target
      BY <3>1, <3>3, PassGoes DEF Goto
    <3>5. pass[p].target \in Memories
      BY <1>10 DEF Archive, PassesTyped, Graduating
    <3>. QED
      BY <2>1, <3>2, <3>4, <3>5 DEF PassesTyped, Graduating, OthersStay
  <2>. QED
    BY <1>10, <2>2, <2>3 DEF Archive, DbTyped, db, MemoryTyped, CountsTyped, CuratorTyped
<1>11. ASSUME NEW p \in Passes, EmitReindex(p)
      PROVE  Typed'
  <2>1. pass[p].target \in DOMAIN memory
    BY <1>11 DEF EmitReindex, PassesTyped, Graduating
  <2>2. MemoryTyped'
    BY <1>11, <2>1 DEF EmitReindex, MemoryTyped
  <2>3. PassesTyped'
    <3>1. "accept" \in PassSteps
      BY DEF PassSteps
    <3>. QED
      BY <1>11, <3>1, PassGoes DEF EmitReindex, Goto, PassesTyped, Graduating, OthersStay
  <2>. QED
    BY <1>11, <2>2, <2>3 DEF EmitReindex, DbTyped, db, FilesTyped, Filed, files, CountsTyped, CuratorTyped
<1>12. ASSUME NEW p \in Passes, EndPass(p)
      PROVE  Typed'
  <2>1. PassesTyped'
    BY <1>12, PassEnds DEF EndPass, PassesTyped, Graduating, OthersStay
  <2>. QED
    BY <1>12, <2>1 DEF EndPass, DbTyped, db, FilesTyped, Filed, files, MemoryTyped, CountsTyped, CuratorTyped
<1>13. ASSUME NEW p \in Passes, KillPass(p)
      PROVE  Typed'
  <2>1. PassesTyped'
    BY <1>13, PassEnds DEF KillPass, PassesTyped, Graduating, OthersStay
  <2>2. CountsTyped'
    BY <1>13, PromotionAssumption DEF KillPass, CountsTyped, Counts
  <2>. QED
    BY <1>13, <2>1, <2>2 DEF KillPass, DbTyped, db, FilesTyped, Filed, files, MemoryTyped, CuratorTyped
<1>14. ASSUME NEW f \in DOMAIN queue \cup DOMAIN auto, NEW v \in {"accept", "reject"}, OpenCandidate(f, v)
      PROVE  Typed'
  <2>1. f \in Names /\ FileAt(f) \in Cluster /\ DirOf(f) \in {"queue", "auto"}
    BY DEF FilesTyped, Filed, FileAt, DirOf
  <2>2. CuratorTyped'
    BY <1>14, <2>1 DEF OpenCandidate, CuratorTyped, CuratorLocals
  <2>3. CountsTyped'
    BY <1>14, PromotionAssumption DEF OpenCandidate, MayReview, CountsTyped, Counts
  <2>. QED
    BY <1>14, <2>2, <2>3 DEF OpenCandidate, DbTyped, db, FilesTyped, Filed, files, MemoryTyped, PassesTyped
<1>15. ASSUME CuratorWrites
      PROVE  Typed'
  <2>1. curator.file \in Names /\ curator.meta \in Cluster /\ curator \in CuratorLocals
    BY <1>15 DEF CuratorWrites, CuratorTyped, CuratorLocals
  <2>2. MemoryTyped' /\ DOMAIN memory \subseteq DOMAIN memory'
    <3>. DEFINE text == [ids |-> curator.meta.ids, from |-> curator.file]
    <3>1. text \in MemoryText
      BY <2>1 DEF MemoryText, Cluster
    <3>2. memory' = Put(memory, Recommended(curator.file), text)
      BY <1>15 DEF CuratorWrites
    <3>3. Recommended(curator.file) \in Memories
      BY <2>1, TopicOfName
    <3>. HIDE DEF text
    <3>. QED
      BY <1>15, <3>1, <3>2, <3>3, PutMemory DEF CuratorWrites
  <2>3. CuratorTyped'
    BY <1>15, <2>1 DEF CuratorWrites, CuratorTyped, CuratorLocals
  <2>4. PassesTyped'
    BY <1>15, <2>2 DEF CuratorWrites, PassesTyped
  <2>. QED
    BY <1>15, <2>2, <2>3, <2>4 DEF CuratorWrites, DbTyped, db, FilesTyped, Filed, files, CountsTyped
<1>16. ASSUME CuratorMarks
      PROVE  Typed'
  <2>1. curator.file \in Names /\ curator \in CuratorLocals
    BY <1>16 DEF CuratorMarks, CuratorTyped
  <2>2. DbTyped'
    BY <1>16, <2>1, TopicOfName DEF CuratorMarks, DbTyped, Resolve
  <2>3. CuratorTyped'
    BY <1>16, <2>1 DEF CuratorMarks, CuratorTyped, CuratorLocals
  <2>. QED
    BY <1>16, <2>2, <2>3 DEF CuratorMarks, FilesTyped, Filed, files, MemoryTyped, CountsTyped, PassesTyped
<1>17. ASSUME CuratorMoves
      PROVE  Typed'
  <2>1. curator.file \in Names
    BY <1>17 DEF CuratorMoves, CuratorTyped
  <2>2. FilesTyped'
    <3>1. Filed(Without(queue, curator.file)) /\ Filed(Without(auto, curator.file))
      BY RemoveFiled DEF FilesTyped
    <3>. QED
      BY <1>17, <2>1, <3>1 DEF CuratorMoves, FilesTyped, Filed
  <2>3. CuratorTyped'
    BY <1>17, Idles DEF CuratorMoves, CuratorTyped
  <2>. QED
    BY <1>17, <2>2, <2>3 DEF CuratorMoves, DbTyped, db, MemoryTyped, CountsTyped, PassesTyped
<1>18. ASSUME NEW s \in Sessions, FindSuggestion(s)
      PROVE  Typed'
  <2>1. find_candidates(AutoRefMin)[s] \in Cluster
    BY <1>18, FoundCandidates DEF FindSuggestion, Clusterings
  <2>2. CuratorTyped'
    BY <1>18, <1>n, <2>1 DEF FindSuggestion, CuratorTyped, CuratorLocals, NoCommand
  <2>3. CountsTyped'
    BY <1>18, PromotionAssumption DEF FindSuggestion, MayReview, CountsTyped, Counts
  <2>. QED
    BY <1>18, <2>2, <2>3 DEF FindSuggestion, DbTyped, db, FilesTyped, Filed, files, MemoryTyped, PassesTyped
<1>19. ASSUME Suggest
      PROVE  Typed'
  <2>1. curator.file \in Names /\ curator.meta \in Cluster
    BY <1>19 DEF Suggest, CuratorTyped, CuratorLocals
  <2>2. <<clock, curator.file[2]>> \in Names
    BY <1>n, <2>1, TopicOfName
  <2>3. FilesTyped'
    <3>1. Filed(Put(auto, <<clock, curator.file[2]>>, curator.meta))
      BY <2>1, <2>2, PutFiled DEF FilesTyped
    <3>. QED
      BY <1>19, <3>1 DEF Suggest, FilesTyped, Filed
  <2>4. CuratorTyped'
    BY <1>19, Idles DEF Suggest, CuratorTyped
  <2>. QED
    BY <1>19, <2>3, <2>4 DEF Suggest, DbTyped, db, MemoryTyped, CountsTyped, PassesTyped
<1>20. ASSUME KillCurator
      PROVE  Typed'
  <2>1. CuratorTyped'
    BY <1>20, Idles DEF KillCurator, CuratorTyped
  <2>2. CountsTyped'
    BY <1>20, PromotionAssumption DEF KillCurator, CountsTyped, Counts
  <2>. QED
    BY <1>20, <2>1, <2>2 DEF KillCurator, DbTyped, db, FilesTyped, Filed, files, MemoryTyped, PassesTyped
<1>21. ASSUME NEW o \in Obs, Reference(o)
      PROVE  Typed'
  <2>1. DbTyped'
    BY <1>21, PromotionAssumption DEF Reference, DbTyped
  <2>. QED
    BY <1>21, <2>1 DEF Reference, FilesTyped, Filed, files, MemoryTyped, CountsTyped, PassesTyped, CuratorTyped
<1>22. ASSUME TimePasses
      PROVE  Typed'
  <2>1. CountsTyped'
    BY <1>22, PromotionAssumption DEF TimePasses, CountsTyped
  <2>. QED
    BY <1>22, <2>1 DEF TimePasses, DbTyped, db, FilesTyped, Filed, files, MemoryTyped, PassesTyped, CuratorTyped
<1>. QED
  BY <1>1, <1>2, <1>3, <1>4, <1>5, <1>6, <1>7, <1>8, <1>9, <1>10, <1>11, <1>12, <1>13, <1>14, <1>15, <1>16, <1>17, <1>18, <1>19, <1>20, <1>21, <1>22
  DEF Next, PassStep, CuratorStep

LEMMA TypedIsTypeOK == Typed => TypeOK
  BY PromotionAssumption
  DEF Typed, DbTyped, FilesTyped, Filed, MemoryTyped, MemoryText, CountsTyped, Counts, PassesTyped,
      PassLocals, PassSteps, Clusterings, CuratorTyped, CuratorLocals, TypeOK

\* Every file, row, pass and command keeps its type: in particular the name _uniquify
\* returns is a memory's, and a candidate's score never leaves its range.
THEOREM PromotionTypeCorrect == Spec => []TypeOK
<1>. QED
  BY TypedInit, TypedNext, TypedIsTypeOK, PTL DEF Spec

-----------------------------------------------------------------------------
(* What the steps of a pass do to it. *)

LEMMA Generates ==
    ASSUME Typed, NEW p \in Passes
    PROVE  /\ FindClusters(p) =>
                /\ OthersStay(p) /\ pass'[p].step = "scan"
                /\ pass'[p].clusters = find_candidates(RefThreshold)
           /\ ScanPending(p) =>
                /\ OthersStay(p) /\ pass'[p].step = "write"
                /\ pass'[p].clusters = Restrict(pass[p].clusters,
                                                DOMAIN pass[p].clusters \ PendingSessions)
           /\ \A s \in Sessions : write_candidate(p, s) =>
                /\ OthersStay(p) /\ pass'[p].step = "write"
                /\ pass'[p].clusters = Without(pass[p].clusters, s)
<1>. USE DEF Typed
<1>1. ASSUME FindClusters(p)
      PROVE  /\ OthersStay(p) /\ pass'[p].step = "scan"
             /\ pass'[p].clusters = find_candidates(RefThreshold)
  <2>1. PICK c \in Clusterings : c = find_candidates(RefThreshold)
    BY FoundCandidates
  <2>2. pass' = [pass EXCEPT ![p].step = "scan", ![p].clusters = c] /\ "scan" \in PassSteps
    BY <1>1, <2>1 DEF FindClusters, PassSteps
  <2>3. OthersStay(p) /\ pass'[p].step = "scan" /\ pass'[p].clusters = c
    BY <2>1, <2>2 DEF PassesTyped, PassLocals, OthersStay
  <2>. QED
    BY <2>1, <2>3
<1>2. ASSUME ScanPending(p)
      PROVE  /\ OthersStay(p) /\ pass'[p].step = "write"
             /\ pass'[p].clusters = Restrict(pass[p].clusters,
                                             DOMAIN pass[p].clusters \ PendingSessions)
  <2>. DEFINE c == Restrict(pass[p].clusters, DOMAIN pass[p].clusters \ PendingSessions)
  <2>1. c \in Clusterings /\ "write" \in PassSteps
    BY Restricting DEF PassSteps, PassesTyped, PassLocals
  <2>2. pass' = [pass EXCEPT ![p].step = "write", ![p].clusters = c]
    BY <1>2 DEF ScanPending
  <2>. HIDE DEF c
  <2>3. OthersStay(p) /\ pass'[p].step = "write" /\ pass'[p].clusters = c
    BY <2>1, <2>2 DEF PassesTyped, PassLocals, OthersStay
  <2>. QED
    BY <2>3 DEF c
<1>3. ASSUME NEW s \in Sessions, write_candidate(p, s)
      PROVE  /\ OthersStay(p) /\ pass'[p].step = "write"
             /\ pass'[p].clusters = Without(pass[p].clusters, s)
  <2>1. PICK c \in Clusterings : c = Without(pass[p].clusters, s)
    BY Restricting DEF Without, PassesTyped, PassLocals
  <2>2. pass' = [pass EXCEPT ![p].clusters = c] /\ pass[p].step = "write"
    BY <1>3, <2>1 DEF write_candidate
  <2>3. OthersStay(p) /\ pass'[p].step = "write" /\ pass'[p].clusters = c
    BY <2>1, <2>2 DEF PassesTyped, PassLocals, OthersStay
  <2>. QED
    BY <2>1, <2>3
<1>. QED
  BY <1>1, <1>2, <1>3

\* It goes through its list: nothing in hand changes.
LEMMA Lists ==
    ASSUME Typed, NEW p \in Passes,
           ListQueue(p) \/ \E f \in pass[p].todo : Skip(p, f)
    PROVE  OthersStay(p) /\ pass'[p].step = "accept" /\ pass'[p].clusters = pass[p].clusters
<1>. USE DEF Typed
<1>1. CASE ListQueue(p)
  <2>1. DOMAIN queue \in SUBSET Names /\ "accept" \in PassSteps
    BY DEF PassSteps, FilesTyped, Filed
  <2>. QED
    BY <1>1, <2>1, PassLists DEF ListQueue
<1>2. ASSUME NEW f \in pass[p].todo, Skip(p, f)
      PROVE  OthersStay(p) /\ pass'[p].step = "accept" /\ pass'[p].clusters = pass[p].clusters
  <2>1. pass[p].todo \ {f} \in SUBSET Names
    BY DEF PassesTyped, PassLocals
  <2>. QED
    BY <1>2, <2>1, PassSkips DEF Skip
<1>. QED
  BY <1>1, <1>2

LEMMA Considers ==
    ASSUME Typed, NEW p \in Passes, NEW f \in pass[p].todo, Consider(p, f)
    PROVE  /\ OthersStay(p) /\ pass'[p].step = "graduate" /\ pass'[p].clusters = pass[p].clusters
           /\ pass'[p].file = f /\ pass'[p].meta = queue[f]
           /\ pass'[p].target = Uniquify(Topic[f[2]])
           /\ f \in Names /\ Uniquify(Topic[f[2]]) \notin DOMAIN memory
           /\ Uniquify(Topic[f[2]])[1] = "observer"
<1>. USE DEF Typed
<1>1. pass[p].todo \ {f} \in SUBSET Names /\ f \in Names /\ "graduate" \in PassSteps
  BY DEF PassesTyped, PassLocals, PassSteps
<1>2. queue[f] \in Cluster
  BY DEF Consider, FilesTyped, Filed
<1>3. /\ Uniquify(Topic[f[2]]) \in Memories /\ Uniquify(Topic[f[2]]) \notin DOMAIN memory
      /\ Uniquify(Topic[f[2]])[1] = "observer"
  BY <1>1, TopicOfName, UniquifyIsFree DEF Consider
<1>4. PICK m \in Cluster : m = queue[f]
  BY <1>2
<1>5. PICK t \in Memories : t = Uniquify(Topic[f[2]])
  BY <1>3
<1>6. PICK l \in SUBSET Names : l = pass[p].todo \ {f}
  BY <1>1
<1>7. pass' = [pass EXCEPT ![p] =
                [step |-> "graduate", clusters |-> @.clusters, todo |-> l,
                 file |-> f, meta |-> m, target |-> t]]
  BY <1>4, <1>5, <1>6 DEF Consider
<1>8. /\ OthersStay(p) /\ pass'[p].step = "graduate" /\ pass'[p].clusters = pass[p].clusters
      /\ pass'[p].file = f /\ pass'[p].meta = m /\ pass'[p].target = t
  BY <1>1, <1>7, PassTakes
<1>. QED
  BY <1>1, <1>3, <1>4, <1>5, <1>8

\* The rest of a graduation: only the step changes.
LEMMA Graduates ==
    ASSUME Typed, NEW p \in Passes, NEW st \in PassSteps, Goto(p, st)
    PROVE  /\ OthersStay(p) /\ pass'[p].step = st /\ pass'[p].clusters = pass[p].clusters
           /\ pass'[p].file = pass[p].file /\ pass'[p].meta = pass[p].meta
           /\ pass'[p].target = pass[p].target
  BY PassGoes DEF Typed, Goto

LEMMA Ends ==
    ASSUME Typed, NEW p \in Passes, EndPass(p) \/ KillPass(p)
    PROVE  /\ OthersStay(p) /\ pass'[p].step = "idle" /\ pass'[p].clusters = << >>
           /\ UNCHANGED <<refs, resolved, queue, auto, accepted, refused, memory, announced,
                          clock, curator>>
  BY PassEnds, Idles DEF Typed, EndPass, KillPass, db, files

-----------------------------------------------------------------------------
(* Nothing is lost, however many passes overlap.                            *)

\* A candidate cites observations, all of its session.
About(c, s) == c.ids # {} /\ \A o \in c.ids : SessionOf[o] = s

Marked(c) == \A o \in c.ids : resolved[o] # NULL

Cites(d) == \A f \in DOMAIN d : About(d[f], f[2])

FilesCite == Cites(queue) /\ Cites(auto)

\* What a pass has in hand is about its session, and resolved when it is archived.
PassesCite ==
    \A p \in Passes :
        /\ \A s \in DOMAIN pass[p].clusters : About(pass[p].clusters[s], s)
        /\ pass[p].step \in Graduating => About(pass[p].meta, pass[p].file[2])
        /\ pass[p].step = "archive" => Marked(pass[p].meta)

\* So is what the curator has in hand; an accepted candidate has its memory by then.
CuratorCites ==
    /\ curator.step # "idle" => About(curator.meta, curator.file[2])
    /\ curator.step \in {"mark", "move"} /\ curator.verdict = "accept" =>
          Recommended(curator.file) \in DOMAIN memory
    /\ curator.step = "move" => Marked(curator.meta)

LostInv == Typed /\ FilesCite /\ PassesCite /\ CuratorCites /\ NothingLost

LEMMA LostInit == Init => LostInv
  BY TypedInit, Idles, NoClusters
  DEF Init, LostInv, FilesCite, Cites, PassesCite, CuratorCites, NothingLost, Graduating

\* Resolved rows stay resolved, and every memory stays.
LEMMA RowsStay ==
    ASSUME LostInv, [Next]_vars
    PROVE  /\ \A o \in Obs : resolved[o] # NULL => resolved'[o] # NULL
           /\ DOMAIN memory \subseteq DOMAIN memory'
<1>. USE DEF LostInv, Typed
<1>1. ASSUME NEW ids, NEW value \in Memories \cup {REJECTED}, Resolve(ids, value)
      PROVE  \A o \in Obs : resolved[o] # NULL => resolved'[o] # NULL
  BY <1>1, NamesDiffer DEF Resolve
<1>2. ASSUME NEW p \in Passes, CommitRows(p)
      PROVE  \A o \in Obs : resolved[o] # NULL => resolved'[o] # NULL
  <2>1. pass[p].target \in Memories
    BY <1>2 DEF CommitRows, PassesTyped, Graduating
  <2>. QED
    BY <1>1, <1>2, <2>1 DEF CommitRows
<1>3. ASSUME CuratorMarks
      PROVE  \A o \in Obs : resolved[o] # NULL => resolved'[o] # NULL
  <2>1. Recommended(curator.file) \in Memories
    BY <1>3, TopicOfName DEF CuratorMarks, CuratorTyped
  <2>2. PICK v \in Memories \cup {REJECTED} :
          v = IF curator.verdict = "accept" THEN Recommended(curator.file) ELSE REJECTED
    BY <2>1
  <2>. QED
    BY <1>1, <1>3, <2>2 DEF CuratorMarks
<1>4. ASSUME NEW p \in Passes, WriteMemory(p)
      PROVE  DOMAIN memory \subseteq DOMAIN memory'
  BY <1>4 DEF WriteMemory, Put
<1>5. ASSUME CuratorWrites
      PROVE  DOMAIN memory \subseteq DOMAIN memory'
  BY <1>5 DEF CuratorWrites, Put
<1>6. UNCHANGED resolved \/ CuratorMarks \/ \E p \in Passes : CommitRows(p)
  BY DEF Next, PassStep, CuratorStep, vars, db, files, FindClusters, ScanPending, write_candidate,
         ListQueue, Skip, Consider, WriteMemory, Archive, EmitReindex, EndPass, KillPass,
         OpenCandidate, CuratorWrites, CuratorMoves, FindSuggestion, Suggest, KillCurator,
         Reference, TimePasses
<1>7. UNCHANGED memory \/ CuratorWrites \/ \E p \in Passes : WriteMemory(p)
  BY DEF Next, PassStep, CuratorStep, vars, db, files, FindClusters, ScanPending, write_candidate,
         ListQueue, Skip, Consider, CommitRows, Archive, EmitReindex, EndPass, KillPass,
         OpenCandidate, CuratorMarks, CuratorMoves, FindSuggestion, Suggest, KillCurator,
         Reference, TimePasses
<1>. QED
  BY <1>2, <1>3, <1>4, <1>5, <1>6, <1>7

LEMMA CitePut ==
    ASSUME NEW d, Cites(d), NEW name, NEW c, About(c, name[2])
    PROVE  Cites(Put(d, name, c))
  BY DEF Cites, Put, About

LEMMA CiteRemove ==
    ASSUME NEW d, Cites(d), NEW name
    PROVE  Cites(Without(d, name))
  BY DEF Cites, Without, Restrict, About

\* The files in the queue and in auto/ stay about their sessions.
LEMMA FilesStayCited ==
    ASSUME LostInv, Next
    PROVE  FilesCite'
<1>. USE DEF LostInv
<1>3. ASSUME UNCHANGED <<queue, auto>>
      PROVE  FilesCite'
  BY <1>3 DEF FilesCite, Cites, About
<1>4. ASSUME NEW p \in Passes, NEW s \in Sessions, write_candidate(p, s)
      PROVE  FilesCite'
  <2>1. About(pass[p].clusters[s], <<clock, s>>[2])
    BY <1>4 DEF write_candidate, PassesCite
  <2>. QED
    BY <1>4, <2>1, CitePut DEF write_candidate, FilesCite
<1>5. ASSUME NEW p \in Passes, Archive(p)
      PROVE  FilesCite'
  BY <1>5, CiteRemove DEF Archive, FilesCite
<1>6. ASSUME CuratorMoves
      PROVE  FilesCite'
  BY <1>6, CiteRemove DEF CuratorMoves, FilesCite
<1>7. ASSUME Suggest
      PROVE  FilesCite'
  <2>1. About(curator.meta, <<clock, curator.file[2]>>[2])
    BY <1>7 DEF Suggest, CuratorCites
  <2>. QED
    BY <1>7, <2>1, CitePut DEF Suggest, FilesCite
<1>8. \/ UNCHANGED <<queue, auto>> \/ CuratorMoves \/ Suggest
      \/ \E p \in Passes : Archive(p) \/ \E s \in Sessions : write_candidate(p, s)
  BY DEF Next, PassStep, CuratorStep, vars, db, files, FindClusters, ScanPending,
         ListQueue, Skip, Consider, WriteMemory, CommitRows, EmitReindex, EndPass, KillPass,
         OpenCandidate, CuratorWrites, CuratorMarks, FindSuggestion, KillCurator,
         Reference, TimePasses
<1>. QED
  BY <1>3, <1>4, <1>5, <1>6, <1>7, <1>8

\* A cluster of unresolved observations is about its session.
LEMMA FoundAreAbout ==
    ASSUME NEW threshold
    PROVE  \A s \in DOMAIN find_candidates(threshold) : About(find_candidates(threshold)[s], s)
  BY FoundCandidates DEF About, Eligible

LEMMA PassesStayCited ==
    ASSUME LostInv, Next
    PROVE  PassesCite'
<1>. USE DEF LostInv
<1>r. \A o \in Obs : resolved[o] # NULL => resolved'[o] # NULL
  BY RowsStay
<1>i. \A p \in Passes : pass[p].step \in Graduating => pass[p].meta.ids \subseteq Obs
  BY DEF Typed, PassesTyped, PassLocals, Cluster
<1>1. ASSUME NEW p \in Passes, OthersStay(p),
             \A s \in DOMAIN pass'[p].clusters : About(pass'[p].clusters[s], s),
             pass'[p].step \in Graduating => About(pass'[p].meta, pass'[p].file[2]),
             pass'[p].step = "archive" => \A o \in pass'[p].meta.ids : resolved'[o] # NULL
      PROVE  PassesCite'
  <2>1. \A q \in Passes \ {p} : pass'[q] = pass[q]
    BY <1>1 DEF OthersStay
  <2>2. \A q \in Passes \ {p} : pass[q].step = "archive" =>
          \A o \in pass[q].meta.ids : resolved'[o] # NULL
    BY <1>r, <1>i DEF PassesCite, Marked, Graduating
  <2>. QED
    BY <1>1, <2>1, <2>2 DEF PassesCite, About, Marked
<1>2. ASSUME UNCHANGED pass
      PROVE  PassesCite'
  <2>1. \A q \in Passes : pass[q].step = "archive" =>
          \A o \in pass[q].meta.ids : resolved'[o] # NULL
    BY <1>r, <1>i DEF PassesCite, Marked, Graduating
  <2>. QED
    BY <1>2, <2>1 DEF PassesCite, About, Marked
<1>3. ASSUME NEW p \in Passes, FindClusters(p)
      PROVE  PassesCite'
  <2>1. OthersStay(p) /\ pass'[p].step = "scan" /\ pass'[p].clusters = find_candidates(RefThreshold)
    BY <1>3, Generates
  <2>. QED
    BY <1>1, <2>1, FoundAreAbout DEF Graduating
<1>4. ASSUME NEW p \in Passes, ScanPending(p)
      PROVE  PassesCite'
  <2>. DEFINE c == pass[p].clusters
  <2>1. /\ OthersStay(p) /\ pass'[p].step = "write"
        /\ pass'[p].clusters = Restrict(c, DOMAIN c \ PendingSessions)
    BY <1>4, Generates
  <2>2. \A s \in DOMAIN pass'[p].clusters : About(pass'[p].clusters[s], s)
    BY <2>1 DEF PassesCite, Restrict
  <2>. QED
    BY <1>1, <2>1, <2>2 DEF Graduating
<1>5. ASSUME NEW p \in Passes, NEW s \in Sessions, write_candidate(p, s)
      PROVE  PassesCite'
  <2>1. /\ OthersStay(p) /\ pass'[p].step = "write"
        /\ pass'[p].clusters = Without(pass[p].clusters, s)
    BY <1>5, Generates
  <2>2. \A r \in DOMAIN pass'[p].clusters : About(pass'[p].clusters[r], r)
    BY <2>1 DEF PassesCite, Without, Restrict
  <2>. QED
    BY <1>1, <2>1, <2>2 DEF Graduating
<1>6. ASSUME NEW p \in Passes, ListQueue(p) \/ \E f \in pass[p].todo : Skip(p, f)
      PROVE  PassesCite'
  <2>1. OthersStay(p) /\ pass'[p].step = "accept" /\ pass'[p].clusters = pass[p].clusters
    BY <1>6, Lists
  <2>. QED
    BY <1>1, <2>1 DEF Graduating, PassesCite
<1>7. ASSUME NEW p \in Passes, NEW f \in pass[p].todo, Consider(p, f)
      PROVE  PassesCite'
  <2>1. /\ OthersStay(p) /\ pass'[p].step = "graduate" /\ pass'[p].clusters = pass[p].clusters
        /\ pass'[p].file = f /\ pass'[p].meta = queue[f]
    BY <1>7, Considers
  <2>2. About(queue[f], f[2])
    BY <1>7 DEF Consider, FilesCite, Cites
  <2>. QED
    BY <1>1, <2>1, <2>2 DEF PassesCite
<1>8. ASSUME NEW p \in Passes, NEW st \in PassSteps, Goto(p, st), pass[p].step \in Graduating,
             st = "archive" => \A o \in pass[p].meta.ids : resolved'[o] # NULL
      PROVE  PassesCite'
  <2>1. /\ OthersStay(p) /\ pass'[p].step = st /\ pass'[p].clusters = pass[p].clusters
        /\ pass'[p].file = pass[p].file /\ pass'[p].meta = pass[p].meta
    BY <1>8, Graduates
  <2>2. /\ \A s \in DOMAIN pass[p].clusters : About(pass[p].clusters[s], s)
        /\ About(pass[p].meta, pass[p].file[2])
    BY <1>8 DEF PassesCite
  <2>. QED
    BY <1>1, <1>8, <2>1, <2>2
<1>9. ASSUME NEW p \in Passes, WriteMemory(p) \/ Archive(p) \/ EmitReindex(p)
      PROVE  PassesCite'
  <2>1. PICK st \in {"commit", "announce", "accept"} : Goto(p, st)
    BY <1>9 DEF WriteMemory, Archive, EmitReindex
  <2>2. pass[p].step \in Graduating
    BY <1>9 DEF WriteMemory, Archive, EmitReindex, Graduating
  <2>3. st \in PassSteps /\ st # "archive"
    BY DEF PassSteps
  <2>. QED
    BY <1>8, <2>1, <2>2, <2>3
<1>10. ASSUME NEW p \in Passes, CommitRows(p)
       PROVE  PassesCite'
  <2>1. pass[p].step \in Graduating /\ pass[p].target \in Memories
    BY <1>10 DEF CommitRows, Graduating, Typed, PassesTyped
  <2>2. \A o \in pass[p].meta.ids : resolved'[o] # NULL
    BY <1>10, <1>i, <2>1, NamesDiffer DEF CommitRows, Resolve
  <2>3. Goto(p, "archive") /\ "archive" \in PassSteps
    BY <1>10 DEF CommitRows, PassSteps
  <2>. QED
    BY <1>8, <2>1, <2>2, <2>3
<1>11. ASSUME NEW p \in Passes, EndPass(p) \/ KillPass(p)
       PROVE  PassesCite'
  <2>1. OthersStay(p) /\ pass'[p].step = "idle" /\ pass'[p].clusters = << >>
    BY <1>11, Ends
  <2>. QED
    BY <1>1, <2>1, NoClusters DEF Graduating
<1>. QED
  BY <1>2, <1>3, <1>4, <1>5, <1>6, <1>7, <1>9, <1>10, <1>11
  DEF Next, PassStep, CuratorStep, OpenCandidate, CuratorWrites, CuratorMarks, CuratorMoves,
      FindSuggestion, Suggest, KillCurator, Reference, TimePasses

LEMMA CuratorStaysCited ==
    ASSUME LostInv, Next
    PROVE  CuratorCites'
<1>. USE DEF LostInv
<1>r. /\ \A o \in Obs : resolved[o] # NULL => resolved'[o] # NULL
      /\ DOMAIN memory \subseteq DOMAIN memory'
  BY RowsStay
<1>i. curator.meta.ids \subseteq Obs /\ curator \in CuratorLocals
  BY DEF Typed, CuratorTyped, CuratorLocals, Cluster
<1>1. ASSUME UNCHANGED curator
      PROVE  CuratorCites'
  BY <1>1, <1>r, <1>i DEF CuratorCites, About, Marked, Recommended
<1>2. ASSUME NEW f \in DOMAIN queue \cup DOMAIN auto, NEW v \in {"accept", "reject"},
             OpenCandidate(f, v)
      PROVE  CuratorCites'
  <2>1. About(FileAt(f), f[2])
    BY DEF FilesCite, Cites, FileAt
  <2>2. /\ curator'.meta = FileAt(f) /\ curator'.file = f /\ curator'.verdict = v
        /\ curator'.step = IF v = "accept" THEN "write" ELSE "mark"
    BY <1>2 DEF OpenCandidate
  <2>. QED
    BY <2>1, <2>2 DEF CuratorCites
<1>3. ASSUME CuratorWrites
      PROVE  CuratorCites'
  <2>1. /\ curator'.meta = curator.meta /\ curator'.file = curator.file
        /\ curator'.step = "mark"
    BY <1>3, <1>i DEF CuratorWrites, CuratorLocals
  <2>2. Recommended(curator.file) \in DOMAIN memory'
    BY <1>3 DEF CuratorWrites, Put
  <2>3. Recommended(curator.file)' = Recommended(curator.file)
    BY <2>1 DEF Recommended
  <2>. QED
    BY <1>3, <2>1, <2>2, <2>3 DEF CuratorWrites, CuratorCites, About
<1>4. ASSUME CuratorMarks
      PROVE  CuratorCites'
  <2>1. /\ curator'.meta = curator.meta /\ curator'.file = curator.file
        /\ curator'.step = "move" /\ curator'.verdict = curator.verdict
    BY <1>4, <1>i DEF CuratorMarks, CuratorLocals
  <2>2. Recommended(curator.file) \in Memories
    BY <1>4, TopicOfName DEF CuratorMarks, Typed, CuratorTyped
  <2>3. \A o \in curator.meta.ids : resolved'[o] # NULL
    BY <1>4, <1>i, <2>2, NamesDiffer DEF CuratorMarks, Resolve
  <2>4. Recommended(curator.file)' = Recommended(curator.file)
    BY <2>1 DEF Recommended
  <2>. QED
    BY <1>4, <1>r, <2>1, <2>3, <2>4 DEF CuratorMarks, CuratorCites, About, Marked
<1>5. ASSUME CuratorMoves \/ Suggest \/ KillCurator
      PROVE  CuratorCites'
  <2>1. curator' = NoCommand
    BY <1>5 DEF CuratorMoves, Suggest, KillCurator
  <2>. QED
    BY <2>1, Idles DEF CuratorCites
<1>6. ASSUME NEW s \in Sessions, FindSuggestion(s)
      PROVE  CuratorCites'
  <2>1. About(find_candidates(AutoRefMin)[s], s)
    BY <1>6, FoundAreAbout DEF FindSuggestion
  <2>2. /\ curator'.meta = find_candidates(AutoRefMin)[s] /\ curator'.file = <<clock, s>>
        /\ curator'.step = "suggest"
    BY <1>6 DEF FindSuggestion, NoCommand
  <2>. QED
    BY <2>1, <2>2 DEF CuratorCites
<1>7. UNCHANGED curator \/ CuratorStep \/ KillCurator
      \/ (\E f \in DOMAIN queue \cup DOMAIN auto, v \in {"accept", "reject"} : OpenCandidate(f, v))
      \/ (\E s \in Sessions : FindSuggestion(s))
  BY DEF Next, PassStep, FindClusters, ScanPending, write_candidate,
         ListQueue, Skip, Consider, WriteMemory, CommitRows, Archive, EmitReindex, EndPass,
         KillPass, Reference, TimePasses
<1>. QED
  BY <1>1, <1>2, <1>3, <1>4, <1>5, <1>6, <1>7 DEF CuratorStep

LEMMA NothingGetsLost ==
    ASSUME LostInv, Next
    PROVE  NothingLost'
<1>. USE DEF LostInv
<1>r. /\ \A o \in Obs : resolved[o] # NULL => resolved'[o] # NULL
      /\ DOMAIN memory \subseteq DOMAIN memory'
  BY RowsStay
<1>1. \A o \in Obs : resolved'[o] \in {NULL, REJECTED} \cup DOMAIN memory'
  <2>1. ASSUME NEW p \in Passes, CommitRows(p)
        PROVE  \A o \in Obs : resolved'[o] \in {NULL, REJECTED} \cup DOMAIN memory'
    <3>1. pass[p].target \in DOMAIN memory
      BY <2>1 DEF CommitRows, Typed, PassesTyped, Graduating
    <3>. QED
      BY <2>1, <1>r, <3>1 DEF CommitRows, Resolve, NothingLost
  <2>2. ASSUME CuratorMarks
        PROVE  \A o \in Obs : resolved'[o] \in {NULL, REJECTED} \cup DOMAIN memory'
    <3>1. curator.verdict = "accept" => Recommended(curator.file) \in DOMAIN memory
      BY <2>2 DEF CuratorMarks, CuratorCites
    <3>. QED
      BY <2>2, <1>r, <3>1 DEF CuratorMarks, Resolve, NothingLost
  <2>3. UNCHANGED resolved \/ CuratorMarks \/ \E p \in Passes : CommitRows(p)
    BY DEF Next, PassStep, CuratorStep, vars, db, files, FindClusters, ScanPending, write_candidate,
           ListQueue, Skip, Consider, WriteMemory, Archive, EmitReindex, EndPass, KillPass,
           OpenCandidate, CuratorWrites, CuratorMoves, FindSuggestion, Suggest, KillCurator,
           Reference, TimePasses
  <2>. QED
    BY <1>r, <2>1, <2>2, <2>3 DEF NothingLost
<1>2. \A f \in accepted' \cup refused' : \E o \in Obs : SessionOf[o] = f[2] /\ resolved'[o] # NULL
  <2>1. ASSUME NEW p \in Passes, Archive(p), pass[p].file \in DOMAIN queue
        PROVE  \E o \in Obs : SessionOf[o] = pass[p].file[2] /\ resolved'[o] # NULL
    <3>1. About(pass[p].meta, pass[p].file[2]) /\ Marked(pass[p].meta)
      BY <2>1 DEF Archive, PassesCite, Graduating
    <3>2. pass[p].meta.ids \subseteq Obs
      BY DEF Typed, PassesTyped, PassLocals, Cluster
    <3>. QED
      BY <1>r, <3>1, <3>2 DEF About, Marked
  <2>2. ASSUME CuratorMoves
        PROVE  \E o \in Obs : SessionOf[o] = curator.file[2] /\ resolved'[o] # NULL
    <3>1. About(curator.meta, curator.file[2]) /\ Marked(curator.meta)
      BY <2>2 DEF CuratorMoves, CuratorCites
    <3>2. curator.meta.ids \subseteq Obs
      BY DEF Typed, CuratorTyped, CuratorLocals, Cluster
    <3>. QED
      BY <1>r, <3>1, <3>2 DEF About, Marked
  <2>3. \A f \in accepted \cup refused : \E o \in Obs : SessionOf[o] = f[2] /\ resolved'[o] # NULL
    BY <1>r DEF NothingLost
  <2>4. ASSUME NEW p \in Passes, Archive(p)
        PROVE  \A f \in accepted' \cup refused' :
                  \E o \in Obs : SessionOf[o] = f[2] /\ resolved'[o] # NULL
    BY <2>1, <2>3, <2>4 DEF Archive
  <2>5. ASSUME CuratorMoves
        PROVE  \A f \in accepted' \cup refused' :
                  \E o \in Obs : SessionOf[o] = f[2] /\ resolved'[o] # NULL
    <3>1. accepted' \cup refused' \subseteq (accepted \cup refused) \cup {curator.file}
      BY <2>5 DEF CuratorMoves
    <3>. QED
      BY <2>2, <2>3, <2>5, <3>1
  <2>6. UNCHANGED <<accepted, refused>> \/ CuratorMoves \/ \E p \in Passes : Archive(p)
    BY DEF Next, PassStep, CuratorStep, vars, db, files, FindClusters, ScanPending, write_candidate,
           ListQueue, Skip, Consider, WriteMemory, CommitRows, EmitReindex, EndPass, KillPass,
           OpenCandidate, CuratorWrites, CuratorMarks, FindSuggestion, Suggest, KillCurator,
           Reference, TimePasses
  <2>. QED
    BY <2>3, <2>4, <2>5, <2>6
<1>. QED
  BY <1>1, <1>2 DEF NothingLost

LEMMA LostStutters ==
    ASSUME LostInv, UNCHANGED vars
    PROVE  LostInv'
<1>1. Typed'
  BY TypedNext DEF LostInv
<1>2. FilesCite' /\ NothingLost'
  BY DEF LostInv, FilesCite, Cites, About, NothingLost, vars, db, files
<1>3. PassesCite' /\ CuratorCites'
  BY DEF LostInv, PassesCite, CuratorCites, About, Marked, Recommended, vars, db
<1>. QED
  BY <1>1, <1>2, <1>3 DEF LostInv

LEMMA LostNext == LostInv /\ [Next]_vars => LostInv'
<1>1. ASSUME LostInv, Next PROVE LostInv'
  <2>1. Typed'
    BY <1>1, TypedNext DEF LostInv
  <2>. QED
    BY <1>1, <2>1, FilesStayCited, PassesStayCited, CuratorStaysCited, NothingGetsLost DEF LostInv
<1>. QED
  BY <1>1, LostStutters

\* However many consolidation passes and commands of the curator overlap, and wherever
\* one is killed: a row never names a memory that is not there, and a candidate leaves
\* the queue only when rows of its session say what became of it (_graduate).
THEOREM NothingIsLost == Spec => []NothingLost
<1>1. LostInv => NothingLost
  BY DEF LostInv
<1>. QED
  BY <1>1, LostInit, LostNext, PTL DEF Spec

-----------------------------------------------------------------------------
(* While passes do not overlap: no memory is overwritten.                  *)

OnePass == \A p, q \in Passes : p = q

\* The name a memory is going to have is free until it is written.
PassNames ==
    \A p \in Passes :
        /\ pass[p].step \in Graduating => pass[p].target[1] = "observer"
        /\ pass[p].step = "graduate" => pass[p].target \notin DOMAIN memory
        /\ pass[p].step \in Graduating \ {"graduate"} =>
              memory[pass[p].target] = [ids |-> pass[p].meta.ids, from |-> pass[p].file]

CuratorNames ==
    /\ curator.step = "write" =>
          curator.verdict = "accept" /\ Recommended(curator.file) \notin DOMAIN memory
    /\ curator.step \in {"mark", "move"} /\ curator.verdict = "accept" =>
          memory[Recommended(curator.file)] = [ids |-> curator.meta.ids, from |-> curator.file]

NamesInv == LostInv /\ PassNames /\ CuratorNames /\ ResolvedIsRecorded

LEMMA NamesInit == Init => NamesInv
<1>. SUFFICES ASSUME Init PROVE NamesInv
  OBVIOUS
<1>1. LostInv
  BY LostInit
<1>2. PassNames /\ CuratorNames
  BY Idles DEF Init, PassNames, CuratorNames, Graduating
<1>3. ResolvedIsRecorded
  BY NoClusters DEF Init, ResolvedIsRecorded
<1>. QED
  BY <1>1, <1>2, <1>3 DEF NamesInv

\* What is written is written under a free name.
LEMMA MemoriesStay ==
    ASSUME NamesInv, [Next]_vars
    PROVE  \A m \in DOMAIN memory : m \in DOMAIN memory' /\ memory'[m] = memory[m]
<1>. USE DEF NamesInv
<1>1. ASSUME NEW p \in Passes, WriteMemory(p)
      PROVE  \A m \in DOMAIN memory : m \in DOMAIN memory' /\ memory'[m] = memory[m]
  <2>1. pass[p].target \notin DOMAIN memory
    BY <1>1 DEF WriteMemory, PassNames
  <2>. QED
    BY <1>1, <2>1 DEF WriteMemory, Put
<1>2. ASSUME CuratorWrites
      PROVE  \A m \in DOMAIN memory : m \in DOMAIN memory' /\ memory'[m] = memory[m]
  <2>1. Recommended(curator.file) \notin DOMAIN memory
    BY <1>2 DEF CuratorWrites, CuratorNames
  <2>. QED
    BY <1>2, <2>1 DEF CuratorWrites, Put
<1>3. UNCHANGED memory \/ CuratorWrites \/ \E p \in Passes : WriteMemory(p)
  BY DEF Next, PassStep, CuratorStep, vars, db, files, FindClusters, ScanPending, write_candidate,
         ListQueue, Skip, Consider, CommitRows, Archive, EmitReindex, EndPass, KillPass,
         OpenCandidate, CuratorMarks, CuratorMoves, FindSuggestion, Suggest, KillCurator,
         Reference, TimePasses
<1>. QED
  BY <1>1, <1>2, <1>3

\* A name that is not written in this step stays free.
LEMMA FreeStaysFree ==
    ASSUME LostInv, Next, NEW m, m \notin DOMAIN memory,
           \A p \in Passes : WriteMemory(p) => m # pass[p].target,
           CuratorWrites => m # Recommended(curator.file)
    PROVE  m \notin DOMAIN memory'
<1>1. UNCHANGED memory \/ CuratorWrites \/ \E p \in Passes : WriteMemory(p)
  BY DEF Next, PassStep, CuratorStep, vars, db, files, FindClusters, ScanPending, write_candidate,
         ListQueue, Skip, Consider, CommitRows, Archive, EmitReindex, EndPass, KillPass,
         OpenCandidate, CuratorMarks, CuratorMoves, FindSuggestion, Suggest, KillCurator,
         Reference, TimePasses
<1>2. ASSUME NEW p \in Passes, WriteMemory(p) PROVE m \notin DOMAIN memory'
  BY <1>2 DEF WriteMemory, Put
<1>3. ASSUME CuratorWrites PROVE m \notin DOMAIN memory'
  BY <1>3 DEF CuratorWrites, Put
<1>. QED
  BY <1>1, <1>2, <1>3

\* Where a pass is after a step, if it has a file in hand then.
LEMMA InHand ==
    ASSUME LostInv, Next, NEW p \in Passes, pass'[p].step \in Graduating
    PROVE  \/ pass'[p] = pass[p]
           \/ \E f \in pass[p].todo : Consider(p, f)
           \/ /\ pass[p].step \in Graduating
              /\ pass'[p].file = pass[p].file /\ pass'[p].meta = pass[p].meta
              /\ pass'[p].target = pass[p].target
              /\ \/ WriteMemory(p) /\ pass'[p].step = "commit"
                 \/ CommitRows(p) /\ pass'[p].step = "archive"
                 \/ Archive(p) /\ pass'[p].step = "announce"
<1>. USE DEF LostInv
<1>1. ASSUME NEW q \in Passes, q # p, OthersStay(q)
      PROVE  pass'[p] = pass[p]
  BY <1>1 DEF OthersStay
<1>2. ASSUME NEW q \in Passes, PassStep(q) \/ KillPass(q)
      PROVE  OthersStay(q)
  <2>1. "commit" \in PassSteps /\ "archive" \in PassSteps /\ "announce" \in PassSteps
        /\ "accept" \in PassSteps
    BY DEF PassSteps
  <2>2. (\E st \in {"commit", "archive", "announce", "accept"} : Goto(q, st)) => OthersStay(q)
    BY <2>1, Graduates
  <2>3. WriteMemory(q) \/ CommitRows(q) \/ Archive(q) \/ EmitReindex(q) =>
          \E st \in {"commit", "archive", "announce", "accept"} : Goto(q, st)
    BY DEF WriteMemory, CommitRows, Archive, EmitReindex
  <2>. QED
    BY <1>2, <2>2, <2>3, Generates, Lists, Considers, Ends DEF PassStep
<1>3. ASSUME FindClusters(p) \/ ScanPending(p) \/ ListQueue(p) \/ EndPass(p) \/ KillPass(p)
             \/ (\E s \in Sessions : write_candidate(p, s)) \/ (\E f \in pass[p].todo : Skip(p, f))
      PROVE  FALSE
  BY <1>3, Generates, Lists, Ends DEF Graduating
<1>4. ASSUME EmitReindex(p) PROVE FALSE
  <2>1. "accept" \in PassSteps /\ Goto(p, "accept")
    BY <1>4 DEF EmitReindex, PassSteps
  <2>. QED
    BY <2>1, Graduates DEF Graduating
<1>5. ASSUME NEW st \in {"commit", "archive", "announce", "accept"}, Goto(p, st)
      PROVE  /\ pass'[p].file = pass[p].file /\ pass'[p].meta = pass[p].meta
             /\ pass'[p].target = pass[p].target /\ pass'[p].step = st /\ st # "accept"
  <2>1. st \in PassSteps
    BY DEF PassSteps
  <2>. QED
    BY <1>5, <2>1, Graduates DEF Graduating
<1>6. ASSUME WriteMemory(p)
      PROVE  pass[p].step \in Graduating /\ Goto(p, "commit")
  BY <1>6 DEF WriteMemory, Graduating
<1>7. ASSUME CommitRows(p)
      PROVE  pass[p].step \in Graduating /\ Goto(p, "archive")
  BY <1>7 DEF CommitRows, Graduating
<1>8. ASSUME Archive(p)
      PROVE  pass[p].step \in Graduating /\ Goto(p, "announce")
  BY <1>5, <1>8 DEF Archive, Graduating
<1>9. \/ UNCHANGED pass
      \/ \E q \in Passes : PassStep(q) \/ KillPass(q)
  BY DEF Next, CuratorStep, OpenCandidate, CuratorWrites, CuratorMarks, CuratorMoves,
         FindSuggestion, Suggest, KillCurator, Reference, TimePasses
<1>10. CASE PassStep(p) \/ KillPass(p)
  <2>1. CASE WriteMemory(p)
    BY <2>1, <1>5, <1>6
  <2>2. CASE CommitRows(p)
    BY <2>2, <1>5, <1>7
  <2>3. CASE Archive(p)
    BY <2>3, <1>5, <1>8
  <2>. QED
    BY <1>10, <1>3, <1>4, <2>1, <2>2, <2>3 DEF PassStep
<1>. QED
  BY <1>1, <1>2, <1>9, <1>10

LEMMA PassNamesNext ==
    ASSUME OnePass, NamesInv, Next
    PROVE  PassNames'
<1>. SUFFICES ASSUME NEW p \in Passes, pass'[p].step \in Graduating
              PROVE  /\ pass'[p].target[1] = "observer"
                     /\ pass'[p].step = "graduate" => pass'[p].target \notin DOMAIN memory'
                     /\ pass'[p].step \in Graduating \ {"graduate"} =>
                          memory'[pass'[p].target]
                            = [ids |-> pass'[p].meta.ids, from |-> pass'[p].file]
  BY DEF PassNames, Graduating
<1>. USE DEF NamesInv
<1>m. \A m \in DOMAIN memory : m \in DOMAIN memory' /\ memory'[m] = memory[m]
  BY MemoriesStay
<1>c. CuratorWrites => Recommended(curator.file)[1] = "observer_promoted"
  BY TopicOfName DEF CuratorWrites, LostInv, Typed, CuratorTyped
<1>t. pass[p].step \in Graduating \ {"graduate"} => pass[p].target \in DOMAIN memory
  BY DEF LostInv, Typed, PassesTyped
<1>1. CASE pass'[p] = pass[p]
  <2>1. pass[p].step = "graduate" => pass[p].target \notin DOMAIN memory'
    <3>. SUFFICES ASSUME pass[p].step = "graduate" PROVE pass[p].target \notin DOMAIN memory'
      OBVIOUS
    <3>1. \A q \in Passes : ~WriteMemory(q)
      <4>. SUFFICES ASSUME WriteMemory(p) PROVE FALSE
        BY DEF OnePass
      <4>1. Goto(p, "commit") /\ "commit" \in PassSteps
        BY DEF WriteMemory, PassSteps
      <4>2. pass'[p].step = "commit"
        BY <4>1, Graduates DEF LostInv
      <4>. QED
        BY <1>1, <4>2
    <3>2. pass[p].target \notin DOMAIN memory /\ pass[p].target[1] = "observer"
      BY DEF PassNames, Graduating
    <3>. QED
      BY <1>c, <3>1, <3>2, FreeStaysFree
  <2>. QED
    BY <1>1, <1>m, <1>t, <2>1 DEF PassNames
<1>2. ASSUME NEW f \in pass[p].todo, Consider(p, f)
      PROVE  /\ pass'[p].step = "graduate" /\ pass'[p].target[1] = "observer"
             /\ pass'[p].target \notin DOMAIN memory'
  <2>1. /\ pass'[p].step = "graduate" /\ pass'[p].target = Uniquify(Topic[f[2]])
        /\ Uniquify(Topic[f[2]]) \notin DOMAIN memory /\ Uniquify(Topic[f[2]])[1] = "observer"
    BY <1>2, Considers DEF LostInv
  <2>2. UNCHANGED memory
    BY <1>2 DEF Consider
  <2>. QED
    BY <2>1, <2>2
<1>3. ASSUME pass[p].step \in Graduating,
             pass'[p].file = pass[p].file, pass'[p].meta = pass[p].meta,
             pass'[p].target = pass[p].target,
             WriteMemory(p)
      PROVE  memory'[pass'[p].target] = [ids |-> pass'[p].meta.ids, from |-> pass'[p].file]
  BY <1>3 DEF WriteMemory, Put
<1>4. ASSUME pass[p].step \in Graduating \ {"graduate"},
             pass'[p].file = pass[p].file, pass'[p].meta = pass[p].meta,
             pass'[p].target = pass[p].target
      PROVE  memory'[pass'[p].target] = [ids |-> pass'[p].meta.ids, from |-> pass'[p].file]
  BY <1>4, <1>m, <1>t DEF PassNames
<1>5. CASE /\ pass[p].step \in Graduating
           /\ pass'[p].file = pass[p].file /\ pass'[p].meta = pass[p].meta
           /\ pass'[p].target = pass[p].target
           /\ \/ WriteMemory(p) /\ pass'[p].step = "commit"
              \/ CommitRows(p) /\ pass'[p].step = "archive"
              \/ Archive(p) /\ pass'[p].step = "announce"
  <2>1. CommitRows(p) \/ Archive(p) => pass[p].step # "graduate"
    BY DEF CommitRows, Archive
  <2>. QED
    BY <1>3, <1>4, <1>5, <2>1 DEF PassNames
<1>. QED
  BY <1>1, <1>2, <1>5, InHand

LEMMA CuratorNamesNext ==
    ASSUME OnePass, NamesInv, Next
    PROVE  CuratorNames'
<1>. USE DEF NamesInv
<1>m. \A m \in DOMAIN memory : m \in DOMAIN memory' /\ memory'[m] = memory[m]
  BY MemoriesStay
<1>i. curator \in CuratorLocals
  BY DEF LostInv, Typed, CuratorTyped
<1>t. curator.step \in {"mark", "move"} /\ curator.verdict = "accept" =>
        Recommended(curator.file) \in DOMAIN memory
  BY DEF LostInv, CuratorCites
<1>1. ASSUME UNCHANGED curator
      PROVE  CuratorNames'
  <2>1. Recommended(curator.file)' = Recommended(curator.file)
    BY <1>1 DEF Recommended
  <2>2. curator.step = "write" => Recommended(curator.file) \notin DOMAIN memory'
    <3>. SUFFICES ASSUME curator.step = "write"
                  PROVE  Recommended(curator.file) \notin DOMAIN memory'
      OBVIOUS
    <3>1. ~CuratorWrites
      BY <1>1, <1>i DEF CuratorWrites, CuratorLocals
    <3>2. Recommended(curator.file)[1] = "observer_promoted"
      BY TopicOfName DEF LostInv, Typed, CuratorTyped
    <3>3. \A p \in Passes : WriteMemory(p) => pass[p].target[1] = "observer"
      BY DEF WriteMemory, PassNames, Graduating
    <3>4. Recommended(curator.file) \notin DOMAIN memory
      BY DEF CuratorNames
    <3>. QED
      BY <3>1, <3>2, <3>3, <3>4, FreeStaysFree
  <2>. QED
    BY <1>1, <1>m, <1>t, <2>1, <2>2 DEF CuratorNames
<1>2. ASSUME NEW f \in DOMAIN queue \cup DOMAIN auto, NEW v \in {"accept", "reject"},
             OpenCandidate(f, v)
      PROVE  CuratorNames'
  <2>1. /\ curator'.file = f /\ curator'.verdict = v
        /\ curator'.step = IF v = "accept" THEN "write" ELSE "mark"
        /\ v = "accept" => Recommended(f) \notin DOMAIN memory
        /\ UNCHANGED memory
    BY <1>2 DEF OpenCandidate
  <2>. QED
    BY <2>1 DEF CuratorNames, Recommended
<1>3. ASSUME CuratorWrites
      PROVE  CuratorNames'
  <2>1. /\ curator'.meta = curator.meta /\ curator'.file = curator.file
        /\ curator'.step = "mark"
    BY <1>3, <1>i DEF CuratorWrites, CuratorLocals
  <2>2. memory'[Recommended(curator.file)] = [ids |-> curator.meta.ids, from |-> curator.file]
    BY <1>3 DEF CuratorWrites, Put
  <2>3. Recommended(curator.file)' = Recommended(curator.file)
    BY <2>1 DEF Recommended
  <2>. QED
    BY <2>1, <2>2, <2>3 DEF CuratorNames
<1>4. ASSUME CuratorMarks
      PROVE  CuratorNames'
  <2>1. /\ curator'.meta = curator.meta /\ curator'.file = curator.file
        /\ curator'.step = "move" /\ curator'.verdict = curator.verdict /\ curator.step = "mark"
    BY <1>4, <1>i DEF CuratorMarks, CuratorLocals
  <2>2. Recommended(curator.file)' = Recommended(curator.file)
    BY <2>1 DEF Recommended
  <2>. QED
    BY <1>m, <1>t, <2>1, <2>2 DEF CuratorNames
<1>5. ASSUME CuratorMoves \/ Suggest \/ KillCurator
      PROVE  CuratorNames'
  <2>1. curator' = NoCommand
    BY <1>5 DEF CuratorMoves, Suggest, KillCurator
  <2>. QED
    BY <2>1, Idles DEF CuratorNames
<1>6. ASSUME NEW s \in Sessions, FindSuggestion(s)
      PROVE  CuratorNames'
  <2>1. curator'.step = "suggest"
    BY <1>6 DEF FindSuggestion, NoCommand
  <2>. QED
    BY <2>1 DEF CuratorNames
<1>7. UNCHANGED curator \/ CuratorStep \/ KillCurator
      \/ (\E f \in DOMAIN queue \cup DOMAIN auto, v \in {"accept", "reject"} : OpenCandidate(f, v))
      \/ (\E s \in Sessions : FindSuggestion(s))
  BY DEF Next, PassStep, FindClusters, ScanPending, write_candidate,
         ListQueue, Skip, Consider, WriteMemory, CommitRows, Archive, EmitReindex, EndPass,
         KillPass, Reference, TimePasses
<1>. QED
  BY <1>1, <1>2, <1>3, <1>4, <1>5, <1>6, <1>7 DEF CuratorStep

LEMMA RecordedNext ==
    ASSUME OnePass, NamesInv, Next
    PROVE  ResolvedIsRecorded'
<1>. USE DEF NamesInv
<1>m. \A m \in DOMAIN memory : m \in DOMAIN memory' /\ memory'[m] = memory[m]
  BY MemoriesStay
<1>a. \A o \in Obs : resolved[o] \in {NULL, REJECTED} \cup DOMAIN memory
  BY DEF LostInv, NothingLost
<1>b. NULL \notin DOMAIN memory' /\ REJECTED \notin DOMAIN memory'
  <2>1. DOMAIN memory' \subseteq Memories
    BY TypedNext DEF LostInv, Typed, MemoryTyped
  <2>. QED
    BY <2>1, NamesDiffer
<1>1. \A o \in Obs : resolved'[o] \in DOMAIN memory' => o \in memory'[resolved'[o]].ids
  <2>1. CASE UNCHANGED resolved
    BY <2>1, <1>m, <1>a, <1>b DEF ResolvedIsRecorded
  <2>2. ASSUME NEW p \in Passes, CommitRows(p)
        PROVE  \A o \in Obs : resolved'[o] \in DOMAIN memory' => o \in memory'[resolved'[o]].ids
    <3>1. /\ pass[p].target \in DOMAIN memory
          /\ memory[pass[p].target] = [ids |-> pass[p].meta.ids, from |-> pass[p].file]
      BY <2>2 DEF CommitRows, PassNames, Graduating, LostInv, Typed, PassesTyped
    <3>2. \A o \in Obs : resolved'[o] = IF o \in pass[p].meta.ids THEN pass[p].target ELSE resolved[o]
      BY <2>2 DEF CommitRows, Resolve
    <3>3. memory[pass[p].target].ids = pass[p].meta.ids
      BY <3>1
    <3>. QED
      BY <1>m, <1>a, <1>b, <3>1, <3>2, <3>3 DEF ResolvedIsRecorded
  <2>3. ASSUME CuratorMarks
        PROVE  \A o \in Obs : resolved'[o] \in DOMAIN memory' => o \in memory'[resolved'[o]].ids
    <3>. DEFINE rec == Recommended(curator.file)
    <3>1. curator.verdict = "accept" =>
            /\ rec \in DOMAIN memory
            /\ memory[rec] = [ids |-> curator.meta.ids, from |-> curator.file]
      BY <2>3 DEF CuratorMarks, CuratorNames, LostInv, CuratorCites
    <3>2. \A o \in Obs : resolved'[o] = IF o \in curator.meta.ids
                                         THEN IF curator.verdict = "accept" THEN rec ELSE REJECTED
                                         ELSE resolved[o]
      BY <2>3 DEF CuratorMarks, Resolve
    <3>3. curator.verdict = "accept" => memory[rec].ids = curator.meta.ids
      BY <3>1
    <3>. HIDE DEF rec
    <3>. QED
      BY <1>m, <1>a, <1>b, <3>1, <3>2, <3>3 DEF ResolvedIsRecorded
  <2>4. UNCHANGED resolved \/ CuratorMarks \/ \E p \in Passes : CommitRows(p)
    BY DEF Next, PassStep, CuratorStep, vars, db, files, FindClusters, ScanPending, write_candidate,
           ListQueue, Skip, Consider, WriteMemory, Archive, EmitReindex, EndPass, KillPass,
           OpenCandidate, CuratorWrites, CuratorMoves, FindSuggestion, Suggest, KillCurator,
           Reference, TimePasses
  <2>. QED
    BY <2>1, <2>2, <2>3, <2>4
<1>2. \A f \in accepted' : \E m \in DOMAIN memory' : memory'[m].from = f
  <2>1. \A f \in accepted : \E m \in DOMAIN memory' : memory'[m].from = f
    BY <1>m DEF ResolvedIsRecorded
  <2>2. ASSUME NEW p \in Passes, Archive(p)
        PROVE  \E m \in DOMAIN memory' : memory'[m].from = pass[p].file
    <3>1. /\ pass[p].target \in DOMAIN memory
          /\ memory[pass[p].target] = [ids |-> pass[p].meta.ids, from |-> pass[p].file]
      BY <2>2 DEF Archive, PassNames, Graduating, LostInv, Typed, PassesTyped
    <3>2. memory[pass[p].target].from = pass[p].file
      BY <3>1
    <3>. QED
      BY <1>m, <3>1, <3>2
  <2>3. ASSUME CuratorMoves, curator.verdict = "accept"
        PROVE  \E m \in DOMAIN memory' : memory'[m].from = curator.file
    <3>1. /\ Recommended(curator.file) \in DOMAIN memory
          /\ memory[Recommended(curator.file)]
               = [ids |-> curator.meta.ids, from |-> curator.file]
      BY <2>3 DEF CuratorMoves, CuratorNames, LostInv, CuratorCites
    <3>2. memory[Recommended(curator.file)].from = curator.file
      BY <3>1
    <3>. QED
      BY <1>m, <3>1, <3>2
  <2>4. ASSUME NEW p \in Passes, Archive(p)
        PROVE  accepted' \subseteq accepted \cup {pass[p].file}
    BY <2>4 DEF Archive
  <2>5. ASSUME CuratorMoves
        PROVE  accepted' \subseteq
                 accepted \cup IF curator.verdict = "accept" THEN {curator.file} ELSE {}
    BY <2>5 DEF CuratorMoves
  <2>6. UNCHANGED accepted \/ CuratorMoves \/ \E p \in Passes : Archive(p)
    BY DEF Next, PassStep, CuratorStep, vars, db, files, FindClusters, ScanPending, write_candidate,
           ListQueue, Skip, Consider, WriteMemory, CommitRows, EmitReindex, EndPass, KillPass,
           OpenCandidate, CuratorWrites, CuratorMarks, FindSuggestion, Suggest, KillCurator,
           Reference, TimePasses
  <2>7. CASE CuratorMoves
    <3>1. CASE curator.verdict = "accept"
      BY <2>1, <2>3, <2>5, <2>7, <3>1
    <3>2. CASE curator.verdict # "accept"
      BY <2>1, <2>5, <2>7, <3>2
    <3>. QED
      BY <3>1, <3>2
  <2>. QED
    BY <2>1, <2>2, <2>4, <2>6, <2>7
<1>. QED
  BY <1>1, <1>2 DEF ResolvedIsRecorded

LEMMA NamesNext ==
    ASSUME OnePass
    PROVE  NamesInv /\ [Next]_vars => NamesInv'
<1>1. ASSUME NamesInv, Next PROVE NamesInv'
  <2>1. LostInv'
    BY <1>1, LostNext DEF NamesInv
  <2>. QED
    BY <1>1, <2>1, PassNamesNext, CuratorNamesNext, RecordedNext DEF NamesInv
<1>2. ASSUME NamesInv, UNCHANGED vars PROVE NamesInv'
  <2>1. LostInv'
    BY <1>2, LostNext DEF NamesInv
  <2>2. PassNames' /\ CuratorNames' /\ ResolvedIsRecorded'
    BY <1>2 DEF NamesInv, PassNames, CuratorNames, ResolvedIsRecorded, Recommended, vars, db, files
  <2>. QED
    BY <2>1, <2>2 DEF NamesInv
<1>. QED
  BY <1>1, <1>2

\* While consolidation passes do not overlap each other, whatever a curator does
\* meanwhile: the memory a row names is about that row, and a candidate in accepted/
\* has its memory.  (Two passes that overlap may write over each other's memory:
\* _uniquify looks at the names long before the file is written.)
THEOREM MemoriesAreRecorded ==
    ASSUME OnePass
    PROVE  Spec => []ResolvedIsRecorded
<1>1. NamesInv => ResolvedIsRecorded
  BY DEF NamesInv
<1>. QED
  BY <1>1, NamesInit, NamesNext, PTL DEF Spec

\* And no memory is ever written over by another candidate's ("Return a non-colliding
\* path", _uniquify).
THEOREM MemoriesAreKept ==
    ASSUME OnePass
    PROVE  Spec => NeverOverwritten
<1>1. NamesInv /\ [Next]_vars => [\A m \in DOMAIN memory : memory'[m].from = memory[m].from]_vars
  BY MemoriesStay
<1>. QED
  BY <1>1, NamesInit, NamesNext, PTL DEF Spec, NeverOverwritten

-----------------------------------------------------------------------------
(* While passes do not overlap: one candidate per session in the queue.     *)

\* The sessions a pass is going to write a candidate for have none.
NonePending ==
    \A p \in Passes : pass[p].step = "write" =>
        \A f \in DOMAIN queue : f[2] \notin DOMAIN pass[p].clusters

PendingInv == Typed /\ NonePending /\ OneFilePerSession

LEMMA PendingInit == Init => PendingInv
  BY TypedInit, NoClusters DEF Init, PendingInv, NonePending, OneFilePerSession, NoPass

LEMMA PendingNext ==
    ASSUME OnePass
    PROVE  PendingInv /\ [Next]_vars => PendingInv'
<1>. SUFFICES ASSUME PendingInv, [Next]_vars
              PROVE  NonePending' /\ OneFilePerSession'
  BY TypedNext DEF PendingInv
<1>. USE DEF PendingInv
<1>1. ASSUME UNCHANGED pass, DOMAIN queue' \subseteq DOMAIN queue
      PROVE  NonePending' /\ OneFilePerSession'
  BY <1>1 DEF NonePending, OneFilePerSession
<1>2. ASSUME NEW p \in Passes, pass'[p].step # "write", DOMAIN queue' \subseteq DOMAIN queue
      PROVE  NonePending' /\ OneFilePerSession'
  BY <1>2 DEF NonePending, OneFilePerSession, OnePass
<1>3. ASSUME NEW p \in Passes, ScanPending(p)
      PROVE  NonePending' /\ OneFilePerSession'
  <2>. DEFINE c == pass[p].clusters
  <2>1. pass'[p].clusters = Restrict(c, DOMAIN c \ PendingSessions) /\ UNCHANGED queue
    BY <1>3, Generates DEF ScanPending, files
  <2>2. \A f \in DOMAIN queue : f[2] \notin DOMAIN pass'[p].clusters
    BY <2>1 DEF Restrict, PendingSessions
  <2>. QED
    BY <2>1, <2>2 DEF NonePending, OneFilePerSession, OnePass
<1>4. ASSUME NEW p \in Passes, NEW s \in Sessions, write_candidate(p, s)
      PROVE  NonePending' /\ OneFilePerSession'
  <2>1. pass'[p].clusters = Without(pass[p].clusters, s)
    BY <1>4, Generates
  <2>2. DOMAIN pass'[p].clusters = DOMAIN pass[p].clusters \ {s}
    BY <2>1 DEF Without, Restrict
  <2>3. DOMAIN queue' = DOMAIN queue \cup {<<clock, s>>}
    BY <1>4 DEF write_candidate, Put
  <2>4. \A f \in DOMAIN queue : f[2] \notin DOMAIN pass[p].clusters /\ f[2] # s
    BY <1>4 DEF write_candidate, NonePending
  <2>5. NonePending'
    <3>1. \A f \in DOMAIN queue' : f[2] \notin DOMAIN pass'[p].clusters
      BY <2>2, <2>3, <2>4
    <3>. QED
      BY <3>1 DEF NonePending, OnePass
  <2>6. OneFilePerSession'
    BY <2>3, <2>4 DEF OneFilePerSession
  <2>. QED
    BY <2>5, <2>6
<1>5. ASSUME NEW p \in Passes, FindClusters(p)
      PROVE  NonePending' /\ OneFilePerSession'
  <2>1. pass'[p].step = "scan" /\ UNCHANGED queue
    BY <1>5, Generates DEF FindClusters, files
  <2>. QED
    BY <1>2, <2>1
<1>6. ASSUME NEW p \in Passes, ListQueue(p) \/ \E f \in pass[p].todo : Skip(p, f)
      PROVE  NonePending' /\ OneFilePerSession'
  <2>1. pass'[p].step = "accept" /\ UNCHANGED queue
    BY <1>6, Lists DEF ListQueue, Skip, files
  <2>. QED
    BY <1>2, <2>1
<1>7. ASSUME NEW p \in Passes, NEW f \in pass[p].todo, Consider(p, f)
      PROVE  NonePending' /\ OneFilePerSession'
  <2>1. pass'[p].step = "graduate" /\ UNCHANGED queue
    BY <1>7, Considers DEF Consider, files
  <2>. QED
    BY <1>2, <2>1
<1>8. ASSUME NEW p \in Passes,
             WriteMemory(p) \/ CommitRows(p) \/ Archive(p) \/ EmitReindex(p)
      PROVE  NonePending' /\ OneFilePerSession'
  <2>1. PICK st \in {"commit", "archive", "announce", "accept"} : Goto(p, st)
    BY <1>8 DEF WriteMemory, CommitRows, Archive, EmitReindex
  <2>2. st \in PassSteps /\ st # "write"
    BY DEF PassSteps
  <2>3. pass'[p].step = st
    BY <2>1, <2>2, Graduates
  <2>4. DOMAIN queue' \subseteq DOMAIN queue
    BY <1>8 DEF WriteMemory, CommitRows, Archive, EmitReindex, files, Without, Restrict
  <2>. QED
    BY <1>2, <2>2, <2>3, <2>4
<1>9. ASSUME NEW p \in Passes, EndPass(p) \/ KillPass(p)
      PROVE  NonePending' /\ OneFilePerSession'
  <2>1. pass'[p].step = "idle" /\ UNCHANGED queue
    BY <1>9, Ends
  <2>. QED
    BY <1>2, <2>1
<1>10. ASSUME CuratorMoves
       PROVE  NonePending' /\ OneFilePerSession'
  BY <1>1, <1>10 DEF CuratorMoves, Without, Restrict
<1>11. \/ UNCHANGED <<pass, queue>> \/ CuratorMoves
       \/ \E p \in Passes : PassStep(p) \/ KillPass(p)
  BY DEF Next, CuratorStep, vars, files, OpenCandidate, CuratorWrites, CuratorMarks,
         FindSuggestion, Suggest, KillCurator, Reference, TimePasses
<1>. QED
  BY <1>1, <1>3, <1>4, <1>5, <1>6, <1>7, <1>8, <1>9, <1>10, <1>11 DEF PassStep

\* While passes do not overlap each other, however often generation runs and wherever it
\* is killed: a session has at most one candidate in the queue (_pending_sessions).
THEOREM OneCandidateEach ==
    ASSUME OnePass
    PROVE  Spec => []OneFilePerSession
<1>1. PendingInv => OneFilePerSession
  BY DEF PendingInv
<1>. QED
  BY <1>1, PendingInit, PendingNext, PTL DEF Spec

-----------------------------------------------------------------------------
(* While passes do not overlap: a candidate graduates twice only when killed.*)

\* The memories the lane wrote from candidate f.
Graduations(f) == {m \in DOMAIN memory : m[1] = "observer" /\ memory[m].from = f}

\* What has graduated, or is about to, is older than the clock: its name is not used again.
Past ==
    /\ \A f \in Names : Graduations(f) # {} => f[1] < clock
    /\ \A p \in Passes : pass[p].step \in Graduating => pass[p].file[1] < clock

\* A candidate that is being graduated is in the queue as it was read, or gone.
AsRead ==
    \A p \in Passes : pass[p].step \in {"graduate", "commit"} /\ pass[p].file \in DOMAIN queue =>
        queue[pass[p].file] = pass[p].meta

Committing(f) == \E p \in Passes : pass[p].step = "commit" /\ pass[p].file = f

Open(f) == f \in DOMAIN queue /\ Unresolved(queue[f].ids) /\ ~Committing(f)

\* A candidate the gates let pass has graduated no more often than passes were torn.
OpenIsCharged ==
    /\ \A f \in Names : Open(f) => Cardinality(Graduations(f)) <= torn
    /\ \A p \in Passes : pass[p].step = "graduate" =>
          Cardinality(Graduations(pass[p].file)) <= torn

ChargedInv == /\ NamesInv /\ IsFiniteSet(DOMAIN memory)
              /\ Past /\ AsRead /\ OpenIsCharged /\ RegraduationIsCharged

LEMMA ChargedMeans ==
    RegraduationIsCharged <=> \A f \in Names : Cardinality(Graduations(f)) <= 1 + torn
  BY DEF RegraduationIsCharged, Graduations

LEMMA ChargedInit == OnePass /\ Init => ChargedInv
<1>. SUFFICES ASSUME Init PROVE ChargedInv
  OBVIOUS
<1>1. NamesInv
  BY NamesInit
<1>2. DOMAIN memory = {}
  BY NoClusters DEF Init
<1>3. IsFiniteSet(DOMAIN memory)
  BY <1>2, FS_EmptySet
<1>4. \A f : Graduations(f) = {}
  BY <1>2 DEF Graduations
<1>5. \A f : Cardinality(Graduations(f)) = 0
  BY <1>4, FS_EmptySet
<1>6. \A p \in Passes : pass[p].step = "idle"
  BY Idles DEF Init
<1>7. torn = 0
  BY DEF Init
<1>8. Past /\ AsRead
  BY <1>4, <1>6 DEF Past, AsRead, Graduating
<1>9. OpenIsCharged
  BY <1>5, <1>6, <1>7 DEF OpenIsCharged
<1>10. RegraduationIsCharged
  BY <1>5, <1>7, ChargedMeans
<1>. QED
  BY <1>1, <1>3, <1>8, <1>9, <1>10 DEF ChargedInv

\* What a step adds to the memories of a candidate.
LEMMA Graduated ==
    ASSUME ChargedInv, [Next]_vars
    PROVE  /\ IsFiniteSet(DOMAIN memory')
           /\ \A f \in Names : \/ Graduations(f)' = Graduations(f)
                               \/ \E p \in Passes :
                                    /\ WriteMemory(p) /\ f = pass[p].file
                                    /\ Graduations(f)' = Graduations(f) \cup {pass[p].target}
                                    /\ pass[p].target \notin Graduations(f)
<1>. USE DEF ChargedInv, NamesInv
<1>1. ASSUME UNCHANGED memory
      PROVE  /\ IsFiniteSet(DOMAIN memory')
             /\ \A f \in Names : Graduations(f)' = Graduations(f)
  BY <1>1 DEF Graduations
<1>2. ASSUME CuratorWrites
      PROVE  /\ IsFiniteSet(DOMAIN memory')
             /\ \A f \in Names : Graduations(f)' = Graduations(f)
  <2>. DEFINE rec == Recommended(curator.file)
  <2>1. rec[1] = "observer_promoted" /\ rec \notin DOMAIN memory
    BY <1>2, TopicOfName DEF CuratorWrites, CuratorNames, LostInv, Typed, CuratorTyped
  <2>2. /\ DOMAIN memory' = DOMAIN memory \cup {rec}
        /\ \A m \in DOMAIN memory : memory'[m] = memory[m]
    BY <1>2, <2>1 DEF CuratorWrites, Put
  <2>. HIDE DEF rec
  <2>3. IsFiniteSet(DOMAIN memory')
    BY <2>2, FS_AddElement
  <2>. QED
    BY <2>1, <2>2, <2>3 DEF Graduations
<1>3. ASSUME NEW p \in Passes, WriteMemory(p)
      PROVE  /\ IsFiniteSet(DOMAIN memory')
             /\ \A f \in Names : \/ Graduations(f)' = Graduations(f)
                                 \/ /\ f = pass[p].file
                                    /\ Graduations(f)' = Graduations(f) \cup {pass[p].target}
                                    /\ pass[p].target \notin Graduations(f)
  <2>. DEFINE new == pass[p].target
  <2>1. new[1] = "observer" /\ new \notin DOMAIN memory
    BY <1>3 DEF WriteMemory, PassNames, Graduating
  <2>2. /\ DOMAIN memory' = DOMAIN memory \cup {new}
        /\ \A m \in DOMAIN memory : memory'[m] = memory[m]
        /\ memory'[new] = [ids |-> pass[p].meta.ids, from |-> pass[p].file]
    BY <1>3, <2>1 DEF WriteMemory, Put
  <2>3. memory'[new].from = pass[p].file
    BY <2>2
  <2>. HIDE DEF new
  <2>4. IsFiniteSet(DOMAIN memory')
    BY <2>2, FS_AddElement
  <2>5. ASSUME NEW f \in Names, f # pass[p].file PROVE Graduations(f)' = Graduations(f)
    BY <2>2, <2>3, <2>5 DEF Graduations
  <2>6. ASSUME NEW f \in Names, f = pass[p].file
        PROVE  Graduations(f)' = Graduations(f) \cup {new} /\ new \notin Graduations(f)
    <3>1. {m \in DOMAIN memory' : m[1] = "observer" /\ memory'[m].from = f}
            = {m \in DOMAIN memory : m[1] = "observer" /\ memory[m].from = f} \cup {new}
      BY <2>1, <2>2, <2>3, <2>6
    <3>. QED
      BY <2>1, <3>1 DEF Graduations
  <2>. QED
    BY <2>4, <2>5, <2>6 DEF new
<1>4. UNCHANGED memory \/ CuratorWrites \/ \E p \in Passes : WriteMemory(p)
  BY DEF Next, PassStep, CuratorStep, vars, db, files, FindClusters, ScanPending, write_candidate,
         ListQueue, Skip, Consider, CommitRows, Archive, EmitReindex, EndPass, KillPass,
         OpenCandidate, CuratorMarks, CuratorMoves, FindSuggestion, Suggest, KillCurator,
         Reference, TimePasses
<1>5. CASE \E p \in Passes : WriteMemory(p)
  <2>1. PICK p \in Passes : WriteMemory(p)
    BY <1>5
  <2>. QED
    BY <1>3, <2>1
<1>. QED
  BY <1>1, <1>2, <1>4, <1>5

\* A pass that is between the memory and the rows commits, is killed, or waits.
LEMMA FromCommit ==
    ASSUME Typed, Next, NEW p \in Passes, pass[p].step = "commit"
    PROVE  \/ pass'[p] = pass[p]
           \/ CommitRows(p) /\ pass'[p].step = "archive"
           \/ KillPass(p)
<1>1. ASSUME NEW q \in Passes, q # p, PassStep(q) \/ KillPass(q)
      PROVE  pass'[p] = pass[p]
  <2>1. "commit" \in PassSteps /\ "archive" \in PassSteps /\ "announce" \in PassSteps
        /\ "accept" \in PassSteps
    BY DEF PassSteps
  <2>2. (\E st \in {"commit", "archive", "announce", "accept"} : Goto(q, st)) => OthersStay(q)
    BY <2>1, Graduates
  <2>3. WriteMemory(q) \/ CommitRows(q) \/ Archive(q) \/ EmitReindex(q) =>
          \E st \in {"commit", "archive", "announce", "accept"} : Goto(q, st)
    BY DEF WriteMemory, CommitRows, Archive, EmitReindex
  <2>4. OthersStay(q)
    BY <1>1, <2>2, <2>3, Generates, Lists, Considers, Ends DEF PassStep
  <2>. QED
    BY <1>1, <2>4 DEF OthersStay
<1>2. ASSUME PassStep(p)
      PROVE  CommitRows(p) /\ pass'[p].step = "archive"
  <2>1. CommitRows(p)
    BY <1>2 DEF PassStep, FindClusters, ScanPending, write_candidate, ListQueue, Skip, Consider,
                WriteMemory, Archive, EmitReindex, EndPass
  <2>2. Goto(p, "archive") /\ "archive" \in PassSteps
    BY <2>1 DEF CommitRows, PassSteps
  <2>. QED
    BY <2>1, <2>2, Graduates
<1>3. \/ UNCHANGED pass
      \/ \E q \in Passes : PassStep(q) \/ KillPass(q)
  BY DEF Next, CuratorStep, OpenCandidate, CuratorWrites, CuratorMarks, CuratorMoves,
         FindSuggestion, Suggest, KillCurator, Reference, TimePasses
<1>. QED
  BY <1>1, <1>2, <1>3

\* The queue changes by a candidate that is new, or loses one.
LEMMA QueueSteps ==
    ASSUME Typed, Next
    PROVE  \/ \A f \in DOMAIN queue' : f \in DOMAIN queue /\ queue'[f] = queue[f]
           \/ \E p \in Passes, s \in Sessions :
                /\ write_candidate(p, s) /\ pass'[p].step = "write"
                /\ UNCHANGED <<memory, resolved>>
                /\ \A f \in DOMAIN queue' \ {<<clock, s>>} :
                     f \in DOMAIN queue /\ queue'[f] = queue[f]
<1>1. ASSUME NEW p \in Passes, NEW s \in Sessions, write_candidate(p, s)
      PROVE  /\ pass'[p].step = "write"
             /\ UNCHANGED <<memory, resolved>>
             /\ \A f \in DOMAIN queue' \ {<<clock, s>>} :
                  f \in DOMAIN queue /\ queue'[f] = queue[f]
  <2>1. \A f \in DOMAIN queue' \ {<<clock, s>>} :
          f \in DOMAIN queue /\ queue'[f] = queue[f]
    BY <1>1 DEF write_candidate, Put
  <2>2. UNCHANGED <<memory, resolved>>
    BY <1>1 DEF write_candidate, db
  <2>. QED
    BY <1>1, <2>1, <2>2, Generates
<1>2. ASSUME NEW p \in Passes, Archive(p)
      PROVE  \A f \in DOMAIN queue' : f \in DOMAIN queue /\ queue'[f] = queue[f]
  BY <1>2 DEF Archive, Without, Restrict
<1>3. ASSUME CuratorMoves
      PROVE  \A f \in DOMAIN queue' : f \in DOMAIN queue /\ queue'[f] = queue[f]
  BY <1>3 DEF CuratorMoves, Without, Restrict
<1>4. \/ UNCHANGED queue \/ CuratorMoves
      \/ \E p \in Passes : Archive(p) \/ \E s \in Sessions : write_candidate(p, s)
  BY DEF Next, PassStep, CuratorStep, vars, db, files, FindClusters, ScanPending,
         ListQueue, Skip, Consider, WriteMemory, CommitRows, EmitReindex, EndPass, KillPass,
         OpenCandidate, CuratorWrites, CuratorMarks, FindSuggestion, Suggest, KillCurator,
         Reference, TimePasses
<1>. QED
  BY <1>1, <1>2, <1>3, <1>4

LEMMA ClocksGoOn ==
    ASSUME Typed, Next
    PROVE  /\ clock \in Nat /\ clock' \in Nat /\ clock <= clock'
           /\ torn \in Nat /\ torn' \in Nat /\ torn <= torn'
           /\ \A p \in Passes : KillPass(p) /\ pass[p].step = "commit" => torn' = torn + 1
<1>1. clock \in Nat /\ torn \in Nat
  BY PromotionAssumption DEF Typed, CountsTyped
<1>2. UNCHANGED clock \/ clock' = clock + 1
  BY DEF Next, PassStep, CuratorStep, vars, db, files, FindClusters, ScanPending, write_candidate,
         ListQueue, Skip, Consider, WriteMemory, CommitRows, Archive, EmitReindex, EndPass, KillPass,
         OpenCandidate, CuratorWrites, CuratorMarks, CuratorMoves, FindSuggestion, Suggest,
         KillCurator, Reference, TimePasses
<1>3. UNCHANGED torn \/ torn' = torn + 1
  BY DEF Next, PassStep, CuratorStep, vars, db, files, FindClusters, ScanPending, write_candidate,
         ListQueue, Skip, Consider, WriteMemory, CommitRows, Archive, EmitReindex, EndPass, KillPass,
         OpenCandidate, CuratorWrites, CuratorMarks, CuratorMoves, FindSuggestion, Suggest,
         KillCurator, Reference, TimePasses
<1>. QED
  BY <1>1, <1>2, <1>3 DEF KillPass

LEMMA PastNext ==
    ASSUME ChargedInv, Next
    PROVE  Past'
<1>. USE DEF ChargedInv, NamesInv, LostInv
<1>t. /\ clock \in Nat /\ clock' \in Nat /\ clock <= clock'
      /\ \A f \in Names : f[1] \in Nat
  BY ClocksGoOn, TopicOfName, PromotionAssumption
<1>n. \A p \in Passes : pass[p].step \in Graduating => pass[p].file \in Names
  BY DEF Typed, PassesTyped
<1>1. ASSUME NEW f \in Names, Graduations(f)' # {}
      PROVE  f[1] < clock'
  <2>1. CASE Graduations(f)' = Graduations(f)
    BY <1>1, <1>t, <2>1 DEF Past
  <2>2. ASSUME NEW p \in Passes, WriteMemory(p), f = pass[p].file
        PROVE  f[1] < clock'
    BY <1>t, <2>2 DEF WriteMemory, Graduating, Past
  <2>. QED
    BY <2>1, <2>2, Graduated
<1>2. ASSUME NEW p \in Passes, pass'[p].step \in Graduating
      PROVE  pass'[p].file[1] < clock'
  <2>1. ASSUME pass[p].step \in Graduating, pass'[p].file = pass[p].file
        PROVE  pass'[p].file[1] < clock'
    BY <1>t, <1>n, <2>1 DEF Past
  <2>2. ASSUME NEW f \in pass[p].todo, Consider(p, f)
        PROVE  pass'[p].file[1] < clock'
    <3>1. pass'[p].file = f /\ f \in Names
      BY <2>2, Considers
    <3>2. clock - f[1] >= MinAge /\ MinAge \in Nat /\ MinAge >= 1
      BY <2>2, PromotionAssumption DEF Consider, Qualified, OldEnough
    <3>. QED
      BY <1>t, <3>1, <3>2
  <2>. QED
    BY <1>2, <2>1, <2>2, InHand
<1>. QED
  BY <1>1, <1>2 DEF Past, Names

LEMMA AsReadNext ==
    ASSUME OnePass, ChargedInv, Next
    PROVE  AsRead'
<1>. SUFFICES ASSUME NEW p \in Passes, pass'[p].step \in {"graduate", "commit"},
                     pass'[p].file \in DOMAIN queue'
              PROVE  queue'[pass'[p].file] = pass'[p].meta
  BY DEF AsRead
<1>. USE DEF ChargedInv, NamesInv, LostInv
<1>1. \A f \in DOMAIN queue' : f \in DOMAIN queue /\ queue'[f] = queue[f]
  BY QueueSteps DEF OnePass
<1>2. CASE pass'[p] = pass[p]
  BY <1>1, <1>2 DEF AsRead
<1>3. ASSUME NEW f \in pass[p].todo, Consider(p, f)
      PROVE  queue'[pass'[p].file] = pass'[p].meta
  <2>1. pass'[p].file = f /\ pass'[p].meta = queue[f]
    BY <1>3, Considers
  <2>. QED
    BY <1>1, <2>1
<1>4. ASSUME WriteMemory(p), pass'[p].file = pass[p].file, pass'[p].meta = pass[p].meta
      PROVE  queue'[pass'[p].file] = pass'[p].meta
  BY <1>1, <1>4 DEF WriteMemory, AsRead
<1>5. pass'[p].step \in Graduating
  BY DEF Graduating
<1>. QED
  BY <1>2, <1>3, <1>4, <1>5, InHand

LEMMA CardinalitiesAreNat ==
    ASSUME ChargedInv, NEW f
    PROVE  IsFiniteSet(Graduations(f)) /\ Cardinality(Graduations(f)) \in Nat
<1>1. Graduations(f) \subseteq DOMAIN memory
  BY DEF Graduations
<1>. QED
  BY <1>1, FS_Subset, FS_CardinalityType DEF ChargedInv

LEMMA OpenNext ==
    ASSUME OnePass, ChargedInv, Next, NEW f \in Names, Open(f)'
    PROVE  Cardinality(Graduations(f))' <= torn'
<1>. USE DEF ChargedInv, NamesInv, LostInv
<1>t. /\ torn \in Nat /\ torn' \in Nat /\ torn <= torn'
      /\ clock \in Nat /\ Cardinality(Graduations(f)) \in Nat
  BY ClocksGoOn, CardinalitiesAreNat
<1>o. f \in DOMAIN queue' /\ (\E o \in queue'[f].ids : resolved'[o] = NULL)
      /\ \A p \in Passes : ~(pass'[p].step = "commit" /\ pass'[p].file = f)
  BY DEF Open, Unresolved, Committing
<1>1. Graduations(f)' = Graduations(f)
  <2>. SUFFICES ASSUME NEW p \in Passes, WriteMemory(p), f = pass[p].file
                PROVE  FALSE
    BY Graduated
  <2>1. Goto(p, "commit") /\ "commit" \in PassSteps
    BY DEF WriteMemory, PassSteps
  <2>2. pass'[p].step = "commit" /\ pass'[p].file = f
    BY <2>1, Graduates
  <2>. QED
    BY <1>o, <2>2
<1>2. CASE f \in DOMAIN queue /\ queue'[f] = queue[f]
  <2>1. queue[f].ids \subseteq Obs
    BY <1>2 DEF Typed, FilesTyped, Filed, Cluster
  <2>2. Unresolved(queue[f].ids)
    BY <1>o, <1>2, <2>1, RowsStay DEF Unresolved
  <2>3. CASE ~Committing(f)
    BY <1>t, <1>1, <1>2, <2>2, <2>3 DEF Open, OpenIsCharged
  <2>4. ASSUME NEW p \in Passes, pass[p].step = "commit", pass[p].file = f
        PROVE  Cardinality(Graduations(f))' <= torn'
    <3>1. pass'[p] # pass[p]
      BY <1>o, <2>4
    <3>2. CASE KillPass(p)
      <4>1. torn' = torn + 1
        BY <2>4, <3>2, ClocksGoOn
      <4>. QED
        BY <1>t, <1>1, <4>1, ChargedMeans
    <3>3. CASE CommitRows(p)
      <4>1. queue[f] = pass[p].meta /\ pass[p].target \in Memories
        BY <1>2, <2>4 DEF AsRead, Typed, PassesTyped, Graduating
      <4>2. \A o \in queue[f].ids : resolved'[o] # NULL
        BY <2>1, <3>3, <4>1, NamesDiffer DEF CommitRows, Resolve
      <4>. QED
        BY <1>o, <1>2, <4>2
    <3>. QED
      BY <2>4, <3>1, <3>2, <3>3, FromCommit
  <2>. QED
    BY <2>3, <2>4 DEF Committing
<1>3. CASE f[1] = clock
  <2>1. Graduations(f) = {}
    BY <1>3, <1>t DEF Past
  <2>2. Cardinality(Graduations(f)) = 0
    BY <2>1, FS_EmptySet
  <2>. QED
    BY <1>t, <1>1, <2>2
<1>4. (f \in DOMAIN queue /\ queue'[f] = queue[f]) \/ f[1] = clock
  BY <1>o, QueueSteps
<1>. QED
  BY <1>2, <1>3, <1>4

LEMMA ChargedNext ==
    ASSUME OnePass, ChargedInv, Next
    PROVE  OpenIsCharged' /\ RegraduationIsCharged'
<1>. USE DEF ChargedInv, NamesInv, LostInv
<1>t. torn \in Nat /\ torn' \in Nat /\ torn <= torn'
  BY ClocksGoOn
<1>n. \A p \in Passes : pass[p].step \in Graduating => pass[p].file \in Names
  BY DEF Typed, PassesTyped
<1>w. ASSUME NEW p \in Passes, WriteMemory(p)
      PROVE  pass'[p].step = "commit"
  <2>1. Goto(p, "commit") /\ "commit" \in PassSteps
    BY <1>w DEF WriteMemory, PassSteps
  <2>. QED
    BY <2>1, Graduates
<1>1. \A f \in Names : Open(f)' => Cardinality(Graduations(f))' <= torn'
  BY OpenNext
<1>2. ASSUME NEW p \in Passes, pass'[p].step = "graduate", NEW f, f = pass'[p].file
      PROVE  Cardinality(Graduations(f))' <= torn'
  <2>1. \A q \in Passes : ~WriteMemory(q)
    BY <1>2, <1>w DEF OnePass
  <2>2. ASSUME f \in Names, Cardinality(Graduations(f)) <= torn
        PROVE  Cardinality(Graduations(f))' <= torn'
    <3>1. Graduations(f)' = Graduations(f)
      BY <2>1, <2>2, Graduated
    <3>2. Cardinality(Graduations(f)) \in Nat
      BY CardinalitiesAreNat
    <3>. QED
      BY <1>t, <2>2, <3>1, <3>2
  <2>3. CASE pass'[p] = pass[p]
    BY <1>2, <1>n, <2>2, <2>3 DEF OpenIsCharged, Graduating
  <2>4. ASSUME NEW g \in pass[p].todo, Consider(p, g)
        PROVE  Cardinality(Graduations(f))' <= torn'
    <3>1. f = g /\ g \in Names
      BY <1>2, <2>4, Considers
    <3>2. ~Committing(g)
      BY <2>4 DEF Consider, Committing, OnePass
    <3>3. Open(g)
      BY <2>4, <3>2 DEF Consider, Qualified, Open
    <3>. QED
      BY <2>2, <3>1, <3>3 DEF OpenIsCharged
  <2>5. pass'[p].step \in Graduating
    BY <1>2 DEF Graduating
  <2>. QED
    BY <1>2, <2>3, <2>4, <2>5, InHand
<1>3. OpenIsCharged'
  <2>1. \A p \in Passes : pass'[p].step = "graduate" =>
          Cardinality({m \in DOMAIN memory' :
                         m[1] = "observer" /\ memory'[m].from = pass'[p].file}) <= torn'
    <3>. SUFFICES ASSUME NEW p \in Passes, pass'[p].step = "graduate"
                  PROVE  Cardinality({m \in DOMAIN memory' :
                            m[1] = "observer" /\ memory'[m].from = pass'[p].file}) <= torn'
      OBVIOUS
    <3>1. PICK f : f = pass'[p].file
      OBVIOUS
    <3>2. Cardinality(Graduations(f))' <= torn'
      BY <1>2, <3>1
    <3>. QED
      BY <3>1, <3>2 DEF Graduations
  <2>. QED
    BY <1>1, <2>1 DEF OpenIsCharged, Graduations
<1>4. RegraduationIsCharged'
  <2>. SUFFICES ASSUME NEW f \in Names
                PROVE  Cardinality(Graduations(f))' <= 1 + torn'
    BY DEF RegraduationIsCharged, Graduations, Names
  <2>1. IsFiniteSet(Graduations(f)) /\ Cardinality(Graduations(f)) \in Nat
    BY CardinalitiesAreNat
  <2>2. CASE Graduations(f)' = Graduations(f)
    BY <1>t, <2>1, <2>2, ChargedMeans
  <2>3. ASSUME NEW p \in Passes, WriteMemory(p), f = pass[p].file,
               Graduations(f)' = Graduations(f) \cup {pass[p].target},
               pass[p].target \notin Graduations(f)
        PROVE  Cardinality(Graduations(f))' <= 1 + torn'
    <3>1. Cardinality(Graduations(f)') = Cardinality(Graduations(f)) + 1
      BY <2>1, <2>3, FS_AddElement
    <3>2. Cardinality(Graduations(f)) <= torn
      BY <2>3 DEF WriteMemory, OpenIsCharged
    <3>. QED
      BY <1>t, <2>1, <3>1, <3>2
  <2>. QED
    BY <2>2, <2>3, Graduated
<1>. QED
  BY <1>3, <1>4

LEMMA ChargedStep ==
    ASSUME OnePass
    PROVE  ChargedInv /\ [Next]_vars => ChargedInv'
<1>1. ASSUME ChargedInv, Next PROVE ChargedInv'
  <2>1. NamesInv' /\ IsFiniteSet(DOMAIN memory')
    BY <1>1, NamesNext, Graduated DEF ChargedInv
  <2>. QED
    BY <1>1, <2>1, PastNext, AsReadNext, ChargedNext DEF ChargedInv
<1>2. ASSUME ChargedInv, UNCHANGED vars PROVE ChargedInv'
  <2>1. NamesInv'
    BY <1>2, NamesNext DEF ChargedInv
  <2>2. IsFiniteSet(DOMAIN memory')
    BY <1>2 DEF ChargedInv, vars
  <2>3. Past' /\ AsRead' /\ OpenIsCharged' /\ RegraduationIsCharged'
    BY <1>2 DEF ChargedInv, Past, AsRead, OpenIsCharged, Open, Unresolved, Committing, Graduations,
                RegraduationIsCharged, Names, vars, db, files
  <2>. QED
    BY <2>1, <2>2, <2>3 DEF ChargedInv
<1>. QED
  BY <1>1, <1>2

\* While passes do not overlap each other: a candidate has one memory from the lane, and
\* one more for each pass that was killed between a memory and its rows (the gate on
\* unresolved rows, and the age that keeps a name from being used again).
THEOREM GraduationsAreCharged ==
    ASSUME OnePass
    PROVE  Spec => []RegraduationIsCharged
<1>1. ChargedInv => RegraduationIsCharged
  BY DEF ChargedInv
<1>2. Init => ChargedInv
  BY ChargedInit
<1>. QED
  BY <1>1, <1>2, ChargedStep, PTL DEF Spec
=============================================================================
