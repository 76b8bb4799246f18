----------------------------- MODULE Promotion -----------------------------
(***************************************************************************)
(* The observer's promotion lane, promotion_candidate_generator.py: a      *)
(* consolidation pass writes a candidate file for every session with       *)
(* enough referenced observations (run_generation) and then graduates the  *)
(* candidates that clear its gates into memory/ (auto_accept), while a     *)
(* curator accepts and rejects candidates, or asks for suggestions, from   *)
(* the command line.                                                       *)
(*                                                                         *)
(* The state is spread over files and observations.db, and a graduation    *)
(* touches them one after the other: the memory file, the rows, the        *)
(* candidate file, the reindex event.  Each is a step of its own here, and *)
(* a process may be killed between any two.  Both feature flags are on.    *)
(*                                                                         *)
(* A candidate file's name is <<second, session>> (the topic in it adds    *)
(* nothing: it is the session's); a memory's is <<lane, topic, n>>, n being *)
(* the suffix of _uniquify.  Scores are counted in twentieths.             *)
(***************************************************************************)
EXTENDS Integers, FiniteSets, FiniteSetsExt, Functions

CONSTANTS
    Obs,           \* observations of ended or running sessions
    Sessions,      \* sessions
    SessionOf,     \* SessionOf[o]: the session observation o belongs to
    Topic,         \* Topic[s]: the display topic of session s
    Passes,        \* processes that run a consolidation pass
    MinPerSession, \* MIN_ELIGIBLE_PER_SESSION
    RefThreshold,  \* REF_THRESHOLD
    ScoreMin,      \* AUTO_ACCEPT_SCORE_MIN
    MinAge,        \* AUTO_ACCEPT_AGE_MIN_HOURS
    AutoRefMin,    \* AUTO_REF_MIN
    AutoScoreMin,  \* AUTO_CLUSTER_SCORE_MIN
    MaxClock,      \* bound: the clock
    MaxRefs,       \* bound: references of an observation
    MaxReviews,    \* bound: commands of the curator
    MaxCrashes     \* bound: killed processes

NULL     == << >>           \* no file, no memory, SQL NULL
REJECTED == <<"rejected">>

ASSUME PromotionAssumption ==
    /\ SessionOf \in [Obs -> Sessions]
    /\ DOMAIN Topic = Sessions
    /\ IsFiniteSet(Obs) /\ IsFiniteSet(Passes)
    /\ {MinPerSession, RefThreshold, ScoreMin, MinAge, AutoRefMin, AutoScoreMin,
        MaxClock, MaxRefs, MaxReviews, MaxCrashes} \subseteq Nat
    /\ RefThreshold >= 1 /\ MinPerSession >= 1 /\ MinAge >= 1

VARIABLES
    refs,      \* observations.referenced_count
    resolved,  \* observations.promoted_to_memory_id
    queue,     \* observer/*.md: the pending candidates
    auto,      \* observer/auto/*.md: the suggestions
    accepted,  \* names in observer/accepted/
    refused,   \* names in observer/rejected/
    memory,    \* observer memories in memory/
    announced, \* memories a reindex event was emitted for
    clock,
    pass,      \* pass[p]: where the pass of p is
    curator,   \* where the curator's command is
    used,      \* how often each bounded event happened
    torn       \* history: passes killed between a memory and its rows

db    == <<refs, resolved>>
files == <<queue, auto, accepted, refused>>
vars  == <<db, files, memory, announced, clock, pass, curator, used, torn>>

Names    == (0..MaxClock) \X Sessions
Cluster  == [ids : SUBSET Obs, score : 0..20]
Topics   == Range(Topic)
Memories == {"observer", "observer_promoted"} \X Topics \X (1..99)

NoCluster == [ids |-> {}, score |-> 0]
NoPass    == [step |-> "idle", clusters |-> << >>, todo |-> {}, file |-> NULL,
              meta |-> NoCluster, target |-> NULL]
NoCommand == [step |-> "idle", verdict |-> "none", dir |-> "none", file |-> NULL,
              meta |-> NoCluster]

TypeOK ==
    /\ refs \in [Obs -> 0..MaxRefs]
    /\ resolved \in [Obs -> {NULL, REJECTED} \cup Memories]
    /\ DOMAIN queue \subseteq Names /\ \A f \in DOMAIN queue : queue[f] \in Cluster
    /\ DOMAIN auto \subseteq Names /\ \A f \in DOMAIN auto : auto[f] \in Cluster
    /\ accepted \subseteq Names /\ refused \subseteq Names
    /\ DOMAIN memory \subseteq Memories
    /\ \A m \in DOMAIN memory : memory[m] \in [ids : SUBSET Obs, from : Names]
    /\ announced \subseteq DOMAIN memory
    /\ clock \in 0..MaxClock
    /\ \A p \in Passes :
        /\ pass[p].step \in {"idle", "scan", "write", "accept", "graduate", "commit",
                             "archive", "announce"}
        /\ DOMAIN pass[p].clusters \subseteq Sessions
        /\ \A s \in DOMAIN pass[p].clusters : pass[p].clusters[s] \in Cluster
        /\ pass[p].todo \subseteq Names /\ pass[p].file \in Names \cup {NULL}
        /\ pass[p].meta \in Cluster /\ pass[p].target \in Memories \cup {NULL}
    /\ curator.step \in {"idle", "suggest", "write", "mark", "move"}
    /\ curator.verdict \in {"none", "accept", "reject"}
    /\ curator.file \in Names \cup {NULL} /\ curator.meta \in Cluster
    /\ used \in [reviews : 0..MaxReviews, crashes : 0..MaxCrashes]
    /\ torn \in 0..MaxCrashes

Init ==
    /\ refs = [o \in Obs |-> 0] /\ resolved = [o \in Obs |-> NULL]
    /\ queue = << >> /\ auto = << >> /\ accepted = {} /\ refused = {}
    /\ memory = << >> /\ announced = {}
    /\ clock = 0
    /\ pass = [p \in Passes |-> NoPass] /\ curator = NoCommand
    /\ used = [reviews |-> 0, crashes |-> 0] /\ torn = 0

-----------------------------------------------------------------------------
(***************************************************************************)
(* What the passes and the curator share.                                  *)
(***************************************************************************)
Put(f, name, value) == [n \in DOMAIN f \cup {name} |-> IF n = name THEN value ELSE f[n]]
Without(f, name)    == Restrict(f, DOMAIN f \ {name})

References(ids) == {r \in ids \X (1..MaxRefs) : r[2] <= refs[r[1]]}

(* A cluster's score: a tenth for each reference, a twentieth for each observation. *)
Score(ids) ==
    LET raw == 2 * Cardinality(References(ids)) + Cardinality(ids)
    IN  IF raw > 20 THEN 20 ELSE raw

Eligible(s, threshold) ==
    {o \in Obs : SessionOf[o] = s /\ refs[o] >= threshold /\ resolved[o] = NULL}

(* The unresolved observations, by session, of the sessions that have enough of them. *)
find_candidates(threshold) ==
    LET big == {s \in Sessions : Cardinality(Eligible(s, threshold)) >= MinPerSession}
    IN  [s \in big |-> [ids |-> Eligible(s, threshold),
                        score |-> Score(Eligible(s, threshold))]]

(* The UPDATE of a candidate's observations, whatever they held, and its commit. *)
Resolve_NoCommit(ids, value) == UNCHANGED resolved

Resolve(ids, value) == resolved' = [o \in Obs |-> IF o \in ids THEN value ELSE resolved[o]]

(* A memory name not in memory/: the topic's own, or the first free suffix. *)
Uniquify_Plain(t) == <<"observer", t, 1>>

Uniquify_FromZero(t) ==
    <<"observer", t, Min({n \in 0..99 : <<"observer", t, n>> \notin DOMAIN memory})>>

FreeSuffixes(t) == {n \in 1..99 : <<"observer", t, n>> \notin DOMAIN memory}

Uniquify(t) == <<"observer", t, Min(FreeSuffixes(t))>>

-----------------------------------------------------------------------------
(***************************************************************************)
(* run_generation.                                                         *)
(***************************************************************************)
Goto(p, step) == pass' = [pass EXCEPT ![p].step = step]

FindClusters(p) ==
    /\ pass[p].step = "idle"
    /\ pass' = [pass EXCEPT ![p].step = "scan", ![p].clusters = find_candidates(RefThreshold)]
    /\ UNCHANGED <<db, files, memory, announced, clock, curator, used, torn>>

(* The sessions that have a candidate file in the queue already. *)
PendingSessions_Today == {f[2] : f \in {g \in DOMAIN queue : g[1] = clock}}

PendingSessions_Ever == {f[2] : f \in DOMAIN queue \cup accepted}

PendingSessions == {f[2] : f \in DOMAIN queue}

ScanPending(p) ==
    /\ pass[p].step = "scan"
    /\ pass' = [pass EXCEPT ![p].step = "write",
                            ![p].clusters = Restrict(@, DOMAIN @ \ PendingSessions)]
    /\ UNCHANGED <<db, files, memory, announced, clock, curator, used, torn>>

write_candidate(p, s) ==
    /\ pass[p].step = "write" /\ s \in DOMAIN pass[p].clusters
    /\ queue' = Put(queue, <<clock, s>>, pass[p].clusters[s])
    /\ pass' = [pass EXCEPT ![p].clusters = Without(@, s)]
    /\ UNCHANGED <<db, auto, accepted, refused, memory, announced, clock, curator, used, torn>>

-----------------------------------------------------------------------------
(***************************************************************************)
(* auto_accept: the queue's files in order, one after the other.           *)
(***************************************************************************)
ListQueue(p) ==
    /\ pass[p].step = "write" /\ pass[p].clusters = << >>
    /\ pass' = [pass EXCEPT ![p].step = "accept", ![p].todo = DOMAIN queue]
    /\ UNCHANGED <<db, files, memory, announced, clock, curator, used, torn>>

(* The sorted list starts with the oldest names; within a second the topics decide. *)
Oldest(p) == {f \in pass[p].todo : \A g \in pass[p].todo : f[1] <= g[1]}

Unresolved_Ungated(ids) == ids # {}

Unresolved(ids) == \E o \in ids : resolved[o] = NULL

OldEnough(f) == clock - f[1] >= MinAge

Qualified_Above(f) ==
    /\ queue[f].score > ScoreMin
    /\ OldEnough(f)
    /\ Unresolved(queue[f].ids)

Qualified(f) ==
    /\ queue[f].score >= ScoreMin
    /\ OldEnough(f)
    /\ Unresolved(queue[f].ids)

(* A file that fails a gate, is gone, or whose memory finds no free name (_uniquify *)
(* raises) is passed over; it stays where it is.                                  *)
Skip(p, f) ==
    /\ pass[p].step = "accept" /\ f \in Oldest(p)
    /\ f \in DOMAIN queue /\ Qualified(f) => FreeSuffixes(Topic[f[2]]) = {}
    /\ pass' = [pass EXCEPT ![p].todo = @ \ {f}]
    /\ UNCHANGED <<db, files, memory, announced, clock, curator, used, torn>>

(* The gates, and the free name the memory is going to have. *)
Consider(p, f) ==
    /\ pass[p].step = "accept" /\ f \in Oldest(p)
    /\ f \in DOMAIN queue /\ Qualified(f) /\ FreeSuffixes(Topic[f[2]]) # {}
    /\ pass' = [pass EXCEPT ![p] =
          [step |-> "graduate", clusters |-> @.clusters, todo |-> @.todo \ {f}, file |-> f,
           meta |-> queue[f], target |-> Uniquify(Topic[f[2]])]]
    /\ UNCHANGED <<db, files, memory, announced, clock, curator, used, torn>>

WriteMemory(p) ==
    /\ pass[p].step = "graduate"
    /\ memory' = Put(memory, pass[p].target, [ids |-> pass[p].meta.ids, from |-> pass[p].file])
    /\ Goto(p, "commit")
    /\ UNCHANGED <<db, files, announced, clock, curator, used, torn>>

CommitRows(p) ==
    /\ pass[p].step = "commit"
    /\ Resolve(pass[p].meta.ids, pass[p].target)
    /\ Goto(p, "archive")
    /\ UNCHANGED <<refs, files, memory, announced, clock, curator, used, torn>>

(* The rename raises when somebody moved the file; the next one is considered. *)
Archive(p) ==
    /\ pass[p].step = "archive"
    /\ IF pass[p].file \in DOMAIN queue
       THEN /\ queue' = Without(queue, pass[p].file)
            /\ accepted' = accepted \cup {pass[p].file}
            /\ Goto(p, "announce")
       ELSE /\ UNCHANGED <<queue, accepted>>
            /\ Goto(p, "accept")
    /\ UNCHANGED <<db, auto, refused, memory, announced, clock, curator, used, torn>>

EmitReindex(p) ==
    /\ pass[p].step = "announce"
    /\ announced' = announced \cup {pass[p].target}
    /\ Goto(p, "accept")
    /\ UNCHANGED <<db, files, memory, clock, curator, used, torn>>

EndPass(p) ==
    /\ pass[p].step = "accept" /\ pass[p].todo = {}
    /\ pass' = [pass EXCEPT ![p] = NoPass]
    /\ UNCHANGED <<db, files, memory, announced, clock, curator, used, torn>>

-----------------------------------------------------------------------------
(***************************************************************************)
(* The curator: --accept, --reject and --auto-suggest.                     *)
(***************************************************************************)
MayReview ==
    /\ curator.step = "idle" /\ used.reviews < MaxReviews
    /\ used' = [used EXCEPT !.reviews = @ + 1]

(* The queue is looked at before auto/. *)
DirOf(f) == IF f \in DOMAIN queue THEN "queue" ELSE "auto"
FileAt(f) == IF f \in DOMAIN queue THEN queue[f] ELSE auto[f]

Recommended(f) == <<"observer_promoted", Topic[f[2]], 1>>

(* cmd_accept gives up when the recommended name is taken; cmd_reject has no such check. *)
OpenCandidate(f, verdict) ==
    /\ MayReview
    /\ f \in DOMAIN queue \cup DOMAIN auto
    /\ verdict = "accept" => Recommended(f) \notin DOMAIN memory
    /\ curator' = [step |-> IF verdict = "accept" THEN "write" ELSE "mark",
                   verdict |-> verdict, dir |-> DirOf(f), file |-> f, meta |-> FileAt(f)]
    /\ UNCHANGED <<db, files, memory, announced, clock, pass, torn>>

CuratorWrites ==
    /\ curator.step = "write"
    /\ memory' = Put(memory, Recommended(curator.file),
                     [ids |-> curator.meta.ids, from |-> curator.file])
    /\ curator' = [curator EXCEPT !.step = "mark"]
    /\ UNCHANGED <<db, files, announced, clock, pass, used, torn>>

CuratorMarks ==
    /\ curator.step = "mark"
    /\ Resolve(curator.meta.ids,
               IF curator.verdict = "accept" THEN Recommended(curator.file) ELSE REJECTED)
    /\ curator' = [curator EXCEPT !.step = "move"]
    /\ UNCHANGED <<refs, files, memory, announced, clock, pass, used, torn>>

CuratorMoves ==
    /\ curator.step = "move"
    /\ LET f    == curator.file
           here == IF curator.dir = "queue" THEN f \in DOMAIN queue ELSE f \in DOMAIN auto
       IN  /\ queue' = IF here /\ curator.dir = "queue" THEN Without(queue, f) ELSE queue
           /\ auto'  = IF here /\ curator.dir = "auto" THEN Without(auto, f) ELSE auto
           /\ accepted' = IF here /\ curator.verdict = "accept" THEN accepted \cup {f} ELSE accepted
           /\ refused'  = IF here /\ curator.verdict = "reject" THEN refused \cup {f} ELSE refused
    /\ curator' = NoCommand
    /\ UNCHANGED <<db, memory, announced, clock, pass, used, torn>>

(* --auto-suggest looks at no file: every command suggests the same sessions again. *)
FindSuggestion(s) ==
    /\ MayReview
    /\ LET found == find_candidates(AutoRefMin)
       IN  /\ s \in DOMAIN found /\ found[s].score >= AutoScoreMin
           /\ clock >= MinAge
           /\ curator' = [NoCommand EXCEPT !.step = "suggest", !.file = <<clock, s>>,
                                           !.meta = found[s]]
    /\ UNCHANGED <<db, files, memory, announced, clock, pass, torn>>

Suggest ==
    /\ curator.step = "suggest"
    /\ auto' = Put(auto, <<clock, curator.file[2]>>, curator.meta)
    /\ curator' = NoCommand
    /\ UNCHANGED <<db, queue, accepted, refused, memory, announced, clock, pass, used, torn>>

-----------------------------------------------------------------------------
(***************************************************************************)
(* The rest of the world.                                                  *)
(***************************************************************************)
(* prefetch surfaced observation o: mark_referenced. *)
Reference(o) ==
    /\ refs[o] < MaxRefs
    /\ refs' = [refs EXCEPT ![o] = @ + 1]
    /\ UNCHANGED <<resolved, files, memory, announced, clock, pass, curator, used, torn>>

TimePasses ==
    /\ clock < MaxClock
    /\ clock' = clock + 1
    /\ UNCHANGED <<db, files, memory, announced, pass, curator, used, torn>>

KillPass(p) ==
    /\ pass[p].step # "idle" /\ used.crashes < MaxCrashes
    /\ used' = [used EXCEPT !.crashes = @ + 1]
    /\ torn' = IF pass[p].step = "commit" THEN torn + 1 ELSE torn
    /\ pass' = [pass EXCEPT ![p] = NoPass]
    /\ UNCHANGED <<db, files, memory, announced, clock, curator>>

KillCurator ==
    /\ curator.step # "idle" /\ used.crashes < MaxCrashes
    /\ used' = [used EXCEPT !.crashes = @ + 1]
    /\ curator' = NoCommand
    /\ UNCHANGED <<db, files, memory, announced, clock, pass, torn>>

PassStep(p) ==
    \/ FindClusters(p) \/ ScanPending(p) \/ ListQueue(p) \/ EndPass(p)
    \/ \E s \in Sessions : write_candidate(p, s)
    \/ \E f \in pass[p].todo : Skip(p, f) \/ Consider(p, f)
    \/ WriteMemory(p) \/ CommitRows(p) \/ Archive(p) \/ EmitReindex(p)

CuratorStep == CuratorWrites \/ CuratorMarks \/ CuratorMoves \/ Suggest

Next ==
    \/ \E p \in Passes : PassStep(p) \/ KillPass(p)
    \/ \E f \in DOMAIN queue \cup DOMAIN auto, v \in {"accept", "reject"} : OpenCandidate(f, v)
    \/ \E s \in Sessions : FindSuggestion(s)
    \/ CuratorStep \/ KillCurator
    \/ \E o \in Obs : Reference(o)
    \/ TimePasses

Spec == Init /\ [][Next]_vars

(* Sleep cycles recur, a started command is carried through, the clock goes on. *)
FairSpec == Spec /\ \A p \in Passes : WF_vars(PassStep(p))
                 /\ WF_vars(CuratorStep) /\ WF_vars(TimePasses)

-----------------------------------------------------------------------------
(***************************************************************************)
(* Properties.                                                             *)
(***************************************************************************)
(* What is resolved to a memory is in memory/, and what left the queue by a *)
(* verdict is resolved: wherever a pass or a command is killed, the memory  *)
(* is there before the rows say so, and the rows before the candidate goes. *)
NothingLost ==
    /\ \A o \in Obs : resolved[o] \in {NULL, REJECTED} \cup DOMAIN memory
    /\ \A f \in accepted \cup refused : \E o \in Obs : SessionOf[o] = f[2] /\ resolved[o] # NULL

(* The memory an observation is resolved to is one about it, and a candidate *)
(* in accepted/ has its memory: nobody wrote another candidate's under that  *)
(* name in between.                                                          *)
ResolvedIsRecorded ==
    /\ \A o \in Obs : resolved[o] \in DOMAIN memory => o \in memory[resolved[o]].ids
    /\ \A f \in accepted : \E m \in DOMAIN memory : memory[m].from = f

(* A candidate graduates again only if a pass was killed with its memory    *)
(* written and its rows not: the gate on unresolved rows stops all others.  *)
RegraduationIsCharged ==
    \A f \in Names :
        Cardinality({m \in DOMAIN memory : m[1] = "observer" /\ memory[m].from = f}) <= 1 + torn

(* "Skips sessions that already have a pending candidate file": however     *)
(* often generation runs, a session has at most one candidate in the queue. *)
OneFilePerSession == \A f, g \in DOMAIN queue : f[2] = g[2] => f = g

(* "Return a non-colliding path": no memory is overwritten by another's.    *)
NeverOverwritten ==
    [][\A m \in DOMAIN memory : memory'[m].from = memory[m].from]_vars

(* A candidate that clears the score gate and has an unresolved observation *)
(* graduates, or somebody resolves its observations, once it is old enough. *)
Graduable(f) == f \in DOMAIN queue /\ queue[f].score >= ScoreMin /\ Unresolved(queue[f].ids)

QualifiedGraduates ==
    \A f \in Names : f[1] + MinAge <= MaxClock => (Graduable(f) ~> ~Graduable(f))

(* "Surfaces reused observations for human review": when a session has      *)
(* enough unresolved observations, a candidate in the queue comes to cite   *)
(* one of them, or they are resolved.                                       *)
Waiting(s)  == Cardinality(Eligible(s, RefThreshold)) >= MinPerSession
Surfaced(s) == \E f \in DOMAIN queue : queue[f].ids \cap Eligible(s, RefThreshold) # {}

Surfaces == \A s \in Sessions : Waiting(s) ~> (Surfaced(s) \/ ~Waiting(s))

(* Surfaces holds where nothing is killed and nobody resolves observations  *)
(* under a candidate in the queue; either may block the session for good.   *)
Disturbed == used.crashes + used.reviews > 0

SurfacesUndisturbed ==
    \A s \in Sessions : Waiting(s) ~> (Surfaced(s) \/ ~Waiting(s) \/ Disturbed)
=============================================================================
