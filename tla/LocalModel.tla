---------------------------- MODULE LocalModel ----------------------------
(***************************************************************************)
(* Where a language-model task goes (tier_router.route), the local server  *)
(* it may go to (providers/dartagnan_provider.py) and the supervisor that  *)
(* starts and stops this server (e2b_daemon.py).                           *)
(*                                                                         *)
(* A supervisor guards against a second server twice: by the server's      *)
(* /health, and, while the weights load and nobody answers there, by a     *)
(* lock file that vanishes with the process that holds it.                 *)
(***************************************************************************)
EXTENDS Naturals, FiniteSets

CONSTANTS
    Callers,      \* processes with one task each
    Tasks,        \* their kinds, as in TIER_TABLE:
    PreferLocal,  \*   prefer_local (hyde_expansion, importance_scoring, ...)
    SlowTasks,    \*   slow_acceptable (memory_classification, ...)
    Dart2Tasks,   \*   local_fallback: dart2 (multi_doc_synthesis, ...)
    TimedTasks,   \*   run in a thread that is given up after 1.5 s (hyde)
    Supervisors,  \* e2b_daemon processes that may be alive at once
    Kids          \* llama-server processes that may be alive at once

ASSUME LocalAssumption ==
    /\ PreferLocal \cup SlowTasks \cup Dart2Tasks \cup TimedTasks \subseteq Tasks
    /\ "nobody" \notin Supervisors

VARIABLES
    sup,          \* sup[s]: what supervisor s is doing
    lockedBy,     \* who holds .e2b_daemon.lock, or "nobody"
    kid,          \* kid[k]: "none", "loading" or "ready"
    owner,        \* owner[k]: the supervisor that waits for k, or "orphan"
    beat,         \* .e2b_last_used is younger than the idle timeout
    healthy,      \* the providers outside this host that answer, throughout
    call          \* call[c]: the task of c and how far it is

localVars == <<sup, lockedBy, kid, owner, beat, healthy, call>>

Remote  == {"anthropic", "subscription", "dart2"}
NoTask  == [stage |-> "none"]
Alive   == {k \in Kids : kid[k] # "none"}
Orphans == {k \in Alive : owner[k] = "orphan"}
ServerUp == \E k \in Kids : kid[k] = "ready"

LocalInit ==
    /\ sup = [s \in Supervisors |-> "off"]
    /\ lockedBy = "nobody"
    /\ kid = [k \in Kids |-> "none"]
    /\ owner = [k \in Kids |-> "orphan"]
    /\ beat = FALSE
    /\ healthy \in SUBSET Remote
    /\ call = [c \in Callers |-> NoTask]

ServerVars == <<lockedBy, kid, owner, beat>>

-----------------------------------------------------------------------------
(* The caller. *)

\* _spawn_daemon: once per process, fire and forget.
Spawned == \/ UNCHANGED sup
           \/ \E s \in Supervisors : sup[s] = "off" /\ sup' = [sup EXCEPT ![s] = "check"]

\* The cloud part of route(): the subscription, then dart2 when the default
\* provider is out, then the default whatever its health.
CloudRoute(t) ==
    IF t \in SlowTasks /\ "subscription" \in healthy /\ "anthropic" \notin healthy
    THEN "subscription"
    ELSE IF t \in Dart2Tasks /\ "anthropic" \notin healthy /\ "dart2" \in healthy
         THEN "dart2" ELSE "anthropic"

\* route(t): a local task goes to the local server if it answers; if not, the
\* server is started for the next one and this one goes to the cloud.
Route(c, t) ==
    /\ call[c] = NoTask
    /\ LET local == t \in PreferLocal IN
       /\ IF local /\ ~ServerUp THEN Spawned ELSE UNCHANGED sup
       /\ call' = [call EXCEPT ![c] =
              [stage |-> "routed", task |-> t,
               to |-> IF local /\ ServerUp THEN "local" ELSE CloudRoute(t)]]
    /\ UNCHANGED <<ServerVars, healthy>>

\* The callers' own health check: skip the cycle, or go on and generate.
HealthCheck(c) ==
    /\ call[c].stage = "routed"
    /\ call' = [call EXCEPT ![c] =
           IF call[c].to = "local" \/ call[c].to \in healthy THEN [@ EXCEPT !.stage = "generate"]
                                                            ELSE NoTask]
    /\ UNCHANGED <<sup, ServerVars, healthy>>

\* generate(): a remote provider answers or raises, both end the call.
GenerateRemote(c) ==
    /\ call[c].stage = "generate"
    /\ call[c].to # "local"
    /\ call' = [call EXCEPT ![c] = NoTask]
    /\ UNCHANGED <<sup, ServerVars, healthy>>

\* _ensure_up: the server has gone since: start it and wait for it ...
EnsureUp(c) ==
    /\ call[c].stage = "generate"
    /\ call[c].to = "local"
    /\ IF ServerUp
       THEN /\ \E k \in Kids : kid[k] = "ready"
                   /\ call' = [call EXCEPT ![c] = [stage |-> "sent", task |-> @.task, to |-> k]]
            /\ UNCHANGED sup
       ELSE /\ Spawned
            /\ call' = [call EXCEPT ![c].stage = "waiting"]
    /\ UNCHANGED <<ServerVars, healthy>>

\* ... for 25 s at most.
Waited(c) ==
    /\ call[c].stage = "waiting"
    /\ call' = [call EXCEPT ![c] = IF ServerUp THEN [@ EXCEPT !.stage = "generate"] ELSE NoTask]
    /\ UNCHANGED <<sup, ServerVars, healthy>>

\* The answer; only now is the heartbeat touched.
Replied(c) ==
    /\ call[c].stage = "sent"
    /\ kid[call[c].to] = "ready"
    /\ beat' = TRUE
    /\ call' = [call EXCEPT ![c] = NoTask]
    /\ UNCHANGED <<sup, lockedBy, kid, owner, healthy>>

\* The server died or timed out, or hyde's thread is given up.
GivenUp(c) ==
    /\ call[c].stage \in {"sent", "cut"} \/ (call[c].stage # "none" /\ call[c].task \in TimedTasks)
    /\ call' = [call EXCEPT ![c] = NoTask]
    /\ UNCHANGED <<sup, ServerVars, healthy>>

CallerStep(c) ==
    \/ \E t \in Tasks : Route(c, t)
    \/ HealthCheck(c) \/ GenerateRemote(c) \/ EnsureUp(c) \/ Waited(c) \/ Replied(c) \/ GivenUp(c)

-----------------------------------------------------------------------------
(* The supervisor: e2b_daemon.main() *)

CallerVars == <<healthy, call>>

CheckHealth(s) ==
    /\ sup[s] = "check"
    /\ sup' = [sup EXCEPT ![s] = IF ServerUp THEN "off" ELSE "lock"]
    /\ UNCHANGED <<ServerVars, CallerVars>>

\* O_CREAT | O_EXCL
\* (Mutant: the lock file is opened without O_EXCL.)
LockFree_Shared == TRUE
LockFree == lockedBy = "nobody"

AcquireLock(s) ==
    /\ sup[s] = "lock"
    /\ IF LockFree
       THEN sup' = [sup EXCEPT ![s] = "start"] /\ lockedBy' = s
       ELSE sup' = [sup EXCEPT ![s] = "off"] /\ UNCHANGED lockedBy
    /\ UNCHANGED <<kid, owner, beat, CallerVars>>

\* Popen; the spawn counts as use.
StartChild(s) ==
    /\ sup[s] = "start"
    /\ \E k \in Kids :
         /\ kid[k] = "none"
         /\ kid' = [kid EXCEPT ![k] = "loading"]
         /\ owner' = [owner EXCEPT ![k] = s]
    /\ sup' = [sup EXCEPT ![s] = "watch"]
    /\ beat' = TRUE
    /\ UNCHANGED <<lockedBy, CallerVars>>

Release(s) == lockedBy' = IF lockedBy = s THEN "nobody" ELSE lockedBy

\* Server k is gone, and the requests it had are cut.
ServerGone(k) ==
    /\ kid' = [kid EXCEPT ![k] = "none"]
    /\ owner' = [owner EXCEPT ![k] = "orphan"]
    /\ call' = [c \in Callers |->
           IF call[c].stage = "sent" /\ call[c].to = k
           THEN [call[c] EXCEPT !.stage = "cut"] ELSE call[c]]

\* The loop: the child is dead: leave.
ChildGone(s) ==
    /\ sup[s] = "watch"
    /\ \A k \in Alive : owner[k] # s
    /\ sup' = [sup EXCEPT ![s] = "off"]
    /\ Release(s)
    /\ UNCHANGED <<kid, owner, beat, CallerVars>>

\* The loop: nobody used it for IDLE_TIMEOUT_SEC: stop it, wait, leave.  A
\* request in flight does not count as use before it is answered.
IdleStop(s) ==
    /\ sup[s] = "watch"
    /\ ~beat
    /\ \E k \in Alive : owner[k] = s /\ ServerGone(k)
    /\ sup' = [sup EXCEPT ![s] = "off"]
    /\ Release(s)
    /\ UNCHANGED <<beat, healthy>>

\* Killed, or the model file is missing: the lock goes, a child stays behind.
SupervisorDies(s) ==
    /\ sup[s] # "off"
    /\ sup' = [sup EXCEPT ![s] = "off"]
    /\ Release(s)
    /\ owner' = [k \in Kids |-> IF owner[k] = s THEN "orphan" ELSE owner[k]]
    /\ UNCHANGED <<kid, beat, CallerVars>>

SupervisorStep(s) ==
    \/ CheckHealth(s) \/ AcquireLock(s) \/ StartChild(s)
    \/ ChildGone(s) \/ IdleStop(s) \/ SupervisorDies(s)

\* llama-server: binds the port when the weights are loaded, exits when the
\* port is taken, or dies.
Loaded(k) ==
    /\ kid[k] = "loading"
    /\ IF ServerUp
       THEN ServerGone(k)
       ELSE kid' = [kid EXCEPT ![k] = "ready"] /\ UNCHANGED <<owner, call>>
    /\ UNCHANGED <<sup, lockedBy, beat, healthy>>

ServerDies(k) ==
    /\ k \in Alive
    /\ ServerGone(k)
    /\ UNCHANGED <<sup, lockedBy, beat, healthy>>

LocalTime ==
    /\ beat
    /\ beat' = FALSE
    /\ UNCHANGED <<sup, lockedBy, kid, owner, healthy, call>>

LocalNext ==
    \/ \E c \in Callers : CallerStep(c)
    \/ \E s \in Supervisors : SupervisorStep(s)
    \/ \E k \in Kids : Loaded(k) \/ ServerDies(k)
    \/ LocalTime

LocalSpec == LocalInit /\ [][LocalNext]_localVars

-----------------------------------------------------------------------------
(* The weights are in memory once (e2b_daemon.py tells of three copies     *)
(* after calls that landed in the load window): more than one server means *)
(* that a supervisor was killed and left its own behind, and all but one   *)
(* are such orphans.                                                       *)
ExtraServersAreOrphans == Cardinality(Alive \ Orphans) <= 1
=============================================================================
