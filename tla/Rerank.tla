------------------------------ MODULE Rerank ------------------------------
(***************************************************************************)
(* reranker.py, the client, and rerank_daemon.py, the resident process     *)
(* that keeps the cross-encoder loaded.  A client is one process with one  *)
(* call of rerank(): it asks the daemon, and if that fails starts one for  *)
(* the next time and serves the call itself, unless it runs on the prompt  *)
(* path (MEMORY_HOT_PATH), where it returns the candidates unscored.       *)
(*                                                                         *)
(* The bound but not yet listening port is the daemons' mutex.  Times are  *)
(* cut down to "fresh" and "stale" markers: the 30 s between two spawns,   *)
(* the 15 min after a failed load; the idle timeout may always run out.    *)
(***************************************************************************)
EXTENDS Naturals, FiniteSets

CONSTANTS
    Hooks,         \* clients on the hot path (prefetch)
    Commands,      \* clients off it (/recall, demos)
    Daemons,       \* daemon processes that may be alive at once
    DaemonSettings \* values of rerank_daemon_enabled that occur

ASSUME RerankAssumption == DaemonSettings \subseteq BOOLEAN /\ "free" \notin Daemons

VARIABLES
    daemon,        \* daemon[d]: what process d is doing
    port,          \* the daemon that has bound the port, or "free"
    stopping,      \* daemons whose server.shutdown() was requested
    spawnMark,     \* .rerank_daemon_spawn: whether a spawn was tried lately
    failMark,      \* the load-failure marker of the circuit breaker
    enabled,       \* _daemon_enabled()
    client         \* client[c]: the stage of c's call, and its outcome

rerankVars == <<daemon, port, stopping, spawnMark, failMark, enabled, client>>

Clients == Hooks \cup Commands
NoCall  == [stage |-> "none"]
Marks   == {"fresh", "stale"}      \* stale: absent or past its time

RerankTypeOK ==
    /\ daemon \in [Daemons -> {"off", "check", "bind", "load", "serve"}]
    /\ port \in Daemons \cup {"free"}
    /\ stopping \subseteq Daemons
    /\ enabled \in BOOLEAN
    /\ {spawnMark, failMark} \subseteq Marks

RerankInit ==
    /\ daemon = [d \in Daemons |-> "off"]
    /\ port = "free"
    /\ stopping = {}
    /\ spawnMark = "stale" /\ failMark = "stale"
    /\ enabled \in DaemonSettings
    /\ client = [c \in Clients |-> NoCall]

Goto(c, s)    == client' = [client EXCEPT ![c] = [stage |-> s]]
At(c, s)      == client[c].stage = s
Outcome(c, o) == client' = [client EXCEPT ![c] = [stage |-> "reranked", scored |-> o]]

ServerSide == <<daemon, port, stopping, enabled>>

-----------------------------------------------------------------------------
(* The client: rerank() *)

\* Candidates to score; without a daemon to ask the call is served here.
Ask(c) == client' = [client EXCEPT ![c] = [stage |-> IF enabled THEN "connect" ELSE "local"]]

\* _rerank_via_daemon: the pre-check.  A port that only is bound refuses.
Connect(c) ==
    /\ At(c, "connect")
    /\ \/ \E d \in Daemons :
            /\ daemon[d] = "serve"
            /\ client' = [client EXCEPT ![c] = [stage |-> "posted", to |-> d]]
       \/ Goto(c, "spawn")
    /\ UNCHANGED <<daemon, port, stopping, enabled, spawnMark, failMark>>

\* The answer: scored, or plain when the model's prediction failed.
Answered(c) ==
    /\ At(c, "posted")
    /\ daemon[client[c].to] = "serve"
    /\ \E o \in BOOLEAN : Outcome(c, o)
    /\ UNCHANGED <<ServerSide, spawnMark, failMark>>

\* The read timeout, a bad answer, or the daemon is gone.
NotAnswered(c) ==
    /\ At(c, "posted") \/ At(c, "cut")
    /\ client' = [client EXCEPT ![c] = [stage |-> "spawn"]]
    /\ UNCHANGED <<ServerSide, spawnMark, failMark>>

\* After the spawn attempt: a hot process leaves the candidates as they are.
Onward(c) == IF c \in Hooks THEN [stage |-> "reranked", scored |-> FALSE]
                            ELSE [stage |-> "local"]

\* _ensure_daemon_spawned: the marker is read ...
SpawnCheck(c) ==
    /\ At(c, "spawn")
    /\ client' = [client EXCEPT ![c] =
           IF spawnMark = "fresh" THEN Onward(c) ELSE [stage |-> "popen"]]
    /\ UNCHANGED <<ServerSide, spawnMark, failMark>>

\* ... then written, and the daemon started; or that fails.
SpawnDo(c) ==
    /\ At(c, "popen")
    /\ spawnMark' = "fresh"
    /\ \/ \E d \in Daemons : daemon[d] = "off" /\ daemon' = [daemon EXCEPT ![d] = "check"]
       \/ UNCHANGED daemon
    /\ client' = [client EXCEPT ![c] = Onward(c)]
    /\ UNCHANGED <<port, stopping, enabled, failMark>>

\* The circuit breaker: a load that failed recently is not tried again.
LocalCheck(c) ==
    /\ At(c, "local")
    /\ IF failMark = "fresh" THEN Outcome(c, FALSE) ELSE Goto(c, "loading")
    /\ UNCHANGED <<ServerSide, spawnMark, failMark>>

\* _get_reranker in this process, some 9 s, then the scoring; or the load fails.
LocalLoad(c) ==
    /\ At(c, "loading")
    /\ \/ failMark' = "stale" /\ \E o \in BOOLEAN : Outcome(c, o)
       \/ failMark' = "fresh" /\ Outcome(c, FALSE)
    /\ UNCHANGED <<ServerSide, spawnMark>>

ClientStep(c) ==
    \/ Connect(c) \/ Answered(c) \/ NotAnswered(c) \/ SpawnCheck(c) \/ SpawnDo(c)
    \/ LocalCheck(c) \/ LocalLoad(c)

-----------------------------------------------------------------------------
(* The daemon: serve() *)

CallerSide == <<spawnMark, failMark, enabled>>

\* Part 1 of the singleton guard: a sibling that answers /health.
CheckSibling(d) ==
    /\ daemon[d] = "check"
    /\ daemon' = [daemon EXCEPT ![d] =
           IF \E e \in Daemons : daemon[e] = "serve" THEN "off" ELSE "bind"]
    /\ UNCHANGED <<port, stopping, client, CallerSide>>

\* Part 2: the bind, with allow_reuse_address off.
\* (Mutant: the address may be reused, as http.server does by default.)
BindWins_Reuse(d) == TRUE
BindWins(d) == port = "free"

Bind(d) ==
    /\ daemon[d] = "bind"
    /\ IF BindWins(d)
       THEN port' = d /\ daemon' = [daemon EXCEPT ![d] = "load"]
       ELSE daemon' = [daemon EXCEPT ![d] = "off"] /\ UNCHANGED port
    /\ UNCHANGED <<stopping, client, CallerSide>>

\* The process ends: the port is free, its requests are cut.
Gone(d) ==
    /\ daemon' = [daemon EXCEPT ![d] = "off"]
    /\ port' = IF port = d THEN "free" ELSE port
    /\ stopping' = stopping \ {d}
    /\ client' = [c \in Clients |->
           IF At(c, "posted") /\ client[c].to = d THEN [stage |-> "cut"] ELSE client[c]]
    /\ UNCHANGED CallerSide

Load(d) ==
    /\ daemon[d] = "load"
    /\ daemon' = [daemon EXCEPT ![d] = "serve"]
    /\ UNCHANGED <<port, stopping, client, CallerSide>>

LoadFails(d) == daemon[d] = "load" /\ Gone(d)

\* The watchdog has read an old last_request (a request that arrives after the
\* read does not change its mind), or a co-tenant posts /evict; the server
\* still accepts requests until it has shut down.
RequestStop(d) ==
    /\ daemon[d] = "serve"
    /\ d \notin stopping
    /\ stopping' = stopping \cup {d}
    /\ UNCHANGED <<daemon, port, client, CallerSide>>

Shutdown(d) == d \in stopping /\ Gone(d)
DaemonDies(d) == daemon[d] # "off" /\ Gone(d)

DaemonStep(d) ==
    \/ CheckSibling(d) \/ Bind(d) \/ Load(d) \/ LoadFails(d)
    \/ RequestStop(d) \/ Shutdown(d) \/ DaemonDies(d)

\* Timeouts run out.
RerankTime ==
    /\ \/ spawnMark = "fresh" /\ spawnMark' = "stale" /\ UNCHANGED failMark
       \/ failMark = "fresh" /\ failMark' = "stale" /\ UNCHANGED spawnMark
    /\ UNCHANGED <<daemon, port, stopping, enabled, client>>

-----------------------------------------------------------------------------
(* However many hooks start daemons at once, and whatever dies when, one   *)
(* daemon at most holds the model or is loading it (rerank_daemon.py: a    *)
(* second one would mean "double VRAM, split brain"), and the one that     *)
(* does is the one behind the port.                                        *)
OneResidentModel ==
    \A d \in Daemons : daemon[d] \in {"load", "serve"} => port = d
=============================================================================
