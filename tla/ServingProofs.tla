--------------------------- MODULE ServingProofs ---------------------------
(***************************************************************************)
(* The two model servers and the search that uses one of them.  For any    *)
(* number of hooks, commands, daemons, supervisors and memories: one       *)
(* daemon holds the reranker, one local server is supervised, and an       *)
(* answer is empty only by the floor's verdict.                            *)
(***************************************************************************)
EXTENDS Retrieval, LocalModel, FiniteSetTheorems, TLAPS

-----------------------------------------------------------------------------
(* The reranker's daemons. *)

Phases == {"off", "check", "bind", "load", "serve"}

\* A daemon that has got as far as loading holds the port.
PortInv == daemon \in [Daemons -> Phases] /\ OneResidentModel

LEMMA GonePort ==
    ASSUME PortInv, NEW d \in Daemons, Gone(d)
    PROVE  PortInv'
  BY DEF PortInv, Phases, Gone, OneResidentModel

LEMMA PortStep == PortInv /\ [RetrievalNext]_retrievalVars => PortInv'
  <1> SUFFICES ASSUME PortInv, [RetrievalNext]_retrievalVars PROVE PortInv'
    OBVIOUS
  <1> USE DEF PortInv, OneResidentModel
  <1>1. CASE UNCHANGED <<daemon, port>>
    BY <1>1
  <1>2. ASSUME NEW c \in Clients, SpawnDo(c) PROVE PortInv'
    BY <1>2 DEF SpawnDo, Phases
  <1>3. ASSUME NEW d \in Daemons, DaemonStep(d) PROVE PortInv'
    <2>1. CASE CheckSibling(d)
      BY <2>1 DEF CheckSibling, Phases
    <2>2. CASE Bind(d)
      <3>1. CASE BindWins(d)
        \* Nobody else loads or serves: the port would be his.
        <4>1. \A e \in Daemons : daemon[e] \notin {"load", "serve"}
          BY <3>1, RerankAssumption DEF BindWins
        <4> QED
          BY <2>2, <3>1, <4>1 DEF Bind, Phases
      <3>2. CASE ~BindWins(d)
        BY <2>2, <3>2 DEF Bind, Phases
      <3> QED
        BY <3>1, <3>2
    <2>3. CASE Load(d)
      BY <2>3 DEF Load, Phases
    <2>4. CASE LoadFails(d) \/ Shutdown(d) \/ DaemonDies(d)
      BY <2>4, GonePort DEF LoadFails, Shutdown, DaemonDies
    <2>5. CASE RequestStop(d)
      BY <2>5 DEF RequestStop
    <2> QED
      BY <1>3, <2>1, <2>2, <2>3, <2>4, <2>5 DEF DaemonStep
  <1>4. ASSUME NEW c \in Clients, ClientStep(c), ~SpawnDo(c) PROVE UNCHANGED <<daemon, port>>
    BY <1>4 DEF ClientStep, Connect, Answered, NotAnswered, SpawnCheck, LocalCheck, LocalLoad,
                ServerSide
  <1>5. ASSUME NEW c \in Clients,
               Search(c) \/ Reranked(c) \/ RerankRaises(c) \/ Compose(c) \/ ProcessEnds(c)
        PROVE  UNCHANGED <<daemon, port>>
    BY <1>5 DEF Search, Reranked, RerankRaises, Compose, ProcessEnds, ServerSide, rerankVars
  <1>6. RerankTime \/ UNCHANGED retrievalVars => UNCHANGED <<daemon, port>>
    BY DEF RerankTime, retrievalVars, rerankVars
  <1> QED
    BY <1>1, <1>2, <1>3, <1>4, <1>5, <1>6 DEF RetrievalNext

\* One model is resident, however many hooks spawn daemons at once and whatever
\* dies when: the bound port decides (rerank_daemon.py).
THEOREM OneModelIsResident == RetrievalSpec => []OneResidentModel
  <1>1. RetrievalInit => PortInv
    BY DEF RetrievalInit, RerankInit, PortInv, OneResidentModel, Phases
  <1>2. PortInv => OneResidentModel
    BY DEF PortInv
  <1> QED
    BY <1>1, <1>2, PortStep, PTL DEF RetrievalSpec
-----------------------------------------------------------------------------
(* The answer. *)

Calls == [stage : {"none", "connect", "cut", "spawn", "popen", "local", "loading"}]
         \cup [stage : {"posted"}, to : Daemons]
         \cup [stage : {"reranked"}, scored : BOOLEAN]

Queries == [stage : {"none"}]
           \cup [stage : {"reranking"}, found : SUBSET Corpus]
           \cup [stage : {"searched"}, found : SUBSET Corpus, out : SUBSET Corpus,
                 suppressed : BOOLEAN]
           \cup [stage : {"composed"}, found : SUBSET Corpus, out : SUBSET Corpus,
                 suppressed : BOOLEAN, observer : BOOLEAN]

CallTypeOK == client \in [Clients -> Calls]

\* Of a query alone: it is reranked if it found something, the answer is all it
\* found or what of it fits, `suppressed` says that nothing does, and the observer
\* respects that.
SoundQuery(q) ==
    /\ q.stage = "reranking" => q.found # {}
    /\ q.stage \in {"searched", "composed"} =>
          /\ q.out = q.found \/ q.out = q.found \cap Fitting
          /\ (q.out = {} /\ q.found # {}) <=> q.suppressed
    /\ q.stage = "composed" => ~(q.observer /\ q.suppressed)

\* Of a query and its process: what was suppressed was scored, and the process
\* stays where it was scored.
Judged(c) ==
    query[c].stage \in {"searched", "composed"} =>
        (query[c].suppressed => At(c, "reranked") /\ client[c].scored
                                /\ query[c].found \cap Fitting = {})

FloorInv ==
    /\ CallTypeOK
    /\ query \in [Clients -> Queries]
    /\ floorOn \in BOOLEAN
    /\ \A c \in Clients : SoundQuery(query[c]) /\ Judged(c)

\* The steps of the client and of the daemons keep the calls well typed, and a call
\* that has its outcome as it is.
LEMMA CallStep ==
    ASSUME CallTypeOK,
           (\E c \in Clients : ClientStep(c)) \/ (\E d \in Daemons : DaemonStep(d)) \/ RerankTime
    PROVE  CallTypeOK' /\ \A b \in Clients : At(b, "reranked") => client'[b] = client[b]
  <1> USE DEF CallTypeOK, Calls, At
  <1>1. ASSUME NEW c \in Clients, ClientStep(c)
        PROVE  CallTypeOK' /\ \A b \in Clients : At(b, "reranked") => client'[b] = client[b]
    <2>1. CASE Connect(c)
      BY <2>1 DEF Connect, Goto
    <2>2. ASSUME NEW o \in BOOLEAN, Outcome(c, o), ~At(c, "reranked")
          PROVE  CallTypeOK' /\ \A b \in Clients : At(b, "reranked") => client'[b] = client[b]
      <3>1. [stage |-> "reranked", scored |-> o] \in Calls
        OBVIOUS
      <3> QED
        BY <2>2, <3>1 DEF Outcome
    <2>3. CASE NotAnswered(c)
      BY <2>3 DEF NotAnswered
    <2>4. CASE SpawnCheck(c)
      BY <2>4 DEF SpawnCheck, Onward
    <2>5. CASE SpawnDo(c)
      BY <2>5 DEF SpawnDo, Onward
    <2>6. CASE LocalCheck(c)
      <3>1. CASE failMark = "fresh"
        <4>1. ~At(c, "reranked")
          BY <2>6 DEF LocalCheck
        <4>2. \E o \in BOOLEAN : Outcome(c, o)
          BY <2>6, <3>1, Zenon DEF LocalCheck
        <4> QED
          BY <2>2, <4>1, <4>2
      <3>2. CASE failMark # "fresh"
        BY <2>6, <3>2 DEF LocalCheck, Goto
      <3> QED
        BY <3>1, <3>2
    <2>7. CASE LocalLoad(c) \/ Answered(c)
      <3>1. ~At(c, "reranked")
        BY <2>7 DEF LocalLoad, Answered
      <3>2. \E o \in BOOLEAN : Outcome(c, o)
        BY <2>7, Zenon DEF LocalLoad, Answered
      <3> QED
        BY <2>2, <3>1, <3>2
    <2> QED
      BY <1>1, <2>1, <2>3, <2>4, <2>5, <2>6, <2>7 DEF ClientStep
  <1>2. ASSUME NEW d \in Daemons, DaemonStep(d)
        PROVE  CallTypeOK' /\ \A b \in Clients : At(b, "reranked") => client'[b] = client[b]
    <2>1. CASE Gone(d)
      BY <2>1 DEF Gone
    <2>2. CASE UNCHANGED client
      BY <2>2
    <2> QED
      BY <1>2, <2>1, <2>2 DEF DaemonStep, CheckSibling, Bind, Load, LoadFails, RequestStop,
                              Shutdown, DaemonDies
  <1>3. CASE RerankTime
    BY <1>3 DEF RerankTime
  <1> QED
    BY <1>1, <1>2, <1>3

LEMMA FloorStep == FloorInv /\ [RetrievalNext]_retrievalVars => FloorInv'
  <1> SUFFICES ASSUME FloorInv, [RetrievalNext]_retrievalVars PROVE FloorInv'
    OBVIOUS
  <1> USE DEF FloorInv, Judged, At
  <1>1. CASE UNCHANGED retrievalVars
    BY <1>1 DEF retrievalVars, rerankVars, CallTypeOK, SoundQuery
  <1>2. CASE \/ (\E c \in Clients : ClientStep(c)) /\ UNCHANGED <<rerankOn, floorOn, query>>
             \/ /\ (\E d \in Daemons : DaemonStep(d)) \/ RerankTime
                /\ UNCHANGED <<rerankOn, floorOn, query>>
    <2>1. CallTypeOK' /\ \A b \in Clients : At(b, "reranked") => client'[b] = client[b]
      BY <1>2, CallStep
    <2>2. \A c \in Clients : SoundQuery(query[c])'
      BY <1>2 DEF SoundQuery
    <2> QED
      BY <1>2, <2>1, <2>2
  \* Otherwise one process moves: its query and its call are what matters.
  <1>3. ASSUME NEW c \in Clients, NEW q \in Queries, NEW m \in Calls,
               query' = [query EXCEPT ![c] = q], client' = [client EXCEPT ![c] = m],
               UNCHANGED floorOn,
               SoundQuery(q),
               q.stage \in {"searched", "composed"} =>
                   (q.suppressed => m.stage = "reranked" /\ m.scored
                                    /\ q.found \cap Fitting = {})
        PROVE  FloorInv'
    <2>1. CallTypeOK' /\ query' \in [Clients -> Queries]
      BY <1>3 DEF CallTypeOK
    <2>2. query'[c] = q /\ client'[c] = m
      BY <1>3 DEF CallTypeOK
    <2>3. \A b \in Clients \ {c} : query'[b] = query[b] /\ client'[b] = client[b]
      BY <1>3 DEF CallTypeOK
    <2>4. \A b \in Clients : SoundQuery(query'[b])
      BY <1>3, <2>2, <2>3
    <2> QED
      BY <1>3, <2>1, <2>2, <2>3, <2>4 DEF SoundQuery
  <1>4. ASSUME NEW c \in Clients, Search(c) PROVE FloorInv'
    <2>0. client[c] \in Calls /\ UNCHANGED floorOn
      BY <1>4 DEF Search, CallTypeOK
    <2>1. PICK tf \in TfIdfHits, vec \in VectorHits(c) :
            IF vec = {} /\ ~rerankOn
            THEN Answer(c, tf, tf, FALSE) /\ UNCHANGED client
            ELSE \E pool \in Widened(tf \cup vec) :
                 IF rerankOn /\ pool # {}
                 THEN /\ query' = [query EXCEPT ![c] = [stage |-> "reranking", found |-> pool]]
                      /\ Ask(c)
                 ELSE Answer(c, pool, pool, FALSE) /\ UNCHANGED client
      BY <1>4 DEF Search
    <2>2. tf \in SUBSET Corpus /\ vec \in SUBSET Corpus
      BY DEF TfIdfHits, VectorHits
    <2>3. ASSUME NEW pool \in SUBSET Corpus, Answer(c, pool, pool, FALSE), UNCHANGED client
          PROVE  FloorInv'
      <3> DEFINE q == [stage |-> "searched", found |-> pool, out |-> pool,
                       suppressed |-> FALSE]
      <3>1. q \in Queries /\ SoundQuery(q) /\ ~q.suppressed
        BY DEF Queries, SoundQuery
      <3>2. query' = [query EXCEPT ![c] = q]
        BY <2>3 DEF Answer
      <3>3. client' = [client EXCEPT ![c] = client[c]]
        BY <2>3 DEF CallTypeOK
      <3> HIDE DEF q
      <3> QED
        BY <1>3, <2>0, <3>1, <3>2, <3>3
    <2>4. ASSUME NEW pool \in SUBSET Corpus, pool # {}, Ask(c),
                 query' = [query EXCEPT ![c] = [stage |-> "reranking", found |-> pool]]
          PROVE  FloorInv'
      <3> DEFINE q == [stage |-> "reranking", found |-> pool]
                 m == [stage |-> IF enabled THEN "connect" ELSE "local"]
      <3>1. q \in Queries /\ SoundQuery(q) /\ q.stage = "reranking"
        BY <2>4 DEF Queries, SoundQuery
      <3>2. m \in Calls /\ client' = [client EXCEPT ![c] = m]
        BY <2>4 DEF Ask, Calls
      <3>3. query' = [query EXCEPT ![c] = q]
        BY <2>4
      <3> HIDE DEF q, m
      <3> QED
        BY <1>3, <2>0, <3>1, <3>2, <3>3
    <2>5. \A pool \in Widened(tf \cup vec) : pool \in SUBSET Corpus
      BY <2>2 DEF Widened, GraphHits, CoRecallHits, NamedInQuery
    <2> QED
      BY <1>4, <2>1, <2>2, <2>3, <2>4, <2>5 DEF Search
  <1>5. ASSUME NEW c \in Clients, Reranked(c) PROVE FloorInv'
    <2> DEFINE pool == query[c].found
               out  == IF floorOn /\ c \in Hooks THEN Kept(pool, client[c].scored) ELSE pool
               none == floorOn /\ c \in Hooks /\ out = {}
               q    == [stage |-> "searched", found |-> pool, out |-> out, suppressed |-> none]
    <2>1. /\ query[c].stage = "reranking" /\ client[c].stage = "reranked"
          /\ query' = [query EXCEPT ![c] = q]
          /\ UNCHANGED <<client, floorOn>>
      BY <1>5 DEF Reranked, Answer, rerankVars
    <2>2. pool \in SUBSET Corpus /\ pool # {} /\ client[c].scored \in BOOLEAN
      BY <2>1 DEF Queries, SoundQuery, CallTypeOK, Calls
    <2>3. /\ out \in SUBSET Corpus
          /\ out = pool \/ out = pool \cap Fitting
          /\ none \in BOOLEAN
          /\ none <=> out = {}
          /\ none => client[c].scored /\ pool \cap Fitting = {}
      BY <2>2 DEF Kept
    <2> HIDE DEF pool, out, none
    <2>4. q \in Queries /\ SoundQuery(q)
      BY <2>2, <2>3 DEF Queries, SoundQuery
    <2>5. q.suppressed => none
      OBVIOUS
    <2>6. q.found = pool
      OBVIOUS
    <2> HIDE DEF q
    <2>7. client' = [client EXCEPT ![c] = client[c]] /\ client[c] \in Calls
      BY <2>1 DEF CallTypeOK
    <2> QED
      BY <1>3, <2>1, <2>3, <2>4, <2>5, <2>6, <2>7
  <1>6. ASSUME NEW c \in Clients, RerankRaises(c) PROVE FloorInv'
    <2> DEFINE pool == query[c].found
               q == [stage |-> "searched", found |-> pool, out |-> pool, suppressed |-> FALSE]
    <2>1. pool \in SUBSET Corpus /\ pool # {}
      BY <1>6 DEF RerankRaises, Queries, SoundQuery
    <2>2. q \in Queries /\ SoundQuery(q) /\ ~q.suppressed
      BY <2>1 DEF Queries, SoundQuery
    <2>3. query' = [query EXCEPT ![c] = q] /\ UNCHANGED floorOn
      BY <1>6 DEF RerankRaises, Answer
    <2>4. client' = [client EXCEPT ![c] = NoCall] /\ NoCall \in Calls
      BY <1>6 DEF RerankRaises, NoCall, Calls
    <2> HIDE DEF pool, q
    <2> QED
      BY <1>3, <2>2, <2>3, <2>4
  <1>7. ASSUME NEW c \in Clients, Compose(c) PROVE FloorInv'
    <2>1. PICK observed \in {FALSE, ~query[c].suppressed} :
            query' = [query EXCEPT ![c] =
                [stage |-> "composed", found |-> query[c].found, out |-> query[c].out,
                 suppressed |-> query[c].suppressed, observer |-> observed]]
      BY <1>7 DEF Compose
    <2> DEFINE q == [stage |-> "composed", found |-> query[c].found, out |-> query[c].out,
                     suppressed |-> query[c].suppressed, observer |-> observed]
    <2>2. query[c].stage = "searched" /\ UNCHANGED <<floorOn, client>>
      BY <1>7 DEF Compose, rerankVars
    <2>3. /\ query[c].found \in SUBSET Corpus /\ query[c].out \in SUBSET Corpus
          /\ query[c].suppressed \in BOOLEAN /\ SoundQuery(query[c])
      BY <2>2 DEF Queries
    <2>4. q \in Queries
      BY <2>3 DEF Queries
    <2>5. SoundQuery(q)
      BY <2>1, <2>2, <2>3 DEF SoundQuery
    <2>6. q.found = query[c].found /\ q.suppressed = query[c].suppressed
      OBVIOUS
    <2>7. client' = [client EXCEPT ![c] = client[c]] /\ client[c] \in Calls
      BY <2>2 DEF CallTypeOK
    <2>8. query' = [query EXCEPT ![c] = q]
      BY <2>1
    <2> HIDE DEF q
    <2> QED
      BY <1>3, <2>2, <2>4, <2>5, <2>6, <2>7, <2>8
  <1>8. ASSUME NEW c \in Clients, ProcessEnds(c) PROVE FloorInv'
    <2>1. NoQuery \in Queries /\ NoQuery.stage = "none" /\ NoCall \in Calls
      BY DEF NoQuery, NoCall, Queries, Calls
    <2>2. SoundQuery(NoQuery)
      BY <2>1 DEF SoundQuery
    <2>3. /\ query' = [query EXCEPT ![c] = NoQuery] /\ client' = [client EXCEPT ![c] = NoCall]
          /\ UNCHANGED floorOn
      BY <1>8 DEF ProcessEnds
    <2> QED
      BY <1>3, <2>1, <2>2, <2>3
  <1> QED
    BY <1>1, <1>2, <1>4, <1>5, <1>6, <1>7, <1>8 DEF RetrievalNext

\* An answer is empty only because the query found nothing, or because every memory
\* it found was scored and none reached the floor; whatever becomes of the daemon,
\* the model and the breaker while the query runs (memory_engine.search_hybrid).
THEOREM EmptinessIsTheFloors == RetrievalSpec => []EmptyOnlyByFloor
  <1>1. RetrievalInit => FloorInv
    BY DEF RetrievalInit, RerankInit, FloorInv, CallTypeOK, NoCall, Calls, NoQuery, Queries,
           SoundQuery, Judged
  <1>2. FloorInv => EmptyOnlyByFloor
    BY DEF FloorInv, SoundQuery, Judged, Queries, EmptyOnlyByFloor
  <1> QED
    BY <1>1, <1>2, FloorStep, PTL DEF RetrievalSpec
-----------------------------------------------------------------------------
(* The local server and its supervisors. *)

\* Past the lock a supervisor holds it, a supervised server is its holder's, and
\* there is one of them.
LockInv ==
    /\ sup \in [Supervisors -> {"off", "check", "lock", "start", "watch"}]
    /\ kid \in [Kids -> {"none", "loading", "ready"}]
    /\ DOMAIN owner = Kids
    /\ \A s \in Supervisors : sup[s] \in {"start", "watch"} => lockedBy = s
    /\ \A k \in Alive \ Orphans : owner[k] \in Supervisors /\ sup[owner[k]] = "watch"
    /\ \A k, l \in Alive \ Orphans : k = l

\* A server that goes takes nothing with it but its own place.
LEMMA ServerGoneStep ==
    ASSUME LockInv, NEW k \in Kids, ServerGone(k),
           \A s \in Supervisors : sup'[s] # sup[s] =>
               sup[s] = "watch" /\ sup'[s] = "off" /\ owner[k] = s /\ k \in Alive,
           sup' \in [Supervisors -> {"off", "check", "lock", "start", "watch"}],
           \A s \in Supervisors : sup'[s] \in {"start", "watch"} => lockedBy' = s
    PROVE  LockInv'
  <1> USE DEF LockInv, Alive, Orphans
  <1>1. /\ kid' = [kid EXCEPT ![k] = "none"]
        /\ owner' = [owner EXCEPT ![k] = "orphan"]
    BY DEF ServerGone
  <1>2. \A l \in (Alive \ Orphans)' :
            l \in Alive \ Orphans /\ l # k /\ owner'[l] = owner[l]
    BY <1>1
  <1>3. \A l \in (Alive \ Orphans)' : sup'[owner[l]] = "watch"
    BY <1>2
  <1> QED
    BY <1>1, <1>2, <1>3

LEMMA LockStep == LockInv /\ [LocalNext]_localVars => LockInv'
  <1> SUFFICES ASSUME LockInv, [LocalNext]_localVars PROVE LockInv'
    OBVIOUS
  <1> USE DEF LockInv, Alive, Orphans
  <1>1. CASE UNCHANGED <<sup, lockedBy, kid, owner>>
    BY <1>1
  <1>2. ASSUME NEW c \in Callers, CallerStep(c) PROVE LockInv'
    <2>1. Spawned \/ UNCHANGED sup
      BY <1>2 DEF CallerStep, Route, HealthCheck, GenerateRemote, EnsureUp, Waited, Replied, GivenUp
    <2>2. UNCHANGED <<lockedBy, kid, owner>>
      BY <1>2 DEF CallerStep, Route, HealthCheck, GenerateRemote, EnsureUp, Waited, Replied,
                  GivenUp, ServerVars
    <2> QED
      BY <2>1, <2>2 DEF Spawned
  <1>3. ASSUME NEW s \in Supervisors, SupervisorStep(s) PROVE LockInv'
    <2>1. CASE CheckHealth(s)
      BY <2>1 DEF CheckHealth, ServerVars
    <2>2. CASE AcquireLock(s)
      <3>1. CASE LockFree
        \* Nobody is past the lock.
        <4>1. \A r \in Supervisors : sup[r] \notin {"start", "watch"}
          BY <3>1, LocalAssumption DEF LockFree
        <4> QED
          BY <2>2, <3>1, <4>1 DEF AcquireLock
      <3>2. CASE ~LockFree
        BY <2>2, <3>2 DEF AcquireLock
      <3> QED
        BY <3>1, <3>2
    <2>3. CASE StartChild(s)
      \* The lock's holder watches no server yet, so that nobody does.
      <3>1. Alive \ Orphans = {}
        BY <2>3 DEF StartChild
      <3> QED
        BY <2>3, <3>1 DEF StartChild
    <2>4. CASE ChildGone(s)
      BY <2>4 DEF ChildGone, Release
    <2>5. CASE IdleStop(s)
      <3>1. PICK k \in Alive : owner[k] = s /\ ServerGone(k)
        BY <2>5 DEF IdleStop
      <3>2. sup[s] = "watch" /\ sup' = [sup EXCEPT ![s] = "off"] /\ Release(s)
        BY <2>5 DEF IdleStop
      <3>3. \A r \in Supervisors : sup'[r] \in {"start", "watch"} => lockedBy' = r
        BY <3>2 DEF Release
      <3> QED
        BY <3>1, <3>2, <3>3, ServerGoneStep
    <2>6. CASE SupervisorDies(s)
      BY <2>6 DEF SupervisorDies, Release
    <2> QED
      BY <1>3, <2>1, <2>2, <2>3, <2>4, <2>5, <2>6 DEF SupervisorStep
  <1>4. ASSUME NEW k \in Kids, Loaded(k) \/ ServerDies(k) PROVE LockInv'
    <2>1. CASE ServerGone(k)
      BY <1>4, <2>1, ServerGoneStep DEF Loaded, ServerDies
    <2>2. CASE kid[k] = "loading" /\ kid' = [kid EXCEPT ![k] = "ready"]
               /\ UNCHANGED <<sup, lockedBy, owner>>
      BY <2>2
    <2> QED
      BY <1>4, <2>1, <2>2 DEF Loaded, ServerDies
  <1>5. LocalTime \/ UNCHANGED localVars => UNCHANGED <<sup, lockedBy, kid, owner>>
    BY DEF LocalTime, localVars
  <1> QED
    BY <1>1, <1>2, <1>3, <1>4, <1>5 DEF LocalNext

\* However many calls find no server and start a supervisor at once, the weights
\* are loaded for one supervised server at most (e2b_daemon.py): what runs beside it
\* was left behind by a supervisor that was killed.
THEOREM OneServerIsSupervised == LocalSpec => []ExtraServersAreOrphans
  <1>1. LocalInit => LockInv
    BY DEF LocalInit, LockInv, Alive, Orphans
  <1>2. LockInv => ExtraServersAreOrphans
    <2> SUFFICES ASSUME LockInv PROVE Cardinality(Alive \ Orphans) <= 1
      BY DEF ExtraServersAreOrphans
    <2>1. CASE Alive \ Orphans = {}
      BY <2>1, FS_EmptySet
    <2>2. CASE Alive \ Orphans # {}
      <3>1. PICK k \in Alive \ Orphans : TRUE
        BY <2>2
      <3>2. Alive \ Orphans = {k}
        BY <3>1 DEF LockInv
      <3> QED
        BY <3>2, FS_Singleton
    <2> QED
      BY <2>1, <2>2
  <1> QED
    BY <1>1, <1>2, LockStep, PTL DEF LocalSpec
=============================================================================
