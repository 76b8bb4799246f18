----------------------------- MODULE Retrieval -----------------------------
(***************************************************************************)
(* memory_engine.search_hybrid as prefetch.py (a hook) and recall.py (a    *)
(* command) call it: lanes that find memories, their fusion, the reranker  *)
(* with its floor, and prefetch's fallback to the observer.                *)
(*                                                                         *)
(* Scores are abstracted to two thresholds: Fitting are the memories the   *)
(* cross-encoder would put at or above the floor, and the fused scores     *)
(* that reach MIN_SCORE are chosen freely.                                 *)
(***************************************************************************)
EXTENDS Rerank

CONSTANTS
    Corpus,      \* memories a query can find
    Fitting      \* those the reranker finds good enough for it

VARIABLES
    rerankOn,    \* feature flag rerank_enabled
    floorOn,     \* prefetch_rerank_floor is set
    query        \* query[c]: the query of process c

retrievalVars == <<rerankVars, rerankOn, floorOn, query>>

NoQuery == [stage |-> "none"]

RetrievalInit ==
    /\ RerankInit
    /\ rerankOn \in BOOLEAN
    /\ floorOn \in BOOLEAN
    /\ query = [c \in Clients |-> NoQuery]

\* The lanes; a lane that raises finds nothing.
TfIdfHits == SUBSET Corpus

\* hyde.expand only lengthens the query text.  Nothing on the hot path, where the
\* embedder is not loaded.
VectorHits(c) == IF c \in Hooks THEN {{}} ELSE SUBSET Corpus

\* Memories that mention entities near those the query names; none when it names
\* none, or the graph is empty.
GraphHits == SUBSET Corpus

\* Memories that were recalled together with the ones found so far.
CoRecallHits(found) == IF found = {} THEN {{}} ELSE SUBSET Corpus

\* Memories whose file name the query spells out.
NamedInQuery == SUBSET Corpus

\* The additive lanes on top of the base ones, in their order.
Widened(base) ==
    LET linked   == {base \cup g : g \in GraphHits}
        recalled == UNION {{p \cup r : r \in CoRecallHits(p)} : p \in linked}
    IN  {p \cup n : p \in recalled, n \in NamedInQuery}

\* Kept by the floor: what reached it, and whatever carries no score.
\* (Mutant: a candidate without a score does not reach the floor.)
Kept_OnlyScored(pool, scored) == pool \cap (IF scored THEN Fitting ELSE {})
Kept(pool, scored) == IF scored THEN pool \cap Fitting ELSE pool

Answer(c, found, out, suppressed) ==
    query' = [query EXCEPT ![c] =
        [stage |-> "searched", found |-> found, out |-> out, suppressed |-> suppressed]]

\* The lanes and their fusion.  Without vectors and with the reranker off,
\* TF-IDF is returned as it is, and the additive lanes (knowledge graph,
\* co-recall, file name) are not consulted.
Search(c) ==
    /\ query[c] = NoQuery
    /\ \E tf \in TfIdfHits, vec \in VectorHits(c) :
         IF vec = {} /\ ~rerankOn
         THEN /\ Answer(c, tf, tf, FALSE)
              /\ UNCHANGED client
         ELSE \E pool \in Widened(tf \cup vec) :
              IF rerankOn /\ pool # {}
              THEN /\ query' = [query EXCEPT ![c] = [stage |-> "reranking", found |-> pool]]
                   /\ Ask(c)
              ELSE /\ Answer(c, pool, pool, FALSE)
                   /\ UNCHANGED client
    /\ UNCHANGED <<ServerSide, spawnMark, failMark, rerankOn, floorOn>>

\* Only prefetch passes a floor; LAST_FLOOR_SUPPRESSED_ALL is `suppressed`.
Reranked(c) ==
    /\ query[c].stage = "reranking"
    /\ At(c, "reranked")
    /\ LET pool == query[c].found
           out  == IF floorOn /\ c \in Hooks THEN Kept(pool, client[c].scored) ELSE pool
       IN  Answer(c, pool, out, floorOn /\ c \in Hooks /\ out = {})
    /\ UNCHANGED <<rerankVars, rerankOn, floorOn>>

\* The rerank stage raises: the fused ranking is returned.
RerankRaises(c) ==
    /\ query[c].stage = "reranking"
    /\ Answer(c, query[c].found, query[c].found, FALSE)
    /\ client' = [client EXCEPT ![c] = NoCall]
    /\ UNCHANGED <<ServerSide, spawnMark, failMark, rerankOn, floorOn>>

\* prefetch.main goes on: of the answers those that reach MIN_SCORE are shown; the
\* observer's excerpts are added when these are few or weak, unless the floor has
\* suppressed everything.
Compose(c) ==
    /\ c \in Hooks
    /\ query[c].stage = "searched"
    /\ \E observed \in {FALSE, ~query[c].suppressed} :
         query' = [query EXCEPT ![c] =
             [stage |-> "composed", found |-> query[c].found, out |-> query[c].out,
              suppressed |-> query[c].suppressed, observer |-> observed]]
    /\ UNCHANGED <<rerankVars, rerankOn, floorOn>>

\* The process has printed its answer and ends; another query, another process.
ProcessEnds(c) ==
    /\ query[c].stage = IF c \in Hooks THEN "composed" ELSE "searched"
    /\ query' = [query EXCEPT ![c] = NoQuery]
    /\ client' = [client EXCEPT ![c] = NoCall]
    /\ UNCHANGED <<ServerSide, spawnMark, failMark, rerankOn, floorOn>>

RetrievalNext ==
    \/ \E c \in Clients :
          \/ Search(c) \/ Reranked(c) \/ RerankRaises(c) \/ Compose(c) \/ ProcessEnds(c)
          \/ ClientStep(c) /\ UNCHANGED <<rerankOn, floorOn, query>>
    \/ /\ (\E d \in Daemons : DaemonStep(d)) \/ RerankTime
       /\ UNCHANGED <<rerankOn, floorOn, query>>

RetrievalSpec == RetrievalInit /\ [][RetrievalNext]_retrievalVars

-----------------------------------------------------------------------------
(* Degraded retrieval never becomes empty retrieval (search_hybrid's       *)
(* docstring): a query that found something gets an answer, whatever       *)
(* becomes of the daemon, the model and the breaker meanwhile, unless the  *)
(* floor judged every candidate on a score; in that case the observer is   *)
(* quiet too (prefetch.py 149-152).                                        *)
EmptyOnlyByFloor ==
    \A c \in Clients : query[c].stage \in {"searched", "composed"} =>
        /\ (query[c].out = {} /\ query[c].found # {}) <=> query[c].suppressed
        /\ query[c].suppressed => At(c, "reranked") /\ client[c].scored
                                  /\ query[c].found \cap Fitting = {}
        /\ query[c].stage = "composed" =>
               (query[c].observer => query[c].found \cap Fitting # {}
                                     \/ query[c].out = query[c].found)
=============================================================================
