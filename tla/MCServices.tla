----------------------------- MODULE MCServices -----------------------------
(***************************************************************************)
(* Nine parts of the system, for TLC.  They share no state and call each   *)
(* other only through the outbox, so nothing is gained by interleaving     *)
(* them: `part` chooses, once, the part that runs; the others stay in one  *)
(* of their initial states.                                                *)
(***************************************************************************)
EXTENDS Retrieval, LocalModel, ObserverSessions, SessionEnd, CandidateQueue,
        Procedural, Upkeep, MetaFiles, Digests

CONSTANTS SourceA, SourceB
Order == <<SourceA, SourceB>>

VARIABLE part
servicesVars == <<part, retrievalVars, localVars, sessionVars, endVars, queueVars,
                  habitVars, upkeepVars, metaVars, digestVars>>

\* The nondeterministic initial values of the parts that do not run.
Pinned ==
    /\ part # "retrieval" => enabled /\ rerankOn /\ floorOn
    /\ part # "local"     => healthy = {}
    /\ part # "end"       => replaces
    /\ \A f \in Spine : text[f].kind = "project"   \* the user may retype it

ServicesInit ==
    /\ part \in {"retrieval", "local", "sessions", "end", "queue", "habits", "upkeep", "meta", "digests"}
    /\ RetrievalInit /\ LocalInit /\ SessionsInit /\ EndInit /\ QueueInit
    /\ HabitsInit /\ UpkeepInit /\ MetaInit /\ DigestInit
    /\ Pinned

Retrieves == part = "retrieval" /\ RetrievalNext
             /\ UNCHANGED <<localVars, sessionVars, endVars, queueVars, habitVars, upkeepVars, metaVars, digestVars>>
Supervises == part = "local" /\ LocalNext
             /\ UNCHANGED <<retrievalVars, sessionVars, endVars, queueVars, habitVars, upkeepVars, metaVars, digestVars>>
Observes == part = "sessions" /\ SessionsNext
             /\ UNCHANGED <<retrievalVars, localVars, endVars, queueVars, habitVars, upkeepVars, metaVars, digestVars>>
EndsSessions == part = "end" /\ EndNext
             /\ UNCHANGED <<retrievalVars, localVars, sessionVars, queueVars, habitVars, upkeepVars, metaVars, digestVars>>
Queues == part = "queue" /\ QueueNext
             /\ UNCHANGED <<retrievalVars, localVars, sessionVars, endVars, habitVars, upkeepVars, metaVars, digestVars>>
Learns == part = "habits" /\ HabitsNext
             /\ UNCHANGED <<retrievalVars, localVars, sessionVars, endVars, queueVars, upkeepVars, metaVars, digestVars>>
Keeps == part = "upkeep" /\ UpkeepNext
             /\ UNCHANGED <<retrievalVars, localVars, sessionVars, endVars, queueVars, habitVars, metaVars, digestVars>>
RunsCommands == part = "meta" /\ MetaNext
             /\ UNCHANGED <<retrievalVars, localVars, sessionVars, endVars, queueVars, habitVars, upkeepVars, digestVars>>

WritesDigests == part = "digests" /\ DigestNext
             /\ UNCHANGED <<retrievalVars, localVars, sessionVars, endVars, queueVars, habitVars, upkeepVars, metaVars>>

ServicesNext ==
    /\ \/ Retrieves \/ Supervises \/ Observes \/ EndsSessions
       \/ Queues \/ Learns \/ Keeps \/ RunsCommands \/ WritesDigests
    /\ UNCHANGED part

ServicesSpec == ServicesInit /\ [][ServicesNext]_servicesVars
=============================================================================
