-------------------------- MODULE ObserverSessions --------------------------
(***************************************************************************)
(* The observer's session rows in observations.db: observer_session_start  *)
(* opens one, observation_capture counts into it, session_summarize ends   *)
(* it; the sleep cycle has a model compress the summary of a session that  *)
(* is over (compress_sessions) and gives up forgotten rows (maintenance).  *)
(* Windows of the assistant run side by side, and one may be resumed under *)
(* its old session id while the summariser of its last end is at work.     *)
(*                                                                         *)
(* A transaction is one step.  What an observation says is left out: a     *)
(* hook that the flag, the privacy gate or an empty payload stops records  *)
(* nothing, and the redactions change the text alone.                      *)
(***************************************************************************)
EXTENDS Naturals, FiniteSets

CONSTANTS
    Sessions,      \* session ids; each belongs to one window
    MinObs,        \* MIN_OBS_FOR_SUMMARY, and MIN_OBS to compress
    MaxObs,        \* bound: observations of a session
    InCap,         \* sessions that come within CAP_PER_CYCLE
    MaxAtWork      \* bound: summaries being made at a time, by hook or by model

ASSUME SessionsAssumption ==
    MinObs \in Nat \ {0} /\ {MaxObs, MaxAtWork} \subseteq Nat /\ InCap \subseteq Sessions

VARIABLES
    row,        \* sessions.status
    obs,        \* observations of the session, and sessions.obs_count
    summary,    \* observation_count of the session's summary, 0 if there is none
    compressed, \* sessions whose summary has a compressed_at
    squeezing,  \* sessions for which the sleep cycle waits for a model
    idFile,     \* ~/.claude/.session_id: the session it names, or "none"
    window,     \* window[s]: how far the window of s has come
    digest,     \* digest[s]: counts read by summarisers that have not yet written
    excused,    \* history: open windows whose row somebody else closed
    late        \* history: sessions with observations a summary may have missed

sessionVars == <<row, obs, summary, idFile, window, digest, excused, late,
                 compressed, squeezing>>

SessionsInit ==
    /\ row = [s \in Sessions |-> "none"]
    /\ obs = [s \in Sessions |-> 0] /\ summary = [s \in Sessions |-> 0]
    /\ compressed = {} /\ squeezing = {}
    /\ idFile = "none"
    /\ window = [s \in Sessions |-> "closed"]
    /\ digest = [s \in Sessions |-> {}]
    /\ excused = {} /\ late = {}

WindowTo(s, stage) == window' = [window EXCEPT ![s] = stage]
Close(s) == WindowTo(s, "closed") /\ excused' = excused \ {s}

-----------------------------------------------------------------------------
(* observer_session_start.main: three steps, each of them fail-soft. *)

\* The window opens.  _mark_orphans_abandoned: whatever is active counts as left by a crash.
SweepOrphans(s) ==
    /\ window[s] = "closed"
    /\ \/ /\ row' = [t \in Sessions |-> IF row[t] = "active" THEN "abandoned" ELSE row[t]]
          /\ excused' = excused \cup {t \in Sessions : row[t] = "active" /\ window[t] # "closed"}
       \/ UNCHANGED <<row, excused>>
    /\ WindowTo(s, "name")
    /\ UNCHANGED <<obs, summary, idFile, digest, late, compressed, squeezing>>

\* The id file; without it there is no row either.
NameSession(s) ==
    /\ window[s] = "name"
    /\ \/ idFile' = s /\ WindowTo(s, "enrol") /\ UNCHANGED excused
       \/ UNCHANGED idFile /\ WindowTo(s, "live") /\ excused' = excused \cup {s}
    /\ UNCHANGED <<row, obs, summary, digest, late, compressed, squeezing>>

\* ensure_session, then an ended row is revived, an abandoned one is not.
\* (Mutant: a resumed session keeps the row it had.)
Revived_Kept(status) == IF status = "none" THEN "active" ELSE status
Revived(status) == IF status \in {"none", "ended"} THEN "active" ELSE status

EnrolSession(s) ==
    /\ window[s] = "enrol"
    /\ \/ /\ row' = [row EXCEPT ![s] = Revived(@)]
          /\ excused' = IF row[s] = "abandoned" THEN excused \cup {s} ELSE excused \ {s}
          /\ late' = IF digest[s] = {} /\ row[s] = "ended" THEN late \ {s} ELSE late
       \/ UNCHANGED <<row, late>> /\ excused' = excused \cup {s}
    /\ WindowTo(s, "live")
    /\ UNCHANGED <<obs, summary, idFile, digest, compressed, squeezing>>

-----------------------------------------------------------------------------
(* observation_capture.main: ensure_session and record_observation in one  *)
(* transaction.  The payload names the session; by hand, without one, the  *)
(* id file does (resolve_session_id).                                      *)

CaptureFor(s) ==
    /\ obs[s] < MaxObs
    /\ row' = [row EXCEPT ![s] = IF @ = "none" THEN "active" ELSE @]
    /\ obs' = [obs EXCEPT ![s] = @ + 1]
    /\ late' = IF digest[s] # {} \/ row[s] = "ended" THEN late \cup {s} ELSE late
    /\ UNCHANGED <<summary, idFile, window, digest, excused, compressed, squeezing>>

Capture ==
    \/ \E s \in Sessions : window[s] = "live" /\ CaptureFor(s)
    \/ idFile # "none" /\ CaptureFor(idFile)

-----------------------------------------------------------------------------
(* session_summarize.main *)

Summarising(d, c) == Cardinality({r \in Sessions \X (1..MaxObs) : r[2] \in d[r[1]]}) + Cardinality(c)

\* summarize_session reads; few observations, or none at all, end it there
\* and the row stays active.  At the end of a session, or by hand for any.
ReadSession(s) ==
    /\ digest' = [digest EXCEPT ![s] = IF obs[s] >= MinObs THEN @ \cup {obs[s]} ELSE @]
    /\ Summarising(digest', squeezing) <= MaxAtWork
    /\ UNCHANGED <<row, obs, summary, idFile, late, compressed, squeezing>>

EndSession(s)   == window[s] = "live" /\ Close(s) /\ ReadSession(s)
SummariseNow(s) == UNCHANGED <<window, excused>> /\ ReadSession(s)

\* write_summary: only an active row becomes ended.
WriteSummary(s) ==
    \E n \in digest[s] :
        /\ digest' = [digest EXCEPT ![s] = @ \ {n}]
        /\ summary' = [summary EXCEPT ![s] = n]
        /\ row' = [row EXCEPT ![s] = IF @ = "active" THEN "ended" ELSE @]
        /\ excused' = IF window[s] # "closed" THEN excused \cup {s} ELSE excused
        /\ UNCHANGED <<obs, idFile, window, late, compressed, squeezing>>

\* The window is killed: no SessionEnd hook runs; or the summariser is.
WindowKilled(s) ==
    /\ window[s] # "closed"
    /\ Close(s)
    /\ UNCHANGED <<row, obs, summary, idFile, digest, late, compressed, squeezing>>

SummariserKilled(s) ==
    /\ digest[s] # {}
    /\ digest' = [digest EXCEPT ![s] = {}]
    /\ late' = IF row[s] = "ended" THEN late ELSE late \ {s}
    /\ UNCHANGED <<row, obs, summary, idFile, window, excused, compressed, squeezing>>

-----------------------------------------------------------------------------
(* The sleep cycle. *)

\* compress_sessions.select_targets: over, and never compressed.
Uncompressed(s) ==
    /\ s \in InCap /\ s \notin compressed
    /\ row[s] \in {"ended", "abandoned"} /\ obs[s] >= MinObs

PickToCompress(s) ==
    /\ Uncompressed(s)
    /\ squeezing' = squeezing \cup {s}
    /\ Summarising(digest, squeezing') <= MaxAtWork
    /\ UNCHANGED <<row, obs, summary, idFile, window, digest, excused, late, compressed>>

\* The model answered: a new summary, or another text for the one there is, whose
\* count stays.  It did not: nothing.
Compressed(s) ==
    /\ s \in squeezing
    /\ squeezing' = squeezing \ {s}
    /\ \/ /\ summary' = [summary EXCEPT ![s] = IF @ = 0 THEN obs[s] ELSE @]
          /\ compressed' = compressed \cup {s}
       \/ UNCHANGED <<summary, compressed>>
    /\ UNCHANGED <<row, obs, idFile, window, digest, excused, late>>

\* mark_abandoned: active for more than a day, whoever may still be at it.
GiveUp(s) ==
    /\ row[s] = "active"
    /\ row' = [row EXCEPT ![s] = "abandoned"]
    /\ excused' = IF window[s] # "closed" THEN excused \cup {s} ELSE excused
    /\ UNCHANGED <<obs, summary, idFile, window, digest, late, compressed, squeezing>>

SessionsNext ==
    \/ \E s \in Sessions :
          \/ SweepOrphans(s) \/ NameSession(s) \/ EnrolSession(s)
          \/ EndSession(s) \/ SummariseNow(s) \/ WriteSummary(s)
          \/ WindowKilled(s) \/ SummariserKilled(s)
          \/ PickToCompress(s) \/ Compressed(s) \/ GiveUp(s)
    \/ Capture

SessionsSpec == SessionsInit /\ [][SessionsNext]_sessionVars

-----------------------------------------------------------------------------
(* The rows tell the truth about the sessions.  A live session has an      *)
(* active row, unless another window's start swept it away, a summary was  *)
(* written under it, or its own start failed.  An ended session has a      *)
(* summary, of no fewer than MinObs observations, and of all of them but   *)
(* for those that arrived after the summariser had read.                   *)
RowsTellTheTruth ==
    \A s \in Sessions :
        /\ window[s] = "live" => row[s] = "active" \/ s \in excused
        /\ row[s] = "ended" => /\ summary[s] >= MinObs
                               /\ summary[s] = obs[s] \/ s \in late
=============================================================================
