----------------------------- MODULE Procedural -----------------------------
(***************************************************************************)
(* Learned habits (procedural_lib.py): rows of the heuristics table.  The  *)
(* designer of a sleep cycle distils them from sources (a recovered error, *)
(* a feedback memory, an epilogue), at most MaxDistills model calls a run; *)
(* prompts inject them; the boot applies the flags the human put on them   *)
(* in an epilogue; a human may vote on one or burn it.                     *)
(*                                                                         *)
(* Every function opens its own connection and commits; between the rows   *)
(* upsert_heuristic reads and the row it changes there is no transaction.  *)
(* Two habits of one lesson are near-duplicates; a model may tell a source *)
(* differently each time it is asked.                                      *)
(***************************************************************************)
EXTENDS Integers, Sequences

CONSTANTS
    SourceOrder,        \* the sources, in the order the passes list them
    Lessons,            \* what a model may tell of a source
    FlaggedEpilogues,   \* finalized epilogues that flag habits
    Designers, Reviewers,   \* processes
    MaxDistills,        \* MAX_DISTILLS_PER_RUN
    MaxHabits, MaxImportance, MaxReviews   \* bounds: rows, the counter, review runs

ASSUME ProceduralAssumption == {MaxDistills, MaxHabits, MaxImportance, MaxReviews} \subseteq Nat

VARIABLES
    habits,     \* the rows, by id: [lesson, importance, active, refs, used]
    flags,      \* flags[e]: the ids the human flagged in e; {} before that
    reviewed,   \* epilogues with a .reviewed marker
    design,     \* design[d]: a run of the designer
    review,     \* review[r]: a run of review_epilogue
    reviews,    \* bound: review runs so far
    votes,      \* history: how often a source was credited to a habit
    costs,      \* history: downvotes an epilogue's flags have cost, per habit
    reviewExcused     \* history: reviews that ended without a marker or overlapped

habitVars == <<habits, flags, reviewed, design, review, reviews, votes, costs, reviewExcused>>

Sources == {SourceOrder[i] : i \in DOMAIN SourceOrder}
NoRun   == [stage |-> "none"]
Review0 == [id \in 1..MaxHabits |-> 0]

HabitsInit ==
    /\ habits = << >> /\ reviewed = {} /\ reviews = 0
    /\ flags = [e \in FlaggedEpilogues |-> {}]
    /\ design = [d \in Designers |-> NoRun] /\ review = [r \in Reviewers |-> NoRun]
    /\ votes = [s \in Sources |-> 0]
    /\ costs = [e \in FlaggedEpilogues |-> Review0]
    /\ reviewExcused = [e \in FlaggedEpilogues |-> 0]

DesignTo(d, v) == design' = [design EXCEPT ![d] = v]
ReviewTo(r, v) == review' = [review EXCEPT ![r] = v]
FlagState == <<flags, reviewed, review, reviews, costs, reviewExcused>>

-----------------------------------------------------------------------------
(* run_designer: the failure, feedback and epilogue passes. *)

\* _obs_already_mined, _already_ingested: a row, of any status, names the source.
Ingested(s) == \E id \in DOMAIN habits : s \in habits[id].refs

StartDesigner(d) ==
    /\ design[d] = NoRun
    /\ DesignTo(d, [stage |-> "pick", at |-> 1, budget |-> MaxDistills])
    /\ UNCHANGED <<habits, votes, FlagState>>

\* The next source that was not ingested costs a call, while there is budget.
PickSource(d) ==
    /\ design[d].stage = "pick"
    /\ LET at == design[d].at IN
       IF at > Len(SourceOrder) \/ design[d].budget = 0
       THEN DesignTo(d, NoRun)
       ELSE IF Ingested(SourceOrder[at])
            THEN DesignTo(d, [stage |-> "pick", at |-> at + 1, budget |-> design[d].budget])
            ELSE DesignTo(d, [stage |-> "ask", at |-> at, budget |-> design[d].budget - 1])
    /\ UNCHANGED <<habits, votes, FlagState>>

\* The model tells no lesson (it is down, or there is none): nothing is recorded.
\* Else upsert_heuristic embeds it and reads the active rows.
Distilled(d) ==
    /\ design[d].stage = "ask"
    /\ LET next == [stage |-> "pick", at |-> design[d].at + 1, budget |-> design[d].budget] IN
       \/ DesignTo(d, next)
       \/ \E l \in Lessons :
             LET near == {id \in DOMAIN habits : habits[id].active /\ habits[id].lesson = l} IN
             DesignTo(d, [stage |-> "upsert", at |-> next.at, budget |-> next.budget,
                          lesson |-> l, near |-> near])
    /\ UNCHANGED <<habits, votes, FlagState>>

\* What may change of a row.
Revised(h, importance, active, used) ==
    [lesson |-> h.lesson, refs |-> h.refs,
     importance |-> importance, active |-> active, used |-> used]

Voted(id, n) == [habits EXCEPT ![id] = Revised(@, @.importance + n, @.active, @.used)]

\* An upvote of the nearest row, which does not take the source's name, or a new
\* row of importance 2 that does.
Upsert(d) ==
    /\ design[d].stage = "upsert"
    /\ LET s == SourceOrder[design[d].at - 1] IN
       /\ \/ \E id \in design[d].near :
                habits[id].importance < MaxImportance /\ habits' = Voted(id, 1)
          \/ /\ design[d].near = {} /\ Len(habits) < MaxHabits
             /\ habits' = Append(habits, [lesson |-> design[d].lesson, importance |-> 2,
                                          active |-> TRUE, refs |-> {s}, used |-> FALSE])
       /\ votes' = [votes EXCEPT ![s] = @ + 1]
    /\ DesignTo(d, [stage |-> "pick", at |-> design[d].at, budget |-> design[d].budget])
    /\ UNCHANGED FlagState

DesignerKilled(d) ==
    /\ design[d] # NoRun
    /\ DesignTo(d, NoRun)
    /\ UNCHANGED <<habits, votes, FlagState>>

-----------------------------------------------------------------------------
(* Injection, the session's verdict, and votes by hand. *)

\* recall_lane: retrieve, then mark_used; the row may have been burned between.
Injected(id) == [habits EXCEPT ![id] = Revised(@, @.importance, @.active, TRUE)]

Inject ==
    /\ \E id \in DOMAIN habits : ~habits[id].used /\ habits' = Injected(id)
    /\ UNCHANGED <<design, votes, FlagState>>

\* The epilogue lists what was injected; the human flags some of it and the file
\* is finalized.
Finalize(e) ==
    /\ flags[e] = {}
    /\ \E bad \in SUBSET {id \in DOMAIN habits : habits[id].used} :
          bad # {} /\ flags' = [flags EXCEPT ![e] = bad]
    /\ UNCHANGED <<habits, design, votes, reviewed, review, reviews, costs, reviewExcused>>

\* burn; and prune for what the counter has brought to 0.
Burn(id) ==
    /\ habits[id].active
    /\ habits' = [habits EXCEPT ![id] = Revised(@, 0, FALSE, @.used)]
    /\ UNCHANGED <<design, votes, FlagState>>

\* downvote: archived when the counter reaches 0, in the same transaction.
Downvoted(id) == [habits EXCEPT ![id] = Revised(@, @.importance - 1,
                                                @.active /\ @.importance > 1, @.used)]

-----------------------------------------------------------------------------
(* review_epilogue, from review_recent_epilogues at boot or from the       *)
(* command line.                                                           *)

\* Another review of e is under way.
Overlapped(r, e) == \E q \in Reviewers \ {r} : review[q] # NoRun /\ review[q].epilogue = e

\* (Mutant: the marker is not asked for.)
MayReview_Always(e) == flags[e] # {}
MayReviewFlags(e)   == flags[e] # {} /\ e \notin reviewed

BeginReview(r, e) ==
    /\ review[r] = NoRun /\ reviews < MaxReviews /\ MayReviewFlags(e)
    /\ reviews' = reviews + 1
    /\ ReviewTo(r, [epilogue |-> e, todo |-> flags[e]])
    /\ reviewExcused' = [reviewExcused EXCEPT ![e] = @ + IF Overlapped(r, e) THEN 1 ELSE 0]
    /\ UNCHANGED <<habits, design, votes, flags, reviewed, costs>>

\* record_outcome: one transaction per habit, the lowest id first.
ApplyFlag(r) ==
    /\ review[r] # NoRun /\ review[r].todo # {}
    /\ LET e  == review[r].epilogue
           id == CHOOSE i \in review[r].todo : \A j \in review[r].todo : i <= j
       IN  /\ habits' = Downvoted(id)
           /\ costs' = [costs EXCEPT ![e][id] = @ + 1]
           /\ ReviewTo(r, [epilogue |-> e, todo |-> review[r].todo \ {id}])
    /\ UNCHANGED <<design, votes, flags, reviewed, reviews, reviewExcused>>

\* The marker; an error in writing it is passed over, and the process may be
\* killed before it.
EndReview(r) ==
    /\ review[r] # NoRun
    /\ LET e == review[r].epilogue IN
       \/ /\ review[r].todo = {}
          /\ reviewed' = reviewed \cup {e}
          /\ UNCHANGED reviewExcused
       \/ /\ reviewExcused' = [reviewExcused EXCEPT ![e] = @ + 1]
          /\ UNCHANGED reviewed
    /\ ReviewTo(r, NoRun)
    /\ UNCHANGED <<habits, design, votes, flags, reviews, costs>>

HabitsNext ==
    \/ \E d \in Designers :
          \/ StartDesigner(d) \/ PickSource(d) \/ Distilled(d) \/ Upsert(d) \/ DesignerKilled(d)
    \/ Inject
    \/ \E id \in DOMAIN habits : Burn(id)
    \/ \E e \in FlaggedEpilogues :
          \/ Finalize(e)
          \/ \E r \in Reviewers : BeginReview(r, e)
    \/ \E r \in Reviewers : ApplyFlag(r) \/ EndReview(r)

HabitsSpec == HabitsInit /\ [][HabitsNext]_habitVars

-----------------------------------------------------------------------------
(* "re-running never double-downvotes" (review_epilogue): however often an *)
(* epilogue is scanned, at boot or by hand, a flag in it costs its habit   *)
(* one vote; the exceptions are reviews that ran at once and reviews that  *)
(* were stopped, or failed to write, before their marker.                  *)
FlagsCostOnce ==
    \A e \in FlaggedEpilogues : \A id \in 1..MaxHabits : costs[e][id] <= 1 + reviewExcused[e]

(* "Idempotent per source (obs-id / file)" (run_designer): however many    *)
(* sleep cycles pass, a source is credited to a habit once.                *)
OneVotePerSource == \A s \in Sources : votes[s] <= 1
=============================================================================
