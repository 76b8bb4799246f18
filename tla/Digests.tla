------------------------------ MODULE Digests ------------------------------
(***************************************************************************)
(* From the papers of a week to its digest.  Sessions leave drafts and     *)
(* finalized epilogues under epilogues/; weekly_digest.py writes a chapter *)
(* of each week, first as a skeleton, then, some forty minutes of model    *)
(* calls later, in full; the sleep cycle files the drafts of a week that   *)
(* has a digest under epilogues/archived, where no digest looks again.     *)
(*                                                                         *)
(* Papers carry the date in their names.  Time is the current week.        *)
(***************************************************************************)
EXTENDS Naturals

CONSTANTS
    LastWeek,          \* bound: the clock
    DraftNames,        \* session drafts a week may bring
    FinalNames         \* finalized epilogues a week may bring

ASSUME DigestsAssumption == LastWeek \in Nat

VARIABLES
    week,
    desk,       \* epilogues/*.md, as <<week, name>>
    shelf,      \* epilogues/archived/
    digests,    \* digests/: week -> [kind, tells]
    pointers,   \* weeks with a memory digest_<week>.md
    scribe,     \* scribe[p]: a run of generate_digest
    byHand,     \* history: weeks that were digested by hand
    skimmed,    \* history: drafts filed when only a skeleton was there, or a run read them in vain
    unlinked    \* history: weeks whose run was stopped between chapter and memory

digestVars == <<week, desk, shelf, digests, pointers, scribe, byHand, skimmed, unlinked>>

Weeks   == 1..LastWeek
Scribes == {"schedule", "person"}
NoDigest == [stage |-> "none"]
Missing  == [kind |-> "missing", tells |-> {}]
Skeleton == [kind |-> "skeleton", tells |-> {}]

DigestInit ==
    /\ week = 1 /\ desk = {} /\ shelf = {}
    /\ digests = [w \in Weeks |-> Missing] /\ pointers = {}
    /\ scribe = [p \in Scribes |-> NoDigest]
    /\ byHand = {} /\ skimmed = {} /\ unlinked = {}

ScribeTo(p, v) == scribe' = [scribe EXCEPT ![p] = v]
AtWork(w) == {p \in Scribes : scribe[p].stage = "read" /\ scribe[p].week = w}

-----------------------------------------------------------------------------
\* session_end writes a draft, or epilogue.py a finalized epilogue, of today.
NewPaper ==
    /\ \E n \in DraftNames \cup FinalNames :
          /\ <<week, n>> \notin desk \cup shelf
          /\ desk' = desk \cup {<<week, n>>}
    /\ UNCHANGED <<week, shelf, digests, pointers, scribe, byHand, skimmed, unlinked>>

\* epilogues_in_week: the archive is a directory below and is not searched.
InWeek(w) == {d \in desk : d[1] = w}

\* --fill-gaps goes over completed weeks ...  (Mutant: range(0, n).)
Completed_Current(w) == w <= week
Completed(w) == w < week

\* ... that have no digest, or a skeleton.
NeedsFill(w) == digests[w].kind \in {"missing", "skeleton"}

\* generate_digest reads the papers; a skeleton lands before the model calls.
BeginDigest(p, w) ==
    /\ scribe[p] = NoDigest
    /\ InWeek(w) # {}
    /\ IF p = "schedule" THEN Completed(w) /\ NeedsFill(w) ELSE w <= week
    /\ byHand' = IF p = "person" THEN byHand \cup {w} ELSE byHand
    /\ digests' = [digests EXCEPT ![w] = IF @ = Missing THEN Skeleton ELSE @]
    /\ ScribeTo(p, [stage |-> "read", week |-> w, read |-> InWeek(w)])
    /\ UNCHANGED <<week, desk, shelf, pointers, skimmed, unlinked>>

\* The full chapter.
WriteChapter(p) ==
    /\ scribe[p].stage = "read"
    /\ digests' = [digests EXCEPT ![scribe[p].week] =
                       [kind |-> "chapter", tells |-> scribe[p].read]]
    /\ ScribeTo(p, [stage |-> "promote", week |-> scribe[p].week])
    /\ UNCHANGED <<week, desk, shelf, pointers, byHand, skimmed, unlinked>>

\* No provider answers: the chapter, such as there was, becomes a skeleton.
WriteSkeleton(p) ==
    /\ scribe[p].stage = "read"
    /\ digests' = [digests EXCEPT ![scribe[p].week] = Skeleton]
    /\ skimmed' = skimmed \cup (scribe[p].read \cap shelf)
    /\ ScribeTo(p, NoDigest)
    /\ UNCHANGED <<week, desk, shelf, pointers, byHand, unlinked>>

\* _promote_digest_to_memory: only a chapter is worth a memory.
PromoteDigest(p) ==
    /\ scribe[p].stage = "promote"
    /\ pointers' = pointers \cup {scribe[p].week}
    /\ ScribeTo(p, NoDigest)
    /\ UNCHANGED <<week, desk, shelf, digests, byHand, skimmed, unlinked>>

DigestKilled(p) ==
    /\ scribe[p] # NoDigest
    /\ skimmed' = IF scribe[p].stage = "read" THEN skimmed \cup (scribe[p].read \cap shelf) ELSE skimmed
    /\ unlinked' = IF scribe[p].stage = "promote" THEN unlinked \cup {scribe[p].week} ELSE unlinked
    /\ ScribeTo(p, NoDigest)
    /\ UNCHANGED <<week, desk, shelf, digests, pointers, byHand>>

-----------------------------------------------------------------------------
\* _draft_triage_pass: drafts older than a week whose week has a digest of any
\* kind; finalized epilogues stay.
FileDraft ==
    /\ \E w \in Weeks, n \in DraftNames :
          /\ <<w, n>> \in desk
          /\ w < week
          /\ digests[w] # Missing
          /\ desk' = desk \ {<<w, n>>} /\ shelf' = shelf \cup {<<w, n>>}
          /\ skimmed' = IF digests[w] = Skeleton /\ AtWork(w) = {}
                        THEN skimmed \cup {<<w, n>>} ELSE skimmed
    /\ UNCHANGED <<week, digests, pointers, scribe, byHand, unlinked>>

NextWeek ==
    /\ week < LastWeek
    /\ week' = week + 1
    /\ UNCHANGED <<desk, shelf, digests, pointers, scribe, byHand, skimmed, unlinked>>

DigestNext ==
    \/ NewPaper \/ FileDraft \/ NextWeek
    \/ \E p \in Scribes :
          \/ \E w \in Weeks : BeginDigest(p, w)
          \/ WriteChapter(p) \/ WriteSkeleton(p) \/ PromoteDigest(p) \/ DigestKilled(p)

DigestSpec == DigestInit /\ [][DigestNext]_digestVars

-----------------------------------------------------------------------------
(* "its signal lives in the digest" (_draft_triage_pass): what a filed     *)
(* draft says is in the chapter of its week, or will be when the run that  *)
(* read it ends, unless it was filed on the strength of a skeleton, its    *)
(* run failed, or somebody had the week digested by hand; and a chapter    *)
(* can be found as a memory, unless its run was stopped just before.       *)
FiledIsTold ==
    /\ \A d \in shelf : \/ d \in digests[d[1]].tells \cup skimmed
                        \/ d[1] \in byHand
                        \/ \E p \in AtWork(d[1]) : d \in scribe[p].read
    /\ \A w \in Weeks : digests[w].kind = "chapter" =>
           \/ w \in pointers \cup unlinked
           \/ \E p \in Scribes : scribe[p].stage = "promote" /\ scribe[p].week = w
=============================================================================
