------------------------------- MODULE Upkeep -------------------------------
(***************************************************************************)
(* The passes of a sleep cycle that rewrite memories, or file tensions     *)
(* between them, beside a user who edits the same files: reconsolidate.py  *)
(* redrafts a hot and stale memory with a model's help, backlink.py        *)
(* appends related links, conflict_recorder.py opens conflicts for near    *)
(* duplicates.  Cycles of two workers may overlap.                         *)
(*                                                                         *)
(* A pass holds the text it read, over a model call or over the whole      *)
(* spine, and writes its edit of that text later; what it overwrites it    *)
(* has just put into the provenance snapshots, if that did not fail.       *)
(* A text is [n, kind, linked]; n tells any two writes apart.              *)
(***************************************************************************)
EXTENDS Naturals, FiniteSets

CONSTANTS
    Spine,          \* memories
    Cycles,         \* sleep cycles that may run at once
    MaxTexts,       \* bound: texts ever written
    MaxConflicts    \* bound: conflict rows ever opened

ASSUME UpkeepAssumption == MaxTexts \in Nat /\ MaxConflicts \in Nat

VARIABLES
    text,           \* text[f]: what is on disk
    kept,           \* provenance: <<memory, text>> snapshots
    open,           \* the unresolved conflict rows of the one near-duplicate pair
    cycle,          \* cycle[c]: a sleep cycle
    texts, rows,    \* bounds: texts and rows so far
    overwritten,    \* history: <<memory, text>> that a pass wrote over
    unlucky,        \* history: of these, written since the snapshot or not snapshotted
    doubled         \* history: rows opened while another cycle's was not yet visible

upkeepVars == <<text, kept, open, cycle, texts, rows, overwritten, unlucky, doubled>>

NoCycle == [stage |-> "none"]
AutoKinds == {"project"}        \* AUTO_TYPES; the identity types are left to the human

UpkeepInit ==
    /\ text \in [Spine -> [n : {0}, kind : {"project", "self"}, linked : {FALSE}]]
    /\ kept = {} /\ open = 0 /\ texts = 0 /\ rows = 0
    /\ cycle = [c \in Cycles |-> NoCycle]
    /\ overwritten = {} /\ unlucky = {} /\ doubled = 0

NewText(kind, linked) == [n |-> texts + 1, kind |-> kind, linked |-> linked]
CycleTo(c, v) == cycle' = [cycle EXCEPT ![c] = v]
TextState  == <<text, kept, texts, overwritten, unlucky>>
ConflictState == <<open, rows, doubled>>

-----------------------------------------------------------------------------
(* _near_duplicate_pass and record_near_dups: no second row while one is   *)
(* open.                                                                   *)

AlreadyOpen == open > 0

LookForConflict(c) ==
    /\ cycle[c] = NoCycle
    /\ CycleTo(c, IF AlreadyOpen THEN [stage |-> "select"]
                                 ELSE [stage |-> "insert", seen |-> open])
    /\ UNCHANGED <<TextState, ConflictState>>

InsertConflict(c) ==
    /\ cycle[c].stage = "insert" /\ rows < MaxConflicts
    /\ open' = open + 1 /\ rows' = rows + 1
    /\ doubled' = doubled + IF open > cycle[c].seen THEN 1 ELSE 0
    /\ CycleTo(c, [stage |-> "select"])
    /\ UNCHANGED TextState

\* conflict_recorder resolve: every open row of the pair.
ResolveConflict ==
    /\ open > 0
    /\ open' = 0 /\ doubled' = 0
    /\ UNCHANGED <<TextState, cycle, rows>>

-----------------------------------------------------------------------------
(* reconsolidate.run *)

\* select_targets: the kind is read here, the text again when its turn comes.
SelectTargets(c) ==
    /\ cycle[c].stage = "select"
    /\ \E hot \in SUBSET Spine :
          CycleTo(c, [stage |-> "targets", todo |-> {f \in hot : text[f].kind \in AutoKinds}])
    /\ UNCHANGED <<TextState, ConflictState>>

\* No evidence, or no target is left: the next pass is the backlinks'.
ReadTarget(c) ==
    /\ cycle[c].stage = "targets"
    /\ IF cycle[c].todo = {}
       THEN CycleTo(c, [stage |-> "link", todo |-> Spine, read |-> text])
       ELSE \E f \in cycle[c].todo :
               \/ CycleTo(c, [stage |-> "targets", todo |-> cycle[c].todo \ {f}])
               \/ CycleTo(c, [stage |-> "draft", todo |-> cycle[c].todo \ {f},
                              file |-> f, old |-> text[f], safe |-> {}])
    /\ UNCHANGED <<TextState, ConflictState>>

\* What provenance.snapshot copies: the file as it is now.
\* (Mutant: the text the pass read.)
Snapshotted_Held(c) == cycle[c].old
Snapshotted(c)      == text[cycle[c].file]

\* The model answered (or did not: the target is skipped), and the snapshot was
\* taken, or failed silently.
SnapshotTarget(c) ==
    /\ cycle[c].stage \in {"draft", "linking"}
    /\ \/ /\ cycle[c].stage = "draft"
          /\ CycleTo(c, [stage |-> "targets", todo |-> cycle[c].todo])
          /\ UNCHANGED kept
       \/ \E ok \in BOOLEAN :
             /\ kept' = IF ok THEN kept \cup {<<cycle[c].file, Snapshotted(c)>>} ELSE kept
             /\ LET safe == IF ok THEN {text[cycle[c].file]} ELSE {} IN
                CycleTo(c, IF cycle[c].stage = "draft"
                           THEN [stage |-> "redraft", todo |-> cycle[c].todo, file |-> cycle[c].file,
                                 old |-> cycle[c].old, safe |-> safe]
                           ELSE [stage |-> "relink", todo |-> cycle[c].todo, file |-> cycle[c].file,
                                 read |-> cycle[c].read, old |-> cycle[c].old, safe |-> safe])
    /\ UNCHANGED <<text, texts, overwritten, unlucky, ConflictState>>

\* A pass writes its edit of the text it holds over whatever is there.
PassWrites(c, new) ==
    /\ LET f == cycle[c].file IN
       /\ overwritten' = overwritten \cup {<<f, text[f]>>}
       /\ unlucky' = IF text[f] \in cycle[c].safe THEN unlucky ELSE unlucky \cup {<<f, text[f]>>}
       /\ text' = [text EXCEPT ![f] = new]
    /\ UNCHANGED <<kept, ConflictState>>

\* _apply_body: the frontmatter that was read, a new body.
WriteRedraft(c) ==
    /\ cycle[c].stage = "redraft" /\ texts < MaxTexts
    /\ PassWrites(c, NewText(cycle[c].old.kind, cycle[c].old.linked))
    /\ texts' = texts + 1
    /\ CycleTo(c, [stage |-> "targets", todo |-> cycle[c].todo])

-----------------------------------------------------------------------------
(* backlink.run: every text was read at its start. *)

PickUnlinked(c) ==
    /\ cycle[c].stage = "link"
    /\ IF cycle[c].todo = {}
       THEN CycleTo(c, NoCycle)
       ELSE \E f \in cycle[c].todo :
               \/ CycleTo(c, [stage |-> "link", todo |-> cycle[c].todo \ {f}, read |-> cycle[c].read])
               \/ /\ ~cycle[c].read[f].linked
                  /\ CycleTo(c, [stage |-> "linking", todo |-> cycle[c].todo \ {f}, file |-> f,
                                 read |-> cycle[c].read, old |-> cycle[c].read[f], safe |-> {}])
    /\ UNCHANGED <<TextState, ConflictState>>

WriteLinks(c) ==
    /\ cycle[c].stage = "relink" /\ texts < MaxTexts
    /\ PassWrites(c, NewText(cycle[c].old.kind, TRUE))
    /\ texts' = texts + 1
    /\ CycleTo(c, [stage |-> "link", todo |-> cycle[c].todo, read |-> cycle[c].read])

-----------------------------------------------------------------------------
\* The user edits a memory, its kind included; the editor's own snapshots are
\* MemorySystem's.
UserEdits(f) ==
    /\ texts < MaxTexts
    /\ \E k \in {"project", "self"} :
          text' = [text EXCEPT ![f] = NewText(k, @.linked)]
    /\ texts' = texts + 1
    /\ UNCHANGED <<kept, overwritten, unlucky, cycle, ConflictState>>

CycleKilled(c) ==
    /\ cycle[c] # NoCycle
    /\ CycleTo(c, NoCycle)
    /\ UNCHANGED <<TextState, ConflictState>>

UpkeepNext ==
    \/ \E c \in Cycles :
          \/ LookForConflict(c) \/ InsertConflict(c) \/ SelectTargets(c) \/ ReadTarget(c)
          \/ SnapshotTarget(c) \/ WriteRedraft(c) \/ PickUnlinked(c) \/ WriteLinks(c)
          \/ CycleKilled(c)
    \/ ResolveConflict
    \/ \E f \in Spine : UserEdits(f)

UpkeepSpec == UpkeepInit /\ [][UpkeepNext]_upkeepVars

-----------------------------------------------------------------------------
\* What a pass wrote over can be restored, unless it was written between the
\* pass's snapshot and its write, or the snapshot failed.
OverwrittenIsRecoverable == overwritten \subseteq kept \cup unlucky

\* "a pair with an OPEN conflict row is never re-inserted" (conflict_recorder.py),
\* but by two cycles that looked before either had inserted.
ConflictsOpenOnce == open <= 1 + doubled

(* What the machine does to the spine unasked can be undone, and tensions  *)
(* do not pile up, however user and cycles interleave.                     *)
UpkeepIsSound == OverwrittenIsRecoverable /\ ConflictsOpenOnce
=============================================================================
