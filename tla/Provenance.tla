---------------------------- MODULE Provenance ----------------------------
(***************************************************************************)
(* provenance.py: before a Write|Edit of a memory file the PreToolUse hook *)
(* copies it to _meta/provenance/<slug>/<YYYYmmdd-HHMMSS>.md.  The name is *)
(* the second, so a slot holds one snapshot and the later one overwrites.  *)
(*                                                                         *)
(* snapshot() means to skip a file whose last snapshot has the same        *)
(* content, but it compares the hash of the snapshot with its two header   *)
(* lines to the hash of the bare file (lines 112-114): they never agree,   *)
(* and every pre-edit state is written.                                    *)
(***************************************************************************)
EXTENDS MemoryFiles

CONSTANTS KeepSeconds   \* prune: snapshots older than this go, except the oldest

ASSUME ProvAssumption == KeepSeconds \in Nat

VARIABLES
    versions,    \* versions[f][s]: the text of the snapshot named by second s, 0: none
    replaced,    \* history: replaced[f]: texts that a hooked write replaced
    lost         \* history: lost[f]: texts whose snapshot a later one of the same
                 \*   second overwrote, or that got there after the snapshot

provVars == <<versions, replaced, lost>>

ProvInit ==
    /\ versions = [f \in Mems |-> [s \in Seconds |-> 0]]
    /\ replaced = [f \in Mems |-> {}]
    /\ lost = [f \in Mems |-> {}]

Named(f)   == {s \in Seconds : versions[f][s] # 0}
History(f) == {versions[f][s] : s \in Named(f)}
Oldest(f)  == CHOOSE s \in Named(f) : \A r \in Named(f) : s <= r

\* snapshot(), from the hook of a Write|Edit of f; no file: nothing to keep.
Snapshot(f) ==
    LET s == Second(now)
        gone == {versions[f][s]} \ {0, text[f]}
    IN  /\ versions' = IF Exists(f) THEN [versions EXCEPT ![f][s] = text[f]] ELSE versions
        /\ lost' = IF Exists(f)
                   THEN [lost EXCEPT ![f] = (@ \cup gone) \ {text[f]}]
                   ELSE lost
        /\ UNCHANGED replaced

\* What the write of f replaces, for the record of the property below.
Replaces(f) ==
    /\ replaced' = [replaced EXCEPT ![f] = @ \cup ({text[f]} \ {0})]
    /\ lost' = IF Exists(f) /\ text[f] \notin History(f)
               THEN [lost EXCEPT ![f] = @ \cup {text[f]}] ELSE lost
    /\ UNCHANGED versions

\* `provenance.py prune`, per memory: all that are too old, except the oldest.
\* (Mutant: the snapshots are sorted the wrong way round.)
PruneKeeps_Newest(f) == CHOOSE s \in Named(f) : \A r \in Named(f) : r <= s
PruneKeeps(f) == Oldest(f)

Prune(f) ==
    /\ Named(f) # {}
    /\ versions' = [versions EXCEPT ![f] =
           [s \in Seconds |-> IF s + KeepSeconds < Second(now) /\ s # PruneKeeps(f)
                              THEN 0 ELSE @[s]]]
    /\ UNCHANGED <<replaced, lost>>

-----------------------------------------------------------------------------
(* A text that a hooked edit replaced can be found again: it is in the     *)
(* history, or an older one is (prune keeps the root of the genealogy), or *)
(* it is one of the named losses: overwritten within its second, or        *)
(* written by somebody else between the snapshot and the tool's write.     *)
HistoryKeepsReplaced ==
    \A f \in Mems : \A v \in replaced[f] :
        \/ v \in History(f)
        \/ v \in lost[f]
        \/ \E u \in History(f) : u < v
=============================================================================
