----------------------------- MODULE ReadGate -----------------------------
(***************************************************************************)
(* read_gate.py and read_gate_record.py: a Read of a file of middling size *)
(* that was previewed less than a day ago is refused, and the preview is   *)
(* served in its place.  After a Read that went through, the PostToolUse   *)
(* hook takes a new preview: it reads the text, and stats the file when it *)
(* stores the row.                                                         *)
(*                                                                         *)
(* The hit counter is left out, and so are texts that are excluded by path *)
(* or too small or too large: they are never in Gateable.                  *)
(***************************************************************************)
EXTENDS MemoryFiles

CONSTANTS
    Readers,     \* sessions that Read files
    Gateable,    \* files whose path and size the gate serves
    TTL          \* ticks a preview may be served

ASSUME GateAssumption == Gateable \subseteq Mems /\ TTL \in Nat

VARIABLES
    preview,     \* preview[f]: the row of read_observations, or NoPreview
    reading,     \* reading[r]: the Read r is in
    torn         \* history: files whose row has a text that was no longer the
                 \*   file's when the row got its mtime

gateVars == <<preview, reading, torn>>

NoPreview == [text |-> 0, at |-> 0, mtime |-> 0]
NoRead    == [stage |-> "none"]

GateInit ==
    /\ preview = [f \in Mems |-> NoPreview]
    /\ reading = [r \in Readers |-> NoRead]
    /\ torn = {}

\* gate_decision: the Read is denied and the preview served.
\* (Mutant: a file that changed since the capture is served from the cache.)
Denied_AnyMtime(f) ==
    /\ Exists(f)
    /\ preview[f] # NoPreview
    /\ now - preview[f].at <= TTL
Denied(f) ==
    /\ Exists(f)
    /\ preview[f] # NoPreview
    /\ now - preview[f].at <= TTL
    /\ mtime[f] <= preview[f].mtime

\* The gate lets the Read through (fail-open); the tool reads the file.
ReadAllowed(r, f) ==
    /\ reading[r] = NoRead
    /\ ~Denied(f)
    /\ reading' = [reading EXCEPT ![r] = [stage |-> "read", file |-> f]]
    /\ UNCHANGED <<preview, torn>>

\* read_gate_record.main: the first 4000 characters become the preview.
TakePreview(r) ==
    /\ reading[r].stage = "read"
    /\ LET f == reading[r].file IN
       reading' = [reading EXCEPT ![r] =
           IF Exists(f) /\ f \in Gateable
           THEN [stage |-> "taken", file |-> f, text |-> text[f]]
           ELSE NoRead]
    /\ UNCHANGED <<preview, torn>>

\* record(): stat the file (0.0 when it is gone) and upsert the row.
RecordPreview(r) ==
    /\ reading[r].stage = "taken"
    /\ LET f == reading[r].file IN
       /\ preview' = [preview EXCEPT ![f] =
              [text |-> reading[r].text, at |-> now,
               mtime |-> IF Exists(f) THEN mtime[f] ELSE 0]]
       /\ torn' = IF reading[r].text = text[f] THEN torn \ {f} ELSE torn \cup {f}
    /\ reading' = [reading EXCEPT ![r] = NoRead]

\* The hook is killed, or the database is locked: fail-soft.
RecordCut(r) ==
    /\ reading[r].stage \in {"read", "taken"}
    /\ reading' = [reading EXCEPT ![r] = NoRead]
    /\ UNCHANGED <<preview, torn>>

\* `read_gate.py purge`
Purge ==
    /\ preview' = [f \in Mems |-> NoPreview]
    /\ UNCHANGED <<reading, torn>>

\* `read_gate.py record f`: read, stat and store, by hand.
CliRecord(f) ==
    /\ Exists(f)
    /\ preview' = [preview EXCEPT ![f] = [text |-> text[f], at |-> now, mtime |-> mtime[f]]]
    /\ torn' = torn \ {f}
    /\ UNCHANGED reading

GateNext ==
    \/ \E r \in Readers, f \in Mems : ReadAllowed(r, f)
    \/ \E r \in Readers : TakePreview(r) \/ RecordPreview(r) \/ RecordCut(r)
    \/ \E f \in Gateable : CliRecord(f)
    \/ Purge

-----------------------------------------------------------------------------
(* Whoever is refused a Read gets the preview of the text the file holds   *)
(* now (the notice says the cache "invalidates itself when the file's      *)
(* mtime changes").  Two things defeat the mtime: a preview that was taken *)
(* before an edit and stored after it, and a write that leaves the file no *)
(* newer than it was.  Nothing else does, however reads, recordings and    *)
(* edits overlap.                                                          *)
GateServesCurrent ==
    \A f \in Mems :
        Denied(f) => preview[f].text = text[f] \/ f \in torn \/ f \in quiet
=============================================================================
