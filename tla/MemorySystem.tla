--------------------------- MODULE MemorySystem ---------------------------
(***************************************************************************)
(* What hangs on a memory file, composed: the hooks around a tool's write  *)
(* (snapshot before, reindex job after), the read gate's previews, the     *)
(* embedding index and the knowledge graph.  They meet only in the files,  *)
(* which none of them writes; `watched` is the one whose store moves in    *)
(* this behaviour, the stores of the others stand still (their steps       *)
(* neither read nor write anything the watched one does).                  *)
(***************************************************************************)
EXTENDS ReadGate, Provenance, MemoryIndex, KnowledgeGraph

VARIABLES watched

memoryVars == <<filesVars, gateVars, provVars, indexVars, kgVars, watched>>

Watching(c) == watched = c

StillGate  == UNCHANGED gateVars
StillProv  == UNCHANGED provVars
StillIndex == UNCHANGED indexVars
StillKg    == UNCHANGED kgVars

MemoryInit ==
    /\ FilesInit /\ GateInit /\ ProvInit /\ IndexInit /\ KgInit
    /\ watched \in {"gate", "provenance", "index", "graph"}

\* pretooluse_dispatcher on Write|Edit: conflict.py may ask, provenance copies.
BeforeTool(s, f) ==
    /\ ToolPre(s, f)
    /\ IF Watching("provenance") THEN Snapshot(f) ELSE StillProv
    /\ StillGate /\ StillIndex

\* The tool writes the file.
Tool(s) ==
    /\ ToolWrite(s)
    /\ IF Watching("provenance") THEN Replaces(editing[s].file) ELSE StillProv
    /\ StillGate /\ StillIndex

\* posttooluse_dispatcher -> memory_write_postprocess.main
AfterTool(s) ==
    /\ ToolPost(s)
    /\ IF Watching("index")
       THEN EmitReindex(editing[s].file) \/ NotEmitted(editing[s].file)
       ELSE StillIndex
    /\ StillGate /\ StillProv

Foreign(f, t) ==
    /\ t = now \/ Watching("gate")     \* only the gate reads times
    /\ ForeignWrite(f, t)
    /\ IF Watching("index") THEN NotEmitted(f) ELSE StillIndex
    /\ StillGate /\ StillProv

FilesStep ==
    \/ \E s \in Editors, f \in Mems : BeforeTool(s, f)
    \/ \E s \in Editors : Tool(s) \/ AfterTool(s)
    \/ \E f \in Mems, t \in Ticks : Foreign(f, t)
    \/ /\ \/ \E s \in Editors : ToolDeclined(s)
          \/ \E f \in Mems : Remove(f)
          \/ Tick
       /\ StillGate /\ StillProv /\ StillIndex

MemoryNext ==
    \/ /\ ~Watching("graph")
       /\ FilesStep
       /\ StillKg
       /\ UNCHANGED watched
    \/ /\ \/ Watching("gate") /\ GateNext /\ StillProv /\ StillIndex /\ StillKg
          \/ /\ Watching("provenance")
             /\ \E f \in Mems : Prune(f)
             /\ StillGate /\ StillIndex /\ StillKg
          \/ Watching("index") /\ IndexNext /\ StillGate /\ StillProv /\ StillKg
          \/ Watching("graph") /\ KgNext /\ StillGate /\ StillProv /\ StillIndex
       /\ UNCHANGED <<filesVars, watched>>

-----------------------------------------------------------------------------
(* When the work for a memory has come to rest (no open reindex job, no    *)
(* drainer embedding it, no hook that has yet to emit), its vector is that *)
(* of the text on disk (outbox_worker: "so semantic recall reflects disk   *)
(* within one tool tick"), or the loss is one of these: the write ran no   *)
(* hooks or could not emit, its job is dead, its emission fell into an id  *)
(* that was being processed, or an older text was stored over a newer one. *)
IndexReflectsDisk == Watching("index") => IndexCatchesUp

-----------------------------------------------------------------------------
MemorySpec == MemoryInit /\ [][MemoryNext]_memoryVars
=============================================================================
