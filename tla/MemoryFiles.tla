---------------------------- MODULE MemoryFiles ----------------------------
(***************************************************************************)
(* The memory files (MEMORY_DIR/*.md) as every other part finds them: text *)
(* and modification time, changed by tool calls between two hooks          *)
(* (pretooluse_dispatcher.py before, memory_write_postprocess.py after) or *)
(* by anybody else, without hooks.  What the hooks do to their own stores  *)
(* is in the modules that extend this one.                                 *)
(*                                                                         *)
(* A tick is the 0.1 s that the read gate cannot tell apart; SecondLen     *)
(* ticks make the second that snapshot names and event ids are cut to.     *)
(***************************************************************************)
EXTENDS Naturals, FiniteSets

CONSTANTS
    Mems,        \* memory files
    Editors,     \* sessions whose Write|Edit tool calls run the hooks
    LastTick,    \* bound: the clock stops here
    SecondLen,   \* ticks in a second
    MaxTexts     \* bound: how many texts are ever written

ASSUME FilesAssumption ==
    /\ IsFiniteSet(Mems)
    /\ LastTick \in Nat \ {0} /\ SecondLen \in Nat \ {0} /\ MaxTexts \in Nat

VARIABLES
    now,         \* the clock
    text,        \* text[f]: which text f holds, numbered as written; 0: no file
    mtime,       \* mtime[f]; a removed file's last one, 0: never written
    texts,       \* texts written so far
    editing,     \* editing[s]: the tool call s is in, and how far it is
    quiet        \* history: files written with an mtime that is no later than
                 \*   the one they had (within 0.1 s, or an old file restored)

filesVars == <<now, text, mtime, texts, editing, quiet>>

Ticks   == 1..LastTick
Texts   == 1..MaxTexts
Second(t) == t \div SecondLen
Seconds == {Second(t) : t \in Ticks}
NoEdit  == [stage |-> "none"]

FilesTypeOK ==
    /\ now \in Ticks
    /\ text \in [Mems -> 0..MaxTexts]
    /\ mtime \in [Mems -> 0..LastTick]
    /\ texts \in 0..MaxTexts
    /\ editing \in [Editors -> {NoEdit} \cup [stage : {"pre", "written"}, file : Mems]]
    /\ quiet \subseteq Mems

FilesInit ==
    /\ now = 1
    /\ text = [f \in Mems |-> 0]
    /\ mtime = [f \in Mems |-> 0]
    /\ texts = 0
    /\ editing = [s \in Editors |-> NoEdit]
    /\ quiet = {}

Exists(f) == text[f] # 0

\* f gets the next text, with modification time t.
Put(f, t) ==
    /\ texts < MaxTexts
    /\ texts' = texts + 1
    /\ text' = [text EXCEPT ![f] = texts + 1]
    /\ mtime' = [mtime EXCEPT ![f] = t]
    /\ quiet' = IF t <= mtime[f] THEN quiet \cup {f} ELSE quiet

\* The PreToolUse hooks of a Write|Edit of f have run.
ToolPre(s, f) ==
    /\ editing[s] = NoEdit
    /\ texts < MaxTexts
    /\ editing' = [editing EXCEPT ![s] = [stage |-> "pre", file |-> f]]
    /\ UNCHANGED <<now, text, mtime, texts, quiet>>

\* The user or the conflict check (conflict.py asks) declines the call.
ToolDeclined(s) ==
    /\ editing[s].stage = "pre"
    /\ editing' = [editing EXCEPT ![s] = NoEdit]
    /\ UNCHANGED <<now, text, mtime, texts, quiet>>

ToolWrite(s) ==
    /\ editing[s].stage = "pre"
    /\ Put(editing[s].file, now)
    /\ editing' = [editing EXCEPT ![s] = [stage |-> "written", file |-> @.file]]
    /\ UNCHANGED now

\* The PostToolUse hooks have run.
ToolPost(s) ==
    /\ editing[s].stage = "written"
    /\ editing' = [editing EXCEPT ![s] = NoEdit]
    /\ UNCHANGED <<now, text, mtime, texts, quiet>>

\* An editor, a script or a restored backup; t may lie in the past.
ForeignWrite(f, t) ==
    /\ t <= now
    /\ Put(f, t)
    /\ UNCHANGED <<now, editing>>

\* Archived (consolidate.py) or removed by hand.
Remove(f) ==
    /\ Exists(f)
    /\ text' = [text EXCEPT ![f] = 0]
    /\ UNCHANGED <<now, mtime, texts, editing, quiet>>

Tick ==
    /\ now < LastTick
    /\ now' = now + 1
    /\ UNCHANGED <<text, mtime, texts, editing, quiet>>
=============================================================================
