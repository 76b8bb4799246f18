----------------------------- MODULE SessionEnd -----------------------------
(***************************************************************************)
(* The rolling session log (session_log.py) and what the SessionEnd hook   *)
(* makes of it (session_end.py): a draft epilogue and the epilogue-due     *)
(* flag, which the next boot shows.  What becomes of drafts is Digests'.   *)
(*                                                                         *)
(* Every window's hooks append to one file and any window's end moves it   *)
(* away, without a lock.  Opening for append, writing and closing is one   *)
(* step; the tests for existence before it are steps of their own.  Names  *)
(* of files carry the minute, and a suffix where the code gives one.       *)
(***************************************************************************)
EXTENDS Naturals, FiniteSets

CONSTANTS
    LogWindows,      \* windows of the assistant
    LastLine,        \* bound: lines a window logs
    LastMinute,      \* bound: the clock
    RenameReplaces   \* values for: rename onto a file replaces it (POSIX)

ASSUME SessionEndAssumption ==
    LastLine \in Nat /\ LastMinute \in Nat /\ RenameReplaces \subseteq BOOLEAN

VARIABLES
    log,         \* the active log: {} if there is none, else {its set of lines}
    archive,     \* session_logs/: <<minute, suffix>> -> [lines, told]
    drafts,      \* epilogues/draft-*: minute -> the lines it tells of
    due,         \* there is an .epilogue-due flag
    hook,        \* hook[w]: the hook process of window w
    minute, replaces,
    written,     \* history: lines ever logged
    lostLines,   \* history: lines a race on the log's files removed
    untold       \* history: lines a race kept out of every draft

endVars == <<log, archive, drafts, due, hook, minute, replaces,
             written, lostLines, untold>>

NoHook == [stage |-> "idle"]
Over   == [stage |-> "over"]        \* the window has ended
LogIs(lines) == log' = {lines}
LogLines == UNION log
Stored(f, k, v) == [n \in DOMAIN f \cup {k} |-> IF n = k THEN v ELSE f[n]]

EndInit ==
    /\ log = {} /\ archive = << >> /\ drafts = << >> /\ due = FALSE
    /\ hook = [w \in LogWindows |-> NoHook]
    /\ minute = 0 /\ replaces \in RenameReplaces
    /\ written = {} /\ lostLines = {} /\ untold = {}

HookTo(w, h) == hook' = [hook EXCEPT ![w] = h]
LogFiles   == <<log, archive>>
Epilogues  == <<drafts, due>>
Histories  == <<written, lostLines, untold>>

-----------------------------------------------------------------------------
(* session_log.append, from a prompt, a tool or a session start. *)

\* _ensure_log: a missing log is to get a header; an oversized one is rotated.
BeginAppend(w) ==
    /\ hook[w] = NoHook
    /\ Cardinality({l \in written : l[1] = w}) < LastLine
    /\ \/ log = {} /\ HookTo(w, [stage |-> "header"])
       \/ log # {} /\ HookTo(w, [stage |-> "append"])
       \/ LogLines # {} /\ HookTo(w, [stage |-> "dest", then |-> "append", text |-> {}, had |-> {}])
    /\ UNCHANGED <<LogFiles, Epilogues, minute, replaces, Histories>>

\* write_text: whatever another window has put there meanwhile is gone.
WriteHeader(w) ==
    /\ hook[w].stage = "header"
    /\ LogIs({})
    /\ lostLines' = lostLines \cup LogLines
    /\ HookTo(w, [stage |-> "append"])
    /\ UNCHANGED <<archive, Epilogues, minute, replaces, written, untold>>

AppendLine(w) ==
    /\ hook[w].stage = "append"
    /\ LET line == <<w, Cardinality({l \in written : l[1] = w})>> IN
       /\ LogIs(LogLines \cup {line})
       /\ written' = written \cup {line}
    /\ HookTo(w, NoHook)
    /\ UNCHANGED <<archive, Epilogues, minute, replaces, lostLines, untold>>

-----------------------------------------------------------------------------
(* session_log.archive: a free name is chosen, then the log renamed to it; *)
(* without a log it returns None.  hook.then is what follows.              *)

\* (Mutant: the suffix is not tried.)
FreeSuffix_None(m) == 0
FreeSuffix(m) == CHOOSE n \in 0..Cardinality(DOMAIN archive) :
                     /\ <<m, n>> \notin DOMAIN archive
                     /\ \A k \in 0..(n - 1) : <<m, k>> \in DOMAIN archive

\* What follows archive(): nothing but a draft has a use for the text.
After(h) == IF h.then = "draft" THEN [stage |-> "draft", text |-> h.text]
                                ELSE IF h.then = "append" THEN [stage |-> "append"] ELSE Over

ChooseArchive(w) ==
    /\ hook[w].stage = "dest"
    /\ IF log = {}
       THEN HookTo(w, After(hook[w]))
       ELSE HookTo(w, [stage |-> "rename", then |-> hook[w].then,
                       text |-> hook[w].text, had |-> hook[w].had,
                       dest |-> <<minute, FreeSuffix(minute)>>,
                       free |-> <<minute, FreeSuffix(minute)>> \notin DOMAIN archive])
    /\ UNCHANGED <<LogFiles, Epilogues, minute, replaces, Histories>>

\* The footer, which makes a log anew if another window has moved it meanwhile, and
\* the rename.  It fails when the log was moved in between, or when the target
\* exists and is not replaced; archive() swallows that.  A line logged since
\* session_end read the log is in no draft.
RenameLog(w) ==
    /\ hook[w].stage = "rename"
    /\ LET d == hook[w].dest
           taken == d \in DOMAIN archive
       IN  \/ /\ log = {} /\ UNCHANGED <<LogFiles, lostLines, untold>>
           \/ /\ taken /\ ~replaces
              /\ LogIs(LogLines)
              /\ UNCHANGED <<archive, lostLines, untold>>
           \/ /\ ~taken \/ replaces
              /\ archive' = Stored(archive, d, [lines |-> LogLines,
                                                told |-> hook[w].then = "draft"])
              /\ log' = {}
              /\ lostLines' = IF taken /\ hook[w].free THEN lostLines \cup archive[d].lines ELSE lostLines
              /\ untold' = IF hook[w].then = "draft"
                           THEN untold \cup (LogLines \ hook[w].had) ELSE untold
    /\ HookTo(w, After(hook[w]))
    /\ UNCHANGED <<Epilogues, minute, replaces, written>>

-----------------------------------------------------------------------------
(* session_end.main *)

\* read_active(): the whole log, before it is moved.
\* (Mutant: the log is read once it has been moved.)
ReadActive_Late == {}
ReadActive == LogLines

\* A headless worker's log, and a quiet session's with something in it, is just
\* moved away, and so is that of the distiller's own prompts, told from its text; a
\* significant one is read first (had: what was logged by then).
BeginEnd(w) ==
    /\ hook[w] = NoHook
    /\ \/ HookTo(w, [stage |-> "dest", then |-> "over", text |-> {}, had |-> {}])
       \/ HookTo(w, [stage |-> "dest", then |-> "draft", text |-> ReadActive, had |-> written])
    /\ UNCHANGED <<LogFiles, Epilogues, minute, replaces, Histories>>

\* _write_draft: a draft of the same minute is written over.
WriteSessionDraft(w) ==
    /\ hook[w].stage = "draft"
    /\ untold' = untold \cup (IF minute \in DOMAIN drafts
                              THEN drafts[minute] \ hook[w].text ELSE {})
    /\ drafts' = Stored(drafts, minute, hook[w].text)
    /\ HookTo(w, [stage |-> "flag"])
    /\ UNCHANGED <<LogFiles, due, minute, replaces, written, lostLines>>

\* The habits sidecar and the flag; the consolidate event after them is
\* SleepCycle's.
DropFlag(w) ==
    /\ hook[w].stage = "flag"
    /\ due' = TRUE
    /\ HookTo(w, Over)
    /\ UNCHANGED <<LogFiles, drafts, minute, replaces, Histories>>

\* A hook is killed; what it had read is told by nobody.
HookKilled(w) ==
    /\ hook[w] \notin {NoHook, Over}
    /\ untold' = IF hook[w].stage \in {"rename", "draft"} THEN untold \cup hook[w].text ELSE untold
    /\ HookTo(w, IF \/ hook[w].stage \in {"header", "append"}
                    \/ hook[w].stage \in {"dest", "rename"} /\ hook[w].then = "append"
                 THEN NoHook ELSE Over)
    /\ UNCHANGED <<LogFiles, Epilogues, minute, replaces, written, lostLines>>

-----------------------------------------------------------------------------
(* After the session. *)

\* boot_ritual of the next session shows the flags and removes them.
ConsumeFlags ==
    /\ due
    /\ due' = FALSE
    /\ UNCHANGED <<LogFiles, drafts, hook, minute, replaces, Histories>>

EndClock ==
    /\ minute < LastMinute
    /\ minute' = minute + 1
    /\ UNCHANGED <<LogFiles, Epilogues, hook, replaces, Histories>>

EndNext ==
    \/ \E w \in LogWindows :
          \/ BeginAppend(w) \/ WriteHeader(w) \/ AppendLine(w)
          \/ ChooseArchive(w) \/ RenameLog(w)
          \/ BeginEnd(w) \/ WriteSessionDraft(w) \/ DropFlag(w) \/ HookKilled(w)
    \/ ConsumeFlags \/ EndClock

EndSpec == EndInit /\ [][EndNext]_endVars

-----------------------------------------------------------------------------
(* Nothing is lost from the log however often it is rotated ("the durable  *)
(* record", session_log.py): a line is in the active log or in an archive, *)
(* unless a header was written over it or two archivers had chosen one     *)
(* name.                                                                   *)
LinesAreKept ==
    written \subseteq LogLines \cup lostLines \cup UNION {archive[a].lines : a \in DOMAIN archive}

(* What a significant session logged is in a draft, or will be when the    *)
(* hook that archived it gets there: the exceptions are lines logged after *)
(* the hook read the log, a hook that was killed, and a draft that another *)
(* window's end wrote over within the minute.                              *)
DraftsTellTheSession ==
    \A a \in DOMAIN archive : archive[a].told =>
        archive[a].lines \subseteq
            untold \cup (UNION {drafts[m] : m \in DOMAIN drafts})
                   \cup UNION {hook[w].text : w \in {v \in LogWindows : hook[v].stage = "draft"}}
=============================================================================
