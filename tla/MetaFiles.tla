----------------------------- MODULE MetaFiles -----------------------------
(***************************************************************************)
(* The small state files under _meta/ that every command reads whole,      *)
(* changes and writes back in place: open_threads.md (threads.py),         *)
(* feature_flags.json (feature_flags.py) and migrations_applied.json       *)
(* (migrations/runner.py, started at every boot).                          *)
(*                                                                         *)
(* No lock and no temporary file: opening for writing empties the file,    *)
(* the text follows.  A reader in between sees nothing, and takes that for *)
(* an empty file; so does every reader after a writer was killed there.    *)
(***************************************************************************)
EXTENDS Naturals, FiniteSets

CONSTANTS
    Threads, FlagNames, Migrations,   \* what the files list
    Commanders,                       \* processes that run a command at a time
    MaxCommands                       \* bound: commands ever run

ASSUME MetaFilesAssumption == MaxCommands \in Nat

VARIABLES
    files,      \* files[k]: the entries of file k
    command,    \* command[c]: the command process c runs
    commands,   \* bound: commands so far
    promised,   \* history: entries a command reported saved and none removed
    mangled,    \* history: entries lost to an overlap or a killed writer
    applied,    \* history: how often a migration ran to its end
    repeats     \* history: its runs beside another, or after its record was lost

metaVars == <<files, command, commands, promised, mangled, applied, repeats>>

Kinds == {"threads", "flags", "migrations"}
Entries == [threads |-> Threads, flags |-> FlagNames, migrations |-> Migrations]
NoCommand == [stage |-> "none"]

MetaInit ==
    /\ files = [k \in Kinds |-> {}]
    /\ command = [c \in Commanders |-> NoCommand] /\ commands = 0
    /\ promised = {} /\ mangled = {}
    /\ applied = [m \in Migrations |-> 0] /\ repeats = [m \in Migrations |-> 0]

CommandTo(c, v) == command' = [command EXCEPT ![c] = v]

-----------------------------------------------------------------------------
\* _load, and the change in memory: threads add, remove (close and reopen replace
\* an entry by itself), a flag set.  remove of what is not there saves nothing.
LoadToChange(c) ==
    /\ command[c] = NoCommand /\ commands < MaxCommands
    /\ \E k \in {"threads", "flags"} : \E e \in Entries[k] :
          \/ /\ e \notin files[k]
             /\ CommandTo(c, [stage |-> "open", kind |-> k, old |-> files[k],
                              add |-> {e}, drop |-> {}])
          \/ /\ k = "threads" /\ e \in files[k]
             /\ CommandTo(c, [stage |-> "open", kind |-> k, old |-> files[k],
                              add |-> {}, drop |-> {e}])
    /\ commands' = commands + 1
    /\ UNCHANGED <<files, promised, mangled, applied, repeats>>

\* Emptied files, and what they are about to hold again.
Hidden == UNION {{<<command[c].kind, e>> : e \in command[c].hidden} :
                    c \in {d \in Commanders : command[d].stage = "write"}}

\* Why a migration that ran may be missing from the marker: the record was lost, or
\* is on its way.
Unrecorded(m) ==
    \/ <<"migrations", m>> \in Hidden \cup mangled
    \/ \E c \in Commanders : command[c] # NoCommand /\ m \in command[c].add

Excuse(ms) == repeats' = [m \in Migrations |-> repeats[m] + IF m \in ms THEN 1 ELSE 0]

Migrating(old, add, failed, base) ==
    [stage |-> "migrate", kind |-> "migrations", old |-> old, add |-> add, drop |-> {},
     failed |-> failed, base |-> base]

\* runner.main: the marker is read once, before the first migration.
LoadMarker(c) ==
    /\ command[c] = NoCommand /\ commands < MaxCommands
    /\ files["migrations"] # Migrations
    /\ CommandTo(c, Migrating(files["migrations"], {}, {}, applied))
    /\ Excuse({m \in Migrations \ files["migrations"] : applied[m] > 0 /\ Unrecorded(m)})
    /\ commands' = commands + 1
    /\ UNCHANGED <<files, promised, mangled, applied>>

\* run_one: a migration that raises is not recorded and the next one runs.
RunMigration(c) ==
    /\ command[c].stage = "migrate"
    /\ LET due == Migrations \ (command[c].old \cup command[c].add
                                 \cup command[c].failed) IN
       IF due = {}
       THEN /\ CommandTo(c, [stage |-> "open", kind |-> "migrations", old |-> command[c].old,
                             add |-> command[c].add, drop |-> {}])
            /\ UNCHANGED <<applied, repeats>>
       ELSE \E m \in due :
               \/ /\ CommandTo(c, Migrating(command[c].old, command[c].add \cup {m},
                                           command[c].failed, command[c].base))
                  /\ applied' = [applied EXCEPT ![m] = @ + 1]
                  /\ Excuse({m} \cap {n \in Migrations : applied[n] > command[c].base[n]})
               \/ /\ CommandTo(c, Migrating(command[c].old, command[c].add,
                                           command[c].failed \cup {m}, command[c].base))
                  /\ UNCHANGED <<applied, repeats>>
    /\ UNCHANGED <<files, commands, promised, mangled>>

\* What is written: all of what was read, changed.  (Mutant: the new entry only.)
Changed_Only(c) == command[c].add
Changed(c) == (command[c].old \cup command[c].add) \ command[c].drop

\* write_text: the file is emptied ...
OpenForWriting(c) ==
    /\ command[c].stage = "open"
    /\ LET k == command[c].kind IN
       /\ files' = [files EXCEPT ![k] = {}]
       /\ CommandTo(c, [stage |-> "write", kind |-> k, new |-> Changed(c),
                        add |-> command[c].add, drop |-> command[c].drop,
                        old |-> command[c].old, hidden |-> files[k]])
    /\ UNCHANGED <<commands, promised, mangled, applied, repeats>>

\* ... and filled.  What another command wrote since this one read is gone.
FillFile(c) ==
    /\ command[c].stage = "write"
    /\ LET k == command[c].kind
           theirs == ((command[c].hidden \cup files[k]) \ command[c].old) \ command[c].new
       IN  /\ files' = [files EXCEPT ![k] = command[c].new]
           /\ mangled' = (mangled \ {<<k, e>> : e \in command[c].new})
                             \cup {<<k, e>> : e \in theirs}
           /\ promised' = (promised \cup {<<k, e>> : e \in command[c].add})
                             \ {<<k, e>> : e \in command[c].drop}
    /\ CommandTo(c, NoCommand)
    /\ UNCHANGED <<commands, applied, repeats>>

\* A command is killed: the boot gives the runner a limited time.  Between the two
\* halves of a write everything in the file is lost; what ran is not recorded.
CommandKilled(c) ==
    /\ command[c] # NoCommand
    /\ LET torn == IF command[c].stage = "write" THEN command[c].hidden ELSE {}
           ran  == IF command[c].kind = "migrations" THEN command[c].add ELSE {}
       IN  mangled' = mangled \cup {<<command[c].kind, e>> : e \in torn \cup ran}
    /\ CommandTo(c, NoCommand)
    /\ UNCHANGED <<files, commands, promised, applied, repeats>>

MetaNext ==
    \E c \in Commanders :
        \/ LoadToChange(c) \/ LoadMarker(c) \/ RunMigration(c)
        \/ OpenForWriting(c) \/ FillFile(c) \/ CommandKilled(c)

MetaSpec == MetaInit /\ [][MetaNext]_metaVars

-----------------------------------------------------------------------------
\* What a command reported saved stays until a command removes it, save for
\* overlaps and torn writes.
PromisesAreKept ==
    promised \subseteq {p \in Kinds \X (Threads \cup FlagNames \cup Migrations) : p[2] \in files[p[1]]}
                          \cup Hidden \cup mangled

\* "execute migrations exactly once each" (runner.py): one runs again only beside a
\* run of it, or when its record was lost.
MigrationsRunOnce == \A m \in Migrations : applied[m] <= 1 + repeats[m]

(* The small files tell the truth about what commands did, but for what    *)
(* overlapping or killed commands did to each other.                       *)
MetaFilesAreKept == PromisesAreKept /\ MigrationsRunOnce
=============================================================================
