---------------------------- MODULE UpkeepProofs ----------------------------
(***************************************************************************)
(* What the machine does unasked to memories, habits, its own small files  *)
(* and the candidates that wait.  For any number of memories, cycles,      *)
(* reviewers, commands and lanes: what a pass writes over can be restored, *)
(* a flag costs one vote, a command's promise is kept, a migration runs    *)
(* once and the candidates' counts add up, but for the overlaps and stops  *)
(* the code allows.                                                        *)
(***************************************************************************)
EXTENDS Upkeep, Procedural, MetaFiles, CandidateQueue, SequenceTheorems,
        FiniteSetTheorems, WellFoundedInduction, TLAPS

-----------------------------------------------------------------------------
(* The passes over the spine. *)

\* A pass that is about to write has in the snapshots what it calls safe.
SafeIsKept ==
    \A c \in Cycles : cycle[c].stage \in {"redraft", "relink"} =>
        \A x \in cycle[c].safe : <<cycle[c].file, x>> \in kept

TensionsCount ==
    /\ open \in Nat /\ doubled \in Nat
    /\ \A c \in Cycles : cycle[c].stage = "insert" => cycle[c].seen = 0

UpkeepInv ==
    /\ DOMAIN cycle = Cycles
    /\ SafeIsKept /\ TensionsCount /\ OverwrittenIsRecoverable /\ ConflictsOpenOnce

LEMMA UpkeepStep == UpkeepInv /\ [UpkeepNext]_upkeepVars => UpkeepInv'
  <1> SUFFICES ASSUME UpkeepInv, [UpkeepNext]_upkeepVars PROVE UpkeepInv'
    OBVIOUS
  <1> USE DEF UpkeepInv, TextState, ConflictState, CycleTo, SafeIsKept, TensionsCount,
              OverwrittenIsRecoverable, ConflictsOpenOnce
  <1>1. CASE UNCHANGED upkeepVars
    BY <1>1 DEF upkeepVars
  <1>2. ASSUME NEW c \in Cycles, LookForConflict(c) PROVE UpkeepInv'
    BY <1>2 DEF LookForConflict, AlreadyOpen
  <1>3. ASSUME NEW c \in Cycles, InsertConflict(c) PROVE UpkeepInv'
    BY <1>3 DEF InsertConflict
  <1>4. ASSUME NEW c \in Cycles, SelectTargets(c) PROVE UpkeepInv'
    BY <1>4 DEF SelectTargets
  <1>5. ASSUME NEW c \in Cycles, ReadTarget(c) PROVE UpkeepInv'
    BY <1>5 DEF ReadTarget
  <1>6. ASSUME NEW c \in Cycles, SnapshotTarget(c) PROVE UpkeepInv'
    BY <1>6 DEF SnapshotTarget, Snapshotted
  <1>7. ASSUME NEW c \in Cycles, WriteRedraft(c) PROVE UpkeepInv'
    BY <1>7 DEF WriteRedraft, PassWrites
  <1>8. ASSUME NEW c \in Cycles, PickUnlinked(c) PROVE UpkeepInv'
    BY <1>8 DEF PickUnlinked, NoCycle
  <1>9. ASSUME NEW c \in Cycles, WriteLinks(c) PROVE UpkeepInv'
    BY <1>9 DEF WriteLinks, PassWrites
  <1>10. ASSUME NEW c \in Cycles, CycleKilled(c) PROVE UpkeepInv'
    BY <1>10 DEF CycleKilled, NoCycle
  <1>11. CASE ResolveConflict
    BY <1>11 DEF ResolveConflict
  <1>12. ASSUME NEW f \in Spine, UserEdits(f) PROVE UpkeepInv'
    BY <1>12 DEF UserEdits
  <1> QED
    BY <1>1, <1>2, <1>3, <1>4, <1>5, <1>6, <1>7, <1>8, <1>9, <1>10, <1>11, <1>12 DEF UpkeepNext

\* What reconsolidation and backlinks write over can be restored, and a pair has one
\* open conflict (reconsolidate.py, backlink.py, conflict_recorder.py).
THEOREM UnaskedWritesAreSound == UpkeepSpec => []UpkeepIsSound
  <1>1. UpkeepInit => UpkeepInv
    BY DEF UpkeepInit, UpkeepInv, SafeIsKept, TensionsCount, OverwrittenIsRecoverable,
           ConflictsOpenOnce, NoCycle
  <1>2. UpkeepInv => UpkeepIsSound
    BY DEF UpkeepInv, UpkeepIsSound
  <1> QED
    BY <1>1, <1>2, UpkeepStep, PTL DEF UpkeepSpec
-----------------------------------------------------------------------------
(* The small files. *)

AllEntries == Threads \cup FlagNames \cup Migrations

CommandStates ==
    [stage : {"none"}]
    \cup [stage : {"migrate"}, kind : {"migrations"}, old : SUBSET AllEntries,
          add : SUBSET AllEntries, drop : {{}}, failed : SUBSET AllEntries,
          base : [Migrations -> Nat]]
    \cup [stage : {"open"}, kind : Kinds, old : SUBSET AllEntries, add : SUBSET AllEntries,
          drop : SUBSET AllEntries]
    \cup [stage : {"write"}, kind : Kinds, new : SUBSET AllEntries, add : SUBSET AllEntries,
          drop : SUBSET AllEntries, old : SUBSET AllEntries, hidden : SUBSET AllEntries]

\* Nothing is dropped from the marker, and what is written is what was read, changed.
ChangesAreWhole ==
    \A c \in Commanders :
        /\ command[c].stage \in {"open", "write"} /\ command[c].kind = "migrations" =>
               command[c].drop = {}
        /\ command[c].stage = "write" =>
               command[c].new = (command[c].old \cup command[c].add) \ command[c].drop

MetaType ==
    /\ files \in [Kinds -> SUBSET AllEntries]
    /\ command \in [Commanders -> CommandStates]
    /\ ChangesAreWhole
    /\ applied \in [Migrations -> Nat] /\ repeats \in [Migrations -> Nat]

HiddenIn(k, e) == \E c \in Commanders :
    command[c].stage = "write" /\ command[c].kind = k /\ e \in command[c].hidden

Promises ==
    \A p \in promised : /\ p \in Kinds \X AllEntries
                        /\ p[2] \in files[p[1]] \/ HiddenIn(p[1], p[2]) \/ p \in mangled

\* A migration that ran is in the marker, or its record was lost, or is on its way.
Recorded ==
    \A m \in Migrations : applied[m] > 0 =>
        \/ m \in files["migrations"] \/ HiddenIn("migrations", m) \/ <<"migrations", m>> \in mangled
        \/ \E c \in Commanders : /\ command[c].stage \in {"migrate", "open", "write"}
                                 /\ command[c].kind = "migrations" /\ m \in command[c].add

\* What a run takes for undone had, when it began, been excused as often as it ran.
RerunsExcused ==
    \A c \in Commanders : command[c].stage = "migrate" =>
        \A m \in Migrations \ (command[c].old \cup command[c].add) :
            command[c].base[m] <= repeats[m]

MetaInv == MetaType /\ Promises /\ Recorded /\ RerunsExcused /\ MigrationsRunOnce

LEMMA HiddenPairs ==
    \A k, e : <<k, e>> \in Hidden <=> HiddenIn(k, e)
  BY DEF Hidden, HiddenIn

LEMMA MetaStep == MetaInv /\ [MetaNext]_metaVars => MetaInv'
  <1> SUFFICES ASSUME MetaInv, [MetaNext]_metaVars PROVE MetaInv'
    OBVIOUS
  <1> USE DEF MetaInv, CommandTo
  <1>1. CASE UNCHANGED metaVars
    BY <1>1 DEF metaVars, MetaType, ChangesAreWhole, Promises, Recorded, RerunsExcused,
                MigrationsRunOnce, HiddenIn
  <1>2. ASSUME NEW c \in Commanders, LoadToChange(c) PROVE MetaInv'
    <2>1. command[c].stage = "none"
      BY <1>2 DEF LoadToChange, NoCommand
    <2>2. MetaType'
      BY <1>2 DEF LoadToChange, MetaType, ChangesAreWhole, CommandStates, Entries, AllEntries, Kinds
    <2>3. \A k, e : HiddenIn(k, e)' <=> HiddenIn(k, e)
      BY <1>2, <2>1 DEF LoadToChange, MetaType, HiddenIn
    <2>4. Promises'
      BY <1>2, <2>3 DEF LoadToChange, Promises
    <2>5. Recorded'
      BY <1>2, <2>1, <2>3 DEF LoadToChange, MetaType, Recorded
    <2> QED
      BY <1>2, <2>2, <2>4, <2>5 DEF LoadToChange, MetaType, RerunsExcused, MigrationsRunOnce
  <1>3. ASSUME NEW c \in Commanders, LoadMarker(c) PROVE MetaInv'
    <2>1. command[c].stage = "none"
      BY <1>3 DEF LoadMarker, NoCommand
    <2>2. MetaType'
      BY <1>3 DEF LoadMarker, Migrating, Excuse, MetaType, ChangesAreWhole, CommandStates, Kinds
    <2>3. \A k, e : HiddenIn(k, e)' <=> HiddenIn(k, e)
      BY <1>3, <2>1 DEF LoadMarker, Migrating, MetaType, HiddenIn
    <2>4. Promises'
      BY <1>3, <2>3 DEF LoadMarker, Promises
    <2>5. Recorded'
      BY <1>3, <2>1, <2>3 DEF LoadMarker, Migrating, MetaType, Recorded
    <2>6. \A m \in Migrations : repeats[m] <= repeats'[m]
      BY <1>3 DEF LoadMarker, Excuse, MetaType
    <2>7. ASSUME NEW m \in Migrations \ files["migrations"] PROVE applied[m] <= repeats'[m]
      <3>1. applied[m] > 0 => Unrecorded(m)
        BY HiddenPairs DEF Recorded, Unrecorded, NoCommand
      <3> QED
        BY <1>3, <3>1 DEF LoadMarker, Excuse, MetaType, MigrationsRunOnce
    <2>8. RerunsExcused'
      <3> SUFFICES ASSUME NEW d \in Commanders, command'[d].stage = "migrate",
                          NEW m \in Migrations \ (command'[d].old \cup command'[d].add)
                   PROVE  command'[d].base[m] <= repeats'[m]
        BY DEF RerunsExcused
      <3>1. CASE d = c
        BY <1>3, <2>7, <3>1 DEF LoadMarker, Migrating, MetaType
      <3>2. CASE d # c
        <4>1. command'[d] = command[d] /\ command[d] \in CommandStates
          BY <1>3, <3>2 DEF LoadMarker, MetaType
        <4>2. command[d].base \in [Migrations -> Nat]
          BY <4>1 DEF CommandStates
        <4>3. command[d].base[m] <= repeats[m]
          BY <4>1 DEF RerunsExcused
        <4> QED
          BY <2>2, <2>6, <4>1, <4>2, <4>3 DEF MetaType
      <3> QED
        BY <3>1, <3>2
    <2>9. MigrationsRunOnce'
      BY <1>3, <2>2, <2>6 DEF LoadMarker, MetaType, MigrationsRunOnce
    <2> QED
      BY <2>2, <2>4, <2>5, <2>8, <2>9
  <1>4. ASSUME NEW c \in Commanders, RunMigration(c) PROVE MetaInv'
    <2>1. /\ command[c].stage = "migrate" /\ command[c].kind = "migrations"
          /\ {command[c].old, command[c].add, command[c].failed} \subseteq SUBSET AllEntries
          /\ command[c].base \in [Migrations -> Nat]
      BY <1>4 DEF RunMigration, MetaType, CommandStates
    <2>2. CASE /\ command' = [command EXCEPT ![c] =
                   [stage |-> "open", kind |-> "migrations", old |-> command[c].old,
                    add |-> command[c].add, drop |-> {}]]
               /\ UNCHANGED <<applied, repeats>>
      <3>1. MetaType'
        BY <1>4, <2>1, <2>2 DEF RunMigration, MetaType, ChangesAreWhole, CommandStates, Kinds
      <3>2. \A k, e : HiddenIn(k, e)' <=> HiddenIn(k, e)
        BY <2>1, <2>2 DEF MetaType, HiddenIn
      <3>3. Promises' /\ Recorded'
        BY <1>4, <2>1, <2>2, <3>2 DEF RunMigration, MetaType, Promises, Recorded
      <3> QED
        BY <2>2, <3>1, <3>3 DEF MetaType, RerunsExcused, MigrationsRunOnce
    <2>3. ASSUME NEW m \in Migrations \ (command[c].old \cup command[c].add),
                 command' = [command EXCEPT ![c] = Migrating(command[c].old,
                     command[c].add \cup {m}, command[c].failed, command[c].base)],
                 applied' = [applied EXCEPT ![m] = @ + 1],
                 Excuse({m} \cap {n \in Migrations : applied[n] > command[c].base[n]})
          PROVE  MetaInv'
      <3>1. MetaType'
        BY <1>4, <2>1, <2>3 DEF RunMigration, Migrating, Excuse, MetaType, ChangesAreWhole,
                                CommandStates, AllEntries
      <3>2. \A k, e : HiddenIn(k, e)' <=> HiddenIn(k, e)
        BY <2>1, <2>3 DEF Migrating, MetaType, HiddenIn
      <3>3. Promises'
        BY <1>4, <3>2 DEF RunMigration, Promises
      <3>4. Recorded'
        BY <1>4, <2>1, <2>3, <3>2 DEF RunMigration, Migrating, MetaType, Recorded
      <3>5. \A n \in Migrations : repeats[n] <= repeats'[n]
        BY <2>3 DEF Excuse, MetaType
      <3>6. RerunsExcused'
        <4> SUFFICES ASSUME NEW d \in Commanders, command'[d].stage = "migrate",
                            NEW n \in Migrations \ (command'[d].old \cup command'[d].add)
                     PROVE  command'[d].base[n] <= repeats'[n]
          BY DEF RerunsExcused
        <4>1. command'[d].base = command[d].base /\ command[d].stage = "migrate"
              /\ n \notin command[d].old \cup command[d].add
          BY <2>1, <2>3 DEF Migrating, MetaType
        <4>2. command[d].base \in [Migrations -> Nat]
          BY <4>1 DEF MetaType, CommandStates
        <4>3. command[d].base[n] <= repeats[n]
          BY <4>1 DEF RerunsExcused
        <4> QED
          BY <3>1, <3>5, <4>1, <4>2, <4>3 DEF MetaType
      <3>7. MigrationsRunOnce'
        <4>1. applied[m] + 1 <= 1 + repeats'[m]
          <5>1. command[c].base[m] <= repeats[m]
            BY <2>1 DEF RerunsExcused
          <5>2. applied[m] > command[c].base[m] => repeats'[m] = repeats[m] + 1
            BY <2>3 DEF Excuse
          <5> QED
            BY <2>1, <3>5, <5>1, <5>2, <3>1 DEF MetaType, MigrationsRunOnce
        <4> QED
          BY <2>3, <3>1, <3>5, <4>1 DEF MetaType, MigrationsRunOnce
      <3> QED
        BY <3>1, <3>3, <3>4, <3>6, <3>7
    <2>4. ASSUME NEW m \in Migrations,
                 command' = [command EXCEPT ![c] = Migrating(command[c].old, command[c].add,
                     command[c].failed \cup {m}, command[c].base)],
                 UNCHANGED <<applied, repeats>>
          PROVE  MetaInv'
      <3>1. MetaType'
        BY <1>4, <2>1, <2>4 DEF RunMigration, Migrating, MetaType, ChangesAreWhole,
                                CommandStates, AllEntries
      <3>2. \A k, e : HiddenIn(k, e)' <=> HiddenIn(k, e)
        BY <2>1, <2>4 DEF Migrating, MetaType, HiddenIn
      <3>3. Promises' /\ Recorded'
        BY <1>4, <2>1, <2>4, <3>2 DEF RunMigration, Migrating, MetaType, Promises, Recorded
      <3> QED
        BY <2>1, <2>4, <3>1, <3>3 DEF Migrating, MetaType, RerunsExcused, MigrationsRunOnce
    <2> QED
      BY <1>4, <2>2, <2>3, <2>4 DEF RunMigration
  <1>5. ASSUME NEW c \in Commanders, OpenForWriting(c) PROVE MetaInv'
    <2> PICK k \in Kinds : k = command[c].kind
      BY <1>5 DEF OpenForWriting, MetaType, CommandStates
    <2>1. /\ command[c].stage = "open"
          /\ {command[c].old, command[c].add, command[c].drop} \subseteq SUBSET AllEntries
      BY <1>5 DEF OpenForWriting, MetaType, CommandStates
    <2>2. /\ files' = [files EXCEPT ![k] = {}]
          /\ command' = [command EXCEPT ![c] =
                 [stage |-> "write", kind |-> k, new |-> Changed(c), add |-> command[c].add,
                  drop |-> command[c].drop, old |-> command[c].old, hidden |-> files[k]]]
      BY <1>5 DEF OpenForWriting
    <2>3. MetaType'
      BY <1>5, <2>1, <2>2 DEF OpenForWriting, Changed, MetaType, ChangesAreWhole, CommandStates
    <2>4. \A q, e : HiddenIn(q, e) => HiddenIn(q, e)'
      BY <2>1, <2>2 DEF MetaType, HiddenIn
    <2>5. \A e \in files[k] : HiddenIn(k, e)'
      BY <2>1, <2>2 DEF MetaType, HiddenIn
    <2>6. \A q \in Kinds : \A e : e \in files[q] \/ HiddenIn(q, e) => e \in files'[q] \/ HiddenIn(q, e)'
      BY <2>1, <2>2, <2>4, <2>5 DEF MetaType
    <2>7. Promises'
      BY <1>5, <2>6 DEF OpenForWriting, Promises
    <2>8. Recorded'
      BY <1>5, <2>1, <2>2, <2>6 DEF OpenForWriting, MetaType, Recorded, Kinds
    <2> QED
      BY <1>5, <2>2, <2>3, <2>7, <2>8 DEF OpenForWriting, MetaType, RerunsExcused, MigrationsRunOnce
  <1>6. ASSUME NEW c \in Commanders, FillFile(c) PROVE MetaInv'
    <2> PICK k \in Kinds : k = command[c].kind
      BY <1>6 DEF FillFile, MetaType, CommandStates
    <2> DEFINE new == command[c].new
               theirs == ((command[c].hidden \cup files[k]) \ command[c].old) \ new
    <2>1. /\ command[c].stage = "write"
          /\ {command[c].old, command[c].add, command[c].drop, new} \subseteq SUBSET AllEntries
          /\ new = (command[c].old \cup command[c].add) \ command[c].drop
          /\ k = "migrations" => command[c].drop = {}
      BY <1>6 DEF FillFile, MetaType, CommandStates, ChangesAreWhole
    <2>2. /\ files' = [files EXCEPT ![k] = new]
          /\ mangled' = (mangled \ {<<k, e>> : e \in new}) \cup {<<k, e>> : e \in theirs}
          /\ promised' = (promised \cup {<<k, e>> : e \in command[c].add})
                             \ {<<k, e>> : e \in command[c].drop}
          /\ command' = [command EXCEPT ![c] = [stage |-> "none"]]
      BY <1>6 DEF FillFile, NoCommand
    <2>3. MetaType'
      BY <1>6, <2>1, <2>2 DEF FillFile, MetaType, ChangesAreWhole, CommandStates
    \* Whatever was on disk, hidden or mangled still is, but for what the command drops.
    <2>4. ASSUME NEW q \in Kinds, NEW e,
                 e \in files[q] \/ HiddenIn(q, e) \/ <<q, e>> \in mangled,
                 q # k \/ e \notin command[c].drop
          PROVE  e \in files'[q] \/ HiddenIn(q, e)' \/ <<q, e>> \in mangled'
      <3>1. CASE q # k
        <4>1. HiddenIn(q, e) => HiddenIn(q, e)'
          BY <2>2, <3>1 DEF MetaType, HiddenIn
        <4>2. files'[q] = files[q] /\ (<<q, e>> \in mangled => <<q, e>> \in mangled')
          BY <2>1, <2>2, <3>1 DEF MetaType
        <4> QED
          BY <2>4, <4>1, <4>2
      <3>2. CASE q = k
        <4>1. files'[k] = new
          BY <2>1, <2>2 DEF MetaType
        <4>2. CASE e \in new
          BY <3>2, <4>1, <4>2
        <4>3. CASE e \notin new
          <5>1. e \notin command[c].old
            BY <2>1, <2>4, <3>2, <4>3
          <5>2. CASE e \in files[k] \cup command[c].hidden
            BY <2>2, <3>2, <4>3, <5>1, <5>2
          <5>3. CASE <<k, e>> \in mangled
            BY <2>2, <3>2, <4>3, <5>3
          <5>4. CASE HiddenIn(k, e) /\ e \notin command[c].hidden
            <6>1. HiddenIn(k, e)'
              BY <2>2, <5>4 DEF MetaType, HiddenIn
            <6> QED
              BY <3>2, <6>1
          <5> QED
            BY <2>4, <3>2, <5>2, <5>3, <5>4
        <4> QED
          BY <4>2, <4>3
      <3> QED
        BY <3>1, <3>2
    <2> HIDE DEF new, theirs
    <2>5. Promises'
      <3> SUFFICES ASSUME NEW p \in promised'
                   PROVE  /\ p \in Kinds \X AllEntries
                          /\ p[2] \in files'[p[1]] \/ HiddenIn(p[1], p[2])' \/ p \in mangled'
        BY DEF Promises
      <3>1. CASE p \in promised
        <4>1. p \in Kinds \X AllEntries /\ p = <<p[1], p[2]>>
          BY <3>1 DEF Promises
        <4>2. p[1] # k \/ p[2] \notin command[c].drop
          BY <2>2, <4>1
        <4>3. p[2] \in files[p[1]] \/ HiddenIn(p[1], p[2]) \/ <<p[1], p[2]>> \in mangled
          BY <3>1, <4>1 DEF Promises
        <4>4. p[2] \in files'[p[1]] \/ HiddenIn(p[1], p[2])' \/ <<p[1], p[2]>> \in mangled'
          BY <2>4, <4>1, <4>2, <4>3
        <4> QED
          BY <4>1, <4>4
      <3>2. CASE p \notin promised
        <4>1. PICK e \in command[c].add : p = <<k, e>> /\ e \notin command[c].drop
          BY <2>2, <3>2
        <4>2. e \in new /\ files'[k] = new /\ e \in AllEntries
          BY <2>1, <2>2, <4>1 DEF MetaType
        <4> QED
          BY <2>1, <4>1, <4>2
      <3> QED
        BY <3>1, <3>2
    <2>6. Recorded'
      <3> SUFFICES ASSUME NEW m \in Migrations, applied[m] > 0
                   PROVE  \/ m \in files'["migrations"] \/ HiddenIn("migrations", m)'
                          \/ <<"migrations", m>> \in mangled'
                          \/ \E d \in Commanders :
                                /\ command'[d].stage \in {"migrate", "open", "write"}
                                /\ command'[d].kind = "migrations" /\ m \in command'[d].add
        BY <1>6 DEF FillFile, Recorded
      <3>1. CASE m \in files["migrations"] \/ HiddenIn("migrations", m) \/ <<"migrations", m>> \in mangled
        BY <2>1, <2>4, <3>1 DEF Kinds
      <3>2. ASSUME NEW d \in Commanders, command[d].stage \in {"migrate", "open", "write"},
                   command[d].kind = "migrations", m \in command[d].add
            PROVE  \/ m \in files'["migrations"]
                   \/ command'[d] = command[d]
        <4>1. CASE d = c
          BY <2>1, <2>2, <3>2, <4>1 DEF MetaType
        <4>2. CASE d # c
          BY <2>2, <4>2 DEF MetaType
        <4> QED
          BY <4>1, <4>2
      <3> QED
        BY <3>1, <3>2 DEF Recorded
    <2> QED
      BY <1>6, <2>2, <2>3, <2>5, <2>6 DEF FillFile, MetaType, RerunsExcused, MigrationsRunOnce
  <1>7. ASSUME NEW c \in Commanders, CommandKilled(c) PROVE MetaInv'
    <2> DEFINE torn == IF command[c].stage = "write" THEN command[c].hidden ELSE {}
               ran  == IF command[c].kind = "migrations" THEN command[c].add ELSE {}
    <2>1. /\ mangled' = mangled \cup {<<command[c].kind, e>> : e \in torn \cup ran}
          /\ command' = [command EXCEPT ![c] = [stage |-> "none"]]
          /\ UNCHANGED <<files, promised, applied, repeats>>
      BY <1>7 DEF CommandKilled, NoCommand
    <2>2. MetaType'
      BY <2>1 DEF MetaType, ChangesAreWhole, CommandStates
    <2>3. ASSUME NEW q, NEW e, HiddenIn(q, e)
          PROVE  HiddenIn(q, e)' \/ <<q, e>> \in mangled'
      <3>1. PICK d \in Commanders :
                command[d].stage = "write" /\ command[d].kind = q /\ e \in command[d].hidden
        BY <2>3 DEF HiddenIn
      <3>2. CASE d = c
        BY <2>1, <3>1, <3>2
      <3>3. CASE d # c
        BY <2>1, <3>1, <3>3 DEF MetaType, HiddenIn
      <3> QED
        BY <3>2, <3>3
    <2>4. Promises'
      <3> SUFFICES ASSUME NEW p \in promised
                   PROVE  p[2] \in files'[p[1]] \/ HiddenIn(p[1], p[2])' \/ p \in mangled'
        BY <2>1 DEF Promises
      <3>1. p = <<p[1], p[2]>>
            /\ (p[2] \in files[p[1]] \/ HiddenIn(p[1], p[2]) \/ p \in mangled)
        BY DEF Promises
      <3> QED
        BY <2>1, <2>3, <3>1
    <2>5. Recorded'
      <3> SUFFICES ASSUME NEW m \in Migrations, applied[m] > 0
                   PROVE  \/ m \in files'["migrations"] \/ HiddenIn("migrations", m)'
                          \/ <<"migrations", m>> \in mangled'
                          \/ \E d \in Commanders :
                                /\ command'[d].stage \in {"migrate", "open", "write"}
                                /\ command'[d].kind = "migrations" /\ m \in command'[d].add
        BY <2>1 DEF Recorded
      <3>1. ASSUME NEW d \in Commanders, command[d].stage \in {"migrate", "open", "write"},
                   command[d].kind = "migrations", m \in command[d].add
            PROVE  <<"migrations", m>> \in mangled' \/ command'[d] = command[d]
        <4>1. CASE d = c
          BY <2>1, <3>1, <4>1
        <4>2. CASE d # c
          BY <2>1, <4>2 DEF MetaType
        <4> QED
          BY <4>1, <4>2
      <3> HIDE DEF torn, ran
      <3> QED
        BY <2>1, <2>3, <3>1 DEF Recorded
    <2> QED
      BY <2>1, <2>2, <2>4, <2>5 DEF MetaType, RerunsExcused, MigrationsRunOnce
  <1> QED
    BY <1>1, <1>2, <1>3, <1>4, <1>5, <1>6, <1>7 DEF MetaNext

\* What a command reported saved stays, and a migration runs once, but for what
\* overlapping or killed commands do to each other (threads.py, feature_flags.py,
\* migrations/runner.py).
THEOREM SmallFilesAreKept == MetaSpec => []MetaFilesAreKept
  <1>1. MetaInit => MetaInv
    BY DEF MetaInit, MetaInv, MetaType, ChangesAreWhole, Promises, Recorded, RerunsExcused,
           MigrationsRunOnce, NoCommand, CommandStates, Kinds
  <1>2. MetaInv => MetaFilesAreKept
    BY HiddenPairs DEF MetaInv, MetaType, Promises, MetaFilesAreKept, PromisesAreKept, AllEntries, Kinds
  <1> QED
    BY <1>1, <1>2, MetaStep, PTL DEF MetaSpec
-----------------------------------------------------------------------------
(* The flags on habits. *)

Reviewing(e)    == {r \in Reviewers : review[r] # NoRun /\ review[r].epilogue = e}
Charging(e, id) == {r \in Reviewing(e) : id \in review[r].todo}

FlagsType ==
    /\ \E S : habits \in Seq(S)
    /\ flags \in [FlaggedEpilogues -> SUBSET Nat]
    /\ review \in [Reviewers -> {NoRun} \cup [epilogue : FlaggedEpilogues, todo : SUBSET Nat]]
    /\ costs \in [FlaggedEpilogues -> [1..MaxHabits -> Nat]]
    /\ reviewExcused \in [FlaggedEpilogues -> Nat]
    /\ \A e \in FlaggedEpilogues : IsFiniteSet(Reviewing(e))

\* What a flag has cost, and may cost yet by the reviews under way, is one vote and
\* one for each excuse.  Before the marker, and while no review runs, it is that one
\* less: the next review is the one that counts.
ChargesAdd ==
    \A e \in FlaggedEpilogues : \A id \in 1..MaxHabits :
        /\ costs[e][id] + Cardinality(Charging(e, id)) <= 1 + reviewExcused[e]
        /\ e \notin reviewed /\ Reviewing(e) = {} => costs[e][id] <= reviewExcused[e]

FlagsInv == FlagsType /\ ChargesAdd

LEMMA LeastId ==
    ASSUME NEW S \in SUBSET Nat, S # {}
    PROVE  (CHOOSE i \in S : \A j \in S : i <= j) \in S
  <1> DEFINE R == OpToRel(<, Nat)
  <1>1. \A x, y \in Nat : x < y => <<x, y>> \in R
    BY DEF OpToRel
  <1>2. IsWellFoundedOn(R, Nat)
    BY NatLessThanWellFounded
  <1> HIDE DEF R
  <1>3. PICK x \in S : \A y \in S : ~(<<y, x>> \in R)
    BY <1>2, WFMin
  <1>4. \A y \in S : ~(y < x)
    BY <1>1, <1>3
  <1>5. \A y \in S : x <= y
    BY <1>4
  <1> QED
    BY <1>5

\* The rows stay a sequence, whichever is appended or revised.
LEMMA RowsStay ==
    ASSUME NEW S, habits \in Seq(S), NEW x, NEW id,
           habits' = Append(habits, x) \/ habits' = [habits EXCEPT ![id] = x]
    PROVE  (\E T : habits \in Seq(T))'
  <1>1. DOMAIN habits = 1..Len(habits) /\ Len(habits) \in Nat /\ habits \in [1..Len(habits) -> S]
    BY LenProperties
  <1>2. habits \in Seq(S \cup {x})
    BY SeqMonotonic
  <1>3. CASE habits' = Append(habits, x)
    BY <1>2, <1>3, AppendProperties
  <1>4. CASE habits' = [habits EXCEPT ![id] = x] /\ id \in DOMAIN habits
    BY <1>1, <1>2, <1>4, ExceptSeq
  <1>5. CASE habits' = [habits EXCEPT ![id] = x] /\ id \notin DOMAIN habits
    <2>1. habits' = habits
      BY <1>1, <1>5
    <2> QED
      BY <1>2, <2>1
  <1> QED
    BY <1>3, <1>4, <1>5

LEMMA ChargingFinite ==
    ASSUME FlagsType, NEW e \in FlaggedEpilogues, NEW id
    PROVE  IsFiniteSet(Charging(e, id)) /\ Cardinality(Charging(e, id)) \in Nat
  <1>1. IsFiniteSet(Reviewing(e)) /\ Charging(e, id) \subseteq Reviewing(e)
    BY DEF FlagsType, Charging
  <1> QED
    BY <1>1, FS_Subset, FS_CardinalityType

LEMMA FlagsStep == FlagsInv /\ [HabitsNext]_habitVars => FlagsInv'
  <1> SUFFICES ASSUME FlagsInv, [HabitsNext]_habitVars PROVE FlagsInv'
    OBVIOUS
  <1>1. ASSUME UNCHANGED <<reviewed, review, costs, reviewExcused>>,
               (\E S : habits \in Seq(S))',
               flags' \in [FlaggedEpilogues -> SUBSET Nat]
        PROVE  FlagsInv'
    <2>1. \A e : Reviewing(e)' = Reviewing(e) /\ \A id : Charging(e, id)' = Charging(e, id)
      BY <1>1 DEF Reviewing, Charging
    <2> QED
      BY <1>1, <2>1 DEF FlagsInv, FlagsType, ChargesAdd
  <1>2. PICK S : habits \in Seq(S)
    BY DEF FlagsInv, FlagsType
  <1>3. ASSUME NEW d \in Designers,
               StartDesigner(d) \/ PickSource(d) \/ Distilled(d) \/ DesignerKilled(d)
        PROVE  FlagsInv'
    <2>1. UNCHANGED <<habits, FlagState>>
      BY <1>3 DEF StartDesigner, PickSource, Distilled, DesignerKilled
    <2> QED
      BY <1>1, <2>1 DEF FlagState, FlagsInv, FlagsType
  <1>4. ASSUME NEW d \in Designers, Upsert(d) PROVE FlagsInv'
    <2>1. (\E T : habits \in Seq(T))'
      <3>1. ASSUME NEW id, habits' = Voted(id, 1) PROVE (\E T : habits \in Seq(T))'
        BY <1>2, <3>1, RowsStay DEF Voted
      <3>2. ASSUME NEW x, habits' = Append(habits, x) PROVE (\E T : habits \in Seq(T))'
        BY <1>2, <3>2, RowsStay
      <3> QED
        BY <1>4, <3>1, <3>2 DEF Upsert
    <2> QED
      BY <1>1, <1>4, <2>1 DEF Upsert, FlagState, FlagsInv, FlagsType
  <1>5. ASSUME Inject \/ \E id \in DOMAIN habits : Burn(id) PROVE FlagsInv'
    <2>1. (\E T : habits \in Seq(T))'
      <3>1. ASSUME NEW id, habits' = Injected(id) PROVE (\E T : habits \in Seq(T))'
        BY <1>2, <3>1, RowsStay DEF Injected
      <3>2. ASSUME NEW id, Burn(id) PROVE (\E T : habits \in Seq(T))'
        BY <1>2, <3>2, RowsStay DEF Burn
      <3> QED
        BY <1>5, <3>1, <3>2 DEF Inject
    <2> QED
      BY <1>1, <1>5, <2>1 DEF Inject, Burn, FlagState, FlagsInv, FlagsType
  <1>6. ASSUME NEW e \in FlaggedEpilogues, Finalize(e) PROVE FlagsInv'
    <2>1. DOMAIN habits \subseteq Nat
      BY <1>2, LenProperties
    <2> QED
      BY <1>1, <1>6, <2>1 DEF Finalize, FlagsInv, FlagsType
  <1>7. ASSUME NEW e \in FlaggedEpilogues, NEW r \in Reviewers, BeginReview(r, e) PROVE FlagsInv'
    <2>1. /\ review[r] = NoRun
          /\ review' = [review EXCEPT ![r] = [epilogue |-> e, todo |-> flags[e]]]
          /\ e \notin reviewed /\ flags[e] \in SUBSET Nat
          /\ UNCHANGED <<habits, flags, reviewed, costs>>
          /\ reviewExcused' = [reviewExcused EXCEPT ![e] = @ + IF Overlapped(r, e) THEN 1 ELSE 0]
      BY <1>7 DEF BeginReview, MayReviewFlags, ReviewTo, FlagsInv, FlagsType
    <2>2. [epilogue |-> e, todo |-> flags[e]] # NoRun
      BY DEF NoRun
    <2>3. /\ Reviewing(e)' = Reviewing(e) \cup {r} /\ r \notin Reviewing(e)
          /\ \A g \in FlaggedEpilogues : g # e => Reviewing(g)' = Reviewing(g)
      BY <2>1, <2>2 DEF Reviewing, FlagsInv, FlagsType
    <2>4. FlagsType'
      <3>1. \A g \in FlaggedEpilogues : IsFiniteSet(Reviewing(g)')
        <4>1. IsFiniteSet(Reviewing(e)')
          BY <2>3, FS_AddElement DEF FlagsInv, FlagsType
        <4>2. \A g \in FlaggedEpilogues : g # e => IsFiniteSet(Reviewing(g)')
          BY <2>3 DEF FlagsInv, FlagsType
        <4> QED
          BY <4>1, <4>2
      <3> QED
        BY <2>1, <3>1 DEF FlagsInv, FlagsType
    <2>5. \A id : Charging(e, id)' = Charging(e, id) \cup (IF id \in flags[e] THEN {r} ELSE {})
      BY <2>1, <2>3 DEF Charging, Reviewing, FlagsInv, FlagsType
    <2>6. \A g \in FlaggedEpilogues : g # e => \A id : Charging(g, id)' = Charging(g, id)
      BY <2>1, <2>3 DEF Charging, Reviewing, FlagsInv, FlagsType
    <2>7. Overlapped(r, e) <=> Reviewing(e) # {}
      BY <2>3 DEF Overlapped, Reviewing
    <2>8. ASSUME NEW id \in 1..MaxHabits
          PROVE  costs'[e][id] + Cardinality(Charging(e, id)') <= 1 + reviewExcused'[e]
      <3>1. IsFiniteSet(Charging(e, id)) /\ Cardinality(Charging(e, id)) \in Nat
        BY ChargingFinite DEF FlagsInv
      <3>2. Cardinality(Charging(e, id)') \in Nat
            /\ Cardinality(Charging(e, id)') <= Cardinality(Charging(e, id)) + 1
        BY <2>5, <3>1, FS_AddElement
      <3>3. costs[e][id] \in Nat /\ reviewExcused[e] \in Nat
        BY DEF FlagsInv, FlagsType
      <3>4. CASE Reviewing(e) = {}
        <4>1. Charging(e, id) = {}
          BY <3>4 DEF Charging
        <4>2. Cardinality(Charging(e, id)) = 0
          BY <4>1, FS_EmptySet
        <4>3. costs[e][id] <= reviewExcused[e] /\ reviewExcused'[e] = reviewExcused[e]
          BY <2>1, <2>7, <3>4 DEF FlagsInv, FlagsType, ChargesAdd
        <4> QED
          BY <2>1, <3>2, <3>3, <4>2, <4>3
      <3>5. CASE Reviewing(e) # {}
        <4>1. reviewExcused'[e] = reviewExcused[e] + 1
          BY <2>1, <2>7, <3>5 DEF FlagsInv, FlagsType
        <4>2. costs[e][id] + Cardinality(Charging(e, id)) <= 1 + reviewExcused[e]
          BY DEF FlagsInv, ChargesAdd
        <4> QED
          BY <2>1, <3>1, <3>2, <3>3, <4>1, <4>2
      <3> QED
        BY <3>4, <3>5
    <2>9. ChargesAdd'
      <3>1. Reviewing(e)' # {}
        BY <2>3
      <3>2. \A g \in FlaggedEpilogues : g # e => reviewExcused'[g] = reviewExcused[g]
        BY <2>1 DEF FlagsInv, FlagsType
      <3> QED
        BY <2>1, <2>3, <2>6, <2>8, <3>1, <3>2 DEF FlagsInv, ChargesAdd
    <2> QED
      BY <2>4, <2>9 DEF FlagsInv
  <1>8. ASSUME NEW r \in Reviewers, ApplyFlag(r) PROVE FlagsInv'
    <2>1. PICK e \in FlaggedEpilogues, t \in SUBSET Nat :
              review[r] = [epilogue |-> e, todo |-> t] /\ t # {}
      BY <1>8 DEF ApplyFlag, FlagsInv, FlagsType
    <2>2. PICK i \in t : /\ habits' = Downvoted(i)
                         /\ costs' = [costs EXCEPT ![e][i] = @ + 1]
                         /\ review' = [review EXCEPT ![r] = [epilogue |-> e, todo |-> t \ {i}]]
                         /\ UNCHANGED <<flags, reviewed, reviewExcused>>
      <3> DEFINE i == CHOOSE k \in t : \A j \in t : k <= j
      <3>1. i \in t
        BY <2>1, LeastId
      <3>2. review[r].epilogue = e /\ review[r].todo = t
        BY <2>1
      <3>3. /\ habits' = Downvoted(i)
            /\ costs' = [costs EXCEPT ![e][i] = @ + 1]
            /\ review' = [review EXCEPT ![r] = [epilogue |-> e, todo |-> t \ {i}]]
            /\ UNCHANGED <<flags, reviewed, reviewExcused>>
        BY <1>8, <3>2 DEF ApplyFlag, ReviewTo
      <3> HIDE DEF i
      <3> QED
        BY <3>1, <3>3
    <2>3. (\E T : habits \in Seq(T))'
      BY <1>2, <2>2, RowsStay DEF Downvoted
    <2>4. [epilogue |-> e, todo |-> t \ {i}] # NoRun /\ [epilogue |-> e, todo |-> t] # NoRun
      BY DEF NoRun
    <2>5. \A g : Reviewing(g)' = Reviewing(g)
      BY <2>1, <2>2, <2>4 DEF Reviewing, FlagsInv, FlagsType
    <2>6. FlagsType'
      <3>1. costs' \in [FlaggedEpilogues -> [1..MaxHabits -> Nat]]
        <4>1. costs[e] \in [1..MaxHabits -> Nat]
          BY DEF FlagsInv, FlagsType
        <4>2. [costs[e] EXCEPT ![i] = @ + 1] \in [1..MaxHabits -> Nat]
          <5>1. \A id \in 1..MaxHabits : [costs[e] EXCEPT ![i] = @ + 1][id] \in Nat
            BY <4>1, ProceduralAssumption
          <5> QED
            BY <4>1, <5>1
        <4> QED
          BY <2>2, <4>2 DEF FlagsInv, FlagsType
      <3>2. review' \in [Reviewers -> {NoRun} \cup [epilogue : FlaggedEpilogues, todo : SUBSET Nat]]
        BY <2>2 DEF FlagsInv, FlagsType
      <3> QED
        BY <2>2, <2>3, <2>5, <3>1, <3>2 DEF FlagsInv, FlagsType
    <2>7. \A g, id : Charging(g, id)' = IF g = e /\ id = i THEN Charging(e, i) \ {r}
                                                           ELSE Charging(g, id)
      <3>1. \A q \in Reviewers : q # r => review'[q] = review[q]
        BY <2>2 DEF FlagsInv, FlagsType
      <3>2. review'[r] = [epilogue |-> e, todo |-> t \ {i}]
        BY <2>2 DEF FlagsInv, FlagsType
      <3>3. ASSUME NEW g, NEW id, NEW q
            PROVE  q \in Charging(g, id)' <=>
                       q \in Charging(g, id) /\ ~(g = e /\ id = i /\ q = r)
        BY <2>1, <2>5, <3>1, <3>2 DEF Charging, Reviewing
      <3>4. Charging(e, i)' = Charging(e, i) \ {r}
        BY <3>3
      <3>5. ASSUME NEW g, NEW id, ~(g = e /\ id = i)
            PROVE  Charging(g, id)' = Charging(g, id)
        <4>1. \A q : q \in Charging(g, id)' <=> q \in Charging(g, id)
          BY <3>3, <3>5
        <4> QED
          BY <4>1
      <3> QED
        BY <3>4, <3>5
    <2>8. r \in Charging(e, i)
      BY <2>1, <2>4 DEF Charging, Reviewing
    <2>9. ASSUME NEW g \in FlaggedEpilogues, NEW id \in 1..MaxHabits
          PROVE  /\ costs'[g][id] + Cardinality(Charging(g, id)')
                        = costs[g][id] + Cardinality(Charging(g, id))
                 /\ Reviewing(g) = {} => costs'[g][id] = costs[g][id]
      <3>1. costs[g][id] \in Nat
        BY DEF FlagsInv, FlagsType
      <3>2. CASE g = e /\ id = i
        <4>1. costs'[g][id] = costs[g][id] + 1
          BY <2>2, <3>2 DEF FlagsInv, FlagsType
        <4>2. IsFiniteSet(Charging(e, i)) /\ Cardinality(Charging(e, i)) \in Nat
          BY ChargingFinite DEF FlagsInv
        <4>3. Cardinality(Charging(e, i) \ {r}) = Cardinality(Charging(e, i)) - 1
          BY <2>8, <4>2, FS_RemoveElement
        <4>4. Reviewing(e) # {}
          BY <2>8 DEF Charging
        <4> QED
          BY <2>7, <3>1, <3>2, <4>1, <4>2, <4>3, <4>4
      <3>3. CASE g # e \/ id # i
        <4>1. costs'[g][id] = costs[g][id]
          BY <2>2, <3>3 DEF FlagsInv, FlagsType
        <4> QED
          BY <2>7, <3>3, <4>1
      <3> QED
        BY <3>2, <3>3
    <2>10. ChargesAdd'
      BY <2>2, <2>5, <2>9 DEF FlagsInv, ChargesAdd
    <2> QED
      BY <2>6, <2>10 DEF FlagsInv
  <1>9. ASSUME NEW r \in Reviewers, EndReview(r) PROVE FlagsInv'
    <2>1. PICK e \in FlaggedEpilogues, t \in SUBSET Nat : review[r] = [epilogue |-> e, todo |-> t]
      BY <1>9 DEF EndReview, FlagsInv, FlagsType
    <2>2. /\ review' = [review EXCEPT ![r] = NoRun]
          /\ UNCHANGED <<habits, flags, costs>>
      BY <1>9 DEF EndReview, ReviewTo
    <2>3. \/ reviewed' = reviewed \cup {e} /\ UNCHANGED reviewExcused
          \/ reviewExcused' = [reviewExcused EXCEPT ![e] = @ + 1] /\ UNCHANGED reviewed
      BY <1>9, <2>1 DEF EndReview
    <2>4. [epilogue |-> e, todo |-> t] # NoRun
      BY DEF NoRun
    <2>5. /\ Reviewing(e)' = Reviewing(e) \ {r}
          /\ \A g : g # e => Reviewing(g)' = Reviewing(g)
      BY <2>1, <2>2, <2>4 DEF Reviewing, FlagsInv, FlagsType
    <2>6. FlagsType'
      <3>1. \A g \in FlaggedEpilogues : IsFiniteSet(Reviewing(g)')
        <4>1. IsFiniteSet(Reviewing(e)')
          <5>1. IsFiniteSet(Reviewing(e))
            BY DEF FlagsInv, FlagsType
          <5> QED
            BY <2>5, <5>1, FS_RemoveElement
        <4>2. \A g \in FlaggedEpilogues : g # e => IsFiniteSet(Reviewing(g)')
          BY <2>5 DEF FlagsInv, FlagsType
        <4> QED
          BY <4>1, <4>2
      <3> QED
        BY <2>2, <2>3, <3>1 DEF FlagsInv, FlagsType
    <2>7. \A g, id : Charging(g, id)' = IF g = e THEN Charging(e, id) \ {r} ELSE Charging(g, id)
      BY <2>1, <2>2, <2>5 DEF Charging, Reviewing, FlagsInv, FlagsType
    <2>8. ASSUME NEW g \in FlaggedEpilogues, NEW id \in 1..MaxHabits
          PROVE  /\ Cardinality(Charging(g, id)') \in Nat
                 /\ Cardinality(Charging(g, id)') <= Cardinality(Charging(g, id))
                 /\ Cardinality(Charging(g, id)) \in Nat
      <3>1. IsFiniteSet(Charging(g, id)) /\ Cardinality(Charging(g, id)) \in Nat
        BY ChargingFinite DEF FlagsInv
      <3>2. Charging(g, id)' = Charging(g, id) \ {r} \/ Charging(g, id)' = Charging(g, id)
        BY <2>7
      <3>3. CASE Charging(g, id)' = Charging(g, id)
        BY <3>1, <3>3
      <3>4. CASE Charging(g, id)' = Charging(g, id) \ {r}
        <4>1. Cardinality(Charging(g, id)') \in Nat
          BY <3>1, <3>4, FS_RemoveElement, FS_CardinalityType
        <4>2. Cardinality(Charging(g, id) \ {r})
                  = IF r \in Charging(g, id) THEN Cardinality(Charging(g, id)) - 1
                                             ELSE Cardinality(Charging(g, id))
          BY <3>1, FS_RemoveElement
        <4> QED
          BY <3>1, <3>4, <4>1, <4>2
      <3> QED
        BY <3>2, <3>3, <3>4
    <2>9. ChargesAdd'
      <3> SUFFICES ASSUME NEW g \in FlaggedEpilogues, NEW id \in 1..MaxHabits
                   PROVE  /\ costs[g][id] + Cardinality(Charging(g, id)') <= 1 + reviewExcused'[g]
                          /\ g \notin reviewed' /\ Reviewing(g)' = {} =>
                                 costs[g][id] <= reviewExcused'[g]
        BY <2>2 DEF ChargesAdd
      <3>1. /\ costs[g][id] \in Nat /\ reviewExcused[g] \in Nat
            /\ costs[g][id] + Cardinality(Charging(g, id)) <= 1 + reviewExcused[g]
            /\ g \notin reviewed /\ Reviewing(g) = {} => costs[g][id] <= reviewExcused[g]
        BY DEF FlagsInv, FlagsType, ChargesAdd
      <3>2. CASE g # e
        BY <2>3, <2>5, <2>7, <3>1, <3>2 DEF FlagsInv, FlagsType
      <3>3. CASE g = e /\ e \in reviewed'
        BY <2>3, <2>8, <3>1, <3>3 DEF FlagsInv, FlagsType
      <3>4. CASE g = e /\ reviewExcused'[e] = reviewExcused[e] + 1
        BY <2>8, <3>1, <3>4
      <3> QED
        BY <2>3, <3>2, <3>3, <3>4 DEF FlagsInv, FlagsType
    <2> QED
      BY <2>6, <2>9 DEF FlagsInv
  <1>10. CASE UNCHANGED habitVars
    BY <1>1, <1>10 DEF habitVars, FlagsInv, FlagsType
  <1> QED
    BY <1>3, <1>4, <1>5, <1>6, <1>7, <1>8, <1>9, <1>10 DEF HabitsNext

\* However often an epilogue is reviewed, at boot or by hand, a flag in it costs its
\* habit one vote, and one for each review that overlapped another or did not reach
\* its marker (review_epilogue).
THEOREM FlagsAreCheap == HabitsSpec => []FlagsCostOnce
  <1>1. HabitsInit => FlagsInv
    <2> SUFFICES ASSUME HabitsInit PROVE FlagsInv
      OBVIOUS
    <2>1. \A e, id : Reviewing(e) = {} /\ Charging(e, id) = {}
      BY DEF HabitsInit, Reviewing, Charging
    <2>2. habits \in Seq({})
      BY DEF HabitsInit
    <2>3. FlagsType
      BY <2>1, <2>2, FS_EmptySet DEF HabitsInit, FlagsType, Review0
    <2>4. ChargesAdd
      <3>1. \A e, id : Cardinality(Charging(e, id)) = 0
        BY <2>1, FS_EmptySet
      <3> QED
        BY <3>1 DEF HabitsInit, ChargesAdd, Review0
    <2> QED
      BY <2>3, <2>4 DEF FlagsInv
  <1>2. FlagsInv => FlagsCostOnce
    <2> SUFFICES ASSUME FlagsInv, NEW e \in FlaggedEpilogues, NEW id \in 1..MaxHabits
                 PROVE  costs[e][id] <= 1 + reviewExcused[e]
      BY DEF FlagsCostOnce
    <2>1. Cardinality(Charging(e, id)) \in Nat
      BY ChargingFinite DEF FlagsInv
    <2> QED
      <3>1. costs[e][id] \in Nat /\ reviewExcused[e] \in Nat
        BY DEF FlagsInv, FlagsType
      <3>2. costs[e][id] + Cardinality(Charging(e, id)) <= 1 + reviewExcused[e]
        BY DEF FlagsInv, ChargesAdd
      <3> QED
        BY <2>1, <3>1, <3>2
  <1> QED
    BY <1>1, <1>2, FlagsStep, PTL DEF HabitsSpec

-----------------------------------------------------------------------------
(* The candidates that wait. *)

\* The names the lanes form, and what a file of a name says.
Names == {"auto", "reflect", "genesis"} \X Themes \X (1..2)

Says(f, c) ==
    /\ c \in [theme : {f[2]}, cites : BOOLEAN, count : Nat, triaged : BOOLEAN]
    /\ c.cites <=> f[1] = "auto"

QueueTyped ==
    /\ DOMAIN queue \subseteq Names
    /\ \A f \in DOMAIN queue : Says(f, queue[f])
    /\ seen \subseteq Themes /\ charged \subseteq Themes
    /\ spent \in [Themes -> Nat]
    /\ made \in [Themes -> Int] /\ drained \in [Themes -> Int] /\ raced \in [Themes -> Int]
    /\ DOMAIN lane = Lanes

\* A lane that drafts has found no file of its name; one that writes back holds
\* what a file of its name said.
LanesHold ==
    \A p \in Lanes :
        /\ lane[p].stage = "put" => lane[p].file \in Names /\ Says(lane[p].file, lane[p].text)
        /\ lane[p].stage = "draft" => lane[p].theme \in Themes /\ lane[p].before = 0
        /\ lane[p].stage \in {"assess", "seer"} => lane[p].theme \in Themes

\* The processes that wait for genesis' model, and those that write its file back.
AtModel(t) == {p \in Lanes : lane[p].stage = "seer" /\ lane[p].theme = t}
Rewrites(t) == {p \in Lanes : lane[p].stage = "put" /\ lane[p].file = NameOf("genesis", t, 1)}

\* genesis' file of an epilogue waits, or somebody is about to write it back.
There(t) == NameOf("genesis", t, 1) \in DOMAIN queue \/ Rewrites(t) # {}

\* The model is asked about a marked epilogue; its file is not there before, or
\* another pass was charged too.
GenesisOnce ==
    \A t \in Themes :
        /\ There(t) \/ AtModel(t) # {} \/ spent[t] > 0 => t \in seen
        /\ spent[t] > 1 => t \in charged
        /\ t \notin charged /\ AtModel(t) # {} => ~There(t)
        /\ t \notin charged => \A p, q \in AtModel(t) : p = q

AddsUp(t) == IsFiniteSet(Counted(t)) /\ CountsAddUp(t)
Added     == \A t \in Themes : AddsUp(t)

QueueInv == QueueTyped /\ LanesHold /\ GenesisOnce /\ Added

\* What a file counts is as many as it says.
LEMMA MarksOf ==
    ASSUME NEW f, NEW n \in Nat
    PROVE  IsFiniteSet({f} \X (1..n)) /\ Cardinality({f} \X (1..n)) = n
  <1>1. IsFiniteSet(1..n) /\ Cardinality(1..n) = n
    BY FS_Interval
  <1>2. IsFiniteSet({f}) /\ Cardinality({f}) = 1
    BY FS_Singleton
  <1> QED
    BY <1>1, <1>2, FS_Product

\* Replacing a part of a finite set.
LEMMA Replaced ==
    ASSUME NEW S, NEW A, NEW B, IsFiniteSet(S), IsFiniteSet(A), IsFiniteSet(B),
           S \cap A = A, (S \ A) \cap B = {}
    PROVE  /\ IsFiniteSet((S \ A) \cup B)
           /\ Cardinality((S \ A) \cup B) = Cardinality(S) - Cardinality(A) + Cardinality(B)
  <1>1. /\ Cardinality(S) \in Nat /\ Cardinality(A) \in Nat /\ Cardinality(B) \in Nat
    BY FS_CardinalityType
  <1>2. IsFiniteSet(S \ A) /\ Cardinality(S \ A) = Cardinality(S) - Cardinality(S \cap A)
    BY FS_Difference, Zenon
  <1>3. IsFiniteSet(S \ A) /\ Cardinality(S \ A) = Cardinality(S) - Cardinality(A)
    BY <1>2
  <1>4. /\ IsFiniteSet((S \ A) \cup B)
        /\ Cardinality((S \ A) \cup B)
             = Cardinality(S \ A) + Cardinality(B) - Cardinality((S \ A) \cap B)
    BY <1>3, FS_Union, Zenon
  <1>5. Cardinality((S \ A) \cap B) = 0
    BY FS_EmptySet
  <1> QED
    BY <1>1, <1>3, <1>4, <1>5, SMT

\* A file that is written counts for its theme only, and what it said before no more.
LEMMA WrittenCounts ==
    ASSUME QueueTyped, NEW f \in Names, NEW c, Says(f, c), queue' = WithFile(f, c),
           NEW t \in Themes, IsFiniteSet(Counted(t))
    PROVE  /\ IsFiniteSet(Counted(t)')
           /\ Cardinality(Counted(t)')
                = Cardinality(Counted(t)) + IF t = f[2] THEN c.count - CountOf(f) ELSE 0
  <1>1. /\ DOMAIN queue' = DOMAIN queue \cup {f} /\ queue'[f] = c
        /\ \A g \in DOMAIN queue \ {f} : queue'[g] = queue[g]
    BY DEF WithFile
  <1>2. c.theme = f[2] /\ c.count \in Nat /\ CountOf(f) \in Nat
        /\ (f \in DOMAIN queue => queue[f].theme = f[2])
    BY DEF QueueTyped, Says, CountOf
  <1>3. CASE t # f[2]
    <2>1. Waiting(t)' = Waiting(t) /\ f \notin Waiting(t)
      BY <1>1, <1>2, <1>3 DEF Waiting
    <2>2. \A g \in Waiting(t) : queue'[g].count = queue[g].count
      BY <1>1, <2>1 DEF Waiting
    <2>3. Counted(t)' = Counted(t)
      BY <2>1, <2>2 DEF Counted
    <2> QED
      BY <1>3, <2>3, FS_CardinalityType
  <1>4. CASE t = f[2]
    <2> DEFINE S == Counted(t)
               T == (S \ ({f} \X (1..CountOf(f)))) \cup ({f} \X (1..c.count))
    <2>1. \A i : <<f, i>> \in S <=> i \in 1..CountOf(f)
      BY <1>2, <1>4 DEF Counted, Waiting, CountOf
    <2>2. Counted(t)' = T
      <3>1. ASSUME NEW x PROVE x \in Counted(t)' <=> x \in T
        <4>1. x \in Counted(t)' <=> \E g \in DOMAIN queue \cup {f} :
                    queue'[g].theme = t /\ x \in {g} \X (1..queue'[g].count)
          BY <1>1 DEF Counted, Waiting
        <4>2. x \in Counted(t) <=> \E g \in DOMAIN queue :
                    queue[g].theme = t /\ x \in {g} \X (1..queue[g].count)
          BY DEF Counted, Waiting
        <4>3. x \in {f} \X (1..CountOf(f)) => x[1] = f
          OBVIOUS
        <4>4. \A g : queue[g].theme = t /\ g # f /\ x \in {g} \X (1..queue[g].count)
                       => x \notin {f} \X (1..CountOf(f))
          OBVIOUS
        <4>5. f \in DOMAIN queue => CountOf(f) = queue[f].count
          BY DEF CountOf
        <4> QED
          BY <1>1, <1>2, <1>4, <4>1, <4>2, <4>4, <4>5
      <3> QED
        BY <3>1
    <2>3. IsFiniteSet(T) /\ Cardinality(T) = Cardinality(S) - CountOf(f) + c.count
      <3> DEFINE A == {f} \X (1..CountOf(f))
                 B == {f} \X (1..c.count)
      <3>1. /\ IsFiniteSet(A) /\ Cardinality(A) = CountOf(f)
            /\ IsFiniteSet(B) /\ Cardinality(B) = c.count
        BY <1>2, MarksOf
      <3>2. S \cap A = A
        BY <2>1
      <3>3. (S \ A) \cap B = {}
        BY <2>1
      <3>4. IsFiniteSet(S)
        OBVIOUS
      <3> HIDE DEF S, A, B
      <3>5. /\ IsFiniteSet((S \ A) \cup B)
            /\ Cardinality((S \ A) \cup B) = Cardinality(S) - Cardinality(A) + Cardinality(B)
        BY <3>1, <3>2, <3>3, <3>4, Replaced
      <3> QED
        BY <3>1, <3>5 DEF A, B
    <2>4. Cardinality(S) \in Nat
      BY FS_CardinalityType
    <2> QED
      BY <1>2, <1>4, <2>2, <2>3, <2>4
  <1> QED
    BY <1>3, <1>4

\* A file that leaves takes its counts with it.
LEMMA DrainedCounts ==
    ASSUME QueueTyped, NEW f \in DOMAIN queue,
           queue' = [g \in DOMAIN queue \ {f} |-> queue[g]],
           NEW t \in Themes, IsFiniteSet(Counted(t))
    PROVE  /\ IsFiniteSet(Counted(t)')
           /\ Cardinality(Counted(t)')
                = Cardinality(Counted(t)) - IF t = f[2] THEN queue[f].count ELSE 0
  <1>1. /\ queue[f].theme = f[2] /\ queue[f].count \in Nat
    BY DEF QueueTyped, Says
  <1>2. Cardinality(Counted(t)) \in Nat
    BY FS_CardinalityType
  <1>3. CASE t # f[2]
    <2>1. Counted(t)' = Counted(t)
      <3>1. Waiting(t)' = Waiting(t) /\ f \notin Waiting(t)
        BY <1>1, <1>3 DEF Waiting
      <3>2. \A g \in Waiting(t) : queue'[g].count = queue[g].count
        BY <3>1 DEF Waiting
      <3> QED
        BY <3>1, <3>2 DEF Counted
    <2> QED
      BY <1>2, <1>3, <2>1
  <1>4. CASE t = f[2]
    <2> DEFINE S == Counted(t)
               n == queue[f].count
               A == {f} \X (1..n)
    <2>1. Counted(t)' = S \ A
      <3>1. ASSUME NEW x PROVE x \in Counted(t)' <=> x \in S \ A
        <4>1. x \in Counted(t)' <=> \E g \in DOMAIN queue \ {f} :
                    queue[g].theme = t /\ x \in {g} \X (1..queue[g].count)
          BY DEF Counted, Waiting
        <4>2. x \in Counted(t) <=> \E g \in DOMAIN queue :
                    queue[g].theme = t /\ x \in {g} \X (1..queue[g].count)
          BY DEF Counted, Waiting
        <4>3. \A g : g # f /\ x \in {g} \X (1..queue[g].count) => x \notin A
          OBVIOUS
        <4> QED
          BY <4>1, <4>2, <4>3
      <3> QED
        BY <3>1
    <2>2. S \cap A = A
      BY <1>1, <1>4 DEF Counted, Waiting
    <2>3. Cardinality(A) = n
      BY <1>1, MarksOf
    <2> HIDE DEF A
    <2>4. IsFiniteSet(S \ A) /\ Cardinality(S \ A) = Cardinality(S) - n
      <3>1. IsFiniteSet(S \ A) /\ Cardinality(S \ A) = Cardinality(S) - Cardinality(S \cap A)
        BY FS_Difference, Zenon
      <3> QED
        BY <2>2, <2>3, <3>1
    <2> QED
      BY <1>4, <2>1, <2>4
  <1> QED
    BY <1>3, <1>4

\* What a lane is set to, and what the others keep.
LEMMA LaneSet ==
    ASSUME QueueTyped, NEW p \in Lanes, NEW l, LaneTo(p, l)
    PROVE  /\ DOMAIN lane' = Lanes /\ lane'[p] = l
           /\ \A q \in Lanes : q # p => lane'[q] = lane[q]
  BY DEF QueueTyped, LaneTo

LEMMA RestHasNoStage == Rest.stage = "rest"
  BY DEF Rest

\* The files stay what their names say.
LEMMA FileKept ==
    ASSUME QueueTyped, NEW f \in Names, NEW c, Says(f, c), queue' = WithFile(f, c)
    PROVE  DOMAIN queue' \subseteq Names /\ \A g \in DOMAIN queue' : Says(g, queue'[g])
  BY DEF QueueTyped, WithFile

LEMMA NamesAreNames ==
    ASSUME NEW t \in Themes, NEW n \in 1..2
    PROVE  /\ NameOf("auto", t, n) \in Names /\ NameOf("reflect", t, n) \in Names
           /\ NameOf("genesis", t, n) \in Names
           /\ Says(NameOf("auto", t, n), Fresh("auto", t))
           /\ Says(NameOf("reflect", t, n), Fresh("reflect", t))
           /\ Says(NameOf("genesis", t, n), Fresh("genesis", t))
  BY DEF NameOf, Names, Says, Fresh

LEMMA CorroborateKeeps ==
    ASSUME QueueTyped, LanesHold, NEW p \in Lanes, NEW t \in Themes,
           NEW f \in Waiting(t), Corroborate(p, f)
    PROVE  DOMAIN lane' = Lanes /\ LanesHold'
  <1>1. f \in Names /\ Says(f, queue[f])
    BY DEF QueueTyped, Waiting
  <1>2. LaneTo(p, [stage |-> "put", file |-> f, text |-> queue[f], change |-> "count"])
    BY DEF Corroborate
  <1> QED
    BY <1>1, <1>2, LaneSet DEF LanesHold

\* A lane that drafts has found no file of its name: one there would overlap.
LEMMA DraftsOfNone ==
    ASSUME QueueTyped, NEW t \in Themes, Overlaps(t) = {}
    PROVE  CountOf(NameOf("auto", t, 1)) = 0
  <1> DEFINE f == NameOf("auto", t, 1)
  <1>1. f[1] = "auto" /\ f[2] = t
    BY DEF NameOf
  <1>2. ASSUME f \in DOMAIN queue PROVE FALSE
    BY <1>1, <1>2 DEF QueueTyped, Says, Overlaps, Waiting
  <1> QED
    BY <1>2 DEF CountOf

LEMMA QueueTypesStep ==
    ASSUME QueueTyped, LanesHold, [QueueNext]_queueVars
    PROVE  QueueTyped' /\ LanesHold'
  <1> USE RestHasNoStage
  <1>1. CASE UNCHANGED queueVars
    BY <1>1 DEF queueVars, QueueTyped, LanesHold
  <1>2. ASSUME NEW p \in Lanes, NEW t \in Themes, LookBeforeDraft(p, t)
        PROVE  QueueTyped' /\ LanesHold'
    <2>1. DOMAIN lane' = Lanes /\ LanesHold'
      <3>1. CASE \E f \in Waiting(t) : Corroborate(p, f)
        BY <3>1, CorroborateKeeps
      <3>2. CASE /\ Overlaps(t) = {}
                 /\ \E high \in BOOLEAN :
                       LaneTo(p, [stage |-> "draft", theme |-> t, high |-> high,
                                  before |-> CountOf(NameOf("auto", t, 1))])
        BY <3>2, DraftsOfNone, LaneSet DEF LanesHold
      <3> QED
        BY <1>2, <3>1, <3>2 DEF LookBeforeDraft, Overlaps
    <2> QED
      BY <1>2, <2>1 DEF LookBeforeDraft, Ledger, QueueTyped
  <1>3. ASSUME NEW p \in Lanes, NEW t \in Themes, Reflect(p, t)
        PROVE  QueueTyped' /\ LanesHold'
    <2>1. CASE \E f \in Waiting(t) : Corroborate(p, f) /\ UNCHANGED queue
      BY <1>3, <2>1, CorroborateKeeps DEF Reflect, Ledger, QueueTyped
    <2>2. ASSUME NEW n \in 1..2, LaneTo(p, Rest),
                 queue' = WithFile(NameOf("reflect", t, n), Fresh("reflect", t))
          PROVE  QueueTyped' /\ LanesHold'
      <3>1. DOMAIN lane' = Lanes /\ LanesHold'
        BY <2>2, LaneSet DEF LanesHold
      <3>2. DOMAIN queue' \subseteq Names /\ \A g \in DOMAIN queue' : Says(g, queue'[g])
        BY <2>2, NamesAreNames, FileKept
      <3> QED
        BY <1>3, <3>1, <3>2 DEF Reflect, Ledger, QueueTyped
    <2>3. CASE ~ \E f \in Waiting(t) : Corroborate(p, f) /\ UNCHANGED queue
      <3> DEFINE taken == {g[3] : g \in {h \in DOMAIN queue : h[1] = "reflect" /\ h[2] = t}}
                 n == CHOOSE n \in 1..2 : n \notin taken
      <3>1. /\ taken # 1..2
            /\ queue' = WithFile(NameOf("reflect", t, n), Fresh("reflect", t))
            /\ LaneTo(p, Rest)
        BY <1>3, <2>3 DEF Reflect
      <3>2. taken \subseteq 1..2
        BY DEF QueueTyped, Names
      <3>3. n \in 1..2
        BY <3>1, <3>2
      <3> HIDE DEF n
      <3> QED
        BY <2>2, <3>1, <3>3
    <2> QED
      BY <2>1, <2>3
  <1>4. ASSUME NEW p \in Lanes, NEW t \in Themes, Assess(p, t)
        PROVE  QueueTyped' /\ LanesHold'
    <2>1. DOMAIN lane' = Lanes /\ LanesHold'
      BY <1>4, LaneSet DEF LanesHold, Assess
    <2> QED
      BY <1>4, <2>1 DEF Assess, Ledger, QueueTyped
  <1>5. ASSUME NEW p \in Lanes, WriteDraft(p)
        PROVE  QueueTyped' /\ LanesHold'
    <2>1. DOMAIN lane' = Lanes /\ LanesHold'
      BY <1>5, LaneSet DEF LanesHold, WriteDraft
    <2> DEFINE t == lane[p].theme
               f == NameOf("auto", t, 1)
    <2>2. t \in Themes /\ lane[p].before = 0
      BY <1>5 DEF LanesHold, WriteDraft
    <2>3. CASE UNCHANGED <<queue, raced>>
      BY <1>5, <2>1, <2>3 DEF WriteDraft, QueueTyped
    <2>4. CASE /\ queue' = WithFile(f, Fresh("auto", t))
               /\ raced' = [raced EXCEPT ![t] = @ + CountOf(f) - lane[p].before]
      <3>1. DOMAIN queue' \subseteq Names /\ \A g \in DOMAIN queue' : Says(g, queue'[g])
        BY <2>2, <2>4, NamesAreNames, FileKept
      <3>2. CountOf(f) \in Nat
        BY DEF CountOf, QueueTyped, Says
      <3>3. raced' \in [Themes -> Int]
        BY <2>2, <2>4, <3>2 DEF QueueTyped
      <3> QED
        BY <1>5, <2>1, <3>1, <3>3 DEF WriteDraft, QueueTyped
    <2> QED
      BY <1>5, <2>3, <2>4 DEF WriteDraft
  <1>6. ASSUME NEW p \in Lanes, PutBack(p)
        PROVE  QueueTyped' /\ LanesHold'
    <2>1. DOMAIN lane' = Lanes /\ LanesHold'
      BY <1>6, LaneSet DEF LanesHold, PutBack
    <2> DEFINE f == lane[p].file
               said == lane[p].text
    <2>2. f \in Names /\ Says(f, said)
      BY <1>6 DEF LanesHold, PutBack
    <2>3. PICK c : /\ c \in {[said EXCEPT !.count = @ + 1], [said EXCEPT !.triaged = TRUE]}
                   /\ queue' = WithFile(f, c)
      BY <1>6 DEF PutBack
    <2>4. Says(f, c)
      <3>1. said \in [theme : {f[2]}, cites : BOOLEAN, count : Nat, triaged : BOOLEAN]
        BY <2>2 DEF Says
      <3>2. CASE c = [said EXCEPT !.count = @ + 1]
        BY <2>2, <3>1, <3>2 DEF Says
      <3>3. CASE c = [said EXCEPT !.triaged = TRUE]
        BY <2>2, <3>1, <3>3 DEF Says
      <3> QED
        BY <2>3, <3>2, <3>3
    <2>5. DOMAIN queue' \subseteq Names /\ \A g \in DOMAIN queue' : Says(g, queue'[g])
      BY <2>2, <2>3, <2>4, FileKept
    <2>6. CountOf(f) \in Nat /\ said.count \in Nat /\ said.theme \in Themes
      BY <2>2 DEF CountOf, QueueTyped, Says, Names
    <2>7. made' \in [Themes -> Int] /\ raced' \in [Themes -> Int]
      BY <1>6, <2>6 DEF PutBack, QueueTyped
    <2> QED
      BY <1>6, <2>1, <2>5, <2>7 DEF PutBack, QueueTyped
  <1>7. ASSUME NEW p \in Lanes, PickForTriage(p)
        PROVE  QueueTyped' /\ LanesHold'
    <2>1. DOMAIN lane' = Lanes /\ LanesHold'
      BY <1>7, LaneSet DEF LanesHold, PickForTriage
    <2> QED
      BY <1>7, <2>1 DEF PickForTriage, Ledger, QueueTyped
  <1>8. ASSUME NEW p \in Lanes, ReadForTriage(p)
        PROVE  QueueTyped' /\ LanesHold'
    <2>1. CASE LaneTo(p, Rest)
      <3>1. DOMAIN lane' = Lanes /\ LanesHold'
        BY <2>1, LaneSet DEF LanesHold
      <3> QED
        BY <1>8, <3>1 DEF ReadForTriage, Ledger, QueueTyped
    <2>2. CASE /\ lane[p].file \in DOMAIN queue
               /\ LaneTo(p, [stage |-> "put", file |-> lane[p].file, change |-> "triage",
                             text |-> queue[lane[p].file]])
      <3>1. lane[p].file \in Names /\ Says(lane[p].file, queue[lane[p].file])
        BY <2>2 DEF QueueTyped
      <3>2. DOMAIN lane' = Lanes /\ LanesHold'
        BY <2>2, <3>1, LaneSet DEF LanesHold
      <3> QED
        BY <1>8, <3>2 DEF ReadForTriage, Ledger, QueueTyped
    <2> QED
      BY <1>8, <2>1, <2>2 DEF ReadForTriage
  <1>9. ASSUME NEW p \in Lanes, Verdict(p)
        PROVE  QueueTyped' /\ LanesHold'
    <2>1. lane[p].theme \in Themes
      BY <1>9 DEF LanesHold, Verdict
    <2>2. DOMAIN lane' = Lanes /\ LanesHold'
      BY <1>9, <2>1, LaneSet DEF LanesHold, Verdict
    <2>3. seen' \subseteq Themes /\ charged' \subseteq Themes /\ spent' \in [Themes -> Nat]
      BY <1>9, <2>1 DEF Verdict, QueueTyped
    <2> QED
      BY <1>9, <2>2, <2>3 DEF Verdict, QueueTyped
  <1>10. ASSUME NEW p \in Lanes, Conclude(p)
         PROVE  QueueTyped' /\ LanesHold'
    <2>1. DOMAIN lane' = Lanes /\ LanesHold'
      BY <1>10, LaneSet DEF LanesHold, Conclude
    <2> DEFINE t == lane[p].theme
               f == NameOf("genesis", t, 1)
    <2>2. t \in Themes
      BY <1>10 DEF LanesHold, Conclude
    <2>3. CASE UNCHANGED <<queue, raced>>
      BY <1>10, <2>1, <2>3 DEF Conclude, QueueTyped
    <2>4. CASE /\ queue' = WithFile(f, Fresh("genesis", t))
               /\ raced' = [raced EXCEPT ![t] = @ + IF t \in charged THEN CountOf(f) ELSE 0]
      <3>1. DOMAIN queue' \subseteq Names /\ \A g \in DOMAIN queue' : Says(g, queue'[g])
        BY <2>2, <2>4, NamesAreNames, FileKept
      <3>2. CountOf(f) \in Nat
        BY DEF CountOf, QueueTyped, Says
      <3>3. raced' \in [Themes -> Int]
        BY <2>2, <2>4, <3>2 DEF QueueTyped
      <3> QED
        BY <1>10, <2>1, <3>1, <3>3 DEF Conclude, QueueTyped
    <2> QED
      BY <1>10, <2>3, <2>4 DEF Conclude
  <1>11. ASSUME NEW p \in Lanes, LaneKilled(p)
         PROVE  QueueTyped' /\ LanesHold'
    <2>1. DOMAIN lane' = Lanes /\ LanesHold'
      BY <1>11, LaneSet DEF LanesHold, LaneKilled
    <2> QED
      BY <1>11, <2>1 DEF LaneKilled, Ledger, QueueTyped
  <1>12. ASSUME NEW f \in DOMAIN queue, Drain(f)
         PROVE  QueueTyped' /\ LanesHold'
    <2>1. queue[f].theme \in Themes /\ queue[f].count \in Nat
      BY DEF QueueTyped, Says, Names
    <2>2. drained' \in [Themes -> Int]
      BY <1>12, <2>1 DEF Drain, QueueTyped
    <2> QED
      BY <1>12, <2>2 DEF Drain, QueueTyped, LanesHold
  <1> QED
    BY <1>1, <1>2, <1>3, <1>4, <1>5, <1>6, <1>7, <1>8, <1>9, <1>10, <1>11, <1>12 DEF QueueNext

\* A step of one lane, seen from genesis.
LEMMA LaneSeen ==
    ASSUME QueueTyped, NEW p \in Lanes, NEW l, LaneTo(p, l), NEW t
    PROVE  /\ AtModel(t)' \subseteq AtModel(t) \cup {p}
           /\ p \in AtModel(t)' => l.stage = "seer" /\ l.theme = t
           /\ Rewrites(t)' \subseteq Rewrites(t) \cup {p}
           /\ p \in Rewrites(t)' => l.stage = "put" /\ l.file = NameOf("genesis", t, 1)
           /\ AtModel(t) \ {p} \subseteq AtModel(t)'
  BY LaneSet DEF AtModel, Rewrites

\* No step but a verdict of genesis and a conclusion of it adds to what it has.
LEMMA GenesisShrinks ==
    ASSUME GenesisOnce, UNCHANGED <<spent, charged>>, seen \subseteq seen',
           \A t \in Themes : (There(t)' => There(t)) /\ AtModel(t)' \subseteq AtModel(t)
    PROVE  GenesisOnce'
  BY DEF GenesisOnce

LEMMA GenesisNames ==
    ASSUME NEW t, NEW u, NEW n
    PROVE  /\ NameOf("auto", u, n) # NameOf("genesis", t, 1)
           /\ NameOf("reflect", u, n) # NameOf("genesis", t, 1)
           /\ NameOf("genesis", u, 1) = NameOf("genesis", t, 1) => u = t
  BY DEF NameOf

LEMMA WithFileHas ==
    ASSUME NEW f, NEW c, queue' = WithFile(f, c)
    PROVE  DOMAIN queue' = DOMAIN queue \cup {f}
  BY DEF WithFile

\* A lane that takes a waiting file, or leaves, adds nothing.
LEMMA LaneLeaves ==
    ASSUME QueueTyped, GenesisOnce, NEW p \in Lanes, NEW l, LaneTo(p, l),
           l.stage # "seer", l.stage = "put" => l.file \in DOMAIN queue,
           UNCHANGED <<queue, spent, charged>>, seen \subseteq seen'
    PROVE  GenesisOnce'
  <1>1. ASSUME NEW t \in Themes
        PROVE  (There(t)' => There(t)) /\ AtModel(t)' \subseteq AtModel(t)
    BY LaneSeen DEF There
  <1> QED
    BY <1>1, GenesisShrinks

\* Nor does one that rests after it wrote a file that is not genesis', or was there.
LEMMA LaneWrites ==
    ASSUME QueueTyped, GenesisOnce, NEW p \in Lanes, LaneTo(p, Rest),
           NEW f, NEW c, queue' = WithFile(f, c),
           \A t \in Themes : f = NameOf("genesis", t, 1) => There(t),
           UNCHANGED <<spent, charged, seen>>
    PROVE  GenesisOnce'
  <1>1. ASSUME NEW t \in Themes
        PROVE  (There(t)' => There(t)) /\ AtModel(t)' \subseteq AtModel(t)
    <2>1. /\ AtModel(t)' \subseteq AtModel(t)
          /\ Rewrites(t)' \subseteq Rewrites(t)
      BY LaneSeen, RestHasNoStage
    <2>2. DOMAIN queue' = DOMAIN queue \cup {f}
      BY WithFileHas
    <2> QED
      BY <2>1, <2>2 DEF There
  <1> QED
    BY <1>1, GenesisShrinks

LEMMA GenesisStep ==
    ASSUME QueueTyped, LanesHold, GenesisOnce, [QueueNext]_queueVars
    PROVE  GenesisOnce'
  <1> USE RestHasNoStage
  <1>1. CASE UNCHANGED queueVars
    BY <1>1 DEF queueVars, GenesisOnce, There, AtModel, Rewrites
  <1>2. ASSUME NEW p \in Lanes, NEW t \in Themes, LookBeforeDraft(p, t)
        PROVE  GenesisOnce'
    <2>1. PICK l : /\ LaneTo(p, l) /\ l.stage # "seer"
                   /\ l.stage = "put" => l.file \in DOMAIN queue
      <3>1. CASE \E f \in Waiting(t) : Corroborate(p, f)
        BY <3>1 DEF Corroborate, Waiting
      <3>2. CASE \E high \in BOOLEAN :
                    LaneTo(p, [stage |-> "draft", theme |-> t, high |-> high,
                               before |-> CountOf(NameOf("auto", t, 1))])
        BY <3>2
      <3> QED
        BY <1>2, <3>1, <3>2 DEF LookBeforeDraft, Overlaps
    <2> QED
      BY <1>2, <2>1, LaneLeaves DEF LookBeforeDraft, Ledger
  <1>3. ASSUME NEW p \in Lanes, NEW t \in Themes, Reflect(p, t)
        PROVE  GenesisOnce'
    <2>1. CASE \E f \in Waiting(t) : Corroborate(p, f) /\ UNCHANGED queue
      <3>1. PICK l : /\ LaneTo(p, l) /\ l.stage # "seer"
                     /\ l.stage = "put" => l.file \in DOMAIN queue
        BY <2>1 DEF Corroborate, Waiting
      <3> QED
        BY <1>3, <2>1, <3>1, LaneLeaves DEF Reflect, Ledger
    <2>2. CASE ~ \E f \in Waiting(t) : Corroborate(p, f) /\ UNCHANGED queue
      <3>1. PICK n : /\ queue' = WithFile(NameOf("reflect", t, n), Fresh("reflect", t))
                     /\ LaneTo(p, Rest)
        BY <1>3, <2>2 DEF Reflect
      <3>2. PICK f : f = NameOf("reflect", t, n)
        OBVIOUS
      <3>3. \A u \in Themes : f # NameOf("genesis", u, 1)
        BY <3>2, GenesisNames
      <3> QED
        BY <1>3, <3>1, <3>2, <3>3, LaneWrites DEF Reflect, Ledger
    <2> QED
      BY <2>1, <2>2
  <1>4. ASSUME NEW p \in Lanes, NEW t \in Themes, Assess(p, t)
        PROVE  GenesisOnce'
    BY <1>4, LaneLeaves DEF Assess, Ledger
  <1>5. ASSUME NEW p \in Lanes, WriteDraft(p)
        PROVE  GenesisOnce'
    <2> DEFINE t == lane[p].theme
    <2>1. CASE UNCHANGED queue
      BY <1>5, <2>1, LaneLeaves DEF WriteDraft
    <2>2. CASE ~ UNCHANGED queue
      <3>1. PICK f : /\ f = NameOf("auto", t, 1)
                     /\ queue' = WithFile(f, Fresh("auto", t))
        BY <1>5, <2>2 DEF WriteDraft
      <3>2. \A u \in Themes : f # NameOf("genesis", u, 1)
        BY <3>1, GenesisNames
      <3> QED
        BY <1>5, <3>1, <3>2, LaneWrites DEF WriteDraft
    <2> QED
      BY <2>1, <2>2
  <1>6. ASSUME NEW p \in Lanes, PutBack(p)
        PROVE  GenesisOnce'
    <2>1. PICK f, c : f = lane[p].file /\ queue' = WithFile(f, c)
      BY <1>6 DEF PutBack
    <2>2. \A t \in Themes : f = NameOf("genesis", t, 1) => There(t)
      BY <1>6, <2>1 DEF PutBack, There, Rewrites
    <2> QED
      BY <1>6, <2>1, <2>2, LaneWrites DEF PutBack
  <1>7. ASSUME NEW p \in Lanes, PickForTriage(p)
        PROVE  GenesisOnce'
    BY <1>7, LaneLeaves DEF PickForTriage, Ledger
  <1>8. ASSUME NEW p \in Lanes, ReadForTriage(p)
        PROVE  GenesisOnce'
    <2>1. PICK l : /\ LaneTo(p, l) /\ l.stage # "seer"
                   /\ l.stage = "put" => l.file \in DOMAIN queue
      BY <1>8 DEF ReadForTriage
    <2> QED
      BY <1>8, <2>1, LaneLeaves DEF ReadForTriage, Ledger
  <1>9. ASSUME NEW p \in Lanes, Verdict(p)
        PROVE  GenesisOnce'
    <2> DEFINE t == lane[p].theme
    <2>0. t \in Themes
      BY <1>9 DEF LanesHold, Verdict
    <2>1. CASE LaneTo(p, Rest) /\ UNCHANGED <<spent, charged>>
      BY <1>9, <2>1, LaneLeaves DEF Verdict
    <2>2. CASE ~(LaneTo(p, Rest) /\ UNCHANGED <<spent, charged>>)
      <3>1. /\ seen' = seen \cup {t} /\ UNCHANGED queue
            /\ spent' = [spent EXCEPT ![t] = @ + 1]
            /\ charged' = IF t \in seen THEN charged \cup {t} ELSE charged
            /\ LaneTo(p, [stage |-> "seer", theme |-> t])
        BY <1>9, <2>2 DEF Verdict, MarkedAt
      <3>2. ASSUME NEW u \in Themes
            PROVE  /\ There(u)' => There(u)
                   /\ u # t => AtModel(u)' \subseteq AtModel(u)
                   /\ AtModel(u)' \subseteq AtModel(u) \cup {p}
        <4>1. PICK l : l = [stage |-> "seer", theme |-> t]
          OBVIOUS
        <4>2. LaneTo(p, l)
          BY <3>1, <4>1
        <4>3. /\ AtModel(u)' \subseteq AtModel(u) \cup {p}
              /\ p \in AtModel(u)' => l.stage = "seer" /\ l.theme = u
              /\ Rewrites(u)' \subseteq Rewrites(u) \cup {p}
              /\ p \in Rewrites(u)' => l.stage = "put"
          BY <4>2, LaneSeen
        <4> QED
          BY <3>1, <4>1, <4>3 DEF There
      <3>3. ASSUME NEW u \in Themes
            PROVE  /\ There(u)' \/ AtModel(u)' # {} \/ spent'[u] > 0 => u \in seen'
                   /\ spent'[u] > 1 => u \in charged'
                   /\ u \notin charged' /\ AtModel(u)' # {} => ~There(u)'
                   /\ u \notin charged' => \A q, r \in AtModel(u)' : q = r
        <4>1. CASE u # t
          BY <2>0, <3>1, <3>2, <4>1 DEF GenesisOnce, QueueTyped
        <4>2. CASE u = t /\ t \in seen
          BY <2>0, <3>1, <3>2, <4>2 DEF GenesisOnce, QueueTyped
        <4>3. CASE u = t /\ t \notin seen
          BY <2>0, <3>1, <3>2, <4>3 DEF GenesisOnce, QueueTyped
        <4> QED
          BY <4>1, <4>2, <4>3
      <3> QED
        BY <3>3 DEF GenesisOnce
    <2> QED
      BY <2>1, <2>2
  <1>10. ASSUME NEW p \in Lanes, Conclude(p)
         PROVE  GenesisOnce'
    <2> DEFINE t == lane[p].theme
    <2>1. CASE UNCHANGED queue
      BY <1>10, <2>1, LaneLeaves DEF Conclude
    <2>2. CASE ~ UNCHANGED queue
      <3>1. t \in Themes /\ p \in AtModel(t)
        BY <1>10 DEF LanesHold, Conclude, AtModel
      <3>2. PICK f : f = NameOf("genesis", t, 1) /\ queue' = WithFile(f, Fresh("genesis", t))
        BY <1>10, <2>2 DEF Conclude
      <3>3. LaneTo(p, Rest) /\ UNCHANGED <<seen, spent, charged>>
        BY <1>10 DEF Conclude
      <3>4. ASSUME NEW u \in Themes
            PROVE  /\ AtModel(u)' \subseteq AtModel(u) \ {p}
                   /\ u # t => (There(u)' => There(u))
        <4>1. /\ AtModel(u)' \subseteq AtModel(u) \ {p}
              /\ Rewrites(u)' \subseteq Rewrites(u)
          BY <3>3, LaneSeen, RestHasNoStage
        <4>2. u # t => f # NameOf("genesis", u, 1)
          BY <3>2, GenesisNames
        <4>3. DOMAIN queue' = DOMAIN queue \cup {f}
          BY <3>2, WithFileHas
        <4> QED
          BY <4>1, <4>2, <4>3 DEF There
      <3> QED
        BY <3>1, <3>3, <3>4 DEF GenesisOnce
    <2> QED
      BY <2>1, <2>2
  <1>11. ASSUME NEW p \in Lanes, LaneKilled(p)
         PROVE  GenesisOnce'
    BY <1>11, LaneLeaves DEF LaneKilled, Ledger
  <1>12. ASSUME NEW f \in DOMAIN queue, Drain(f)
         PROVE  GenesisOnce'
    <2>1. \A t : (There(t)' => There(t)) /\ AtModel(t)' = AtModel(t)
      BY <1>12 DEF Drain, There, AtModel, Rewrites
    <2> QED
      BY <1>12, <2>1, GenesisShrinks DEF Drain
  <1> QED
    BY <1>1, <1>2, <1>3, <1>4, <1>5, <1>6, <1>7, <1>8, <1>9, <1>10, <1>11, <1>12 DEF QueueNext

\* The counts go on adding up when a write moves them by what the history notes.
LEMMA SumMoves ==
    ASSUME QueueTyped, QueueTyped', NEW t \in Themes, AddsUp(t), NEW d \in Int,
           IsFiniteSet(Counted(t)'),
           Cardinality(Counted(t)') = Cardinality(Counted(t)) + d,
           made'[t] - drained'[t] - raced'[t] = made[t] - drained[t] - raced[t] + d
    PROVE  AddsUp(t)'
  <1>1. Cardinality(Counted(t)) \in Nat
    BY FS_CardinalityType DEF AddsUp
  <1>2. /\ made[t] \in Int /\ drained[t] \in Int /\ raced[t] \in Int
        /\ made'[t] \in Int /\ drained'[t] \in Int /\ raced'[t] \in Int
    BY DEF QueueTyped
  <1> QED
    BY <1>1, <1>2 DEF AddsUp, CountsAddUp

LEMMA WriteMoves ==
    ASSUME QueueTyped, QueueTyped', Added, NEW f \in Names, NEW c, Says(f, c),
           queue' = WithFile(f, c), NEW t \in Themes,
           made'[t] - drained'[t] - raced'[t]
             = made[t] - drained[t] - raced[t] + IF t = f[2] THEN c.count - CountOf(f) ELSE 0
    PROVE  AddsUp(t)'
  <1>1. c.count \in Nat /\ CountOf(f) \in Nat
    BY DEF Says, CountOf, QueueTyped
  <1>2. PICK d \in Int : d = IF t = f[2] THEN c.count - CountOf(f) ELSE 0
    BY <1>1
  <1>3. IsFiniteSet(Counted(t)') /\ Cardinality(Counted(t)') = Cardinality(Counted(t)) + d
    BY <1>2, WrittenCounts DEF Added, AddsUp
  <1> QED
    BY <1>2, <1>3, SumMoves DEF Added

LEMMA SameMoves ==
    ASSUME Added, UNCHANGED <<queue, made, drained, raced>> PROVE Added'
  BY DEF Added, AddsUp, CountsAddUp, Counted, Waiting

LEMMA AddedStep ==
    ASSUME QueueTyped, QueueTyped', LanesHold, GenesisOnce, Added, [QueueNext]_queueVars
    PROVE  Added'
  <1>1. CASE UNCHANGED <<queue, made, drained, raced>>
    BY <1>1, SameMoves
  <1>2. ASSUME NEW p \in Lanes, NEW t \in Themes, Reflect(p, t), ~UNCHANGED queue
        PROVE  Added'
    <2> DEFINE taken == {g[3] : g \in {h \in DOMAIN queue : h[1] = "reflect" /\ h[2] = t}}
               n == CHOOSE n \in 1..2 : n \notin taken
    <2>1. /\ taken # 1..2 /\ UNCHANGED <<made, drained, raced>>
          /\ queue' = WithFile(NameOf("reflect", t, n), Fresh("reflect", t))
      BY <1>2 DEF Reflect, Ledger
    <2>2. taken \subseteq 1..2
      BY DEF QueueTyped, Names
    <2>3. n \in 1..2 /\ n \notin taken
      BY <2>1, <2>2
    <2> HIDE DEF n
    <2>4. PICK f : f = NameOf("reflect", t, n)
      OBVIOUS
    <2>5. f \notin DOMAIN queue
      BY <2>3, <2>4 DEF NameOf
    <2>6. PICK c : c = Fresh("reflect", t)
      OBVIOUS
    <2>7. f \in Names /\ Says(f, c) /\ c.count = 0 /\ CountOf(f) = 0
      BY <2>3, <2>4, <2>5, <2>6, NamesAreNames DEF CountOf, Fresh
    <2>8. ASSUME NEW u \in Themes PROVE AddsUp(u)'
      BY <2>1, <2>4, <2>6, <2>7, WriteMoves DEF QueueTyped
    <2> QED
      BY <2>8 DEF Added
  <1>3. ASSUME NEW p \in Lanes, WriteDraft(p), ~UNCHANGED <<queue, raced>>
        PROVE  Added'
    <2>1. PICK t : t = lane[p].theme
      OBVIOUS
    <2>2. t \in Themes /\ lane[p].before = 0
      BY <1>3, <2>1 DEF LanesHold, WriteDraft
    <2>3. PICK f, c : f = NameOf("auto", t, 1) /\ c = Fresh("auto", t)
      OBVIOUS
    <2>4. /\ queue' = WithFile(f, c) /\ UNCHANGED <<made, drained>>
          /\ raced' = [raced EXCEPT ![t] = @ + CountOf(f) - 0]
      BY <1>3, <2>1, <2>2, <2>3 DEF WriteDraft
    <2>5. f \in Names /\ Says(f, c) /\ f[2] = t /\ c.count = 0 /\ CountOf(f) \in Nat
      <3>1. f \in Names /\ Says(f, c)
        BY <2>2, <2>3, NamesAreNames
      <3>2. f[2] = t /\ c.count = 0
        BY <2>3 DEF NameOf, Fresh
      <3>3. CountOf(f) \in Nat
        BY DEF CountOf, QueueTyped, Says
      <3> QED
        BY <3>1, <3>2, <3>3
    <2>6. ASSUME NEW u \in Themes PROVE AddsUp(u)'
      <3>1. /\ made[u] \in Int /\ drained[u] \in Int /\ raced[u] \in Int
            /\ raced'[u] = raced[u] + IF u = t THEN CountOf(f) ELSE 0
        BY <2>2, <2>4, <2>5 DEF QueueTyped
      <3>2. made'[u] - drained'[u] - raced'[u]
              = made[u] - drained[u] - raced[u] + IF u = f[2] THEN c.count - CountOf(f) ELSE 0
        BY <2>4, <2>5, <3>1
      <3> QED
        BY <2>4, <2>5, <3>2, WriteMoves
    <2> QED
      BY <2>6 DEF Added
  <1>4. ASSUME NEW p \in Lanes, PutBack(p)
        PROVE  Added'
    <2>1. PICK f, said : f = lane[p].file /\ said = lane[p].text
      OBVIOUS
    <2>2. f \in Names /\ Says(f, said) /\ f[2] \in Themes /\ said.theme = f[2]
          /\ said.count \in Nat /\ CountOf(f) \in Nat
      BY <1>4, <2>1 DEF LanesHold, PutBack, Says, Names, CountOf, QueueTyped
    <2>3. PICK n \in {0, 1} : n = IF lane[p].change = "count" THEN 1 ELSE 0
      OBVIOUS
    <2>4. PICK c : c = IF n = 1 THEN [said EXCEPT !.count = @ + 1]
                                ELSE [said EXCEPT !.triaged = TRUE]
      OBVIOUS
    <2>5. Says(f, c) /\ c.count = said.count + n
      <3>1. said \in [theme : {f[2]}, cites : BOOLEAN, count : Nat, triaged : BOOLEAN]
        BY <2>2 DEF Says
      <3>2. CASE n = 1
        BY <2>2, <2>4, <3>1, <3>2 DEF Says
      <3>3. CASE n = 0
        <4>1. c = [said EXCEPT !.triaged = TRUE]
          BY <2>4, <3>3
        <4>2. Says(f, c) /\ c.count = said.count
          BY <2>2, <3>1, <4>1 DEF Says
        <4> QED
          BY <2>2, <3>3, <4>2
      <3>4. n = 0 \/ n = 1
        BY <2>3
      <3> QED
        BY <3>2, <3>3, <3>4
    <2>6. /\ queue' = WithFile(f, c) /\ UNCHANGED drained
          /\ made' = [made EXCEPT ![said.theme] = @ + n]
          /\ raced' = [raced EXCEPT ![said.theme] = @ + CountOf(f) - said.count]
      <3>1. CASE lane[p].change = "count"
        BY <1>4, <2>1, <2>3, <2>4, <3>1 DEF PutBack
      <3>2. CASE lane[p].change # "count"
        BY <1>4, <2>1, <2>3, <2>4, <3>2 DEF PutBack
      <3> QED
        BY <3>1, <3>2
    <2>7. ASSUME NEW u \in Themes PROVE AddsUp(u)'
      <3>1. /\ made[u] \in Int /\ drained[u] \in Int /\ raced[u] \in Int
            /\ made'[u] = made[u] + IF u = f[2] THEN n ELSE 0
            /\ raced'[u] = raced[u] + IF u = f[2] THEN CountOf(f) - said.count ELSE 0
        BY <2>2, <2>6 DEF QueueTyped
      <3>2. made'[u] - drained'[u] - raced'[u]
              = made[u] - drained[u] - raced[u] + IF u = f[2] THEN c.count - CountOf(f) ELSE 0
        <4>1. CASE u = f[2]
          BY <2>2, <2>5, <2>6, <3>1, <4>1
        <4>2. CASE u # f[2]
          BY <2>2, <2>5, <2>6, <3>1, <4>2
        <4> QED
          BY <4>1, <4>2
      <3> QED
        BY <2>2, <2>5, <2>6, <3>2, WriteMoves
    <2> QED
      BY <2>7 DEF Added
  <1>5. ASSUME NEW p \in Lanes, Conclude(p), ~UNCHANGED <<queue, raced>>
        PROVE  Added'
    <2>1. PICK t : t = lane[p].theme
      OBVIOUS
    <2>2. t \in Themes /\ p \in AtModel(t)
      BY <1>5, <2>1 DEF LanesHold, Conclude, AtModel
    <2>3. PICK f, c : f = NameOf("genesis", t, 1) /\ c = Fresh("genesis", t)
      OBVIOUS
    <2>4. f \in Names /\ Says(f, c) /\ f[2] = t /\ c.count = 0 /\ CountOf(f) \in Nat
      <3>1. f \in Names /\ Says(f, c)
        BY <2>2, <2>3, NamesAreNames
      <3>2. f[2] = t /\ c.count = 0
        BY <2>3 DEF NameOf, Fresh
      <3>3. CountOf(f) \in Nat
        BY DEF CountOf, QueueTyped, Says
      <3> QED
        BY <3>1, <3>2, <3>3
    <2>5. t \notin charged => CountOf(f) = 0
      BY <2>2, <2>3 DEF GenesisOnce, There, CountOf
    <2>6. /\ queue' = WithFile(f, c) /\ UNCHANGED <<made, drained>>
          /\ raced' = [raced EXCEPT ![t] = @ + CountOf(f)]
      BY <1>5, <2>1, <2>3, <2>5 DEF Conclude
    <2>7. ASSUME NEW u \in Themes PROVE AddsUp(u)'
      <3>1. /\ made[u] \in Int /\ drained[u] \in Int /\ raced[u] \in Int
            /\ raced'[u] = raced[u] + IF u = t THEN CountOf(f) ELSE 0
        BY <2>2, <2>4, <2>6 DEF QueueTyped
      <3>2. made'[u] - drained'[u] - raced'[u]
              = made[u] - drained[u] - raced[u] + IF u = f[2] THEN c.count - CountOf(f) ELSE 0
        BY <2>4, <2>6, <3>1
      <3> QED
        BY <2>4, <2>6, <3>2, WriteMoves
    <2> QED
      BY <2>7 DEF Added
  <1>6. ASSUME NEW f \in DOMAIN queue, Drain(f)
        PROVE  Added'
    <2>1. queue[f].theme = f[2] /\ queue[f].count \in Nat /\ f[2] \in Themes
      BY DEF QueueTyped, Says, Names
    <2>2. /\ queue' = [g \in DOMAIN queue \ {f} |-> queue[g]] /\ UNCHANGED <<made, raced>>
          /\ drained' = [drained EXCEPT ![f[2]] = @ + queue[f].count]
      BY <1>6, <2>1 DEF Drain
    <2>3. ASSUME NEW u \in Themes PROVE AddsUp(u)'
      <3>1. PICK d \in Int : d = 0 - IF u = f[2] THEN queue[f].count ELSE 0
        BY <2>1
      <3>2. IsFiniteSet(Counted(u)) /\ Cardinality(Counted(u)) \in Nat
        BY FS_CardinalityType DEF Added, AddsUp
      <3>3. /\ IsFiniteSet(Counted(u)')
            /\ Cardinality(Counted(u)')
                 = Cardinality(Counted(u)) - IF u = f[2] THEN queue[f].count ELSE 0
        BY <2>2, <3>2, DrainedCounts
      <3>4. Cardinality(Counted(u)') = Cardinality(Counted(u)) + d
        BY <2>1, <3>1, <3>2, <3>3
      <3>5. /\ made[u] \in Int /\ drained[u] \in Int /\ raced[u] \in Int
            /\ drained'[u] = drained[u] - d
        BY <2>1, <2>2, <3>1 DEF QueueTyped
      <3>6. made'[u] - drained'[u] - raced'[u] = made[u] - drained[u] - raced[u] + d
        BY <2>2, <3>5
      <3> QED
        BY <3>1, <3>3, <3>4, <3>6, SumMoves DEF Added
    <2> QED
      BY <2>3 DEF Added
  <1>7. ASSUME NEW p \in Lanes,
               \/ \E t \in Themes : LookBeforeDraft(p, t) \/ Assess(p, t)
               \/ PickForTriage(p) \/ ReadForTriage(p) \/ Verdict(p) \/ LaneKilled(p)
        PROVE  UNCHANGED <<queue, made, drained, raced>>
    BY <1>7 DEF LookBeforeDraft, Assess, PickForTriage, ReadForTriage, Verdict, LaneKilled,
                Ledger
  <1>8. ASSUME NEW p \in Lanes, NEW t \in Themes, Reflect(p, t), UNCHANGED queue
        PROVE  UNCHANGED <<queue, made, drained, raced>>
    BY <1>8 DEF Reflect, Ledger
  <1>9. ASSUME NEW p \in Lanes, WriteDraft(p) \/ Conclude(p), UNCHANGED <<queue, raced>>
        PROVE  UNCHANGED <<queue, made, drained, raced>>
    BY <1>9 DEF WriteDraft, Conclude
  <1>10. CASE UNCHANGED queueVars
    BY <1>1, <1>10 DEF queueVars
  <1>11. CASE QueueNext
    BY <1>1, <1>2, <1>3, <1>4, <1>5, <1>6, <1>7, <1>8, <1>9, <1>11 DEF QueueNext
  <1> QED
    BY <1>10, <1>11

\* The number a reviewer sees is the number of times the brain arrived there, up to
\* what overlapping writers took from it, and an epilogue is charged once unless two
\* passes of genesis overlap (candidate_dedup.py, auto_promote.py, genesis.py,
\* triage_candidates.py).
THEOREM TheQueueIsHonest == QueueSpec => []QueueIsHonest
  <1>1. QueueInit => QueueInv
    <2> SUFFICES ASSUME QueueInit PROVE QueueInv
      OBVIOUS
    <2> USE DEF QueueInit
    <2>1. QueueTyped /\ LanesHold
      BY RestHasNoStage DEF QueueTyped, LanesHold, Zero
    <2>2. GenesisOnce
      BY RestHasNoStage DEF GenesisOnce, There, AtModel, Rewrites, Zero
    <2>3. ASSUME NEW t \in Themes PROVE AddsUp(t)
      <3>1. Counted(t) = {}
        BY DEF Counted, Waiting
      <3>2. IsFiniteSet(Counted(t)) /\ Cardinality(Counted(t)) = 0
        BY <3>1, FS_EmptySet
      <3> QED
        BY <3>2 DEF AddsUp, CountsAddUp, Zero
    <2> QED
      BY <2>1, <2>2, <2>3 DEF QueueInv, Added
  <1>2. QueueInv /\ [QueueNext]_queueVars => QueueInv'
    BY QueueTypesStep, GenesisStep, AddedStep DEF QueueInv
  <1>3. QueueInv => QueueIsHonest
    BY DEF QueueInv, QueueIsHonest, GenesisOnce, Added, AddsUp
  <1> QED
    BY <1>1, <1>2, <1>3, PTL DEF QueueSpec
=============================================================================
