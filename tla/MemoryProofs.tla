---------------------------- MODULE MemoryProofs ----------------------------
(***************************************************************************)
(* What hangs on the memory files, proved for any number of files, editing *)
(* sessions, readers, drainers and asserters, and for clocks and tables    *)
(* that go on as long as they like: the read gate serves the text on disk, *)
(* the history keeps what was replaced, the index catches up, a functional *)
(* fact has one current object.                                            *)
(***************************************************************************)
EXTENDS MemorySystem, SequenceTheorems, WellFoundedInduction, TLAPS

-----------------------------------------------------------------------------
(* Arithmetic. *)

\* A set of numbers has a smallest one.
LEMMA Smallest ==
    ASSUME NEW S \in SUBSET Nat, S # {}
    PROVE  \E x \in S : \A y \in S : x <= y
  <1> DEFINE R == OpToRel(<, Nat)
  <1>1. IsWellFoundedOn(R, Nat)
    BY NatLessThanWellFounded
  <1>2. \A x, y \in Nat : x < y => <<x, y>> \in R
    BY DEF OpToRel
  <1> HIDE DEF R
  <1>3. PICK x \in S : \A y \in S : ~(<<y, x>> \in R)
    BY <1>1, WFMin
  <1>4. \A y \in S : ~(y < x)
    BY <1>2, <1>3
  <1> QED
    BY <1>4

\* Seconds follow the ticks.
LEMMA SecondType ==
    /\ \A t \in Nat : Second(t) \in Nat
    /\ \A t, u \in Nat : t <= u => Second(t) <= Second(u)
  BY FilesAssumption DEF Second

-----------------------------------------------------------------------------
(* The files. *)

FilesInv ==
    /\ FilesTypeOK
    /\ \A f \in Mems : text[f] <= texts

\* What any step leaves of the files: all as they were, one with a new text, or one
\* gone; time does not run backwards.
FilesMove ==
    /\ \/ UNCHANGED <<text, mtime, texts, quiet>>
       \/ \E f \in Mems, t \in Ticks : Put(f, t)
       \/ \E f \in Mems : Remove(f)
    /\ now' \in Ticks /\ now <= now'

LEMMA FilesStepMoves == FilesInv /\ [MemoryNext]_memoryVars => FilesMove
  <1> SUFFICES ASSUME FilesInv, [MemoryNext]_memoryVars PROVE FilesMove
    OBVIOUS
  <1> USE DEF FilesInv, FilesTypeOK, FilesMove
  <1>0. now \in Nat /\ now \in Ticks
    BY FilesAssumption DEF Ticks
  <1>1. CASE UNCHANGED filesVars
    BY <1>0, <1>1 DEF filesVars
  <1>2. ASSUME NEW s \in Editors, NEW f \in Mems, BeforeTool(s, f) PROVE FilesMove
    BY <1>0, <1>2 DEF BeforeTool, ToolPre
  <1>3. ASSUME NEW s \in Editors, Tool(s) PROVE FilesMove
    <2>1. editing[s].file \in Mems /\ Put(editing[s].file, now) /\ UNCHANGED now
      BY <1>3 DEF Tool, ToolWrite, NoEdit
    <2> QED
      BY <1>0, <2>1
  <1>4. ASSUME NEW s \in Editors, AfterTool(s) \/ ToolDeclined(s) PROVE FilesMove
    BY <1>0, <1>4 DEF AfterTool, ToolPost, ToolDeclined
  <1>5. ASSUME NEW f \in Mems, NEW t \in Ticks, Foreign(f, t) PROVE FilesMove
    BY <1>0, <1>5 DEF Foreign, ForeignWrite
  <1>6. ASSUME NEW f \in Mems, Remove(f) PROVE FilesMove
    <2>1. UNCHANGED now
      BY <1>6 DEF Remove
    <2> QED
      BY <1>0, <1>6, <2>1
  <1>7. CASE Tick
    BY <1>0, <1>7, FilesAssumption DEF Tick, Ticks
  <1>8. UNCHANGED filesVars \/ FilesStep
    BY DEF MemoryNext, memoryVars
  <1>9. CASE FilesStep
    BY <1>2, <1>3, <1>4, <1>5, <1>6, <1>7, <1>9, Zenon DEF FilesStep
  <1> QED
    BY <1>1, <1>8, <1>9

LEMMA FilesStepInv == FilesInv /\ [MemoryNext]_memoryVars => FilesInv'
  <1> SUFFICES ASSUME FilesInv, [MemoryNext]_memoryVars PROVE FilesInv'
    OBVIOUS
  <1>1. FilesMove
    BY FilesStepMoves
  <1> USE DEF FilesInv, FilesTypeOK, FilesMove
  <1>2. editing' \in [Editors -> {NoEdit} \cup [stage : {"pre", "written"}, file : Mems]]
    <2>1. CASE UNCHANGED editing
      BY <2>1
    <2>2. ASSUME NEW s \in Editors, NEW f \in Mems, ToolPre(s, f)
          PROVE editing' \in [Editors -> {NoEdit} \cup [stage : {"pre", "written"}, file : Mems]]
      BY <2>2 DEF ToolPre
    <2>3. ASSUME NEW s \in Editors, ToolWrite(s)
          PROVE editing' \in [Editors -> {NoEdit} \cup [stage : {"pre", "written"}, file : Mems]]
      <3>1. editing[s].file \in Mems
        BY <2>3 DEF ToolWrite, NoEdit
      <3>2. [stage |-> "written", file |-> editing[s].file]
              \in [stage : {"pre", "written"}, file : Mems]
        BY <3>1
      <3> QED
        BY <2>3, <3>2 DEF ToolWrite
    <2>4. ASSUME NEW s \in Editors, ToolPost(s) \/ ToolDeclined(s)
          PROVE editing' \in [Editors -> {NoEdit} \cup [stage : {"pre", "written"}, file : Mems]]
      BY <2>4 DEF ToolPost, ToolDeclined
    <2> QED
      BY <2>1, <2>2, <2>3, <2>4 DEF MemoryNext, FilesStep, BeforeTool, Tool, AfterTool, Foreign,
           ForeignWrite, Remove, Tick, memoryVars, filesVars
  <1>3. CASE UNCHANGED <<text, mtime, texts, quiet>>
    BY <1>1, <1>2, <1>3
  <1>4. ASSUME NEW f \in Mems, NEW t \in Ticks, Put(f, t) PROVE FilesInv'
    BY <1>1, <1>2, <1>4, FilesAssumption DEF Put, Ticks
  <1>5. ASSUME NEW f \in Mems, Remove(f) PROVE FilesInv'
    BY <1>1, <1>2, <1>5, FilesAssumption DEF Remove
  <1> QED
    BY <1>1, <1>3, <1>4, <1>5

LEMMA FilesStart == FilesInit => FilesInv
  BY FilesAssumption DEF FilesInit, FilesInv, FilesTypeOK, Ticks
-----------------------------------------------------------------------------
(* The read gate. *)

Previews == [text : Nat, at : Nat, mtime : Nat]

GateTypeOK ==
    /\ preview \in [Mems -> Previews]
    /\ reading \in [Readers -> {NoRead} \cup [stage : {"read"}, file : Mems]
                               \cup [stage : {"taken"}, file : Mems, text : Nat \ {0}]]

\* Of a preview that neither a torn recording nor a quiet write has spoilt: it is no
\* newer than the file, and as new only if it has the file's text.
Honest(f) ==
    preview[f] # NoPreview /\ f \notin torn /\ f \notin quiet =>
        /\ preview[f].mtime <= mtime[f]
        /\ preview[f].mtime = mtime[f] /\ Exists(f) => preview[f].text = text[f]

GateInv == FilesInv /\ GateTypeOK /\ \A f \in Mems : Honest(f)

\* A move of the files.
LEMMA GateFiles ==
    ASSUME GateInv, FilesMove, FilesInv', UNCHANGED gateVars
    PROVE  GateInv'
  <1> USE DEF GateInv, Honest, Exists
  <1>0. GateTypeOK'
    BY DEF gateVars, GateTypeOK
  <1>1. \A f \in Mems : mtime[f] \in Nat /\ mtime'[f] \in Nat /\ preview[f].mtime \in Nat
    BY FilesAssumption DEF FilesInv, FilesTypeOK, GateTypeOK, Previews
  <1>2. CASE UNCHANGED <<text, mtime, texts, quiet>>
    BY <1>0, <1>2 DEF gateVars
  <1>3. ASSUME NEW f \in Mems, NEW t \in Ticks, Put(f, t) PROVE GateInv'
    <2>1. t \in Nat /\ mtime'[f] = t
      BY <1>3 DEF Put, FilesInv, FilesTypeOK, Ticks
    <2>2. \A g \in Mems \ {f} : text'[g] = text[g] /\ mtime'[g] = mtime[g]
      BY <1>3 DEF Put, FilesInv, FilesTypeOK
    <2>3. quiet \subseteq quiet' /\ (f \notin quiet' => mtime[f] < t)
      BY <1>1, <1>3, <2>1 DEF Put
    <2>4. Honest(f)'
      BY <1>1, <2>1, <2>3 DEF gateVars
    <2>5. \A g \in Mems \ {f} : Honest(g)'
      BY <2>2, <2>3 DEF gateVars
    <2> QED
      BY <1>0, <2>4, <2>5
  <1>4. ASSUME NEW f \in Mems, Remove(f) PROVE GateInv'
    <2>1. mtime' = mtime /\ quiet' = quiet /\ text'[f] = 0
          /\ \A g \in Mems \ {f} : text'[g] = text[g]
      BY <1>4 DEF Remove, FilesInv, FilesTypeOK
    <2> QED
      BY <1>0, <2>1 DEF gateVars
  <1> QED
    BY <1>2, <1>3, <1>4 DEF FilesMove

\* The hooks of a Read and the gate's own commands.
LEMMA GateMoves ==
    ASSUME GateInv, GateNext, UNCHANGED filesVars
    PROVE  GateInv'
  <1> USE DEF GateInv, Honest, GateTypeOK, Exists
  <1>0. FilesInv' /\ UNCHANGED <<now, text, mtime, quiet>>
    BY DEF FilesInv, FilesTypeOK, filesVars
  <1>1. /\ now \in Nat
        /\ \A f \in Mems : text[f] \in Nat /\ mtime[f] \in Nat
    BY FilesAssumption DEF FilesInv, FilesTypeOK, Ticks
  <1>2. ASSUME NEW r \in Readers, NEW f \in Mems, ReadAllowed(r, f) PROVE GateInv'
    BY <1>0, <1>2 DEF ReadAllowed
  <1>3. ASSUME NEW r \in Readers, TakePreview(r) PROVE GateInv'
    BY <1>0, <1>1, <1>3 DEF TakePreview, NoRead
  <1>4. ASSUME NEW r \in Readers, RecordPreview(r) PROVE GateInv'
    <2> DEFINE f == reading[r].file
               p == [text |-> reading[r].text, at |-> now,
                     mtime |-> IF Exists(f) THEN mtime[f] ELSE 0]
    <2>1. f \in Mems /\ reading[r].text \in Nat \ {0}
      BY <1>4 DEF RecordPreview, NoRead
    <2>2. p \in Previews
      BY <1>1, <2>1 DEF Previews
    <2>3. /\ preview' = [preview EXCEPT ![f] = p]
          /\ torn' = IF reading[r].text = text[f] THEN torn \ {f} ELSE torn \cup {f}
          /\ reading' = [reading EXCEPT ![r] = NoRead]
      BY <1>4 DEF RecordPreview
    <2>4. GateTypeOK'
      BY <2>1, <2>2, <2>3
    <2>5. f \notin torn' => p.text = text[f] /\ p.mtime = mtime[f]
      BY <2>1, <2>3
    <2>6. preview'[f] = p /\ \A g \in Mems \ {f} : preview'[g] = preview[g]
      BY <2>1, <2>3
    <2>7. \A g \in Mems \ {f} : g \in torn' <=> g \in torn
      BY <2>3
    <2> HIDE DEF p, f
    <2> QED
      BY <1>0, <1>1, <2>1, <2>4, <2>5, <2>6, <2>7
  <1>5. ASSUME NEW r \in Readers, RecordCut(r) PROVE GateInv'
    BY <1>0, <1>5 DEF RecordCut
  <1>6. ASSUME NEW f \in Gateable, CliRecord(f) PROVE GateInv'
    <2> DEFINE p == [text |-> text[f], at |-> now, mtime |-> mtime[f]]
    <2>1. f \in Mems
      BY GateAssumption
    <2>2. p \in Previews
      BY <1>1, <2>1 DEF Previews
    <2>3. /\ preview' = [preview EXCEPT ![f] = p]
          /\ torn' = torn \ {f} /\ UNCHANGED reading
      BY <1>6 DEF CliRecord
    <2>4. p.text = text[f] /\ p.mtime = mtime[f]
      OBVIOUS
    <2> HIDE DEF p
    <2> QED
      BY <1>0, <1>1, <2>1, <2>2, <2>3, <2>4
  <1>7. CASE Purge
    BY <1>0, <1>7 DEF Purge, NoPreview, Previews
  <1> QED
    BY <1>2, <1>3, <1>4, <1>5, <1>6, <1>7 DEF GateNext

LEMMA GateStep == GateInv /\ [MemoryNext]_memoryVars => GateInv'
  <1> SUFFICES ASSUME GateInv, [MemoryNext]_memoryVars PROVE GateInv'
    OBVIOUS
  <1>1. FilesMove /\ FilesInv'
    BY FilesStepMoves, FilesStepInv DEF GateInv
  <1>2. UNCHANGED gateVars \/ (GateNext /\ UNCHANGED filesVars)
    BY DEF MemoryNext, FilesStep, BeforeTool, Tool, AfterTool, Foreign, StillGate, memoryVars
  <1> QED
    BY <1>1, <1>2, GateFiles, GateMoves

\* A refused Read is answered with the text on disk, however reads, recordings and
\* edits overlap, but for a torn recording and a write that leaves the mtime
\* (read_gate.gate_decision).
THEOREM DeniedReadsAreCurrent == MemorySpec => []GateServesCurrent
  <1>1. MemoryInit => GateInv
    BY FilesStart DEF MemoryInit, GateInit, GateInv, GateTypeOK, Honest, NoPreview, Previews
  <1>2. GateInv => GateServesCurrent
    <2> SUFFICES ASSUME GateInv, NEW f \in Mems, Denied(f), f \notin torn, f \notin quiet
                 PROVE  preview[f].text = text[f]
      BY DEF GateServesCurrent
    <2>1. preview[f].mtime \in Nat /\ mtime[f] \in Nat
      BY FilesAssumption DEF GateInv, GateTypeOK, Previews, FilesInv, FilesTypeOK
    <2> QED
      BY <2>1 DEF GateInv, Honest, Denied
  <1> QED
    BY <1>1, <1>2, GateStep, PTL DEF MemorySpec
-----------------------------------------------------------------------------
(* The knowledge graph. *)

RelRows == [type : Types, object : Objects, by : Nat]

KgTypeOK ==
    /\ rel \in Seq(RelRows)
    /\ asserting \in [Asserters ->
           {Rested} \cup [stage : {"create", "select"}, type : Types, object : Objects]
           \cup [stage : {"insert"}, type : Types, object : Objects, old : SUBSET Nat, rows : Nat]]

\* What a has selected to be closed are rows of the type, and among those that it
\* saw every one of another object that still holds.
SelectedAll(a) ==
    asserting[a].stage = "insert" =>
        LET t == asserting[a].type
            o == asserting[a].object
        IN  /\ asserting[a].rows <= Len(rel)
            /\ \A i \in asserting[a].old : i \in Ids /\ rel[i].type = t
            /\ t \in FunctionalTypes =>
                   \A i \in Ids : i <= asserting[a].rows /\ rel[i].type = t
                                  /\ rel[i].object # o /\ Current(i)
                                  => i \in asserting[a].old

\* The rows of a type: a closed one points forward, the last one holds, and without
\* an overlap no other does.
Ordered(t) ==
    /\ \A i \in Ids : rel[i].type = t /\ ~Current(i) =>
           rel[i].by \in Ids /\ rel[rel[i].by].type = t /\ rel[i].by > i
    /\ (\E i \in Ids : rel[i].type = t) =>
           \E i \in Ids : /\ rel[i].type = t /\ Current(i)
                          /\ \A j \in Ids : rel[j].type = t => j <= i
    /\ t \notin overlapped =>
           \A i, j \in Ids : rel[i].type = t /\ Current(i) /\ rel[j].type = t => j <= i

KgInv ==
    /\ KgTypeOK
    /\ \A a \in Asserters : SelectedAll(a)
    /\ \A t \in FunctionalTypes : Ordered(t)

\* The table after an insertion: a new last row that holds, the selected ones closed.
LEMMA InsertedRows ==
    ASSUME NEW rows \in Seq(RelRows), NEW t \in Types, NEW o \in Objects,
           NEW old, \A i \in old : i \in 1..Len(rows)
    PROVE  LET new  == Len(rows) + 1
               with == Marked(Append(rows, [type |-> t, object |-> o, by |-> 0]), old, new)
           IN  /\ with \in Seq(RelRows)
               /\ Len(with) = new /\ new \in Nat
               /\ with[new].type = t /\ with[new].by = 0
               /\ \A i \in 1..Len(rows) :
                     /\ with[i].type = rows[i].type
                     /\ with[i].object = rows[i].object
                     /\ with[i].by = IF i \in old THEN new ELSE rows[i].by
  <1> DEFINE new  == Len(rows) + 1
             r    == [type |-> t, object |-> o, by |-> 0]
             long == Append(rows, r)
             with == Marked(long, old, new)
  <1>1. r \in RelRows /\ new \in Nat
    BY DEF RelRows
  <1>2. /\ long \in Seq(RelRows) /\ Len(long) = new /\ long[new] = r
        /\ \A i \in 1..Len(rows) : long[i] = rows[i]
    BY <1>1, AppendProperties
  <1>3. new \notin old
    BY <1>1
  <1>4. \A i \in 1..new : long[i] \in RelRows
    BY <1>2, ElementOfSeq
  <1> HIDE DEF new, r, long
  <1>5. with = [i \in 1..new |-> [type |-> long[i].type, object |-> long[i].object,
                                  by |-> IF i \in old THEN new ELSE long[i].by]]
    BY <1>2 DEF Marked
  <1> HIDE DEF with
  <1>6. with \in [1..new -> RelRows]
    BY <1>1, <1>4, <1>5 DEF RelRows
  <1>7. with \in Seq(RelRows) /\ Len(with) = new
    BY <1>1, <1>6, IsASeq, LenProperties
  <1>8. new \in 1..new
    BY <1>1 DEF new
  <1>9. with[new].type = t /\ with[new].by = 0
    BY <1>2, <1>3, <1>5, <1>8 DEF r
  <1>10. \A i \in 1..Len(rows) :
            /\ with[i].type = rows[i].type
            /\ with[i].object = rows[i].object
            /\ with[i].by = IF i \in old THEN new ELSE rows[i].by
    <2>1. \A i \in 1..Len(rows) : i \in 1..new
      BY LenProperties DEF new
    <2> QED
      BY <1>2, <1>5, <2>1
  <1> QED
    BY <1>1, <1>7, <1>9, <1>10 DEF new, r, long, with

LEMMA InsertStep ==
    ASSUME KgInv, NEW a \in Asserters, InsertFact(a)
    PROVE  KgInv'
  <1> DEFINE t   == asserting[a].type
             o   == asserting[a].object
             old == asserting[a].old
             new == Len(rel) + 1
  <1> USE DEF KgInv
  <1>1. /\ asserting[a].stage = "insert" /\ t \in Types /\ o \in Objects
        /\ asserting[a].rows \in Nat
        /\ asserting' = [asserting EXCEPT ![a] = Rested]
        /\ rel \in Seq(RelRows) /\ Len(rel) \in Nat
    BY LenProperties DEF InsertFact, KgTypeOK, Rested
  <1>2. CASE RowOf(t, o) # {}
    <2>1. UNCHANGED <<rel, overlapped>>
      BY <1>2 DEF InsertFact
    <2>2. KgTypeOK'
      BY <1>1, <2>1 DEF KgTypeOK
    <2>3. \A b \in Asserters : SelectedAll(b)'
      BY <1>1, <2>1 DEF SelectedAll, KgTypeOK, Ids, Current, Rested
    <2> QED
      BY <2>1, <2>2, <2>3 DEF Ordered, Ids, Current
  <1>3. CASE RowOf(t, o) = {}
    <2>1. \A i \in old : i \in 1..Len(rel) /\ rel[i].type = t
      BY <1>1 DEF SelectedAll, Ids
    <2>2. rel' = Marked(Append(rel, [type |-> t, object |-> o, by |-> 0]), old, new)
      BY <1>3 DEF InsertFact
    <2>3. /\ rel' \in Seq(RelRows) /\ Len(rel') = new /\ new \in Nat
          /\ rel'[new].type = t /\ rel'[new].by = 0
          /\ \A i \in 1..Len(rel) :
                /\ rel'[i].type = rel[i].type
                /\ rel'[i].object = rel[i].object
                /\ rel'[i].by = IF i \in old THEN new ELSE rel[i].by
      BY <1>1, <2>1, <2>2, InsertedRows
    <2>4. overlapped' = IF \E i \in Ids : i > asserting[a].rows /\ rel[i].type = t
                        THEN overlapped \cup {t} ELSE overlapped
      BY <1>3 DEF InsertFact
    <2>5. \A i \in 1..new : i \in 1..Len(rel) \/ i = new
      BY <1>1
    <2>6. \A i \in 1..Len(rel) : rel[i].by \in Nat /\ i \in 1..new /\ i < new /\ i \in Nat
      <3>1. \A i \in 1..Len(rel) : rel[i] \in RelRows
        BY <1>1, ElementOfSeq
      <3>2. \A i \in 1..Len(rel) : i \in 1..new /\ i < new /\ i \in Nat
        BY <1>1
      <3> QED
        BY <3>1, <3>2 DEF RelRows
    <2> HIDE DEF new
    <2>7. KgTypeOK'
      BY <1>1, <2>3 DEF KgTypeOK
    <2>8. ASSUME NEW b \in Asserters PROVE SelectedAll(b)'
      <3>1. CASE b = a
        BY <1>1, <3>1 DEF SelectedAll, KgTypeOK, Rested
      <3>2. CASE b # a
        <4>1. asserting'[b] = asserting[b] /\ SelectedAll(b)
          BY <1>1, <3>2 DEF KgTypeOK
        <4>2. asserting[b].stage = "insert" =>
                  asserting[b].rows \in Nat /\ asserting[b].rows < new
          BY <1>1, <4>1 DEF KgTypeOK, SelectedAll, Rested, new
        <4>3. asserting[b].stage = "insert" => asserting[b].rows <= Len(rel')
          BY <2>3, <4>2
        <4>4. asserting[b].stage = "insert" =>
                  \A i \in asserting[b].old : i \in 1..new /\ rel'[i].type = asserting[b].type
          BY <2>3, <2>6, <4>1 DEF SelectedAll, Ids
        <4>5. ASSUME asserting[b].stage = "insert", asserting[b].type \in FunctionalTypes,
                     NEW i \in 1..new, i <= asserting[b].rows,
                     rel'[i].type = asserting[b].type, rel'[i].object # asserting[b].object,
                     rel'[i].by = 0
              PROVE  i \in asserting[b].old
          <5>1. i \in 1..Len(rel)
            BY <2>3, <2>5, <4>2, <4>5
          <5>2. rel[i].by = 0
            BY <2>3, <4>5, <5>1 DEF new
          <5> QED
            BY <2>3, <4>1, <4>5, <5>1, <5>2 DEF SelectedAll, Ids, Current
        <4> QED
          BY <2>3, <4>1, <4>3, <4>4, <4>5 DEF SelectedAll, Ids, Current
      <3> QED
        BY <3>1, <3>2
    <2>9. ASSUME NEW u \in FunctionalTypes, u # t PROVE Ordered(u)'
      <3>1. \A i \in 1..new : rel'[i].type = u =>
                i \in 1..Len(rel) /\ rel[i].type = u /\ rel'[i].by = rel[i].by
        BY <2>1, <2>3, <2>5, <2>9
      <3>2. \A i \in 1..Len(rel) : rel[i].type = u =>
                i \in 1..new /\ rel'[i].type = u /\ rel'[i].by = rel[i].by
        BY <2>3, <2>6, <3>1
      <3>3. u \notin overlapped' => u \notin overlapped
        BY <2>4
      <3>4. Ordered(u)
        OBVIOUS
      <3> QED
        BY <2>3, <3>1, <3>2, <3>3, <3>4 DEF Ordered, Ids, Current
    <2>10. ASSUME NEW u \in FunctionalTypes, u = t PROVE Ordered(u)'
      <3>0. Ordered(t) /\ SelectedAll(a)
        BY <2>10
      <3>1. new \in 1..new /\ \A j \in 1..new : j <= new
        BY <2>3, <1>1 DEF new
      <3>2. ASSUME NEW i \in 1..new, rel'[i].type = t, rel'[i].by # 0
            PROVE  rel'[i].by \in 1..new /\ rel'[rel'[i].by].type = t /\ rel'[i].by > i
        <4>1. i \in 1..Len(rel)
          BY <2>3, <2>5, <3>2
        <4>2. CASE i \in old
          BY <2>3, <2>6, <3>1, <4>1, <4>2
        <4>3. CASE i \notin old
          <5>1. rel'[i].by = rel[i].by /\ rel[i].type = t /\ rel[i].by # 0
            BY <2>3, <3>2, <4>1, <4>3
          <5>2. rel[i].by \in 1..Len(rel) /\ rel[rel[i].by].type = t /\ rel[i].by > i
            BY <3>0, <4>1, <5>1 DEF Ordered, Ids, Current
          <5> QED
            BY <2>3, <2>6, <5>1, <5>2
        <4> QED
          BY <4>2, <4>3
      <3>3. ASSUME t \notin overlapped', NEW i \in 1..new, NEW j \in 1..new,
                   rel'[i].type = t, rel'[i].by = 0
            PROVE  j <= i
        \* A row that held was seen, for nothing overlapped, and is closed now.
        <4>1. ASSUME i \in 1..Len(rel) PROVE FALSE
          <5>1. i \notin old /\ rel[i].by = 0 /\ rel[i].type = t
            BY <2>3, <3>3, <4>1, <1>1 DEF new
          <5>2. i <= asserting[a].rows
            BY <1>1, <2>4, <2>6, <3>3, <4>1, <5>1 DEF Ids
          <5>3. rel[i].object # o
            BY <1>3, <4>1, <5>1 DEF RowOf, Ids
          <5> QED
            BY <1>1, <2>10, <3>0, <4>1, <5>1, <5>2, <5>3 DEF SelectedAll, Ids, Current
        <4> QED
          BY <2>5, <3>1, <4>1
      <3>4. Ids' = 1..new
        BY <2>3 DEF Ids
      <3>5. \A i \in Ids' : rel'[i].type = t /\ ~Current(i)' =>
                rel'[i].by \in Ids' /\ rel'[rel'[i].by].type = t /\ rel'[i].by > i
        BY <3>2, <3>4 DEF Current
      <3>6. \E i \in Ids' : /\ rel'[i].type = t /\ Current(i)'
                            /\ \A j \in Ids' : rel'[j].type = t => j <= i
        BY <2>3, <3>1, <3>4 DEF Current
      <3>7. t \notin overlapped' =>
                \A i, j \in Ids' : rel'[i].type = t /\ Current(i)' /\ rel'[j].type = t => j <= i
        BY <3>3, <3>4 DEF Current
      <3> QED
        BY <2>10, <3>5, <3>6, <3>7 DEF Ordered
    <2> QED
      BY <2>7, <2>8, <2>9, <2>10
  <1> QED
    BY <1>2, <1>3

\* The steps before the insertion, and a call that is cut.
LEMMA CallStep ==
    ASSUME KgInv, NEW a \in Asserters, UNCHANGED <<rel, overlapped>>,
           NEW r, asserting' = [asserting EXCEPT ![a] = r],
           r \in {Rested} \cup [stage : {"create", "select"}, type : Types, object : Objects]
           \/ /\ r \in [stage : {"insert"}, type : Types, object : Objects, old : SUBSET Nat,
                        rows : Nat]
              /\ r.rows = Len(rel) /\ r.old = Superseding(r.type, r.object)
    PROVE  KgInv'
  <1> USE DEF KgInv
  <1>1. KgTypeOK'
    BY DEF KgTypeOK
  <1>2. asserting'[a] = r /\ \A b \in Asserters \ {a} : asserting'[b] = asserting[b]
    BY DEF KgTypeOK
  <1>3. SelectedAll(a)'
    BY <1>2, LenProperties DEF SelectedAll, Superseding, Ids, Current, Rested, KgTypeOK
  <1>4. \A b \in Asserters \ {a} : SelectedAll(b)'
    BY <1>2 DEF SelectedAll, Ids, Current
  <1>5. \A t \in FunctionalTypes : Ordered(t)'
    BY DEF Ordered, Ids, Current
  <1> QED
    BY <1>1, <1>3, <1>4, <1>5

LEMMA KgStep == KgInv /\ [MemoryNext]_memoryVars => KgInv'
  <1> SUFFICES ASSUME KgInv, [MemoryNext]_memoryVars PROVE KgInv'
    OBVIOUS
  <1>0. UNCHANGED kgVars \/ KgNext
    BY DEF MemoryNext, StillKg, memoryVars
  <1>1. CASE UNCHANGED kgVars
    BY <1>1 DEF kgVars, KgInv, KgTypeOK, SelectedAll, Ordered, Ids, Current
  <1>2. ASSUME NEW a \in Asserters, NEW t \in Types, NEW o \in Objects, Resolve(a, t, o)
        PROVE  KgInv'
    <2> DEFINE r == [stage |-> IF o \in entities THEN "select" ELSE "create",
                     type |-> t, object |-> o]
    <2>1. r \in [stage : {"create", "select"}, type : Types, object : Objects]
      OBVIOUS
    <2>2. asserting' = [asserting EXCEPT ![a] = r] /\ UNCHANGED <<rel, overlapped>>
      BY <1>2 DEF Resolve
    <2> HIDE DEF r
    <2> QED
      BY <2>1, <2>2, CallStep
  <1>3. ASSUME NEW a \in Asserters, CreateEntity(a) \/ Reassert(a) \/ AssertCut(a) PROVE KgInv'
    <2>1. UNCHANGED <<rel, overlapped>>
      BY <1>3 DEF CreateEntity, Reassert, AssertCut
    <2>2. CASE asserting' = [asserting EXCEPT ![a] = Rested]
      BY <2>1, <2>2, CallStep
    <2>3. CASE asserting' = [asserting EXCEPT ![a] =
                   [stage |-> "select", type |-> asserting[a].type, object |-> asserting[a].object]]
               /\ asserting[a].stage = "create"
      <3>1. [stage |-> "select", type |-> asserting[a].type, object |-> asserting[a].object]
              \in [stage : {"create", "select"}, type : Types, object : Objects]
        BY <2>3 DEF KgInv, KgTypeOK, Rested
      <3> QED
        BY <2>1, <2>3, <3>1, CallStep
    <2> QED
      BY <1>3, <2>2, <2>3 DEF CreateEntity, Reassert, AssertCut, KgInv, KgTypeOK
  <1>4. ASSUME NEW a \in Asserters, SelectOld(a) PROVE KgInv'
    <2> DEFINE t == asserting[a].type
               o == asserting[a].object
               r == [stage |-> "insert", type |-> t, object |-> o,
                     old |-> Superseding(t, o), rows |-> Len(rel)]
    <2>1. t \in Types /\ o \in Objects /\ Len(rel) \in Nat
      BY <1>4, LenProperties DEF SelectOld, KgInv, KgTypeOK, Rested
    <2>2. Superseding(t, o) \in SUBSET Nat
      BY <2>1 DEF Superseding, Ids
    <2>3. r \in [stage : {"insert"}, type : Types, object : Objects, old : SUBSET Nat, rows : Nat]
      BY <2>1, <2>2
    <2>4. r.rows = Len(rel) /\ r.old = Superseding(r.type, r.object)
      OBVIOUS
    <2>5. asserting' = [asserting EXCEPT ![a] = r] /\ UNCHANGED <<rel, overlapped>>
      BY <1>4 DEF SelectOld, KgInv, KgTypeOK
    <2> HIDE DEF r
    <2> QED
      BY <2>3, <2>4, <2>5, CallStep
  <1>5. ASSUME NEW a \in Asserters, InsertFact(a) PROVE KgInv'
    BY <1>5, InsertStep
  <1> QED
    BY <1>0, <1>1, <1>2, <1>3, <1>4, <1>5 DEF KgNext

\* However asserters overlap, a functional type that has a fact has one that holds,
\* the last stored unless two insertions overlapped, and superseded_by leads
\* forward (bitemporal.mark_superseded).
THEOREM FactsAreSuperseded == MemorySpec => []OneCurrentFact
  <1>1. MemoryInit => KgInv
    BY EmptySeq DEF MemoryInit, KgInit, KgInv, KgTypeOK, SelectedAll, Ordered, Ids, Rested
  <1>2. KgInv => OneCurrentFact
    BY DEF KgInv, Ordered, OneCurrentFact, Current
  <1> QED
    BY <1>1, <1>2, KgStep, PTL DEF MemorySpec
-----------------------------------------------------------------------------
(* The index. *)

Loads == [on : {TRUE}, job : {<<>>} \cup (Mems \X Seconds), load : [Mems -> Nat],
          again : BOOLEAN]

IndexTypeOK ==
    /\ row \in [Mems -> Nat]
    /\ jobs \in [Mems -> [Seconds -> JobStates]]
    /\ worker \in [Workers -> {Resting} \cup Loads]

\* A hooked write of f whose emission is due.
Due(f) == \E e \in Editors : editing[e].stage = "written" /\ editing[e].file = f

\* No job is of a second yet to come.
JobsPast == \A f \in Mems, s \in Seconds : jobs[f][s] # "none" => s <= Second(now)

\* What a worker carries is no newer than the file; a job is one file's.
SoundLoad(w) ==
    Busy(w) =>
        /\ \A f \in Mems : worker[w].load[f] <= texts
                           /\ (Exists(f) => worker[w].load[f] <= text[f])
        /\ HasJob(w) =>
              /\ jobs[worker[w].job[1]][worker[w].job[2]] # "none"
              /\ \A f \in Mems : f \in Batch(w) <=> f = worker[w].job[1]

\* A row that is not the file's: somebody will still see to it, or it is excused.
Covered(f) ==
    Exists(f) /\ row[f] # text[f] =>
        f \in excuse \/ Due(f) \/ \E s \in Seconds : jobs[f][s] = "open"

\* A text that w carries and that is not the file's any more will not be the last
\* word: the loss is excused or will be when w commits, or a job of a later second
\* than the one that w will close is open.
Outdated(w, f) ==
    \/ f \in excuse \/ Due(f) \/ worker[w].again
    \/ worker[w].load[f] < row[f]
    \/ \E s \in Seconds : jobs[f][s] = "open" /\ (HasJob(w) => worker[w].job[2] < s)

Answerable(w) ==
    Busy(w) => \A f \in Batch(w) :
        Exists(f) /\ worker[w].load[f] # text[f] => Outdated(w, f)

IndexInv ==
    /\ FilesInv /\ IndexTypeOK /\ JobsPast
    /\ \A w \in Workers : SoundLoad(w) /\ Answerable(w)
    /\ \A f \in Mems : Covered(f)

WatchedIndexInv == Watching("index") => IndexInv

\* The records that EmitReindex and TakeJob leave in worker.
LEMMA LoadType ==
    ASSUME IndexTypeOK, NEW w \in Workers
    PROVE  /\ Busy(w) => /\ worker[w] \in Loads /\ worker[w].load \in [Mems -> Nat]
                         /\ worker[w].job = <<>> \/ worker[w].job \in Mems \X Seconds
           /\ Busy(w) /\ HasJob(w) => worker[w].job[1] \in Mems /\ worker[w].job[2] \in Seconds
  <1>1. Busy(w) => worker[w] \in Loads
    BY DEF IndexTypeOK, Busy, Resting
  <1>2. \A j \in Mems \X Seconds : j[1] \in Mems /\ j[2] \in Seconds
    OBVIOUS
  <1> QED
    BY <1>1, <1>2 DEF Loads, HasJob

LEMMA SecondsNow ==
    ASSUME FilesInv
    PROVE  /\ Second(now) \in Seconds /\ now \in Nat
           /\ \A s \in Seconds : s \in Nat
  BY SecondType, FilesAssumption DEF FilesInv, FilesTypeOK, Ticks, Seconds

\* Time passes and edits begin or are declined.
LEMMA IndexStill ==
    ASSUME IndexInv, FilesInv', UNCHANGED <<text, texts, indexVars>>, now <= now', now' \in Nat,
           \A f \in Mems : Due(f) => Due(f)'
    PROVE  IndexInv'
  <1> USE DEF IndexInv, indexVars
  <1>1. IndexTypeOK'
    BY DEF IndexTypeOK
  <1>2. JobsPast'
    <2>1. Second(now) <= Second(now') /\ Second(now') \in Nat
      BY SecondType, SecondsNow
    <2> QED
      BY <2>1, SecondsNow, SecondType DEF JobsPast
  <1>3. \A w \in Workers : SoundLoad(w)'
    BY DEF SoundLoad, Busy, HasJob, Batch, Exists
  <1>4. \A w \in Workers : Answerable(w)'
    BY DEF Answerable, Outdated, Busy, HasJob, Batch, Exists
  <1>5. \A f \in Mems : Covered(f)'
    BY DEF Covered, Exists
  <1> QED
    BY <1>1, <1>2, <1>3, <1>4, <1>5

\* A new text, whose emission is due or which is excused.
LEMMA IndexPut ==
    ASSUME IndexInv, FilesInv', NEW f \in Mems, NEW t \in Ticks, Put(f, t), UNCHANGED now,
           UNCHANGED <<row, jobs, worker>>, excuse \subseteq excuse',
           Due(f)' \/ f \in excuse', \A g \in Mems : Due(g) => Due(g)'
    PROVE  IndexInv'
  <1> USE DEF IndexInv
  <1>1. IndexTypeOK' /\ JobsPast'
    BY DEF IndexTypeOK, JobsPast
  <1>2. /\ text'[f] = texts + 1 /\ texts' = texts + 1 /\ texts \in Nat
        /\ \A g \in Mems \ {f} : text'[g] = text[g]
    BY FilesAssumption DEF Put, FilesInv, FilesTypeOK
  <1>3. \A w \in Workers : SoundLoad(w)'
    <2> SUFFICES ASSUME NEW w \in Workers, Busy(w) PROVE SoundLoad(w)'
      BY DEF SoundLoad, Busy
    <2>1. \A g \in Mems : worker[w].load[g] \in Nat /\ worker[w].load[g] <= texts
      BY LoadType DEF SoundLoad
    <2> QED
      BY <1>2, <2>1 DEF SoundLoad, Busy, HasJob, Batch, Exists
  <1>4. \A w \in Workers : Answerable(w)'
    BY <1>2 DEF Answerable, Outdated, Busy, HasJob, Batch, Exists
  <1>5. \A g \in Mems : Covered(g)'
    BY <1>2 DEF Covered, Exists
  <1> QED
    BY <1>1, <1>3, <1>4, <1>5

LEMMA IndexRemove ==
    ASSUME IndexInv, FilesInv', NEW f \in Mems, Remove(f), UNCHANGED indexVars
    PROVE  IndexInv'
  <1> USE DEF IndexInv, indexVars
  <1>1. IndexTypeOK' /\ JobsPast'
    BY DEF IndexTypeOK, JobsPast, Remove
  <1>2. text'[f] = 0 /\ texts' = texts /\ editing' = editing
        /\ \A g \in Mems \ {f} : text'[g] = text[g]
    BY DEF Remove, FilesInv, FilesTypeOK
  <1>3. \A w \in Workers : SoundLoad(w)'
    BY <1>2 DEF SoundLoad, Busy, HasJob, Batch, Exists
  <1>4. \A w \in Workers : Answerable(w)'
    BY <1>2 DEF Answerable, Outdated, Busy, HasJob, Batch, Exists, Due
  <1>5. \A g \in Mems : Covered(g)'
    BY <1>2 DEF Covered, Exists, Due
  <1> QED
    BY <1>1, <1>3, <1>4, <1>5

\* A job for f: whoever carries an older text has the same job, and is marked, or one
\* of an earlier second, or none.
LEMMA IndexEmitted ==
    ASSUME IndexInv, FilesInv', NEW f \in Mems, EmitReindex(f), UNCHANGED <<now, text, texts>>,
           \A g \in Mems \ {f} : Due(g) => Due(g)'
    PROVE  IndexInv'
  <1> DEFINE s == Second(now)
  <1> USE DEF IndexInv
  <1>0. s \in Seconds /\ (\A r \in Seconds : r \in Nat)
    BY SecondsNow
  <1> HIDE DEF s
  <1>1. /\ jobs'[f][s] = "open"
        /\ \A g \in Mems, r \in Seconds : g # f \/ r # s => jobs'[g][r] = jobs[g][r]
        /\ jobs' \in [Mems -> [Seconds -> JobStates]]
        /\ UNCHANGED <<row, excuse>>
    BY <1>0 DEF EmitReindex, Emitted, IndexTypeOK, JobStates, s
  <1>2. /\ DOMAIN worker' = Workers
        /\ \A w \in Workers :
              worker'[w] = IF Busy(w) /\ HasJob(w) /\ worker[w].job = <<f, s>>
                           THEN [on |-> TRUE, job |-> <<f, s>>, load |-> worker[w].load,
                                 again |-> TRUE]
                           ELSE worker[w]
    BY DEF EmitReindex, s
  <1>3. ASSUME NEW w \in Workers
        PROVE  /\ worker'[w] \in {Resting} \cup Loads
               /\ Busy(w)' = Busy(w)
               /\ Busy(w) => /\ worker'[w].job = worker[w].job
                             /\ worker'[w].load = worker[w].load
                             /\ worker[w].again => worker'[w].again
                             /\ HasJob(w) /\ worker[w].job = <<f, s>> => worker'[w].again
    <2>1. CASE Busy(w) /\ HasJob(w) /\ worker[w].job = <<f, s>>
      <3>1. worker'[w] = [on |-> TRUE, job |-> <<f, s>>, load |-> worker[w].load,
                          again |-> TRUE]
        BY <1>2, <2>1
      <3>2. worker[w].load \in [Mems -> Nat] /\ <<f, s>> \in Mems \X Seconds
        BY <1>0, <2>1, LoadType
      <3> QED
        BY <2>1, <3>1, <3>2 DEF Loads, Busy
    <2>2. CASE ~(Busy(w) /\ HasJob(w) /\ worker[w].job = <<f, s>>)
      <3>1. worker'[w] = worker[w]
        BY <1>2, <2>2
      <3> QED
        BY <2>2, <3>1 DEF IndexTypeOK, Busy
    <2> QED
      BY <2>1, <2>2
  <1>4. worker' \in [Workers -> {Resting} \cup Loads]
    <2>1. worker' = [w \in Workers |-> worker'[w]]
      BY DEF EmitReindex
    <2> QED
      BY <1>3, <2>1
  <1>5. IndexTypeOK'
    BY <1>1, <1>4 DEF IndexTypeOK
  <1>6. JobsPast'
    BY <1>0, <1>1 DEF JobsPast, s
  <1>7. ASSUME NEW w \in Workers, Busy(w)
        PROVE  SoundLoad(w)'
    <2>1. HasJob(w)' = HasJob(w) /\ Batch(w)' = Batch(w)
      BY <1>3, <1>7 DEF HasJob, Batch
    <2>2. HasJob(w) => jobs'[worker[w].job[1]][worker[w].job[2]] # "none"
      BY <1>1, <1>7, LoadType DEF SoundLoad
    <2> QED
      BY <1>3, <1>7, <2>1, <2>2 DEF SoundLoad, Exists
  <1>8. ASSUME NEW w \in Workers, Busy(w), NEW g \in Batch(w),
               Exists(g), worker[w].load[g] # text[g]
        PROVE  Outdated(w, g)'
    <2>1. HasJob(w)' = HasJob(w)
      BY <1>3, <1>8 DEF HasJob
    <2>2. CASE g # f
      <3>1. Outdated(w, g)
        BY <1>8 DEF Answerable
      <3> QED
        BY <1>1, <1>3, <1>8, <2>1, <2>2, <3>1 DEF Outdated, Batch
    <2>3. CASE g = f /\ HasJob(w) /\ worker[w].job = <<f, s>>
      BY <1>3, <1>8, <2>3 DEF Outdated
    <2>4. CASE g = f /\ HasJob(w) /\ worker[w].job # <<f, s>>
      <3>1. worker[w].job \in Mems \X Seconds /\ worker[w].job[1] = f
        BY <1>8, <2>4, LoadType DEF SoundLoad, HasJob
      <3>2. worker[w].job[2] # s /\ worker[w].job[2] \in Seconds
        BY <2>4, <3>1
      <3>3. worker[w].job[2] < s
        BY <1>0, <1>8, <2>4, <3>1, <3>2 DEF SoundLoad, JobsPast, s
      <3> QED
        BY <1>0, <1>1, <1>3, <1>8, <2>1, <2>4, <3>3 DEF Outdated
    <2>5. CASE g = f /\ ~HasJob(w)
      BY <1>0, <1>1, <1>3, <1>8, <2>1, <2>5 DEF Outdated
    <2> QED
      BY <2>2, <2>3, <2>4, <2>5
  <1>9. \A w \in Workers : Answerable(w)'
    BY <1>3, <1>8 DEF Answerable, Batch, Exists
  <1>10. \A g \in Mems : Covered(g)'
    BY <1>0, <1>1 DEF Covered, Exists
  <1>11. \A w \in Workers : SoundLoad(w)'
    BY <1>3, <1>7 DEF SoundLoad
  <1> QED
    BY <1>5, <1>6, <1>9, <1>10, <1>11

LEMMA IndexNotEmitted ==
    ASSUME IndexInv, FilesInv', NEW f \in Mems, NotEmitted(f), UNCHANGED <<now, text, texts>>,
           \A g \in Mems \ {f} : Due(g) => Due(g)'
    PROVE  IndexInv'
  <1> USE DEF IndexInv
  <1>1. IndexTypeOK' /\ JobsPast' /\ excuse' = excuse \cup {f} /\ UNCHANGED <<row, jobs, worker>>
    BY DEF NotEmitted, IndexTypeOK, JobsPast
  <1>2. \A w \in Workers : SoundLoad(w)'
    BY <1>1 DEF SoundLoad, Busy, HasJob, Batch, Exists
  <1>3. \A w \in Workers : Answerable(w)'
    BY <1>1 DEF Answerable, Outdated, Busy, HasJob, Batch, Exists
  <1>4. \A g \in Mems : Covered(g)'
    BY <1>1 DEF Covered, Exists
  <1> QED
    BY <1>1, <1>2, <1>3, <1>4

\* A worker starts to embed what it has just read; the others are as they were.
LEMMA IndexTaken ==
    ASSUME IndexInv, UNCHANGED <<filesVars, row, jobs, excuse>>,
           NEW w \in Workers, NEW r \in Loads, worker' = [worker EXCEPT ![w] = r],
           \A f \in Mems : r.load[f] = 0 \/ r.load[f] = text[f],
           r.job # <<>> => /\ jobs[r.job[1]][r.job[2]] # "none"
                           /\ \A f \in Mems : r.load[f] # 0 <=> f = r.job[1]
    PROVE  IndexInv'
  <1> USE DEF IndexInv, filesVars
  <1>1. FilesInv' /\ JobsPast' /\ IndexTypeOK'
    BY DEF FilesInv, FilesTypeOK, JobsPast, IndexTypeOK
  <1>2. worker'[w] = r /\ \A v \in Workers \ {w} : worker'[v] = worker[v]
    BY DEF IndexTypeOK
  <1>3. /\ \A f \in Mems : text[f] \in Nat /\ text[f] <= texts /\ r.load[f] \in Nat
        /\ texts \in Nat
    BY FilesAssumption DEF FilesInv, FilesTypeOK, Loads
  <1>4. SoundLoad(w)' /\ Answerable(w)'
    BY <1>2, <1>3 DEF SoundLoad, Answerable, Busy, HasJob, Batch, Exists
  <1>5. ASSUME NEW v \in Workers \ {w} PROVE SoundLoad(v)' /\ Answerable(v)'
    BY <1>2, <1>5 DEF SoundLoad, Answerable, Outdated, Busy, HasJob, Batch, Exists, Due
  <1>6. \A f \in Mems : Covered(f)'
    BY DEF Covered, Exists, Due
  <1> QED
    BY <1>1, <1>4, <1>5, <1>6

\* A job is closed for file f, whose row is the file's or which is excused.
LEMMA IndexClosed ==
    ASSUME IndexInv, UNCHANGED <<filesVars, row>>,
           NEW f \in Mems, NEW s \in Seconds, NEW st \in {"done", "dead"},
           jobs[f][s] # "none", jobs' = [jobs EXCEPT ![f][s] = st],
           \A w \in Workers : worker'[w] = worker[w] \/ worker'[w] = Resting,
           worker' \in [Workers -> {Resting} \cup Loads],
           excuse \subseteq excuse',
           ~Exists(f) \/ row[f] = text[f] \/ f \in excuse'
    PROVE  IndexInv'
  <1> USE DEF IndexInv, filesVars
  <1>1. /\ jobs' \in [Mems -> [Seconds -> JobStates]]
        /\ jobs'[f][s] = st
        /\ \A g \in Mems, r \in Seconds : g # f \/ r # s => jobs'[g][r] = jobs[g][r]
    BY DEF IndexTypeOK, JobStates
  <1>2. FilesInv' /\ IndexTypeOK'
    BY <1>1 DEF FilesInv, FilesTypeOK, IndexTypeOK
  <1>3. JobsPast'
    BY <1>1 DEF JobsPast
  <1>4. ASSUME NEW w \in Workers, Busy(w)' PROVE worker'[w] = worker[w] /\ Busy(w)
    BY <1>4 DEF Busy, Resting
  <1>5. ASSUME NEW w \in Workers PROVE SoundLoad(w)'
    BY <1>1, <1>4, LoadType DEF SoundLoad, HasJob, Batch, Exists
  <1>6. ASSUME NEW w \in Workers, Busy(w)', NEW g \in Batch(w), Exists(g),
               worker[w].load[g] # text[g]
        PROVE  Outdated(w, g)'
    <2>1. worker'[w] = worker[w] /\ Busy(w) /\ HasJob(w)' = HasJob(w)
      BY <1>4, <1>6 DEF HasJob
    <2>2. Outdated(w, g)
      BY <1>6, <2>1 DEF Answerable
    <2>3. CASE g # f
      BY <1>1, <2>1, <2>2, <2>3 DEF Outdated, Due, Batch
    <2>4. CASE g = f /\ f \in excuse'
      BY <2>4 DEF Outdated
    <2>5. CASE g = f /\ row[f] = text[f]
      <3>1. worker[w].load[f] \in Nat /\ text[f] \in Nat /\ worker[w].load[f] <= text[f]
        BY <1>6, <2>1, <2>5, LoadType, FilesAssumption DEF SoundLoad, FilesInv, FilesTypeOK
      <3>2. worker[w].load[f] < row[f]
        BY <1>6, <2>5, <3>1
      <3> QED
        BY <2>1, <2>5, <3>2 DEF Outdated
    <2> QED
      BY <1>6, <2>3, <2>4, <2>5
  <1>7. \A w \in Workers : Answerable(w)'
    BY <1>4, <1>6 DEF Answerable, Batch, Exists
  <1>8. \A g \in Mems : Covered(g)'
    BY <1>1 DEF Covered, Exists, Due
  <1> QED
    BY <1>2, <1>3, <1>5, <1>7, <1>8

\* The batch is stored.
LEMMA IndexCommitted ==
    ASSUME IndexInv, UNCHANGED filesVars, NEW w \in Workers, Commit(w)
    PROVE  IndexInv'
  <1> USE DEF IndexInv, filesVars
  <1> DEFINE load == worker[w].load
             job  == worker[w].job
  <1>1. /\ Busy(w) /\ load \in [Mems -> Nat]
        /\ HasJob(w) => job[1] \in Mems /\ job[2] \in Seconds
      BY LoadType DEF Commit
  <1>2. /\ \A f \in Batch(w) : row'[f] = load[f]
        /\ \A f \in Mems \ Batch(w) : row'[f] = row[f]
        /\ row' \in [Mems -> Nat]
    <2>1. Batch(w) \subseteq Mems
      BY DEF Batch
    <2>2. row' = [f \in Mems |-> IF f \in Batch(w) THEN load[f] ELSE row[f]]
      BY DEF Commit
    <2> HIDE DEF load
    <2> QED
      BY <1>1, <2>1, <2>2 DEF IndexTypeOK
  <1>3. /\ jobs' \in [Mems -> [Seconds -> JobStates]]
        /\ \A f \in Mems, s \in Seconds :
              jobs'[f][s] = IF HasJob(w) /\ f = job[1] /\ s = job[2] THEN "done" ELSE jobs[f][s]
    BY <1>1 DEF Commit, Settled, IndexTypeOK, JobStates
  <1>4. worker'[w] = Resting /\ \A v \in Workers \ {w} : worker'[v] = worker[v]
    BY DEF Commit, IndexTypeOK
  <1>5. IndexTypeOK' /\ FilesInv'
    BY <1>2, <1>3 DEF Commit, IndexTypeOK, FilesInv, FilesTypeOK
  <1>6. JobsPast'
    BY <1>1, <1>3, LoadType DEF JobsPast, SoundLoad
  <1>7. ~Busy(w)'
    BY <1>4 DEF Busy, Resting
  <1>8. /\ \A f \in Mems : f \notin Batch(w) /\ f \in excuse => f \in excuse'
        /\ \A f \in Batch(w) : load[f] # text[f] =>
              (f \in excuse \/ worker[w].again \/ load[f] < row[f] => f \in excuse')
    BY DEF Commit, Batch
  \* What the worker has stored is the file's text, or somebody still owes it one.
  <1>9. ASSUME NEW f \in Batch(w)
        PROVE  \/ row'[f] = text[f]
               \/ f \in excuse' \/ Due(f)
               \/ /\ row[f] <= load[f]
                  /\ \E s \in Seconds : jobs[f][s] = "open" /\ (HasJob(w) => job[2] < s)
    <2>1. (Exists(f) /\ Outdated(w, f)) \/ load[f] = text[f]
      BY <1>1, <1>9 DEF Commit, Answerable
    <2>2. row[f] \in Nat /\ load[f] \in Nat
      BY <1>1, <1>9 DEF IndexTypeOK, Batch
    <2> QED
      BY <1>2, <1>8, <1>9, <2>1, <2>2 DEF Outdated
  <1>10. ASSUME NEW v \in Workers PROVE SoundLoad(v)'
    BY <1>3, <1>4, <1>7, LoadType DEF SoundLoad, HasJob, Batch, Exists, Busy
  <1>11. ASSUME NEW v \in Workers, Busy(v)', NEW f \in Batch(v)', Exists(f),
                worker'[v].load[f] # text[f]
         PROVE  Outdated(v, f)'
    <2>1. v # w /\ worker'[v] = worker[v] /\ Busy(v) /\ HasJob(v)' = HasJob(v) /\ f \in Batch(v)
      BY <1>4, <1>7, <1>11 DEF Busy, HasJob, Batch
    <2>2. Outdated(v, f) /\ f \in Mems
      BY <1>11, <2>1 DEF Answerable, Batch
    <2>3. CASE f \notin Batch(w)
      <3>1. \A s \in Seconds : jobs'[f][s] = jobs[f][s]
        BY <1>1, <1>3, <2>2, <2>3 DEF SoundLoad, Batch
      <3>2. row'[f] = row[f] /\ (f \in excuse => f \in excuse')
        BY <1>2, <1>8, <2>2, <2>3
      <3> QED
        BY <2>1, <2>2, <3>1, <3>2 DEF Outdated, Due
    <2>4. CASE f \in Batch(w)
      <3>1. worker[v].load[f] \in Nat /\ text[f] \in Nat /\ row[f] \in Nat /\ load[f] \in Nat
            /\ worker[v].load[f] <= text[f]
        BY <1>1, <1>11, <2>1, <2>2, LoadType, FilesAssumption
           DEF SoundLoad, FilesInv, FilesTypeOK, IndexTypeOK
      <3>2. CASE row'[f] = text[f]
        <4>1. worker[v].load[f] < row'[f]
          BY <1>11, <2>1, <3>1, <3>2
        <4> QED
          BY <2>1, <4>1 DEF Outdated
      <3>3. CASE f \in excuse' \/ Due(f)
        BY <3>3 DEF Outdated, Due
      <3>4. ASSUME row'[f] # text[f], row[f] <= load[f],
                   NEW s \in Seconds, jobs[f][s] = "open", HasJob(w) => job[2] < s
            PROVE  Outdated(v, f)'
        <4>1. row'[f] = load[f] /\ (f \in excuse => f \in excuse')
          BY <1>2, <1>8, <2>4, <3>4
        <4>2. s \in Nat /\ (HasJob(w) => job[2] \in Nat) /\ (HasJob(v) => worker[v].job[2] \in Nat)
          BY <1>1, <2>1, LoadType, SecondsNow
        <4>3. jobs'[f][s] = "open"
          BY <1>3, <2>2, <3>4, <4>2
        <4>4. ASSUME NEW r \in Seconds, jobs[f][r] = "open", HasJob(v) => worker[v].job[2] < r
              PROVE  Outdated(v, f)'
          <5>1. CASE jobs'[f][r] = "open"
            BY <2>1, <4>4, <5>1 DEF Outdated
          <5>2. CASE jobs'[f][r] # "open"
            <6>1. HasJob(w) /\ r = job[2]
              BY <1>3, <2>2, <4>4, <5>2
            <6>2. HasJob(v) => worker[v].job[2] < s
              BY <3>4, <4>2, <4>4, <6>1
            <6> QED
              BY <2>1, <4>3, <6>2 DEF Outdated
          <5> QED
            BY <5>1, <5>2
        <4> QED
          BY <2>1, <2>2, <3>1, <3>4, <4>1, <4>4 DEF Outdated, Due
      <3> QED
        BY <1>9, <2>4, <3>2, <3>3, <3>4
    <2> QED
      BY <2>3, <2>4
  <1>12. ASSUME NEW f \in Mems PROVE Covered(f)'
    <2>1. CASE f \in Batch(w)
      <3>1. ASSUME NEW s \in Seconds, jobs[f][s] = "open", HasJob(w) => job[2] < s
            PROVE  jobs'[f][s] = "open"
        <4>1. s \in Nat /\ (HasJob(w) => job[2] \in Nat)
          BY <1>1, SecondsNow
        <4> QED
          BY <1>3, <3>1, <4>1
      <3> QED
        BY <1>9, <2>1, <3>1 DEF Covered, Due
    <2>2. CASE f \notin Batch(w)
      <3>1. \A s \in Seconds : jobs'[f][s] = jobs[f][s]
        BY <1>1, <1>3, <2>2 DEF SoundLoad, Batch
      <3> QED
        BY <1>2, <1>8, <2>2, <3>1 DEF Covered, Due, Exists
    <2> QED
      BY <2>1, <2>2
  <1>13. \A v \in Workers : Answerable(v)'
    BY <1>11 DEF Answerable, Exists
  <1> QED
    BY <1>5, <1>6, <1>10, <1>12, <1>13

\* Everything a worker does.
LEMMA IndexMoves ==
    ASSUME IndexInv, UNCHANGED filesVars, IndexNext
    PROVE  IndexInv'
  <1> USE DEF IndexInv
  <1>0. /\ row \in [Mems -> Nat] /\ text \in [Mems -> Nat]
        /\ worker \in [Workers -> {Resting} \cup Loads]
    BY FilesAssumption DEF IndexTypeOK, FilesInv, FilesTypeOK
  <1>2. ASSUME NEW w \in Workers, NEW f \in Mems, NEW s \in Seconds, TakeJob(w, f, s)
        PROVE  IndexInv'
    <2> DEFINE load == ToEmbed({f}, FALSE)
               r == [on |-> TRUE, job |-> <<f, s>>, load |-> load, again |-> FALSE]
    <2>0. /\ load \in [Mems -> Nat]
          /\ \A g \in Mems : load[g] = 0 \/ load[g] = text[g]
          /\ \A g \in Mems : g # f => load[g] = 0
      BY <1>0 DEF ToEmbed
    <2>1. CASE load[f] = 0
      <3>1. ~Exists(f) \/ row[f] = text[f]
        BY <2>1 DEF ToEmbed, Exists
      <3>2. /\ jobs' = [jobs EXCEPT ![f][s] = "done"] /\ jobs[f][s] # "none"
            /\ UNCHANGED <<row, worker, excuse>>
        BY <1>2, <2>1 DEF TakeJob
      <3> QED
        BY <1>0, <3>1, <3>2, IndexClosed
    <2>2. CASE load[f] # 0
      <3>1. r \in Loads
        BY <2>0 DEF Loads
      <3>2. \A g \in Mems : load[g] # 0 <=> g = f
        BY <2>0, <2>2
      <3>3. /\ worker' = [worker EXCEPT ![w] = r] /\ jobs[f][s] # "none"
            /\ UNCHANGED <<row, jobs, excuse>>
        BY <1>2, <2>2 DEF TakeJob
      <3>4. r.load = load /\ r.job = <<f, s>> /\ r.job[1] = f /\ r.job[2] = s
        OBVIOUS
      <3> HIDE DEF r, load
      <3> QED
        BY <2>0, <3>1, <3>2, <3>3, <3>4, IndexTaken
    <2> QED
      BY <2>1, <2>2
  <1>3. ASSUME NEW w \in Workers, NEW force \in BOOLEAN, ReindexAll(w, force) PROVE IndexInv'
    <2> DEFINE r == [on |-> TRUE, job |-> <<>>, load |-> ToEmbed(Mems, force), again |-> FALSE]
    <2>1. r \in Loads
      BY <1>0 DEF Loads, ToEmbed
    <2>2. \A g \in Mems : r.load[g] = 0 \/ r.load[g] = text[g]
      BY DEF ToEmbed
    <2>3. worker' = [worker EXCEPT ![w] = r] /\ UNCHANGED <<row, jobs, excuse>> /\ r.job = <<>>
      BY <1>3 DEF ReindexAll
    <2> HIDE DEF r
    <2> QED
      BY <2>1, <2>2, <2>3, IndexTaken
  <1>4. ASSUME NEW w \in Workers, Commit(w) PROVE IndexInv'
    BY <1>4, IndexCommitted
  <1>5. ASSUME NEW w \in Workers, CommitFails(w) PROVE IndexInv'
    <2>1. /\ worker' = [worker EXCEPT ![w] = Resting] /\ row' = row /\ Busy(w)
          /\ \A v \in Workers : worker'[v] = worker[v] \/ worker'[v] = Resting
          /\ worker' \in [Workers -> {Resting} \cup Loads]
      BY <1>0, <1>5 DEF CommitFails
    <2>2. CASE UNCHANGED <<jobs, excuse>>
      <3>1. \A v \in Workers : Busy(v)' => worker'[v] = worker[v] /\ Busy(v)
        BY <2>1 DEF Busy, Resting
      <3>2. /\ FilesInv' /\ JobsPast' /\ IndexTypeOK' /\ \A f \in Mems : Covered(f)'
        BY <2>1, <2>2 DEF filesVars, FilesInv, FilesTypeOK, JobsPast, IndexTypeOK, Covered,
                          Exists, Due
      <3>3. \A v \in Workers : SoundLoad(v)' /\ Answerable(v)'
        BY <2>1, <2>2, <3>1 DEF filesVars, SoundLoad, Answerable, Outdated, HasJob, Batch,
                                Exists, Due
      <3> QED
        BY <3>2, <3>3
    <2>3. CASE HasJob(w) /\ jobs' = Settled(w, "dead") /\ excuse' = excuse \cup {worker[w].job[1]}
      <3> DEFINE f == worker[w].job[1]
                 s == worker[w].job[2]
      <3>1. f \in Mems /\ s \in Seconds /\ jobs[f][s] # "none"
        BY <2>1, <2>3, LoadType DEF SoundLoad
      <3>2. jobs' = [jobs EXCEPT ![f][s] = "dead"]
        BY <2>3 DEF Settled
      <3> HIDE DEF f, s
      <3>3. excuse \subseteq excuse' /\ f \in excuse'
        BY <2>3 DEF f
      <3> QED
        BY <2>1, <3>1, <3>2, <3>3, IndexClosed
    <2> QED
      BY <1>5, <2>2, <2>3 DEF CommitFails
  <1> QED
    BY <1>2, <1>3, <1>4, <1>5 DEF IndexNext

LEMMA IndexStep == WatchedIndexInv /\ FilesInv /\ [MemoryNext]_memoryVars => WatchedIndexInv'
  <1> SUFFICES ASSUME FilesInv, [MemoryNext]_memoryVars, IndexInv, Watching("index")
               PROVE  IndexInv'
    BY DEF WatchedIndexInv, Watching, MemoryNext, memoryVars
  <1>0. /\ FilesInv' /\ now <= now' /\ now' \in Nat
        /\ editing \in [Editors -> {NoEdit} \cup [stage : {"pre", "written"}, file : Mems]]
    BY FilesStepInv, FilesStepMoves DEF FilesMove, Ticks, FilesInv, FilesTypeOK
  <1>1. CASE UNCHANGED <<filesVars, indexVars>>
    BY <1>0, <1>1, IndexStill DEF filesVars, Due
  <1>2. CASE UNCHANGED filesVars /\ IndexNext
    BY <1>2, IndexMoves
  <1>3. ASSUME NEW s \in Editors, NEW f \in Mems, BeforeTool(s, f) PROVE IndexInv'
    <2>1. UNCHANGED <<text, texts, indexVars>>
      BY <1>3 DEF BeforeTool, ToolPre, StillIndex
    <2>2. \A g \in Mems : Due(g) => Due(g)'
      BY <1>0, <1>3 DEF BeforeTool, ToolPre, Due, NoEdit
    <2> QED
      BY <1>0, <2>1, <2>2, IndexStill
  <1>4. ASSUME NEW s \in Editors, Tool(s) PROVE IndexInv'
    <2>1. PICK f \in Mems : f = editing[s].file /\ editing[s].stage = "pre"
      BY <1>0, <1>4 DEF Tool, ToolWrite, NoEdit
    <2>2. /\ editing' = [editing EXCEPT ![s] = [stage |-> "written", file |-> f]]
          /\ Put(f, now) /\ UNCHANGED now /\ UNCHANGED indexVars
      BY <1>4, <2>1 DEF Tool, ToolWrite, StillIndex
    <2>3. Due(f)'
      BY <1>0, <2>2 DEF Due
    <2>4. \A g \in Mems : Due(g) => Due(g)'
      BY <1>0, <2>1, <2>2 DEF Due
    <2>5. now \in Ticks
      BY DEF FilesInv, FilesTypeOK
    <2> QED
      BY <1>0, <2>2, <2>3, <2>4, <2>5, IndexPut DEF indexVars
  <1>5. ASSUME NEW s \in Editors, AfterTool(s) PROVE IndexInv'
    <2>1. PICK f \in Mems : f = editing[s].file
      BY <1>0, <1>5 DEF AfterTool, ToolPost, NoEdit
    <2>2. /\ editing' = [editing EXCEPT ![s] = NoEdit]
          /\ UNCHANGED <<now, text, texts>>
          /\ EmitReindex(f) \/ NotEmitted(f)
      BY <1>5, <2>1 DEF AfterTool, ToolPost
    <2>3. \A g \in Mems \ {f} : Due(g) => Due(g)'
      BY <1>0, <2>1, <2>2 DEF Due
    <2> QED
      BY <1>0, <2>1, <2>2, <2>3, IndexEmitted, IndexNotEmitted
  <1>6. ASSUME NEW f \in Mems, NEW t \in Ticks, Foreign(f, t) PROVE IndexInv'
    <2>1. /\ Put(f, t) /\ UNCHANGED <<now, editing, row, jobs, worker>>
          /\ excuse' = excuse \cup {f}
      BY <1>6 DEF Foreign, ForeignWrite, NotEmitted
    <2>2. \A g \in Mems : Due(g) => Due(g)'
      BY <2>1 DEF Due
    <2> QED
      BY <1>0, <2>1, <2>2, IndexPut
  <1>7. ASSUME NEW s \in Editors, ToolDeclined(s), StillIndex PROVE IndexInv'
    <2>1. UNCHANGED <<text, texts, indexVars>>
      BY <1>7 DEF ToolDeclined, StillIndex
    <2>2. \A g \in Mems : Due(g) => Due(g)'
      BY <1>0, <1>7 DEF ToolDeclined, Due
    <2> QED
      BY <1>0, <2>1, <2>2, IndexStill
  <1>8. ASSUME NEW f \in Mems, Remove(f), StillIndex PROVE IndexInv'
    BY <1>0, <1>8, IndexRemove DEF StillIndex
  <1>9. CASE Tick /\ StillIndex
    BY <1>0, <1>9, IndexStill DEF Tick, StillIndex, Due
  <1>10. CASE FilesStep
    BY <1>3, <1>4, <1>5, <1>6, <1>7, <1>8, <1>9, <1>10, Zenon DEF FilesStep
  <1>11. FilesStep \/ UNCHANGED <<filesVars, indexVars>> \/ (UNCHANGED filesVars /\ IndexNext)
    BY DEF MemoryNext, memoryVars, StillIndex, Watching
  <1> QED
    BY <1>1, <1>2, <1>10, <1>11

\* Once the work for a memory is done its vector is that of the text on disk, or the
\* loss is excused; whatever drainers, batches and edits overlap, and whatever job a
\* drainer still carries (memory_engine.reindex_embeddings).
THEOREM IndexCatchesUpWithDisk == MemorySpec => []IndexReflectsDisk
  <1>1. MemoryInit => FilesInv /\ WatchedIndexInv
    BY FilesStart DEF MemoryInit, IndexInit, WatchedIndexInv, IndexInv, IndexTypeOK, JobStates,
           JobsPast, SoundLoad, Answerable, Covered, Busy, Resting, FilesInit, Exists
  <1>2. WatchedIndexInv => IndexReflectsDisk
    BY DEF WatchedIndexInv, IndexInv, Covered, Due, IndexReflectsDisk, IndexCatchesUp
  <1> QED
    BY <1>1, <1>2, IndexStep, FilesStepInv, PTL DEF MemorySpec
-----------------------------------------------------------------------------
(* The history of edits. *)

ProvTypeOK ==
    /\ versions \in [Mems -> [Seconds -> Nat]]
    /\ replaced \in [Mems -> SUBSET Nat]
    /\ lost \in [Mems -> SUBSET Nat]

\* Snapshots are of texts that were the file's, and later ones of later texts.
InOrder(f) ==
    /\ \A s \in Named(f) :
          /\ s <= Second(now) /\ versions[f][s] <= texts
          /\ Exists(f) => versions[f][s] <= text[f]
    /\ \A r, s \in Named(f) : r <= s => versions[f][r] <= versions[f][s]

\* v can be found again, or a text older than v in a slot that no snapshot will
\* overwrite any more, or v is a named loss.
Traced(f, v) ==
    \/ v \in History(f)
    \/ v \in lost[f]
    \/ \E s \in Named(f) : s < Second(now) /\ versions[f][s] < v

ProvInv ==
    /\ FilesInv /\ ProvTypeOK
    /\ \A f \in Mems : InOrder(f) /\ \A v \in replaced[f] : Traced(f, v)

\* The files move, the history does not.
LEMMA ProvFiles ==
    ASSUME ProvInv, FilesMove, FilesInv', UNCHANGED provVars
    PROVE  ProvInv'
  <1> USE DEF ProvInv, provVars, Named
  <1>1. ProvTypeOK'
    BY DEF ProvTypeOK
  <1>2. Second(now) <= Second(now') /\ Second(now) \in Nat /\ Second(now') \in Nat
    BY SecondType, FilesAssumption DEF FilesMove, FilesInv, FilesTypeOK, Ticks
  <1>3. \A f \in Mems : Named(f) \subseteq Nat
        /\ \A s \in Named(f) : versions[f][s] \in Nat
    BY SecondsNow DEF ProvTypeOK
  <1>4. \A f \in Mems : \A v : v \in replaced[f] => Traced(f, v)'
    BY <1>2, <1>3 DEF Traced, History
  <1>5. ASSUME NEW f \in Mems PROVE InOrder(f)'
    <2>1. texts \in Nat /\ texts' \in Nat /\ texts <= texts'
      BY FilesAssumption DEF FilesMove, Put, Remove, FilesInv, FilesTypeOK
    <2>2. Exists(f)' => (text'[f] = text[f] /\ Exists(f)) \/ text'[f] = texts + 1
      BY FilesAssumption DEF FilesMove, Put, Remove, FilesInv, FilesTypeOK, Exists
    <2> QED
      BY <1>2, <1>3, <2>1, <2>2 DEF InOrder
  <1> QED
    BY <1>1, <1>4, <1>5

\* The snapshot before a write: its slot is the last, its text the newest.
LEMMA ProvSnapshot ==
    ASSUME ProvInv, FilesInv', NEW f \in Mems, Snapshot(f), UNCHANGED <<now, text, texts>>
    PROVE  ProvInv'
  <1> DEFINE s == Second(now)
             gone == {versions[f][s]} \ {0, text[f]}
  <1> USE DEF ProvInv
  <1>0. /\ s \in Seconds /\ (\A r \in Seconds : r \in Nat)
        /\ text[f] \in Nat /\ texts \in Nat /\ text[f] <= texts
    BY SecondsNow, FilesAssumption DEF FilesInv, FilesTypeOK
  <1>1. CASE ~Exists(f)
    <2>1. UNCHANGED provVars
      BY <1>1 DEF Snapshot, provVars
    <2> QED
      BY <2>1 DEF provVars, ProvTypeOK, InOrder, Traced, Named, History, Exists
  <1>2. CASE Exists(f)
    <2>1. /\ versions' = [versions EXCEPT ![f][s] = text[f]]
          /\ lost' = [lost EXCEPT ![f] = (@ \cup gone) \ {text[f]}]
          /\ UNCHANGED replaced
      BY <1>2 DEF Snapshot
    <2> HIDE DEF s
    <2>2. /\ versions' \in [Mems -> [Seconds -> Nat]]
          /\ versions'[f][s] = text[f]
          /\ \A g \in Mems, r \in Seconds : g # f \/ r # s => versions'[g][r] = versions[g][r]
      BY <1>0, <2>1 DEF ProvTypeOK
    <2>3. /\ lost'[f] = (lost[f] \cup gone) \ {text[f]}
          /\ \A g \in Mems \ {f} : lost'[g] = lost[g]
          /\ lost' \in [Mems -> SUBSET Nat]
      BY <1>0, <2>1 DEF ProvTypeOK
    <2>4. ASSUME NEW g \in Mems \ {f}
          PROVE  InOrder(g)' /\ \A v \in replaced'[g] : Traced(g, v)'
      <3>1. Named(g)' = Named(g)
        BY <2>2 DEF Named
      <3>2. History(g)' = History(g)
        BY <2>2, <3>1 DEF History, Named
      <3> QED
        BY <2>1, <2>2, <2>3, <3>1, <3>2 DEF InOrder, Traced, Named, Exists
    <2>5. Named(f)' = Named(f) \cup {s}
      BY <1>0, <1>2, <2>2 DEF Named, Exists
    <2>6. InOrder(f)'
      <3>1. \A r \in Named(f) : r \in Nat /\ r <= s /\ versions[f][r] \in Nat
                                /\ versions[f][r] <= text[f]
        BY <1>0, <1>2 DEF InOrder, Named, ProvTypeOK, s
      <3>2. \A r \in Named(f)' : r \in Nat /\ r <= s /\ versions'[f][r] \in Nat
                                 /\ versions'[f][r] <= text[f]
        BY <1>0, <2>2, <2>5, <3>1 DEF Named
      <3>3. \A q, r \in Named(f)' : q <= r => versions'[f][q] <= versions'[f][r]
        <4> SUFFICES ASSUME NEW q \in Named(f)', NEW r \in Named(f)', q <= r
                     PROVE  versions'[f][q] <= versions'[f][r]
          OBVIOUS
        <4>1. CASE r = s
          BY <2>2, <3>2, <4>1
        <4>2. CASE r # s
          BY <1>0, <2>2, <2>5, <3>1, <4>2 DEF InOrder, Named
        <4> QED
          BY <4>1, <4>2
      <3> QED
        BY <1>0, <3>2, <3>3 DEF InOrder, s
    <2>7. ASSUME NEW v \in replaced[f] PROVE Traced(f, v)'
      <3>1. text[f] \in History(f)'
        BY <2>2, <2>5 DEF History
      <3>2. CASE v \in History(f)
        <4>1. PICK r \in Named(f) : v = versions[f][r]
          BY <3>2 DEF History
        <4>2. CASE r # s
          BY <2>2, <2>5, <4>1, <4>2 DEF Traced, History, Named
        <4>3. CASE r = s
          BY <2>3, <3>1, <4>1, <4>3 DEF Traced, Named
        <4> QED
          BY <4>2, <4>3
      <3>3. CASE v \in lost[f]
        BY <2>3, <3>1, <3>3 DEF Traced
      <3>4. CASE \E r \in Named(f) : r < s /\ versions[f][r] < v
        <4>1. PICK r \in Named(f) : r < s /\ versions[f][r] < v
          BY <3>4
        <4>2. r # s /\ r \in Seconds
          BY <1>0, <4>1 DEF Named
        <4>3. r \in Named(f)' /\ versions'[f][r] = versions[f][r]
          BY <2>2, <2>5, <4>1, <4>2
        <4> QED
          BY <4>1, <4>3 DEF Traced, s
      <3> QED
        BY <3>2, <3>3, <3>4 DEF Traced, s
    <2> QED
      BY <2>1, <2>2, <2>3, <2>4, <2>6, <2>7 DEF ProvTypeOK
  <1> QED
    BY <1>1, <1>2

\* A hooked write: what it replaces is in the history, or lost.
LEMMA ProvReplaces ==
    ASSUME ProvInv, FilesInv', NEW f \in Mems, Put(f, now), UNCHANGED now, Replaces(f)
    PROVE  ProvInv'
  <1> USE DEF ProvInv
  <1>1. /\ UNCHANGED versions
        /\ replaced'[f] = replaced[f] \cup ({text[f]} \ {0})
        /\ \A g \in Mems \ {f} : replaced'[g] = replaced[g] /\ lost'[g] = lost[g]
        /\ lost[f] \subseteq lost'[f]
        /\ Exists(f) /\ text[f] \notin History(f) => text[f] \in lost'[f]
    BY DEF Replaces, ProvTypeOK
  <1>2. ProvTypeOK'
    BY FilesAssumption DEF Replaces, ProvTypeOK, FilesInv, FilesTypeOK
  <1>3. /\ text'[f] = texts + 1 /\ texts' = texts + 1 /\ texts \in Nat
        /\ \A g \in Mems \ {f} : text'[g] = text[g]
    BY FilesAssumption DEF Put, FilesInv, FilesTypeOK
  <1>4. ASSUME NEW g \in Mems PROVE InOrder(g)'
    <2>1. \A s \in Named(g) : versions[g][s] \in Nat
      BY DEF Named, ProvTypeOK
    <2> QED
      BY <1>1, <1>3, <2>1 DEF InOrder, Named, Exists
  <1>5. ASSUME NEW g \in Mems, NEW v \in replaced'[g] PROVE Traced(g, v)'
    <2>1. History(g)' = History(g) /\ Named(g)' = Named(g)
      BY <1>1 DEF History, Named
    <2>2. CASE v \in replaced[g]
      BY <1>1, <2>1, <2>2 DEF Traced
    <2>3. CASE v \notin replaced[g]
      <3>1. g = f /\ v = text[f] /\ Exists(f)
        BY <1>1, <1>5, <2>3 DEF Exists
      <3> QED
        BY <1>1, <2>1, <3>1 DEF Traced
    <2> QED
      BY <2>2, <2>3
  <1> QED
    BY <1>2, <1>4, <1>5

\* Pruning keeps the first snapshot, hence something older than all it removes.
LEMMA ProvPrune ==
    ASSUME ProvInv, UNCHANGED filesVars, NEW f \in Mems, Prune(f)
    PROVE  ProvInv'
  <1> DEFINE root == Oldest(f)
  <1> USE DEF ProvInv, filesVars
  <1>0. /\ Named(f) \in SUBSET Nat /\ Named(f) # {} /\ Named(f) \subseteq Seconds
        /\ \A s \in Named(f) : versions[f][s] \in Nat
        /\ Second(now) \in Nat
    BY SecondsNow, SecondType DEF Prune, Named, ProvTypeOK
  <1>1. root \in Named(f) /\ \A s \in Named(f) : root <= s
    BY <1>0, Smallest DEF Oldest
  <1> HIDE DEF root
  <1>2. /\ versions' = [versions EXCEPT ![f] =
               [s \in Seconds |-> IF s + KeepSeconds < Second(now) /\ s # root
                                  THEN 0 ELSE versions[f][s]]]
        /\ UNCHANGED <<replaced, lost>>
    BY DEF Prune, PruneKeeps, root, ProvTypeOK
  <1>3. /\ versions' \in [Mems -> [Seconds -> Nat]]
        /\ \A g \in Mems \ {f} : versions'[g] = versions[g]
        /\ \A s \in Seconds : versions'[f][s] =
               IF s + KeepSeconds < Second(now) /\ s # root THEN 0 ELSE versions[f][s]
    BY <1>2 DEF ProvTypeOK
  <1>4. FilesInv' /\ ProvTypeOK'
    BY <1>2, <1>3 DEF FilesInv, FilesTypeOK, ProvTypeOK
  <1>5. ASSUME NEW g \in Mems \ {f}
        PROVE  InOrder(g)' /\ \A v \in replaced'[g] : Traced(g, v)'
    BY <1>2, <1>3 DEF InOrder, Traced, Named, History, Exists
  <1>6. \A s \in Named(f)' : s \in Named(f) /\ versions'[f][s] = versions[f][s]
    BY <1>3 DEF Named
  <1>7. InOrder(f)'
    BY <1>6 DEF InOrder, Exists
  <1>8. root \in Named(f)' /\ versions'[f][root] = versions[f][root]
    BY <1>0, <1>1, <1>3 DEF Named
  <1>9. ASSUME NEW v \in replaced[f] PROVE Traced(f, v)'
    <2>0. v \in Nat
      BY DEF ProvTypeOK
    <2>1. CASE v \in lost[f]
      BY <1>2, <2>1 DEF Traced
    <2>2. CASE v \in History(f)
      <3>1. PICK s \in Named(f) : v = versions[f][s]
        BY <2>2 DEF History
      <3>2. CASE s \in Named(f)'
        BY <1>6, <3>1, <3>2 DEF Traced, History
      <3>3. CASE s \notin Named(f)'
        <4>1. s + KeepSeconds < Second(now) /\ s # root
          BY <1>0, <1>3, <3>1, <3>3 DEF Named
        <4>2. root < Second(now) /\ versions[f][root] <= v
          BY <1>0, <1>1, <3>1, <4>1, ProvAssumption DEF InOrder
        <4>3. versions'[f][root] = v \/ versions'[f][root] < v
          BY <1>0, <1>1, <1>8, <2>0, <4>2
        <4> QED
          BY <1>8, <4>2, <4>3 DEF Traced, History
      <3> QED
        BY <3>2, <3>3
    <2>3. ASSUME NEW s \in Named(f), s < Second(now), versions[f][s] < v
          PROVE  Traced(f, v)'
      <3>1. root < Second(now) /\ versions[f][root] < v
        BY <1>0, <1>1, <2>0, <2>3 DEF InOrder
      <3> QED
        BY <1>8, <3>1 DEF Traced
    <2> QED
      BY <2>1, <2>2, <2>3 DEF Traced
  <1> QED
    BY <1>2, <1>4, <1>5, <1>7, <1>9

LEMMA ProvStep == ProvInv /\ [MemoryNext]_memoryVars => ProvInv'
  <1> SUFFICES ASSUME ProvInv, [MemoryNext]_memoryVars PROVE ProvInv'
    OBVIOUS
  <1>0. FilesMove /\ FilesInv'
    BY FilesStepMoves, FilesStepInv DEF ProvInv
  <1>1. CASE UNCHANGED provVars
    BY <1>0, <1>1, ProvFiles
  <1>2. ASSUME NEW s \in Editors, NEW f \in Mems, BeforeTool(s, f) PROVE ProvInv'
    BY <1>0, <1>1, <1>2, ProvSnapshot DEF BeforeTool, ToolPre, StillProv
  <1>3. ASSUME NEW s \in Editors, Tool(s), Replaces(editing[s].file) PROVE ProvInv'
    <2>1. editing[s].file \in Mems /\ Put(editing[s].file, now) /\ UNCHANGED now
      BY <1>3 DEF Tool, ToolWrite, NoEdit, ProvInv, FilesInv, FilesTypeOK
    <2> QED
      BY <1>0, <1>3, <2>1, ProvReplaces
  <1>4. ASSUME NEW f \in Mems, Prune(f), UNCHANGED filesVars PROVE ProvInv'
    BY <1>4, ProvPrune
  <1>5. \/ UNCHANGED provVars
        \/ \E s \in Editors, f \in Mems : BeforeTool(s, f)
        \/ \E s \in Editors : Tool(s) /\ Replaces(editing[s].file)
        \/ \E f \in Mems : Prune(f) /\ UNCHANGED filesVars
    BY DEF MemoryNext, FilesStep, Tool, AfterTool, Foreign, StillProv, memoryVars
  <1> QED
    BY <1>1, <1>2, <1>3, <1>4, <1>5

\* Whatever a hooked edit replaced is in the history, or something older is, or it is
\* one of the two named losses (provenance.snapshot, prune).
THEOREM EditsAreTraced == MemorySpec => []HistoryKeepsReplaced
  <1>1. MemoryInit => ProvInv
    BY FilesStart DEF MemoryInit, ProvInit, ProvInv, ProvTypeOK, InOrder, Named
  <1>2. ProvInv => HistoryKeepsReplaced
    BY DEF ProvInv, Traced, HistoryKeepsReplaced, History
  <1> QED
    BY <1>1, <1>2, ProvStep, PTL DEF MemorySpec
=============================================================================
