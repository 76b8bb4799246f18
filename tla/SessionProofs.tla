--------------------------- MODULE SessionProofs ---------------------------
(***************************************************************************)
(* What becomes of a session: its row and its summary, the log it writes,  *)
(* the draft of its end, the digest of its week.  For any number of        *)
(* windows, sessions, lines and weeks.                                     *)
(***************************************************************************)
EXTENDS ObserverSessions, SessionEnd, Digests, FiniteSetTheorems, WellFoundedInduction, TLAPS

-----------------------------------------------------------------------------
(* The observer's rows. *)

RowsType ==
    /\ row \in [Sessions -> {"none", "active", "ended", "abandoned"}]
    /\ obs \in [Sessions -> Nat] /\ summary \in [Sessions -> Nat]
    /\ window \in [Sessions -> {"closed", "name", "enrol", "live"}]
    /\ digest \in [Sessions -> SUBSET Nat]
    /\ idFile \in Sessions \cup {"none"}

\* What a summariser has read is enough for a summary, and is all there is unless
\* an observation came in since.
DigestsCount ==
    \A s \in Sessions : \A n \in digest[s] : n >= MinObs /\ (n = obs[s] \/ s \in late)

RowsInv == RowsType /\ DigestsCount /\ RowsTellTheTruth

LEMMA RowsStep == RowsInv /\ [SessionsNext]_sessionVars => RowsInv'
  <1> SUFFICES ASSUME RowsInv, [SessionsNext]_sessionVars PROVE RowsInv'
    OBVIOUS
  <1> USE SessionsAssumption DEF RowsInv, RowsType, DigestsCount, RowsTellTheTruth, WindowTo, Close
  <1>1. CASE UNCHANGED sessionVars
    BY <1>1 DEF sessionVars
  <1>2. ASSUME NEW s \in Sessions, SweepOrphans(s) PROVE RowsInv'
    BY <1>2 DEF SweepOrphans
  <1>3. ASSUME NEW s \in Sessions, NameSession(s) PROVE RowsInv'
    BY <1>3 DEF NameSession
  <1>4. ASSUME NEW s \in Sessions, EnrolSession(s) PROVE RowsInv'
    BY <1>4 DEF EnrolSession, Revived
  <1>5. ASSUME NEW s \in Sessions, CaptureFor(s) PROVE RowsInv'
    BY <1>5 DEF CaptureFor
  <1>6. ASSUME NEW s \in Sessions, EndSession(s) PROVE RowsInv'
    BY <1>6 DEF EndSession, ReadSession
  <1>7. ASSUME NEW s \in Sessions, SummariseNow(s) PROVE RowsInv'
    BY <1>7 DEF SummariseNow, ReadSession
  <1>8. ASSUME NEW s \in Sessions, WriteSummary(s) PROVE RowsInv'
    BY <1>8 DEF WriteSummary
  <1>9. ASSUME NEW s \in Sessions, WindowKilled(s) \/ SummariserKilled(s) PROVE RowsInv'
    BY <1>9 DEF WindowKilled, SummariserKilled
  <1>10. ASSUME NEW s \in Sessions, PickToCompress(s) \/ Compressed(s) PROVE RowsInv'
    BY <1>10 DEF PickToCompress, Compressed
  <1>11. ASSUME NEW s \in Sessions, GiveUp(s) PROVE RowsInv'
    BY <1>11 DEF GiveUp
  <1> QED
    BY <1>1, <1>2, <1>3, <1>4, <1>5, <1>6, <1>7, <1>8, <1>9, <1>10, <1>11 DEF SessionsNext, Capture

\* A live session has an active row, and an ended one a summary of what was seen,
\* but for the interleavings the rows are excused for (observer_session_start,
\* observation_capture, session_summarize, compress_sessions).
THEOREM RowsAreTruthful == SessionsSpec => []RowsTellTheTruth
  <1>1. SessionsInit => RowsInv
    BY DEF SessionsInit, RowsInv, RowsType, DigestsCount, RowsTellTheTruth
  <1>2. RowsInv => RowsTellTheTruth
    BY DEF RowsInv
  <1> QED
    BY <1>1, <1>2, RowsStep, PTL DEF SessionsSpec
-----------------------------------------------------------------------------
(* The log and the drafts. *)

Lines == LogWindows \X Nat
LinesOf(w) == {l \in written : l[1] = w}
NextSteps == {"append", "over", "draft"}

HookStates ==
    [stage : {"idle", "over", "header", "append", "flag"}]
    \cup [stage : {"dest"}, then : NextSteps, text : SUBSET Lines, had : SUBSET Lines]
    \cup [stage : {"rename"}, then : NextSteps, text : SUBSET Lines, had : SUBSET Lines,
          dest : Nat \X Nat, free : {TRUE}]
    \cup [stage : {"draft"}, text : SUBSET Lines]

EndType ==
    /\ hook \in [LogWindows -> HookStates]
    /\ archive \in [DOMAIN archive -> [lines : SUBSET Lines, told : BOOLEAN]]
    /\ IsFiniteSet(DOMAIN archive)
    /\ drafts \in [DOMAIN drafts -> SUBSET Lines]
    /\ minute \in Nat

\* The lines of a window are numbered: the next is none of those before.
Numbered ==
    /\ IsFiniteSet(written) /\ written \subseteq Lines /\ LogLines \subseteq written
    /\ \A l \in written : l[2] < Cardinality(LinesOf(l[1]))

\* What a significant session's hook has read is all of the log that was there.
ReadsTheLog ==
    \A w \in LogWindows :
        hook[w].stage \in {"dest", "rename"} /\ hook[w].then = "draft" =>
            hook[w].had \subseteq written /\ LogLines \cap hook[w].had \subseteq hook[w].text

Kept(l) == l \in LogLines \cup lostLines \/ \E a \in DOMAIN archive : l \in archive[a].lines
Told(l) ==
    \/ l \in untold
    \/ \E m \in DOMAIN drafts : l \in drafts[m]
    \/ \E w \in LogWindows : hook[w].stage = "draft" /\ l \in hook[w].text

AllKept == \A l \in written : Kept(l)
AllTold == \A a \in DOMAIN archive : archive[a].told => \A l \in archive[a].lines : Told(l)

EndInv == EndType /\ Numbered /\ ReadsTheLog /\ AllKept /\ AllTold

LEMMA LogBecomes ==
    ASSUME NEW lines, LogIs(lines) PROVE LogLines' = lines
  BY DEF LogIs, LogLines

LEMMA LogGone == log' = {} => LogLines' = {}
  BY DEF LogLines

\* A window's next line is new, and the lines stay numbered.
LEMMA LineIsNew ==
    ASSUME Numbered, NEW w \in LogWindows
    PROVE  /\ <<w, Cardinality(LinesOf(w))>> \in Lines \ written
           /\ LogIs(LogLines \cup {<<w, Cardinality(LinesOf(w))>>})
              /\ written' = written \cup {<<w, Cardinality(LinesOf(w))>>} => Numbered'
  <1>1. \A v : IsFiniteSet(LinesOf(v)) /\ Cardinality(LinesOf(v)) \in Nat
    BY FS_Subset, FS_CardinalityType DEF Numbered, LinesOf
  <1> DEFINE line == <<w, Cardinality(LinesOf(w))>>
  <1>2. line \in Lines \ written
    BY <1>1 DEF Numbered, Lines
  <1>3. ASSUME LogIs(LogLines \cup {line}), written' = written \cup {line} PROVE Numbered'
    <2>1. LogLines' = LogLines \cup {line}
      BY <1>3, LogBecomes
    <2>2. LinesOf(w)' = LinesOf(w) \cup {line}
      BY <1>3 DEF LinesOf
    <2>3. Cardinality(LinesOf(w)') = Cardinality(LinesOf(w)) + 1
      <3>1. line \notin LinesOf(w)
        BY <1>2 DEF LinesOf
      <3> QED
        BY <2>2, <3>1, <1>1, FS_AddElement
    <2>4. \A v : v # w => LinesOf(v)' = LinesOf(v)
      BY <1>3 DEF LinesOf
    <2>5. IsFiniteSet(written')
      BY <1>3, FS_AddElement DEF Numbered
    <2>6. \A l \in written' : l[2] < Cardinality(LinesOf(l[1])')
      <3> SUFFICES ASSUME NEW l \in written' PROVE l[2] < Cardinality(LinesOf(l[1])')
        OBVIOUS
      <3>1. CASE l = line
        BY <3>1, <2>3, <1>1
      <3>2. CASE l \in written /\ l[1] = w
        BY <3>2, <2>3, <1>1 DEF Numbered, Lines
      <3>3. CASE l \in written /\ l[1] # w
        BY <3>3, <2>4 DEF Numbered
      <3> QED
        BY <1>3, <3>1, <3>2, <3>3
    <2> QED
      BY <1>2, <1>3, <2>1, <2>5, <2>6 DEF Numbered
  <1> QED
    BY <1>2, <1>3

LEMMA LeastOf ==
    ASSUME NEW S \in SUBSET Nat, S # {}
    PROVE  \E x \in S : \A y \in S : x <= y
  <1> DEFINE R == OpToRel(<, Nat)
  <1>1. \A x, y \in Nat : x < y => <<x, y>> \in R
    BY DEF OpToRel
  <1>2. IsWellFoundedOn(R, Nat)
    BY NatLessThanWellFounded
  <1> HIDE DEF R
  <1>3. PICK x \in S : \A y \in S : ~(<<y, x>> \in R)
    BY <1>2, WFMin
  <1>4. \A y \in S : ~(y < x)
    BY <1>1, <1>3
  <1> QED
    BY <1>4

\* archive() finds a free name, however many the minute has seen.
LEMMA SuffixIsFree ==
    ASSUME NEW m \in Nat, IsFiniteSet(DOMAIN archive)
    PROVE  FreeSuffix(m) \in Nat /\ <<m, FreeSuffix(m)>> \notin DOMAIN archive
  <1> DEFINE n == Cardinality(DOMAIN archive)
             taken(k) == <<m, k>> \in DOMAIN archive
             free == {k \in 0..n : ~taken(k)}
  <1>1. n \in Nat
    BY FS_CardinalityType
  <1>2. free # {}
    <2> SUFFICES ASSUME free = {} PROVE FALSE
      OBVIOUS
    <2> DEFINE name == [k \in 0..n |-> <<m, k>>]
    <2>1. name \in Injection(0..n, DOMAIN archive)
      BY DEF Injection, IsInjective
    <2>2. Cardinality(0..n) = n + 1
      BY <1>1, FS_Interval
    <2>3. Cardinality(0..n) <= n
      <3> HIDE DEF name
      <3> QED
        BY <2>1, FS_Injection
    <2> HIDE DEF n
    <2> QED
      BY <2>2, <2>3, <1>1
  <1>3. PICK k \in free : \A j \in free : k <= j
    <2>1. free \in SUBSET Nat
      BY <1>1
    <2> HIDE DEF free
    <2> QED
      BY <1>2, <2>1, LeastOf
  <1>4. k \in 0..n /\ ~taken(k) /\ \A j \in 0..(k - 1) : taken(j)
    BY <1>1, <1>3
  <1> QED
    BY <1>1, <1>4 DEF FreeSuffix

LEMMA StatesOfHooks ==
    /\ \A st \in {"idle", "over", "header", "append", "flag"} : [stage |-> st] \in HookStates
    /\ \A nx \in NextSteps, x, y \in SUBSET Lines :
          [stage |-> "dest", then |-> nx, text |-> x, had |-> y] \in HookStates
    /\ \A nx \in NextSteps, x, y \in SUBSET Lines, d \in Nat \X Nat :
          [stage |-> "rename", then |-> nx, text |-> x, had |-> y, dest |-> d, free |-> TRUE]
              \in HookStates
    /\ \A x \in SUBSET Lines : [stage |-> "draft", text |-> x] \in HookStates
  BY DEF HookStates

LEMMA AfterMoves ==
    ASSUME NEW h \in HookStates, h.stage \in {"dest", "rename"}
    PROVE  /\ After(h) \in HookStates /\ After(h).stage \notin {"dest", "rename"}
           /\ After(h).stage = "draft" <=> h.then = "draft"
           /\ h.then = "draft" => After(h).text = h.text
  <1>1. h.then \in NextSteps /\ h.text \in SUBSET Lines
    BY DEF HookStates
  <1>2. CASE h.then = "draft"
    BY <1>1, <1>2, StatesOfHooks DEF After
  <1>3. CASE h.then = "append"
    BY <1>3, StatesOfHooks DEF After
  <1>4. CASE h.then = "over"
    BY <1>4, StatesOfHooks DEF After, Over
  <1> QED
    BY <1>1, <1>2, <1>3, <1>4 DEF NextSteps

\* A hook that goes on to its next stage touches no file; only one that holds a
\* draft must leave word of it.
LEMMA HookMoves ==
    ASSUME EndInv, NEW w \in LogWindows, NEW h \in HookStates, hook' = [hook EXCEPT ![w] = h],
           LogLines' = LogLines, UNCHANGED <<archive, drafts, minute, written, lostLines>>,
           untold \subseteq untold',
           hook[w].stage = "draft" => hook[w].text \subseteq untold',
           h.stage \in {"dest", "rename"} /\ h.then = "draft" =>
               h.had \subseteq written /\ LogLines \cap h.had \subseteq h.text
    PROVE  EndInv'
  <1>1. \A v : LinesOf(v)' = LinesOf(v)
    BY DEF LinesOf
  <1>2. EndType'
    BY DEF EndInv, EndType
  <1>3. Numbered'
    BY <1>1 DEF EndInv, Numbered
  <1>4. ReadsTheLog'
    BY <1>1 DEF EndInv, EndType, ReadsTheLog
  <1>5. AllKept'
    BY <1>1 DEF EndInv, AllKept, Kept
  <1>6. \A l : Told(l) => Told(l)'
    BY DEF EndInv, EndType, Told
  <1>7. AllTold'
    BY <1>6 DEF EndInv, AllTold
  <1> QED
    BY <1>2, <1>3, <1>4, <1>5, <1>7 DEF EndInv

LEMMA EndStep == EndInv /\ [EndNext]_endVars => EndInv'
  <1> SUFFICES ASSUME EndInv, [EndNext]_endVars PROVE EndInv'
    OBVIOUS
  <1> USE DEF HookTo, LogFiles, Epilogues, Histories
  <1>1. CASE UNCHANGED <<log, archive, drafts, hook, written, lostLines, untold>> /\ minute' \in Nat
    <2>1. LogLines' = LogLines /\ \A v : LinesOf(v)' = LinesOf(v)
      BY <1>1 DEF LogLines, LinesOf
    <2>2. \A l : Told(l)' = Told(l) /\ Kept(l)' = Kept(l)
      BY <1>1, <2>1 DEF Told, Kept
    <2> QED
      BY <1>1, <2>1, <2>2 DEF EndInv, EndType, Numbered, ReadsTheLog, AllKept, AllTold
  <1>2. ASSUME NEW w \in LogWindows, BeginAppend(w) PROVE EndInv'
    <2>1. PICK h \in HookStates : hook' = [hook EXCEPT ![w] = h]
                                  /\ ~(h.stage \in {"dest", "rename"} /\ h.then = "draft")
      <3>1. CASE hook' = [hook EXCEPT ![w] = [stage |-> "header"]]
        BY <3>1, StatesOfHooks
      <3>2. CASE hook' = [hook EXCEPT ![w] = [stage |-> "append"]]
        BY <3>2, StatesOfHooks
      <3>3. CASE hook' = [hook EXCEPT ![w] = [stage |-> "dest", then |-> "append",
                                              text |-> {}, had |-> {}]]
        <4>1. [stage |-> "dest", then |-> "append", text |-> {}, had |-> {}] \in HookStates
          BY StatesOfHooks DEF NextSteps
        <4> QED
          BY <3>3, <4>1
      <3> QED
        BY <1>2, <3>1, <3>2, <3>3 DEF BeginAppend
    <2>2. hook[w].stage # "draft"
      BY <1>2 DEF BeginAppend, NoHook
    <2> QED
      BY <1>2, <2>1, <2>2, HookMoves DEF LogLines, BeginAppend
  <1>3. ASSUME NEW w \in LogWindows, WriteHeader(w) PROVE EndInv'
    <2>1. LogLines' = {} /\ \A v : LinesOf(v)' = LinesOf(v)
      BY <1>3, LogBecomes DEF WriteHeader, LinesOf
    <2>2. hook' = [hook EXCEPT ![w] = [stage |-> "append"]] /\ hook[w].stage # "draft"
      BY <1>3 DEF WriteHeader
    <2>3. EndType'
      BY <1>3, <2>2, StatesOfHooks DEF WriteHeader, EndInv, EndType
    <2>4. Numbered' /\ ReadsTheLog'
      BY <1>3, <2>1, <2>2 DEF WriteHeader, EndInv, EndType, Numbered, ReadsTheLog
    <2>5. AllKept'
      BY <1>3, <2>1 DEF WriteHeader, EndInv, AllKept, Kept
    <2>6. \A l : Told(l) => Told(l)'
      BY <1>3, <2>2 DEF WriteHeader, EndInv, EndType, Told
    <2> QED
      BY <1>3, <2>3, <2>4, <2>5, <2>6 DEF WriteHeader, EndInv, AllTold
  <1>4. ASSUME NEW w \in LogWindows, AppendLine(w) PROVE EndInv'
    <2> DEFINE line == <<w, Cardinality(LinesOf(w))>>
    <2>1. line \in Lines \ written /\ Numbered'
      BY <1>4, LineIsNew DEF AppendLine, EndInv, LinesOf
    <2>2. LogLines' = LogLines \cup {line} /\ written' = written \cup {line}
      BY <1>4, LogBecomes DEF AppendLine, LinesOf
    <2> HIDE DEF line
    <2>3. hook' = [hook EXCEPT ![w] = [stage |-> "idle"]] /\ hook[w].stage # "draft"
      BY <1>4 DEF AppendLine, NoHook
    <2>4. EndType'
      BY <1>4, <2>3, StatesOfHooks DEF AppendLine, EndInv, EndType
    <2>5. ReadsTheLog'
      BY <2>1, <2>2, <2>3 DEF EndInv, EndType, ReadsTheLog
    <2>6. AllKept'
      BY <1>4, <2>2 DEF AppendLine, EndInv, AllKept, Kept
    <2>7. \A l : Told(l) => Told(l)'
      BY <1>4, <2>3 DEF AppendLine, EndInv, EndType, Told
    <2> QED
      BY <1>4, <2>1, <2>4, <2>5, <2>6, <2>7 DEF AppendLine, EndInv, AllTold
  <1>5. ASSUME NEW w \in LogWindows, ChooseArchive(w) PROVE EndInv'
    <2>1. hook[w].stage = "dest" /\ hook[w].then \in NextSteps
          /\ hook[w].text \in SUBSET Lines /\ hook[w].had \in SUBSET Lines
      BY <1>5 DEF ChooseArchive, EndInv, EndType, HookStates
    <2>2. CASE log = {}
      <3>1. hook' = [hook EXCEPT ![w] = After(hook[w])] /\ hook[w] \in HookStates
        BY <1>5, <2>2 DEF ChooseArchive, EndInv, EndType
      <3> QED
        BY <1>5, <2>1, <3>1, AfterMoves, HookMoves DEF LogLines, ChooseArchive
    <2>3. CASE log # {}
      <3> DEFINE h == [stage |-> "rename", then |-> hook[w].then,
                       text |-> hook[w].text, had |-> hook[w].had,
                       dest |-> <<minute, FreeSuffix(minute)>>, free |-> TRUE]
      <3>1. h \in HookStates
        BY <2>1, SuffixIsFree, StatesOfHooks DEF EndInv, EndType
      <3>2. (<<minute, FreeSuffix(minute)>> \notin DOMAIN archive) = TRUE
        BY SuffixIsFree DEF EndInv, EndType
      <3>3. hook' = [hook EXCEPT ![w] = h]
        BY <1>5, <2>3, <3>2 DEF ChooseArchive
      <3>4. h.then = "draft" => h.had \subseteq written /\ LogLines \cap h.had \subseteq h.text
        BY <2>1 DEF EndInv, ReadsTheLog
      <3> HIDE DEF h
      <3> QED
        BY <1>5, <2>1, <3>1, <3>3, <3>4, HookMoves DEF LogLines, ChooseArchive
    <2> QED
      BY <2>2, <2>3
  <1>6. ASSUME NEW w \in LogWindows, RenameLog(w) PROVE EndInv'
    <2>1. /\ hook[w] \in HookStates /\ hook[w].stage = "rename" /\ hook[w].free
          /\ hook[w].then \in NextSteps /\ hook[w].dest \in Nat \X Nat
          /\ hook[w].text \in SUBSET Lines /\ hook[w].had \in SUBSET Lines
      BY <1>6 DEF RenameLog, EndInv, EndType, HookStates
    <2>2. hook' = [hook EXCEPT ![w] = After(hook[w])]
      BY <1>6 DEF RenameLog
    <2>3. UNCHANGED <<drafts, minute, written>>
      BY <1>6 DEF RenameLog
    <2>4. CASE LogLines' = LogLines /\ UNCHANGED <<archive, lostLines, untold>>
      BY <2>1, <2>2, <2>3, <2>4, AfterMoves, HookMoves
    <2>5. ASSUME archive' = Stored(archive, hook[w].dest,
                                   [lines |-> LogLines, told |-> hook[w].then = "draft"]),
                 log' = {},
                 lostLines' = IF hook[w].dest \in DOMAIN archive /\ hook[w].free
                              THEN lostLines \cup archive[hook[w].dest].lines ELSE lostLines,
                 untold' = IF hook[w].then = "draft"
                           THEN untold \cup (LogLines \ hook[w].had) ELSE untold
          PROVE  EndInv'
      <3> DEFINE d == hook[w].dest
      <3>1. LogLines' = {} /\ \A v : LinesOf(v)' = LinesOf(v)
        BY <2>3, <2>5, LogGone DEF LinesOf
      <3>2. /\ DOMAIN archive' = DOMAIN archive \cup {d}
            /\ archive'[d] = [lines |-> LogLines, told |-> hook[w].then = "draft"]
            /\ \A a \in DOMAIN archive : a # d => archive'[a] = archive[a]
            /\ archive' = [a \in DOMAIN archive' |-> archive'[a]]
        BY <2>5 DEF Stored
      <3> HIDE DEF d
      <3>3. EndType'
        <4>1. IsFiniteSet(DOMAIN archive')
          BY <3>2, FS_AddElement DEF EndInv, EndType
        <4>2. [lines |-> LogLines, told |-> hook[w].then = "draft"]
              \in [lines : SUBSET Lines, told : BOOLEAN]
          BY DEF EndInv, Numbered
        <4>3. archive' \in [DOMAIN archive' -> [lines : SUBSET Lines, told : BOOLEAN]]
          BY <3>2, <4>2 DEF EndInv, EndType
        <4> QED
          BY <2>1, <2>2, <2>3, <4>1, <4>3, AfterMoves DEF EndInv, EndType
      <3>4. Numbered'
        BY <2>3, <3>1 DEF EndInv, Numbered
      <3>5. ReadsTheLog'
        BY <2>1, <2>2, <2>3, <3>1, AfterMoves DEF EndInv, EndType, ReadsTheLog
      <3>6. AllKept'
        <4> SUFFICES ASSUME NEW l \in written, Kept(l) PROVE Kept(l)'
          BY <2>3 DEF EndInv, AllKept
        <4>1. CASE l \in LogLines
          BY <3>2, <4>1 DEF Kept
        <4>2. CASE l \in lostLines
          BY <2>5, <4>2 DEF Kept
        <4>3. ASSUME NEW a \in DOMAIN archive, l \in archive[a].lines PROVE Kept(l)'
          BY <2>1, <2>5, <3>2, <4>3 DEF Kept, d
        <4> QED
          BY <4>1, <4>2, <4>3 DEF Kept
      <3>7. \A l : Told(l) => Told(l)'
        BY <2>1, <2>2, <2>3, <2>5 DEF Told, EndInv, EndType
      <3>8. ASSUME hook[w].then = "draft", NEW l \in LogLines PROVE Told(l)'
        <4>1. CASE l \in hook[w].had
          <5>1. l \in hook[w].text
            BY <2>1, <3>8, <4>1 DEF EndInv, ReadsTheLog
          <5>2. hook'[w] = After(hook[w])
            BY <2>2 DEF EndInv, EndType
          <5> QED
            BY <2>1, <3>8, <5>1, <5>2, AfterMoves DEF Told
        <4>2. CASE l \notin hook[w].had
          BY <2>5, <3>8, <4>2 DEF Told
        <4> QED
          BY <4>1, <4>2
      <3>9. AllTold'
        <4> SUFFICES ASSUME NEW a \in DOMAIN archive', archive'[a].told, NEW l \in archive'[a].lines
                     PROVE  Told(l)'
          BY DEF AllTold
        <4>1. CASE a = d
          <5>1. archive'[d].lines = LogLines /\ archive'[d].told = (hook[w].then = "draft")
            BY <3>2
          <5> QED
            BY <3>8, <4>1, <5>1
        <4>2. CASE a # d
          BY <3>2, <3>7, <4>2 DEF EndInv, AllTold
        <4> QED
          BY <4>1, <4>2
      <3> QED
        BY <3>3, <3>4, <3>5, <3>6, <3>9 DEF EndInv
    <2>6. LogIs(LogLines) => LogLines' = LogLines
      BY LogBecomes
    <2> QED
      BY <1>6, <2>4, <2>5, <2>6 DEF RenameLog, LogLines
  <1>7. ASSUME NEW w \in LogWindows, BeginEnd(w) PROVE EndInv'
    <2>1. hook[w].stage = "idle"
      BY <1>7 DEF BeginEnd, NoHook
    <2>2. CASE hook' = [hook EXCEPT ![w] = [stage |-> "dest", then |-> "over",
                                            text |-> {}, had |-> {}]]
      BY <1>7, <2>1, <2>2, StatesOfHooks, HookMoves DEF LogLines, BeginEnd, NextSteps
    <2>3. CASE hook' = [hook EXCEPT ![w] = [stage |-> "dest", then |-> "draft",
                                            text |-> LogLines, had |-> written]]
      <3>1. LogLines \in SUBSET Lines /\ written \in SUBSET Lines
        BY DEF EndInv, Numbered
      <3> QED
        BY <1>7, <2>1, <2>3, <3>1, StatesOfHooks, HookMoves DEF LogLines, BeginEnd, NextSteps
    <2> QED
      BY <1>7, <2>2, <2>3 DEF BeginEnd, ReadActive
  <1>8. ASSUME NEW w \in LogWindows, WriteSessionDraft(w) PROVE EndInv'
    <2>1. LogLines' = LogLines /\ (\A v : LinesOf(v)' = LinesOf(v))
          /\ hook[w].stage = "draft" /\ hook[w].text \in SUBSET Lines
      BY <1>8 DEF WriteSessionDraft, LogLines, LinesOf, EndInv, EndType, HookStates
    <2>2. hook' = [hook EXCEPT ![w] = [stage |-> "flag"]]
      BY <1>8 DEF WriteSessionDraft
    <2>3. /\ DOMAIN drafts' = DOMAIN drafts \cup {minute}
          /\ drafts'[minute] = hook[w].text
          /\ \A m \in DOMAIN drafts : m # minute => drafts'[m] = drafts[m]
          /\ drafts' = [m \in DOMAIN drafts' |-> drafts'[m]]
      BY <1>8 DEF WriteSessionDraft, Stored
    <2>4. EndType'
      <3>1. drafts' \in [DOMAIN drafts' -> SUBSET Lines]
        BY <2>1, <2>3 DEF EndInv, EndType
      <3> QED
        BY <1>8, <2>2, <3>1, StatesOfHooks DEF WriteSessionDraft, EndInv, EndType
    <2>5. Numbered' /\ ReadsTheLog'
      BY <1>8, <2>1, <2>2 DEF WriteSessionDraft, EndInv, EndType, Numbered, ReadsTheLog
    <2>6. AllKept'
      BY <1>8, <2>1 DEF WriteSessionDraft, EndInv, AllKept, Kept
    <2>7. ASSUME NEW l, Told(l) PROVE Told(l)'
      <3>1. untold \subseteq untold'
        BY <1>8 DEF WriteSessionDraft
      <3>2. CASE l \in untold
        BY <3>1, <3>2 DEF Told
      <3>3. ASSUME NEW m \in DOMAIN drafts, l \in drafts[m] PROVE Told(l)'
        <4>1. CASE m = minute /\ l \notin hook[w].text
          BY <1>8, <3>3, <4>1 DEF WriteSessionDraft, Told
        <4>2. CASE m # minute \/ l \in hook[w].text
          BY <2>3, <3>3, <4>2 DEF Told
        <4> QED
          BY <4>1, <4>2
      <3>4. ASSUME NEW v \in LogWindows, hook[v].stage = "draft", l \in hook[v].text
            PROVE  Told(l)'
        <4>1. CASE v = w
          BY <2>3, <3>4, <4>1 DEF Told
        <4>2. CASE v # w
          BY <2>2, <3>4, <4>2 DEF Told, EndInv, EndType
        <4> QED
          BY <4>1, <4>2
      <3> QED
        BY <2>7, <3>2, <3>3, <3>4 DEF Told
    <2> QED
      BY <1>8, <2>4, <2>5, <2>6, <2>7 DEF WriteSessionDraft, EndInv, AllTold
  <1>9. ASSUME NEW w \in LogWindows, DropFlag(w) PROVE EndInv'
    <2>1. hook' = [hook EXCEPT ![w] = Over] /\ Over \in HookStates /\ hook[w].stage # "draft"
          /\ Over.stage = "over"
      BY <1>9 DEF DropFlag, Over, HookStates
    <2> QED
      BY <1>9, <2>1, HookMoves DEF LogLines, DropFlag
  <1>10. ASSUME NEW w \in LogWindows, HookKilled(w) PROVE EndInv'
    <2>1. PICK h \in {NoHook, Over} : hook' = [hook EXCEPT ![w] = h]
      BY <1>10 DEF HookKilled
    <2>2. h \in HookStates /\ h.stage \in {"idle", "over"}
      BY StatesOfHooks DEF NoHook, Over
    <2>3. untold \subseteq untold' /\ (hook[w].stage = "draft" => hook[w].text \subseteq untold')
      BY <1>10 DEF HookKilled
    <2> QED
      BY <1>10, <2>1, <2>2, <2>3, HookMoves DEF LogLines, HookKilled
  <1>11. ConsumeFlags \/ EndClock \/ UNCHANGED endVars
         => UNCHANGED <<log, archive, drafts, hook, written, lostLines, untold>> /\ minute' \in Nat
    BY DEF ConsumeFlags, EndClock, endVars, EndInv, EndType
  <1> QED
    BY <1>1, <1>2, <1>3, <1>4, <1>5, <1>6, <1>7, <1>8, <1>9, <1>10, <1>11 DEF EndNext

LEMMA EndStarts == EndInit => EndInv
  <1> SUFFICES ASSUME EndInit PROVE EndInv
    OBVIOUS
  <1>1. LogLines = {} /\ written = {} /\ archive = << >> /\ drafts = << >> /\ minute = 0
        /\ hook = [w \in LogWindows |-> [stage |-> "idle"]]
    BY DEF EndInit, LogLines, NoHook
  <1>2. EndType
    BY <1>1, FS_EmptySet, StatesOfHooks DEF EndType
  <1>3. Numbered
    BY <1>1, FS_EmptySet DEF Numbered
  <1>4. ReadsTheLog /\ AllKept /\ AllTold
    BY <1>1 DEF ReadsTheLog, AllKept, AllTold
  <1> QED
    BY <1>2, <1>3, <1>4 DEF EndInv

\* No line of the log is lost by rotating it, in however many windows at once, but
\* those a header was written over (session_log.append and archive).
THEOREM NoLineIsLost == EndSpec => []LinesAreKept
  <1>1. EndInv => LinesAreKept
    BY DEF EndInv, AllKept, Kept, LinesAreKept
  <1> QED
    BY <1>1, EndStarts, EndStep, PTL DEF EndSpec

\* What a significant session logged is in a draft, or about to be, but for the
\* races that are excused (session_end.main).
THEOREM SessionsAreTold == EndSpec => []DraftsTellTheSession
  <1>1. EndInv => DraftsTellTheSession
    <2> SUFFICES ASSUME EndInv, NEW a \in DOMAIN archive, archive[a].told, NEW l \in archive[a].lines
                 PROVE  l \in untold \cup (UNION {drafts[m] : m \in DOMAIN drafts})
                            \cup UNION {hook[w].text :
                                           w \in {v \in LogWindows : hook[v].stage = "draft"}}
      BY Zenon DEF DraftsTellTheSession
    <2>1. Told(l)
      BY DEF EndInv, AllTold
    <2> QED
      BY <2>1 DEF Told
  <1> QED
    BY <1>1, EndStarts, EndStep, PTL DEF EndSpec
-----------------------------------------------------------------------------
(* The digests. *)

Papers == Nat \X (DraftNames \cup FinalNames)

ScribeStates ==
    [stage : {"none"}]
    \cup [stage : {"read"}, week : Weeks, read : SUBSET Papers]
    \cup [stage : {"promote"}, week : Weeks]

DigestType ==
    /\ week \in Nat /\ desk \subseteq Papers /\ shelf \subseteq Weeks \X DraftNames
    /\ digests \in [Weeks -> [kind : {"missing", "skeleton", "chapter"}, tells : SUBSET Papers]]
    /\ \A w \in Weeks : digests[w].kind # "chapter" => digests[w].tells = {}
    /\ scribe \in [Scribes -> ScribeStates]

\* Of a week that nobody digested by hand, the scheduled run alone writes, once the
\* week is over and all of its papers are there; when the chapter is written there
\* is no second run, and what is still on the desk is told.
WrittenOnce ==
    \A w \in Weeks \ byHand :
        /\ scribe["person"].stage = "none" \/ scribe["person"].week # w
        /\ scribe["schedule"].stage = "read" /\ scribe["schedule"].week = w =>
               w < week /\ digests[w].kind # "chapter" /\ InWeek(w) \subseteq scribe["schedule"].read
        /\ digests[w].kind = "chapter" => w < week /\ InWeek(w) \subseteq digests[w].tells

FiledTold ==
    \A d \in shelf : \/ d \in digests[d[1]].tells \cup skimmed
                     \/ d[1] \in byHand
                     \/ \E p \in AtWork(d[1]) : d \in scribe[p].read

ChaptersFound ==
    \A w \in Weeks : digests[w].kind = "chapter" =>
        \/ w \in pointers \cup unlinked
        \/ \E p \in Scribes : scribe[p].stage = "promote" /\ scribe[p].week = w

DigestInv == DigestType /\ WrittenOnce /\ FiledTold /\ ChaptersFound

LEMMA DigestStep == DigestInv /\ [DigestNext]_digestVars => DigestInv'
  <1> SUFFICES ASSUME DigestInv, [DigestNext]_digestVars PROVE DigestInv'
    OBVIOUS
  <1> USE DEF DigestInv, ScribeTo, Scribes
  <1>1. CASE UNCHANGED digestVars
    BY <1>1 DEF digestVars, DigestType, WrittenOnce, FiledTold, ChaptersFound, InWeek, AtWork
  <1>2. CASE NewPaper
    <2>1. DigestType'
      BY <1>2 DEF NewPaper, DigestType, Papers
    <2>2. WrittenOnce'
      BY <1>2 DEF NewPaper, DigestType, WrittenOnce, InWeek
    <2> QED
      BY <1>2, <2>1, <2>2 DEF NewPaper, FiledTold, ChaptersFound, AtWork
  <1>3. CASE FileDraft
    <2>1. DigestType'
      BY <1>3 DEF FileDraft, DigestType, Papers
    <2>2. WrittenOnce'
      BY <1>3 DEF FileDraft, DigestType, WrittenOnce, InWeek
    <2>3. FiledTold'
      BY <1>3 DEF FileDraft, DigestType, WrittenOnce, FiledTold, InWeek, AtWork, Missing, Skeleton
    <2> QED
      BY <1>3, <2>1, <2>2, <2>3 DEF FileDraft, ChaptersFound
  <1>4. CASE NextWeek
    <2>1. DigestType' /\ WrittenOnce'
      BY <1>4, DigestsAssumption DEF NextWeek, DigestType, WrittenOnce, InWeek, Weeks
    <2> QED
      BY <1>4, <2>1 DEF NextWeek, FiledTold, ChaptersFound, AtWork
  <1>5. ASSUME NEW p \in Scribes, NEW w \in Weeks, BeginDigest(p, w) PROVE DigestInv'
    <2>1. DigestType'
      BY <1>5 DEF BeginDigest, DigestType, InWeek, ScribeStates, Missing, Skeleton
    <2>2. WrittenOnce'
      BY <1>5 DEF BeginDigest, DigestType, WrittenOnce, InWeek, Completed, NeedsFill, NoDigest, Missing, Skeleton
    <2>3. FiledTold'
      BY <1>5 DEF BeginDigest, DigestType, FiledTold, AtWork, NoDigest, Missing, Skeleton
    <2>4. ChaptersFound'
      BY <1>5 DEF BeginDigest, DigestType, ChaptersFound, NoDigest, Missing, Skeleton
    <2> QED
      BY <2>1, <2>2, <2>3, <2>4
  <1>6. ASSUME NEW p \in Scribes, WriteChapter(p) PROVE DigestInv'
    <2>1. DigestType'
      BY <1>6 DEF WriteChapter, DigestType, ScribeStates
    <2>2. WrittenOnce'
      BY <1>6 DEF WriteChapter, DigestType, ScribeStates, WrittenOnce, InWeek
    <2>3. FiledTold'
      BY <1>6 DEF WriteChapter, DigestType, ScribeStates, WrittenOnce, FiledTold, AtWork
    <2>4. ChaptersFound'
      BY <1>6 DEF WriteChapter, DigestType, ScribeStates, ChaptersFound
    <2> QED
      BY <2>1, <2>2, <2>3, <2>4
  <1>7. ASSUME NEW p \in Scribes, WriteSkeleton(p) PROVE DigestInv'
    <2>1. DigestType'
      BY <1>7 DEF WriteSkeleton, DigestType, ScribeStates, NoDigest, Skeleton
    <2>2. WrittenOnce'
      BY <1>7 DEF WriteSkeleton, DigestType, ScribeStates, WrittenOnce, InWeek, NoDigest, Skeleton
    <2>3. FiledTold'
      BY <1>7 DEF WriteSkeleton, DigestType, ScribeStates, WrittenOnce, FiledTold, AtWork, NoDigest, Skeleton
    <2>4. ChaptersFound'
      BY <1>7 DEF WriteSkeleton, DigestType, ScribeStates, ChaptersFound, NoDigest, Skeleton
    <2> QED
      BY <2>1, <2>2, <2>3, <2>4
  <1>8. ASSUME NEW p \in Scribes, PromoteDigest(p) \/ DigestKilled(p) PROVE DigestInv'
    <2>1. DigestType'
      BY <1>8 DEF PromoteDigest, DigestKilled, DigestType, ScribeStates, NoDigest
    <2>2. WrittenOnce'
      BY <1>8 DEF PromoteDigest, DigestKilled, DigestType, WrittenOnce, InWeek, NoDigest
    <2>3. FiledTold'
      BY <1>8 DEF PromoteDigest, DigestKilled, DigestType, FiledTold, AtWork, NoDigest
    <2>4. ChaptersFound'
      BY <1>8 DEF PromoteDigest, DigestKilled, DigestType, ChaptersFound, NoDigest
    <2> QED
      BY <2>1, <2>2, <2>3, <2>4
  <1> QED
    BY <1>1, <1>2, <1>3, <1>4, <1>5, <1>6, <1>7, <1>8 DEF DigestNext

\* What a filed draft says is told, and a chapter can be found, whatever the week's
\* runs and filings did in whichever order (weekly_digest, _draft_triage_pass).
THEOREM FiledDraftsAreTold == DigestSpec => []FiledIsTold
  <1>1. DigestInit => DigestInv
    BY DEF DigestInit, DigestInv, DigestType, WrittenOnce, FiledTold, ChaptersFound, Scribes,
           ScribeStates, NoDigest, Missing
  <1>2. DigestInv => FiledIsTold
    BY DEF DigestInv, FiledTold, ChaptersFound, FiledIsTold
  <1> QED
    BY <1>1, <1>2, DigestStep, PTL DEF DigestSpec
=============================================================================
