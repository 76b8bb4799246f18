-------------------------- MODULE KnowledgeGraph --------------------------
(***************************************************************************)
(* kg.py and bitemporal.py: facts (subject, type, object) that the outbox  *)
(* handler of `memory_write` and kg_bootstrap assert again and again.  A   *)
(* functional type (bitemporal.FUNCTIONAL_RELS) has one valid object at a  *)
(* time: a new object closes the row of the old one.                       *)
(*                                                                         *)
(* upsert_relationship is two steps here as in the code: python's sqlite3  *)
(* opens the transaction at the first INSERT or UPDATE, so the SELECTs     *)
(* before it are not protected by it.  One subject stands for all: no      *)
(* statement relates rows of two subjects.                                 *)
(***************************************************************************)
EXTENDS Naturals, Sequences, FiniteSets

CONSTANTS
    Objects,     \* entities that can be the object of a fact
    FunctionalTypes, AdditiveTypes,   \* relationship types
    Asserters,   \* processes that assert facts
    MaxRows      \* bound: rows of the relationships table

VARIABLES
    entities,    \* objects with a row in the entities table
    rel,         \* the relationships table, in order of id
    asserting,   \* asserting[a]: the call a is in
    overlapped   \* history: functional types two inserts of which overlapped

kgVars == <<entities, rel, asserting, overlapped>>

Types  == FunctionalTypes \cup AdditiveTypes
Ids    == 1..Len(rel)
Rested == [stage |-> "none"]

KgInit ==
    /\ entities = {}
    /\ rel = <<>>
    /\ asserting = [a \in Asserters |-> Rested]
    /\ overlapped = {}

\* A row that holds now: valid_to and superseded_by are NULL.
Current(i) == rel[i].by = 0
RowOf(t, o) == {i \in Ids : rel[i].type = t /\ rel[i].object = o}

\* find_superseding_candidates
Superseding(t, o) ==
    IF t \in FunctionalTypes
    THEN {i \in Ids : rel[i].type = t /\ rel[i].object # o /\ Current(i)}
    ELSE {}

\* get_entity_id: is the object known?
Resolve(a, t, o) ==
    /\ asserting[a] = Rested
    /\ asserting' = [asserting EXCEPT ![a] =
           [stage |-> IF o \in entities THEN "select" ELSE "create", type |-> t, object |-> o]]
    /\ UNCHANGED <<entities, rel, overlapped>>

\* upsert_entity: SELECT and INSERT; another process may have inserted it
\* since, and then the SELECT finds it or UNIQUE(name, type) makes the call
\* fail, which the handler swallows: the fact is not asserted.
CreateEntity(a) ==
    /\ asserting[a].stage = "create"
    /\ \/ /\ entities' = entities \cup {asserting[a].object}
          /\ asserting' = [asserting EXCEPT ![a] =
                 [stage |-> "select", type |-> @.type, object |-> @.object]]
       \/ /\ asserting[a].object \in entities
          /\ asserting' = [asserting EXCEPT ![a] = Rested]
          /\ UNCHANGED entities
    /\ UNCHANGED <<rel, overlapped>>

\* The same fact is on file: it is refreshed, and stays closed if it was.
Reassert(a) ==
    /\ asserting[a].stage = "select"
    /\ RowOf(asserting[a].type, asserting[a].object) # {}
    /\ asserting' = [asserting EXCEPT ![a] = Rested]
    /\ UNCHANGED <<entities, rel, overlapped>>

SelectOld(a) ==
    /\ asserting[a].stage = "select"
    /\ RowOf(asserting[a].type, asserting[a].object) = {}
    /\ asserting' = [asserting EXCEPT ![a] =
           [stage |-> "insert", type |-> @.type, object |-> @.object,
            old |-> Superseding(@.type, @.object), rows |-> Len(rel)]]
    /\ UNCHANGED <<entities, rel, overlapped>>

\* mark_superseded(old, new)
\* (Mutant: the arguments are swapped, the new row is closed.)
Marked_Swapped(rows, old, new) ==
    [i \in 1..Len(rows) |-> IF i = new /\ old # {}
                            THEN [rows[i] EXCEPT !.by = CHOOSE o \in old : TRUE] ELSE rows[i]]
Marked(rows, old, new) ==
    [i \in 1..Len(rows) |->
        [type |-> rows[i].type, object |-> rows[i].object,
         by |-> IF i \in old THEN new ELSE rows[i].by]]

\* INSERT and the marks, in one transaction.  UNIQUE(from, to, type): the fact
\* was inserted by another process since, the call fails and is swallowed.
InsertFact(a) ==
    /\ asserting[a].stage = "insert"
    /\ LET t == asserting[a].type
           o == asserting[a].object
           new == Len(rel) + 1
       IN  IF RowOf(t, o) # {}
           THEN UNCHANGED <<rel, overlapped>>
           ELSE /\ Len(rel) < MaxRows
                /\ rel' = Marked(Append(rel, [type |-> t, object |-> o, by |-> 0]),
                                 asserting[a].old, new)
                /\ overlapped' = IF \E i \in Ids : i > asserting[a].rows /\ rel[i].type = t
                                 THEN overlapped \cup {t} ELSE overlapped
    /\ asserting' = [asserting EXCEPT ![a] = Rested]
    /\ UNCHANGED entities

\* The process dies, or the database stays locked.
AssertCut(a) ==
    /\ asserting[a] # Rested
    /\ asserting' = [asserting EXCEPT ![a] = Rested]
    /\ UNCHANGED <<entities, rel, overlapped>>

KgNext ==
    \E a \in Asserters :
        \/ \E t \in Types, o \in Objects : Resolve(a, t, o)
        \/ CreateEntity(a) \/ Reassert(a) \/ SelectOld(a) \/ InsertFact(a) \/ AssertCut(a)

-----------------------------------------------------------------------------
(* A functional type has one valid object at a time (bitemporal.py:30-31): *)
(* never none once a fact was stored, and, unless two insertions           *)
(* overlapped, the one that was stored last (asserting a closed fact again *)
(* does not bring it back); and superseded_by points from a closed row to  *)
(* a later one of the same type, so that supersession_chain ends, and at a *)
(* row that holds.                                                         *)
OneCurrentFact ==
    \A t \in FunctionalTypes :
        LET rows == {i \in Ids : rel[i].type = t}
            held == {i \in rows : Current(i)}
        IN  /\ rows # {} => held # {}
            /\ t \notin overlapped => \A i \in held, j \in rows : j <= i
            /\ \A i \in rows \ held : rel[i].by \in rows /\ rel[i].by > i
=============================================================================
