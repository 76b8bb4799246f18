---------------------------- MODULE JobLifecycle ----------------------------
(***************************************************************************)
(* What the outbox promises about one job, with no files, snapshots or     *)
(* processes: pending -> processing -> done | dead, a failed job goes back *)
(* to pending until it has failed MaxAttempts times, an abandoned one goes *)
(* back with its tries intact.                                             *)
(***************************************************************************)
EXTENDS Naturals

CONSTANTS Jobs, MaxAttempts

VARIABLES
    state,    \* state[j]: "absent", "pending", "processing", "done" or "dead"
    tries,    \* tries[j]: failures charged to j
    applied   \* jobs whose effect has happened at least once

vars == <<state, tries, applied>>

Init ==
    /\ state = [j \in Jobs |-> "absent"]
    /\ tries = [j \in Jobs |-> 0]
    /\ applied = {}

Move(j, from, to) == state[j] = from /\ state' = [state EXCEPT ![j] = to]

Submit(j) == Move(j, "absent", "pending") /\ UNCHANGED <<tries, applied>>

Begin(j) == Move(j, "pending", "processing") /\ UNCHANGED <<tries, applied>>

Apply(j) ==
    /\ state[j] = "processing"
    /\ applied' = applied \cup {j}
    /\ UNCHANGED <<state, tries>>

Complete(j) ==
    /\ j \in applied
    /\ Move(j, "processing", "done")
    /\ UNCHANGED <<tries, applied>>

Retry(j) ==
    /\ tries[j] + 1 < MaxAttempts
    /\ Move(j, "processing", "pending")
    /\ tries' = [tries EXCEPT ![j] = @ + 1]
    /\ UNCHANGED applied

Bury(j) ==
    /\ tries[j] + 1 >= MaxAttempts
    /\ Move(j, "processing", "dead")
    /\ tries' = [tries EXCEPT ![j] = @ + 1]
    /\ UNCHANGED applied

\* The worker that held j is gone.
Abandon(j) == Move(j, "processing", "pending") /\ UNCHANGED <<tries, applied>>

Next == \E j \in Jobs :
    Submit(j) \/ Begin(j) \/ Apply(j) \/ Complete(j) \/ Retry(j) \/ Bury(j) \/ Abandon(j)

Spec == Init /\ [][Next]_vars
=============================================================================
