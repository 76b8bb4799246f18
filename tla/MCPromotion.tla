---------------------------- MODULE MCPromotion ----------------------------
(***************************************************************************)
(* Promotion with small sets of sessions, observations and topics.  The    *)
(* thresholds are lowered so that few observations and references reach    *)
(* them.                                                                   *)
(***************************************************************************)
EXTENDS Promotion

CONSTANTS p1, p2, s1, s2

(* Session s1 has observations 1 and 2, s2 has 3. *)
TwoSessions == [o \in 1..3 |-> IF o <= 2 THEN s1 ELSE s2]

(* Session s1 has all the observations. *)
FourAtOnce == [o \in 1..4 |-> s1]
JustTwo    == [o \in 1..2 |-> s1]

SameTopic == [s \in {s1, s2} |-> "t"]
OneTopic  == [s \in {s1} |-> "t"]
=============================================================================
