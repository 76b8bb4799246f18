---------------------------- MODULE MCImportance ----------------------------
(***************************************************************************)
(* Values of Importance's constants for TLC: two writes of one tracked     *)
(* memory and one of a memory of an untracked type.                        *)
(***************************************************************************)
EXTENDS Importance, TLC

Files == ("j1" :> "self" @@ "j2" :> "self" @@ "j3" :> "reference")
=============================================================================
