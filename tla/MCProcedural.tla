---------------------------- MODULE MCProcedural ----------------------------
(* The designer of the sleep cycle alone, cycle after cycle, for TLC. *)
EXTENDS Procedural

CONSTANTS SourceA, SourceB
Order == <<SourceA, SourceB>>
=============================================================================
