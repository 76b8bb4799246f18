------------------------------ MODULE MCOutbox ------------------------------
(***************************************************************************)
(* Values of Outbox's constants for TLC: one cheap event and one heavy one. *)
(***************************************************************************)
EXTENDS Outbox, TLC

CONSTANTS cheap, heavy, hook, cron1, cron2

TwoEvents == {cheap, heavy}
OneEvent  == {cheap}
Kinds     == (cheap :> "reindex" @@ heavy :> "consolidate")
HeavyKind == (cheap :> "consolidate")
OneKind   == (cheap :> "reindex")
SignalKinds == (cheap :> "reindex" @@ heavy :> "duck_signal")
SignalSources == (cheap :> "claude_code" @@ heavy :> "duck_sentinel")
AllClaude == [e \in {cheap, heavy} |-> "claude_code"]
OneSource == (cheap :> "claude_code")

Swaps == Permutations({cron1, cron2})
=============================================================================
