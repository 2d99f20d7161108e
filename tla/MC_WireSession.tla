--------------------------- MODULE MC_WireSession ---------------------------
(* Model values for TLC. *)
EXTENDS WireSession

AllOps == DOMAIN Methods

AllRaws == {"malformed", "oversized", "corrupt", "unexpected"}

\* A payload that outlasts all calls of the run.
LargeAnswers == {MaxCalls + 1}
=============================================================================
