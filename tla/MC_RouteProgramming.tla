------------------------ MODULE MC_RouteProgramming ------------------------
(* Model values for TLC: one key with its derived identity. *)
EXTENDS RouteProgramming
CONSTANTS k1, d1

MCDerivedId == [k \in Keys |-> d1]

OnlyAdmin == {[keys |-> Keys, administrative_override |-> TRUE]}
=============================================================================
