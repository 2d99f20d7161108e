---- MODULE MC_RouteRuntime ----
(***************************************************************************)
(* Instances of RouteRuntime.  One or two keys, each with the identity      *)
(* derived from it, and lineages to mint; an owner and an administrator.    *)
(***************************************************************************)
EXTENDS RouteRuntime, TLC
CONSTANTS k1, k2, d1, d2

MCDerivedId == [k \in Keys |-> IF k = k1 THEN d1 ELSE d2]

\* Full scopes with and without administrative override.
AdminScope == [keys |-> Keys, administrative_override |-> TRUE]
OwnerScope == [keys |-> Keys, administrative_override |-> FALSE]
BothScopes == {AdminScope, OwnerScope}
OnlyAdmin == {AdminScope}
OnlyOwner == {OwnerScope}

AttemptSymmetry == Permutations(AttemptIds)
FullSymmetry == Permutations(AttemptIds) \cup Permutations(Publishers)
                  \cup Permutations(Boots)
====
