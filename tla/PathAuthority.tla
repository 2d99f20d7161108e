---------------------------- MODULE PathAuthority ----------------------------
(***************************************************************************)
(* The path authority the runtime consults (src/path_authority.cpp): for    *)
(* every known path, the authority generation that authorized it and        *)
(* whether it is usable.  It has a lock of its own and changes at any time, *)
(* also between a decision the runtime takes from an answer and the next    *)
(* look at it.  The runtime only asks whether a path is USABLE, so the      *)
(* refusing states are one, "Rejected".                                     *)
(***************************************************************************)
EXTENDS Naturals

CONSTANTS
  Paths,              \* PathId
  MaxPathGeneration   \* the highest PathAuthorityGeneration

ASSUME PathAssumption == MaxPathGeneration \in Nat \ {0}

VARIABLE path_authority   \* what Query answers for each path

PathGenerations == 1..MaxPathGeneration

PathStates == {"Usable", "Rejected"}

PathAnswers == [generation : PathGenerations, state : PathStates]

PathTypeOK == path_authority \in [Paths -> PathAnswers]

\* Query for a path that was never set or was removed.
UnknownPath == [generation |-> 1, state |-> "Rejected"]

PathInit == path_authority = [p \in Paths |-> UnknownPath]

\* SetPath takes any generation, also a lower one.
SetPath(p, g, s) ==
  path_authority' = [path_authority EXCEPT ![p] = [generation |-> g, state |-> s]]

\* Invalidate advances the generation of a known path.  A known path that reads
\* like an unknown one is taken as unknown: SetPath reaches the same states.
InvalidatePath(p, s) ==
  /\ path_authority[p] # UnknownPath
  /\ path_authority[p].generation < MaxPathGeneration
  /\ SetPath(p, path_authority[p].generation + 1, s)

RemovePath(p) == path_authority' = [path_authority EXCEPT ![p] = UnknownPath]

PathNext ==
  \E p \in Paths :
    \/ \E g \in PathGenerations, s \in PathStates : SetPath(p, g, s)
    \/ \E s \in PathStates : InvalidatePath(p, s)
    \/ RemovePath(p)
=============================================================================
