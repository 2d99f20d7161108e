---------------------------- MODULE MC_RouteStore ----------------------------
(* RouteStore for TLC: routes and attempts are interchangeable.             *)
EXTENDS RouteStore, TLC

StoreSymmetry == Permutations(Routes) \cup Permutations(Attempts)

=============================================================================
