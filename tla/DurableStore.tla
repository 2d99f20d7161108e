---------------------------- MODULE DurableStore ----------------------------
(***************************************************************************)
(* What the durable store promises the runtime (README 11 and 15): a        *)
(* durable state that only grows more recent, from which a restart          *)
(* continues, and which is never behind what the runtime acknowledged.      *)
(* Nothing here knows of snapshots, journals or files.                      *)
(***************************************************************************)
CONSTANTS
  States,          \* the states of the runtime that can be stored
  EmptyState,      \* what a store without files stands for
  Covers(_, _),    \* Covers(s, t): s holds everything t holds, or something newer
  NoProcess        \* the working state of a process that is not running

VARIABLES
  durable,   \* the state a restart would begin from
  working    \* the state the running process has acknowledged, or NoProcess

vars == <<durable, working>>

Init == durable = EmptyState /\ working = NoProcess

\* A mutation becomes durable, and with it or later it is acknowledged.
Write == /\ working # NoProcess
         /\ durable' \in States /\ Covers(durable', durable)
         /\ working' \in {working, durable'}

Acknowledge == /\ working # NoProcess
               /\ working' = durable
               /\ UNCHANGED durable

\* A crash may still make the mutation in progress durable.
Crash == /\ working # NoProcess
         /\ working' = NoProcess
         /\ durable' \in States /\ Covers(durable', durable)

\* A restart makes its recovery durable and continues from there.
Restart == /\ working = NoProcess
           /\ durable' \in States /\ Covers(durable', durable)
           /\ working' \in {NoProcess, durable'}

Next == Write \/ Acknowledge \/ Crash \/ Restart

Spec == Init /\ [][Next]_vars

=============================================================================
