--------------------------- MODULE RouteLifecycle ---------------------------
(***************************************************************************)
(* The route lifecycle of src/lifecycle.cpp: the static transition table,   *)
(* the predicates over its states, and the mapping from a backend outcome   *)
(* to the lifecycle event and the applied classification it produces        *)
(* (install_event and its siblings at the head of src/runtime.cpp).         *)
(***************************************************************************)

\* RouteLifecycle
Lifecycles == {"Declared", "Validating", "Ready", "Installing", "Installed",
               "RevalidationRequired", "Withdrawing", "Withdrawn", "Failed",
               "Superseded", "Retired"}

\* ProgrammingOutcome: what a backend may answer to one programming call.
ProgrammingOutcomes == {"Applied", "Idempotent", "NotSupported", "Rejected",
                        "RetryableFailure", "PermanentFailure", "Ambiguous",
                        "BackendUnavailable"}

\* AppliedClassification
Classifications == {"Unknown", "Pending", "Applied",
                    "IdempotentAlreadyApplied", "Rejected", "NotSupported",
                    "RetryableFailure", "PermanentFailure", "Ambiguous",
                    "Withdrawn", "WithdrawFailed", "BackendUnavailable"}

-----------------------------------------------------------------------------
(* kTransitions, grouped by event: every <<from, event, to>> of the table.   *)

ProgrammableStates == {"Ready", "Installing", "Installed",
                       "RevalidationRequired", "Failed"}

Transitions == UNION {
  {"Declared"} \X {"BeginValidation"} \X {"Validating"},
  {"Validating"} \X {"ValidationAccepted"} \X {"Ready"},
  {"Validating", "RevalidationRequired"} \X {"ValidationRejected"} \X {"Failed"},
  (ProgrammableStates \cup {"Withdrawing", "Withdrawn"})
     \X {"BeginInstall"} \X {"Installing"},
  {"Installing"} \X {"BackendApplied", "BackendIdempotent"} \X {"Installed"},
  {"Installing"}
     \X {"BackendRejected", "BackendNotSupported", "BackendPermanentFailure"}
     \X {"Failed"},
  {"Installing"}
     \X {"BackendRetryableFailure", "BackendAmbiguous", "BackendUnavailable"}
     \X {"RevalidationRequired"},
  (ProgrammableStates \cup {"Validating", "Withdrawing", "Withdrawn"})
     \X {"RequireRevalidation"} \X {"RevalidationRequired"},
  ProgrammableStates \X {"BeginWithdraw"} \X {"Withdrawing"},
  {"Withdrawing"} \X {"WithdrawApplied"} \X {"Withdrawn"},
  {"Withdrawing"} \X {"WithdrawFailed"} \X {"RevalidationRequired"},
  (Lifecycles \ {"Retired"}) \X {"Supersede"} \X {"Superseded"},
  {"Retired"} \X {"Supersede", "RequireRevalidation"} \X {"Retired"},
  Lifecycles \X {"Retire", "Revoke"} \X {"Retired"} }

\* next_lifecycle: the states the event leads to, none when it is not allowed.
NextLifecycle(from, event) ==
  {to \in Lifecycles : <<from, event, to>> \in Transitions}

\* has_outstanding_programming
HasOutstandingProgramming(lifecycle) == lifecycle \in {"Installing", "Withdrawing"}

\* RouteRecord::blocks_republication
BlocksRepublication(lifecycle) == lifecycle \in {"Retired", "Superseded"}

-----------------------------------------------------------------------------
(* What one backend outcome means for an install or replace attempt, and for *)
(* a withdrawal.                                                             *)

InstallEvent(outcome) ==
  CASE outcome = "Applied"            -> "BackendApplied"
    [] outcome = "Idempotent"         -> "BackendIdempotent"
    [] outcome = "NotSupported"       -> "BackendNotSupported"
    [] outcome = "Rejected"           -> "BackendRejected"
    [] outcome = "RetryableFailure"   -> "BackendRetryableFailure"
    [] outcome = "PermanentFailure"   -> "BackendPermanentFailure"
    [] outcome = "BackendUnavailable" -> "BackendUnavailable"
    [] OTHER                          -> "BackendAmbiguous"

InstallClassification(outcome) ==
  IF outcome = "Idempotent" THEN "IdempotentAlreadyApplied" ELSE outcome

WithdrawEvent(outcome) ==
  IF outcome \in {"Applied", "Idempotent"} THEN "WithdrawApplied"
                                           ELSE "WithdrawFailed"

WithdrawClassification(outcome) ==
  CASE outcome \in {"Applied", "Idempotent"} -> "Withdrawn"
    [] outcome = "Ambiguous"                 -> "Ambiguous"
    [] OTHER                                 -> "WithdrawFailed"

CompletionEvent(operation, outcome) ==
  IF operation = "Withdraw" THEN WithdrawEvent(outcome) ELSE InstallEvent(outcome)

\* Mutated form of CompletionClassification: withdrawals classified as installs.
ClassifiedAsInstall(operation, outcome) == InstallClassification(outcome)

CompletionClassification(operation, outcome) ==
  IF operation = "Withdraw" THEN WithdrawClassification(outcome)
                            ELSE InstallClassification(outcome)

\* AppliedState::reports_applied
ReportsApplied(classification) ==
  classification \in {"Applied", "IdempotentAlreadyApplied"}
=============================================================================
