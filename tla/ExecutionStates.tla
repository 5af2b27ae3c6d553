--------------------------- MODULE ExecutionStates ---------------------------
(***************************************************************************)
(* The lifecycle of one execution record: the statuses and the table of    *)
(* legal transitions every status change of the execution layer is        *)
(* validated against.                                                      *)
(***************************************************************************)

ExecutionStatus ==
  { "AUTHORIZED", "EXECUTION_STARTED", "PROVIDER_REQUESTED", "SUCCEEDED",
    "FAILED", "UNKNOWN_PROVIDER_STATE", "REQUIRES_REVIEW", "RECONCILED",
    "DEFERRED" }

\* Faulty variant: a failed execution may still be reconciled.
TransitionsReopeningFailed ==
  [ s \in ExecutionStatus |->
      CASE s = "AUTHORIZED" -> {"EXECUTION_STARTED", "DEFERRED", "REQUIRES_REVIEW"}
        [] s = "EXECUTION_STARTED" -> {"PROVIDER_REQUESTED", "FAILED", "REQUIRES_REVIEW"}
        [] s = "PROVIDER_REQUESTED" -> {"SUCCEEDED", "FAILED", "UNKNOWN_PROVIDER_STATE"}
        [] s \in {"UNKNOWN_PROVIDER_STATE", "SUCCEEDED"} -> {"RECONCILED", "FAILED"}
        [] s = "FAILED" -> {"RECONCILED"}
        [] OTHER -> {} ]

\* LEGAL_TRANSITIONS
LegalTransitions ==
  [ s \in ExecutionStatus |->
      CASE s = "AUTHORIZED" -> {"EXECUTION_STARTED", "DEFERRED", "REQUIRES_REVIEW"}
        [] s = "EXECUTION_STARTED" -> {"PROVIDER_REQUESTED", "FAILED", "REQUIRES_REVIEW"}
        [] s = "PROVIDER_REQUESTED" ->
             {"SUCCEEDED", "FAILED", "UNKNOWN_PROVIDER_STATE", "REQUIRES_REVIEW"}
        [] s \in {"UNKNOWN_PROVIDER_STATE", "SUCCEEDED"} ->
             {"RECONCILED", "FAILED", "REQUIRES_REVIEW"}
        [] s = "DEFERRED" -> {"EXECUTION_STARTED", "REQUIRES_REVIEW"}
        [] OTHER -> {} ]

CanTransition(from, to) == to \in LegalTransitions[from]

\* What the provider's answer to a dispatched request is normalised to.
ProviderNormalizedStatus ==
  { "SUCCESS", "DECLINED", "VALIDATION_ERROR", "AUTHENTICATION_ERROR",
    "RATE_LIMITED", "TIMEOUT", "NETWORK_ERROR", "UNKNOWN_PROVIDER_STATE" }

\* The execution status a normalised answer becomes.
StatusOfResponse(normalized) ==
  CASE normalized = "SUCCESS" -> "SUCCEEDED"
    [] normalized \in {"TIMEOUT", "NETWORK_ERROR", "UNKNOWN_PROVIDER_STATE"} ->
         "UNKNOWN_PROVIDER_STATE"
    [] OTHER -> "FAILED"
==============================================================================
