------------------------------ MODULE WireCodec ------------------------------
(***************************************************************************)
(* The payloads of the wire protocol (src/wire.cpp over src/encoding.cpp,    *)
(* the record codec of src/record.cpp and the identity codecs of ids.hpp).   *)
(*                                                                          *)
(* Writers write whatever a message holds; readers refuse.  encode and       *)
(* decode of a message walk the same fields in the same order, so a message  *)
(* is its fields, each with the reader of its kind, and what a reader can    *)
(* tell apart of a value is only whether it is zero (0, empty, an invalid    *)
(* identity) and whether it is longer than the reader's bound.               *)
(***************************************************************************)

\* A field: its reader, its name, and the flag or count that must not be zero
\* for the field to be there (none if empty).
Fields(by, names) == {[by |-> by, name |-> n, guard |-> ""] : n \in names}

\* Fields behind a flag; a list is its count and an element.
When(flag, fields) == {[f EXCEPT !.guard = flag] : f \in fields}

Plain(names)    == Fields("plain", names)     \* u16..u64, boolean, raw, optional
Text(names)     == Fields("text", names)      \* string(max_length)
Count(names)    == Fields("count", names)     \* u32 with a limit
Enum(names)     == Fields("enum", names)      \* u8 in the range of the enumeration
Version(names)  == Fields("version", names)   \* kWireProtocolVersion
Id(names)       == Fields("id", names)        \* FixedId::read
Counter(names)  == Fields("counter", names)   \* CounterId::read
Token(names)    == Fields("token", names)     \* TokenId::read
Dest(names)     == Fields("dest", names)      \* Destination::read
\* What a reader checks of the values it has read together.
Checked(names)  == Fields("checked", names)

Strict  == {"id", "counter", "token", "enum", "version", "dest", "checked"}
Bounded == {"text", "token", "count", "dest"}

-----------------------------------------------------------------------------
(* Shared codecs *)

Status == Plain({"status"}) \cup Text({"detail"})

Context == Counter({"epoch"}) \cup Id({"publisher", "worker_boot", "attempt"})

Key == Id({"fabric"}) \cup Token({"namespace"}) \cup Enum({"route_class"})
       \cup Dest({"destination"}) \cup Checked({"key_valid"})

Scope ==
  Id({"scope_fabric"})
  \cup Count({"namespaces"}) \cup When("namespaces", Token({"scope_namespace"}))
  \cup Count({"destinations"}) \cup When("destinations", Dest({"scope_destination"}))
  \cup Count({"route_classes"}) \cup When("route_classes", Enum({"scope_class"}))
  \cup Plain({"wildcard_namespaces", "wildcard_destinations",
              "wildcard_route_classes", "administrative_override"})

Binding ==
  Enum({"binding_kind", "next_hop_kind"}) \cup Plain({"next_hop", "next_hop_group"})
  \cup Counter({"entity_generation"}) \cup Plain({"path", "path_authority_generation"})
  \cup Counter({"binding_policy"}) \cup Checked({"binding_valid"})

Applied ==
  Enum({"applied_class"})
  \cup Plain({"applied_attempt", "applied_programming", "programmed", "programmed_authority"})
  \cup Id({"applied_backend"}) \cup Text({"applied_detail"})

Observation ==
  Enum({"observed_class"}) \cup Plain({"observed_attempt", "observed_generation"})
  \cup Id({"observed_backend"}) \cup Text({"observed_detail"})

Provenance ==
  Id({"source_publisher", "source_boot", "mutation_attempt"})
  \cup Enum({"source_class"})
  \cup Counter({"source_epoch", "source_generation", "source_policy",
                "source_path_authority"})

Supersession ==
  Enum({"supersession_kind"})
  \cup Plain({"prior", "successor", "successor_lineage", "supersession_epoch"})
  \cup Text({"supersession_reason"})

Retirement ==
  Enum({"retirement_cause"}) \cup Text({"retirement_reason"})
  \cup Plain({"retirement_epoch", "retirement_generation", "retirement_attempt"})

LineageEntry ==
  Enum({"entry_event", "entry_lifecycle", "entry_binding"})
  \cup Plain({"entry_prior", "entry_path", "entry_path_authority"})
  \cup Id({"entry_publisher"}) \cup Counter({"entry_generation", "entry_epoch"})

Record ==
  Enum({"record_tag", "record_lifecycle"}) \cup Id({"record_id"}) \cup Key
  \cup Counter({"record_generation", "authority", "watermark", "programming"})
  \cup Binding \cup Applied \cup Observation \cup Provenance \cup Supersession
  \cup Retirement \cup Count({"history"}) \cup When("history", LineageEntry)
  \cup Checked({"record_valid"})

RouteSnapshot ==
  Id({"snapshot_id"}) \cup Plain({"record_digest"}) \cup Enum({"snapshot_currentness"})
  \cup Record \cup Checked({"digest_matches"})

-----------------------------------------------------------------------------
(* Messages *)

HelloRequest == Version({"wire_version"}) \cup Text({"client_name"})

HelloResult ==
  Status \cup Version({"wire_version"}) \cup Counter({"epoch"})
  \cup Id({"fabric", "backend"}) \cup Plain({"backend_read_only"})

RegisterPublisherRequest == Context \cup Scope

RegisterPublisherResult == Status \cup Plain({"epoch"})

PublishRouteRequest ==
  Context \cup Key \cup Binding \cup Counter({"policy_generation"})
  \cup Plain({"expected_generation", "lineage"}) \cup Text({"reason"})

PublishRouteResult ==
  Status \cup Plain({"route", "generation", "authority_generation"})
  \cup Enum({"lifecycle", "applied", "currentness"}) \cup Plain({"idempotent", "replaced"})

RouteMutationRequest ==
  Context \cup Plain({"route", "expected_generation"}) \cup Text({"reason"})

RouteMutationResult ==
  Status \cup Plain({"route", "generation"}) \cup Enum({"lifecycle", "applied"})
  \cup Plain({"already_withdrawn", "withdrawal_in_flight"})

QueryRouteRequest == Plain({"by_key"}) \cup Key \cup Plain({"route"})

QueryRouteResult == Status \cup Plain({"found"}) \cup RouteSnapshot

SnapshotRequest == Plain({"epoch"})

SnapshotResponse ==
  Status \cup Counter({"epoch"}) \cup Id({"snapshot_set_id"}) \cup Plain({"digest"})
  \cup Count({"routes"}) \cup When("routes", RouteSnapshot)

BackendStateMessage ==
  Status \cup Id({"backend"})
  \cup Plain({"install", "replace", "withdraw", "query", "read_only", "evidence_included"})
  \cup When("evidence_included", Key \cup Enum({"presence"}) \cup Text({"evidence"}))

ErrorMessage == Status

ReconcileRequest == Context \cup Plain({"all", "route"})

ReconcileResult ==
  Status \cup Enum({"classification"})
  \cup Plain({"checked", "matched", "missing", "diverged", "extra", "unavailable"})

EpochResult == Status \cup Plain({"epoch"})

StatisticsResult ==
  Status \cup Counter({"epoch"})
  \cup Plain({"state_digest", "counts_of_routes", "route_counters"})

ApplyCompletionRequest ==
  Context \cup Id({"completed_attempt"}) \cup Enum({"outcome"})
  \cup Text({"completion_detail"})

ApplyCompletionResult == Status \cup Enum({"disposition"})

ExplainRouteResult ==
  Status \cup Plain({"found"}) \cup RouteSnapshot \cup Plain({"authoritative"})
  \cup Text({"authority_reason", "currentness_reason", "lifecycle_reason",
             "path_authority_reason", "backend_reason", "reconciliation_reason",
             "supersession_text", "retirement_text"})

\* The payload of a frame, by its MessageId.  FenceNotice has a codec and is
\* never sent; statistics and epoch requests have no payload.
Payload(id) ==
  CASE id = "Hello" -> HelloRequest
    [] id = "HelloResult" -> HelloResult
    [] id = "RegisterPublisher" -> RegisterPublisherRequest
    [] id = "RegisterPublisherResult" -> RegisterPublisherResult
    [] id = "PublishRoute" -> PublishRouteRequest
    [] id = "PublishRouteResult" -> PublishRouteResult
    [] id \in {"WithdrawRoute", "RevalidateRoute", "RetireRoute", "RevokeRoute"}
         -> RouteMutationRequest
    [] id \in {"WithdrawRouteResult", "RevalidateRouteResult", "RetireRouteResult",
               "RevokeRouteResult"} -> RouteMutationResult
    [] id \in {"QueryRoute", "ExplainRoute"} -> QueryRouteRequest
    [] id = "QueryRouteResult" -> QueryRouteResult
    [] id = "ExplainRouteResult" -> ExplainRouteResult
    [] id = "SnapshotRequest" -> SnapshotRequest
    [] id = "SnapshotResponse" -> SnapshotResponse
    [] id = "BackendState" -> BackendStateMessage
    [] id = "Error" -> ErrorMessage
    [] id = "ReconcileRequest" -> ReconcileRequest
    [] id = "ReconcileResult" -> ReconcileResult
    [] id \in {"EpochRequest", "StatisticsRequest"} -> {}
    [] id = "EpochResult" -> EpochResult
    [] id = "StatisticsResult" -> StatisticsResult
    [] id = "ApplyCompletion" -> ApplyCompletionRequest
    [] id = "ApplyCompletionResult" -> ApplyCompletionResult

Names(fields) == {f.name : f \in fields}

\* The fields of a value-initialised message that are zero: all but the
\* enumerations, whose default is an enumerator, and the tag constants.
DefaultZero(fields) == {f.name : f \in {g \in fields : g.by # "enum"}}

\* A message: the values of its fields, as far as a reader can tell.
Message(zero, long) == [zero |-> zero, long |-> long]

\* decode: every field that is there satisfies its reader.
Decodes(id, m) ==
  \A f \in Payload(id) :
     (f.guard = "" \/ f.guard \notin m.zero) =>
        /\ f.by \in Strict => f.name \notin m.zero
        /\ f.by \in Bounded => f.name \notin m.long
=============================================================================
