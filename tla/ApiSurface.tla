------------------------------ MODULE ApiSurface ------------------------------
(***************************************************************************)
(* The two front doors of the API daemon (REST and gRPC), the core they    *)
(* share, and the supervisor's side of the socket: which requests each     *)
(* layer refuses before anything happens, what is forwarded, and how an    *)
(* error on the way back is reported.  All of it is pure: GuestRequests    *)
(* composes these operators into the life of a request.                    *)
(*                                                                         *)
(* A request is a record with one field for each argument of any call; an  *)
(* operation reads the fields it has.  Sizes and limits are in bytes.      *)
(***************************************************************************)
EXTENDS Integers, Sequences, FiniteSets, Outcomes

KiB == 1024
MiB == 1024 * KiB

U8Max == 255
U16Max == 65535

MAX_INLINE_FILE_BYTES == 10 * MiB
REST_MAX_BODY_BYTES == 15 * MiB
TRANSPORT_MAX_MESSAGE_BYTES == 11 * MiB
MAX_IPC_FRAME_BYTES == 1 * MiB
MAX_GUEST_FRAME_BYTES == 32 * MiB

DEFAULT_GUEST_PORT == 52

-----------------------------------------------------------------------------
(* Profiles and operations. *)

ExecutionProfiles == {"standard", "confidential-azure"}

execution_backend(profile) ==
    IF profile = "standard" THEN "Firecracker" ELSE "OpenShell"

WorkspaceOperations ==
    {"Create", "Destroy", "Execute", "WriteFile", "ReadFile", "Pause", "Resume",
     "Snapshot", "Restore", "Fork", "WarmPool", "Ingress", "Attest"}

supports(profile, operation) ==
    \/ profile = "standard"
    \/ operation \in {"Create", "Destroy", "Execute", "WriteFile", "ReadFile", "Attest"}

\* The variants of SupervisorRequest, each with the workspace operation it is.
SupervisorRequests ==
    [Ping |-> None, GetCapabilities |-> None, ListEvents |-> None,
     CapacitySnapshot |-> None,
     CreateWorkspace |-> Some("Create"), Terminate |-> Some("Destroy"),
     RunCommand |-> Some("Execute"), WriteFile |-> Some("WriteFile"),
     ReadFile |-> Some("ReadFile"), PauseWorkspace |-> Some("Pause"),
     ResumeWorkspace |-> Some("Resume"), SnapshotWorkspace |-> Some("Snapshot"),
     RestoreWorkspace |-> Some("Restore"), ForkWorkspace |-> Some("Fork"),
     PoolStatus |-> Some("WarmPool"), ExposePort |-> Some("Ingress"),
     UnexposePort |-> Some("Ingress"), GetAttestationEvidence |-> Some("Attest")]

workspace_operation(op) == SupervisorRequests[op]

\* What GetCapabilities advertises.
capabilities(profile) ==
    [execution_profile |-> profile,
     execution_backend |-> execution_backend(profile),
     supported_operations |-> {o \in WorkspaceOperations : supports(profile, o)},
     hard_workspace_capacity |-> IF profile = "standard" THEN None ELSE Some(1),
     confidential_snapshot_supported |-> FALSE]

\* The gate in front of every handler of the dispatcher.
dispatch_gate(profile, op) ==
    LET operation == workspace_operation(op)
    IN  Check(IsSome(operation) => supports(profile, Get(operation)),
              "UnsupportedForProfile")

-----------------------------------------------------------------------------
(* Authentication of a client at the API daemon. *)

Sha256(text) == << "sha256", text >>

\* A line of the key file: blank, a comment, or a digest with a label.
ApiKeyStore_load(lines) ==
    LET keys == SelectSeq(lines, LAMBDA l : l.kind = "key")
        result == FirstFailure([i \in DOMAIN keys |->
                      FirstFailure(<< Check(keys[i].prefixed, "expected sha256:<hex>"),
                                      Check(keys[i].hex, "invalid hex digest"),
                                      Check(keys[i].bytes = 32, "digest must be 32 bytes") >>)])
    IN  [result  |-> result,
         digests |-> IF result = Ok THEN {keys[i].digest : i \in DOMAIN keys} ELSE {}]

\* The token of an Authorization header: the scheme is matched without regard
\* to case, and an empty token is no token.
bearer_from_str(header) ==
    IF header.scheme \in {"Bearer", "bearer"} /\ header.token # ""
    THEN Some(header.token) ELSE None

ApiKeyStore_verify(digests, token) == Sha256(token) \in digests

\* The REST middleware and the gRPC interceptor read the header the same way;
\* no store is installed in development mode.
Authorised(store, header) ==
    IsSome(store) =>
        /\ IsSome(header)
        /\ IsSome(bearer_from_str(Get(header)))
        /\ ApiKeyStore_verify(Get(store), Get(bearer_from_str(Get(header))))

api_key_guard(store, header) == Check(Authorised(store, header), "401")

make_grpc_auth_interceptor(store, header) ==
    Check(Authorised(store, header), "unauthenticated")

-----------------------------------------------------------------------------
(* Start-up of the API daemon and of the supervisor. *)

from_pem_files(files) ==
    FirstFailure(<< Check(files.cert_readable, "reading TLS certificate"),
                    Check(files.key_readable, "reading TLS private key"),
                    Check(files.certs > 0, "no certificate found"),
                    Check(files.keys > 0, "no usable private key found") >>)

guard(cfg) ==
    LET loopback == cfg.grpc_loopback /\ cfg.rest_loopback
    IN  IF cfg.dev_mode
        THEN Check(loopback \/ cfg.allow_public_bind, "dev mode on a public address")
        ELSE FirstFailure(<< Check(cfg.keys # {}, "no API keys"),
                             Check(cfg.tls \/ loopback, "plaintext on a public address") >>)

\* The store the two listeners are given once the guard has passed.
serve_auth(cfg) == IF cfg.dev_mode THEN None ELSE Some(cfg.keys)

resolve_auth(cfg) ==
    CASE cfg.dev_mode                 -> Some("DevDisabled")
      [] ~cfg.dev_mode /\ IsSome(cfg.expected_peer_uid) -> cfg.expected_peer_uid
      [] OTHER                        -> None

WarmPoolComplete(cfg) ==
    \/ IsSome(cfg.warm_pool_tier) /\ IsSome(cfg.warm_pool_snapshot) /\ cfg.warm_pool_size > 0
    \/ cfg.warm_pool_tier = None /\ cfg.warm_pool_snapshot = None /\ cfg.warm_pool_size = 0

\* The host's memory in MiB, from /proc/meminfo or the fallback.
read_host_ram_mib(meminfo) ==
    IF IsSome(meminfo) /\ Get(meminfo) \div 1024 > 0 THEN Get(meminfo) \div 1024 ELSE 2048

Clamp(low, high, n) == IF n < low THEN low ELSE IF n > high THEN high ELSE n

derive_max_workspaces(ram_mib) == Clamp(1, 1024, ram_mib \div 512)

ceilings(cfg) ==
    LET ram == read_host_ram_mib(cfg.meminfo)
    IN  [max_workspaces |-> IF cfg.max_workspaces = 0 THEN derive_max_workspaces(ram)
                            ELSE cfg.max_workspaces,
         max_workspace_mem_mib |-> IF cfg.max_workspace_mem_mib = 0
                                   THEN (IF ram < 32768 THEN ram ELSE 32768)
                                   ELSE cfg.max_workspace_mem_mib]

MAX_RUNNER_WORKSPACES == 1000000

validate_workspace_ceiling(ceiling) ==
    FirstFailure(<< Check(ceiling > 0, "ceiling is zero"),
                    Check(ceiling <= MAX_RUNNER_WORKSPACES, "ceiling exceeds the fleet wire") >>)

plaintext_listener_allowed(cfg) ==
    cfg.ingress_loopback \/ (cfg.dev_mode /\ cfg.allow_public_bind)

\* The checks serve makes, in order, before the socket is bound.
supervisor_serve(cfg) ==
    FirstFailure(
      << Check(IsSome(resolve_auth(cfg)), "expected-peer-uid required"),
         Check(~cfg.legacy_switch, "NE_CONFIDENTIAL_MODE is no longer supported"),
         Check(cfg.requirements_met, "startup requirements"),
         Check(cfg.audit_opens, "opening audit log"),
         Check(WarmPoolComplete(cfg), "incomplete warm-pool config"),
         Check(cfg.profile = "standard" => (cfg.dev_mode \/ cfg.allow_software),
               "software attestation refused"),
         validate_workspace_ceiling(ceilings(cfg).max_workspaces),
         Check(cfg.ingress => cfg.ingress_cert = cfg.ingress_key, "partial ingress TLS"),
         Check((cfg.ingress /\ ~cfg.ingress_cert) =>
                   plaintext_listener_allowed(cfg),
               "plaintext ingress guard") >>)

-----------------------------------------------------------------------------
(* What each front door makes of a request before the core sees it. *)

Base64Length(bytes) == 4 * ((bytes + 2) \div 3)

\* A listener refuses what its own limits forbid; the reason is the status the
\* client sees.
rest_decode(req) ==
    FirstFailure(
      << Check(Base64Length(req.size) + KiB <= REST_MAX_BODY_BYTES, "413"),
         Check(req.op \in {"ExposePort", "UnexposePort"} => req.port \in 0..U16Max, "400"),
         Check(req.op \in {"WriteFile", "GetAttestationEvidence"} => req.base64, "400") >>)

grpc_decode(req) ==
    FirstFailure(
      << Check(req.size + KiB <= TRANSPORT_MAX_MESSAGE_BYTES, "out_of_range"),
         Check(req.op \in {"ExposePort", "UnexposePort"} => req.port \in 0..U16Max,
               "invalid_argument") >>)

\* Ports that do not fit are dropped without an error.
exposed_ports(ports) == {p \in ports : p \in 1..U16Max}

\* gRPC cannot tell an empty hostname from an absent one.
rest_hostname(req) == req.hostname
grpc_hostname(req) == IF req.hostname = Some("") THEN None ELSE req.hostname

-----------------------------------------------------------------------------
(* The core both doors call. *)

core_guest_port(port) == IF port = 0 THEN DEFAULT_GUEST_PORT ELSE port

core_max_bytes(max) ==
    IF max = 0 THEN 0
    ELSE IF max < MAX_INLINE_FILE_BYTES THEN max ELSE MAX_INLINE_FILE_BYTES

core_validate(req) ==
    CASE req.op = "CreateWorkspace" -> Check(req.vcpu_count <= U8Max, "Validation")
      [] req.op = "WriteFile" -> Check(req.size <= MAX_INLINE_FILE_BYTES, "Validation")
      [] req.op \in {"ExposePort", "UnexposePort"} -> Check(req.port # 0, "Validation")
      [] req.op = "GetAttestationEvidence" -> Check(req.size \in 16..64, "Validation")
      [] OTHER -> Ok

\* The SupervisorRequest the core sends.
core_request(req, hostname) ==
    [req EXCEPT !.guest_port = core_guest_port(@),
                !.max_bytes = core_max_bytes(@),
                !.ports = exposed_ports(@),
                !.hostname = hostname]

\* The response variant each call unpacks; any other is Unexpected.
ExpectedResponse ==
    [Ping |-> "Pong", GetCapabilities |-> "Capabilities",
     CreateWorkspace |-> "WorkspaceCreated", Terminate |-> "WorkspaceTerminated",
     RunCommand |-> "CommandCompleted", WriteFile |-> "FileWritten",
     ReadFile |-> "FileRead", PauseWorkspace |-> "WorkspacePaused",
     ResumeWorkspace |-> "WorkspaceResumed", SnapshotWorkspace |-> "SnapshotCreated",
     ForkWorkspace |-> "WorkspaceForked", RestoreWorkspace |-> "WorkspaceRestored",
     ListEvents |-> "Events", PoolStatus |-> "PoolStatus", ExposePort |-> "PortExposed",
     UnexposePort |-> "PortUnexposed",
     GetAttestationEvidence |-> "AttestationEvidenceIssued"]

PublicOperations == DOMAIN ExpectedResponse

-----------------------------------------------------------------------------
(* Errors on the way back. *)

SupervisorErrorKinds ==
    {"Unauthorized", "InvalidRequest", "InvalidImageDigest", "ImageNotFound",
     "ImageRejected", "ImageDigestMismatch", "ImageStageFailed", "Unsupported",
     "UnsupportedForProfile", "WorkspaceAlreadyExists", "WorkspaceNotFound",
     "LaunchFailed", "GuestUnreachable", "GuestProtocolError", "Timeout", "Internal",
     "PathRejected", "FileTooLarge", "FileNotFound", "IoError", "SnapshotFailed",
     "RestoreFailed", "InvalidSnapshot", "WorkspaceNotPaused", "WorkspaceAlreadyPaused",
     "ForkFailed", "TierNotFound", "CapacityExceeded", "ConfidentialCapacityExceeded",
     "WorkspaceNotNetworked", "IngressPortNotFound", "AttestationReplay"}

\* The kinds without a public code of their own.
Uncoded == {"LaunchFailed", "GuestProtocolError", "IoError", "Internal", "CapacityExceeded"}

supervisor_kind_code(kind) == IF kind \in Uncoded THEN "INTERNAL" ELSE kind

\* A CoreError is a validation failure, a typed supervisor error, or a failure
\* of the socket: Io, or Serde and Unexpected.
CoreErrors ==
    {[class |-> "Validation", kind |-> "none"], [class |-> "Io", kind |-> "none"],
     [class |-> "Serde", kind |-> "none"], [class |-> "Unexpected", kind |-> "none"]}
    \cup {[class |-> "Supervisor", kind |-> k] : k \in SupervisorErrorKinds}

CoreError_code(e) ==
    CASE e.class = "Validation" -> "VALIDATION"
      [] e.class = "Supervisor" -> supervisor_kind_code(e.kind)
      [] e.class = "Io"         -> "SUPERVISOR_UNAVAILABLE"
      [] OTHER                  -> "INTERNAL"

BadRequest == {"InvalidRequest", "InvalidImageDigest", "PathRejected", "FileTooLarge"}

Preconditions ==
    {"ImageRejected", "ImageDigestMismatch", "InvalidSnapshot", "WorkspaceNotPaused",
     "WorkspaceAlreadyPaused", "WorkspaceNotNetworked", "AttestationReplay",
     "UnsupportedForProfile", "ConfidentialCapacityExceeded"}

Missing ==
    {"WorkspaceNotFound", "FileNotFound", "ImageNotFound", "TierNotFound",
     "IngressPortNotFound"}

\* The REST status of an error.
core_error_to_http(e) ==
    CASE e.class = "Validation" -> "400"
      [] e.class = "Io" -> "503"
      [] e.class \in {"Serde", "Unexpected"} -> "500"
      [] e.kind = "Unauthorized" -> "403"
      [] e.kind \in BadRequest -> "400"
      [] e.kind = "Unsupported" -> "501"
      [] e.kind \in Preconditions \cup {"WorkspaceAlreadyExists"} -> "409"
      [] e.kind \in Missing -> "404"
      [] e.kind = "Timeout" -> "504"
      [] e.kind = "GuestUnreachable" -> "503"
      [] OTHER -> "500"

\* Mutant: an already existing workspace is reported as a missing one.
kind_to_status_swapped(kind) ==
    IF kind \in Missing \cup {"WorkspaceAlreadyExists"} THEN "not_found" ELSE "internal"

\* The gRPC status of a supervisor error.
kind_to_status(kind) ==
    CASE kind = "Unauthorized" -> "permission_denied"
      [] kind \in BadRequest -> "invalid_argument"
      [] kind = "Unsupported" -> "unimplemented"
      [] kind = "WorkspaceAlreadyExists" -> "already_exists"
      [] kind \in Missing -> "not_found"
      [] kind = "Timeout" -> "deadline_exceeded"
      [] kind = "GuestUnreachable" -> "unavailable"
      [] kind \in Preconditions -> "failed_precondition"
      [] OTHER -> "internal"

core_error_to_grpc(e) ==
    CASE e.class = "Validation" -> "invalid_argument"
      [] e.class = "Io" -> "unavailable"
      [] e.class \in {"Serde", "Unexpected"} -> "internal"
      [] OTHER -> kind_to_status(e.kind)

=============================================================================
