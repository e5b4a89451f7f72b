---------------------------- MODULE GuestRequests ----------------------------
(***************************************************************************)
(* The life of a client's request: the API daemon (REST or gRPC), the      *)
(* supervisor's socket, the handler, the channel to the workspace (vsock   *)
(* to the guest agent, or SSH/SFTP to the confidential sandbox), the work  *)
(* in the guest, and the answer on its way back through the audit log.     *)
(*                                                                         *)
(* Requests run concurrently against one workspace id.  The virtual        *)
(* machine may die or be replaced under them, either side may time out     *)
(* first, and the guest's work goes on after the host has given up.  The   *)
(* handlers that create and terminate workspaces are modelled in detail in *)
(* WorkspaceManager and are one step here; a fork keeps its identity       *)
(* reset, which talks to the guest.                                        *)
(***************************************************************************)
EXTENDS ApiSurface

CONSTANTS Calls,      \* the requests of all clients
          Inputs,     \* what a client may ask
          Setups,     \* configurations of the two daemons, with the caller's uid
          MaxBoots    \* bound on the virtual machines booted

VARIABLES setup,      \* the daemons' configuration: chosen once
          machine,    \* the workspace: stage and boot number
          identity,   \* hostname, machine-id and entropy of the guest
          file,       \* the content of the one file: Nothing, Torn or its writer
          pc,         \* where each call is
          call,       \* what was forwarded to the supervisor
          endpoint,   \* the boot the handler looked up
          conn,       \* the boot its connection leads to; 0 if none
          agent,      \* the guest's work for the call
          wire,       \* the guest's answer on its way to the host
          reply,      \* the supervisor's response
          audit,      \* the events recorded for the call
          outcome,    \* what the client is told
          applied,    \* the writes that took effect (history)
          looked,     \* what a read saw (history)
          cut         \* the calls a frame limit ended (history)

gvars == << setup, machine, identity, file, pc, call, endpoint, conn, agent, wire,
            reply, audit, outcome, applied, looked, cut >>

guestvars == << machine, identity, file, agent, wire, applied, looked >>

Nothing == "absent"
Torn == "torn"

profile_of == setup.profile
Atomic == profile_of = "standard"

NoReply == [variant |-> "none", kind |-> "none", value |-> Nothing]
Answer(variant, value) == [variant |-> variant, kind |-> "none", value |-> value]
Failure(kind) == [variant |-> "Error", kind |-> kind, value |-> Nothing]

Pending == [told |-> "nothing", status |-> "none", value |-> Nothing]

FileOps == {"WriteFile", "ReadFile"}
ControlOps == FileOps \cup {"RunCommand"}

-----------------------------------------------------------------------------
(* The API daemon. *)

\* A status tells the client that nothing was done, or that it cannot know.
Refusals ==
    {"400", "401", "403", "404", "409", "413", "501", "invalid_argument", "unauthenticated",
     "permission_denied", "not_found", "already_exists", "failed_precondition",
     "out_of_range", "unimplemented"}

Told(status) == IF status \in Refusals THEN "refused" ELSE "unknown"

Finish(r, told, status, value) ==
    /\ pc' = [pc EXCEPT ![r] = "done"]
    /\ outcome' = [outcome EXCEPT ![r] = [told |-> told, status |-> status, value |-> value]]

FinishError(r, error) ==
    LET status == IF call[r].surface = "rest" THEN core_error_to_http(error)
                  ELSE core_error_to_grpc(error)
    IN  Finish(r, Told(status), status, Nothing)

\* What a front door refuses by itself, in the order it looks.
door(auth_store, req) ==
    IF req.surface = "rest"
    THEN FirstFailure(<< api_key_guard(auth_store, req.header), rest_decode(req) >>)
    ELSE FirstFailure(<< make_grpc_auth_interceptor(auth_store, req.header), grpc_decode(req) >>)

forwarded(req) ==
    core_request(req, IF req.surface = "rest" THEN rest_hostname(req) ELSE grpc_hostname(req))

ValidationStatus(surface) == IF surface = "rest" THEN "400" ELSE "invalid_argument"

Submit(r) ==
    \E input \in Inputs :
       LET refusal == FirstFailure(<< door(serve_auth(setup.api), input),
                                      IF core_validate(input) = Ok THEN Ok
                                      ELSE ValidationStatus(input.surface) >>)
       IN  /\ pc[r] = "idle"
           /\ IF refusal = Ok
              THEN /\ call' = [call EXCEPT ![r] = forwarded(input)]
                   /\ pc' = [pc EXCEPT ![r] = "ipc"]
                   /\ UNCHANGED outcome
              ELSE Finish(r, "refused", refusal, Nothing) /\ UNCHANGED call
           /\ UNCHANGED << setup, guestvars, endpoint, conn, reply, audit, cut >>

\* SupervisorClient::call unpacks the response, or reports the typed error.
Respond(r) ==
    /\ pc[r] = "answered"
    /\ IF reply[r].variant = "Error"
       THEN FinishError(r, [class |-> "Supervisor", kind |-> reply[r].kind])
       ELSE Finish(r, "ok", "ok", reply[r].value)
    /\ UNCHANGED << setup, guestvars, call, endpoint, conn, reply, audit, cut >>

-----------------------------------------------------------------------------
(* The supervisor's socket. *)

\* The content travels as a JSON array of numbers: req.digits characters a byte.
FrameLength(req) == IF req.op = "WriteFile" THEN req.size * req.digits + KiB ELSE KiB

PeerAccepted(auth, uid) == auth = "DevDisabled" \/ auth = uid

To(r, where) == pc' = [pc EXCEPT ![r] = where]

Reply(r, response) == To(r, "answered") /\ reply' = [reply EXCEPT ![r] = response]

\* audit_emit is best effort: when the log cannot be written the daemon notes a
\* warning of its own and the request goes on.
Unwritten == << "audit emit failed", "none" >>

Emit(r, event) ==
    \E line \in {event, Unwritten} : audit' = [audit EXCEPT ![r] = Append(@, line)]

\* ipc::handle_connection and the gate of CommandDispatcher::dispatch.  A frame
\* over the limit ends the connection without a response: the client sees its
\* write fail, or an end of file where a response should be.
Ipc(r) ==
    /\ pc[r] = "ipc"
    /\ LET auth == Get(resolve_auth(setup.sup))
           gate == dispatch_gate(profile_of, call[r].op)
       IN  \/ /\ ~PeerAccepted(auth, setup.uid)
              /\ Reply(r, Failure("Unauthorized"))
              /\ UNCHANGED << outcome, cut >>
           \/ /\ PeerAccepted(auth, setup.uid)
              /\ FrameLength(call[r]) > MAX_IPC_FRAME_BYTES
              /\ \E class \in {"Io", "Serde"} : FinishError(r, [class |-> class, kind |-> "none"])
              /\ cut' = cut \cup {r}
              /\ UNCHANGED reply
           \/ /\ PeerAccepted(auth, setup.uid)
              /\ FrameLength(call[r]) <= MAX_IPC_FRAME_BYTES
              /\ IF gate = Ok THEN To(r, "handler") /\ UNCHANGED reply ELSE Reply(r, Failure(gate))
              /\ UNCHANGED << outcome, cut >>
    /\ UNCHANGED << setup, guestvars, call, endpoint, conn, audit >>

-----------------------------------------------------------------------------
(* The handlers. *)

\* A guest that died keeps its place in the registry until it is terminated; one
\* that boots holds the id without being registered.
Vacant == machine.stage = "absent"
Registered == machine.stage \in {"live", "dead"}
Running == machine.stage \in {"booting", "live"}

\* Everything a guest was doing ends with it.
Fresh(stage, values) ==
    /\ machine' = [stage |-> stage,
                   boot |-> machine.boot + (IF stage \in {"booting", "live"} THEN 1 ELSE 0)]
    /\ identity' = [hostname |-> values, machine_id |-> values, entropy |-> values]
    /\ file' = Nothing
    /\ agent' = [c \in Calls |-> "none"]
    /\ wire' = [c \in Calls |-> None]

\* create and terminate, whole (see WorkspaceManager): a created guest has an
\* identity of its own.
Lifecycle(r) ==
    /\ pc[r] = "handler"
    /\ \/ /\ call[r].op = "CreateWorkspace" /\ ~Vacant
          /\ Reply(r, Failure("WorkspaceAlreadyExists"))
          /\ UNCHANGED << machine, identity, file, agent, wire, audit >>
       \/ /\ call[r].op = "CreateWorkspace" /\ Vacant /\ machine.boot < MaxBoots
          /\ Fresh("live", machine.boot + 1)
          /\ Emit(r, << "WorkspaceCreated", "none" >>)
          /\ Reply(r, Answer("WorkspaceCreated", Nothing))
       \/ /\ call[r].op = "CreateWorkspace" /\ Vacant
          /\ Reply(r, Failure("LaunchFailed"))
          /\ Emit(r, << "CommandFailed", "none" >>)
          /\ UNCHANGED << machine, identity, file, agent, wire >>
       \/ /\ call[r].op = "Terminate" /\ ~Registered
          /\ Reply(r, Failure("WorkspaceNotFound"))
          /\ UNCHANGED << machine, identity, file, agent, wire, audit >>
       \/ /\ call[r].op = "Terminate" /\ Registered
          /\ Fresh("absent", 0)
          /\ Emit(r, << "WorkspaceTerminated", "none" >>)
          /\ Reply(r, Answer("WorkspaceTerminated", Nothing))
    /\ UNCHANGED << setup, call, endpoint, conn, outcome, applied, looked, cut >>

\* workspace_control: the endpoint is copied and the registry unlocked.
Lookup(r) ==
    /\ pc[r] = "handler" /\ call[r].op \in ControlOps
    /\ IF Registered
       THEN /\ To(r, "connect")
            /\ endpoint' = [endpoint EXCEPT ![r] = machine.boot]
            /\ UNCHANGED reply
       ELSE Reply(r, Failure("WorkspaceNotFound")) /\ UNCHANGED endpoint
    /\ UNCHANGED << setup, guestvars, call, conn, audit, outcome, cut >>

FailureEvent(r) == IF call[r].op = "RunCommand" THEN "CommandExecuted" ELSE "FileOpFailed"

\* Every way a control call fails before the guest has answered is recorded.
ControlFails(r, kind) ==
    /\ Emit(r, << FailureEvent(r), kind >>)
    /\ Reply(r, Failure(kind))

\* A path relative to the workspace without empty, "." or ".." segments.
validate_relative_path(path) == path \notin {"empty", "absolute", "dots", "nul"}

\* confidential_workspace_path: the supervisor checks it, before any connection.
ConfidentialPath(r) ==
    /\ pc[r] = "connect" /\ ~Atomic /\ call[r].op \in FileOps
    /\ ~validate_relative_path(call[r].path)
    /\ ControlFails(r, "PathRejected")
    /\ UNCHANGED << setup, guestvars, call, endpoint, conn, outcome, cut >>

\* The vsock socket has the same path in every boot of the workspace id; a
\* sandbox has a port and a secret of its own.
Reaches(r) ==
    /\ Running
    /\ IF Atomic THEN call[r].guest_port = DEFAULT_GUEST_PORT ELSE endpoint[r] = machine.boot

Connect(r) ==
    /\ pc[r] = "connect"
    /\ ~Atomic /\ call[r].op \in FileOps => validate_relative_path(call[r].path)
    /\ Reaches(r)
    /\ conn' = [conn EXCEPT ![r] = machine.boot]
    /\ agent' = [agent EXCEPT ![r] = "received"]
    /\ To(r, "sent")
    /\ UNCHANGED << setup, machine, identity, file, call, endpoint, wire, reply, audit, outcome,
                    applied, looked, cut >>

\* No listener, a refused CONNECT or handshake, an I/O error.
ConnectFails(r) ==
    /\ pc[r] = "connect"
    /\ ControlFails(r, "GuestUnreachable")
    /\ UNCHANGED << setup, guestvars, call, endpoint, conn, outcome, cut >>

\* The connection ended without a whole answer.  An exec channel that closes is
\* the end of the output, whatever closed it.
ConnectionLost(r) ==
    /\ pc[r] = "sent" /\ call[r].op \in ControlOps
    /\ wire[r] = None
    /\ ~Running \/ conn[r] # machine.boot \/ agent[r] = "none"
    /\ IF call[r].op = "RunCommand" /\ ~Atomic
       THEN /\ Emit(r, << "CommandExecuted", "none" >>)
            /\ Reply(r, Answer("CommandCompleted", Nothing))
       ELSE ControlFails(r, "GuestUnreachable")
    /\ UNCHANGED << setup, guestvars, call, endpoint, conn, outcome, cut >>

\* One deadline covers the vsock connection, the handshake and the exchange; on
\* the exec channel of a sandbox it starts after the handshake.
DeadlineRuns(r) ==
    \/ pc[r] = "sent"
    \/ pc[r] = "connect" /\ (Atomic \/ call[r].op \in FileOps)

HostTimeout(r) ==
    /\ DeadlineRuns(r) /\ call[r].op \in ControlOps
    /\ ControlFails(r, "Timeout")
    /\ UNCHANGED << setup, guestvars, call, endpoint, conn, outcome, cut >>

\* The error of a guest as run_command reports it, and as the file handlers do.
command_error_kind(kind) ==
    CASE kind = "CommandFailed" -> "LaunchFailed"
      [] kind \in {"Timeout", "InvalidRequest"} -> kind
      [] OTHER -> "Internal"

guest_kind_to_supervisor_kind(kind) ==
    IF kind \in {"PathRejected", "FileNotFound", "FileTooLarge", "IoError"} THEN kind
    ELSE command_error_kind(kind)

\* What a handler records and replies once the guest has answered: an answer of
\* the wrong variant is not recorded.
NoEvent == << "none", "none" >>

HandlerTail(expected, success, failure, kind, answer) ==
    CASE answer.variant = expected -> [event |-> << success, "none" >>, reply |-> answer]
      [] answer.variant = "Error" -> [event |-> << failure, kind >>, reply |-> Failure(kind)]
      [] OTHER -> [event |-> NoEvent, reply |-> Failure("GuestProtocolError")]

run_command(answer) ==
    HandlerTail("CommandCompleted", "CommandExecuted", "CommandExecuted",
                command_error_kind(answer.kind), answer)

write_file(answer) ==
    HandlerTail("FileWritten", "FileWritten", "FileOpFailed",
                guest_kind_to_supervisor_kind(answer.kind), answer)

read_file(answer) ==
    HandlerTail("FileRead", "FileRead", "FileOpFailed",
                guest_kind_to_supervisor_kind(answer.kind), answer)

\* Mutant: a failed file operation is recorded as a success.
ReceiveMisrecorded(r) ==
    /\ pc[r] = "sent" /\ call[r].op \in ControlOps /\ IsSome(wire[r])
    /\ Emit(r, << IF call[r].op = "RunCommand" THEN "CommandExecuted" ELSE "FileWritten", "none" >>)
    /\ Reply(r, Failure("Internal"))
    /\ wire' = [wire EXCEPT ![r] = None]
    /\ UNCHANGED << setup, machine, identity, file, agent, applied, looked, call, endpoint,
                    conn, outcome, cut >>

\* The host reads the answer up to a limit of its own.
Receive(r) ==
    /\ pc[r] = "sent" /\ call[r].op \in ControlOps /\ IsSome(wire[r])
    /\ LET answer == Get(wire[r])
           tail == CASE call[r].op = "RunCommand" -> run_command(answer)
                     [] call[r].op = "WriteFile" -> write_file(answer)
                     [] call[r].op = "ReadFile" -> read_file(answer)
       IN  IF answer.variant = "Oversized"
           THEN ControlFails(r, "GuestUnreachable") /\ cut' = cut \cup {r}
           ELSE /\ IF tail.event = NoEvent THEN UNCHANGED audit ELSE Emit(r, tail.event)
                /\ Reply(r, tail.reply)
                /\ UNCHANGED cut
    /\ wire' = [wire EXCEPT ![r] = None]
    /\ UNCHANGED << setup, machine, identity, file, agent, applied, looked, call, endpoint,
                    conn, outcome >>

-----------------------------------------------------------------------------
(* The guest agent: one task for each connection. *)

\* The agent writes its answer; nobody reads it once the host has given up.
GuestSays(r, answer, next) ==
    /\ agent' = [agent EXCEPT ![r] = next]
    /\ wire' = [wire EXCEPT ![r] = IF pc[r] = "sent" THEN Some(answer) ELSE None]

AtGuest(r, where, op) == agent[r] = where /\ call[r].op = op

GuestUnchanged == UNCHANGED << setup, machine, identity, pc, call, endpoint, conn, reply, audit,
                               outcome, cut >>

\* The lexical check, and the check that the parent directory stays in the jail.
PathError(path) == FirstFailure(<< Check(validate_relative_path(path), "PathRejected"),
                                   Check(path # "linked", "PathRejected") >>)

\* Mutant: the file is written in place.
WriteTempInPlace(r) ==
    /\ Atomic /\ AtGuest(r, "received", "WriteFile")
    /\ IF PathError(call[r].path) # Ok
       THEN GuestSays(r, Failure(PathError(call[r].path)), "finished") /\ UNCHANGED file
       ELSE agent' = [agent EXCEPT ![r] = "temp"] /\ file' = Torn /\ UNCHANGED wire
    /\ UNCHANGED << applied, looked >> /\ GuestUnchanged

\* write_file_atomic, until the temporary file exists.
WriteTemp(r) ==
    /\ Atomic /\ AtGuest(r, "received", "WriteFile")
    /\ IF PathError(call[r].path) # Ok
       THEN GuestSays(r, Failure(PathError(call[r].path)), "finished")
       ELSE agent' = [agent EXCEPT ![r] = "temp"] /\ UNCHANGED wire
    /\ UNCHANGED << file, applied, looked >> /\ GuestUnchanged

\* Writing, syncing or renaming the temporary file fails: it is removed.
WriteFails(r) ==
    /\ agent[r] \in {"temp", "temp_late"}
    /\ IF agent[r] = "temp" THEN GuestSays(r, Failure("IoError"), "finished")
       ELSE agent' = [agent EXCEPT ![r] = "finished"] /\ UNCHANGED wire
    /\ UNCHANGED << file, applied, looked >> /\ GuestUnchanged

Install(r, value) ==
    IF call[r].path = "file" THEN file' = value /\ applied' = applied \cup {r}
    ELSE UNCHANGED << file, applied >>

WriteRename(r) ==
    /\ agent[r] \in {"temp", "temp_late"}
    /\ agent' = [agent EXCEPT ![r] = IF agent[r] = "temp" THEN "renamed" ELSE "finished"]
    /\ Install(r, r)
    /\ UNCHANGED << wire, looked >> /\ GuestUnchanged

WriteReply(r) ==
    /\ agent[r] = "renamed"
    /\ GuestSays(r, Answer("FileWritten", Nothing), "finished")
    /\ UNCHANGED << file, applied, looked >> /\ GuestUnchanged

\* The size of a file the workload made by itself, the bytes of it a read
\* returns, and the limit of the host on the answer.
BigFile == [size |-> MAX_INLINE_FILE_BYTES, digits |-> 4]

read_file_capped(max) == IF max = 0 \/ max > BigFile.size THEN BigFile.size ELSE max

ReadAnswer(r) ==
    IF /\ call[r].path = "big" /\ Atomic
       /\ read_file_capped(call[r].max_bytes) * BigFile.digits + KiB > MAX_GUEST_FRAME_BYTES
    THEN Answer("Oversized", Nothing)
    ELSE Answer("FileRead", looked[r])

ReadOpen(r) ==
    /\ Atomic /\ AtGuest(r, "received", "ReadFile")
    /\ LET error == FirstFailure(<< PathError(call[r].path),
                                    Check(call[r].path = "big" \/ file # Nothing, "FileNotFound") >>)
       IN  IF error # Ok
           THEN GuestSays(r, Failure(error), "finished") /\ UNCHANGED looked
           ELSE /\ agent' = [agent EXCEPT ![r] = "read"]
                /\ looked' = [looked EXCEPT ![r] = IF call[r].path = "file" THEN file ELSE Nothing]
                /\ UNCHANGED wire
    /\ UNCHANGED << file, applied >> /\ GuestUnchanged

ReadReply(r) ==
    /\ agent[r] = "read"
    /\ GuestSays(r, ReadAnswer(r), "finished")
    /\ UNCHANGED << file, applied, looked >> /\ GuestUnchanged

\* FILE_OP_TIMEOUT: the agent answers, the blocking thread goes on.
FileOpTimeout(r) ==
    /\ Atomic /\ agent[r] \in {"temp", "renamed", "read"}
    /\ GuestSays(r, Failure("Timeout"), IF agent[r] = "temp" THEN "temp_late" ELSE "finished")
    /\ UNCHANGED << file, applied, looked >> /\ GuestUnchanged

\* run_command, and the exec channel of a sandbox.
CommandStart(r) ==
    /\ AtGuest(r, "received", "RunCommand")
    /\ \/ agent' = [agent EXCEPT ![r] = "running"] /\ UNCHANGED wire
       \/ Atomic /\ GuestSays(r, Failure("CommandFailed"), "finished")
    /\ UNCHANGED << file, applied, looked >> /\ GuestUnchanged

CommandExits(r) ==
    /\ agent[r] = "running"
    /\ \E answer \in {Answer("CommandCompleted", Nothing)}
                     \cup (IF Atomic THEN {Failure("CommandFailed")} ELSE {}) :
          GuestSays(r, answer, "finished")
    /\ UNCHANGED << file, applied, looked >> /\ GuestUnchanged

\* Mutant: the timer belongs to the connection, and ends with it.
CommandTimeoutWhileHeard(r) ==
    /\ Atomic /\ agent[r] = "running" /\ call[r].timeout # 0 /\ pc[r] = "sent"
    /\ GuestSays(r, Failure("Timeout"), "finished")
    /\ UNCHANGED << file, applied, looked >> /\ GuestUnchanged

\* The agent kills the child; without a timeout it waits for it for ever.
CommandTimeout(r) ==
    /\ Atomic /\ agent[r] = "running" /\ call[r].timeout # 0
    /\ GuestSays(r, Failure("Timeout"), "finished")
    /\ UNCHANGED << file, applied, looked >> /\ GuestUnchanged

\* The host does not trust the guest to answer in turn.
AnswersOutOfTurn(r) ==
    /\ Atomic /\ agent[r] = "received"
    /\ GuestSays(r, Answer("Other", Nothing), "finished")
    /\ UNCHANGED << file, applied, looked >> /\ GuestUnchanged

-----------------------------------------------------------------------------
(* The sandbox of the confidential profile: SFTP writes in place. *)

\* create truncates the file before the content is sent.
SftpCreate(r) ==
    /\ ~Atomic /\ AtGuest(r, "received", "WriteFile") /\ pc[r] = "sent"
    /\ agent' = [agent EXCEPT ![r] = "created"]
    /\ file' = IF call[r].path = "file" THEN Torn ELSE file
    /\ UNCHANGED << wire, applied, looked >> /\ GuestUnchanged

\* Two writers that overlap may leave a mixture.
Overlap(r) == \E c \in Calls \ {r} : agent[c] = "created"

SftpStore(r) ==
    /\ ~Atomic /\ agent[r] = "created"
    /\ agent' = [agent EXCEPT ![r] = "renamed"]
    /\ \E value \in {r} \cup (IF Overlap(r) THEN {Torn} ELSE {}) : Install(r, value)
    /\ UNCHANGED << wire, looked >> /\ GuestUnchanged

SftpRead(r) ==
    /\ ~Atomic /\ AtGuest(r, "received", "ReadFile") /\ pc[r] = "sent"
    /\ call[r].path = "file" => file # Nothing
    /\ agent' = [agent EXCEPT ![r] = "read"]
    /\ \E value \in IF call[r].path # "file" THEN {Nothing}
                     ELSE {file} \cup (IF Overlap(r) THEN {Torn} ELSE {}) :
          looked' = [looked EXCEPT ![r] = value]
    /\ UNCHANGED << file, wire, applied >> /\ GuestUnchanged

\* A step of the SFTP session fails, a missing file among them: what was done to
\* the file stays done.
SftpFails(r) ==
    /\ ~Atomic /\ call[r].op \in FileOps
    /\ agent[r] \in {"received", "created", "renamed", "read"}
    /\ agent' = [agent EXCEPT ![r] = "none"]
    /\ UNCHANGED << file, wire, applied, looked >> /\ GuestUnchanged

-----------------------------------------------------------------------------
(* Fork: a clone of a snapshot is given an identity of its own before it is   *)
(* registered.                                                                *)

Source == 0

ForkBoot(r) ==
    /\ pc[r] = "handler" /\ call[r].op = "ForkWorkspace"
    /\ \/ /\ ~Vacant
          /\ Reply(r, Failure("WorkspaceAlreadyExists"))
          /\ UNCHANGED << guestvars, audit >>
       \/ /\ Vacant
          /\ Emit(r, << "CommandFailed", "none" >>) /\ Reply(r, Failure("InvalidSnapshot"))
          /\ UNCHANGED guestvars
       \/ /\ Vacant /\ machine.boot < MaxBoots
          /\ Fresh("booting", Source)
          /\ To(r, "ready")
          /\ UNCHANGED << reply, audit, applied, looked >>
    /\ UNCHANGED << setup, call, endpoint, conn, outcome, cut >>

\* wait_for_guest_ready heard a Pong; the identity reset is sent.
GuestReady(r) ==
    /\ pc[r] = "ready"
    /\ conn' = [conn EXCEPT ![r] = machine.boot]
    /\ agent' = [agent EXCEPT ![r] = "received"]
    /\ To(r, "sent")
    /\ UNCHANGED << setup, machine, identity, file, call, endpoint, wire, reply, audit, outcome,
                    applied, looked, cut >>

\* Not ready in time, no entropy (Internal), a timeout, a lost connection: the
\* clone is torn down.
Teardown(r, kind) ==
    /\ Fresh("absent", Source)
    /\ Emit(r, << "CommandFailed", "none" >>) /\ Reply(r, Failure(kind))

ForkFails(r) ==
    /\ pc[r] \in {"ready", "sent"} /\ call[r].op = "ForkWorkspace"
    /\ \E kind \in {"ForkFailed"} \cup (IF pc[r] = "ready" THEN {"Internal"} ELSE {}) :
          Teardown(r, kind)
    /\ UNCHANGED << setup, call, endpoint, conn, outcome, applied, looked, cut >>

\* Mutant: any answer of the guest is taken for a successful reset.
ForkReceiveAny(r) ==
    /\ pc[r] = "sent" /\ call[r].op = "ForkWorkspace" /\ IsSome(wire[r])
    /\ machine' = [machine EXCEPT !.stage = "live"]
    /\ wire' = [wire EXCEPT ![r] = None]
    /\ Emit(r, << "WorkspaceForked", "none" >>) /\ Reply(r, Answer("WorkspaceForked", Nothing))
    /\ UNCHANGED << identity, file, agent >>
    /\ UNCHANGED << setup, call, endpoint, conn, outcome, applied, looked, cut >>

ForkReceive(r) ==
    /\ pc[r] = "sent" /\ call[r].op = "ForkWorkspace" /\ IsSome(wire[r])
    /\ IF Get(wire[r]).variant = "IdentityReset"
       THEN /\ machine' = [machine EXCEPT !.stage = "live"]
            /\ wire' = [wire EXCEPT ![r] = None]
            /\ Emit(r, << "WorkspaceForked", "none" >>) /\ Reply(r, Answer("WorkspaceForked", Nothing))
            /\ UNCHANGED << identity, file, agent >>
       ELSE Teardown(r, "ForkFailed")
    /\ UNCHANGED << setup, call, endpoint, conn, outcome, applied, looked, cut >>

validate_hostname(hostname) == hostname # Some("")

IdentityUnchanged == UNCHANGED << setup, machine, file, pc, call, endpoint, conn, reply, audit,
                                  outcome, applied, looked, cut >>

\* reset_identity: all arguments are checked before the first effect; an effect
\* that fails leaves the ones before it.
ResetIdentity(r) ==
    /\ call[r].op = "ForkWorkspace"
    /\ \/ /\ agent[r] = "received" /\ ~validate_hostname(call[r].hostname)
          /\ GuestSays(r, Failure("InvalidRequest"), "finished") /\ UNCHANGED identity
       \/ /\ agent[r] = "received" /\ validate_hostname(call[r].hostname)
          /\ identity' = [identity EXCEPT !.hostname = machine.boot]
          /\ agent' = [agent EXCEPT ![r] = "named"] /\ UNCHANGED wire
       \/ /\ agent[r] = "named"
          /\ identity' = [identity EXCEPT !.machine_id = machine.boot]
          /\ agent' = [agent EXCEPT ![r] = "numbered"] /\ UNCHANGED wire
       \/ /\ agent[r] = "numbered"
          /\ identity' = [identity EXCEPT !.entropy = machine.boot]
          /\ GuestSays(r, Answer("IdentityReset", Nothing), "finished")
       \/ /\ agent[r] \in {"received", "named", "numbered"}
          /\ agent[r] = "received" => validate_hostname(call[r].hostname)
          /\ GuestSays(r, Failure("IoError"), "finished") /\ UNCHANGED identity
    /\ IdentityUnchanged

-----------------------------------------------------------------------------

\* Handlers that leave the workspace alone: either kind of response.
Handled == ControlOps \cup {"CreateWorkspace", "Terminate", "ForkWorkspace"}

OtherHandler(r) ==
    /\ pc[r] = "handler" /\ call[r].op \notin Handled
    /\ \E response \in {Answer(ExpectedResponse[call[r].op], Nothing), Failure("Internal")} :
          Reply(r, response)
    /\ UNCHANGED << setup, guestvars, call, endpoint, conn, audit, outcome, cut >>

\* The guest dies under its clients.
GuestDies ==
    /\ machine.stage = "live"
    /\ Fresh("dead", Source)
    /\ UNCHANGED << setup, pc, call, endpoint, conn, reply, audit, outcome, applied, looked, cut >>

\* A client outside Calls terminates the workspace; a call may create it anew.
OthersTerminate ==
    /\ Registered
    /\ Fresh("absent", Source)
    /\ UNCHANGED << setup, pc, call, endpoint, conn, reply, audit, outcome, applied, looked, cut >>

NoCall == [surface |-> "none", op |-> "none", path |-> "none"]

GuestInit ==
    /\ setup \in Setups
    /\ machine = [stage |-> "live", boot |-> 1]
    /\ identity = [hostname |-> 1, machine_id |-> 1, entropy |-> 1]
    /\ file = Nothing
    /\ pc = [c \in Calls |-> "idle"]
    /\ call = [c \in Calls |-> NoCall]
    /\ endpoint = [c \in Calls |-> 0]
    /\ conn = [c \in Calls |-> 0]
    /\ agent = [c \in Calls |-> "none"]
    /\ wire = [c \in Calls |-> None]
    /\ reply = [c \in Calls |-> NoReply]
    /\ audit = [c \in Calls |-> << >>]
    /\ outcome = [c \in Calls |-> Pending]
    /\ applied = {}
    /\ looked = [c \in Calls |-> Nothing]
    /\ cut = {}

HostStep(r) ==
    \/ Ipc(r) \/ Lifecycle(r) \/ Lookup(r) \/ ConfidentialPath(r) \/ ForkBoot(r) \/ OtherHandler(r)
    \/ HostTimeout(r) \/ ForkFails(r) \/ Respond(r)

ChannelStep(r) ==
    \/ Connect(r) \/ ConnectFails(r) \/ ConnectionLost(r) \/ Receive(r)
    \/ GuestReady(r) \/ ForkReceive(r)

GuestStep(r) ==
    \/ WriteTemp(r) \/ WriteFails(r) \/ WriteRename(r) \/ WriteReply(r)
    \/ ReadOpen(r) \/ ReadReply(r) \/ FileOpTimeout(r)
    \/ CommandStart(r) \/ CommandExits(r) \/ CommandTimeout(r) \/ AnswersOutOfTurn(r)
    \/ SftpCreate(r) \/ SftpStore(r) \/ SftpRead(r) \/ SftpFails(r) \/ ResetIdentity(r)

GuestNext ==
    \/ \E r \in Calls : Submit(r) \/ HostStep(r) \/ ChannelStep(r) \/ GuestStep(r)
    \/ GuestDies \/ OthersTerminate

\* The host's tasks run and its timers fire; so does the timer the guest agent
\* keeps for a command.  Nothing is assumed of the guest's answers, of the
\* connection or of the client.
GuestFairness ==
    \A r \in Calls : WF_gvars(HostStep(r)) /\ WF_gvars(CommandTimeout(r))

GuestSpec == GuestInit /\ [][GuestNext]_gvars /\ GuestFairness

-----------------------------------------------------------------------------
(* Properties *)

GuestTypeOK ==
    /\ setup \in Setups
    /\ machine.stage \in {"absent", "booting", "live", "dead"} /\ machine.boot \in 1..MaxBoots
    /\ file \in Calls \cup {Nothing, Torn}
    /\ \A r \in Calls :
         /\ pc[r] \in {"idle", "ipc", "handler", "connect", "ready", "sent", "answered", "done"}
         /\ agent[r] \in {"none", "received", "temp", "temp_late", "renamed", "read", "running",
                          "created", "named", "numbered", "finished"}
         /\ outcome[r].told \in {"nothing", "ok", "refused", "unknown"}
         /\ Len(audit[r]) <= 1
    /\ applied \subseteq Calls /\ cut \subseteq Calls

FileKind(c) ==
    IF call[c].path # "file" THEN "none"
    ELSE IF call[c].op = "WriteFile" THEN "write"
    ELSE IF call[c].op = "ReadFile" THEN "read" ELSE "none"

Register == INSTANCE AtomicFile WITH
    Empty <- Nothing, Damaged <- Torn, Tearing <- ~Atomic,
    kind <- [c \in Calls |-> FileKind(c)],
    content <- file, seen <- looked,
    told <- [c \in Calls |-> outcome[c].told],
    returned <- [c \in Calls |-> outcome[c].value]

\* The file contract holds end to end: what a client is told about a write
\* (write_file through both daemons, write_file_atomic in the guest) is what
\* happens to the file, and on the standard profile nobody sees a torn file.
ImplementsAtomicFile == Register!AtomicFileSpec

ReachedGuest(r) == call[r].op \in ControlOps /\ endpoint[r] # 0 /\ pc[r] \in {"answered", "done"}

\* The audit log tells the truth about file operations and commands.  For every
\* operation that found its workspace one event is emitted, whatever became of
\* it, unless the guest answered out of turn; the event is in the log, or the log
\* could not be written.  A recorded write took effect, a write that took effect
\* is never recorded as one that did nothing, and a client who is told that its
\* write failed for a reason finds that reason in the log (run_command,
\* write_file and read_file of the supervisor, audit_emit).
AuditTellsTruth ==
    \A r \in Calls : ReachedGuest(r) =>
        /\ Len(audit[r]) = IF reply[r].kind = "GuestProtocolError" THEN 0 ELSE 1
        /\ \A i \in DOMAIN audit[r] : audit[r][i] # Unwritten =>
             /\ audit[r][i] = << "FileWritten", "none" >> /\ call[r].path = "file" => r \in applied
             /\ r \in applied =>
                  audit[r][i] \in {<< "FileWritten", "none" >>, << "FileOpFailed", "Timeout" >>,
                                  << "FileOpFailed", "GuestUnreachable" >>}
             /\ audit[r][i][2] = reply[r].kind

\* A fork is never served with the identity of its source: fork registers a
\* clone only after reset_identity has changed every part of it.
ForkNeverKeepsIdentity ==
    machine.stage = "live" =>
        identity = [hostname |-> machine.boot, machine_id |-> machine.boot, entropy |-> machine.boot]

\* The one wait of the supervisor without a deadline: the handshake of
\* run_command with a sandbox.
NoDeadline(r) == pc[r] = "connect" /\ ~Atomic /\ call[r].op = "RunCommand"

\* Every request is answered, whatever the guest does: each wait of the
\* supervisor has a deadline, but for NoDeadline.  And a command with a timeout
\* does not outlive it, even when the host has given up first and nobody hears
\* the answer (run_command of the guest agent).
RequestsAnswered ==
    \A r \in Calls :
        /\ (pc[r] # "idle") ~> (pc[r] = "done" \/ NoDeadline(r))
        /\ (agent[r] = "running" /\ Atomic /\ call[r].timeout # 0) ~> (agent[r] # "running")

\* The HTTP status a gRPC status stands for.
HttpClass ==
    [invalid_argument |-> "400", unauthenticated |-> "401", permission_denied |-> "403",
     not_found |-> "404", already_exists |-> "409", failed_precondition |-> "409",
     unimplemented |-> "501", internal |-> "500", unavailable |-> "503",
     deadline_exceeded |-> "504"]

\* The clients that exist, at the limits of every argument.
Corners ==
    {[surface |-> "rest", header |-> header, op |-> op, path |-> "file", size |-> size,
      digits |-> 4, timeout |-> 0, guest_port |-> port, max_bytes |-> max, port |-> port,
      ports |-> {0, 80, U16Max, U16Max + 1}, vcpu_count |-> vcpus, hostname |-> hostname,
      base64 |-> TRUE] :
        header \in {None} \cup {Some([scheme |-> sch, token |-> t]) : sch \in {"Basic", "bearer"},
                                                             t \in {"", "key", "old"}},
        op \in {"CreateWorkspace", "WriteFile", "ReadFile", "ExposePort", "ForkWorkspace",
               "GetAttestationEvidence"},
        size \in {0, 15, 16, 64, 65, MAX_INLINE_FILE_BYTES, MAX_INLINE_FILE_BYTES + 1},
        port \in {0, 52, U16Max, U16Max + 1}, vcpus \in {0, U8Max, U8Max + 1},
        max \in {0, MAX_INLINE_FILE_BYTES + 1}, hostname \in {None, Some("web"), Some("")}}

\* What a door does with a request: the HTTP class of its refusal, or the
\* request it forwards.
Passed(auth_store, req) ==
    LET refusal == FirstFailure(<< door(auth_store, req),
                                   IF core_validate(req) = Ok THEN Ok
                                   ELSE ValidationStatus(req.surface) >>)
    IN  [refusal |-> IF refusal \in DOMAIN HttpClass THEN HttpClass[refusal] ELSE refusal,
         request |-> [forwarded(req) EXCEPT !.surface = "any"]]

FrontDoorDecisions ==
    /\ \A e \in CoreErrors : HttpClass[core_error_to_grpc(e)] = core_error_to_http(e)
    /\ \A e, f \in CoreErrors :
         CoreError_code(e) = CoreError_code(f) => core_error_to_http(e) = core_error_to_http(f)
    /\ \A profile \in ExecutionProfiles, op \in PublicOperations :
         LET operation == workspace_operation(op)
         IN  dispatch_gate(profile, op) = Ok <=>
                 \/ operation = None
                 \/ Get(operation) \in capabilities(profile).supported_operations
    /\ \A req \in Corners : \A keys \in {None, Some({Sha256("key")})} :
         LET rest == Passed(keys, req)
             grpc == Passed(keys, [req EXCEPT !.surface = "grpc"])
         IN  /\ rest.refusal = grpc.refusal
             /\ rest.request = [grpc.request EXCEPT !.hostname = req.hostname]
             /\ rest.request # grpc.request => req.hostname = Some("")
             /\ rest.refusal = Ok => rest.request.guest_port # 0

\* Key files, certificate files and command lines a daemon may be started with.
KeyLine(kind, hex, text) ==
    [kind |-> kind, prefixed |-> TRUE, hex |-> hex, bytes |-> 32, digest |-> Sha256(text)]
KeyFiles ==
    LET lines == {KeyLine("comment", FALSE, "key"), KeyLine("key", TRUE, "key"),
                  KeyLine("key", TRUE, "old"), KeyLine("key", FALSE, "key")}
    IN  UNION {[1..n -> lines] : n \in 0..2}
PemFiles == [cert_readable : BOOLEAN, key_readable : BOOLEAN, certs : 0..1, keys : 0..1]
ApiConfigs ==
    [dev_mode : BOOLEAN, grpc_loopback : BOOLEAN, rest_loopback : BOOLEAN, allow_public_bind : BOOLEAN,
     keys : {{}}, tls : {FALSE}]
SupervisorConfigs ==
    [dev_mode : BOOLEAN, expected_peer_uid : {None, Some("ne-api")}, legacy_switch : {FALSE},
     requirements_met : {TRUE}, audit_opens : {TRUE}, warm_pool_tier : {None, Some("small")},
     warm_pool_snapshot : {None, Some("base")}, warm_pool_size : 0..1,
     profile : ExecutionProfiles, allow_software : BOOLEAN, meminfo : {None, Some(1023), Some(2048 * KiB)},
     max_workspaces : {0, 1, 1000001}, max_workspace_mem_mib : {0}, ingress : BOOLEAN,
     ingress_cert : BOOLEAN, ingress_key : BOOLEAN, ingress_loopback : BOOLEAN,
     allow_public_bind : BOOLEAN]

\* The API daemon: what a loaded key file and certificate admit once guard has passed.
ApiStarts(args, lines, pem) ==
    LET loaded == ApiKeyStore_load(lines)
        cfg == [args EXCEPT !.keys = loaded.digests, !.tls = from_pem_files(pem) = Ok]
        header == Some([scheme |-> "Bearer", token |-> "key"])
        public == ~(cfg.grpc_loopback /\ cfg.rest_loopback)
    IN  loaded.result = Ok /\ guard(cfg) = Ok =>
           /\ public => \/ cfg.dev_mode /\ cfg.allow_public_bind
                        \/ ~cfg.dev_mode /\ pem.certs > 0 /\ pem.keys > 0
           /\ ~cfg.dev_mode =>
                 /\ lines # << >>
                 /\ Authorised(serve_auth(cfg), header)
                       <=> KeyLine("key", TRUE, "key") \in {lines[i] : i \in DOMAIN lines}

StartupDecisions ==
    /\ \A args \in ApiConfigs, lines \in KeyFiles, pem \in PemFiles : ApiStarts(args, lines, pem)
    /\ \A cfg \in SupervisorConfigs : supervisor_serve(cfg) = Ok =>
         /\ ~cfg.dev_mode => resolve_auth(cfg) = cfg.expected_peer_uid
         /\ ceilings(cfg).max_workspaces \in 1..MAX_RUNNER_WORKSPACES
         /\ ceilings(cfg).max_workspace_mem_mib > 0
         /\ cfg.ingress /\ ~cfg.ingress_loopback =>
               \/ cfg.ingress_cert /\ cfg.ingress_key
               \/ cfg.dev_mode /\ cfg.allow_public_bind
         /\ cfg.warm_pool_size > 0 <=> IsSome(cfg.warm_pool_snapshot)

\* REST and gRPC are the same service: any error is reported by both with the
\* same meaning and its code determines its status, a request is refused by both
\* or forwarded by both as the same request, and the dispatcher serves what the
\* capabilities advertise.  One request does differ: a fork with an empty hostname
\* is forwarded with it by REST, and the guest refuses it, where gRPC takes it for
\* an absent one (the core says that validation "cannot drift between the two
\* surfaces"; it has none for a hostname).  No command line, key file and certificate opens a
\* public door without keys and TLS unless the operator asked for it, and what is
\* derived from the host's memory is a usable ceiling (core_error_to_status in
\* rest.rs and server.rs, ApiConfig::guard, serve of the supervisor).
SurfacesAgree == GuestTypeOK /\ FrontDoorDecisions /\ StartupDecisions

\* A file operation within the inline limit is never ended by a frame limit.
InlineSizesServed ==
    \A r \in cut : call[r].size > MAX_INLINE_FILE_BYTES

=============================================================================
