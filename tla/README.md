# Verification of ne-enclave

TLA+ models of the parts of ne-enclave where concurrency, failure or a value at
its limit decides correctness. TLC checks them on small instances; for the
modules listed under "Proofs", TLAPS proves properties for every value of the
constants.

## The system

ne-enclave runs untrusted workloads in Firecracker microVMs. The privileged
`ne-supervisor` owns every VM of a host; `ne-api` takes gRPC and REST requests
and forwards them over a Unix socket; `ne-ingress` routes HTTP requests to the
guests; `ne-guest-agent` executes commands in a guest; `nee` installs all of it.

| Part | Source (`src/crates/`) | State | Module |
|---|---|---|---|
| Capacity ledger | `ne-supervisor/src/capacity.rs` | entries, revision, fault flag, guard objects | `CapacityLedger`, `CapacityLedgerProofs` |
| Workspace manager | `ne-supervisor/src/workspace.rs` | registry, lifecycle leases, processes, jail directories | `WorkspaceManager`, `WorkspaceManagerProofs` |
| Process control | `ne-supervisor/src/firecracker.rs` | one child per VM, vsock connections | outcomes in `WorkspaceManager`, `WarmPool`; vsock in `GuestRequests` |
| Task tracker | `workspace.rs`, `LifecycleTasks` | accepting, active, waiters | `LifecycleTasks`, `LifecycleTasksProofs` |
| Warm pool | `ne-supervisor/src/pool.rs`, pool half of `workspace.rs` | queue, in-flight count, permits | `WarmPool`, `WarmPoolProofs` |
| Network controller | `ne-supervisor/src/network.rs` | slots, netns, veth, routes, rules, helpers | `NetworkIngress`, `NetworkIngressProofs` (slots, interleavings), `Egress` (rules) |
| DNS filter, privacy router | `ne-dns-filter`, `ne-privacy-router` | none | operators of `NetworkPolicy`, used by `Egress` |
| Ingress registry and router | `ne-ingress` | routes, exposed ports | `NetworkIngress`, operators of `NetworkPolicy` |
| Attestation evidence and verification | `ne-attestation`, `ne-protocol/src/attestation.rs`, `ne-enclave-wasm`, `ne/src/attestation_cli.rs` | nonce rings | `Attestation`, `EvidenceVerifiers`; rings in `NetworkIngress` |
| Sealing, key release | `ne-seal`, `ne-supervisor/src/seal.rs`, `signing.rs` | files of a snapshot, host key | `Sealing`, which implements `SealedStore` |
| API server, IPC, dispatch | `ne-api`, `ne-supervisor/src/ipc.rs`, `command.rs`, `serve.rs` | configuration | `ApiSurface`, used by `GuestRequests` |
| Guest operations | `workspace.rs`, `firecracker.rs`, `openshell.rs`, `ne-guest-agent` | file, commands, identity, connections | `GuestRequests`, which implements `AtomicFile` |
| Audit log | `ne-supervisor/src/audit.rs`, `ne-protocol/src/audit.rs` | file, chain head, pending writes | `AuditChain`, `AuditChainProofs` |
| Fleet client | `ne-api/src/fleet_client.rs`, `ne-protocol/src/fleet.rs` | session, sequence, pending poll | `FleetPoll`, `FleetPollProofs` |
| Installer, image store | `ne/src/install`, `ne-supervisor/src/image.rs` | directories, files, image store | `Provisioning` |
| Image builder, rest of the CLI, SDKs | `ne-image`, `ne/src`, `sdk/` | none of their own | not modelled |

How they interact: every boot reserves an entry of the ledger before it launches
a process and turns the reservation into a registered guard when the workspace
enters the registry; the warm pool reserves entries in batches and a tiered
create adopts a member's entry in place; the tracker counts every accepted
request and refill so that shutdown can wait for them before it drains the pool;
the fleet client reports what the ledger publishes. `WorkspaceManager` and
`WarmPool` extend `CapacityLedger` and call its actions; `Sealing` extends the
attestation modules and calls the verifier; `GuestRequests` extends
`ApiSurface` and follows a request through both daemons; `NetworkIngress` and
`Egress` share the operators of `NetworkPolicy`.

## Modules

`Outcomes` holds the idiom the sequential code is written in: a function that
returns at its first failing check is `FirstFailure(<<Check(...), ...>>)`, in the
order of the code; an optional value is `None` or `Some(x)`.

### CapacityLedger

The table behind one mutex. A guard object that still owns its entry is a pair
in `guards`; each ledger or guard method is one action with its outcome `ok` as
an argument, so that `WorkspaceManager` and `WarmPool` call it by conjoining it
with their own step. `ReleaseEntry` is the guards' `Drop`. A faulted ledger
refuses everything. CPU and memory figures are left out: admission does not
read them.

### WorkspaceManager (extends CapacityLedger)

A task is one accepted request: `boot` (create, restore, fork), `terminate`,
`snapshot`, or `live` (snapshot with hot swap). Its program counter stops at
every await that gives up the registry lock or waits for a process. A boot is
named by the task that launched it, which is the code's `boot_id`. Launch
failures, children that cannot be confirmed dead, API calls that time out
before or after they took effect, and directories that cannot be removed are
choices of the environment. `ImplementsLedger` is the refinement: through every
interleaving the manager's ledger variables behave as `LedgerSpec`.

### WarmPool (extends CapacityLedger)

Refills reserve slots and entries, provisions boot and push members, creates pop
and adopt or evict them, and shutdown closes, waits and drains. A pool entry id
names the provision, its permit and its VM. The tracker appears as its two
variables; its own protocol is in `LifecycleTasks`. It refines `LedgerSpec` as
well.

### LifecycleTasks

`begin`, the permit's drop, the cleanup an operation spawns from `Drop`, `close`
in its two steps (flag, then notification) and `wait` in four (create the
`Notified`, read the count, poll, wake). A `Notified` sees every
`notify_waiters` since its creation, which is tokio's contract and external.

### AuditChain

`emit` composes, writes and commits under the chain mutex. The write itself runs
on tokio's blocking pool, and `teardown` aborts the relay tasks of a workspace
wherever they wait: an emit aborted in its `flush` gives the mutex back, its
write goes on (`stray`) and the chain state is not advanced. `aborted` has the
places in the file where such lines went. A write may stop part way, by an error
or with the process; what reached the file survives, and the fragment may end
inside a character (`Garbled`), which `read_line` refuses: neither `list` nor
`Open` gets past it. `Open` recovers the chain head from the last line that
parses. `list` and `verify_chain` are operators over the file; the events a
reader has got from it are the set of their places, in whose order they come.
Hashes are injective: `prev` is the event it hashes. Loss of power is not
modelled (the code does not fsync).

### NetworkPolicy, NetworkIngress, Egress

`NetworkPolicy` has the pure parts: the address layout of a slot, CIDR checks,
the allow list and the DNS filter's decision, the privacy router's scan, host
parsing, the route decision and the upstream headers.

`NetworkIngress` has create (under its lease), terminate, attest, expose,
unexpose and a proxied request (all without one) as steps over the slot table,
the host's netns and veth, the registry, the routes, the ports and the nonce
rings. `raced`, `lost`, `leaked` and `strayed` are history variables used by
properties.

`Egress` has the host commands of `setup` and `teardown` in their order, over a
host whose objects are named by workspace (netns, veth, chain) or by slot
(addresses, jump, masquerade, route). A command may fail: `setup` then stops and
leaves what it made, `teardown` goes on. `teardown` is two steps: up to `ip netns
del`, and then the `ip link del` of the veth by its name and the release of the
slot, between which the id may be set up again; `cut` has the workspaces that
lost their veth to such a late deletion. The supervisor may restart with an
empty slot table. The redirects of ports 53 and 80 apply to the helpers in the
netns as to the guest, since the code adds them to OUTPUT and PREROUTING.
`HostVerdict` walks the FORWARD chain as netfilter does.

### Attestation, EvidenceVerifiers, Sealing, SealedStore

`Attestation` generates evidence for the three providers and verifies it, check
by check; bytes are abstract, a hash is a tagged copy of its input, a signature
records its key and message. `EvidenceVerifiers` puts the key-release gate, the
WASM binding and the command line side by side. Clocks are 64-bit and their
difference saturates, as in the code; a window of `i64::MAX` seconds or more is
therefore no window. `Sealing` writes and reads the
files of a snapshot: a file is torn from the moment a write begins until it
completes, calls overlap, and the supervisor may crash between any two steps,
those that create the host key pair among them: a start cut short after the
private key leaves a public key file or a file mode that no later start
repairs. A
container is a sequence of records bound to their index, the last one flagged;
the bound data does not name the file, so what is claimed of a container is
claimed of each file by itself (`ad_for`).
`SealedStore` is the abstract promise: an open delivers the snapshot only if an
intact copy was there at one moment of the open.

### ApiSurface, GuestRequests, AtomicFile

`ApiSurface` has authentication, argument checks, the translation of requests
and of errors on both surfaces, the dispatch gate of each execution profile and
the start-up guards. In `GuestRequests` a call goes through the API, the socket,
the handler's registry lookup, the connection, the guest's work and back; the
guest's work is a process of its own that goes on when the host has given up.
An audit event is written or, as `audit_emit` is best effort, dropped
(`Unwritten`). The surfaces differ in one input, a fork's `hostname` of `Some("")`,
which REST passes on and gRPC cannot express.
The workspace may die, be terminated, be created again under the same id or be
forked. `AtomicFile` is what a client may rely on: a write takes effect once or
never, success is told only afterwards, refusal only if it never does.

### FleetPoll

The poll loop: prepare a request, send, wait, apply the answer or map the error,
retry with the same request or stop for a named reason. A `foreign` answer is one
something else on the way gives: a redirect, a gateway's error, a body that does
not parse. The control plane is not
in the repository and is modelled as external, from the error codes and replay
classes of `ne-protocol`.

### Provisioning

A command (`install`, `uninstall`, `image import`) is the sequence of its
file-system steps and may be killed between any two; the operator edits policies
and the service account replaces entries of directories it owns. The host may be
new or have a legacy layout, with a store that account owns until an install
hardens it. An import copies chunk by chunk. The supervisor resolves images by
digest, keeps them open, copies them into a jail and rolls back. `rewritten` has
the files that were written to after they matched their digest: those the
service account owns, and those a copy is still going on in.

### MCServices

The tracker, the fleet client and the audit log share no state. One run checks
them: `service` says which of them a behaviour is of, the others rest, and what is
checked of each is what its own specification says.

## Runs

Passing runs:

| Run | Bounds | What it shows |
|---|---|---|
| `ledger` | 3 ids, ceiling 3, revision <= 11, pool ids < 4 | one owner per entry, valid and versioned inventory |
| `manager` | 2 ids, ceiling 2, 4 requests, revision <= 40 | processes, registry, leases, directories and ledger agree; ledger refinement |
| `pool` | 2 ids, ceiling 2, target 1, in flight 2, 2 pool ids, 1 refill at a time | slots released once, one owner per member, warm VMs charged, shutdown completes and leaves none; ledger refinement |
| `services` | 3 operations; 4 emits; sequence <= 3, 1 capacity change, 2 processes | tracker: `wait` returns, and only when all is quiet for good; audit log: only an aborted emit breaks the listed chain, and only across its own line, and every window of a good log verifies; fleet client: in step with the control plane, reports in order, polls answered |
| `network` | 2 ids, 2 slots, 4 requests | a slot has one owner, none is lost silently, serial requests leave nothing behind, a proxied request reaches its own guest unless its id was changing; headers, nonces, routes and listeners |
| `seal` | 2 seals, 2 unseals, 1 crash, 4 configurations, 2 policies; verifiers over 4 hosts, 32 policies, 3 nonces, 5 clocks | `SealedStore` is implemented, an undisturbed seal opens, keys go only to a host the policy accepts, damaged containers are refused, all verifiers agree |
| `guest` | 2 calls out of 13 kinds, 2 boots, 3 set-ups | `AtomicFile` is implemented, what the audit log has is true, every call is answered, forks have their own identity, both surfaces agree |
| `egress` | 2 ids, 2 slots, 3 set-ups, 2 faults, 5 policies, 2 configurations | policy decides exactly what gets out, live networks stay intact but for a veth a late teardown of the same id takes, helpers mediate |
| `install` | 2 commands, 1 launch, 4 image files, 1 replacement by the service account | launches use verified images unless one was rewritten while open, a completed install is complete, edits and foreign directories are respected |

Why the bounds are enough: two ids are needed for one workspace to disturb
another, and four requests are a boot, its snapshot, and a terminate and a
second boot of the same id inside that snapshot. Ceiling and slots equal to the
number of ids make the tables fill. `ledger` lets both counters reach their
maximum, which stands for `u64::MAX`; the `manager` run sets the revision high
enough never to be reached, since overflow is the ledger's question. Sequence 3
stands for `u64::MAX` in the fleet client, and 6 for `i64::MAX` in `seal`, whose
clocks include both ends of the type. Four emits allow a torn or aborted write,
a restart and a line on both sides. Two seals and two unseals are an overlap and
a retry. Two calls are a write and a read, or two writes, one of which outlives
its deadline. Three set-ups over two slots reuse a slot after a fault. The
safety properties of `pool` also hold with two overlapping refills and a target
of 2 (740,747 states), and the properties of `install` with two replacements
(11,570,498 states); both take too long to run every time. Symmetry is used over
ids, requests and seal calls only in runs whose temporal properties, if any, are
safety properties that name no particular one.

`CHECK_DEADLOCK FALSE` is set where the system may stop: all
calls are answered, or a bound on commands, boots or set-ups is used up.

Type invariants are checked as a conjunct of another invariant of the run
(`RegistryBacked`, `SlotsNeverLeak`, `GoodLogVerifies`, `NeverOutOfStep`,
`VerifiersAgree`, `SurfacesAgree`, `IngressDecisions`, `StagedImagesVerified`);
those of the ledger and the tracker are proved by themselves, those of the
manager, the pool, the audit log and the fleet client as part of the first four.
`VerifiersAgree`, `SurfacesAgree` and `IngressDecisions` also carry the
decisions of pure functions, compared over all inputs of the instance with a
reference definition or with each other.

Violation runs:

| Run | The repository says | The model shows |
|---|---|---|
| `inline_sizes` | "Tonic's 4 MiB default would otherwise reject valid >4 MiB writes" (`ne-api/src/lib.rs:50`), "Hard cap 10 MiB" (`runtime.proto:370`) | a write within 10 MiB is ended by the 1 MiB frame limit of the supervisor's socket (`ipc.rs:37`) |
| `audit_aborts` | "each event records `chain_index` (monotonic from 0) and `prev_hash_hex`" (`audit.rs:28`) | `teardown` aborts a relay that waits in `emit` (`network.rs:654`): its line reaches the log, and the next event has the same index |
| `dns_upstream` | "Queries for names matching the allowlist [...] get forwarded to the configured upstream resolver and the answer is relayed back to the client" (`ne-dns-filter/src/lib.rs:10`) | the redirect of port 53 in OUTPUT (`network.rs:1040`) returns the filter's own query to itself if the upstream listens on port 53, as the default does (`ne/src/cli.rs:229`) |

Disagreements between code and comments that the models contain and no property
contradicts, since each is an explicit exception or choice of the model:

* A create whose launch ends in `TerminationFailed` drops its reservation;
  `firecracker.rs:257` says "An unconfirmed child must never be reduced to a
  plain diagnostic while its capacity owner is released." `LiveVmCharged`
  exempts unconfirmed children.
* A pause that takes effect after its call timed out leaves a frozen VM recorded
  as Running; `workspace.rs:3094` says "the map must not lie about a
  still-frozen VM".
* After a torn write the next event joins the fragment: `emit` returns Ok, and
  the line does not parse, so the event is not listed (`audit.rs:166`). If the
  fragment ends inside a character, `list` fails from there on and the
  supervisor does not start again (`audit.rs:193`, `:269`).
* An operation succeeds though its audit event could not be written
  (`workspace.rs:1285`, which says so). `AuditTellsTruth` speaks of the events
  that were.
* A workspace created again under an id whose `teardown` has not ended may lose
  its veth, and the route over it, to the `ip link del` that `teardown` ends with
  (`network.rs:697`). `NetworkIntact` exempts these two (`cut`).
* A fork over REST with an empty `hostname` is sent as one; over gRPC it is the
  absent one (`server.rs:312`). The shared core, where "request validation and
  error classification have exactly one home and cannot drift" (`core.rs:8`), has
  no check of it. `SurfacesAgree` exempts this input.
* terminate frees the slot before it removes the route (`workspace.rs:2767`), so
  a request for one id can reach another guest meanwhile. `RequestsReachOwnGuest`
  says that only such overlaps do it.
* A FORWARD jump that `teardown` fails to delete sends the packets of the slot's
  next owner through the old chain (`network.rs:851`). `PolicyEnforced` exempts
  such workspaces (`Leftover`).
* The redirect of port 80 in OUTPUT returns the privacy router's own request to a
  server on port 80 to itself; `HelpersMediate` claims only what does not leave.
* A second install with a pinned default image fails on `create_new`, though
  `install/run.rs:51` says "Idempotent: re-running is a no-op where state
  exists."; an import killed while copying leaves a file no import replaces,
  and an install killed while writing a policy leaves it torn for every later one
  (`install/run.rs:443`). `CompletedInstall` exempts both (`interrupted`).
* A failed import removes its file by path (`install/image.rs:155`). With a purge
  and another import in between, it removes the other's file; three commands are
  beyond the bound of the run.
* An image that the service account of a legacy host owns, or that an import is
  still copying to, may change between the supervisor's check of its digest and
  the copy into the jail. `StagedImagesVerified` exempts these files (`rewritten`).
* uninstall without purge removes a privacy policy the operator has edited.
* A write on the confidential profile is not atomic (SFTP), though `core.rs`
  says so of every write; the handshake of a sandbox command has no deadline.
* A vsock endpoint looked up before a terminate may reach a later boot of the
  same id.

## Fairness

* The tracker in `services`: a spawned task ends and a woken task runs (weak
  fairness on the ends of operations and cleanups, the notification and the
  waiter). Tokio polls every runnable task. Guest and Firecracker API calls have
  timeouts (`firecracker.rs:643`, `:1005`); file I/O, host commands and the exit
  of a killed child have none, and are assumed to return. Nothing makes an
  operation start or the supervisor close.
* `pool`: weak fairness on the steps of tasks that have begun; the close itself
  is not fair.
* The fleet client in `services`: weak fairness on the client's steps; strong
  fairness on delivery, i.e. a request resent for ever is handled at some point.
  `PollAcknowledged` is only claimed under that network assumption.
* `guest`: weak fairness on the host's steps, its timers among them, and on the
  guest agent's own timer for a command. Nothing is assumed of the guest's
  answers, of the connection or of the client.

## Proofs

`CapacityLedgerProofs` proves every property of the `ledger` run, type
correctness and `FaultIsTerminal` for every finite set of ids and every ceiling
and counter maximum in `Nat`. The inductive invariant is `LedgerInv`: the type
invariant, `CeilingHeld`, `GuardsOwnEntries`, `EveryEntryOwned` and
`PoolIdsFresh`. `GuardsOwnEntries` alone is not inductive: a batch could hand
out a pool id that is in use, hence `PoolIdsFresh`; and the validity of a
published inventory needs `CeilingHeld`, since `validate` compares against the
ceiling. There is one lemma per action. `InventoryVersioned` and
`FaultIsTerminal` are action properties from the same invariant. Assumption:
`LedgerConstants`.

`LifecycleTasksProofs` proves type correctness, the exact count, the acceptance
of cleanups and `QuietAfterWait` for every finite set of operations
(`OperationsFinite`). `TrackerInv` adds `WaitAfterClose` (a waiter exists only
after the close, and has returned only with a count of zero) to the count and
the acceptance of cleanups: without it nothing rules out an operation that
begins after `wait` returned.

`WorkspaceManagerProofs` proves that `WorkspaceManager` implements `LedgerSpec`
for every set of ids and requests: what is proved of the ledger holds of it
inside the supervisor. A ledger call by a request that has lost its guard would
be no step of the ledger, so the invariant `ManagerInv` says who owns the guard
of an id (`Ownership`): a boot between its reservation and its insertion or drop,
the registry, or a terminate that took the entry out, and never two of them. The
leases are not needed for this; the ledger refuses a second entry for an id.
Assumptions: `LedgerConstants`, `ManagerConstants` (a request and a workspace id
are different things: a process is named after the request that booted it).

`WorkspaceProcessProofs` proves the four invariants of the `manager` run,
`LiveVmCharged`, `RegistryBacked`, `SnapshotOfCapturedBoot` and
`NothingLeftOver`, for every set of ids and requests. None is inductive. The
invariant `ProcInv` (its parts and the lemmas about ordinary steps are in
`WorkspaceManagerProofs`) says who answers for a live process: the request that
launched it, the registry, or the one request about to reap it (`Kept`); that a
lease has one holder (`Leases`); that a registered workspace has a process and a
directory of its own (`Backed`); what a snapshot or terminate knows of the boot
it works on (`Sources`); and that every entry and every `Snapshotting` state has
someone to end it while the ledger is healthy (`Accounted`). The snapshot
property needs the lease: a terminate takes none and may remove the boot being
dumped, but no second boot of the id can then reach its directory before the
snapshot has ended. There is one lemma per action.

`WarmPoolProofs` proves the same refinement for `WarmPool`, and
`MembersOwnedAndCharged`, for every target, number of refills and set of creates.
`PoolInv` follows the two guards of a pool id: the reservation is its permit's
until the drop or `ready_in_place` (`PermitGuards`); the ready guard belongs to
the provision about to stow the member, the queue or the drain (`MemberGuards`)
or to one create (`CreatorGuards`).

It also proves `SlotsNeverLeak` and `ShutdownLeavesNoWarmVm`. `Counts` adds to
`PoolInv` that the slots are those of the permits, a fault aside (`Slots`: also
that a pool id once provisioned is never handed out again, without which a
permit could own two slots); that the tracker counts exactly the loop, refills,
provisions and creates that run (`Counted`), so that `wait` returns only when
there are none; what is closed at each step of the shutdown (`Stopping`); and
that a running warm VM has an owner (`WarmOwned`), so that none is left when no
task runs, the queue is empty and the drain is done. Steps are sorted by what
they do to the counts: nothing, one more, one less. Assumptions:
`LedgerConstants`, `PoolConstants`.

`FleetPollProofs` proves both safety properties of the fleet client for every
bound on polls, revisions and restarts. Neither is inductive: a late copy of an
old request could put the control plane out of step. `PollInv` therefore
describes every request on the wire (`Messages`: of the running process only the
pending request carries the current sequence number), how far the control plane
may be ahead (`Standing`) and what an answer under way answers (`Answering`).
Assumption: `FleetConstants`.

`NetworkIngressProofs` proves `SlotsAccounted` for every number of slots, ids and
requests. `SlotInv` gives every slot one owner (`Owners`). Registering a create
would lose the slot of a workspace registered before it under the same id; it
never does, since one create at a time is past the lease of an id, which was not
registered when the lease was taken (`Claims`). Each action moves a slot in one
of six ways (`MovesSlot`), and one lemma shows that all six keep `Owners`.

It also proves `SerialIdsConsistent` and `RequestsReachOwnGuest`. `SerialInv` says
of an id that was not raced that at most one create or terminate is at work on it
(`Alone`); that what this one has found or done on the devices and in the tables
still holds at its next step (`Knows`), and that otherwise they agree with the
registration (`Agree`). A request resolved to an address is then either on such an
id, whose slot nobody else can have got meanwhile, or on one the property names.
Assumption: `NetworkConstants` (the slot bound is a number; no id is the absent
one).

`AuditChainProofs` proves both properties of the audit log in `services` for
every number of emits. The order and the links of the lines that parse
(`Linked`) are not inductive: they say nothing of what the next event will
follow. `AuditInv` says how the chain state stands, while the supervisor runs,
to the lines after the last one of an aborted emit (`ChainHead`): it counts
every event there, except possibly one that is written and not committed or was
left without its newline; such a line is made into one that does not parse by
the next append (`OnTop`) or counted by the next start. `Issued` and `Appending`
keep the writes apart: any number may be pending after aborts, but only one has
part of its line in the file, the last one, and if nobody waits for it that line
is in `aborted`. `Whole` is what holds until a write stops part way, `Straight`
what holds if in addition no aborted emit left a line: the index of an event is
its place. A listed window verifies because it contains every event between two
of its own, so that each follows the same event as in the log. Assumption:
`AuditConstants` (a line that does not parse, or is not UTF-8, is no event).

Every one of these invariants was first checked by TLC on the instance of its
run, those of the pool with two refills and a target of 2.

Only model-checked: all liveness (`WaitReturns`, `ShutdownCompletes`,
`PollAcknowledged`, `RequestsAnswered`), which the prover does not do;
`IngressDecisions`, `VerifiersAgree` and `SurfacesAgree`, which compare what pure
functions compute over all inputs of the instance, many of them recursive or
filters over sequences, for which the prover has no induction; and the remaining
properties of `Sealing`, `GuestRequests`, `Egress` and `Provisioning`, with the
refinements of `SealedStore` and `AtomicFile`: their steps are built from those
functions (evidence checks, frames, the verdict of a rule list, plans of
commands), and their proofs have not been attempted.

## Not modelled

* `create_confidential` and the start and end of the sandbox process: the
  sandbox appears in `GuestRequests` as a workspace that lives or dies.
* pause and resume of a workspace: refused by the code.
* What lifecycle requests answer; what guest operations answer is modelled.
* Byte formats: JSON, gRPC, DNS packets, attestation reports, certificates. They
  are records with a well-formedness flag where the code checks it, and lengths
  where it compares them.
* Cryptography is ideal. AMD and TPM hardware, the control plane, tokio,
  netfilter, systemd and the PII engine are external and modelled from their
  use.
* The router's connection permits, body streaming, upgrades and TLS.
* Concurrent setups, and the commands of a teardown one by one, in `Egress`: those
  of different workspaces touch no common name, and the slot table they share is
  interleaved in `NetworkIngress`. For one id, a setup may come between the two
  halves of a teardown; before `ip netns del` it would fail, since the name is
  taken.
* The headers of a request the privacy router forwards.
* User accounts and host probes of the installer; the image builder; argument
  parsing and output of the CLI; the SDKs. They hold no state that another part
  reads concurrently.
