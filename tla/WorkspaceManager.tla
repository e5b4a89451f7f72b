---------------------------- MODULE WorkspaceManager ----------------------------
(***************************************************************************)
(* The supervisor's workspace lifecycle (ne-supervisor, workspace.rs and   *)
(* the process half of firecracker.rs): create, restore, fork, terminate   *)
(* and snapshot requests run concurrently against the registry mutex, the  *)
(* lifecycle leases and the capacity ledger.                               *)
(*                                                                         *)
(* A task is one accepted request.  Every await that releases the registry *)
(* mutex or waits for a process ends a step; what happens under one lock   *)
(* hold is one step.  A task launches at most one VM, so a task names the  *)
(* boot (boot_id) it launches.  Host outcomes (a launch that fails, a      *)
(* child whose exit cannot be confirmed, an API call that times out before *)
(* or after it took effect, a chroot that cannot be removed) are choices.  *)
(* Networking and ingress are in NetworkIngress, the warm pool in WarmPool.*)
(***************************************************************************)
EXTENDS CapacityLedger

CONSTANTS
    Tasks,      \* accepted requests; also the names of the boots they launch
    None        \* no task, no registry entry

\* The provisional id of a live-swap boot is nobody's workspace id.
ASSUME ManagerConstants ==
    /\ None \notin Tasks \cup WorkspaceIds \cup [boot : Tasks, state : WorkspaceState]
    /\ Tasks \cap WorkspaceIds = {}

\* Requests.  "boot" is a create, a restore or a fork: they differ in which of
\* the optional steps (snapshot verification, guest reset) they take.
SnapOps == {"snapshot", "live"}
Ops == {"boot", "terminate"} \cup SnapOps

VARIABLES
    registry,   \* instances: id -> None or [boot, state]
    claims,     \* lifecycle_claims: ids with a path-owning operation in flight
    vm,         \* what the process of each boot is doing
    trees,      \* boots whose jail directory exists
    task        \* one record per request

mgr == <<registry, claims, vm, trees, task>>
vars == <<ledger, mgr>>

\* "Stranded" and "Lost" are processes nobody could confirm dead: the first after
\* a failed launch, the second after a failed terminate.
VmStatus == {"Unborn", "Running", "Frozen", "Dead", "Stranded", "Lost"}

PC == {"idle", "claim", "check", "reserve", "launch", "boot", "ready", "register",
       "insert", "teardown", "drop", "remove", "reap", "untree", "mark", "pause",
       "dump", "finalize", "copy", "swapboot", "swapready", "swap", "discard",
       "reapold", "finish", "done"}

Entry(b, s) == [boot |-> b, state |-> s]

IdleTask ==
    [op |-> "idle", id |-> None, pc |-> "idle", src |-> None, was |-> FALSE,
     act |-> "none", failed |-> FALSE, final |-> FALSE, dumped |-> None]

Init ==
    /\ LedgerInit
    /\ registry = [w \in WorkspaceIds |-> None]
    /\ claims = {}
    /\ vm = [t \in Tasks |-> "Unborn"]
    /\ trees = {}
    /\ task = [t \in Tasks |-> IdleTask]

-----------------------------------------------------------------------------
\* Helpers on one task and one boot.

At(t, pc) == task[t].pc = pc
Goto(t, pc) == task' = [task EXCEPT ![t].pc = pc]
GotoFail(t, pc) == task' = [task EXCEPT ![t].pc = pc, ![t].failed = TRUE]
Id(t) == task[t].id

\* A request that has returned keeps what names the boot it launched, if any.
Return(t) ==
    task' = [task EXCEPT ![t] =
               IF vm[t] = "Unborn" THEN [IdleTask EXCEPT !.pc = "done"]
               ELSE [IdleTask EXCEPT !.pc = "done", !.op = task[t].op, !.id = Id(t)]]

Registered(id, b) == registry[id] # None /\ registry[id].boot = b

\* The jail directory of a boot is named after the workspace id, except for a
\* live-swap boot, which runs under a fresh provisional id.
Dir(b) == IF task[b].op = "live" THEN b ELSE Id(b)

\* The boot whose API socket a path under directory d reaches.
Listeners(d) == {b \in trees : Dir(b) = d}

Live(b) == vm[b] \in {"Running", "Frozen"}
SetVm(b, s) == vm' = [vm EXCEPT ![b] = s]

\* firecracker::terminate.  Exit confirmed: the tree is removed, or stays behind
\* with a warning.  Not confirmed: the instance is kept in the error.
Terminate(b, ok) ==
    \/ /\ ok = TRUE
       /\ SetVm(b, "Dead")
       /\ \/ trees' = trees \ {b}
          \/ UNCHANGED trees
    \/ ok = FALSE /\ SetVm(b, "Lost") /\ UNCHANGED trees

\* terminate_unregistered_or_fault: an unconfirmed exit faults the ledger.
TerminateOrFault(b) ==
    \/ Terminate(b, TRUE) /\ UNCHANGED ledger
    \/ Terminate(b, FALSE) /\ FaultLedger

-----------------------------------------------------------------------------
\* Accepting a request (run_tracked_lifecycle).
Accept(t, op, id) ==
    /\ At(t, "idle")
    /\ task' = [task EXCEPT ![t] = [@ EXCEPT !.op = op, !.id = id,
                  !.pc = IF op = "terminate" THEN "remove" ELSE "claim"]]
    /\ UNCHANGED <<ledger, registry, claims, vm, trees>>

\* Mutant: a snapshot takes no lease.
ClaimLifecycleBootsOnly(t) ==
    /\ At(t, "claim")
    /\ IF task[t].op \in SnapOps THEN Goto(t, "mark") /\ UNCHANGED claims
       ELSE IF Id(t) \in claims THEN Return(t) /\ UNCHANGED claims
       ELSE claims' = claims \cup {Id(t)} /\ Goto(t, "check")
    /\ UNCHANGED <<ledger, registry, vm, trees>>

\* LifecycleClaims::claim, shared by claim_boot and snapshot.
ClaimLifecycle(t) ==
    /\ At(t, "claim")
    /\ IF Id(t) \in claims
       THEN Return(t) /\ UNCHANGED claims
       ELSE /\ claims' = claims \cup {Id(t)}
            /\ Goto(t, IF task[t].op \in SnapOps THEN "mark" ELSE "check")
    /\ UNCHANGED <<ledger, registry, vm, trees>>

\* The request returns: its lease drops and its locals go.
Finish(t) ==
    /\ At(t, "finish")
    /\ claims' = claims \ {Id(t)}
    /\ Return(t)
    /\ UNCHANGED <<ledger, registry, vm, trees>>

-----------------------------------------------------------------------------
\* create_inner, restore_inner, fork_inner.

\* prepare_snapshot_restore of a restore or fork: the artifact verifies or not; a
\* create that lacks digests or vCPUs is refused here too.
PrepareBoot(t) == Goto(t, "reserve") \/ GotoFail(t, "finish")

\* claim_boot's registry check, then the preparation, before anything is reserved.
BootCheck(t) ==
    /\ At(t, "check")
    /\ IF registry[Id(t)] # None THEN GotoFail(t, "finish") ELSE PrepareBoot(t)
    /\ UNCHANGED <<ledger, registry, claims, vm, trees>>

BootReserve(t) ==
    /\ At(t, "reserve")
    /\ \E ok \in BOOLEAN :
          /\ ReserveWorkspace(Id(t), ok)
          /\ IF ok THEN Goto(t, "launch") ELSE GotoFail(t, "finish")
    /\ UNCHANGED <<registry, claims, vm, trees>>

\* Up to the spawn: images, network, WorkspaceClaim::claim of the jail directory
\* and the jailer child.  An existing directory is left alone.
BootSpawn(t) ==
    /\ At(t, "launch")
    /\ \/ /\ GotoFail(t, "drop")
          /\ UNCHANGED <<vm, trees>>
       \/ /\ Listeners(Id(t)) = {}
          /\ trees' = trees \cup {t}
          /\ SetVm(t, "Running")
          /\ Goto(t, "boot")
    /\ UNCHANGED <<ledger, registry, claims>>

\* The rest of launch() or restore() fails: cleaned up, or, with
\* LaunchError::TerminationFailed, the child unconfirmed and the tree retained.
LaunchFails(t, next) ==
    /\ GotoFail(t, next)
    /\ \/ SetVm(t, "Dead") /\ trees' \in {trees, trees \ {t}}
       \/ SetVm(t, "Stranded") /\ UNCHANGED trees
    /\ UNCHANGED ledger

\* Configured and started; a restore or fork goes on to reset the guest.
BootLaunched(t) ==
    /\ At(t, "boot")
    /\ \/ /\ Goto(t, "register") \/ Goto(t, "ready")
          /\ UNCHANGED <<ledger, vm, trees>>
       \/ LaunchFails(t, "drop")
    /\ UNCHANGED <<registry, claims>>

\* Mutant: a boot that fails its identity reset forgets its reservation.
BootReadyForgets(t) ==
    /\ At(t, "ready")
    /\ \/ Goto(t, "register") /\ UNCHANGED <<ledger, vm, trees>>
       \/ GotoFail(t, "finish") /\ TerminateOrFault(t)
    /\ UNCHANGED <<registry, claims>>

\* boot_prepared_ready_reset: guest ready and identity reset, else terminate.
BootReady(t) ==
    /\ At(t, "ready")
    /\ \/ Goto(t, "register") /\ UNCHANGED <<ledger, vm, trees>>
       \/ GotoFail(t, "drop") /\ TerminateOrFault(t)
    /\ UNCHANGED <<registry, claims>>

\* register_pending_firecracker: promote the reservation, then insert under the
\* registry lock.
BootRegister(t) ==
    /\ At(t, "register")
    /\ \E ok \in BOOLEAN :
          /\ Register(Id(t), "Running", ok)
          /\ IF ok THEN Goto(t, "insert") ELSE GotoFail(t, "teardown")
    /\ UNCHANGED <<registry, claims, vm, trees>>

BootInsert(t) ==
    /\ At(t, "insert")
    /\ IF registry[Id(t)] # None
       THEN GotoFail(t, "teardown") /\ UNCHANGED registry
       ELSE /\ registry' = [registry EXCEPT ![Id(t)] = Entry(t, "Running")]
            /\ Goto(t, "finish")
    /\ UNCHANGED <<ledger, claims, vm, trees>>

\* PendingFirecracker::teardown: on an unconfirmed exit the owner is forgotten.
BootTeardown(t) ==
    /\ At(t, "teardown")
    /\ \/ Terminate(t, TRUE) /\ Goto(t, "drop") /\ UNCHANGED ledger
       \/ Terminate(t, FALSE) /\ Goto(t, "finish") /\ FaultLedger
    /\ UNCHANGED <<registry, claims>>

\* The capacity owner, reserved or registered, is dropped.
BootDrop(t) ==
    /\ At(t, "drop")
    /\ \E kind \in {"Reservation", "Registered"} :
          Holds(kind, Id(t)) /\ ReleaseEntry(<<kind, Id(t)>>)
    /\ Goto(t, "finish")
    /\ UNCHANGED <<registry, claims, vm, trees>>

-----------------------------------------------------------------------------
\* Mutant: the capacity guard drops with the registry entry, before the process.
TermRemoveReleases(t) ==
    /\ At(t, "remove")
    /\ IF registry[Id(t)] = None
       THEN Return(t) /\ UNCHANGED <<ledger, registry>>
       ELSE /\ registry' = [registry EXCEPT ![Id(t)] = None]
            /\ ReleaseEntry(<<"Registered", Id(t)>>)
            /\ task' = [task EXCEPT ![t].pc = "reap", ![t].src = registry[Id(t)].boot]
    /\ UNCHANGED <<claims, vm, trees>>

\* terminate_inner.  It takes no lease: the registry entry goes first, then the
\* process, then the jail directory, and only then the capacity.
TermRemove(t) ==
    /\ At(t, "remove")
    /\ IF registry[Id(t)] = None
       THEN Return(t) /\ UNCHANGED registry
       ELSE /\ registry' = [registry EXCEPT ![Id(t)] = None]
            /\ task' = [task EXCEPT ![t].pc = "reap", ![t].src = registry[Id(t)].boot]
    /\ UNCHANGED <<ledger, claims, vm, trees>>

TermReap(t) ==
    /\ At(t, "reap")
    /\ \/ SetVm(task[t].src, "Dead") /\ Goto(t, "untree") /\ UNCHANGED ledger
       \/ SetVm(task[t].src, "Lost") /\ Return(t) /\ FaultLedger
    /\ UNCHANGED <<registry, claims, trees>>

TermUntree(t) ==
    /\ At(t, "untree")
    /\ trees' \in {trees, trees \ {task[t].src}}
    /\ ReleaseEntry(<<"Registered", Id(t)>>)
    /\ Return(t)
    /\ UNCHANGED <<registry, claims, vm>>

-----------------------------------------------------------------------------
\* snapshot_inner.

\* Step 1, under the registry lock: reject or mark Snapshotting and capture the
\* boot.  A writable or networked source is rejected too (snapshot_preflight).
SnapReject(t) ==
    /\ At(t, "mark")
    /\ GotoFail(t, "finish")
    /\ UNCHANGED <<ledger, registry, claims, vm, trees>>

SnapMark(t) ==
    LET id == Id(t)
        state == registry[id].state
        running == state = "Running"
    IN /\ At(t, "mark")
       /\ registry[id] # None
       /\ state # "Snapshotting"
       /\ task[t].op = "live" => running
       /\ \E ok \in BOOLEAN :
             /\ SetState(id, "Snapshotting", ok)
             /\ IF ok
                THEN /\ registry' = [registry EXCEPT ![id].state = "Snapshotting"]
                     /\ task' = [task EXCEPT ![t] = [@ EXCEPT
                                   !.src = registry[id].boot, !.was = running,
                                   !.pc = IF running THEN "pause" ELSE "dump"]]
                ELSE GotoFail(t, "finish") /\ UNCHANGED registry
       /\ UNCHANGED <<claims, vm, trees>>

\* An API call on the captured socket path: it may fail before or after it took
\* effect on the VM that listens there, if one does.
ApiCall(dir, state, ok) ==
    \/ /\ \E b \in Listeners(dir) : Live(b) /\ SetVm(b, state)
       /\ ok \in BOOLEAN
    \/ ok = FALSE /\ UNCHANGED vm

GotoFinalize(t, act, failed) ==
    task' = [task EXCEPT ![t] = [@ EXCEPT !.pc = "finalize", !.act = act, !.failed = failed]]

\* Step 2, unlocked.
SnapPause(t) ==
    /\ At(t, "pause")
    /\ \E ok \in BOOLEAN :
          /\ ApiCall(Dir(task[t].src), "Frozen", ok)
          /\ IF ok THEN Goto(t, "dump") ELSE GotoFinalize(t, "Running", TRUE)
    /\ UNCHANGED <<ledger, registry, claims, trees>>

\* Steps 3 and 4, unlocked: Firecracker only dumps a paused VM.
SnapDump(t) ==
    LET was == task[t].was
    IN /\ At(t, "dump")
       /\ \/ GotoFinalize(t, IF was THEN "Resume" ELSE "Paused", TRUE)
          \/ \E b \in Listeners(Dir(task[t].src)) :
                /\ vm[b] = "Frozen"
                /\ task' = [task EXCEPT ![t] = [@ EXCEPT !.pc = "finalize", !.dumped = b,
                     !.act = IF was /\ task[t].op # "live" THEN "Resume" ELSE "Paused"]]
       /\ UNCHANGED <<ledger, registry, claims, vm, trees>>

\* The state finalize records: Running after a resume only if the resume worked.
FinalState(act, ok) ==
    IF act # "Resume" THEN act ELSE IF ok THEN "Running" ELSE "Paused"

\* finalize_snapshot_state: one lock hold, the resume call included.
SnapFinalize(t) ==
    LET id == Id(t)
        next == IF task[t].failed THEN "finish" ELSE "copy"
        after(final) == task' = [task EXCEPT ![t].pc = next, ![t].final = final]
    IN /\ At(t, "finalize")
       /\ IF ~Registered(id, task[t].src)
          THEN after(FALSE) /\ UNCHANGED <<ledger, registry, vm>>
          ELSE \E ok \in BOOLEAN, accounted \in BOOLEAN :
                 LET state == FinalState(task[t].act, ok)
                 IN /\ IF task[t].act = "Resume"
                       THEN ApiCall(Dir(task[t].src), "Running", ok)
                       ELSE ok = TRUE /\ UNCHANGED vm
                    /\ SetState(id, state, accounted)
                    /\ after(accounted)
                    /\ IF accounted
                       THEN registry' = [registry EXCEPT ![id].state = state]
                       ELSE UNCHANGED registry
       /\ UNCHANGED <<claims, trees>>

\* Steps 5 to 7: copy the dump out of the jail, sign and write the manifest.
SnapCopy(t) ==
    /\ At(t, "copy")
    /\ \/ GotoFail(t, "finish")
       \/ /\ Listeners(Dir(task[t].src)) # {}
          /\ IF task[t].op = "live" /\ task[t].final THEN Goto(t, "swapboot")
             ELSE IF task[t].op = "live" THEN GotoFail(t, "finish")
             ELSE Goto(t, "finish")
    /\ UNCHANGED <<ledger, registry, claims, vm, trees>>

-----------------------------------------------------------------------------
\* live_hot_swap: boot the snapshot under a provisional id, put it in the frozen
\* source's place, reap the source.
SwapSpawn(t) ==
    /\ At(t, "swapboot")
    /\ \/ GotoFail(t, "finish") /\ UNCHANGED <<vm, trees>>
       \/ SetVm(t, "Running") /\ trees' = trees \cup {t} /\ Goto(t, "swapready")
    /\ UNCHANGED <<ledger, registry, claims>>

SwapReady(t) ==
    /\ At(t, "swapready")
    /\ \/ Goto(t, "swap") /\ UNCHANGED <<ledger, vm, trees>>
       \/ LaunchFails(t, "finish")
       \/ GotoFail(t, "finish") /\ TerminateOrFault(t)
    /\ UNCHANGED <<registry, claims>>

\* Mutant: the swap does not tell the ledger that the workspace runs again.
SwapUnaccounted(t) ==
    LET id == Id(t)
    IN /\ At(t, "swap")
       /\ IF ~Registered(id, task[t].src)
          THEN GotoFail(t, "discard") /\ UNCHANGED registry
          ELSE /\ registry' = [registry EXCEPT ![id] = Entry(t, "Running")]
               /\ Goto(t, "reapold")
       /\ UNCHANGED <<ledger, claims, vm, trees>>

Swap(t) ==
    LET id == Id(t)
    IN /\ At(t, "swap")
       /\ IF ~Registered(id, task[t].src)
          THEN GotoFail(t, "discard") /\ UNCHANGED <<ledger, registry>>
          ELSE \E ok \in BOOLEAN :
                 /\ SetState(id, "Running", ok)
                 /\ IF ok
                    THEN /\ registry' = [registry EXCEPT ![id] = Entry(t, "Running")]
                         /\ Goto(t, "reapold")
                    ELSE GotoFail(t, "discard") /\ UNCHANGED registry
       /\ UNCHANGED <<claims, vm, trees>>

SwapDiscard(t) ==
    /\ At(t, "discard")
    /\ TerminateOrFault(t)
    /\ Goto(t, "finish")
    /\ UNCHANGED <<registry, claims>>

SwapReapOld(t) ==
    /\ At(t, "reapold")
    /\ \/ Terminate(task[t].src, TRUE) /\ Goto(t, "finish") /\ UNCHANGED ledger
       \/ Terminate(task[t].src, FALSE) /\ GotoFail(t, "finish") /\ FaultLedger
    /\ UNCHANGED <<registry, claims>>

-----------------------------------------------------------------------------
\* The manager waits for requests once every task has returned.
AllDone == \A t \in Tasks : At(t, "done")
Quiet == AllDone /\ UNCHANGED vars

BootStep(t) ==
    \/ BootCheck(t) \/ BootReserve(t) \/ BootSpawn(t) \/ BootLaunched(t) \/ BootReady(t)
    \/ BootRegister(t) \/ BootInsert(t) \/ BootTeardown(t) \/ BootDrop(t)

TermStep(t) == TermRemove(t) \/ TermReap(t) \/ TermUntree(t)

SnapStep(t) ==
    \/ SnapReject(t) \/ SnapMark(t) \/ SnapPause(t) \/ SnapDump(t) \/ SnapFinalize(t)
    \/ SnapCopy(t) \/ SwapSpawn(t) \/ SwapReady(t) \/ Swap(t) \/ SwapDiscard(t)
    \/ SwapReapOld(t)

Next ==
    \/ \E t \in Tasks :
          \/ \E op \in Ops, id \in WorkspaceIds : Accept(t, op, id)
          \/ ClaimLifecycle(t) \/ Finish(t)
          \/ BootStep(t) \/ TermStep(t) \/ SnapStep(t)
    \/ Quiet

Spec == Init /\ [][Next]_vars

-----------------------------------------------------------------------------
\* Type invariant of the registry, the leases, the processes and the requests.
TypeOK ==
    /\ registry \in [WorkspaceIds -> {None} \cup [boot : Tasks, state : WorkspaceState]]
    /\ claims \subseteq WorkspaceIds
    /\ vm \in [Tasks -> VmStatus]
    /\ trees \subseteq Tasks
    /\ \A t \in Tasks :
          /\ task[t].op \in Ops \cup {"idle"}
          /\ task[t].pc \in PC
          /\ task[t].id \in WorkspaceIds \cup {None}
          /\ task[t].src \in Tasks \cup {None}
          /\ task[t].dumped \in Tasks \cup {None}

\* The two VMs of a live swap: the fresh one until it is spliced in, the old one
\* until it is reaped.  They are the only ones that run without an entry.
Swapping(b) ==
    \E t \in Tasks :
        \/ b = t /\ task[t].pc \in {"swapready", "swap", "discard"}
        \/ b = task[t].src /\ At(t, "reapold")

\* While the ledger is healthy every VM the supervisor still answers for is
\* counted under its own workspace id, whichever of create, terminate, snapshot
\* and swap it is in the middle of; and a child whose exit a terminate could not
\* confirm stays counted or faults the ledger.  (A child stranded by a failed
\* launch does not: LaunchError::TerminationFailed carries no owner.)
LiveVmCharged ==
    \A b \in Tasks :
        /\ Live(b) /\ ~faulted /\ ~Swapping(b) => Id(b) \in HeldWorkspaces
        /\ vm[b] = "Lost" => faulted \/ Id(b) \in HeldWorkspaces

\* The registry, the ledger and the processes tell the same story about every
\* workspace: a registered one has one lifecycle state, an entry owned by the
\* registry's guard and a process not yet reaped, and no id ever has two VMs,
\* except the old and the new one of a swap.
RegistryBacked ==
    /\ TypeOK
    /\ \A w \in WorkspaceIds :
          registry[w] # None =>
              /\ Holds("Registered", w)
              /\ workspaces[w] = registry[w].state
              /\ Live(registry[w].boot)
    /\ ~faulted =>
          \A a, b \in Tasks :
              Live(a) /\ Live(b) /\ Id(a) = Id(b) /\ a # b => Swapping(a) \/ Swapping(b)

\* A snapshot dumps the boot it captured, although its pause, dump and copy run
\* without the registry lock on a path that is named after the workspace id.
SnapshotOfCapturedBoot ==
    \A t \in Tasks : task[t].dumped \in {None, task[t].src}

\* The states in which a snapshot still owes its source a final state.
Dumping(t) == task[t].pc \in {"pause", "dump", "finalize"}

\* When every request has returned and the ledger is healthy nothing is left over:
\* no lease, no reservation, no process outside the registry.  Nor is a state:
\* a workspace is in Snapshotting only while a snapshot of that very boot is on
\* its way to finalize_snapshot_state.
NothingLeftOver ==
    ~faulted =>
        /\ AllDone =>
              /\ claims = {}
              /\ HeldWorkspaces = {w \in WorkspaceIds : registry[w] # None}
              /\ \A b \in Tasks : Live(b) => Registered(Id(b), b)
        /\ \A w \in WorkspaceIds :
              registry[w] # None /\ registry[w].state = "Snapshotting" =>
                  \E t \in Tasks : Dumping(t) /\ Id(t) = w /\ task[t].src = registry[w].boot

\* The manager is a well-behaved client: every step is one the ledger's own
\* specification allows, so what is proved of the ledger holds of the supervisor.
ImplementsLedger == LedgerSpec

=============================================================================
