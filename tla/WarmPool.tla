-------------------------------- MODULE WarmPool --------------------------------
(***************************************************************************)
(* The warm pool and the supervisor's task tracker (ne-supervisor, pool.rs *)
(* and the pool half of workspace.rs): refill operations reserve slots and *)
(* provision VMs, tiered creates of distinct ids pop and adopt them (what  *)
(* a second request for the same id meets is in WorkspaceManager), and     *)
(* shutdown closes the tracker, waits for every accepted task and drains   *)
(* the pool.                                                               *)
(*                                                                         *)
(* A pool entry id of the ledger names the provision, its permit and the   *)
(* VM it boots.  Steps end where the code awaits, or between two updates   *)
(* of different shared objects (the in-flight counter, the ledger).        *)
(***************************************************************************)
EXTENDS CapacityLedger, Sequences

CONSTANTS
    TargetSize,     \* cfg.target_size
    MaxInFlight,    \* cfg.max_in_flight
    Refills,        \* refill operations that may overlap
    None            \* no pool member

ASSUME PoolConstants ==
    /\ TargetSize \in Nat
    /\ MaxInFlight \in Nat
    /\ None \notin PoolIds

VARIABLES
    members,    \* WarmPool.members, oldest first
    in_flight,  \* WarmPool.in_flight
    prov,       \* stage of each provision and of its permit
    pvm,        \* the process of each provision
    refill,     \* refill operations: [pc, todo]
    creator,    \* the tiered create of each workspace id: [pc, member]
    accepting,  \* LifecycleTaskState.accepting
    active,     \* LifecycleTaskState.active
    loop,       \* the refill loop task: "run" or "exited"
    down        \* the shutdown task: [pc, todo]

pool == <<members, in_flight, prov, pvm>>
tracker == <<accepting, active>>
vars == <<ledger, pool, tracker, refill, creator, loop, down>>

\* "Lost" is a process nobody could confirm dead, "Adopted" one that is now the
\* VM of a workspace.
VmStatus == {"Unborn", "Running", "Dead", "Lost", "Adopted"}
ProvStage == {"none", "queued", "boot", "push", "release", "reject", "drop",
              "uncharge", "refused", "unqueue", "done"}
Idle == [pc |-> "idle", member |-> None]

Init ==
    /\ LedgerInit
    /\ members = <<>> /\ in_flight = 0
    /\ prov = [p \in PoolIds |-> "none"]
    /\ pvm = [p \in PoolIds |-> "Unborn"]
    /\ refill = [r \in Refills |-> [pc |-> "idle", todo |-> {}]]
    /\ creator = [w \in WorkspaceIds |-> Idle]
    /\ accepting = TRUE /\ active = 1   \* the refill loop is itself tracked
    /\ loop = "run"
    /\ down = [pc |-> "up", todo |-> {}]

-----------------------------------------------------------------------------
\* LifecycleTasks::begin(false) and the Drop of its permit; what its wait()
\* promises is shown in LifecycleTasks.
BeginOperation == accepting /\ active' = active + 1 /\ UNCHANGED accepting
EndOperation == active' = active - 1 /\ UNCHANGED accepting

Queue == {members[i] : i \in 1 .. Len(members)}

SetVm(p, status) == pvm' = [pvm EXCEPT ![p] = status]
SetProv(p, stage) == prov' = [prov EXCEPT ![p] = stage]

\* firecracker::terminate of a pooled VM, and what its owner does with the guard:
\* drop it after a confirmed exit, else fault the ledger and forget it.
ReapAndRelease(p, g) ==
    \/ SetVm(p, "Dead") /\ ReleaseEntry(g)
    \/ SetVm(p, "Lost") /\ FaultLedger

-----------------------------------------------------------------------------
\* Refill.

\* Mutant: slots already in flight are not subtracted.
RefillDeficitIgnoresInFlight(available) ==
    IF available >= TargetSize THEN 0
    ELSE IF TargetSize - available <= MaxInFlight THEN TargetSize - available ELSE MaxInFlight

\* refill_deficit, saturating.
RefillDeficit(available) ==
    LET want == IF available + in_flight >= TargetSize THEN 0
                ELSE TargetSize - (available + in_flight)
        cap == IF in_flight >= MaxInFlight THEN 0 ELSE MaxInFlight - in_flight
    IN IF want <= cap THEN want ELSE cap

\* The loop of spawn_refill: on every tick or kick it checks the tracker and
\* starts a refill operation, which the tracker may refuse.
LoopTick(r) ==
    /\ loop = "run" /\ accepting
    /\ refill[r].pc = "idle"
    /\ BeginOperation
    /\ refill' = [refill EXCEPT ![r].pc = "reserve"]
    /\ UNCHANGED <<ledger, pool, creator, loop, down>>

LoopExit ==
    /\ loop = "run" /\ ~accepting
    /\ loop' = "exited"
    /\ EndOperation
    /\ UNCHANGED <<ledger, pool, refill, creator, down>>

\* reserve_provisions, under the members lock; refill_once returns early when the
\* base snapshot fails its preflight or nothing could be reserved.
RefillReserve(r) ==
    /\ refill[r].pc = "reserve"
    /\ \E got \in SUBSET PoolIds :
          /\ \/ ReservePoolBatch(RefillDeficit(Len(members)), got)
             \/ got = {} /\ UNCHANGED ledger
          /\ in_flight' = in_flight + Cardinality(got)
          /\ prov' = [p \in PoolIds |-> IF p \in got THEN "queued" ELSE prov[p]]
          /\ refill' = [refill EXCEPT ![r] = [pc |-> "spawn", todo |-> got]]
    /\ UNCHANGED <<members, pvm, tracker, creator, loop, down>>

\* One provision task per permit, in order; a closed tracker drops the task with
\* its permit, inside this operation.
RefillSpawn(r) ==
    /\ refill[r].pc = "spawn"
    /\ \A p \in refill[r].todo : prov[p] \notin {"refused", "unqueue"}
    /\ \E p \in refill[r].todo :
          /\ prov[p] = "queued"
          /\ \A q \in refill[r].todo : prov[q] = "queued" => p <= q
          /\ IF accepting
             THEN BeginOperation /\ SetProv(p, "boot") /\ SetVm(p, "Running")
             ELSE SetProv(p, "refused") /\ UNCHANGED <<pvm, tracker>>
    /\ UNCHANGED <<ledger, members, in_flight, refill, creator, loop, down>>

RefillEnd(r) ==
    /\ refill[r].pc = "spawn"
    /\ \A p \in refill[r].todo : prov[p] \notin {"queued", "refused", "unqueue"}
    /\ refill' = [refill EXCEPT ![r] = [pc |-> "idle", todo |-> {}]]
    /\ EndOperation
    /\ UNCHANGED <<ledger, pool, creator, loop, down>>

-----------------------------------------------------------------------------
\* Provision.

\* provision_pool_member failed: reaped, or an unconfirmed exit, which faults the
\* ledger unless it was the launch itself that failed.
ProvisionFail(p) ==
    /\ prov[p] = "boot"
    /\ SetProv(p, "drop")
    /\ \/ SetVm(p, "Dead") /\ UNCHANGED ledger
       \/ SetVm(p, "Lost") /\ (FaultLedger \/ UNCHANGED ledger)
    /\ UNCHANGED <<members, in_flight, tracker, refill, creator, loop, down>>

\* Booted and reset; then complete_provision up to the members lock: a dimension
\* mismatch or a refused ready_in_place rejects the provision with its permit.
ProvisionComplete(p) ==
    /\ prov[p] = "boot"
    /\ \/ \E ok \in BOOLEAN :
             ReadyInPlace(p, ok) /\ SetProv(p, IF ok THEN "push" ELSE "reject")
       \/ SetProv(p, "reject") /\ UNCHANGED ledger
    /\ UNCHANGED <<members, in_flight, pvm, tracker, refill, creator, loop,
                   down>>

ProvisionPush(p) ==
    /\ prov[p] = "push"
    /\ members' = Append(members, p)
    /\ SetProv(p, "release")
    /\ UNCHANGED <<ledger, in_flight, pvm, tracker, refill, creator, loop, down>>

\* Mutant: the permit still owns the ledger entry when it is dropped.
ProvisionReleaseUncharges(p) ==
    /\ prov[p] = "release"
    /\ in_flight' = in_flight - 1
    /\ ReleaseEntry(<<"PoolReservation", p>>)
    /\ SetProv(p, "done")
    /\ EndOperation
    /\ UNCHANGED <<members, pvm, refill, creator, loop, down>>

\* permit.release() after the member is stowed.
ProvisionRelease(p) ==
    /\ prov[p] = "release"
    /\ in_flight' = in_flight - 1
    /\ SetProv(p, "done")
    /\ EndOperation
    /\ UNCHANGED <<ledger, members, pvm, refill, creator, loop, down>>

\* RejectedPoolProvision::teardown: the permit is forgotten with an unconfirmed
\* child, and its slot with it.
ProvisionReject(p) ==
    /\ prov[p] = "reject"
    /\ \/ SetProv(p, "drop") /\ SetVm(p, "Dead") /\ UNCHANGED <<ledger, tracker>>
       \/ SetProv(p, "done") /\ SetVm(p, "Lost") /\ FaultLedger /\ EndOperation
    /\ UNCHANGED <<members, in_flight, refill, creator, loop, down>>

\* Drop of a ProvisionPermit: the slot first, then its capacity field.
PermitDrop(p) ==
    /\ prov[p] \in {"drop", "refused"}
    /\ in_flight' = in_flight - 1
    /\ prov' = [prov EXCEPT ![p] = IF @ = "drop" THEN "uncharge" ELSE "unqueue"]
    /\ UNCHANGED <<ledger, members, pvm, tracker, refill, creator, loop, down>>

PermitUncharge(p) ==
    /\ prov[p] \in {"uncharge", "unqueue"}
    /\ ReleaseEntry(<<"PoolReservation", p>>)
    /\ SetProv(p, "done")
    /\ IF prov[p] = "uncharge" THEN EndOperation ELSE UNCHANGED tracker
    /\ UNCHANGED <<members, in_flight, pvm, refill, creator, loop, down>>

-----------------------------------------------------------------------------
\* create_from_pool, inside create_inner's lifecycle lease.
Goto(c, pc) == creator' = [creator EXCEPT ![c].pc = pc]
Held(c) == creator[c].member

\* The tracker accepts the request; its id is free and leased (claim_boot).
CreateStart(c) ==
    /\ creator[c].pc = "idle"
    /\ BeginOperation
    /\ Goto(c, "pop")
    /\ UNCHANGED <<ledger, pool, refill, loop, down>>

CreateEnd(c) ==
    /\ creator[c].pc = "end"
    /\ creator' = [creator EXCEPT ![c] = [Idle EXCEPT !.pc = "done"]]
    /\ EndOperation
    /\ UNCHANGED <<ledger, pool, refill, loop, down>>

\* Mutant: the member is read but not taken out of the queue.
CreatePopPeeks(c) ==
    /\ creator[c].pc = "pop"
    /\ IF members = <<>> THEN Goto(c, "miss")
       ELSE creator' = [creator EXCEPT ![c].pc = "probe", ![c].member = Head(members)]
    /\ UNCHANGED <<ledger, members, in_flight, prov, pvm, tracker, refill, loop, down>>

CreatePop(c) ==
    /\ creator[c].pc = "pop"
    /\ IF members = <<>>
       THEN Goto(c, "miss") /\ UNCHANGED members
       ELSE /\ creator' = [creator EXCEPT ![c].pc = "probe", ![c].member = Head(members)]
            /\ members' = Tail(members)
    /\ UNCHANGED <<ledger, in_flight, prov, pvm, tracker, refill, loop, down>>

\* Mutant: a member that failed its probe goes back to the queue.
CreateEvictRequeues(c) ==
    /\ creator[c].pc = "probe"
    /\ members' = Append(members, Held(c))
    /\ creator' = [creator EXCEPT ![c].pc = "pop", ![c].member = None]
    /\ UNCHANGED <<ledger, in_flight, prov, pvm, tracker, refill, loop, down>>

\* The checkout probe fails: PoolMember::teardown, then the next member.
CreateEvict(c) ==
    /\ creator[c].pc = "probe"
    /\ ReapAndRelease(Held(c), <<"Ready", Held(c)>>)
    /\ creator' = [creator EXCEPT ![c].pc = "pop", ![c].member = None]
    /\ UNCHANGED <<members, in_flight, prov, tracker, refill, loop, down>>

\* The probe succeeds.
CreateAdopt(c) ==
    /\ creator[c].pc = "probe"
    /\ \E ok \in BOOLEAN :
          /\ AdoptInPlace(Held(c), c, "Running", ok)
          /\ IF ok
             THEN /\ SetVm(Held(c), "Adopted")
                  /\ creator' = [creator EXCEPT ![c].pc = "end", ![c].member = None]
             ELSE Goto(c, "unadopt") /\ UNCHANGED pvm
    /\ UNCHANGED <<members, in_flight, prov, tracker, refill, loop, down>>

\* The ledger refused the adoption: the member is reaped and the request fails.
CreateUnadopt(c) ==
    /\ creator[c].pc = "unadopt"
    /\ ReapAndRelease(Held(c), <<"Ready", Held(c)>>)
    /\ creator' = [creator EXCEPT ![c].pc = "end", ![c].member = None]
    /\ UNCHANGED <<members, in_flight, prov, tracker, refill, loop, down>>

\* The synchronous fallback: reserve, boot, promote.  Its process is the business
\* of WorkspaceManager; only its ledger entry competes with the pool here.
CreateMiss(c) ==
    /\ creator[c].pc = "miss"
    /\ \/ Goto(c, "end") /\ UNCHANGED ledger
       \/ \E ok \in BOOLEAN :
             /\ ReserveWorkspace(c, ok)
             /\ Goto(c, IF ok THEN "fallback" ELSE "end")
    /\ UNCHANGED <<pool, tracker, refill, loop, down>>

CreateFallback(c) ==
    /\ creator[c].pc = "fallback"
    /\ \/ \E ok \in BOOLEAN : Register(c, "Running", ok) /\ Goto(c, IF ok THEN "end" ELSE "unboot")
       \/ ReleaseEntry(<<"Reservation", c>>) /\ Goto(c, "end")
       \/ FaultLedger /\ Goto(c, "end")
    /\ UNCHANGED <<pool, tracker, refill, loop, down>>

CreateUnboot(c) ==
    /\ creator[c].pc = "unboot"
    /\ ReleaseEntry(<<"Reservation", c>>) \/ FaultLedger
    /\ Goto(c, "end")
    /\ UNCHANGED <<pool, tracker, refill, loop, down>>

-----------------------------------------------------------------------------
\* shutdown_lifecycle: close, wait, drain.
Close ==
    /\ down.pc = "up"
    /\ accepting' = FALSE
    /\ down' = [down EXCEPT !.pc = "wait"]
    /\ UNCHANGED <<ledger, pool, active, refill, creator, loop>>

\* Mutant: the pool is drained without waiting for accepted tasks.
DrainAtOnce ==
    /\ down.pc = "wait"
    /\ down' = [pc |-> "reap", todo |-> Queue]
    /\ members' = <<>>
    /\ UNCHANGED <<ledger, in_flight, prov, pvm, tracker, refill, creator, loop>>

\* wait() returns, then shutdown_pool takes every member and reaps one after the
\* other.
Drain ==
    /\ down.pc = "wait" /\ active = 0
    /\ down' = [pc |-> "reap", todo |-> Queue]
    /\ members' = <<>>
    /\ UNCHANGED <<ledger, in_flight, prov, pvm, tracker, refill, creator, loop>>

DrainReap ==
    /\ down.pc = "reap"
    /\ \E p \in down.todo :
          /\ ReapAndRelease(p, <<"Ready", p>>)
          /\ down' = [down EXCEPT !.todo = @ \ {p}]
    /\ UNCHANGED <<members, in_flight, prov, tracker, refill, creator, loop>>

DrainEnd ==
    /\ down.pc = "reap" /\ down.todo = {}
    /\ down' = [down EXCEPT !.pc = "down"]
    /\ UNCHANGED <<ledger, pool, tracker, refill, creator, loop>>

Down == down.pc = "down" /\ UNCHANGED vars

-----------------------------------------------------------------------------
ProvisionStep(p) ==
    \/ ProvisionFail(p) \/ ProvisionComplete(p) \/ ProvisionPush(p) \/ ProvisionRelease(p)
    \/ ProvisionReject(p) \/ PermitDrop(p) \/ PermitUncharge(p)

RefillStep(r) == RefillReserve(r) \/ RefillSpawn(r) \/ RefillEnd(r)

CreateStep(c) ==
    \/ CreateEnd(c) \/ CreatePop(c) \/ CreateEvict(c) \/ CreateAdopt(c)
    \/ CreateUnadopt(c) \/ CreateMiss(c) \/ CreateFallback(c) \/ CreateUnboot(c)

ShutdownStep == Drain \/ DrainReap \/ DrainEnd

Next ==
    \/ \E r \in Refills : LoopTick(r) \/ RefillStep(r)
    \/ LoopExit
    \/ \E p \in PoolIds : ProvisionStep(p)
    \/ \E c \in WorkspaceIds : CreateStart(c) \/ CreateStep(c)
    \/ Close \/ ShutdownStep \/ Down

\* The runtime keeps polling accepted tasks, and every wait in them is bounded (a
\* launch, a probe and a terminate have timeouts, the loop a refill interval).
\* Nothing makes a client send a request or an operator stop the supervisor.
Fairness ==
    /\ WF_vars(LoopExit)
    /\ \A r \in Refills : WF_vars(RefillStep(r))
    /\ \A p \in PoolIds : WF_vars(ProvisionStep(p))
    /\ \A c \in WorkspaceIds : WF_vars(CreateStep(c))
    /\ WF_vars(ShutdownStep)

Spec == Init /\ [][Next]_vars
FairSpec == Spec /\ Fairness

-----------------------------------------------------------------------------
\* Type invariant of the pool, the tracker and the tasks.
TypeOK ==
    /\ members \in Seq(PoolIds)
    /\ in_flight \in Nat
    /\ prov \in [PoolIds -> ProvStage]
    /\ pvm \in [PoolIds -> VmStatus]
    /\ \A c \in WorkspaceIds : creator[c].member \in PoolIds \cup {None}
    /\ active \in Nat

PermitsOut == {p \in PoolIds : prov[p] \in {"queued", "boot", "push", "release",
                                            "reject", "drop", "refused"}}

\* The in-flight counter is the number of permits that still own a slot: it is
\* released once on every path, unless an unconfirmed child faulted the ledger.
\* So overlapping refills, pops and failed provisions never let the members and
\* the provisions on their way exceed the target, nor the permits
\* max_in_flight: "concurrent refill ticks cannot over-reserve".
SlotsNeverLeak ==
    /\ TypeOK
    /\ ~faulted => in_flight = Cardinality(PermitsOut)
    /\ Cardinality(Queue \cup {p \in PermitsOut : prov[p] # "release"}) <= TargetSize
    /\ Cardinality(PermitsOut) <= MaxInFlight

\* A warm VM has one owner (queued once, or held by one create, or being
\* drained), and is counted by the ledger from before it is spawned until its
\* exit is confirmed or a workspace entry has taken over its charge.
MembersOwnedAndCharged ==
    /\ Cardinality(Queue) = Len(members)
    /\ \A c \in WorkspaceIds : Held(c) # None =>
          /\ Held(c) \notin Queue \cup down.todo
          /\ \A d \in WorkspaceIds \ {c} : Held(d) # Held(c)
    /\ Queue \cap down.todo = {}
    /\ \A p \in PoolIds : pvm[p] = "Running" => p \in HeldPool

\* After shutdown no warm process is left running and no provision is still on
\* its way to the pool, although refills accepted before the close were let run.
ShutdownLeavesNoWarmVm ==
    down.pc = "down" => \A p \in PoolIds : pvm[p] # "Running" /\ p \notin Queue

\* Once closed, the supervisor does shut down: the waiter misses no wake-up, the
\* refill loop stops and no accepted task waits for another.
ShutdownCompletes == ~accepting ~> down.pc = "down"

\* Every step of the pool is one the ledger's own specification allows.
ImplementsLedger == LedgerSpec
=============================================================================
