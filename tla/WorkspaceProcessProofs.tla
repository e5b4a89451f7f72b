-------------------------- MODULE WorkspaceProcessProofs --------------------------
(***************************************************************************)
(* The workspace manager and its processes, for every set of ids and       *)
(* requests: what the registry, the leases, the ledger and the requests in *)
(* flight say about a VM process is true of it, through every interleaving *)
(* of create, terminate, snapshot and live swap.                           *)
(*                                                                         *)
(* The invariant says who answers for each live process (its launcher, the *)
(* registry, or whoever is about to reap it), that a lease has one holder, *)
(* and that a captured boot's directory can only hold that boot.  The last *)
(* needs the lease: it keeps a second boot of the id out of the directory  *)
(* while a snapshot works there, even after a terminate, which takes no    *)
(* lease, has removed the first.                                           *)
(***************************************************************************)
EXTENDS WorkspaceManagerProofs

\* The time each leaf may take: SMT first, then Zenon.
USE SMTT(20), ZenonT(20)

\* The process a request launched ends in its hands.
LEMMA OwnEnds ==
    ASSUME ManagerInv, ProcInv, NEW t \in Tasks, task[t].pc \in Launching,
           NEW pc \in {"drop", "finish"}, Becomes(t, pc), pc = "drop" => task[t].op = "boot",
           Owns(t) => pc = "drop" \/ faulted',
           NEW s \in {"Dead", "Stranded", "Lost"}, vm' = [vm EXCEPT ![t] = s],
           s = "Lost" => faulted',
           trees' \in {trees, trees \ {t}}, UNCHANGED <<registry, claims, workspaces, guards>>,
           faulted => faulted'
    PROVE  Ordinary(t)
<1>. USE DEF ManagerInv, ProcInv
<1>0. /\ vm \in [Tasks -> VmStatus] /\ vm' \in [Tasks -> VmStatus] /\ vm'[t] = s
      /\ \A b \in Tasks \ {t} : vm'[b] = vm[b]
  BY DEF Processes, VmStatus
<1>1. /\ task'[t].pc = pc /\ pc \notin Launching \cup Early \cup Dumped \cup Reaping /\ pc \in Leased
      /\ task[t].pc \in Leased /\ task[t].pc \notin Reaping /\ ~Dumping(t)
  BY DEF Becomes, Launching, Booting, Early, Dumped, Reaping, Leased, PC, Dumping
<1>2. Roles'
  BY <1>1 DEF Roles, Becomes, Others, Booting
<1>3. Unregistered(t)
  BY DEF Backed, Unregistered, Settled
<1>4. ProcessesKept(t)
  <2>1. Ends(t)
    BY <1>0, <1>1, <1>3 DEF Ends, Processes, Live
  <2>. QED BY <1>0, <1>1, <1>3, <2>1 DEF ProcessesKept, Live, Reaping
<1>5. RegistryKept(t)
  BY <1>1, SameRegistry
<1>6. GuardsKept(t)
  BY SameGuards DEF Becomes, Owns, Owning, Id
<1>7. Inserting'
  BY <1>1, SameInserting DEF Becomes
<1>. QED BY <1>1, <1>2, <1>4, <1>5, <1>6, <1>7 DEF Ordinary, Becomes

\* The ways in which a launch or a terminate ends a process.
LEMMA Terminated ==
    ASSUME NEW b, Processes,
           \/ TerminateOrFault(b)
           \/ (SetVm(b, "Dead") /\ trees' \in {trees, trees \ {b}} /\ UNCHANGED ledger)
           \/ (SetVm(b, "Stranded") /\ UNCHANGED trees /\ UNCHANGED ledger)
    PROVE  \E s \in {"Dead", "Stranded", "Lost"} :
              /\ vm' = [vm EXCEPT ![b] = s] /\ (s = "Lost" => faulted')
              /\ trees' \in {trees, trees \ {b}} /\ UNCHANGED <<workspaces, guards>>
              /\ faulted => faulted'
BY DEF TerminateOrFault, Terminate, SetVm, FaultLedger, ledger

\* The steps that may end the process the request launched.
LEMMA EndingOrdinary ==
    ASSUME ManagerInv, ProcInv, NEW t \in Tasks,
           BootLaunched(t) \/ BootReady(t) \/ BootTeardown(t) \/ SwapReady(t) \/ SwapDiscard(t)
    PROVE  Ordinary(t)
<1>. USE DEF ManagerInv, ProcInv
<1>0. UNCHANGED <<registry, claims>> /\ task[t].pc \in Launching
  BY Zenon DEF BootLaunched, BootReady, BootTeardown, SwapReady, SwapDiscard, At, Launching, Booting
<1>. DEFINE Ended == \/ TerminateOrFault(t)
                     \/ (SetVm(t, "Dead") /\ trees' \in {trees, trees \ {t}} /\ UNCHANGED ledger)
                     \/ (SetVm(t, "Stranded") /\ UNCHANGED trees /\ UNCHANGED ledger)
<1>1. ASSUME Ended, NEW pc \in {"drop", "finish"}, Becomes(t, pc), pc = "drop" => task[t].op = "boot",
             Owns(t) => pc = "drop" \/ faulted'
      PROVE  Ordinary(t)
  <2>1. PICK s \in {"Dead", "Stranded", "Lost"} :
              /\ vm' = [vm EXCEPT ![t] = s] /\ (s = "Lost" => faulted')
              /\ trees' \in {trees, trees \ {t}} /\ UNCHANGED <<workspaces, guards>>
              /\ faulted => faulted'
    BY <1>1, Terminated
  <2>. QED BY <1>0, <1>1, <2>1, OwnEnds, Zenon
<1>2. CASE BootLaunched(t)
  <2>1. CASE LaunchFails(t, "drop")
    <3>1. Becomes(t, "drop") /\ Ended /\ task[t].op = "boot"
      BY <1>2, <2>1, Moving DEF BootLaunched, LaunchFails, PC, At, Roles, Booting
    <3>. QED BY <1>1, <3>1
  <2>2. CASE ~LaunchFails(t, "drop")
    <3>1. OnlyMoves /\ (Goto(t, "register") \/ Goto(t, "ready")) /\ task[t].pc = "boot"
      BY <1>2, <2>2 DEF BootLaunched, OnlyMoves, ledger, At
    <3>. QED BY <3>1, Moving, BecomesOrdinary DEF PC
  <2>. QED BY <2>1, <2>2
<1>3. CASE BootReady(t)
  <2>1. CASE GotoFail(t, "drop") /\ TerminateOrFault(t)
    <3>1. Becomes(t, "drop") /\ task[t].op = "boot"
      BY <1>3, <2>1, Moving DEF BootReady, PC, At, Roles, Booting
    <3>. QED BY <1>1, <2>1, <3>1
  <2>2. CASE ~(GotoFail(t, "drop") /\ TerminateOrFault(t))
    <3>1. OnlyMoves /\ Goto(t, "register") /\ task[t].pc = "ready"
      BY <1>3, <2>2 DEF BootReady, OnlyMoves, ledger, At
    <3>. QED BY <3>1, Moving, BecomesOrdinary DEF PC
  <2>. QED BY <2>1, <2>2
<1>4. CASE BootTeardown(t)
  <2>1. TerminateOrFault(t) /\ task[t].op = "boot"
    BY <1>4, Zenon DEF BootTeardown, TerminateOrFault, At, Roles, Booting
  <2>2. Becomes(t, "drop") \/ (Becomes(t, "finish") /\ faulted')
    BY <1>4, Moving, Zenon DEF BootTeardown, PC, FaultLedger
  <2>. QED BY <1>1, <2>1, <2>2
<1>5. CASE SwapReady(t)
  <2>0. ~Owns(t) /\ task[t].pc = "swapready"
    BY <1>5 DEF SwapReady, At, Owns, Owning, Reserving
  <2>1. CASE LaunchFails(t, "finish")
    <3>1. Becomes(t, "finish") /\ Ended
      BY <2>1, Moving DEF LaunchFails, PC
    <3>. QED BY <1>1, <2>0, <3>1
  <2>2. CASE GotoFail(t, "finish") /\ TerminateOrFault(t)
    <3>1. Becomes(t, "finish")
      BY <2>2, Moving DEF PC
    <3>. QED BY <1>1, <2>0, <2>2, <3>1
  <2>3. CASE Goto(t, "swap") /\ UNCHANGED <<ledger, vm, trees>>
    <3>1. OnlyMoves /\ Becomes(t, "swap")
      BY <1>5, <2>3, Moving DEF SwapReady, OnlyMoves, ledger, PC
    <3>. QED BY <2>0, <3>1, BecomesOrdinary DEF PC
  <2>. QED BY <1>5, <2>1, <2>2, <2>3 DEF SwapReady
<1>6. CASE SwapDiscard(t)
  <2>1. ~Owns(t) /\ Becomes(t, "finish") /\ TerminateOrFault(t)
    BY <1>6, Moving DEF SwapDiscard, At, Owns, Owning, Reserving, PC
  <2>. QED BY <1>1, <2>1
<1>. QED BY <1>2, <1>3, <1>4, <1>5, <1>6

\* The process a request captured, or took out of the registry, ends.
LEMMA SourceEnds ==
    ASSUME ManagerInv, ProcInv, NEW t \in Tasks, NEW s \in {"Dead", "Lost"},
           \/ task[t].pc = "reap" /\ (Becomes(t, "untree") \/ (Returns(t) /\ faulted'))
           \/ task[t].pc = "reapold" /\ Becomes(t, "finish"),
           vm' = [vm EXCEPT ![task[t].src] = s], s = "Lost" => faulted',
           trees' \in {trees, trees \ {task[t].src}},
           UNCHANGED <<registry, claims, workspaces, guards>>, faulted => faulted'
    PROVE  Ordinary(t)
<1>. USE DEF ManagerInv, ProcInv
<1>. DEFINE b == task[t].src
<1>0. b \in Tasks /\ vm[b] # "Unborn" /\ task[b].pc \notin Launching /\ Unregistered(b)
  BY DEF Sources, Captured, Reaping, Settled
<1>1. /\ vm \in [Tasks -> VmStatus] /\ vm' \in [Tasks -> VmStatus] /\ vm'[b] = s
      /\ \A a \in Tasks \ {b} : vm'[a] = vm[a]
  BY <1>0 DEF Processes, VmStatus
<1>2. /\ task'[t].pc \in {"untree", "done", "finish"} /\ task[t].pc \in {"reap", "reapold"}
      /\ Others(t) /\ ~Dumping(t)
  BY DEF Becomes, Returns, Dumping
<1>3. /\ task'[t].pc \notin Launching \cup Dumped
      /\ task'[t].pc \in Early => task[t].pc \in Early
      /\ task'[t].pc \in Leased <=> task[t].pc \in Leased
      /\ task[t].pc \notin Launching /\ "done" \notin Leased
  BY DEF Becomes, Returns, Launching, Booting, Early, Dumped, Leased, PC
<1>4. Roles'
  BY <1>2 DEF Roles, Becomes, Returns, Others, Booting
<1>5. ProcessesKept(t)
  <2>1. task'[b].pc \notin Launching
    BY <1>0, <1>2, <1>3 DEF Others
  <2>2. Ends(b)
    BY <1>0, <1>1, <2>1 DEF Ends
  <2>. QED BY <1>0, <1>1, <1>3, <2>1, <2>2 DEF ProcessesKept
<1>6. RegistryKept(t)
  BY <1>2, SameRegistry
<1>7. GuardsKept(t)
  BY <1>2, SameGuards DEF Becomes, Returns, Owns, Owning, Reserving, Id
<1>8. Inserting'
  BY <1>2, SameInserting
<1>. QED BY <1>2, <1>3, <1>4, <1>5, <1>6, <1>7, <1>8 DEF Ordinary, Becomes, Returns, Reaping

\* terminate_inner and the swap reap their boot.
LEMMA ReapingOrdinary ==
    ASSUME ManagerInv, ProcInv, NEW t \in Tasks, TermReap(t) \/ SwapReapOld(t)
    PROVE  Ordinary(t)
<1>1. PICK s \in {"Dead", "Lost"} :
         /\ vm' = [vm EXCEPT ![task[t].src] = s] /\ (s = "Lost" => faulted')
         /\ trees' \in {trees, trees \ {task[t].src}}
         /\ UNCHANGED <<registry, claims, workspaces, guards>> /\ (faulted => faulted')
  BY DEF TermReap, SwapReapOld, Terminate, SetVm, FaultLedger, ledger
<1>2. \/ task[t].pc = "reap" /\ (Becomes(t, "untree") \/ (Returns(t) /\ faulted'))
      \/ task[t].pc = "reapold" /\ Becomes(t, "finish")
  BY Moving, Zenon DEF TermReap, SwapReapOld, ManagerInv, PC, At, FaultLedger
<1>. QED BY <1>1, <1>2, SourceEnds, Zenon

\* An API call pauses or resumes a live process, or does nothing.
LEMMA CallsKept ==
    ASSUME ManagerInv, ProcInv, NEW t \in Tasks, NEW dir, NEW s \in {"Running", "Frozen"}, NEW ok,
           ApiCall(dir, s, ok)
    PROVE  /\ vm' \in [Tasks -> VmStatus]
           /\ \A b \in Tasks : vm'[b] = vm[b] \/ (Live(b) /\ Live(b)')
<1>1. vm \in [Tasks -> VmStatus] /\ trees \subseteq Tasks
  BY DEF ProcInv, Processes
<1>2. CASE UNCHANGED vm
  BY <1>1, <1>2
<1>3. CASE \E b \in Listeners(dir) : Live(b) /\ SetVm(b, s)
  <2>1. PICK b \in Tasks : Live(b) /\ SetVm(b, s)
    BY <1>1, <1>3 DEF Listeners
  <2>. QED BY <1>1, <2>1 DEF SetVm, Live, VmStatus
<1>. QED BY <1>2, <1>3 DEF ApiCall

\* Step 2 of a snapshot.
LEMMA PauseOrdinary ==
    ASSUME ManagerInv, ProcInv, NEW t \in Tasks, SnapPause(t)
    PROVE  Ordinary(t)
<1>. USE DEF ManagerInv, ProcInv
<1>0. task[t].pc = "pause" /\ task[t] \in TaskRec /\ task \in [Tasks -> TaskRec]
  BY DEF SnapPause, At, Types
<1>1. PICK ok \in BOOLEAN : /\ ApiCall(Dir(task[t].src), "Frozen", ok)
                            /\ IF ok THEN Goto(t, "dump") ELSE GotoFinalize(t, "Running", TRUE)
  BY Zenon DEF SnapPause
<1>2. Becomes(t, "dump") \/ Becomes(t, "finalize")
  <2>1. CASE Goto(t, "dump")
    BY <2>1, Moving DEF PC
  <2>2. CASE GotoFinalize(t, "Running", TRUE)
    BY <1>0, <2>2 DEF GotoFinalize, Becomes, Others, TaskRec
  <2>. QED BY <1>1, <2>1, <2>2, Zenon
<1>3. Roles'
  BY <1>0, <1>2 DEF Roles, Becomes, Others, Booting
<1>4. ProcessesKept(t)
  <2>1. UNCHANGED trees
    BY DEF SnapPause
  <2>. QED BY <1>0, <1>1, <2>1, CallsKept DEF ProcessesKept, Launching, Booting
<1>5. RegistryKept(t)
  BY <1>0, <1>2, SameRegistry DEF SnapPause, Becomes, Dumping, ledger
<1>6. GuardsKept(t)
  BY <1>0, SameGuards DEF SnapPause, ledger, Owns, Owning, Reserving
<1>7. UNCHANGED <<claims, faulted>>
  BY DEF SnapPause, ledger
<1>8. Inserting'
  BY <1>2, SameInserting DEF Becomes, SnapPause, ledger
<1>. QED BY <1>0, <1>2, <1>3, <1>4, <1>5, <1>6, <1>7, <1>8
         DEF Ordinary, Becomes, Leased, PC, Reaping, Launching, Booting, Early, Dumped

\* The lock hold that records a state: registry and ledger agree on it.
LEMMA StateKept ==
    ASSUME ManagerInv, ProcInv, NEW t \in Tasks, NEW id \in WorkspaceIds, registry[id] # None,
           NEW st \in WorkspaceState, NEW ok \in BOOLEAN, SetState(id, st, ok),
           registry' = IF ok THEN [registry EXCEPT ![id].state = st] ELSE registry
    PROVE  /\ guards' = guards /\ (faulted => faulted') /\ (~ok => faulted')
           /\ \A w \in WorkspaceIds : registry'[w] = None <=> registry[w] = None
           /\ \A w \in WorkspaceIds : registry[w] # None =>
                 registry'[w].boot = registry[w].boot /\ workspaces'[w] = registry'[w].state
           /\ \A w \in WorkspaceIds \ {id} : registry'[w] = registry[w]
           /\ ok => registry'[id].state = st
           /\ \A u \in Tasks : task[u].pc = "insert" => workspaces'[Id(u)] = workspaces[Id(u)]
<1>. USE DEF ManagerInv, ProcInv
<1>0. registry \in [WorkspaceIds -> {None} \cup [boot : Tasks, state : WorkspaceState]]
  BY DEF Types
<1>1. Holds("Registered", id)
  BY DEF Ownership
<1>2. /\ guards' = guards /\ (faulted => faulted') /\ (~ok => faulted')
      /\ \A v \in WorkspaceIds \ {id} : workspaces'[v] = workspaces[v]
      /\ workspaces'[id] = IF ok THEN st ELSE workspaces[id]
  BY <1>1, LedgerCalls
<1>. DEFINE e == [registry[id] EXCEPT !.state = st]
<1>3. /\ e \in [boot : Tasks, state : WorkspaceState]
      /\ e.boot = registry[id].boot /\ e.state = st
  BY <1>0
<1>4. registry' = IF ok THEN [registry EXCEPT ![id] = e] ELSE registry
  OBVIOUS
<1>. HIDE DEF e
<1>5. e # None
  BY <1>3, ManagerConstants
<1>6. \A w \in WorkspaceIds \ {id} : registry'[w] = registry[w]
  BY <1>0, <1>4
<1>7. registry'[id] = IF ok THEN e ELSE registry[id]
  BY <1>0, <1>4
<1>8. \A u \in Tasks : task[u].pc = "insert" => Id(u) \in WorkspaceIds \ {id}
  BY DEF Ownership, Owns, Owning, Types
<1>. QED BY <1>2, <1>3, <1>5, <1>6, <1>7, <1>8 DEF Backed

\* Step 1 of a snapshot captures the boot that the registry lists.
LEMMA MarkOrdinary ==
    ASSUME ManagerInv, ProcInv, NEW t \in Tasks, SnapMark(t)
    PROVE  Ordinary(t)
<1>. USE DEF ManagerInv, ProcInv
<1>. DEFINE id == Id(t)
            b == registry[id].boot
            running == registry[id].state = "Running"
<1>0. /\ task[t].pc = "mark" /\ id \in WorkspaceIds /\ registry[id] # None
      /\ task[t] \in TaskRec /\ task \in [Tasks -> TaskRec] /\ task[t].dumped = None
      /\ UNCHANGED <<claims, vm, trees>> /\ b \in Tasks
  BY DEF SnapMark, At, Types, Roles
<1>1. PICK ok \in BOOLEAN :
         /\ SetState(id, "Snapshotting", ok)
         /\ IF ok
            THEN /\ registry' = [registry EXCEPT ![id].state = "Snapshotting"]
                 /\ task' = [task EXCEPT ![t] = [@ EXCEPT !.src = b, !.was = running,
                               !.pc = IF running THEN "pause" ELSE "dump"]]
            ELSE GotoFail(t, "finish") /\ UNCHANGED registry
  BY DEF SnapMark
<1>2. "Snapshotting" \in WorkspaceState
  BY DEF WorkspaceState
<1>3. /\ guards' = guards /\ (faulted => faulted') /\ (~ok => faulted')
      /\ \A w \in WorkspaceIds : registry'[w] = None <=> registry[w] = None
      /\ \A w \in WorkspaceIds : registry[w] # None =>
            registry'[w].boot = registry[w].boot /\ workspaces'[w] = registry'[w].state
      /\ \A w \in WorkspaceIds \ {id} : registry'[w] = registry[w]
      /\ \A u \in Tasks : task[u].pc = "insert" => workspaces'[Id(u)] = workspaces[Id(u)]
  <2>. HIDE DEF id
  <2>. QED BY <1>0, <1>1, <1>2, StateKept
<1>4. /\ Others(t) /\ task'[t].op = task[t].op /\ task'[t].id = task[t].id
      /\ task'[t].dumped = None
      /\ ok => task'[t].pc \in {"pause", "dump"} /\ task'[t].src = b
      /\ ~ok => task'[t].pc = "finish" /\ task'[t].src = task[t].src /\ UNCHANGED registry
  <2>1. CASE ok
    <3>. DEFINE pc == IF running THEN "pause" ELSE "dump"
                r == [task[t] EXCEPT !.src = b, !.was = running, !.pc = pc]
    <3>1. task' = [task EXCEPT ![t] = r]
      BY <1>1, <2>1
    <3>2. pc \in {"pause", "dump"}
      OBVIOUS
    <3>. HIDE DEF id, b, running, pc
    <3>3. /\ r.op = task[t].op /\ r.id = task[t].id /\ r.dumped = task[t].dumped
          /\ r.pc = pc /\ r.src = b
      BY <1>0 DEF TaskRec
    <3>. HIDE DEF r
    <3>. QED BY <1>0, <2>1, <3>1, <3>2, <3>3 DEF Others
  <2>2. CASE ~ok
    BY <1>0, <1>1, <2>2, Moving DEF PC, Becomes
  <2>. QED BY <2>1, <2>2
<1>5. Roles'
  BY <1>0, <1>4 DEF Roles, Others, Booting
<1>6. ProcessesKept(t)
  BY <1>0, SameProcesses DEF Launching, Booting
<1>7. RegistryKept(t)
  <2>1. ~Dumping(t)
    BY <1>0 DEF Dumping
  <2>2. ok => Dumping(t)' /\ Id(t)' = id /\ task'[t].src = b
    BY <1>4 DEF Dumping, Id
  <2>. QED BY <1>3, <1>4, <2>1, <2>2 DEF RegistryKept
<1>8. GuardsKept(t)
  BY <1>0, <1>3, SameGuards DEF Owns, Owning, Reserving
<1>9. ok => Registered(Id(t), task'[t].src)
  BY <1>0, <1>4 DEF Registered
<1>10. Inserting'
  BY <1>3, <1>4, SameInserting
<1>. QED BY <1>0, <1>3, <1>4, <1>5, <1>6, <1>7, <1>8, <1>9, <1>10
         DEF Ordinary, Leased, PC, Reaping, Launching, Booting, Early, Dumped

\* finalize_snapshot_state leaves a settled state, or finds another boot.
LEMMA FinalizeOrdinary ==
    ASSUME ManagerInv, ProcInv, NEW t \in Tasks, SnapFinalize(t)
    PROVE  Ordinary(t)
<1>. USE DEF ManagerInv, ProcInv
<1>. DEFINE id == Id(t)
            next == IF task[t].failed THEN "finish" ELSE "copy"
            after(final) == task' = [task EXCEPT ![t].pc = next, ![t].final = final]
<1>0. /\ task[t].pc = "finalize" /\ id \in WorkspaceIds /\ task[t].act \in Acts \ {"none"}
      /\ task[t] \in TaskRec /\ task \in [Tasks -> TaskRec]
      /\ UNCHANGED <<claims, trees>> /\ next \in {"copy", "finish"}
  BY DEF SnapFinalize, At, Types, TaskRec
<1>1. ASSUME NEW f, after(f) PROVE Becomes(t, next)
  <2>. HIDE DEF next
  <2>. QED BY <1>0, <1>1 DEF Becomes, Others, TaskRec
<1>2. \/ /\ ~Registered(id, task[t].src) /\ UNCHANGED <<ledger, registry, vm>>
         /\ Becomes(t, next)
      \/ \E ok \in BOOLEAN, accounted \in BOOLEAN :
            /\ registry[id] # None /\ Becomes(t, next)
            /\ UNCHANGED vm \/ ApiCall(Dir(task[t].src), "Running", ok)
            /\ SetState(id, FinalState(task[t].act, ok), accounted)
            /\ registry' = IF accounted
                           THEN [registry EXCEPT ![id].state = FinalState(task[t].act, ok)]
                           ELSE registry
  <2>. HIDE DEF id, next
  <2>. QED BY <1>1 DEF SnapFinalize, Registered, id, next
<1>3. /\ vm' \in [Tasks -> VmStatus]
      /\ \A b \in Tasks : vm'[b] = vm[b] \/ (Live(b) /\ Live(b)')
  <2>1. CASE UNCHANGED vm
    BY <2>1 DEF Processes
  <2>2. CASE ~UNCHANGED vm
    <3>1. PICK ok \in BOOLEAN : ApiCall(Dir(task[t].src), "Running", ok)
      BY <1>2, <2>2
    <3>. QED BY <3>1, CallsKept
  <2>. QED BY <2>1, <2>2
<1>. DEFINE Settles ==
       /\ guards' = guards /\ (faulted => faulted')
       /\ \A w \in WorkspaceIds : registry'[w] = None <=> registry[w] = None
       /\ \A w \in WorkspaceIds : registry[w] # None =>
             registry'[w].boot = registry[w].boot /\ workspaces'[w] = registry'[w].state
       /\ \A w \in WorkspaceIds : registry[w] # None =>
             registry'[w].state \in {registry[w].state, "Running", "Paused"}
       /\ \/ ~Registered(id, task[t].src) \/ faulted'
          \/ registry'[id].state # "Snapshotting"
       /\ \A u \in Tasks : task[u].pc = "insert" => workspaces'[Id(u)] = workspaces[Id(u)]
<1>4. Settles
  <2>1. CASE ~Registered(id, task[t].src) /\ UNCHANGED <<ledger, registry, vm>>
    BY <2>1 DEF ledger, Backed
  <2>2. CASE ~(~Registered(id, task[t].src) /\ UNCHANGED <<ledger, registry, vm>>)
    <3>1. PICK ok \in BOOLEAN, accounted \in BOOLEAN :
            /\ registry[id] # None
            /\ SetState(id, FinalState(task[t].act, ok), accounted)
            /\ registry' = IF accounted
                           THEN [registry EXCEPT ![id].state = FinalState(task[t].act, ok)]
                           ELSE registry
      BY <1>2, <2>2
    <3>. DEFINE st == FinalState(task[t].act, ok)
    <3>2. st \in {"Running", "Paused"} /\ st \in WorkspaceState
      BY <1>0 DEF FinalState, Acts, WorkspaceState
    <3>. HIDE DEF st
    <3>3. /\ guards' = guards /\ (faulted => faulted') /\ (~accounted => faulted')
          /\ \A w \in WorkspaceIds : registry'[w] = None <=> registry[w] = None
          /\ \A w \in WorkspaceIds : registry[w] # None =>
                registry'[w].boot = registry[w].boot /\ workspaces'[w] = registry'[w].state
          /\ \A w \in WorkspaceIds \ {id} : registry'[w] = registry[w]
          /\ accounted => registry'[id].state = st
          /\ \A u \in Tasks : task[u].pc = "insert" => workspaces'[Id(u)] = workspaces[Id(u)]
      <4>1. SetState(id, st, accounted)
        BY <3>1 DEF st
      <4>2. registry' = IF accounted THEN [registry EXCEPT ![id].state = st] ELSE registry
        BY <3>1 DEF st
      <4>. HIDE DEF id
      <4>. QED BY <1>0, <3>1, <3>2, <4>1, <4>2, StateKept, Zenon
    <3>4. ~accounted => registry' = registry
      BY <3>1
    <3>. QED BY <1>0, <3>2, <3>3, <3>4
  <2>. QED BY <2>1, <2>2
<1>5. Becomes(t, next)
  BY <1>2
<1>. HIDE DEF next
<1>6. Roles'
  BY <1>0, <1>5 DEF Roles, Becomes, Others, Booting
<1>7. ProcessesKept(t)
  BY <1>0, <1>3 DEF ProcessesKept, Launching, Booting
<1>8. RegistryKept(t)
  BY <1>4 DEF RegistryKept
<1>9. GuardsKept(t)
  BY <1>0, <1>4, SameGuards DEF Owns, Owning, Reserving
<1>10. Inserting'
  BY <1>0, <1>4, <1>5, SameInserting DEF Becomes
<1>. QED BY <1>0, <1>4, <1>5, <1>6, <1>7, <1>8, <1>9, <1>10
         DEF Ordinary, Becomes, Leased, PC, Reaping, Launching, Booting, Early, Dumped

\* A step that takes and drops no lease.
LEMMA LeasesStay ==
    ASSUME Leases, NEW t \in Tasks, Others(t), claims' = claims, Id(t)' = Id(t),
           task'[t].pc \in Leased <=> task[t].pc \in Leased
    PROVE  Leases'
<1>1. \A u \in Tasks : Id(u)' = Id(u) /\ (task'[u].pc \in Leased <=> task[u].pc \in Leased)
  BY DEF Others, Id
<1>2. \A u \in Tasks : task'[u].pc \in Leased => Id(u)' \in claims'
  BY <1>1 DEF Leases
<1>3. \A u, v \in Tasks :
         task'[u].pc \in Leased /\ task'[v].pc \in Leased /\ Id(u)' = Id(v)' => u = v
  BY <1>1 DEF Leases
<1>4. \A w \in claims' : \E u \in Tasks : task'[u].pc \in Leased /\ Id(u)' = w
  BY <1>1 DEF Leases
<1>. QED BY <1>2, <1>3, <1>4 DEF Leases

\* A step that launches, ends and removes nothing.
LEMMA ProcessesStay ==
    ASSUME Processes, NamesKept, NEW t \in Tasks, Others(t), vm' = vm, trees' = trees,
           faulted => faulted', task'[t].pc \in Early => task[t].pc \in Early,
           task'[t].pc \in Launching => task[t].pc \in Launching
    PROVE  Processes'
<1>1. \A u \in Tasks : /\ task'[u].pc \in Early => task[u].pc \in Early
                       /\ task'[u].pc \in Launching => task[u].pc \in Launching
  BY DEF Others
<1>2. \A u \in Tasks : task'[u].pc \in Early => vm'[u] = "Unborn"
  BY <1>1 DEF Processes
<1>3. \A u \in Tasks : task'[u].pc \in Launching => Live(u)' /\ u \in trees'
  BY <1>1 DEF Processes, Live
<1>4. \A u \in Tasks : vm'[u] # "Unborn" => Id(u)' \in WorkspaceIds
  BY DEF Processes, NamesKept
<1>5. \A a, b \in trees' : Dir(a)' = Dir(b)' => a = b
  BY DEF Processes, NamesKept
<1>. QED BY <1>2, <1>3, <1>4, <1>5 DEF Processes

\* Steps that take or drop a lease and move no process, entry or guard.
LEMMA LeaseMove ==
    ASSUME ManagerInv, ProcInv, ManagerInv', NEW t \in Tasks, Others(t), Roles', Leases',
           UNCHANGED <<registry, vm, trees, workspaces, guards, faulted>>,
           vm[t] # "Unborn" => task'[t].op = task[t].op /\ task'[t].id = task[t].id,
           task[t].pc \notin Launching \cup Reaping \cup Dumped \cup Owning,
           task'[t].pc \notin Launching \cup Reaping \cup Dumped,
           task'[t].pc \in Early => task[t].pc \in Early, task'[t].pc # "insert"
    PROVE  ProcInv'
<1>. USE DEF ManagerInv, ProcInv
<1>0. \A b \in Tasks : vm[b] # "Unborn" => vm'[b] # "Unborn"
  OBVIOUS
<1>a. NamesKept
  BY <1>0, Framed
<1>1. Inserting'
  BY SameInserting
<1>2. Processes'
  BY <1>a, ProcessesStay
<1>3. Backed'
  BY <1>a DEF Backed, Live, Settled, NamesKept
<1>4. Sources'
  <2>. SUFFICES ASSUME NEW u \in Tasks PROVE Captured(u)'
    BY DEF Sources
  <2>1. /\ trees' = trees /\ trees \subseteq Tasks /\ Captured(u)
        /\ task'[u].pc \in Dumped \cup Reaping => task'[u] = task[u] /\ Id(u)' = Id(u)
    BY DEF Sources, Others, Id, Processes
  <2>2. ASSUME task'[u].pc \in Dumped \cup Reaping
        PROVE  \E s \in Tasks :
                 /\ task'[u].src = s /\ Id(u)' = Id(u) /\ Settled(s) /\ Id(s) = Id(u)
                 /\ task'[u].pc \in Dumped => \A b \in trees : Dir(b) = Dir(s) => b = s
                 /\ task'[u].pc \in Dumped => \A b \in trees' \ trees : Dir(b)' # Dir(s)
                 /\ task'[u].pc \in Reaping => Unregistered(s)'
    BY <2>1, <2>2 DEF Captured, Settled, Unregistered
  <2>. QED BY <1>a, <2>1, <2>2, SourceKept
<1>5. Kept'
  <2>. SUFFICES ASSUME NEW b \in Tasks, Live(b)' PROVE HasKeeper(b)'
    BY DEF Kept
  <2>. QED BY <1>a, KeeperKept DEF Others, Live, Registered, Keeper, Reaping
<1>6. Accounted'
  <2>1. \A u \in Tasks : /\ Owns(u) => Owns(u)' /\ Id(u)' = Id(u)
                         /\ Dumping(u) => Dumping(u)' /\ Id(u)' = Id(u) /\ task'[u].src = task[u].src
    BY DEF Others, Owns, Dumping, Id, Dumped
  <2>2. \A w \in WorkspaceIds : Guarded(w)' => Guarded(w)
    BY DEF Guarded, Holds
  <2>. SUFFICES ASSUME ~faulted', NEW w \in WorkspaceIds
       PROVE /\ Guarded(w)' => registry'[w] # None \/ \E u \in Tasks : Owns(u)' /\ Id(u)' = w
             /\ registry'[w] # None /\ registry'[w].state = "Snapshotting" =>
                   \E u \in Tasks : Dumping(u)' /\ Id(u)' = w /\ task'[u].src = registry'[w].boot
    BY DEF Accounted, Guarded
  <2>3. Guarded(w)' => registry'[w] # None \/ \E u \in Tasks : Owns(u)' /\ Id(u)' = w
    BY <2>1, <2>2 DEF Accounted
  <2>4. registry'[w] # None /\ registry'[w].state = "Snapshotting" =>
           \E u \in Tasks : Dumping(u)' /\ Id(u)' = w /\ task'[u].src = registry'[w].boot
    BY <2>1 DEF Accounted
  <2>. QED BY <2>3, <2>4
<1>. QED BY <1>1, <1>2, <1>3, <1>4, <1>5, <1>6

\* LifecycleClaims::claim.
LEMMA ClaimStep ==
    ASSUME ManagerInv, ProcInv, ManagerInv', NEW t \in Tasks, ClaimLifecycle(t)
    PROVE  ProcInv'
<1>. USE DEF ManagerInv, ProcInv
<1>0. /\ task[t].pc = "claim" /\ Id(t) \in WorkspaceIds
      /\ UNCHANGED <<registry, vm, trees, workspaces, guards, faulted>>
  BY DEF ClaimLifecycle, At, Types, ledger
<1>1. CASE Id(t) \in claims
  <2>1. OnlyMoves /\ Return(t)
    BY <1>1 DEF ClaimLifecycle, OnlyMoves, ledger
  <2>. QED BY <1>0, <2>1, ReturnOrdinary, OrdinaryInv
<1>2. CASE Id(t) \notin claims
  <2>1. claims' = claims \cup {Id(t)}
    BY <1>2 DEF ClaimLifecycle
  <2>2. PICK pc \in {"mark", "check"} : Becomes(t, pc) /\ (pc = "check" => task[t].op = "boot")
    BY <1>0, <1>2, Moving DEF ClaimLifecycle, PC, Roles
  <2>3. Roles'
    BY <1>0, <2>2 DEF Roles, Becomes, Others, Booting
  <2>4. task[t].pc \notin Leased /\ pc \in Leased
    BY <1>0 DEF Leased, PC
  <2>5. Leases'
    BY <1>0, <1>2, <2>1, <2>2, <2>4 DEF Leases, Becomes, Others, Id
  <2>. QED BY <1>0, <2>2, <2>3, <2>5, LeaseMove
           DEF Becomes, Launching, Booting, Reaping, Dumped, Owning, Reserving, Early
<1>. QED BY <1>1, <1>2

\* The lease is dropped with the request.
LEMMA FinishStep ==
    ASSUME ManagerInv, ProcInv, ManagerInv', NEW t \in Tasks, Finish(t)
    PROVE  ProcInv'
<1>. USE DEF ManagerInv, ProcInv
<1>0. /\ task[t].pc = "finish" /\ Id(t) \in WorkspaceIds /\ claims' = claims \ {Id(t)}
      /\ UNCHANGED <<registry, vm, trees, workspaces, guards, faulted>>
  BY DEF Finish, At, Types, ledger
<1>1. Returns(t)
  BY Moving DEF Finish, PC
<1>2. Roles'
  BY <1>1, RolesReturn
<1>3. task[t].pc \in Leased /\ "done" \notin Leased
  BY <1>0 DEF Leased, PC
<1>4. Leases'
  BY <1>0, <1>1, <1>3 DEF Leases, Returns, Others, Id
<1>. QED BY <1>0, <1>1, <1>2, <1>4, LeaseMove
         DEF Returns, Launching, Booting, Reaping, Dumped, Owning, Reserving, Early

\* A process is launched: its directory is nobody's, and not that of a boot any
\* snapshot has captured, since the launcher holds the lease of its id.
LEMMA SpawnStep ==
    ASSUME ManagerInv, ProcInv, ManagerInv', NEW t \in Tasks,
           <<task[t].pc, task'[t].pc>> \in {<<"launch", "boot">>, <<"swapboot", "swapready">>},
           Becomes(t, task'[t].pc), Listeners(Dir(t)) = {},
           vm' = [vm EXCEPT ![t] = "Running"], trees' = trees \cup {t},
           UNCHANGED <<registry, claims, workspaces, guards, faulted>>
    PROVE  ProcInv'
<1>. USE DEF ManagerInv, ProcInv
<1>. DEFINE pc == task'[t].pc
<1>0. /\ vm \in [Tasks -> VmStatus] /\ vm' \in [Tasks -> VmStatus] /\ vm'[t] = "Running"
      /\ \A b \in Tasks \ {t} : vm'[b] = vm[b]
      /\ vm[t] = "Unborn"
  BY DEF Processes, VmStatus, Early
<1>1. /\ task[t].pc \in Leased \cap Early /\ pc \in Leased \cap Launching /\ pc \notin Early \cup Reaping
      /\ task[t].pc \notin Launching \cup Reaping /\ pc # "insert" /\ ~Dumping(t)
      /\ Id(t) \in WorkspaceIds
  BY DEF Leased, PC, Early, Launching, Booting, Reaping, Dumping, Types
<1>a. NamesKept
  BY <1>0, <1>1, Framed DEF Becomes
<1>b. Id(t)' = Id(t) /\ Dir(t)' = Dir(t) /\ task'[t].src = task[t].src /\ Others(t)
  BY DEF Becomes, Id, Dir
<1>2. Roles'
  <2>1. \/ task[t].pc = "launch" /\ pc = "boot" /\ task[t].op = "boot"
        \/ task[t].pc = "swapboot" /\ pc = "swapready" /\ task[t].op = "live"
    BY DEF Roles
  <2>2. pc \in PC /\ Becomes(t, pc) /\ Roles
    BY <2>1 DEF PC
  <2>. HIDE DEF pc
  <2>. QED BY <2>1, <2>2, RolesMove DEF Booting
<1>3. Leases'
  <2>1. claims' = claims /\ (task'[t].pc \in Leased <=> task[t].pc \in Leased)
    BY <1>1 DEF Becomes
  <2>. QED BY <1>b, <2>1, LeasesStay
<1>4. Processes'
  <2>1. \A b \in trees : b # t /\ vm[b] # "Unborn" /\ Dir(b) # Dir(t)
    BY <1>0 DEF Processes, Listeners
  <2>2. \A u \in Tasks : task'[u].pc \in Early => vm'[u] = "Unborn"
    BY <1>0, <1>1, <1>b DEF Processes, Others
  <2>3. \A u \in Tasks : task'[u].pc \in Launching => Live(u)' /\ u \in trees'
    BY <1>0, <1>1, <1>b DEF Processes, Others, Live
  <2>4. \A u \in Tasks : vm'[u] # "Unborn" => Id(u)' \in WorkspaceIds
    BY <1>0, <1>1, <1>a, <1>b DEF Processes, NamesKept
  <2>5. \A b \in trees' : vm'[b] # "Unborn"
    BY <1>0 DEF Processes
  <2>6. \A a, b \in trees' : Dir(a)' = Dir(b)' => a = b
    BY <1>a, <1>b, <2>1 DEF Processes, NamesKept
  <2>7. \A b \in Tasks : vm'[b] = "Lost" => faulted'
    BY <1>0 DEF Processes
  <2>. QED BY <1>0, <2>2, <2>3, <2>4, <2>5, <2>6, <2>7 DEF Processes
<1>5. Backed'
  BY <1>0, <1>a DEF Backed, Live, Settled, NamesKept
<1>6. Sources'
  <2>. SUFFICES ASSUME NEW u \in Tasks PROVE Captured(u)'
    BY DEF Sources
  <2>. DEFINE s == task[u].src
  <2>1. /\ task'[u].src = s /\ Id(u)' = Id(u)
        /\ task'[u].pc \in Reaping => task[u].pc \in Reaping
        /\ task'[u].pc \in Dumped => task[u].pc \in Dumped
    BY <1>1, <1>b DEF Others, Dumped, Id
  <2>2. task[u].pc \in Dumped \cup Reaping =>
           s \in Tasks /\ s # t /\ Settled(s) /\ Id(s) = Id(u) /\ Id(s) \in WorkspaceIds
    BY <1>0 DEF Sources, Captured, Settled, Processes
  <2>3. ASSUME task[u].pc \in Dumped PROVE Dir(t) # Dir(s)
    <3>1. CASE task[t].pc = "launch"
      <4>1. Dir(t) = Id(t) /\ u # t /\ task[u].pc \in Leased
        BY <2>3, <3>1 DEF Dir, Roles, Dumped, Leased, PC
      <4>2. Id(u) # Id(t)
        BY <1>1, <4>1 DEF Leases
      <4>. QED BY <1>1, <2>2, <2>3, <4>1, <4>2, ManagerConstants DEF Dir
    <3>2. CASE task[t].pc = "swapboot"
      <4>1. Dir(t) = t
        BY <3>2 DEF Dir, Roles
      <4>. QED BY <2>2, <2>3, <4>1, ManagerConstants DEF Dir
    <3>. QED BY <3>1, <3>2
  <2>4. /\ trees' = trees \cup {t} /\ trees' \subseteq Tasks /\ registry' = registry
        /\ Captured(u) /\ Processes
    BY DEF Sources, Processes
  <2>5. ASSUME task'[u].pc \in Dumped \cup Reaping
        PROVE  \E q \in Tasks :
                 /\ task'[u].src = q /\ Id(u)' = Id(u) /\ Settled(q) /\ Id(q) = Id(u)
                 /\ task'[u].pc \in Dumped => \A b \in trees : Dir(b) = Dir(q) => b = q
                 /\ task'[u].pc \in Dumped => \A b \in trees' \ trees : Dir(b)' # Dir(q)
                 /\ task'[u].pc \in Reaping => Unregistered(q)'
    <3>1. /\ s \in Tasks /\ Settled(s) /\ Id(s) = Id(u) /\ task'[u].src = s /\ Id(u)' = Id(u)
          /\ task'[u].pc \in Reaping => Unregistered(s)'
      BY <2>1, <2>2, <2>4, <2>5 DEF Captured, Unregistered
    <3>2. ASSUME task'[u].pc \in Dumped
          PROVE  /\ \A b \in trees : Dir(b) = Dir(s) => b = s
                 /\ \A b \in trees' \ trees : Dir(b)' # Dir(s)
      BY <1>b, <2>1, <2>3, <2>4, <3>2 DEF Captured
    <3>. QED BY <3>1, <3>2
  <2>. QED BY <1>a, <2>4, <2>5, SourceKept
<1>7. Kept'
  <2>. SUFFICES ASSUME NEW b \in Tasks, Live(b)' PROVE HasKeeper(b)'
    BY DEF Kept
  <2>1. CASE b = t
    BY <1>1, <2>1 DEF HasKeeper
  <2>2. CASE b # t
    BY <1>0, <1>1, <1>a, <1>b, <2>2, KeeperKept DEF Live, Others, Keeper, Registered, Reaping
  <2>. QED BY <2>1, <2>2
<1>8. Accounted'
  <2>1. \A u \in Tasks : /\ Id(u)' = Id(u) /\ task'[u].src = task[u].src
                         /\ Owns(u) => Owns(u)'
                         /\ Dumping(u) => Dumping(u)'
    BY <1>1, <1>b DEF Others, Owns, Owning, Reserving, Dumping, Id
  <2>. QED BY <2>1 DEF Accounted, Guarded, Holds
<1>9. Inserting'
  BY <1>1, <1>b, SameInserting
<1>. QED BY <1>2, <1>3, <1>4, <1>5, <1>6, <1>7, <1>8, <1>9

\* The two launches; the provisional id of a swap is free because it is fresh.
LEMMA SpawnSteps ==
    ASSUME ManagerInv, ProcInv, ManagerInv', NEW t \in Tasks, BootSpawn(t) \/ SwapSpawn(t)
    PROVE  ProcInv'
<1>. USE DEF ManagerInv, ProcInv
<1>1. CASE UNCHANGED <<vm, trees>> /\ (GotoFail(t, "drop") \/ GotoFail(t, "finish"))
  <2>1. OnlyMoves
    BY <1>1 DEF BootSpawn, SwapSpawn, OnlyMoves, ledger
  <2>2. \/ Becomes(t, "drop") /\ task[t].pc = "launch"
        \/ Becomes(t, "finish") /\ task[t].pc = "swapboot"
    <3>1. CASE BootSpawn(t)
      <4>1. GotoFail(t, "drop") /\ task[t].pc = "launch"
        BY <1>1, <3>1 DEF BootSpawn, At, SetVm, Processes, Early
      <4>. QED BY <4>1, Moving DEF PC
    <3>2. CASE SwapSpawn(t)
      <4>1. GotoFail(t, "finish") /\ task[t].pc = "swapboot"
        BY <1>1, <3>2 DEF SwapSpawn, At, SetVm, Processes, Early
      <4>. QED BY <4>1, Moving DEF PC
    <3>. QED BY <3>1, <3>2
  <2>3. Ordinary(t)
    BY <2>1, <2>2, BecomesOrdinary DEF PC
  <2>. QED BY <2>3, OrdinaryInv
<1>2. CASE ~(UNCHANGED <<vm, trees>> /\ (GotoFail(t, "drop") \/ GotoFail(t, "finish")))
  <2>1. /\ vm' = [vm EXCEPT ![t] = "Running"] /\ trees' = trees \cup {t}
        /\ UNCHANGED <<registry, claims, workspaces, guards, faulted>>
    BY <1>2 DEF BootSpawn, SwapSpawn, SetVm, ledger
  <2>2. \/ task[t].pc = "launch" /\ Becomes(t, "boot") /\ Listeners(Id(t)) = {}
        \/ task[t].pc = "swapboot" /\ Becomes(t, "swapready")
    BY <1>2, Moving DEF BootSpawn, SwapSpawn, At, PC
  <2>3. Listeners(Dir(t)) = {}
    <3>1. CASE task[t].pc = "launch"
      BY <2>2, <3>1 DEF Dir, Roles
    <3>2. CASE task[t].pc = "swapboot"
      <4>1. Dir(t) = t /\ t \notin trees
        BY <3>2 DEF Dir, Roles, Processes, Early
      <4>2. \A b \in trees : b \in Tasks /\ Id(b) \in WorkspaceIds
        BY DEF Processes
      <4>. QED BY <4>1, <4>2, ManagerConstants DEF Listeners, Dir
    <3>. QED BY <2>2, <3>1, <3>2
  <2>4. /\ <<task[t].pc, task'[t].pc>> \in {<<"launch", "boot">>, <<"swapboot", "swapready">>}
        /\ Becomes(t, task'[t].pc)
    BY <2>2 DEF Becomes
  <2>. QED BY <2>1, <2>3, <2>4, SpawnStep, Zenon
<1>. QED BY <1>1, <1>2

\* A step that changes the entry of one id, and no other owner or snapshot.
LEMMA AccountedElsewhere ==
    ASSUME Accounted, NEW id \in WorkspaceIds, guards' = guards, faulted => faulted',
           registry'[id] # None \/ \E u \in Tasks : Owns(u)' /\ Id(u)' = id,
           registry'[id] # None => registry'[id].state # "Snapshotting",
           \A w \in WorkspaceIds \ {id} : registry'[w] = registry[w],
           \A u \in Tasks : Id(u) # id =>
              /\ Owns(u) => Owns(u)' /\ Id(u)' = Id(u)
              /\ Dumping(u) => Dumping(u)' /\ Id(u)' = Id(u) /\ task'[u].src = task[u].src
    PROVE  Accounted'
<1>. SUFFICES ASSUME ~faulted', NEW w \in WorkspaceIds \ {id}
     PROVE /\ Guarded(w)' => registry'[w] # None \/ \E u \in Tasks : Owns(u)' /\ Id(u)' = w
           /\ registry'[w] # None /\ registry'[w].state = "Snapshotting" =>
                 \E u \in Tasks : Dumping(u)' /\ Id(u)' = w /\ task'[u].src = registry'[w].boot
  BY DEF Accounted, Guarded
<1>0. registry'[w] = registry[w] /\ (Guarded(w)' => Guarded(w)) /\ ~faulted
  BY DEF Guarded, Holds
<1>1. ASSUME Guarded(w)' PROVE registry'[w] # None \/ \E u \in Tasks : Owns(u)' /\ Id(u)' = w
  <2>1. registry[w] # None \/ \E u \in Tasks : Owns(u) /\ Id(u) = w
    BY <1>0, <1>1 DEF Accounted, Guarded
  <2>2. ASSUME NEW u \in Tasks, Owns(u), Id(u) = w PROVE Owns(u)' /\ Id(u)' = w
    BY <2>2
  <2>. QED BY <1>0, <2>1, <2>2
<1>2. ASSUME registry'[w] # None, registry'[w].state = "Snapshotting"
      PROVE  \E u \in Tasks : Dumping(u)' /\ Id(u)' = w /\ task'[u].src = registry'[w].boot
  <2>1. \E u \in Tasks : Dumping(u) /\ Id(u) = w /\ task[u].src = registry[w].boot
    BY <1>0, <1>2 DEF Accounted
  <2>2. ASSUME NEW u \in Tasks, Dumping(u), Id(u) = w
        PROVE  Dumping(u)' /\ Id(u)' = w /\ task'[u].src = task[u].src
    BY <2>2
  <2>. QED BY <1>0, <2>1, <2>2
<1>. QED BY <1>1, <1>2

\* A boot enters the registry: for the first time, or in its source's place.
LEMMA SpliceStep ==
    ASSUME ManagerInv, ProcInv, ManagerInv', NEW t \in Tasks, NEW id \in WorkspaceIds, id = Id(t),
           \/ task[t].pc = "insert" /\ Becomes(t, "finish") /\ registry[id] = None
           \/ task[t].pc = "swap" /\ Becomes(t, "reapold") /\ Registered(id, task[t].src),
           registry' = [registry EXCEPT ![id] = Entry(t, "Running")],
           workspaces'[id] = "Running",
           \A w \in WorkspaceIds \ {id} : workspaces'[w] = workspaces[w],
           UNCHANGED <<claims, vm, trees, guards>>, faulted => faulted'
    PROVE  ProcInv'
<1>. USE DEF ManagerInv, ProcInv
<1>0. /\ registry'[id].boot = t /\ registry'[id].state = "Running" /\ registry'[id] # None
      /\ \A w \in WorkspaceIds \ {id} : registry'[w] = registry[w]
  <2>. DEFINE e == Entry(t, "Running")
  <2>1. /\ e \in [boot : Tasks, state : WorkspaceState] /\ e.boot = t /\ e.state = "Running"
    BY DEF Entry, WorkspaceState
  <2>. HIDE DEF e
  <2>2. registry' = [registry EXCEPT ![id] = e]
    BY DEF e
  <2>. QED BY <2>1, <2>2, ManagerConstants DEF Types
<1>1. /\ task[t].pc \in Leased /\ task'[t].pc \in Leased \ (Launching \cup Early \cup Dumped)
      /\ task[t].pc \in Launching \ Reaping /\ task'[t].pc \in {"finish", "reapold"} /\ ~Dumping(t)
      /\ vm[t] # "Unborn" /\ Live(t) /\ t \in trees
  BY DEF Becomes, Leased, PC, Early, Launching, Booting, Reaping, Dumped, Dumping, Processes, Live
<1>a. NamesKept
  BY <1>1, Framed DEF Becomes
<1>b. Id(t)' = Id(t) /\ task'[t].src = task[t].src /\ Others(t)
  BY DEF Becomes, Id
<1>c. \A b : Settled(b) => b # t
  BY <1>1 DEF Settled
<1>2. Roles'
  BY DEF Roles, Becomes, Others, Booting
<1>3. Leases'
  BY <1>1, <1>b, LeasesStay
<1>4. Processes'
  BY <1>1, <1>a, <1>b, ProcessesStay
<1>5. Backed'
  <2>1. Settled(t)'
    BY <1>1 DEF Settled
  <2>2. \A w \in WorkspaceIds \ {id} : registry'[w] # None =>
           /\ Settled(registry[w].boot)' /\ Id(registry[w].boot)' = w
           /\ Live(registry[w].boot)' /\ registry'[w].boot \in trees'
           /\ workspaces'[w] = registry'[w].state
    <3>. SUFFICES ASSUME NEW w \in WorkspaceIds \ {id}, registry'[w] # None
         PROVE  /\ Settled(registry[w].boot)' /\ Id(registry[w].boot)' = w
                /\ Live(registry[w].boot)' /\ registry'[w].boot \in trees'
                /\ workspaces'[w] = registry'[w].state
      BY Zenon
    <3>1. /\ registry'[w] = registry[w] /\ workspaces'[w] = workspaces[w]
          /\ trees \subseteq trees' /\ \A b \in Tasks : Live(b) => Live(b)'
      BY <1>0, <1>a DEF NamesKept, Live
    <3>. QED BY <1>a, <3>1 DEF Backed, Settled, NamesKept
  <2>3. /\ Settled(t)' /\ Id(t)' = id /\ Live(t)' /\ t \in trees'
        /\ workspaces'[id] = registry'[id].state
    BY <1>0, <1>1, <1>b, <2>1 DEF Live
  <2>4. ASSUME NEW w \in WorkspaceIds, registry'[w] # None
        PROVE  /\ Settled(registry[w].boot)' /\ Id(registry[w].boot)' = w
               /\ Live(registry[w].boot)' /\ registry'[w].boot \in trees'
               /\ workspaces'[w] = registry'[w].state
    <3>1. CASE w = id
      BY <1>0, <2>3, <3>1 DEF Settled, Id, Live
    <3>. QED BY <2>2, <2>4, <3>1
  <2>. QED BY <2>4 DEF Backed
<1>6. Sources'
  <2>. SUFFICES ASSUME NEW u \in Tasks, task'[u].pc \in Dumped \cup Reaping
       PROVE  \E s \in Tasks :
                 /\ task'[u].src = s /\ Id(u)' = Id(u) /\ Settled(s) /\ Id(s) = Id(u)
                 /\ task'[u].pc \in Dumped => \A b \in trees : Dir(b) = Dir(s) => b = s
                 /\ task'[u].pc \in Reaping => Unregistered(s)'
    BY <1>a, SourceKept DEF Sources, Processes
  <2>. DEFINE s == task[u].src
  <2>1. /\ task'[u].src = s /\ Id(u)' = Id(u)
        /\ task'[u].pc \in Dumped => task[u].pc \in Dumped
        /\ task'[u].pc \in Reaping => task[u].pc \in Reaping \/ (u = t /\ task[t].pc = "swap")
    BY <1>1, <1>b DEF Others, Id, Becomes, Reaping
  <2>2. task[u].pc \in Dumped \cup Reaping
    BY <2>1 DEF Dumped
  <2>3. s \in Tasks /\ s # t /\ Settled(s) /\ Id(s) = Id(u)
    BY <1>c, <2>2 DEF Sources, Captured, Settled
  <2>4. ASSUME NEW b \in Tasks, b # t, Unregistered(b) \/ Registered(id, b) PROVE Unregistered(b)'
    BY <1>0, <2>4 DEF Unregistered, Registered, Backed
  <2>5. task'[u].pc \in Reaping => Unregistered(s) \/ Registered(id, s)
    BY <2>1 DEF Sources, Captured
  <2>6. task'[u].pc \in Reaping => \A b \in Tasks : b = s => Unregistered(b)'
    BY <2>3, <2>4, <2>5
  <2>. QED BY <2>1, <2>3, <2>6 DEF Sources, Captured
<1>7. Kept'
  <2>. SUFFICES ASSUME NEW b \in Tasks, Live(b)' PROVE HasKeeper(b)'
    BY DEF Kept
  <2>1. CASE b = t
    BY <1>0, <1>b, <2>1 DEF HasKeeper, Registered
  <2>2. CASE b # t /\ Registered(id, b)
    <3>1. task[t].src = b /\ task'[t].pc = "reapold"
      BY <2>2 DEF Registered, Becomes
    <3>. QED BY <1>b, <3>1 DEF HasKeeper, Keeper
  <2>3. CASE b # t /\ ~Registered(id, b)
    <3>1. Live(b) /\ Id(b) \in WorkspaceIds
      BY DEF Live, Processes
    <3>. QED BY <1>0, <1>1, <1>a, <1>b, <2>3, <3>1, KeeperKept DEF Registered, Keeper, Others, Reaping
  <2>. QED BY <2>1, <2>2, <2>3
<1>8. Accounted'
  <2>1. \A u \in Tasks : Id(u) # id =>
           /\ Owns(u) => Owns(u)' /\ Id(u)' = Id(u)
           /\ Dumping(u) => Dumping(u)' /\ Id(u)' = Id(u) /\ task'[u].src = task[u].src
    BY <1>b DEF Others, Owns, Dumping, Id
  <2>. QED BY <1>0, <2>1, AccountedElsewhere
<1>9. Inserting'
  <2>1. \A u \in Tasks \ {t} : task[u].pc = "insert" => Id(u) \in WorkspaceIds \ {id}
    BY DEF Ownership, Owns, Owning, Types, Registered
  <2>. QED BY <1>1, <1>b, <2>1, SameInserting
<1>. QED BY <1>2, <1>3, <1>4, <1>5, <1>6, <1>7, <1>8, <1>9

\* The two insertions.
LEMMA InsertSteps ==
    ASSUME ManagerInv, ProcInv, ManagerInv', NEW t \in Tasks, BootInsert(t) \/ Swap(t)
    PROVE  ProcInv'
<1>. USE DEF ManagerInv, ProcInv
<1>0. PICK id \in WorkspaceIds : id = Id(t)
  BY DEF BootInsert, Swap, At, Types
<1>1. CASE BootInsert(t)
  <2>1. task[t].pc = "insert" /\ registry[id] = None /\ workspaces[id] = "Running"
    BY <1>0, <1>1 DEF BootInsert, At, Ownership, Owns, Owning, Inserting
  <2>2. /\ registry' = [registry EXCEPT ![id] = Entry(t, "Running")] /\ Becomes(t, "finish")
        /\ UNCHANGED <<claims, vm, trees, guards, workspaces, faulted>>
    BY <1>0, <1>1, <2>1, Moving DEF BootInsert, PC, ledger
  <2>. QED BY <1>0, <2>1, <2>2, SpliceStep, Zenon
<1>2. CASE Swap(t)
  <2>0. task[t].pc = "swap" /\ UNCHANGED <<claims, vm, trees>>
    BY <1>2 DEF Swap, At
  <2>1. CASE ~Registered(id, task[t].src)
    <3>1. OnlyMoves /\ GotoFail(t, "discard")
      BY <1>0, <1>2, <2>1 DEF Swap, OnlyMoves, ledger
    <3>2. Ordinary(t)
      BY <2>0, <3>1, Moving, BecomesOrdinary DEF PC
    <3>. QED BY <3>2, OrdinaryInv
  <2>2. CASE Registered(id, task[t].src)
    <3>1. PICK ok \in BOOLEAN :
             /\ SetState(id, "Running", ok)
             /\ IF ok
                THEN /\ registry' = [registry EXCEPT ![id] = Entry(t, "Running")]
                     /\ Goto(t, "reapold")
                ELSE GotoFail(t, "discard") /\ UNCHANGED registry
      BY <1>0, <1>2, <2>2 DEF Swap
    <3>2. Holds("Registered", id) /\ "Running" \in WorkspaceState
      BY <2>2 DEF Registered, Ownership, WorkspaceState
    <3>3. /\ guards' = guards /\ (faulted => faulted') /\ (~ok => faulted')
          /\ \A v \in WorkspaceIds \ {id} : workspaces'[v] = workspaces[v]
          /\ workspaces'[id] = IF ok THEN "Running" ELSE workspaces[id]
      BY <3>1, <3>2, LedgerCalls
    <3>4. CASE ok
      <4>1. Becomes(t, "reapold")
        BY <3>1, <3>4, Moving DEF PC
      <4>. QED BY <1>0, <2>0, <2>2, <3>1, <3>3, <3>4, <4>1, SpliceStep
    <3>5. CASE ~ok
      <4>1. Becomes(t, "discard") /\ UNCHANGED registry
        BY <3>1, <3>5, Moving DEF PC
      <4>2. \A v \in WorkspaceIds : workspaces'[v] = workspaces[v]
        BY <3>3, <3>5
      <4>3. ProcessesKept(t)
        BY <2>0, <4>1, SameProcesses DEF Becomes, Launching, Booting
      <4>4. RegistryKept(t)
        BY <2>0, <4>1, <4>2, SameRegistry DEF Dumping
      <4>5. GuardsKept(t)
        BY <2>0, <3>3, SameGuards DEF Owns, Owning, Reserving
      <4>6. Roles'
        BY <2>0, <4>1 DEF Roles, Becomes, Others, Booting
      <4>7. Inserting'
        BY <4>1, <4>2, SameInserting DEF Becomes, Types
      <4>8. Ordinary(t)
        BY <2>0, <3>3, <4>1, <4>3, <4>4, <4>5, <4>6, <4>7
           DEF Ordinary, Becomes, Leased, PC, Reaping, Launching, Booting, Early, Dumped
      <4>. QED BY <4>8, OrdinaryInv
    <3>. QED BY <3>4, <3>5
  <2>. QED BY <2>1, <2>2
<1>. QED BY <1>1, <1>2

\* A terminate takes the entry out and the boot over.
LEMMA RemoveStep ==
    ASSUME ManagerInv, ProcInv, ManagerInv', NEW t \in Tasks, TermRemove(t)
    PROVE  ProcInv'
<1>. USE DEF ManagerInv, ProcInv
<1>0. PICK id \in WorkspaceIds : id = Id(t)
  BY DEF TermRemove, At, Types
<1>1. /\ task[t].pc = "remove" /\ task[t] \in TaskRec /\ task \in [Tasks -> TaskRec]
      /\ UNCHANGED <<claims, vm, trees, guards, workspaces, faulted>>
  BY DEF TermRemove, At, Types, ledger
<1>2. CASE registry[id] = None
  <2>1. OnlyMoves /\ Return(t)
    BY <1>0, <1>1, <1>2 DEF TermRemove, OnlyMoves
  <2>2. Ordinary(t)
    BY <1>1, <2>1, ReturnOrdinary
  <2>. QED BY <2>2, OrdinaryInv
<1>3. CASE registry[id] # None
  <2>. DEFINE s == registry[id].boot
  <2>0. /\ registry' = [registry EXCEPT ![id] = None]
        /\ task' = [task EXCEPT ![t].pc = "reap", ![t].src = s]
    BY <1>0, <1>3 DEF TermRemove
  <2>1. /\ registry'[id] = None /\ \A w \in WorkspaceIds \ {id} : registry'[w] = registry[w]
    BY <2>0 DEF Types
  <2>2. /\ Others(t) /\ task'[t].pc = "reap" /\ task'[t].src = s
        /\ task'[t].op = task[t].op /\ task'[t].id = task[t].id /\ task'[t].dumped = task[t].dumped
    <3>. HIDE DEF s
    <3>. QED BY <1>1, <2>0 DEF Others, TaskRec
  <2>3. /\ task[t].pc \notin Leased \cup Launching \cup Reaping \cup Dumped /\ task[t].pc \in Early
        /\ task'[t].pc \notin Leased \cup Launching \cup Dumped /\ ~Dumping(t) /\ Owns(t)'
    BY <1>1, <2>2 DEF Leased, PC, Early, Launching, Booting, Reaping, Dumped, Dumping, Owns, Owning
  <2>a. NamesKept
    BY <1>1, <2>2, <2>3, Framed
  <2>b. Id(t)' = id
    BY <1>0, <2>2 DEF Id
  <2>c. /\ Settled(s) /\ Id(s) = id /\ s \in Tasks /\ vm[s] # "Unborn"
        /\ \A w \in WorkspaceIds \ {id} : registry[w] # None => registry[w].boot # s
    BY <1>3 DEF Backed, Settled
  <2>4. Roles'
    BY <1>1, <2>2 DEF Roles, Others, Booting
  <2>5. Leases'
    BY <1>0, <1>1, <2>2, <2>3, <2>b, LeasesStay
  <2>6. Processes'
    BY <1>1, <2>2, <2>3, <2>a, ProcessesStay
  <2>7. Backed'
    BY <1>1, <2>1, <2>a DEF Backed, Settled, Live, NamesKept
  <2>8. Sources'
    <3>. SUFFICES ASSUME NEW u \in Tasks, task'[u].pc \in Dumped \cup Reaping
         PROVE  \E b \in Tasks :
                   /\ task'[u].src = b /\ Id(u)' = Id(u) /\ Settled(b) /\ Id(b) = Id(u)
                   /\ task'[u].pc \in Dumped => \A c \in trees : Dir(c) = Dir(b) => c = b
                   /\ task'[u].pc \in Reaping => Unregistered(b)'
      BY <1>1, <2>a, SourceKept DEF Sources, Processes
    <3>1. ASSUME NEW b \in Tasks, Unregistered(b) \/ b = s PROVE Unregistered(b)'
      BY <2>1, <2>c, <3>1 DEF Unregistered
    <3>2. CASE u = t
      BY <1>0, <2>2, <2>3, <2>b, <2>c, <3>1, <3>2
    <3>3. CASE u # t
      <4>1. task'[u] = task[u] /\ Id(u)' = Id(u)
        BY <2>2, <3>3 DEF Others, Id
      <4>. QED BY <3>1, <4>1 DEF Sources, Captured, Settled
    <3>. QED BY <3>2, <3>3
  <2>9. Kept'
    <3>. SUFFICES ASSUME NEW b \in Tasks, Live(b)' PROVE HasKeeper(b)'
      BY DEF Kept
    <3>1. Live(b) /\ Id(b) \in WorkspaceIds
      BY <1>1 DEF Live, Processes
    <3>2. CASE b = s
      BY <2>2, <3>2 DEF HasKeeper, Keeper
    <3>3. CASE b # s
      BY <2>1, <2>2, <2>3, <2>a, <3>1, <3>3, KeeperKept DEF Registered, Keeper, Others, Reaping
    <3>. QED BY <3>2, <3>3
  <2>10. Accounted'
    <3>1. \A u \in Tasks : Id(u) # id =>
             /\ Owns(u) => Owns(u)' /\ Id(u)' = Id(u)
             /\ Dumping(u) => Dumping(u)' /\ Id(u)' = Id(u) /\ task'[u].src = task[u].src
      BY <1>0, <2>2 DEF Others, Owns, Dumping, Id
    <3>. QED BY <1>1, <2>1, <2>3, <2>b, <3>1, AccountedElsewhere
  <2>11. Inserting'
    BY <1>1, <2>2, SameInserting
  <2>. QED BY <2>4, <2>5, <2>6, <2>7, <2>8, <2>9, <2>10, <2>11
<1>. QED BY <1>2, <1>3

\* Every step keeps the invariant.
LEMMA ProcStep ==
    ASSUME ManagerInv, ProcInv, ManagerInv', [Next]_vars
    PROVE  ProcInv'
<1>0. ASSUME NEW t \in Tasks, Ordinary(t) PROVE ProcInv'
  BY <1>0, OrdinaryInv
<1>1. ASSUME NEW t \in Tasks, NEW op \in Ops, NEW id \in WorkspaceIds, Accept(t, op, id)
      PROVE  ProcInv'
  BY <1>0, <1>1, AcceptOrdinary
<1>2. ASSUME NEW t \in Tasks, ClaimLifecycle(t) \/ Finish(t) PROVE ProcInv'
  BY <1>2, ClaimStep, FinishStep
<1>3. ASSUME NEW t \in Tasks, BootStep(t) PROVE ProcInv'
  BY <1>0, <1>3, MovingOrdinary, ReserveOrdinary, SpawnSteps, EndingOrdinary, RegisterOrdinary,
     InsertSteps, DropOrdinary DEF BootStep
<1>4. ASSUME NEW t \in Tasks, TermStep(t) PROVE ProcInv'
  BY <1>0, <1>4, RemoveStep, ReapingOrdinary, DropOrdinary DEF TermStep
<1>5. ASSUME NEW t \in Tasks, SnapStep(t) PROVE ProcInv'
  BY <1>0, <1>5, MovingOrdinary, MarkOrdinary, PauseOrdinary, DumpOrdinary, FinalizeOrdinary, SpawnSteps,
     EndingOrdinary, InsertSteps, ReapingOrdinary DEF SnapStep
<1>6. CASE UNCHANGED vars
  <2>1. UNCHANGED <<registry, claims, vm, trees, task, workspaces, guards, faulted>>
    BY <1>6 DEF vars, mgr, ledger
  <2>2. Roles' /\ Inserting' /\ Leases'
    BY <2>1 DEF ProcInv, Roles, Inserting, Leases, Id
  <2>3. Processes' /\ Backed'
    <3>1. Processes'
      BY <2>1 DEF ProcInv, Processes, Id, Dir, Live
    <3>2. Backed'
      BY <2>1, Zenon DEF ProcInv, Backed, Id, Live, Settled
    <3>. QED BY <3>1, <3>2
  <2>4. Sources'
    BY <2>1 DEF ProcInv, Sources, Captured, Id, Dir, Settled, Unregistered
  <2>5. Kept'
    BY <2>1 DEF ProcInv, Kept, HasKeeper, Id, Live, Registered, Keeper
  <2>6. Accounted'
    BY <2>1 DEF ProcInv, Accounted, Guarded, Holds, Owns, Dumping, Id
  <2>. QED BY <2>2, <2>3, <2>4, <2>5, <2>6 DEF ProcInv
<1>. QED BY <1>1, <1>2, <1>3, <1>4, <1>5, <1>6 DEF Next, Quiet

\* Nothing runs at the start.
LEMMA ProcInit == Init => ProcInv
<1>. SUFFICES ASSUME Init PROVE ProcInv
  OBVIOUS
<1>1. /\ \A t \in Tasks : task[t] = IdleTask /\ vm[t] = "Unborn"
      /\ \A w \in WorkspaceIds : registry[w] = None
      /\ claims = {} /\ trees = {} /\ guards = {}
      /\ vm \in [Tasks -> VmStatus]
  BY DEF Init, LedgerInit, VmStatus
<1>2. IdleTask.pc = "idle" /\ IdleTask.dumped = None
  BY DEF IdleTask
<1>3. "idle" \notin Leased \cup Booting \cup Launching \cup Dumped
  BY DEF Leased, PC, Booting, Launching, Dumped
<1>4. Roles /\ Inserting
  BY <1>1, <1>2, <1>3 DEF Roles, Inserting
<1>5. Leases
  BY <1>1, <1>2, <1>3 DEF Leases
<1>6. Processes
  BY <1>1, <1>2, <1>3 DEF Processes
<1>7. Backed /\ Sources /\ Kept
  BY <1>1, <1>2, <1>3 DEF Backed, Sources, Captured, Reaping, Kept, Live
<1>8. Accounted
  BY <1>1 DEF Accounted, Guarded, Holds
<1>. QED BY <1>4, <1>5, <1>6, <1>7, <1>8 DEF ProcInv

ManagerProcInv == ManagerInv /\ ProcInv

\* The invariant that ties requests, leases, processes, registry and ledger.
THEOREM ManagerProcesses == Spec => []ManagerProcInv
<1>1. Init => ManagerProcInv
  BY ManagerInitInv, ProcInit DEF ManagerProcInv
<1>2. ManagerProcInv /\ [Next]_vars => ManagerProcInv'
  <2>. SUFFICES ASSUME ManagerProcInv, [Next]_vars PROVE ManagerProcInv'
    OBVIOUS
  <2>1. ManagerInv'
    BY ManagerStep DEF ManagerProcInv, ProcInv, Processes, Implements
  <2>. QED BY <2>1, ProcStep DEF ManagerProcInv
<1>. QED BY <1>1, <1>2, PTL DEF Spec

\* Whoever holds a guard holds the entry.
LEMMA HeldByOwner ==
    ASSUME LedgerInv, NEW w \in WorkspaceIds, Guarded(w)
    PROVE  w \in HeldWorkspaces
BY DEF LedgerInv, GuardsOwnEntries, Owned, Guarded, Holds, HeldWorkspaces, WorkspaceState

\* Whoever answers for a live process holds the guard of its id.
LEMMA ChargedInv ==
    ASSUME ManagerProcInv
    PROVE  LiveVmCharged
<1>. USE DEF ManagerProcInv, ManagerInv, ProcInv
<1>. SUFFICES ASSUME NEW b \in Tasks, Live(b), ~Swapping(b)
              PROVE  Id(b) \in HeldWorkspaces
  BY DEF LiveVmCharged, Processes
<1>0. Id(b) \in WorkspaceIds
  BY DEF Processes, Live
<1>1. CASE task[b].pc \in Launching
  <2>1. task[b].pc \in Booting
    BY <1>1 DEF Launching, Swapping
  <2>2. Guarded(Id(b))
    BY <2>1 DEF Booting, Ownership, Reserving, Guarded
  <2>. QED BY <1>0, <2>2, HeldByOwner
<1>2. CASE Registered(Id(b), b)
  <2>1. Guarded(Id(b))
    BY <1>0, <1>2 DEF Registered, Ownership, Guarded
  <2>. QED BY <1>0, <2>1, HeldByOwner
<1>3. CASE \E t \in Tasks : Keeper(b, t)
  <2>1. PICK t \in Tasks : b = task[t].src /\ task[t].pc = "reap"
    BY <1>3 DEF Keeper, Swapping, At
  <2>2. Id(b) = Id(t) /\ Guarded(Id(t))
    BY <2>1 DEF Sources, Captured, Reaping, Ownership, Guarded
  <2>. QED BY <1>0, <2>2, HeldByOwner
<1>. QED BY <1>1, <1>2, <1>3 DEF Kept, HasKeeper

\* The type invariant.
LEMMA TypesInv ==
    ASSUME ManagerProcInv
    PROVE  TypeOK
BY DEF ManagerProcInv, ManagerInv, ProcInv, Types, TaskRec, Leases, Processes, TypeOK

\* Two live processes of one id would have two owners of one guard.
LEMMA BackedInv ==
    ASSUME ManagerProcInv
    PROVE  RegistryBacked
<1>. USE DEF ManagerProcInv, ManagerInv, ProcInv
<1>1. \A w \in WorkspaceIds : registry[w] # None =>
         Holds("Registered", w) /\ workspaces[w] = registry[w].state /\ Live(registry[w].boot)
  BY DEF Ownership, Backed
<1>2. ASSUME NEW a \in Tasks, NEW b \in Tasks, Live(a), Live(b), Id(a) = Id(b), a # b,
             ~Swapping(a), ~Swapping(b)
      PROVE  FALSE
  <2>. DEFINE Boots(x) == task[x].pc \in Booting
              Reaps(x, t) == task[t].src = x /\ task[t].pc = "reap"
  <2>1. ASSUME NEW x \in Tasks, Live(x), ~Swapping(x)
        PROVE  Boots(x) \/ Registered(Id(x), x) \/ \E t \in Tasks : Reaps(x, t)
    BY <2>1 DEF Kept, HasKeeper, Launching, Keeper, Swapping, At
  <2>2. ASSUME NEW x \in Tasks, Boots(x) PROVE Owns(x)
    BY <2>2 DEF Booting, Owns, Owning, Reserving
  <2>3. ASSUME NEW x \in Tasks, NEW t \in Tasks, Reaps(x, t) PROVE Owns(t) /\ Id(x) = Id(t)
    BY <2>3 DEF Owns, Owning, Sources, Captured, Reaping
  <2>4. ASSUME NEW x \in Tasks, NEW t \in Tasks, Reaps(x, t) PROVE ~Boots(t)
    BY <2>4 DEF Booting
  <2>5. \A x, y \in Tasks : Owns(x) /\ Owns(y) /\ Id(x) = Id(y) => x = y
    BY DEF Ownership
  <2>6. \A x \in Tasks : Owns(x) => registry[Id(x)] = None
    BY DEF Ownership
  <2>7. (Boots(a) \/ Registered(Id(a), a) \/ \E t \in Tasks : Reaps(a, t))
        /\ (Boots(b) \/ Registered(Id(b), b) \/ \E t \in Tasks : Reaps(b, t))
    BY <1>2, <2>1
  <2>8. CASE Registered(Id(a), a)
    BY <1>2, <2>2, <2>3, <2>6, <2>7, <2>8 DEF Registered
  <2>9. CASE Registered(Id(b), b)
    BY <1>2, <2>2, <2>3, <2>6, <2>7, <2>9 DEF Registered
  <2>10. CASE Boots(a) /\ Boots(b)
    BY <1>2, <2>2, <2>5, <2>10
  <2>11. CASE Boots(a) /\ \E t \in Tasks : Reaps(b, t)
    BY <1>2, <2>2, <2>3, <2>4, <2>5, <2>11
  <2>12. CASE Boots(b) /\ \E t \in Tasks : Reaps(a, t)
    BY <1>2, <2>2, <2>3, <2>4, <2>5, <2>12
  <2>13. CASE (\E t \in Tasks : Reaps(a, t)) /\ (\E t \in Tasks : Reaps(b, t))
    <3>1. PICK t \in Tasks : Reaps(a, t)
      BY <2>13
    <3>2. PICK u \in Tasks : Reaps(b, u)
      BY <2>13
    <3>3. t = u
      BY <1>2, <2>3, <2>5, <3>1, <3>2
    <3>. QED BY <1>2, <3>1, <3>2, <3>3
  <2>. QED BY <2>7, <2>8, <2>9, <2>10, <2>11, <2>12, <2>13
<1>. QED BY <1>1, <1>2, TypesInv DEF RegistryBacked

\* A dump is of the captured boot.
LEMMA CapturedInv ==
    ASSUME ManagerProcInv
    PROVE  SnapshotOfCapturedBoot
BY DEF ManagerProcInv, ProcInv, Roles, SnapshotOfCapturedBoot

\* With every request returned only the registry answers for anything.
LEMMA LeftOverInv ==
    ASSUME ManagerProcInv
    PROVE  NothingLeftOver
<1>. USE DEF ManagerProcInv, ManagerInv, ProcInv
<1>. SUFFICES ASSUME ~faulted
     PROVE /\ AllDone =>
              /\ claims = {}
              /\ HeldWorkspaces = {w \in WorkspaceIds : registry[w] # None}
              /\ \A b \in Tasks : Live(b) => Registered(Id(b), b)
           /\ \A w \in WorkspaceIds :
                 registry[w] # None /\ registry[w].state = "Snapshotting" =>
                  \E t \in Tasks : Dumping(t) /\ Id(t) = w /\ task[t].src = registry[w].boot
  BY DEF NothingLeftOver
<1>1. \A w \in WorkspaceIds :
         registry[w] # None /\ registry[w].state = "Snapshotting" =>
            \E t \in Tasks : Dumping(t) /\ Id(t) = w /\ task[t].src = registry[w].boot
  BY DEF Accounted
<1>2. ASSUME AllDone
      PROVE  /\ claims = {}
             /\ HeldWorkspaces = {w \in WorkspaceIds : registry[w] # None}
             /\ \A b \in Tasks : Live(b) => Registered(Id(b), b)
  <2>0. \A t \in Tasks : task[t].pc = "done"
    BY <1>2 DEF AllDone, At
  <2>1. claims = {}
    BY <2>0 DEF Leases, Leased, PC
  <2>2. \A b \in Tasks : Live(b) => Registered(Id(b), b)
    BY <2>0 DEF Kept, HasKeeper, Launching, Booting, Keeper
  <2>3. \A w \in WorkspaceIds : registry[w] # None => w \in HeldWorkspaces
    BY HeldByOwner DEF Ownership, Guarded
  <2>4. \A w \in HeldWorkspaces : w \in WorkspaceIds /\ Guarded(w)
    BY DEF LedgerInv, EveryEntryOwned, Guarded, HeldWorkspaces
  <2>5. \A w \in HeldWorkspaces : registry[w] # None
    BY <2>0, <2>4 DEF Accounted, Guarded, Owns, Owning, Reserving
  <2>. QED BY <2>1, <2>2, <2>3, <2>4, <2>5 DEF HeldWorkspaces
<1>. QED BY <1>1, <1>2

\* For every set of requests and ids: while the ledger is healthy, every VM is
\* counted under its own id through create, terminate, snapshot and swap, and a
\* child whose exit terminate could not confirm faults the ledger.
THEOREM LiveVmChargedAlways == Spec => []LiveVmCharged
BY ManagerProcesses, ChargedInv, PTL

\* For every set of requests and ids: the registry, the ledger and the processes
\* agree on every workspace, and only a live swap has two VMs of one id.
THEOREM RegistryBackedAlways == Spec => []RegistryBacked
BY ManagerProcesses, BackedInv, PTL

\* For every set of requests and ids: a snapshot, although it runs unlocked on a
\* path named after the workspace, never dumps another boot than it captured.
THEOREM SnapshotOfCapturedBootAlways == Spec => []SnapshotOfCapturedBoot
BY ManagerProcesses, CapturedInv, PTL

\* For every set of requests and ids: when all requests have returned and the
\* ledger is healthy, no lease, reservation or process is left over, and only a
\* snapshot in flight keeps a workspace in Snapshotting.
THEOREM NothingLeftOverAlways == Spec => []NothingLeftOver
BY ManagerProcesses, LeftOverInv, PTL
=============================================================================
