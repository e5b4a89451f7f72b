------------------------- MODULE WorkspaceManagerProofs -------------------------
(***************************************************************************)
(* The workspace manager implements the capacity ledger's specification,   *)
(* for every set of ids and requests: a request only uses a capacity guard *)
(* that it owns.  What is proved of the ledger in CapacityLedgerProofs     *)
(* then holds of the supervisor's ledger through every interleaving of     *)
(* lifecycle requests.                                                     *)
(*                                                                         *)
(* The invariant says who owns the guard of an id: a boot from its         *)
(* reservation to its insertion or its drop, the registry, or a terminate  *)
(* that has taken the entry out, and never two of them.  No lease is       *)
(* needed for that: a second boot of an id is refused by reserve_workspace *)
(* as long as the first one's entry is there.                              *)
(*                                                                         *)
(* The second half has the invariant of leases, registry and processes and *)
(* the lemmas that its proof, in WorkspaceProcessProofs, rests on.         *)
(***************************************************************************)
EXTENDS WorkspaceManager, CapacityLedgerProofs

\* The time each leaf may take: SMT first, then Zenon.
USE SMTT(20), ZenonT(20)

Acts == {"none", "Running", "Resume", "Paused"}

TaskRec ==
    [op : Ops \cup {"idle"}, id : WorkspaceIds \cup {None}, pc : PC, src : Tasks \cup {None},
     was : BOOLEAN, act : Acts, failed : BOOLEAN, final : BOOLEAN, dumped : Tasks \cup {None}]

Types ==
    /\ task \in [Tasks -> TaskRec]
    /\ registry \in [WorkspaceIds -> {None} \cup [boot : Tasks, state : WorkspaceState]]
    /\ \A t \in Tasks : /\ task[t].pc \notin {"idle", "done"} => Id(t) \in WorkspaceIds
                        /\ At(t, "finalize") => task[t].act # "none"

\* The steps between which a request owns the capacity guard of its id.
Reserving == {"launch", "boot", "ready", "register"}
Owning == Reserving \cup {"insert", "teardown", "drop", "reap", "untree"}
Owns(t) == task[t].pc \in Owning

Ownership ==
    /\ \A t \in Tasks :
          /\ task[t].pc \in Reserving => Holds("Reservation", Id(t))
          /\ task[t].pc \in {"insert", "reap", "untree"} => Holds("Registered", Id(t))
          /\ task[t].pc \in {"teardown", "drop"} =>
                Holds("Reservation", Id(t)) \/ Holds("Registered", Id(t))
          /\ Owns(t) => registry[Id(t)] = None
    /\ \A w \in WorkspaceIds : registry[w] # None => Holds("Registered", w)
    /\ \A t, u \in Tasks : Owns(t) /\ Owns(u) /\ Id(t) = Id(u) => t = u

ManagerInv == LedgerInv /\ Types /\ Ownership

\* A guard of either kind means the ledger has an entry for its id.
LEMMA GuardMeansEntry ==
    ASSUME LedgerInv, NEW w \in WorkspaceIds, workspaces[w] = "Absent"
    PROVE  ~Holds("Reservation", w) /\ ~Holds("Registered", w)
BY DEF LedgerInv, GuardsOwnEntries, Owned, Holds, WorkspaceState

\* Request t moves to a step at which it owns nothing, or what it owned before.
Moves(t) ==
    \E r \in TaskRec :
        /\ task' = [task EXCEPT ![t] = r]
        /\ r.pc \notin {"idle", "done"} => r.id \in WorkspaceIds
        /\ r.pc = "finalize" => r.act # "none"
        /\ \/ r.pc \notin Owning
           \/ r.id = Id(t) /\ r.pc \in Reserving /\ task[t].pc \in Reserving
           \/ r.id = Id(t) /\ r.pc \in {"teardown", "drop"} /\ Owns(t)
           \/ r.id = Id(t) /\ r.pc = "untree" /\ At(t, "reap")

RegistryType == [WorkspaceIds -> {None} \cup [boot : Tasks, state : WorkspaceState]]

\* Such a move disturbs no ownership while the guards, and the ids that are
\* registered, stay the same.
LEMMA MoveKeepsOwnership ==
    ASSUME Types, Ownership, NEW t \in Tasks, Moves(t), guards' = guards,
           registry' \in RegistryType,
           \A w \in WorkspaceIds : registry'[w] = None <=> registry[w] = None
    PROVE  Types' /\ Ownership'
<1>. PICK r \in TaskRec :
        /\ task' = [task EXCEPT ![t] = r]
        /\ r.pc \notin {"idle", "done"} => r.id \in WorkspaceIds
        /\ r.pc = "finalize" => r.act # "none"
        /\ \/ r.pc \notin Owning
           \/ r.id = Id(t) /\ r.pc \in Reserving /\ task[t].pc \in Reserving
           \/ r.id = Id(t) /\ r.pc \in {"teardown", "drop"} /\ Owns(t)
           \/ r.id = Id(t) /\ r.pc = "untree" /\ At(t, "reap")
  BY Zenon DEF Moves
<1>1. /\ task' \in [Tasks -> TaskRec] /\ task'[t] = r
      /\ \A u \in Tasks \ {t} : task'[u] = task[u]
  BY DEF Types
<1>2. Types'
  BY <1>1 DEF Types, Id, At, RegistryType
<1>. QED BY <1>1, <1>2 DEF Ownership, Types, Owns, Id, At, Holds, Owning, Reserving

\* The updates of a request's record are updates by a well-typed record.
LEMMA TaskUpdates ==
    ASSUME Types, NEW t \in Tasks, NEW pc \in PC
    PROVE  /\ Goto(t, pc) => \E r \in TaskRec : /\ task' = [task EXCEPT ![t] = r]
                                               /\ r.pc = pc /\ r.id = Id(t) /\ r.act = task[t].act
           /\ GotoFail(t, pc) => \E r \in TaskRec : /\ task' = [task EXCEPT ![t] = r]
                                               /\ r.pc = pc /\ r.id = Id(t) /\ r.act = task[t].act
           /\ Return(t) => \E r \in TaskRec : task' = [task EXCEPT ![t] = r] /\ r.pc = "done"
<1>. DEFINE r1 == [task[t] EXCEPT !.pc = pc]
            r2 == [task[t] EXCEPT !.pc = pc, !.failed = TRUE]
            r3 == IF vm[t] = "Unborn" THEN [IdleTask EXCEPT !.pc = "done"]
                  ELSE [IdleTask EXCEPT !.pc = "done", !.op = task[t].op, !.id = Id(t)]
<1>1. task[t] \in TaskRec
  BY DEF Types
<1>2. r1 \in TaskRec /\ r1.pc = pc /\ r1.id = Id(t) /\ r1.act = task[t].act
  BY <1>1 DEF TaskRec, Id
<1>3. r2 \in TaskRec /\ r2.pc = pc /\ r2.id = Id(t) /\ r2.act = task[t].act
  BY <1>1, Zenon DEF TaskRec, Id
<1>4. r3 \in TaskRec /\ r3.pc = "done"
  <2>1. IdleTask \in TaskRec /\ "done" \in PC
    BY DEF TaskRec, IdleTask, PC, Acts
  <2>2. CASE vm[t] = "Unborn"
    BY <2>1, <2>2 DEF TaskRec
  <2>3. CASE vm[t] # "Unborn"
    BY <1>1, <2>1, <2>3, Zenon DEF TaskRec, Id
  <2>. QED BY <2>2, <2>3
<1>5. Goto(t, pc) => task' = [task EXCEPT ![t] = r1]
  BY DEF Goto
<1>6. GotoFail(t, pc) => task' = [task EXCEPT ![t] = r2]
  BY Zenon DEF GotoFail
<1>7. Return(t) => task' = [task EXCEPT ![t] = r3]
  BY DEF Return
<1>. QED BY <1>2, <1>3, <1>4, <1>5, <1>6, <1>7, Zenon

\* What a step does that moves one request, uses the ledger as it may and leaves
\* every guard with its owner.
OwnersKept(t) ==
    /\ Moves(t)
    /\ guards' = guards
    /\ registry' \in RegistryType
    /\ \A w \in WorkspaceIds : registry'[w] = None <=> registry[w] = None
    /\ [LedgerNext]_ledger

\* Such a step keeps the invariant and is a step of the ledger's specification.
LEMMA OwnersKeptInv ==
    ASSUME ManagerInv, NEW t \in Tasks, OwnersKept(t)
    PROVE  ManagerInv' /\ [LedgerNext]_ledger
<1>1. Types' /\ Ownership'
  BY MoveKeepsOwnership DEF ManagerInv, OwnersKept
<1>2. LedgerInv'
  BY LedgerStepInv DEF ManagerInv, OwnersKept
<1>. QED BY <1>1, <1>2 DEF ManagerInv, OwnersKept

\* Steps that leave ledger and registry alone.
LEMMA PlainSteps ==
    ASSUME ManagerInv, NEW t \in Tasks, UNCHANGED <<ledger, registry>>, Moves(t)
    PROVE  OwnersKept(t)
BY DEF ManagerInv, Types, OwnersKept, RegistryType, ledger

\* An unconfirmed exit faults the ledger, which any caller may do.
LEMMA FaultSteps ==
    ASSUME ManagerInv, NEW t \in Tasks, FaultLedger, UNCHANGED registry, Moves(t)
    PROVE  OwnersKept(t)
<1>1. LedgerNext /\ guards' = guards
  BY DEF LedgerNext, FaultLedger
<1>. QED BY <1>1 DEF ManagerInv, Types, OwnersKept, RegistryType

\* A request moves from a step to one at which it owns nothing.
LEMMA MovesOff ==
    ASSUME Types, NEW t \in Tasks, NEW pc \in PC \ (Owning \cup {"finalize"}),
           task[t].pc \notin {"idle", "done"}, Goto(t, pc) \/ GotoFail(t, pc)
    PROVE  Moves(t)
<1>1. PICK r \in TaskRec : task' = [task EXCEPT ![t] = r] /\ r.pc = pc /\ r.id = Id(t)
  BY TaskUpdates
<1>. QED BY <1>1, Zenon DEF Moves, Types

\* A request that returns owns nothing.
LEMMA MovesReturn ==
    ASSUME Types, NEW t \in Tasks, Return(t)
    PROVE  Moves(t)
<1>1. PICK r \in TaskRec : task' = [task EXCEPT ![t] = r] /\ r.pc = "done"
  BY TaskUpdates DEF PC
<1>. QED BY <1>1, Zenon DEF Moves, Owning, Reserving

\* It moves on with the guard it owns.
LEMMA MovesOwning ==
    ASSUME Types, NEW t \in Tasks, NEW pc \in PC,
           \/ pc \in Reserving /\ task[t].pc \in Reserving
           \/ pc \in {"teardown", "drop"} /\ Owns(t)
           \/ pc = "untree" /\ At(t, "reap"),
           Goto(t, pc) \/ GotoFail(t, pc)
    PROVE  Moves(t)
<1>1. PICK r \in TaskRec : task' = [task EXCEPT ![t] = r] /\ r.pc = pc /\ r.id = Id(t)
  BY TaskUpdates
<1>. QED BY <1>1, Zenon DEF Moves, Types, Owns, Owning, Reserving, At

\* Requests come, take their lease and go.
LEMMA RequestSteps ==
    ASSUME ManagerInv, NEW t \in Tasks, NEW op \in Ops, NEW id \in WorkspaceIds,
           Accept(t, op, id) \/ ClaimLifecycle(t) \/ Finish(t)
    PROVE  OwnersKept(t)
<1>. USE DEF ManagerInv
<1>1. ASSUME Accept(t, op, id) PROVE Moves(t)
  <2>. DEFINE pc == IF op = "terminate" THEN "remove" ELSE "claim"
              r == [task[t] EXCEPT !.op = op, !.id = id, !.pc = pc]
  <2>0. pc \in PC /\ pc \in {"remove", "claim"} /\ task[t] \in TaskRec
    BY DEF Types, PC
  <2>. HIDE DEF pc
  <2>1. r \in TaskRec /\ r.pc = pc /\ r.id = id
    BY <2>0, Zenon DEF TaskRec
  <2>2. task' = [task EXCEPT ![t] = r]
    BY <1>1 DEF Accept, pc
  <2>. QED BY <2>0, <2>1, <2>2, Zenon DEF Moves, Owning, Reserving
<1>2. ASSUME ClaimLifecycle(t) PROVE Moves(t)
  <2>1. CASE Return(t)
    BY <2>1, MovesReturn
  <2>2. CASE Goto(t, "mark") \/ Goto(t, "check")
    BY <1>2, <2>2, MovesOff DEF ClaimLifecycle, At, PC, Owning, Reserving
  <2>. QED BY <1>2, <2>1, <2>2 DEF ClaimLifecycle
<1>3. ASSUME Finish(t) PROVE Moves(t)
  BY <1>3, MovesReturn DEF Finish
<1>. QED BY <1>1, <1>2, <1>3, PlainSteps DEF Accept, ClaimLifecycle, Finish

\* The steps of a boot, and of a terminate, that only carry their guard along.
LEMMA CarryingSteps ==
    ASSUME ManagerInv, NEW t \in Tasks,
           BootCheck(t) \/ BootSpawn(t) \/ BootLaunched(t) \/ BootReady(t) \/ BootTeardown(t)
           \/ TermReap(t)
    PROVE  OwnersKept(t)
<1>. USE DEF ManagerInv
<1>1. CASE BootCheck(t)
  <2>1. Moves(t)
    BY <1>1, MovesOff DEF BootCheck, PrepareBoot, At, PC, Owning, Reserving
  <2>. QED BY <1>1, <2>1, PlainSteps DEF BootCheck
<1>2. CASE BootSpawn(t)
  <2>1. Moves(t)
    BY <1>2, MovesOwning DEF BootSpawn, At, PC, Owns, Owning, Reserving
  <2>. QED BY <1>2, <2>1, PlainSteps DEF BootSpawn
<1>3. CASE BootLaunched(t)
  <2>1. Moves(t)
    BY <1>3, MovesOwning DEF BootLaunched, LaunchFails, At, PC, Owns, Owning, Reserving
  <2>. QED BY <1>3, <2>1, PlainSteps DEF BootLaunched, LaunchFails
<1>4. CASE BootReady(t)
  <2>1. Moves(t)
    BY <1>4, MovesOwning DEF BootReady, At, PC, Owns, Owning, Reserving
  <2>. QED BY <1>4, <2>1, PlainSteps, FaultSteps, Zenon DEF BootReady, TerminateOrFault
<1>5. CASE BootTeardown(t)
  <2>1. CASE Goto(t, "drop") /\ UNCHANGED ledger
    BY <1>5, <2>1, MovesOwning, PlainSteps DEF BootTeardown, At, PC, Owns, Owning, Reserving
  <2>2. CASE Goto(t, "finish") /\ FaultLedger
    BY <1>5, <2>2, MovesOff, FaultSteps DEF BootTeardown, At, PC, Owning, Reserving
  <2>. QED BY <1>5, <2>1, <2>2, Zenon DEF BootTeardown
<1>6. CASE TermReap(t)
  <2>1. CASE Goto(t, "untree") /\ UNCHANGED ledger
    BY <1>6, <2>1, MovesOwning, PlainSteps DEF TermReap, At, PC, Owns, Owning, Reserving
  <2>2. CASE Return(t) /\ FaultLedger
    BY <1>6, <2>2, MovesReturn, FaultSteps DEF TermReap
  <2>. QED BY <1>6, <2>1, <2>2 DEF TermReap
<1>. QED BY <1>1, <1>2, <1>3, <1>4, <1>5, <1>6

\* set_state is called by whoever finds the workspace in the registry.
LEMMA StateSteps ==
    ASSUME ManagerInv, NEW t \in Tasks, NEW id \in WorkspaceIds, NEW state \in WorkspaceState,
           NEW ok \in BOOLEAN, registry[id] # None, SetState(id, state, ok), Moves(t),
           NEW e \in [boot : Tasks, state : WorkspaceState],
           registry' \in {registry, [registry EXCEPT ![id] = e]}
    PROVE  OwnersKept(t)
<1>1. Holds("Registered", id)
  BY DEF ManagerInv, Ownership
<1>2. LedgerNext
  BY <1>1 DEF LedgerNext
<1>3. guards' = guards
  BY DEF SetState, Refuse, Overflow, FaultLedger, ledger
<1>4. registry' \in RegistryType
  BY DEF ManagerInv, Types, RegistryType
<1>5. \A w \in WorkspaceIds : registry'[w] = None <=> registry[w] = None
  BY ManagerConstants DEF ManagerInv, Types
<1>. QED BY <1>2, <1>3, <1>4, <1>5 DEF OwnersKept

\* A request with more of its record updated moves to a step at which it owns nothing.
LEMMA MovesTo ==
    ASSUME Types, NEW t \in Tasks, task[t].pc \notin {"idle", "done"}, NEW r \in TaskRec,
           task' = [task EXCEPT ![t] = r], r.id = Id(t), r.pc \notin Owning,
           r.pc = "finalize" => r.act # "none"
    PROVE  Moves(t)
BY Zenon DEF Types, Moves

\* The steps of a snapshot and of its swap that change neither ledger nor registry.
LEMMA SnapPlainSteps ==
    ASSUME ManagerInv, trees \subseteq Tasks, NEW t \in Tasks,
           SnapReject(t) \/ SnapPause(t) \/ SnapDump(t) \/ SnapCopy(t) \/ SwapSpawn(t)
    PROVE  OwnersKept(t)
<1>. USE DEF ManagerInv
<1>t. task[t] \in TaskRec /\ "finalize" \in PC /\ "finalize" \notin Owning
  BY DEF Types, PC, Owning, Reserving
<1>0. ASSUME NEW act \in Acts \ {"none"}, GotoFinalize(t, act, TRUE),
             task[t].pc \notin {"idle", "done"}
      PROVE  Moves(t)
  <2>. DEFINE r == [task[t] EXCEPT !.pc = "finalize", !.act = act, !.failed = TRUE]
  <2>1. r \in TaskRec /\ r.pc = "finalize" /\ r.id = Id(t) /\ r.act = act
    BY <1>t, Zenon DEF TaskRec, Id
  <2>2. task' = [task EXCEPT ![t] = r]
    BY <1>0 DEF GotoFinalize
  <2>. HIDE DEF r
  <2>. QED BY <1>0, <1>t, <2>1, <2>2, MovesTo, Zenon
<1>1. CASE SnapReject(t)
  <2>1. Moves(t)
    BY <1>1, MovesOff DEF SnapReject, At, PC, Owning, Reserving
  <2>. QED BY <1>1, <2>1, PlainSteps DEF SnapReject
<1>2. CASE SnapPause(t)
  <2>1. CASE Goto(t, "dump")
    BY <1>2, <2>1, MovesOff, PlainSteps DEF SnapPause, At, PC, Owning, Reserving
  <2>2. CASE GotoFinalize(t, "Running", TRUE)
    <3>1. Moves(t)
      BY <1>2, <2>2, <1>0, Zenon DEF SnapPause, At, Acts
    <3>. QED BY <1>2, <3>1, PlainSteps DEF SnapPause
  <2>. QED BY <1>2, <2>1, <2>2, Zenon DEF SnapPause
<1>3. CASE SnapDump(t)
  <2>. DEFINE fail == IF task[t].was THEN "Resume" ELSE "Paused"
              then == IF task[t].was /\ task[t].op # "live" THEN "Resume" ELSE "Paused"
  <2>0. fail \in Acts \ {"none"} /\ then \in Acts \ {"none"} /\ task[t].pc = "dump"
    BY <1>3, Zenon DEF Acts, SnapDump, At
  <2>1. ASSUME NEW b \in Tasks,
               task' = [task EXCEPT ![t] = [@ EXCEPT !.pc = "finalize", !.dumped = b, !.act = then]]
        PROVE  Moves(t)
    <3>. DEFINE r == [task[t] EXCEPT !.pc = "finalize", !.dumped = b, !.act = then]
    <3>2. task' = [task EXCEPT ![t] = r]
      BY <2>1
    <3>. HIDE DEF then
    <3>1. r \in TaskRec /\ r.pc = "finalize" /\ r.id = Id(t) /\ r.act = then
      BY <1>t, <2>0, Zenon DEF TaskRec, Id
    <3>. HIDE DEF r
    <3>. QED BY <1>t, <2>0, <3>1, <3>2, MovesTo, Zenon
  <2>2. GotoFinalize(t, fail, TRUE) \/ \E b \in Tasks :
           task' = [task EXCEPT ![t] = [@ EXCEPT !.pc = "finalize", !.dumped = b, !.act = then]]
    BY <1>3, Zenon DEF SnapDump, Listeners
  <2>3. UNCHANGED <<ledger, registry>>
    BY <1>3, Zenon DEF SnapDump
  <2>. HIDE DEF fail, then
  <2>4. Moves(t)
    BY <2>0, <2>1, <2>2, <1>0, Zenon
  <2>. QED BY <2>3, <2>4, PlainSteps
<1>4. CASE SnapCopy(t)
  <2>1. Moves(t)
    BY <1>4, MovesOff DEF SnapCopy, At, PC, Owning, Reserving
  <2>. QED BY <1>4, <2>1, PlainSteps DEF SnapCopy
<1>5. CASE SwapSpawn(t)
  <2>1. Moves(t)
    BY <1>5, MovesOff DEF SwapSpawn, At, PC, Owning, Reserving
  <2>. QED BY <1>5, <2>1, PlainSteps DEF SwapSpawn
<1>. QED BY <1>1, <1>2, <1>3, <1>4, <1>5

\* The steps of a swap that at most fault the ledger.
LEMMA SwapFaultSteps ==
    ASSUME ManagerInv, NEW t \in Tasks, SwapReady(t) \/ SwapDiscard(t) \/ SwapReapOld(t)
    PROVE  OwnersKept(t)
<1>. USE DEF ManagerInv
<1>1. Moves(t)
  BY MovesOff, Zenon DEF SwapReady, SwapDiscard, SwapReapOld, LaunchFails, At, PC, Owning, Reserving
<1>2. UNCHANGED registry /\ (UNCHANGED ledger \/ FaultLedger)
  BY Zenon DEF SwapReady, SwapDiscard, SwapReapOld, LaunchFails, TerminateOrFault
<1>. QED BY <1>1, <1>2, PlainSteps, FaultSteps

\* The steps that change the state of a registered workspace.
LEMMA SetStateSteps ==
    ASSUME ManagerInv, NEW t \in Tasks, SnapMark(t) \/ SnapFinalize(t) \/ Swap(t)
    PROVE  OwnersKept(t)
<1>. USE DEF ManagerInv
<1>. DEFINE id == Id(t)
<1>t. /\ task[t] \in TaskRec /\ task[t].pc \notin {"idle", "done"} /\ id \in WorkspaceIds
      /\ {"pause", "dump", "finish", "copy"} \subseteq PC \ (Owning \cup {"finalize"})
  BY DEF Types, PC, Owning, Reserving, SnapMark, SnapFinalize, Swap, At
<1>e. ASSUME registry[id] # None, NEW state \in WorkspaceState
      PROVE  [registry[id] EXCEPT !.state = state] \in [boot : Tasks, state : WorkspaceState]
  BY <1>e, <1>t DEF Types
<1>1. CASE SnapMark(t)
  <2>. DEFINE running == registry[id].state = "Running"
              pc == IF running THEN "pause" ELSE "dump"
              r == [task[t] EXCEPT !.src = registry[id].boot, !.was = running, !.pc = pc]
              e == [registry[id] EXCEPT !.state = "Snapshotting"]
  <2>0. /\ registry[id] # None /\ "Snapshotting" \in WorkspaceState
        /\ registry[id].boot \in Tasks /\ running \in BOOLEAN
    BY <1>1, <1>t DEF SnapMark, WorkspaceState, Types
  <2>1. PICK ok \in BOOLEAN :
           /\ SetState(id, "Snapshotting", ok)
           /\ \/ registry' = [registry EXCEPT ![id] = e] /\ task' = [task EXCEPT ![t] = r]
              \/ GotoFail(t, "finish") /\ UNCHANGED registry
    BY <1>1 DEF SnapMark
  <2>2. pc \in {"pause", "dump"}
    OBVIOUS
  <2>3. e \in [boot : Tasks, state : WorkspaceState]
    BY <1>e, <2>0
  <2>. HIDE DEF running, pc, e, id
  <2>4. r \in TaskRec /\ r.pc = pc /\ r.id = Id(t)
    BY <1>t, <2>0, <2>2, Zenon DEF TaskRec, Id
  <2>. HIDE DEF r
  <2>5. Moves(t)
    <3>1. CASE task' = [task EXCEPT ![t] = r]
      BY <1>t, <2>2, <2>4, <3>1, MovesTo, Zenon
    <3>2. CASE GotoFail(t, "finish")
      BY <1>t, <3>2, MovesOff
    <3>. QED BY <2>1, <3>1, <3>2
  <2>. QED BY <1>t, <2>0, <2>1, <2>3, <2>5, StateSteps
<1>2. CASE SnapFinalize(t)
  <2>. DEFINE next == IF task[t].failed THEN "finish" ELSE "copy"
              after(final) == task' = [task EXCEPT ![t].pc = next, ![t].final = final]
  <2>0. next \in {"finish", "copy"}
    OBVIOUS
  <2>1. ASSUME NEW final \in BOOLEAN, after(final) PROVE Moves(t)
    <3>. DEFINE r == [task[t] EXCEPT !.pc = next, !.final = final]
    <3>1. task' = [task EXCEPT ![t] = r]
      BY <2>1, Zenon
    <3>. HIDE DEF next
    <3>2. r \in TaskRec /\ r.pc = next /\ r.id = Id(t)
      BY <1>t, <2>0, Zenon DEF TaskRec, Id
    <3>. HIDE DEF r
    <3>. QED BY <1>t, <2>0, <3>1, <3>2, MovesTo, Zenon
  <2>2. CASE after(FALSE) /\ UNCHANGED <<ledger, registry>>
    BY <2>1, <2>2, PlainSteps, Zenon
  <2>3. ASSUME NEW ok \in BOOLEAN, NEW accounted \in BOOLEAN, Registered(id, task[t].src),
               SetState(id, FinalState(task[t].act, ok), accounted), after(accounted),
               \/ registry' = [registry EXCEPT ![id].state = FinalState(task[t].act, ok)]
               \/ UNCHANGED registry
        PROVE  OwnersKept(t)
    <3>. DEFINE state == FinalState(task[t].act, ok)
                e == [registry[id] EXCEPT !.state = state]
    <3>1. state \in WorkspaceState /\ registry[id] # None
      BY <1>2, <2>3, <1>t, Zenon DEF FinalState, WorkspaceState, Types, TaskRec, Acts, SnapFinalize,
                              Registered
    <3>2. registry' \in {registry, [registry EXCEPT ![id] = e]}
      BY <2>3
    <3>. HIDE DEF state
    <3>3. e \in [boot : Tasks, state : WorkspaceState]
      BY <1>e, <3>1
    <3>4. Moves(t)
      BY <2>1, <2>3, Zenon
    <3>5. SetState(id, state, accounted)
      BY <2>3 DEF state
    <3>. HIDE DEF e, id
    <3>. QED BY <1>t, <3>1, <3>2, <3>3, <3>4, <3>5, StateSteps
  <2>. QED BY <1>2, <2>2, <2>3 DEF SnapFinalize
<1>3. CASE Swap(t)
  <2>1. Moves(t)
    BY <1>3, MovesOff DEF Swap, At, PC, Owning, Reserving
  <2>2. CASE ~Registered(id, task[t].src)
    BY <1>3, <2>1, <2>2, PlainSteps DEF Swap
  <2>3. CASE Registered(id, task[t].src)
    <3>. DEFINE e == Entry(t, "Running")
    <3>1. PICK ok \in BOOLEAN : /\ SetState(id, "Running", ok)
                                /\ registry' \in {registry, [registry EXCEPT ![id] = e]}
      BY <1>3, <2>3 DEF Swap
    <3>2. /\ e \in [boot : Tasks, state : WorkspaceState] /\ registry[id] # None
          /\ "Running" \in WorkspaceState
      BY <2>3 DEF Entry, WorkspaceState, Registered
    <3>. HIDE DEF e, id
    <3>. QED BY <1>t, <2>1, <3>1, <3>2, StateSteps
  <2>. QED BY <2>2, <2>3
<1>. QED BY <1>1, <1>2, <1>3

GuardKinds == {"Reservation", "Registered"}

\* A step that hands the guard of one id to a new owner, or drops it, while no
\* other request owns it.
LEMMA OwnerChanges ==
    ASSUME Types, Ownership, NEW t \in Tasks, NEW id \in WorkspaceIds, NEW r \in TaskRec,
           task' = [task EXCEPT ![t] = r], r.pc = "done" \/ r.id = id,
           r.pc \notin {"idle", "finalize"},
           \A u \in Tasks \ {t} : ~(Owns(u) /\ Id(u) = id),
           registry' \in RegistryType,
           \A w \in WorkspaceIds \ {id} :
               /\ registry'[w] = registry[w]
               /\ \A k \in GuardKinds : <<k, w>> \in guards' <=> <<k, w>> \in guards,
           r.pc \in Reserving => <<"Reservation", id>> \in guards',
           r.pc \in {"insert", "reap", "untree"} => <<"Registered", id>> \in guards',
           r.pc \in {"teardown", "drop"} => \E k \in GuardKinds : <<k, id>> \in guards',
           r.pc \in Owning => registry'[id] = None,
           registry'[id] # None => <<"Registered", id>> \in guards'
    PROVE  Types' /\ Ownership'
<1>1. /\ task' \in [Tasks -> TaskRec] /\ task'[t] = r
      /\ \A u \in Tasks \ {t} : task'[u] = task[u]
  BY DEF Types
<1>2. Types'
  BY <1>1 DEF Types, Id, At, RegistryType
<1>3. \A u \in Tasks \ {t} : Owns(u) => Id(u) \in WorkspaceIds \ {id}
  BY DEF Types, Owns, Owning, Reserving
<1>4. \A u \in Tasks \ {t} : Owns(u)' <=> Owns(u)
  BY <1>1 DEF Owns
<1>5. ASSUME NEW u \in Tasks
      PROVE  /\ task'[u].pc \in Reserving => Holds("Reservation", Id(u))'
             /\ task'[u].pc \in {"insert", "reap", "untree"} => Holds("Registered", Id(u))'
             /\ task'[u].pc \in {"teardown", "drop"} =>
                   Holds("Reservation", Id(u))' \/ Holds("Registered", Id(u))'
             /\ Owns(u)' => registry'[Id(u)'] = None
  <2>1. CASE u = t
    BY <1>1, <2>1 DEF Holds, Id, Owns, Owning, Reserving, GuardKinds
  <2>2. CASE u # t
    BY <1>1, <1>3, <2>2 DEF Ownership, Holds, Id, Owns, Owning, Reserving, GuardKinds
  <2>. QED BY <2>1, <2>2
<1>6. \A w \in WorkspaceIds : registry'[w] # None => Holds("Registered", w)'
  BY Zenon DEF Ownership, Holds, GuardKinds
<1>7. \A u, v \in Tasks : Owns(u)' /\ Owns(v)' /\ Id(u)' = Id(v)' => u = v
  BY <1>1 DEF Ownership, Owns, Id, Owning, Reserving
<1>. QED BY <1>2, <1>5, <1>6, <1>7 DEF Ownership

\* The invariant is kept, and the step is one of the ledger's specification.
Implements == ManagerInv' /\ [LedgerNext]_ledger

\* reserve_workspace: an id without an entry has no owner, so a boot gains it.
LEMMA BootReserveStep ==
    ASSUME ManagerInv, NEW t \in Tasks, BootReserve(t)
    PROVE  Implements
<1>. USE DEF ManagerInv
<1>. DEFINE id == Id(t)
<1>t. id \in WorkspaceIds
  BY DEF Types, BootReserve, At
<1>1. PICK ok \in BOOLEAN : /\ ReserveWorkspace(id, ok)
                            /\ IF ok THEN Goto(t, "launch") ELSE GotoFail(t, "finish")
  BY DEF BootReserve
<1>2. LedgerNext
  BY <1>1, <1>t DEF LedgerNext
<1>3. registry' = registry /\ registry' \in RegistryType
  BY DEF BootReserve, Types, RegistryType
<1>4. CASE ~ok
  <2>1. Moves(t)
    BY <1>1, <1>4, MovesOff DEF BootReserve, At, PC, Owning, Reserving
  <2>2. guards' = guards
    BY <1>1, <1>4 DEF ReserveWorkspace, Refuse, Overflow, FaultLedger, ledger
  <2>3. OwnersKept(t)
    BY <1>2, <1>3, <2>1, <2>2 DEF OwnersKept
  <2>. QED BY <2>3, OwnersKeptInv DEF Implements
<1>5. CASE ok
  <2>1. workspaces[id] = "Absent" /\ guards' = guards \cup {<<"Reservation", id>>}
    BY <1>1, <1>5 DEF ReserveWorkspace, Refuse, Overflow
  <2>2. ~Holds("Reservation", id) /\ ~Holds("Registered", id)
    BY <1>t, <2>1, GuardMeansEntry
  <2>3. registry[id] = None /\ \A u \in Tasks : ~(Owns(u) /\ Id(u) = id)
    BY <1>t, <2>2 DEF Ownership, Owns, Owning, Reserving
  <2>4. PICK r \in TaskRec : task' = [task EXCEPT ![t] = r] /\ r.pc = "launch" /\ r.id = id
    BY <1>1, <1>5, TaskUpdates DEF PC
  <2>5. Types' /\ Ownership'
    BY <1>t, <1>3, <2>1, <2>3, <2>4, OwnerChanges, Zenon DEF Owning, Reserving, GuardKinds
  <2>. QED BY <1>2, <2>5, LedgerStepInv DEF Implements
<1>. QED BY <1>4, <1>5

\* register_in_place turns the reservation a boot owns into a registered guard.
LEMMA BootRegisterStep ==
    ASSUME ManagerInv, NEW t \in Tasks, BootRegister(t)
    PROVE  Implements
<1>. USE DEF ManagerInv
<1>. DEFINE id == Id(t)
<1>t. /\ id \in WorkspaceIds /\ Owns(t) /\ Holds("Reservation", id) /\ registry[id] = None
      /\ "Running" \in WorkspaceState
  BY DEF Types, Ownership, BootRegister, At, Owns, Owning, Reserving, WorkspaceState
<1>1. PICK ok \in BOOLEAN : /\ Register(id, "Running", ok)
                            /\ IF ok THEN Goto(t, "insert") ELSE GotoFail(t, "teardown")
  BY DEF BootRegister
<1>2. LedgerNext
  BY <1>1, <1>t DEF LedgerNext
<1>3. registry' = registry /\ registry' \in RegistryType
  BY DEF BootRegister, Types, RegistryType
<1>4. CASE ~ok
  <2>1. Moves(t)
    BY <1>1, <1>4, <1>t, MovesOwning DEF PC
  <2>2. guards' = guards
    BY <1>1, <1>4 DEF Register, Refuse, Overflow, FaultLedger, ledger
  <2>3. OwnersKept(t)
    BY <1>2, <1>3, <2>1, <2>2 DEF OwnersKept
  <2>. QED BY <2>3, OwnersKeptInv DEF Implements
<1>5. CASE ok
  <2>1. guards' = (guards \ {<<"Reservation", id>>}) \cup {<<"Registered", id>>}
    BY <1>1, <1>5 DEF Register, Refuse, Overflow
  <2>2. \A u \in Tasks \ {t} : ~(Owns(u) /\ Id(u) = id)
    BY <1>t DEF Ownership
  <2>3. PICK r \in TaskRec : task' = [task EXCEPT ![t] = r] /\ r.pc = "insert" /\ r.id = id
    BY <1>1, <1>5, TaskUpdates DEF PC
  <2>4. Types' /\ Ownership'
    BY <1>t, <1>3, <2>1, <2>2, <2>3, OwnerChanges, Zenon DEF Owning, Reserving, GuardKinds
  <2>. QED BY <1>2, <2>4, LedgerStepInv DEF Implements
<1>. QED BY <1>4, <1>5

\* Inserting into the registry hands the registered guard over to it.
LEMMA BootInsertStep ==
    ASSUME ManagerInv, NEW t \in Tasks, BootInsert(t)
    PROVE  Implements
<1>. USE DEF ManagerInv
<1>. DEFINE id == Id(t)
            e == Entry(t, "Running")
<1>t. id \in WorkspaceIds /\ Owns(t) /\ Holds("Registered", id) /\ registry[id] = None
  BY DEF Types, Ownership, BootInsert, At, Owns, Owning
<1>1. registry' = [registry EXCEPT ![id] = e] /\ Goto(t, "finish") /\ UNCHANGED ledger
  BY <1>t DEF BootInsert
<1>2. e \in [boot : Tasks, state : WorkspaceState]
  BY DEF Entry, WorkspaceState
<1>. HIDE DEF e
<1>3. registry' \in RegistryType /\ \A w \in WorkspaceIds \ {id} : registry'[w] = registry[w]
  BY <1>1, <1>2, <1>t DEF Types, RegistryType
<1>4. guards' = guards /\ \A u \in Tasks \ {t} : ~(Owns(u) /\ Id(u) = id)
  BY <1>1, <1>t DEF Ownership, ledger
<1>5. PICK r \in TaskRec : task' = [task EXCEPT ![t] = r] /\ r.pc = "finish" /\ r.id = id
  BY <1>1, TaskUpdates DEF PC
<1>6. Types' /\ Ownership'
  <2>1. /\ Types /\ Ownership /\ <<"Registered", id>> \in guards'
        /\ r.pc \notin Owning \cup Reserving \cup {"idle", "finalize", "insert", "reap", "untree",
                                               "teardown", "drop"}
    BY <1>t, <1>4, <1>5 DEF Owning, Reserving, Holds
  <2>. QED BY <1>t, <1>3, <1>4, <1>5, <2>1, OwnerChanges, Zenon
<1>. QED BY <1>1, <1>6, StutterInv DEF Implements

\* Whoever drops a guard owns it: a failed boot, or a terminate at its end.
LEMMA DropSteps ==
    ASSUME ManagerInv, NEW t \in Tasks, BootDrop(t) \/ TermUntree(t)
    PROVE  Implements
<1>. USE DEF ManagerInv
<1>. DEFINE id == Id(t)
<1>t. id \in WorkspaceIds /\ Owns(t) /\ registry[id] = None
  BY DEF Types, Ownership, BootDrop, TermUntree, At, Owns, Owning
<1>1. PICK kind \in GuardKinds : Holds(kind, id) /\ ReleaseEntry(<<kind, id>>)
  <2>1. CASE BootDrop(t)
    BY <2>1 DEF BootDrop, GuardKinds
  <2>2. CASE TermUntree(t)
    BY <2>2 DEF TermUntree, GuardKinds, Ownership, At
  <2>. QED BY <2>1, <2>2
<1>2. LedgerNext
  BY <1>1 DEF LedgerNext, Holds
<1>3. guards' = guards \ {<<kind, id>>}
  BY <1>1 DEF ReleaseEntry
<1>4. registry' = registry /\ registry' \in RegistryType
  BY DEF BootDrop, TermUntree, Types, RegistryType
<1>5. PICK r \in TaskRec : /\ task' = [task EXCEPT ![t] = r]
                           /\ r.pc = "done" \/ (r.pc = "finish" /\ r.id = id)
  <2>1. "finish" \in PC /\ (Goto(t, "finish") \/ Return(t))
    BY DEF BootDrop, TermUntree, PC
  <2>2. CASE Goto(t, "finish")
    <3>1. \E r \in TaskRec : task' = [task EXCEPT ![t] = r] /\ r.pc = "finish" /\ r.id = Id(t)
      BY <2>1, <2>2, TaskUpdates
    <3>. QED BY <3>1, Zenon
  <2>3. CASE Return(t)
    <3>1. \E r \in TaskRec : task' = [task EXCEPT ![t] = r] /\ r.pc = "done"
      BY <2>1, <2>3, TaskUpdates
    <3>. QED BY <3>1, Zenon
  <2>. QED BY <2>1, <2>2, <2>3
<1>6. \A u \in Tasks \ {t} : ~(Owns(u) /\ Id(u) = id)
  BY <1>t DEF Ownership
<1>7. Types' /\ Ownership'
  BY <1>t, <1>3, <1>4, <1>5, <1>6, OwnerChanges, Zenon DEF Owning, Reserving, GuardKinds
<1>. QED BY <1>2, <1>7, LedgerStepInv DEF Implements

\* A terminate takes the entry, and its guard, out of the registry.
LEMMA TermRemoveStep ==
    ASSUME ManagerInv, NEW t \in Tasks, TermRemove(t)
    PROVE  Implements
<1>. USE DEF ManagerInv
<1>. DEFINE id == Id(t)
<1>t. id \in WorkspaceIds /\ UNCHANGED ledger
  BY DEF Types, TermRemove, At
<1>1. CASE registry[id] = None
  <2>1. OwnersKept(t)
    BY <1>1, MovesReturn, PlainSteps DEF TermRemove
  <2>. QED BY <2>1, OwnersKeptInv DEF Implements
<1>2. CASE registry[id] # None
  <2>. DEFINE r == [task[t] EXCEPT !.pc = "reap", !.src = registry[id].boot]
  <2>1. registry[id].boot \in Tasks /\ task[t] \in TaskRec /\ "reap" \in PC
    BY <1>t, <1>2 DEF Types, PC
  <2>2. r \in TaskRec /\ r.pc = "reap" /\ r.id = id
    BY <2>1, Zenon DEF TaskRec, Id
  <2>3. task' = [task EXCEPT ![t] = r] /\ registry' = [registry EXCEPT ![id] = None]
    BY <1>2, Zenon DEF TermRemove
  <2>. HIDE DEF r
  <2>4. /\ registry' \in RegistryType /\ registry'[id] = None
        /\ \A w \in WorkspaceIds \ {id} : registry'[w] = registry[w]
    BY <1>t, <2>3 DEF Types, RegistryType
  <2>5. /\ guards' = guards /\ <<"Registered", id>> \in guards
        /\ \A u \in Tasks \ {t} : ~(Owns(u) /\ Id(u) = id)
    BY <1>t, <1>2, Zenon DEF Ownership, ledger, Holds
  <2>6. Types' /\ Ownership'
    <3>1. /\ Types /\ Ownership /\ id \in WorkspaceIds
          /\ r.pc \notin Reserving \cup {"idle", "finalize", "teardown", "drop"}
      BY <1>t, <2>2 DEF Reserving
    <3>. QED BY <2>2, <2>3, <2>4, <2>5, <3>1, OwnerChanges, Zenon
  <2>. QED BY <1>t, <2>6, StutterInv DEF Implements
<1>. QED BY <1>1, <1>2

\* Jail directories belong to requests.
LEMMA TreesStep == trees \subseteq Tasks /\ [Next]_vars => trees' \subseteq Tasks
<1>. SUFFICES ASSUME trees \subseteq Tasks, [Next]_vars PROVE trees' \subseteq Tasks
  OBVIOUS
<1>1. ASSUME NEW t \in Tasks, NEW op \in Ops, NEW id \in WorkspaceIds,
             Accept(t, op, id)
      PROVE  trees' \subseteq Tasks
  BY <1>1 DEF Accept
<1>2. ASSUME NEW t \in Tasks, ClaimLifecycle(t) \/ Finish(t) \/ BootStep(t)
      PROVE  trees' \subseteq Tasks
  BY <1>2 DEF ClaimLifecycle, Finish, BootStep, BootCheck, BootReserve, BootSpawn,
              BootLaunched, BootReady, BootRegister, BootInsert, BootTeardown, BootDrop,
              LaunchFails, TerminateOrFault, Terminate
<1>3. ASSUME NEW t \in Tasks, TermStep(t) PROVE trees' \subseteq Tasks
  BY <1>3 DEF TermStep, TermRemove, TermReap, TermUntree
<1>4. ASSUME NEW t \in Tasks, SnapStep(t) PROVE trees' \subseteq Tasks
  BY <1>4, Zenon DEF SnapStep, SnapReject, SnapMark, SnapPause, SnapDump, SnapFinalize, SnapCopy,
              SwapSpawn, SwapReady, Swap, SwapDiscard, SwapReapOld, LaunchFails,
              TerminateOrFault, Terminate
<1>5. CASE UNCHANGED vars
  BY <1>5 DEF vars, mgr
<1>. QED BY <1>1, <1>2, <1>3, <1>4, <1>5 DEF Next, Quiet

\* Every step of the manager keeps the invariant and implements a ledger step.
LEMMA ManagerStep ==
    ASSUME ManagerInv, trees \subseteq Tasks, [Next]_vars
    PROVE  Implements
<1>0. ASSUME NEW t \in Tasks, OwnersKept(t) PROVE Implements
  BY <1>0, OwnersKeptInv DEF Implements
<1>1. ASSUME NEW t \in Tasks, NEW op \in Ops, NEW id \in WorkspaceIds,
             Accept(t, op, id) \/ ClaimLifecycle(t) \/ Finish(t)
      PROVE  Implements
  BY <1>1, <1>0, RequestSteps
<1>2. ASSUME NEW t \in Tasks, ClaimLifecycle(t) \/ Finish(t)
      PROVE  Implements
  <2>1. Id(t) \in WorkspaceIds /\ "boot" \in Ops
    BY <1>2 DEF ClaimLifecycle, Finish, At, ManagerInv, Types, Ops
  <2>. QED BY <1>1, <1>2, <2>1
<1>3. ASSUME NEW t \in Tasks, BootStep(t) PROVE Implements
  BY <1>3, <1>0, CarryingSteps, BootReserveStep, BootRegisterStep, BootInsertStep, DropSteps
     DEF BootStep
<1>4. ASSUME NEW t \in Tasks, TermStep(t) PROVE Implements
  BY <1>4, <1>0, CarryingSteps, TermRemoveStep, DropSteps DEF TermStep
<1>5. ASSUME NEW t \in Tasks, SnapStep(t) PROVE Implements
  BY <1>5, <1>0, SnapPlainSteps, SwapFaultSteps, SetStateSteps DEF SnapStep
<1>6. CASE UNCHANGED vars
  <2>1. UNCHANGED ledger /\ UNCHANGED <<guards, registry, task>>
    BY <1>6 DEF vars, mgr, ledger
  <2>2. LedgerInv'
    BY <2>1, StutterInv DEF ManagerInv
  <2>3. Types' /\ Ownership'
    BY <2>1 DEF ManagerInv, Types, Ownership, Owns, Id, At, Holds
  <2>. QED BY <2>1, <2>2, <2>3 DEF Implements, ManagerInv
<1>. QED BY <1>1, <1>2, <1>3, <1>4, <1>5, <1>6 DEF Next, Quiet

\* At the start nothing is reserved, registered or owned.
LEMMA ManagerInitInv == Init => LedgerInit /\ ManagerInv /\ trees \subseteq Tasks
<1>. SUFFICES ASSUME Init PROVE LedgerInit /\ ManagerInv /\ trees \subseteq Tasks
  OBVIOUS
<1>1. LedgerInv
  BY LedgerInitInv DEF Init
<1>2. IdleTask \in TaskRec /\ IdleTask.pc = "idle"
  BY DEF IdleTask, TaskRec, PC, Acts
<1>3. \A t \in Tasks : task[t] = IdleTask
  BY DEF Init
<1>4. Types
  BY <1>2, <1>3 DEF Init, Types, At
<1>5. Ownership
  BY <1>2, <1>3 DEF Init, Ownership, Owns, Owning, Reserving
<1>. QED BY <1>1, <1>4, <1>5 DEF Init, ManagerInv

\* Every behaviour of the manager is, of the ledger, one that the ledger's
\* specification allows: each request that registers, re-labels or drops an
\* entry holds the guard for it, whatever the other requests do.
THEOREM ManagerImplementsLedger == Spec => ImplementsLedger
<1>1. Init => LedgerInit /\ ManagerInv /\ trees \subseteq Tasks
  BY ManagerInitInv
<1>2. ManagerInv /\ trees \subseteq Tasks /\ [Next]_vars =>
         (ManagerInv /\ trees \subseteq Tasks)' /\ [LedgerNext]_ledger
  BY ManagerStep, TreesStep DEF Implements
<1>. QED BY <1>1, <1>2, PTL DEF Spec, ImplementsLedger, LedgerSpec

\* One owner for every guard: no two requests, nor a request and the registry,
\* ever hold the capacity of one workspace, and what each holds is in the ledger.
THEOREM OneOwnerPerGuard == Spec => []ManagerInv
<1>1. Init => ManagerInv /\ trees \subseteq Tasks
  BY ManagerInitInv
<1>2. ManagerInv /\ trees \subseteq Tasks /\ [Next]_vars => (ManagerInv /\ trees \subseteq Tasks)'
  BY ManagerStep, TreesStep DEF Implements
<1>. QED BY <1>1, <1>2, PTL DEF Spec

-----------------------------------------------------------------------------
\* The processes.  What a request does at each step decides which process it
\* launched, whether it holds the lease of its id and which boot it captured.

\* Steps of a request that has launched no process (yet).
Early == {"idle", "claim", "check", "reserve", "launch", "remove", "reap", "untree", "mark",
          "pause", "dump", "finalize", "copy", "swapboot"}

\* Steps at which the request answers for the live process it launched.
Booting == {"boot", "ready", "register", "insert", "teardown"}
Launching == Booting \cup {"swapready", "swap", "discard"}

\* Steps of a snapshot that has captured a boot, and of one that reaps a boot.
Dumped == {"pause", "dump", "finalize", "copy", "swapboot", "swapready", "swap", "discard"}
Reaping == {"reap", "untree", "reapold"}

\* Steps between claim_boot (or the claim of a snapshot) and the lease's drop.
Leased == PC \ {"idle", "claim", "remove", "reap", "untree", "done"}

\* Which operation is at which step; a dump is of the captured boot.
Roles ==
    \A t \in Tasks :
        /\ task[t].pc = "claim" => task[t].op \in {"boot"} \cup SnapOps
        /\ task[t].pc \in Booting \cup {"check", "reserve", "launch", "drop"} => task[t].op = "boot"
        /\ task[t].pc \in {"swapboot", "swapready", "swap", "discard", "reapold"} => task[t].op = "live"
        /\ task[t].pc \in {"idle", "claim", "remove", "mark", "pause", "dump"} => task[t].dumped = None
        /\ task[t].dumped \in {None, task[t].src}

\* A lease has one holder, and every lease has one.
Leases ==
    /\ claims \subseteq WorkspaceIds
    /\ \A t \in Tasks : task[t].pc \in Leased => Id(t) \in claims
    /\ \A t, u \in Tasks :
          task[t].pc \in Leased /\ task[u].pc \in Leased /\ Id(t) = Id(u) => t = u
    /\ \A w \in claims : \E t \in Tasks : task[t].pc \in Leased /\ Id(t) = w

\* A boot whose process was launched and is no longer in its launcher's hands.
Settled(b) == b \in Tasks /\ vm[b] # "Unborn" /\ task[b].pc \notin Launching

\* Processes and jail directories: no two boots share a directory.
Processes ==
    /\ vm \in [Tasks -> VmStatus] /\ trees \subseteq Tasks
    /\ \A t \in Tasks : task[t].pc \in Early => vm[t] = "Unborn"
    /\ \A t \in Tasks : task[t].pc \in Launching => Live(t) /\ t \in trees
    /\ \A t \in Tasks : vm[t] # "Unborn" => Id(t) \in WorkspaceIds
    /\ \A b \in trees : vm[b] # "Unborn"
    /\ \A a, b \in trees : Dir(a) = Dir(b) => a = b
    /\ \A b \in Tasks : vm[b] = "Lost" => faulted

\* What the registry lists is a live settled boot of that id, with its directory,
\* in the state that the ledger has.
Backed ==
    \A w \in WorkspaceIds : registry[w] # None =>
        /\ Settled(registry[w].boot) /\ Id(registry[w].boot) = w
        /\ Live(registry[w].boot) /\ registry[w].boot \in trees
        /\ workspaces[w] = registry[w].state

\* Between register_in_place and the insertion the ledger says Running.
Inserting == \A t \in Tasks : task[t].pc = "insert" => workspaces[Id(t)] = "Running"

Unregistered(b) == \A w \in WorkspaceIds : registry[w] # None => registry[w].boot # b

\* A captured boot is a settled boot of the same id, and no other boot is in its
\* directory, whether or not its own is still there; a boot being reaped is out
\* of the registry.
Captured(t) ==
    /\ task[t].pc \in Dumped =>
          /\ Settled(task[t].src) /\ Id(task[t].src) = Id(t)
          /\ \A b \in trees : Dir(b) = Dir(task[t].src) => b = task[t].src
    /\ task[t].pc \in Reaping =>
          Settled(task[t].src) /\ Id(task[t].src) = Id(t) /\ Unregistered(task[t].src)

Sources == \A t \in Tasks : Captured(t)

\* Somebody answers for every live process: its launcher, the registry, or the
\* terminate or swap that is about to reap it.
Keeper(b, t) == task[t].src = b /\ task[t].pc \in {"reap", "reapold"}

HasKeeper(b) ==
    \/ task[b].pc \in Launching
    \/ Registered(Id(b), b)
    \/ \E t \in Tasks : Keeper(b, t)

Kept == \A b \in Tasks : Live(b) => HasKeeper(b)

\* While the ledger is healthy no guard and no Snapshotting mark is orphaned.
Guarded(w) == Holds("Reservation", w) \/ Holds("Registered", w)

Accounted ==
    ~faulted =>
        /\ \A w \in WorkspaceIds :
              Guarded(w) => registry[w] # None \/ \E t \in Tasks : Owns(t) /\ Id(t) = w
        /\ \A w \in WorkspaceIds :
              registry[w] # None /\ registry[w].state = "Snapshotting" =>
                  \E t \in Tasks : Dumping(t) /\ Id(t) = w /\ task[t].src = registry[w].boot

ProcInv ==
    /\ Roles /\ Leases /\ Processes /\ Backed /\ Inserting /\ Sources /\ Kept /\ Accounted

-----------------------------------------------------------------------------

\* What the updates of a request record change, field by field.
Others(t) == \A u \in Tasks \ {t} : task'[u] = task[u]
Becomes(t, pc) ==
    /\ Others(t)
    /\ task'[t].pc = pc /\ task'[t].op = task[t].op /\ task'[t].id = task[t].id
    /\ task'[t].src = task[t].src /\ task'[t].dumped = task[t].dumped
Returns(t) ==
    /\ Others(t)
    /\ task'[t].pc = "done" /\ task'[t].src = None /\ task'[t].dumped = None
    /\ vm[t] # "Unborn" => task'[t].op = task[t].op /\ task'[t].id = task[t].id

\* Goto, GotoFail and Return, field by field.
LEMMA Moving ==
    ASSUME Types, NEW t \in Tasks, NEW pc \in PC
    PROVE  /\ Goto(t, pc) => Becomes(t, pc)
           /\ GotoFail(t, pc) => Becomes(t, pc)
           /\ Return(t) => Returns(t)
<1>1. task \in [Tasks -> TaskRec] /\ task[t] \in TaskRec
  BY DEF Types
<1>2. Goto(t, pc) => Becomes(t, pc)
  BY <1>1 DEF Goto, Becomes, Others, TaskRec
<1>3. GotoFail(t, pc) => Becomes(t, pc)
  BY <1>1 DEF GotoFail, Becomes, Others, TaskRec
<1>4. Return(t) => Returns(t)
  BY <1>1 DEF Return, Returns, Others, TaskRec, IdleTask, Id
<1>. QED BY <1>2, <1>3, <1>4

\* A process that ends is nobody's any more.
Ends(b) ==
    /\ vm[b] # "Unborn" /\ vm'[b] \in {"Dead", "Stranded", "Lost"}
    /\ vm'[b] = "Lost" => faulted'
    /\ Unregistered(b) /\ task'[b].pc \notin Launching

\* Processes only end or change between running and frozen, and directories
\* only go; a launcher or reaper lets go of a process only once it has ended.
ProcessesKept(t) ==
    /\ vm' \in [Tasks -> VmStatus]
    /\ \A b \in Tasks : vm'[b] = vm[b] \/ (Live(b) /\ Live(b)') \/ Ends(b)
    /\ trees' \subseteq trees
    /\ \A b \in trees \ trees' : Unregistered(b) /\ task'[b].pc \notin Launching
    /\ task[t].pc \in Launching => task'[t].pc \in Launching \/ ~Live(t)'
    /\ task[t].pc \in {"reap", "reapold"} =>
          (task'[t].pc = task[t].pc /\ task'[t].src = task[t].src)
          \/ vm'[task[t].src] \notin {"Running", "Frozen"}

\* The registry keeps its boots; a state it changes, it changes in the ledger
\* too, and only a snapshot on its way to finalize leaves Snapshotting behind.
RegistryKept(t) ==
    /\ \A w \in WorkspaceIds : registry'[w] = None <=> registry[w] = None
    /\ \A w \in WorkspaceIds : registry[w] # None =>
          /\ registry'[w].boot = registry[w].boot
          /\ workspaces'[w] = registry'[w].state
          /\ \/ registry'[w].state = registry[w].state
             \/ registry'[w].state # "Snapshotting"
             \/ Dumping(t)' /\ Id(t)' = w /\ task'[t].src = registry[w].boot
    /\ Dumping(t) =>
          \/ faulted' \/ (Dumping(t)' /\ task'[t].src = task[t].src)
          \/ ~Registered(Id(t), task[t].src) \/ registry'[Id(t)].state # "Snapshotting"

\* A guard is new only with its owner, and an owner lets go of a guard only by
\* dropping it or by faulting the ledger.
GuardsKept(t) ==
    /\ \A w \in WorkspaceIds : Guarded(w)' => Guarded(w) \/ (Owns(t)' /\ Id(t)' = w)
    /\ Owns(t) => \/ faulted' \/ (Owns(t)' /\ Id(t)' = Id(t))
                  \/ \A w \in WorkspaceIds : w = Id(t) => ~Guarded(w)'

\* A step of request t that launches nothing, adds and removes no registry entry
\* and takes and drops no lease: all but seven of the actions.
Ordinary(t) ==
    /\ Others(t) /\ claims' = claims /\ (faulted => faulted')
    /\ vm[t] # "Unborn" => task'[t].op = task[t].op /\ task'[t].id = task[t].id
    /\ task'[t].pc \in Leased <=> task[t].pc \in Leased
    /\ task'[t].pc \in Leased \cup Reaping => task'[t].id = task[t].id
    /\ task'[t].pc \in Launching => task[t].pc \in Launching
    /\ task'[t].pc \in Early => task[t].pc \in Early
    /\ task'[t].pc \in Dumped => \/ task[t].pc \in Dumped /\ task'[t].src = task[t].src
                                 \/ Registered(Id(t), task'[t].src)
    /\ task'[t].pc \in Reaping => task[t].pc \in Reaping /\ task'[t].src = task[t].src
    /\ Roles' /\ Inserting'
    /\ ProcessesKept(t) /\ RegistryKept(t) /\ GuardsKept(t)

\* What names a launched boot stays, and a settled boot stays settled.
NamesKept ==
    /\ \A b \in Tasks : vm[b] # "Unborn" => Id(b)' = Id(b) /\ Dir(b)' = Dir(b)
    /\ \A b : Settled(b) => Settled(b)'

\* The steps of requests keep those names.
LEMMA Framed ==
    ASSUME ManagerInv, Processes, NEW t \in Tasks, Others(t),
           vm[t] # "Unborn" => task'[t].op = task[t].op /\ task'[t].id = task[t].id,
           task'[t].pc \in Launching => task[t].pc \in Launching \cup Early,
           \A b \in Tasks : vm[b] # "Unborn" => vm'[b] # "Unborn"
    PROVE  NamesKept
BY DEF ManagerInv, Types, Processes, Others, Settled, Id, Dir, NamesKept

\* The captured boot of a request stays captured, or is captured now.
LEMMA SourceKept ==
    ASSUME Processes, NamesKept, trees' \subseteq Tasks, NEW u \in Tasks,
           task'[u].pc \in Dumped \cup Reaping =>
              \E s \in Tasks :
                 /\ task'[u].src = s /\ Id(u)' = Id(u) /\ Settled(s) /\ Id(s) = Id(u)
                 /\ task'[u].pc \in Dumped => \A b \in trees : Dir(b) = Dir(s) => b = s
                 /\ task'[u].pc \in Dumped => \A b \in trees' \ trees : Dir(b)' # Dir(s)
                 /\ task'[u].pc \in Reaping => Unregistered(s)'
    PROVE  Captured(u)'
<1>1. CASE task'[u].pc \notin Dumped \cup Reaping
  BY <1>1 DEF Captured
<1>2. ASSUME NEW s \in Tasks, task'[u].pc \in Dumped \cup Reaping,
             task'[u].src = s, Id(u)' = Id(u), Settled(s), Id(s) = Id(u),
             task'[u].pc \in Dumped => \A b \in trees : Dir(b) = Dir(s) => b = s,
             task'[u].pc \in Dumped => \A b \in trees' \ trees : Dir(b)' # Dir(s),
             task'[u].pc \in Reaping => Unregistered(s)'
      PROVE  Captured(u)'
  <2>1. Settled(s)' /\ Id(s)' = Id(s) /\ Dir(s)' = Dir(s)
    BY <1>2 DEF NamesKept, Settled
  <2>2. task'[u].pc \in Dumped => \A b \in trees' : Dir(b)' = Dir(s) => b = s
    BY <1>2 DEF Processes, NamesKept
  <2>. QED BY <1>2, <2>1, <2>2 DEF Captured, Settled, Id, Dir, Unregistered
<1>. QED BY <1>1, <1>2

\* A process keeps whoever answers for it.
LEMMA KeeperKept ==
    ASSUME Processes, Kept, NamesKept, NEW b \in Tasks, Live(b),
           task[b].pc \in Launching => task'[b].pc \in Launching,
           Registered(Id(b), b) => registry'[Id(b)] # None /\ registry'[Id(b)].boot = b,
           \A u \in Tasks : Keeper(b, u) => Keeper(b, u)'
    PROVE  HasKeeper(b)'
<1>1. Id(b)' = Id(b)
  BY DEF NamesKept, Live
<1>. QED BY <1>1 DEF Kept, HasKeeper, Registered

\* Ordinary steps keep the invariant.
LEMMA OrdinaryInv ==
    ASSUME ManagerInv, ProcInv, ManagerInv', NEW t \in Tasks, Ordinary(t)
    PROVE  ProcInv'
<1>i. Types /\ Roles /\ Leases /\ Processes /\ Backed /\ Sources /\ Kept /\ Accounted
  BY DEF ManagerInv, ProcInv
<1>o. /\ claims' = claims /\ (faulted => faulted')
      /\ vm[t] # "Unborn" => task'[t].op = task[t].op /\ task'[t].id = task[t].id
      /\ task'[t].pc \in Leased <=> task[t].pc \in Leased
      /\ task'[t].pc \in Leased \cup Reaping => task'[t].id = task[t].id
      /\ task'[t].pc \in Launching => task[t].pc \in Launching
      /\ task'[t].pc \in Early => task[t].pc \in Early
      /\ Roles' /\ Inserting'
  BY DEF Ordinary
<1>p. Others(t) /\ ProcessesKept(t) /\ RegistryKept(t) /\ GuardsKept(t)
  BY DEF Ordinary
<1>0. \A b \in Tasks : vm[b] # "Unborn" <=> vm'[b] # "Unborn"
  BY <1>i, <1>p DEF ProcessesKept, Ends, Live, Processes
<1>a. NamesKept
  BY <1>0, <1>i, <1>o, <1>p, Framed
<1>1. Leases'
  <2>1. \A u \in Tasks : /\ task'[u].pc \in Leased <=> task[u].pc \in Leased
                         /\ task'[u].pc \in Leased => Id(u)' = Id(u)
    BY <1>o, <1>p DEF Others, Id
  <2>. QED BY <1>i, <1>o, <2>1 DEF Leases
<1>2. Processes'
  <2>1. \A u \in Tasks : task'[u].pc \in Early => vm'[u] = "Unborn"
    BY <1>0, <1>i, <1>o, <1>p DEF Processes, Others
  <2>2. ASSUME NEW u \in Tasks, task'[u].pc \in Launching PROVE Live(u)' /\ u \in trees'
    <3>1. task[u].pc \in Launching
      BY <1>o, <1>p, <2>2 DEF Others
    <3>2. Live(u) /\ u \in trees
      BY <1>i, <3>1 DEF Processes
    <3>. QED BY <1>p, <2>2, <3>2 DEF ProcessesKept, Ends, Live
  <2>3. \A u \in Tasks : vm'[u] # "Unborn" => Id(u)' \in WorkspaceIds
    BY <1>0, <1>a, <1>i DEF Processes, NamesKept
  <2>4. \A a, b \in trees' : Dir(a)' = Dir(b)' => a = b
    <3>1. trees' \subseteq trees
      BY <1>p DEF ProcessesKept
    <3>2. \A a, b \in trees : Dir(a)' = Dir(a) /\ Dir(b)' = Dir(b) /\ (Dir(a) = Dir(b) => a = b)
      BY <1>a, <1>i DEF Processes, NamesKept
    <3>. QED BY <3>1, <3>2
  <2>5. \A b \in Tasks : vm'[b] = "Lost" => faulted'
    BY <1>i, <1>o, <1>p DEF Processes, ProcessesKept, Ends, Live
  <2>6. vm' \in [Tasks -> VmStatus] /\ trees' \subseteq Tasks /\ \A b \in trees' : vm'[b] # "Unborn"
    BY <1>0, <1>i, <1>p DEF Processes, ProcessesKept
  <2>. QED BY <2>1, <2>2, <2>3, <2>4, <2>5, <2>6 DEF Processes
<1>3. Backed'
  <2>. SUFFICES ASSUME NEW w \in WorkspaceIds, registry'[w] # None
                PROVE  /\ Settled(registry[w].boot)' /\ Id(registry[w].boot)' = w
                       /\ Live(registry[w].boot)' /\ registry'[w].boot \in trees'
                       /\ workspaces'[w] = registry'[w].state
    BY DEF Backed
  <2>1. registry[w] # None /\ registry'[w].boot = registry[w].boot /\ workspaces'[w] = registry'[w].state
    BY <1>p DEF RegistryKept
  <2>2. PICK b \in Tasks : b = registry[w].boot
    BY <1>i, <2>1 DEF Backed, Settled
  <2>3. ~Unregistered(b) /\ Settled(b) /\ Id(b) = w /\ Live(b) /\ b \in trees
    BY <1>i, <2>1, <2>2 DEF Unregistered, Backed
  <2>4. Settled(b)' /\ Id(b)' = w
    BY <1>a, <2>3 DEF NamesKept, Live
  <2>5. Live(b)' /\ b \in trees'
    BY <1>p, <2>3 DEF ProcessesKept, Ends, Live
  <2>. QED BY <2>1, <2>2, <2>4, <2>5 DEF Settled, Id, Live
<1>4. Sources'
  <2>. SUFFICES ASSUME NEW u \in Tasks, task'[u].pc \in Dumped \cup Reaping
       PROVE  \E s \in Tasks :
                 /\ task'[u].src = s /\ Id(u)' = Id(u) /\ Settled(s) /\ Id(s) = Id(u)
                 /\ task'[u].pc \in Dumped => \A b \in trees : Dir(b) = Dir(s) => b = s
                 /\ task'[u].pc \in Reaping => Unregistered(s)'
    <3>1. trees' \subseteq trees /\ trees \subseteq Tasks
      BY <1>i, <1>p DEF ProcessesKept, Processes
    <3>. QED BY <1>a, <1>i, <3>1, SourceKept DEF Sources
  <2>1. Id(u)' = Id(u) /\ (task'[u].pc \in Dumped => Id(u) \in WorkspaceIds)
    BY <1>i, <1>o, <1>p DEF Others, Id, Types, Dumped, Leased, PC
  <2>2. \A b : Unregistered(b) => Unregistered(b)'
    BY <1>p DEF Unregistered, RegistryKept
  <2>3. /\ task'[u].pc \in Reaping => task[u].pc \in Reaping /\ task'[u].src = task[u].src
        /\ task'[u].pc \in Dumped => \/ task[u].pc \in Dumped /\ task'[u].src = task[u].src
                                     \/ Registered(Id(u), task'[u].src)
    BY <1>p DEF Ordinary, Others
  <2>4. CASE task[u].pc \in Dumped \cup Reaping /\ task'[u].src = task[u].src
    <3>1. Captured(u)
      BY <1>i DEF Sources
    <3>2. task'[u].pc \in Dumped =>
             task[u].pc \in Dumped \/ Registered(Id(u), task'[u].src)
      BY <2>3
    <3>3. task[u].src \in Tasks /\ Settled(task[u].src) /\ Id(task[u].src) = Id(u)
      BY <2>4, <3>1 DEF Captured, Settled
    <3>4. task'[u].pc \in Dumped => \A b \in trees : Dir(b) = Dir(task[u].src) => b = task[u].src
      <4>1. Registered(Id(u), task'[u].src) /\ Id(u) \in WorkspaceIds => task[u].src \in trees
        BY <1>i, <2>4 DEF Registered, Backed
      <4>. QED BY <1>i, <2>1, <3>1, <3>2, <4>1 DEF Captured, Processes
    <3>5. task'[u].pc \in Reaping => Unregistered(task[u].src)
      BY <2>3, <3>1 DEF Captured
    <3>. QED BY <2>1, <2>2, <2>4, <3>3, <3>4, <3>5
  <2>5. CASE task'[u].pc \in Dumped /\ task'[u].pc \notin Reaping /\ Registered(Id(u), task'[u].src)
    <3>1. /\ task'[u].src \in trees /\ Settled(task'[u].src) /\ task'[u].src \in Tasks
      BY <1>i, <2>1, <2>5 DEF Registered, Backed, Settled
    <3>2. PICK s \in Tasks : s = task'[u].src
      BY <3>1
    <3>3. s \in trees /\ Settled(s) /\ Id(s) = Id(u)
      BY <1>i, <2>1, <2>5, <3>2 DEF Registered, Backed
    <3>. QED BY <1>i, <2>1, <2>5, <3>2, <3>3 DEF Processes
  <2>6. Dumped \cap Reaping = {}
    BY DEF Dumped, Reaping
  <2>. QED BY <2>3, <2>4, <2>5, <2>6
<1>5. Kept'
  <2>. SUFFICES ASSUME NEW b \in Tasks, Live(b)' PROVE HasKeeper(b)'
    BY DEF Kept
  <2>1. Live(b) /\ vm[b] # "Unborn" /\ Id(b) \in WorkspaceIds
    BY <1>0, <1>i, <1>p DEF Live, ProcessesKept, Ends, Processes
  <2>2. task[b].pc \in Launching => task'[b].pc \in Launching
    BY <1>p DEF ProcessesKept, Others
  <2>3. Registered(Id(b), b) => registry'[Id(b)] # None /\ registry'[Id(b)].boot = b
    BY <1>p, <2>1 DEF Registered, RegistryKept
  <2>4. \A u \in Tasks : Keeper(b, u) => Keeper(b, u)'
    BY <1>p DEF Keeper, ProcessesKept, Live, Others
  <2>. QED BY <1>a, <1>i, <2>1, <2>2, <2>3, <2>4, KeeperKept
<1>6. Accounted'
  <2>. SUFFICES ASSUME ~faulted', NEW w \in WorkspaceIds
       PROVE /\ Guarded(w)' => registry'[w] # None \/ \E u \in Tasks : Owns(u)' /\ Id(u)' = w
             /\ registry'[w] # None /\ registry'[w].state = "Snapshotting" =>
                   \E u \in Tasks : Dumping(u)' /\ Id(u)' = w /\ task'[u].src = registry'[w].boot
    BY DEF Accounted, Guarded
  <2>0. ~faulted
    BY <1>o
  <2>1. ASSUME Guarded(w)' PROVE registry'[w] # None \/ \E u \in Tasks : Owns(u)' /\ Id(u)' = w
    <3>1. CASE Owns(t)' /\ Id(t)' = w
      BY <3>1
    <3>2. CASE registry[w] # None
      BY <1>p, <3>2 DEF RegistryKept
    <3>3. ASSUME NEW u \in Tasks, Owns(u), Id(u) = w PROVE Owns(u)' /\ Id(u)' = w
      <4>1. CASE u = t
        BY <1>p, <2>1, <3>3, <4>1 DEF GuardsKept
      <4>2. CASE u # t
        BY <1>p, <3>3, <4>2 DEF Others, Owns, Id
      <4>. QED BY <4>1, <4>2
    <3>4. Guarded(w) \/ (Owns(t)' /\ Id(t)' = w)
      BY <1>p, <2>1 DEF GuardsKept
    <3>. QED BY <1>i, <2>0, <3>1, <3>2, <3>3, <3>4 DEF Accounted
  <2>2. ASSUME registry'[w] # None, registry'[w].state = "Snapshotting"
        PROVE  \E u \in Tasks : Dumping(u)' /\ Id(u)' = w /\ task'[u].src = registry'[w].boot
    <3>0. registry[w] # None /\ registry'[w].boot = registry[w].boot
      BY <1>p, <2>2 DEF RegistryKept
    <3>1. CASE registry'[w].state = registry[w].state
      <4>1. PICK u \in Tasks : Dumping(u) /\ Id(u) = w /\ task[u].src = registry[w].boot
        BY <1>i, <2>0, <2>2, <3>0, <3>1 DEF Accounted
      <4>2. CASE u # t
        BY <1>p, <3>0, <4>1, <4>2 DEF Others, Dumping, Id
      <4>3. CASE u = t
        <5>1. Dumping(t)' /\ task'[t].src = task[t].src
          BY <1>p, <2>2, <3>0, <4>1, <4>3 DEF RegistryKept, Registered
        <5>2. Id(t)' = Id(t)
          BY <1>o, <5>1 DEF Id, Dumping, Leased, PC
        <5>. QED BY <3>0, <4>1, <4>3, <5>1, <5>2
      <4>. QED BY <4>2, <4>3
    <3>. QED BY <1>p, <2>2, <3>0, <3>1 DEF RegistryKept
  <2>. QED BY <2>1, <2>2
<1>. QED BY <1>1, <1>2, <1>3, <1>4, <1>5, <1>6, <1>o DEF ProcInv

\* What the ledger's methods do to the entries and guards of workspaces.
LEMMA LedgerCalls ==
    ASSUME LedgerInv, NEW w \in WorkspaceIds, NEW st \in WorkspaceState, NEW ok \in BOOLEAN
    PROVE  /\ SetState(w, st, ok) /\ Holds("Registered", w) =>
                 /\ guards' = guards /\ (faulted => faulted') /\ (~ok => faulted')
                 /\ \A v \in WorkspaceIds \ {w} : workspaces'[v] = workspaces[v]
                 /\ workspaces'[w] = IF ok THEN st ELSE workspaces[w]
           /\ ReserveWorkspace(w, ok) =>
                 /\ faulted => faulted'
                 /\ \A v \in WorkspaceIds \ {w} : workspaces'[v] = workspaces[v]
                 /\ ~ok => workspaces' = workspaces /\ guards' = guards
                 /\ ok => guards' = guards \cup {<<"Reservation", w>>}
           /\ Register(w, st, ok) =>
                 /\ faulted => faulted'
                 /\ \A v \in WorkspaceIds \ {w} : workspaces'[v] = workspaces[v]
                 /\ ~ok => workspaces' = workspaces /\ guards' = guards
                 /\ ok => guards' = (guards \ {<<"Reservation", w>>}) \cup {<<"Registered", w>>}
<1>0. workspaces \in [WorkspaceIds -> WorkspaceEntry]
  BY DEF LedgerInv, LedgerTypeOK
<1>1. Holds("Registered", w) => workspaces[w] \in WorkspaceState
  BY DEF LedgerInv, GuardsOwnEntries, Owned, Holds
<1>2. SetState(w, st, ok) /\ Holds("Registered", w) =>
                 /\ guards' = guards /\ (faulted => faulted') /\ (~ok => faulted')
                 /\ \A v \in WorkspaceIds \ {w} : workspaces'[v] = workspaces[v]
                 /\ workspaces'[w] = IF ok THEN st ELSE workspaces[w]
  BY <1>0, <1>1 DEF SetState, Refuse, Overflow, FaultLedger, ledger
<1>3. ReserveWorkspace(w, ok) =>
                 /\ faulted => faulted'
                 /\ \A v \in WorkspaceIds \ {w} : workspaces'[v] = workspaces[v]
                 /\ ~ok => workspaces' = workspaces /\ guards' = guards
                 /\ ok => guards' = guards \cup {<<"Reservation", w>>}
  BY <1>0 DEF ReserveWorkspace, Refuse, Overflow, FaultLedger, ledger
<1>4. Register(w, st, ok) =>
                 /\ faulted => faulted'
                 /\ \A v \in WorkspaceIds \ {w} : workspaces'[v] = workspaces[v]
                 /\ ~ok => workspaces' = workspaces /\ guards' = guards
                 /\ ok => guards' = (guards \ {<<"Reservation", w>>}) \cup {<<"Registered", w>>}
  BY <1>0 DEF Register, Refuse, Overflow, FaultLedger, ledger
<1>. QED BY <1>2, <1>3, <1>4

\* A dropped guard is gone, and no other id is touched.
LEMMA ReleaseCall ==
    ASSUME LedgerInv, NEW w \in WorkspaceIds, NEW k \in {"Reservation", "Registered"},
           Holds(k, w), ReleaseEntry(<<k, w>>)
    PROVE  /\ faulted => faulted'
           /\ \A v \in WorkspaceIds \ {w} : workspaces'[v] = workspaces[v]
           /\ ~Guarded(w)'
           /\ \A v \in WorkspaceIds : Guarded(v)' => Guarded(v)
<1>0. workspaces \in [WorkspaceIds -> WorkspaceEntry]
  BY DEF LedgerInv, LedgerTypeOK
<1>1. (faulted => faulted') /\ \A v \in WorkspaceIds \ {w} : workspaces'[v] = workspaces[v]
  BY <1>0 DEF ReleaseEntry, RemoveEntry, IsWorkspaceGuard, EntryOf, inventory
<1>2. guards' = guards \ {<<k, w>>}
  BY DEF ReleaseEntry
<1>3. ~(Holds("Reservation", w) /\ Holds("Registered", w))
  BY DEF LedgerInv, GuardsOwnEntries, Owned, Holds, WorkspaceState
<1>. QED BY <1>1, <1>2, <1>3 DEF Guarded, Holds

\* The parts of an ordinary step that leave processes, registry, guards alone.
LEMMA SameProcesses ==
    ASSUME Processes, NEW t \in Tasks, UNCHANGED <<vm, trees>>,
           task[t].pc \in Launching => task'[t].pc \in Launching,
           task[t].pc \notin {"reap", "reapold"}
    PROVE  ProcessesKept(t)
BY DEF Processes, ProcessesKept

\* The same, when the registry and the entries of what it lists stay.
LEMMA SameRegistry ==
    ASSUME Types, Backed, NEW t \in Tasks, UNCHANGED registry,
           \A w \in WorkspaceIds : registry[w] # None => workspaces'[w] = workspaces[w],
           Dumping(t) => \/ Dumping(t)' /\ task'[t].src = task[t].src
                         \/ faulted' \/ ~Registered(Id(t), task[t].src)
    PROVE  RegistryKept(t)
BY DEF RegistryKept, Backed

\* The same, when the entries of the other boots about to be inserted stay.
LEMMA SameInserting ==
    ASSUME Types, Inserting, NEW t \in Tasks, Others(t), task'[t].pc # "insert",
           \A u \in Tasks \ {t} : task[u].pc = "insert" => workspaces'[Id(u)] = workspaces[Id(u)]
    PROVE  Inserting'
BY DEF Inserting, Types, Others, Id

\* The same, when the guards stay and their owner does.
LEMMA SameGuards ==
    ASSUME NEW t \in Tasks, UNCHANGED guards,
           Owns(t) => faulted' \/ (Owns(t)' /\ Id(t)' = Id(t))
    PROVE  GuardsKept(t)
BY DEF GuardsKept, Guarded, Holds

\* Steps that only move the request.
OnlyMoves == /\ registry' = registry /\ claims' = claims /\ vm' = vm /\ trees' = trees
         /\ workspaces' = workspaces /\ guards' = guards /\ faulted' = faulted

\* Such a step is ordinary when it keeps what the request holds.
LEMMA OnlyMovesOrdinary ==
    ASSUME ManagerInv, ProcInv, NEW t \in Tasks, OnlyMoves, Others(t), Roles',
           vm[t] # "Unborn" => task'[t].op = task[t].op /\ task'[t].id = task[t].id,
           task[t].pc \notin Reaping /\ task'[t].pc \notin Reaping,
           task'[t].pc \in Leased <=> task[t].pc \in Leased,
           task'[t].pc \in Leased => task'[t].id = task[t].id,
           task'[t].pc \in Launching <=> task[t].pc \in Launching,
           task'[t].pc \in Early => task[t].pc \in Early, task'[t].pc # "insert",
           task'[t].pc \in Dumped => task[t].pc \in Dumped /\ task'[t].src = task[t].src,
           Dumping(t) => Dumping(t)' \/ ~Registered(Id(t), task[t].src),
           Owns(t) => Owns(t)' /\ Id(t)' = Id(t)
    PROVE  Ordinary(t)
<1>. USE DEF ManagerInv, ProcInv, OnlyMoves
<1>1. ProcessesKept(t)
  BY SameProcesses DEF Reaping
<1>2. RegistryKept(t)
  BY SameRegistry DEF Dumping, Dumped
<1>3. GuardsKept(t)
  BY SameGuards
<1>4. Inserting'
  BY SameInserting
<1>. QED BY <1>1, <1>2, <1>3, <1>4 DEF Ordinary, Reaping

\* A request that goes on keeps its operation.
LEMMA RolesMove ==
    ASSUME ManagerInv, Roles, NEW t \in Tasks, NEW pc \in PC, Becomes(t, pc),
           pc = "claim" => task[t].op \in {"boot"} \cup SnapOps,
           pc \in Booting \cup {"check", "reserve", "launch", "drop"} => task[t].op = "boot",
           pc \in {"swapboot", "swapready", "swap", "discard", "reapold"} => task[t].op = "live",
           pc \in {"idle", "claim", "remove", "mark", "pause", "dump"} => task[t].dumped = None
    PROVE  Roles'
BY DEF Roles, Becomes, Others

\* A request that returns has no role.
LEMMA RolesReturn ==
    ASSUME Roles, NEW t \in Tasks, Returns(t)
    PROVE  Roles'
BY DEF Roles, Returns, Others, Booting

\* The moves that change nothing else, listed.
LEMMA BecomesOrdinary ==
    ASSUME ManagerInv, ProcInv, NEW t \in Tasks, NEW pc \in PC, OnlyMoves, Becomes(t, pc),
           <<task[t].pc, pc>> \in
               {<<"check", "finish">>, <<"check", "reserve">>, <<"reserve", "finish">>, <<"launch", "drop">>,
                <<"boot", "register">>, <<"boot", "ready">>, <<"ready", "register">>,
                <<"register", "teardown">>, <<"insert", "teardown">>, <<"mark", "finish">>,
                <<"dump", "finalize">>, <<"pause", "finalize">>, <<"copy", "finish">>,
                <<"copy", "swapboot">>, <<"swapboot", "finish">>, <<"swapready", "swap">>,
                <<"swap", "discard">>},
           pc = "swapboot" => task[t].op = "live"
    PROVE  Ordinary(t)
<1>. USE DEF Becomes
<1>1. Roles'
  BY RolesMove DEF ProcInv, Roles, Booting
<1>2. vm[t] # "Unborn" => task'[t].op = task[t].op /\ task'[t].id = task[t].id
  OBVIOUS
<1>3. /\ task[t].pc \notin Reaping /\ task'[t].pc \notin Reaping
      /\ task'[t].pc \in Leased <=> task[t].pc \in Leased
  BY DEF Leased, PC, Reaping
<1>4. /\ task'[t].pc \in Launching <=> task[t].pc \in Launching
      /\ task'[t].pc \in Early => task[t].pc \in Early
      /\ task'[t].pc # "insert"
      /\ task'[t].pc \in Dumped => task[t].pc \in Dumped /\ task'[t].src = task[t].src
  BY DEF Launching, Booting, Early, Dumped
<1>5. /\ Dumping(t) => Dumping(t)' \/ ~Registered(Id(t), task[t].src)
      /\ Owns(t) => Owns(t)' /\ Id(t)' = Id(t)
  BY DEF Dumping, Owns, Owning, Reserving, Id
<1>. QED BY <1>1, <1>2, <1>3, <1>4, <1>5, OnlyMovesOrdinary

\* A request that is refused before it holds anything.
LEMMA ReturnOrdinary ==
    ASSUME ManagerInv, ProcInv, NEW t \in Tasks, OnlyMoves, Return(t), task[t].pc \in {"claim", "remove"}
    PROVE  Ordinary(t)
<1>1. Returns(t)
  BY Moving DEF ManagerInv, PC
<1>2. Roles'
  BY <1>1, RolesReturn DEF ProcInv
<1>3. /\ task[t].pc \notin Reaping /\ task'[t].pc \notin Reaping
      /\ task'[t].pc \notin Leased /\ task[t].pc \notin Leased
  BY <1>1 DEF Leased, PC, Reaping, Returns
<1>4. /\ task'[t].pc \in Launching <=> task[t].pc \in Launching
      /\ task'[t].pc \notin Early
      /\ task'[t].pc \notin Dumped /\ task'[t].pc # "insert"
  BY <1>1 DEF Launching, Booting, Early, Dumped, Returns
<1>5. ~Dumping(t) /\ ~Owns(t)
  BY DEF Dumping, Owns, Owning, Reserving
<1>. QED BY <1>1, <1>2, <1>3, <1>4, <1>5, OnlyMovesOrdinary DEF Returns

\* A request is accepted.
LEMMA AcceptOrdinary ==
    ASSUME ManagerInv, ProcInv, NEW t \in Tasks, NEW op \in Ops, NEW id \in WorkspaceIds,
           Accept(t, op, id)
    PROVE  Ordinary(t)
<1>0. task[t] \in TaskRec /\ task \in [Tasks -> TaskRec]
  BY DEF ManagerInv, Types
<1>1. /\ Others(t) /\ task[t].pc = "idle" /\ OnlyMoves
      /\ task'[t].pc = IF op = "terminate" THEN "remove" ELSE "claim"
      /\ task'[t].op = op /\ task'[t].id = id
      /\ task'[t].src = task[t].src /\ task'[t].dumped = task[t].dumped
  BY <1>0 DEF Accept, At, TaskRec, Others, OnlyMoves, ledger
<1>2. Roles'
  BY <1>1 DEF ProcInv, Roles, Others, Booting, Ops
<1>3. /\ task[t].pc \notin Reaping /\ task'[t].pc \notin Reaping
      /\ task'[t].pc \notin Leased /\ task[t].pc \notin Leased
  BY <1>1 DEF Leased, PC, Reaping
<1>4. /\ task'[t].pc \in Launching <=> task[t].pc \in Launching
      /\ task[t].pc \in Early /\ vm[t] = "Unborn"
      /\ task'[t].pc \notin Dumped /\ task'[t].pc # "insert"
  BY <1>1 DEF Launching, Booting, Early, Dumped, ProcInv, Processes
<1>5. ~Dumping(t) /\ ~Owns(t)
  BY <1>1 DEF Dumping, Owns, Owning, Reserving
<1>. QED BY <1>1, <1>2, <1>3, <1>4, <1>5, OnlyMovesOrdinary

\* The dump reaches whoever listens in the captured boot's directory, which is
\* the captured boot or nobody.
LEMMA DumpOrdinary ==
    ASSUME ManagerInv, ProcInv, NEW t \in Tasks, SnapDump(t)
    PROVE  Ordinary(t)
<1>0. task[t] \in TaskRec /\ task \in [Tasks -> TaskRec] /\ task[t].pc = "dump" /\ OnlyMoves
  BY Zenon DEF ManagerInv, Types, SnapDump, At, OnlyMoves, ledger
<1>1. /\ Others(t) /\ task'[t].pc = "finalize" /\ task'[t].op = task[t].op
      /\ task'[t].id = task[t].id /\ task'[t].src = task[t].src
      /\ task'[t].dumped \in {task[t].dumped} \cup Listeners(Dir(task[t].src))
  <2>. DEFINE act == IF task[t].was THEN "Resume" ELSE "Paused"
  <2>1. CASE GotoFinalize(t, act, TRUE)
    BY <1>0, <2>1 DEF GotoFinalize, TaskRec, Others
  <2>2. CASE ~GotoFinalize(t, act, TRUE)
    <3>1. PICK b \in Listeners(Dir(task[t].src)) : \E a :
             task' = [task EXCEPT ![t] = [@ EXCEPT !.pc = "finalize", !.dumped = b, !.act = a]]
      BY <2>2, Zenon DEF SnapDump
    <3>. QED BY <1>0, <3>1 DEF TaskRec, Others
  <2>. QED BY <2>1, <2>2, Zenon
<1>2. Listeners(Dir(task[t].src)) \subseteq {task[t].src}
  BY <1>0 DEF Listeners, ProcInv, Sources, Captured, Dumped
<1>3. Roles'
  BY <1>0, <1>1, <1>2 DEF ProcInv, Roles, Others, Booting
<1>4. /\ task[t].pc \notin Reaping /\ task'[t].pc \notin Reaping
      /\ task'[t].pc \in Leased /\ task[t].pc \in Leased
  BY <1>0, <1>1 DEF Leased, PC, Reaping
<1>5. /\ task'[t].pc \notin Launching /\ task[t].pc \notin Launching
      /\ task[t].pc \in Early
      /\ task[t].pc \in Dumped /\ task'[t].pc # "insert"
  BY <1>0, <1>1 DEF Launching, Booting, Early, Dumped
<1>6. Dumping(t)' /\ ~Owns(t)
  BY <1>0, <1>1 DEF Dumping, Owns, Owning, Reserving
<1>. QED BY <1>0, <1>1, <1>3, <1>4, <1>5, <1>6, OnlyMovesOrdinary

\* Steps that only decide where the request goes on.
LEMMA MovingOrdinary ==
    ASSUME ManagerInv, ProcInv, NEW t \in Tasks,
           BootCheck(t) \/ SnapReject(t) \/ SnapCopy(t)
    PROVE  Ordinary(t)
<1>0. OnlyMoves
  BY DEF BootCheck, SnapReject, SnapCopy, OnlyMoves, ledger
<1>1. CASE BootCheck(t)
  BY <1>0, <1>1, Moving, BecomesOrdinary DEF BootCheck, PrepareBoot, At, PC, ManagerInv
<1>2. CASE SnapReject(t)
  BY <1>0, <1>2, Moving, BecomesOrdinary DEF SnapReject, At, PC, ManagerInv
<1>3. CASE SnapCopy(t)
  BY <1>0, <1>3, Moving, BecomesOrdinary DEF SnapCopy, At, PC, ManagerInv
<1>. QED BY <1>1, <1>2, <1>3

\* reserve_workspace.
LEMMA ReserveOrdinary ==
    ASSUME ManagerInv, ProcInv, NEW t \in Tasks, BootReserve(t)
    PROVE  Ordinary(t)
<1>. USE DEF ManagerInv, ProcInv
<1>. DEFINE id == Id(t)
<1>0. id \in WorkspaceIds /\ task[t].pc = "reserve"
  BY DEF Types, BootReserve, At
<1>1. PICK ok \in BOOLEAN : /\ ReserveWorkspace(id, ok)
                            /\ IF ok THEN Goto(t, "launch") ELSE GotoFail(t, "finish")
  BY DEF BootReserve
<1>2. /\ faulted => faulted'
      /\ \A v \in WorkspaceIds \ {id} : workspaces'[v] = workspaces[v]
      /\ ~ok => workspaces' = workspaces /\ guards' = guards
      /\ ok => guards' = guards \cup {<<"Reservation", id>>} /\ workspaces[id] = "Absent"
  <2>1. "Running" \in WorkspaceState
    BY DEF WorkspaceState
  <2>2. ok => workspaces[id] = "Absent"
    BY <1>1 DEF ReserveWorkspace, Refuse, Overflow
  <2>. QED BY <1>0, <1>1, <2>1, <2>2, LedgerCalls
<1>3. Becomes(t, IF ok THEN "launch" ELSE "finish")
  BY <1>1, Moving DEF PC
<1>4. Roles'
  BY <1>0, <1>3 DEF Roles, Becomes, Others, Booting
<1>5. ProcessesKept(t)
  BY <1>0, SameProcesses DEF BootReserve, Launching, Booting
<1>6. RegistryKept(t)
  <2>1. \A w \in WorkspaceIds : registry[w] # None => workspaces'[w] = workspaces[w]
    <3>1. ok => registry[id] = None
      BY <1>0, <1>2, GuardMeansEntry DEF Ownership
    <3>. QED BY <1>2, <3>1
  <2>. QED BY <1>0, <2>1, SameRegistry DEF BootReserve, Dumping
<1>7. GuardsKept(t)
  BY <1>0, <1>2, <1>3 DEF GuardsKept, Guarded, Holds, Owns, Owning, Reserving, Becomes, Id
<1>8. Inserting'
  BY <1>0, <1>2, <1>3, SameInserting DEF Inserting, Types, Becomes
<1>. QED BY <1>0, <1>2, <1>3, <1>4, <1>5, <1>6, <1>7, <1>8
         DEF Ordinary, BootReserve, Becomes, Leased, PC, Reaping, Launching, Booting, Early, Dumped

\* register_in_place.
LEMMA RegisterOrdinary ==
    ASSUME ManagerInv, ProcInv, NEW t \in Tasks, BootRegister(t)
    PROVE  Ordinary(t)
<1>. USE DEF ManagerInv, ProcInv
<1>. DEFINE id == Id(t)
<1>0. id \in WorkspaceIds /\ task[t].pc = "register" /\ registry[id] = None
  BY DEF Types, BootRegister, At, Ownership, Owns, Owning, Reserving
<1>1. PICK ok \in BOOLEAN : /\ Register(id, "Running", ok)
                            /\ IF ok THEN Goto(t, "insert") ELSE GotoFail(t, "teardown")
  BY DEF BootRegister
<1>2. /\ faulted => faulted'
      /\ \A v \in WorkspaceIds \ {id} : workspaces'[v] = workspaces[v]
      /\ ~ok => guards' = guards
      /\ ok => guards' = (guards \ {<<"Reservation", id>>}) \cup {<<"Registered", id>>}
  <2>1. "Running" \in WorkspaceState
    BY DEF WorkspaceState
  <2>. QED BY <1>0, <1>1, <2>1, LedgerCalls
<1>3. Becomes(t, IF ok THEN "insert" ELSE "teardown")
  BY <1>1, Moving DEF PC
<1>4. Roles'
  BY <1>0, <1>3 DEF Roles, Becomes, Others, Booting
<1>5. ProcessesKept(t)
  BY <1>0, <1>3, SameProcesses DEF BootRegister, Launching, Booting, Becomes
<1>6. RegistryKept(t)
  BY <1>0, <1>2, SameRegistry DEF BootRegister, Dumping
<1>7. GuardsKept(t)
  BY <1>0, <1>2, <1>3 DEF GuardsKept, Guarded, Holds, Owns, Owning, Reserving, Becomes, Id
<1>8. Inserting'
  <2>1. \A u \in Tasks \ {t} : task[u].pc = "insert" => Id(u) \in WorkspaceIds \ {id}
    BY <1>0 DEF Ownership, Owns, Owning, Reserving, Types
  <2>2. \A u \in Tasks \ {t} : task'[u] = task[u]
    BY <1>3 DEF Becomes, Others
  <2>3. task'[t].pc = "insert" => workspaces'[Id(t)] = "Running" /\ Id(t)' = Id(t)
    <3>1. workspaces \in [WorkspaceIds -> WorkspaceEntry]
      BY DEF LedgerInv, LedgerTypeOK
    <3>. QED BY <1>0, <1>1, <1>3, <3>1 DEF Becomes, Register, Refuse, Overflow, Id
  <2>. QED BY <1>2, <2>1, <2>2, <2>3 DEF Inserting, Id
<1>. QED BY <1>0, <1>2, <1>3, <1>4, <1>5, <1>6, <1>7, <1>8
         DEF Ordinary, BootRegister, Becomes, Leased, PC, Reaping, Launching, Booting, Early, Dumped

\* A guard is dropped by a failed boot, or by a terminate at its end.
LEMMA DropOrdinary ==
    ASSUME ManagerInv, ProcInv, NEW t \in Tasks, BootDrop(t) \/ TermUntree(t)
    PROVE  Ordinary(t)
<1>. USE DEF ManagerInv, ProcInv
<1>. DEFINE id == Id(t)
<1>0. id \in WorkspaceIds /\ task[t].pc \in {"drop", "untree"} /\ registry[id] = None
  BY DEF Types, BootDrop, TermUntree, At, Ownership, Owns, Owning
<1>1. PICK k \in {"Reservation", "Registered"} : Holds(k, id) /\ ReleaseEntry(<<k, id>>)
  BY DEF BootDrop, TermUntree, Ownership, At
<1>2. /\ faulted => faulted'
      /\ \A v \in WorkspaceIds \ {id} : workspaces'[v] = workspaces[v]
      /\ \A v \in WorkspaceIds : v = id => ~Guarded(v)'
      /\ \A v \in WorkspaceIds : Guarded(v)' => Guarded(v)
  <2>1. PICK w \in WorkspaceIds : w = id
    BY <1>0
  <2>. QED BY <1>1, <2>1, ReleaseCall, Zenon
<1>3. \/ task[t].pc = "drop" /\ Becomes(t, "finish")
      \/ task[t].pc = "untree" /\ Returns(t)
  BY Moving DEF BootDrop, TermUntree, At, PC
<1>4. Roles'
  BY <1>0, <1>3 DEF Roles, Becomes, Returns, Others, Booting
<1>5. ProcessesKept(t)
  <2>1. vm' = vm /\ vm \in [Tasks -> VmStatus]
    BY DEF BootDrop, TermUntree, Processes
  <2>2. trees' = trees \/ (task[t].pc = "untree" /\ trees' = trees \ {task[t].src})
    BY DEF BootDrop, TermUntree, At
  <2>3. task[t].pc = "untree" =>
           /\ Unregistered(task[t].src) /\ task[t].src \in Tasks
           /\ task'[task[t].src].pc \notin Launching
    BY <1>3 DEF Sources, Captured, Reaping, Settled, Returns, Others, Launching, Booting
  <2>. QED BY <1>0, <2>1, <2>2, <2>3 DEF ProcessesKept, Launching, Booting
<1>6. RegistryKept(t)
  BY <1>0, <1>2, SameRegistry DEF BootDrop, TermUntree, Dumping
<1>7. GuardsKept(t)
  BY <1>2 DEF GuardsKept
<1>8. Inserting'
  <2>1. \A u \in Tasks \ {t} : task[u].pc = "insert" => Id(u) \in WorkspaceIds \ {id}
    BY <1>0 DEF Ownership, Owns, Owning, Reserving, Types
  <2>. QED BY <1>2, <1>3, <2>1, SameInserting DEF Becomes, Returns
<1>. QED BY <1>0, <1>2, <1>3, <1>4, <1>5, <1>6, <1>7, <1>8
         DEF Ordinary, BootDrop, TermUntree, Becomes, Returns, Leased, PC, Reaping, Launching, Booting, Early, Dumped
=============================================================================
