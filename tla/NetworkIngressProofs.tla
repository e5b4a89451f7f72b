-------------------------- MODULE NetworkIngressProofs --------------------------
(***************************************************************************)
(* The slot table is sound, an id whose requests do not overlap keeps its  *)
(* devices and tables in agreement, and its requests reach its own guest,  *)
(* for every number of slots, workspace ids and concurrent requests.       *)
(*                                                                         *)
(* A slot is free, withdrawn, held by one create or terminate under way,   *)
(* or that of one registered workspace (Owners).  Registration hands the   *)
(* slot of a create over to its id, and would lose the slot of a workspace *)
(* that was registered before: it is not, because one create at a time     *)
(* holds the lease of an id, and took it when the id was not registered    *)
(* (Claims).                                                               *)
(*                                                                         *)
(* On an id that was not raced, a create or terminate is alone (Alone), so *)
(* what it has found or done there still holds at its next step (Knows);   *)
(* between them the id agrees with its registration (Agree).               *)
(***************************************************************************)
EXTENDS NetworkIngress, FiniteSetTheorems, WellFoundedInduction, TLAPS

\* The time each leaf may take: SMT first, then Zenon.
USE SMTT(20), ZenonT(20)

\* Where a create has a slot that is not registered, and a terminate one that no
\* longer is.
Building == {"netns", "links", "launch", "cdel", "crelease"}
Ending == {"reap", "tdel", "trelease"}
Holding == Building \cup Ending

Unregistered == Building \cup {"reserve", "alloc"}
Claimed == Unregistered \cup {"upsert", "finish"}
CreatePC == Claimed \cup {"claim"}
TermPC == Ending \cup {"remove", "unroute", "unring"}

Request == [op : Ops \cup {"idle"}, id : WorkspaceIds \cup {None}, pc : PC, slot : 0 .. MaxSlot]

Types ==
    /\ free \subseteq Slots
    /\ instances \in [WorkspaceIds -> 0 .. MaxSlot]
    /\ routes \in [WorkspaceIds -> 0 .. MaxSlot]
    /\ task \in [Tasks -> Request]

\* What a request is and has, from where it is.
Stages ==
    \A t \in Tasks :
        /\ task[t].pc \notin {"idle", "done"} => task[t].id \in WorkspaceIds
        /\ task[t].op = "create" <=> task[t].pc \in CreatePC
        /\ task[t].op = "terminate" <=> task[t].pc \in TermPC
        /\ task[t].op \in Lifecycle =>
              (task[t].slot # 0 <=> task[t].pc \in Holding \cup {"upsert"})

\* One create at a time is past the lease of an id, which is not registered until
\* that create registers it.
Claims ==
    /\ \A t \in Tasks : task[t].pc \in Claimed => task[t].id \in claims
    /\ \A t, u \in Tasks :
          task[t].pc \in Claimed /\ task[u].pc \in Claimed /\ task[t].id = task[u].id => t = u
    /\ \A t \in Tasks : task[t].pc \in Unregistered => instances[task[t].id] = 0

Holds(t) == task[t].pc \in Holding

Owners ==
    /\ free \cap leaked = {}
    /\ \A t \in Tasks : Holds(t) => task[t].slot \notin free \cup leaked
    /\ \A t, u \in Tasks : Holds(t) /\ Holds(u) /\ task[t].slot = task[u].slot => t = u
    /\ \A w \in WorkspaceIds : instances[w] # 0 => instances[w] \notin free \cup leaked
    /\ \A v, w \in WorkspaceIds : instances[v] # 0 /\ instances[v] = instances[w] => v = w
    /\ \A t \in Tasks, w \in WorkspaceIds : Holds(t) => instances[w] # task[t].slot
    /\ \A s \in Slots \ (free \cup leaked) :
          \/ \E t \in Tasks : Holds(t) /\ task[t].slot = s
          \/ \E w \in WorkspaceIds : instances[w] = s

SlotInv == Types /\ Stages /\ Claims /\ Owners

-----------------------------------------------------------------------------
\* What one request can do to the slots.

Takes(t) ==
    /\ ~Holds(t) /\ Holds(t)'
    /\ task'[t].slot \in free /\ free' = free \ {task'[t].slot}
    /\ UNCHANGED <<instances, leaked>>

Registers(t) ==
    /\ Holds(t) /\ ~Holds(t)'
    /\ task[t].id \in WorkspaceIds /\ instances[task[t].id] = 0
    /\ instances' = [instances EXCEPT ![task[t].id] = task[t].slot]
    /\ UNCHANGED <<free, leaked>>

Unregisters(t) ==
    /\ ~Holds(t) /\ Holds(t)'
    /\ task[t].id \in WorkspaceIds /\ instances[task[t].id] # 0
    /\ task'[t].slot = instances[task[t].id]
    /\ instances' = [instances EXCEPT ![task[t].id] = 0]
    /\ UNCHANGED <<free, leaked>>

GivesBack(t) ==
    /\ Holds(t) /\ ~Holds(t)'
    /\ free' = free \cup {task[t].slot}
    /\ UNCHANGED <<instances, leaked>>

Withdraws(t) ==
    /\ Holds(t) /\ ~Holds(t)'
    /\ leaked' = leaked \cup {task[t].slot}
    /\ UNCHANGED <<free, instances>>

Keeps(t) ==
    /\ Holds(t)' <=> Holds(t)
    /\ Holds(t) => task'[t].slot = task[t].slot
    /\ UNCHANGED <<free, instances, leaked>>

MovesSlot(t) ==
    \/ Takes(t) \/ Registers(t) \/ Unregisters(t) \/ GivesBack(t) \/ Withdraws(t) \/ Keeps(t)

\* A step of request t as the proof sees it.
StepOf(t) ==
    /\ Types' /\ Stages' /\ Claims'
    /\ \A u \in Tasks \ {t} : task'[u] = task[u]
    /\ MovesSlot(t)

\* A request that holds a slot holds one of the table.
LEMMA HeldSlots ==
    ASSUME Types, Stages, NEW t \in Tasks, Holds(t)
    PROVE  task[t].slot \in Slots
BY NetworkConstants DEF Types, Stages, Request, Holds, Slots, Holding, Building, Ending, CreatePC,
   TermPC, Claimed, Unregistered, Lifecycle

\* Whatever a request does to the slots leaves each with one owner.
LEMMA MovesKeepOwners ==
    ASSUME SlotInv, NEW t \in Tasks, StepOf(t)
    PROVE  SlotInv'
<1>. USE NetworkConstants DEF SlotInv, StepOf, Types, Owners, Slots
<1>. SUFFICES Owners'
  OBVIOUS
<1>0. \A u \in Tasks \ {t} : (Holds(u)' <=> Holds(u)) /\ task'[u].slot = task[u].slot
  BY DEF Holds
<1>1. \A u \in Tasks : Holds(u) => task[u].slot \in 1 .. MaxSlot
  BY HeldSlots
<1>. HIDE DEF Stages, Claims, StepOf
<1>2. CASE Takes(t)
  BY <1>0, <1>1, <1>2 DEF Takes
<1>3. CASE Registers(t)
  BY <1>0, <1>1, <1>3 DEF Registers
<1>4. CASE Unregisters(t)
  BY <1>0, <1>1, <1>4 DEF Unregisters
<1>5. CASE GivesBack(t)
  BY <1>0, <1>1, <1>5 DEF GivesBack
<1>6. CASE Withdraws(t)
  BY <1>0, <1>1, <1>6 DEF Withdraws
<1>7. CASE Keeps(t)
  BY <1>0, <1>1, <1>7 DEF Keeps
<1>. QED BY <1>2, <1>3, <1>4, <1>5, <1>6, <1>7 DEF StepOf, MovesSlot

\* The slot allocate_slot picks is one of the free ones.
LEMMA LowestFree ==
    ASSUME free \subseteq Slots, free # {}
    PROVE  (CHOOSE s \in free : \A r \in free : s <= r) \in free
<1>. DEFINE R == {p \in Nat \X Nat : p[1] < p[2]}
<1>1. R = OpToRel(<, Nat)
  BY Zenon DEF OpToRel
<1>2. free \subseteq Nat
  BY NetworkConstants DEF Slots
<1>3. PICK m \in free : \A r \in free : <<r, m>> \notin R
  <2>1. IsWellFoundedOn(R, Nat)
    BY <1>1, NatLessThanWellFounded, Zenon
  <2>. HIDE DEF R
  <2>. QED BY <1>2, <2>1, WFMin, Zenon
<1>4. ASSUME NEW r \in free PROVE m <= r
  <2>1. r \in Nat /\ m \in Nat
    BY <1>2
  <2>2. r < m => <<r, m>> \in R
    <3>. DEFINE p == <<r, m>>
    <3>1. p \in Nat \X Nat /\ p[1] = r /\ p[2] = m
      BY <2>1
    <3>. HIDE DEF p
    <3>2. r < m => p \in R
      BY <3>1
    <3>. QED BY <3>2 DEF p
  <2>3. ~(r < m)
    BY <1>3, <2>2
  <2>. QED BY <2>1, <2>3
<1>. QED BY <1>4

\* In the initial state every slot is free.
LEMMA SlotInit == Init => SlotInv
<1>. SUFFICES ASSUME Init PROVE SlotInv
  OBVIOUS
<1>1. Types
  BY NetworkConstants DEF Init, Types, Request, Slots, PC, Ops
<1>2. Stages /\ Claims
  BY DEF Init, Stages, Claims, Claimed, Unregistered, CreatePC, TermPC, Building, Ending, Lifecycle
<1>3. Owners
  BY DEF Init, Owners, Holds, Holding, Building, Ending
<1>. QED BY <1>1, <1>2, <1>3 DEF SlotInv

-----------------------------------------------------------------------------
\* A request under way that moves to another point of its operation, with a slot
\* there exactly where it should have one.
LEMMA MovesOn ==
    ASSUME Types, Stages, NEW t \in Tasks, NEW pc \in PC, NEW slot \in 0 .. MaxSlot,
           task[t].pc \notin {"idle", "done"}, GotoWith(t, pc, slot),
           \/ task[t].pc \in CreatePC /\ pc \in CreatePC
           \/ task[t].pc \in TermPC /\ pc \in TermPC,
           slot # 0 <=> pc \in Holding \cup {"upsert"}
    PROVE  /\ task' \in [Tasks -> Request] /\ Stages'
           /\ task'[t].id = task[t].id /\ task'[t].pc = pc
           /\ \A u \in Tasks \ {t} : task'[u] = task[u]
<1>1. /\ task \in [Tasks -> Request]
      /\ task' = [task EXCEPT ![t] = [task[t] EXCEPT !.pc = pc, !.slot = slot]]
  BY Zenon DEF Types, GotoWith
<1>2. /\ task[t] \in Request /\ task'[t] = [task[t] EXCEPT !.pc = pc, !.slot = slot]
      /\ \A u \in Tasks \ {t} : task'[u] = task[u]
  BY <1>1
<1>3. /\ task'[t] \in Request /\ task'[t].op = task[t].op /\ task'[t].id = task[t].id
      /\ task'[t].pc = pc /\ task'[t].slot = slot
  BY <1>2, Zenon DEF Request
<1>4. task' \in [Tasks -> Request]
  BY <1>1, <1>3
<1>5. CreatePC \cap TermPC = {}
  BY DEF CreatePC, TermPC, Claimed, Unregistered, Building, Ending
<1>6. Stages'
  BY <1>2, <1>3, <1>5, Zenon DEF Stages
<1>. QED BY <1>2, <1>3, <1>4, <1>6, Zenon

\* A step of the setup goes on with the slot, or ends the create without it.
LEMMA SetupMoves ==
    ASSUME SlotInv, NEW t \in Tasks, SetupNetns(t) \/ SetupLinks(t)
    PROVE  Types' /\ Stages' /\ Claims' /\ \A u \in Tasks \ {t} : task'[u] = task[u]
<1>1. /\ UNCHANGED <<free, instances, routes, claims>>
      /\ task[t].pc \in {"netns", "links"}
      /\ GotoWith(t, "finish", 0) \/ Goto(t, "links") \/ Goto(t, "launch")
  BY DEF SetupNetns, SetupLinks, SetupFails, At
<1>2. /\ Types /\ Stages /\ task[t].pc \in Holding /\ task[t].pc \in CreatePC
      /\ task[t].pc \notin {"idle", "done"}
  BY <1>1 DEF SlotInv, Holding, Building, CreatePC, Claimed, Unregistered
<1>3. task \in [Tasks -> Request] /\ task[t].slot \in 0 .. MaxSlot /\ task[t].slot # 0
  BY <1>2, HeldSlots DEF Types, Holds, Request, Slots
<1>4. \A pc : Goto(t, pc) => GotoWith(t, pc, task[t].slot)
  BY <1>3, Zenon DEF Goto, GotoWith, Request
<1>5. {"finish", "links", "launch"} \subseteq PC \cap CreatePC
  BY DEF PC, CreatePC, Claimed, Unregistered, Building
<1>6. "links" \in Holding /\ "launch" \in Holding /\ "finish" \notin Holding \cup {"upsert"}
  BY DEF Holding, Building, Ending
<1>7. 0 \in 0 .. MaxSlot
  BY NetworkConstants
<1>8. PICK pc \in {"finish", "links", "launch"}, slot \in 0 .. MaxSlot :
         GotoWith(t, pc, slot) /\ (slot # 0 <=> pc \in Holding \cup {"upsert"})
  BY <1>1, <1>3, <1>4, <1>6, <1>7
<1>9. /\ task' \in [Tasks -> Request] /\ Stages' /\ \A u \in Tasks \ {t} : task'[u] = task[u]
      /\ task'[t].id = task[t].id /\ task'[t].pc = pc
  <2>1. pc \in PC /\ pc \in CreatePC
    BY <1>5
  <2>. QED BY <1>2, <1>8, <2>1, MovesOn
<1>10. /\ \A u \in Tasks : task'[u].id = task[u].id
       /\ \A u \in Tasks : task'[u].pc \in Claimed => task[u].pc \in Claimed
       /\ \A u \in Tasks : task'[u].pc \in Unregistered => task[u].pc \in Unregistered
  <2>1. task[t].pc \in Unregistered /\ task[t].pc \in Claimed
    BY <1>1 DEF Claimed, Unregistered, Building
  <2>. QED BY <1>9, <2>1, Zenon
<1>11. Claims'
  BY <1>1, <1>10 DEF SlotInv, Claims
<1>. QED BY <1>1, <1>2, <1>9, <1>11 DEF Types

\* Each step of a create moves its slot in one of these ways.
LEMMA CreateSteps ==
    ASSUME SlotInv, NEW t \in Tasks, CreateStep(t)
    PROVE  StepOf(t)
<1>. USE NetworkConstants DEF SlotInv, Types, Stages, Claims, Holds, Request, Slots, PC, Ops, Lifecycle,
         Holding, Building, Ending, CreatePC, TermPC, Claimed, Unregistered, At, Id, host, tables, history
<1>1. CASE CreateClaim(t)
  <2>1. Types' /\ Stages' /\ \A u \in Tasks \ {t} : task'[u] = task[u]
    BY <1>1 DEF CreateClaim, Return, Goto
  <2>2. Claims'
    BY <1>1 DEF CreateClaim, Return, Goto
  <2>3. Keeps(t)
    BY <1>1 DEF CreateClaim, Return, Goto, Keeps
  <2>. QED BY <2>1, <2>2, <2>3 DEF StepOf, MovesSlot
<1>2. CASE CreateReserve(t)
  <2>1. Types' /\ Stages' /\ \A u \in Tasks \ {t} : task'[u] = task[u]
    BY <1>2 DEF CreateReserve, Goto
  <2>2. Claims'
    BY <1>2 DEF CreateReserve, Goto
  <2>3. Keeps(t)
    BY <1>2 DEF CreateReserve, Goto, Keeps
  <2>. QED BY <2>1, <2>2, <2>3 DEF StepOf, MovesSlot
<1>3. CASE CreateAlloc(t)
  <2>1. CASE free = {}
    <3>0. /\ At(t, "alloc") /\ Goto(t, "finish")
          /\ UNCHANGED <<free, instances, claims, routes, history>>
      BY <1>3, <2>1 DEF CreateAlloc
    <3>1. Types' /\ Stages' /\ \A u \in Tasks \ {t} : task'[u] = task[u]
      BY <3>0 DEF Goto
    <3>2. Claims'
      BY <3>0 DEF Goto
    <3>3. Keeps(t)
      BY <3>0 DEF Goto, Keeps
    <3>. QED BY <3>1, <3>2, <3>3 DEF StepOf, MovesSlot
  <2>2. CASE free # {}
    <3>. DEFINE slot == CHOOSE s \in free : \A r \in free : s <= r
    <3>0. slot \in free
      BY <2>2, LowestFree
    <3>1. /\ At(t, "alloc")
          /\ free' = free \ {slot} /\ GotoWith(t, "netns", slot)
          /\ UNCHANGED <<instances, claims, routes, history>>
      BY <1>3, <2>2, Zenon DEF CreateAlloc
    <3>. HIDE DEF slot
    <3>2. Types' /\ Stages' /\ Claims' /\ \A u \in Tasks \ {t} : task'[u] = task[u]
      BY <3>0, <3>1 DEF GotoWith
    <3>3. Takes(t)
      BY <3>0, <3>1 DEF GotoWith, Takes
    <3>. QED BY <3>2, <3>3 DEF StepOf, MovesSlot
  <2>. QED BY <2>1, <2>2
<1>4. CASE SetupNetns(t)
  <2>1. Types' /\ Stages' /\ Claims' /\ \A u \in Tasks \ {t} : task'[u] = task[u]
    BY <1>4, SetupMoves, Zenon
  <2>2. Keeps(t) \/ Withdraws(t)
    BY <1>4 DEF SetupNetns, SetupFails, Goto, GotoWith, Keeps, Withdraws
  <2>. QED BY <2>1, <2>2 DEF StepOf, MovesSlot
<1>5. CASE SetupLinks(t)
  <2>1. Types' /\ Stages' /\ Claims' /\ \A u \in Tasks \ {t} : task'[u] = task[u]
    BY <1>5, SetupMoves, Zenon
  <2>2. Keeps(t) \/ Withdraws(t)
    BY <1>5 DEF SetupLinks, SetupFails, Goto, GotoWith, Keeps, Withdraws
  <2>. QED BY <2>1, <2>2 DEF StepOf, MovesSlot
<1>6. CASE CreateLaunch(t)
  <2>1. Types' /\ Stages' /\ \A u \in Tasks \ {t} : task'[u] = task[u]
    BY <1>6 DEF CreateLaunch, LoseVm, Goto, GotoWith
  <2>2. Claims'
    BY <1>6 DEF CreateLaunch, LoseVm, Goto, GotoWith
  <2>3. Registers(t) \/ Keeps(t) \/ Withdraws(t)
    BY <1>6 DEF CreateLaunch, LoseVm, Goto, GotoWith, Registers, Keeps, Withdraws
  <2>. QED BY <2>1, <2>2, <2>3 DEF StepOf, MovesSlot
<1>7. CASE CreateUpsert(t)
  <2>1. Types' /\ Stages' /\ \A u \in Tasks \ {t} : task'[u] = task[u]
    BY <1>7 DEF CreateUpsert, GotoWith
  <2>2. Claims'
    BY <1>7 DEF CreateUpsert, GotoWith
  <2>3. Keeps(t)
    BY <1>7 DEF CreateUpsert, GotoWith, Keeps
  <2>. QED BY <2>1, <2>2, <2>3 DEF StepOf, MovesSlot
<1>8. CASE CreateTeardownNetns(t)
  <2>1. Types' /\ Stages' /\ \A u \in Tasks \ {t} : task'[u] = task[u]
    BY <1>8 DEF CreateTeardownNetns, Goto
  <2>2. Claims'
    BY <1>8 DEF CreateTeardownNetns, Goto
  <2>3. Keeps(t)
    BY <1>8 DEF CreateTeardownNetns, Goto, Keeps
  <2>. QED BY <2>1, <2>2, <2>3 DEF StepOf, MovesSlot
<1>9. CASE CreateTeardownRelease(t)
  <2>1. Types' /\ Stages' /\ \A u \in Tasks \ {t} : task'[u] = task[u]
    BY <1>9 DEF CreateTeardownRelease, ReleaseNetwork, GotoWith
  <2>2. Claims'
    BY <1>9 DEF CreateTeardownRelease, ReleaseNetwork, GotoWith
  <2>3. GivesBack(t)
    BY <1>9 DEF CreateTeardownRelease, ReleaseNetwork, GotoWith, GivesBack
  <2>. QED BY <2>1, <2>2, <2>3 DEF StepOf, MovesSlot
<1>10. CASE CreateFinish(t)
  <2>1. Types' /\ Stages' /\ \A u \in Tasks \ {t} : task'[u] = task[u]
    BY <1>10 DEF CreateFinish, Return
  <2>2. Claims'
    BY <1>10 DEF CreateFinish, Return
  <2>3. Keeps(t)
    BY <1>10 DEF CreateFinish, Return, Keeps
  <2>. QED BY <2>1, <2>2, <2>3 DEF StepOf, MovesSlot
<1>. QED BY <1>1, <1>2, <1>3, <1>4, <1>5, <1>6, <1>7, <1>8, <1>9, <1>10 DEF CreateStep

\* Each step of a terminate does.
LEMMA TermSteps ==
    ASSUME SlotInv, NEW t \in Tasks, TermStep(t)
    PROVE  StepOf(t)
<1>. USE NetworkConstants DEF SlotInv, Types, Stages, Claims, Holds, Request, Slots, PC, Ops, Lifecycle,
         Holding, Building, Ending, CreatePC, TermPC, Claimed, Unregistered, At, Id, host, tables, history
<1>1. CASE TermRemove(t)
  <2>0. Types' /\ \A u \in Tasks \ {t} : task'[u] = task[u]
    BY <1>1 DEF TermRemove, Return, GotoWith
  <2>1. Stages'
    BY <1>1, <2>0 DEF TermRemove, Return, GotoWith
  <2>2. Claims'
    BY <1>1 DEF TermRemove, Return, GotoWith
  <2>3. Unregisters(t) \/ Keeps(t)
    BY <1>1 DEF TermRemove, Return, GotoWith, Unregisters, Keeps
  <2>. QED BY <2>0, <2>1, <2>2, <2>3 DEF StepOf, MovesSlot
<1>2. CASE TermReap(t)
  <2>1. Types' /\ Stages' /\ \A u \in Tasks \ {t} : task'[u] = task[u]
    BY <1>2 DEF TermReap, LoseVm, Return, Goto
  <2>2. Claims'
    BY <1>2 DEF TermReap, LoseVm, Return, Goto
  <2>3. Keeps(t) \/ Withdraws(t)
    BY <1>2 DEF TermReap, LoseVm, Return, Goto, Keeps, Withdraws
  <2>. QED BY <2>1, <2>2, <2>3 DEF StepOf, MovesSlot
<1>3. CASE TermNetns(t)
  <2>1. Types' /\ Stages' /\ \A u \in Tasks \ {t} : task'[u] = task[u]
    BY <1>3 DEF TermNetns, Goto
  <2>2. Claims'
    BY <1>3 DEF TermNetns, Goto
  <2>3. Keeps(t)
    BY <1>3 DEF TermNetns, Goto, Keeps
  <2>. QED BY <2>1, <2>2, <2>3 DEF StepOf, MovesSlot
<1>4. CASE TermRelease(t)
  <2>1. Types' /\ Stages' /\ \A u \in Tasks \ {t} : task'[u] = task[u]
    BY <1>4 DEF TermRelease, ReleaseNetwork, GotoWith
  <2>2. Claims'
    BY <1>4 DEF TermRelease, ReleaseNetwork, GotoWith
  <2>3. GivesBack(t)
    BY <1>4 DEF TermRelease, ReleaseNetwork, GotoWith, GivesBack
  <2>. QED BY <2>1, <2>2, <2>3 DEF StepOf, MovesSlot
<1>5. CASE TermUnroute(t)
  <2>1. Types' /\ Stages' /\ \A u \in Tasks \ {t} : task'[u] = task[u]
    BY <1>5 DEF TermUnroute, Goto
  <2>2. Claims'
    BY <1>5 DEF TermUnroute, Goto
  <2>3. Keeps(t)
    BY <1>5 DEF TermUnroute, Goto, Keeps
  <2>. QED BY <2>1, <2>2, <2>3 DEF StepOf, MovesSlot
<1>6. CASE TermUnring(t)
  <2>1. Types' /\ Stages' /\ \A u \in Tasks \ {t} : task'[u] = task[u]
    BY <1>6 DEF TermUnring, Return
  <2>2. Claims'
    BY <1>6 DEF TermUnring, Return
  <2>3. Keeps(t)
    BY <1>6 DEF TermUnring, Return, Keeps
  <2>. QED BY <2>1, <2>2, <2>3 DEF StepOf, MovesSlot
<1>. QED BY <1>1, <1>2, <1>3, <1>4, <1>5, <1>6 DEF TermStep

\* The requests that only use a workspace keep out of the slots.
LEMMA UseSteps ==
    ASSUME SlotInv, NEW t \in Tasks, AttestCheck(t) \/ AttestRing(t) \/ IngressStep(t)
    PROVE  StepOf(t)
<1>. USE NetworkConstants DEF SlotInv, Types, Stages, Claims, Holds, Request, Slots, PC, Ops, Lifecycle,
         Holding, Building, Ending, CreatePC, TermPC, Claimed, Unregistered, At, Id, host, tables, history
<1>1. CASE AttestCheck(t)
  <2>1. Types' /\ Stages' /\ \A u \in Tasks \ {t} : task'[u] = task[u]
    BY <1>1 DEF AttestCheck, Return, Goto
  <2>2. Claims'
    BY <1>1 DEF AttestCheck, Return, Goto
  <2>3. Keeps(t)
    BY <1>1 DEF AttestCheck, Return, Goto, Keeps
  <2>. QED BY <2>1, <2>2, <2>3 DEF StepOf, MovesSlot
<1>2. CASE AttestRing(t)
  <2>1. Types' /\ Stages' /\ \A u \in Tasks \ {t} : task'[u] = task[u]
    BY <1>2 DEF AttestRing, Return
  <2>2. Claims'
    BY <1>2 DEF AttestRing, Return
  <2>3. Keeps(t)
    BY <1>2 DEF AttestRing, Return, Keeps
  <2>. QED BY <2>1, <2>2, <2>3 DEF StepOf, MovesSlot
<1>3. CASE ExposeLookup(t)
  <2>1. Types' /\ Stages' /\ \A u \in Tasks \ {t} : task'[u] = task[u]
    BY <1>3 DEF ExposeLookup, Return, Goto
  <2>2. Claims'
    BY <1>3 DEF ExposeLookup, Return, Goto
  <2>3. Keeps(t)
    BY <1>3 DEF ExposeLookup, Return, Goto, Keeps
  <2>. QED BY <2>1, <2>2, <2>3 DEF StepOf, MovesSlot
<1>4. CASE ExposePort(t)
  <2>1. Types' /\ Stages' /\ \A u \in Tasks \ {t} : task'[u] = task[u]
    BY <1>4 DEF ExposePort, Return
  <2>2. Claims'
    BY <1>4 DEF ExposePort, Return
  <2>3. Keeps(t)
    BY <1>4 DEF ExposePort, Return, Keeps
  <2>. QED BY <2>1, <2>2, <2>3 DEF StepOf, MovesSlot
<1>5. CASE UnexposePort(t)
  <2>1. Types' /\ Stages' /\ \A u \in Tasks \ {t} : task'[u] = task[u]
    BY <1>5 DEF UnexposePort, Return
  <2>2. Claims'
    BY <1>5 DEF UnexposePort, Return
  <2>3. Keeps(t)
    BY <1>5 DEF UnexposePort, Return, Keeps
  <2>. QED BY <2>1, <2>2, <2>3 DEF StepOf, MovesSlot
<1>6. CASE RequestResolve(t)
  <2>1. Types' /\ Stages' /\ \A u \in Tasks \ {t} : task'[u] = task[u]
    BY <1>6 DEF RequestResolve, Goto, GotoWith
  <2>2. Claims'
    BY <1>6 DEF RequestResolve, Goto, GotoWith
  <2>3. Keeps(t)
    BY <1>6 DEF RequestResolve, Goto, GotoWith, Keeps
  <2>. QED BY <2>1, <2>2, <2>3 DEF StepOf, MovesSlot
<1>7. CASE RequestDenied(t)
  <2>1. Types' /\ Stages' /\ \A u \in Tasks \ {t} : task'[u] = task[u]
    BY <1>7 DEF RequestDenied, Return
  <2>2. Claims'
    BY <1>7 DEF RequestDenied, Return
  <2>3. Keeps(t)
    BY <1>7 DEF RequestDenied, Return, Keeps
  <2>. QED BY <2>1, <2>2, <2>3 DEF StepOf, MovesSlot
<1>8. CASE RequestConnect(t)
  <2>1. Types' /\ Stages' /\ \A u \in Tasks \ {t} : task'[u] = task[u]
    BY <1>8 DEF RequestConnect, Return
  <2>2. Claims'
    BY <1>8 DEF RequestConnect, Return
  <2>3. Keeps(t)
    BY <1>8 DEF RequestConnect, Return, Keeps
  <2>. QED BY <2>1, <2>2, <2>3 DEF StepOf, MovesSlot
<1>. QED BY <1>1, <1>2, <1>3, <1>4, <1>5, <1>6, <1>7, <1>8 DEF IngressStep

\* A request that arrives holds nothing yet.
LEMMA AcceptSteps ==
    ASSUME SlotInv, NEW t \in Tasks, NEW op \in Ops, NEW id \in WorkspaceIds, Accept(t, op, id)
    PROVE  StepOf(t)
<1>. USE NetworkConstants DEF SlotInv, Types, Stages, Claims, Holds, Request, Slots, PC, Ops, Lifecycle,
         Holding, Building, Ending, CreatePC, TermPC, Claimed, Unregistered, At, Id, host, tables, history
<1>1. Types' /\ Stages' /\ \A u \in Tasks \ {t} : task'[u] = task[u]
  BY DEF Accept, EntryPoint
<1>2. Claims'
  BY DEF Accept, EntryPoint
<1>3. Keeps(t)
  BY DEF Accept, EntryPoint, Keeps
<1>. QED BY <1>1, <1>2, <1>3 DEF StepOf, MovesSlot

\* SlotInv is inductive.
LEMMA SlotStep == SlotInv /\ [Next]_vars => SlotInv'
<1>. SUFFICES ASSUME SlotInv, [Next]_vars PROVE SlotInv'
  OBVIOUS
<1>1. CASE UNCHANGED vars
  BY <1>1 DEF SlotInv, Types, Stages, Claims, Owners, Holds, vars, host, tables, history
<1>2. ASSUME NEW t \in Tasks, NEW op \in Ops, NEW id \in WorkspaceIds, Accept(t, op, id)
      PROVE  SlotInv'
  BY <1>2, AcceptSteps, MovesKeepOwners
<1>3. ASSUME NEW t \in Tasks, CreateStep(t)
      PROVE  SlotInv'
  BY <1>3, CreateSteps, MovesKeepOwners
<1>4. ASSUME NEW t \in Tasks, TermStep(t)
      PROVE  SlotInv'
  BY <1>4, TermSteps, MovesKeepOwners
<1>5. ASSUME NEW t \in Tasks, AttestCheck(t) \/ AttestRing(t) \/ IngressStep(t)
      PROVE  SlotInv'
  BY <1>5, UseSteps, MovesKeepOwners
<1>. QED BY <1>1, <1>2, <1>3, <1>4, <1>5 DEF Next, Quiet

\* The owners as the property counts them.
LEMMA SlotsCounted == SlotInv => SlotsAccounted
<1>. SUFFICES ASSUME SlotInv PROVE SlotsAccounted
  OBVIOUS
<1>1. ASSUME NEW s \in Slots
      PROVE  TaskHolders(s) = {t \in Tasks : Holds(t) /\ task[t].slot = s}
  BY <1>1, NetworkConstants
     DEF SlotInv, Types, Stages, Request, TaskHolders, At, Holds, Holding, Building, Ending, CreatePC,
         TermPC, Claimed, Unregistered, Lifecycle, Slots
<1>2. ASSUME NEW s \in Slots
      PROVE  Cardinality(TaskHolders(s)) + Cardinality(IdHolders(s)) <= (IF s \in free THEN 0 ELSE 1)
  <2>0. s # 0
    BY NetworkConstants DEF Slots
  <2>1. TaskHolders(s) = {} \/ \E t \in Tasks : TaskHolders(s) = {t}
    BY <1>1 DEF SlotInv, Owners
  <2>2. IdHolders(s) = {} \/ \E w \in WorkspaceIds : IdHolders(s) = {w}
    BY <2>0 DEF SlotInv, Owners, IdHolders
  <2>3. TaskHolders(s) = {} \/ IdHolders(s) = {}
    BY <1>1 DEF SlotInv, Owners, IdHolders
  <2>4. s \in free => TaskHolders(s) = {} /\ IdHolders(s) = {}
    BY <1>1, <2>0 DEF SlotInv, Owners, IdHolders
  <2>5. Cardinality({}) = 0
    BY FS_EmptySet
  <2>6. \A S : (S = {} \/ \E x : S = {x}) => Cardinality(S) \in {0, 1}
    BY <2>5, FS_Singleton
  <2>7. Cardinality(TaskHolders(s)) \in {0, 1} /\ Cardinality(IdHolders(s)) \in {0, 1}
    BY <2>1, <2>2, <2>6
  <2>8. Cardinality(TaskHolders(s)) = 0 \/ Cardinality(IdHolders(s)) = 0
    BY <2>3, <2>5
  <2>9. s \in free => Cardinality(TaskHolders(s)) = 0 /\ Cardinality(IdHolders(s)) = 0
    BY <2>4, <2>5
  <2>. QED BY <2>7, <2>8, <2>9
<1>3. \A s \in Slots \ (free \cup leaked) : TaskHolders(s) # {} \/ IdHolders(s) # {}
  BY <1>1 DEF SlotInv, Owners, IdHolders
<1>. QED BY <1>2, <1>3 DEF SlotsAccounted, SlotsExclusive, SlotInv, Owners

\* Slots and leases in every reachable state (network.rs, create_inner and
\* terminate_inner): one owner for each slot, one create past the lease of each id.
THEOREM SlotInvariant == Spec => []SlotInv
<1>. QED BY SlotInit, SlotStep, PTL DEF Spec

\* allocate_slot and release_slot never hand a slot, and with it a guest address, to
\* two workspaces, and lose only the slots that a failed setup or an unconfirmed
\* exit withdrew, for every number of slots, ids and concurrent requests.
THEOREM SlotTableSound == Spec => []SlotsAccounted
<1>. QED BY SlotInvariant, SlotsCounted, PTL

-----------------------------------------------------------------------------
\* Ids on which no create or terminate overlapped another request.

\* Where the devices and tables of an id are being changed: after the registration of a
\* create until its route is in, and after a terminate took the id out of the registry.
Settling == Ending \cup {"upsert", "unroute", "unring"}

\* A registered id has its own devices and route, any other id has no route, exposed
\* port or nonce ring.
Agree(w) ==
    IF instances[w] # 0
    THEN netns[w] = instances[w] /\ veth[w] = instances[w] /\ routes[w] = instances[w]
    ELSE routes[w] = 0 /\ w \notin ports \cup rings

\* What a request knows of its id when no other one may change it.
Knows(t, w) ==
    /\ task[t].pc = "links" => netns[w] = task[t].slot
    /\ task[t].pc = "launch" => netns[w] = task[t].slot /\ veth[w] = task[t].slot
    /\ task[t].pc = "upsert" =>
          /\ instances[w] = task[t].slot /\ netns[w] = task[t].slot /\ veth[w] = task[t].slot
    /\ task[t].pc \in Ending \cup {"unroute", "unring"} => instances[w] = 0
    /\ task[t].pc = "unring" => routes[w] = 0 /\ w \notin ports
    /\ task[t].pc \in {"ring", "show", "connect"} => instances[w] # 0
    /\ task[t].pc = "connect" => task[t].slot = instances[w]

\* The state of an id on which no create or terminate overlapped another request.
Serial(w) ==
    /\ \A t \in Tasks : task[t].id = w => Knows(t, w)
    /\ (\A t \in Tasks : task[t].id = w => task[t].pc \notin Settling) => Agree(w)

\* A create or terminate of such an id is alone on it.
Alone(w) ==
    \A t, u \in Tasks : task[t].id = w /\ task[u].id = w /\ task[t].op \in Lifecycle => t = u

\* Every id is serial or was raced or lost, and so are the ids whose requests strayed.
Serials ==
    /\ \A w \in WorkspaceIds : w \notin raced => Alone(w)
    /\ \A w \in WorkspaceIds : w \notin raced \cup lost => Serial(w)
    /\ strayed \subseteq raced \cup lost

Devices == netns \in [WorkspaceIds -> 0 .. MaxSlot] /\ veth \in [WorkspaceIds -> 0 .. MaxSlot]

SerialInv == SlotInv /\ Devices /\ Serials

\* The part of the state that belongs to id w.
SameId(w) ==
    /\ netns'[w] = netns[w] /\ veth'[w] = veth[w] /\ instances'[w] = instances[w] /\ routes'[w] = routes[w]
    /\ (w \in ports' <=> w \in ports) /\ (w \in rings' <=> w \in rings)

\* Request t of id w changes what belongs to w only, and stays on w or returns.
ActsOn(t, w) ==
    /\ Devices'
    /\ \A u \in Tasks \ {t} : task'[u] = task[u]
    /\ \A v \in WorkspaceIds \ {w} : SameId(v)
    /\ (task'[t].id = w /\ task'[t].op = task[t].op) \/ task'[t].id = None
    /\ raced' = raced /\ lost \subseteq lost'

\* The other ids keep their state.
LEMMA SerialElsewhere ==
    ASSUME Serials, NEW t \in Tasks, NEW w \in WorkspaceIds, task[t].id = w, ActsOn(t, w),
           NEW v \in WorkspaceIds \ {w}, v \notin raced' \cup lost'
    PROVE  Serial(v)'
<1>1. Serial(v) /\ SameId(v)
  BY DEF Serials, ActsOn
<1>2. \A u \in Tasks : task'[u].id = v => task'[u] = task[u]
  BY NetworkConstants DEF ActsOn
<1>3. \A u \in Tasks : task[u].id = v => task'[u] = task[u]
  BY DEF ActsOn
<1>4. \A u \in Tasks : task'[u].id = v => Knows(u, v)'
  BY <1>1, <1>2 DEF Serial, Knows, SameId
<1>5. Agree(v)' <=> Agree(v)
  BY <1>1 DEF Agree, SameId
<1>. QED BY <1>1, <1>2, <1>3, <1>4, <1>5 DEF Serial

\* A create or terminate is the only one to know of its id.
LEMMA SerialAlone ==
    ASSUME Serials, NEW t \in Tasks, NEW w \in WorkspaceIds, task[t].id = w, ActsOn(t, w),
           task[t].op \in Lifecycle, w \notin raced' \cup lost',
           task'[t].id = w => Knows(t, w)',
           task'[t].id = w => task'[t].pc \in Settling \/ Agree(w)',
           task'[t].id # w => Agree(w)'
    PROVE  Serial(w)'
<1>1. \A u \in Tasks \ {t} : task'[u].id # w
  BY DEF Serials, Alone, ActsOn
<1>. QED BY <1>1 DEF Serial

\* A request that only uses the workspace leaves to the others what they know.
LEMMA SerialUse ==
    ASSUME SlotInv, Serials, NEW t \in Tasks, NEW w \in WorkspaceIds, task[t].id = w, ActsOn(t, w),
           task[t].op \notin Lifecycle, w \notin raced' \cup lost',
           UNCHANGED <<netns, veth, instances, routes>>,
           task'[t].id = w => Knows(t, w)',
           Agree(w) => Agree(w)'
    PROVE  Serial(w)'
<1>1. Serial(w) /\ Alone(w)
  BY DEF Serials, ActsOn
<1>2. \A u \in Tasks : task[u].id = w => task[u].op \notin Lifecycle
  BY <1>1 DEF Alone
<1>3. \A u \in Tasks : task[u].id = w => task[u].pc \notin CreatePC \cup TermPC
  BY <1>2 DEF SlotInv, Stages, Lifecycle
<1>4. Agree(w)'
  BY <1>1, <1>3 DEF Serial, Settling, CreatePC, Claimed, TermPC
<1>5. ASSUME NEW u \in Tasks \ {t}, task'[u].id = w PROVE Knows(u, w)'
  <2>1. task'[u] = task[u] /\ Knows(u, w) /\ task[u].pc \notin CreatePC \cup TermPC
    BY <1>1, <1>3, <1>5 DEF ActsOn, Serial
  <2>. QED BY <2>1 DEF Knows, CreatePC, Claimed, Unregistered, Building, TermPC, Ending
<1>. QED BY <1>4, <1>5 DEF Serial

\* So it is enough to look at the request's own id, and at the stray requests.
LEMMA SerialsKept ==
    ASSUME Serials, NEW t \in Tasks, NEW w \in WorkspaceIds, task[t].id = w, ActsOn(t, w),
           w \notin raced' \cup lost' => Serial(w)', strayed' \subseteq raced \cup lost'
    PROVE  Serials'
<1>1. ASSUME NEW v \in WorkspaceIds, v \notin raced' PROVE Alone(v)'
  BY <1>1, NetworkConstants DEF Serials, Alone, ActsOn
<1>2. ASSUME NEW v \in WorkspaceIds, v \notin raced' \cup lost' PROVE Serial(v)'
  BY <1>2, SerialElsewhere
<1>. QED BY <1>1, <1>2 DEF Serials, ActsOn

\* A request that the router resolves is for a workspace with a route.
LEMMA ResolvedHasRoute ==
    ASSUME NEW w \in WorkspaceIds, route_decision(HostFor(w), Domain, Registry, Registry) = Ok
    PROVE  routes[w] # 0
<1>. DEFINE h == HostFor(w)
            parsed == parse_ingress_host(h, Domain)
            checks == <<Check(h.dotted, "ParseError"),
                        Check(parsed # "DomainMismatch", "DomainMismatch"),
                        Check(parsed # "Parse", "ParseError"),
                        Check(Resolves(Registry, h),
                              IF h.wsid \in DOMAIN Registry THEN "UnexposedPort" ELSE "UnknownWorkspace"),
                        Check(Resolves(Registry, h) => InCidr(Registry[h.wsid].ip, LinkLocal), "SsrfGuard")>>
<1>1. FirstFailure(checks) = Ok
  BY DEF route_decision
<1>2. parsed = Ok /\ h.wsid = w /\ h.dotted
  BY DEF parse_ingress_host, HostFor, Ok
<1>3. DOMAIN checks = 1 .. 5 /\ checks[1] = Ok /\ checks[2] = Ok /\ checks[3] = Ok
  BY <1>2 DEF Check, Ok, Err
<1>4. checks[4] = Ok => Resolves(Registry, h)
  BY DEF Check, Ok, Err
<1>. HIDE DEF checks
<1>5. CASE checks[4] # Ok
  <2>. DEFINE k == CHOOSE i \in DOMAIN checks :
                       /\ checks[i] # Ok
                       /\ \A j \in 1 .. (i - 1) : checks[j] = Ok
  <2>1. \E i \in DOMAIN checks : checks[i] # Ok /\ \A j \in 1 .. (i - 1) : checks[j] = Ok
    <3>1. \A j \in 1 .. (4 - 1) : checks[j] = Ok
      BY <1>3
    <3>. QED BY <1>3, <1>5, <3>1
  <2>2. checks[k] # Ok
    BY <2>1
  <2>3. FirstFailure(checks) = checks[k]
    BY <1>3, <1>5 DEF FirstFailure
  <2>. QED BY <1>1, <2>2, <2>3, Zenon
<1>. QED BY <1>2, <1>4, <1>5 DEF Resolves, Registry

\* What a create or terminate has of its id, and what it leaves.
Has(t, w) == Knows(t, w) /\ (task[t].pc \in Settling \/ Agree(w))
Leaves(t, w) == IF task'[t].id = w THEN Has(t, w)' ELSE Agree(w)'
Maintains(t, w) ==
    ActsOn(t, w) /\ strayed' = strayed /\ (w \notin lost' /\ Has(t, w) => Leaves(t, w))

\* A create or terminate that leaves its id as it should keeps the invariant.
LEMMA LifecycleSerial ==
    ASSUME SerialInv, NEW t \in Tasks, NEW w \in WorkspaceIds, task[t].id = w,
           task[t].op \in Lifecycle, Maintains(t, w)
    PROVE  Devices' /\ Serials'
<1>0. ActsOn(t, w) /\ strayed' = strayed /\ (w \notin lost' /\ Has(t, w) => Leaves(t, w))
  BY DEF Maintains
<1>1. ASSUME w \notin raced' \cup lost' PROVE Serial(w)'
  <2>1. w \notin raced \cup lost /\ Serial(w) /\ Alone(w)
    BY <1>0, <1>1 DEF ActsOn, SerialInv, Serials
  <2>2. Has(t, w)
    BY <2>1 DEF Serial, Alone, Has
  <2>. QED BY <1>0, <1>1, <2>2, SerialAlone DEF Leaves, Has, SerialInv
<1>. QED BY <1>0, <1>1, SerialsKept DEF SerialInv, Serials, ActsOn

\* Teardown deletes the devices of one id only.
LEMMA DevicesDeleted ==
    ASSUME Devices, NEW w \in WorkspaceIds, DeleteNetns(w)
    PROVE  Devices' /\ \A v \in WorkspaceIds \ {w} : netns'[v] = netns[v] /\ veth'[v] = veth[v]
<1>1. CASE UNCHANGED <<netns, veth>>
  BY <1>1 DEF Devices
<1>2. CASE /\ netns' = [netns EXCEPT ![w] = 0]
           /\ veth' = [veth EXCEPT ![w] = IF @ = netns[w] THEN 0 ELSE @]
  BY <1>2, NetworkConstants DEF Devices
<1>. QED BY <1>1, <1>2 DEF DeleteNetns

\* Every step of a create does.
LEMMA CreateSerial ==
    ASSUME SerialInv, NEW t \in Tasks, NEW w \in WorkspaceIds, task[t].id = w, CreateStep(t)
    PROVE  Maintains(t, w)
<1>0. /\ task \in [Tasks -> Request] /\ free \subseteq Slots /\ Devices
      /\ instances \in [WorkspaceIds -> 0 .. MaxSlot] /\ routes \in [WorkspaceIds -> 0 .. MaxSlot]
      /\ task[t].pc \in Unregistered => instances[w] = 0
      /\ task[t].slot \in 0 .. MaxSlot
  BY DEF SerialInv, SlotInv, Types, Claims, Request
<1>. USE DEF At, Id, host, tables, history, Has, Leaves, Knows, Settling, Ending, ActsOn, SameId, Devices
<1>2. CASE CreateClaim(t) \/ CreateReserve(t) \/ CreateAlloc(t) \/ CreateFinish(t)
  <2>1. /\ UNCHANGED <<netns, veth, instances, routes, ports, rings, history>>
        /\ \A u \in Tasks \ {t} : task'[u] = task[u]
        /\ task[t].pc \in {"claim", "reserve", "alloc", "finish"}
        /\ \/ task'[t].id = None
           \/ /\ task'[t].id = w /\ task'[t].op = task[t].op
              /\ task'[t].pc \in {"reserve", "alloc", "finish", "netns"}
    BY <1>0, <1>2 DEF CreateClaim, CreateReserve, CreateAlloc, CreateFinish, Return, Goto, GotoWith, Request
  <2>2. ActsOn(t, w)
    BY <1>0, <2>1
  <2>3. Has(t, w) => Leaves(t, w)
    BY <2>1, NetworkConstants DEF Agree
  <2>. QED BY <2>1, <2>2, <2>3 DEF Maintains
<1>3. CASE SetupNetns(t)
  <2>1. ActsOn(t, w)
    BY <1>0, <1>3 DEF SetupNetns, SetupFails, Goto, GotoWith, Request
  <2>2. Has(t, w) => Leaves(t, w)
    BY <1>0, <1>3 DEF SetupNetns, SetupFails, Goto, GotoWith, Request, Agree, Unregistered, Building
  <2>. QED BY <1>3, <2>1, <2>2 DEF Maintains, SetupNetns
<1>4. CASE SetupLinks(t)
  <2>1. ActsOn(t, w)
    BY <1>0, <1>4 DEF SetupLinks, SetupFails, Goto, GotoWith, Request
  <2>2. Has(t, w) => Leaves(t, w)
    BY <1>0, <1>4 DEF SetupLinks, SetupFails, Goto, GotoWith, Request, Agree, Unregistered, Building
  <2>. QED BY <1>4, <2>1, <2>2 DEF Maintains, SetupLinks
<1>5. CASE CreateLaunch(t)
  <2>1. ActsOn(t, w)
    BY <1>0, <1>5 DEF CreateLaunch, LoseVm, Goto, GotoWith, Request
  <2>2. w \notin lost' /\ Has(t, w) => Leaves(t, w)
    BY <1>0, <1>5 DEF CreateLaunch, LoseVm, Goto, GotoWith, Request, Agree, Unregistered, Building
  <2>. QED BY <1>5, <2>1, <2>2 DEF Maintains, CreateLaunch
<1>6. CASE CreateUpsert(t)
  <2>1. ActsOn(t, w)
    BY <1>0, <1>6 DEF CreateUpsert, GotoWith, Request
  <2>2. task[t].slot # 0
    BY <1>6 DEF CreateUpsert, SerialInv, SlotInv, Stages, CreatePC, Claimed, Holding, Lifecycle
  <2>3. Has(t, w) => Leaves(t, w)
    BY <1>0, <1>6, <2>2 DEF CreateUpsert, GotoWith, Request, Agree
  <2>. QED BY <1>6, <2>1, <2>3 DEF Maintains, CreateUpsert
<1>7. CASE CreateTeardownNetns(t)
  <2>1. ActsOn(t, w)
    BY <1>0, <1>7, DevicesDeleted DEF CreateTeardownNetns, Goto, Request
  <2>2. Has(t, w) => Leaves(t, w)
    BY <1>0, <1>7 DEF CreateTeardownNetns, DeleteNetns, Goto, Request, Agree, Unregistered, Building
  <2>. QED BY <1>7, <2>1, <2>2 DEF Maintains, CreateTeardownNetns
<1>8. CASE CreateTeardownRelease(t)
  <2>1. ActsOn(t, w)
    BY <1>0, <1>8 DEF CreateTeardownRelease, ReleaseNetwork, GotoWith, Request
  <2>2. Has(t, w) => Leaves(t, w)
    BY <1>0, <1>8 DEF CreateTeardownRelease, ReleaseNetwork, GotoWith, Request, Agree, Unregistered,
                      Building
  <2>. QED BY <1>8, <2>1, <2>2 DEF Maintains, CreateTeardownRelease
<1>. QED BY <1>2, <1>3, <1>4, <1>5, <1>6, <1>7, <1>8 DEF CreateStep

\* Every step of a terminate does.
LEMMA TermSerial ==
    ASSUME SerialInv, NEW t \in Tasks, NEW w \in WorkspaceIds, task[t].id = w, TermStep(t)
    PROVE  Maintains(t, w)
<1>0. /\ task \in [Tasks -> Request] /\ Devices
      /\ instances \in [WorkspaceIds -> 0 .. MaxSlot] /\ routes \in [WorkspaceIds -> 0 .. MaxSlot]
  BY DEF SerialInv, SlotInv, Types
<1>. USE NetworkConstants
         DEF At, Id, host, tables, history, Has, Leaves, Knows, Settling, Ending, ActsOn, SameId, Devices
<1>2. CASE TermRemove(t)
  <2>1. ActsOn(t, w)
    BY <1>0, <1>2 DEF TermRemove, Return, GotoWith, Request
  <2>2. Has(t, w) => Leaves(t, w)
    BY <1>0, <1>2 DEF TermRemove, Return, GotoWith, Request, Agree
  <2>. QED BY <1>2, <2>1, <2>2 DEF Maintains, TermRemove
<1>3. CASE TermReap(t)
  <2>1. ActsOn(t, w)
    BY <1>0, <1>3 DEF TermReap, LoseVm, Return, Goto, Request
  <2>2. w \notin lost' /\ Has(t, w) => Leaves(t, w)
    BY <1>0, <1>3 DEF TermReap, LoseVm, Return, Goto, Request
  <2>. QED BY <1>3, <2>1, <2>2 DEF Maintains, TermReap
<1>4. CASE TermNetns(t)
  <2>1. ActsOn(t, w)
    BY <1>0, <1>4, DevicesDeleted DEF TermNetns, Goto, Request
  <2>2. Has(t, w) => Leaves(t, w)
    BY <1>0, <1>4 DEF TermNetns, Goto, Request
  <2>. QED BY <1>4, <2>1, <2>2 DEF Maintains, TermNetns
<1>5. CASE TermRelease(t)
  <2>1. ActsOn(t, w)
    BY <1>0, <1>5 DEF TermRelease, ReleaseNetwork, GotoWith, Request
  <2>2. Has(t, w) => Leaves(t, w)
    BY <1>0, <1>5 DEF TermRelease, ReleaseNetwork, GotoWith, Request
  <2>. QED BY <1>5, <2>1, <2>2 DEF Maintains, TermRelease
<1>6. CASE TermUnroute(t)
  <2>1. ActsOn(t, w)
    BY <1>0, <1>6 DEF TermUnroute, Goto, Request
  <2>2. Has(t, w) => Leaves(t, w)
    BY <1>0, <1>6 DEF TermUnroute, Goto, Request
  <2>. QED BY <1>6, <2>1, <2>2 DEF Maintains, TermUnroute
<1>7. CASE TermUnring(t)
  <2>1. ActsOn(t, w)
    BY <1>0, <1>7 DEF TermUnring, Return, Request
  <2>2. Has(t, w) => Leaves(t, w)
    BY <1>0, <1>7 DEF TermUnring, Return, Request, Agree
  <2>. QED BY <1>7, <2>1, <2>2 DEF Maintains, TermUnring
<1>. QED BY <1>2, <1>3, <1>4, <1>5, <1>6, <1>7 DEF TermStep

\* Requests that only use a workspace find it in agreement and leave it so; the guest
\* they are proxied to is the one the id has registered, whose slot nobody else has.
LEMMA UseSerial ==
    ASSUME SerialInv, NEW t \in Tasks, NEW w \in WorkspaceIds, task[t].id = w,
           AttestCheck(t) \/ AttestRing(t) \/ IngressStep(t)
    PROVE  Devices' /\ Serials'
<1>0. /\ task \in [Tasks -> Request] /\ Devices /\ Serials /\ SlotInv
      /\ instances \in [WorkspaceIds -> 0 .. MaxSlot] /\ routes \in [WorkspaceIds -> 0 .. MaxSlot]
  BY DEF SerialInv, SlotInv, Types
<1>1. task[t].pc \in {"check", "ring", "lookup", "show", "hide", "resolve", "reason", "connect"}
  BY DEF AttestCheck, AttestRing, IngressStep, ExposeLookup, ExposePort, UnexposePort, RequestResolve,
         RequestDenied, RequestConnect, At
<1>2. task[t].op \notin Lifecycle
  BY <1>1 DEF SerialInv, SlotInv, Stages, Lifecycle, CreatePC, Claimed, Unregistered, Building, TermPC,
              Ending
<1>3. ASSUME w \notin raced \cup lost PROVE Agree(w) /\ Knows(t, w)
  <2>1. Serial(w) /\ Alone(w)
    BY <1>0, <1>3 DEF Serials
  <2>2. \A u \in Tasks : task[u].id = w => task[u].pc \notin CreatePC \cup TermPC
    BY <1>2, <2>1 DEF Alone, SerialInv, SlotInv, Stages, Lifecycle
  <2>. QED BY <2>1, <2>2 DEF Serial, Settling, CreatePC, Claimed, TermPC
<1>4. /\ UNCHANGED <<netns, veth, instances, routes, raced, lost>>
      /\ ActsOn(t, w)
  BY <1>0 DEF AttestCheck, AttestRing, IngressStep, ExposeLookup, ExposePort, UnexposePort, RequestResolve,
         RequestDenied, RequestConnect, Return, Goto, GotoWith, Request, Id, host, tables, history, ActsOn,
         SameId, Devices
<1>5. ASSUME w \notin raced \cup lost
      PROVE  (task'[t].id = w => Knows(t, w)') /\ Agree(w)'
  <2>1. Agree(w) /\ Knows(t, w)
    BY <1>3, <1>5
  <2>. USE NetworkConstants DEF Id, At, host, tables, history, Agree, Knows, Ending
  <2>2. CASE AttestCheck(t) \/ AttestRing(t) \/ ExposeLookup(t) \/ ExposePort(t) \/ UnexposePort(t)
             \/ RequestDenied(t) \/ RequestConnect(t)
    BY <1>0, <2>1, <2>2
       DEF AttestCheck, AttestRing, ExposeLookup, ExposePort, UnexposePort, RequestDenied, RequestConnect,
           Return, Goto, Request
  <2>3. CASE RequestResolve(t)
    <3>1. task'[t].pc = "connect" => task'[t].slot = routes[w] /\ routes[w] # 0
      BY <1>0, <2>3, ResolvedHasRoute DEF RequestResolve, Goto, GotoWith, Request
    <3>2. task'[t].pc \in {"connect", "reason"}
      BY <1>0, <2>3 DEF RequestResolve, Goto, GotoWith, Request
    <3>. QED BY <1>0, <2>1, <2>3, <3>1, <3>2 DEF RequestResolve
  <2>. QED BY <2>2, <2>3 DEF IngressStep
<1>6. strayed' \subseteq raced \cup lost
  <2>1. CASE UNCHANGED strayed
    BY <1>0, <2>1 DEF Serials
  <2>2. CASE RequestConnect(t)
    <3>1. ASSUME w \notin raced \cup lost, NEW v \in WorkspaceIds \ {w} PROVE instances[v] # task[t].slot
      BY <1>0, <1>3, <2>2, <3>1 DEF RequestConnect, At, Knows, SlotInv, Owners
    <3>. QED BY <1>0, <2>2, <3>1 DEF RequestConnect, Id, Serials
  <2>. QED BY <2>1, <2>2
           DEF AttestCheck, AttestRing, IngressStep, ExposeLookup, ExposePort, UnexposePort, RequestResolve,
               RequestDenied, history
<1>7. ASSUME w \notin raced' \cup lost' PROVE Serial(w)'
  <2>1. w \notin raced \cup lost
    BY <1>4, <1>7
  <2>. QED BY <1>0, <1>2, <1>4, <1>5, <1>7, <2>1, SerialUse
<1>. QED BY <1>0, <1>4, <1>6, <1>7, SerialsKept DEF ActsOn

\* An arriving request knows nothing yet, and counts as a race where it may be one.
LEMMA AcceptSerial ==
    ASSUME SerialInv, NEW t \in Tasks, NEW op \in Ops, NEW id \in WorkspaceIds, Accept(t, op, id)
    PROVE  Devices' /\ Serials'
<1>0. /\ task \in [Tasks -> Request] /\ Devices /\ Serials
  BY DEF SerialInv, SlotInv, Types
<1>1. /\ UNCHANGED <<netns, veth, instances, routes, ports, rings, lost, strayed>>
      /\ \A u \in Tasks \ {t} : task'[u] = task[u]
      /\ task[t].pc = "idle" /\ task'[t].id = id /\ task'[t].op = op
      /\ task'[t].pc \in {"claim", "remove", "check", "lookup", "hide", "resolve"}
      /\ raced \subseteq raced' /\ (Overlaps(op, id) => id \in raced')
  <2>1. \A u \in Tasks \ {t} : task'[u] = task[u]
    BY <1>0 DEF Accept
  <2>2. task'[t] = [op |-> op, id |-> id, slot |-> 0, pc |-> EntryPoint[op]]
    BY <1>0 DEF Accept
  <2>3. EntryPoint[op] \in {"claim", "remove", "check", "lookup", "hide", "resolve"}
    BY DEF EntryPoint, Ops, Lifecycle
  <2>. QED BY <2>1, <2>2, <2>3 DEF Accept, At, host, tables
<1>2. ASSUME NEW w \in WorkspaceIds, w \notin raced' PROVE Alone(w)'
  <2>1. Alone(w)
    BY <1>0, <1>1, <1>2 DEF Serials
  <2>2. CASE w # id
    BY <1>1, <2>1, <2>2 DEF Alone
  <2>3. CASE w = id
    <3>1. \A u \in Tasks \ {t} : task[u].id = id => op \notin Lifecycle /\ task[u].op \notin Lifecycle
      BY <1>1, <1>2, <2>3 DEF Overlaps, Id
    <3>. QED BY <1>1, <2>1, <2>3, <3>1 DEF Alone
  <2>. QED BY <2>2, <2>3
<1>3. ASSUME NEW w \in WorkspaceIds, w \notin raced' \cup lost' PROVE Serial(w)'
  <2>1. Serial(w) /\ (Agree(w)' <=> Agree(w))
    BY <1>0, <1>1, <1>3 DEF Serials, Agree
  <2>2. \A u \in Tasks : task'[u].id = w => Knows(u, w)'
    BY <1>1, <2>1 DEF Serial, Knows, Ending
  <2>3. \A u \in Tasks : task[u].id = w /\ task[u].pc \in Settling =>
                             task'[u].id = w /\ task'[u].pc \in Settling
    BY <1>1 DEF Settling, Ending
  <2>. QED BY <2>1, <2>2, <2>3 DEF Serial
<1>. QED BY <1>0, <1>1, <1>2, <1>3 DEF Serials, Devices

\* SerialInv is inductive.
LEMMA SerialStep == SerialInv /\ [Next]_vars => SerialInv'
<1>. SUFFICES ASSUME SerialInv, [Next]_vars PROVE SerialInv'
  OBVIOUS
<1>1. SlotInv'
  BY SlotStep DEF SerialInv
<1>2. CASE UNCHANGED vars
  <2>1. UNCHANGED <<free, leaked, charged, netns, veth, instances, claims, routes, ports, rings, task,
                    raced, strayed, lost>>
    BY <1>2 DEF vars, host, tables, history
  <2>2. Devices'
    BY <2>1 DEF SerialInv, Devices
  <2>3. Serials'
    BY <2>1 DEF SerialInv, Serials, Serial, Alone, Agree, Knows
  <2>. QED BY <1>1, <2>2, <2>3 DEF SerialInv
<1>3. ASSUME NEW t \in Tasks, NEW op \in Ops, NEW id \in WorkspaceIds, Accept(t, op, id)
      PROVE  Devices' /\ Serials'
  BY <1>3, AcceptSerial
<1>4. ASSUME NEW t \in Tasks, CreateStep(t) \/ TermStep(t) \/ AttestCheck(t) \/ AttestRing(t) \/ IngressStep(t)
      PROVE  Devices' /\ Serials'
  <2>1. task[t].pc \notin {"idle", "done"}
    BY <1>4, Zenon DEF CreateStep, TermStep, IngressStep, CreateClaim, CreateReserve, CreateAlloc, SetupNetns,
       SetupLinks, CreateLaunch, CreateUpsert, CreateTeardownNetns, CreateTeardownRelease, CreateFinish,
       TermRemove, TermReap, TermNetns, TermRelease, TermUnroute, TermUnring, AttestCheck, AttestRing,
       ExposeLookup, ExposePort, UnexposePort, RequestResolve, RequestDenied, RequestConnect, At
  <2>2. PICK w \in WorkspaceIds : task[t].id = w
    BY <2>1 DEF SerialInv, SlotInv, Stages
  <2>3. CreateStep(t) \/ TermStep(t) => task[t].op \in Lifecycle
    <3>1. CreateStep(t) => task[t].pc \in CreatePC
      BY DEF CreateStep, CreateClaim, CreateReserve, CreateAlloc, SetupNetns, SetupLinks, CreateLaunch,
             CreateUpsert, CreateTeardownNetns, CreateTeardownRelease, CreateFinish, At, CreatePC, Claimed,
             Unregistered, Building
    <3>2. TermStep(t) => task[t].pc \in TermPC
      BY DEF TermStep, TermRemove, TermReap, TermNetns, TermRelease, TermUnroute, TermUnring, At, TermPC,
             Ending
    <3>. QED BY <3>1, <3>2 DEF SerialInv, SlotInv, Stages, Lifecycle
  <2>. QED BY <1>4, <2>2, <2>3, CreateSerial, TermSerial, LifecycleSerial, UseSerial
<1>. QED BY <1>1, <1>2, <1>3, <1>4 DEF Next, Quiet, SerialInv

\* At the start no id has anything.
LEMMA SerialInit == Init => SerialInv
<1>. SUFFICES ASSUME Init PROVE SerialInv
  OBVIOUS
<1>1. Devices
  BY NetworkConstants DEF Init, Devices
<1>2. \A w \in WorkspaceIds : \A t \in Tasks : task[t].id # w
  BY NetworkConstants DEF Init
<1>3. \A w \in WorkspaceIds : Serial(w) /\ Alone(w)
  BY <1>2 DEF Init, Serial, Alone, Agree
<1>. QED BY <1>1, <1>3, SlotInit DEF SerialInv, Serials, Init

\* What a single request on an id knows, in every reachable state (create_inner,
\* terminate_inner, the attestation and ingress handlers).
THEOREM SerialInvariant == Spec => []SerialInv
<1>. QED BY SerialInit, SerialStep, PTL DEF Spec

\* As long as requests on an id do not overlap its create or terminate, a registered
\* workspace has its own netns, veth and route, and an unregistered id no route, port
\* or nonce ring, whatever setup failures, teardowns and requests of other ids do.
THEOREM SerialIdsStayConsistent == Spec => []SerialIdsConsistent
<1>1. SerialInv => SerialIdsConsistent
  BY DEF SerialInv, Serials, Serial, Agree, SerialIdsConsistent, Busy, Id
<1>. QED BY <1>1, SerialInvariant, PTL

\* proxy connects a request to the guest of another workspace only for an id with a
\* raced create or terminate or an unconfirmed exit, although the target was resolved
\* before the connection and slots are reused at once.
THEOREM RequestsReachOwnGuestAlways == Spec => []RequestsReachOwnGuest
<1>1. SerialInv => RequestsReachOwnGuest
  BY DEF SerialInv, Serials, RequestsReachOwnGuest
<1>. QED BY <1>1, SerialInvariant, PTL
=============================================================================
