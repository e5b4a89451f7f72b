----------------------------- MODULE WarmPoolProofs -----------------------------
(***************************************************************************)
(* The warm pool implements the capacity ledger's specification, every     *)
(* warm VM has one owner and is counted, no slot is lost or given twice,   *)
(* and the shutdown leaves no warm VM, for every target, number of         *)
(* overlapping refills and set of tiered creates.                          *)
(*                                                                         *)
(* The invariant follows the two pool guards: the reservation is its       *)
(* permit's from reserve_provisions to the permit's drop or to             *)
(* ready_in_place; the ready guard belongs to the provision about to stow  *)
(* the member, to the queue, to the create that popped it or to the drain, *)
(* and to one of them only.  A second invariant counts: the slots against  *)
(* the permits, the tracker against the tasks that run, and says what can  *)
(* still happen once the tracker is closed.                                *)
(***************************************************************************)
EXTENDS WarmPool, CapacityLedgerProofs

\* The time each leaf may take: SMT first, then Zenon.
USE SMTT(20), ZenonT(20)

\* The stages of a provision at which its permit owns a reservation, and those
\* at which no process of it runs.
Permits == {"queued", "boot", "reject", "drop", "uncharge", "refused", "unqueue"}
Quiescent == {"queued", "drop", "uncharge", "refused", "unqueue"}

CreatorRec ==
    [pc : {"idle", "pop", "probe", "miss", "unadopt", "fallback", "unboot", "end", "done"},
     member : PoolIds \cup {None}]

RefillRec == [pc : {"idle", "reserve", "spawn"}, todo : SUBSET PoolIds]
DownRec == [pc : {"up", "wait", "reap", "down"}, todo : SUBSET PoolIds]

Types ==
    /\ members \in Seq(PoolIds)
    /\ in_flight \in Int
    /\ prov \in [PoolIds -> ProvStage]
    /\ pvm \in [PoolIds -> VmStatus]
    /\ creator \in [WorkspaceIds -> CreatorRec]
    /\ refill \in [Refills -> RefillRec]
    /\ down \in DownRec

Unrepeated == \A i, j \in 1 .. Len(members) : members[i] = members[j] => i = j

\* Pool members that wait in the queue or to be drained.
Stowed == Queue \cup down.todo

PermitGuards ==
    \A p \in PoolIds :
        /\ prov[p] \in Permits => Holds("PoolReservation", p)
        /\ prov[p] \in Quiescent => pvm[p] # "Running"
        /\ pvm[p] = "Running" => Holds("PoolReservation", p) \/ Holds("Ready", p)

MemberGuards ==
    /\ Unrepeated
    /\ Queue \cap down.todo = {}
    /\ \A p \in Stowed : Holds("Ready", p)
    /\ \A p \in PoolIds : prov[p] = "push" => Holds("Ready", p) /\ p \notin Stowed

CreatorGuards ==
    \A c \in WorkspaceIds :
        /\ creator[c].pc \in {"fallback", "unboot"} => Holds("Reservation", c)
        /\ creator[c].pc \in {"probe", "unadopt"} <=> Held(c) # None
        /\ Held(c) # None =>
              /\ Holds("Ready", Held(c))
              /\ Held(c) \notin Stowed /\ prov[Held(c)] # "push"
              /\ \A d \in WorkspaceIds \ {c} : Held(d) # Held(c)

Owners == Types /\ PermitGuards /\ MemberGuards /\ CreatorGuards
PoolInv == LedgerInv /\ Owners

\* The invariant is kept, and the step is one of the ledger's specification.
Implements == PoolInv' /\ [LedgerNext]_ledger

\* A pool id without an entry has no guard.
LEMMA GuardMeansEntry ==
    ASSUME LedgerInv, NEW p \in PoolIds, pool_entries[p] = "Absent"
    PROVE  ~Holds("PoolReservation", p) /\ ~Holds("Ready", p)
BY DEF LedgerInv, GuardsOwnEntries, Owned, Holds

\* Neither has a pool id both guards.
LEMMA OneKindOfGuard ==
    ASSUME LedgerInv, NEW p \in PoolIds
    PROVE  ~(Holds("PoolReservation", p) /\ Holds("Ready", p))
BY DEF LedgerInv, GuardsOwnEntries, Owned, Holds

\* reserve_pool_batch grants no more for a request beyond the ceiling.
LEMMA BatchIsLedgerStep ==
    ASSUME LedgerInv, NEW n \in Nat, NEW got \in SUBSET PoolIds, ReservePoolBatch(n, got)
    PROVE  LedgerNext
<1>1. CASE n <= Ceiling
  <2>1. n \in 0 .. (Ceiling + 1)
    BY <1>1, LedgerConstants
  <2>. QED BY <2>1 DEF LedgerNext
<1>2. CASE n > Ceiling
  <2>1. BatchSize(n) = BatchSize(Ceiling + 1)
    BY <1>2, HeldFinite, LedgerConstants DEF BatchSize
  <2>2. ReservePoolBatch(Ceiling + 1, got)
    BY <2>1 DEF ReservePoolBatch
  <2>3. Ceiling + 1 \in 0 .. (Ceiling + 1)
    BY LedgerConstants
  <2>. QED BY <2>2, <2>3 DEF LedgerNext
<1>. QED BY <1>1, <1>2, LedgerConstants

\* What stowing a member does to the queue.
LEMMA AppendQueue ==
    ASSUME members \in Seq(PoolIds), Unrepeated, NEW p \in PoolIds \ Queue,
           members' = Append(members, p)
    PROVE  members' \in Seq(PoolIds) /\ Queue' = Queue \cup {p} /\ Unrepeated'
<1>1. /\ members' \in Seq(PoolIds) /\ Len(members') = Len(members) + 1 /\ Len(members) \in Nat
      /\ \A i \in 1 .. Len(members) : members'[i] = members[i]
      /\ members'[Len(members) + 1] = p
  OBVIOUS
<1>2. 1 .. Len(members') = (1 .. Len(members)) \cup {Len(members) + 1}
  BY <1>1
<1>3. Queue' = Queue \cup {p}
  BY <1>1, <1>2 DEF Queue
<1>4. \A i \in 1 .. Len(members) : members[i] # p
  BY DEF Queue
<1>. QED BY <1>1, <1>2, <1>3, <1>4 DEF Unrepeated

\* What popping one does.
LEMMA TailQueue ==
    ASSUME members \in Seq(PoolIds), Unrepeated, members # <<>>, members' = Tail(members)
    PROVE  /\ members' \in Seq(PoolIds) /\ Unrepeated' /\ Head(members) \in Queue
           /\ Queue' = Queue \ {Head(members)} /\ Head(members) \in PoolIds
<1>1. /\ members' \in Seq(PoolIds) /\ Len(members') = Len(members) - 1
      /\ Len(members) \in Nat \ {0}
      /\ \A i \in 1 .. Len(members') : members'[i] = members[i + 1]
      /\ Head(members) = members[1] /\ Head(members) \in PoolIds
  OBVIOUS
<1>2. Unrepeated'
  BY <1>1 DEF Unrepeated
<1>3. Head(members) \in Queue
  BY <1>1 DEF Queue
<1>4. ASSUME NEW q \in Queue', q \notin Queue \ {Head(members)} PROVE FALSE
  <2>1. PICK i \in 1 .. Len(members') : q = members'[i]
    BY <1>4 DEF Queue
  <2>2. i + 1 \in 1 .. Len(members) /\ 1 \in 1 .. Len(members) /\ i + 1 # 1
    BY <1>1
  <2>. QED BY <1>1, <1>4, <2>1, <2>2 DEF Unrepeated, Queue
<1>5. ASSUME NEW q \in Queue, q # Head(members) PROVE q \in Queue'
  <2>1. PICK i \in 1 .. Len(members) : q = members[i]
    BY DEF Queue
  <2>2. i - 1 \in 1 .. Len(members') /\ members'[i - 1] = q
    BY <1>1, <1>5, <2>1
  <2>. QED BY <2>2, Zenon DEF Queue
<1>. QED BY <1>1, <1>2, <1>3, <1>4, <1>5

\* A step that keeps the owners and uses the ledger as it may, implements it.
LEMMA Conclude ==
    ASSUME PoolInv, Owners', [LedgerNext]_ledger
    PROVE  Implements
BY LedgerStepInv DEF Implements, PoolInv

\* Faulting the ledger is a step anyone may take, and moves no guard.
LEMMA Faults ==
    ASSUME UNCHANGED ledger \/ FaultLedger
    PROVE  [LedgerNext]_ledger /\ guards' = guards
BY DEF LedgerNext, FaultLedger, ledger

\* Steps of the tracker, of the loop and of the shutdown task.
LEMMA NeutralSteps ==
    ASSUME PoolInv,
           \/ \E r \in Refills : LoopTick(r) \/ RefillEnd(r)
           \/ LoopExit \/ Close \/ DrainEnd \/ UNCHANGED vars
    PROVE  Implements
<1>1. /\ UNCHANGED ledger /\ UNCHANGED <<members, in_flight, prov, pvm, creator>>
      /\ down' \in DownRec /\ down'.todo = down.todo
      /\ refill' \in [Refills -> RefillRec]
  <2>0. down \in DownRec /\ refill \in [Refills -> RefillRec]
    BY DEF PoolInv, Owners, Types
  <2>1. ASSUME NEW r \in Refills, LoopTick(r) \/ RefillEnd(r)
        PROVE  /\ UNCHANGED ledger /\ UNCHANGED <<members, in_flight, prov, pvm, creator, down>>
               /\ refill' \in [Refills -> RefillRec]
    BY <2>0, <2>1 DEF LoopTick, RefillEnd, pool, RefillRec
  <2>2. CASE LoopExit \/ UNCHANGED vars
    BY <2>0, <2>2 DEF LoopExit, vars, pool
  <2>3. CASE Close \/ DrainEnd
    BY <2>0, <2>3 DEF Close, DrainEnd, pool, DownRec
  <2>. QED BY <2>0, <2>1, <2>2, <2>3
<1>2. guards' = guards
  BY <1>1 DEF ledger
<1>3. Owners'
  BY <1>1, <1>2 DEF PoolInv, Owners, Types, PermitGuards, MemberGuards, CreatorGuards, Unrepeated,
                    Stowed, Queue, Held, Holds
<1>. QED BY <1>1, <1>3, Conclude

\* A provision moves on with the guard it has, or without it.
LEMMA ProvisionMoves ==
    ASSUME PoolInv, NEW p \in PoolIds, NEW stage \in ProvStage \ {"push"},
           NEW status \in VmStatus,
           SetProv(p, stage), pvm' = pvm \/ SetVm(p, status), guards' = guards,
           UNCHANGED <<members, creator, down, refill>>, in_flight' \in Int,
           stage \in Permits => prov[p] \in Permits,
           stage \in Quiescent => pvm'[p] # "Running",
           pvm'[p] = "Running" => Holds("PoolReservation", p) \/ Holds("Ready", p)
    PROVE  Owners'
<1>1. /\ prov' \in [PoolIds -> ProvStage] /\ prov'[p] = stage
      /\ \A q \in PoolIds \ {p} : prov'[q] = prov[q] /\ pvm'[q] = pvm[q]
      /\ pvm' \in [PoolIds -> VmStatus]
  BY DEF PoolInv, Owners, Types, SetProv, SetVm
<1>2. Types'
  BY <1>1 DEF PoolInv, Owners, Types
<1>3. PermitGuards'
  BY <1>1, Zenon DEF PoolInv, Owners, PermitGuards, Holds
<1>4. MemberGuards' /\ CreatorGuards'
  <2>1. \A q \in PoolIds : prov'[q] = "push" => prov[q] = "push"
    BY <1>1
  <2>2. Stowed' = Stowed /\ Queue' = Queue /\ (\A c \in WorkspaceIds : Held(c)' = Held(c))
    BY DEF Stowed, Queue, Held
  <2>3. \A c \in WorkspaceIds : Held(c) # None => Held(c) \in PoolIds
    BY DEF PoolInv, Owners, Types, CreatorRec, Held
  <2>4. MemberGuards'
    BY <2>1, <2>2 DEF PoolInv, Owners, MemberGuards, Unrepeated, Holds
  <2>5. CreatorGuards'
    <3>. SUFFICES ASSUME NEW c \in WorkspaceIds, Held(c) # None
                  PROVE  prov'[Held(c)] # "push"
      BY <2>2, Zenon DEF PoolInv, Owners, CreatorGuards, Holds, Held
    <3>. QED BY <2>1, <2>3 DEF PoolInv, Owners, CreatorGuards
  <2>. QED BY <2>4, <2>5
<1>. QED BY <1>2, <1>3, <1>4 DEF Owners

\* The steps of a provision that move no guard.
LEMMA ProvisionPlainSteps ==
    ASSUME PoolInv, NEW p \in PoolIds,
           ProvisionFail(p) \/ ProvisionRelease(p) \/ ProvisionReject(p) \/ PermitDrop(p)
    PROVE  Implements
<1>. USE DEF Permits, Quiescent, ProvStage, VmStatus, EndOperation
<1>0. /\ in_flight \in Int /\ prov \in [PoolIds -> ProvStage] /\ pvm \in [PoolIds -> VmStatus]
      /\ prov[p] \in Permits => Holds("PoolReservation", p)
      /\ prov[p] \in Quiescent => pvm[p] # "Running"
      /\ pvm[p] = "Running" => Holds("PoolReservation", p) \/ Holds("Ready", p)
  BY DEF PoolInv, Owners, Types, PermitGuards
<1>1. UNCHANGED ledger \/ FaultLedger
  BY DEF ProvisionFail, ProvisionRelease, ProvisionReject, PermitDrop
<1>2. [LedgerNext]_ledger /\ guards' = guards
  BY <1>1, Faults
<1>3. CASE ProvisionFail(p)
  <2>1. PICK status \in {"Dead", "Lost"} : SetVm(p, status)
    BY <1>3 DEF ProvisionFail
  <2>2. pvm'[p] # "Running"
    BY <1>0, <2>1 DEF SetVm
  <2>3. Owners'
    BY <1>0, <1>2, <1>3, <2>1, <2>2, ProvisionMoves DEF ProvisionFail
  <2>. QED BY <1>2, <2>3, Conclude
<1>4. CASE ProvisionRelease(p)
  <2>1. Owners'
    BY <1>0, <1>2, <1>4, ProvisionMoves DEF ProvisionRelease
  <2>. QED BY <1>2, <2>1, Conclude
<1>5. CASE ProvisionReject(p)
  <2>1. PICK status \in {"Dead", "Lost"}, stage \in {"drop", "done"} :
           SetVm(p, status) /\ SetProv(p, stage)
    BY <1>5 DEF ProvisionReject
  <2>2. pvm'[p] # "Running"
    BY <1>0, <2>1 DEF SetVm
  <2>3. Owners'
    BY <1>0, <1>2, <1>5, <2>1, <2>2, ProvisionMoves DEF ProvisionReject
  <2>. QED BY <1>2, <2>3, Conclude
<1>6. CASE PermitDrop(p)
  <2>1. PICK stage \in {"uncharge", "unqueue"} : SetProv(p, stage)
    BY <1>6, Zenon DEF PermitDrop, SetProv
  <2>2. Owners'
    BY <1>0, <1>2, <1>6, <2>1, ProvisionMoves DEF PermitDrop
  <2>. QED BY <1>2, <2>2, Conclude
<1>. QED BY <1>3, <1>4, <1>5, <1>6

\* A permit becomes a provision task, or is dropped by a closed tracker.
LEMMA RefillSpawnStep ==
    ASSUME PoolInv, NEW r \in Refills, RefillSpawn(r)
    PROVE  Implements
<1>1. PICK p \in PoolIds :
         /\ prov[p] = "queued"
         /\ \/ SetProv(p, "boot") /\ SetVm(p, "Running")
            \/ SetProv(p, "refused") /\ UNCHANGED pvm
  BY DEF RefillSpawn, PoolInv, Owners, Types, RefillRec
<1>2. /\ Holds("PoolReservation", p) /\ pvm[p] # "Running" /\ in_flight' \in Int
      /\ UNCHANGED <<members, creator, down, refill>> /\ UNCHANGED ledger
  BY <1>1 DEF PoolInv, Owners, Types, PermitGuards, Permits, Quiescent, RefillSpawn
<1>3. [LedgerNext]_ledger /\ guards' = guards
  BY <1>2, Faults
<1>4. Owners'
  <2>1. CASE SetProv(p, "boot") /\ SetVm(p, "Running")
    BY <1>1, <1>2, <1>3, <2>1, ProvisionMoves DEF Permits, Quiescent, ProvStage, VmStatus
  <2>2. CASE SetProv(p, "refused") /\ UNCHANGED pvm
    BY <1>1, <1>2, <1>3, <2>2, ProvisionMoves DEF Permits, Quiescent, ProvStage, VmStatus
  <2>. QED BY <1>1, <2>1, <2>2
<1>. QED BY <1>3, <1>4, Conclude

\* ready_in_place turns the permit's reservation into the ready guard of a member
\* that nobody else knows yet.
LEMMA ProvisionCompleteStep ==
    ASSUME PoolInv, NEW p \in PoolIds, ProvisionComplete(p)
    PROVE  Implements
<1>0. /\ prov[p] = "boot" /\ Holds("PoolReservation", p) /\ ~Holds("Ready", p)
      /\ UNCHANGED <<members, in_flight, pvm, creator, down, refill>> /\ in_flight' \in Int
      /\ prov \in [PoolIds -> ProvStage]
  BY OneKindOfGuard DEF ProvisionComplete, PoolInv, Owners, Types, PermitGuards, Permits
<1>1. CASE SetProv(p, "reject") /\ UNCHANGED ledger
  <2>1. [LedgerNext]_ledger /\ guards' = guards
    BY <1>1, Faults
  <2>2. Owners'
    BY <1>0, <1>1, <2>1, ProvisionMoves DEF Permits, Quiescent, ProvStage, VmStatus
  <2>. QED BY <2>1, <2>2, Conclude
<1>2. ASSUME NEW ok \in BOOLEAN, ReadyInPlace(p, ok), SetProv(p, IF ok THEN "push" ELSE "reject")
      PROVE  Implements
  <2>1. LedgerNext
    BY <1>0, <1>2 DEF LedgerNext
  <2>2. CASE ~ok
    <3>1. guards' = guards /\ SetProv(p, "reject")
      BY <1>2, <2>2 DEF ReadyInPlace, Refuse, Overflow, FaultLedger, ledger
    <3>2. Owners'
      BY <1>0, <3>1, ProvisionMoves DEF Permits, Quiescent, ProvStage, VmStatus
    <3>. QED BY <2>1, <3>2, Conclude
  <2>3. CASE ok
    <3>1. guards' = (guards \ {<<"PoolReservation", p>>}) \cup {<<"Ready", p>>}
      BY <1>2, <2>3 DEF ReadyInPlace, Refuse, Overflow
    <3>2. /\ prov' \in [PoolIds -> ProvStage] /\ prov'[p] = "push"
          /\ \A q \in PoolIds \ {p} : prov'[q] = prov[q]
      BY <1>0, <1>2, <2>3 DEF SetProv, ProvStage
    <3>3. /\ p \notin Stowed /\ \A c \in WorkspaceIds : Held(c) # p
          /\ \A c \in WorkspaceIds : Held(c) # None => Held(c) \in PoolIds
      BY <1>0, PoolConstants DEF PoolInv, Owners, MemberGuards, CreatorGuards, Types, CreatorRec,
                                 Held
    <3>4. Types' /\ PermitGuards'
      BY <1>0, <3>1, <3>2 DEF PoolInv, Owners, Types, PermitGuards, Permits, Quiescent, Holds
    <3>5. Stowed' = Stowed /\ Queue' = Queue /\ (\A c \in WorkspaceIds : Held(c)' = Held(c))
      BY <1>0 DEF Stowed, Queue, Held
    <3>6. MemberGuards'
      BY <1>0, <3>1, <3>2, <3>3, <3>5 DEF PoolInv, Owners, MemberGuards, Unrepeated, Holds
    <3>7. CreatorGuards'
      <4>. SUFFICES ASSUME NEW c \in WorkspaceIds, Held(c) # None
                    PROVE  /\ Held(c) \notin Stowed' /\ prov'[Held(c)] # "push"
                           /\ <<"Ready", Held(c)>> \in guards'
        BY <1>0, <3>1, Zenon DEF PoolInv, Owners, CreatorGuards, Holds, Held
      <4>. QED BY <3>1, <3>2, <3>3, <3>5, Zenon DEF PoolInv, Owners, CreatorGuards, Holds
    <3>. QED BY <2>1, <3>4, <3>6, <3>7, Conclude DEF Owners
  <2>. QED BY <2>2, <2>3
<1>. QED BY <1>1, <1>2 DEF ProvisionComplete

\* complete_provision stows the member.
LEMMA ProvisionPushStep ==
    ASSUME PoolInv, NEW p \in PoolIds, ProvisionPush(p)
    PROVE  Implements
<1>0. /\ prov[p] = "push" /\ Holds("Ready", p) /\ p \notin Stowed
      /\ UNCHANGED <<in_flight, pvm, creator, down, refill>> /\ UNCHANGED ledger
      /\ members' = Append(members, p) /\ members \in Seq(PoolIds) /\ Unrepeated
  BY DEF ProvisionPush, PoolInv, Owners, Types, MemberGuards
<1>1. [LedgerNext]_ledger /\ guards' = guards
  BY <1>0, Faults
<1>2. members' \in Seq(PoolIds) /\ Queue' = Queue \cup {p} /\ Unrepeated'
  BY <1>0, AppendQueue DEF Stowed
<1>3. /\ prov' \in [PoolIds -> ProvStage] /\ prov'[p] = "release"
      /\ \A q \in PoolIds \ {p} : prov'[q] = prov[q]
  BY DEF ProvisionPush, SetProv, ProvStage, PoolInv, Owners, Types
<1>4. /\ Stowed' = Stowed \cup {p} /\ \A c \in WorkspaceIds : Held(c) # p
      /\ \A c \in WorkspaceIds : Held(c) # None => Held(c) \in PoolIds
  BY <1>0, <1>2, PoolConstants DEF Stowed, PoolInv, Owners, Types, CreatorGuards, CreatorRec, Held
<1>5. Types' /\ PermitGuards'
  BY <1>0, <1>1, <1>2, <1>3 DEF PoolInv, Owners, Types, PermitGuards, Permits, Quiescent, Holds
<1>6. MemberGuards'
  BY <1>0, <1>1, <1>2, <1>3, <1>4 DEF PoolInv, Owners, MemberGuards, Stowed, Holds
<1>7. CreatorGuards'
  <2>. SUFFICES ASSUME NEW c \in WorkspaceIds, Held(c) # None
                PROVE  Held(c) \notin Stowed' /\ prov'[Held(c)] # "push"
    BY <1>0, <1>1, Zenon DEF PoolInv, Owners, CreatorGuards, Holds, Held
  <2>. QED BY <1>3, <1>4 DEF PoolInv, Owners, CreatorGuards
<1>. QED BY <1>1, <1>5, <1>6, <1>7, Conclude DEF Owners

\* The permit's capacity field is dropped; no process runs under it.
LEMMA PermitUnchargeStep ==
    ASSUME PoolInv, NEW p \in PoolIds, PermitUncharge(p)
    PROVE  Implements
<1>0. /\ prov[p] \in Permits \cap Quiescent /\ Holds("PoolReservation", p)
      /\ pvm[p] # "Running" /\ guards' = guards \ {<<"PoolReservation", p>>}
      /\ UNCHANGED <<members, in_flight, pvm, creator, down, refill>>
  BY DEF PermitUncharge, ReleaseEntry, PoolInv, Owners, PermitGuards, Permits, Quiescent
<1>1. LedgerNext
  BY <1>0 DEF PermitUncharge, LedgerNext, Holds
<1>2. /\ prov' \in [PoolIds -> ProvStage] /\ prov'[p] = "done"
      /\ \A q \in PoolIds \ {p} : prov'[q] = prov[q]
  BY DEF PermitUncharge, SetProv, ProvStage, PoolInv, Owners, Types
<1>3. Types' /\ PermitGuards'
  BY <1>0, <1>2 DEF PoolInv, Owners, Types, PermitGuards, Permits, Quiescent, Holds
<1>4. MemberGuards'
  BY <1>0, <1>2 DEF PoolInv, Owners, MemberGuards, Stowed, Queue, Unrepeated, Holds
<1>5. CreatorGuards'
  <2>1. \A c \in WorkspaceIds : Held(c) # None => Held(c) \in PoolIds
    BY DEF PoolInv, Owners, Types, CreatorRec, Held
  <2>2. Stowed' = Stowed
    BY <1>0 DEF Stowed, Queue
  <2>3. \A q \in PoolIds : prov'[q] = "push" => prov[q] = "push"
    BY <1>2
  <2>. QED BY <1>0, <2>1, <2>2, <2>3, Zenon DEF PoolInv, Owners, CreatorGuards, Holds, Held
<1>. QED BY <1>1, <1>3, <1>4, <1>5, Conclude DEF Owners

\* A batch is granted on pool ids that no guard names.
LEMMA BatchIsFresh ==
    ASSUME LedgerInv, NEW n \in Nat, NEW got \in SUBSET PoolIds, ReservePoolBatch(n, got)
    PROVE  /\ guards' = guards \cup ({"PoolReservation"} \X got)
           /\ \A p \in got : ~Holds("PoolReservation", p) /\ ~Holds("Ready", p)
<1>1. CASE got = {} /\ (UNCHANGED ledger \/ FaultLedger)
  <2>1. guards' = guards
    BY <1>1, Faults
  <2>2. {"PoolReservation"} \X got = {}
    BY <1>1
  <2>. QED BY <1>1, <2>1, <2>2
<1>2. CASE ~(got = {} /\ (UNCHANGED ledger \/ FaultLedger))
  <2>. DEFINE count == BatchSize(n)
              fresh == next_pool_id .. (next_pool_id + count - 1)
  <2>1. got = fresh /\ guards' = guards \cup ({"PoolReservation"} \X fresh)
    BY <1>2 DEF ReservePoolBatch
  <2>2. next_pool_id \in Nat
    BY LedgerConstants DEF LedgerInv, LedgerTypeOK
  <2>3. \A p \in got : p \in PoolIds /\ p >= next_pool_id
    BY <2>1, <2>2 DEF PoolIds
  <2>4. \A p \in got : pool_entries[p] = "Absent"
    BY <2>3 DEF LedgerInv, PoolIdsFresh
  <2>. QED BY <2>1, <2>4, GuardMeansEntry
<1>. QED BY <1>1, <1>2

\* reserve_provisions.
LEMMA RefillReserveStep ==
    ASSUME PoolInv, NEW r \in Refills, RefillReserve(r)
    PROVE  Implements
<1>0. /\ UNCHANGED <<members, pvm, creator, down>> /\ members \in Seq(PoolIds)
      /\ in_flight \in Int /\ refill \in [Refills -> RefillRec]
  BY DEF RefillReserve, PoolInv, Owners, Types
<1>1. RefillDeficit(Len(members)) \in Nat
  <2>1. Len(members) \in Nat
    BY <1>0
  <2>. QED BY <1>0, <2>1, PoolConstants DEF RefillDeficit
<1>2. PICK got \in SUBSET PoolIds :
         /\ \/ ReservePoolBatch(RefillDeficit(Len(members)), got)
            \/ got = {} /\ UNCHANGED ledger
         /\ in_flight' = in_flight + Cardinality(got)
         /\ prov' = [p \in PoolIds |-> IF p \in got THEN "queued" ELSE prov[p]]
         /\ refill' = [refill EXCEPT ![r] = [pc |-> "spawn", todo |-> got]]
  BY Zenon DEF RefillReserve
<1>3. /\ [LedgerNext]_ledger /\ guards' = guards \cup ({"PoolReservation"} \X got)
      /\ \A p \in got : ~Holds("PoolReservation", p) /\ ~Holds("Ready", p)
  <2>1. CASE ReservePoolBatch(RefillDeficit(Len(members)), got)
    BY <1>1, <2>1, BatchIsLedgerStep, BatchIsFresh DEF PoolInv
  <2>2. CASE got = {} /\ UNCHANGED ledger
    <3>1. {"PoolReservation"} \X got = {}
      BY <2>2
    <3>. QED BY <2>2, <3>1 DEF ledger
  <2>. QED BY <1>2, <2>1, <2>2
<1>4. in_flight' \in Int
  <2>1. IsFiniteSet(PoolIds)
    BY FS_Interval, LedgerConstants DEF PoolIds
  <2>2. Cardinality(got) \in Nat
    BY <2>1, FS_Subset, FS_CardinalityType
  <2>. QED BY <1>0, <1>2, <2>2
<1>5. refill' \in [Refills -> RefillRec] /\ prov' \in [PoolIds -> ProvStage]
  BY <1>0, <1>2 DEF RefillRec, PoolInv, Owners, Types, ProvStage
<1>6. Types'
  BY <1>0, <1>4, <1>5 DEF PoolInv, Owners, Types
<1>7. PermitGuards'
  <2>. SUFFICES ASSUME NEW p \in PoolIds
                PROVE  /\ prov'[p] \in Permits => <<"PoolReservation", p>> \in guards'
                       /\ prov'[p] \in Quiescent => pvm[p] # "Running"
                       /\ pvm[p] = "Running" =>
                             <<"PoolReservation", p>> \in guards' \/ <<"Ready", p>> \in guards'
    BY <1>0, Zenon DEF PermitGuards, Holds
  <2>1. CASE p \in got
    BY <1>2, <1>3, <2>1 DEF PoolInv, Owners, PermitGuards, Holds
  <2>2. CASE p \notin got
    BY <1>2, <1>3, <2>2 DEF PoolInv, Owners, PermitGuards, Holds
  <2>. QED BY <2>1, <2>2
<1>8. \A q \in PoolIds : prov'[q] = "push" => prov[q] = "push"
  BY <1>2
<1>9. MemberGuards'
  BY <1>0, <1>3, <1>8 DEF PoolInv, Owners, MemberGuards, Stowed, Queue, Unrepeated, Holds
<1>10. CreatorGuards'
  <2>1. \A c \in WorkspaceIds : Held(c) # None => Held(c) \in PoolIds
    BY DEF PoolInv, Owners, Types, CreatorRec, Held
  <2>2. Stowed' = Stowed
    BY <1>0 DEF Stowed, Queue
  <2>3. \A g \in guards : g \in guards'
    BY <1>3
  <2>. QED BY <1>0, <1>8, <2>1, <2>2, <2>3, Zenon DEF PoolInv, Owners, CreatorGuards, Holds, Held
<1>. QED BY <1>3, <1>6, <1>7, <1>9, <1>10, Conclude DEF Owners

\* A create moves to a step at which it holds no member.
LEMMA CreateMoves ==
    ASSUME PoolInv, NEW c \in WorkspaceIds, NEW r \in CreatorRec,
           creator' = [creator EXCEPT ![c] = r], r.member = None,
           r.pc \notin {"probe", "unadopt"},
           r.pc \in {"fallback", "unboot"} => <<"Reservation", c>> \in guards',
           UNCHANGED <<members, in_flight, prov, down, refill>>, pvm' \in [PoolIds -> VmStatus],
           \A d \in WorkspaceIds \ {c} :
               <<"Reservation", d>> \in guards => <<"Reservation", d>> \in guards',
           \A p \in PoolIds :
               /\ <<"PoolReservation", p>> \in guards => <<"PoolReservation", p>> \in guards'
               /\ <<"Ready", p>> \in guards /\ p # Held(c) => <<"Ready", p>> \in guards'
               /\ pvm'[p] = "Running" => pvm[p] = "Running" /\ p # Held(c)
    PROVE  Owners'
<1>1. /\ creator' \in [WorkspaceIds -> CreatorRec] /\ creator'[c] = r
      /\ \A d \in WorkspaceIds \ {c} : creator'[d] = creator[d]
  BY DEF PoolInv, Owners, Types
<1>2. Types'
  BY <1>1 DEF PoolInv, Owners, Types
<1>3. PermitGuards'
  BY Zenon DEF PoolInv, Owners, PermitGuards, Holds, Permits, Quiescent
<1>4. Stowed' = Stowed /\ Queue' = Queue
  BY DEF Stowed, Queue
<1>5. /\ Stowed \subseteq PoolIds /\ Held(c) \notin Stowed
      /\ \A p \in PoolIds : prov[p] = "push" => p # Held(c)
  <2>1. Queue \subseteq PoolIds
    BY DEF Queue, PoolInv, Owners, Types
  <2>2. down.todo \subseteq PoolIds /\ None \notin PoolIds
    BY PoolConstants DEF PoolInv, Owners, Types, DownRec
  <2>. QED BY <2>1, <2>2 DEF PoolInv, Owners, CreatorGuards, Stowed
<1>6. MemberGuards'
  BY <1>4, <1>5, Zenon DEF PoolInv, Owners, MemberGuards, Unrepeated, Holds
<1>7. CreatorGuards'
  <2>. SUFFICES ASSUME NEW d \in WorkspaceIds
                PROVE  /\ creator'[d].pc \in {"fallback", "unboot"} => <<"Reservation", d>> \in guards'
                       /\ creator'[d].pc \in {"probe", "unadopt"} <=> creator'[d].member # None
                       /\ creator'[d].member # None =>
                             /\ <<"Ready", creator'[d].member>> \in guards'
                             /\ creator'[d].member \notin Stowed /\ prov[creator'[d].member] # "push"
                             /\ \A e \in WorkspaceIds \ {d} : creator'[e].member # creator'[d].member
    BY <1>4, Zenon DEF CreatorGuards, Holds, Held
  <2>1. CASE d = c
    BY <1>1, <2>1
  <2>2. CASE d # c
    <3>1. creator[d].member # None => creator[d].member \in PoolIds
      BY DEF PoolInv, Owners, Types, CreatorRec
    <3>2. /\ creator[d].pc \in {"fallback", "unboot"} => <<"Reservation", d>> \in guards
          /\ creator[d].pc \in {"probe", "unadopt"} <=> creator[d].member # None
          /\ creator[d].member # None =>
                /\ <<"Ready", creator[d].member>> \in guards
                /\ creator[d].member \notin Stowed /\ prov[creator[d].member] # "push"
                /\ \A e \in WorkspaceIds \ {d} : creator[e].member # creator[d].member
      BY DEF PoolInv, Owners, CreatorGuards, Holds, Held
    <3>3. creator'[d] = creator[d] /\ (creator[d].member # None => creator[d].member # Held(c))
      BY <1>1, <2>2, <3>2 DEF Held
    <3>. QED BY <1>1, <2>2, <3>1, <3>2, <3>3, Zenon
  <2>. QED BY <2>1, <2>2
<1>. QED BY <1>2, <1>3, <1>6, <1>7 DEF Owners

\* A create that holds no member goes on to another step.
LEMMA CreateGoesOn ==
    ASSUME PoolInv, NEW c \in WorkspaceIds, Held(c) = None,
           NEW pc \in {"pop", "miss", "fallback", "unboot", "end", "done"},
           Goto(c, pc), UNCHANGED <<members, in_flight, prov, pvm, down, refill>>,
           pc \in {"fallback", "unboot"} => <<"Reservation", c>> \in guards',
           \A d \in WorkspaceIds \ {c} :
               <<"Reservation", d>> \in guards => <<"Reservation", d>> \in guards',
           \A p \in PoolIds, k \in {"PoolReservation", "Ready"} :
               <<k, p>> \in guards => <<k, p>> \in guards'
    PROVE  Owners'
<1>. DEFINE r == [creator[c] EXCEPT !.pc = pc]
<1>1. r \in CreatorRec /\ r.pc = pc /\ r.member = None
  BY DEF PoolInv, Owners, Types, CreatorRec, Held
<1>2. creator' = [creator EXCEPT ![c] = r]
  BY DEF Goto
<1>. HIDE DEF r
<1>3. pvm' \in [PoolIds -> VmStatus] /\ None \notin PoolIds
  BY PoolConstants DEF PoolInv, Owners, Types
<1>. QED BY <1>1, <1>2, <1>3, CreateMoves, Zenon

\* Steps of a create before it has a member, and after it has given one up.
LEMMA CreatePlainSteps ==
    ASSUME PoolInv, NEW c \in WorkspaceIds,
           CreateStart(c) \/ CreateEnd(c) \/ (CreatePop(c) /\ members = <<>>)
    PROVE  Implements
<1>0. Held(c) = None
  BY DEF PoolInv, Owners, CreatorGuards, CreateStart, CreateEnd, CreatePop
<1>1. /\ UNCHANGED <<members, in_flight, prov, pvm, down, refill>> /\ UNCHANGED ledger
      /\ \E pc \in {"pop", "miss", "done"} : Goto(c, pc)
  <2>1. CASE CreateEnd(c)
    <3>1. [creator[c] EXCEPT !.pc = "done"] = [Idle EXCEPT !.pc = "done"]
      BY <1>0 DEF PoolInv, Owners, Types, CreatorRec, Held, Idle
    <3>2. Goto(c, "done")
      BY <2>1, <3>1, Zenon DEF CreateEnd, Goto
    <3>. QED BY <2>1, <3>2 DEF CreateEnd, pool
  <2>2. CASE CreateStart(c)
    BY <2>2 DEF CreateStart, pool
  <2>3. CASE CreatePop(c) /\ members = <<>>
    BY <2>3 DEF CreatePop
  <2>. QED BY <2>1, <2>2, <2>3
<1>2. [LedgerNext]_ledger /\ guards' = guards
  BY <1>1, Faults
<1>3. Owners'
  BY <1>0, <1>1, <1>2, CreateGoesOn
<1>. QED BY <1>2, <1>3, Conclude

\* The synchronous fallback owns the reservation of its own id.
LEMMA CreateFallbackSteps ==
    ASSUME PoolInv, NEW c \in WorkspaceIds, CreateMiss(c) \/ CreateFallback(c) \/ CreateUnboot(c)
    PROVE  Implements
<1>0. /\ Held(c) = None /\ UNCHANGED <<members, in_flight, prov, pvm, down, refill>>
      /\ "Running" \in WorkspaceState
  BY DEF PoolInv, Owners, CreatorGuards, CreateMiss, CreateFallback, CreateUnboot, pool,
         WorkspaceState
<1>1. creator[c].pc \in {"fallback", "unboot"} => Holds("Reservation", c)
  BY DEF PoolInv, Owners, CreatorGuards
<1>2. ASSUME NEW pc \in {"fallback", "unboot", "end"}, Goto(c, pc), [LedgerNext]_ledger,
             pc # "end" => <<"Reservation", c>> \in guards',
             \A g \in guards : g = <<"Reservation", c>> \/ g \in guards'
      PROVE  Implements
  <2>1. Owners'
    BY <1>0, <1>2, CreateGoesOn, Zenon
  <2>. QED BY <1>2, <2>1, Conclude
<1>3. CASE CreateMiss(c)
  <2>1. CASE Goto(c, "end") /\ UNCHANGED ledger
    BY <1>2, <2>1, Faults
  <2>2. ASSUME NEW ok \in BOOLEAN, ReserveWorkspace(c, ok), Goto(c, IF ok THEN "fallback" ELSE "end")
        PROVE  Implements
    <3>1. LedgerNext
      BY <2>2 DEF LedgerNext
    <3>2. /\ \A g \in guards : g \in guards'
          /\ ok => <<"Reservation", c>> \in guards'
      BY <2>2 DEF ReserveWorkspace, Refuse, Overflow, FaultLedger, ledger
    <3>3. (ok /\ Goto(c, "fallback")) \/ (~ok /\ Goto(c, "end"))
      BY <2>2
    <3>. QED BY <1>2, <3>1, <3>2, <3>3
  <2>. QED BY <1>3, <2>1, <2>2 DEF CreateMiss
<1>4. ASSUME Goto(c, "end"), Holds("Reservation", c), ReleaseEntry(<<"Reservation", c>>)
      PROVE  Implements
  <2>1. LedgerNext /\ \A g \in guards : g = <<"Reservation", c>> \/ g \in guards'
    BY <1>4 DEF LedgerNext, Holds, ReleaseEntry
  <2>. QED BY <1>2, <1>4, <2>1
<1>5. ASSUME Goto(c, "end"), FaultLedger PROVE Implements
  BY <1>2, <1>5, Faults
<1>6. CASE CreateFallback(c)
  <2>1. ASSUME NEW ok \in BOOLEAN, Register(c, "Running", ok), Goto(c, IF ok THEN "end" ELSE "unboot")
        PROVE  Implements
    <3>0. Holds("Reservation", c)
      BY <1>1, <1>6 DEF CreateFallback
    <3>1. LedgerNext
      BY <1>0, <2>1, <3>0 DEF LedgerNext
    <3>2. /\ \A g \in guards : g = <<"Reservation", c>> \/ g \in guards'
          /\ ~ok => guards' = guards
      BY <2>1 DEF Register, Refuse, Overflow, FaultLedger, ledger
    <3>3. (ok /\ Goto(c, "end")) \/ (~ok /\ Goto(c, "unboot"))
      BY <2>1
    <3>. QED BY <1>2, <3>0, <3>1, <3>2, <3>3 DEF Holds
  <2>. QED BY <1>1, <1>4, <1>5, <1>6, <2>1 DEF CreateFallback
<1>7. CASE CreateUnboot(c)
  BY <1>1, <1>4, <1>5, <1>7 DEF CreateUnboot
<1>. QED BY <1>3, <1>6, <1>7

\* Popping hands the head of the queue, and its guard, to one create.
LEMMA CreatePopStep ==
    ASSUME PoolInv, NEW c \in WorkspaceIds, CreatePop(c), members # <<>>
    PROVE  Implements
<1>. DEFINE h == Head(members)
            r == [creator[c] EXCEPT !.pc = "probe", !.member = h]
<1>0. /\ UNCHANGED <<in_flight, prov, pvm, down, refill>> /\ UNCHANGED ledger
      /\ members' = Tail(members) /\ members \in Seq(PoolIds) /\ Unrepeated
      /\ creator' = [creator EXCEPT ![c] = r] /\ creator[c] \in CreatorRec
  BY Zenon DEF CreatePop, PoolInv, Owners, Types, MemberGuards
<1>1. [LedgerNext]_ledger /\ guards' = guards
  BY <1>0, Faults
<1>2. /\ members' \in Seq(PoolIds) /\ Unrepeated' /\ h \in Queue
      /\ Queue' = Queue \ {h} /\ h \in PoolIds /\ h # None
  BY <1>0, TailQueue, PoolConstants
<1>. HIDE DEF h
<1>3. r \in CreatorRec /\ r.pc = "probe" /\ r.member = h
  BY <1>0, <1>2, Zenon DEF CreatorRec
<1>. HIDE DEF r
<1>4. /\ creator' \in [WorkspaceIds -> CreatorRec] /\ creator'[c] = r
      /\ \A d \in WorkspaceIds \ {c} : creator'[d] = creator[d]
  BY <1>0, <1>3 DEF PoolInv, Owners, Types
<1>5. Types' /\ PermitGuards'
  BY <1>0, <1>1, <1>2, <1>4 DEF PoolInv, Owners, Types, PermitGuards, Holds
<1>6. /\ h \in Stowed /\ h \notin Stowed' /\ Stowed' \subseteq Stowed /\ Holds("Ready", h)
      /\ prov[h] # "push" /\ \A d \in WorkspaceIds : Held(d) # h
  BY <1>0, <1>2 DEF Stowed, PoolInv, Owners, MemberGuards, CreatorGuards
<1>7. MemberGuards'
  BY <1>0, <1>1, <1>2, <1>6 DEF PoolInv, Owners, MemberGuards, Holds
<1>8. CreatorGuards'
  <2>. SUFFICES ASSUME NEW d \in WorkspaceIds
                PROVE  /\ creator'[d].pc \in {"fallback", "unboot"} => <<"Reservation", d>> \in guards
                       /\ creator'[d].pc \in {"probe", "unadopt"} <=> creator'[d].member # None
                       /\ creator'[d].member # None =>
                             /\ <<"Ready", creator'[d].member>> \in guards
                             /\ creator'[d].member \notin Stowed' /\ prov[creator'[d].member] # "push"
                             /\ \A e \in WorkspaceIds \ {d} : creator'[e].member # creator'[d].member
    BY <1>0, <1>1, Zenon DEF CreatorGuards, Holds, Held
  <2>1. CASE d = c
    BY <1>2, <1>3, <1>4, <1>6, <2>1 DEF Held, Holds
  <2>2. CASE d # c
    BY <1>3, <1>4, <1>6, <2>2 DEF PoolInv, Owners, CreatorGuards, Held, Holds
  <2>. QED BY <2>1, <2>2
<1>. QED BY <1>1, <1>5, <1>7, <1>8, Conclude DEF Owners

\* A create gives its member up: reaped, or adopted.
LEMMA CreateGivesUpSteps ==
    ASSUME PoolInv, NEW c \in WorkspaceIds, CreateEvict(c) \/ CreateAdopt(c) \/ CreateUnadopt(c)
    PROVE  Implements
<1>. DEFINE h == Held(c)
<1>0. /\ h \in PoolIds /\ Holds("Ready", h) /\ creator[c] \in CreatorRec
      /\ UNCHANGED <<members, in_flight, prov, down, refill>>
      /\ pvm \in [PoolIds -> VmStatus] /\ "Running" \in WorkspaceState
  BY DEF PoolInv, Owners, Types, CreatorGuards, CreatorRec, Held, CreateEvict, CreateAdopt,
         CreateUnadopt, WorkspaceState
<1>. HIDE DEF h
<1>1. ASSUME NEW pc \in {"pop", "end"}, NEW status \in {"Dead", "Lost", "Adopted"},
             creator' = [creator EXCEPT ![c].pc = pc, ![c].member = None],
             SetVm(h, status), [LedgerNext]_ledger,
             \A g \in guards : g = <<"Ready", h>> \/ g \in guards'
      PROVE  Implements
  <2>. DEFINE r == [creator[c] EXCEPT !.pc = pc, !.member = None]
  <2>1. creator' = [creator EXCEPT ![c] = r]
    BY <1>1, Zenon
  <2>2. r \in CreatorRec /\ r.pc = pc /\ r.member = None
    BY <1>0, Zenon DEF CreatorRec
  <2>. HIDE DEF r
  <2>3. /\ pvm' \in [PoolIds -> VmStatus]
        /\ \A p \in PoolIds : pvm'[p] = "Running" => pvm[p] = "Running" /\ p # h
    BY <1>0, <1>1 DEF SetVm, VmStatus
  <2>4. /\ \A d \in WorkspaceIds \ {c} :
               <<"Reservation", d>> \in guards => <<"Reservation", d>> \in guards'
        /\ \A p \in PoolIds :
               /\ <<"PoolReservation", p>> \in guards => <<"PoolReservation", p>> \in guards'
               /\ <<"Ready", p>> \in guards /\ p # h => <<"Ready", p>> \in guards'
    BY <1>1
  <2>5. Owners'
    BY <1>0, <1>1, <2>1, <2>2, <2>3, <2>4, CreateMoves, Zenon DEF h
  <2>. QED BY <1>1, <2>5, Conclude
<1>2. ASSUME NEW pc \in {"pop", "end"}, ReapAndRelease(h, <<"Ready", h>>),
             creator' = [creator EXCEPT ![c].pc = pc, ![c].member = None]
      PROVE  Implements
  <2>1. CASE SetVm(h, "Dead") /\ ReleaseEntry(<<"Ready", h>>)
    <3>1. LedgerNext /\ \A g \in guards : g = <<"Ready", h>> \/ g \in guards'
      BY <1>0, <2>1, Zenon DEF LedgerNext, Holds, ReleaseEntry
    <3>. QED BY <1>1, <1>2, <2>1, <3>1, Zenon
  <2>2. CASE SetVm(h, "Lost") /\ FaultLedger
    BY <1>1, <1>2, <2>2, Faults, Zenon
  <2>. QED BY <1>2, <2>1, <2>2 DEF ReapAndRelease
<1>3. CASE CreateEvict(c) \/ CreateUnadopt(c)
  BY <1>2, <1>3 DEF CreateEvict, CreateUnadopt, h
<1>4. CASE CreateAdopt(c)
  <2>1. PICK ok \in BOOLEAN :
           /\ AdoptInPlace(h, c, "Running", ok)
           /\ IF ok
              THEN /\ SetVm(h, "Adopted")
                   /\ creator' = [creator EXCEPT ![c].pc = "end", ![c].member = None]
              ELSE Goto(c, "unadopt") /\ UNCHANGED pvm
    BY <1>4 DEF CreateAdopt, h
  <2>2. LedgerNext
    BY <1>0, <2>1 DEF LedgerNext
  <2>3. CASE ok
    <3>1. \A g \in guards : g = <<"Ready", h>> \/ g \in guards'
      BY <2>1, <2>3 DEF AdoptInPlace, Refuse, Overflow
    <3>. QED BY <1>1, <2>1, <2>2, <2>3, <3>1
  <2>4. CASE ~ok
    <3>1. guards' = guards
      BY <2>1, <2>4 DEF AdoptInPlace, Refuse, Overflow, FaultLedger, ledger
    <3>2. /\ creator' \in [WorkspaceIds -> CreatorRec]
          /\ creator'[c].pc = "unadopt" /\ creator[c].pc = "probe"
          /\ \A d \in WorkspaceIds \ {c} : creator'[d].pc = creator[d].pc
          /\ \A d \in WorkspaceIds : creator'[d].member = creator[d].member
      BY <1>4, <2>1, <2>4 DEF Goto, CreateAdopt, PoolInv, Owners, Types, CreatorRec
    <3>3. Types' /\ PermitGuards' /\ MemberGuards'
      BY <1>0, <2>1, <2>4, <3>1, <3>2 DEF PoolInv, Owners, Types, PermitGuards, MemberGuards,
                                          Unrepeated, Stowed, Queue, Holds
    <3>4. Stowed' = Stowed
      BY <1>0 DEF Stowed, Queue
    <3>5. CreatorGuards'
      <4>1. \A d \in WorkspaceIds :
               /\ creator'[d].pc \in {"fallback", "unboot"} => creator[d].pc \in {"fallback", "unboot"}
               /\ creator'[d].pc \in {"probe", "unadopt"} <=> creator[d].pc \in {"probe", "unadopt"}
        BY <3>2
      <4>2. prov' = prov /\ creator' \in [WorkspaceIds -> CreatorRec]
        BY <1>0, <3>2
      <4>. SUFFICES ASSUME NEW d \in WorkspaceIds
                    PROVE  /\ creator'[d].pc \in {"fallback", "unboot"} => <<"Reservation", d>> \in guards
                           /\ creator'[d].pc \in {"probe", "unadopt"} <=> creator'[d].member # None
                           /\ creator'[d].member # None =>
                                 /\ <<"Ready", creator'[d].member>> \in guards
                                 /\ creator'[d].member \notin Stowed
                                 /\ prov[creator'[d].member] # "push"
                                 /\ \A e \in WorkspaceIds \ {d} : creator'[e].member # creator'[d].member
        BY <3>1, <3>4, <4>2, Zenon DEF CreatorGuards, Holds, Held
      <4>. QED BY <3>2, <4>1 DEF PoolInv, Owners, CreatorGuards, Holds, Held
    <3>. QED BY <2>2, <3>3, <3>5, Conclude DEF Owners
  <2>. QED BY <2>3, <2>4
<1>. QED BY <1>3, <1>4

\* shutdown_pool takes over what is queued and reaps it.
LEMMA DrainSteps ==
    ASSUME PoolInv, Drain \/ DrainReap
    PROVE  Implements
<1>0. /\ UNCHANGED <<in_flight, prov, creator, refill>> /\ down \in DownRec
      /\ pvm \in [PoolIds -> VmStatus] /\ members \in Seq(PoolIds)
      /\ \A c \in WorkspaceIds : Held(c) # None => Held(c) \in PoolIds
  BY DEF Drain, DrainReap, PoolInv, Owners, Types, CreatorRec, Held
<1>1. CASE Drain
  <2>1. /\ members' = <<>> /\ down' = [pc |-> "reap", todo |-> Queue] /\ UNCHANGED pvm
        /\ UNCHANGED ledger /\ Queue \subseteq PoolIds
    BY <1>0, <1>1 DEF Drain, Queue
  <2>2. [LedgerNext]_ledger /\ guards' = guards
    BY <2>1, Faults
  <2>3. members' \in Seq(PoolIds) /\ Queue' = {} /\ Unrepeated'
    BY <2>1 DEF Queue, Unrepeated
  <2>4. Stowed' = Queue /\ Stowed' \subseteq Stowed /\ down' \in DownRec
    BY <2>1, <2>3 DEF Stowed, DownRec
  <2>5. Types' /\ PermitGuards'
    BY <1>0, <2>1, <2>2, <2>3, <2>4 DEF PoolInv, Owners, Types, PermitGuards, Holds
  <2>6. MemberGuards'
    BY <1>0, <2>2, <2>3, <2>4 DEF PoolInv, Owners, MemberGuards, Holds
  <2>7. CreatorGuards'
    BY <1>0, <2>2, <2>4, Zenon DEF PoolInv, Owners, CreatorGuards, Held, Holds
  <2>. QED BY <2>2, <2>5, <2>6, <2>7, Conclude DEF Owners
<1>2. CASE DrainReap
  <2>1. PICK p \in down.todo : /\ ReapAndRelease(p, <<"Ready", p>>)
                               /\ down' = [down EXCEPT !.todo = @ \ {p}]
    BY <1>2 DEF DrainReap
  <2>2. /\ p \in PoolIds /\ Holds("Ready", p) /\ p \in Stowed /\ p \notin Queue
        /\ prov[p] # "push" /\ \A c \in WorkspaceIds : Held(c) # p
    BY <1>0, PoolConstants DEF DownRec, Stowed, PoolInv, Owners, MemberGuards, CreatorGuards
  <2>3. /\ [LedgerNext]_ledger /\ \A g \in guards : g = <<"Ready", p>> \/ g \in guards'
        /\ \E status \in {"Dead", "Lost"} : SetVm(p, status)
    <3>1. CASE SetVm(p, "Dead") /\ ReleaseEntry(<<"Ready", p>>)
      BY <2>2, <3>1 DEF LedgerNext, Holds, ReleaseEntry
    <3>2. CASE SetVm(p, "Lost") /\ FaultLedger
      BY <3>2, Faults
    <3>. QED BY <2>1, <3>1, <3>2 DEF ReapAndRelease
  <2>4. /\ pvm' \in [PoolIds -> VmStatus] /\ pvm'[p] # "Running"
        /\ \A q \in PoolIds \ {p} : pvm'[q] = pvm[q]
    BY <1>0, <2>2, <2>3 DEF SetVm, VmStatus
  <2>5. /\ down' \in DownRec /\ down'.todo = down.todo \ {p} /\ UNCHANGED members
    BY <1>0, <1>2, <2>1 DEF DownRec, DrainReap
  <2>6. Queue' = Queue /\ Stowed' = Stowed \ {p}
    BY <2>2, <2>5 DEF Stowed, Queue
  <2>7. Types' /\ PermitGuards'
    BY <1>0, <2>2, <2>3, <2>4, <2>5 DEF PoolInv, Owners, Types, PermitGuards, Holds
  <2>8. MemberGuards'
    BY <1>0, <2>2, <2>3, <2>5, <2>6 DEF PoolInv, Owners, MemberGuards, Unrepeated, Holds
  <2>9. CreatorGuards'
    BY <1>0, <2>2, <2>3, <2>6, Zenon DEF PoolInv, Owners, CreatorGuards, Held, Holds
  <2>. QED BY <2>3, <2>7, <2>8, <2>9, Conclude DEF Owners
<1>. QED BY <1>1, <1>2

\* Every step keeps the invariant and implements a ledger step.
LEMMA PoolStep ==
    ASSUME PoolInv, [Next]_vars
    PROVE  Implements
<1>1. ASSUME NEW r \in Refills, LoopTick(r) \/ RefillStep(r) PROVE Implements
  BY <1>1, NeutralSteps, RefillReserveStep, RefillSpawnStep DEF RefillStep
<1>2. ASSUME NEW p \in PoolIds, ProvisionStep(p) PROVE Implements
  BY <1>2, ProvisionPlainSteps, ProvisionCompleteStep, ProvisionPushStep, PermitUnchargeStep
     DEF ProvisionStep
<1>3. ASSUME NEW c \in WorkspaceIds, CreateStart(c) \/ CreateStep(c) PROVE Implements
  BY <1>3, CreatePlainSteps, CreateFallbackSteps, CreatePopStep, CreateGivesUpSteps
     DEF CreateStep
<1>4. CASE Close \/ ShutdownStep \/ LoopExit \/ UNCHANGED vars
  BY <1>4, NeutralSteps, DrainSteps DEF ShutdownStep
<1>. QED BY <1>1, <1>2, <1>3, <1>4 DEF Next, Down

\* At the start there is no member, no permit and no guard.
LEMMA PoolInitInv == Init => LedgerInit /\ PoolInv
<1>. SUFFICES ASSUME Init PROVE PoolInv
  BY DEF Init
<1>1. LedgerInv
  BY LedgerInitInv DEF Init
<1>2. Idle \in CreatorRec /\ Idle.pc = "idle" /\ Idle.member = None
  BY DEF Idle, CreatorRec
<1>3. Types
  BY <1>2 DEF Init, Types, ProvStage, VmStatus, RefillRec, DownRec
<1>4. Queue = {} /\ down.todo = {} /\ Unrepeated
  BY DEF Init, Queue, Unrepeated
<1>5. PermitGuards /\ MemberGuards
  BY <1>4 DEF Init, PermitGuards, MemberGuards, Permits, Quiescent, Stowed
<1>6. \A c \in WorkspaceIds : creator[c] = Idle
  BY DEF Init
<1>7. CreatorGuards
  BY <1>2, <1>6 DEF CreatorGuards, Held
<1>. QED BY <1>1, <1>3, <1>5, <1>7 DEF PoolInv, Owners

\* The inductive invariant.
THEOREM PoolInvariant == Spec => []PoolInv
<1>1. Init => PoolInv
  BY PoolInitInv
<1>2. PoolInv /\ [Next]_vars => PoolInv'
  BY PoolStep DEF Implements
<1>. QED BY <1>1, <1>2, PTL DEF Spec

\* Whatever refills, provisions, creates and the shutdown do to the ledger is
\* what its specification allows: every guard they use is one they hold.
THEOREM PoolImplementsLedger == Spec => ImplementsLedger
<1>1. Init => LedgerInit
  BY PoolInitInv
<1>2. PoolInv /\ [Next]_vars => [LedgerNext]_ledger
  BY PoolStep DEF Implements
<1>. QED BY <1>1, <1>2, PoolInvariant, PTL DEF Spec, ImplementsLedger, LedgerSpec

\* The queue holds no member twice.
LEMMA QueueLength ==
    ASSUME PoolInv
    PROVE  Cardinality(Queue) = Len(members) /\ Len(members) \in Nat
<1>1. members \in Seq(PoolIds) /\ Len(members) \in Nat /\ Unrepeated
  BY DEF PoolInv, Owners, Types, MemberGuards
<1>2. members \in [1 .. Len(members) -> Queue] /\ DOMAIN members = 1 .. Len(members)
  BY <1>1 DEF Queue
<1>3. members \in Bijection(1 .. Len(members), Queue)
  BY <1>1, <1>2 DEF Bijection, Injection, Surjection, IsInjective, Unrepeated, Queue
<1>4. IsFiniteSet(1 .. Len(members)) /\ Cardinality(1 .. Len(members)) = Len(members)
  BY <1>1, FS_Interval
<1>. QED BY <1>1, <1>3, <1>4, FS_Bijection DEF ExistsBijection

\* Every warm VM has one owner and is counted by the ledger as long as it runs.
THEOREM WarmMembersOwned == Spec => []MembersOwnedAndCharged
<1>1. PoolInv => MembersOwnedAndCharged
  <2>. SUFFICES ASSUME PoolInv PROVE MembersOwnedAndCharged
    OBVIOUS
  <2>1. Cardinality(Queue) = Len(members)
    BY QueueLength
  <2>2. \A p \in PoolIds : pvm[p] = "Running" => p \in HeldPool
    BY GuardMeansEntry DEF PoolInv, Owners, PermitGuards, HeldPool
  <2>. QED BY <2>1, <2>2 DEF MembersOwnedAndCharged, PoolInv, Owners, MemberGuards, CreatorGuards,
                             Stowed
<1>. QED BY <1>1, PoolInvariant, PTL

-----------------------------------------------------------------------------
\* The counters: in-flight slots, and the operations the tracker waits for.

\* Provisions that will still add a member, and stages run by a task of its own.
Coming == {p \in PermitsOut : prov[p] # "release"}
Tasked == {"boot", "push", "release", "reject", "drop", "uncharge"}

\* The slots are those of the permits, except that a fault may have leaked some;
\* a pool id that was ever provisioned is not handed out again.
Slots ==
    /\ in_flight >= Cardinality(PermitsOut)
    /\ ~faulted => in_flight = Cardinality(PermitsOut)
    /\ Cardinality(Queue \cup Coming) <= TargetSize
    /\ Cardinality(PermitsOut) <= MaxInFlight
    /\ \A p \in PoolIds : prov[p] # "none" => p < next_pool_id

\* The tracker counts the operations that it accepted and that have not ended.
RunningRefills == {r \in Refills : refill[r].pc # "idle"}
RunningProvisions == {p \in PoolIds : prov[p] \in Tasked}
RunningCreates == {c \in WorkspaceIds : creator[c].pc \notin {"idle", "done"}}

Counted ==
    /\ IsFiniteSet(RunningRefills)
    /\ active = (IF loop = "run" THEN 1 ELSE 0) + Cardinality(RunningRefills)
                + Cardinality(RunningProvisions) + Cardinality(RunningCreates)

\* Nothing is accepted after the close, and nothing runs once wait() has returned.
NoneRunning ==
    loop # "run" /\ RunningRefills = {} /\ RunningProvisions = {} /\ RunningCreates = {}

Stopping ==
    /\ down.pc # "up" => ~accepting
    /\ down.pc \in {"reap", "down"} => NoneRunning /\ members = <<>>
    /\ down.pc # "reap" => down.todo = {}

\* A running warm VM is its provision's, queued, held by a create or about to be
\* drained.
WarmOwner(p) ==
    prov[p] \in {"boot", "push", "reject"} \/ p \in Stowed \/ \E c \in WorkspaceIds : Held(c) = p

WarmOwned == \A p \in PoolIds : pvm[p] = "Running" => WarmOwner(p)

Counts == Slots /\ Counted /\ Stopping /\ WarmOwned
PoolCountInv == PoolInv /\ Counts

\* The sets and numbers behind the slots, before and after a step.
LEMMA SlotSets ==
    ASSUME PoolInv, Implements
    PROVE  /\ Queue \cup Coming \in SUBSET PoolIds /\ PermitsOut \in SUBSET PoolIds
           /\ (Queue \cup Coming)' \in SUBSET PoolIds /\ PermitsOut' \in SUBSET PoolIds
           /\ in_flight \in Int /\ in_flight' \in Int /\ next_pool_id \in Nat /\ next_pool_id' \in Nat
           /\ (faulted => faulted') /\ next_pool_id' >= next_pool_id
<1>1. /\ members \in Seq(PoolIds) /\ members' \in Seq(PoolIds) /\ in_flight \in Int
      /\ in_flight' \in Int /\ next_pool_id \in Nat /\ next_pool_id' \in Nat
  BY LedgerConstants DEF PoolInv, Implements, Owners, Types, LedgerInv, LedgerTypeOK
<1>2. (faulted => faulted') /\ next_pool_id' >= next_pool_id
  BY LedgerMonotone DEF PoolInv, Implements
<1>3. Queue \in SUBSET PoolIds /\ Queue' \in SUBSET PoolIds
  BY <1>1 DEF Queue
<1>. QED BY <1>1, <1>2, <1>3 DEF PermitsOut, Coming

\* A step that hands out no slot, and gives back at most one.
LEMMA SlotsKept ==
    ASSUME PoolInv, Slots, Implements, (Queue \cup Coming)' \subseteq Queue \cup Coming,
           \A p \in PoolIds : prov'[p] # "none" => prov[p] # "none",
           \/ PermitsOut' = PermitsOut /\ in_flight' = in_flight
           \/ \E p \in PermitsOut : /\ PermitsOut' = PermitsOut \ {p}
                                    /\ in_flight' = in_flight - 1 \/ (in_flight' = in_flight /\ faulted')
    PROVE  Slots'
<1>1. /\ Queue \cup Coming \in SUBSET PoolIds /\ PermitsOut \in SUBSET PoolIds
      /\ (Queue \cup Coming)' \in SUBSET PoolIds /\ PermitsOut' \in SUBSET PoolIds
      /\ in_flight \in Int /\ in_flight' \in Int /\ next_pool_id \in Nat /\ next_pool_id' \in Nat
      /\ (faulted => faulted') /\ next_pool_id' >= next_pool_id
  BY SlotSets
<1>2. /\ Cardinality(PermitsOut) \in Nat /\ IsFiniteSet(PermitsOut)
      /\ Cardinality(Queue \cup Coming) \in Nat /\ IsFiniteSet(Queue \cup Coming)
      /\ Cardinality((Queue \cup Coming)') \in Nat
  BY <1>1, PoolSetFinite
<1>3. Cardinality((Queue \cup Coming)') <= Cardinality(Queue \cup Coming)
  BY <1>2, FS_Subset
<1>4. ASSUME NEW p \in PermitsOut, PermitsOut' = PermitsOut \ {p}
      PROVE  Cardinality(PermitsOut') = Cardinality(PermitsOut) - 1
  BY <1>2, <1>4, FS_RemoveElement, Zenon
<1>5. /\ in_flight' >= Cardinality(PermitsOut') /\ Cardinality(PermitsOut') <= MaxInFlight
      /\ ~faulted' => in_flight' = Cardinality(PermitsOut')
  BY <1>1, <1>2, <1>4, PoolConstants DEF Slots
<1>6. \A p \in PoolIds : prov'[p] # "none" => p < next_pool_id'
  BY <1>1 DEF Slots, PoolIds
<1>7. Cardinality((Queue \cup Coming)') <= TargetSize
  BY <1>2, <1>3, PoolConstants DEF Slots
<1>. QED BY <1>5, <1>6, <1>7 DEF Slots

\* A batch is no larger than requested, and of ids never provisioned before.
LEMMA BatchBounded ==
    ASSUME PoolInv, Slots, NEW n \in Nat, NEW got \in SUBSET PoolIds, ReservePoolBatch(n, got)
    PROVE  /\ Cardinality(got) <= n /\ \A p \in got : prov[p] = "none" /\ p < next_pool_id'
<1>. DEFINE count == BatchSize(n)
<1>1. next_pool_id \in Nat /\ count \in Nat /\ count <= n
  BY HeldFinite, LedgerConstants DEF BatchSize, PoolInv, LedgerInv, LedgerTypeOK
<1>2. CASE got = {}
  BY <1>2, FS_EmptySet
<1>3. CASE got # {}
  <2>1. got = next_pool_id .. (next_pool_id + count - 1) /\ next_pool_id' = next_pool_id + count
    BY <1>3 DEF ReservePoolBatch
  <2>. HIDE DEF count
  <2>2. Cardinality(got) = count
    BY <1>1, <1>3, <2>1, FS_Interval
  <2>3. \A p \in got : p >= next_pool_id /\ p < next_pool_id'
    BY <1>1, <2>1
  <2>. QED BY <1>1, <2>2, <2>3 DEF Slots, PoolIds
<1>. QED BY <1>2, <1>3

\* reserve_provisions takes no more slots than the deficit.
LEMMA SlotsTaken ==
    ASSUME PoolInv, Slots, Implements, NEW r \in Refills, RefillReserve(r)
    PROVE  /\ Slots'
           /\ \A p \in PoolIds : prov'[p] = prov[p] \/ (prov[p] = "none" /\ prov'[p] = "queued")
<1>1. /\ Queue \cup Coming \in SUBSET PoolIds /\ PermitsOut \in SUBSET PoolIds
      /\ in_flight \in Int /\ next_pool_id \in Nat /\ next_pool_id' \in Nat
      /\ (faulted => faulted') /\ next_pool_id' >= next_pool_id
  BY SlotSets
<1>. DEFINE n == RefillDeficit(Len(members))
<1>2. PICK got \in SUBSET PoolIds :
         /\ ReservePoolBatch(n, got) \/ got = {}
         /\ in_flight' = in_flight + Cardinality(got)
         /\ prov' = [p \in PoolIds |-> IF p \in got THEN "queued" ELSE prov[p]]
  BY DEF RefillReserve
<1>3. /\ Cardinality(Queue) = Len(members) /\ Len(members) \in Nat
      /\ n \in Nat
      /\ n > 0 => /\ n <= TargetSize - (Len(members) + in_flight)
                  /\ n <= MaxInFlight - in_flight
  <2>1. Cardinality(Queue) = Len(members) /\ Len(members) \in Nat
    BY QueueLength
  <2>. QED BY <1>1, <2>1, PoolConstants DEF RefillDeficit
<1>. HIDE DEF n
<1>4. \A p \in got : prov[p] = "none" /\ p < next_pool_id'
  BY <1>2, <1>3, BatchBounded
<1>5. Cardinality(got) \in Nat /\ Cardinality(got) <= n /\ IsFiniteSet(got)
  BY <1>2, <1>3, BatchBounded, PoolSetFinite, FS_EmptySet
<1>6. Queue' = Queue /\ PermitsOut' = PermitsOut \cup got /\ Coming' = Coming \cup got
  BY <1>2 DEF RefillReserve, Queue, PermitsOut, Coming
<1>7. /\ IsFiniteSet(PermitsOut) /\ Cardinality(PermitsOut) \in Nat
      /\ Coming \in SUBSET PermitsOut /\ PermitsOut \cap got = {}
      /\ IsFiniteSet(Queue) /\ IsFiniteSet(Coming) /\ Cardinality(Coming) \in Nat
  <2>1. Queue \in SUBSET PoolIds /\ Coming \in SUBSET PoolIds
    BY <1>1
  <2>. QED BY <1>1, <1>4, <2>1, PoolSetFinite DEF Coming, PermitsOut
<1>8. Cardinality(PermitsOut') = Cardinality(PermitsOut) + Cardinality(got)
  <2>1. Cardinality(PermitsOut \cap got) = 0
    BY <1>7, FS_EmptySet
  <2>2. Cardinality(PermitsOut \cup got)
           = Cardinality(PermitsOut) + Cardinality(got) - Cardinality(PermitsOut \cap got)
    BY <1>5, <1>7, FS_Union
  <2>. QED BY <1>5, <1>6, <1>7, <2>1, <2>2
<1>9. Cardinality((Queue \cup Coming)') <= TargetSize
  <2>1. CASE got = {}
    BY <1>6, <2>1 DEF Slots
  <2>2. CASE got # {}
    <3>1. Cardinality(got) > 0
      BY <1>5, <2>2, FS_EmptySet
    <3>2. Cardinality(Coming) <= Cardinality(PermitsOut)
      BY <1>7, FS_Subset
    <3>3. /\ Cardinality(Queue \cup (Coming \cup got)) <= Cardinality(Queue) + Cardinality(Coming \cup got)
          /\ Cardinality(Coming \cup got) <= Cardinality(Coming) + Cardinality(got)
          /\ Cardinality(Coming \cup got) \in Nat
          /\ Cardinality(Queue \cup (Coming \cup got)) \in Nat
      <4>1. IsFiniteSet(Coming \cup got) /\ IsFiniteSet(Queue \cup (Coming \cup got))
        BY <1>5, <1>7, FS_Union, Zenon
      <4>2. /\ Cardinality(Queue \cap (Coming \cup got)) \in Nat
            /\ Cardinality(Coming \cap got) \in Nat
        BY <1>5, <1>7, FS_Intersection, FS_CardinalityType, Zenon
      <4>3. /\ Cardinality(Coming \cup got) \in Nat /\ Cardinality(Queue) \in Nat
            /\ Cardinality(Queue \cup (Coming \cup got)) \in Nat
        BY <1>7, <4>1, FS_CardinalityType
      <4>4. Cardinality(Coming \cup got)
               = Cardinality(Coming) + Cardinality(got) - Cardinality(Coming \cap got)
        BY <1>5, <1>7, FS_Union
      <4>5. Cardinality(Queue \cup (Coming \cup got))
               = Cardinality(Queue) + Cardinality(Coming \cup got)
                 - Cardinality(Queue \cap (Coming \cup got))
        BY <1>7, <4>1, FS_Union
      <4>. QED BY <1>5, <1>7, <4>2, <4>3, <4>4, <4>5
    <3>4. (Queue \cup Coming)' = Queue \cup (Coming \cup got)
      BY <1>6
    <3>5. Cardinality(PermitsOut) <= in_flight /\ in_flight \in Int
      BY <1>1 DEF Slots
    <3>6. n <= TargetSize - (Cardinality(Queue) + in_flight) /\ Cardinality(got) <= n
      BY <1>3, <1>5, <3>1
    <3>7. Cardinality(Queue \cup (Coming \cup got)) <= TargetSize
      BY <1>3, <1>5, <1>7, <3>2, <3>3, <3>5, <3>6, PoolConstants
    <3>. QED BY <3>4, <3>7
  <2>. QED BY <2>1, <2>2
<1>10. /\ in_flight' >= Cardinality(PermitsOut') /\ Cardinality(PermitsOut') <= MaxInFlight
       /\ ~faulted' => in_flight' = Cardinality(PermitsOut')
  BY <1>1, <1>2, <1>3, <1>5, <1>7, <1>8, PoolConstants DEF Slots
<1>11. \A p \in PoolIds : prov'[p] # "none" => p < next_pool_id'
  BY <1>1, <1>2, <1>4 DEF Slots, PoolIds
<1>. QED BY <1>2, <1>4, <1>9, <1>10, <1>11 DEF Slots

\* Stages of a provision whose permit has a slot (PermitsOut).
Slotted == {"queued", "boot", "push", "release", "reject", "drop", "refused"}

\* Every step keeps the slots accounted for.
LEMMA SlotsStep ==
    ASSUME PoolInv, Slots, Implements, [Next]_vars
    PROVE  Slots'
<1>0. members \in Seq(PoolIds) /\ prov \in [PoolIds -> ProvStage] /\ Unrepeated
  BY DEF PoolInv, Owners, Types, MemberGuards
<1>1. CASE UNCHANGED <<members, in_flight, prov>>
  BY <1>1, SlotsKept DEF Queue, Coming, PermitsOut
<1>2. ASSUME NEW p \in PoolIds, NEW stage, SetProv(p, stage), UNCHANGED members,
             prov[p] # "none", stage # "release",
             \/ in_flight' = in_flight /\ prov[p] \in Slotted \ {"release"} /\ stage \in Slotted
             \/ in_flight' = in_flight /\ prov[p] \notin Slotted /\ stage \notin Slotted
             \/ /\ in_flight' = in_flight - 1 \/ (in_flight' = in_flight /\ faulted')
                /\ prov[p] \in Slotted /\ stage \notin Slotted
      PROVE  Slots'
  <2>1. /\ \A q \in PoolIds : prov'[q] = IF q = p THEN stage ELSE prov[q]
        /\ Queue' = Queue
    BY <1>0, <1>2 DEF SetProv, Queue
  <2>2. (Queue \cup Coming)' \subseteq Queue \cup Coming
    BY <1>2, <2>1 DEF Coming, PermitsOut, Slotted
  <2>3. \A q \in PoolIds : prov'[q] # "none" => prov[q] # "none"
    BY <1>2, <2>1
  <2>4. PermitsOut' = IF stage \in Slotted THEN PermitsOut \cup {p} ELSE PermitsOut \ {p}
    BY <2>1 DEF PermitsOut, Slotted
  <2>5. p \in PermitsOut <=> prov[p] \in Slotted
    BY DEF PermitsOut, Slotted
  <2>. QED BY <1>2, <2>2, <2>3, <2>4, <2>5, SlotsKept
<1>3. ASSUME NEW r \in Refills, LoopTick(r) \/ RefillStep(r) PROVE Slots'
  <2>1. CASE LoopTick(r) \/ RefillEnd(r)
    BY <1>1, <2>1 DEF LoopTick, RefillEnd, pool
  <2>2. CASE RefillReserve(r)
    BY <2>2, SlotsTaken
  <2>3. CASE RefillSpawn(r)
    <3>1. PICK p \in PoolIds : prov[p] = "queued" /\ (SetProv(p, "boot") \/ SetProv(p, "refused"))
      BY <2>3 DEF RefillSpawn, PoolInv, Owners, Types, RefillRec
    <3>. QED BY <1>2, <2>3, <3>1 DEF RefillSpawn, Slotted
  <2>. QED BY <1>3, <2>1, <2>2, <2>3 DEF RefillStep
<1>4. ASSUME NEW p \in PoolIds, ProvisionStep(p) PROVE Slots'
  <2>1. CASE ProvisionFail(p) \/ ProvisionComplete(p)
    <3>1. /\ prov[p] = "boot" /\ UNCHANGED <<members, in_flight>>
          /\ \E stage \in {"drop", "push", "reject"} : SetProv(p, stage)
      BY <2>1 DEF ProvisionFail, ProvisionComplete
    <3>. QED BY <1>2, <3>1 DEF Slotted
  <2>2. CASE ProvisionPush(p)
    <3>1. /\ prov[p] = "push" /\ p \notin Queue /\ members' = Append(members, p)
          /\ \A q \in PoolIds : prov'[q] = IF q = p THEN "release" ELSE prov[q]
      BY <1>0, <2>2 DEF ProvisionPush, SetProv, PoolInv, Owners, MemberGuards, Stowed
    <3>2. Queue' = Queue \cup {p}
      BY <1>0, <3>1, AppendQueue
    <3>3. PermitsOut' = PermitsOut /\ Coming' = Coming \ {p} /\ p \in Coming
      BY <3>1 DEF PermitsOut, Coming
    <3>. QED BY <2>2, <3>1, <3>2, <3>3, SlotsKept DEF ProvisionPush
  <2>3. CASE ProvisionRelease(p)
    BY <1>2, <2>3 DEF ProvisionRelease, Slotted
  <2>4. CASE ProvisionReject(p)
    <3>1. /\ prov[p] = "reject" /\ UNCHANGED <<members, in_flight>>
          /\ SetProv(p, "drop") \/ (SetProv(p, "done") /\ faulted')
      BY <2>4 DEF ProvisionReject, FaultLedger
    <3>. QED BY <1>2, <3>1 DEF Slotted
  <2>5. CASE PermitDrop(p)
    <3>1. \E stage \in {"uncharge", "unqueue"} : SetProv(p, stage)
      BY <2>5, Zenon DEF PermitDrop, SetProv
    <3>. QED BY <1>2, <2>5, <3>1 DEF PermitDrop, Slotted
  <2>6. CASE PermitUncharge(p)
    BY <1>2, <2>6 DEF PermitUncharge, Slotted
  <2>. QED BY <1>4, <2>1, <2>2, <2>3, <2>4, <2>5, <2>6 DEF ProvisionStep
<1>5. ASSUME UNCHANGED <<in_flight, prov>>, Queue' \subseteq Queue PROVE Slots'
  BY <1>5, SlotsKept DEF Coming, PermitsOut
<1>6. ASSUME NEW c \in WorkspaceIds, CreateStart(c) \/ CreateStep(c) PROVE Slots'
  <2>1. UNCHANGED <<in_flight, prov>> /\ (UNCHANGED members \/ (members # <<>> /\ members' = Tail(members)))
    BY <1>6 DEF CreateStart, CreateStep, CreateEnd, CreatePop, CreateEvict, CreateAdopt, CreateUnadopt,
                CreateMiss, CreateFallback, CreateUnboot, pool
  <2>2. Queue' \subseteq Queue
    BY <1>0, <2>1, TailQueue DEF Queue
  <2>. QED BY <1>5, <2>1, <2>2
<1>7. CASE Drain
  BY <1>5, <1>7 DEF Drain, Queue
<1>8. CASE LoopExit \/ Close \/ DrainReap \/ DrainEnd \/ UNCHANGED vars
  BY <1>1, <1>8 DEF LoopExit, Close, DrainReap, DrainEnd, vars, pool
<1>. QED BY <1>3, <1>4, <1>6, <1>7, <1>8 DEF Next, ShutdownStep, Down

\* T has one element more than S.
OneMore(S, T) == \E x : x \notin S /\ T = S \cup {x}

\* Its cardinality is one more.
LEMMA CountOneMore ==
    ASSUME NEW S, NEW T, OneMore(S, T), IsFiniteSet(S) \/ IsFiniteSet(T)
    PROVE  /\ IsFiniteSet(S) /\ IsFiniteSet(T) /\ Cardinality(T) = Cardinality(S) + 1
           /\ Cardinality(S) \in Nat /\ T # {}
<1>1. PICK x : x \notin S /\ T = S \cup {x}
  BY DEF OneMore
<1>2. IsFiniteSet(S)
  BY <1>1, FS_Subset
<1>. QED BY <1>1, <1>2, FS_AddElement, FS_CardinalityType

\* An operation begins, or one ends.
Begins == \/ OneMore(RunningRefills, RunningRefills') /\ UNCHANGED <<RunningProvisions, RunningCreates>>
          \/ OneMore(RunningProvisions, RunningProvisions') /\ UNCHANGED <<RunningRefills, RunningCreates>>
          \/ OneMore(RunningCreates, RunningCreates') /\ UNCHANGED <<RunningRefills, RunningProvisions>>

Finishes == \/ OneMore(RunningRefills', RunningRefills) /\ UNCHANGED <<RunningProvisions, RunningCreates>>
            \/ OneMore(RunningProvisions', RunningProvisions) /\ UNCHANGED <<RunningRefills, RunningCreates>>
            \/ OneMore(RunningCreates', RunningCreates) /\ UNCHANGED <<RunningRefills, RunningProvisions>>

\* The tracker is told of every beginning and of every end.
Tells == \/ accepting /\ active' = active + 1 /\ loop' = loop /\ Begins
         \/ active' = active - 1 /\ loop' = loop /\ Finishes
         \/ /\ active' = active - 1 /\ loop = "run" /\ loop' = "exited"
            /\ UNCHANGED <<RunningRefills, RunningProvisions, RunningCreates>>
         \/ /\ UNCHANGED <<active, loop>>
            /\ UNCHANGED <<RunningRefills, RunningProvisions, RunningCreates>>

\* Only finitely many provisions and creates can run.
LEMMA CountFinite ==
    /\ IsFiniteSet(RunningProvisions) /\ IsFiniteSet(RunningProvisions')
    /\ IsFiniteSet(RunningCreates) /\ IsFiniteSet(RunningCreates')
    /\ Cardinality(RunningProvisions) \in Nat /\ Cardinality(RunningProvisions') \in Nat
    /\ Cardinality(RunningCreates) \in Nat /\ Cardinality(RunningCreates') \in Nat
<1>1. /\ RunningProvisions \in SUBSET PoolIds /\ RunningProvisions' \in SUBSET PoolIds
      /\ RunningCreates \in SUBSET WorkspaceIds /\ RunningCreates' \in SUBSET WorkspaceIds
  BY DEF RunningProvisions, RunningCreates
<1>. QED BY <1>1, PoolSetFinite, FS_Subset, FS_CardinalityType, LedgerConstants

\* A tracker that is told of everything counts right.
LEMMA CountKept ==
    ASSUME Counted, Tells
    PROVE  Counted'
<1>. DEFINE l == IF loop = "run" THEN 1 ELSE 0
            lp == IF loop' = "run" THEN 1 ELSE 0
<1>1. /\ IsFiniteSet(RunningRefills) /\ Cardinality(RunningRefills) \in Nat
      /\ l \in Int /\ (loop' = loop => lp = l) /\ (loop = "run" /\ loop' = "exited" => lp = l - 1)
      /\ active = l + Cardinality(RunningRefills)
                  + Cardinality(RunningProvisions) + Cardinality(RunningCreates)
  BY FS_CardinalityType DEF Counted
<1>. HIDE DEF l, lp
<1>2. IsFiniteSet(RunningRefills') /\ Cardinality(RunningRefills') \in Nat
  BY <1>1, CountOneMore, FS_CardinalityType DEF Tells, Begins, Finishes
<1>3. Begins => Cardinality(RunningRefills') + Cardinality(RunningProvisions') + Cardinality(RunningCreates')
                = Cardinality(RunningRefills) + Cardinality(RunningProvisions) + Cardinality(RunningCreates) + 1
  BY <1>1, <1>2, CountFinite, CountOneMore DEF Begins
<1>4. Finishes => Cardinality(RunningRefills') + Cardinality(RunningProvisions') + Cardinality(RunningCreates')
                = Cardinality(RunningRefills) + Cardinality(RunningProvisions) + Cardinality(RunningCreates) - 1
  BY <1>1, <1>2, CountFinite, CountOneMore DEF Finishes
<1>5. active' = lp + Cardinality(RunningRefills')
                  + Cardinality(RunningProvisions') + Cardinality(RunningCreates')
  BY <1>1, <1>2, <1>3, <1>4, CountFinite DEF Tells
<1>. QED BY <1>2, <1>5 DEF Counted, lp

\* Every step tells the tracker what it should.
LEMMA TellsStep ==
    ASSUME PoolInv, Slots, Implements, [Next]_vars
    PROVE  Tells
<1>0. /\ prov \in [PoolIds -> ProvStage] /\ refill \in [Refills -> RefillRec]
      /\ creator \in [WorkspaceIds -> CreatorRec]
  BY DEF PoolInv, Owners, Types
<1>1. ASSUME NEW p \in PoolIds, NEW stage, SetProv(p, stage),
             UNCHANGED <<refill, creator, loop>>,
             \/ prov[p] \in Tasked /\ stage \in Tasked /\ UNCHANGED active
             \/ prov[p] \notin Tasked /\ stage \notin Tasked /\ UNCHANGED active
             \/ prov[p] \notin Tasked /\ stage \in Tasked /\ BeginOperation
             \/ prov[p] \in Tasked /\ stage \notin Tasked /\ EndOperation
      PROVE  Tells
  <2>1. /\ RunningProvisions' = IF stage \in Tasked THEN RunningProvisions \cup {p}
                                ELSE RunningProvisions \ {p}
        /\ p \in RunningProvisions <=> prov[p] \in Tasked
    BY <1>0, <1>1 DEF SetProv, RunningProvisions
  <2>2. UNCHANGED <<RunningRefills, RunningCreates>>
    BY <1>1 DEF RunningRefills, RunningCreates
  <2>3. CASE prov[p] \notin Tasked /\ stage \in Tasked /\ BeginOperation
    BY <1>1, <2>1, <2>2, <2>3 DEF Tells, Begins, OneMore, BeginOperation
  <2>4. CASE prov[p] \in Tasked /\ stage \notin Tasked /\ EndOperation
    <3>1. p \notin RunningProvisions' /\ RunningProvisions = RunningProvisions' \cup {p}
      BY <2>1, <2>4
    <3>. QED BY <1>1, <2>2, <2>4, <3>1 DEF Tells, Finishes, OneMore, EndOperation
  <2>5. CASE /\ prov[p] \in Tasked <=> stage \in Tasked
             /\ UNCHANGED active
    BY <1>1, <2>1, <2>2, <2>5 DEF Tells
  <2>. QED BY <1>1, <2>3, <2>4, <2>5
<1>2. ASSUME NEW r \in Refills, LoopTick(r) \/ RefillStep(r) PROVE Tells
  <2>1. CASE LoopTick(r)
    <3>1. /\ UNCHANGED <<RunningProvisions, RunningCreates>> /\ r \notin RunningRefills
          /\ RunningRefills' = RunningRefills \cup {r}
      BY <1>0, <2>1 DEF LoopTick, pool, RunningRefills, RunningProvisions, RunningCreates, RefillRec
    <3>. QED BY <2>1, <3>1 DEF Tells, Begins, OneMore, LoopTick, BeginOperation
  <2>2. CASE RefillEnd(r)
    <3>1. /\ UNCHANGED <<RunningProvisions, RunningCreates>> /\ r \notin RunningRefills'
          /\ RunningRefills = RunningRefills' \cup {r}
      BY <1>0, <2>2 DEF RefillEnd, pool, RunningRefills, RunningProvisions, RunningCreates, RefillRec
    <3>. QED BY <2>2, <3>1 DEF Tells, Finishes, OneMore, RefillEnd, EndOperation
  <2>3. CASE RefillReserve(r)
    <3>1. \A p \in PoolIds : prov'[p] = prov[p] \/ (prov[p] = "none" /\ prov'[p] = "queued")
      BY <2>3, SlotsTaken
    <3>2. RunningProvisions' = RunningProvisions
      BY <3>1 DEF RunningProvisions, Tasked
    <3>3. RunningRefills' = RunningRefills /\ RunningCreates' = RunningCreates
      BY <1>0, <2>3 DEF RefillReserve, RunningRefills, RunningCreates, RefillRec
    <3>. QED BY <2>3, <3>2, <3>3 DEF Tells, RefillReserve, tracker
  <2>4. CASE RefillSpawn(r)
    <3>1. PICK p \in PoolIds : /\ prov[p] = "queued"
                               /\ \/ SetProv(p, "boot") /\ BeginOperation
                                  \/ SetProv(p, "refused") /\ UNCHANGED tracker
      BY <2>4 DEF RefillSpawn, PoolInv, Owners, Types, RefillRec
    <3>. QED BY <1>1, <2>4, <3>1 DEF RefillSpawn, Tasked, tracker
  <2>. QED BY <1>2, <2>1, <2>2, <2>3, <2>4 DEF RefillStep
<1>3. ASSUME NEW p \in PoolIds, ProvisionStep(p) PROVE Tells
  <2>1. UNCHANGED <<refill, creator, loop>>
    BY <1>3 DEF ProvisionStep, ProvisionFail, ProvisionComplete, ProvisionPush, ProvisionRelease,
                ProvisionReject, PermitDrop, PermitUncharge
  <2>2. CASE ProvisionFail(p) \/ ProvisionComplete(p) \/ ProvisionPush(p)
    <3>1. /\ prov[p] \in Tasked /\ UNCHANGED tracker
          /\ \E stage \in {"drop", "push", "reject", "release"} : SetProv(p, stage)
      BY <2>2 DEF ProvisionFail, ProvisionComplete, ProvisionPush, Tasked
    <3>. QED BY <1>1, <2>1, <3>1 DEF Tasked, tracker
  <2>3. CASE ProvisionRelease(p) \/ ProvisionReject(p)
    <3>1. /\ prov[p] \in Tasked
          /\ (SetProv(p, "drop") /\ UNCHANGED tracker) \/ (SetProv(p, "done") /\ EndOperation)
      BY <2>3 DEF ProvisionRelease, ProvisionReject, Tasked
    <3>. QED BY <1>1, <2>1, <3>1 DEF Tasked, tracker
  <2>4. CASE PermitDrop(p)
    <3>1. /\ UNCHANGED tracker
          /\ \/ prov[p] = "drop" /\ SetProv(p, "uncharge")
             \/ prov[p] = "refused" /\ SetProv(p, "unqueue")
      BY <2>4, Zenon DEF PermitDrop, SetProv
    <3>. QED BY <1>1, <2>1, <3>1 DEF Tasked, tracker
  <2>5. CASE PermitUncharge(p)
    BY <1>1, <2>1, <2>5 DEF PermitUncharge, Tasked, tracker
  <2>. QED BY <1>3, <2>2, <2>3, <2>4, <2>5 DEF ProvisionStep
<1>4. ASSUME NEW c \in WorkspaceIds, CreateStart(c) \/ CreateStep(c) PROVE Tells
  <2>1. /\ UNCHANGED <<prov, refill, loop>> /\ creator' \in [WorkspaceIds -> CreatorRec]
        /\ \A d \in WorkspaceIds \ {c} : creator'[d] = creator[d]
    BY <1>0, <1>4 DEF CreateStart, CreateStep, CreateEnd, CreatePop, CreateEvict, CreateAdopt,
          CreateUnadopt, CreateMiss, CreateFallback, CreateUnboot, pool, Goto, Implements, PoolInv,
          Owners, Types
  <2>2. UNCHANGED <<RunningRefills, RunningProvisions>>
    BY <2>1 DEF RunningRefills, RunningProvisions
  <2>3. CASE CreateStart(c)
    <3>1. creator[c].pc = "idle" /\ creator'[c].pc = "pop"
      BY <1>0, <2>3 DEF CreateStart, Goto, CreatorRec
    <3>2. c \notin RunningCreates /\ RunningCreates' = RunningCreates \cup {c}
      BY <2>1, <3>1 DEF RunningCreates
    <3>. QED BY <2>1, <2>2, <2>3, <3>2 DEF Tells, Begins, OneMore, CreateStart, BeginOperation
  <2>4. CASE CreateEnd(c)
    <3>1. creator[c].pc = "end" /\ creator'[c].pc = "done"
      BY <1>0, <2>4 DEF CreateEnd, CreatorRec, Idle
    <3>2. c \notin RunningCreates' /\ RunningCreates = RunningCreates' \cup {c}
      BY <2>1, <3>1 DEF RunningCreates
    <3>. QED BY <2>1, <2>2, <2>4, <3>2 DEF Tells, Finishes, OneMore, CreateEnd, EndOperation
  <2>5. CASE CreateStep(c) /\ ~CreateEnd(c)
    <3>1. UNCHANGED tracker /\ creator[c].pc \notin {"idle", "done"}
      BY <2>5 DEF CreateStep, CreatePop, CreateEvict, CreateAdopt, CreateUnadopt, CreateMiss,
                  CreateFallback, CreateUnboot
    <3>2. creator'[c].pc \notin {"idle", "done"}
      BY <1>0, <2>5 DEF CreateStep, CreatePop, CreateEvict, CreateAdopt, CreateUnadopt, CreateMiss,
                  CreateFallback, CreateUnboot, Goto, CreatorRec
    <3>3. RunningCreates' = RunningCreates
      BY <2>1, <3>1, <3>2 DEF RunningCreates
    <3>. QED BY <2>1, <2>2, <3>1, <3>3 DEF Tells, tracker
  <2>. QED BY <1>4, <2>3, <2>4, <2>5
<1>5. CASE Close \/ Drain \/ DrainReap \/ DrainEnd \/ UNCHANGED vars
  BY <1>5 DEF Close, Drain, DrainReap, DrainEnd, vars, pool, tracker, Tells, RunningRefills,
              RunningProvisions, RunningCreates
<1>6. CASE LoopExit
  BY <1>6 DEF LoopExit, EndOperation, pool, Tells, RunningRefills, RunningProvisions, RunningCreates
<1>. QED BY <1>2, <1>3, <1>4, <1>5, <1>6 DEF Next, ShutdownStep, Down

\* Nothing starts after the close, so nothing runs once nothing did.
LEMMA StoppingStep ==
    ASSUME PoolInv, Counted, Stopping, Tells, [Next]_vars
    PROVE  Stopping'
<1>0. down \in DownRec
  BY DEF PoolInv, Owners, Types
<1>1. NoneRunning /\ ~accepting => NoneRunning'
  BY DEF Tells, NoneRunning, Finishes, OneMore
<1>2. ASSUME UNCHANGED <<down, accepting>>, NoneRunning => UNCHANGED members PROVE Stopping'
  BY <1>1, <1>2 DEF Stopping
<1>3. ASSUME NEW r \in Refills, LoopTick(r) \/ RefillStep(r) PROVE Stopping'
  BY <1>2, <1>3 DEF LoopTick, RefillStep, RefillReserve, RefillSpawn, RefillEnd, BeginOperation,
                    EndOperation, tracker, pool
<1>4. ASSUME NEW p \in PoolIds, ProvisionStep(p) PROVE Stopping'
  <2>1. UNCHANGED <<down, accepting>> /\ (prov[p] = "push" \/ UNCHANGED members)
    BY <1>4 DEF ProvisionStep, ProvisionFail, ProvisionComplete, ProvisionPush, ProvisionRelease,
                ProvisionReject, PermitDrop, PermitUncharge, EndOperation, tracker
  <2>2. prov[p] = "push" => ~NoneRunning
    BY DEF NoneRunning, RunningProvisions, Tasked
  <2>. QED BY <1>2, <2>1, <2>2
<1>5. ASSUME NEW c \in WorkspaceIds, CreateStart(c) \/ CreateStep(c) PROVE Stopping'
  <2>1. UNCHANGED <<down, accepting>> /\ (creator[c].pc = "pop" \/ UNCHANGED members)
    BY <1>5 DEF CreateStart, CreateStep, CreateEnd, CreatePop, CreateEvict, CreateAdopt, CreateUnadopt,
          CreateMiss, CreateFallback, CreateUnboot, BeginOperation, EndOperation, tracker, pool
  <2>2. creator[c].pc = "pop" => ~NoneRunning
    BY DEF NoneRunning, RunningCreates
  <2>. QED BY <1>2, <2>1, <2>2
<1>6. CASE LoopExit \/ UNCHANGED vars
  BY <1>2, <1>6 DEF LoopExit, EndOperation, pool, vars, tracker
<1>7. CASE Close
  BY <1>0, <1>7 DEF Close, Stopping, DownRec
<1>8. CASE Drain
  <2>1. IsFiniteSet(RunningRefills) /\ Cardinality(RunningRefills) \in Nat
    BY FS_CardinalityType DEF Counted
  <2>2. /\ loop # "run" /\ Cardinality(RunningRefills) = 0 /\ Cardinality(RunningProvisions) = 0
        /\ Cardinality(RunningCreates) = 0
    BY <1>8, <2>1, CountFinite DEF Drain, Counted
  <2>3. NoneRunning
    BY <2>1, <2>2, CountFinite, FS_EmptySet DEF NoneRunning
  <2>. QED BY <1>1, <1>8, <2>3 DEF Drain, Stopping, tracker
<1>9. CASE DrainReap \/ DrainEnd
  <2>1. /\ down.pc = "reap" /\ UNCHANGED <<accepting, members>> /\ down'.pc \in {"reap", "down"}
        /\ down'.pc = "down" => down'.todo = {}
    BY <1>0, <1>9, Zenon DEF DrainReap, DrainEnd, tracker, pool, DownRec
  <2>. QED BY <1>1, <2>1 DEF Stopping
<1>. QED BY <1>3, <1>4, <1>5, <1>6, <1>7, <1>8, <1>9 DEF Next, ShutdownStep, Down

\* A warm VM changes hands and is never dropped.
LEMMA WarmOwnedStep ==
    ASSUME PoolInv, Slots, Stopping, WarmOwned, Implements, [Next]_vars
    PROVE  WarmOwned'
<1>0. /\ prov \in [PoolIds -> ProvStage] /\ pvm \in [PoolIds -> VmStatus]
      /\ creator \in [WorkspaceIds -> CreatorRec] /\ members \in Seq(PoolIds) /\ Unrepeated
      /\ down \in DownRec
  BY DEF PoolInv, Owners, Types, MemberGuards
<1>1. ASSUME UNCHANGED <<pvm, members, creator>>, down'.todo = down.todo,
             \A p \in PoolIds : prov[p] \in {"boot", "push", "reject"} => prov'[p] = prov[p]
      PROVE  WarmOwned'
  BY <1>1 DEF WarmOwned, WarmOwner, Stowed, Queue, Held
<1>2. ASSUME NEW r \in Refills, LoopTick(r) \/ RefillStep(r) PROVE WarmOwned'
  <2>1. CASE LoopTick(r) \/ RefillEnd(r)
    BY <1>1, <2>1 DEF LoopTick, RefillEnd, pool
  <2>2. CASE RefillReserve(r)
    BY <1>1, <2>2, SlotsTaken, Zenon DEF RefillReserve
  <2>3. CASE RefillSpawn(r)
    <3>1. PICK p \in PoolIds : /\ prov[p] = "queued"
                               /\ \/ SetProv(p, "boot") /\ SetVm(p, "Running")
                                  \/ SetProv(p, "refused") /\ UNCHANGED pvm
      BY <2>3 DEF RefillSpawn, PoolInv, Owners, Types, RefillRec
    <3>2. /\ UNCHANGED <<members, creator, down>>
          /\ \A q \in PoolIds \ {p} : prov'[q] = prov[q] /\ pvm'[q] = pvm[q]
          /\ prov'[p] = "boot" \/ pvm'[p] = pvm[p]
      BY <1>0, <2>3, <3>1 DEF RefillSpawn, SetProv, SetVm
    <3>3. pvm[p] # "Running"
      BY <3>1 DEF PoolInv, Owners, PermitGuards, Quiescent
    <3>. QED BY <3>2, <3>3 DEF WarmOwned, WarmOwner, Stowed, Queue, Held
  <2>. QED BY <1>2, <2>1, <2>2, <2>3 DEF RefillStep
<1>3. ASSUME NEW p \in PoolIds, ProvisionStep(p) PROVE WarmOwned'
  <2>1. /\ UNCHANGED <<creator, down>>
        /\ \A q \in PoolIds \ {p} : prov'[q] = prov[q] /\ pvm'[q] = pvm[q]
        /\ UNCHANGED members \/ (ProvisionPush(p) /\ members' = Append(members, p))
    BY <1>0, <1>3 DEF ProvisionStep, ProvisionFail, ProvisionComplete, ProvisionPush, ProvisionRelease,
                ProvisionReject, PermitDrop, PermitUncharge, SetProv, SetVm
  <2>2. \/ pvm'[p] # "Running" \/ prov'[p] \in {"push", "reject"} \/ ProvisionPush(p)
        \/ prov[p] \notin {"boot", "push", "reject"} /\ UNCHANGED pvm
    BY <1>0, <1>3 DEF ProvisionStep, ProvisionFail, ProvisionComplete, ProvisionRelease,
                ProvisionReject, PermitDrop, PermitUncharge, SetProv, SetVm
  <2>3. Queue \subseteq Queue' /\ (ProvisionPush(p) => p \in Queue')
    <3>1. CASE UNCHANGED members /\ ~ProvisionPush(p)
      BY <3>1 DEF Queue
    <3>2. CASE ProvisionPush(p)
      <4>1. p \notin Queue /\ members' = Append(members, p)
        BY <3>2 DEF ProvisionPush, PoolInv, Owners, MemberGuards, Stowed
      <4>. QED BY <1>0, <4>1, AppendQueue
    <3>. QED BY <2>1, <3>1, <3>2
  <2>. QED BY <2>1, <2>2, <2>3 DEF WarmOwned, WarmOwner, Stowed, Held
<1>4. ASSUME NEW c \in WorkspaceIds, CreateStart(c) \/ CreateStep(c) PROVE WarmOwned'
  <2>1. UNCHANGED <<prov, down>>
    BY <1>4 DEF CreateStart, CreateStep, CreateEnd, CreatePop, CreateEvict, CreateAdopt, CreateUnadopt,
          CreateMiss, CreateFallback, CreateUnboot, pool
  <2>2. creator' \in [WorkspaceIds -> CreatorRec] /\ \A d \in WorkspaceIds \ {c} : creator'[d] = creator[d]
    BY <1>0, <1>4 DEF CreateStart, CreateStep, CreateEnd, CreatePop, CreateEvict, CreateAdopt,
          CreateUnadopt, CreateMiss, CreateFallback, CreateUnboot, Goto, Implements, PoolInv,
          Owners, Types
  <2>3. CASE CreatePop(c) /\ members # <<>>
    <3>1. members' = Tail(members) /\ creator'[c].member = Head(members) /\ UNCHANGED pvm
      BY <1>0, <2>3 DEF CreatePop, CreatorRec
    <3>2. Queue' = Queue \ {Head(members)}
      BY <1>0, <2>3, <3>1, TailQueue
    <3>3. Held(c) \notin PoolIds
      BY <2>3, PoolConstants DEF CreatePop, PoolInv, Owners, CreatorGuards
    <3>. QED BY <2>1, <2>2, <3>1, <3>2, <3>3 DEF WarmOwned, WarmOwner, Stowed, Held
  <2>4. CASE ~(CreatePop(c) /\ members # <<>>)
    <3>1. UNCHANGED members
      BY <1>4, <2>4 DEF CreateStart, CreateStep, CreateEnd, CreatePop, CreateEvict, CreateAdopt,
          CreateUnadopt, CreateMiss, CreateFallback, CreateUnboot, pool
    <3>2. \/ UNCHANGED pvm /\ (creator'[c].member = Held(c) \/ Held(c) = None)
          \/ \E status \in {"Dead", "Lost", "Adopted"} : SetVm(Held(c), status)
      BY <1>0, <1>4, <2>4 DEF CreateStart, CreateStep, CreateEnd, CreatePop, CreateEvict, CreateAdopt,
          CreateUnadopt, CreateMiss, CreateFallback, CreateUnboot, pool, Goto, ReapAndRelease, CreatorRec,
          Held, PoolInv, Owners, CreatorGuards
    <3>3. \A p \in PoolIds : pvm'[p] = "Running" =>
             pvm[p] = "Running" /\ (p = Held(c) => creator'[c].member = Held(c))
      BY <1>0, <3>2, PoolConstants DEF SetVm
    <3>. QED BY <2>1, <2>2, <3>1, <3>3 DEF WarmOwned, WarmOwner, Stowed, Queue, Held
  <2>. QED BY <2>3, <2>4
<1>5. CASE Drain
  <2>1. UNCHANGED <<prov, pvm, creator>> /\ Queue \subseteq down'.todo /\ down'.todo = Queue
    BY <1>5 DEF Drain
  <2>2. down.todo = {}
    BY <1>5 DEF Drain, Stopping
  <2>. QED BY <2>1, <2>2 DEF WarmOwned, WarmOwner, Stowed, Held
<1>6. CASE DrainReap
  <2>1. PICK p \in down.todo : /\ ReapAndRelease(p, <<"Ready", p>>)
                               /\ down' = [down EXCEPT !.todo = @ \ {p}]
    BY <1>6, Zenon DEF DrainReap
  <2>2. p \in PoolIds /\ down'.todo = down.todo \ {p} /\ UNCHANGED <<prov, members, creator>>
    BY <1>0, <1>6, <2>1 DEF DownRec, DrainReap
  <2>3. pvm'[p] # "Running" /\ \A q \in PoolIds \ {p} : pvm'[q] = pvm[q]
    BY <1>0, <2>1, <2>2 DEF ReapAndRelease, SetVm
  <2>. QED BY <2>2, <2>3 DEF WarmOwned, WarmOwner, Stowed, Queue, Held
<1>7. CASE LoopExit \/ Close \/ DrainEnd \/ UNCHANGED vars
  BY <1>0, <1>1, <1>7 DEF LoopExit, Close, DrainEnd, vars, pool, DownRec
<1>. QED BY <1>2, <1>3, <1>4, <1>5, <1>6, <1>7 DEF Next, ShutdownStep, Down

\* At the start only the refill loop is tracked.
LEMMA PoolCountInit == Init => PoolCountInv
<1>. SUFFICES ASSUME Init PROVE PoolCountInv
  OBVIOUS
<1>1. Queue = {} /\ PermitsOut = {} /\ Coming = {} /\ Cardinality({}) = 0 /\ {} \cup {} = {}
  BY FS_EmptySet DEF Init, Queue, PermitsOut, Coming
<1>2. Slots
  BY <1>1, PoolConstants DEF Slots, Init, LedgerInit
<1>3. RunningRefills = {} /\ RunningProvisions = {} /\ RunningCreates = {}
  BY DEF Init, RunningRefills, RunningProvisions, RunningCreates, Idle, Tasked
<1>4. Counted
  BY <1>3, FS_EmptySet DEF Counted, Init
<1>5. Stopping /\ WarmOwned
  BY DEF Init, Stopping, WarmOwned
<1>. QED BY <1>2, <1>4, <1>5, PoolInitInv DEF PoolCountInv, Counts

\* Slots, tracker and shutdown in every reachable state: a permit has a slot until it
\* drops (ProvisionPermit::drop), TrackedOperation counts what runs, and close stops
\* new operations before the drain.
THEOREM PoolCounts == Spec => []PoolCountInv
<1>1. Init => PoolCountInv
  BY PoolCountInit
<1>2. PoolCountInv /\ [Next]_vars => PoolCountInv'
  <2>. SUFFICES ASSUME PoolCountInv, [Next]_vars PROVE PoolCountInv'
    OBVIOUS
  <2>1. PoolInv /\ Slots /\ Counted /\ Stopping /\ WarmOwned
    BY DEF PoolCountInv, Counts
  <2>2. Implements
    BY <2>1, PoolStep
  <2>3. Tells
    BY <2>1, <2>2, TellsStep
  <2>4. Slots' /\ Counted' /\ Stopping' /\ WarmOwned'
    BY <2>1, <2>2, <2>3, SlotsStep, CountKept, StoppingStep, WarmOwnedStep
  <2>. QED BY <2>2, <2>4 DEF PoolCountInv, Counts, Implements
<1>. QED BY <1>1, <1>2, PTL DEF Spec

\* In-flight slots are those of the permits out, except the ones a fault leaks, and
\* with the queued members they never exceed the target, however refills overlap.
THEOREM SlotsNeverLeakAlways == Spec => []SlotsNeverLeak
<1>1. PoolCountInv => SlotsNeverLeak
  <2>. SUFFICES ASSUME PoolCountInv PROVE SlotsNeverLeak
    OBVIOUS
  <2>1. PoolInv /\ Slots /\ Counted
    BY DEF PoolCountInv, Counts
  <2>2. PermitsOut \in SUBSET PoolIds
    BY DEF PermitsOut
  <2>3. in_flight \in Nat
    BY <2>1, <2>2, PoolSetFinite DEF Slots, PoolInv, Owners, Types
  <2>4. active \in Nat
    BY <2>1, CountFinite, FS_CardinalityType DEF Counted
  <2>5. TypeOK
    BY <2>1, <2>3, <2>4 DEF TypeOK, PoolInv, Owners, Types, CreatorRec
  <2>. QED BY <2>1, <2>5 DEF SlotsNeverLeak, Slots, Coming
<1>. QED BY <1>1, PoolCounts, PTL

\* When shutdown has returned no warm VM runs and no member is queued, whichever
\* provisions and creates were under way when the pool was closed.
THEOREM ShutdownLeavesNoWarmVmAlways == Spec => []ShutdownLeavesNoWarmVm
<1>1. PoolCountInv => ShutdownLeavesNoWarmVm
  <2>. SUFFICES ASSUME PoolCountInv, down.pc = "down", NEW p \in PoolIds
                PROVE  pvm[p] # "Running" /\ p \notin Queue
    BY DEF ShutdownLeavesNoWarmVm
  <2>1. PoolInv /\ Stopping /\ WarmOwned
    BY DEF PoolCountInv, Counts
  <2>2. Stowed = {} /\ Queue = {} /\ NoneRunning
    BY <2>1 DEF Stopping, Stowed, Queue
  <2>3. \A c \in WorkspaceIds : Held(c) # p
    BY <2>1, <2>2, PoolConstants DEF NoneRunning, RunningCreates, PoolInv, Owners, CreatorGuards
  <2>4. prov[p] \notin {"boot", "push", "reject"}
    BY <2>2 DEF NoneRunning, RunningProvisions, Tasked
  <2>. QED BY <2>1, <2>2, <2>3, <2>4 DEF WarmOwned, WarmOwner
<1>. QED BY <1>1, PoolCounts, PTL
=============================================================================
