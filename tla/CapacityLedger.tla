----------------------------- MODULE CapacityLedger -----------------------------
(***************************************************************************)
(* The supervisor's capacity ledger (ne-supervisor, capacity.rs): one      *)
(* mutex-protected table of workspace and warm-pool entries, every entry   *)
(* owned by a guard object whose Drop releases it.                         *)
(*                                                                         *)
(* Each method of the ledger or of a guard runs under the ledger mutex, so *)
(* it is one action.  A fallible method takes its outcome as the argument  *)
(* ok: callers in other modules conjoin Method(..., TRUE) or               *)
(* Method(..., FALSE) with what they do next.  `guards' is the set of the  *)
(* guard objects whose entry_id is Some(_); mem::forget of a guard leaves  *)
(* it there for ever, which is what forgetting does.  CPU and memory       *)
(* dimensions are not kept: no admission decision reads them.              *)
(***************************************************************************)
EXTENDS Integers, FiniteSets

CONSTANTS
    WorkspaceIds,   \* caller-selected workspace ids
    Ceiling,        \* configured_workspace_ceiling (a u32)
    MaxRevision,    \* the largest revision (u64::MAX in the code)
    MaxPoolId       \* the largest next_pool_id (u64::MAX in the code)

ASSUME LedgerConstants ==
    /\ IsFiniteSet(WorkspaceIds)
    /\ Ceiling \in Nat
    /\ MaxRevision \in Nat
    /\ MaxPoolId \in Nat

VARIABLES
    revision,       \* version of the published inventory
    faulted,        \* terminal: some live process could not be reconciled
    next_pool_id,   \* next fresh pool entry id
    workspaces,     \* workspace entries, "Absent" where the map has no key
    pool_entries,   \* pool entries, "Absent" where the map has no key
    guards          \* <<kind, id>> for each guard that still owns its entry

ledger == <<revision, faulted, next_pool_id, workspaces, pool_entries, guards>>
inventory == <<workspaces, pool_entries>>

PoolIds == 0 .. (MaxPoolId - 1)
WorkspaceState == {"Running", "Paused", "Snapshotting"}
WorkspaceEntry == {"Absent", "Reserved"} \cup WorkspaceState
PoolEntry == {"Absent", "Reserved", "Ready"}
GuardToken == ({"Reservation", "Registered"} \X WorkspaceIds)
              \cup ({"PoolReservation", "Ready"} \X PoolIds)

HeldWorkspaces == {w \in WorkspaceIds : workspaces[w] # "Absent"}
HeldPool == {p \in PoolIds : pool_entries[p] # "Absent"}

\* Mutant: the pool is left out of the count admission compares.
EntryCountWorkspacesOnly == Cardinality(HeldWorkspaces)

EntryCount == Cardinality(HeldWorkspaces) + Cardinality(HeldPool)

LedgerInit ==
    /\ revision = 0
    /\ faulted = FALSE
    /\ next_pool_id = 0
    /\ workspaces = [w \in WorkspaceIds |-> "Absent"]
    /\ pool_entries = [p \in PoolIds |-> "Absent"]
    /\ guards = {}

-----------------------------------------------------------------------------
\* Shared by every fallible method.

Refuse(ok) == ok = FALSE /\ UNCHANGED ledger

\* fault_ledger: no later method gets past ensure_healthy.
FaultLedger ==
    /\ faulted' = TRUE
    /\ UNCHANGED <<revision, next_pool_id, workspaces, pool_entries, guards>>

\* preflight_next_revision / preflight_revision_range: when the revision cannot
\* advance by n the ledger faults and the method fails.
RevisionExhausted(n) == revision + n > MaxRevision

Overflow(ok) == ok = FALSE /\ FaultLedger

-----------------------------------------------------------------------------
\* reserve_workspace.  The revision is preflighted before the duplicate test.
ReserveWorkspace(id, ok) ==
    IF faulted \/ EntryCount >= Ceiling THEN Refuse(ok)
    ELSE IF RevisionExhausted(1) THEN Overflow(ok)
    ELSE IF workspaces[id] # "Absent" THEN Refuse(ok)
    ELSE /\ ok = TRUE
         /\ workspaces' = [workspaces EXCEPT ![id] = "Reserved"]
         /\ guards' = guards \cup {<<"Reservation", id>>}
         /\ revision' = revision + 1
         /\ UNCHANGED <<faulted, next_pool_id, pool_entries>>

\* reserve_pool_batch.  `got' is the set of pool ids reserved; a full ledger,
\* an exhausted id space and a fault all yield the empty batch.
BatchSize(requested) ==
    IF EntryCount > Ceiling THEN 0
    ELSE IF requested <= Ceiling - EntryCount THEN requested
    ELSE Ceiling - EntryCount

ReservePoolBatch(requested, got) ==
    LET count == BatchSize(requested)
        fresh == next_pool_id .. (next_pool_id + count - 1)
    IN IF faulted \/ count = 0 \/ next_pool_id + count > MaxPoolId
       THEN got = {} /\ UNCHANGED ledger
       ELSE IF RevisionExhausted(count) THEN got = {} /\ FaultLedger
       ELSE /\ got = fresh
            /\ next_pool_id' = next_pool_id + count
            /\ pool_entries' = [p \in PoolIds |->
                                  IF p \in fresh THEN "Reserved" ELSE pool_entries[p]]
            /\ guards' = guards \cup ({"PoolReservation"} \X fresh)
            /\ revision' = revision + count
            /\ UNCHANGED <<faulted, workspaces>>

\* WorkspaceCapacityReservation::register_in_place: on failure the reservation
\* still owns its entry.
Register(id, state, ok) ==
    IF faulted \/ workspaces[id] # "Reserved" THEN Refuse(ok)
    ELSE IF RevisionExhausted(1) THEN Overflow(ok)
    ELSE /\ ok = TRUE
         /\ workspaces' = [workspaces EXCEPT ![id] = state]
         /\ guards' = (guards \ {<<"Reservation", id>>}) \cup {<<"Registered", id>>}
         /\ revision' = revision + 1
         /\ UNCHANGED <<faulted, next_pool_id, pool_entries>>

\* Mutant: a state change that publishes no revision.
SetStateUnversioned(id, state, ok) ==
    IF faulted \/ workspaces[id] \notin WorkspaceState THEN Refuse(ok)
    ELSE /\ ok = TRUE
         /\ workspaces' = [workspaces EXCEPT ![id] = state]
         /\ UNCHANGED <<revision, faulted, next_pool_id, pool_entries, guards>>

\* RegisteredWorkspaceCapacityGuard::set_state: setting the state an entry
\* already has succeeds and publishes no revision.
SetState(id, state, ok) ==
    IF faulted \/ workspaces[id] \notin WorkspaceState THEN Refuse(ok)
    ELSE IF workspaces[id] = state THEN ok = TRUE /\ UNCHANGED ledger
    ELSE IF RevisionExhausted(1) THEN Overflow(ok)
    ELSE /\ ok = TRUE
         /\ workspaces' = [workspaces EXCEPT ![id] = state]
         /\ revision' = revision + 1
         /\ UNCHANGED <<faulted, next_pool_id, pool_entries, guards>>

\* PoolCapacityReservation::ready_in_place.
ReadyInPlace(p, ok) ==
    IF faulted \/ pool_entries[p] # "Reserved" THEN Refuse(ok)
    ELSE IF RevisionExhausted(1) THEN Overflow(ok)
    ELSE /\ ok = TRUE
         /\ pool_entries' = [pool_entries EXCEPT ![p] = "Ready"]
         /\ guards' = (guards \ {<<"PoolReservation", p>>}) \cup {<<"Ready", p>>}
         /\ revision' = revision + 1
         /\ UNCHANGED <<faulted, next_pool_id, workspaces>>

\* Mutant: adoption inserts the workspace and forgets to remove the pool entry.
AdoptLeavesPoolEntry(p, id, state, ok) ==
    IF faulted \/ workspaces[id] # "Absent" \/ pool_entries[p] # "Ready" THEN Refuse(ok)
    ELSE IF RevisionExhausted(1) THEN Overflow(ok)
    ELSE /\ ok = TRUE
         /\ workspaces' = [workspaces EXCEPT ![id] = state]
         /\ guards' = (guards \ {<<"Ready", p>>}) \cup {<<"Registered", id>>}
         /\ revision' = revision + 1
         /\ UNCHANGED <<faulted, next_pool_id, pool_entries>>

\* ReadyPoolCapacityGuard::adopt_in_place: the pool entry becomes a workspace
\* entry in one step, so no other reservation can take its place.
AdoptInPlace(p, id, state, ok) ==
    IF faulted \/ workspaces[id] # "Absent" \/ pool_entries[p] # "Ready" THEN Refuse(ok)
    ELSE IF RevisionExhausted(1) THEN Overflow(ok)
    ELSE /\ ok = TRUE
         /\ pool_entries' = [pool_entries EXCEPT ![p] = "Absent"]
         /\ workspaces' = [workspaces EXCEPT ![id] = state]
         /\ guards' = (guards \ {<<"Ready", p>>}) \cup {<<"Registered", id>>}
         /\ revision' = revision + 1
         /\ UNCHANGED <<faulted, next_pool_id>>

\* Drop of any guard (release_entry).  A faulted ledger keeps the entry; an
\* entry that is not there is not a change.
IsWorkspaceGuard(g) == g[1] \in {"Reservation", "Registered"}

EntryOf(g) == IF IsWorkspaceGuard(g) THEN workspaces[g[2]] ELSE pool_entries[g[2]]

RemoveEntry(g) ==
    IF IsWorkspaceGuard(g)
    THEN /\ workspaces' = [workspaces EXCEPT ![g[2]] = "Absent"]
         /\ UNCHANGED pool_entries
    ELSE /\ pool_entries' = [pool_entries EXCEPT ![g[2]] = "Absent"]
         /\ UNCHANGED workspaces

ReleaseEntry(g) ==
    /\ guards' = guards \ {g}
    /\ UNCHANGED next_pool_id
    /\ IF faulted THEN UNCHANGED <<revision, faulted, inventory>>
       ELSE IF RevisionExhausted(1)
       THEN faulted' = TRUE /\ UNCHANGED <<revision, inventory>>
       ELSE IF EntryOf(g) = "Absent" THEN UNCHANGED <<revision, faulted, inventory>>
       ELSE /\ RemoveEntry(g)
            /\ revision' = revision + 1
            /\ UNCHANGED faulted

-----------------------------------------------------------------------------
\* CapacityLedger::snapshot, the inventory a runner reports to its fleet, and
\* RunnerCapacity::validate, which it must pass before it is sent.
RegisteredWorkspaces == {w \in WorkspaceIds : workspaces[w] \in WorkspaceState}
RunnableWorkspaces == {w \in WorkspaceIds : workspaces[w] = "Running"}
ReadyMembers == {p \in PoolIds : pool_entries[p] = "Ready"}

Snapshot ==
    [revision |-> revision,
     registered |-> Cardinality(RegisteredWorkspaces),
     runnable |-> Cardinality(RunnableWorkspaces),
     resident |-> Cardinality(RegisteredWorkspaces) + Cardinality(ReadyMembers),
     warm |-> Cardinality(HeldPool)]

Validates(capacity) ==
    /\ capacity.runnable <= capacity.registered
    /\ capacity.registered <= capacity.resident
    /\ capacity.registered + capacity.warm <= Ceiling

-----------------------------------------------------------------------------
\* The ledger on its own: any caller that holds a guard may use it, and any
\* caller may reserve or fail closed.
Holds(kind, id) == <<kind, id>> \in guards

LedgerNext ==
    \/ \E id \in WorkspaceIds, ok \in BOOLEAN : ReserveWorkspace(id, ok)
    \/ \E n \in 0 .. (Ceiling + 1), got \in SUBSET PoolIds : ReservePoolBatch(n, got)
    \/ \E id \in WorkspaceIds, state \in WorkspaceState, ok \in BOOLEAN :
          Holds("Reservation", id) /\ Register(id, state, ok)
    \/ \E id \in WorkspaceIds, state \in WorkspaceState, ok \in BOOLEAN :
          Holds("Registered", id) /\ SetState(id, state, ok)
    \/ \E p \in PoolIds, ok \in BOOLEAN : Holds("PoolReservation", p) /\ ReadyInPlace(p, ok)
    \/ \E p \in PoolIds, id \in WorkspaceIds, state \in WorkspaceState, ok \in BOOLEAN :
          Holds("Ready", p) /\ AdoptInPlace(p, id, state, ok)
    \/ \E g \in guards : ReleaseEntry(g)
    \/ FaultLedger

LedgerSpec == LedgerInit /\ [][LedgerNext]_ledger

-----------------------------------------------------------------------------
\* Type invariant of CapacityState and of the guards that point into it.
LedgerTypeOK ==
    /\ revision \in 0 .. MaxRevision
    /\ faulted \in BOOLEAN
    /\ next_pool_id \in 0 .. MaxPoolId
    /\ workspaces \in [WorkspaceIds -> WorkspaceEntry]
    /\ pool_entries \in [PoolIds -> PoolEntry]
    /\ guards \in SUBSET GuardToken

\* Admission never exceeds the ceiling, whichever mix of workspace and pool
\* entries fills it and however adoption moves entries between the two maps.
CeilingHeld == EntryCount <= Ceiling

\* The inventory snapshot() assembles always passes RunnerCapacity::validate, so
\* a runner's poll is never dropped for reporting impossible counts.
PublishedInventoryValid == Validates(Snapshot)

\* The state an entry is in while a guard of each kind owns it.
Owned(g) ==
    /\ g[1] = "Reservation" => workspaces[g[2]] = "Reserved"
    /\ g[1] = "Registered" => workspaces[g[2]] \in WorkspaceState
    /\ g[1] = "PoolReservation" => pool_entries[g[2]] = "Reserved"
    /\ g[1] = "Ready" => pool_entries[g[2]] = "Ready"

\* A guard always finds its own entry in the state it was issued for: the
\* MissingEntry and InvalidTransition errors of the guard methods are
\* unreachable, and no guard can release an entry another guard relies on.
GuardsOwnEntries == \A g \in guards : Owned(g)

\* While the ledger is healthy every entry has an owner that will release it:
\* no promotion, adoption or failed call strands capacity.
EveryEntryOwned ==
    ~faulted =>
        /\ \A w \in HeldWorkspaces : Holds("Reservation", w) \/ Holds("Registered", w)
        /\ \A p \in HeldPool : Holds("PoolReservation", p) \/ Holds("Ready", p)

\* Guards and entries correspond: every guard finds its own entry in the state
\* it was issued for, and every entry of a healthy ledger has a guard that will
\* release it, however promotions, adoptions and failed calls interleave.
EntriesOwned == GuardsOwnEntries /\ EveryEntryOwned

\* Two snapshots with the same revision describe the same inventory: every
\* change of an entry publishes a larger revision, one per entry of a batch.
InventoryVersioned == [][inventory' # inventory => revision' > revision]_ledger

\* A fault is terminal: afterwards nothing is admitted, promoted or released,
\* so capacity a lost process may still use is never handed out again.
FaultIsTerminal ==
    [][faulted => faulted' /\ UNCHANGED <<revision, inventory>>]_ledger
=============================================================================
