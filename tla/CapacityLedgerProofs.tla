-------------------------- MODULE CapacityLedgerProofs --------------------------
(***************************************************************************)
(* Proofs about the capacity ledger, for every set of workspace ids, every *)
(* ceiling and every width of the two counters.  The inductive invariant   *)
(* joins the type, the ceiling, guard ownership in both directions and the *)
(* freshness of pool ids: the last is what makes a batch add exactly as    *)
(* many entries as it was granted.                                         *)
(***************************************************************************)
EXTENDS CapacityLedger, FiniteSetTheorems, TLAPS

\* The time each leaf may take: SMT first, then Zenon.
USE SMTT(20), ZenonT(20)

\* reserve_pool_batch hands out ids no entry has used.
PoolIdsFresh == \A p \in PoolIds : p >= next_pool_id => pool_entries[p] = "Absent"

LedgerInv ==
    /\ LedgerTypeOK
    /\ CeilingHeld
    /\ GuardsOwnEntries
    /\ EveryEntryOwned
    /\ PoolIdsFresh

\* The two entry maps are finite, so their sizes are natural numbers.
LEMMA HeldFinite ==
    /\ IsFiniteSet(HeldWorkspaces) /\ Cardinality(HeldWorkspaces) \in Nat
    /\ IsFiniteSet(HeldPool) /\ Cardinality(HeldPool) \in Nat
    /\ EntryCount \in Nat
<1>1. IsFiniteSet(PoolIds)
  BY FS_Interval, LedgerConstants DEF PoolIds
<1>2. IsFiniteSet(HeldWorkspaces) /\ IsFiniteSet(HeldPool)
  BY <1>1, FS_Subset, LedgerConstants DEF HeldWorkspaces, HeldPool
<1>. QED BY <1>2, FS_CardinalityType DEF EntryCount

\* EntryCount in the next state, from the two maps of the next state.
LEMMA HeldFiniteNext ==
    /\ IsFiniteSet(HeldWorkspaces') /\ Cardinality(HeldWorkspaces') \in Nat
    /\ IsFiniteSet(HeldPool') /\ Cardinality(HeldPool') \in Nat
    /\ EntryCount' \in Nat
<1>1. IsFiniteSet(PoolIds)
  BY FS_Interval, LedgerConstants DEF PoolIds
<1>2. IsFiniteSet(HeldWorkspaces') /\ IsFiniteSet(HeldPool')
  BY <1>1, FS_Subset, LedgerConstants DEF HeldWorkspaces, HeldPool, PoolIds
<1>. QED BY <1>2, FS_CardinalityType DEF EntryCount

\* The initial ledger is empty.
LEMMA LedgerInitInv == LedgerInit => LedgerInv
<1>. SUFFICES ASSUME LedgerInit PROVE LedgerInv
  OBVIOUS
<1>1. LedgerTypeOK
  <2>1. faulted \in BOOLEAN
    BY Zenon DEF LedgerInit
  <2>2. revision \in 0 .. MaxRevision /\ next_pool_id \in 0 .. MaxPoolId
    BY LedgerConstants DEF LedgerInit
  <2>3. workspaces \in [WorkspaceIds -> WorkspaceEntry] /\ pool_entries \in [PoolIds -> PoolEntry]
    BY DEF LedgerInit, WorkspaceEntry, PoolEntry
  <2>. QED BY <2>1, <2>2, <2>3 DEF LedgerInit, LedgerTypeOK
<1>2. CeilingHeld
  <2>1. HeldWorkspaces = {} /\ HeldPool = {}
    BY DEF LedgerInit, HeldWorkspaces, HeldPool
  <2>. QED BY <2>1, FS_EmptySet, LedgerConstants DEF CeilingHeld, EntryCount
<1>3. GuardsOwnEntries /\ EveryEntryOwned /\ PoolIdsFresh
  BY DEF LedgerInit, GuardsOwnEntries, EveryEntryOwned, HeldWorkspaces, HeldPool, PoolIdsFresh
<1>. QED BY <1>1, <1>2, <1>3 DEF LedgerInv

\* A method that changes nothing preserves the invariant.
LEMMA StutterInv == LedgerInv /\ UNCHANGED ledger => LedgerInv'
BY DEF LedgerInv, ledger, LedgerTypeOK, CeilingHeld, EntryCount, HeldWorkspaces, HeldPool,
       GuardsOwnEntries, Owned, EveryEntryOwned, Holds, PoolIdsFresh

\* Failing closed (and a revision overflow) only sets the flag.
LEMMA FaultInv == LedgerInv /\ FaultLedger => LedgerInv'
<1>. SUFFICES ASSUME LedgerInv, FaultLedger PROVE LedgerInv'
  OBVIOUS
<1>1. faulted' /\ faulted' \in BOOLEAN
  BY Zenon DEF FaultLedger
<1>. QED
  BY <1>1 DEF LedgerInv, FaultLedger, LedgerTypeOK, CeilingHeld, EntryCount, HeldWorkspaces,
       HeldPool, GuardsOwnEntries, Owned, EveryEntryOwned, Holds, PoolIdsFresh

\* Admitting one workspace below the ceiling.
LEMMA ReserveWorkspaceInv ==
    ASSUME LedgerInv, NEW id \in WorkspaceIds, NEW ok \in BOOLEAN, ReserveWorkspace(id, ok)
    PROVE  LedgerInv'
<1>1. CASE UNCHANGED ledger
  BY <1>1, StutterInv
<1>2. CASE FaultLedger
  BY <1>2, FaultInv
<1>3. CASE ~(UNCHANGED ledger) /\ ~FaultLedger
  <2>1. /\ ~faulted /\ EntryCount < Ceiling /\ ~RevisionExhausted(1)
        /\ workspaces[id] = "Absent"
        /\ workspaces' = [workspaces EXCEPT ![id] = "Reserved"]
        /\ guards' = guards \cup {<<"Reservation", id>>}
        /\ revision' = revision + 1
        /\ UNCHANGED <<faulted, next_pool_id, pool_entries>>
    BY <1>3, HeldFinite, LedgerConstants DEF ReserveWorkspace, Refuse, Overflow
  <2>2. LedgerTypeOK'
    BY <2>1, LedgerConstants DEF LedgerInv, LedgerTypeOK, RevisionExhausted, WorkspaceEntry, GuardToken
  <2>3. CeilingHeld'
    <3>1. HeldWorkspaces' = HeldWorkspaces \cup {id} /\ id \notin HeldWorkspaces
      BY <2>1 DEF LedgerInv, LedgerTypeOK, HeldWorkspaces
    <3>2. HeldPool' = HeldPool
      BY <2>1 DEF HeldPool
    <3>3. Cardinality(HeldWorkspaces') = Cardinality(HeldWorkspaces) + 1
      BY <3>1, HeldFinite, FS_AddElement, Zenon
    <3>. QED BY <3>2, <3>3, <2>1, HeldFinite, LedgerConstants DEF CeilingHeld, EntryCount
  <2>4. GuardsOwnEntries'
    BY <2>1 DEF LedgerInv, LedgerTypeOK, GuardsOwnEntries, Owned, GuardToken, WorkspaceState
  <2>5. EveryEntryOwned'
    BY <2>1 DEF LedgerInv, LedgerTypeOK, EveryEntryOwned, Holds, HeldWorkspaces, HeldPool
  <2>6. PoolIdsFresh'
    BY <2>1 DEF LedgerInv, PoolIdsFresh
  <2>. QED BY <2>2, <2>3, <2>4, <2>5, <2>6 DEF LedgerInv
<1>. QED BY <1>1, <1>2, <1>3

\* A granted batch adds exactly its own fresh ids.
LEMMA ReservePoolBatchInv ==
    ASSUME LedgerInv, NEW n \in 0 .. (Ceiling + 1), NEW got \in SUBSET PoolIds,
           ReservePoolBatch(n, got)
    PROVE  LedgerInv'
<1>. DEFINE count == BatchSize(n)
            fresh == next_pool_id .. (next_pool_id + count - 1)
<1>0. count \in Nat /\ EntryCount + count <= Ceiling /\ next_pool_id \in Nat
  BY HeldFinite, LedgerConstants DEF BatchSize, LedgerInv, CeilingHeld, LedgerTypeOK
<1>1. CASE UNCHANGED ledger
  BY <1>1, StutterInv
<1>2. CASE FaultLedger
  BY <1>2, FaultInv
<1>3. CASE ~(UNCHANGED ledger) /\ ~FaultLedger
  <2>1. /\ count # 0 /\ next_pool_id + count <= MaxPoolId /\ ~RevisionExhausted(count)
        /\ next_pool_id' = next_pool_id + count
        /\ pool_entries' = [p \in PoolIds |->
                              IF p \in fresh THEN "Reserved" ELSE pool_entries[p]]
        /\ guards' = guards \cup ({"PoolReservation"} \X fresh)
        /\ revision' = revision + count
        /\ UNCHANGED <<faulted, workspaces>>
    BY <1>0, <1>3, LedgerConstants DEF ReservePoolBatch
  <2>. HIDE DEF count
  <2>2. fresh \subseteq PoolIds /\ fresh \cap HeldPool = {}
    BY <1>0, <2>1, LedgerConstants DEF PoolIds, HeldPool, LedgerInv, PoolIdsFresh
  <2>3. LedgerTypeOK'
    <3>1. next_pool_id' \in 0 .. MaxPoolId /\ revision' \in 0 .. MaxRevision
      BY <1>0, <2>1, LedgerConstants DEF LedgerInv, LedgerTypeOK, RevisionExhausted
    <3>2. pool_entries' \in [PoolIds -> PoolEntry]
      BY <2>1 DEF LedgerInv, LedgerTypeOK, PoolEntry
    <3>3. guards' \in SUBSET GuardToken
      BY <2>1, <2>2 DEF LedgerInv, LedgerTypeOK, GuardToken
    <3>. QED BY <2>1, <3>1, <3>2, <3>3 DEF LedgerInv, LedgerTypeOK
  <2>4. CeilingHeld'
    <3>1. HeldPool' = HeldPool \cup fresh
      BY <2>1, <2>2 DEF HeldPool
    <3>2. IsFiniteSet(fresh) /\ Cardinality(fresh) = count
      BY <1>0, <2>1, FS_Interval
    <3>3. Cardinality(HeldPool') = Cardinality(HeldPool) + count
      <4>. HIDE DEF fresh
      <4>1. Cardinality(HeldPool \cup fresh) =
               Cardinality(HeldPool) + Cardinality(fresh) - Cardinality(HeldPool \cap fresh)
        BY <3>2, HeldFinite, FS_Union
      <4>2. HeldPool \cap fresh = {}
        BY <2>2
      <4>. QED BY <1>0, <3>1, <3>2, <4>1, <4>2, HeldFinite, FS_EmptySet
    <3>4. HeldWorkspaces' = HeldWorkspaces
      BY <2>1 DEF HeldWorkspaces
    <3>. QED BY <1>0, <3>3, <3>4, HeldFinite, LedgerConstants DEF CeilingHeld, EntryCount
  <2>5. GuardsOwnEntries'
    <3>. SUFFICES ASSUME NEW g \in guards' PROVE Owned(g)'
      BY DEF GuardsOwnEntries
    <3>1. CASE g \in guards
      <4>1. Owned(g) /\ g \in GuardToken
        BY <3>1 DEF LedgerInv, LedgerTypeOK, GuardsOwnEntries
      <4>2. g[1] \in {"PoolReservation", "Ready"} => g[2] \in HeldPool /\ g[2] \notin fresh
        BY <4>1, <2>2 DEF Owned, HeldPool, GuardToken
      <4>. QED BY <2>1, <4>1, <4>2 DEF Owned, HeldPool
    <3>2. CASE g \in {"PoolReservation"} \X fresh
      BY <2>1, <2>2, <3>2 DEF Owned
    <3>. QED BY <2>1, <3>1, <3>2
  <2>6. EveryEntryOwned'
    BY <2>1, <2>2 DEF LedgerInv, EveryEntryOwned, Holds, HeldWorkspaces, HeldPool
  <2>7. PoolIdsFresh'
    <3>. SUFFICES ASSUME NEW p \in PoolIds, p >= next_pool_id + count
                  PROVE  pool_entries'[p] = "Absent"
      BY <2>1 DEF PoolIdsFresh
    <3>1. p \notin fresh /\ p >= next_pool_id
      BY <1>0, LedgerConstants DEF PoolIds
    <3>. QED BY <2>1, <3>1 DEF LedgerInv, PoolIdsFresh
  <2>. QED BY <2>3, <2>4, <2>5, <2>6, <2>7 DEF LedgerInv
<1>. QED BY <1>1, <1>2, <1>3

\* Promoting a reservation moves ownership from one guard to the other.
LEMMA RegisterInv ==
    ASSUME LedgerInv, NEW id \in WorkspaceIds, NEW state \in WorkspaceState,
           NEW ok \in BOOLEAN, Holds("Reservation", id), Register(id, state, ok)
    PROVE  LedgerInv'
<1>1. CASE UNCHANGED ledger
  BY <1>1, StutterInv
<1>2. CASE FaultLedger
  BY <1>2, FaultInv
<1>3. CASE ~(UNCHANGED ledger) /\ ~FaultLedger
  <2>1. /\ ~faulted /\ ~RevisionExhausted(1) /\ workspaces[id] = "Reserved"
        /\ workspaces' = [workspaces EXCEPT ![id] = state]
        /\ guards' = (guards \ {<<"Reservation", id>>}) \cup {<<"Registered", id>>}
        /\ revision' = revision + 1
        /\ UNCHANGED <<faulted, next_pool_id, pool_entries>>
    BY <1>3 DEF Register, Refuse, Overflow
  <2>2. LedgerTypeOK'
    BY <2>1, LedgerConstants DEF LedgerInv, LedgerTypeOK, RevisionExhausted, WorkspaceEntry, GuardToken
  <2>3. CeilingHeld'
    <3>1. HeldWorkspaces' = HeldWorkspaces /\ HeldPool' = HeldPool
      BY <2>1 DEF LedgerInv, LedgerTypeOK, HeldWorkspaces, HeldPool, WorkspaceState
    <3>. QED BY <3>1 DEF LedgerInv, CeilingHeld, EntryCount
  <2>4. GuardsOwnEntries'
    BY <2>1 DEF LedgerInv, LedgerTypeOK, GuardsOwnEntries, Owned, GuardToken, WorkspaceState
  <2>5. EveryEntryOwned'
    BY <2>1 DEF LedgerInv, LedgerTypeOK, EveryEntryOwned, Holds, HeldWorkspaces, HeldPool
  <2>6. PoolIdsFresh'
    BY <2>1 DEF LedgerInv, PoolIdsFresh
  <2>. QED BY <2>2, <2>3, <2>4, <2>5, <2>6 DEF LedgerInv
<1>. QED BY <1>1, <1>2, <1>3

\* A state change keeps the entry and its guard.
LEMMA SetStateInv ==
    ASSUME LedgerInv, NEW id \in WorkspaceIds, NEW state \in WorkspaceState,
           NEW ok \in BOOLEAN, SetState(id, state, ok)
    PROVE  LedgerInv'
<1>1. CASE UNCHANGED ledger
  BY <1>1, StutterInv
<1>2. CASE FaultLedger
  BY <1>2, FaultInv
<1>3. CASE ~(UNCHANGED ledger) /\ ~FaultLedger
  <2>1. /\ ~faulted /\ ~RevisionExhausted(1) /\ workspaces[id] \in WorkspaceState
        /\ workspaces' = [workspaces EXCEPT ![id] = state]
        /\ revision' = revision + 1
        /\ UNCHANGED <<faulted, next_pool_id, pool_entries, guards>>
    BY <1>3 DEF SetState, Refuse, Overflow
  <2>2. LedgerTypeOK'
    BY <2>1, LedgerConstants DEF LedgerInv, LedgerTypeOK, RevisionExhausted, WorkspaceEntry
  <2>3. CeilingHeld'
    <3>1. HeldWorkspaces' = HeldWorkspaces /\ HeldPool' = HeldPool
      BY <2>1 DEF LedgerInv, LedgerTypeOK, HeldWorkspaces, HeldPool, WorkspaceState
    <3>. QED BY <3>1 DEF LedgerInv, CeilingHeld, EntryCount
  <2>4. GuardsOwnEntries'
    BY <2>1 DEF LedgerInv, LedgerTypeOK, GuardsOwnEntries, Owned, GuardToken, WorkspaceState
  <2>5. EveryEntryOwned'
    BY <2>1 DEF LedgerInv, LedgerTypeOK, EveryEntryOwned, Holds, HeldWorkspaces, HeldPool,
                WorkspaceState
  <2>6. PoolIdsFresh'
    BY <2>1 DEF LedgerInv, PoolIdsFresh
  <2>. QED BY <2>2, <2>3, <2>4, <2>5, <2>6 DEF LedgerInv
<1>. QED BY <1>1, <1>2, <1>3

\* A pool reservation becomes ready; the entry stays counted.
LEMMA ReadyInPlaceInv ==
    ASSUME LedgerInv, NEW p \in PoolIds, NEW ok \in BOOLEAN,
           Holds("PoolReservation", p), ReadyInPlace(p, ok)
    PROVE  LedgerInv'
<1>1. CASE UNCHANGED ledger
  BY <1>1, StutterInv
<1>2. CASE FaultLedger
  BY <1>2, FaultInv
<1>3. CASE ~(UNCHANGED ledger) /\ ~FaultLedger
  <2>1. /\ ~faulted /\ ~RevisionExhausted(1) /\ pool_entries[p] = "Reserved"
        /\ pool_entries' = [pool_entries EXCEPT ![p] = "Ready"]
        /\ guards' = (guards \ {<<"PoolReservation", p>>}) \cup {<<"Ready", p>>}
        /\ revision' = revision + 1
        /\ UNCHANGED <<faulted, next_pool_id, workspaces>>
    BY <1>3 DEF ReadyInPlace, Refuse, Overflow
  <2>2. LedgerTypeOK'
    BY <2>1, LedgerConstants DEF LedgerInv, LedgerTypeOK, RevisionExhausted, PoolEntry, GuardToken
  <2>3. CeilingHeld'
    <3>1. HeldWorkspaces' = HeldWorkspaces /\ HeldPool' = HeldPool
      BY <2>1 DEF LedgerInv, LedgerTypeOK, HeldWorkspaces, HeldPool
    <3>. QED BY <3>1 DEF LedgerInv, CeilingHeld, EntryCount
  <2>4. GuardsOwnEntries'
    BY <2>1 DEF LedgerInv, LedgerTypeOK, GuardsOwnEntries, Owned, GuardToken
  <2>5. EveryEntryOwned'
    BY <2>1 DEF LedgerInv, LedgerTypeOK, EveryEntryOwned, Holds, HeldWorkspaces, HeldPool
  <2>6. PoolIdsFresh'
    BY <2>1 DEF LedgerInv, LedgerTypeOK, PoolIdsFresh
  <2>. QED BY <2>2, <2>3, <2>4, <2>5, <2>6 DEF LedgerInv
<1>. QED BY <1>1, <1>2, <1>3

\* Adoption trades one pool entry for one workspace entry.
LEMMA AdoptInPlaceInv ==
    ASSUME LedgerInv, NEW p \in PoolIds, NEW id \in WorkspaceIds,
           NEW state \in WorkspaceState, NEW ok \in BOOLEAN,
           Holds("Ready", p), AdoptInPlace(p, id, state, ok)
    PROVE  LedgerInv'
<1>1. CASE UNCHANGED ledger
  BY <1>1, StutterInv
<1>2. CASE FaultLedger
  BY <1>2, FaultInv
<1>3. CASE ~(UNCHANGED ledger) /\ ~FaultLedger
  <2>1. /\ ~faulted /\ ~RevisionExhausted(1)
        /\ pool_entries[p] = "Ready" /\ workspaces[id] = "Absent"
        /\ pool_entries' = [pool_entries EXCEPT ![p] = "Absent"]
        /\ workspaces' = [workspaces EXCEPT ![id] = state]
        /\ guards' = (guards \ {<<"Ready", p>>}) \cup {<<"Registered", id>>}
        /\ revision' = revision + 1
        /\ UNCHANGED <<faulted, next_pool_id>>
    BY <1>3 DEF AdoptInPlace, Refuse, Overflow
  <2>2. LedgerTypeOK'
    BY <2>1, LedgerConstants
       DEF LedgerInv, LedgerTypeOK, RevisionExhausted, PoolEntry, WorkspaceEntry, GuardToken
  <2>3. CeilingHeld'
    <3>1. HeldWorkspaces' = HeldWorkspaces \cup {id} /\ id \notin HeldWorkspaces
      BY <2>1 DEF LedgerInv, LedgerTypeOK, HeldWorkspaces, WorkspaceState
    <3>2. HeldPool' = HeldPool \ {p} /\ p \in HeldPool
      BY <2>1 DEF LedgerInv, LedgerTypeOK, HeldPool
    <3>3. Cardinality(HeldWorkspaces') = Cardinality(HeldWorkspaces) + 1
      BY <3>1, HeldFinite, FS_AddElement, Zenon
    <3>4. Cardinality(HeldPool') = Cardinality(HeldPool) - 1
      BY <3>2, HeldFinite, FS_RemoveElement, Zenon
    <3>. QED BY <3>3, <3>4, HeldFinite DEF LedgerInv, CeilingHeld, EntryCount
  <2>4. GuardsOwnEntries'
    BY <2>1 DEF LedgerInv, LedgerTypeOK, GuardsOwnEntries, Owned, GuardToken, WorkspaceState
  <2>5. EveryEntryOwned'
    BY <2>1 DEF LedgerInv, LedgerTypeOK, EveryEntryOwned, Holds, HeldWorkspaces, HeldPool
  <2>6. PoolIdsFresh'
    BY <2>1 DEF LedgerInv, LedgerTypeOK, PoolIdsFresh
  <2>. QED BY <2>2, <2>3, <2>4, <2>5, <2>6 DEF LedgerInv
<1>. QED BY <1>1, <1>2, <1>3

\* Dropping a guard removes the one entry it owns; a second guard for that entry
\* would have to find it in two states at once.
LEMMA ReleaseEntryInv ==
    ASSUME LedgerInv, NEW g \in guards, ReleaseEntry(g)
    PROVE  LedgerInv'
<1>0. g \in GuardToken /\ Owned(g) /\ EntryOf(g) # "Absent"
  BY DEF LedgerInv, LedgerTypeOK, GuardsOwnEntries, Owned, GuardToken, EntryOf,
         IsWorkspaceGuard, WorkspaceState
<1>1. CASE faulted \/ RevisionExhausted(1)
  <2>1. /\ faulted' = TRUE /\ guards' = guards \ {g}
        /\ UNCHANGED <<revision, next_pool_id, workspaces, pool_entries>>
    <3>1. CASE faulted
      <4>1. faulted = TRUE
        BY <3>1, Zenon DEF LedgerInv, LedgerTypeOK
      <4>. QED BY <3>1, <4>1 DEF ReleaseEntry, inventory
    <3>2. CASE ~faulted
      BY <1>1, <3>2 DEF ReleaseEntry, inventory
    <3>. QED BY <3>1, <3>2, Zenon
  <2>2. LedgerTypeOK'
    BY <2>1 DEF LedgerInv, LedgerTypeOK
  <2>3. CeilingHeld'
    BY <2>1 DEF LedgerInv, CeilingHeld, EntryCount, HeldWorkspaces, HeldPool
  <2>4. GuardsOwnEntries' /\ PoolIdsFresh' /\ EveryEntryOwned'
    BY <2>1 DEF LedgerInv, GuardsOwnEntries, Owned, PoolIdsFresh, EveryEntryOwned
  <2>. QED BY <2>2, <2>3, <2>4 DEF LedgerInv
<1>2. CASE ~faulted /\ ~RevisionExhausted(1)
  <2>1. /\ RemoveEntry(g) /\ guards' = guards \ {g} /\ revision' = revision + 1
        /\ UNCHANGED <<next_pool_id, faulted>>
    BY <1>0, <1>2 DEF ReleaseEntry
  <2>2. LedgerTypeOK'
    <3>1. revision' \in 0 .. MaxRevision /\ guards' \in SUBSET GuardToken
      BY <1>2, <2>1, LedgerConstants DEF LedgerInv, LedgerTypeOK, RevisionExhausted
    <3>2. workspaces' \in [WorkspaceIds -> WorkspaceEntry] /\ pool_entries' \in [PoolIds -> PoolEntry]
      BY <1>0, <2>1 DEF LedgerInv, LedgerTypeOK, RemoveEntry, WorkspaceEntry, PoolEntry
    <3>. QED BY <2>1, <3>1, <3>2 DEF LedgerInv, LedgerTypeOK
  <2>3. CeilingHeld'
    <3>1. HeldWorkspaces' \subseteq HeldWorkspaces /\ HeldPool' \subseteq HeldPool
      BY <2>1 DEF LedgerInv, LedgerTypeOK, RemoveEntry, HeldWorkspaces, HeldPool
    <3>2. /\ Cardinality(HeldWorkspaces') <= Cardinality(HeldWorkspaces)
          /\ Cardinality(HeldPool') <= Cardinality(HeldPool)
      BY <3>1, HeldFinite, FS_Subset
    <3>. QED BY <3>2, HeldFinite, HeldFiniteNext, LedgerConstants
             DEF LedgerInv, CeilingHeld, EntryCount
  <2>4. GuardsOwnEntries'
    <3>. SUFFICES ASSUME NEW h \in guards, h # g PROVE Owned(h)'
      BY <2>1 DEF GuardsOwnEntries
    <3>1. h \in GuardToken /\ Owned(h)
      BY DEF LedgerInv, LedgerTypeOK, GuardsOwnEntries
    <3>2. IsWorkspaceGuard(h) /\ IsWorkspaceGuard(g) => h[2] # g[2]
      BY <1>0, <3>1 DEF Owned, GuardToken, IsWorkspaceGuard, WorkspaceState
    <3>3. ~IsWorkspaceGuard(h) /\ ~IsWorkspaceGuard(g) => h[2] # g[2]
      BY <1>0, <3>1 DEF Owned, GuardToken, IsWorkspaceGuard
    <3>. QED BY <2>1, <3>1, <3>2, <3>3
             DEF Owned, GuardToken, IsWorkspaceGuard, RemoveEntry, LedgerInv, LedgerTypeOK
  <2>5. EveryEntryOwned'
    BY <1>0, <1>2, <2>1
       DEF LedgerInv, LedgerTypeOK, EveryEntryOwned, Holds, HeldWorkspaces, HeldPool,
           RemoveEntry, IsWorkspaceGuard, GuardToken
  <2>6. PoolIdsFresh'
    BY <2>1 DEF LedgerInv, LedgerTypeOK, PoolIdsFresh, RemoveEntry
  <2>. QED BY <2>2, <2>3, <2>4, <2>5, <2>6 DEF LedgerInv
<1>. QED BY <1>1, <1>2

-----------------------------------------------------------------------------
\* Every step of the ledger, or a stutter, preserves the inductive invariant.
LEMMA LedgerStepInv == LedgerInv /\ [LedgerNext]_ledger => LedgerInv'
<1>. SUFFICES ASSUME LedgerInv, [LedgerNext]_ledger PROVE LedgerInv'
  OBVIOUS
<1>1. ASSUME NEW id \in WorkspaceIds, NEW ok \in BOOLEAN, ReserveWorkspace(id, ok)
      PROVE  LedgerInv'
  BY <1>1, ReserveWorkspaceInv
<1>2. ASSUME NEW n \in 0 .. (Ceiling + 1), NEW got \in SUBSET PoolIds, ReservePoolBatch(n, got)
      PROVE  LedgerInv'
  BY <1>2, ReservePoolBatchInv
<1>3. ASSUME NEW id \in WorkspaceIds, NEW state \in WorkspaceState, NEW ok \in BOOLEAN,
             Holds("Reservation", id), Register(id, state, ok)
      PROVE  LedgerInv'
  BY <1>3, RegisterInv
<1>4. ASSUME NEW id \in WorkspaceIds, NEW state \in WorkspaceState, NEW ok \in BOOLEAN,
             SetState(id, state, ok)
      PROVE  LedgerInv'
  BY <1>4, SetStateInv
<1>5. ASSUME NEW p \in PoolIds, NEW ok \in BOOLEAN,
             Holds("PoolReservation", p), ReadyInPlace(p, ok)
      PROVE  LedgerInv'
  BY <1>5, ReadyInPlaceInv
<1>6. ASSUME NEW p \in PoolIds, NEW id \in WorkspaceIds, NEW state \in WorkspaceState,
             NEW ok \in BOOLEAN, Holds("Ready", p), AdoptInPlace(p, id, state, ok)
      PROVE  LedgerInv'
  BY <1>6, AdoptInPlaceInv
<1>7. ASSUME NEW g \in guards, ReleaseEntry(g) PROVE LedgerInv'
  BY <1>7, ReleaseEntryInv
<1>8. CASE FaultLedger
  BY <1>8, FaultInv
<1>9. CASE UNCHANGED ledger
  BY <1>9, StutterInv
<1>. QED BY <1>1, <1>2, <1>3, <1>4, <1>5, <1>6, <1>7, <1>8, <1>9 DEF LedgerNext

\* A faulted ledger stays so, and pool ids are handed out in increasing order.
LEMMA LedgerMonotone ==
    ASSUME LedgerInv, [LedgerNext]_ledger
    PROVE  (faulted => faulted') /\ next_pool_id' >= next_pool_id
<1>1. next_pool_id \in Nat
  BY LedgerConstants DEF LedgerInv, LedgerTypeOK
<1>2. ASSUME NEW n \in 0 .. (Ceiling + 1), NEW got \in SUBSET PoolIds, ReservePoolBatch(n, got)
      PROVE  (faulted => faulted') /\ next_pool_id' >= next_pool_id
  <2>1. BatchSize(n) \in Nat
    BY HeldFinite, LedgerConstants DEF BatchSize
  <2>. QED BY <1>1, <1>2, <2>1 DEF ReservePoolBatch, FaultLedger, ledger
<1>3. CASE \/ \E id \in WorkspaceIds, ok \in BOOLEAN : ReserveWorkspace(id, ok)
           \/ \E id \in WorkspaceIds, state \in WorkspaceState, ok \in BOOLEAN :
                 Register(id, state, ok) \/ SetState(id, state, ok)
           \/ \E p \in PoolIds, ok \in BOOLEAN : ReadyInPlace(p, ok)
           \/ \E p \in PoolIds, id \in WorkspaceIds, state \in WorkspaceState, ok \in BOOLEAN :
                 AdoptInPlace(p, id, state, ok)
           \/ \E g \in guards : ReleaseEntry(g)
           \/ FaultLedger \/ UNCHANGED ledger
  BY <1>1, <1>3 DEF ReserveWorkspace, Register, SetState, ReadyInPlace, AdoptInPlace, ReleaseEntry,
                    Refuse, Overflow, FaultLedger, ledger
<1>. QED BY <1>2, <1>3 DEF LedgerNext

\* Sets of pool ids are finite.
LEMMA PoolSetFinite ==
    ASSUME NEW S \in SUBSET PoolIds
    PROVE  IsFiniteSet(S) /\ Cardinality(S) \in Nat
<1>1. IsFiniteSet(PoolIds)
  BY FS_Interval, LedgerConstants DEF PoolIds
<1>. QED BY <1>1, FS_Subset, FS_CardinalityType

\* The ledger's inductive invariant holds in every reachable state, for every
\* set of workspace ids, ceiling and width of the two counters.
THEOREM LedgerInvariant == LedgerSpec => []LedgerInv
BY LedgerInitInv, LedgerStepInv, PTL DEF LedgerSpec

\* CapacityState is always well typed: neither counter passes its last value.
THEOREM LedgerTypeCorrect == LedgerSpec => []LedgerTypeOK
<1>1. LedgerInv => LedgerTypeOK
  BY DEF LedgerInv
<1>. QED BY LedgerInvariant, <1>1, PTL

\* Every guard finds its own entry in the state it was issued for, so the
\* MissingEntry and InvalidTransition errors of the guards' methods cannot
\* occur, and a healthy ledger holds no entry without a guard that releases it.
THEOREM GuardsAndEntriesCorrespond == LedgerSpec => []EntriesOwned
<1>1. LedgerInv => EntriesOwned
  BY DEF LedgerInv, EntriesOwned
<1>. QED BY LedgerInvariant, <1>1, PTL

\* What a runner reports to its fleet always passes RunnerCapacity::validate.
THEOREM ReportAlwaysValid == LedgerSpec => []PublishedInventoryValid
<1>1. ASSUME LedgerInv PROVE PublishedInventoryValid
  <2>. DEFINE r == Cardinality(RegisteredWorkspaces)
              u == Cardinality(RunnableWorkspaces)
              m == Cardinality(ReadyMembers)
  <2>1. /\ RunnableWorkspaces \subseteq RegisteredWorkspaces
        /\ RegisteredWorkspaces \subseteq HeldWorkspaces
        /\ ReadyMembers \subseteq HeldPool
    BY DEF RunnableWorkspaces, RegisteredWorkspaces, HeldWorkspaces, ReadyMembers, HeldPool,
           WorkspaceState
  <2>2. /\ IsFiniteSet(RegisteredWorkspaces) /\ r <= Cardinality(HeldWorkspaces)
        /\ IsFiniteSet(ReadyMembers)
    BY <2>1, HeldFinite, FS_Subset
  <2>3. IsFiniteSet(RunnableWorkspaces) /\ u <= r
    BY <2>1, <2>2, FS_Subset
  <2>4. r \in Nat /\ u \in Nat /\ m \in Nat
    BY <2>2, <2>3, FS_CardinalityType
  <2>5. EntryCount <= Ceiling
    BY <1>1 DEF LedgerInv, CeilingHeld
  <2>. HIDE DEF r, u, m
  <2>6. u <= r /\ r <= r + m /\ r + Cardinality(HeldPool) <= Ceiling
    BY <2>2, <2>3, <2>4, <2>5, HeldFinite, LedgerConstants DEF EntryCount
  <2>. QED BY <2>6 DEF PublishedInventoryValid, Validates, Snapshot, r, u, m
<1>. QED BY LedgerInvariant, <1>1, PTL

\* No change of an entry escapes the revision: equal revisions mean equal
\* inventories, along every behaviour.
THEOREM RevisionNamesInventory == LedgerSpec => InventoryVersioned
<1>1. ASSUME LedgerInv, [LedgerNext]_ledger
      PROVE  [inventory' # inventory => revision' > revision]_ledger
  <2>. SUFFICES ASSUME LedgerNext, inventory' # inventory PROVE revision' > revision
    BY <1>1 DEF ledger
  <2>0. revision \in Nat
    BY <1>1, LedgerConstants DEF LedgerInv, LedgerTypeOK
  <2>1. ASSUME NEW id \in WorkspaceIds, NEW ok \in BOOLEAN, ReserveWorkspace(id, ok)
        PROVE  revision' > revision
    BY <2>0, <2>1 DEF ReserveWorkspace, Refuse, Overflow, FaultLedger, ledger, inventory
  <2>2. ASSUME NEW n \in 0 .. (Ceiling + 1), NEW got \in SUBSET PoolIds,
               ReservePoolBatch(n, got)
        PROVE  revision' > revision
    <3>1. BatchSize(n) \in Nat
      BY HeldFinite, LedgerConstants DEF BatchSize
    <3>2. BatchSize(n) # 0 /\ revision' = revision + BatchSize(n)
      BY <2>2 DEF ReservePoolBatch, FaultLedger, ledger, inventory
    <3>. QED BY <2>0, <3>1, <3>2
  <2>3. ASSUME NEW id \in WorkspaceIds, NEW state \in WorkspaceState, NEW ok \in BOOLEAN,
               Register(id, state, ok) \/ SetState(id, state, ok)
        PROVE  revision' > revision
    BY <2>0, <2>3 DEF Register, SetState, Refuse, Overflow, FaultLedger, ledger, inventory
  <2>4. ASSUME NEW p \in PoolIds, NEW ok \in BOOLEAN, ReadyInPlace(p, ok)
        PROVE  revision' > revision
    BY <2>0, <2>4 DEF ReadyInPlace, Refuse, Overflow, FaultLedger, ledger, inventory
  <2>5. ASSUME NEW p \in PoolIds, NEW id \in WorkspaceIds, NEW state \in WorkspaceState,
               NEW ok \in BOOLEAN, AdoptInPlace(p, id, state, ok)
        PROVE  revision' > revision
    BY <2>0, <2>5 DEF AdoptInPlace, Refuse, Overflow, FaultLedger, ledger, inventory
  <2>6. ASSUME NEW g \in guards, ReleaseEntry(g) PROVE revision' > revision
    BY <2>0, <2>6 DEF ReleaseEntry, inventory
  <2>7. CASE FaultLedger
    BY <2>7 DEF FaultLedger, inventory
  <2>. QED BY <2>1, <2>2, <2>3, <2>4, <2>5, <2>6, <2>7 DEF LedgerNext
<1>. QED BY LedgerInvariant, <1>1, PTL DEF LedgerSpec, InventoryVersioned

\* Once the ledger has faulted, nothing is admitted, promoted or released again.
THEOREM FaultStopsTheLedger == LedgerSpec => FaultIsTerminal
<1>1. ASSUME [LedgerNext]_ledger
      PROVE  [faulted => faulted' /\ UNCHANGED <<revision, inventory>>]_ledger
  <2>. SUFFICES ASSUME LedgerNext, faulted PROVE faulted' /\ UNCHANGED <<revision, inventory>>
    BY <1>1 DEF ledger
  <2>1. ASSUME NEW g \in guards, ReleaseEntry(g)
        PROVE  faulted' /\ UNCHANGED <<revision, inventory>>
    BY <2>1 DEF ReleaseEntry, inventory
  <2>2. CASE FaultLedger
    BY <2>2 DEF FaultLedger, inventory
  <2>3. CASE UNCHANGED ledger
    BY <2>3 DEF ledger, inventory
  <2>. QED BY <2>1, <2>2, <2>3
           DEF LedgerNext, ReserveWorkspace, ReservePoolBatch, Register, SetState,
               ReadyInPlace, AdoptInPlace, Refuse
<1>. QED BY <1>1, PTL DEF LedgerSpec, FaultIsTerminal
=============================================================================
