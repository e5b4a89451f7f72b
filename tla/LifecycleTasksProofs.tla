-------------------------- MODULE LifecycleTasksProofs --------------------------
(***************************************************************************)
(* Proofs about the task tracker, for every finite set of operations.  The *)
(* count of permits is exact; with it, a closed tracker whose count is     *)
(* zero can start nothing again, which is what wait() relies on.           *)
(***************************************************************************)
EXTENDS LifecycleTasks, FiniteSetTheorems, TLAPS

\* The time each leaf may take: SMT first, then Zenon.
USE SMTT(20), ZenonT(20)

Running(f) == {o \in Operations : f[o] = "running"}

\* wait() is called after close(), and returns on a count of zero only.
WaitAfterClose ==
    /\ closing # "open" => ~accepting
    /\ waiter.pc # "idle" => closing # "open"
    /\ waiter.pc = "returned" => active = 0

TaskTypes ==
    /\ accepting \in BOOLEAN
    /\ active \in Nat
    /\ op \in [Operations -> TaskStage]
    /\ cleanup \in [Operations -> TaskStage]
    /\ closing \in {"open", "closed", "notified"}
    /\ waiter \in [pc : {"idle", "read", "await", "sleep", "returned"}, woken : BOOLEAN]

TrackerInv == TaskTypes /\ ActiveCountsPermits /\ CleanupNeverRefused /\ WaitAfterClose

\* The running tasks of a stage map are finitely many.
LEMMA RunningFinite ==
    ASSUME NEW f
    PROVE  IsFiniteSet(Running(f)) /\ Cardinality(Running(f)) \in Nat
           /\ Cardinality(Running(f)) <= Cardinality(Operations)
<1>1. Running(f) \in SUBSET Operations
  BY DEF Running
<1>. QED BY <1>1, FS_Subset, FS_CardinalityType, OperationsFinite

\* Starting a task adds one to the running tasks, refusing it none.
LEMMA StartCounts ==
    ASSUME NEW f \in [Operations -> TaskStage], NEW o \in Operations, f[o] = "none"
    PROVE  /\ Cardinality(Running([f EXCEPT ![o] = "running"])) = Cardinality(Running(f)) + 1
           /\ Cardinality(Running([f EXCEPT ![o] = "refused"])) = Cardinality(Running(f))
<1>1. Running([f EXCEPT ![o] = "running"]) = Running(f) \cup {o} /\ o \notin Running(f)
  BY DEF Running
<1>2. Running([f EXCEPT ![o] = "refused"]) = Running(f)
  BY DEF Running
<1>. QED BY <1>1, <1>2, RunningFinite, FS_AddElement, Zenon

\* Ending a running task takes one away.
LEMMA EndCounts ==
    ASSUME NEW f \in [Operations -> TaskStage], NEW o \in Operations, f[o] = "running"
    PROVE  /\ Cardinality(Running([f EXCEPT ![o] = "ended"])) = Cardinality(Running(f)) - 1
           /\ Cardinality(Running(f)) > 0
<1>1. Running([f EXCEPT ![o] = "ended"]) = Running(f) \ {o} /\ o \in Running(f)
  BY DEF Running
<1>2. Cardinality(Running(f)) # 0
  BY <1>1, RunningFinite, FS_EmptySet
<1>3. Cardinality(Running(f) \ {o}) = Cardinality(Running(f)) - 1
  BY <1>1, RunningFinite, FS_RemoveElement, Zenon
<1>4. Cardinality(Running(f)) \in Nat
  BY RunningFinite
<1>5. Cardinality(Running(f)) > 0
  BY <1>2, <1>4
<1>6. Cardinality(Running([f EXCEPT ![o] = "ended"])) = Cardinality(Running(f)) - 1
  BY <1>1, <1>3, Zenon
<1>. QED BY <1>5, <1>6

\* The count of permits, in terms of the two stage maps.
LEMMA PermitCount ==
    /\ ActiveCountsPermits <=> active = Cardinality(Running(op)) + Cardinality(Running(cleanup))
    /\ ActiveCountsPermits' <=> active' = Cardinality(Running(op')) + Cardinality(Running(cleanup'))
BY DEF ActiveCountsPermits, Tracked, Cleaning, Running

LEMMA TaskInitInv == TaskInit => TrackerInv
<1>. SUFFICES ASSUME TaskInit PROVE TrackerInv
  OBVIOUS
<1>1. accepting \in BOOLEAN
  BY Zenon DEF TaskInit
<1>2. TaskTypes
  BY <1>1 DEF TaskInit, TaskTypes, TaskStage
<1>3. Running(op) = {} /\ Running(cleanup) = {}
  BY DEF TaskInit, Running
<1>4. ActiveCountsPermits
  BY <1>3, PermitCount, FS_EmptySet DEF TaskInit
<1>5. CleanupNeverRefused /\ WaitAfterClose
  BY DEF TaskInit, CleanupNeverRefused, WaitAfterClose
<1>. QED BY <1>2, <1>4, <1>5 DEF TrackerInv

\* spawn_operation: refused once the tracker is closed.
LEMMA SpawnInv ==
    ASSUME TrackerInv, NEW o \in Operations, SpawnOperation(o)
    PROVE  TrackerInv'
<1>1. PICK ok \in BOOLEAN : Begin(FALSE, ok) /\ op' = [op EXCEPT ![o] = Stage(ok)]
  BY Zenon DEF SpawnOperation
<1>2. op[o] = "none" /\ UNCHANGED <<cleanup, closing, waiter>> /\ accepting' = accepting
  BY <1>1, Zenon DEF SpawnOperation, Begin
<1>3. \/ ~accepting /\ active' = active /\ op' = [op EXCEPT ![o] = "refused"]
      \/ accepting /\ active' = active + 1 /\ op' = [op EXCEPT ![o] = "running"]
  BY <1>1, Zenon DEF Begin, Stage
<1>4. accepting' \in BOOLEAN
  BY <1>2, Zenon DEF TrackerInv, TaskTypes
<1>5. TaskTypes'
  BY <1>2, <1>3, <1>4 DEF TrackerInv, TaskTypes, TaskStage
<1>6. ActiveCountsPermits'
  <2>1. op \in [Operations -> TaskStage]
    BY DEF TrackerInv, TaskTypes
  <2>2. /\ Cardinality(Running([op EXCEPT ![o] = "running"])) = Cardinality(Running(op)) + 1
        /\ Cardinality(Running([op EXCEPT ![o] = "refused"])) = Cardinality(Running(op))
    BY <1>2, <2>1, StartCounts, Zenon
  <2>3. Cardinality(Running(op)) \in Nat /\ Cardinality(Running(cleanup)) \in Nat
    BY RunningFinite
  <2>4. active = Cardinality(Running(op)) + Cardinality(Running(cleanup))
    BY PermitCount DEF TrackerInv
  <2>5. active' = Cardinality(Running(op')) + Cardinality(Running(cleanup'))
    <3>1. CASE active' = active /\ op' = [op EXCEPT ![o] = "refused"]
      BY <3>1, <1>2, <2>2, <2>4
    <3>2. CASE active' = active + 1 /\ op' = [op EXCEPT ![o] = "running"]
      BY <3>2, <1>2, <2>2, <2>3, <2>4
    <3>. QED BY <3>1, <3>2, <1>3
  <2>. QED BY <2>5, PermitCount
<1>7. CleanupNeverRefused'
  BY <1>2 DEF TrackerInv, CleanupNeverRefused
<1>8. WaitAfterClose'
  BY <1>2, <1>3 DEF TrackerInv, WaitAfterClose
<1>. QED BY <1>5, <1>6, <1>7, <1>8 DEF TrackerInv

\* A Drop inside an operation always gets its cleanup task: the permit of the
\* operation keeps the count above zero.
LEMMA DropOwnerInv ==
    ASSUME TrackerInv, NEW o \in Operations, DropOwner(o)
    PROVE  TrackerInv'
<1>1. PICK ok \in BOOLEAN : Begin(TRUE, ok) /\ cleanup' = [cleanup EXCEPT ![o] = Stage(ok)]
  BY Zenon DEF DropOwner
<1>2. /\ op[o] = "running" /\ cleanup[o] = "none"
      /\ UNCHANGED <<op, closing, waiter>> /\ accepting' = accepting
  BY <1>1, Zenon DEF DropOwner, Begin
<1>. op \in [Operations -> TaskStage] /\ cleanup \in [Operations -> TaskStage]
  BY DEF TrackerInv, TaskTypes
<1>. Cardinality(Running(op)) \in Nat /\ Cardinality(Running(cleanup)) \in Nat
  BY RunningFinite
<1>a. active = Cardinality(Running(op)) + Cardinality(Running(cleanup))
  BY PermitCount DEF TrackerInv
<1>3. active # 0
  <2>1. Cardinality(Running(op)) > 0
    BY <1>2, EndCounts, Zenon
  <2>. QED BY <1>a, <2>1
<1>4. active' = active + 1 /\ cleanup' = [cleanup EXCEPT ![o] = "running"]
  BY <1>1, <1>3, Zenon DEF Begin, Stage
<1>5. accepting' \in BOOLEAN
  BY <1>2, Zenon DEF TrackerInv, TaskTypes
<1>6. TaskTypes'
  BY <1>2, <1>4, <1>5 DEF TrackerInv, TaskTypes, TaskStage
<1>7. ActiveCountsPermits'
  <2>1. Cardinality(Running(cleanup')) = Cardinality(Running(cleanup)) + 1
    BY <1>2, <1>4, StartCounts, Zenon
  <2>2. active' = Cardinality(Running(op')) + Cardinality(Running(cleanup'))
    BY <1>a, <1>2, <1>4, <2>1
  <2>. QED BY <2>2, PermitCount
<1>8. CleanupNeverRefused'
  BY <1>4 DEF TrackerInv, TaskTypes, CleanupNeverRefused
<1>9. WaitAfterClose'
  BY <1>2, <1>3, <1>4 DEF TrackerInv, WaitAfterClose
<1>. QED BY <1>6, <1>7, <1>8, <1>9 DEF TrackerInv

\* The drop of a permit wakes the waiter and moves it nowhere.
LEMMA NotifyTypes ==
    ASSUME TaskTypes, NotifyWaiters
    PROVE  /\ waiter' \in [pc : {"idle", "read", "await", "sleep", "returned"}, woken : BOOLEAN]
           /\ waiter'.pc = waiter.pc
<1>1. (waiter.woken \/ Armed) \in BOOLEAN
  BY Zenon
<1>. QED BY <1>1, Zenon DEF TaskTypes, NotifyWaiters

\* An operation or a cleanup ends and gives its permit back.
LEMMA EndInv ==
    ASSUME TrackerInv, NEW o \in Operations, OperationEnd(o) \/ CleanupEnd(o)
    PROVE  TrackerInv'
<1>1. /\ active' = active - 1 /\ accepting' = accepting /\ UNCHANGED closing
      /\ NotifyWaiters
  BY DEF OperationEnd, CleanupEnd, PermitDrop
<1>2. /\ waiter' \in [pc : {"idle", "read", "await", "sleep", "returned"}, woken : BOOLEAN]
      /\ waiter'.pc = waiter.pc
  BY <1>1, NotifyTypes DEF TrackerInv
<1>3. \/ op[o] = "running" /\ op' = [op EXCEPT ![o] = "ended"] /\ cleanup' = cleanup
      \/ cleanup[o] = "running" /\ cleanup' = [cleanup EXCEPT ![o] = "ended"] /\ op' = op
  BY DEF OperationEnd, CleanupEnd
<1>4. active > 0 /\ active' \in Nat
  BY <1>1, <1>3, PermitCount, EndCounts, RunningFinite DEF TrackerInv, TaskTypes
<1>5. accepting' \in BOOLEAN
  BY <1>1, Zenon DEF TrackerInv, TaskTypes
<1>6. TaskTypes'
  BY <1>1, <1>2, <1>3, <1>4, <1>5 DEF TrackerInv, TaskTypes, TaskStage
<1>7. ActiveCountsPermits'
  BY <1>1, <1>3, PermitCount, EndCounts, RunningFinite DEF TrackerInv, TaskTypes
<1>8. CleanupNeverRefused'
  BY <1>3 DEF TrackerInv, TaskTypes, CleanupNeverRefused
<1>9. WaitAfterClose'
  BY <1>1, <1>2, <1>4 DEF TrackerInv, WaitAfterClose
<1>. QED BY <1>6, <1>7, <1>8, <1>9 DEF TrackerInv

\* close() and the steps of wait() leave the permits alone.
LEMMA CloseAndWaitInv ==
    ASSUME TrackerInv, Close \/ CloseNotify \/ WaitArm \/ WaitRead \/ WaitPoll \/ WaitWake
    PROVE  TrackerInv'
<1>1. UNCHANGED <<active, op, cleanup>>
  BY DEF Close, CloseNotify, WaitArm, WaitRead, WaitPoll, WaitWake
<1>2. accepting' \in BOOLEAN
  BY Zenon DEF Close, CloseNotify, WaitArm, WaitRead, WaitPoll, WaitWake, TrackerInv, TaskTypes
<1>3. CloseNotify => waiter' \in [pc : {"idle", "read", "await", "sleep", "returned"},
                                  woken : BOOLEAN] /\ waiter'.pc = waiter.pc
  BY NotifyTypes DEF CloseNotify, TrackerInv
<1>a. TaskTypes
  BY DEF TrackerInv
<1>b. waiter' \in [pc : {"idle", "read", "await", "sleep", "returned"}, woken : BOOLEAN]
  <2>1. CASE Close \/ CloseNotify
    BY <2>1, <1>a, <1>3 DEF Close, TaskTypes
  <2>2. CASE WaitArm
    BY <2>2 DEF WaitArm
  <2>3. CASE WaitRead \/ WaitPoll \/ WaitWake
    BY <2>3, <1>a DEF WaitRead, WaitPoll, WaitWake, TaskTypes
  <2>. QED BY <2>1, <2>2, <2>3
<1>c. closing' \in {"open", "closed", "notified"}
  BY <1>a DEF Close, CloseNotify, WaitArm, WaitRead, WaitPoll, WaitWake, TaskTypes
<1>4. TaskTypes'
  BY <1>1, <1>2, <1>a, <1>b, <1>c DEF TaskTypes
<1>5. ActiveCountsPermits' /\ CleanupNeverRefused'
  BY <1>1, PermitCount DEF TrackerInv, CleanupNeverRefused
<1>6. WaitAfterClose'
  BY <1>1, <1>3 DEF Close, CloseNotify, WaitArm, WaitRead, WaitPoll, WaitWake, TrackerInv, TaskTypes,
                    WaitAfterClose
<1>. QED BY <1>4, <1>5, <1>6 DEF TrackerInv

\* The inductive invariant of the tracker.
THEOREM TrackerInvariant == TaskSpec => []TrackerInv
<1>1. TrackerInv /\ [TaskNext]_taskvars => TrackerInv'
  <2>. SUFFICES ASSUME TrackerInv, [TaskNext]_taskvars PROVE TrackerInv'
    OBVIOUS
  <2>1. CASE UNCHANGED taskvars
    BY <2>1, PermitCount DEF taskvars, TrackerInv, TaskTypes, CleanupNeverRefused, WaitAfterClose
  <2>2. CASE \E o \in Operations :
                SpawnOperation(o) \/ DropOwner(o) \/ OperationEnd(o) \/ CleanupEnd(o)
    BY <2>2, SpawnInv, DropOwnerInv, EndInv
  <2>3. CASE Close \/ CloseNotify \/ WaitArm \/ WaitRead \/ WaitPoll \/ WaitWake
    BY <2>3, CloseAndWaitInv
  <2>. QED BY <2>1, <2>2, <2>3 DEF TaskNext, Returned
<1>. QED BY <1>1, TaskInitInv, PTL DEF TaskSpec

\* LifecycleTaskState.active is the number of permits and never underflows.
THEOREM TrackerTypeCorrect == TaskSpec => []TaskTypeOK
<1>1. TrackerInv => TaskTypeOK
  <2>. SUFFICES ASSUME TrackerInv PROVE TaskTypeOK
    OBVIOUS
  <2>1. Cardinality(Operations) \in Nat
    BY FS_CardinalityType, OperationsFinite
  <2>2. active \in 0 .. 2 * Cardinality(Operations)
    BY <2>1, PermitCount, RunningFinite DEF TrackerInv
  <2>. QED BY <2>2 DEF TrackerInv, TaskTypes, TaskTypeOK
<1>. QED BY <1>1, TrackerInvariant, PTL

\* begin and the permit's Drop keep the count exact.
THEOREM PermitsCounted == TaskSpec => []ActiveCountsPermits
<1>1. TrackerInv => ActiveCountsPermits
  BY DEF TrackerInv
<1>. QED BY <1>1, TrackerInvariant, PTL

\* begin_cleanup never refuses a Drop inside a tracked operation.
THEOREM CleanupAccepted == TaskSpec => []CleanupNeverRefused
<1>1. TrackerInv => CleanupNeverRefused
  BY DEF TrackerInv
<1>. QED BY <1>1, TrackerInvariant, PTL

\* After wait() has returned, no tracked task runs.
THEOREM WaitIsFinal == TaskSpec => []QuietAfterWait
<1>1. TrackerInv => QuietAfterWait
  <2>. SUFFICES ASSUME TrackerInv, waiter.pc = "returned" PROVE Tracked = {} /\ Cleaning = {}
    BY DEF QuietAfterWait
  <2>1. Cardinality(Running(op)) = 0 /\ Cardinality(Running(cleanup)) = 0
    BY PermitCount, RunningFinite DEF TrackerInv, WaitAfterClose
  <2>2. Running(op) = {} /\ Running(cleanup) = {}
    BY <2>1, RunningFinite, FS_EmptySet
  <2>. QED BY <2>2 DEF Running, Tracked, Cleaning
<1>. QED BY <1>1, TrackerInvariant, PTL
=============================================================================
