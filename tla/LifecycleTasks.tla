----------------------------- MODULE LifecycleTasks -----------------------------
(***************************************************************************)
(* The supervisor's task tracker (ne-supervisor, workspace.rs,             *)
(* LifecycleTasks): operations are accepted until close(), an operation    *)
(* that drops the owner of a live process spawns a cleanup task from its   *)
(* Drop, and wait() sleeps on a Notify until no permit is left.            *)
(*                                                                         *)
(* accepting and active are read and written under one mutex.  A Notified  *)
(* future receives every notify_waiters() from its creation on, polled or  *)
(* not (tokio's contract).                                                 *)
(***************************************************************************)
EXTENDS Integers, FiniteSets

CONSTANT Operations     \* requests, refills and provisions; each may drop one owner

ASSUME OperationsFinite == IsFiniteSet(Operations)

VARIABLES
    accepting,  \* LifecycleTaskState.accepting
    active,     \* LifecycleTaskState.active
    op,         \* stage of each operation
    cleanup,    \* stage of the cleanup task each operation may spawn
    closing,    \* close(): "open", "closed" (flag down), "notified"
    waiter      \* wait(): [pc, woken], woken since its Notified was created

taskvars == <<accepting, active, op, cleanup, closing, waiter>>

TaskStage == {"none", "running", "ended", "refused"}

TaskInit ==
    /\ accepting = TRUE /\ active = 0
    /\ op = [o \in Operations |-> "none"]
    /\ cleanup = [o \in Operations |-> "none"]
    /\ closing = "open"
    /\ waiter = [pc |-> "idle", woken |-> FALSE]

\* Mutant: the Notified counts only once it is polled.
ArmedWhenPolled == waiter.pc = "sleep"

Armed == waiter.pc \in {"read", "await", "sleep"}
NotifyWaiters == waiter' = [waiter EXCEPT !.woken = @ \/ Armed]

\* Mutant: a cleanup task is spawned without a permit of its own.
BeginCleanupUncounted(isCleanup, ok) ==
    /\ ok = TRUE
    /\ isCleanup \/ accepting
    /\ active' = IF isCleanup THEN active ELSE active + 1
    /\ UNCHANGED accepting

\* begin: after close only cleanup, and only while some permit exists.
Begin(isCleanup, ok) ==
    IF ~accepting /\ (~isCleanup \/ active = 0)
    THEN ok = FALSE /\ UNCHANGED <<accepting, active>>
    ELSE ok = TRUE /\ active' = active + 1 /\ UNCHANGED accepting

\* Drop of a permit notifies with the mutex still held.
PermitDrop == active' = active - 1 /\ UNCHANGED accepting /\ NotifyWaiters

Stage(ok) == IF ok THEN "running" ELSE "refused"

-----------------------------------------------------------------------------
SpawnOperation(o) ==
    /\ op[o] = "none"
    /\ \E ok \in BOOLEAN : Begin(FALSE, ok) /\ op' = [op EXCEPT ![o] = Stage(ok)]
    /\ UNCHANGED <<cleanup, closing, waiter>>

\* Drop of a PendingFirecracker, PoolMember or RejectedPoolProvision inside an
\* operation: begin_cleanup and spawn_started_cleanup.  Refused, the process and
\* its guard are forgotten.
DropOwner(o) ==
    /\ op[o] = "running" /\ cleanup[o] = "none"
    /\ \E ok \in BOOLEAN : Begin(TRUE, ok) /\ cleanup' = [cleanup EXCEPT ![o] = Stage(ok)]
    /\ UNCHANGED <<op, closing, waiter>>

OperationEnd(o) ==
    /\ op[o] = "running"
    /\ op' = [op EXCEPT ![o] = "ended"]
    /\ PermitDrop
    /\ UNCHANGED <<cleanup, closing>>

CleanupEnd(o) ==
    /\ cleanup[o] = "running"
    /\ cleanup' = [cleanup EXCEPT ![o] = "ended"]
    /\ PermitDrop
    /\ UNCHANGED <<op, closing>>

\* close() lowers the flag under the mutex and notifies after releasing it.
Close ==
    /\ closing = "open"
    /\ accepting' = FALSE
    /\ closing' = "closed"
    /\ UNCHANGED <<active, op, cleanup, waiter>>

CloseNotify ==
    /\ closing = "closed"
    /\ closing' = "notified"
    /\ NotifyWaiters
    /\ UNCHANGED <<accepting, active, op, cleanup>>

\* wait(): the Notified is created before the count is read.  shutdown_lifecycle
\* calls it after close().
WaitArm ==
    /\ waiter.pc = "idle" /\ closing = "notified"
    /\ waiter' = [pc |-> "read", woken |-> FALSE]
    /\ UNCHANGED <<accepting, active, op, cleanup, closing>>

WaitRead ==
    /\ waiter.pc = "read"
    /\ waiter' = [waiter EXCEPT !.pc = IF active = 0 THEN "returned" ELSE "await"]
    /\ UNCHANGED <<accepting, active, op, cleanup, closing>>

WaitPoll ==
    /\ waiter.pc = "await"
    /\ waiter' = [waiter EXCEPT !.pc = "sleep"]
    /\ UNCHANGED <<accepting, active, op, cleanup, closing>>

WaitWake ==
    /\ waiter.pc = "sleep" /\ waiter.woken
    /\ waiter' = [waiter EXCEPT !.pc = "idle"]
    /\ UNCHANGED <<accepting, active, op, cleanup, closing>>

\* The process exits some time after wait() returned.
Returned == waiter.pc = "returned" /\ UNCHANGED taskvars

TaskNext ==
    \/ \E o \in Operations :
          SpawnOperation(o) \/ DropOwner(o) \/ OperationEnd(o) \/ CleanupEnd(o)
    \/ Close \/ CloseNotify
    \/ WaitArm \/ WaitRead \/ WaitPoll \/ WaitWake
    \/ Returned

\* Accepted tasks are polled until they end: every wait in them is bounded by a
\* timeout.  The shutdown task runs once it has closed the tracker.
TaskFairness ==
    /\ \A o \in Operations : WF_taskvars(OperationEnd(o)) /\ WF_taskvars(CleanupEnd(o))
    /\ WF_taskvars(CloseNotify)
    /\ WF_taskvars(WaitArm \/ WaitRead \/ WaitPoll \/ WaitWake)

TaskSpec == TaskInit /\ [][TaskNext]_taskvars /\ TaskFairness

-----------------------------------------------------------------------------
Tracked == {o \in Operations : op[o] = "running"}
Cleaning == {o \in Operations : cleanup[o] = "running"}

\* Type invariant; in particular active never underflows.
TaskTypeOK ==
    /\ accepting \in BOOLEAN
    /\ active \in 0 .. 2 * Cardinality(Operations)
    /\ op \in [Operations -> TaskStage]
    /\ cleanup \in [Operations -> TaskStage]
    /\ closing \in {"open", "closed", "notified"}
    /\ waiter \in [pc : {"idle", "read", "await", "sleep", "returned"}, woken : BOOLEAN]

\* The permit count is exact, so wait() can trust it.
ActiveCountsPermits == active = Cardinality(Tracked) + Cardinality(Cleaning)

\* When wait() has returned, nothing tracked runs and nothing ever will again:
\* no operation is accepted and no cleanup can be spawned behind its back.
QuietAfterWait == waiter.pc = "returned" => Tracked = {} /\ Cleaning = {}

\* "Cleanup remains accepted after close while at least its parent permit
\* exists": no process is forgotten because the supervisor is shutting down.
CleanupNeverRefused == \A o \in Operations : cleanup[o] # "refused"

\* The waiter misses no wake-up: once closed, wait() returns.
WaitReturns == closing = "closed" ~> waiter.pc = "returned"
=============================================================================
