------------------------------ MODULE MCServices ------------------------------
(***************************************************************************)
(* Three services of the daemons that share no state: the supervisor's     *)
(* task tracker and audit log, and the fleet client.  A behaviour is one   *)
(* of one of them, with the others at rest, so that what is checked of     *)
(* each is what its own specification says.                                *)
(***************************************************************************)
EXTENDS LifecycleTasks, FleetPoll, AuditChain

VARIABLE service    \* the one this behaviour is of

services == <<taskvars, pollvars, auditvars, service>>

Init == service \in {"tasks", "fleet", "audit"} /\ TaskInit /\ PollInit /\ AuditInit

\* A fleet client whose loop has returned does nothing more.
PollStopped == pc = "stopped" /\ UNCHANGED pollvars

Next ==
    /\ \/ service = "tasks" /\ TaskNext /\ UNCHANGED <<pollvars, auditvars>>
       \/ service = "fleet" /\ (PollNext \/ PollStopped) /\ UNCHANGED <<taskvars, auditvars>>
       \/ service = "audit" /\ AuditNext /\ UNCHANGED <<taskvars, pollvars>>
    /\ UNCHANGED service

\* TaskFairness and PollFairness, each for the behaviours that are of its service.
Fairness ==
    /\ \A o \in Operations :
          /\ WF_services(service = "tasks" /\ OperationEnd(o) /\ UNCHANGED <<pollvars, auditvars, service>>)
          /\ WF_services(service = "tasks" /\ CleanupEnd(o) /\ UNCHANGED <<pollvars, auditvars, service>>)
    /\ WF_services(service = "tasks" /\ CloseNotify /\ UNCHANGED <<pollvars, auditvars, service>>)
    /\ WF_services(/\ service = "tasks" /\ (WaitArm \/ WaitRead \/ WaitPoll \/ WaitWake)
                   /\ UNCHANGED <<pollvars, auditvars, service>>)
    /\ WF_services(service = "fleet" /\ ClientStep /\ UNCHANGED <<taskvars, auditvars, service>>)
    /\ WF_services(service = "fleet" /\ ObserveShutdown /\ UNCHANGED <<taskvars, auditvars, service>>)
    /\ SF_services(service = "fleet" /\ Deliver /\ UNCHANGED <<taskvars, auditvars, service>>)

Spec == Init /\ [][Next]_services /\ Fairness
=============================================================================
