------------------------------- MODULE FleetPoll -------------------------------
(***************************************************************************)
(* The fleet client of ne-api (fleet_client.rs): a loop that snapshots the *)
(* capacity ledger, builds one pending poll request and resends it until   *)
(* it is answered.  The control plane is not in this repository: its side  *)
(* is what the error codes and replay classes of ne-protocol (fleet.rs)    *)
(* say of it.  Requests may be lost, delayed past a timeout or handled     *)
(* twice; the process may be restarted with requests still on the wire.    *)
(***************************************************************************)
EXTENDS Integers

CONSTANTS
    MaxSequence,    \* u64::MAX of the sequence numbers
    MaxRevision,    \* bound: capacity changes
    MaxProcess      \* bound: processes, one after the other

ASSUME FleetConstants == MaxSequence \in Nat \ {0} /\ MaxRevision \in Nat /\ MaxProcess \in Nat \ {0}

VARIABLES
    revision,   \* revision of the capacity ledger
    proc,       \* process_instance_id of the running process
    session,    \* FleetLoopState.session, 0 if None
    next,       \* FleetLoopState.next_sequence
    pending,    \* FleetLoopState.pending
    pc,         \* "wait", "send", "await" or "stopped"
    why,        \* why the loop stopped
    reply,      \* answer to the request being awaited
    shutdown,   \* the shutdown watch channel
    issued,     \* request ids handed out
    net,        \* requests the control plane may still handle
    server      \* its record of the runner:
                \* [known, proc, session, last, rid, rev]

client == <<proc, session, next, pending, pc, why, reply, issued>>
pollvars == <<revision, client, shutdown, net, server>>

NoRequest == [proc |-> 0, session |-> 0, rid |-> 0, seq |-> 0, rev |-> 0]
NoReply == [code |-> "none", session |-> 0, rid |-> 0, seq |-> 0]

\* FleetLoopState::new.
FreshLoop(p) ==
    /\ proc' = p /\ session' = 0 /\ next' = 1 /\ pending' = NoRequest
    /\ pc' = "wait" /\ why' = "running" /\ reply' = NoReply

PollInit ==
    /\ revision = 0
    /\ proc = 1 /\ session = 0 /\ next = 1 /\ pending = NoRequest
    /\ pc = "wait" /\ why = "running" /\ reply = NoReply
    /\ shutdown = FALSE
    /\ issued = 0
    /\ net = {}
    /\ server = [known |-> {}, proc |-> 0, session |-> 0, last |-> 0, rid |-> 0, rev |-> 0]

Stop(reason) == pc' = "stopped" /\ why' = reason

-----------------------------------------------------------------------------
\* The ledger moves on, the process is restarted, or it is told to shut down.
CapacityChanges ==
    /\ revision < MaxRevision
    /\ revision' = revision + 1
    /\ UNCHANGED <<client, shutdown, net, server>>

Restart ==
    /\ proc < MaxProcess
    /\ FreshLoop(proc + 1)
    /\ shutdown' = FALSE
    /\ UNCHANGED <<revision, issued, net, server>>

RequestShutdown ==
    /\ ~shutdown /\ shutdown' = TRUE
    /\ UNCHANGED <<revision, client, net, server>>

\* Both selects of run_fleet_loop take the shutdown branch.
ObserveShutdown ==
    /\ shutdown /\ pc # "stopped"
    /\ Stop("shutdown") /\ reply' = NoReply
    /\ UNCHANGED <<revision, proc, session, next, pending, shutdown, issued, net, server>>

\* Mutant: prepare_pending uses a snapshot of an earlier iteration.
PreparePendingCached ==
    /\ pc = "wait" /\ pending = NoRequest
    /\ \E r \in 0 .. revision :
          pending' = [proc |-> proc, session |-> session, rid |-> issued + 1,
                      seq |-> next, rev |-> r]
    /\ issued' = issued + 1
    /\ pc' = "send"
    /\ UNCHANGED <<revision, proc, session, next, why, reply, shutdown, net, server>>

\* The capacity snapshot, then prepare_pending.  A snapshot that fails is retried.
PreparePending ==
    /\ pc = "wait" /\ pending = NoRequest
    /\ pending' = [proc |-> proc, session |-> session, rid |-> issued + 1,
                   seq |-> next, rev |-> revision]
    /\ issued' = issued + 1
    /\ pc' = "send"
    /\ UNCHANGED <<revision, proc, session, next, why, reply, shutdown, net, server>>

\* Mutant: a retry builds the request again, with a request id of its own.
ResendRebuilds ==
    /\ pc = "wait" /\ pending # NoRequest
    /\ pending' = [pending EXCEPT !.rid = issued + 1, !.rev = revision]
    /\ issued' = issued + 1
    /\ pc' = "send"
    /\ UNCHANGED <<revision, proc, session, next, why, reply, shutdown, net, server>>

\* A retry sends the request it has.
Resend ==
    /\ pc = "wait" /\ pending # NoRequest
    /\ pc' = "send"
    /\ UNCHANGED <<revision, proc, session, next, pending, why, reply, shutdown, issued, net,
                   server>>

SendPoll ==
    /\ pc = "send"
    /\ net' = net \cup {pending}
    /\ pc' = "await"
    /\ UNCHANGED <<revision, proc, session, next, pending, why, reply, shutdown, issued, server>>

\* Mutant: a transport failure ends the loop.
RetryStops ==
    /\ pc = "await" /\ reply.code \in {"none", "busy"}
    /\ Stop("transport")
    /\ reply' = NoReply
    /\ UNCHANGED <<revision, proc, session, next, pending, shutdown, issued, net, server>>

\* Timeout, transport failure or a retryable answer: back to the loop, request kept.
Retry ==
    /\ pc = "await" /\ reply.code \in {"none", "busy"}
    /\ pc' = "wait"
    /\ reply' = NoReply
    /\ UNCHANGED <<revision, proc, session, next, pending, why, shutdown, issued, net, server>>

\* validate_response_for.
MatchesPending ==
    /\ reply.rid = pending.rid /\ reply.seq = pending.seq
    /\ pending.session # 0 => reply.session = pending.session

\* apply_response.
ApplyResponse ==
    /\ pc = "await" /\ reply.code = "ok"
    /\ IF ~MatchesPending THEN Stop("protocol") /\ UNCHANGED <<session, next, pending>>
       ELSE IF pending.seq = MaxSequence
       THEN Stop("exhausted") /\ UNCHANGED <<session, next, pending>>
       ELSE /\ session' = reply.session /\ next' = pending.seq + 1 /\ pending' = NoRequest
            /\ pc' = "wait" /\ UNCHANGED why
    /\ reply' = NoReply
    /\ UNCHANGED <<revision, proc, shutdown, issued, net, server>>

\* map_error_response: a gap with a larger expected sequence is retried, any other
\* code here stops the loop.  A foreign answer is a protocol error too, with a name of
\* its own here.
ApplyError ==
    /\ pc = "await" /\ reply.code \in {"fenced", "rejected", "foreign", "gap", "conflict"}
    /\ CASE reply.code \in {"fenced", "rejected", "foreign"} -> Stop(reply.code)
         [] reply.code = "gap" /\ reply.seq > pending.seq -> pc' = "wait" /\ UNCHANGED why
         [] OTHER -> Stop("protocol")
    /\ reply' = NoReply
    /\ UNCHANGED <<revision, proc, session, next, pending, shutdown, issued, net, server>>

-----------------------------------------------------------------------------
\* The control plane (external).  It answers request m by its record of the runner;
\* a process it has not seen opens a session, which fences the earlier ones.
Opens(m) == m.session = 0 /\ m.proc \notin server.known
Accepts(m) == m.session = server.session /\ m.seq = server.last + 1
Replays(m) == m.proc = server.proc /\ m.seq = server.last /\ m.rid = server.rid

Answer(m) ==
    LET session1 == IF Opens(m) THEN server.session + 1 ELSE server.session
        code == IF Opens(m) \/ Accepts(m) \/ Replays(m) THEN "ok"
                ELSE IF m.proc # server.proc \/ m.session \notin {0, server.session} THEN "fenced"
                ELSE IF m.seq > server.last + 1 THEN "gap" ELSE "conflict"
    IN [code |-> code, session |-> session1, rid |-> m.rid,
        seq |-> IF code = "gap" THEN server.last + 1 ELSE m.seq]

Awaited(m) == pc = "await" /\ reply = NoReply /\ pending = m

\* It handles m, which may be handled again later when another copy is under way;
\* the answer reaches the client only if the client still waits for it.
Handle(m, again, delivered) ==
    /\ server' = IF Opens(m) \/ Accepts(m)
                 THEN [known |-> server.known \cup {m.proc}, proc |-> m.proc,
                       session |-> Answer(m).session, last |-> m.seq, rid |-> m.rid,
                       rev |-> m.rev]
                 ELSE server
    /\ net' = IF again THEN net ELSE net \ {m}
    /\ delivered => Awaited(m)
    /\ reply' = IF delivered THEN Answer(m) ELSE reply
    /\ UNCHANGED <<revision, proc, session, next, pending, pc, why, shutdown, issued>>

\* It refuses m before looking at it: busy (429, 500, 503, rate_limited, unavailable)
\* or rejected (401, 413).  Or something on the way answers for it: a redirect, the 502
\* or 504 of a gateway, a body that is too large or does not parse.
Refuse(m, code) ==
    /\ Awaited(m)
    /\ reply' = [NoReply EXCEPT !.code = code]
    /\ net' = net \ {m}
    /\ UNCHANGED <<revision, proc, session, next, pending, pc, why, shutdown, issued, server>>

Lose(m) ==
    /\ net' = net \ {m}
    /\ UNCHANGED <<revision, client, shutdown, server>>

Deliver == \E m \in net : Handle(m, FALSE, TRUE)

ClientStep == PreparePending \/ Resend \/ SendPoll \/ Retry \/ ApplyResponse \/ ApplyError

ServerStep ==
    \E m \in net :
        \/ \E again, delivered \in BOOLEAN : Handle(m, again, delivered)
        \/ \E code \in {"busy", "rejected", "foreign"} : Refuse(m, code)
        \/ Lose(m)

PollNext ==
    \/ CapacityChanges \/ Restart \/ RequestShutdown \/ ObserveShutdown
    \/ ClientStep
    \/ ServerStep

\* The loop is polled by its runtime.  A request that is sent again and again is
\* answered in time some day: retry_delay is capped at 30 seconds, and the loop
\* never gives up by itself.
PollFairness ==
    /\ WF_pollvars(ClientStep) /\ WF_pollvars(ObserveShutdown)
    /\ SF_pollvars(Deliver)

PollSpec == PollInit /\ [][PollNext]_pollvars /\ PollFairness

-----------------------------------------------------------------------------
\* Type invariant: above all, next_sequence is a sequence number, which u64 bounds.
PollTypeOK ==
    /\ next \in 1 .. MaxSequence /\ session \in 0 .. MaxProcess
    /\ pc \in {"wait", "send", "await", "stopped"}
    /\ server.last \in 0 .. MaxSequence
    /\ \A m \in net \cup {pending} :
          m \in [proc : 0 .. MaxProcess, session : 0 .. MaxProcess, rid : 0 .. issued,
                 seq : 0 .. MaxSequence, rev : 0 .. MaxRevision]

\* Whatever was lost, resent or handled twice, the process whose session is the
\* current one is never ahead of the control plane and at most one poll behind
\* it; so no answer of the control plane is ever a protocol error to the loop.
NeverOutOfStep ==
    /\ PollTypeOK
    /\ session # 0 /\ session = server.session /\ proc = server.proc =>
          server.last \in IF pending = NoRequest THEN {next - 1} ELSE {next - 1, next}
    /\ why # "protocol"

\* Within one session the capacity the control plane knows never goes back to an
\* earlier revision of the ledger, although old copies of requests arrive late.
ReportsInOrder ==
    [][server'.session = server.session => server'.rev >= server.rev]_pollvars

\* A poll that was prepared is acknowledged in the end, unless the control plane
\* fences or rejects the runner, something else answers for it, the sequence numbers
\* are used up, or the process is shut down or restarted: no loss, timeout or busy
\* answer ends the loop.
PollAcknowledged ==
    \A p \in 1 .. MaxProcess, s \in 1 .. MaxSequence :
        proc = p /\ pending.seq = s ~>
            \/ proc # p
            \/ next > s
            \/ why \in {"fenced", "rejected", "foreign", "exhausted", "shutdown"}
=============================================================================
