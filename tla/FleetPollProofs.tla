---------------------------- MODULE FleetPollProofs ----------------------------
(***************************************************************************)
(* The poll protocol stays in step for every number of polls, revisions    *)
(* and restarts.                                                           *)
(*                                                                         *)
(* The invariant rests on three facts.  Of the running process only the    *)
(* pending request carries the sequence number it is at (Messages).  The   *)
(* control plane's record of that process is at most the pending request   *)
(* ahead, and then it is of that very request (Standing).  An answer under *)
(* way to the client is one to its pending request, given in the session   *)
(* the client is in or opens (Answering).                                  *)
(***************************************************************************)
EXTENDS FleetPoll, FiniteSets, FiniteSetTheorems, TLAPS

\* The time each leaf may take: SMT first, then Zenon.
USE SMTT(20), ZenonT(20)

Request == [proc : 1 .. MaxProcess, session : 0 .. MaxProcess, rid : Nat \ {0},
            seq : 1 .. MaxSequence, rev : 0 .. MaxRevision]

Reply == [code : {"none", "ok", "busy", "fenced", "rejected", "foreign"}, session : Nat, rid : Nat, seq : Nat]

Record == [known : SUBSET (1 .. MaxProcess), proc : 0 .. MaxProcess, session : Nat,
           last : 0 .. MaxSequence, rid : Nat, rev : 0 .. MaxRevision]

PollTypes ==
    /\ revision \in 0 .. MaxRevision
    /\ proc \in 1 .. MaxProcess
    /\ session \in 0 .. MaxProcess
    /\ next \in 1 .. MaxSequence
    /\ issued \in Nat
    /\ pc \in {"wait", "send", "await", "stopped"}
    /\ why # "protocol"
    /\ pending \in Request \cup {NoRequest}
    /\ net \subseteq Request
    /\ reply \in Reply
    /\ server \in Record

\* What the loop keeps together: a session from the first answer on, and the
\* pending request built from the current state.
Loop ==
    /\ session = 0 <=> next = 1
    /\ pc \in {"send", "await"} => pending # NoRequest
    /\ pending # NoRequest =>
          pending.proc = proc /\ pending.seq = next /\ pending.session = session

\* The control plane's own record: one session for each process it has seen.
Sessions ==
    /\ server.session = Cardinality(server.known)
    /\ \A p \in server.known \cup {server.proc} : p <= proc
    /\ server.session # 0 => server.proc \in server.known
    /\ server.rev <= revision

\* A request on the wire or about to be sent.
Message(m) ==
    /\ m.proc <= proc /\ m.rid <= issued /\ m.rev <= revision
    /\ m.session = 0 <=> m.seq = 1
    /\ m.session <= server.session
    /\ m.session # 0 /\ m.session = server.session => m.proc = server.proc
    /\ m.proc = proc => m.seq <= next /\ (m.seq = next => m = pending)
    /\ m.proc = server.proc /\ m.seq > server.last => m.rev >= server.rev

Sent == net \cup ({pending} \ {NoRequest})

Messages ==
    /\ \A m \in Sent : Message(m)
    /\ \A m, n \in Sent : m.proc = n.proc /\ m.seq <= n.seq => m.rev <= n.rev

\* Where the control plane stands with the running process.
Standing ==
    /\ next > 1 => proc \in server.known
    /\ session <= server.session
    /\ session # 0 /\ session = server.session => server.proc = proc
    /\ server.proc = proc =>
          /\ server.last \in {next - 1, next} /\ server.last >= 1
          /\ server.last = next => pending # NoRequest /\ server.rid = pending.rid
          /\ session \in {0, server.session}

\* What an answer that is under way to the client says.
Answering ==
    /\ reply.code # "none" => pc = "await"
    /\ reply.code = "none" => reply = NoReply
    /\ reply.code = "ok" =>
          /\ reply.rid = pending.rid /\ reply.seq = pending.seq
          /\ reply.session >= 1 /\ reply.session <= server.session
          /\ pending.session # 0 => reply.session = pending.session
          /\ proc \in server.known
          /\ server.proc = proc => reply.session = server.session /\ server.last = next
          /\ reply.session = server.session => server.proc = proc

PollInv == PollTypes /\ Loop /\ Sessions /\ Messages /\ Standing /\ Answering

\* No request is the absence of one.
LEMMA RequestsAreReal == \A m \in Request : m # NoRequest /\ m.proc # 0 /\ m.seq # 0 /\ m.rid # 0
BY DEF Request, NoRequest

\* The control plane has seen finitely many processes, as many as it opened
\* sessions for.
LEMMA KnownFinite ==
    ASSUME PollInv
    PROVE  IsFiniteSet(server.known) /\ server.session <= MaxProcess
<1>1. IsFiniteSet(1 .. MaxProcess) /\ Cardinality(1 .. MaxProcess) = MaxProcess
  BY FS_Interval, FleetConstants
<1>2. server.known \subseteq 1 .. MaxProcess
  BY DEF PollInv, PollTypes, Record
<1>3. IsFiniteSet(server.known) /\ Cardinality(server.known) <= Cardinality(1 .. MaxProcess)
  BY <1>1, <1>2, FS_Subset, Zenon
<1>. QED BY <1>1, <1>3 DEF PollInv, Sessions

\* At the start.
LEMMA PollInitInv == PollInit => PollInv
<1>. SUFFICES ASSUME PollInit PROVE PollInv
  OBVIOUS
<1>1. PollTypes
  BY FleetConstants DEF PollInit, PollTypes, Reply, Record, NoReply
<1>2. Sent = {}
  BY DEF PollInit, Sent
<1>3. Cardinality(server.known) = 0
  BY FS_EmptySet DEF PollInit
<1>4. Loop /\ Sessions /\ Standing /\ Answering
  BY <1>3 DEF PollInit, Loop, Sessions, Standing, Answering, NoReply
<1>. QED BY <1>1, <1>2, <1>4 DEF PollInv, Messages

\* The ledger moving on and the shutdown signal.
LEMMA OutsideSteps ==
    ASSUME PollInv, CapacityChanges \/ RequestShutdown \/ UNCHANGED pollvars
    PROVE  PollInv'
<1>1. /\ UNCHANGED <<client, net, server>>
      /\ revision' \in 0 .. MaxRevision /\ revision' >= revision
  BY FleetConstants DEF CapacityChanges, RequestShutdown, pollvars, PollInv, PollTypes
<1>2. PollTypes' /\ Loop' /\ Standing' /\ Answering'
  BY <1>1 DEF PollInv, PollTypes, Loop, Standing, Answering, client
<1>3. Sessions'
  BY <1>1 DEF PollInv, PollTypes, Sessions, client, Record
<1>4. Sent' = Sent /\ Sent \subseteq Request
  BY <1>1 DEF Sent, client, PollInv, PollTypes
<1>5. \A m \in Sent : Message(m)'
  BY <1>1, <1>4 DEF PollInv, PollTypes, Messages, Message, client, Request
<1>. QED BY <1>2, <1>3, <1>4, <1>5 DEF PollInv, Messages

\* A restarted process has sent nothing yet, and the control plane has not seen it.
LEMMA RestartStep ==
    ASSUME PollInv, Restart
    PROVE  PollInv'
<1>1. /\ proc' = proc + 1 /\ session' = 0 /\ next' = 1 /\ pending' = NoRequest
      /\ pc' = "wait" /\ why' = "running" /\ reply' = NoReply
      /\ UNCHANGED <<revision, issued, net, server>> /\ proc' \in 1 .. MaxProcess
  BY FleetConstants DEF Restart, FreshLoop, PollInv, PollTypes
<1>2. PollTypes'
  BY <1>1, FleetConstants DEF PollInv, PollTypes, Reply, NoReply
<1>3. Loop' /\ Answering'
  BY <1>1 DEF Loop, Answering, NoReply
<1>4. Sessions' /\ Standing'
  BY <1>1 DEF PollInv, PollTypes, Sessions, Standing, Record
<1>5. Sent' \subseteq Sent /\ Sent \subseteq Request
  BY <1>1 DEF Sent, PollInv, PollTypes
<1>6. \A m \in Sent' : Message(m)'
  BY <1>1, <1>5 DEF PollInv, PollTypes, Messages, Message, Request
<1>. QED BY <1>2, <1>3, <1>4, <1>5, <1>6 DEF PollInv, Messages

\* Steps of the loop that keep the pending request and forget an answer, if any.
LEMMA KeepingSteps ==
    ASSUME PollInv, ObserveShutdown \/ Resend \/ SendPoll \/ Retry \/ ApplyError
    PROVE  PollInv'
<1>1. /\ UNCHANGED <<revision, proc, session, next, pending, issued, server>>
      /\ net' = net \/ (net' = net \cup {pending} /\ pending # NoRequest)
      /\ pc' \in {"wait", "send", "await", "stopped"} /\ why' # "protocol"
      /\ pc' \in {"send", "await"} => pending # NoRequest
      /\ reply' = NoReply
  <2>. USE DEF PollInv, PollTypes, Loop, Answering, Reply
  <2>1. CASE ObserveShutdown
    BY <2>1 DEF ObserveShutdown, Stop
  <2>2. CASE Resend \/ SendPoll \/ Retry
    BY <2>2 DEF Resend, SendPoll, Retry
  <2>3. CASE ApplyError
    BY <2>3 DEF ApplyError, Stop
  <2>. QED BY <2>1, <2>2, <2>3
<1>2. PollTypes'
  BY <1>1 DEF PollInv, PollTypes, Reply, NoReply
<1>3. Loop' /\ Standing' /\ Sessions' /\ Answering'
  BY <1>1 DEF PollInv, Loop, Standing, Sessions, Answering, NoReply
<1>4. Sent' = Sent
  BY <1>1 DEF Sent
<1>5. \A m \in Sent : Message(m)'
  BY <1>1 DEF PollInv, Messages, Message
<1>. QED BY <1>2, <1>3, <1>4, <1>5 DEF PollInv, Messages

\* A new pending request reports the newest revision under the next number, which
\* no other request of this process carries.
LEMMA PrepareStep ==
    ASSUME PollInv, PreparePending
    PROVE  PollInv'
<1>. USE FleetConstants
<1>1. /\ pending = NoRequest /\ pc = "wait" /\ pc' = "send" /\ issued' = issued + 1
      /\ UNCHANGED <<revision, proc, session, next, why, reply, net, server>>
      /\ pending' = [proc |-> proc, session |-> session, rid |-> issued + 1,
                     seq |-> next, rev |-> revision]
  BY DEF PreparePending
<1>2. pending' \in Request
  BY <1>1 DEF PollInv, PollTypes, Request
<1>3. /\ pending'.proc = proc /\ pending'.session = session /\ pending'.rid = issued + 1
      /\ pending'.seq = next /\ pending'.rev = revision /\ pending' # NoRequest
  BY <1>1, <1>2, RequestsAreReal
<1>4. PollTypes'
  BY <1>1, <1>2 DEF PollInv, PollTypes
<1>5. Loop' /\ Sessions' /\ Standing' /\ Answering'
  BY <1>1, <1>3 DEF PollInv, PollTypes, Loop, Sessions, Standing, Answering
<1>6. Sent' = Sent \cup {pending'} /\ Sent = net /\ Sent \subseteq Request
  BY <1>1, <1>3 DEF Sent, PollInv, PollTypes
<1>7. \A m \in Sent : m.proc = proc => m.seq < next
  BY <1>1, <1>6, RequestsAreReal DEF PollInv, PollTypes, Messages, Message, Request
<1>8. \A m \in Sent : Message(m)'
  BY <1>1, <1>6, <1>7 DEF PollInv, PollTypes, Messages, Message, Request
<1>9. ASSUME NEW m \in {pending'} PROVE Message(m)'
  <2>1. /\ m.proc = proc /\ m.session = session /\ m.rid = issued + 1 /\ m.seq = next
        /\ m.rev = revision /\ m = pending'
    BY <1>3
  <2>. QED BY <1>1, <2>1 DEF PollInv, PollTypes, Loop, Sessions, Standing, Message, Record
<1>10. \A m \in Sent : m.rev <= pending'.rev /\ (m.proc = proc => ~(pending'.seq <= m.seq))
  BY <1>3, <1>6, <1>7 DEF PollInv, PollTypes, Messages, Message, Request
<1>11. pending'.rev <= pending'.rev
  BY <1>3 DEF PollInv, PollTypes
<1>12. \A m, n \in Sent' : m.proc = n.proc /\ m.seq <= n.seq => m.rev <= n.rev
  BY <1>3, <1>6, <1>10, <1>11 DEF PollInv, Messages
<1>13. \A m \in Sent' : Message(m)'
  BY <1>6, <1>8, <1>9
<1>. QED BY <1>4, <1>5, <1>12, <1>13 DEF PollInv, Messages

\* An answer matches the pending request, so applying it only ever moves the
\* loop on, or ends it at the last sequence number.
LEMMA ApplyStep ==
    ASSUME PollInv, ApplyResponse
    PROVE  PollInv'
<1>. USE FleetConstants
<1>0. /\ pc = "await" /\ reply.code = "ok" /\ reply' = NoReply /\ MatchesPending
      /\ UNCHANGED <<revision, proc, issued, net, server>>
      /\ pending # NoRequest /\ pending.seq = next /\ pending.proc = proc
  BY DEF ApplyResponse, MatchesPending, PollInv, Loop, Answering
<1>1. CASE pending.seq = MaxSequence
  <2>1. /\ UNCHANGED <<session, next, pending>> /\ pc' = "stopped" /\ why' = "exhausted"
    BY <1>0, <1>1 DEF ApplyResponse, Stop
  <2>2. PollTypes'
    BY <1>0, <2>1 DEF PollInv, PollTypes, Reply, NoReply
  <2>3. Loop' /\ Sessions' /\ Standing' /\ Answering'
    BY <1>0, <2>1 DEF PollInv, Loop, Sessions, Standing, Answering, NoReply
  <2>4. Messages'
    BY <1>0, <2>1 DEF PollInv, Messages, Message, Sent
  <2>. QED BY <2>2, <2>3, <2>4 DEF PollInv
<1>2. CASE pending.seq # MaxSequence
  <2>1. /\ session' = reply.session /\ next' = next + 1 /\ pending' = NoRequest
        /\ pc' = "wait" /\ why' = why
    BY <1>0, <1>2 DEF ApplyResponse
  <2>2. server.session <= MaxProcess
    BY KnownFinite
  <2>3. PollTypes'
    BY <1>0, <1>2, <2>1, <2>2 DEF PollInv, PollTypes, Answering, Reply, NoReply, Record
  <2>4. Loop' /\ Sessions' /\ Answering'
    BY <1>0, <2>1 DEF PollInv, PollTypes, Loop, Sessions, Answering, NoReply, Reply
  <2>5. Standing'
    BY <1>0, <2>1 DEF PollInv, PollTypes, Standing, Answering, Reply, Record
  <2>6. Sent' \subseteq Sent /\ Sent \subseteq Request
    BY <1>0, <2>1 DEF Sent, PollInv, PollTypes
  <2>7. \A m \in Sent' : Message(m)'
    BY <1>0, <2>1, <2>6 DEF PollInv, PollTypes, Messages, Message, Request
  <2>. QED BY <2>3, <2>4, <2>5, <2>6, <2>7 DEF PollInv, Messages
<1>. QED BY <1>1, <1>2

\* Requests get lost, or are refused before the control plane looks at them.
LEMMA LossSteps ==
    ASSUME PollInv, NEW m \in net, NEW code \in {"busy", "rejected", "foreign"}, Refuse(m, code) \/ Lose(m)
    PROVE  PollInv'
<1>1. /\ UNCHANGED <<revision, proc, session, next, pending, pc, why, issued, server>>
      /\ net' \subseteq net
      /\ reply' = reply \/ (pc = "await" /\ reply' = [NoReply EXCEPT !.code = code])
  BY DEF Refuse, Lose, Awaited, client
<1>2. PollTypes'
  BY <1>1 DEF PollInv, PollTypes, Reply, NoReply
<1>3. Loop' /\ Sessions' /\ Standing' /\ Answering'
  BY <1>1 DEF PollInv, Loop, Sessions, Standing, Answering, NoReply
<1>4. Sent' \subseteq Sent
  BY <1>1 DEF Sent
<1>5. \A n \in Sent' : Message(n)'
  BY <1>1, <1>4 DEF PollInv, Messages, Message
<1>. QED BY <1>2, <1>3, <1>4, <1>5 DEF PollInv, Messages

\* What every request on the wire satisfies.
LEMMA OnTheWire ==
    ASSUME PollInv, NEW m \in net
    PROVE  m \in Request /\ m \in Sent /\ Message(m) /\ m # NoRequest
BY RequestsAreReal DEF PollInv, PollTypes, Sent, Messages

\* Only the first request of a process opens its session, and only the pending
\* one if the process is the running one.
LEMMA Opening ==
    ASSUME PollInv, NEW m \in net, Opens(m)
    PROVE  /\ m.seq = 1 /\ m.proc \notin server.known
           /\ m.proc = proc => next = 1 /\ session = 0 /\ m = pending
           /\ server.session \in Nat /\ Cardinality(server.known \cup {m.proc}) = server.session + 1
<1>1. m \in Request /\ Message(m)
  BY OnTheWire
<1>2. m.seq = 1 /\ m.proc \notin server.known
  BY <1>1 DEF Opens, Message
<1>3. m.proc = proc => next = 1 /\ session = 0 /\ m = pending
  BY <1>1, <1>2 DEF Message, PollInv, PollTypes, Loop, Standing
<1>4. IsFiniteSet(server.known)
  BY KnownFinite
<1>5. Cardinality(server.known \cup {m.proc}) = Cardinality(server.known) + 1
  BY <1>2, <1>4, FS_AddElement, Zenon
<1>. QED BY <1>2, <1>3, <1>5 DEF PollInv, PollTypes, Sessions, Record

\* A request that is accepted in the current session is the next one of the
\* process that opened it, and the pending one if that is the running process.
LEMMA Accepting ==
    ASSUME PollInv, NEW m \in net, Accepts(m), ~Opens(m)
    PROVE  /\ m.session # 0 /\ m.session = server.session /\ m.seq = server.last + 1
           /\ m.proc = server.proc /\ m.proc \in server.known /\ server.rev <= m.rev
           /\ m.proc = proc => server.last = next - 1 /\ m = pending /\ session = server.session
<1>1. m \in Request /\ Message(m)
  BY OnTheWire
<1>2. IsFiniteSet(server.known)
  BY KnownFinite
<1>3. m.session # 0
  <2>1. server.session = 0 => server.known = {}
    BY <1>2, FS_EmptySet, Zenon DEF PollInv, Sessions
  <2>. QED BY <2>1 DEF Accepts, Opens
<1>4. m.proc = server.proc /\ m.proc \in server.known /\ m.session = server.session
      /\ m.seq = server.last + 1
  BY <1>1, <1>3 DEF Accepts, Message, PollInv, Sessions
<1>5. server.rev <= m.rev
  BY <1>1, <1>4 DEF Message, PollInv, PollTypes, Record, Request
<1>6. m.proc = proc => server.last = next - 1 /\ m = pending /\ session = server.session
  BY <1>1, <1>3, <1>4, OnTheWire DEF Message, PollInv, PollTypes, Loop, Standing, Record, Request
<1>. QED BY <1>3, <1>4, <1>5, <1>6

\* What handling m makes of the control plane's record.
Recorded(m) ==
    [known |-> server.known \cup {m.proc}, proc |-> m.proc,
     session |-> IF Opens(m) THEN server.session + 1 ELSE server.session,
     last |-> m.seq, rid |-> m.rid, rev |-> m.rev]

\* The record the control plane makes of a request keeps the invariant: handling
\* a late or a second copy of a request never disturbs the running process.
LEMMA RecordStep ==
    ASSUME PollInv, NEW m \in net, Opens(m) \/ Accepts(m), server' = Recorded(m),
           UNCHANGED <<revision, proc, session, next, pending, pc, why, issued>>
    PROVE  /\ server' \in Record /\ Sessions' /\ Standing'
           /\ \A n \in Sent : Message(n)'
<1>1. /\ m \in Request /\ m \in Sent /\ Message(m) /\ m # NoRequest /\ Sent \subseteq Request
      /\ \A n \in Sent : Message(n) /\ (n.proc = m.proc /\ m.seq <= n.seq => m.rev <= n.rev)
  BY OnTheWire DEF PollInv, PollTypes, Sent, Messages
<1>2. /\ server'.known = server.known \cup {m.proc} /\ server'.proc = m.proc
      /\ server'.last = m.seq /\ server'.rid = m.rid /\ server'.rev = m.rev
      /\ server'.session = IF Opens(m) THEN server.session + 1 ELSE server.session
  BY DEF Recorded
<1>3. server' \in Record
  BY <1>1 DEF Recorded, Record, Request, PollInv, PollTypes
<1>4. CASE Opens(m)
  <2>1. /\ m.seq = 1 /\ m.proc \notin server.known
        /\ m.proc = proc => next = 1 /\ session = 0 /\ m = pending
        /\ server.session \in Nat /\ Cardinality(server.known \cup {m.proc}) = server.session + 1
    BY <1>4, Opening
  <2>2. Sessions'
    BY <1>1, <1>2, <1>4, <2>1 DEF PollInv, PollTypes, Sessions, Message
  <2>3. Standing'
    BY <1>1, <1>2, <1>4, <2>1 DEF PollInv, PollTypes, Standing
  <2>4. \A n \in Sent : Message(n)'
    BY <1>1, <1>2, <1>4, <2>1 DEF Message, Request
  <2>. QED BY <1>3, <2>2, <2>3, <2>4
<1>5. CASE ~Opens(m)
  <2>1. /\ m.session # 0 /\ m.session = server.session /\ m.seq = server.last + 1
        /\ m.proc = server.proc /\ m.proc \in server.known /\ server.rev <= m.rev
        /\ m.proc = proc => server.last = next - 1 /\ m = pending /\ session = server.session
    BY <1>5, Accepting
  <2>2. Sessions'
    BY <1>1, <1>2, <1>5, <2>1, Zenon DEF PollInv, PollTypes, Sessions, Message
  <2>3. Standing'
    BY <1>1, <1>2, <1>5, <2>1 DEF PollInv, PollTypes, Standing, Request
  <2>4. \A n \in Sent : Message(n)'
    BY <1>1, <1>2, <1>5, <2>1 DEF Message, Request
  <2>. QED BY <1>3, <2>2, <2>3, <2>4
<1>. QED BY <1>4, <1>5

\* The answer to the pending request of the running process: it moves the loop
\* on, or says that a later process has taken over, but never that the process
\* is out of step.
LEMMA AnswerStep ==
    ASSUME PollInv, NEW m \in net, m = pending, pc = "await",
           server' = IF Opens(m) \/ Accepts(m) THEN Recorded(m) ELSE server,
           reply' = Answer(m),
           UNCHANGED <<proc, session, next, pending, pc>>
    PROVE  reply' \in Reply /\ Answering'
<1>1. /\ m \in Request /\ Message(m) /\ m.proc = proc /\ m.seq = next /\ m.session = session
  BY OnTheWire DEF PollInv, Loop
<1>2. server \in Record /\ next \in 1 .. MaxSequence /\ proc \in 1 .. MaxProcess
  BY DEF PollInv, PollTypes
<1>3. CASE Opens(m)
  <2>1. m.session = 0 /\ server.session \in Nat
    BY <1>3, <1>2 DEF Opens, Record
  <2>2. reply' = [code |-> "ok", session |-> server.session + 1, rid |-> m.rid, seq |-> m.seq]
    BY <1>3 DEF Answer
  <2>3. /\ server'.session = server.session + 1 /\ server'.proc = proc /\ server'.last = next
        /\ proc \in server'.known
    BY <1>1, <1>3 DEF Recorded
  <2>. QED BY <1>1, <2>1, <2>2, <2>3 DEF Reply, Answering, Request
<1>4. CASE ~Opens(m) /\ Accepts(m)
  <2>1. m.session # 0 /\ m.session = server.session /\ m.proc \in server.known
    BY <1>4, Accepting
  <2>2. reply' = [code |-> "ok", session |-> server.session, rid |-> m.rid, seq |-> m.seq]
    BY <1>4 DEF Answer
  <2>3. /\ server'.session = server.session /\ server'.proc = proc /\ server'.last = next
        /\ proc \in server'.known
    BY <1>1, <1>4 DEF Recorded
  <2>. QED BY <1>1, <1>2, <2>1, <2>2, <2>3 DEF Reply, Answering, Request, Record
<1>5. CASE ~Opens(m) /\ ~Accepts(m) /\ Replays(m)
  <2>1. reply' = [code |-> "ok", session |-> server.session, rid |-> m.rid, seq |-> m.seq]
    BY <1>5 DEF Answer
  <2>2. server' = server /\ server.proc = proc /\ server.last = next
    BY <1>1, <1>5 DEF Replays
  <2>3. /\ session \in {0, server.session} /\ server.session # 0 /\ proc \in server.known
    <3>1. server.session = 0 => server.known = {}
      BY KnownFinite, FS_EmptySet, Zenon DEF PollInv, Sessions
    <3>2. m.session = 0 => m.proc \in server.known
      BY <1>5 DEF Opens
    <3>. QED BY <1>1, <2>2, <3>1, <3>2 DEF PollInv, Standing, Sessions
  <2>. QED BY <1>1, <1>2, <2>1, <2>2, <2>3 DEF Reply, Answering, Request, Record
<1>6. CASE ~Opens(m) /\ ~Accepts(m) /\ ~Replays(m)
  <2>1. m.proc # server.proc \/ m.session \notin {0, server.session}
    <3>. SUFFICES ASSUME server.proc = proc PROVE FALSE
      BY <1>1 DEF PollInv, Standing
    <3>1. CASE server.last = next
      BY <1>1, <1>6, <3>1 DEF Replays, PollInv, Standing
    <3>2. CASE server.last = next - 1
      BY <1>1, <1>2, <1>6, <3>2 DEF Accepts, PollInv, Standing, Loop, Record
    <3>. QED BY <3>1, <3>2 DEF PollInv, Standing
  <2>2. reply' = [code |-> "fenced", session |-> server.session, rid |-> m.rid, seq |-> m.seq]
    BY <1>6, <2>1 DEF Answer
  <2>. QED BY <1>1, <1>2, <2>2 DEF Reply, Answering, Request, Record
<1>. QED BY <1>3, <1>4, <1>5, <1>6

\* The control plane handles a request, for the first or the second time.
LEMMA HandleStep ==
    ASSUME PollInv, NEW m \in net, NEW again \in BOOLEAN, NEW delivered \in BOOLEAN,
           Handle(m, again, delivered)
    PROVE  /\ PollInv'
           /\ server'.session = server.session => server'.rev >= server.rev
<1>1. /\ UNCHANGED <<revision, proc, session, next, pending, pc, why, issued>>
      /\ net' \subseteq net
      /\ delivered => m = pending /\ pc = "await" /\ reply' = Answer(m)
      /\ ~delivered => reply' = reply
  BY DEF Handle, Awaited
<1>2. server' = IF Opens(m) \/ Accepts(m) THEN Recorded(m) ELSE server
  BY DEF Handle, Recorded, Answer
<1>3. /\ server' \in Record /\ Sessions' /\ Standing' /\ \A n \in Sent : Message(n)'
  <2>1. CASE Opens(m) \/ Accepts(m)
    BY <1>1, <1>2, <2>1, RecordStep
  <2>2. CASE ~(Opens(m) \/ Accepts(m))
    BY <1>1, <1>2, <2>2 DEF PollInv, PollTypes, Sessions, Standing, Messages, Message
  <2>. QED BY <2>1, <2>2
<1>4. reply' \in Reply /\ Answering'
  <2>1. CASE delivered
    BY <1>1, <1>2, <2>1, AnswerStep
  <2>2. CASE ~delivered
    <3>0. reply' \in Reply
      BY <1>1, <2>2 DEF PollInv, PollTypes
    <3>. SUFFICES ASSUME reply.code = "ok" PROVE Answering'
      BY <1>1, <2>2, <3>0 DEF PollInv, Answering
    <3>1. /\ pending # NoRequest /\ pending.seq = next /\ pending.proc = proc
          /\ proc \in server.known /\ reply.session <= server.session
          /\ server.proc = proc => reply.session = server.session /\ server.last = next
          /\ reply.session = server.session => server.proc = proc
          /\ server.session \in Nat /\ reply.session \in Nat /\ next \in Nat
      BY DEF PollInv, Loop, Answering, PollTypes, Record, Reply
    <3>2. CASE Opens(m)
      <4>1. m.proc # proc
        BY <3>1, <3>2, Opening
      <4>2. /\ server'.session = server.session + 1 /\ server'.proc = m.proc
            /\ server'.known = server.known \cup {m.proc}
        BY <1>2, <3>2 DEF Recorded
      <4>3. /\ reply.session <= server'.session /\ reply.session # server'.session
            /\ server'.proc # proc /\ proc \in server'.known
        BY <3>1, <4>1, <4>2
      <4>. QED BY <1>1, <2>2, <4>3, Zenon DEF PollInv, Answering
    <3>3. CASE ~Opens(m) /\ Accepts(m)
      <4>1. m.proc = server.proc /\ m.proc # proc
        BY <3>1, <3>3, Accepting
      <4>2. /\ server'.session = server.session /\ server'.proc = m.proc
            /\ server'.known = server.known \cup {m.proc}
        BY <1>2, <3>3 DEF Recorded
      <4>3. /\ reply.session <= server'.session /\ reply.session # server'.session
            /\ server'.proc # proc /\ proc \in server'.known
        BY <3>1, <4>1, <4>2
      <4>. QED BY <1>1, <2>2, <4>3, Zenon DEF PollInv, Answering
    <3>4. CASE ~Opens(m) /\ ~Accepts(m)
      BY <1>1, <1>2, <2>2, <3>4 DEF PollInv, Answering
    <3>. QED BY <3>2, <3>3, <3>4
  <2>. QED BY <2>1, <2>2
<1>5. PollTypes' /\ Loop'
  BY <1>1, <1>3, <1>4 DEF PollInv, PollTypes, Loop
<1>6. Sent' \subseteq Sent
  BY <1>1 DEF Sent
<1>7. Messages'
  BY <1>3, <1>6 DEF PollInv, Messages
<1>8. server'.session = server.session => server'.rev >= server.rev
  <2>1. CASE Opens(m)
    BY <1>2, <2>1, Opening DEF Recorded
  <2>2. CASE ~Opens(m) /\ Accepts(m)
    BY <1>2, <1>3, <2>2, Accepting DEF Recorded, PollInv, PollTypes, Record
  <2>3. CASE ~Opens(m) /\ ~Accepts(m)
    BY <1>2, <2>3 DEF PollInv, PollTypes, Record
  <2>. QED BY <2>1, <2>2, <2>3
<1>. QED BY <1>3, <1>4, <1>5, <1>7, <1>8 DEF PollInv

\* Every step keeps the invariant, and the order of the reports.
LEMMA PollStep ==
    ASSUME PollInv, [PollNext]_pollvars
    PROVE  PollInv' /\ (server'.session = server.session => server'.rev >= server.rev)
<1>1. ASSUME NEW m \in net, NEW again \in BOOLEAN, NEW delivered \in BOOLEAN,
             Handle(m, again, delivered)
      PROVE  PollInv' /\ (server'.session = server.session => server'.rev >= server.rev)
  BY <1>1, HandleStep
<1>2. ASSUME server' = server PROVE server'.rev >= server.rev
  BY <1>2 DEF PollInv, PollTypes, Record
<1>3. ASSUME NEW m \in net, NEW code \in {"busy", "rejected", "foreign"}, Refuse(m, code) \/ Lose(m)
      PROVE  PollInv' /\ server' = server
  BY <1>3, LossSteps DEF Refuse, Lose
<1>4. CASE ServerStep
  BY <1>1, <1>2, <1>3, <1>4 DEF ServerStep
<1>5. CASE CapacityChanges \/ RequestShutdown \/ UNCHANGED pollvars
  <2>1. server' = server
    BY <1>5 DEF CapacityChanges, RequestShutdown, pollvars
  <2>. QED BY <1>2, <1>5, <2>1, OutsideSteps
<1>6. CASE Restart \/ ObserveShutdown \/ ClientStep
  <2>1. server' = server
    BY <1>6 DEF Restart, ObserveShutdown, ClientStep, PreparePending, Resend, SendPoll, Retry,
                ApplyResponse, ApplyError
  <2>. QED BY <1>2, <1>6, <2>1, RestartStep, KeepingSteps, PrepareStep, ApplyStep DEF ClientStep
<1>. QED BY <1>4, <1>5, <1>6 DEF PollNext

\* The inductive invariant.
THEOREM PollInvariant == PollSpec => []PollInv
<1>1. PollInv /\ [PollNext]_pollvars => PollInv'
  BY PollStep
<1>. QED BY PollInitInv, <1>1, PTL DEF PollSpec

\* Whatever is lost, resent, delayed or handled twice, and however often the
\* process restarts, the loop is in step with the control plane in its own
\* session and never stops for a protocol error.
THEOREM PollsStayInStep == PollSpec => []NeverOutOfStep
<1>1. PollInv => NeverOutOfStep
  <2>. SUFFICES ASSUME PollInv PROVE NeverOutOfStep
    OBVIOUS
  <2>1. PollTypeOK
    <3>. DEFINE R == [proc : 0 .. MaxProcess, session : 0 .. MaxProcess, rid : 0 .. issued,
                      seq : 0 .. MaxSequence, rev : 0 .. MaxRevision]
    <3>1. ASSUME NEW m \in Sent PROVE m \in R
      <4>1. m \in Request /\ m.rid <= issued /\ issued \in Nat
        BY DEF PollInv, PollTypes, Messages, Message, Sent
      <4>. QED BY <4>1, FleetConstants DEF Request
    <3>2. NoRequest \in R
      BY FleetConstants DEF NoRequest, PollInv, PollTypes
    <3>. HIDE DEF R
    <3>3. \A m \in net \cup {pending} : m \in R
      BY <3>1, <3>2 DEF Sent
    <3>. QED BY <3>3 DEF R, PollTypeOK, PollInv, PollTypes, Record
  <2>. QED BY <2>1 DEF NeverOutOfStep, PollInv, PollTypes, Standing
<1>. QED BY <1>1, PollInvariant, PTL

\* Within a session the control plane's view of the capacity never goes back to
\* an older revision.
THEOREM CapacityReportsInOrder == PollSpec => ReportsInOrder
<1>1. PollInv /\ [PollNext]_pollvars =>
         [server'.session = server.session => server'.rev >= server.rev]_pollvars
  BY PollStep
<1>. QED BY <1>1, PollInvariant, PTL DEF PollSpec, ReportsInOrder
=============================================================================
