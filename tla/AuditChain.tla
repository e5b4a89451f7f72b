------------------------------- MODULE AuditChain -------------------------------
(***************************************************************************)
(* The signed audit log (ne-supervisor, audit.rs) and its verifier         *)
(* (ne-protocol, audit.rs): emit composes, writes and commits one event at *)
(* a time under the chain mutex, a restart recovers the chain head from    *)
(* the file, and readers list the file while it is being written.          *)
(*                                                                         *)
(* The write itself runs on the blocking pool.  teardown aborts the relay  *)
(* tasks of a workspace (network.rs) wherever they wait: an emit that is   *)
(* aborted while it waits for its write gives the mutex back, the write    *)
(* goes on, and the chain state is not advanced.                           *)
(*                                                                         *)
(* The hash of an event is taken to be injective, so prev_hash is modelled *)
(* by the identity of the event it is the hash of; signatures always       *)
(* verify, since only this process writes the file.  A line is one         *)
(* write(2) to a file opened for append, so the kernel appends one line at *)
(* a time.  It may stop part way, with an error (a full disk) or with the  *)
(* process: the file then ends in a fragment, which may end inside a       *)
(* character, or in a whole event that lacks its newline.  What reached    *)
(* the file survives a crash of the process (emit does not fsync, so this  *)
(* says nothing of a host that loses power).                               *)
(***************************************************************************)
EXTENDS Integers, FiniteSets, FiniteSetsExt, Sequences

CONSTANTS
    MaxEmits,   \* emits attempted over all runs of the supervisor (a bound)
    Genesis,    \* GENESIS_PREV_HASH, and an absent last_canonical
    Junk,       \* a line that does not parse
    Garbled     \* a line that is not UTF-8

VARIABLES
    log,        \* audit.jsonl: one event, Junk or Garbled per line
    dirty,      \* the file does not end in a newline
    up,         \* the supervisor runs
    next_index, \* ChainState.next_index
    last,       \* ChainState.last_canonical
    emitting,   \* the emit that holds the chain mutex: [stage, event, line]
    stray,      \* the writes of aborted emits that have not ended
    emits,      \* emits so far; names the next event
    acked,      \* events whose emit returned Ok, in that order
    torn,       \* some write stopped part way
    aborted     \* the places in the file where the line of an aborted emit went

auditvars == <<log, dirty, up, next_index, last, emitting, stray, emits, acked, torn, aborted>>
disk == <<log, dirty>>
chain == <<next_index, last>>

Event == [n : 1 .. MaxEmits, chain_index : 0 .. MaxEmits, prev : 1 .. MaxEmits \cup {Genesis}]

ASSUME AuditConstants == MaxEmits \in Nat /\ {Junk, Garbled} \cap Event = {} /\ Junk # Garbled

NoEmit == [stage |-> "none", event |-> Junk, line |-> Junk]

AuditInit ==
    /\ log = <<>> /\ dirty = FALSE
    /\ up = TRUE /\ next_index = 0 /\ last = Genesis
    /\ emitting = NoEmit /\ stray = {}
    /\ emits = 0 /\ acked = <<>> /\ torn = FALSE /\ aborted = {}

\* The lines that hold an event, by their place in the file; list() and
\* recover_chain_head skip the ones that do not parse.  What a reader gets it gets in
\* this order, so events in a reader's hands are a set of places too.
Listed == {i \in 1 .. Len(log) : log[i] \notin {Junk, Garbled}}

-----------------------------------------------------------------------------
\* emit.

\* Take the chain mutex, link and sign the event.
EmitSign ==
    /\ up /\ emitting.stage = "none" /\ emits < MaxEmits
    /\ emits' = emits + 1
    /\ LET event == [n |-> emits + 1, chain_index |-> next_index, prev |-> last]
       IN emitting' = [stage |-> "signed", event |-> event, line |-> event]
    /\ UNCHANGED <<disk, up, chain, stray, acked, torn, aborted>>

\* The writes that were issued and have not ended, the emit's own and aborted ones.
Writes == stray \cup {emitting}
Partial(w) == w.stage \in {"head", "body"}

\* The write w goes on as v.  One that nobody waits for is forgotten when it ends.
GoesOn(w, v) ==
    \/ w = emitting /\ emitting' = v /\ UNCHANGED stray
    \/ w \in stray /\ UNCHANGED emitting
       /\ stray' = (stray \ {w}) \cup (IF v.stage \in {"none", "line"} THEN {} ELSE {v})

\* An unterminated last line, and what is written on top of it: never an event, and
\* never UTF-8 again once it is not.
LastLine == log[Len(log)]
OnTop(line) == IF ~dirty THEN line ELSE IF LastLine = Garbled THEN Garbled ELSE Junk

\* The append reaches the file: some bytes, every byte but the newline, all.
WriteHead(w) ==
    /\ up /\ w.stage = "signed" /\ \A v \in Writes : ~Partial(v)
    /\ GoesOn(w, [w EXCEPT !.stage = "head", !.line = OnTop(w.event)])
    /\ \E cut \in {Junk, Garbled} :
          LET line == IF dirty /\ LastLine = Garbled THEN Garbled ELSE cut
          IN log' = IF dirty THEN [log EXCEPT ![Len(log)] = line] ELSE Append(log, line)
    /\ dirty' = TRUE
    /\ aborted' = aborted \cup (IF w \in stray THEN {Len(log')} ELSE {})
    /\ UNCHANGED <<up, chain, emits, acked, torn>>

WriteBody(w) ==
    /\ up /\ w.stage = "head"
    /\ GoesOn(w, [w EXCEPT !.stage = "body"])
    /\ log' = [log EXCEPT ![Len(log)] = w.line]
    /\ UNCHANGED <<dirty, up, chain, emits, acked, torn, aborted>>

WriteNewline(w) ==
    /\ up /\ w.stage = "body"
    /\ GoesOn(w, [w EXCEPT !.stage = "line"])
    /\ dirty' = FALSE
    /\ UNCHANGED <<log, up, chain, emits, acked, torn, aborted>>

\* Mutant: the index advances, the hash to link to does not.
CommitKeepsLast ==
    /\ up /\ emitting.stage = "line"
    /\ next_index' = emitting.event.chain_index + 1
    /\ acked' = Append(acked, emitting.event)
    /\ emitting' = NoEmit
    /\ UNCHANGED <<disk, up, last, stray, emits, torn, aborted>>

\* The chain state advances only after the write, and emit returns Ok.
Commit ==
    /\ up /\ emitting.stage = "line"
    /\ next_index' = emitting.event.chain_index + 1
    /\ last' = emitting.event.n
    /\ acked' = Append(acked, emitting.event)
    /\ emitting' = NoEmit
    /\ UNCHANGED <<disk, up, stray, emits, torn, aborted>>

\* Any earlier error ends the write, and the emit if there is one, with the chain
\* state as it was.  So does an abort before the write was issued.
WriteFails(w) ==
    /\ up /\ w.stage \in {"signed", "head", "body"}
    /\ GoesOn(w, NoEmit)
    /\ torn' = (torn \/ Partial(w))
    /\ UNCHANGED <<disk, up, chain, emits, acked, aborted>>

\* A relay task is aborted while it waits in flush: the write goes on alone.
EmitAborted ==
    /\ up /\ emitting.stage # "none"
    /\ emitting' = NoEmit
    /\ stray' = stray \cup (IF emitting.stage = "line" THEN {} ELSE {emitting})
    /\ aborted' = aborted \cup (IF Partial(emitting) THEN {Len(log)}
                               ELSE {i \in Listed : log[i] = emitting.event})
    /\ UNCHANGED <<disk, up, chain, emits, acked, torn>>

-----------------------------------------------------------------------------
Crash ==
    /\ up
    /\ up' = FALSE
    /\ emitting' = NoEmit /\ stray' = {}
    /\ torn' = (torn \/ \E w \in Writes : Partial(w))
    /\ next_index' = 0 /\ last' = Genesis
    /\ UNCHANGED <<disk, emits, acked, aborted>>

\* recover_chain_head: the last line that parses, whatever is around it.
RecoverChainHead ==
    IF Listed = {} THEN next_index' = 0 /\ last' = Genesis
    ELSE LET head == log[Max(Listed)] IN next_index' = head.chain_index + 1 /\ last' = head.n

\* AuditLog::open.  A line that is not UTF-8 is an error of read_line: the supervisor
\* does not start, now or later.
Open ==
    /\ ~up /\ \A i \in 1 .. Len(log) : log[i] # Garbled
    /\ up' = TRUE
    /\ RecoverChainHead
    /\ UNCHANGED <<disk, emitting, stray, emits, acked, torn, aborted>>
OpenFails ==
    /\ ~up /\ \E i \in 1 .. Len(log) : log[i] = Garbled
    /\ UNCHANGED auditvars

AuditNext ==
    \/ EmitSign \/ Commit \/ EmitAborted
    \/ \E w \in Writes : WriteHead(w) \/ WriteBody(w) \/ WriteNewline(w) \/ WriteFails(w)
    \/ Crash \/ Open \/ OpenFails

AuditSpec == AuditInit /\ [][AuditNext]_auditvars

-----------------------------------------------------------------------------
\* list(since_chain_index, limit) without a workspace filter: the first `limit' events
\* from that index on.  It fails if it meets a line that is not UTF-8 before that.
From(since) == {i \in Listed : log[i].chain_index >= since}
List(since, limit) == {i \in From(since) : Cardinality({j \in From(since) : j <= i}) <= limit}
ListFails(since, limit) ==
    \E i \in 1 .. Len(log) :
        log[i] = Garbled /\ Cardinality({j \in From(since) : j < i}) < limit

\* Mutant: the first event of a partial export must be a genesis event too.
LinkErrorStrict(events, i) ==
    LET e == log[i]
        before == {j \in events : j < i}
        prev == log[Max(before)]
    IN IF before = {} THEN IF e.prev # Genesis THEN "BrokenLink" ELSE "none"
       ELSE IF e.chain_index # prev.chain_index + 1 THEN "NonSequentialIndex"
       ELSE IF e.prev # prev.n THEN "BrokenLink" ELSE "none"

\* verify_chain, step 5: what is wrong with the link of the event at i.
LinkError(events, i) ==
    LET e == log[i]
        before == {j \in events : j < i}
        prev == log[Max(before)]
    IN IF before = {} THEN IF e.chain_index = 0 /\ e.prev # Genesis THEN "BrokenLink" ELSE "none"
       ELSE IF e.chain_index # prev.chain_index + 1 THEN "NonSequentialIndex"
       ELSE IF e.prev # prev.n THEN "BrokenLink" ELSE "none"

\* ChainVerification.ok
VerifyChain(events) == \A i \in events : LinkError(events, i) = "none"

-----------------------------------------------------------------------------
Stages == {"none", "signed", "head", "body", "line"}
Line == Event \cup {Junk, Garbled}
Write == [stage : Stages, event : Line, line : Line]

\* Type invariant of the file, the chain state and the writes under way.
AuditTypeOK ==
    /\ log \in Seq(Line)
    /\ dirty \in BOOLEAN /\ up \in BOOLEAN /\ torn \in BOOLEAN
    /\ next_index \in 0 .. MaxEmits
    /\ last \in 1 .. MaxEmits \cup {Genesis}
    /\ Writes \subseteq Write
    /\ emits \in 0 .. MaxEmits
    /\ acked \in Seq(Event)
    /\ aborted \subseteq 1 .. Len(log)

\* "chain_index (monotonic from 0)": no two events a reader can see share an index,
\* and they appear in index order.  A teardown that aborts a relay in the middle of an
\* emit breaks this: the line is there, and the next event gets its index again.
IndexesRise == \A i, j \in Listed : i < j => log[i].chain_index < log[j].chain_index

\* No line from i to j is of an aborted emit.
Clear(i, j) == \A k \in aborted : k < i \/ k > j

\* An aborted emit is the only thing that breaks the chain of the listed events, and it
\* breaks it only across its own line: wherever there is none in between, and whatever
\* fails or crashes, events appear in index order without repetition, and the verifier
\* does not report BrokenLink, which is what an edited event looks like.
ListedChainUnbroken ==
    /\ \A i, j \in Listed : i < j /\ Clear(i, j) => log[i].chain_index < log[j].chain_index
    /\ \A j \in Listed :
          LinkError(Listed, j) = "BrokenLink" =>
              \E i \in Listed : i < j /\ ~Clear(i, j) /\ \A k \in Listed : k <= i \/ k >= j

\* As long as no write stopped part way, failed and aborted emits and restarts
\* included, the log holds every acknowledged event and can be listed, but for the
\* moment in which a line is being written; and it verifies if no aborted emit left a
\* line in it.  Any window a client lists from a log that verifies, verifies by
\* itself.
GoodLogVerifies ==
    /\ AuditTypeOK
    /\ ~torn =>
          /\ aborted = {} => VerifyChain(Listed)
          /\ \A i \in 1 .. Len(acked) : acked[i] \in {log[k] : k \in Listed}
          /\ \A since \in 0 .. MaxEmits, limit \in 1 .. MaxEmits :
                ListFails(since, limit) => \E w \in Writes : w.stage = "head"
    /\ VerifyChain(Listed) =>
          \A since \in 0 .. MaxEmits, limit \in 1 .. MaxEmits : VerifyChain(List(since, limit))
=============================================================================
