--------------------------- MODULE AuditChainProofs ---------------------------
(***************************************************************************)
(* Proofs about AuditChain: whatever write fails and wherever the          *)
(* supervisor stops, what a reader of the audit log can parse is in index  *)
(* order with no broken link but across the line of an aborted emit; and a *)
(* log no write of which stopped part way has every acknowledged event and *)
(* verifies if no line is of an aborted emit, as does every window listed  *)
(* from a log that verifies.                                               *)
(***************************************************************************)
EXTENDS AuditChain, SequenceTheorems, FiniteSetTheorems, NaturalsInduction, WellFoundedInduction, TLAPS

\* The time each leaf may take: SMT first, then Zenon.
USE SMTT(20), ZenonT(20)

\* The stages of a write of which something is in the file.
Written == {"head", "body", "line"}

\* The lines that parse are in index order, and linked where the indices are
\* consecutive, unless the line of an aborted emit is between them; index 0 links to
\* the genesis hash.
Linked ==
    /\ \A i \in Listed : log[i].chain_index < emits /\ (log[i].chain_index = 0 => log[i].prev = Genesis)
    /\ \A i, j \in Listed :
          i < j /\ Clear(i, j) =>
              /\ log[i].chain_index < log[j].chain_index
              /\ log[j].chain_index = log[i].chain_index + 1 => log[j].prev = log[i].n

\* The writes under way are of different emits, the one that holds the mutex the
\* youngest; one that nobody waits for ends with its line.
Issued ==
    /\ \A w \in Writes : w.stage # "none" =>
          /\ up /\ w.event \in Event /\ w.event.n <= emits /\ w.event.chain_index < emits
          /\ w.event.chain_index = 0 => w.event.prev = Genesis
    /\ \A w \in stray : /\ w.stage \in {"signed", "head", "body"}
                        /\ emitting.stage # "none" => w.event.n < emitting.event.n

\* What the write that has begun, of which there is at most one, has made of the last
\* line of the file.
Appending ==
    /\ dirty => log # <<>>
    /\ \A w \in Writes : Partial(w) =>
          /\ dirty /\ w.line \in {w.event, Junk, Garbled}
          /\ w.stage = "head" => LastLine \in {Junk, Garbled}
          /\ w.stage = "body" => LastLine = w.line
          /\ w \in stray => Len(log) \in aborted
          /\ \A v \in Writes : Partial(v) => v = w

\* An event the chain state counts, and the one it does not count yet: written but
\* not committed, or left without its newline by an emit that failed.
Counted(i) ==
    /\ log[i].chain_index < next_index
    /\ log[i].chain_index = next_index - 1 => log[i].n = last
Uncounted(i) ==
    /\ log[i].chain_index = next_index /\ log[i].prev = last
    /\ IF emitting.stage = "line" THEN log[i] = emitting.event ELSE dirty /\ i = Len(log)

\* The chain state of a running supervisor against the file, from the last line of an
\* aborted emit on.
ChainHead ==
    up => /\ next_index <= emits
          /\ next_index = 0 => last = Genesis
          /\ emitting.stage # "none" =>
                /\ next_index < emits
                /\ emitting.event.chain_index = next_index /\ emitting.event.prev = last
          /\ \A i \in Listed : Clear(i, Len(log)) => Counted(i) \/ Uncounted(i)

\* While no write has stopped part way every line parses, but for the one being
\* written, and no acknowledged event is missing.
Whole ==
    /\ dirty => \E w \in Writes : Partial(w)
    /\ \A w \in Writes : w.stage \in Written => w.line = w.event
    /\ \A i \in 1 .. Len(log) : i \in Listed \/ (i = Len(log) /\ \E w \in Writes : w.stage = "head")
    /\ emitting.stage = "line" => \E k \in Listed : log[k] = emitting.event
    /\ \A i \in 1 .. Len(acked) : \E k \in Listed : acked[i] = log[k]

\* If no line is of an aborted emit either, the index of an event is its place.
Straight ==
    /\ \A i \in Listed : log[i].chain_index = i - 1
    /\ up => next_index = IF emitting.stage \in Written THEN Len(log) - 1 ELSE Len(log)

AuditInv ==
    /\ AuditTypeOK /\ Linked /\ Issued /\ Appending /\ ChainHead
    /\ ~torn => Whole /\ (aborted = {} => Straight)

-----------------------------------------------------------------------------
\* A set of lines of a file has a last one.
LEMMA LastOf ==
    ASSUME NEW n \in Nat, NEW S, S \subseteq 1 .. n, S # {}
    PROVE  Max(S) \in S /\ \A y \in S : y <= Max(S)
<1>. DEFINE R == {p \in Nat \X Nat : p[1] < p[2]}
<1>. DEFINE T == {n - s : s \in S}
<1>1. IsWellFoundedOn(R, Nat)
  <2>1. R = OpToRel(<, Nat)
    BY Zenon DEF OpToRel
  <2>. QED BY <2>1, NatLessThanWellFounded, Zenon
<1>2. T \subseteq Nat /\ T # {}
  <2>1. \A s \in S : s \in 1 .. n /\ n - s \in Nat
    OBVIOUS
  <2>. QED BY <2>1, Zenon
<1>3. PICK m \in T : \A r \in T : <<r, m>> \notin R
  <2>. HIDE DEF R, T
  <2>. QED BY <1>1, <1>2, WFMin, Zenon
<1>4. ASSUME NEW r \in T PROVE m <= r
  <2>1. r \in Nat /\ m \in Nat
    BY <1>2
  <2>2. r < m => <<r, m>> \in R
    <3>. DEFINE p == <<r, m>>
    <3>1. p \in Nat \X Nat /\ p[1] = r /\ p[2] = m
      BY <2>1
    <3>. HIDE DEF p
    <3>2. r < m => p \in R
      BY <3>1
    <3>. QED BY <3>2 DEF p
  <2>. QED BY <1>3, <2>1, <2>2
<1>5. PICK x \in S : m = n - x
  OBVIOUS
<1>6. \A y \in S : x >= y
  <2>. TAKE y \in S
  <2>1. n - y \in T
    OBVIOUS
  <2>2. m <= n - y
    BY <1>4, <2>1
  <2>. QED BY <1>5, <2>2
<1>. HIDE DEF R, T
<1>7. Max(S) \in S /\ \A y \in S : Max(S) >= y
  BY <1>6, Zenon DEF Max
<1>. QED BY <1>7

\* Overwriting the last line of a file leaves the others.
LEMMA ReplaceLast ==
    ASSUME NEW S, NEW s \in Seq(S), s # <<>>, NEW e \in S
    PROVE  LET r == [s EXCEPT ![Len(s)] = e]
           IN /\ r \in Seq(S) /\ Len(r) = Len(s) /\ r # <<>>
              /\ \A i \in 1 .. Len(s) : r[i] = IF i = Len(s) THEN e ELSE s[i]
<1>1. Len(s) \in 1 .. Len(s)
  OBVIOUS
<1>. QED BY <1>1, ExceptSeq


\* The lines that parse are events.
LEMMA ListedEvents ==
    ASSUME AuditTypeOK
    PROVE  /\ Len(log) \in Nat /\ Listed \subseteq 1 .. Len(log)
           /\ \A i \in Listed : log[i] \in Event /\ log[i].chain_index \in Nat /\ i \in Nat
           /\ next_index \in Nat /\ emits \in Nat /\ MaxEmits \in Nat /\ emits <= MaxEmits
           /\ aborted \subseteq 1 .. Len(log) /\ \A k \in aborted : k \in Nat
<1>1. Len(log) \in Nat /\ \A i \in 1 .. Len(log) : log[i] \in Line
  BY LenProperties DEF AuditTypeOK
<1>2. \A e \in Event : e.chain_index \in Nat
  BY AuditConstants DEF Event
<1>. QED BY <1>1, <1>2, AuditConstants DEF Listed, AuditTypeOK, Line

\* A step that adds no event, and takes none but with the line it is on, leaves the
\* others linked.
LEMMA LinkedKept ==
    ASSUME AuditTypeOK, AuditTypeOK', Linked, emits <= emits', aborted \subseteq aborted',
           Listed' \subseteq Listed, \A i \in Listed' : log'[i] = log[i]
    PROVE  Linked'
<1>1. \A i \in Listed : log[i].chain_index \in Nat
  BY ListedEvents
<1>2. emits \in Nat /\ emits' \in Nat
  BY AuditConstants DEF AuditTypeOK
<1>. QED BY <1>1, <1>2 DEF Linked, Clear

\* Such a step leaves the events counted that the chain state counted.
LEMMA CountedKept ==
    ASSUME AuditTypeOK, ChainHead, up, UNCHANGED <<next_index, last>>, aborted \subseteq aborted',
           Listed' \subseteq Listed, \A i \in Listed' : log'[i] = log[i],
           Len(log') \in Nat, Len(log) <= Len(log'),
           NEW i \in Listed', Clear(i, Len(log))'
    PROVE  Counted(i)' \/ Uncounted(i)
<1>1. \A k \in aborted : k \in Nat
  BY ListedEvents
<1>2. Clear(i, Len(log))
  BY <1>1, ListedEvents DEF Clear
<1>3. Counted(i) => Counted(i)'
  BY Zenon DEF Counted
<1>. QED BY <1>2, <1>3 DEF ChainHead

\* The writes of one step and the next, when one goes on and the others stay.
LEMMA OneGoesOn ==
    ASSUME AuditTypeOK, Issued, NEW w \in Writes, NEW v, GoesOn(w, v), w.stage # "none"
    PROVE  /\ \A x \in Writes' : x = v \/ (x \in Writes /\ x # w)
           /\ \A x \in Writes : x # w => x \in Writes'
           /\ \/ w = emitting /\ w \notin stray /\ emitting' = v /\ stray' = stray
              \/ /\ w \in stray /\ w # emitting /\ emitting' = emitting
                 /\ \A x \in stray' : x \in stray \/ (x = v /\ v.stage \notin {"none", "line"})
           /\ v.stage \notin {"none", "line"} => v \in Writes'
<1>1. emitting \notin stray
  <2>. SUFFICES ASSUME emitting \in stray PROVE FALSE
    OBVIOUS
  <2>1. emitting.stage # "none" /\ emitting.event \in Event
    BY DEF Issued, Writes
  <2>2. emitting.event.n \in Nat /\ emitting.event.n < emitting.event.n
    BY <2>1, AuditConstants DEF Issued, Event
  <2>. QED BY <2>2
<1>. QED BY <1>1, Zenon DEF GoesOn, Writes

\* emit signs an event at the head of the chain.
LEMMA SignKeeps ==
    ASSUME AuditInv, EmitSign
    PROVE  AuditInv'
<1>. USE DEF disk, chain
<1>0. /\ Len(log) \in Nat /\ next_index \in Nat /\ emits \in Nat /\ MaxEmits \in Nat
      /\ next_index <= emits /\ emits < MaxEmits
      /\ AuditTypeOK /\ Linked /\ Issued /\ Appending /\ ChainHead
      /\ up /\ emitting.stage = "none"
  BY ListedEvents DEF AuditInv, ChainHead, EmitSign
<1>. DEFINE e == [n |-> emits + 1, chain_index |-> next_index, prev |-> last]
            v == [stage |-> "signed", event |-> e, line |-> e]
<1>1. e \in Event /\ e.n = emits + 1 /\ e.chain_index = next_index /\ e.prev = last
  BY <1>0 DEF AuditTypeOK, Event
<1>. HIDE DEF e
<1>2. /\ emitting' = v /\ Writes' = stray \cup {v} /\ v \in Write /\ v.stage = "signed" /\ v.event = e
      /\ UNCHANGED <<log, dirty, up, next_index, last, stray, acked, torn, aborted>>
      /\ emits' = emits + 1 /\ Listed' = Listed
  BY <1>1 DEF EmitSign, Writes, Write, Stages, Line, Listed, e
<1>. HIDE DEF v
<1>3. AuditTypeOK'
  BY <1>0, <1>2 DEF AuditTypeOK, Writes
<1>4. Linked'
  BY <1>0, <1>2, <1>3, LinkedKept
<1>5. Issued'
  <2>1. ASSUME NEW w \in stray
        PROVE  /\ w.event \in Event /\ w.event.n \in Nat /\ w.event.n <= emits
               /\ w.event.chain_index \in Nat /\ w.event.chain_index < emits
               /\ w.event.chain_index = 0 => w.event.prev = Genesis
               /\ w.stage \in {"signed", "head", "body"}
    BY <1>0, AuditConstants DEF Issued, Writes, Event
  <2>2. next_index = 0 => last = Genesis
    BY <1>0 DEF ChainHead
  <2>. QED BY <1>0, <1>1, <1>2, <2>1, <2>2 DEF Issued, Writes
<1>6. Appending'
  BY <1>0, <1>2 DEF Appending, Partial, Writes, LastLine
<1>7. ChainHead'
  BY <1>0, <1>1, <1>2 DEF ChainHead, Counted, Uncounted, Clear
<1>8. ~torn' => Whole' /\ (aborted' = {} => Straight')
  <2>1. Whole => Whole'
    BY <1>0, <1>2, Zenon DEF Whole, Written, Writes, Partial
  <2>2. Straight => Straight'
    BY <1>0, <1>2, Zenon DEF Straight, Written
  <2>. QED BY <1>2, <2>1, <2>2 DEF AuditInv
<1>. QED BY <1>3, <1>4, <1>5, <1>6, <1>7, <1>8 DEF AuditInv

\* The first bytes of an append, on a line of their own or after a line without its
\* newline, take at most that line away.
LEMMA HeadKeeps ==
    ASSUME AuditInv, NEW w \in Writes, WriteHead(w)
    PROVE  AuditInv'
<1>. USE DEF chain
<1>0. /\ Len(log) \in Nat /\ Listed \subseteq 1 .. Len(log) /\ emits \in Nat /\ next_index \in Nat
      /\ log \in Seq(Line) /\ {Junk, Garbled} \subseteq Line /\ w \in Write
      /\ AuditTypeOK /\ Linked /\ Issued /\ Appending /\ ChainHead
      /\ up /\ w.stage = "signed" /\ \A x \in Writes : ~Partial(x)
      /\ dirty \in BOOLEAN /\ w.event \in Event
  BY ListedEvents DEF AuditInv, AuditTypeOK, Line, Issued, WriteHead
<1>. DEFINE v == [w EXCEPT !.stage = "head", !.line = OnTop(w.event)]
<1>1. PICK line \in {Junk, Garbled} :
             log' = IF dirty THEN [log EXCEPT ![Len(log)] = line] ELSE Append(log, line)
  BY Zenon DEF WriteHead
<1>2. /\ log' \in Seq(Line) /\ log' # <<>> /\ log'[Len(log')] = line
      /\ Len(log') = IF dirty THEN Len(log) ELSE Len(log) + 1
      /\ \A i \in 1 .. Len(log') : log'[i] = line \/ (i \in 1 .. Len(log) /\ log'[i] = log[i])
      /\ \A i \in 1 .. Len(log) : log'[i] = log[i] \/ (i = Len(log) /\ dirty)
  <2>1. CASE ~dirty
    <3>. DEFINE r == Append(log, line)
    <3>1. /\ r \in Seq(Line) /\ r # <<>> /\ Len(r) = Len(log) + 1
          /\ \A i \in 1 .. Len(log) : r[i] = log[i]
          /\ r[Len(log) + 1] = line
      BY <1>0, AppendProperties
    <3>2. log' = r
      BY <1>1, <2>1
    <3>. HIDE DEF r
    <3>. QED BY <1>0, <2>1, <3>1, <3>2
  <2>2. CASE dirty
    <3>. DEFINE r == [log EXCEPT ![Len(log)] = line]
    <3>0. log # <<>>
      BY <1>0, <2>2 DEF Appending
    <3>1. /\ r \in Seq(Line) /\ Len(r) = Len(log) /\ r # <<>>
          /\ \A i \in 1 .. Len(log) : r[i] = IF i = Len(log) THEN line ELSE log[i]
      BY <1>0, <3>0, ReplaceLast
    <3>2. log' = r
      BY <1>1, <2>2
    <3>3. Len(log) \in 1 .. Len(log)
      BY <1>0, <3>0
    <3>. HIDE DEF r
    <3>. QED BY <1>0, <2>2, <3>1, <3>2, <3>3
  <2>. QED BY <1>0, <2>1, <2>2
<1>3. /\ v \in Write /\ v.stage = "head" /\ v.event = w.event
      /\ v.line \in {v.event, Junk, Garbled} /\ (~dirty => v.line = v.event)
      /\ GoesOn(w, v)
  <2>1. OnTop(w.event) \in {w.event, Junk, Garbled} /\ (~dirty => OnTop(w.event) = w.event)
    BY DEF OnTop
  <2>2. GoesOn(w, v)
    BY DEF WriteHead
  <2>3. w.event \in Line
    BY <1>0 DEF Line
  <2>. QED BY <1>0, <2>1, <2>2, <2>3 DEF Write, Stages
<1>. HIDE DEF v
<1>4. /\ dirty' = TRUE /\ aborted' = aborted \cup (IF w \in stray THEN {Len(log')} ELSE {})
      /\ UNCHANGED <<up, next_index, last, emits, acked, torn>>
  BY DEF WriteHead
<1>5. /\ \A x \in Writes' : x = v \/ (x \in Writes /\ x # w)
      /\ v \in Writes'
      /\ \/ w = emitting /\ w \notin stray /\ emitting' = v /\ stray' = stray
         \/ /\ w \in stray /\ w # emitting /\ emitting' = emitting
            /\ \A x \in stray' : x \in stray \/ x = v
  BY <1>0, <1>3, OneGoesOn
<1>6. Listed' \subseteq Listed /\ (\A i \in Listed' : log'[i] = log[i]) /\ Len(log') \notin Listed'
  BY <1>2 DEF Listed
<1>7. AuditTypeOK'
  <2>0. Len(log') \in 1 .. Len(log') /\ 1 .. Len(log) \subseteq 1 .. Len(log')
    BY <1>0, <1>2
  <2>1. aborted' \subseteq 1 .. Len(log')
    BY <1>0, <1>4, <2>0, Zenon DEF AuditTypeOK
  <2>2. Writes' \subseteq Write
    BY <1>0, <1>3, <1>5 DEF AuditTypeOK
  <2>. QED BY <1>0, <1>2, <1>4, <2>1, <2>2 DEF AuditTypeOK
<1>8. Linked'
  BY <1>0, <1>4, <1>6, <1>7, LinkedKept
<1>9. Issued'
  BY <1>0, <1>3, <1>4, <1>5, Zenon DEF Issued
<1>10. Appending'
  <2>1. \A x \in Writes' : Partial(x) => x = v
    BY <1>0, <1>5
  <2>2. v \in stray' => Len(log') \in aborted'
    <3>1. v \in stray' => w \in stray \/ v \in stray
      BY <1>5
    <3>2. v \notin stray
      BY <1>0, <1>3 DEF Partial, Writes
    <3>. QED BY <1>4, <3>1, <3>2
  <2>. QED BY <1>1, <1>2, <1>3, <1>4, <2>1, <2>2, Zenon DEF Appending, LastLine
<1>11. ChainHead'
  <2>1. emitting.stage # "line" \/ w # emitting
    BY <1>0
  <2>2. ASSUME NEW i \in Listed', Clear(i, Len(log))' PROVE Counted(i)' \/ Uncounted(i)'
    <3>1. Len(log') \in Nat /\ Len(log) <= Len(log')
      BY <1>0, <1>2
    <3>2. Counted(i)' \/ Uncounted(i)
      BY <1>0, <1>4, <1>6, <2>2, <3>1, CountedKept
    <3>3. ASSUME Uncounted(i) PROVE Uncounted(i)'
      <4>1. CASE emitting.stage = "line"
        BY <1>0, <1>4, <1>5, <1>6, <3>3, <4>1 DEF Uncounted
      <4>2. CASE emitting.stage # "line"
        <5>1. i = Len(log) /\ dirty
          BY <3>3, <4>2 DEF Uncounted
        <5>. QED BY <1>2, <1>6, <5>1
      <4>. QED BY <4>1, <4>2
    <3>. QED BY <3>2, <3>3
  <2>3. emitting'.stage # "none" => emitting.stage # "none" /\ emitting'.event = emitting.event
    BY <1>0, <1>3, <1>5
  <2>. QED BY <1>0, <1>4, <2>2, <2>3 DEF ChainHead
<1>12. ASSUME ~torn' PROVE Whole'
  <2>0. Whole /\ ~dirty
    BY <1>0, <1>4, <1>12 DEF AuditInv, Whole
  <2>1. Len(log') = Len(log) + 1 /\ \A i \in 1 .. Len(log) : log'[i] = log[i] /\ i \in Listed
    BY <1>0, <1>2, <2>0 DEF Whole, Partial
  <2>2. Listed' = Listed /\ Listed = 1 .. Len(log)
    BY <1>0, <1>2, <1>6, <2>1 DEF Listed
  <2>3. \A i \in 1 .. Len(log') : i \in Listed' \/ i = Len(log')
    BY <1>0, <2>1, <2>2
  <2>4. \A x \in Writes' : x.stage \in Written => x.line = x.event
    BY <1>3, <1>5, <2>0 DEF Whole
  <2>5. emitting'.stage = "line" => emitting' = emitting
    BY <1>3, <1>5
  <2>6. \A k \in Listed : log'[k] = log[k]
    BY <2>1, <2>2
  <2>7. emitting'.stage = "line" => \E k \in Listed' : log'[k] = emitting'.event
    BY <2>0, <2>2, <2>5, <2>6 DEF Whole
  <2>8. \A i \in 1 .. Len(acked') : \E k \in Listed' : acked'[i] = log'[k]
    BY <1>4, <2>0, <2>2, <2>6 DEF Whole
  <2>9. Partial(v) /\ v.stage = "head"
    BY <1>3 DEF Partial
  <2>. QED BY <1>5, <2>3, <2>4, <2>7, <2>8, <2>9 DEF Whole
<1>13. ASSUME ~torn', aborted' = {} PROVE Straight'
  <2>1. w = emitting /\ emitting' = v /\ aborted = {} /\ ~torn
    BY <1>4, <1>5, <1>13
  <2>2. Straight /\ Whole /\ ~dirty
    BY <1>0, <2>1 DEF AuditInv, Whole
  <2>. QED BY <1>0, <1>2, <1>3, <1>4, <1>6, <2>1, <2>2 DEF Straight, Written
<1>. QED BY <1>7, <1>8, <1>9, <1>10, <1>11, <1>12, <1>13 DEF AuditInv

\* The rest of the event: it follows every event before it, unless its emit was aborted.
LEMMA BodyKeeps ==
    ASSUME AuditInv, NEW w \in Writes, WriteBody(w)
    PROVE  AuditInv'
<1>. USE DEF chain
<1>0. /\ Len(log) \in Nat /\ Listed \subseteq 1 .. Len(log) /\ emits \in Nat /\ next_index \in Nat
      /\ log \in Seq(Line) /\ w \in Write
      /\ AuditTypeOK /\ Linked /\ Issued /\ Appending /\ ChainHead
      /\ up /\ w.stage = "head" /\ Partial(w) /\ w.event \in Event
      /\ \A i \in Listed : log[i].chain_index \in Nat /\ i \in Nat
  BY ListedEvents DEF AuditInv, AuditTypeOK, Issued, WriteBody, Partial
<1>1. /\ dirty /\ log # <<>> /\ w.line \in {w.event, Junk, Garbled} /\ w.line \in Line
      /\ log[Len(log)] \in {Junk, Garbled}
      /\ w \in stray => Len(log) \in aborted
      /\ \A x \in Writes : Partial(x) => x = w
  BY <1>0, Zenon DEF Appending, Line, LastLine
<1>2. /\ Len(log) \in 1 .. Len(log) /\ Len(log) \notin Listed /\ \A i \in Listed : i < Len(log)
  <2>1. Len(log) \in 1 .. Len(log) /\ Len(log) \notin Listed
    BY <1>0, <1>1 DEF Listed
  <2>. QED BY <1>0, <2>1
<1>. DEFINE r == [log EXCEPT ![Len(log)] = w.line]
            v == [w EXCEPT !.stage = "body"]
<1>3. /\ r \in Seq(Line) /\ Len(r) = Len(log) /\ r # <<>>
      /\ \A i \in 1 .. Len(log) : r[i] = IF i = Len(log) THEN w.line ELSE log[i]
  BY <1>0, <1>1, ReplaceLast
<1>4. /\ v \in Write /\ v.stage = "body" /\ v.event = w.event /\ v.line = w.line /\ GoesOn(w, v)
  BY <1>0 DEF WriteBody, Write, Stages
<1>5. log' = r /\ UNCHANGED <<dirty, up, next_index, last, emits, acked, torn, aborted>>
  BY DEF WriteBody
<1>. HIDE DEF r, v
<1>6. /\ log' \in Seq(Line) /\ log' # <<>> /\ Len(log') = Len(log) /\ log'[Len(log)] = w.line
      /\ \A i \in 1 .. Len(log) : i # Len(log) => log'[i] = log[i]
  BY <1>2, <1>3, <1>5
<1>7. /\ \A x \in Writes' : x = v \/ (x \in Writes /\ x # w)
      /\ v \in Writes'
      /\ \/ w = emitting /\ w \notin stray /\ emitting' = v /\ stray' = stray
         \/ /\ w \in stray /\ w # emitting /\ emitting' = emitting
            /\ \A x \in stray' : x \in stray \/ x = v
  BY <1>0, <1>4, OneGoesOn
<1>8. /\ \A i \in Listed : i \in Listed' /\ log'[i] = log[i]
      /\ \A i \in Listed' : i \in Listed \/ (i = Len(log) /\ w.line = w.event)
      /\ w.line = w.event => Len(log) \in Listed'
  BY <1>0, <1>1, <1>2, <1>6, AuditConstants DEF Listed
<1>9. AuditTypeOK'
  BY <1>0, <1>4, <1>5, <1>6, <1>7 DEF AuditTypeOK
<1>10. Issued'
  BY <1>0, <1>4, <1>5, <1>7, Zenon DEF Issued
<1>11. Appending'
  <2>1. \A x \in Writes' : Partial(x) => x = v
    BY <1>1, <1>7
  <2>2. v \in stray' => Len(log') \in aborted'
    <3>1. v \in stray' => w \in stray \/ v \in stray
      BY <1>7
    <3>2. v \notin stray
      BY <1>0, <1>1, <1>4 DEF Partial, Writes
    <3>. QED BY <1>1, <1>5, <1>6, <3>1, <3>2
  <2>. QED BY <1>1, <1>4, <1>5, <1>6, <2>1, <2>2, Zenon DEF Appending, LastLine
<1>12. ASSUME w = emitting
       PROVE  /\ w.event.chain_index = next_index /\ w.event.prev = last /\ next_index < emits
              /\ next_index = 0 => last = Genesis
              /\ \A i \in Listed : Clear(i, Len(log)) => Counted(i)
  <2>1. emitting.stage # "line" /\ emitting.stage # "none"
    BY <1>0, <1>12
  <2>. QED BY <1>0, <1>2, <1>12, <2>1 DEF ChainHead, Uncounted
<1>13. ASSUME w \in stray, NEW i \in Nat, i <= Len(log) PROVE ~Clear(i, Len(log))
  BY <1>0, <1>1, <1>13 DEF Clear
<1>14. Linked'
  <2>1. ASSUME NEW i \in Listed'
        PROVE  log'[i].chain_index < emits /\ (log'[i].chain_index = 0 => log'[i].prev = Genesis)
    <3>1. CASE i \in Listed
      BY <1>0, <1>8, <3>1 DEF Linked
    <3>2. CASE i = Len(log) /\ w.line = w.event
      <4>1. w.event.chain_index < emits /\ (w.event.chain_index = 0 => w.event.prev = Genesis)
        BY <1>0 DEF Issued
      <4>. QED BY <1>6, <3>2, <4>1
    <3>. QED BY <1>8, <3>1, <3>2
  <2>2. ASSUME NEW i \in Listed', NEW j \in Listed', i < j, Clear(i, j)
        PROVE  /\ log'[i].chain_index < log'[j].chain_index
               /\ log'[j].chain_index = log'[i].chain_index + 1 => log'[j].prev = log'[i].n
    <3>1. i \in Listed
      <4>1. i \in 1 .. Len(log) /\ j \in 1 .. Len(log) /\ i # Len(log)
        BY <1>0, <1>6, <2>2 DEF Listed
      <4>. QED BY <1>8, <4>1
    <3>2. CASE j \in Listed
      BY <1>0, <1>8, <2>2, <3>1, <3>2 DEF Linked
    <3>3. CASE j = Len(log) /\ w.line = w.event
      <4>1. w = emitting
        BY <1>0, <1>13, <2>2, <3>1, <3>3 DEF Writes
      <4>2. Counted(i) /\ log'[i] = log[i] /\ log'[j] = w.event /\ log[i].chain_index \in Nat
        BY <1>0, <1>6, <1>8, <1>12, <2>2, <3>1, <3>3, <4>1
      <4>. QED BY <1>0, <1>12, <4>1, <4>2 DEF Counted
    <3>. QED BY <1>8, <3>2, <3>3
  <2>3. \A i, j : Clear(i, j)' <=> Clear(i, j)
    BY <1>5 DEF Clear
  <2>. QED BY <1>5, <2>1, <2>2, <2>3 DEF Linked
<1>15. ChainHead'
  <2>1. \A i \in Listed' : i \in Nat /\ i <= Len(log)
    BY <1>0, <1>6 DEF Listed
  <2>2. ASSUME NEW i \in Listed', Clear(i, Len(log))' PROVE Counted(i)' \/ Uncounted(i)'
    <3>1. Clear(i, Len(log))
      BY <1>5, <1>6, <2>2 DEF Clear
    <3>2. w = emitting /\ emitting' = v
      BY <1>7, <1>13, <2>1, <3>1 DEF Writes
    <3>3. CASE i \in Listed
      <4>1. Counted(i)
        BY <1>12, <3>1, <3>2, <3>3
      <4>. QED BY <1>5, <1>8, <3>3, <4>1, Zenon DEF Counted
    <3>4. CASE i = Len(log) /\ w.line = w.event
      BY <1>1, <1>4, <1>5, <1>6, <1>12, <3>2, <3>4 DEF Uncounted
    <3>. QED BY <1>8, <3>3, <3>4
  <2>3. emitting'.stage # "none" => emitting.stage # "none" /\ emitting'.event = emitting.event
    BY <1>0, <1>4, <1>7
  <2>. QED BY <1>0, <1>5, <2>2, <2>3 DEF ChainHead
<1>16. ASSUME ~torn' PROVE Whole'
  <2>0. Whole /\ w.line = w.event
    BY <1>0, <1>5, <1>16 DEF AuditInv, Whole, Written
  <2>1. \A i \in 1 .. Len(log') : i \in Listed'
    BY <1>6, <1>8, <2>0 DEF Whole
  <2>2. \A x \in Writes' : x.stage \in Written => x.line = x.event
    BY <1>4, <1>7, <2>0 DEF Whole
  <2>3. emitting'.stage = "line" => \E k \in Listed' : log'[k] = emitting'.event
    BY <1>4, <1>7, <1>8, <2>0 DEF Whole
  <2>4. \A i \in 1 .. Len(acked') : \E k \in Listed' : acked'[i] = log'[k]
    BY <1>5, <1>8, <2>0 DEF Whole
  <2>5. Partial(v)
    BY <1>4 DEF Partial
  <2>. QED BY <1>7, <2>1, <2>2, <2>3, <2>4, <2>5 DEF Whole
<1>17. ASSUME ~torn', aborted' = {} PROVE Straight'
  <2>1. w = emitting /\ emitting' = v
    BY <1>1, <1>5, <1>7, <1>17
  <2>2. Straight /\ w.event.chain_index = next_index
    BY <1>5, <1>12, <1>17, <2>1 DEF AuditInv
  <2>3. next_index = Len(log) - 1
    BY <1>0, <2>1, <2>2 DEF Straight, Written
  <2>4. \A i \in Listed' : log'[i].chain_index = i - 1
    BY <1>6, <1>8, <2>2, <2>3 DEF Straight
  <2>. QED BY <1>4, <1>5, <1>6, <2>1, <2>3, <2>4 DEF Straight, Written
<1>. QED BY <1>9, <1>10, <1>11, <1>14, <1>15, <1>16, <1>17 DEF AuditInv

\* The newline ends the line, whatever is on it.
LEMMA NewlineKeeps ==
    ASSUME AuditInv, NEW w \in Writes, WriteNewline(w)
    PROVE  AuditInv'
<1>. USE DEF chain
<1>0. /\ Len(log) \in Nat /\ Listed \subseteq 1 .. Len(log) /\ w \in Write
      /\ AuditTypeOK /\ Linked /\ Issued /\ Appending /\ ChainHead
      /\ up /\ w.stage = "body" /\ Partial(w) /\ w.event \in Event
  BY ListedEvents DEF AuditInv, AuditTypeOK, Issued, WriteNewline, Partial
<1>1. /\ dirty /\ log # <<>> /\ w.line \in {w.event, Junk, Garbled} /\ log[Len(log)] = w.line
      /\ w \in stray => Len(log) \in aborted
      /\ \A x \in Writes : Partial(x) => x = w
  BY <1>0, Zenon DEF Appending, LastLine
<1>. DEFINE v == [w EXCEPT !.stage = "line"]
<1>2. /\ v \in Write /\ v.stage = "line" /\ v.event = w.event /\ v.line = w.line /\ GoesOn(w, v)
  BY <1>0 DEF WriteNewline, Write, Stages
<1>. HIDE DEF v
<1>3. /\ ~dirty' /\ dirty' \in BOOLEAN /\ Listed' = Listed
      /\ UNCHANGED <<log, up, next_index, last, emits, acked, torn, aborted>>
  BY DEF WriteNewline, Listed
<1>4. /\ \A x \in Writes' : x = v \/ (x \in Writes /\ x # w)
      /\ \A x \in Writes : x # w => x \in Writes'
      /\ \/ w = emitting /\ w \notin stray /\ emitting' = v /\ stray' = stray
         \/ /\ w \in stray /\ w # emitting /\ emitting' = emitting
            /\ \A x \in stray' : x \in stray
  BY <1>0, <1>2, OneGoesOn
<1>5. AuditTypeOK'
  BY <1>0, <1>2, <1>3, <1>4 DEF AuditTypeOK
<1>6. Linked'
  BY <1>0, <1>3 DEF Linked, Clear
<1>7. Issued'
  BY <1>0, <1>2, <1>3, <1>4, Zenon DEF Issued
<1>8. \A x \in Writes' : ~Partial(x)
  BY <1>1, <1>2, <1>4 DEF Partial
<1>9. Appending'
  BY <1>3, <1>8 DEF Appending
<1>10. ChainHead'
  <2>1. ASSUME NEW i \in Listed, Clear(i, Len(log)) PROVE Counted(i)' \/ Uncounted(i)'
    <3>1. Counted(i) => Counted(i)'
      BY <1>3, Zenon DEF Counted
    <3>2. w = emitting /\ emitting' = v
      BY <1>0, <1>1, <1>4, <2>1 DEF Clear
    <3>3. ASSUME Uncounted(i) PROVE Uncounted(i)'
      <4>1. i = Len(log) /\ log[i] = w.event
        BY <1>0, <1>1, <3>2, <3>3 DEF Uncounted, Listed
      <4>. QED BY <1>2, <1>3, <3>2, <3>3, <4>1 DEF Uncounted
    <3>. QED BY <1>0, <2>1, <3>1, <3>3 DEF ChainHead
  <2>2. emitting'.stage # "none" => emitting.stage # "none" /\ emitting'.event = emitting.event
    BY <1>0, <1>2, <1>4
  <2>3. \A i : Clear(i, Len(log))' <=> Clear(i, Len(log))
    BY <1>3 DEF Clear
  <2>. QED BY <1>0, <1>3, <2>1, <2>2, <2>3 DEF ChainHead
<1>11. ASSUME ~torn' PROVE Whole'
  <2>0. Whole /\ w.line = w.event
    BY <1>0, <1>3, <1>11 DEF AuditInv, Whole, Written
  <2>1. \A x \in Writes : x.stage # "head"
    BY <1>0, <1>1 DEF Partial
  <2>2. \A i \in 1 .. Len(log) : i \in Listed
    BY <2>0, <2>1 DEF Whole
  <2>3. emitting'.stage = "line" => \E k \in Listed : log[k] = emitting'.event
    <3>1. Len(log) \in Listed
      BY <1>0, <1>1, <2>2
    <3>. QED BY <1>1, <1>2, <1>4, <2>0, <3>1 DEF Whole
  <2>4. \A x \in Writes' : x.stage \in Written => x.line = x.event
    BY <1>2, <1>4, <2>0 DEF Whole
  <2>. QED BY <1>3, <2>0, <2>2, <2>3, <2>4 DEF Whole
<1>12. ASSUME ~torn', aborted' = {} PROVE Straight'
  <2>1. w = emitting /\ emitting' = v /\ Straight
    BY <1>1, <1>3, <1>4, <1>12 DEF AuditInv
  <2>. QED BY <1>0, <1>2, <1>3, <2>1 DEF Straight, Written
<1>. QED BY <1>5, <1>6, <1>7, <1>9, <1>10, <1>11, <1>12 DEF AuditInv

\* The commit counts the event its emit wrote.
LEMMA CommitKeeps ==
    ASSUME AuditInv, Commit
    PROVE  AuditInv'
<1>. USE DEF disk
<1>0. /\ Len(log) \in Nat /\ Listed \subseteq 1 .. Len(log) /\ emits \in Nat /\ next_index \in Nat
      /\ \A i \in Listed : log[i].chain_index \in Nat
      /\ acked \in Seq(Event) /\ emits <= MaxEmits /\ MaxEmits \in Nat
      /\ AuditTypeOK /\ Linked /\ Issued /\ Appending /\ ChainHead
      /\ emitting.stage = "line" /\ up /\ emitting.event \in Event
  BY ListedEvents DEF AuditInv, AuditTypeOK, Issued, Writes, Commit
<1>1. next_index < emits /\ emitting.event.chain_index = next_index
  BY <1>0 DEF ChainHead
<1>2. /\ next_index' = next_index + 1 /\ last' = emitting.event.n /\ last' \in 1 .. MaxEmits
      /\ emitting' = NoEmit /\ emitting'.stage = "none" /\ Listed' = Listed
      /\ Writes' = stray \cup {NoEmit} /\ NoEmit \in Write /\ NoEmit.stage = "none"
      /\ UNCHANGED <<log, dirty, up, stray, emits, torn, aborted>>
  BY <1>0, <1>1 DEF Commit, NoEmit, Event, Listed, Writes, Write, Stages, Line
<1>3. AuditTypeOK'
  <2>1. next_index' \in 0 .. MaxEmits /\ last' \in 1 .. MaxEmits \cup {Genesis}
    BY <1>0, <1>1, <1>2
  <2>2. acked' \in Seq(Event)
    BY <1>0, AppendProperties DEF Commit
  <2>. QED BY <1>0, <1>2, <2>1, <2>2 DEF AuditTypeOK, Writes
<1>4. Linked'
  BY <1>0, <1>2 DEF Linked, Clear
<1>5. Issued' /\ Appending'
  <2>1. \A w \in Writes' : w.stage # "none" => w \in Writes /\ w \in stray
    BY <1>2 DEF Writes
  <2>2. Issued'
    BY <1>0, <1>2, <2>1 DEF Issued
  <2>3. \A w \in Writes' : Partial(w) => w \in Writes
    BY <2>1 DEF Partial
  <2>4. LastLine' = LastLine
    BY <1>2 DEF LastLine
  <2>. QED BY <1>0, <1>2, <2>2, <2>3, <2>4, Zenon DEF Appending, Partial
<1>6. ChainHead'
  <2>1. ASSUME NEW i \in Listed, Clear(i, Len(log)) PROVE Counted(i)'
    <3>1. CASE Counted(i)
      BY <1>0, <1>1, <1>2, <3>1 DEF Counted
    <3>2. CASE Uncounted(i)
      <4>1. log[i] = emitting.event
        BY <1>0, <3>2 DEF Uncounted
      <4>. QED BY <1>0, <1>1, <1>2, <4>1 DEF Counted
    <3>. QED BY <1>0, <2>1, <3>1, <3>2 DEF ChainHead
  <2>2. \A i : Clear(i, Len(log))' <=> Clear(i, Len(log))
    BY <1>2 DEF Clear
  <2>. QED BY <1>0, <1>1, <1>2, <2>1, <2>2 DEF ChainHead
<1>7. ASSUME ~torn' PROVE Whole'
  <2>1. Whole
    BY <1>2, <1>7 DEF AuditInv
  <2>2. PICK k \in Listed : log[k] = emitting.event
    BY <1>0, <2>1 DEF Whole
  <2>3. \A i \in 1 .. Len(acked') : \E j \in Listed : acked'[i] = log[j]
    <3>. DEFINE r == Append(acked, emitting.event)
    <3>1. /\ Len(r) = Len(acked) + 1 /\ Len(acked) \in Nat
          /\ \A i \in 1 .. Len(acked) : r[i] = acked[i]
          /\ r[Len(acked) + 1] = emitting.event
      BY <1>0, AppendProperties, LenProperties
    <3>2. acked' = r
      BY DEF Commit
    <3>. HIDE DEF r
    <3>. QED BY <2>1, <2>2, <3>1, <3>2 DEF Whole
  <2>4. \A w \in Writes : w \in Writes' \/ w = emitting
    BY <1>2 DEF Writes
  <2>5. \A w \in Writes' : w.stage \in Written => w.line = w.event
    BY <1>2, <2>1 DEF Whole, Written, Writes
  <2>. QED BY <1>0, <1>2, <2>1, <2>3, <2>4, <2>5 DEF Whole, Partial
<1>8. Straight => Straight'
  BY <1>0, <1>2 DEF Straight, Written
<1>. QED BY <1>2, <1>3, <1>4, <1>5, <1>6, <1>7, <1>8 DEF AuditInv

\* A write that ends with an error leaves the file and the chain state as they are.
LEMMA FailKeeps ==
    ASSUME AuditInv, NEW w \in Writes, WriteFails(w)
    PROVE  AuditInv'
<1>. USE DEF disk, chain
<1>0. /\ Len(log) \in Nat /\ Listed \subseteq 1 .. Len(log)
      /\ AuditTypeOK /\ Linked /\ Issued /\ Appending /\ ChainHead
      /\ up /\ w.stage \in {"signed", "head", "body"} /\ w.stage \notin {"none", "line"}
  BY ListedEvents DEF AuditInv, WriteFails
<1>1. /\ NoEmit \in Write /\ NoEmit.stage = "none" /\ GoesOn(w, NoEmit)
      /\ Listed' = Listed /\ torn' = (torn \/ Partial(w)) /\ torn' \in BOOLEAN
      /\ UNCHANGED <<log, dirty, up, next_index, last, emits, acked, aborted>>
  BY <1>0 DEF WriteFails, NoEmit, Write, Stages, Line, Listed, AuditTypeOK
<1>2. /\ \A x \in Writes' : x = NoEmit \/ (x \in Writes /\ x # w)
      /\ \A x \in Writes : x # w => x \in Writes'
      /\ \/ w = emitting /\ w \notin stray /\ emitting' = NoEmit /\ stray' = stray
         \/ /\ w \in stray /\ w # emitting /\ emitting' = emitting
            /\ \A x \in stray' : x \in stray
  BY <1>0, <1>1, OneGoesOn
<1>3. AuditTypeOK'
  BY <1>0, <1>1, <1>2 DEF AuditTypeOK
<1>4. Linked'
  BY <1>0, <1>1 DEF Linked, Clear
<1>5. Issued'
  BY <1>0, <1>1, <1>2, Zenon DEF Issued
<1>6. Appending'
  <2>1. ~Partial(NoEmit)
    BY <1>1 DEF Partial
  <2>2. \A x \in Writes' : Partial(x) => x \in Writes
    BY <1>2, <2>1
  <2>3. stray' \subseteq stray
    BY <1>2
  <2>. QED BY <1>0, <1>1, <2>2, <2>3, Zenon DEF Appending, LastLine
<1>7. ChainHead'
  <2>1. emitting' \in {emitting, NoEmit} /\ (emitting' # emitting => emitting.stage # "line")
    BY <1>0, <1>2
  <2>. QED BY <1>0, <1>1, <2>1 DEF ChainHead, Counted, Uncounted, Clear
<1>8. ASSUME ~torn' PROVE Whole' /\ (aborted' = {} => Straight')
  <2>1. Whole /\ (aborted = {} => Straight) /\ ~Partial(w)
    BY <1>1, <1>8 DEF AuditInv
  <2>2. \A x \in Writes : Partial(x) \/ x.stage = "head" => x \in Writes'
    BY <1>0, <1>2, <2>1 DEF Partial
  <2>3. \A x \in Writes' : x.stage \in Written => x.line = x.event
    BY <1>1, <1>2, <2>1 DEF Whole, Written
  <2>4. emitting'.stage = "line" => emitting' = emitting
    BY <1>1, <1>2
  <2>5. Whole'
    BY <1>1, <2>1, <2>2, <2>3, <2>4 DEF Whole
  <2>6. emitting'.stage \in Written <=> emitting.stage \in Written
    BY <1>0, <1>1, <1>2, <2>1 DEF Written, Partial
  <2>. QED BY <1>1, <2>1, <2>5, <2>6 DEF Straight
<1>. QED BY <1>3, <1>4, <1>5, <1>6, <1>7, <1>8 DEF AuditInv

\* An aborted emit marks its line, now or when it is written.
LEMMA AbortKeeps ==
    ASSUME AuditInv, EmitAborted
    PROVE  AuditInv'
<1>. USE DEF disk, chain
<1>. DEFINE own == IF Partial(emitting) THEN {Len(log)} ELSE {i \in Listed : log[i] = emitting.event}
<1>0. /\ Len(log) \in Nat /\ Listed \subseteq 1 .. Len(log)
      /\ AuditTypeOK /\ Linked /\ Issued /\ Appending /\ ChainHead
      /\ up /\ emitting.stage # "none" /\ emitting \in Write
      /\ aborted \subseteq 1 .. Len(log) /\ \A k \in aborted : k \in Nat
  BY ListedEvents DEF AuditInv, AuditTypeOK, Writes, EmitAborted
<1>1. /\ NoEmit \in Write /\ NoEmit.stage = "none" /\ emitting' = NoEmit
      /\ stray' = stray \cup (IF emitting.stage = "line" THEN {} ELSE {emitting})
      /\ aborted' = aborted \cup own /\ Listed' = Listed
      /\ UNCHANGED <<log, dirty, up, next_index, last, emits, acked, torn>>
  BY <1>0, Zenon DEF EmitAborted, NoEmit, Write, Stages, Line, Listed
<1>2. /\ own \subseteq 1 .. Len(log)
      /\ Partial(emitting) => Len(log) \in own
      /\ emitting.stage = "line" => \A i \in Listed : log[i] = emitting.event => i \in own
  <2>1. Partial(emitting) => Len(log) \in 1 .. Len(log)
    BY <1>0 DEF Appending, AuditTypeOK, Writes
  <2>. QED BY <1>0, <2>1 DEF Partial
<1>. HIDE DEF own
<1>3. /\ Writes' = stray' \cup {NoEmit} /\ Writes' \subseteq Writes \cup {NoEmit} /\ stray' \subseteq Writes
      /\ emitting.stage = "line" \/ emitting \in stray'
      /\ \A w \in Writes : w \in Writes' \/ w.stage = "line"
  BY <1>1 DEF Writes
<1>4. AuditTypeOK'
  BY <1>0, <1>1, <1>2, <1>3 DEF AuditTypeOK
<1>5. Linked'
  BY <1>0, <1>1, <1>4, LinkedKept, ListedEvents
<1>6. Issued'
  <2>1. emitting.stage \in {"signed", "head", "body", "line"}
    BY <1>0 DEF Write, Stages
  <2>2. \A w \in stray' : w.stage \in {"signed", "head", "body"}
    BY <1>0, <1>1, <2>1 DEF Issued
  <2>3. \A w \in Writes' : w = NoEmit \/ w \in Writes
    BY <1>3
  <2>. QED BY <1>0, <1>1, <2>2, <2>3, Zenon DEF Issued
<1>7. Appending'
  <2>1. ~Partial(NoEmit)
    BY <1>1 DEF Partial
  <2>2. \A w \in Writes' : Partial(w) => w \in Writes
    BY <1>3, <2>1
  <2>3. \A w \in stray' : Partial(w) => Len(log) \in aborted'
    BY <1>0, <1>1, <1>2 DEF Appending, Writes
  <2>. QED BY <1>0, <1>1, <2>2, <2>3, Zenon DEF Appending, LastLine
<1>8. ChainHead'
  <2>1. ASSUME NEW i \in Listed', Clear(i, Len(log))' PROVE Counted(i)' \/ Uncounted(i)'
    <3>1. Counted(i)' \/ Uncounted(i)
      BY <1>0, <1>1, <2>1, CountedKept
    <3>2. i \notin own
      BY <1>0, <1>1, <2>1 DEF Clear
    <3>3. ASSUME Uncounted(i) PROVE Uncounted(i)'
      <4>1. emitting.stage # "line"
        BY <1>1, <1>2, <2>1, <3>2, <3>3 DEF Uncounted
      <4>. QED BY <1>1, <3>3, <4>1 DEF Uncounted
    <3>. QED BY <3>1, <3>3
  <2>. QED BY <1>0, <1>1, <2>1 DEF ChainHead
<1>9. ASSUME ~torn' PROVE Whole' /\ (aborted' = {} => Straight')
  <2>1. Whole /\ (aborted = {} => Straight)
    BY <1>1, <1>9 DEF AuditInv
  <2>2. \A w \in Writes : Partial(w) \/ w.stage = "head" => w \in Writes'
    BY <1>3 DEF Partial
  <2>3. \A w \in Writes' : w.stage \in Written => w.line = w.event
    BY <1>1, <1>3, <2>1 DEF Whole, Written
  <2>4. Whole'
    BY <1>1, <2>1, <2>2, <2>3 DEF Whole
  <2>5. ASSUME aborted' = {} PROVE emitting.stage \notin Written
    <3>1. own = {} /\ ~Partial(emitting)
      BY <1>1, <1>2, <2>5
    <3>2. emitting.stage = "line" => \E k \in Listed : log[k] = emitting.event
      BY <2>1 DEF Whole
    <3>. QED BY <1>2, <3>1, <3>2 DEF Written, Partial
  <2>6. ASSUME aborted' = {} PROVE Straight'
    <3>1. Straight /\ emitting'.stage \notin Written /\ emitting.stage \notin Written
      BY <1>1, <2>1, <2>5, <2>6 DEF Written
    <3>. QED BY <1>1, <3>1 DEF Straight
  <2>. QED BY <2>4, <2>6
<1>. QED BY <1>4, <1>5, <1>6, <1>7, <1>8, <1>9 DEF AuditInv

\* A crash leaves the file as it is.
LEMMA CrashKeeps ==
    ASSUME AuditInv, Crash
    PROVE  AuditInv'
<1>. USE DEF disk
<1>0. /\ AuditTypeOK /\ Linked /\ Issued /\ Appending
      /\ Listed' = Listed /\ UNCHANGED <<log, dirty, emits, acked, aborted>>
      /\ NoEmit \in Write /\ NoEmit.stage = "none"
      /\ emitting' = NoEmit /\ stray' = {} /\ Writes' = {NoEmit}
      /\ ~up' /\ up' \in BOOLEAN /\ next_index' = 0 /\ last' = Genesis
      /\ torn' = (torn \/ \E w \in Writes : Partial(w)) /\ torn' \in BOOLEAN
  BY DEF Crash, NoEmit, Write, Stages, Line, Listed, Writes, AuditInv, AuditTypeOK
<1>1. AuditTypeOK'
  BY <1>0, AuditConstants DEF AuditTypeOK
<1>2. Linked'
  BY <1>0 DEF Linked, Clear
<1>3. Issued' /\ ChainHead'
  BY <1>0 DEF Issued, ChainHead
<1>4. Appending'
  BY <1>0 DEF Appending, Partial
<1>5. ASSUME ~torn' PROVE Whole' /\ (aborted' = {} => Straight')
  <2>1. Whole /\ (aborted = {} => Straight) /\ \A w \in Writes : ~Partial(w) /\ w.stage # "head"
    BY <1>0, <1>5 DEF AuditInv, Partial
  <2>2. Whole'
    BY <1>0, <2>1 DEF Whole, Written
  <2>. QED BY <1>0, <2>1, <2>2 DEF Straight
<1>. QED BY <1>1, <1>2, <1>3, <1>4, <1>5 DEF AuditInv

\* A restart counts the events of the file from the last line of an aborted emit on:
\* of those the last one has the highest index.
LEMMA OpenKeeps ==
    ASSUME AuditInv, Open
    PROVE  AuditInv'
<1>. USE DEF disk
<1>0. /\ Len(log) \in Nat /\ Listed \subseteq 1 .. Len(log) /\ emits \in Nat /\ MaxEmits \in Nat
      /\ emits <= MaxEmits
      /\ \A i \in Listed : log[i] \in Event /\ log[i].chain_index \in Nat /\ i \in Nat
      /\ AuditTypeOK /\ Linked /\ Issued /\ Appending
      /\ \A w \in Writes : w.stage = "none"
      /\ UNCHANGED <<log, dirty, emitting, stray, emits, acked, torn, aborted>>
      /\ Listed' = Listed /\ Writes' = Writes /\ up' /\ up' \in BOOLEAN
  BY ListedEvents DEF AuditInv, Issued, Open, Listed, Writes
<1>1. /\ next_index' \in Nat /\ next_index' <= emits /\ last' \in 1 .. MaxEmits \cup {Genesis}
      /\ next_index' = 0 => last' = Genesis
      /\ \A i \in Listed : Clear(i, Len(log)) => Counted(i)'
      /\ Whole /\ Straight => next_index' = Len(log)
  <2>1. CASE Listed = {}
    <3>1. next_index' = 0 /\ last' = Genesis
      BY <2>1 DEF Open, RecoverChainHead
    <3>2. Whole => Len(log) = 0
      BY <1>0, <2>1 DEF Whole
    <3>. QED BY <1>0, <2>1, <3>1, <3>2
  <2>2. CASE Listed # {}
    <3>. DEFINE m == Max(Listed)
    <3>1. m \in Listed /\ \A i \in Listed : i <= m
      BY <1>0, <2>2, LastOf
    <3>2. next_index' = log[m].chain_index + 1 /\ last' = log[m].n
      BY <2>2 DEF Open, RecoverChainHead
    <3>. HIDE DEF m
    <3>3. log[m].chain_index < emits /\ log[m].n \in 1 .. MaxEmits
      BY <1>0, <3>1 DEF Linked, Event
    <3>4. ASSUME NEW i \in Listed, Clear(i, Len(log)) PROVE Counted(i)'
      <4>0. Clear(i, m)
        <5>1. m <= Len(log) /\ m \in Nat /\ i \in Nat /\ \A k \in aborted : k \in Nat
          BY <1>0, <3>1, ListedEvents
        <5>. QED BY <1>0, <3>4, <5>1 DEF Clear
      <4>1. i = m \/ log[i].chain_index < log[m].chain_index
        BY <1>0, <3>1, <4>0 DEF Linked
      <4>. QED BY <1>0, <3>1, <3>2, <4>1 DEF Counted
    <3>5. ASSUME Whole, Straight PROVE next_index' = Len(log)
      <4>1. log # <<>> /\ Len(log) \in 1 .. Len(log)
        BY <1>0, <3>1
      <4>2. Len(log) \in Listed /\ log[m].chain_index = m - 1
        BY <1>0, <3>1, <3>5, <4>1 DEF Whole, Straight
      <4>. QED BY <1>0, <3>1, <3>2, <4>2
    <3>. QED BY <1>0, <3>1, <3>2, <3>3, <3>4, <3>5
  <2>. QED BY <2>1, <2>2
<1>2. AuditTypeOK'
  BY <1>0, <1>1 DEF AuditTypeOK
<1>3. Linked'
  BY <1>0 DEF Linked, Clear
<1>4. Issued'
  <2>1. stray = {}
    BY <1>0 DEF Issued, Writes
  <2>. QED BY <1>0, <2>1 DEF Issued
<1>5. Appending'
  BY <1>0, Zenon DEF Appending, LastLine
<1>6. ChainHead'
  <2>1. \A i : Clear(i, Len(log))' <=> Clear(i, Len(log))
    BY <1>0 DEF Clear
  <2>2. emitting'.stage = "none"
    BY <1>0 DEF Writes
  <2>. QED BY <1>0, <1>1, <2>1, <2>2 DEF ChainHead
<1>7. ASSUME ~torn' PROVE Whole' /\ (aborted' = {} => Straight')
  <2>1. Whole /\ (aborted = {} => Straight) /\ emitting.stage = "none"
    BY <1>0, <1>7 DEF AuditInv, Writes
  <2>2. Whole'
    BY <1>0, <2>1, Zenon DEF Whole, Partial
  <2>. QED BY <1>0, <1>1, <2>1, <2>2 DEF Straight, Written
<1>. QED BY <1>2, <1>3, <1>4, <1>5, <1>6, <1>7 DEF AuditInv

-----------------------------------------------------------------------------
\* What links the lines that parse: emit under the chain mutex, its failures, aborted
\* emits, crashes and recover_chain_head keep the chain state a step ahead of the file,
\* from the last line of an aborted emit on.
THEOREM AuditInvariant == AuditSpec => []AuditInv
<1>1. AuditInit => AuditInv
  <2>. SUFFICES ASSUME AuditInit PROVE AuditInv
    OBVIOUS
  <2>1. /\ Listed = {} /\ Len(log) = 0 /\ Len(acked) = 0
        /\ Writes = {NoEmit} /\ NoEmit \in Write /\ NoEmit.stage = "none"
    BY DEF AuditInit, Listed, Writes, NoEmit, Write, Stages, Line
  <2>2. AuditTypeOK
    <3>1. <<>> \in Seq(Line) /\ <<>> \in Seq(Event)
      BY EmptySeq
    <3>2. 0 \in 0 .. MaxEmits
      BY AuditConstants
    <3>. QED BY <2>1, <3>1, <3>2, Zenon DEF AuditInit, AuditTypeOK
  <2>3. Linked /\ Issued /\ Appending /\ ChainHead
    BY <2>1, AuditConstants DEF AuditInit, Linked, Issued, Appending, ChainHead, Partial
  <2>4. Whole /\ Straight
    BY <2>1 DEF AuditInit, Whole, Straight, Written
  <2>. QED BY <2>2, <2>3, <2>4 DEF AuditInv
<1>2. AuditInv /\ [AuditNext]_auditvars => AuditInv'
  <2>. SUFFICES ASSUME AuditInv, [AuditNext]_auditvars PROVE AuditInv'
    OBVIOUS
  <2>1. CASE UNCHANGED auditvars
    <3>1. /\ UNCHANGED <<log, dirty, up, next_index, last, emitting, stray, emits, acked, torn, aborted>>
          /\ Listed' = Listed /\ Writes' = Writes
      BY <2>1 DEF auditvars, Listed, Writes
    <3>2. AuditTypeOK' /\ Linked' /\ Issued'
      BY <3>1 DEF AuditInv, AuditTypeOK, Linked, Clear, Issued
    <3>3. ChainHead'
      BY <3>1 DEF AuditInv, ChainHead, Counted, Uncounted, Clear
    <3>4. Appending'
      BY <3>1, Zenon DEF AuditInv, Appending, LastLine
    <3>5. ~torn' => Whole' /\ (aborted' = {} => Straight')
      BY <3>1, Zenon DEF AuditInv, Whole, Straight
    <3>. QED BY <3>2, <3>3, <3>4, <3>5 DEF AuditInv
  <2>2. CASE OpenFails
    BY <2>1, <2>2 DEF OpenFails
  <2>. QED BY <2>1, <2>2, SignKeeps, HeadKeeps, BodyKeeps, NewlineKeeps, CommitKeeps, FailKeeps,
              AbortKeeps, CrashKeeps, OpenKeeps DEF AuditNext
<1>. QED BY <1>1, <1>2, PTL DEF AuditSpec

\* The events before one in an export, and the one it has to follow.
Before(W, i) == {j \in W : j < i}
Pred(W, i) == Max(Before(W, i))
Follows(i, m) == log[i].chain_index = log[m].chain_index + 1
Genuine(i) == log[i].chain_index = 0 => log[i].prev = Genesis

\* What the verifier finds wrong with the link of an event.
LEMMA Links ==
    ASSUME AuditTypeOK, NEW W, W \subseteq Listed, NEW i \in W
    PROVE  /\ Before(W, i) = {} =>
                 (LinkError(W, i) = "none" <=> Genuine(i))
           /\ Before(W, i) # {} =>
                 /\ Pred(W, i) \in Before(W, i) /\ \A j \in Before(W, i) : j <= Pred(W, i)
                 /\ LinkError(W, i) = "none" <=>
                       Follows(i, Pred(W, i)) /\ log[i].prev = log[Pred(W, i)].n
                 /\ LinkError(W, i) = "BrokenLink" =>
                       Follows(i, Pred(W, i)) /\ log[i].prev # log[Pred(W, i)].n
<1>1. Before(W, i) # {} => Pred(W, i) \in Before(W, i) /\ \A j \in Before(W, i) : j <= Pred(W, i)
  <2>1. Len(log) \in Nat /\ Before(W, i) \subseteq 1 .. Len(log)
    BY ListedEvents DEF Before
  <2>. QED BY <2>1, LastOf DEF Pred
<1>2. CASE Before(W, i) = {}
  BY <1>2 DEF LinkError, Before, Genuine
<1>3. CASE Before(W, i) # {}
  <2>1. LinkError(W, i) = IF ~Follows(i, Pred(W, i)) THEN "NonSequentialIndex"
                          ELSE IF log[i].prev # log[Pred(W, i)].n THEN "BrokenLink" ELSE "none"
    BY <1>3 DEF LinkError, Before, Pred, Follows
  <2>. QED BY <1>1, <1>3, <2>1
<1>. QED BY <1>2, <1>3

\* Events a reader can parse are in index order, and none has a broken link, whatever
\* writes failed and wherever the supervisor was stopped, but across the line of an
\* aborted emit.
THEOREM ListedChainUnbrokenAlways == AuditSpec => []ListedChainUnbroken
<1>1. ASSUME AuditInv PROVE ListedChainUnbroken
  <2>0. AuditTypeOK /\ Linked /\ \A i \in Listed : i \in Nat
    BY <1>1, ListedEvents DEF AuditInv
  <2>1. ASSUME NEW j \in Listed, LinkError(Listed, j) = "BrokenLink"
        PROVE  \E i \in Listed : i < j /\ ~Clear(i, j) /\ \A k \in Listed : k <= i \/ k >= j
    <3>1. Before(Listed, j) # {}
      <4>. SUFFICES ASSUME Before(Listed, j) = {} PROVE FALSE
        OBVIOUS
      <4>1. LinkError(Listed, j) = "none"
        BY <2>0, Links DEF Linked, Genuine
      <4>. QED BY <2>1, <4>1
    <3>. DEFINE m == Pred(Listed, j)
    <3>2. m \in Listed /\ m < j /\ \A k \in Listed : k < j => k <= m
      BY <2>0, <3>1, Links DEF Before
    <3>3. Follows(j, m) /\ log[j].prev # log[m].n
      BY <2>0, <2>1, <3>1, Links
    <3>. HIDE DEF m
    <3>4. ~Clear(m, j)
      BY <2>0, <3>2, <3>3 DEF Linked, Follows
    <3>5. \A k \in Listed : k <= m \/ k >= j
      BY <2>0, <3>2
    <3>. QED BY <3>2, <3>4, <3>5
  <2>. QED BY <2>0, <2>1 DEF ListedChainUnbroken, Linked
<1>. QED BY <1>1, AuditInvariant, PTL

\* A file no write of which stopped part way, and no line of which is of an aborted
\* emit, is a chain from its first line to its last.
LEMMA StraightVerifies ==
    ASSUME AuditInv, Whole, Straight, aborted = {}
    PROVE  VerifyChain(Listed)
<1>0. /\ AuditTypeOK /\ Linked /\ Len(log) \in Nat /\ Listed \subseteq 1 .. Len(log)
      /\ \A i \in Listed : i \in Nat /\ log[i].chain_index = i - 1
      /\ \A i, j : Clear(i, j)
  BY ListedEvents DEF AuditInv, Straight, Clear
<1>. SUFFICES ASSUME NEW i \in Listed PROVE LinkError(Listed, i) = "none"
  BY DEF VerifyChain
<1>1. CASE Before(Listed, i) = {}
  BY <1>0, <1>1, Links DEF Linked, Genuine
<1>2. CASE Before(Listed, i) # {}
  <2>. DEFINE m == Pred(Listed, i)
  <2>1. m \in Listed /\ m < i /\ \A j \in Listed : j < i => j <= m
    BY <1>0, <1>2, Links DEF Before
  <2>2. m = i - 1
    <3>1. i - 1 \in 1 .. Len(log) /\ i - 1 # Len(log)
      <4>1. i \in 1 .. Len(log) /\ m \in 1 .. Len(log)
        BY <1>0, <2>1, Zenon
      <4>. HIDE DEF m
      <4>. QED BY <1>0, <2>1, <4>1
    <3>2. i - 1 \in Listed
      BY <3>1 DEF Whole
    <3>. HIDE DEF m
    <3>. QED BY <1>0, <2>1, <3>2
  <2>3. Follows(i, m) /\ log[i].prev = log[m].n
    <3>1. log[i].chain_index = log[m].chain_index + 1
      BY <1>0, <2>1, <2>2
    <3>. QED BY <1>0, <2>1, <3>1, Zenon DEF Linked, Follows
  <2>. QED BY <1>0, <1>2, <2>3, Links
<1>. QED BY <1>1, <1>2

\* A set of lines of a file has a first one.
LEMMA FirstOf ==
    ASSUME NEW n \in Nat, NEW S, S \subseteq 1 .. n, S # {}
    PROVE  \E x \in S : \A y \in S : x <= y
<1>. DEFINE T == {n + 1 - s : s \in S}
<1>1. T \subseteq 1 .. n /\ T # {}
  <2>1. \A s \in S : n + 1 - s \in 1 .. n
    OBVIOUS
  <2>. QED BY <2>1, Zenon
<1>2. Max(T) \in T /\ \A t \in T : t <= Max(T)
  <2>. HIDE DEF T
  <2>. QED BY <1>1, LastOf
<1>3. PICK x \in S : Max(T) = n + 1 - x
  BY <1>2
<1>4. \A y \in S : x <= y
  <2>. TAKE y \in S
  <2>1. n + 1 - y \in T
    OBVIOUS
  <2>2. n + 1 - y <= Max(T)
    BY <1>2, <2>1
  <2>. HIDE DEF T
  <2>. QED BY <1>3, <2>2
<1>. QED BY <1>4

\* In a log that verifies the indices rise: the first event that did not rise above an
\* earlier one would have to follow one that did.
LEMMA VerifiedRises ==
    ASSUME AuditTypeOK, VerifyChain(Listed), NEW k \in Listed, NEW m \in Listed, k < m
    PROVE  log[k].chain_index < log[m].chain_index
<1>. DEFINE S == {j \in Listed : k < j /\ ~(log[k].chain_index < log[j].chain_index)}
<1>0. /\ Len(log) \in Nat /\ Listed \subseteq 1 .. Len(log)
      /\ \A j \in Listed : j \in Nat /\ log[j].chain_index \in Nat
  BY ListedEvents
<1>. SUFFICES ASSUME S # {} PROVE FALSE
  OBVIOUS
<1>1. PICK x \in S : \A y \in S : x <= y
  <2>1. S \subseteq 1 .. Len(log)
    BY <1>0
  <2>. HIDE DEF S
  <2>. QED BY <1>0, <2>1, FirstOf
<1>2. x \in Listed /\ k < x /\ ~(log[k].chain_index < log[x].chain_index)
  OBVIOUS
<1>. DEFINE p == Pred(Listed, x)
<1>3. Before(Listed, x) # {} /\ LinkError(Listed, x) = "none"
  BY <1>2 DEF Before, VerifyChain
<1>4. /\ p \in Listed /\ p < x /\ k <= p
      /\ log[x].chain_index = log[p].chain_index + 1
  BY <1>2, <1>3, Links DEF Before, Follows
<1>. HIDE DEF p
<1>5. p = k \/ log[k].chain_index < log[p].chain_index
  <2>1. p \notin S
    BY <1>0, <1>1, <1>2, <1>4
  <2>. QED BY <1>0, <1>4, <2>1
<1>. QED BY <1>0, <1>2, <1>4, <1>5

\* A window listed from a log that verifies has every event between two of its own.
LEMMA WindowConvex ==
    ASSUME AuditTypeOK, VerifyChain(Listed), NEW since \in Nat, NEW limit \in Nat,
           NEW k \in List(since, limit), NEW i \in List(since, limit),
           NEW m \in Listed, k <= m, m < i
    PROVE  m \in List(since, limit)
<1>. DEFINE from == From(since)
            Upto(x) == {j \in from : j <= x}
<1>0. /\ Len(log) \in Nat /\ Listed \subseteq 1 .. Len(log)
      /\ \A j \in Listed : j \in Nat /\ log[j].chain_index \in Nat
  BY ListedEvents
<1>1. k \in from /\ i \in from /\ Cardinality(Upto(i)) <= limit
  BY DEF List
<1>2. m \in from
  <2>1. k = m \/ log[k].chain_index < log[m].chain_index
    <3>1. k \in Listed /\ k \in Nat /\ m \in Nat
      BY <1>0, <1>1 DEF From
    <3>. QED BY <3>1, VerifiedRises
  <2>. QED BY <1>0, <1>1, <2>1 DEF From
<1>3. Cardinality(Upto(m)) <= limit
  <2>1. Upto(m) \subseteq Upto(i)
    <3>1. i \in Nat /\ m \in Nat /\ \A j \in from : j \in Nat
      BY <1>0, <1>1, <1>2 DEF From
    <3>. HIDE DEF from
    <3>. QED BY <3>1
  <2>2. IsFiniteSet(Upto(i))
    <3>1. Upto(i) \subseteq 1 .. Len(log)
      BY <1>0, Zenon DEF From
    <3>2. IsFiniteSet(1 .. Len(log))
      BY <1>0, FS_Interval
    <3>. HIDE DEF Upto
    <3>. QED BY <3>1, <3>2, FS_Subset
  <2>3. /\ Cardinality(Upto(m)) <= Cardinality(Upto(i))
        /\ Cardinality(Upto(m)) \in Nat /\ Cardinality(Upto(i)) \in Nat
    <3>. HIDE DEF Upto
    <3>. QED BY <2>1, <2>2, FS_Subset, FS_CardinalityType
  <2>. QED BY <1>1, <2>3
<1>. QED BY <1>2, <1>3 DEF List

\* A log that verifies verifies in windows: an event of the window follows the same
\* event in the window as in the log, and the first one is taken as it is.
LEMMA WindowVerifies ==
    ASSUME AuditInv, VerifyChain(Listed), NEW since \in Nat, NEW limit \in Nat
    PROVE  VerifyChain(List(since, limit))
<1>. DEFINE W == List(since, limit)
<1>0. /\ AuditTypeOK /\ Linked /\ W \subseteq Listed /\ \A j \in Listed : j \in Nat
  BY ListedEvents DEF AuditInv, List, From
<1>. SUFFICES ASSUME NEW i \in W PROVE LinkError(W, i) = "none"
  BY DEF VerifyChain
<1>1. CASE Before(W, i) = {}
  <2>1. Genuine(i)
    BY <1>0 DEF Linked, Genuine
  <2>. HIDE DEF W
  <2>. QED BY <1>0, <1>1, <2>1, Links
<1>2. CASE Before(W, i) # {}
  <2>. DEFINE k == Pred(W, i)
              m == Pred(Listed, i)
  <2>1. k \in W /\ k < i /\ \A j \in W : j < i => j <= k
    <3>. HIDE DEF W
    <3>. QED BY <1>0, <1>2, Links DEF Before
  <2>2. Before(Listed, i) # {}
    BY <1>0, <2>1 DEF Before
  <2>3. m \in Listed /\ m < i /\ \A j \in Listed : j < i => j <= m
    <3>. HIDE DEF W
    <3>. QED BY <1>0, <2>2, Links DEF Before
  <2>. HIDE DEF k, m
  <2>4. m \in W
    <3>1. k <= m
      BY <1>0, <2>1, <2>3
    <3>. QED BY <1>0, <2>1, <2>3, <3>1, WindowConvex
  <2>5. k = m
    BY <1>0, <2>1, <2>3, <2>4
  <2>6. Follows(i, m) /\ log[i].prev = log[m].n
    <3>1. LinkError(Listed, i) = "none"
      BY <1>0 DEF VerifyChain
    <3>. HIDE DEF W
    <3>. QED BY <1>0, <2>2, <3>1, Links DEF m
  <2>. HIDE DEF W
  <2>. QED BY <1>0, <1>2, <2>5, <2>6, Links DEF k
<1>. QED BY <1>1, <1>2

\* A log no write of which stopped part way has every event whose emit returned Ok, can
\* be listed while no line is being written, and verifies if no line is of an aborted
\* emit; a window listed from a log that verifies, verifies.
THEOREM GoodLogVerifiesAlways == AuditSpec => []GoodLogVerifies
<1>1. ASSUME AuditInv PROVE GoodLogVerifies
  <2>1. AuditTypeOK
    BY <1>1 DEF AuditInv
  <2>2. ASSUME ~torn
        PROVE  /\ aborted = {} => VerifyChain(Listed)
               /\ \A i \in 1 .. Len(acked) : acked[i] \in {log[k] : k \in Listed}
               /\ \A since \in 0 .. MaxEmits, limit \in 1 .. MaxEmits :
                     ListFails(since, limit) => \E w \in Writes : w.stage = "head"
    <3>1. Whole /\ (aborted = {} => Straight)
      BY <1>1, <2>2 DEF AuditInv
    <3>2. \A i \in 1 .. Len(log) : log[i] = Garbled => i \notin Listed
      BY DEF Listed
    <3>3. \A since \in 0 .. MaxEmits, limit \in 1 .. MaxEmits :
             ListFails(since, limit) => \E w \in Writes : w.stage = "head"
      BY <3>1, <3>2, Zenon DEF Whole, ListFails
    <3>4. \A i \in 1 .. Len(acked) : acked[i] \in {log[k] : k \in Listed}
      BY <3>1 DEF Whole
    <3>. QED BY <1>1, <3>1, <3>3, <3>4, StraightVerifies
  <2>3. ASSUME VerifyChain(Listed), NEW since \in 0 .. MaxEmits, NEW limit \in 1 .. MaxEmits
        PROVE  VerifyChain(List(since, limit))
    <3>1. since \in Nat /\ limit \in Nat
      BY AuditConstants
    <3>. QED BY <1>1, <2>3, <3>1, WindowVerifies
  <2>. QED BY <2>1, <2>2, <2>3 DEF GoodLogVerifies
<1>. QED BY <1>1, AuditInvariant, PTL


===============================================================================
