------------------------------ MODULE AtomicFile ------------------------------
(***************************************************************************)
(* What a client of the file operations may rely on.  The file holds the   *)
(* content of one write or is absent.  A write takes effect at one moment, *)
(* once or never; the client learns                                        *)
(*   "ok"       only after it has taken effect,                            *)
(*   "refused"  only if it never does,                                     *)
(*   "unknown"  at any time: it may still take effect later.               *)
(* A read returns what the file held at one moment while it ran.  When     *)
(* Tearing is TRUE a write may first damage the old content; when it is    *)
(* FALSE nobody ever sees a damaged file.  The file is lost with the       *)
(* workspace.                                                              *)
(***************************************************************************)
CONSTANTS Calls,      \* the calls of all clients
          Empty,      \* an absent file
          Damaged     \* the content of a file that is being overwritten

VARIABLES Tearing,    \* may a write damage the old content?
          kind,       \* "none", "write" or "read", for each call
          content,    \* what the file holds: Empty, Damaged or a writer
          applied,    \* the writes that have taken effect
          seen,       \* what a read has seen
          told,       \* what the client was told: "nothing", or as above
          returned    \* what a read returned

avars == << Tearing, kind, content, applied, seen, told, returned >>

AInit ==
    /\ Tearing \in BOOLEAN
    /\ kind = [c \in Calls |-> "none"]
    /\ content = Empty
    /\ applied = {}
    /\ seen = [c \in Calls |-> Empty]
    /\ told = [c \in Calls |-> "nothing"]
    /\ returned = [c \in Calls |-> Empty]

Begin(c, k) ==
    /\ kind[c] = "none" /\ told[c] = "nothing"
    /\ kind' = [kind EXCEPT ![c] = k]
    /\ UNCHANGED << Tearing, content, applied, seen, told, returned >>

\* Writes nobody has been told the fate of, and those whose fate is open.
Open(c) == kind[c] = "write" /\ c \notin applied /\ told[c] \in {"nothing", "unknown"}

Apply(c) ==
    /\ Open(c)
    /\ content' \in {c} \cup (IF Tearing THEN {Damaged} ELSE {})
    /\ applied' = applied \cup {c}
    /\ UNCHANGED << Tearing, kind, seen, told, returned >>

Tear(c) ==
    /\ Tearing /\ Open(c)
    /\ content' = Damaged
    /\ UNCHANGED << Tearing, kind, applied, seen, told, returned >>

Look(c) ==
    /\ kind[c] = "read" /\ told[c] \in {"nothing", "unknown"}
    /\ \E value \in {content} \cup (IF Tearing THEN {Damaged} ELSE {}) :
         seen' = [seen EXCEPT ![c] = value]
    /\ UNCHANGED << Tearing, kind, content, applied, told, returned >>

Tell(c) ==
    /\ told[c] = "nothing"
    /\ \E answer \in {"ok", "refused", "unknown"} :
         /\ kind[c] = "write" /\ answer = "ok" => c \in applied
         /\ kind[c] = "write" /\ answer = "refused" => c \notin applied
         /\ told' = [told EXCEPT ![c] = answer]
         /\ returned' = [returned EXCEPT
                ![c] = IF kind[c] = "read" /\ answer = "ok" THEN seen[c] ELSE Empty]
    /\ UNCHANGED << Tearing, kind, content, applied, seen >>

Lose ==
    /\ content' = Empty
    /\ UNCHANGED << Tearing, kind, applied, seen, told, returned >>

ANext ==
    \/ \E c \in Calls : \/ \E k \in {"write", "read"} : Begin(c, k)
                        \/ Apply(c) \/ Tear(c) \/ Look(c) \/ Tell(c)
    \/ Lose

AtomicFileSpec == AInit /\ [][ANext]_avars

=============================================================================
