----------------------------- MODULE SealedStore -----------------------------
(***************************************************************************)
(* What sealing promises to its caller, without files, keys or crashes:    *)
(* a store that either holds an intact sealed copy of the snapshot or does *)
(* not, and an open that delivers the snapshot only if the store held it   *)
(* at one moment of the open.  Output files may be left partly written by  *)
(* an open that is refused.                                                *)
(***************************************************************************)
VARIABLES held,      \* an intact sealed copy is in the store
          seen,      \* what the open in progress saw when it read the seal
          outcome,   \* "idle", "opening", "opened" or "refused"
          out        \* the output files: "none", "partial" or "whole"

storeVars == <<held, seen, outcome, out>>

StoreTypeOK == /\ held \in BOOLEAN /\ seen \in BOOLEAN
               /\ outcome \in {"idle", "opening", "opened", "refused"}
               /\ out \in {"none", "partial", "whole"}

StoreInit == held = FALSE /\ seen = FALSE /\ outcome = "idle" /\ out = "none"

\* A seal commits its copy, or starts to overwrite the one that was there.
Change == held' \in BOOLEAN /\ UNCHANGED <<seen, outcome, out>>

Open == /\ outcome # "opening"
        /\ outcome' = "opening"
        /\ seen' = FALSE
        /\ UNCHANGED <<held, out>>

ReadSeal == /\ outcome = "opening"
            /\ seen' = held
            /\ UNCHANGED <<held, outcome, out>>

\* An output file is being replaced.
Spill == /\ outcome = "opening"
         /\ out' = "partial"
         /\ UNCHANGED <<held, seen, outcome>>

Deliver == /\ outcome = "opening" /\ seen
           /\ outcome' = "opened" /\ out' = "whole"
           /\ UNCHANGED <<held, seen>>

\* The open fails, or the process that was opening dies.
Refuse == /\ outcome = "opening"
          /\ outcome' \in {"refused", "idle"}
          /\ UNCHANGED <<held, seen, out>>

StoreNext == Change \/ Open \/ ReadSeal \/ Spill \/ Deliver \/ Refuse

StoreSpec == StoreInit /\ [][StoreNext]_storeVars

=============================================================================
