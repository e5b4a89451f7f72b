------------------------------- MODULE Outcomes -------------------------------
(***************************************************************************)
(* Results of fallible code.  A function that returns early at the first   *)
(* check that fails is the sequence of its checks in the order it makes    *)
(* them: FirstFailure is its result.  Optional values are sequences of     *)
(* length at most one.                                                     *)
(***************************************************************************)
EXTENDS Naturals, Sequences

Ok == "ok"

Err(reason) == reason

Check(passes, reason) == IF passes THEN Ok ELSE Err(reason)

FirstFailure(checks) ==
    IF \A i \in DOMAIN checks : checks[i] = Ok THEN Ok
    ELSE checks[CHOOSE i \in DOMAIN checks :
                    /\ checks[i] # Ok
                    /\ \A j \in 1..(i - 1) : checks[j] = Ok]

None == <<>>

Some(value) == <<value>>

IsSome(option) == option # None

Get(option) == option[1]

=============================================================================
