---------------------------- MODULE CallService ----------------------------
(***************************************************************************)
(* What the backend promises about one call to a binding, with every pool, *)
(* thread and timer abstracted away: the answer a caller gets, and whether *)
(* its statement has been executed by the DuckDB engine.                   *)
(*                                                                         *)
(*   ok        the statement was executed and its rows were returned       *)
(*   rejected  the statement was never executed and never will be          *)
(*   failed    nothing is known: the statement may have been executed, or  *)
(*             may still be executed later (a timed-out call is abandoned, *)
(*             not cancelled)                                              *)
(***************************************************************************)
CONSTANT Calls

VARIABLES
    status,     \* what the caller of each call has been told
    applied     \* whether the engine has executed the call's statement

vars == <<status, applied>>

Status == {"pending", "ok", "rejected", "failed"}

TypeOK == /\ status \in [Calls -> Status]
          /\ applied \in [Calls -> BOOLEAN]

Init == /\ status = [c \in Calls |-> "pending"]
        /\ applied = [c \in Calls |-> FALSE]

(* The engine executes a statement once, and only for a call that was not  *)
(* rejected.                                                               *)
Apply(c) ==
    /\ status[c] \in {"pending", "failed"}
    /\ ~applied[c]
    /\ applied' = [applied EXCEPT ![c] = TRUE]
    /\ UNCHANGED status

(* An answer is given once and never revised.                              *)
Answer(c, s) ==
    /\ status[c] = "pending"
    /\ s = "ok" => applied[c]
    /\ s = "rejected" => ~applied[c]
    /\ status' = [status EXCEPT ![c] = s]
    /\ UNCHANGED applied

Next == \E c \in Calls :
            \/ Apply(c)
            \/ \E s \in {"ok", "rejected", "failed"} : Answer(c, s)

Spec == Init /\ [][Next]_vars
=============================================================================
