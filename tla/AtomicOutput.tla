--------------------------- MODULE AtomicOutput ---------------------------
(***************************************************************************)
(* What writing a header to a path promises to whoever reads the path      *)
(* while several invocations write to it: the path changes in one step     *)
(* from what it held to the complete header of one invocation, in the step *)
(* that decides the success of that invocation, and in no other step.      *)
(***************************************************************************)
CONSTANT Run        \* the invocations

VARIABLES
  holder,           \* whose complete header the path holds, or what it held first
  result            \* result[r]: "pending", "ok", "error" or "killed"

vars == <<holder, result>>

TypeOK == result \in [Run -> {"pending", "ok", "error", "killed"}]

Init == /\ holder \notin Run
        /\ result = [r \in Run |-> "pending"]

Commit(r) == /\ result[r] = "pending"
             /\ holder' = r
             /\ result' = [result EXCEPT ![r] = "ok"]

Abort(r) == /\ result[r] = "pending"
            /\ result' = [result EXCEPT ![r] = "error"]
            /\ UNCHANGED holder

Kill(r) == /\ result[r] = "pending"
           /\ result' = [result EXCEPT ![r] = "killed"]
           /\ UNCHANGED holder

Next == \E r \in Run : Commit(r) \/ Abort(r) \/ Kill(r)

Spec == Init /\ [][Next]_vars
=============================================================================
