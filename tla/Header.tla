------------------------------ MODULE Header ------------------------------
(***************************************************************************)
(* What a compiler asks of a generated header (SPEC.md 14: "valid reduced  *)
(* local CO-RE header"): a declaration comes after the declarations it     *)
(* refers to, and a header that is reported as complete holds every        *)
(* declaration that was asked for.  Which declaration refers to which is   *)
(* a parameter; the order is left open.                                    *)
(***************************************************************************)
VARIABLES
  needs,      \* needs[d]: what must be declared before d; its domain is all declarations
  goal,       \* the declarations that were asked for
  declared,   \* those the header holds so far
  outcome     \* "running", "ok", "error"

Init == declared = {} /\ outcome = "running"

\* The definition of a record declares its tag as well.
WithTag(d) == {d} \cup (IF d[1] = "record" THEN {<<"tag", d[2]>>} ELSE {})

Declare(d) ==
  /\ outcome = "running"
  /\ needs[d] \subseteq declared
  /\ declared' = declared \cup WithTag(d)
  /\ UNCHANGED <<needs, goal, outcome>>

Finish ==
  /\ outcome = "running"
  /\ goal \subseteq declared
  /\ outcome' = "ok"
  /\ UNCHANGED <<needs, goal, declared>>

GiveUp ==
  /\ outcome = "running"
  /\ outcome' = "error"
  /\ UNCHANGED <<needs, goal, declared>>

Next == (\E d \in DOMAIN needs : Declare(d)) \/ Finish \/ GiveUp

Spec == Init /\ [][Next]_<<needs, goal, declared, outcome>>
=============================================================================
