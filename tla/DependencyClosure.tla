---------------------- MODULE DependencyClosure ----------------------
(***************************************************************************)
(* What the dependency closure promises, whatever its worklist does: from  *)
(* the seeds, ids are added along the edges of the dependency graph, and   *)
(* the computation ends well only when nothing is missing.  It may give up *)
(* at any time, and then the set is of no use to anyone.                   *)
(***************************************************************************)
VARIABLES
  edge,              \* edge[i]: the ids that the definition of type i needs
  set,               \* the required types so far
  outcome            \* "running", "ok" or "error"

vars == <<edge, set, outcome>>

Node == DOMAIN edge  \* the type ids of the base BTF

ClosedUnder(e, S) == \A i \in S : e[i] \subseteq S

TypeOK == /\ set \subseteq Node
          /\ outcome \in {"running", "ok", "error"}

Init == /\ set \subseteq Node
        /\ outcome = "running"

\* Somebody in the set needs d.
Grow(d) == /\ outcome = "running"
           /\ d \in Node \ set
           /\ \E i \in set : d \in edge[i]
           /\ set' = set \cup {d}
           /\ UNCHANGED <<edge, outcome>>

Finish == /\ outcome = "running"
          /\ ClosedUnder(edge, set)
          /\ outcome' = "ok"
          /\ UNCHANGED <<edge, set>>

\* Giving up may leave the last id in the set: see add_dep.
GiveUp == /\ outcome = "running"
          /\ outcome' = "error"
          /\ \/ UNCHANGED set
             \/ \E d \in Node : set' = set \cup {d}
          /\ UNCHANGED edge

Next == (\E d \in Node : Grow(d)) \/ Finish \/ GiveUp

Spec == Init /\ [][Next]_vars
=============================================================================
