----------------------------- MODULE Generate -----------------------------
(***************************************************************************)
(* main.c:200-211: the closure of the seeds, then the header for the set   *)
(* the closure left.  The two components share the base BTF, the required  *)
(* members and the set; the emitter reads them and changes none.           *)
(***************************************************************************)
EXTENDS Emitter

CONSTANT MinCap      \* as in Closure

ASSUME MinCapPositive == MinCap \in Nat \ {0}

VARIABLES
  expand, seeds, worklist, cap, filled, next, dep, added, closing, failure,  \* of Closure
  asked         \* what C asks of the declarations of this BTF (for the properties)

Bases == {base.btf : base \in NamedBases}

C == INSTANCE Closure WITH cursor <- filled, pc <- closing, err <- failure

closure  == <<expand, seeds, worklist, cap, filled, next, dep, added, closing, failure, asked>>
printing == <<name, progress, todo, states, out, pc, err>>

\* Nothing is promised of types that C could not declare in any order.
Asking == asked = LET needs == CNeeds
                  IN IF InSomeOrder(needs) THEN needs ELSE [d \in Declarations |-> {}]

\* What a pointer or a prototype points at.
Pointees == UNION {{btf[id].type} \cup ToSet(btf[id].parts) :
                     id \in {i \in Ids(btf) : btf[i].kind \in {"PTR", "FUNC_PROTO"}}}

\* The type has to be complete wherever it stands, as it is printed in place.
InPlace(id) ==
  LET last == Peeled(id)
  IN /\ last \in Ids(btf)
     /\ btf[last].kind = "ARRAY" \/ (btf[last].kind \in RecordKinds /\ ~ IsNamed(last))

OfTypedef(id) == Peeled(id) \in Ids(btf) /\ btf[Peeled(id)].kind = "TYPEDEF"

\* Nothing that stands behind a pointer has to be complete: it is neither printed in
\* place nor an enum that only a typedef behind a pointer asks for.
Plain == /\ \A id \in Pointees : ~ InPlace(id)
         /\ \/ expand
            \/ \A id \in Ids(btf) : btf[id].kind \in EnumKinds => id \in seeds
            \/ \A id \in Pointees : ~ OfTypedef(id)

\* The seeds are in the set, and the two calls are to come.
Called == /\ C!Init
          /\ \E base \in NamedBases : base.btf = btf /\ name = base.name
          /\ Begin

GenerateInit == Called /\ Asking

\* The closure failed, or returned; only then is the header written.
GenerateNext == \/ C!Next /\ UNCHANGED <<printing, asked>>
                \/ closing = "ok" /\ Next /\ UNCHANGED closure

GenerateSpec == /\ GenerateInit
                /\ [][GenerateNext]_<<vars, closure>>
                /\ WF_<<vars, closure>>(GenerateNext)

\* What the seeds ask for: their own definitions.
SeedGoal == {d \in CGoal : d[2] \in seeds}

Result == IF "error" \in {closing, pc} THEN "error" ELSE Outcome

H == INSTANCE Header
       WITH needs <- asked, goal <- SeedGoal, declared <- Declared, outcome <- Result

\* From seeds to header: the closure finds every definition that the emitter will
\* need and the emitter prints them in an order C accepts, or the run fails.  The
\* two judge "needed" by different rules (closure.c:86-167, emitter.c:490-643).
GeneratesHeader == H!Spec

\* Neither component keeps the other waiting, and the recursion of the emitter
\* ends whatever cycles of typedefs and records there are (emitter.c:557-564,
\* 696-709); only a type that is made of itself is excluded.
GenerateReturns == <>(Result # "running")
=============================================================================
