----------------------------- MODULE Closure -----------------------------
(***************************************************************************)
(* closure.c: mch_compute_dependency_closure_with_options.                 *)
(*                                                                         *)
(* The caller passes the set of required ids found so far (the seeds); the *)
(* function adds to it every id that the definitions of its types need.    *)
(* A worklist holds the ids of the set in the order in which they are      *)
(* processed; it is first filled from the set in id order and then grows   *)
(* while it is consumed.  The worklist is a heap array that starts with    *)
(* max(MinCap, selected) slots and doubles when it is full; malloc and     *)
(* realloc may fail.                                                       *)
(***************************************************************************)
EXTENDS Btf, FiniteSets

CONSTANTS
  Bases,      \* the base BTFs considered
  MinCap      \* smallest capacity of a worklist: 16 in worklist_init

ASSUME BasesAssumption == Bases \subseteq BaseBtf
ASSUME MinCapAssumption == MinCap \in Nat \ {0}

VARIABLES
  btf,        \* the base BTF
  expand,     \* options->expand_pointers
  members,    \* members[id]: the required members of record id, {} when none was recorded
  seeds,      \* the set the caller passed (history)
  required,   \* struct mch_type_set, as the set of its ids
  worklist,   \* worklist.ids[0 .. len-1]
  cap,        \* worklist.cap
  cursor,     \* cursor of mch_type_set_next while the worklist is filled
  next,       \* entries of the worklist that were taken
  dep,        \* dependencies of the current type that were added
  added,      \* stats->added_types
  pc,         \* where the function is
  err         \* why it failed

inputs == <<btf, expand, members, seeds>>
vars   == <<inputs, required, worklist, cap, cursor, next, dep, added, pc, err>>

Stages == {"init", "fill", "take", "deps", "ok", "error"}
Errors == {"none", "memory", "invalid id", "missing type"}

Maximum(m, n) == IF m < n THEN n ELSE m

\* The recorded members of every record.  A record with recorded members is
\* pruned to them; the code tells it by its member set being allocated, and
\* a set is allocated only to hold a member.
MemberChoices(b) ==
  {m \in [Ids(b) -> SUBSET UNION {MemberIndexes(b, id) : id \in Ids(b)}] :
     \A id \in Ids(b) : m[id] \subseteq MemberIndexes(b, id)}

NothingPruned(id, i) == FALSE                                     \* faulty variant
Pruned(id, i) == members[id] # {} /\ i \notin members[id]

PartsWithoutType(t) == t.parts                                    \* faulty variant
\* An array and a prototype depend on their own type first, then on the parts.
TypeThenParts(t) == <<t.type>> \o t.parts

(***************************************************************************)
(* The ids that add_type_deps passes to add_dep for type id, in its order. *)
(* A pruned member is skipped by the code; it stands here as void, which   *)
(* add_dep ignores.                                                        *)
(***************************************************************************)
Deps(id) ==
  LET t == btf[id]
  IN CASE t.kind = "PTR"                     -> IF expand THEN <<t.type>> ELSE <<>>
       [] t.kind \in ReferenceKinds          -> <<t.type>>
       [] t.kind \in {"ARRAY", "FUNC_PROTO"} -> TypeThenParts(t)
       [] t.kind \in RecordKinds             ->
            [i \in DOMAIN t.parts |-> IF Pruned(id, i) THEN Void ELSE t.parts[i]]
       [] t.kind = "DATASEC"                 -> t.parts
       [] t.kind \in LeafKinds               -> <<>>

\* The type whose dependencies are being added, and the next of them.
Current == worklist[next]
NextDep == Deps(Current)[dep + 1]

\* worklist_push when it succeeds; cap is doubled first if the array is full.
Push(id) ==
  /\ worklist' = Append(worklist, id)
  /\ cap' = IF Len(worklist) = cap THEN 2 * cap ELSE cap

\* worklist_push can fail only when the array is full.
CannotGrow == Len(worklist) = cap

Fail(why) == pc' = "error" /\ err' = why

(***************************************************************************)
(* Faulty variants of the actions below, one for each mistake that the     *)
(* properties are there to exclude; they take no part in the model.        *)
(***************************************************************************)
AllocateMinimumOnly ==
  /\ pc = "init"
  /\ cap' = MinCap
  /\ pc' = "fill"
  /\ UNCHANGED <<inputs, required, worklist, cursor, next, dep, added, err>>

FillSkippingNeighbour ==
  /\ pc = "fill"
  /\ \E id \in required :
       /\ id >= cursor
       /\ \A other \in required : other >= cursor => id <= other
       /\ Push(id)
       /\ cursor' = id + 2
  /\ UNCHANGED <<inputs, required, next, dep, added, pc, err>>

SkipDepCounting ==
  /\ pc = "deps"
  /\ dep < Len(Deps(Current))
  /\ NextDep = Void \/ NextDep \in required
  /\ dep' = dep + 1
  /\ added' = added + 1
  /\ UNCHANGED <<inputs, required, worklist, cap, cursor, next, pc, err>>

RejectLastDep ==
  /\ pc = "deps"
  /\ dep < Len(Deps(Current))
  /\ NextDep >= Len(btf)
  /\ Fail("invalid id")
  /\ UNCHANGED <<inputs, required, worklist, cap, cursor, next, dep, added>>

DepsDoneTakingAgain ==
  /\ pc = "deps"
  /\ dep = Len(Deps(Current))
  /\ pc' = "take"
  /\ next' = next - 1
  /\ UNCHANGED <<inputs, required, worklist, cap, cursor, dep, added, err>>

ReturnBeforeLast ==
  /\ pc = "take"
  /\ next + 1 >= Len(worklist)
  /\ pc' = "ok"
  /\ UNCHANGED <<inputs, required, worklist, cap, cursor, next, dep, added, err>>

-----------------------------------------------------------------------------
Init ==
  /\ btf \in Bases
  /\ expand \in BOOLEAN
  /\ members \in MemberChoices(btf)
  /\ seeds \in SUBSET Ids(btf)
  /\ required = seeds
  /\ worklist = <<>>
  /\ cap = 0
  /\ cursor = 1
  /\ next = 0
  /\ dep = 0
  /\ added = 0
  /\ pc = "init"
  /\ err = "none"

Allocate ==
  /\ pc = "init"
  /\ \/ /\ cap' = Maximum(MinCap, Cardinality(required))
        /\ pc' = "fill"
        /\ UNCHANGED err
     \/ Fail("memory") /\ UNCHANGED cap
  /\ UNCHANGED <<inputs, required, worklist, cursor, next, dep, added>>

\* mch_type_set_next(required, &cursor, &id) and the push of id.
Fill ==
  /\ pc = "fill"
  /\ \E id \in required :
       /\ id >= cursor
       /\ \A other \in required : other >= cursor => id <= other
       /\ Push(id)
       /\ cursor' = id + 1
  /\ UNCHANGED <<inputs, required, next, dep, added, pc, err>>

Filled ==
  /\ pc = "fill"
  /\ \A id \in required : id < cursor
  /\ cursor' = TypeCnt(btf)
  /\ pc' = "take"
  /\ UNCHANGED <<inputs, required, worklist, cap, next, dep, added, err>>

\* current = worklist.ids[next++]; every id below btf__type_cnt has a type.
Take ==
  /\ pc = "take"
  /\ next < Len(worklist)
  /\ next' = next + 1
  /\ dep' = 0
  /\ IF worklist[next + 1] \in Ids(btf)
       THEN pc' = "deps" /\ UNCHANGED err
       ELSE Fail("missing type")
  /\ UNCHANGED <<inputs, required, worklist, cap, cursor, added>>

\* add_dep for void, and for an id that is already in the set.
SkipDep ==
  /\ pc = "deps"
  /\ dep < Len(Deps(Current))
  /\ NextDep = Void \/ NextDep \in required
  /\ dep' = dep + 1
  /\ UNCHANGED <<inputs, required, worklist, cap, cursor, next, added, pc, err>>

\* add_dep for an id that btf__type_cnt refuses.
RejectDep ==
  /\ pc = "deps"
  /\ dep < Len(Deps(Current))
  /\ NextDep >= TypeCnt(btf)
  /\ Fail("invalid id")
  /\ UNCHANGED <<inputs, required, worklist, cap, cursor, next, dep, added>>

\* add_dep for a new id: mch_type_set_add, then the push, then the count.
\* The id stays in the set when the push fails.
AddDep ==
  /\ pc = "deps"
  /\ dep < Len(Deps(Current))
  /\ NextDep \in Ids(btf) \ required
  /\ required' = required \cup {NextDep}
  /\ \/ /\ Push(NextDep)
        /\ added' = added + 1
        /\ dep' = dep + 1
        /\ UNCHANGED <<pc, err>>
     \/ /\ CannotGrow
        /\ Fail("memory")
        /\ UNCHANGED <<worklist, cap, added, dep>>
  /\ UNCHANGED <<inputs, cursor, next>>

DepsDone ==
  /\ pc = "deps"
  /\ dep = Len(Deps(Current))
  /\ pc' = "take"
  /\ UNCHANGED <<inputs, required, worklist, cap, cursor, next, dep, added, err>>

Return ==
  /\ pc = "take"
  /\ next >= Len(worklist)
  /\ pc' = "ok"
  /\ UNCHANGED <<inputs, required, worklist, cap, cursor, next, dep, added, err>>

Next == \/ Allocate \/ Fill \/ Filled \/ Take
        \/ SkipDep \/ RejectDep \/ AddDep \/ DepsDone \/ Return

Spec == Init /\ [][Next]_vars

\* The function runs in one thread and nothing in it blocks.
FairSpec == Spec /\ WF_vars(Next)
-----------------------------------------------------------------------------
(***************************************************************************)
(* Properties.  Needs says what a definition of a type refers to, as a set *)
(* and without the switch of add_type_deps: the reference the worklist is  *)
(* judged by.                                                              *)
(***************************************************************************)
NeedsType(t) == \/ t.kind \in ReferenceKinds \cup {"ARRAY", "FUNC_PROTO"}
                \/ t.kind = "PTR" /\ expand

NeedsPart(id, i) ==
  \/ btf[id].kind \in {"ARRAY", "FUNC_PROTO", "DATASEC"}
  \/ btf[id].kind \in RecordKinds /\ (members[id] = {} \/ i \in members[id])

Needs(id) ==
  LET t == btf[id]
  IN ((IF NeedsType(t) THEN {t.type} ELSE {})
        \cup {t.parts[i] : i \in {j \in DOMAIN t.parts : NeedsPart(id, j)}}) \ {Void}

\* The dependency graph, and the sets of ids that it does not lead out of.
Edges == [id \in Ids(btf) |-> Needs(id)]
Closed(S) == \A id \in S : Edges[id] \subseteq S

Entries == {worklist[k] : k \in 1 .. Len(worklist)}

TypeOK ==
  /\ btf \in Bases
  /\ expand \in BOOLEAN
  /\ members \in [Ids(btf) -> SUBSET Nat]
  /\ seeds \subseteq Ids(btf)
  /\ required \subseteq Ids(btf)
  /\ worklist \in Seq(Ids(btf))
  /\ cap \in Nat
  /\ cursor \in 1 .. TypeCnt(btf)
  /\ next \in 0 .. Len(worklist)
  /\ dep \in Nat
  /\ added \in Nat
  /\ pc \in Stages
  /\ err \in Errors

(***************************************************************************)
(* The inductive invariant: what holds between the set, the worklist and   *)
(* the two counters at every step.                                         *)
(***************************************************************************)
Distinct == \A j, k \in 1 .. Len(worklist) : worklist[j] = worklist[k] => j = k

\* Until the worklist is filled the set is what the caller passed.
FillInv ==
  /\ pc \in {"init", "fill"} => required = seeds /\ next = 0 /\ added = 0
  /\ pc = "init" => worklist = <<>> /\ cursor = 1
  /\ pc = "fill" => Entries = {id \in required : id < cursor}

\* The needs of the entries taken so far are in the set; of the current entry,
\* the dependencies before dep.
TakenInv ==
  /\ pc \in {"take", "deps", "ok"} => Entries = required
  /\ \A k \in 1 .. next :
       pc \in {"take", "ok"} \/ k < next => Edges[worklist[k]] \subseteq required
  /\ pc = "deps" => /\ next \in 1 .. Len(worklist)
                    /\ dep \in 0 .. Len(Deps(Current))
                    /\ \A j \in 1 .. dep : Deps(Current)[j] \in required \cup {Void}
  /\ pc = "ok" => next = Len(worklist)

\* At every step the set holds only what every closed set around the seeds holds:
\* pruned members and unexpanded pointers pull nothing in (closure.c:93-131).
OnlyNeeded ==
  \A S \in SUBSET Ids(btf) : seeds \subseteq S /\ Closed(S) => required \subseteq S

Inv == TypeOK /\ seeds \subseteq required /\ Distinct /\ FillInv /\ TakenInv /\ OnlyNeeded

\* A successful closure leaves nothing out: whatever a definition of a required
\* type needs is required too, however the worklist was reordered or reallocated
\* (the loop of closure.c:197-211; the header would name an undeclared type).
ClosedWhenOk == pc = "ok" => seeds \subseteq required /\ Closed(required)

\* The worklist and the set stay the same set of ids, each id taken once: the two
\* are updated apart (closure.c:77-78) and the loop reads only the worklist.
WorklistIsSet ==
  pc \in {"take", "deps", "ok"} =>
    /\ Entries = required
    /\ Distinct

\* No entry is stored past the array, and the fill never has to grow it: that is
\* why the fill of closure.c:190-195 cannot run out of memory.
FitsCapacity ==
  /\ Len(worklist) <= cap
  /\ pc = "fill" /\ (\E id \in required : id >= cursor) => Len(worklist) < cap

\* The counts printed by --stats agree with the set (closure.c:81).
CountsAreExact == pc = "ok" => Cardinality(required) = Cardinality(seeds) + added

\* "invalid type id" is reported only if a required type refers to one, and the
\* error of closure.c:202-206 is never reported (btf__type_cnt bounds the set).
FailuresAreReal ==
  /\ err = "invalid id" => \E id \in required : ~ (Edges[id] \subseteq Ids(btf))
  /\ err # "missing type"

\* The closure returns on every graph, cyclic ones included (closure.c:197).
Terminates == <>(pc \in {"ok", "error"})

\* The abstract computation that the worklist implements.
Outcome == IF pc \in {"ok", "error"} THEN pc ELSE "running"
Abstract == INSTANCE DependencyClosure
              WITH edge <- Edges, set <- required, outcome <- Outcome

\* The closure adds ids only along needs, and returns success only for a closed
\* set: every step is a step of DependencyClosure or changes nothing of it.
ImplementsClosure == Abstract!Spec
=============================================================================
