----------------------------- MODULE Emitter -----------------------------
(***************************************************************************)
(* emitter.c: mch_emit_header_with_options and the recursion below it that *)
(* decides what is declared, and in which order.                           *)
(*                                                                         *)
(* The functions call one another; todo is what is left to do of all the   *)
(* active calls, innermost first, as pairs of a function and a type id.    *)
(* Each step carries out the first entry, which may put its own calls in   *)
(* front.  The text of a declaration is printed after its dependencies:    *)
(* the entries "define record" and "define typedef".                       *)
(***************************************************************************)
EXTENDS Btf, FiniteSets, SequencesExt, Recursion

CONSTANT NamedBases  \* the base BTFs considered: records [btf, name]

ASSUME NamedBasesAssumption ==
  \A base \in NamedBases : base.btf \in BaseBtf /\ base.name \in [Ids(base.btf) -> Nat]

VARIABLES
  btf,          \* the base BTF
  name,         \* name[id]: the name of a type, Anonymous for ""
  members,      \* members[id]: the required members of record id, {} when none was recorded
  required,     \* struct mch_type_set, as the set of its ids
  loop,         \* which of the four loops runs
  cursor,       \* the ids of its group below cursor have been handled
  todo,
  recordState,  \* ctx.record_state: 0, 1 while its dependencies are emitted, 2 when defined
  fwdState,     \* ctx.fwd_state: 0 or 1
  typedefState, \* ctx.typedef_state, as record_state
  out,          \* the declarations printed, as pairs of what and a type id
  pc,
  err

given  == <<btf, name, members, required>>
progress == <<loop, cursor>>
states == <<recordState, fwdState, typedefState>>
vars   == <<given, progress, todo, states, out, pc, err>>

Anonymous == 0

QualifierKinds == {"CONST", "VOLATILE", "RESTRICT", "TYPE_TAG", "DECL_TAG"}
TaggedKinds    == RecordKinds \cup {"FWD"}
EnumKinds      == {"ENUM", "ENUM64"}

Stages == {"allocate", "emit", "ok", "error"}
Errors == {"none", "memory", "invalid id", "typedef cycle", "declaration", "write"}
Calls  == {"forward", "enum", "soft", "hard", "record", "typedef",
           "define record", "define typedef"}

\* btf__type_by_id answers void for id 0.
KindOf(id) == IF id = Void THEN "UNKN" ELSE btf[id].kind

IsNamed(id)       == name[id] # Anonymous
IsNamedRecord(id) == btf[id].kind \in RecordKinds /\ IsNamed(id)

\* The member positions that are not pruned.
Kept(id) == {i \in MemberIndexes(btf, id) : members[id] = {} \/ i \in members[id]}

Each(call, ids) == [i \in DOMAIN ids |-> <<call, ids[i]>>]

\* The types of the members of a record.  A pruned member is skipped by the
\* code; it stands here as void, for which emit_hard_deps does nothing.
KeptTypes(id) ==
  [i \in DOMAIN btf[id].parts |-> IF i \in Kept(id) THEN btf[id].parts[i] ELSE Void]

(***************************************************************************)
(* What emit_soft_deps and emit_hard_deps do for a type: the calls they    *)
(* make, in order.  Soft: the type is only named.  Hard: its size counts.  *)
(***************************************************************************)
SoftDepsThroughTypedef(id) ==                                     \* faulty variant
  IF KindOf(id) \in {"TYPEDEF", "PTR"} THEN Each("soft", <<btf[id].type>>) ELSE <<>>

SoftDeps(id) ==
  LET kind == KindOf(id)
  IN CASE kind = "TYPEDEF"                            -> <<<<"typedef", id>>>>
       [] kind \in QualifierKinds \cup {"PTR", "ARRAY"} -> <<<<"soft", btf[id].type>>>>
       [] kind = "FUNC_PROTO" -> Each("soft", <<btf[id].type>> \o btf[id].parts)
       [] kind \in TaggedKinds -> <<<<"forward", id>>>>
       [] OTHER -> <<>>

HardDepsOfArraySoft(id) ==                                        \* faulty variant
  LET kind == KindOf(id)
  IN IF kind \in {"PTR", "ARRAY"} THEN <<<<"soft", id>>>>
     ELSE IF kind \in RecordKinds THEN <<<<"record", id>>>> ELSE <<>>

HardDeps(id) ==
  LET kind == KindOf(id)
  IN CASE kind \in {"PTR", "FUNC_PROTO"} -> <<<<"soft", id>>>>
       [] kind = "FWD"     -> <<<<"forward", id>>>>
       [] kind = "TYPEDEF" -> <<<<"hard", btf[id].type>>, <<"typedef", id>>>>
       [] kind \in QualifierKinds \cup {"ARRAY"} -> <<<<"hard", btf[id].type>>>>
       [] kind \in RecordKinds -> IF IsNamed(id) THEN <<<<"record", id>>>>
                                  ELSE Each("hard", KeptTypes(id))
       [] OTHER -> <<>>

PeelLimit == 32

AlwaysHard(id) == TRUE                                            \* faulty variant

\* The type behind the qualifiers, PeelLimit - 1 of them at most.
Peeled(id) ==
  LET next == [i \in Nat |-> IF i \in Ids(btf) /\ btf[i].kind \in QualifierKinds
                               THEN btf[i].type ELSE i]
  IN Iterate(next, id, PeelLimit - 1)[PeelLimit - 1]

\* typedef_target_needs_hard_deps: a qualifier after so many of them counts as yes.
NeedsHardDeps(id) ==
  LET last == Peeled(id)
  IN /\ last \in 0 .. Len(btf)
     /\ \/ KindOf(last) \in QualifierKinds \cup {"ARRAY"}
        \/ KindOf(last) \in RecordKinds /\ ~ IsNamed(last)

(***************************************************************************)
(* mch_emit_header_with_options: collect_emit_groups sorts the required    *)
(* ids into four groups, each in id order, and a loop goes over each.      *)
(***************************************************************************)
Loops == <<"forward", "enum", "typedef", "record">>

Group(call) ==
  {id \in required :
     LET kind == btf[id].kind
     IN CASE call = "forward" -> kind \in TaggedKinds /\ IsNamed(id)
          [] call = "enum"    -> kind \in EnumKinds
          [] call = "typedef" -> kind = "TYPEDEF"
          [] call = "record"  -> IsNamedRecord(id)}

-----------------------------------------------------------------------------
Fail(why) == pc' = "error" /\ err' = why

Begin ==
  /\ loop = 1
  /\ cursor = 1
  /\ todo = <<>>
  /\ recordState = [id \in Ids(btf) |-> 0]
  /\ fwdState = [id \in Ids(btf) |-> 0]
  /\ typedefState = [id \in Ids(btf) |-> 0]
  /\ out = <<>>
  /\ pc = "allocate"
  /\ err = "none"

Init ==
  /\ \E base \in NamedBases : btf = base.btf /\ name = base.name
  /\ members \in {m \in [Ids(btf) -> SUBSET UNION {MemberIndexes(btf, id) : id \in Ids(btf)}] :
                   \A id \in Ids(btf) : m[id] \subseteq MemberIndexes(btf, id)}
  /\ required \in SUBSET (Ids(btf) \cup {TypeCnt(btf)})
  /\ Begin

\* The three state arrays and the groups are allocated; nothing is printed yet.
Allocate ==
  /\ pc = "allocate"
  /\ \/ Fail("memory")
     \/ IF required \subseteq Ids(btf) THEN pc' = "emit" /\ UNCHANGED err
                                       ELSE Fail("invalid id")
  /\ UNCHANGED <<given, progress, todo, states, out>>

\* The body of the running loop for the next id of its group.
TakeRoot ==
  /\ pc = "emit"
  /\ todo = <<>>
  /\ loop \in DOMAIN Loops
  /\ LET left == {id \in Group(Loops[loop]) : id >= cursor}
     IN \E id \in left :
          /\ \A other \in left : id <= other
          /\ todo' = <<<<Loops[loop], id>>>>
          /\ cursor' = id + 1
  /\ UNCHANGED <<given, loop, states, out, pc, err>>

NextLoop ==
  /\ pc = "emit"
  /\ todo = <<>>
  /\ loop \in DOMAIN Loops
  /\ \A id \in Group(Loops[loop]) : id < cursor
  /\ loop' = loop + 1
  /\ cursor' = 1
  /\ UNCHANGED <<given, todo, states, out, pc, err>>

Call == Head(todo)[1]
Id   == Head(todo)[2]

\* The function call is the one to carry out, on an id that type_by_id accepts.
Doing(call) == /\ pc = "emit"
               /\ todo # <<>>
               /\ Call = call
               /\ Id \in 0 .. Len(btf)

\* The call is replaced by those it makes; it prints a declaration or nothing.
Replace(calls) == todo' = calls \o Tail(todo)
Return         == todo' = Tail(todo)
Emit(what)     == out' = Append(out, <<what, Id>>)

InvalidId ==
  /\ pc = "emit"
  /\ todo # <<>>
  /\ ~ (Id \in 0 .. Len(btf))
  /\ Fail("invalid id")
  /\ UNCHANGED <<given, progress, todo, states, out>>

FollowSoftDeps ==
  /\ Doing("soft")
  /\ Replace(SoftDeps(Id))
  /\ UNCHANGED <<given, progress, states, out, pc, err>>

FollowHardDeps ==
  /\ Doing("hard")
  /\ Replace(HardDeps(Id))
  /\ UNCHANGED <<given, progress, states, out, pc, err>>

\* emit_forward_decl, which is called for tagged kinds only.
EmitForwardDecl ==
  /\ Doing("forward")
  /\ Return
  /\ IF IsNamed(Id) /\ fwdState[Id] = 0
       THEN Emit("tag") /\ fwdState' = [fwdState EXCEPT ![Id] = 1]
       ELSE UNCHANGED <<out, fwdState>>
  /\ UNCHANGED <<given, progress, recordState, typedefState, pc, err>>

EmitEnumDefinition ==
  /\ Doing("enum")
  /\ Return
  /\ Emit("enum")
  /\ UNCHANGED <<given, progress, states, pc, err>>

\* emit_record_definition up to the loop over the members.
EnterAgain ==                                                     \* faulty variant
  /\ Doing("record")
  /\ IsNamedRecord(Id) /\ recordState[Id] # 1
  /\ recordState' = [recordState EXCEPT ![Id] = 1]
  /\ Replace(Each("hard", KeptTypes(Id)) \o <<<<"define record", Id>>>>)
  /\ UNCHANGED <<given, progress, fwdState, typedefState, out, pc, err>>

EnterRecord ==
  /\ Doing("record")
  /\ IsNamedRecord(Id) /\ recordState[Id] = 0
  /\ recordState' = [recordState EXCEPT ![Id] = 1]
  /\ Replace(Each("hard", KeptTypes(Id)) \o <<<<"define record", Id>>>>)
  /\ UNCHANGED <<given, progress, fwdState, typedefState, out, pc, err>>

\* A record that is being emitted is passed over like one that is defined.
SkipRecord ==
  /\ Doing("record")
  /\ ~ IsNamedRecord(Id) \/ recordState[Id] # 0
  /\ Return
  /\ UNCHANGED <<given, progress, states, out, pc, err>>

\* The text of a declaration fails for a declarator that is too long, an
\* invalid id or a kind without a C spelling; Declarator models how.
CannotDefine ==
  /\ Doing("define record") \/ Doing("define typedef")
  /\ Fail("declaration")
  /\ UNCHANGED <<given, progress, todo, states, out>>

DefineCountingUp ==                                                \* faulty variant
  /\ Doing("define record")
  /\ Emit("record")
  /\ recordState' = [recordState EXCEPT ![Id] = @ + 2]
  /\ Return
  /\ UNCHANGED <<given, progress, fwdState, typedefState, pc, err>>

DefineRecord ==
  /\ Doing("define record")
  /\ Emit("record")
  /\ recordState' = [recordState EXCEPT ![Id] = 2]
  /\ Return
  /\ UNCHANGED <<given, progress, fwdState, typedefState, pc, err>>

\* emit_typedef_definition up to the dependencies of its target.
EnterTypedef ==
  /\ Doing("typedef")
  /\ typedefState[Id] = 0 /\ IsNamed(Id)
  /\ typedefState' = [typedefState EXCEPT ![Id] = 1]
  /\ Replace(<<<<IF NeedsHardDeps(btf[Id].type) THEN "hard" ELSE "soft", btf[Id].type>>,
               <<"define typedef", Id>>>>)
  /\ UNCHANGED <<given, progress, recordState, fwdState, out, pc, err>>

SkipTypedef ==
  /\ Doing("typedef")
  /\ typedefState[Id] = 2 \/ (typedefState[Id] = 0 /\ ~ IsNamed(Id))
  /\ Return
  /\ UNCHANGED <<given, progress, states, out, pc, err>>

TypedefCycle ==
  /\ Doing("typedef")
  /\ typedefState[Id] = 1
  /\ Fail("typedef cycle")
  /\ UNCHANGED <<given, progress, todo, states, out>>

DefineTypedef ==
  /\ Doing("define typedef")
  /\ Emit("typedef")
  /\ typedefState' = [typedefState EXCEPT ![Id] = 2]
  /\ Return
  /\ UNCHANGED <<given, progress, recordState, fwdState, pc, err>>

\* The last lines and ferror(out).
Finish ==
  /\ pc = "emit"
  /\ loop > Len(Loops)
  /\ \/ pc' = "ok" /\ UNCHANGED err
     \/ Fail("write")
  /\ UNCHANGED <<given, progress, todo, states, out>>

Next == \/ Allocate \/ TakeRoot \/ NextLoop \/ InvalidId \/ FollowSoftDeps \/ FollowHardDeps
        \/ EmitForwardDecl \/ EmitEnumDefinition
        \/ EnterRecord \/ SkipRecord \/ DefineRecord
        \/ EnterTypedef \/ SkipTypedef \/ TypedefCycle \/ DefineTypedef
        \/ CannotDefine \/ Finish

Spec == Init /\ [][Next]_vars

\* One thread; the recursion never waits.
FairSpec == Spec /\ WF_vars(Next)
-----------------------------------------------------------------------------
(***************************************************************************)
(* What C asks for, stated without the recursion above.  A mention of a    *)
(* type asks for what has to be declared before: complete says whether the *)
(* size of the type counts there.  A pointer or a prototype asks for less, *)
(* an array and the members of a record whose body is printed in place     *)
(* always ask for complete types.  A pointer to an enum that is not        *)
(* declared is accepted by the compilers in use.                           *)
(* DemandsWithin[k] follows paths of k types.  A type made of itself with  *)
(* no name in between demands what nothing can declare; a path through     *)
(* more than 2 * Len(btf) types repeats itself.                            *)
(***************************************************************************)
\* A type, and whether it has to be complete.
Mentions == Ids(btf) \X BOOLEAN
Demandable == {"endless", "typedef", "record", "tag", "enum"} \X Ids(btf)

\* What a mention asks for, given what the mentions behind it ask for.
Asks(mention, asked) ==
  LET id == mention[1]   complete == mention[2]   t == btf[id]
      Of(S, c) == UNION {asked[<<i, c>>] : i \in S \cap Ids(btf)}
  IN CASE t.kind = "PTR"            -> Of({t.type}, FALSE)
       [] t.kind = "FUNC_PROTO"     -> Of({t.type} \cup ToSet(t.parts), FALSE)
       [] t.kind \in QualifierKinds -> Of({t.type}, complete)
       [] t.kind = "ARRAY"          -> Of({t.type}, TRUE)
       [] t.kind = "TYPEDEF"        ->
            {<<"typedef", id>>} \cup Of(IF complete THEN {t.type} ELSE {}, TRUE)
       [] t.kind \in RecordKinds    -> IF ~ IsNamed(id) THEN Of(ToSet(KeptTypes(id)), TRUE)
                                      ELSE {<<IF complete THEN "record" ELSE "tag", id>>}
       [] t.kind = "FWD"            -> {<<"tag", id>>}
       [] t.kind \in EnumKinds      -> IF complete /\ IsNamed(id) THEN {<<"enum", id>>} ELSE {}
       [] OTHER -> {}

DemandsWithin ==
  Iterate([asked \in [Mentions -> SUBSET Demandable] |-> [m \in Mentions |-> Asks(m, asked)]],
          [m \in Mentions |-> {<<"endless", m[1]>>}], 2 * Len(btf))

\* What a type can be declared as.  A record without a name is written in place.
Introduces(id) ==
  LET kind == btf[id].kind
  IN CASE kind \in EnumKinds                    -> {"enum"}
       [] kind = "TYPEDEF" /\ IsNamed(id)       -> {"typedef"}
       [] kind = "FWD" /\ IsNamed(id)           -> {"tag"}
       [] kind \in RecordKinds /\ IsNamed(id)   -> {"tag", "record"}
       [] OTHER -> {}

Declarations == UNION {Introduces(id) \X {id} : id \in Ids(btf)}

CNeeds ==
  LET demands == DemandsWithin[2 * Len(btf)]
      Of(S, complete) == UNION {demands[<<i, complete>>] : i \in S \cap Ids(btf)}
  IN [d \in Declarations |->
        CASE d[1] = "typedef" -> Of({btf[d[2]].type}, FALSE)
          [] d[1] = "record"  -> Of(ToSet(KeptTypes(d[2])), TRUE) \ {<<"tag", d[2]>>}
          [] OTHER -> {}]

\* The declarations that the required types call for; of a record, its definition.
CGoal == {d \in Declarations :
            d[2] \in required /\ (d[1] = "tag" => btf[d[2]].kind = "FWD")}

\* There is an order in which C accepts all the declarations: true of every BTF
\* that a compiler made out of C.
InSomeOrder(needs) ==
  LET Ready[n \in 0 .. Len(btf) + 1] ==
        IF n = 0 THEN {}
        ELSE LET before == Ready[n - 1]
             IN {d \in Declarations : needs[d] \subseteq before}
  IN Ready[Len(btf) + 1] = Declarations

Orderable == InSomeOrder(CNeeds)

\* A type is made of itself: no program has it, and the recursion has no end.
Endless(needs) == \E d \in Declarations : \E e \in needs[d] : e[1] = "endless"

Printed == ToSet(out)
Declared == Printed \cup {<<"tag", d[2]>> : d \in {e \in Printed : e[1] = "record"}}

TypeOK ==
  /\ required \subseteq Nat
  /\ loop \in 1 .. Len(Loops) + 1
  /\ cursor \in Nat
  /\ todo \in Seq(Calls \X Nat)
  /\ recordState \in [Ids(btf) -> 0 .. 2]
  /\ fwdState \in [Ids(btf) -> 0 .. 1]
  /\ typedefState \in [Ids(btf) -> 0 .. 2]
  /\ out \in Seq(Declarations)
  /\ pc \in Stages
  /\ err \in Errors

\* However the recursion of records, typedefs and members comes back to a type, it
\* prints one definition of it (emitter.c:557-564, 696-709; C rejects a second one).
DefinedOnce == \A j, k \in DOMAIN out : out[j] = out[k] => j = k

\* A header that is reported as good declares what its declarations mention, and
\* every required definition (SPEC.md 17.3, the return of emitter.c:876).
HeaderIsComplete ==
  pc = "ok" => CGoal \cup UNION {CNeeds[d] : d \in Declared} \subseteq Declared

\* "typedef dependency cycle" (emitter.c:700) is reported only for types that C
\* could not declare in any order, never for recursion through a pointer.
CyclesAreReal == err = "typedef cycle" => ~ Orderable

Outcome == IF pc \in {"ok", "error"} THEN pc ELSE "running"
=============================================================================
