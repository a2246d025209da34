------------------------------ MODULE Seeds ------------------------------
(***************************************************************************)
(* The loop of main.c:154-195 over the object files, with what seeds.c and *)
(* requirements.c do in it.  For each object, first every type of its BTF  *)
(* that may be a kernel type is looked up in the base BTF                  *)
(* (mch_extract_object_seeds_with_requirements), then every CO-RE          *)
(* relocation (mch_extract_core_relo_seeds_with_requirements).  A type     *)
(* that is found is added to the required set and recorded as a root; for  *)
(* a field relocation the members that its access string names are looked  *)
(* up in the base BTF too, through anonymous records where necessary, and  *)
(* recorded.  Each new root or member leaves a trace (--explain).          *)
(*                                                                         *)
(* A step is one iteration of one of the loops: the types of an object,    *)
(* its relocations, the chain of typedefs and qualifiers behind a type,    *)
(* the components of an access string, the recursion into anonymous        *)
(* records (an explicit stack here).  Recording a trace may fail.          *)
(*                                                                         *)
(* Representation.  A type has kind, name, type (the id it refers to: the  *)
(* target of a typedef, the element of an array) and members, a sequence   *)
(* of [name, type]; the enumerators of an enum are its members.  A         *)
(* relocation has type_id, field (is_field_relo_kind) and access, the      *)
(* numbers of its access string: the first is not a member, the others are *)
(* members counted from 1, and Bad is one that is not a number.  A lookup  *)
(* in the index answers what module Index shows of it.  The counters of    *)
(* --stats and the locations in traces are left out.                       *)
(***************************************************************************)
EXTENDS Recursion, Sequences, FiniteSets

CONSTANTS Inputs,       \* base BTFs and objects: [base |-> ..., objects |-> ...]
          Unnamed,      \* the empty name
          Bad,          \* an access component that cannot be parsed
          MaxChain,     \* 32 in resolve_object_type_to_base
          MaxPeel,      \* 64 in peel_access_type
          MaxNesting    \* 16 in mark_base_member_path

ASSUME LimitAssumption == MaxChain \in Nat /\ MaxPeel \in Nat /\ MaxNesting \in Nat

Member     == [name : STRING, type : Nat]
Type       == [kind : STRING, name : STRING, type : Nat, members : Seq(Member)]
Relocation == [type_id : Nat, field : BOOLEAN, access : Seq(Nat \cup {Bad})]
ObjectFile == [types : Seq(Type), relos : Seq(Relocation)]

\* What the loaders hand over; main is given at least one object.
ASSUME InputAssumption ==
    /\ Inputs \subseteq [base : Seq(Type), objects : Seq(ObjectFile) \ {<< >>}]
    /\ \A in \in Inputs : \A o \in DOMAIN in.objects : \A k \in DOMAIN in.objects[o].relos :
          LET access == in.objects[o].relos[k].access
          IN \A n \in DOMAIN access : n > 1 => access[n] # 0

VARIABLES base, objects,    \* the input
          object,           \* the object file at work
          phase,            \* "types" or "relos": which of its two loops
          item,             \* the type or relocation of that loop
          pc,
          id, depth,        \* resolve_object_type_to_base: place in the chain
          comp,             \* access components consumed
          oid, bid,         \* object_id, current_base_id of the access
          frames,           \* mark_base_member_path: [record, at] of each call
          required,         \* the type set
          roots, members,   \* the requirements
          traces,           \* requirements->traces
          err

inputs == <<base, objects>>
loop   == <<object, phase, item>>
chain  == <<id, depth>>
path   == <<comp, oid, bid, frames>>
result == <<required, roots, members, traces>>
vars   == <<inputs, loop, pc, chain, path, result, err>>

Object == objects[object]
Types  == Object.types
Relo   == Object.relos[item]
Ids(b) == 1 .. Len(b)

RecordKinds   == {"STRUCT", "UNION"}
EnumKinds     == {"ENUM", "ENUM64"}
SeedableKinds == RecordKinds \cup EnumKinds \cup {"TYPEDEF", "FWD"}
ChainKinds    == {"TYPEDEF", "VOLATILE", "CONST", "RESTRICT", "TYPE_TAG"}
PeeledKinds   == ChainKinds \cup {"DECL_TAG", "PTR", "ARRAY"}

\* Types that are looked up: named ones of a seedable kind, and anonymous enums.
Queryable(t) == t.kind \in SeedableKinds /\ (t.name # Unnamed \/ t.kind \in EnumKinds)

\* The types of the base BTF that a lookup of t is about.
Matches(t) == {i \in Ids(base) : /\ base[i].kind = t.kind /\ base[i].name = t.name
                                 /\ t.name = Unnamed => base[i].members = t.members}
Several(S) == \E i, j \in S : i # j

\* The type behind references of the given kinds, or 0 if there is none.
Behind(kinds, b, start) ==
    LET P[n \in 0 .. MaxPeel, i \in Nat] ==
          IF n = 0 \/ i \notin Ids(b) THEN 0
          ELSE IF b[i].kind \in kinds THEN P[n - 1, b[i].type]
          ELSE i
    IN P[MaxPeel, start]

\* peel_access_type
Peel(b, start) == Behind(PeeledKinds, b, start)

IsRecord(b, i) == i \in Ids(b) /\ b[i].kind \in RecordKinds

Init == /\ \E in \in Inputs : base = in.base /\ objects = in.objects
        /\ object = 1 /\ phase = "types" /\ item = 1
        /\ pc = "next"
        /\ id = 0 /\ depth = 0
        /\ comp = 0 /\ oid = 0 /\ bid = 0 /\ frames = << >>
        /\ required = {} /\ roots = {} /\ traces = << >>
        /\ members = [i \in Ids(base) |-> {}]
        /\ err = "none"

Goto(l)   == pc' = l /\ UNCHANGED err
Fail(why) == pc' = "error" /\ err' = why
NextItem  == Goto("next") /\ item' = item + 1 /\ UNCHANGED <<object, phase>>

-----------------------------------------------------------------------------
(***************************************************************************)
(* Requirements: what is recorded already leaves no second trace, and a    *)
(* trace that cannot be stored leaves nothing recorded.                    *)
(***************************************************************************)
Trace(what, i, m) == [what |-> what, id |-> i, member |-> m, object |-> object, phase |-> phase]

\* Variant: a root is traced each time it is found.
TraceEachRoot(i) == /\ roots' = roots \cup {i}
                    /\ traces' = Append(traces, Trace("root", i, 0))
                    /\ UNCHANGED members

\* mch_requirements_add_type_root, mch_requirements_add_record_member.
AddRoot(i) == /\ roots' = roots \cup {i}
              /\ traces' = IF i \in roots THEN traces ELSE Append(traces, Trace("root", i, 0))
              /\ UNCHANGED members

AddMember(i, m) ==
    /\ members' = [members EXCEPT ![i] = @ \cup {m}]
    /\ traces' = IF m \in members[i] THEN traces ELSE Append(traces, Trace("member", i, m))
    /\ UNCHANGED roots

\* A trace has to be stored and there is no memory for it.
NoMemory(recorded) == ~recorded /\ Fail("memory")

-----------------------------------------------------------------------------
\* The two loops of an object

SkipType == /\ pc = "next" /\ phase = "types"
            /\ item \in Ids(Types) /\ ~Queryable(Types[item])
            /\ NextItem
            /\ UNCHANGED <<inputs, chain, path, result>>

TakeType == /\ pc = "next" /\ phase = "types"
            /\ item \in Ids(Types) /\ Queryable(Types[item])
            /\ id' = item /\ depth' = 0
            /\ Goto("resolve")
            /\ UNCHANGED <<inputs, loop, path, result>>

TypesDone == /\ pc = "next" /\ phase = "types" /\ item > Len(Types)
             /\ phase' = "relos" /\ item' = 1
             /\ UNCHANGED <<inputs, object, pc, chain, path, result, err>>

TakeRelo == /\ pc = "next" /\ phase = "relos" /\ item \in DOMAIN Object.relos
            /\ id' = Relo.type_id /\ depth' = 0
            /\ Goto("resolve")
            /\ UNCHANGED <<inputs, loop, path, result>>

\* Variant: one object too many.
RelosDoneLate == /\ pc = "next" /\ phase = "relos" /\ item > Len(Object.relos)
                 /\ object' = object + 1 /\ phase' = "types" /\ item' = 1
                 /\ Goto("next")
                 /\ UNCHANGED <<inputs, chain, path, result>>

RelosDone == /\ pc = "next" /\ phase = "relos" /\ item > Len(Object.relos)
             /\ \/ /\ object < Len(objects)
                   /\ object' = object + 1 /\ phase' = "types" /\ item' = 1
                   /\ Goto("next")
                \/ /\ object = Len(objects)
                   /\ Goto("ok")
                   /\ UNCHANGED loop
             /\ UNCHANGED <<inputs, chain, path, result>>

-----------------------------------------------------------------------------
(***************************************************************************)
(* resolve_object_type_to_base: the first type of the chain that the base  *)
(* BTF has.  A seed may stay without one, a relocation may not.            *)
(***************************************************************************)
Current == Types[id]
Hits    == IF Queryable(Current) THEN Matches(Current) ELSE {}
Looking == pc = "resolve" /\ depth < MaxChain /\ id \in Ids(Types)

InvalidType == /\ pc = "resolve" /\ depth < MaxChain /\ id \notin Ids(Types)
               /\ Fail("invalid id")
               /\ UNCHANGED <<inputs, loop, chain, path, result>>

AmbiguousType == /\ Looking /\ Several(Hits)
                 /\ Fail("ambiguous")
                 /\ UNCHANGED <<inputs, loop, chain, path, result>>

ChainTooDeep == /\ pc = "resolve" /\ depth = MaxChain
                /\ Fail("chain")
                /\ UNCHANGED <<inputs, loop, chain, path, result>>

\* Variant: the steps are not counted.
FollowUncounted == /\ Looking /\ Hits = {} /\ Current.kind \in ChainKinds
                   /\ id' = Current.type
                   /\ UNCHANGED <<inputs, loop, pc, depth, path, result, err>>

FollowChain == /\ Looking /\ Hits = {} /\ Current.kind \in ChainKinds
               /\ id' = Current.type /\ depth' = depth + 1
               /\ UNCHANGED <<inputs, loop, pc, path, result, err>>

\* Variant: a program-local type ends the loop over the types.
StopAtLocal == /\ Looking /\ Hits = {} /\ Current.kind \notin ChainKinds /\ phase = "types"
               /\ Goto("next") /\ phase' = "relos" /\ item' = 1
               /\ UNCHANGED <<inputs, object, chain, path, result>>

ProgramLocal == /\ Looking /\ Hits = {} /\ Current.kind \notin ChainKinds /\ phase = "types"
                /\ NextItem
                /\ UNCHANGED <<inputs, chain, path, result>>

Unresolved == /\ Looking /\ Hits = {} /\ Current.kind \notin ChainKinds /\ phase = "relos"
              /\ Fail("unresolved")
              /\ UNCHANGED <<inputs, loop, chain, path, result>>

\* A seed is recorded first and added to the set then.
SeedFound ==
    /\ Looking /\ phase = "types" /\ ~Several(Hits)
    /\ \E i \in Hits : \/ /\ AddRoot(i)
                          /\ required' = required \cup {i}
                          /\ NextItem
                       \/ NoMemory(i \in roots) /\ UNCHANGED <<loop, result>>
    /\ UNCHANGED <<inputs, chain, path>>

\* A relocation's type is added to the set first.  Only a field relocation
\* with an access string has members to look up.
RootFound ==
    /\ Looking /\ phase = "relos" /\ ~Several(Hits)
    /\ \E i \in Hits :
          /\ required' = required \cup {i}
          /\ \/ NoMemory(i \in roots) /\ UNCHANGED <<loop, roots, members, traces, path>>
             \/ /\ AddRoot(i)
                /\ IF Relo.field /\ Relo.access # << >>
                     THEN /\ comp' = 0 /\ oid' = Relo.type_id /\ bid' = i
                          /\ Goto("access")
                          /\ UNCHANGED <<loop, frames>>
                     ELSE NextItem /\ UNCHANGED path
    /\ UNCHANGED <<inputs, chain>>

-----------------------------------------------------------------------------
\* record_core_relo_requirements

\* The next component, and the member of the object's record it selects.
Component == Relo.access[comp + 1]
Selected  == Types[oid].members[Component]

BadAccess == /\ pc = "access" /\ comp < Len(Relo.access) /\ Component = Bad
             /\ Fail("access")
             /\ UNCHANGED <<inputs, loop, chain, path, result>>

\* The first component is not a member.
RootAccess == /\ pc = "access" /\ comp = 0 /\ Component # Bad
              /\ comp' = 1
              /\ UNCHANGED <<inputs, loop, pc, chain, oid, bid, frames, result, err>>

Reading == pc = "access" /\ comp \in 1 .. Len(Relo.access) - 1 /\ Component # Bad
Records == IsRecord(Types, Peel(Types, oid)) /\ IsRecord(base, Peel(base, bid))

NotRecords == /\ Reading /\ ~Records
              /\ Fail("not records")
              /\ UNCHANGED <<inputs, loop, chain, path, result>>

InvalidMember == /\ Reading /\ Records
                 /\ Component > Len(Types[Peel(Types, oid)].members)
                 /\ Fail("invalid member")
                 /\ UNCHANGED <<inputs, loop, chain, path, result>>

TakeMember == /\ Reading /\ Records
              /\ Component <= Len(Types[Peel(Types, oid)].members)
              /\ oid' = Peel(Types, oid) /\ bid' = Peel(base, bid)
              /\ frames' = << [record |-> Peel(base, bid), at |-> 0] >>
              /\ Goto("member")
              /\ UNCHANGED <<inputs, loop, chain, comp, result>>

AccessDone == /\ pc = "access" /\ comp = Len(Relo.access)
              /\ NextItem
              /\ UNCHANGED <<inputs, chain, path, result>>

-----------------------------------------------------------------------------
(***************************************************************************)
(* mark_base_member_path: the member of that name in the record, or else   *)
(* in the anonymous records in it, depth first.  On the way back each      *)
(* anonymous record that led to it is recorded too.                        *)
(***************************************************************************)
Top     == frames[Len(frames)]
Callers == SubSeq(frames, 1, Len(frames) - 1)
First(S) == CHOOSE m \in S : \A n \in S : m <= n

Named(r, name) == {m \in DOMAIN base[r].members : base[r].members[m].name = name}

\* find_base_member: by name, or by position if the member has none.
Found(r) == IF Selected.name # Unnamed
              THEN Named(r, Selected.name)
              ELSE {Component} \cap DOMAIN base[r].members

\* The members that are anonymous records, and the record behind one.
Wrappers(r)   == {m \in Named(r, Unnamed) : IsRecord(base, Peel(base, base[r].members[m].type))}
Wrapped(r, m) == Peel(base, base[r].members[m].type)

\* The wrappers that the innermost call has not searched yet.
Left == IF Selected.name # Unnamed THEN {m \in Wrappers(Top.record) : m > Top.at} ELSE {}

Searching == pc = "member" /\ Len(frames) <= MaxNesting + 1

TooNested == /\ pc = "member" /\ Len(frames) > MaxNesting + 1
             /\ Fail("nesting")
             /\ UNCHANGED <<inputs, loop, chain, path, result>>

\* Record member m of record r and return to the caller, with *member_type.
Mark(r, m, type) == \/ /\ AddMember(r, m)
                       /\ required' = required \cup {r}
                       /\ bid' = type
                       /\ frames' = Callers
                       /\ Goto("unwind")
                    \/ NoMemory(m \in members[r]) /\ UNCHANGED <<bid, frames, result>>

FindMember ==
    /\ Searching /\ Found(Top.record) # {}
    /\ LET m == First(Found(Top.record))
       IN Mark(Top.record, m, base[Top.record].members[m].type)
    /\ UNCHANGED <<inputs, loop, chain, comp, oid>>

Descend ==
    /\ Searching /\ Found(Top.record) = {} /\ Left # {}
    /\ frames' = Callers \o << [Top EXCEPT !.at = First(Left)],
                              [record |-> Wrapped(Top.record, First(Left)), at |-> 0] >>
    /\ UNCHANGED <<inputs, loop, pc, chain, comp, oid, bid, result, err>>

\* Variant: a wrapper without the member ends the search.
GiveUpInWrapper == /\ Searching /\ Found(Top.record) = {} /\ Left = {}
                   /\ Fail("no member")
                   /\ UNCHANGED <<inputs, loop, chain, path, result>>

NotHere == /\ Searching /\ Found(Top.record) = {} /\ Left = {}
           /\ \/ Len(frames) = 1 /\ Fail("no member") /\ UNCHANGED frames
              \/ Len(frames) > 1 /\ frames' = Callers /\ UNCHANGED <<pc, err>>
           /\ UNCHANGED <<inputs, loop, chain, comp, oid, bid, result>>

\* Variants: the wrapper is not recorded, or not added to the set.
SkipWrapper == /\ pc = "unwind" /\ frames # << >>
               /\ frames' = Callers
               /\ UNCHANGED <<inputs, loop, pc, chain, comp, oid, bid, result, err>>

RecordWrapperOnly == /\ pc = "unwind" /\ frames # << >>
                     /\ AddMember(Top.record, Top.at) /\ frames' = Callers
                     /\ UNCHANGED <<inputs, loop, pc, chain, comp, oid, bid, required, err>>

MarkWrapper == /\ pc = "unwind" /\ frames # << >>
               /\ Mark(Top.record, Top.at, bid)
               /\ UNCHANGED <<inputs, loop, chain, comp, oid>>

MemberDone == /\ pc = "unwind" /\ frames = << >>
              /\ comp' = comp + 1 /\ oid' = Selected.type
              /\ Goto("access")
              /\ UNCHANGED <<inputs, loop, chain, bid, frames, result>>

-----------------------------------------------------------------------------
Resolve == \/ InvalidType \/ AmbiguousType \/ FollowChain \/ ChainTooDeep
           \/ ProgramLocal \/ Unresolved \/ SeedFound \/ RootFound
Access  == \/ BadAccess \/ RootAccess \/ NotRecords \/ InvalidMember \/ TakeMember \/ AccessDone
           \/ TooNested \/ FindMember \/ Descend \/ NotHere \/ MarkWrapper \/ MemberDone

Next == SkipType \/ TakeType \/ TypesDone \/ TakeRelo \/ RelosDone \/ Resolve \/ Access

Spec == Init /\ [][Next]_vars

\* The functions run in one thread and nothing in them blocks.
FairSpec == Spec /\ WF_vars(Next)

-----------------------------------------------------------------------------
TypeOK == /\ [base |-> base, objects |-> objects] \in Inputs
          /\ object \in DOMAIN objects /\ phase \in {"types", "relos"} /\ item \in Nat \ {0}
          /\ pc \in {"next", "resolve", "access", "member", "unwind", "ok", "error"}
          /\ id \in Nat /\ depth \in 0 .. MaxChain
          /\ comp \in Nat /\ oid \in Nat /\ bid \in Nat
          /\ frames \in Seq([record : Ids(base), at : Nat])
          /\ required \subseteq Ids(base) /\ roots \subseteq Ids(base)
          /\ members \in [Ids(base) -> SUBSET Nat]
          /\ \A i \in Ids(base) : members[i] \subseteq DOMAIN base[i].members
          /\ traces \in Seq([what : {"root", "member"}, id : Ids(base), member : Nat,
                             object : DOMAIN objects, phase : {"types", "relos"}])

Pruned == {i \in Ids(base) : members[i] # {}}

\* A type is in the set because it is a root or because members of it are
\* recorded, and all of those are in the set: the closure and the emitter
\* never meet recorded members of a type that is not required, and --explain
\* accounts for every seed (seeds.c:494-498, 529-533, 791-797, 937-940).
SeedsAreRequirements == pc # "error" => required = roots \cup Pruned

\* What mch_requirements_write_explanation reports as an error of its own.
Unexplained(t) == t.id \notin Ids(base) \/ (t.what = "member" /\ t.member \notin DOMAIN base[t.id].members)

\* The witness lists each root and each recorded member exactly once, however many
\* objects and relocations ask for it, and --explain can print every line of it once the
\* header is in place (requirements.c:225-233, 293-303, 341-355).
WitnessIsExact ==
    /\ \A n \in DOMAIN traces : ~ Unexplained(traces[n])
    /\ {t.id : t \in {u \in {traces[n] : n \in DOMAIN traces} : u.what = "root"}} = roots
    /\ \A i \in Ids(base) :
          {t.member : t \in {u \in {traces[n] : n \in DOMAIN traces} :
                                u.what = "member" /\ u.id = i}} = members[i]
    /\ \A m, n \in DOMAIN traces :
          /\ traces[m].what = traces[n].what /\ traces[m].id = traces[n].id
          /\ traces[m].member = traces[n].member
          => m = n

(***************************************************************************)
(* The references that a finished run is judged by: what an object's type  *)
(* id stands for in the base BTF, and what an access string selects in the *)
(* records of the header.                                                  *)
(***************************************************************************)
\* The chain of type start, and what the base BTF has of its type i.
ChainFrom(o, start) ==
    Iterate([i \in Nat |-> IF i \in Ids(o.types) /\ o.types[i].kind \in ChainKinds
                             THEN o.types[i].type ELSE 0], start, MaxChain)
KnownAs(o, i) == IF i \in Ids(o.types) /\ Queryable(o.types[i]) THEN Matches(o.types[i]) ELSE {}

Answer(o, start) ==
    LET C == ChainFrom(o, start)
    IN UNION {KnownAs(o, C[n]) : n \in {m \in 0 .. MaxChain - 1 :
                                           \A k \in 0 .. m - 1 : KnownAs(o, C[k]) = {}}}

AnswersFor(o) == UNION ({Answer(o, i) : i \in {j \in Ids(o.types) : Queryable(o.types[j])}}
                          \cup {Answer(o, o.relos[n].type_id) : n \in DOMAIN o.relos})

\* The roots of a successful run are what the objects' types and relocations
\* stand for, none of them lost to a program-local type, a failed lookup or an
\* object before it, and the order of the objects plays no part (SPEC.md 10.4;
\* seeds.c:750-801, 901-952).
RootsExact == pc = "ok" => roots = UNION {AnswersFor(objects[n]) : n \in DOMAIN objects}

Everything == [i \in Ids(base) |-> DOMAIN base[i].members]
Emitted    == [i \in Ids(base) |-> IF members[i] = {} THEN Everything[i] ELSE members[i]]

\* The types of the members that expression record.name may denote when record
\* i has the members has[i]: its own, and those of the anonymous records in it,
\* down to as many levels.
Nested(has, name, levels) ==
    LET own == [i \in Ids(base) |-> {base[i].members[m].type : m \in has[i] \cap Named(i, name)}]
        deeper == [d \in [Ids(base) -> SUBSET Nat] |->
                     [i \in Ids(base) |->
                        own[i] \cup UNION {d[Wrapped(i, m)] : m \in has[i] \cap Wrappers(i)}]]
    IN Iterate(deeper, own, levels)
Denotes(has, r, name, levels) == Nested(has, name, levels)[levels][r]

\* A value <<n, a, b>> has type a in the object and b in the header, and component
\* n + 1 is to be applied to it.
Values  == Nat \X Nat \X Nat
Bare(b, i) == Behind(ChainKinds \cup {"DECL_TAG"}, b, i)

\* The component is an index into an array, or selects a member of a record.  An
\* anonymous member is no part of the C expression, so it selects nothing in the
\* header: the member after it is looked for in the same record, one level deeper.
Apply(o, relo, has, v) ==
    LET x == Bare(o.types, v[2])
        y == Bare(base, v[3])
        c == relo.access[v[1] + 1]
    IN IF x \in Ids(o.types) /\ y \in Ids(base) /\ o.types[x].kind = "ARRAY" /\ base[y].kind = "ARRAY"
         THEN {<<v[1] + 1, o.types[x].type, base[y].type>>}
       ELSE IF IsRecord(o.types, x) /\ IsRecord(base, y) /\ c \in DOMAIN o.types[x].members
         THEN LET m == o.types[x].members[c]
              IN {<<v[1] + 1, m.type, t>> :
                    t \in IF m.name = Unnamed THEN {v[3]}
                          ELSE Denotes(has, y, m.name, MaxNesting + Len(relo.access))}
       ELSE {}

Accessed(o, relo, has, root) ==
    Iterate([V \in SUBSET Values |-> UNION {Apply(o, relo, has, v) : v \in V}],
            {<<1, relo.type_id, root>>}, Len(relo.access) - 1)

AccessCompiles(o, relo, has, root) == Accessed(o, relo, has, root)[Len(relo.access) - 1] # {}

\* Every field access of every object still compiles against the pruned records
\* of the header: no relocation removes a member that another one needs, and a
\* member found in anonymous records keeps all of them (SPEC.md:328-337).
AccessesCompile ==
    pc = "ok" => \A n \in DOMAIN objects : \A k \in DOMAIN objects[n].relos :
      LET relo == objects[n].relos[k]
      IN relo.field /\ relo.access # << >>
           => \E root \in Answer(objects[n], relo.type_id) :
                 AccessCompiles(objects[n], relo, Emitted, root)

Ambiguous  == \E i \in Ids(base) : Queryable(base[i]) /\ Several(Matches(base[i]))
Unknown    == \E n \in DOMAIN objects : \E k \in DOMAIN objects[n].relos :
                 Answer(objects[n], objects[n].relos[k].type_id) = {}
MemberLess == Selected.name # Unnamed => Denotes(Everything, bid, Selected.name, MaxNesting + 1) = {}

\* An error is reported only for its cause: "ambiguous" for two equal candidates,
\* "unresolved" for a relocation whose whole chain is unknown, "no member" when
\* no anonymous record holds the member either (seeds.c:667-674, 701-716, 608-617).
FailuresAreReal == /\ err = "ambiguous" => Ambiguous
                   /\ err = "unresolved" => Unknown
                   /\ err = "no member" => MemberLess

\* The extraction ends, also on typedefs and records that refer to themselves.
Terminates == <>(pc \in {"ok", "error"})
=============================================================================
